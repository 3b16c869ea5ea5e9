------------------------------ MODULE AvpInput ------------------------------
(***************************************************************************)
(* The program that sends what a card brings to a subprocess               *)
(* (avspipe/avpinput_decklink.cpp): one sender thread takes the pictures   *)
(* from the adapter, one the sound, each filters what it took, writes it   *)
(* to a kernel's pipe and may hand it to a second card as a preview.  The  *)
(* adapter is Capture's; here no ingest thread runs.                       *)
(***************************************************************************)
EXTENDS Capture

CONSTANTS AvpAudioRoom, \* packets that fit in the kernel's pipe; a picture
                        \* is larger than a kernel's pipe
          Preroll,      \* objects sent before the first picture: 600
          PreviewSlots, \* what fits in each pipe of the preview's card
          AvpLead,      \* bound: how far the child reads one stream ahead
          AvpPictures   \* bound: pictures captured

ASSUME AvpAssumption == AvpLead \in Nat /\ Preroll \in Nat

VARIABLES avp,          \* main: "none": another program, "main", "waits", "ended"
          preroll, jpeg, preview,   \* the options -f, -j, -p
          sender,       \* SenderThread::run_thread of each stream
          preroll_frames,
          kernel,       \* records in each kernel's pipe
          ppipe,        \* objects in the preview card's pipes
          avp_child,    \* the stream the child reads, "free" or "ended"
          avp_lead      \* pictures minus packets the child asked for

options == <<preroll, jpeg, preview>>
senders == <<sender, preroll_frames, kernel, ppipe>>
avpVars == <<avp, options, senders, avp_child, avp_lead>>

Streams == {"video", "audio"}
Room == [video |-> 0, audio |-> AvpAudioRoom]

AvpRest(m) ==
    /\ avp = m
    /\ sender = [s \in Streams |-> "none"]
    /\ preroll_frames = [s \in Streams |-> 0]
    /\ kernel = [s \in Streams |-> 0]
    /\ ppipe = [s \in Streams |-> 0]
    /\ avp_child = "ended" /\ avp_lead = 0

AvpAbsent == AvpRest("none") /\ preroll = FALSE /\ jpeg = FALSE /\ preview = FALSE

AvpInit ==
    /\ Init /\ adapter = "av"
    /\ AvpRest("main")
    /\ preroll \in BOOLEAN /\ jpeg \in BOOLEAN /\ preview \in BOOLEAN

-----------------------------------------------------------------------------
(* main: start_subprocess, then the cards; either may fail, which ends the *)
(* program.  The threads run before the adapter is told to start.          *)
main ==
    /\ avp = "main"
    /\ \/ /\ avp' = "waits"
          /\ started' = TRUE
          /\ avp_child' = "free"
          /\ preroll_frames' = [s \in Streams |->
                                 IF preroll /\ ~(jpeg /\ s = "video") THEN Preroll ELSE 0]
          /\ sender' = [s \in Streams |->
                         IF preroll_frames'[s] > 0 THEN "preroll" ELSE "get"]
       \/ /\ avp' = "ended"
          /\ UNCHANGED <<started, avp_child, preroll_frames, sender>>
    /\ UNCHANGED <<adapter, out_pipe, audio_pipe, card, thread, encode_suspended,
                   recorded, options, kernel, ppipe, avp_lead>>

Runs == avp = "waits"

(* waitpid returns when the child ended; a write to it ends the program    *)
(* too, by SIGPIPE.                                                        *)
ChildIsGone ==
    /\ Runs /\ avp_child = "ended"
    /\ avp' = "ended"
    /\ UNCHANGED <<vars, options, senders, avp_child, avp_lead>>

-----------------------------------------------------------------------------
(* SenderThread and CompressorThread *)

GetThing(s) ==
    /\ Runs /\ sender[s] = "get"
    /\ \/ /\ s = "video" /\ out_pipe # <<>>
          /\ out_pipe' = Tail(out_pipe) /\ UNCHANGED audio_pipe
       \/ /\ s = "audio" /\ audio_pipe # <<>>
          /\ audio_pipe' = Tail(audio_pipe) /\ UNCHANGED out_pipe
    /\ sender' = [sender EXCEPT ![s] = "filter"]
    /\ UNCHANGED <<adapter, started, card, thread, encode_suspended, recorded, avp,
                   options, preroll_frames, kernel, ppipe, avp_child, avp_lead>>

(* The filters: CgFilter waits for a generator's next overlay, BugFilter   *)
(* and MixdownFilter compute; the compressor encodes.                      *)
filter(s) ==
    /\ Runs /\ sender[s] = "filter"
    /\ sender' = [sender EXCEPT ![s] = "write"]
    /\ UNCHANGED <<vars, avp, options, preroll_frames, kernel, ppipe, avp_child,
                   avp_lead>>

(* Where a record written leaves the thread: a prerolled one is counted, a *)
(* compressed picture is not shown on the preview.                         *)
Written(s) ==
    /\ preroll_frames' = [preroll_frames EXCEPT ![s] = IF @ > 0 THEN @ - 1 ELSE 0]
    /\ sender' = [sender EXCEPT ![s] =
                    IF preroll_frames'[s] > 0 THEN "preroll"
                    ELSE IF @ = "write" /\ preview /\ ~(jpeg /\ s = "video")
                         THEN "preview" ELSE "get"]

Writes(s) == Runs /\ sender[s] \in {"preroll", "write"}

write_to_fd(s) ==
    /\ Writes(s) /\ avp_child # "ended" /\ kernel[s] < Room[s]
    /\ kernel' = [kernel EXCEPT ![s] = @ + 1]
    /\ Written(s)
    /\ UNCHANGED <<vars, avp, options, ppipe, avp_child, avp_lead>>

PutPreview(s) ==
    /\ Runs /\ sender[s] = "preview" /\ ppipe[s] < PreviewSlots
    /\ ppipe' = [ppipe EXCEPT ![s] = @ + 1]
    /\ sender' = [sender EXCEPT ![s] = "get"]
    /\ UNCHANGED <<vars, avp, options, preroll_frames, kernel, avp_child, avp_lead>>

PreviewTakes(s) ==
    /\ Runs /\ ppipe[s] > 0
    /\ ppipe' = [ppipe EXCEPT ![s] = @ - 1]
    /\ UNCHANGED <<vars, avp, options, sender, preroll_frames, kernel, avp_child,
                   avp_lead>>

-----------------------------------------------------------------------------
(* The child, a program of the operator's *)

ChildAsks ==
    /\ Runs /\ avp_child = "free"
    /\ \/ avp_child' = "video" /\ avp_lead < AvpLead
       \/ avp_child' = "audio" /\ avp_lead > -AvpLead
    /\ avp_lead' = avp_lead + (IF avp_child' = "video" THEN 1 ELSE -1)
    /\ UNCHANGED <<vars, avp, options, senders>>

AvpChildEnds ==
    /\ Runs /\ avp_child = "free"
    /\ avp_child' = "ended"
    /\ UNCHANGED <<vars, avp, options, senders, avp_lead>>

ChildReads(s) ==
    /\ Runs /\ avp_child = s
    /\ avp_child' = "free"
    /\ \/ /\ kernel[s] > 0
          /\ kernel' = [kernel EXCEPT ![s] = @ - 1]
          /\ UNCHANGED <<sender, preroll_frames>>
       \/ /\ kernel[s] = 0 /\ Writes(s) /\ Written(s)
          /\ UNCHANGED kernel
    /\ UNCHANGED <<vars, avp, options, ppipe, avp_lead>>

-----------------------------------------------------------------------------

SenderSteps(s) == GetThing(s) \/ filter(s) \/ write_to_fd(s) \/ PutPreview(s)

CardSteps ==
    /\ avp \in {"main", "waits"}
    /\ \/ SoundArrived
       \/ captured < AvpPictures /\ \E d \in Deliveries[adapter] : FrameArrived(d)
    /\ UNCHANGED avpVars

AvpNext ==
    \/ main
    \/ ChildIsGone
    \/ CardSteps
    \/ ChildAsks
    \/ AvpChildEnds
    \/ \E s \in Streams : SenderSteps(s) \/ PreviewTakes(s) \/ ChildReads(s)

AvpSpec == AvpInit /\ [][AvpNext]_<<vars, avpVars>>

(* The card goes on calling back, the threads run, the preview's card      *)
(* plays, the child reads one stream or the other until it ends.           *)
AvpFairness ==
    /\ WF_<<vars, avpVars>>(CardSteps)
    /\ WF_<<vars, avpVars>>(ChildAsks)
    /\ \A s \in Streams : /\ WF_<<vars, avpVars>>(SenderSteps(s))
                          /\ WF_<<vars, avpVars>>(PreviewTakes(s))
                          /\ WF_<<vars, avpVars>>(ChildReads(s))

-----------------------------------------------------------------------------
(***************************************************************************)
(* The child is never starved: whichever stream it reads next comes, with  *)
(* and without preroll, preview and compression.  A picture that finds its *)
(* pipe full takes its sound with it, so a child that waits for sound      *)
(* while pictures are dropped waits for ever; a sound that finds its pipe  *)
(* full is lost for good.  What saves the child is that at most AvpLead+1  *)
(* packets can ever be lost before the sound pipe has room again, and that *)
(* with AvpLead more this is less than the picture pipe and its sender     *)
(* hold: 2 * AvpLead + 1 <= IN_PIPE_SIZE.  (At the bound on pictures the   *)
(* instance ends.)                                                         *)
(***************************************************************************)
ChildFed ==
    \A s \in Streams :
       avp_child = s ~> avp_child # s \/ avp = "ended" \/ captured = AvpPictures

(***************************************************************************)
(* Why it is not: when the child waits for sound, and there is none from   *)
(* the card's pipe to the child's, the card is between two callbacks with  *)
(* nothing owed, and the next picture finds its place, with its sound, or  *)
(* does once the sender has taken one: never are the picture pipe full and *)
(* its sender stuck with one more behind a child that does not read it.    *)
(***************************************************************************)
SoundAwaited ==
    /\ Runs /\ avp_child = "audio" /\ kernel["audio"] = 0
    /\ sender["audio"] = "get" /\ audio_pipe = <<>>

ChildNotStarved ==
    SoundAwaited /\ callback = "idle" =>
        drop_audio = 0 /\ (CanPut(out_pipe) \/ ~Writes("video"))
=============================================================================
