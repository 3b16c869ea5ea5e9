------------------------------- MODULE Capture -------------------------------
(***************************************************************************)
(* How pictures and sound come in: the DeckLink adapter, whose card calls  *)
(* back with a picture and the sound that goes with it, the two pipes the  *)
(* adapter fills, and the thread that takes one object of each and records *)
(* the pair (ReplayIngest, or ReplayAudioIngest for a sound-only card).    *)
(* An adapter of kind "v4l2" has a polling thread instead of callbacks.    *)
(*                                                                         *)
(* Pictures are numbered in the order they are put on the pipe.  A packet  *)
(* of sound carries the number of the last picture put when it arrived.    *)
(* A full pipe holds one object less than its ring has slots (Pipe).       *)
(***************************************************************************)
EXTENDS Integers, Sequences

CONSTANTS IN_PIPE_SIZE,  \* slots of each of the two rings
          Deliveries,    \* kind of adapter -> what a callback may carry
          MaxPictures    \* bound: pictures, sounds, drops counted

ASSUME CaptureAssumption ==
    /\ IN_PIPE_SIZE \in Nat /\ IN_PIPE_SIZE > 1
    /\ MaxPictures \in Nat

VARIABLES adapter,         \* "av", "v", "a": DeckLink; "v4l2"
          started,         \* the adapter's flag, set by the ingest thread
          out_pipe, audio_pipe,
          drop_audio,      \* packets owed for pictures that were dropped
          avsync,          \* pictures put minus packets put
          callback,        \* "idle", or "audio": before the sound of a callback
          captured,        \* number of the last picture put
          ingest,          \* where the ingest thread is
          input, input_audio,  \* what it holds, 0 is nothing
          encode_suspended,
          recorded         \* the last pair written to the buffer

card == <<drop_audio, avsync, callback, captured>>
thread == <<ingest, input, input_audio>>
vars == <<adapter, started, out_pipe, audio_pipe, card, thread,
          encode_suspended, recorded>>

Kinds == {"av", "v", "a", "v4l2"}
enable_video == adapter # "a"
enable_audio == adapter \in {"av", "a"}

CanPut(pipe) == Len(pipe) < IN_PIPE_SIZE - 1

Bounded ==
    /\ captured < MaxPictures
    /\ avsync > -MaxPictures
    /\ drop_audio < MaxPictures

Init ==
    /\ adapter \in Kinds
    /\ started = FALSE
    /\ out_pipe = <<>> /\ audio_pipe = <<>>
    /\ drop_audio = 0 /\ avsync = 0 /\ callback = "idle" /\ captured = 0
    /\ ingest = "start" /\ input = 0 /\ input_audio = 0
    /\ encode_suspended = FALSE
    /\ recorded = <<0, 0>>

-----------------------------------------------------------------------------
(* The card's thread: VideoInputFrameArrived, one step for each half *)

PutPicture ==
    /\ out_pipe' = Append(out_pipe, captured + 1)
    /\ captured' = captured + 1

(* A picture that finds no place, or comes before start, is owed in sound. *)
TakePicture(owed) ==
    \/ /\ CanPut(out_pipe) /\ started
       /\ PutPicture
       /\ avsync' = avsync + 1
       /\ UNCHANGED drop_audio
    \/ /\ ~(CanPut(out_pipe) /\ started)
       /\ drop_audio' = drop_audio + owed
       /\ UNCHANGED <<out_pipe, avsync, captured>>

Arrival(d, owed) ==
    /\ adapter # "v4l2" /\ callback = "idle" /\ Bounded
    /\ \/ d # "audio" /\ enable_video /\ TakePicture(owed)
       \/ ~(d # "audio" /\ enable_video)
          /\ UNCHANGED <<out_pipe, avsync, captured, drop_audio>>
    /\ callback' = IF d # "video" /\ enable_audio THEN "audio" ELSE "idle"
    /\ UNCHANGED <<adapter, started, audio_pipe, thread, encode_suspended,
                   recorded>>

(* Mutant of FrameArrived: a dropped picture leaves its sound. *)
FrameArrivedOwingNothing(d) == Arrival(d, 0)

(* Mutant of FrameArrived: a picture dropped is counted for both fields. *)
FrameArrivedOwingTwo(d) == Arrival(d, 2)

FrameArrived(d) == Arrival(d, 1)

(* A packet is owed for a picture that was dropped, or finds a place. *)
TakeSound(paid, owed) ==
    \/ /\ drop_audio > 0
       /\ drop_audio' = drop_audio - paid
       /\ UNCHANGED <<audio_pipe, avsync>>
    \/ /\ drop_audio = 0 /\ CanPut(audio_pipe) /\ started
       /\ audio_pipe' = Append(audio_pipe, captured)
       /\ avsync' = avsync - 1
       /\ UNCHANGED drop_audio
    \/ /\ drop_audio = 0 /\ ~(CanPut(audio_pipe) /\ started)
       /\ drop_audio' = drop_audio + owed
       /\ UNCHANGED <<audio_pipe, avsync>>

SoundArrival(paid, owed) ==
    /\ callback = "audio"
    /\ callback' = "idle"
    /\ TakeSound(paid, owed)
    /\ UNCHANGED <<adapter, started, out_pipe, captured, thread,
                   encode_suspended, recorded>>

(* Mutant of SoundArrived: a packet without a place is owed, as a picture. *)
SoundArrivedOwingItself == SoundArrival(1, 1)

(* Mutant of SoundArrived: what was owed stays owed. *)
SoundArrivedStillOwing == SoundArrival(0, 0)

SoundArrived == SoundArrival(1, 0)

(* One round of V4L2UpscaledInputAdapter::run_thread, which ignores start *)
V4L2Frame ==
    /\ adapter = "v4l2" /\ Bounded
    /\ CanPut(out_pipe)
    /\ PutPicture
    /\ UNCHANGED <<adapter, started, audio_pipe, drop_audio, avsync, callback,
                   thread, encode_suspended, recorded>>

-----------------------------------------------------------------------------
(* The ingest thread *)

Start ==
    /\ ingest = "start"
    /\ started' = TRUE
    /\ ingest' = IF enable_video THEN "get_video" ELSE "get_audio"
    /\ UNCHANGED <<adapter, out_pipe, audio_pipe, card, input, input_audio,
                   encode_suspended, recorded>>

GetVideo ==
    /\ ingest = "get_video" /\ out_pipe # <<>>
    /\ input' = Head(out_pipe)
    /\ out_pipe' = Tail(out_pipe)
    /\ ingest' = IF enable_audio THEN "get_audio" ELSE "encode"
    /\ UNCHANGED <<adapter, started, audio_pipe, card, input_audio,
                   encode_suspended, recorded>>

GetAudio ==
    /\ ingest = "get_audio" /\ audio_pipe # <<>>
    /\ input_audio' = Head(audio_pipe)
    /\ audio_pipe' = Tail(audio_pipe)
    /\ ingest' = "encode"
    /\ UNCHANGED <<adapter, started, out_pipe, card, input, encode_suspended,
                   recorded>>

(* The suspended ingest takes its pairs all the same, and deletes them. *)
Encode ==
    /\ ingest = "encode"
    /\ recorded' = IF encode_suspended /\ enable_video
                   THEN recorded ELSE <<input, input_audio>>
    /\ ingest' = IF enable_video THEN "get_video" ELSE "get_audio"
    /\ input' = 0 /\ input_audio' = 0
    /\ UNCHANGED <<adapter, started, out_pipe, audio_pipe, card,
                   encode_suspended>>

(* suspend_encode and resume_encode, from the operator's thread *)
SetSuspended(s) ==
    /\ encode_suspended' = s
    /\ UNCHANGED <<adapter, started, out_pipe, audio_pipe, card, thread,
                   recorded>>

Next ==
    \/ \E d \in Deliveries[adapter] : FrameArrived(d)
    \/ SoundArrived
    \/ V4L2Frame
    \/ Start
    \/ GetVideo
    \/ GetAudio
    \/ Encode
    \/ SetSuspended(TRUE)
    \/ SetSuspended(FALSE)

Spec == Init /\ [][Next]_vars

-----------------------------------------------------------------------------
(* Properties *)

(* Types, and the pipes' capacity: an adapter never puts on a full pipe, on *)
(* which the card's thread would fall asleep (decklink.cpp:771, 801).       *)
TypeOK ==
    /\ adapter \in Kinds
    /\ started \in BOOLEAN /\ encode_suspended \in BOOLEAN
    /\ out_pipe \in Seq(1 .. captured) /\ Len(out_pipe) < IN_PIPE_SIZE
    /\ audio_pipe \in Seq(0 .. captured) /\ Len(audio_pipe) < IN_PIPE_SIZE
    /\ drop_audio \in Nat /\ avsync \in Int /\ captured \in Nat
    /\ callback \in {"idle", "audio"}
    /\ ingest \in {"start", "get_video", "get_audio", "encode"}
    /\ input \in 0 .. captured /\ input_audio \in 0 .. captured
    /\ recorded \in (0 .. captured) \X (0 .. captured)

(***************************************************************************)
(* Pictures and sound are paired by taking one of each                     *)
(* (replay_ingest.cpp:59-61), and the sound a full pipe drops while the    *)
(* ingest is between its two gets is owed by nobody.  For all that, what   *)
(* is recorded with a picture is its own sound or that of the next picture *)
(* recorded, never an earlier one and never a later one, however long      *)
(* pictures and sound are dropped.                                         *)
(***************************************************************************)
SoundWithinOne ==
    adapter = "av" => recorded[2] \in {recorded[1], recorded[1] + 1}

(***************************************************************************)
(* The ingest that holds a picture and waits for its sound is not starved  *)
(* by the adapter's bookkeeping: between two callbacks no packet is owed   *)
(* and there is room for the next picture, so the next callback brings the *)
(* sound.                                                                  *)
(***************************************************************************)
SoundWillCome ==
    (/\ adapter = "av" /\ callback = "idle"
     /\ ingest = "get_audio" /\ audio_pipe = <<>>)
        => drop_audio = 0 /\ CanPut(out_pipe)
==============================================================================
