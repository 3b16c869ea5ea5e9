---------------------------- MODULE ReplayPlayout ----------------------------
(***************************************************************************)
(* The program output of the replay server (replay/replay_playout.cpp and  *)
(* its sources).  The operator's thread hands playout sources and speeds   *)
(* to the playout thread through two atomic pointers, with exchange; the   *)
(* playout thread reads one frame at a time from its active source, writes *)
(* the picture and the sound to the pipes of the output adapter, and falls *)
(* back to its idle source, a still picture, when a source runs out or on  *)
(* stop.  Sources are owned by whoever holds their pointer, except the     *)
(* idle source, which the object keeps for life.                           *)
(*                                                                         *)
(* Sources are numbered in the order of their creation.  What a source     *)
(* plays is a list of clips, each a number of frames: several for a        *)
(* ReplayPlayoutQueueSource, one for the others.  Filters, the monitor     *)
(* port and the position reports are left out.                             *)
(***************************************************************************)
EXTENDS Integers, Sequences

CONSTANTS ClipLists,   \* the lists of clips a source may be made of
          PipeLen,     \* objects an output pipe can hold
          MaxSources,  \* bound: sources the operator makes
          MaxSpeeds,   \* bound: speed commands
          Patient,     \* the operator gives no command while a stop is pending
          NULL

ASSUME PlayoutAssumption ==
    /\ \A list \in ClipLists : list \in Seq(Nat)
    /\ PipeLen \in Nat \ {0}
    /\ MaxSources \in Nat
    /\ MaxSpeeds \in Nat
    /\ Patient \in BOOLEAN
    /\ NULL \notin Nat

VARIABLES
    playout_source, new_speed,   \* the two atomic pointers
    (* the operator's thread *)
    opc, old_src,                \* inside set_source, and what it displaced
    made,                        \* sources made so far
    speeds,                      \* speeds commanded so far
    (* the playout thread *)
    pc, active_source, next_source, current_speed,
    frame,                       \* frame_data; NULL when video_data is NULL
    bars,                        \* the idle source's picture
    clips, rolled,               \* per source: what is left, frames read
    (* the output adapter *)
    input_pipe, audio_input_pipe,
    (* history *)
    deleted,                     \* the sources that were deleted
    ordered_at,                  \* per source: speeds when it was set
    aired,                       \* the last frame written to input_pipe
    unpaired                     \* what the output took from one pipe only

operator == <<opc, old_src, made, speeds, ordered_at>>
output == <<input_pipe, audio_input_pipe, unpaired>>
vars == <<playout_source, new_speed, operator, pc, active_source, next_source,
          current_speed, frame, bars, clips, rolled, output, deleted, aired>>

idle_source == 0
Sources == 1 .. MaxSources
Pointers == Sources \cup {idle_source, NULL}

Frame(s, n) == [src |-> s, n |-> n]
IdleFrame == Frame(idle_source, 0)

Init ==
    /\ playout_source = NULL
    /\ new_speed = NULL
    /\ opc = "idle"
    /\ old_src = NULL
    /\ made = 0
    /\ speeds = 0
    /\ pc = "take"
    /\ active_source = idle_source
    /\ next_source = NULL
    /\ current_speed = 0
    /\ frame = NULL
    /\ bars = IdleFrame
    /\ clips = [s \in Sources |-> <<>>]
    /\ rolled = [s \in Sources |-> 0]
    /\ input_pipe = <<>>
    /\ audio_input_pipe = <<>>
    /\ deleted = {}
    /\ ordered_at = [s \in Sources |-> 0]
    /\ aired = IdleFrame
    /\ unpaired = [video |-> <<>>, audio |-> <<>>]

(* The destructor of a source frees what it has not played. *)
Delete(s) ==
    /\ deleted' = deleted \cup {s}
    /\ clips' = [x \in Sources |-> IF x = s THEN <<>> ELSE clips[x]]
    /\ rolled' = [x \in Sources |-> IF x = s THEN 0 ELSE rolled[x]]

DeleteUnlessIdle(s) ==
    IF s # idle_source THEN Delete(s) ELSE UNCHANGED <<deleted, clips, rolled>>

-----------------------------------------------------------------------------
(* The operator's thread *)

MayCommand == opc = "idle" /\ (Patient => playout_source # idle_source)

(* set_source up to its exchange *)
SetSource(src) ==
    /\ old_src' = playout_source
    /\ playout_source' = src
    /\ opc' = IF playout_source # NULL THEN "delete" ELSE "idle"

(* roll_shot, avspipe_playout, lavf_playout, lavf_playout_list *)
Roll(list) ==
    /\ MayCommand
    /\ made < MaxSources
    /\ made' = made + 1
    /\ clips' = [clips EXCEPT ![made + 1] = list]
    /\ ordered_at' = [ordered_at EXCEPT ![made + 1] = speeds]
    /\ SetSource(made + 1)
    /\ UNCHANGED <<new_speed, speeds, pc, active_source, next_source,
                   current_speed, frame, bars, rolled, output, deleted, aired>>

Stop ==
    /\ MayCommand
    /\ SetSource(idle_source)
    /\ UNCHANGED <<new_speed, made, speeds, ordered_at, pc, active_source,
                   next_source, current_speed, frame, bars, clips, rolled,
                   output, deleted, aired>>

(* Mutant of DeleteOldSource: the source displaced from the slot is kept. *)
KeepOldSource ==
    /\ opc = "delete"
    /\ opc' = "idle"
    /\ old_src' = NULL
    /\ UNCHANGED <<playout_source, new_speed, made, speeds, ordered_at, pc,
                   active_source, next_source, current_speed, frame, bars,
                   clips, rolled, output, deleted, aired>>

DeleteOldSource ==
    /\ opc = "delete"
    /\ opc' = "idle"
    /\ old_src' = NULL
    /\ Delete(old_src)
    /\ UNCHANGED <<playout_source, new_speed, made, speeds, ordered_at, pc,
                   active_source, next_source, current_speed, frame, bars,
                   output, aired>>

SetSpeed ==
    /\ opc = "idle"
    /\ speeds < MaxSpeeds
    /\ speeds' = speeds + 1
    /\ new_speed' = speeds + 1
    /\ UNCHANGED <<playout_source, opc, old_src, made, ordered_at, pc,
                   active_source, next_source, current_speed, frame, bars,
                   clips, rolled, output, deleted, aired>>

-----------------------------------------------------------------------------
(* read_frame of the sources *)

(* A queue goes on to the next of its sources when one gives no video. *)
Playable(list) == SelectSeq(list, LAMBDA n : n > 0)

(* Mutant of ReadFrame: the source does not remember that it gave a frame. *)
ReadFrameWithoutCount(s) ==
    IF s = idle_source
    THEN frame' = IdleFrame /\ UNCHANGED <<clips, rolled>>
    ELSE LET left == Playable(clips[s])
         IN  /\ frame' = IF left = <<>> THEN NULL ELSE Frame(s, rolled[s] + 1)
             /\ clips' = [clips EXCEPT ![s] =
                    IF left = <<>> THEN <<>> ELSE <<Head(left) - 1>> \o Tail(left)]
             /\ UNCHANGED rolled

(* frame' is the next frame of s, or NULL at its end. *)
ReadFrame(s) ==
    IF s = idle_source
    THEN frame' = IdleFrame /\ UNCHANGED <<clips, rolled>>
    ELSE LET left == Playable(clips[s])
         IN  IF left = <<>>
             THEN /\ frame' = NULL
                  /\ clips' = [clips EXCEPT ![s] = <<>>]
                  /\ UNCHANGED rolled
             ELSE /\ frame' = Frame(s, rolled[s] + 1)
                  /\ clips' = [clips EXCEPT ![s] = <<Head(left) - 1>> \o Tail(left)]
                  /\ rolled' = [rolled EXCEPT ![s] = @ + 1]

-----------------------------------------------------------------------------
(* The playout thread: one round of run_thread *)

At(here, there) == pc = here /\ pc' = there

TakeSource ==
    /\ At("take", IF playout_source = NULL THEN "speed"
                  ELSE IF playout_source = idle_source THEN "grab" ELSE "switch")
    /\ next_source' = playout_source
    /\ playout_source' = NULL
    /\ UNCHANGED <<new_speed, operator, active_source, current_speed, frame,
                   bars, clips, rolled, output, deleted, aired>>

(* Mutant of GrabIdlePicture: the last frame read is used again. *)
GrabLastFrame ==
    /\ At("grab", "switch")
    /\ bars' = IF frame # NULL /\ active_source # idle_source THEN frame ELSE bars
    /\ UNCHANGED <<playout_source, new_speed, operator, active_source,
                   next_source, current_speed, frame, clips, rolled, output,
                   deleted, aired>>

(* On stop, one more frame of the source becomes the still picture. *)
GrabIdlePicture ==
    /\ At("grab", "switch")
    /\ ReadFrame(active_source)
    /\ bars' = IF frame' # NULL /\ active_source # idle_source THEN frame' ELSE bars
    /\ UNCHANGED <<playout_source, new_speed, operator, active_source,
                   next_source, current_speed, output, deleted, aired>>

(* Mutant of SwitchSource: the new source is not made active. *)
DropNextSource ==
    /\ At("switch", "speed")
    /\ next_source' = NULL
    /\ UNCHANGED <<playout_source, new_speed, operator, active_source,
                   current_speed, frame, bars, clips, rolled, output, deleted,
                   aired>>

SwitchSource ==
    /\ At("switch", "speed")
    /\ DeleteUnlessIdle(active_source)
    /\ active_source' = next_source
    /\ next_source' = NULL
    /\ UNCHANGED <<playout_source, new_speed, operator, current_speed, frame,
                   bars, output, aired>>

(* Mutant of TakeSpeed: the command stays in the slot until there is video. *)
TakeSpeedIfPlaying ==
    /\ At("speed", "read")
    /\ current_speed' = IF new_speed # NULL /\ frame # NULL
                        THEN new_speed ELSE current_speed
    /\ new_speed' = IF frame # NULL THEN NULL ELSE new_speed
    /\ UNCHANGED <<playout_source, operator, active_source, next_source, frame,
                   bars, clips, rolled, output, deleted, aired>>

TakeSpeed ==
    /\ At("speed", "read")
    /\ current_speed' = IF new_speed # NULL THEN new_speed ELSE current_speed
    /\ new_speed' = NULL
    /\ UNCHANGED <<playout_source, operator, active_source, next_source, frame,
                   bars, clips, rolled, output, deleted, aired>>

ReadActive ==
    /\ ReadFrame(active_source)
    /\ At("read", IF frame' # NULL THEN "video" ELSE "ended")
    /\ UNCHANGED <<playout_source, new_speed, operator, active_source,
                   next_source, current_speed, bars, output, deleted, aired>>

PutVideo ==
    /\ At("video", "audio")
    /\ Len(input_pipe) < PipeLen
    /\ input_pipe' = Append(input_pipe, frame)
    /\ aired' = frame
    /\ UNCHANGED <<playout_source, new_speed, operator, active_source,
                   next_source, current_speed, frame, bars, clips, rolled,
                   audio_input_pipe, unpaired, deleted>>

(* Mutant of PutAudio: silence is not worth a packet. *)
PutAudioUnlessIdle ==
    /\ At("audio", "take")
    /\ Len(audio_input_pipe) < PipeLen
    /\ audio_input_pipe' = IF active_source = idle_source THEN audio_input_pipe
                           ELSE Append(audio_input_pipe, frame)
    /\ UNCHANGED <<playout_source, new_speed, operator, active_source,
                   next_source, current_speed, frame, bars, clips, rolled,
                   input_pipe, unpaired, deleted, aired>>

PutAudio ==
    /\ At("audio", "take")
    /\ Len(audio_input_pipe) < PipeLen
    /\ audio_input_pipe' = Append(audio_input_pipe, frame)
    /\ UNCHANGED <<playout_source, new_speed, operator, active_source,
                   next_source, current_speed, frame, bars, clips, rolled,
                   input_pipe, unpaired, deleted, aired>>

(* No video: the source has ended, back to the idle source. *)
SourceEnded ==
    /\ At("ended", "take")
    /\ DeleteUnlessIdle(active_source)
    /\ active_source' = idle_source
    /\ UNCHANGED <<playout_source, new_speed, operator, next_source,
                   current_speed, frame, bars, output, aired>>

-----------------------------------------------------------------------------
(* The output adapter takes pictures and sound at its own pace.            *)

(* The frames taken from both pipes leave the history. *)
Paired(v, a) ==
    IF v # <<>> /\ a # <<>>
    THEN [video |-> Tail(v), audio |-> Tail(a)]
    ELSE [video |-> v, audio |-> a]

OutputTakesVideo ==
    /\ input_pipe # <<>>
    /\ input_pipe' = Tail(input_pipe)
    /\ unpaired' = Paired(Append(unpaired.video, Head(input_pipe)), unpaired.audio)
    /\ UNCHANGED <<playout_source, new_speed, operator, pc, active_source,
                   next_source, current_speed, frame, bars, clips, rolled,
                   audio_input_pipe, deleted, aired>>

OutputTakesAudio ==
    /\ audio_input_pipe # <<>>
    /\ audio_input_pipe' = Tail(audio_input_pipe)
    /\ unpaired' = Paired(unpaired.video, Append(unpaired.audio, Head(audio_input_pipe)))
    /\ UNCHANGED <<playout_source, new_speed, operator, pc, active_source,
                   next_source, current_speed, frame, bars, clips, rolled,
                   input_pipe, deleted, aired>>

-----------------------------------------------------------------------------

Operator ==
    \/ \E list \in ClipLists : Roll(list)
    \/ Stop
    \/ DeleteOldSource
    \/ SetSpeed

Playout ==
    \/ TakeSource \/ GrabIdlePicture \/ SwitchSource
    \/ TakeSpeed \/ ReadActive
    \/ PutVideo \/ PutAudio \/ SourceEnded

Next == Operator \/ Playout \/ OutputTakesVideo \/ OutputTakesAudio

Spec == Init /\ [][Next]_vars

(***************************************************************************)
(* The playout thread is scheduled, and the output keeps taking pictures   *)
(* and sound: the card asks for them at the frame rate.  Nothing obliges   *)
(* the operator, except to finish set_source.                              *)
(***************************************************************************)
FairSpec ==
    /\ Spec
    /\ WF_vars(Playout)
    /\ WF_vars(OutputTakesVideo)
    /\ WF_vars(OutputTakesAudio)
    /\ WF_vars(DeleteOldSource)

-----------------------------------------------------------------------------
(* Properties *)

(***************************************************************************)
(* Ownership of sources, with two threads passing raw pointers: a source   *)
(* is held in exactly one place until it is deleted, and in none after     *)
(* that.  So none leaks, none is deleted twice, none is read after it was  *)
(* deleted.                                                                *)
(***************************************************************************)
Holders(s) ==
    {p \in {"slot", "operator", "next", "active"} :
        \/ p = "slot" /\ playout_source = s
        \/ p = "operator" /\ opc = "delete" /\ old_src = s
        \/ p = "next" /\ next_source = s
        \/ p = "active" /\ active_source = s}

SourceOwnedOnce ==
    \A s \in 1 .. made :
        /\ s \in deleted <=> Holders(s) = {}
        /\ \A p, q \in Holders(s) : p = q

(***************************************************************************)
(* stop returns to the idle source (replay_playout.h:71-73): the source it *)
(* hands to the playout thread still exists.                               *)
(***************************************************************************)
StopReturnsToIdle == playout_source = idle_source => idle_source \notin deleted

(***************************************************************************)
(* What goes to air follows the order of the commands: the frames of one   *)
(* source come once each and in order, and no frame of a source follows a  *)
(* frame of a source that was commanded later.                             *)
(***************************************************************************)
Follows(f, g) == f.src < g.src \/ (f.src = g.src /\ f.n < g.n)

ProgramInOrder ==
    \A i, j \in DOMAIN input_pipe :
        /\ i < j
        /\ input_pipe[i].src # idle_source /\ input_pipe[j].src # idle_source
        => Follows(input_pipe[i], input_pipe[j])

(***************************************************************************)
(* The n-th packet of sound the output takes belongs to the n-th picture,  *)
(* across every change of source, stop and end of source, however far one  *)
(* pipe is drained ahead of the other.                                     *)
(***************************************************************************)
SoundFollowsPicture ==
    LET v == unpaired.video \o input_pipe
        a == unpaired.audio \o audio_input_pipe
    IN  \A i \in DOMAIN v \cap DOMAIN a : v[i] = a[i]

(***************************************************************************)
(* A speed commanded before a source was set is in force from the first    *)
(* frame of that source, although the two commands travel through separate *)
(* slots: the thread takes the source first and the speed after it.        *)
(***************************************************************************)
SpeedSetBeforeRollApplies ==
    pc = "read" /\ active_source # idle_source =>
        current_speed >= ordered_at[active_source]

(***************************************************************************)
(* The still picture of a stop continues the program: it is the frame of   *)
(* the stopped source that follows the last one that went to air.          *)
(***************************************************************************)
StillContinuesProgram ==
    [][bars' # bars =>
           /\ bars'.src = active_source
           /\ bars'.n = IF aired.src = active_source THEN aired.n + 1 ELSE 1]_vars

(***************************************************************************)
(* A command takes effect: a source in the slot becomes the active one     *)
(* unless a later command displaces it first.                              *)
(***************************************************************************)
CommandTakesEffect ==
    \A s \in Sources \cup {idle_source} :
        playout_source = s ~> active_source = s \/ s \in deleted
==============================================================================
