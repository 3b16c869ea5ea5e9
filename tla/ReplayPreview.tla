---------------------------- MODULE ReplayPreview ----------------------------
(***************************************************************************)
(* The preview of the replay server (replay/replay_preview.cpp): the       *)
(* operator's thread edits a shot under a mutex, the preview thread waits  *)
(* for an edit, reads the frame at the current position, still under the   *)
(* mutex, decodes it and puts it on the monitor port, from which the       *)
(* multiviewer (replay_multiviewer.cpp) draws at its own pace.  A position *)
(* without a frame raises ReplayFrameNotFoundException out of the locked   *)
(* section; the thread takes the mutex again to correct it, and others may *)
(* have had the mutex in between.                                          *)
(*                                                                         *)
(* The recording thread appends frames meanwhile; frames never go away.    *)
(***************************************************************************)
EXTENDS AsyncPort, Integers, Sequences

CONSTANTS Cameras,       \* the buffers a shot can be of
          MaxFrames,     \* bound: frames recorded per camera
          MaxCommands,   \* bound: commands of the operator
          Deltas         \* the distances seek is called with

ASSUME PreviewAssumption ==
    /\ MaxFrames \in Nat
    /\ MaxCommands \in Nat
    /\ Deltas \subseteq Int
    /\ MaxObjects >= 2 * MaxCommands

VARIABLES
    recorded,                              \* get_length of each buffer
    source, start, length, current_pos,    \* current_shot and the position
    update_monitor,
    asleep,                                \* the thread waits on `updated'
    ppc,                                   \* where the preview thread is
    decoded,                               \* the picture it is about to put
    picture,                               \* what each object on the port shows
    commands

shot == <<source, start, length>>
previewVars == <<recorded, shot, current_pos, update_monitor, asleep, ppc,
                 decoded, picture, commands, port>>

NoSource == "none"
Pictures == [camera : Cameras \cup {NoSource}, pos : Int]
NoPicture == [camera |-> NoSource, pos |-> 0]

Valid(c, pos) == pos >= 0 /\ pos < recorded[c]

(* update_monitor and current_pos start out uninitialised. *)
PreviewInit ==
    /\ recorded = [c \in Cameras |-> 0]
    /\ source = NoSource
    /\ start = 0
    /\ length = 0
    /\ current_pos = 0
    /\ update_monitor \in BOOLEAN
    /\ asleep = FALSE
    /\ ppc = "wait"
    /\ decoded = NoPicture
    /\ picture = [o \in Objects |-> NoPicture]
    /\ commands = 0
    /\ PortInit

-----------------------------------------------------------------------------

(* The recording thread publishes another frame. *)
Record(c) ==
    /\ recorded[c] < MaxFrames
    /\ recorded' = [recorded EXCEPT ![c] = @ + 1]
    /\ UNCHANGED <<shot, current_pos, update_monitor, asleep, ppc, decoded,
                   picture, commands, port>>

-----------------------------------------------------------------------------
(* The operator: change_shot, seek, mark_in, mark_out under the mutex. *)

Command ==
    /\ commands < MaxCommands
    /\ commands' = commands + 1

(* make_shot(0, END): the start of a shot "now", -1 in an empty buffer. *)
BufferEnd(c) == recorded[c] - 1

(* A new shot starts now, or at a frame an older shot or a client names. *)
ChangeShot(c, pos) ==
    /\ Command
    /\ pos \in 0 .. MaxFrames \cup {BufferEnd(c)}
    /\ source' = c
    /\ start' = pos
    /\ length' = 0
    /\ current_pos' = pos
    /\ update_monitor' = TRUE
    /\ asleep' = FALSE
    /\ UNCHANGED <<recorded, ppc, decoded, picture, port>>

(* Mutant of Seek: the waiting thread is not signalled. *)
SeekWithoutSignal(delta) ==
    /\ Command
    /\ current_pos' = current_pos + delta
    /\ update_monitor' = TRUE
    /\ UNCHANGED <<recorded, shot, asleep, ppc, decoded, picture, port>>

Seek(delta) ==
    /\ Command
    /\ current_pos' = current_pos + delta
    /\ update_monitor' = TRUE
    /\ asleep' = FALSE
    /\ UNCHANGED <<recorded, shot, ppc, decoded, picture, port>>

MarkIn ==
    /\ Command
    /\ start' = current_pos
    /\ UNCHANGED <<recorded, source, length, current_pos, update_monitor,
                   asleep, ppc, decoded, picture, port>>

(* Before the mark in it throws IllegalMarkOutError and changes nothing. *)
MarkOut ==
    /\ Command
    /\ current_pos > start
    /\ length' = current_pos - start
    /\ UNCHANGED <<recorded, source, start, current_pos, update_monitor,
                   asleep, ppc, decoded, picture, port>>

-----------------------------------------------------------------------------
(* The preview thread *)

Waits == ~update_monitor \/ source = NoSource

SleepForUpdate ==
    /\ ppc = "wait"
    /\ ~asleep
    /\ Waits
    /\ asleep' = TRUE
    /\ UNCHANGED <<recorded, shot, current_pos, update_monitor, ppc, decoded,
                   picture, commands, port>>

SpuriousWakeup ==
    /\ asleep
    /\ asleep' = FALSE
    /\ UNCHANGED <<recorded, shot, current_pos, update_monitor, ppc, decoded,
                   picture, commands, port>>

(* The end of wait_update: read_frame gives the frame or throws. *)
ReadPosition ==
    /\ ppc = "wait"
    /\ ~asleep
    /\ ~Waits
    /\ update_monitor' = FALSE
    /\ \/ /\ Valid(source, current_pos)
          /\ decoded' = [camera |-> source, pos |-> current_pos]
          /\ ppc' = "decode"
       \/ /\ ~Valid(source, current_pos)
          /\ ppc' = "find"
          /\ UNCHANGED decoded
    /\ UNCHANGED <<recorded, shot, current_pos, asleep, picture, commands, port>>

(* Mutant of FindClosestValidFrame: no new reading is asked for. *)
FindWithoutUpdate ==
    /\ ppc = "find"
    /\ current_pos' = IF current_pos < 0 THEN 0 ELSE BufferEnd(source)
    /\ ppc' = "wait"
    /\ UNCHANGED <<recorded, shot, update_monitor, asleep, decoded, picture,
                   commands, port>>

FindClosestValidFrame ==
    /\ ppc = "find"
    /\ current_pos' = IF current_pos < 0 THEN 0 ELSE BufferEnd(source)
    /\ update_monitor' = TRUE
    /\ ppc' = "wait"
    /\ UNCHANGED <<recorded, shot, asleep, decoded, picture, commands, port>>

PutOnMonitor ==
    /\ ppc = "decode"
    /\ Put
    /\ picture' = [picture EXCEPT ![created'] = decoded]
    /\ ppc' = "put"
    /\ UNCHANGED <<recorded, shot, current_pos, update_monitor, asleep,
                   decoded, commands>>

MonitorPutReturns ==
    /\ ppc = "put"
    /\ PutReturns
    /\ ppc' = "wait"
    /\ decoded' = NoPicture
    /\ UNCHANGED <<recorded, shot, current_pos, update_monitor, asleep,
                   picture, commands>>

-----------------------------------------------------------------------------
(* The multiviewer: get, and then it draws readbuf until the next get. *)

MultiviewerGets ==
    /\ Get
    /\ UNCHANGED <<recorded, shot, current_pos, update_monitor, asleep, ppc,
                   decoded, picture, commands>>

MultiviewerDraws ==
    /\ GetReturns
    /\ UNCHANGED <<recorded, shot, current_pos, update_monitor, asleep, ppc,
                   decoded, picture, commands>>

-----------------------------------------------------------------------------

PreviewOperator ==
    \/ \E c \in Cameras, pos \in -1 .. MaxFrames : ChangeShot(c, pos)
    \/ \E delta \in Deltas : Seek(delta)
    \/ MarkIn
    \/ MarkOut

Preview ==
    \/ SleepForUpdate \/ ReadPosition \/ FindClosestValidFrame
    \/ PutOnMonitor \/ MonitorPutReturns

Multiviewer == MultiviewerGets \/ MultiviewerDraws

PreviewNext ==
    \/ \E c \in Cameras : Record(c)
    \/ PreviewOperator
    \/ Preview
    \/ SpuriousWakeup
    \/ Multiviewer

PreviewSpec == PreviewInit /\ [][PreviewNext]_previewVars

-----------------------------------------------------------------------------
(* Properties *)

(***************************************************************************)
(* The preview catches up: once the operator rests, with a frame in the    *)
(* buffer, the multiviewer comes to show the frame at the current position *)
(* and keeps showing it, and that position exists, wherever seeks and      *)
(* shots had put it and however the corrections raced with them.           *)
(***************************************************************************)
ShotHasFrames == \E c \in Cameras : source = c /\ recorded[c] > 0

ShowsPosition ==
    /\ \E c \in Cameras : source = c /\ Valid(c, current_pos)
    /\ readbuf # Null
    /\ picture[readbuf] = [camera |-> source, pos |-> current_pos]

PreviewSettles ==
    <>[]ShotHasFrames => <>[]ShowsPosition

(***************************************************************************)
(* No wakeup is lost: the thread never sleeps on work that is there.       *)
(***************************************************************************)
NeverSleepsOnWork == asleep => Waits
==============================================================================
