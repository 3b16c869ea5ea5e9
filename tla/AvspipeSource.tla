--------------------------- MODULE AvspipeSource ---------------------------
(***************************************************************************)
(* A rollout played by a subprocess (avspipe/avspipe_input_adapter.cpp,    *)
(* avspipe_reader_thread.h, replay/replay_playout_avspipe_source.cpp): the *)
(* child writes pictures and packets of sound into two kernel pipes, one   *)
(* reader thread per kernel pipe moves them into a Pipe, and the playout   *)
(* thread takes one of each per frame.  The destructor closes the reading  *)
(* ends and joins the readers.                                             *)
(***************************************************************************)
EXTENDS Naturals, Integers

CONSTANTS Slots,       \* what fits in vpipe and in apipe: buf_len - 1, 63
          AudioRoom,   \* the packets that fit in the kernel's pipe; a
                       \* picture is larger than a kernel's pipe
          Lead         \* bound: how many pictures (sounds) the child writes
                       \* before the sounds (pictures) that belong to them

VARIABLES caller,      \* where the owner of the source is
          child,       \* what the subprocess writes: a stream, "free" between
                       \* two writes, "ended"
          lead,        \* pictures minus sounds written so far
          in_kernel,   \* records in the kernel's pipe of each stream
          reader,      \* AvspipeReaderThread::run_thread of each stream
          fill,        \* objects in vpipe and apipe
          read_done, write_done,
          inherited    \* a child forked later holds our reading ends too

vars == <<caller, child, lead, in_kernel, reader, fill, read_done,
          write_done, inherited>>

Streams == {"video", "audio"}
Room == [video |-> 0, audio |-> AudioRoom]

(* Nothing constructed. *)
Rest(c, ch, r) ==
    /\ caller = c
    /\ child = ch
    /\ lead = 0
    /\ in_kernel = [s \in Streams |-> 0]
    /\ reader = [s \in Streams |-> r]
    /\ fill = [s \in Streams |-> 0]
    /\ read_done = [s \in Streams |-> FALSE]
    /\ write_done = [s \in Streams |-> FALSE]
    /\ inherited = FALSE

Absent == Rest("gone", "ended", "done")
Init == Rest("new", "ended", "done")

-----------------------------------------------------------------------------
(* The constructor: pipe() or fork() may fail, and then it throws. *)

start_subprocess ==
    /\ caller = "new"
    /\ \/ /\ caller' = "idle"
          /\ child' = "free"
          /\ reader' = [s \in Streams |-> "read"]
       \/ caller' = "failed" /\ UNCHANGED <<child, reader>>
    /\ UNCHANGED <<lead, in_kernel, fill, read_done, write_done, inherited>>

-----------------------------------------------------------------------------
(* The subprocess: a program of the operator's, not part of the source.    *)

ChildChooses ==
    /\ child = "free"
    /\ \/ child' = "video" /\ lead < Lead
       \/ child' = "audio" /\ lead > -Lead
    /\ lead' = lead + (IF child' = "video" THEN 1 ELSE -1)
    /\ UNCHANGED <<caller, in_kernel, reader, fill, read_done, write_done,
                   inherited>>

ChildEnds ==
    /\ child = "free"
    /\ child' = "ended"
    /\ UNCHANGED <<caller, lead, in_kernel, reader, fill, read_done,
                   write_done, inherited>>

(* The write returns when the kernel has room for the rest of it. *)
ChildWrites(s) ==
    /\ child = s
    /\ in_kernel[s] < Room[s]
    /\ in_kernel' = [in_kernel EXCEPT ![s] = @ + 1]
    /\ child' = "free"
    /\ UNCHANGED <<caller, lead, reader, fill, read_done, write_done, inherited>>

(* SIGPIPE: nobody holds the reading end any more. *)
ChildIsKilled(s) ==
    /\ child = s
    /\ reader[s] = "done"
    /\ ~inherited
    /\ child' = "ended"
    /\ UNCHANGED <<caller, lead, in_kernel, reader, fill, read_done,
                   write_done, inherited>>

(***************************************************************************)
(* start_subprocess and start_aplay fork without closing the descriptors   *)
(* of the adapters that exist already: the next rollout's child keeps the  *)
(* reading ends of this one's pipes open until it ends itself.             *)
(***************************************************************************)
NextRollout ==
    /\ caller \notin {"new", "failed", "gone"}
    /\ \E s \in Streams : reader[s] # "done"
    /\ inherited' = ~inherited
    /\ UNCHANGED <<caller, child, lead, in_kernel, reader, fill, read_done,
                   write_done>>

-----------------------------------------------------------------------------
(* AvspipeReaderThread *)

(***************************************************************************)
(* read_all fills the whole record or reports the end of the file: what is *)
(* left of a record at the end is dropped.                                 *)
(***************************************************************************)
read_all(s) ==
    IF in_kernel[s] > 0 \/ child = s THEN "record"
    ELSE IF child = "ended" THEN "eof" ELSE "blocks"

read_from_fd(s) ==
    /\ reader[s] = "read"
    /\ read_all(s) = "record"
    /\ reader' = [reader EXCEPT ![s] = "put"]
    /\ IF in_kernel[s] > 0
       THEN in_kernel' = [in_kernel EXCEPT ![s] = @ - 1] /\ UNCHANGED child
       ELSE child' = "free" /\ UNCHANGED in_kernel
    /\ UNCHANGED <<caller, lead, fill, read_done, write_done, inherited>>

EndOfFile(s) ==
    /\ reader[s] = "read"
    /\ read_all(s) = "eof"
    /\ reader' = [reader EXCEPT ![s] = "done"]
    /\ write_done' = [write_done EXCEPT ![s] = TRUE]
    /\ UNCHANGED <<caller, child, lead, in_kernel, fill, read_done, inherited>>

(* put, which sleeps while the pipe is full; BrokenPipe ends the thread. *)
put(s) ==
    /\ reader[s] = "put"
    /\ \/ /\ read_done[s]
          /\ reader' = [reader EXCEPT ![s] = "done"]
          /\ UNCHANGED fill
       \/ /\ ~read_done[s]
          /\ fill[s] < Slots
          /\ reader' = [reader EXCEPT ![s] = "read"]
          /\ fill' = [fill EXCEPT ![s] = @ + 1]
    /\ UNCHANGED <<caller, child, lead, in_kernel, read_done, write_done,
                   inherited>>

-----------------------------------------------------------------------------
(* The playout thread: read_frame takes a picture, then its sound.  At the *)
(* end of either stream the frame has no picture, whatever was taken.      *)

read_frame ==
    /\ caller = "idle"
    /\ caller' = "video"
    /\ UNCHANGED <<child, lead, in_kernel, reader, fill, read_done, write_done,
                   inherited>>

(* Mutant of get: a picture whose sound is not there yet goes without. *)
GetWhatIsThere(s) ==
    /\ caller = s
    /\ \/ /\ fill[s] > 0
          /\ fill' = [fill EXCEPT ![s] = @ - 1]
          /\ caller' = IF s = "video" THEN "audio" ELSE "idle"
       \/ /\ fill[s] = 0 /\ (write_done[s] \/ s = "audio")
          /\ caller' = "idle"
          /\ UNCHANGED fill
    /\ UNCHANGED <<child, lead, in_kernel, reader, read_done, write_done,
                   inherited>>

get(s) ==
    /\ caller = s
    /\ \/ /\ fill[s] > 0
          /\ fill' = [fill EXCEPT ![s] = @ - 1]
          /\ caller' = IF s = "video" THEN "audio" ELSE "idle"
       \/ /\ fill[s] = 0
          /\ write_done[s]
          /\ caller' = "idle"
          /\ UNCHANGED fill
    /\ UNCHANGED <<child, lead, in_kernel, reader, read_done, write_done,
                   inherited>>

(* Mutant of DoneReading: the sound's pipe is forgotten. *)
DoneReadingVideoOnly ==
    /\ caller = "idle"
    /\ read_done' = [read_done EXCEPT !["video"] = TRUE]
    /\ caller' = "join audio"
    /\ UNCHANGED <<child, lead, in_kernel, reader, fill, write_done, inherited>>

(* The destructor: done_reading twice, then aread and vread are joined. *)
DoneReading ==
    /\ \/ /\ caller = "idle"
          /\ read_done' = [read_done EXCEPT !["video"] = TRUE]
          /\ caller' = "done audio"
       \/ /\ caller = "done audio"
          /\ read_done' = [read_done EXCEPT !["audio"] = TRUE]
          /\ caller' = "join audio"
    /\ UNCHANGED <<child, lead, in_kernel, reader, fill, write_done, inherited>>

join_thread ==
    /\ \/ caller = "join audio" /\ reader["audio"] = "done" /\ caller' = "join video"
       \/ caller = "join video" /\ reader["video"] = "done" /\ caller' = "gone"
    /\ UNCHANGED <<child, lead, in_kernel, reader, fill, read_done, write_done,
                   inherited>>

-----------------------------------------------------------------------------

ChildSteps(s) == ChildWrites(s) \/ ChildIsKilled(s)
ReaderSteps(s) == read_from_fd(s) \/ EndOfFile(s) \/ put(s)
OwnerSteps == get("video") \/ get("audio") \/ join_thread

Next ==
    \/ start_subprocess
    \/ ChildChooses
    \/ ChildEnds
    \/ NextRollout
    \/ read_frame
    \/ DoneReading
    \/ OwnerSteps
    \/ \E s \in Streams : ChildSteps(s) \/ ReaderSteps(s)

Spec == Init /\ [][Next]_vars

(***************************************************************************)
(* The threads run when they can, a destructor that began goes on, and the *)
(* child writes one stream or the other until it ends.                     *)
(***************************************************************************)
Fairness ==
    /\ WF_vars(ChildChooses)
    /\ \A s \in Streams : WF_vars(ChildSteps(s)) /\ WF_vars(ReaderSteps(s))
    /\ WF_vars(OwnerSteps)
    /\ WF_vars(caller # "idle" /\ DoneReading)

-----------------------------------------------------------------------------
(***************************************************************************)
(* The playout thread always gets back from this source.                   *)
(*                                                                         *)
(* read_frame returns, with a frame or with the end: a child that runs     *)
(* ahead with one stream fills its pipe and blocks, and still the sound    *)
(* the playout thread waits for is on its way as long as it runs ahead by  *)
(* no more than the pipe, the reader and the picture taken hold            *)
(* (Lead <= Slots + 2); when the child is gone the end is announced.       *)
(*                                                                         *)
(* And a source that is deleted is deleted to the end, wherever its        *)
(* readers and its child were: a reader asleep in put is woken, it closes  *)
(* its descriptor, the child is killed by its next write and the other     *)
(* reader sees the end of the file.  Only a child of a later rollout,      *)
(* which holds the reading ends open, can keep the destructor waiting.     *)
(***************************************************************************)
SourceReturns ==
    /\ caller \in Streams ~> caller = "idle"
    /\ caller = "join audio" ~> caller = "gone" \/ inherited

(***************************************************************************)
(* What read_frame's return rests on: the playout thread never waits for   *)
(* one stream, with nothing of it on the way, while the child is stuck     *)
(* behind all that can be held of the other.  Each picture is taken with   *)
(* its sound, so what is held of both differs by what the child wrote.     *)
(***************************************************************************)
Starved(s) ==
    /\ caller = s /\ fill[s] = 0
    /\ reader[s] = "read" /\ in_kernel[s] = 0

Stuck(s) ==
    /\ child = s /\ in_kernel[s] = Room[s]
    /\ reader[s] = "put" /\ fill[s] = Slots

NoCrossedWait ==
    /\ ~(Starved("audio") /\ Stuck("video"))
    /\ ~(Starved("video") /\ Stuck("audio"))
=============================================================================
