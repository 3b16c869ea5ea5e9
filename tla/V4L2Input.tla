----------------------------- MODULE V4L2Input -----------------------------
(***************************************************************************)
(* The analog input (drivers/v4l2_input.cpp): the driver fills buffers it  *)
(* was given and shares with the program, a thread takes them back in the  *)
(* order they were filled, scales the picture into a new one, which it     *)
(* puts on a pipe or drops, and gives the buffer to the driver again.      *)
(* Scaling takes time: the two fields are read one after the other.        *)
(***************************************************************************)
EXTENDS Naturals, Sequences

CONSTANTS n_buffers,    \* the mapped buffers, 8 in the code
          PipeSlots,    \* what fits in out_pipe: 255
          MaxShots      \* bound: pictures the driver takes

VARIABLES v4l2,         \* "new", "on", "off", "gone"; "terminated" by an
                        \* exception or a read of unmapped memory
          queued,       \* buffers the driver holds, in order
          filled,       \* buffers that wait to be dequeued, in order
          content,      \* the picture each field of a buffer comes from
          shot,         \* number of the picture being filled, or filled last
          filling,      \* "idle", "odd": the second field is not there yet
          worker,       \* run_thread: "dequeue", "even", "odd", "put", "queue"
          bufno, out,   \* the buffer dequeued, the picture scaled from it
          out_pipe, taken

driver == <<queued, filled, content, shot, filling>>
thread == <<worker, bufno, out>>
vars == <<v4l2, driver, thread, out_pipe, taken>>

Buffers == 1 .. n_buffers

Rest(st) ==
    /\ v4l2 = st
    /\ queued = <<>> /\ filled = <<>>
    /\ content = [b \in Buffers |-> <<0, 0>>]
    /\ shot = 0 /\ filling = "idle"
    /\ worker = "none" /\ bufno = 0 /\ out = <<0, 0>>
    /\ out_pipe = <<>> /\ taken = 0

Absent == Rest("gone")
Init == Rest("new")

-----------------------------------------------------------------------------
(* The constructor: format, mapping, queue_all_buffers, stream_on; every   *)
(* call of the driver may fail, and then it throws.                        *)
Construct ==
    /\ v4l2 = "new"
    /\ \/ /\ v4l2' = "on"
          /\ queued' = [i \in 1 .. n_buffers |-> i]
          /\ worker' = "dequeue"
       \/ v4l2' = "terminated" /\ UNCHANGED <<queued, worker>>
    /\ UNCHANGED <<filled, content, shot, filling, bufno, out, out_pipe, taken>>

(* The destructor stops the stream under the thread, which is not joined. *)
stream_off ==
    /\ v4l2 = "on"
    /\ v4l2' = "off"
    /\ UNCHANGED <<driver, thread, out_pipe, taken>>

-----------------------------------------------------------------------------
(* The driver, a field at a time.  Without a buffer it skips pictures.     *)

FillEven ==
    /\ v4l2 = "on" /\ filling = "idle" /\ shot < MaxShots
    /\ shot' = shot + 1
    /\ IF queued = <<>>
       THEN UNCHANGED <<content, filling>>
       ELSE content' = [content EXCEPT ![Head(queued)][1] = shot + 1] /\ filling' = "odd"
    /\ UNCHANGED <<v4l2, queued, filled, thread, out_pipe, taken>>

FillOdd ==
    /\ v4l2 = "on" /\ filling = "odd"
    /\ content' = [content EXCEPT ![Head(queued)][2] = shot]
    /\ filling' = "idle"
    /\ filled' = Append(filled, Head(queued))
    /\ queued' = Tail(queued)
    /\ UNCHANGED <<v4l2, shot, thread, out_pipe, taken>>

-----------------------------------------------------------------------------
(* run_thread *)

(* Mutant of dequeue_buffer: the buffer goes back to the driver at once. *)
DequeueAndQueue ==
    /\ worker = "dequeue" /\ v4l2 = "on" /\ filled # <<>>
    /\ bufno' = Head(filled)
    /\ filled' = Tail(filled)
    /\ queued' = Append(queued, Head(filled))
    /\ worker' = "even"
    /\ UNCHANGED <<v4l2, content, shot, filling, out, out_pipe, taken>>

dequeue_buffer ==
    /\ worker = "dequeue" /\ v4l2 = "on" /\ filled # <<>>
    /\ bufno' = Head(filled)
    /\ filled' = Tail(filled)
    /\ worker' = "even"
    /\ UNCHANGED <<v4l2, queued, content, shot, filling, out, out_pipe, taken>>

(* can_put is asked first: a picture that has no place is not scaled. *)
can_put == Len(out_pipe) < PipeSlots

do_upscale ==
    /\ v4l2 = "on"
    /\ \/ /\ worker = "even"
          /\ worker' = IF can_put THEN "odd" ELSE "queue"
          /\ out' = [out EXCEPT ![1] = content[bufno][1]]
       \/ /\ worker = "odd"
          /\ worker' = "put"
          /\ out' = [out EXCEPT ![2] = content[bufno][2]]
    /\ UNCHANGED <<v4l2, driver, bufno, out_pipe, taken>>

put ==
    /\ worker = "put" /\ v4l2 = "on"
    /\ out_pipe' = Append(out_pipe, out)
    /\ worker' = "queue"
    /\ UNCHANGED <<v4l2, driver, bufno, out, taken>>

queue_buffer ==
    /\ worker = "queue" /\ v4l2 = "on"
    /\ queued' = Append(queued, bufno)
    /\ worker' = "dequeue"
    /\ UNCHANGED <<v4l2, filled, content, shot, filling, bufno, out, out_pipe, taken>>

(* An ioctl on a device that failed or was turned off throws; the buffers  *)
(* of an adapter that was deleted are not mapped any more.                 *)
Terminates ==
    /\ \/ v4l2 = "on" /\ worker \in {"dequeue", "queue"}
       \/ v4l2 = "off"
    /\ v4l2' = "terminated"
    /\ UNCHANGED <<driver, thread, out_pipe, taken>>

(* The reader of the pipe: the ingest or the keyer. *)
get ==
    /\ v4l2 = "on" /\ out_pipe # <<>>
    /\ taken' = Head(out_pipe)[1]
    /\ out_pipe' = Tail(out_pipe)
    /\ UNCHANGED <<v4l2, driver, thread>>

Next ==
    \/ Construct
    \/ stream_off
    \/ FillEven
    \/ FillOdd
    \/ dequeue_buffer
    \/ do_upscale
    \/ put
    \/ queue_buffer
    \/ Terminates
    \/ get

-----------------------------------------------------------------------------
(***************************************************************************)
(* The driver and the thread share the buffers, and still a picture leaves *)
(* whole, both of its fields from one shot, and later than every picture   *)
(* that left before: whoever is slow, and however often pictures are       *)
(* dropped because the pipe is full or the driver has no buffer.           *)
(***************************************************************************)
PicturesWhole ==
    \A i \in 1 .. Len(out_pipe) :
       /\ out_pipe[i][1] = out_pipe[i][2]
       /\ out_pipe[i][1] > IF i = 1 THEN taken ELSE out_pipe[i - 1][1]
=============================================================================
