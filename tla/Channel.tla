------------------------------- MODULE Channel -------------------------------
(***************************************************************************)
(* What thread/pipe.h promises its users: a bounded first-in first-out     *)
(* channel between threads whose two ends can be closed.  A writer is      *)
(* refused (BrokenPipe out of put) only once the reading end is closed; a  *)
(* reader is told of the end of the stream (BrokenPipe out of get) only    *)
(* when the writing end is closed and every object was delivered.          *)
(***************************************************************************)
EXTENDS Naturals, Sequences

CONSTANTS Items,     \* the objects that travel through the channel
          Capacity   \* how many of them it can hold at a time

VARIABLES queue,          \* the objects in transit, oldest first
          reader_closed,  \* done_reading was called
          writer_closed,  \* done_writing was called
          refused,        \* some put ended in BrokenPipe
          end_of_stream   \* some get ended in BrokenPipe

vars == <<queue, reader_closed, writer_closed, refused, end_of_stream>>

Init ==
    /\ queue = <<>>
    /\ reader_closed = FALSE
    /\ writer_closed = FALSE
    /\ refused = FALSE
    /\ end_of_stream = FALSE

Send(v) ==
    /\ Len(queue) < Capacity
    /\ queue' = Append(queue, v)
    /\ UNCHANGED <<reader_closed, writer_closed, refused, end_of_stream>>

Receive ==
    /\ queue # <<>>
    /\ queue' = Tail(queue)
    /\ UNCHANGED <<reader_closed, writer_closed, refused, end_of_stream>>

CloseReader ==
    /\ reader_closed' = TRUE
    /\ UNCHANGED <<queue, writer_closed, refused, end_of_stream>>

CloseWriter ==
    /\ writer_closed' = TRUE
    /\ UNCHANGED <<queue, reader_closed, refused, end_of_stream>>

Refuse ==
    /\ reader_closed
    /\ refused' = TRUE
    /\ UNCHANGED <<queue, reader_closed, writer_closed, end_of_stream>>

EndOfStream ==
    /\ writer_closed
    /\ queue = <<>>
    /\ end_of_stream' = TRUE
    /\ UNCHANGED <<queue, reader_closed, writer_closed, refused>>

Next ==
    \/ \E v \in Items : Send(v)
    \/ Receive
    \/ CloseReader
    \/ CloseWriter
    \/ Refuse
    \/ EndOfStream

Spec == Init /\ [][Next]_vars
==============================================================================
