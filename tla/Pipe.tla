-------------------------------- MODULE Pipe --------------------------------
(***************************************************************************)
(* The locked pipe of thread/pipe.h: a ring of BufLen pointers under one   *)
(* mutex and two condition variables.  The mutex is held from the entry of *)
(* every method to its return, except inside Condition::wait, so what a    *)
(* thread does between two waits is one action.  A thread that was         *)
(* signalled, or woken for no reason, has to take the mutex again: others  *)
(* may run before it tests its loop condition.                             *)
(***************************************************************************)
EXTENDS Naturals, Sequences, FiniteSets

CONSTANTS BufLen,      \* buf_len, the constructor's argument
          Items,       \* the objects sent
          NULL,        \* the null pointer of a free slot
          Producers,   \* the threads that call put and done_writing
          Consumers    \* the threads that call get

ASSUME PipeAssumption ==
    /\ BufLen \in Nat \ {0}
    /\ NULL \notin Items
    /\ Producers \cap Consumers = {}

VARIABLES buf, read_ptr, write_ptr,
          read_done, write_done,
          pipe_not_full,    \* the producers asleep on this condition
          pipe_not_empty,   \* the consumers asleep on this condition
          pc,               \* where each thread is in the method it calls
          item,             \* the object each producer is about to put
          polled            \* can_put/data_ready just told this thread "yes"

vars == <<buf, read_ptr, write_ptr, read_done, write_done,
          pipe_not_full, pipe_not_empty, pc, item, polled>>

Threads == Producers \cup Consumers
Slots == 0 .. BufLen - 1

(***************************************************************************)
(* "enter": the method was called and waits for the mutex.  "asleep": in   *)
(* Condition::wait.  "awake": signalled, waits for the mutex to test the   *)
(* loop condition again.  "left": the thread stopped using the pipe.       *)
(* "broken": BrokenPipe was thrown to it.                                  *)
(***************************************************************************)
PC == {"idle", "enter", "asleep", "awake", "left", "broken"}
Inside(t) == pc[t] \in {"enter", "asleep", "awake"}
Runs(t) == pc[t] \in {"enter", "awake"}

advance(i) == IF i = BufLen - 1 THEN 0 ELSE i + 1
empty == read_ptr = write_ptr

(* Mutant of full: the wrap is forgotten. *)
FullWithoutWrap == write_ptr + 1 = read_ptr

full == advance(write_ptr) = read_ptr
fill == IF read_ptr <= write_ptr THEN write_ptr - read_ptr
        ELSE (BufLen - read_ptr) + write_ptr

Init ==
    /\ buf = [i \in Slots |-> NULL]
    /\ read_ptr = 0
    /\ write_ptr = 0
    /\ read_done = FALSE
    /\ write_done = FALSE
    /\ pipe_not_full = {}
    /\ pipe_not_empty = {}
    /\ pc = [t \in Threads |-> "idle"]
    /\ item = [p \in Producers |-> NULL]
    /\ polled = [t \in Threads |-> FALSE]

-----------------------------------------------------------------------------
(* Condition::signal wakes one sleeper, if there is one. *)

(* Mutant of SignalNotFull: the call is missing. *)
NoSignalNotFull(pcs) == pc' = pcs /\ UNCHANGED pipe_not_full

SignalNotEmpty(pcs) ==
    \/ /\ pipe_not_empty = {}
       /\ pc' = pcs
       /\ UNCHANGED pipe_not_empty
    \/ \E c \in pipe_not_empty :
         /\ pipe_not_empty' = pipe_not_empty \ {c}
         /\ pc' = [pcs EXCEPT ![c] = "awake"]

SignalNotFull(pcs) ==
    \/ /\ pipe_not_full = {}
       /\ pc' = pcs
       /\ UNCHANGED pipe_not_full
    \/ \E p \in pipe_not_full :
         /\ pipe_not_full' = pipe_not_full \ {p}
         /\ pc' = [pcs EXCEPT ![p] = "awake"]

-----------------------------------------------------------------------------
(* can_put and data_ready, as the callbacks use them: the answer decides   *)
(* whether put or get is called next.  A "no" leads to nothing here.       *)

(* Mutant of CanPut: it answers for the reading end, not for the room. *)
CanPutUnlessDone(p) ==
    /\ pc[p] = "idle"
    /\ ~read_done
    /\ polled' = [polled EXCEPT ![p] = TRUE]
    /\ UNCHANGED <<buf, read_ptr, write_ptr, read_done, write_done,
                   pipe_not_full, pipe_not_empty, pc, item>>

CanPut(p) ==
    /\ pc[p] = "idle"
    /\ ~full
    /\ polled' = [polled EXCEPT ![p] = TRUE]
    /\ UNCHANGED <<buf, read_ptr, write_ptr, read_done, write_done,
                   pipe_not_full, pipe_not_empty, pc, item>>

DataReady(c) ==
    /\ pc[c] = "idle"
    /\ ~empty
    /\ polled' = [polled EXCEPT ![c] = TRUE]
    /\ UNCHANGED <<buf, read_ptr, write_ptr, read_done, write_done,
                   pipe_not_full, pipe_not_empty, pc, item>>

-----------------------------------------------------------------------------
(* put *)

CallPut(p, v) ==
    /\ pc[p] = "idle"
    /\ pc' = [pc EXCEPT ![p] = "enter"]
    /\ item' = [item EXCEPT ![p] = v]
    /\ UNCHANGED <<buf, read_ptr, write_ptr, read_done, write_done,
                   pipe_not_full, pipe_not_empty, polled>>

(* read_done is tested on entry, and after that only while the ring is full. *)
PutRefused(p) == read_done /\ (pc[p] = "enter" \/ full)

PutBroken(p) ==
    /\ Runs(p)
    /\ PutRefused(p)
    /\ pc' = [pc EXCEPT ![p] = "broken"]
    /\ polled' = [polled EXCEPT ![p] = FALSE]
    /\ UNCHANGED <<buf, read_ptr, write_ptr, read_done, write_done,
                   pipe_not_full, pipe_not_empty, item>>

PutWait(p) ==
    /\ Runs(p)
    /\ ~PutRefused(p)
    /\ full
    /\ pc' = [pc EXCEPT ![p] = "asleep"]
    /\ pipe_not_full' = pipe_not_full \cup {p}
    /\ UNCHANGED <<buf, read_ptr, write_ptr, read_done, write_done,
                   pipe_not_empty, item, polled>>

PutStore(p) ==
    /\ Runs(p)
    /\ ~PutRefused(p)
    /\ ~full
    /\ buf' = [buf EXCEPT ![write_ptr] = item[p]]
    /\ write_ptr' = advance(write_ptr)
    /\ SignalNotEmpty([pc EXCEPT ![p] = "idle"])
    /\ polled' = [polled EXCEPT ![p] = FALSE]
    /\ UNCHANGED <<read_ptr, read_done, write_done, pipe_not_full, item>>

(* Mutant of DoneWriting: the reader is not woken. *)
DoneWritingQuietly(p) ==
    /\ pc[p] = "idle"
    /\ write_done' = TRUE
    /\ pc' = [pc EXCEPT ![p] = "left"]
    /\ UNCHANGED <<buf, read_ptr, write_ptr, read_done, pipe_not_full,
                   pipe_not_empty, item, polled>>

(* The writing end is closed by a thread that will not write any more. *)
DoneWriting(p) ==
    /\ pc[p] = "idle"
    /\ write_done' = TRUE
    /\ SignalNotEmpty([pc EXCEPT ![p] = "left"])
    /\ UNCHANGED <<buf, read_ptr, write_ptr, read_done, pipe_not_full,
                   item, polled>>

-----------------------------------------------------------------------------
(* get *)

CallGet(c) ==
    /\ pc[c] = "idle"
    /\ pc' = [pc EXCEPT ![c] = "enter"]
    /\ UNCHANGED <<buf, read_ptr, write_ptr, read_done, write_done,
                   pipe_not_full, pipe_not_empty, item, polled>>

GetBroken(c) ==
    /\ Runs(c)
    /\ empty
    /\ write_done
    /\ pc' = [pc EXCEPT ![c] = "broken"]
    /\ polled' = [polled EXCEPT ![c] = FALSE]
    /\ UNCHANGED <<buf, read_ptr, write_ptr, read_done, write_done,
                   pipe_not_full, pipe_not_empty, item>>

GetWait(c) ==
    /\ Runs(c)
    /\ empty
    /\ ~write_done
    /\ pc' = [pc EXCEPT ![c] = "asleep"]
    /\ pipe_not_empty' = pipe_not_empty \cup {c}
    /\ UNCHANGED <<buf, read_ptr, write_ptr, read_done, write_done,
                   pipe_not_full, item, polled>>

GetTake(c) ==
    /\ Runs(c)
    /\ ~empty
    /\ buf' = [buf EXCEPT ![read_ptr] = NULL]
    /\ read_ptr' = advance(read_ptr)
    /\ SignalNotFull([pc EXCEPT ![c] = "idle"])
    /\ polled' = [polled EXCEPT ![c] = FALSE]
    /\ UNCHANGED <<write_ptr, read_done, write_done, pipe_not_empty, item>>

(* A consumer stops calling get without a word to the writer. *)
Leave(c) ==
    /\ pc[c] = "idle"
    /\ pc' = [pc EXCEPT ![c] = "left"]
    /\ UNCHANGED <<buf, read_ptr, write_ptr, read_done, write_done,
                   pipe_not_full, pipe_not_empty, item, polled>>

(* The reading end is closed by the owner of the pipe, from any thread. *)
DoneReading ==
    /\ ~read_done
    /\ read_done' = TRUE
    /\ SignalNotFull(pc)
    /\ UNCHANGED <<buf, read_ptr, write_ptr, write_done, pipe_not_empty,
                   item, polled>>

(* pthread_cond_wait may return without a signal. *)
SpuriousWakeup(t) ==
    /\ pc[t] = "asleep"
    /\ pc' = [pc EXCEPT ![t] = "awake"]
    /\ pipe_not_full' = pipe_not_full \ {t}
    /\ pipe_not_empty' = pipe_not_empty \ {t}
    /\ UNCHANGED <<buf, read_ptr, write_ptr, read_done, write_done, item,
                   polled>>

-----------------------------------------------------------------------------

Producer(p) ==
    \/ CanPut(p)
    \/ \E v \in Items : CallPut(p, v)
    \/ PutBroken(p)
    \/ PutWait(p)
    \/ PutStore(p)
    \/ DoneWriting(p)

Consumer(c) ==
    \/ DataReady(c)
    \/ CallGet(c)
    \/ GetBroken(c)
    \/ GetWait(c)
    \/ GetTake(c)
    \/ Leave(c)

Next ==
    \/ \E p \in Producers : Producer(p)
    \/ \E c \in Consumers : Consumer(c)
    \/ DoneReading
    \/ \E t \in Threads : SpuriousWakeup(t)

Spec == Init /\ [][Next]_vars

-----------------------------------------------------------------------------
(* Properties *)

TypeOK ==
    /\ buf \in [Slots -> Items \cup {NULL}]
    /\ read_ptr \in Slots
    /\ write_ptr \in Slots
    /\ read_done \in BOOLEAN
    /\ write_done \in BOOLEAN
    /\ pc \in [Threads -> PC]
    /\ item \in [Producers -> Items \cup {NULL}]
    /\ \A p \in Producers : Runs(p) \/ pc[p] = "asleep" => item[p] \in Items
    /\ polled \in [Threads -> BOOLEAN]
    /\ pipe_not_full = {p \in Producers : pc[p] = "asleep"}
    /\ pipe_not_empty = {c \in Consumers : pc[c] = "asleep"}

(* The slots from read_ptr up to, not including, write_ptr, around the ring. *)
Occupied(i) == IF read_ptr <= write_ptr
               THEN read_ptr <= i /\ i < write_ptr
               ELSE read_ptr <= i \/ i < write_ptr

(***************************************************************************)
(* The two assertions of pipe.h, assert(buf[read_ptr] != NULL) in get and  *)
(* assert(buf[write_ptr] == NULL) in put, cannot fail: a slot holds an     *)
(* object exactly when it lies between the two pointers, whatever the      *)
(* interleaving and however often the pointers wrapped.                    *)
(***************************************************************************)
RingConsistent == \A i \in Slots : (buf[i] # NULL) <=> Occupied(i)

(***************************************************************************)
(* Check-then-act on a pipe with one thread at each end: a callback that   *)
(* saw can_put (data_ready) answer yes never sleeps in the put (get) that  *)
(* follows, although the lock was released in between.  The DeckLink       *)
(* callbacks and the keyer's loop rely on this.                            *)
(***************************************************************************)
PolledNeverBlocks == \A t \in Threads : polled[t] => pc[t] # "asleep"

(***************************************************************************)
(* No signal is lost.  Each put and get signals once, and whoever sleeps   *)
(* slept on an empty (a full) ring: while one is asleep, there was a       *)
(* signal for every object (every free place), and a thread that is awake  *)
(* to use it.  Where one thread stands at an end, closing the other end    *)
(* has woken it.                                                           *)
(***************************************************************************)
NoLostWakeup ==
    /\ pipe_not_empty # {} =>
          fill <= Cardinality({c \in Consumers : pc[c] = "awake"})
    /\ pipe_not_full # {} =>
          BufLen - 1 - fill <= Cardinality({p \in Producers : pc[p] = "awake"})
    /\ \A c \in pipe_not_empty : write_done => Consumers # {c}
    /\ \A p \in pipe_not_full : read_done => Producers # {p}

(***************************************************************************)
(* The pipe is a FIFO channel of BufLen - 1 places (one slot, the bubble   *)
(* of the comment at pipe.h:238-243, always stays free): nothing is lost,  *)
(* duplicated or reordered, a put is refused only after done_reading and   *)
(* the end of the stream is reported only when the ring is drained.        *)
(***************************************************************************)
Slot(k) == IF read_ptr + k - 1 < BufLen THEN read_ptr + k - 1
           ELSE read_ptr + k - 1 - BufLen

Contents == [k \in 1 .. fill |-> buf[Slot(k)]]

Chan == INSTANCE Channel WITH
            Capacity <- BufLen - 1,
            queue <- Contents,
            reader_closed <- read_done,
            writer_closed <- write_done,
            refused <- \E p \in Producers : pc[p] = "broken",
            end_of_stream <- \E c \in Consumers : pc[c] = "broken"

ImplementsChannel == Chan!Spec

(***************************************************************************)
(* No call hangs.  A producer inside put comes out of it (done, or         *)
(* BrokenPipe) unless every consumer is gone and nobody called             *)
(* done_reading; once done_writing was called, every consumer inside get   *)
(* comes out of it, with an object or with BrokenPipe.                     *)
(***************************************************************************)
CallsReturn ==
    /\ \A p \in Producers :
          Inside(p) ~> \/ ~Inside(p)
                       \/ ~read_done /\ \A c \in Consumers : ~Inside(c) /\ pc[c] # "idle"
    /\ \A c \in Consumers : (Inside(c) /\ write_done) ~> ~Inside(c)
==============================================================================
