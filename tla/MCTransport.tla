----------------------------- MODULE MCTransport -----------------------------
(***************************************************************************)
(* What pictures travel through inside the process and between processes,  *)
(* one of the two at a time: a pipe with one thread at each end, as every  *)
(* pipe of the program has, or the double buffer in shared memory.         *)
(***************************************************************************)
EXTENDS Pipe, ShmDoubleBuffer

CONSTANTS p1, c1, a, b

VARIABLE transport

MCProducers == {p1}
MCConsumers == {c1}
MCItems == {a, b}

MCInit == transport \in {"pipe", "shm"} /\ Init /\ ShmInit

MCNext ==
    /\ UNCHANGED transport
    /\ \/ transport = "pipe" /\ Next /\ UNCHANGED shmVars
       \/ transport = "shm" /\ ShmNext /\ UNCHANGED vars

(***************************************************************************)
(* The scheduler runs every thread that is ready to run: a thread inside a *)
(* method of a pipe that is not asleep gets the mutex.  Consumers come     *)
(* back for the next object until they leave.  Nothing obliges a producer  *)
(* to produce, a consumer to leave, anybody to close an end, or a spurious *)
(* wakeup.                                                                 *)
(***************************************************************************)
PipeRuns(A) == transport = "pipe" /\ A

PipeFairness ==
    /\ \A p \in Producers : WF_vars(PipeRuns(PutBroken(p) \/ PutWait(p) \/ PutStore(p)))
    /\ \A c \in Consumers :
         /\ WF_vars(PipeRuns(GetBroken(c) \/ GetWait(c) \/ GetTake(c)))
         /\ WF_vars(PipeRuns(CallGet(c) \/ Leave(c)))

(***************************************************************************)
(* Of the double buffer both sides are scheduled; a taken semaphore comes  *)
(* back to whoever waits for it if it comes back again and again.  Nothing *)
(* says the producer makes another picture, or dies.                       *)
(***************************************************************************)
ShmRuns(A) == transport = "shm" /\ A

ShmFairness ==
    /\ WF_shmVars(ShmRuns(\/ BeginRead \/ TryFlip \/ TryUnlock
                          \/ CopyTop \/ CopyBottom \/ PutFrame))
    /\ SF_shmVars(ShmRuns(TryLock))
    /\ WF_shmVars(ShmRuns(\/ BeginWrite \/ BeginWriteUnlock \/ WriteTop
                          \/ WriteBottom \/ EndWrite \/ EndWriteUnlock))
    /\ SF_shmVars(ShmRuns(EndWriteLock))

MCSpec ==
    /\ MCInit /\ [][MCNext]_<<transport, vars, shmVars>>
    /\ PipeFairness /\ ShmFairness
==============================================================================
