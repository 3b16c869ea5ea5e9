--------------------------- MODULE ShmDoubleBuffer ---------------------------
(***************************************************************************)
(* The double buffer of ipc/shm_double_buffer.cpp: two picture buffers and *)
(* a page of state in shared memory, guarded by a process-shared           *)
(* semaphore.  The consumer is the thread of ShmCharacterGenerator         *)
(* (keyer/shm_character_generator.cpp), which copies frames "as fast as we *)
(* can"; the producer is the child process it forked, which calls          *)
(* begin_write and end_write around every frame and may die anywhere, the  *)
(* critical sections included: the semaphore then stays taken.             *)
(*                                                                         *)
(* Pictures are numbered; each is written and copied in two halves, so a   *)
(* copy that mixes two pictures is visible.                                *)
(***************************************************************************)
EXTENDS Naturals

CONSTANTS MaxTries,   \* the tries of try_flip, 10 in the code
          MaxFrames   \* bound: pictures the producer makes

ASSUME ShmAssumption == MaxTries \in Nat \ {0} /\ MaxFrames \in Nat

VARIABLES sem, ok_to_flip, producer_buf,   \* the shared page of state
          buffers,                         \* the two pictures, by halves
          (* the producer process *)
          alive,        \* it was not killed yet
          ppc,          \* where it is in begin_write .. end_write
          pbuf,         \* the buffer begin_write returned
          was_flipped,  \* what begin_write reported
          frame,        \* the number of the picture it works on
          (* the consumer thread *)
          cpc,          \* where it is in its loop
          tries, flipped, bufn,            \* the locals of try_flip
          copied,       \* the frame it fills
          shown,        \* the number of the last frame it put on its pipe
          (* history *)
          latest,       \* the last picture completed by end_write
          flip_seen     \* a flip happened since the last begin_write

pvars == <<alive, ppc, pbuf, was_flipped, frame>>
cvars == <<cpc, tries, flipped, bufn, copied, shown>>
shmVars == <<sem, ok_to_flip, producer_buf, buffers, pvars, cvars, latest, flip_seen>>

Pictures == [top : Nat, bottom : Nat]
Picture(n) == [top |-> n, bottom |-> n]
Intact(p) == p.top = p.bottom

ShmInit ==
    /\ sem = 1
    /\ ok_to_flip = FALSE
    /\ producer_buf = 0
    /\ buffers = [b \in 0 .. 1 |-> Picture(0)]
    /\ alive = TRUE
    /\ ppc = "idle"
    /\ pbuf = 0
    /\ was_flipped = FALSE
    /\ frame = 0
    /\ cpc = "idle"
    /\ tries = 0
    /\ flipped = FALSE
    /\ bufn = 0
    /\ copied = Picture(0)
    /\ shown = 0
    /\ latest = 0
    /\ flip_seen = FALSE

-----------------------------------------------------------------------------
(* The producer.  It passes a was_flipped that it set to FALSE. *)

ProducerAt(here, there) == alive /\ ppc = here /\ ppc' = there

BeginWriteLock ==
    /\ ProducerAt("idle", "begin_cs")
    /\ frame < MaxFrames
    /\ sem = 1
    /\ sem' = 0
    /\ frame' = frame + 1
    /\ was_flipped' = FALSE
    /\ UNCHANGED <<ok_to_flip, producer_buf, buffers, alive, pbuf, cvars,
                   latest, flip_seen>>

(* Mutant of BeginWrite: the buffer being written can still be flipped. *)
BeginWriteKeepsFlip ==
    /\ ProducerAt("begin_cs", "begin_post")
    /\ was_flipped' = IF ~ok_to_flip THEN TRUE ELSE was_flipped
    /\ pbuf' = producer_buf
    /\ UNCHANGED <<sem, ok_to_flip, producer_buf, buffers, alive, frame,
                   cvars, latest, flip_seen>>

(* Mutant of BeginWrite: the flag is reset before it is looked at. *)
BeginWriteResetsFirst ==
    /\ ProducerAt("begin_cs", "begin_post")
    /\ was_flipped' = TRUE
    /\ ok_to_flip' = FALSE
    /\ pbuf' = producer_buf
    /\ UNCHANGED <<sem, producer_buf, buffers, alive, frame, cvars, latest,
                   flip_seen>>

BeginWrite ==
    /\ ProducerAt("begin_cs", "begin_post")
    /\ was_flipped' = IF ~ok_to_flip THEN TRUE ELSE was_flipped
    /\ ok_to_flip' = FALSE
    /\ pbuf' = producer_buf
    /\ UNCHANGED <<sem, producer_buf, buffers, alive, frame, cvars, latest,
                   flip_seen>>

BeginWriteUnlock ==
    /\ ProducerAt("begin_post", "write_top")
    /\ sem' = 1
    /\ flip_seen' = FALSE
    /\ UNCHANGED <<ok_to_flip, producer_buf, buffers, alive, pbuf,
                   was_flipped, frame, cvars, latest>>

WriteTop ==
    /\ ProducerAt("write_top", "write_bottom")
    /\ buffers' = [buffers EXCEPT ![pbuf].top = frame]
    /\ UNCHANGED <<sem, ok_to_flip, producer_buf, alive, pbuf, was_flipped,
                   frame, cvars, latest, flip_seen>>

WriteBottom ==
    /\ ProducerAt("write_bottom", "written")
    /\ buffers' = [buffers EXCEPT ![pbuf].bottom = frame]
    /\ UNCHANGED <<sem, ok_to_flip, producer_buf, alive, pbuf, was_flipped,
                   frame, cvars, latest, flip_seen>>

EndWriteLock ==
    /\ ProducerAt("written", "end_cs")
    /\ sem = 1
    /\ sem' = 0
    /\ UNCHANGED <<ok_to_flip, producer_buf, buffers, alive, pbuf,
                   was_flipped, frame, cvars, latest, flip_seen>>

EndWrite ==
    /\ ProducerAt("end_cs", "end_post")
    /\ ok_to_flip' = TRUE
    /\ latest' = frame
    /\ UNCHANGED <<sem, producer_buf, buffers, alive, pbuf, was_flipped,
                   frame, cvars, flip_seen>>

EndWriteUnlock ==
    /\ ProducerAt("end_post", "idle")
    /\ sem' = 1
    /\ UNCHANGED <<ok_to_flip, producer_buf, buffers, alive, pbuf,
                   was_flipped, frame, cvars, latest, flip_seen>>

ProducerStep ==
    \/ BeginWriteLock \/ BeginWrite \/ BeginWriteUnlock
    \/ WriteTop \/ WriteBottom
    \/ EndWriteLock \/ EndWrite \/ EndWriteUnlock

ProducerDies ==
    /\ alive
    /\ alive' = FALSE
    /\ UNCHANGED <<sem, ok_to_flip, producer_buf, buffers, ppc, pbuf,
                   was_flipped, frame, cvars, latest, flip_seen>>

-----------------------------------------------------------------------------
(* The consumer: begin_read is try_flip, then memcpy, then the pipe. *)

ConsumerAt(here, there) == cpc = here /\ cpc' = there

BeginRead ==
    /\ ConsumerAt("idle", "try")
    /\ tries' = 0
    /\ flipped' = FALSE
    /\ UNCHANGED <<sem, ok_to_flip, producer_buf, buffers, pvars, bufn,
                   copied, shown, latest, flip_seen>>

TryLock ==
    /\ ConsumerAt("try", "cs")
    /\ sem = 1
    /\ sem' = 0
    /\ UNCHANGED <<ok_to_flip, producer_buf, buffers, pvars, tries, flipped,
                   bufn, copied, shown, latest, flip_seen>>

(* Mutant of TryFlip: the permission to flip is not used up. *)
TryFlipAgain ==
    /\ ConsumerAt("cs", "post")
    /\ bufn' = IF ok_to_flip THEN producer_buf ELSE 1 - producer_buf
    /\ producer_buf' = IF ok_to_flip THEN 1 - producer_buf ELSE producer_buf
    /\ flipped' = ok_to_flip
    /\ flip_seen' = (flip_seen \/ ok_to_flip)
    /\ UNCHANGED <<sem, ok_to_flip, buffers, pvars, tries, copied, shown, latest>>

(* Mutant of TryFlip: the permission is used up, the pages stay. *)
TryFlipForgetsPages ==
    /\ ConsumerAt("cs", "post")
    /\ bufn' = 1 - producer_buf
    /\ flipped' = ok_to_flip
    /\ ok_to_flip' = FALSE
    /\ flip_seen' = (flip_seen \/ ok_to_flip)
    /\ UNCHANGED <<sem, producer_buf, buffers, pvars, tries, copied, shown, latest>>

TryFlip ==
    /\ ConsumerAt("cs", "post")
    /\ \/ /\ ok_to_flip
          /\ bufn' = producer_buf
          /\ producer_buf' = 1 - producer_buf
          /\ ok_to_flip' = FALSE
          /\ flipped' = TRUE
          /\ flip_seen' = TRUE
       \/ /\ ~ok_to_flip
          /\ bufn' = 1 - producer_buf
          /\ flipped' = FALSE
          /\ UNCHANGED <<producer_buf, ok_to_flip, flip_seen>>
    /\ UNCHANGED <<sem, buffers, pvars, tries, copied, shown, latest>>

(* The loop goes on after the usleep until it flipped or ran out of tries. *)
TryUnlock ==
    /\ ConsumerAt("post", IF flipped \/ tries + 1 = MaxTries THEN "copy_top"
                          ELSE "try")
    /\ sem' = 1
    /\ tries' = tries + 1
    /\ UNCHANGED <<ok_to_flip, producer_buf, buffers, pvars, flipped, bufn,
                   copied, shown, latest, flip_seen>>

CopyTop ==
    /\ ConsumerAt("copy_top", "copy_bottom")
    /\ copied' = [copied EXCEPT !.top = buffers[bufn].top]
    /\ UNCHANGED <<sem, ok_to_flip, producer_buf, buffers, pvars, tries,
                   flipped, bufn, shown, latest, flip_seen>>

CopyBottom ==
    /\ ConsumerAt("copy_bottom", "put")
    /\ copied' = [copied EXCEPT !.bottom = buffers[bufn].bottom]
    /\ UNCHANGED <<sem, ok_to_flip, producer_buf, buffers, pvars, tries,
                   flipped, bufn, shown, latest, flip_seen>>

PutFrame ==
    /\ ConsumerAt("put", "idle")
    /\ shown' = copied.bottom
    /\ UNCHANGED <<sem, ok_to_flip, producer_buf, buffers, pvars, tries,
                   flipped, bufn, copied, latest, flip_seen>>

ConsumerStep ==
    \/ BeginRead \/ TryLock \/ TryFlip \/ TryUnlock
    \/ CopyTop \/ CopyBottom \/ PutFrame

ShmNext == ProducerStep \/ ProducerDies \/ ConsumerStep

ShmSpec == ShmInit /\ [][ShmNext]_shmVars

-----------------------------------------------------------------------------
(* Properties *)

PPC == {"idle", "begin_cs", "begin_post", "write_top", "write_bottom",
        "written", "end_cs", "end_post"}
CPC == {"idle", "try", "cs", "post", "copy_top", "copy_bottom", "put"}

ProducerHolds == ppc \in {"begin_cs", "begin_post", "end_cs", "end_post"}
ConsumerHolds == cpc \in {"cs", "post"}
DiedHolding == ~alive /\ ProducerHolds

FlagsOK ==
    /\ ok_to_flip \in BOOLEAN
    /\ alive \in BOOLEAN
    /\ was_flipped \in BOOLEAN
    /\ flipped \in BOOLEAN
    /\ flip_seen \in BOOLEAN

PlacesOK == ppc \in PPC /\ cpc \in CPC

NumbersOK ==
    /\ sem \in {0, 1}
    /\ producer_buf \in {0, 1}
    /\ pbuf \in {0, 1}
    /\ bufn \in {0, 1}
    /\ frame \in 0 .. MaxFrames
    /\ latest \in Nat
    /\ shown \in Nat
    /\ tries \in 0 .. MaxTries
    /\ cpc \in {"try", "cs", "post"} => tries < MaxTries

PicturesOK == buffers \in [0 .. 1 -> Pictures] /\ copied \in Pictures

ShmTypeOK == FlagsOK /\ PlacesOK /\ NumbersOK /\ PicturesOK

(***************************************************************************)
(* The consumer never passes on a frame that mixes two pictures, although  *)
(* it copies without the semaphore and end_read is a no-op, wherever the   *)
(* producer writes or dies meanwhile.                                      *)
(***************************************************************************)
NoTornFrame == cpc = "put" => Intact(copied)

(***************************************************************************)
(* was_flipped tells a producer that starts from FALSE the truth: from its *)
(* second picture on it is set exactly when the consumer flipped the pages *)
(* since the last begin_write.  (On the first call it is set although      *)
(* nothing flipped: ok_to_flip starts out FALSE.)                          *)
(***************************************************************************)
FlipReportExact ==
    ppc = "begin_post" /\ frame > 1 => was_flipped = flip_seen

(***************************************************************************)
(* The keyer never goes back to an older picture.                          *)
(***************************************************************************)
FramesInOrder == [][shown' >= shown]_shmVars

(***************************************************************************)
(* Nothing completed is lost silently: a picture whose end_write is done   *)
(* comes out of the consumer, or a later one does, unless the producer     *)
(* takes the buffer back (and is told, was_flipped stays FALSE) or dies    *)
(* with the semaphore.                                                     *)
(***************************************************************************)
CompletedFrameShown ==
    \A n \in 1 .. MaxFrames :
        (ok_to_flip /\ latest = n) ~>
            \/ shown >= n
            \/ ppc = "begin_post" /\ ~was_flipped
            \/ DiedHolding
==============================================================================
