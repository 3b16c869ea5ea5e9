------------------------ MODULE ShmDoubleBufferProofs ------------------------
(***************************************************************************)
(* The double buffer never hands out a torn frame or an older one, and     *)
(* tells the producer of every flip: for any number of tries and of        *)
(* pictures, and a producer that may die at any step.                      *)
(***************************************************************************)
EXTENDS ShmDoubleBuffer, TLAPS

(* Every variable keeps its range; the loop of try_flip never exceeds its  *)
(* bound on the tries.                                                     *)
THEOREM ShmTypeCorrect == ShmSpec => []ShmTypeOK
<1>1. ShmInit => ShmTypeOK
  <2>. SUFFICES ASSUME ShmInit PROVE ShmTypeOK
    OBVIOUS
  <2>1. FlagsOK     BY DEF ShmInit, FlagsOK
  <2>2. PlacesOK    BY DEF ShmInit, PlacesOK, PPC, CPC
  <2>3. NumbersOK   BY ShmAssumption DEF ShmInit, NumbersOK
  <2>4. PicturesOK  BY DEF ShmInit, PicturesOK, Picture, Pictures
  <2>. QED  BY <2>1, <2>2, <2>3, <2>4 DEF ShmTypeOK
<1>2. ShmTypeOK /\ [ShmNext]_shmVars => ShmTypeOK'
  <2>. SUFFICES ASSUME ShmTypeOK, [ShmNext]_shmVars PROVE ShmTypeOK'
    OBVIOUS
  <2>. USE ShmAssumption DEF ShmTypeOK, pvars, cvars, ProducerAt, ConsumerAt
  <2>1. CASE BeginWriteLock
    <3>1. FlagsOK'     BY <2>1 DEF BeginWriteLock, FlagsOK
    <3>2. PlacesOK'    BY <2>1 DEF BeginWriteLock, PlacesOK, PPC, CPC
    <3>3. NumbersOK'   BY <2>1 DEF BeginWriteLock, NumbersOK
    <3>4. PicturesOK'  BY <2>1 DEF BeginWriteLock, PicturesOK
    <3>. QED  BY <3>1, <3>2, <3>3, <3>4
  <2>2. CASE BeginWrite
    <3>1. FlagsOK'     BY <2>2 DEF BeginWrite, FlagsOK
    <3>2. PlacesOK'    BY <2>2 DEF BeginWrite, PlacesOK, PPC, CPC
    <3>3. NumbersOK'   BY <2>2 DEF BeginWrite, NumbersOK
    <3>4. PicturesOK'  BY <2>2 DEF BeginWrite, PicturesOK
    <3>. QED  BY <3>1, <3>2, <3>3, <3>4
  <2>3. CASE BeginWriteUnlock
    <3>1. FlagsOK'     BY <2>3 DEF BeginWriteUnlock, FlagsOK
    <3>2. PlacesOK'    BY <2>3 DEF BeginWriteUnlock, PlacesOK, PPC, CPC
    <3>3. NumbersOK'   BY <2>3 DEF BeginWriteUnlock, NumbersOK
    <3>4. PicturesOK'  BY <2>3 DEF BeginWriteUnlock, PicturesOK
    <3>. QED  BY <3>1, <3>2, <3>3, <3>4
  <2>4. CASE WriteTop
    <3>1. FlagsOK'     BY <2>4 DEF WriteTop, FlagsOK
    <3>2. PlacesOK'    BY <2>4 DEF WriteTop, PlacesOK, PPC, CPC
    <3>3. NumbersOK'   BY <2>4 DEF WriteTop, NumbersOK
    <3>4. PicturesOK'  BY <2>4 DEF WriteTop, PicturesOK, NumbersOK, Pictures
    <3>. QED  BY <3>1, <3>2, <3>3, <3>4
  <2>5. CASE WriteBottom
    <3>1. FlagsOK'     BY <2>5 DEF WriteBottom, FlagsOK
    <3>2. PlacesOK'    BY <2>5 DEF WriteBottom, PlacesOK, PPC, CPC
    <3>3. NumbersOK'   BY <2>5 DEF WriteBottom, NumbersOK
    <3>4. PicturesOK'  BY <2>5 DEF WriteBottom, PicturesOK, NumbersOK, Pictures
    <3>. QED  BY <3>1, <3>2, <3>3, <3>4
  <2>6. CASE EndWriteLock
    <3>1. FlagsOK'     BY <2>6 DEF EndWriteLock, FlagsOK
    <3>2. PlacesOK'    BY <2>6 DEF EndWriteLock, PlacesOK, PPC, CPC
    <3>3. NumbersOK'   BY <2>6 DEF EndWriteLock, NumbersOK
    <3>4. PicturesOK'  BY <2>6 DEF EndWriteLock, PicturesOK
    <3>. QED  BY <3>1, <3>2, <3>3, <3>4
  <2>7. CASE EndWrite
    <3>1. FlagsOK'     BY <2>7 DEF EndWrite, FlagsOK
    <3>2. PlacesOK'    BY <2>7 DEF EndWrite, PlacesOK, PPC, CPC
    <3>3. NumbersOK'   BY <2>7 DEF EndWrite, NumbersOK
    <3>4. PicturesOK'  BY <2>7 DEF EndWrite, PicturesOK
    <3>. QED  BY <3>1, <3>2, <3>3, <3>4
  <2>8. CASE EndWriteUnlock
    <3>1. FlagsOK'     BY <2>8 DEF EndWriteUnlock, FlagsOK
    <3>2. PlacesOK'    BY <2>8 DEF EndWriteUnlock, PlacesOK, PPC, CPC
    <3>3. NumbersOK'   BY <2>8 DEF EndWriteUnlock, NumbersOK
    <3>4. PicturesOK'  BY <2>8 DEF EndWriteUnlock, PicturesOK
    <3>. QED  BY <3>1, <3>2, <3>3, <3>4
  <2>9. CASE ProducerDies
    <3>1. FlagsOK'     BY <2>9 DEF ProducerDies, FlagsOK
    <3>2. PlacesOK'    BY <2>9 DEF ProducerDies, PlacesOK, PPC, CPC
    <3>3. NumbersOK'   BY <2>9 DEF ProducerDies, NumbersOK
    <3>4. PicturesOK'  BY <2>9 DEF ProducerDies, PicturesOK
    <3>. QED  BY <3>1, <3>2, <3>3, <3>4
  <2>10. CASE BeginRead
    <3>1. FlagsOK'     BY <2>10 DEF BeginRead, FlagsOK
    <3>2. PlacesOK'    BY <2>10 DEF BeginRead, PlacesOK, PPC, CPC
    <3>3. NumbersOK'   BY <2>10 DEF BeginRead, NumbersOK
    <3>4. PicturesOK'  BY <2>10 DEF BeginRead, PicturesOK
    <3>. QED  BY <3>1, <3>2, <3>3, <3>4
  <2>11. CASE TryLock
    <3>1. FlagsOK'     BY <2>11 DEF TryLock, FlagsOK
    <3>2. PlacesOK'    BY <2>11 DEF TryLock, PlacesOK, PPC, CPC
    <3>3. NumbersOK'   BY <2>11 DEF TryLock, NumbersOK
    <3>4. PicturesOK'  BY <2>11 DEF TryLock, PicturesOK
    <3>. QED  BY <3>1, <3>2, <3>3, <3>4
  <2>12. CASE TryFlip
    <3>1. FlagsOK'     BY <2>12 DEF TryFlip, FlagsOK
    <3>2. PlacesOK'    BY <2>12 DEF TryFlip, PlacesOK, PPC, CPC
    <3>3. NumbersOK'   BY <2>12 DEF TryFlip, NumbersOK
    <3>4. PicturesOK'  BY <2>12 DEF TryFlip, PicturesOK
    <3>. QED  BY <3>1, <3>2, <3>3, <3>4
  <2>13. CASE TryUnlock
    <3>1. FlagsOK'     BY <2>13 DEF TryUnlock, FlagsOK
    <3>2. PlacesOK'    BY <2>13 DEF TryUnlock, PlacesOK, PPC, CPC
    <3>3. NumbersOK'   BY <2>13 DEF TryUnlock, NumbersOK
    <3>4. PicturesOK'  BY <2>13 DEF TryUnlock, PicturesOK
    <3>. QED  BY <3>1, <3>2, <3>3, <3>4
  <2>14. CASE CopyTop
    <3>1. FlagsOK'     BY <2>14 DEF CopyTop, FlagsOK
    <3>2. PlacesOK'    BY <2>14 DEF CopyTop, PlacesOK, PPC, CPC
    <3>3. NumbersOK'   BY <2>14 DEF CopyTop, NumbersOK
    <3>4. PicturesOK'  BY <2>14 DEF CopyTop, PicturesOK, NumbersOK, Pictures
    <3>. QED  BY <3>1, <3>2, <3>3, <3>4
  <2>15. CASE CopyBottom
    <3>1. FlagsOK'     BY <2>15 DEF CopyBottom, FlagsOK
    <3>2. PlacesOK'    BY <2>15 DEF CopyBottom, PlacesOK, PPC, CPC
    <3>3. NumbersOK'   BY <2>15 DEF CopyBottom, NumbersOK
    <3>4. PicturesOK'  BY <2>15 DEF CopyBottom, PicturesOK, NumbersOK, Pictures
    <3>. QED  BY <3>1, <3>2, <3>3, <3>4
  <2>16. CASE PutFrame
    <3>1. FlagsOK'     BY <2>16 DEF PutFrame, FlagsOK
    <3>2. PlacesOK'    BY <2>16 DEF PutFrame, PlacesOK, PPC, CPC
    <3>3. NumbersOK'   BY <2>16 DEF PutFrame, NumbersOK, PicturesOK, Pictures
    <3>4. PicturesOK'  BY <2>16 DEF PutFrame, PicturesOK
    <3>. QED  BY <3>1, <3>2, <3>3, <3>4
  <2>17. CASE UNCHANGED shmVars
    BY <2>17 DEF shmVars, FlagsOK, PlacesOK, NumbersOK, PicturesOK
  <2>. QED
    BY <2>1, <2>2, <2>3, <2>4, <2>5, <2>6, <2>7, <2>8, <2>9, <2>10, <2>11,
       <2>12, <2>13, <2>14, <2>15, <2>16, <2>17
    DEF ShmNext, ProducerStep, ConsumerStep
<1>. QED  BY <1>1, <1>2, PTL DEF ShmSpec

-----------------------------------------------------------------------------
(***************************************************************************)
(* The inductive invariant.  The semaphore excludes (Mutex); a producer    *)
(* between begin_write and end_write works on producer_buf and has the     *)
(* flip disabled, which is also what end_write asserts (Exclusive); the    *)
(* consumer copies from the other buffer (Chosen); and every buffer that   *)
(* the consumer may get holds one whole picture (Whole).                   *)
(***************************************************************************)
Mutex ==
    /\ ~(ProducerHolds /\ ConsumerHolds)
    /\ sem = 0 <=> ProducerHolds \/ ConsumerHolds

InWrite == ppc \in {"begin_post", "write_top", "write_bottom", "written", "end_cs"}

Exclusive == InWrite => ~ok_to_flip /\ pbuf = producer_buf

Chosen == cpc \in {"post", "copy_top", "copy_bottom"} => bufn = 1 - producer_buf

Whole ==
    /\ Intact(buffers[1 - producer_buf])
    /\ ok_to_flip => Intact(buffers[producer_buf])
    /\ ppc \in {"written", "end_cs"} => Intact(buffers[producer_buf])
    /\ ppc = "write_bottom" => buffers[producer_buf].top = frame

Copied ==
    /\ cpc = "copy_bottom" => copied.top = buffers[bufn].top
    /\ cpc = "put" => Intact(copied)

ShmInv == Mutex /\ Exclusive /\ Chosen /\ Whole /\ Copied

LEMMA ShmInvInductive ==
    ASSUME ShmTypeOK, ShmInv, [ShmNext]_shmVars
    PROVE  ShmInv'
<1>. USE DEF ShmTypeOK, FlagsOK, PlacesOK, NumbersOK, PicturesOK, Pictures,
             pvars, cvars, ProducerAt, ConsumerAt, PPC, CPC, Intact,
             ProducerHolds, ConsumerHolds, InWrite
<1>. USE DEF ShmInv, Mutex, Exclusive, Chosen, Whole, Copied
<1>1. CASE BeginWriteLock    BY <1>1 DEF BeginWriteLock
<1>2. CASE BeginWrite        BY <1>2 DEF BeginWrite
<1>3. CASE BeginWriteUnlock  BY <1>3 DEF BeginWriteUnlock
<1>4. CASE WriteTop          BY <1>4 DEF WriteTop
<1>5. CASE WriteBottom       BY <1>5 DEF WriteBottom
<1>6. CASE EndWriteLock      BY <1>6 DEF EndWriteLock
<1>7. CASE EndWrite          BY <1>7 DEF EndWrite
<1>8. CASE EndWriteUnlock    BY <1>8 DEF EndWriteUnlock
<1>9. CASE ProducerDies      BY <1>9 DEF ProducerDies
<1>10. CASE BeginRead        BY <1>10 DEF BeginRead
<1>11. CASE TryLock          BY <1>11 DEF TryLock
<1>12. CASE TryFlip          BY <1>12 DEF TryFlip
<1>13. CASE TryUnlock        BY <1>13 DEF TryUnlock
<1>14. CASE CopyTop          BY <1>14 DEF CopyTop
<1>15. CASE CopyBottom       BY <1>15 DEF CopyBottom
<1>16. CASE PutFrame         BY <1>16 DEF PutFrame
<1>17. CASE UNCHANGED shmVars   BY <1>17 DEF shmVars
<1>. QED
  BY <1>1, <1>2, <1>3, <1>4, <1>5, <1>6, <1>7, <1>8, <1>9, <1>10, <1>11,
     <1>12, <1>13, <1>14, <1>15, <1>16, <1>17
  DEF ShmNext, ProducerStep, ConsumerStep

LEMMA ShmInvHolds == ShmSpec => [](ShmTypeOK /\ ShmInv)
<1>1. ShmInit => ShmInv
  BY DEF ShmInit, ShmInv, Mutex, Exclusive, Chosen, Whole, Copied, Intact, Picture,
         ProducerHolds, ConsumerHolds, InWrite
<1>2. ShmTypeOK /\ ShmInv /\ [ShmNext]_shmVars => ShmInv'
  BY ShmInvInductive
<1>. QED  BY <1>1, <1>2, ShmTypeCorrect, PTL DEF ShmSpec

(***************************************************************************)
(* No frame the consumer puts on its pipe mixes two pictures.              *)
(***************************************************************************)
THEOREM ShmNoTornFrame == ShmSpec => []NoTornFrame
<1>1. ShmInv => NoTornFrame
  BY DEF ShmInv, Copied, NoTornFrame
<1>. QED  BY <1>1, ShmInvHolds, PTL

-----------------------------------------------------------------------------
(***************************************************************************)
(* What begin_write reports.  While a picture is written no flip can       *)
(* happen; once end_write is done, and until the next begin_write looks,   *)
(* the permission to flip is there exactly when no flip was made.          *)
(***************************************************************************)
Reported ==
    /\ ppc \notin {"idle", "end_post"} => frame > 0
    /\ ppc \in {"write_top", "write_bottom", "written", "end_cs"} => ~flip_seen
    /\ ppc = "end_post" \/ (ppc = "idle" /\ frame > 0) \/ (ppc = "begin_cs" /\ frame > 1)
         => (ok_to_flip <=> ~flip_seen)
    /\ ppc = "end_post" => frame > 0
    /\ ppc = "begin_cs" => ~was_flipped
    /\ FlipReportExact

LEMMA ReportedStep ==
    ASSUME ShmTypeOK, ShmInv, Reported, [ShmNext]_shmVars
    PROVE  Reported'
<1>. USE DEF ShmTypeOK, FlagsOK, PlacesOK, NumbersOK, PPC, CPC, pvars, cvars,
             ProducerAt, ConsumerAt, ProducerHolds, ConsumerHolds, InWrite
<1>. USE DEF ShmInv, Mutex, Exclusive, Reported, FlipReportExact
<1>1. CASE BeginWriteLock    BY <1>1 DEF BeginWriteLock
<1>2. CASE BeginWrite        BY <1>2 DEF BeginWrite
<1>3. CASE BeginWriteUnlock  BY <1>3 DEF BeginWriteUnlock
<1>4. CASE WriteTop          BY <1>4 DEF WriteTop
<1>5. CASE WriteBottom       BY <1>5 DEF WriteBottom
<1>6. CASE EndWriteLock      BY <1>6 DEF EndWriteLock
<1>7. CASE EndWrite          BY <1>7 DEF EndWrite
<1>8. CASE EndWriteUnlock    BY <1>8 DEF EndWriteUnlock
<1>9. CASE ProducerDies      BY <1>9 DEF ProducerDies
<1>10. CASE BeginRead        BY <1>10 DEF BeginRead
<1>11. CASE TryLock          BY <1>11 DEF TryLock
<1>12. CASE TryFlip          BY <1>12 DEF TryFlip
<1>13. CASE TryUnlock        BY <1>13 DEF TryUnlock
<1>14. CASE CopyTop          BY <1>14 DEF CopyTop
<1>15. CASE CopyBottom       BY <1>15 DEF CopyBottom
<1>16. CASE PutFrame         BY <1>16 DEF PutFrame
<1>17. CASE UNCHANGED shmVars   BY <1>17 DEF shmVars
<1>. QED
  BY <1>1, <1>2, <1>3, <1>4, <1>5, <1>6, <1>7, <1>8, <1>9, <1>10, <1>11,
     <1>12, <1>13, <1>14, <1>15, <1>16, <1>17
  DEF ShmNext, ProducerStep, ConsumerStep

(***************************************************************************)
(* The report of begin_write to a producer is exact from its second        *)
(* picture on, wherever the consumer flips and however often it tries.     *)
(***************************************************************************)
THEOREM ShmFlipReportExact == ShmSpec => []FlipReportExact
<1>1. ShmInit => Reported
  BY DEF ShmInit, Reported, FlipReportExact
<1>2. ShmTypeOK /\ ShmInv /\ Reported /\ [ShmNext]_shmVars => Reported'
  BY ReportedStep
<1>3. Reported => FlipReportExact
  BY DEF Reported
<1>. QED  BY <1>1, <1>2, <1>3, ShmInvHolds, PTL DEF ShmSpec

-----------------------------------------------------------------------------
(***************************************************************************)
(* The numbers of the pictures: what was shown is no newer than the        *)
(* consumer's buffer, and a buffer that can be flipped to is no older.     *)
(***************************************************************************)
Ordered ==
    /\ shown <= buffers[1 - producer_buf].bottom
    /\ \A b \in 0 .. 1 : buffers[b].bottom <= frame
    /\ ok_to_flip => buffers[1 - producer_buf].bottom <= buffers[producer_buf].bottom
    /\ ppc \in {"written", "end_cs"} => buffers[producer_buf].bottom = frame
    /\ cpc = "put" => copied.bottom = buffers[1 - producer_buf].bottom

LEMMA OrderedStep ==
    ASSUME ShmTypeOK, ShmInv, Ordered, [ShmNext]_shmVars
    PROVE  Ordered' /\ shown' >= shown
<1>. USE DEF ShmTypeOK, FlagsOK, PlacesOK, NumbersOK, PicturesOK, Pictures, PPC, CPC,
             pvars, cvars, ProducerAt, ConsumerAt, InWrite
<1>. USE DEF ShmInv, Exclusive, Chosen, Ordered
<1>1. CASE BeginWriteLock    BY <1>1 DEF BeginWriteLock
<1>2. CASE BeginWrite        BY <1>2 DEF BeginWrite
<1>3. CASE BeginWriteUnlock  BY <1>3 DEF BeginWriteUnlock
<1>4. CASE WriteTop          BY <1>4 DEF WriteTop
<1>5. CASE WriteBottom       BY <1>5 DEF WriteBottom
<1>6. CASE EndWriteLock      BY <1>6 DEF EndWriteLock
<1>7. CASE EndWrite          BY <1>7 DEF EndWrite
<1>8. CASE EndWriteUnlock    BY <1>8 DEF EndWriteUnlock
<1>9. CASE ProducerDies      BY <1>9 DEF ProducerDies
<1>10. CASE BeginRead        BY <1>10 DEF BeginRead
<1>11. CASE TryLock          BY <1>11 DEF TryLock
<1>12. CASE TryFlip          BY <1>12 DEF TryFlip
<1>13. CASE TryUnlock        BY <1>13 DEF TryUnlock
<1>14. CASE CopyTop          BY <1>14 DEF CopyTop
<1>15. CASE CopyBottom       BY <1>15 DEF CopyBottom
<1>16. CASE PutFrame         BY <1>16 DEF PutFrame
<1>17. CASE UNCHANGED shmVars   BY <1>17 DEF shmVars
<1>. QED
  BY <1>1, <1>2, <1>3, <1>4, <1>5, <1>6, <1>7, <1>8, <1>9, <1>10, <1>11,
     <1>12, <1>13, <1>14, <1>15, <1>16, <1>17
  DEF ShmNext, ProducerStep, ConsumerStep

(***************************************************************************)
(* The consumer never goes back to an older picture, although it copies    *)
(* without the semaphore and gives up after a bounded number of tries.     *)
(***************************************************************************)
THEOREM ShmFramesInOrder == ShmSpec => FramesInOrder
<1>. DEFINE Onward == shown' >= shown
<1>1. ShmInit => Ordered
  BY DEF ShmInit, Ordered, Picture
<1>2. ShmTypeOK /\ ShmInv /\ Ordered /\ [ShmNext]_shmVars => Ordered'
  BY OrderedStep
<1>3. ShmTypeOK /\ ShmInv /\ Ordered /\ [ShmNext]_shmVars => [Onward]_shmVars
  BY OrderedStep
<1>. QED  BY <1>1, <1>2, <1>3, ShmInvHolds, PTL DEF ShmSpec, FramesInOrder
==============================================================================
