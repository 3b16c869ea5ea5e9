------------------------- MODULE ReplayPreviewProofs -------------------------
(***************************************************************************)
(* The monitor port keeps its promise for any number of objects, and the   *)
(* preview, whose thread and multiviewer use it, uses it as the port means *)
(* it: every step of the preview is a step of the port or leaves it alone. *)
(***************************************************************************)
EXTENDS ReplayPreview, TLAPS

(* Outside put and get their locals hold nothing. *)
LocalsEmpty ==
    /\ ~putting => old_value = Null
    /\ ~getting => new_value = Null

(* HeldOnce without the set of holders. *)
Apart ==
    \A o \in 1 .. created :
        /\ o \in freed <=> buf # o /\ readbuf # o /\ old_value # o /\ new_value # o
        /\ buf = o => readbuf # o /\ old_value # o /\ new_value # o
        /\ readbuf = o => old_value # o /\ new_value # o
        /\ old_value = o => new_value # o

PortInv == PortTypeOK /\ LocalsEmpty /\ Apart /\ NewestLast

LEMMA ApartIsHeldOnce == Apart => HeldOnce
<1> SUFFICES ASSUME Apart, NEW o \in 1 .. created
             PROVE  /\ o \in freed <=> PortHolders(o) = {}
                    /\ \A p, q \in PortHolders(o) : p = q
  BY DEF HeldOnce
<1>1. /\ "buf" \in PortHolders(o) <=> buf = o
      /\ "readbuf" \in PortHolders(o) <=> readbuf = o
      /\ "put" \in PortHolders(o) <=> old_value = o
      /\ "get" \in PortHolders(o) <=> new_value = o
  BY DEF PortHolders
<1>2. PortHolders(o) \subseteq {"buf", "readbuf", "put", "get"}
  BY DEF PortHolders
<1>3. o \in freed <=> PortHolders(o) = {}
  BY <1>1, <1>2 DEF Apart
<1>4. \A p, q \in PortHolders(o) : p = q
  BY <1>1, <1>2 DEF Apart
<1> QED BY <1>3, <1>4

LEMMA PortInvInit == PortInit => PortInv
<1> SUFFICES ASSUME PortInit PROVE PortInv
  OBVIOUS
<1> USE PortAssumption DEF PortInit, Null
<1>1. FlagsOK
  BY DEF FlagsOK
<1>4. PointersOK
  BY DEF PointersOK
<1>2. LocalsEmpty /\ NewestLast
  BY DEF LocalsEmpty, NewestLast
<1>3. Apart
  BY DEF Apart
<1> QED BY <1>1, <1>2, <1>3, <1>4 DEF PortInv, PortTypeOK

LEMMA PortInvNext == PortInv /\ [PortNext]_port => PortInv'
<1> SUFFICES ASSUME PortInv, [PortNext]_port PROVE PortInv'
  OBVIOUS
<1> USE PortAssumption DEF Null
<1>0. PortTypeOK /\ LocalsEmpty /\ Apart /\ NewestLast
  BY DEF PortInv
<1>1. CASE Put
  <2>1. FlagsOK'
    BY <1>0, <1>1 DEF Put, FlagsOK, PortTypeOK
  <2>5. PointersOK'
    BY <1>0, <1>1 DEF Put, PointersOK, PortTypeOK
  <2>2. LocalsEmpty'
    BY <1>0, <1>1 DEF Put, LocalsEmpty
  <2>3. NewestLast'
    BY <1>0, <1>1 DEF Put, NewestLast, PortTypeOK, PointersOK, LocalsEmpty
  <2>4. Apart'
    BY <1>0, <1>1 DEF Put, Apart, PortTypeOK, PointersOK, LocalsEmpty
  <2> QED BY <2>1, <2>2, <2>3, <2>4, <2>5 DEF PortInv, PortTypeOK
<1>2. CASE PutReturns
  <2>1. FlagsOK'
    BY <1>0, <1>2 DEF PutReturns, FlagsOK, PortTypeOK
  <2>5. PointersOK'
    BY <1>0, <1>2 DEF PutReturns, PointersOK, PortTypeOK
  <2>2. LocalsEmpty'
    BY <1>0, <1>2 DEF PutReturns, LocalsEmpty
  <2>3. NewestLast'
    BY <1>0, <1>2 DEF PutReturns, NewestLast
  <2>4. Apart'
    BY <1>0, <1>2 DEF PutReturns, Apart, PortTypeOK, PointersOK
  <2> QED BY <2>1, <2>2, <2>3, <2>4, <2>5 DEF PortInv, PortTypeOK
<1>3. CASE Get
  <2>1. FlagsOK'
    BY <1>0, <1>3 DEF Get, FlagsOK, PortTypeOK
  <2>5. PointersOK'
    BY <1>0, <1>3 DEF Get, PointersOK, PortTypeOK
  <2>2. LocalsEmpty'
    BY <1>0, <1>3 DEF Get, LocalsEmpty
  <2>3. NewestLast'
    BY <1>0, <1>3 DEF Get, NewestLast
  <2>4. Apart'
    BY <1>0, <1>3 DEF Get, Apart, PortTypeOK, PointersOK, LocalsEmpty
  <2> QED BY <2>1, <2>2, <2>3, <2>4, <2>5 DEF PortInv, PortTypeOK
<1>4. CASE GetReturns
  <2>1. FlagsOK'
    BY <1>0, <1>4 DEF GetReturns, FlagsOK, PortTypeOK
  <2>5. PointersOK'
    <3>1. freed' \subseteq 1 .. created
      <4>1. freed \subseteq 1 .. created /\ readbuf \in 0 .. created /\ created \in Nat
        BY <1>0 DEF PointersOK, PortTypeOK
      <4>2. freed' \in {freed, freed \cup {readbuf}} /\ (readbuf = 0 => freed' = freed)
        BY <1>4 DEF GetReturns
      <4>3. readbuf # 0 => readbuf \in 1 .. created
        BY <4>1
      <4> QED BY <4>1, <4>2, <4>3
    <3>2. readbuf' \in 0 .. created
      BY <1>0, <1>4 DEF GetReturns, PointersOK, PortTypeOK
    <3> QED BY <1>0, <1>4, <3>1, <3>2 DEF GetReturns, PointersOK, PortTypeOK
  <2>2. LocalsEmpty'
    BY <1>0, <1>4 DEF GetReturns, LocalsEmpty
  <2>3. NewestLast'
    BY <1>0, <1>4 DEF GetReturns, NewestLast, PortTypeOK, PointersOK
  <2>4. Apart'
    BY <1>0, <1>4 DEF GetReturns, Apart, PortTypeOK, PointersOK
  <2> QED BY <2>1, <2>2, <2>3, <2>4, <2>5 DEF PortInv, PortTypeOK
<1>5. CASE UNCHANGED port
  BY <1>0, <1>5 DEF port, PortInv, PortTypeOK, FlagsOK, PointersOK, LocalsEmpty, Apart,
     NewestLast
<1> QED BY <1>1, <1>2, <1>3, <1>4, <1>5 DEF PortNext

(***************************************************************************)
(* async_port.h:48-49 for every interleaving and any number of objects.    *)
(***************************************************************************)
THEOREM PortKeepsObjects == PortSpec => []PortKeepsPictures
<1>1. PortInv => PortKeepsPictures
  BY ApartIsHeldOnce DEF PortInv, PortKeepsPictures
<1> QED BY PortInvInit, PortInvNext, <1>1, PTL DEF PortSpec

(***************************************************************************)
(* The preview thread and the multiviewer use the port as it is meant: the *)
(* preview implements the port's specification.                            *)
(***************************************************************************)
THEOREM PreviewImplementsPort == PreviewSpec => PortSpec
<1>1. PreviewInit => PortInit
  BY DEF PreviewInit
<1>2. [PreviewNext]_previewVars => [PortNext]_port
  <2> SUFFICES ASSUME [PreviewNext]_previewVars PROVE [PortNext]_port
    OBVIOUS
  <2>1. CASE \E c \in Cameras : Record(c)
    BY <2>1 DEF Record, port
  <2>2. CASE PreviewOperator
    BY <2>2 DEF PreviewOperator, ChangeShot, Seek, MarkIn, MarkOut, port
  <2>3. CASE Preview
    BY <2>3 DEF Preview, SleepForUpdate, ReadPosition, FindClosestValidFrame,
       PutOnMonitor, MonitorPutReturns, PortNext, port
  <2>4. CASE SpuriousWakeup
    BY <2>4 DEF SpuriousWakeup, port
  <2>5. CASE Multiviewer
    BY <2>5 DEF Multiviewer, MultiviewerGets, MultiviewerDraws, PortNext
  <2>6. CASE UNCHANGED previewVars
    BY <2>6 DEF previewVars, port
  <2> QED BY <2>1, <2>2, <2>3, <2>4, <2>5, <2>6 DEF PreviewNext
<1> QED BY <1>1, <1>2, PTL DEF PreviewSpec, PortSpec

(***************************************************************************)
(* So the multiviewer never draws a deleted picture, no picture leaks, and *)
(* it never goes back to an older one.                                     *)
(***************************************************************************)
THEOREM PreviewKeepsPictures == PreviewSpec => []PortKeepsPictures
  BY PortKeepsObjects, PreviewImplementsPort, PTL

(* Asleep, the thread is in wait_update: not between two of its sections. *)
SleepInv == NeverSleepsOnWork /\ (asleep => ppc = "wait")

LEMMA SleepInvNext == SleepInv /\ [PreviewNext]_previewVars => SleepInv'
<1> SUFFICES ASSUME SleepInv, [PreviewNext]_previewVars PROVE SleepInv'
  OBVIOUS
<1> USE DEF SleepInv, NeverSleepsOnWork
<1>1. CASE \E c \in Cameras : Record(c)
  BY <1>1 DEF Record, shot, Waits
<1>2. CASE PreviewOperator
  <2>1. CASE \E c \in Cameras, pos \in -1 .. MaxFrames : ChangeShot(c, pos)
    BY <2>1 DEF ChangeShot
  <2>2. CASE \E delta \in Deltas : Seek(delta)
    BY <2>2 DEF Seek
  <2>3. CASE MarkIn
    BY <2>3 DEF MarkIn, Waits
  <2>4. CASE MarkOut
    BY <2>4 DEF MarkOut, Waits
  <2> QED BY <1>2, <2>1, <2>2, <2>3, <2>4 DEF PreviewOperator
<1>3. CASE Preview
  <2>1. CASE SleepForUpdate
    BY <2>1 DEF SleepForUpdate, shot, Waits
  <2>2. CASE ReadPosition
    BY <2>2 DEF ReadPosition
  <2>3. CASE FindClosestValidFrame
    BY <2>3 DEF FindClosestValidFrame, shot, Waits
  <2>4. CASE PutOnMonitor
    BY <2>4 DEF PutOnMonitor, shot, Waits
  <2>5. CASE MonitorPutReturns
    BY <2>5 DEF MonitorPutReturns, shot, Waits
  <2> QED BY <1>3, <2>1, <2>2, <2>3, <2>4, <2>5 DEF Preview
<1>4. CASE SpuriousWakeup
  BY <1>4 DEF SpuriousWakeup
<1>5. CASE Multiviewer
  BY <1>5 DEF Multiviewer, MultiviewerGets, MultiviewerDraws, shot, Waits
<1>6. CASE UNCHANGED previewVars
  BY <1>6 DEF previewVars, shot, Waits
<1> QED BY <1>1, <1>2, <1>3, <1>4, <1>5, <1>6 DEF PreviewNext
(***************************************************************************)
(* No wakeup of the preview thread is lost, whatever the commands.         *)
(***************************************************************************)
THEOREM PreviewNeverSleepsOnWork == PreviewSpec => []NeverSleepsOnWork
<1>1. PreviewInit => SleepInv
  BY DEF PreviewInit, SleepInv, NeverSleepsOnWork
<1>2. SleepInv => NeverSleepsOnWork
  BY DEF SleepInv
<1> QED BY <1>1, <1>2, SleepInvNext, PTL DEF PreviewSpec
==============================================================================
