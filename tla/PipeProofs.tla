----------------------------- MODULE PipeProofs -----------------------------
(***************************************************************************)
(* Theorems about the locked pipe, for every ring length, every set of     *)
(* objects and any number of threads at each end.                          *)
(***************************************************************************)
EXTENDS Pipe, SequenceTheorems, FiniteSetTheorems, TLAPS

-----------------------------------------------------------------------------
(* A condition's signal takes one sleeper out of the wait set, or nobody   *)
(* is waiting: the wait sets keep describing who is asleep.                *)

LEMMA SignalNotEmptyKeepsTypes ==
    ASSUME NEW pcs \in [Threads -> PC],
           pipe_not_empty = {c \in Consumers : pcs[c] = "asleep"},
           SignalNotEmpty(pcs)
    PROVE  /\ pc' \in [Threads -> PC]
           /\ pipe_not_empty' = {c \in Consumers : pc'[c] = "asleep"}
           /\ \A p \in Producers : pc'[p] = pcs[p]
           /\ \A c \in Consumers : pc'[c] = pcs[c] \/ pc'[c] = "awake"
<1>. USE PipeAssumption DEF Threads, PC
<1>1. CASE pipe_not_empty = {} /\ pc' = pcs /\ UNCHANGED pipe_not_empty
  BY <1>1
<1>2. ASSUME NEW c \in pipe_not_empty,
             pipe_not_empty' = pipe_not_empty \ {c},
             pc' = [pcs EXCEPT ![c] = "awake"]
      PROVE  /\ pc' \in [Threads -> PC]
             /\ pipe_not_empty' = {d \in Consumers : pc'[d] = "asleep"}
             /\ \A p \in Producers : pc'[p] = pcs[p]
             /\ \A d \in Consumers : pc'[d] = pcs[d] \/ pc'[d] = "awake"
  BY <1>2
<1>. QED  BY <1>1, <1>2 DEF SignalNotEmpty

LEMMA SignalNotFullKeepsTypes ==
    ASSUME NEW pcs \in [Threads -> PC],
           pipe_not_full = {p \in Producers : pcs[p] = "asleep"},
           SignalNotFull(pcs)
    PROVE  /\ pc' \in [Threads -> PC]
           /\ pipe_not_full' = {p \in Producers : pc'[p] = "asleep"}
           /\ \A c \in Consumers : pc'[c] = pcs[c]
           /\ \A p \in Producers :
                 \/ pc'[p] = pcs[p]
                 \/ pcs[p] = "asleep" /\ pc'[p] = "awake"
<1>. USE PipeAssumption DEF Threads, PC
<1>1. CASE pipe_not_full = {} /\ pc' = pcs /\ UNCHANGED pipe_not_full
  BY <1>1
<1>2. ASSUME NEW p \in pipe_not_full,
             pipe_not_full' = pipe_not_full \ {p},
             pc' = [pcs EXCEPT ![p] = "awake"]
      PROVE  /\ pc' \in [Threads -> PC]
             /\ pipe_not_full' = {q \in Producers : pc'[q] = "asleep"}
             /\ \A c \in Consumers : pc'[c] = pcs[c]
             /\ \A q \in Producers :
                   \/ pc'[q] = pcs[q]
                   \/ pcs[q] = "asleep" /\ pc'[q] = "awake"
  BY <1>2
<1>. QED  BY <1>1, <1>2 DEF SignalNotFull

LEMMA AdvanceInRing == ASSUME NEW i \in Slots PROVE advance(i) \in Slots
BY PipeAssumption DEF Slots, advance

-----------------------------------------------------------------------------
(* The pointers stay in the ring, a producer inside put always has an      *)
(* object to store, and the wait sets hold exactly the sleeping threads    *)
(* (a signal cannot be lost on a thread that is about to sleep).           *)

THEOREM TypeCorrect == Spec => []TypeOK
<1>. USE PipeAssumption DEF TypeOK
<1>1. Init => TypeOK
  <2>. SUFFICES ASSUME Init PROVE TypeOK
    OBVIOUS
  <2>1. /\ 0 \in Slots
        /\ \A t \in Threads : pc[t] = "idle"
    BY DEF Init, Slots
  <2>2. /\ pipe_not_full = {p \in Producers : pc[p] = "asleep"}
        /\ pipe_not_empty = {c \in Consumers : pc[c] = "asleep"}
        /\ \A p \in Producers : ~(Runs(p) \/ pc[p] = "asleep")
    BY <2>1 DEF Init, Threads, Runs
  <2>3. /\ pc \in [Threads -> PC]
        /\ buf \in [Slots -> Items \cup {NULL}]
        /\ item \in [Producers -> Items \cup {NULL}]
        /\ polled \in [Threads -> BOOLEAN]
    BY DEF Init, PC
  <2>. QED  BY <2>1, <2>2, <2>3 DEF Init
<1>2. TypeOK /\ [Next]_vars => TypeOK'
  <2>. SUFFICES ASSUME TypeOK, [Next]_vars PROVE TypeOK'
    OBVIOUS
  <2>1. ASSUME NEW p \in Producers, CanPut(p) PROVE TypeOK'
    BY <2>1 DEF CanPut, Runs
  <2>2. ASSUME NEW c \in Consumers, DataReady(c) PROVE TypeOK'
    BY <2>2 DEF DataReady, Runs
  <2>3. ASSUME NEW p \in Producers, NEW v \in Items, CallPut(p, v) PROVE TypeOK'
    BY <2>3 DEF CallPut, Runs, Threads, PC
  <2>4. ASSUME NEW p \in Producers, PutBroken(p) PROVE TypeOK'
    BY <2>4 DEF PutBroken, Runs, Threads, PC
  <2>5. ASSUME NEW p \in Producers, PutWait(p) PROVE TypeOK'
    BY <2>5 DEF PutWait, Runs, Threads, PC
  <2>6. ASSUME NEW p \in Producers, PutStore(p) PROVE TypeOK'
    <3>. DEFINE pcs == [pc EXCEPT ![p] = "idle"]
    <3>1. /\ pcs \in [Threads -> PC]
          /\ pipe_not_empty = {c \in Consumers : pcs[c] = "asleep"}
          /\ SignalNotEmpty(pcs)
      BY <2>6 DEF PutStore, Threads, PC
    <3>2. /\ pc' \in [Threads -> PC]
          /\ pipe_not_empty' = {c \in Consumers : pc'[c] = "asleep"}
          /\ \A q \in Producers : pc'[q] = pcs[q]
      <4>. HIDE DEF pcs
      <4>. QED  BY <3>1, SignalNotEmptyKeepsTypes
    <3>3. /\ buf' \in [Slots -> Items \cup {NULL}]
          /\ read_ptr' \in Slots /\ write_ptr' \in Slots
          /\ read_done' \in BOOLEAN /\ write_done' \in BOOLEAN
          /\ item' = item
          /\ polled' \in [Threads -> BOOLEAN]
      BY <2>6, AdvanceInRing DEF PutStore, Runs, Threads
    <3>4. pipe_not_full' = {q \in Producers : pc'[q] = "asleep"}
      BY <2>6, <3>2 DEF PutStore, Runs, Threads
    <3>5. \A q \in Producers : Runs(q)' \/ pc'[q] = "asleep" => item'[q] \in Items
      BY <3>2, <3>3 DEF Runs, Threads
    <3>. QED  BY <3>2, <3>3, <3>4, <3>5
  <2>7. ASSUME NEW p \in Producers, DoneWriting(p) PROVE TypeOK'
    <3>. DEFINE pcs == [pc EXCEPT ![p] = "left"]
    <3>1. /\ pcs \in [Threads -> PC]
          /\ pipe_not_empty = {c \in Consumers : pcs[c] = "asleep"}
          /\ SignalNotEmpty(pcs)
      BY <2>7 DEF DoneWriting, Threads, PC
    <3>2. /\ pc' \in [Threads -> PC]
          /\ pipe_not_empty' = {c \in Consumers : pc'[c] = "asleep"}
          /\ \A q \in Producers : pc'[q] = pcs[q]
      <4>. HIDE DEF pcs
      <4>. QED  BY <3>1, SignalNotEmptyKeepsTypes
    <3>3. pipe_not_full' = {q \in Producers : pc'[q] = "asleep"}
      BY <2>7, <3>2 DEF DoneWriting, Threads
    <3>4. \A q \in Producers : Runs(q)' \/ pc'[q] = "asleep" => item'[q] \in Items
      BY <2>7, <3>2 DEF DoneWriting, Runs, Threads
    <3>. QED  BY <2>7, <3>2, <3>3, <3>4 DEF DoneWriting
  <2>8. ASSUME NEW c \in Consumers, CallGet(c) PROVE TypeOK'
    BY <2>8 DEF CallGet, Runs, Threads, PC
  <2>9. ASSUME NEW c \in Consumers, GetBroken(c) PROVE TypeOK'
    BY <2>9 DEF GetBroken, Runs, Threads, PC
  <2>10. ASSUME NEW c \in Consumers, GetWait(c) PROVE TypeOK'
    BY <2>10 DEF GetWait, Runs, Threads, PC
  <2>11. ASSUME NEW c \in Consumers, GetTake(c) PROVE TypeOK'
    <3>. DEFINE pcs == [pc EXCEPT ![c] = "idle"]
    <3>1. /\ pcs \in [Threads -> PC]
          /\ pipe_not_full = {p \in Producers : pcs[p] = "asleep"}
          /\ SignalNotFull(pcs)
      BY <2>11 DEF GetTake, Threads, PC
    <3>2. /\ pc' \in [Threads -> PC]
          /\ pipe_not_full' = {p \in Producers : pc'[p] = "asleep"}
          /\ \A d \in Consumers : pc'[d] = pcs[d]
          /\ \A p \in Producers :
                \/ pc'[p] = pcs[p]
                \/ pcs[p] = "asleep" /\ pc'[p] = "awake"
      <4>. HIDE DEF pcs
      <4>. QED  BY <3>1, SignalNotFullKeepsTypes
    <3>3. /\ buf' \in [Slots -> Items \cup {NULL}]
          /\ read_ptr' \in Slots /\ write_ptr' \in Slots
          /\ read_done' \in BOOLEAN /\ write_done' \in BOOLEAN
          /\ item' = item
          /\ polled' \in [Threads -> BOOLEAN]
      BY <2>11, AdvanceInRing DEF GetTake, Threads
    <3>4. pipe_not_empty' = {d \in Consumers : pc'[d] = "asleep"}
      BY <2>11, <3>2 DEF GetTake, Runs, Threads
    <3>5. \A p \in Producers : Runs(p)' \/ pc'[p] = "asleep" => item'[p] \in Items
      BY <3>2, <3>3 DEF Runs, Threads
    <3>. QED  BY <3>2, <3>3, <3>4, <3>5
  <2>12. ASSUME NEW c \in Consumers, Leave(c) PROVE TypeOK'
    BY <2>12 DEF Leave, Runs, Threads, PC
  <2>13. CASE DoneReading
    <3>1. /\ pc' \in [Threads -> PC]
          /\ pipe_not_full' = {p \in Producers : pc'[p] = "asleep"}
          /\ \A d \in Consumers : pc'[d] = pc[d]
          /\ \A p \in Producers :
                \/ pc'[p] = pc[p]
                \/ pc[p] = "asleep" /\ pc'[p] = "awake"
      BY <2>13, SignalNotFullKeepsTypes DEF DoneReading
    <3>2. \A p \in Producers : Runs(p)' \/ pc'[p] = "asleep" => item'[p] \in Items
      BY <2>13, <3>1 DEF DoneReading, Runs
    <3>. QED  BY <2>13, <3>1, <3>2 DEF DoneReading
  <2>14. ASSUME NEW t \in Threads, SpuriousWakeup(t) PROVE TypeOK'
    BY <2>14 DEF SpuriousWakeup, Runs, Threads, PC
  <2>15. CASE UNCHANGED vars
    BY <2>15 DEF vars, Runs
  <2>. QED
    BY <2>1, <2>2, <2>3, <2>4, <2>5, <2>6, <2>7, <2>8, <2>9, <2>10, <2>11,
       <2>12, <2>13, <2>14, <2>15 DEF Next, Producer, Consumer
<1>. QED  BY <1>1, <1>2, PTL DEF Spec

-----------------------------------------------------------------------------
(* The assertions in get and put never fail, whatever threads use the pipe *)
(* and however long it has been in use.                                    *)

THEOREM RingIsConsistent == Spec => []RingConsistent
<1>1. Init => RingConsistent
  BY PipeAssumption DEF Init, RingConsistent, Occupied, Slots
<1>2. TypeOK /\ RingConsistent /\ [Next]_vars => RingConsistent'
  <2>. SUFFICES ASSUME TypeOK, RingConsistent, [Next]_vars
                PROVE  RingConsistent'
    OBVIOUS
  <2>1. ASSUME NEW p \in Producers, PutStore(p) PROVE RingConsistent'
    <3>1. item[p] \in Items /\ item[p] # NULL
      BY <2>1, PipeAssumption DEF PutStore, TypeOK
    <3>2. /\ buf \in [Slots -> Items \cup {NULL}]
          /\ read_ptr \in Slots /\ write_ptr \in Slots
      BY DEF TypeOK
    <3>3. /\ buf' = [buf EXCEPT ![write_ptr] = item[p]]
          /\ read_ptr' = read_ptr
          /\ write_ptr' = advance(write_ptr)
          /\ advance(write_ptr) # read_ptr
      BY <2>1 DEF PutStore, full
    <3>. QED
      BY <3>1, <3>2, <3>3, PipeAssumption
      DEF RingConsistent, Occupied, Slots, advance
  <2>2. ASSUME NEW c \in Consumers, GetTake(c) PROVE RingConsistent'
    <3>1. /\ buf \in [Slots -> Items \cup {NULL}]
          /\ read_ptr \in Slots /\ write_ptr \in Slots
      BY DEF TypeOK
    <3>2. /\ buf' = [buf EXCEPT ![read_ptr] = NULL]
          /\ read_ptr' = advance(read_ptr)
          /\ write_ptr' = write_ptr
          /\ read_ptr # write_ptr
      BY <2>2 DEF GetTake, empty
    <3>. QED
      BY <3>1, <3>2, PipeAssumption
      DEF RingConsistent, Occupied, Slots, advance
  <2>3. CASE UNCHANGED <<buf, read_ptr, write_ptr>>
    BY <2>3 DEF RingConsistent, Occupied
  <2>. QED
    BY <2>1, <2>2, <2>3
    DEF Next, Producer, Consumer, CanPut, CallPut, PutBroken, PutWait,
        DoneWriting, DataReady, CallGet, GetBroken, GetWait, Leave,
        DoneReading, SpuriousWakeup, vars
<1>. QED  BY <1>1, <1>2, TypeCorrect, PTL DEF Spec

-----------------------------------------------------------------------------
(* The ring read as a sequence. *)

Object == Items \cup {NULL}

LEMMA FillProperties ==
    ASSUME TypeOK
    PROVE  /\ fill \in Nat
           /\ fill <= BufLen - 1
           /\ full <=> fill = BufLen - 1
           /\ empty <=> fill = 0
           /\ \A k \in 1 .. fill : Slot(k) \in Slots
BY PipeAssumption DEF TypeOK, Slots, fill, full, empty, advance, Slot

ContentsView ==
    /\ Contents \in Seq(Object)
    /\ Len(Contents) = fill
    /\ \A k \in 1 .. fill : Contents[k] = buf[Slot(k)]

LEMMA ContentsIsSeq == TypeOK => ContentsView
<1>. SUFFICES ASSUME TypeOK PROVE ContentsView
  OBVIOUS
<1>1. /\ fill \in Nat
      /\ \A k \in 1 .. fill : buf[Slot(k)] \in Object
  BY FillProperties DEF TypeOK, Object
<1>2. Contents \in [1 .. fill -> Object]
  BY <1>1 DEF Contents
<1>3. Contents \in Seq(Object)
  BY <1>1, <1>2, SeqDef
<1>4. Len(Contents) = fill
  BY <1>1, <1>2, <1>3, LenProperties
<1>. QED  BY <1>1, <1>3, <1>4 DEF Contents, ContentsView

LEMMA PutAppends ==
    ASSUME TypeOK, TypeOK', NEW p \in Producers, PutStore(p)
    PROVE  Contents' = Append(Contents, item[p]) /\ item[p] \in Items
<1>1. item[p] \in Items
  BY DEF PutStore, TypeOK
<1>2. /\ buf \in [Slots -> Object]
      /\ read_ptr \in Slots /\ write_ptr \in Slots
      /\ buf' = [buf EXCEPT ![write_ptr] = item[p]]
      /\ read_ptr' = read_ptr
      /\ write_ptr' = advance(write_ptr)
      /\ advance(write_ptr) # read_ptr
  BY DEF TypeOK, PutStore, full, Object
<1>3. fill \in Nat /\ fill' = fill + 1
  BY <1>2, PipeAssumption DEF fill, Slots, advance
<1>4. \A k \in 1 .. fill : Slot(k)' = Slot(k)
  BY <1>2 DEF Slot
<1>5. \A k \in 1 .. fill : Slot(k) # write_ptr /\ Slot(k) \in Slots
  BY <1>2, PipeAssumption DEF fill, Slot, Slots
<1>6. \A k : k = fill + 1 => Slot(k)' = write_ptr
  BY <1>2, PipeAssumption DEF fill, Slot, Slots
<1>7. ContentsView /\ ContentsView'
  BY ContentsIsSeq, PTL
<1>8. \A k \in 1 .. fill + 1 : Contents'[k] = Append(Contents, item[p])[k]
  <2>. SUFFICES ASSUME NEW k \in 1 .. fill + 1
                PROVE  Contents'[k] = Append(Contents, item[p])[k]
    OBVIOUS
  <2>1. Contents'[k] = buf'[Slot(k)']
    BY <1>3, <1>7 DEF ContentsView
  <2>2. CASE k \in 1 .. fill
    BY <1>1, <1>2, <1>4, <1>5, <1>7, <2>1, <2>2, AppendProperties
    DEF ContentsView, Object
  <2>3. CASE k = fill + 1
    BY <1>1, <1>2, <1>6, <1>7, <2>1, <2>3, AppendProperties
    DEF ContentsView, Object
  <2>4. k \in 1 .. fill \/ k = fill + 1
    BY <1>3
  <2>. QED  BY <2>2, <2>3, <2>4
<1>9. /\ Contents' \in Seq(Object)
      /\ Append(Contents, item[p]) \in Seq(Object)
      /\ Len(Contents') = fill + 1
      /\ Len(Append(Contents, item[p])) = fill + 1
  BY <1>1, <1>3, <1>7, AppendProperties DEF ContentsView, Object
<1>. QED  BY <1>1, <1>8, <1>9, SeqEqual

LEMMA GetRemoves ==
    ASSUME TypeOK, TypeOK', NEW c \in Consumers, GetTake(c)
    PROVE  Contents # <<>> /\ Contents' = Tail(Contents)
<1>1. /\ buf \in [Slots -> Object]
      /\ read_ptr \in Slots /\ write_ptr \in Slots
      /\ buf' = [buf EXCEPT ![read_ptr] = NULL]
      /\ read_ptr' = advance(read_ptr)
      /\ write_ptr' = write_ptr
      /\ read_ptr # write_ptr
  BY DEF TypeOK, GetTake, empty, Object
<1>2. fill \in Nat \ {0} /\ fill' = fill - 1
  BY <1>1, PipeAssumption DEF fill, Slots, advance
<1>3. \A k \in 1 .. fill - 1 : Slot(k)' = Slot(k + 1)
  BY <1>1, <1>2, PipeAssumption DEF fill, Slot, Slots, advance
<1>4. \A k \in 1 .. fill - 1 : Slot(k + 1) # read_ptr /\ Slot(k + 1) \in Slots
  BY <1>1, <1>2, PipeAssumption DEF fill, Slot, Slots
<1>5. ContentsView /\ ContentsView'
  BY ContentsIsSeq, PTL
<1>6. Contents # <<>>
  BY <1>2, <1>5 DEF ContentsView
<1>7. /\ Tail(Contents) \in Seq(Object)
      /\ Len(Tail(Contents)) = fill - 1
      /\ \A k \in 1 .. fill - 1 : Tail(Contents)[k] = Contents[k + 1]
  BY <1>5, <1>6, HeadTailProperties DEF ContentsView
<1>8. \A k \in 1 .. fill - 1 : Contents'[k] = Tail(Contents)[k]
  <2>. SUFFICES ASSUME NEW k \in 1 .. fill - 1
                PROVE  Contents'[k] = Tail(Contents)[k]
    OBVIOUS
  <2>1. Contents'[k] = buf'[Slot(k)']
    BY <1>2, <1>5 DEF ContentsView
  <2>2. Contents[k + 1] = buf[Slot(k + 1)]
    BY <1>2, <1>5 DEF ContentsView
  <2>. QED  BY <1>1, <1>3, <1>4, <1>7, <2>1, <2>2
<1>9. Contents' \in Seq(Object) /\ Len(Contents') = fill - 1
  BY <1>2, <1>5 DEF ContentsView
<1>. QED  BY <1>6, <1>7, <1>8, <1>9, SeqEqual

(***************************************************************************)
(* The pipe implements the FIFO channel of Channel.tla with BufLen - 1     *)
(* places: every atomic step of a put or a get is a channel operation or   *)
(* invisible, for any number of threads.                                   *)
(***************************************************************************)
THEOREM PipeImplementsChannel == Spec => ImplementsChannel
<1>. USE DEF Chan!vars
<1>1. Init => Chan!Init
  <2>. SUFFICES ASSUME Init PROVE Chan!Init
    OBVIOUS
  <2>1. Contents = <<>>
    BY DEF Init, Contents, fill
  <2>. QED  BY <2>1 DEF Init, Chan!Init, Threads
<1>2. TypeOK /\ TypeOK' /\ [Next]_vars => [Chan!Next]_Chan!vars
  <2>. SUFFICES ASSUME TypeOK, TypeOK', [Next]_vars
                PROVE  [Chan!Next]_Chan!vars
    OBVIOUS
  <2>. DEFINE Refused == \E p \in Producers : pc[p] = "broken"
              Ended == \E c \in Consumers : pc[c] = "broken"
  <2>1. UNCHANGED <<buf, read_ptr, write_ptr>> => UNCHANGED Contents
    BY DEF Contents, fill, Slot
  <2>2. ASSUME NEW p \in Producers, PutStore(p) PROVE Chan!Next
    <3>1. /\ Contents' = Append(Contents, item[p])
          /\ item[p] \in Items
      BY <2>2, PutAppends
    <3>2. Len(Contents) < BufLen - 1
      BY <2>2, FillProperties, ContentsIsSeq, PipeAssumption
      DEF PutStore, ContentsView
    <3>3. UNCHANGED <<read_done, write_done, Refused, Ended>>
      <4>. DEFINE pcs == [pc EXCEPT ![p] = "idle"]
      <4>1. pcs \in [Threads -> PC] /\ pc[p] # "broken"
        BY <2>2 DEF PutStore, Runs, TypeOK, PC
      <4>2. pipe_not_empty = {c \in Consumers : pcs[c] = "asleep"}
        BY PipeAssumption DEF TypeOK, Threads
      <4>3. SignalNotEmpty(pcs)
        BY <2>2 DEF PutStore
      <4>4. /\ \A q \in Producers : pc'[q] = pcs[q]
            /\ \A c \in Consumers : pc'[c] = "broken" <=> pcs[c] = "broken"
        BY <4>1, <4>2, <4>3, PipeAssumption DEF SignalNotEmpty, Threads
      <4>5. /\ \A q \in Producers : pc'[q] = "broken" <=> pc[q] = "broken"
            /\ \A c \in Consumers : pc'[c] = "broken" <=> pc[c] = "broken"
        BY <4>1, <4>4, PipeAssumption DEF TypeOK, Threads
      <4>. QED  BY <2>2, <4>5 DEF PutStore
    <3>4. Chan!Send(item[p])
      BY <3>1, <3>2, <3>3 DEF Chan!Send
    <3>. QED  BY <3>1, <3>4 DEF Chan!Next
  <2>3. ASSUME NEW c \in Consumers, GetTake(c) PROVE Chan!Next
    <3>1. Contents # <<>> /\ Contents' = Tail(Contents)
      BY <2>3, GetRemoves
    <3>2. UNCHANGED <<read_done, write_done, Refused, Ended>>
      <4>. DEFINE pcs == [pc EXCEPT ![c] = "idle"]
      <4>1. pcs \in [Threads -> PC] /\ pc[c] # "broken"
        BY <2>3 DEF GetTake, Runs, TypeOK, PC
      <4>2. pipe_not_full = {p \in Producers : pcs[p] = "asleep"}
        BY PipeAssumption DEF TypeOK, Threads
      <4>3. SignalNotFull(pcs)
        BY <2>3 DEF GetTake
      <4>4. /\ \A d \in Consumers : pc'[d] = pcs[d]
            /\ \A p \in Producers : pc'[p] = "broken" <=> pcs[p] = "broken"
        BY <4>1, <4>2, <4>3, PipeAssumption DEF SignalNotFull, Threads
      <4>5. /\ \A p \in Producers : pc'[p] = "broken" <=> pc[p] = "broken"
            /\ \A d \in Consumers : pc'[d] = "broken" <=> pc[d] = "broken"
        BY <4>1, <4>4, PipeAssumption DEF TypeOK, Threads
      <4>. QED  BY <2>3, <4>5 DEF GetTake
    <3>3. Chan!Receive
      BY <3>1, <3>2 DEF Chan!Receive
    <3>. QED  BY <3>3 DEF Chan!Next
  <2>4. ASSUME NEW p \in Producers, PutBroken(p) PROVE Chan!Next
    <3>1. Refused'
      BY <2>4 DEF PutBroken, TypeOK, Threads
    <3>2. read_done /\ UNCHANGED <<Contents, read_done, write_done>>
      BY <2>1, <2>4 DEF PutBroken, PutRefused
    <3>3. UNCHANGED Ended
      BY <2>4, PipeAssumption DEF PutBroken, TypeOK, Threads
    <3>. QED  BY <3>1, <3>2, <3>3 DEF Chan!Refuse, Chan!Next
  <2>5. ASSUME NEW c \in Consumers, GetBroken(c) PROVE Chan!Next
    <3>1. Ended'
      BY <2>5 DEF GetBroken, TypeOK, Threads
    <3>2. write_done /\ UNCHANGED <<Contents, read_done, write_done>>
      BY <2>1, <2>5 DEF GetBroken
    <3>3. UNCHANGED Refused
      BY <2>5, PipeAssumption DEF GetBroken, TypeOK, Threads
    <3>4. Contents = <<>>
      BY <2>5, FillProperties, ContentsIsSeq, EmptySeq
      DEF GetBroken, ContentsView
    <3>. QED  BY <3>1, <3>2, <3>3, <3>4 DEF Chan!EndOfStream, Chan!Next
  <2>6. ASSUME NEW p \in Producers, DoneWriting(p) PROVE Chan!Next
    <3>1. UNCHANGED <<Refused, Ended>>
      <4>. DEFINE pcs == [pc EXCEPT ![p] = "left"]
      <4>1. pcs \in [Threads -> PC] /\ pc[p] # "broken"
        BY <2>6 DEF DoneWriting, TypeOK, PC
      <4>2. pipe_not_empty = {c \in Consumers : pcs[c] = "asleep"}
        BY PipeAssumption DEF TypeOK, Threads
      <4>3. SignalNotEmpty(pcs)
        BY <2>6 DEF DoneWriting
      <4>4. /\ \A q \in Producers : pc'[q] = pcs[q]
            /\ \A c \in Consumers : pc'[c] = "broken" <=> pcs[c] = "broken"
        BY <4>1, <4>2, <4>3, PipeAssumption DEF SignalNotEmpty, Threads
      <4>5. /\ \A q \in Producers : pc'[q] = "broken" <=> pc[q] = "broken"
            /\ \A c \in Consumers : pc'[c] = "broken" <=> pc[c] = "broken"
        BY <4>1, <4>4, PipeAssumption DEF TypeOK, Threads
      <4>. QED  BY <4>5
    <3>. QED  BY <2>1, <2>6, <3>1 DEF DoneWriting, Chan!CloseWriter, Chan!Next
  <2>7. CASE DoneReading
    <3>1. UNCHANGED <<Refused, Ended>>
      <4>1. pipe_not_full = {p \in Producers : pc[p] = "asleep"}
        BY DEF TypeOK
      <4>2. SignalNotFull(pc)
        BY <2>7 DEF DoneReading
      <4>3. /\ \A p \in Producers : pc'[p] = "broken" <=> pc[p] = "broken"
            /\ \A c \in Consumers : pc'[c] = "broken" <=> pc[c] = "broken"
        BY <4>1, <4>2, PipeAssumption DEF SignalNotFull, TypeOK, Threads
      <4>. QED  BY <4>3
    <3>. QED  BY <2>1, <2>7, <3>1 DEF DoneReading, Chan!CloseReader, Chan!Next
  <2>8. ASSUME UNCHANGED <<buf, read_ptr, write_ptr, read_done, write_done>>,
               \A t \in Threads : pc'[t] = "broken" <=> pc[t] = "broken"
        PROVE  UNCHANGED Chan!vars
    <3>1. UNCHANGED <<Refused, Ended>>
      BY <2>8 DEF Threads
    <3>. QED  BY <2>1, <2>8, <3>1
  <2>9. ASSUME NEW p \in Producers,
               CanPut(p) \/ PutWait(p) \/ \E v \in Items : CallPut(p, v)
        PROVE  UNCHANGED Chan!vars
    BY <2>8, <2>9 DEF CanPut, PutWait, CallPut, Runs, TypeOK
  <2>10. ASSUME NEW c \in Consumers,
                DataReady(c) \/ CallGet(c) \/ GetWait(c) \/ Leave(c)
         PROVE  UNCHANGED Chan!vars
    BY <2>8, <2>10 DEF DataReady, CallGet, GetWait, Leave, Runs, TypeOK
  <2>11. ASSUME NEW t \in Threads, SpuriousWakeup(t)
         PROVE  UNCHANGED Chan!vars
    BY <2>8, <2>11 DEF SpuriousWakeup, TypeOK
  <2>12. CASE UNCHANGED vars
    BY <2>8, <2>12 DEF vars
  <2>. QED
    BY <2>2, <2>3, <2>4, <2>5, <2>6, <2>7, <2>9, <2>10, <2>11, <2>12
    DEF Next, Producer, Consumer
<1>. QED  BY <1>1, <1>2, TypeCorrect, PTL DEF Spec, ImplementsChannel, Chan!Spec

-----------------------------------------------------------------------------
(* The answer of can_put stays true while its one producer acts on it,     *)
(* the answer of data_ready while its one consumer does.                   *)

PolledStaysTrue ==
    /\ \A p \in Producers : polled[p] => ~full /\ pc[p] # "asleep"
    /\ \A c \in Consumers : polled[c] => ~empty /\ pc[c] # "asleep"

(***************************************************************************)
(* With one thread at each end, a can_put or data_ready that answered yes  *)
(* keeps its word: the put or get that follows does not sleep.  For every  *)
(* ring length.                                                            *)
(***************************************************************************)
THEOREM PolledThreadsDoNotSleep ==
    ASSUME \A p, q \in Producers : p = q,
           \A c, d \in Consumers : c = d
    PROVE  Spec => []PolledNeverBlocks
<1>1. Init => PolledStaysTrue
  BY DEF Init, PolledStaysTrue, Threads
<1>2. TypeOK /\ TypeOK' /\ PolledStaysTrue /\ [Next]_vars => PolledStaysTrue'
  <2>. SUFFICES ASSUME TypeOK, TypeOK', PolledStaysTrue, [Next]_vars
                PROVE  PolledStaysTrue'
    OBVIOUS
  <2>. USE PipeAssumption
  <2>1. ASSUME NEW p \in Producers, CanPut(p) PROVE PolledStaysTrue'
    BY <2>1 DEF CanPut, PolledStaysTrue, TypeOK, Threads, full, empty
  <2>2. ASSUME NEW c \in Consumers, DataReady(c) PROVE PolledStaysTrue'
    BY <2>2 DEF DataReady, PolledStaysTrue, TypeOK, Threads, full, empty
  <2>3. ASSUME NEW p \in Producers, NEW v \in Items, CallPut(p, v)
        PROVE  PolledStaysTrue'
    BY <2>3 DEF CallPut, PolledStaysTrue, TypeOK, Threads, full, empty
  <2>4. ASSUME NEW p \in Producers, PutBroken(p) PROVE PolledStaysTrue'
    BY <2>4 DEF PutBroken, PolledStaysTrue, TypeOK, Threads, full, empty
  <2>5. ASSUME NEW p \in Producers, PutWait(p) PROVE PolledStaysTrue'
    BY <2>5 DEF PutWait, PolledStaysTrue, TypeOK, Threads, full, empty
  <2>6. ASSUME NEW p \in Producers, PutStore(p) PROVE PolledStaysTrue'
    <3>1. /\ polled' = [polled EXCEPT ![p] = FALSE]
          /\ read_ptr' = read_ptr
          /\ write_ptr' = advance(write_ptr)
          /\ advance(write_ptr) # read_ptr
      BY <2>6 DEF PutStore, full
    <3>2. \A q \in Producers : ~polled'[q]
      BY <3>1 DEF TypeOK, Threads
    <3>3. \A c \in Consumers : ~empty' /\ polled'[c] = polled[c]
      BY <3>1 DEF TypeOK, Threads, empty
    <3>4. \A c \in Consumers : pc'[c] = "asleep" => pc[c] = "asleep"
      BY <2>6 DEF PutStore, SignalNotEmpty, TypeOK, Threads
    <3>. QED  BY <3>2, <3>3, <3>4 DEF PolledStaysTrue
  <2>7. ASSUME NEW p \in Producers, DoneWriting(p) PROVE PolledStaysTrue'
    <3>1. \A t \in Threads : pc'[t] = "asleep" => pc[t] = "asleep"
      BY <2>7 DEF DoneWriting, SignalNotEmpty, TypeOK, Threads
    <3>. QED
      BY <2>7, <3>1 DEF DoneWriting, PolledStaysTrue, Threads, full, empty
  <2>8. ASSUME NEW c \in Consumers, CallGet(c) PROVE PolledStaysTrue'
    BY <2>8 DEF CallGet, PolledStaysTrue, TypeOK, Threads, full, empty
  <2>9. ASSUME NEW c \in Consumers, GetBroken(c) PROVE PolledStaysTrue'
    BY <2>9 DEF GetBroken, PolledStaysTrue, TypeOK, Threads, full, empty
  <2>10. ASSUME NEW c \in Consumers, GetWait(c) PROVE PolledStaysTrue'
    BY <2>10 DEF GetWait, PolledStaysTrue, TypeOK, Threads, full, empty
  <2>11. ASSUME NEW c \in Consumers, GetTake(c) PROVE PolledStaysTrue'
    <3>1. /\ polled' = [polled EXCEPT ![c] = FALSE]
          /\ read_ptr' = advance(read_ptr)
          /\ write_ptr' = write_ptr
          /\ read_ptr # write_ptr
          /\ read_ptr \in Slots /\ write_ptr \in Slots
      BY <2>11 DEF GetTake, empty, TypeOK
    <3>2. \A d \in Consumers : ~polled'[d]
      BY <3>1 DEF TypeOK, Threads
    <3>3. \A p \in Producers : polled'[p] = polled[p]
      BY <3>1 DEF TypeOK, Threads
    <3>4. advance(write_ptr) # advance(read_ptr)
      BY <3>1 DEF Slots, advance
    <3>5. ~full'
      BY <3>1, <3>4 DEF full, advance
    <3>6. \A p \in Producers : pc'[p] = "asleep" => pc[p] = "asleep"
      BY <2>11 DEF GetTake, SignalNotFull, TypeOK, Threads
    <3>. QED  BY <3>2, <3>3, <3>5, <3>6 DEF PolledStaysTrue
  <2>12. ASSUME NEW c \in Consumers, Leave(c) PROVE PolledStaysTrue'
    BY <2>12 DEF Leave, PolledStaysTrue, TypeOK, Threads, full, empty
  <2>13. CASE DoneReading
    <3>1. \A t \in Threads : pc'[t] = "asleep" => pc[t] = "asleep"
      BY <2>13 DEF DoneReading, SignalNotFull, TypeOK, Threads
    <3>. QED
      BY <2>13, <3>1 DEF DoneReading, PolledStaysTrue, Threads, full, empty
  <2>14. ASSUME NEW t \in Threads, SpuriousWakeup(t) PROVE PolledStaysTrue'
    BY <2>14 DEF SpuriousWakeup, PolledStaysTrue, TypeOK, Threads, full, empty
  <2>15. CASE UNCHANGED vars
    BY <2>15 DEF vars, PolledStaysTrue, full, empty
  <2>. QED
    BY <2>1, <2>2, <2>3, <2>4, <2>5, <2>6, <2>7, <2>8, <2>9, <2>10, <2>11,
       <2>12, <2>13, <2>14, <2>15 DEF Next, Producer, Consumer
<1>3. PolledStaysTrue => PolledNeverBlocks
  BY DEF PolledStaysTrue, PolledNeverBlocks, Threads
<1>. QED  BY <1>1, <1>2, <1>3, TypeCorrect, PTL DEF Spec

-----------------------------------------------------------------------------
(* Signals are counted in threads that are awake. *)

AwakeIn(S, pcs) == {t \in S : pcs[t] = "awake"}
Woken(S, pcs) == Cardinality(AwakeIn(S, pcs))

LEMMA Counted ==
    ASSUME NEW S, IsFiniteSet(S), NEW pcs
    PROVE  IsFiniteSet(AwakeIn(S, pcs)) /\ Woken(S, pcs) \in Nat
<1>1. IsFiniteSet(AwakeIn(S, pcs))
  BY FS_Subset DEF AwakeIn
<1>. QED  BY <1>1, FS_CardinalityType DEF Woken

LEMMA OneMore ==
    ASSUME NEW S, IsFiniteSet(S), NEW pcs \in [Threads -> PC], NEW t \in S,
           t \in Threads, pcs[t] # "awake"
    PROVE  Woken(S, [pcs EXCEPT ![t] = "awake"]) = Woken(S, pcs) + 1
<1>1. AwakeIn(S, [pcs EXCEPT ![t] = "awake"]) = AwakeIn(S, pcs) \cup {t}
  BY DEF AwakeIn
<1>2. t \notin AwakeIn(S, pcs)
  BY DEF AwakeIn
<1>. QED  BY <1>1, <1>2, Counted, FS_AddElement DEF Woken

LEMMA OneLess ==
    ASSUME NEW S, IsFiniteSet(S), NEW pcs \in [Threads -> PC], NEW t \in Threads,
           NEW where \in PC \ {"awake"}
    PROVE  Woken(S, [pcs EXCEPT ![t] = where]) >= Woken(S, pcs) - 1
<1>1. CASE t \in AwakeIn(S, pcs)
  <2>1. AwakeIn(S, [pcs EXCEPT ![t] = where]) = AwakeIn(S, pcs) \ {t}
    BY DEF AwakeIn
  <2>2. IsFiniteSet(AwakeIn(S, pcs)) /\ Woken(S, pcs) \in Nat
    BY Counted
  <2>3. Cardinality(AwakeIn(S, pcs) \ {t}) = Cardinality(AwakeIn(S, pcs)) - 1
    BY <1>1, <2>2, FS_RemoveElement
  <2>4. Woken(S, [pcs EXCEPT ![t] = where]) = Woken(S, pcs) - 1
    BY <2>1, <2>3, Zenon DEF Woken
  <2>. QED  BY <2>2, <2>4
<1>2. CASE t \notin AwakeIn(S, pcs)
  <2>1. AwakeIn(S, [pcs EXCEPT ![t] = where]) = AwakeIn(S, pcs)
    BY <1>2 DEF AwakeIn
  <2>2. Woken(S, pcs) \in Nat
    BY Counted
  <2>. QED  BY <2>1, <2>2 DEF Woken
<1>. QED  BY <1>1, <1>2

LEMMA NoOther ==
    ASSUME NEW S, NEW pcs \in [Threads -> PC], NEW t \in Threads, NEW where \in PC,
           t \notin S \/ (pcs[t] # "awake" /\ where # "awake")
    PROVE  Woken(S, [pcs EXCEPT ![t] = where]) = Woken(S, pcs)
<1>1. AwakeIn(S, [pcs EXCEPT ![t] = where]) = AwakeIn(S, pcs)
  BY DEF AwakeIn
<1>. QED  BY <1>1, Zenon DEF Woken

FillType == fill \in Nat

LEMMA FillTyped == (TypeOK => FillType) /\ (TypeOK' => FillType')
<1>1. TypeOK => FillType
  BY FillProperties DEF FillType
<1>. QED  BY <1>1, PTL

(* A signal wakes one of the sleepers, or there were none. *)
LEMMA ConsumerSignalled ==
    ASSUME IsFiniteSet(Consumers), NEW pcs \in [Threads -> PC],
           pipe_not_empty = {c \in Consumers : pcs[c] = "asleep"},
           SignalNotEmpty(pcs)
    PROVE  /\ pipe_not_empty' # {} =>
                pipe_not_empty # {} /\ Woken(Consumers, pc') = Woken(Consumers, pcs) + 1
           /\ Woken(Producers, pc') = Woken(Producers, pcs)
           /\ \A c \in pipe_not_empty' : Consumers # {c}
<1>1. CASE pipe_not_empty = {} /\ pc' = pcs /\ UNCHANGED pipe_not_empty
  BY <1>1
<1>2. ASSUME NEW c \in pipe_not_empty, pipe_not_empty' = pipe_not_empty \ {c},
             pc' = [pcs EXCEPT ![c] = "awake"]
      PROVE  /\ Woken(Consumers, pc') = Woken(Consumers, pcs) + 1
             /\ Woken(Producers, pc') = Woken(Producers, pcs)
             /\ \A d \in pipe_not_empty' : Consumers # {d}
  <2>1. c \in Consumers /\ c \in Threads /\ c \notin Producers /\ pcs[c] # "awake"
    BY <1>2, PipeAssumption DEF Threads
  <2>2. Woken(Consumers, pc') = Woken(Consumers, pcs) + 1
    BY <1>2, <2>1, OneMore
  <2>3. "awake" \in PC
    BY DEF PC
  <2>4. Woken(Producers, pc') = Woken(Producers, pcs)
    BY <1>2, <2>1, <2>3, NoOther
  <2>. QED  BY <1>2, <2>2, <2>4
<1>. QED  BY <1>1, <1>2 DEF SignalNotEmpty

LEMMA ProducerSignalled ==
    ASSUME IsFiniteSet(Producers), NEW pcs \in [Threads -> PC],
           pipe_not_full = {p \in Producers : pcs[p] = "asleep"},
           SignalNotFull(pcs)
    PROVE  /\ pipe_not_full' # {} =>
                pipe_not_full # {} /\ Woken(Producers, pc') = Woken(Producers, pcs) + 1
           /\ Woken(Consumers, pc') = Woken(Consumers, pcs)
           /\ \A p \in pipe_not_full' : Producers # {p}
<1>1. CASE pipe_not_full = {} /\ pc' = pcs /\ UNCHANGED pipe_not_full
  BY <1>1
<1>2. ASSUME NEW p \in pipe_not_full, pipe_not_full' = pipe_not_full \ {p},
             pc' = [pcs EXCEPT ![p] = "awake"]
      PROVE  /\ Woken(Producers, pc') = Woken(Producers, pcs) + 1
             /\ Woken(Consumers, pc') = Woken(Consumers, pcs)
             /\ \A q \in pipe_not_full' : Producers # {q}
  <2>1. p \in Producers /\ p \in Threads /\ p \notin Consumers /\ pcs[p] # "awake"
    BY <1>2, PipeAssumption DEF Threads
  <2>2. Woken(Producers, pc') = Woken(Producers, pcs) + 1
    BY <1>2, <2>1, OneMore
  <2>3. "awake" \in PC
    BY DEF PC
  <2>4. Woken(Consumers, pc') = Woken(Consumers, pcs)
    BY <1>2, <2>1, <2>3, NoOther
  <2>. QED  BY <1>2, <2>2, <2>4
<1>. QED  BY <1>1, <1>2 DEF SignalNotFull

(***************************************************************************)
(* No signal is lost, for rings of every length and any number of threads  *)
(* at each end: while a thread sleeps on a condition, a thread is awake    *)
(* for every object that is there to be taken, or every place, and where   *)
(* it is the only one at its end, the other end was not closed (the waits  *)
(* and signals of pipe.h:84-148, condition.cpp).                           *)
(***************************************************************************)
THEOREM NoWakeupIsLost ==
    ASSUME IsFiniteSet(Producers), IsFiniteSet(Consumers)
    PROVE  Spec => []NoLostWakeup
<1>. DEFINE Heard(objects, asleep, S) == asleep # {} => objects <= Woken(S, pc)
            Taken == Heard(fill, pipe_not_empty, Consumers)
            Stored == Heard(BufLen - 1 - fill, pipe_not_full, Producers)
            Closed == /\ \A c \in pipe_not_empty : write_done => Consumers # {c}
                      /\ \A p \in pipe_not_full : read_done => Producers # {p}
<1>1. NoLostWakeup <=> Taken /\ Stored /\ Closed
  BY DEF NoLostWakeup, Woken, AwakeIn
<1>2. Init => NoLostWakeup
  BY DEF Init, NoLostWakeup
<1>3. TypeOK /\ TypeOK' /\ NoLostWakeup /\ [Next]_vars => NoLostWakeup'
  <2>. SUFFICES ASSUME TypeOK, TypeOK', Taken, Stored, Closed, [Next]_vars
                PROVE  Taken' /\ Stored' /\ Closed'
    BY <1>1 DEF NoLostWakeup, Woken, AwakeIn
  <2>0. /\ pc \in [Threads -> PC] /\ BufLen \in Nat /\ fill \in Nat /\ fill' \in Nat
        /\ (full <=> fill = BufLen - 1) /\ (empty <=> fill = 0)
        /\ pipe_not_full = {p \in Producers : pc[p] = "asleep"}
        /\ pipe_not_empty = {c \in Consumers : pc[c] = "asleep"}
    <3>1. /\ fill \in Nat /\ (full <=> fill = BufLen - 1) /\ (empty <=> fill = 0)
      BY FillProperties
    <3>2. fill' \in Nat
      BY FillTyped DEF FillType
    <3>. QED  BY <3>1, <3>2, PipeAssumption DEF TypeOK
  <2>1. \A pcs : Woken(Producers, pcs) \in Nat /\ Woken(Consumers, pcs) \in Nat
    BY Counted
  <2>2. \A p \in Producers : p \in Threads /\ p \notin Consumers
    BY PipeAssumption DEF Threads
  <2>3. \A c \in Consumers : c \in Threads /\ c \notin Producers
    BY PipeAssumption DEF Threads
  <2>4. {"idle", "enter", "asleep", "left", "broken"} \subseteq PC \ {"awake"}
    BY DEF PC
  <2>5. ASSUME NEW p \in Producers, PutStore(p) PROVE Taken' /\ Stored' /\ Closed'
    <3> DEFINE pcs == [pc EXCEPT ![p] = "idle"]
    <3>1. fill' = fill + 1 /\ UNCHANGED <<pipe_not_full, read_done, write_done>>
      BY <2>5, PipeAssumption DEF PutStore, TypeOK, fill, full, Slots, advance
    <3>2. pcs \in [Threads -> PC] /\ pipe_not_empty = {c \in Consumers : pcs[c] = "asleep"}
      BY <2>0, <2>2, <2>3, <2>4
    <3>3. /\ Woken(Consumers, pcs) = Woken(Consumers, pc)
          /\ Woken(Producers, pcs) >= Woken(Producers, pc) - 1
      BY <2>0, <2>2, <2>4, NoOther, OneLess
    <3>4. SignalNotEmpty(pcs)
      BY <2>5 DEF PutStore
    <3> HIDE DEF pcs
    <3>5. /\ pipe_not_empty' # {} =>
               pipe_not_empty # {} /\ Woken(Consumers, pc') = Woken(Consumers, pcs) + 1
          /\ Woken(Producers, pc') = Woken(Producers, pcs)
          /\ \A c \in pipe_not_empty' : Consumers # {c}
      BY <3>2, <3>4, ConsumerSignalled
    <3>6. Taken'
      BY <2>0, <2>1, <3>1, <3>3, <3>5
    <3>7. Stored'
      BY <2>0, <2>1, <3>1, <3>3, <3>5
    <3>. QED  BY <3>1, <3>5, <3>6, <3>7
  <2>6. ASSUME NEW c \in Consumers, GetTake(c) PROVE Taken' /\ Stored' /\ Closed'
    <3> DEFINE pcs == [pc EXCEPT ![c] = "idle"]
    <3>1. fill' = fill - 1 /\ UNCHANGED <<pipe_not_empty, read_done, write_done>>
      BY <2>6, PipeAssumption DEF GetTake, TypeOK, fill, empty, Slots, advance
    <3>2. pcs \in [Threads -> PC] /\ pipe_not_full = {p \in Producers : pcs[p] = "asleep"}
      BY <2>0, <2>2, <2>3, <2>4
    <3>3. /\ Woken(Producers, pcs) = Woken(Producers, pc)
          /\ Woken(Consumers, pcs) >= Woken(Consumers, pc) - 1
      BY <2>0, <2>3, <2>4, NoOther, OneLess
    <3>4. SignalNotFull(pcs)
      BY <2>6 DEF GetTake
    <3> HIDE DEF pcs
    <3>5. /\ pipe_not_full' # {} =>
               pipe_not_full # {} /\ Woken(Producers, pc') = Woken(Producers, pcs) + 1
          /\ Woken(Consumers, pc') = Woken(Consumers, pcs)
          /\ \A p \in pipe_not_full' : Producers # {p}
      BY <3>2, <3>4, ProducerSignalled
    <3>6. Taken'
      BY <2>0, <2>1, <3>1, <3>3, <3>5
    <3>7. Stored'
      BY <2>0, <2>1, <3>1, <3>3, <3>5
    <3>. QED  BY <3>1, <3>5, <3>6, <3>7
  <2>7. ASSUME NEW p \in Producers, DoneWriting(p) PROVE Taken' /\ Stored' /\ Closed'
    <3> DEFINE pcs == [pc EXCEPT ![p] = "left"]
    <3>1. fill' = fill /\ UNCHANGED <<pipe_not_full, read_done>> /\ pc[p] = "idle"
      BY <2>7 DEF DoneWriting, fill
    <3>2. pcs \in [Threads -> PC] /\ pipe_not_empty = {c \in Consumers : pcs[c] = "asleep"}
      BY <2>0, <2>2, <2>3, <2>4
    <3>3. /\ Woken(Consumers, pcs) = Woken(Consumers, pc)
          /\ Woken(Producers, pcs) = Woken(Producers, pc)
      BY <2>0, <2>2, <2>4, <3>1, NoOther
    <3>4. SignalNotEmpty(pcs)
      BY <2>7 DEF DoneWriting
    <3> HIDE DEF pcs
    <3>5. /\ pipe_not_empty' # {} =>
               pipe_not_empty # {} /\ Woken(Consumers, pc') = Woken(Consumers, pcs) + 1
          /\ Woken(Producers, pc') = Woken(Producers, pcs)
          /\ \A c \in pipe_not_empty' : Consumers # {c}
      BY <3>2, <3>4, ConsumerSignalled
    <3>. QED  BY <2>0, <2>1, <3>1, <3>3, <3>5
  <2>8. CASE DoneReading
    <3>1. fill' = fill /\ UNCHANGED <<pipe_not_empty, write_done>>
      BY <2>8 DEF DoneReading, fill
    <3>2. /\ pipe_not_full' # {} =>
               pipe_not_full # {} /\ Woken(Producers, pc') = Woken(Producers, pc) + 1
          /\ Woken(Consumers, pc') = Woken(Consumers, pc)
          /\ \A p \in pipe_not_full' : Producers # {p}
      BY <2>0, <2>8, ProducerSignalled DEF DoneReading
    <3>. QED  BY <2>0, <2>1, <3>1, <3>2
  <2>9. ASSUME NEW t \in Threads, NEW where \in PC \ {"awake"},
               pc' = [pc EXCEPT ![t] = where], pc[t] # "awake",
               UNCHANGED <<read_ptr, write_ptr, read_done, write_done>>
        PROVE  fill' = fill /\ \A S : Woken(S, pc') = Woken(S, pc)
    BY <2>0, <2>9, NoOther DEF fill
  <2>10. ASSUME NEW p \in Producers, PutWait(p) PROVE Taken' /\ Stored' /\ Closed'
    <3>1. /\ fill' = fill /\ fill = BufLen - 1 /\ ~read_done
          /\ pipe_not_full' = pipe_not_full \cup {p} /\ UNCHANGED pipe_not_empty
          /\ UNCHANGED <<read_done, write_done>> /\ pc' = [pc EXCEPT ![p] = "asleep"]
      BY <2>0, <2>10 DEF PutWait, PutRefused, fill
    <3>2. Woken(Consumers, pc') = Woken(Consumers, pc)
      BY <2>0, <2>2, <2>4, <3>1, NoOther
    <3>. QED  BY <2>0, <2>1, <3>1, <3>2
  <2>11. ASSUME NEW c \in Consumers, GetWait(c) PROVE Taken' /\ Stored' /\ Closed'
    <3>1. /\ fill' = fill /\ fill = 0 /\ ~write_done
          /\ pipe_not_empty' = pipe_not_empty \cup {c} /\ UNCHANGED pipe_not_full
          /\ UNCHANGED <<read_done, write_done>> /\ pc' = [pc EXCEPT ![c] = "asleep"]
      BY <2>0, <2>11 DEF GetWait, fill
    <3>2. Woken(Producers, pc') = Woken(Producers, pc)
      BY <2>0, <2>3, <2>4, <3>1, NoOther
    <3>. QED  BY <2>0, <2>1, <3>1, <3>2
  <2>12. ASSUME NEW p \in Producers, PutBroken(p) PROVE Taken' /\ Stored' /\ Closed'
    <3>1. /\ fill' = fill /\ pc' = [pc EXCEPT ![p] = "broken"]
          /\ UNCHANGED <<pipe_not_full, pipe_not_empty, read_done, write_done>>
          /\ pc[p] # "awake" \/ fill = BufLen - 1
      BY <2>0, <2>12 DEF PutBroken, PutRefused, Runs, fill
    <3>2. /\ Woken(Consumers, pc') = Woken(Consumers, pc)
          /\ pc[p] # "awake" => Woken(Producers, pc') = Woken(Producers, pc)
      BY <2>0, <2>2, <2>4, <3>1, NoOther
    <3>. QED  BY <2>0, <2>1, <3>1, <3>2
  <2>13. ASSUME NEW c \in Consumers, GetBroken(c) PROVE Taken' /\ Stored' /\ Closed'
    <3>1. /\ fill' = fill /\ fill = 0 /\ pc' = [pc EXCEPT ![c] = "broken"]
          /\ UNCHANGED <<pipe_not_full, pipe_not_empty, read_done, write_done>>
      BY <2>0, <2>13 DEF GetBroken, fill
    <3>2. Woken(Producers, pc') = Woken(Producers, pc)
      BY <2>0, <2>3, <2>4, <3>1, NoOther
    <3>. QED  BY <2>0, <2>1, <3>1, <3>2
  <2>14. ASSUME NEW p \in Producers, NEW v \in Items, CallPut(p, v)
         PROVE  Taken' /\ Stored' /\ Closed'
    <3>1. /\ UNCHANGED <<pipe_not_full, pipe_not_empty, read_done, write_done>>
          /\ fill' = fill /\ \A S : Woken(S, pc') = Woken(S, pc)
      BY <2>2, <2>4, <2>9, <2>14 DEF CallPut
    <3>. QED  BY <3>1
  <2>15. ASSUME NEW c \in Consumers, CallGet(c) \/ Leave(c)
         PROVE  Taken' /\ Stored' /\ Closed'
    <3>1. /\ UNCHANGED <<pipe_not_full, pipe_not_empty, read_done, write_done>>
          /\ fill' = fill /\ \A S : Woken(S, pc') = Woken(S, pc)
      BY <2>3, <2>4, <2>9, <2>15 DEF CallGet, Leave
    <3>. QED  BY <3>1
  <2>16. ASSUME NEW t \in Threads, SpuriousWakeup(t)
         PROVE  Taken' /\ Stored' /\ Closed'
    <3>1. /\ fill' = fill /\ pc' = [pc EXCEPT ![t] = "awake"] /\ pc[t] # "awake"
          /\ pipe_not_full' \subseteq pipe_not_full
          /\ pipe_not_empty' \subseteq pipe_not_empty
          /\ UNCHANGED <<read_done, write_done>>
      BY <2>16 DEF SpuriousWakeup, fill
    <3>2. "awake" \in PC
      BY DEF PC
    <3>3. /\ t \in Producers => Woken(Producers, pc') = Woken(Producers, pc) + 1
          /\ t \notin Producers => Woken(Producers, pc') = Woken(Producers, pc)
      BY <2>0, <3>1, <3>2, NoOther, OneMore
    <3>4. /\ t \in Consumers => Woken(Consumers, pc') = Woken(Consumers, pc) + 1
          /\ t \notin Consumers => Woken(Consumers, pc') = Woken(Consumers, pc)
      BY <2>0, <3>1, <3>2, NoOther, OneMore
    <3>. QED  BY <2>0, <2>1, <3>1, <3>3, <3>4
  <2>17. ASSUME UNCHANGED <<read_ptr, write_ptr, read_done, write_done, pipe_not_full,
                            pipe_not_empty, pc>>
         PROVE  Taken' /\ Stored' /\ Closed'
    BY <2>17 DEF fill
  <2>18. ASSUME NEW p \in Producers, CanPut(p) PROVE Taken' /\ Stored' /\ Closed'
    BY <2>17, <2>18 DEF CanPut
  <2>19. ASSUME NEW c \in Consumers, DataReady(c) PROVE Taken' /\ Stored' /\ Closed'
    BY <2>17, <2>19 DEF DataReady
  <2>20. CASE UNCHANGED vars
    BY <2>17, <2>20 DEF vars
  <2>. HIDE DEF Taken, Stored, Closed
  <2>. QED
    BY <2>5, <2>6, <2>7, <2>8, <2>10, <2>11, <2>12, <2>13, <2>14, <2>15, <2>16, <2>18,
       <2>19, <2>20 DEF Next, Producer, Consumer
<1>. QED  BY <1>2, <1>3, TypeCorrect, PTL DEF Spec
==============================================================================
