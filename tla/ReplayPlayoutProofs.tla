------------------------- MODULE ReplayPlayoutProofs -------------------------
(***************************************************************************)
(* Theorems about the program output, for any number of sources, clips and *)
(* speeds, pipes of any length, and an operator who is patient or not.     *)
(***************************************************************************)
EXTENDS ReplayPlayout, SequenceTheorems, TLAPS

Phases == {"take", "grab", "switch", "speed", "read", "video", "audio", "ended"}
Frames == [src : Nat, n : Nat]

MadeSources == 1 .. made

TypeOK ==
    /\ made \in 0 .. MaxSources
    /\ playout_source \in 0 .. made \cup {NULL}
    /\ opc \in {"idle", "delete"}
    /\ opc = "delete" => old_src \in 0 .. made
    /\ pc \in Phases
    /\ active_source \in 0 .. made
    /\ next_source \in 0 .. made \cup {NULL}
    /\ deleted \in SUBSET (0 .. made)

(* The thread holds a source between the take and the switch, the idle     *)
(* source while it makes the still picture.                                *)
NextOK ==
    /\ pc = "grab" => next_source = idle_source
    /\ pc = "switch" => next_source # NULL
    /\ pc \notin {"grab", "switch"} => next_source = NULL

(* SourceOwnedOnce, place by place. *)
OwnedOnce ==
    \A s \in MadeSources :
        /\ s \in deleted <=> /\ playout_source # s
                             /\ opc = "delete" => old_src # s
                             /\ next_source # s
                             /\ active_source # s
        /\ playout_source = s =>
               (opc = "delete" => old_src # s) /\ next_source # s /\ active_source # s
        /\ next_source = s => (opc = "delete" => old_src # s) /\ active_source # s
        /\ active_source = s => (opc = "delete" => old_src # s)

(* Who comes later was made later. *)
InTurn ==
    /\ playout_source \in MadeSources =>
          /\ active_source < playout_source
          /\ next_source \in MadeSources => next_source < playout_source
    /\ next_source \in MadeSources => active_source < next_source

Ownership == TypeOK /\ NextOK /\ OwnedOnce /\ InTurn

(* Frames read: sources that wait have given none. *)
RolledOK ==
    /\ rolled \in [Sources -> Nat]
    /\ \A s \in Sources :
          s > made \/ s = playout_source \/ s = next_source => rolled[s] = 0

FrameOK ==
    pc \in {"video", "audio"} =>
       frame = IF active_source = idle_source THEN IdleFrame
               ELSE Frame(active_source, rolled[active_source])

(* A frame on its way out comes before whatever is still to be read. *)
Before(f) ==
    f.src # idle_source =>
       /\ f.src <= made
       /\ playout_source \in MadeSources => f.src < playout_source
       /\ next_source \in MadeSources => f.src < next_source
       /\ active_source # idle_source =>
             \/ f.src < active_source
             \/ /\ f.src = active_source
                /\ IF pc = "video" THEN f.n < rolled[active_source]
                                   ELSE f.n <= rolled[active_source]

PipeBefore ==
    /\ input_pipe \in Seq(Frames)
    /\ \A i \in DOMAIN input_pipe : Before(input_pipe[i])

AiredOK ==
    /\ aired \in Frames
    /\ Before(aired)
    /\ active_source # idle_source /\ pc \in {"take", "grab", "speed", "read", "audio"} =>
          rolled[active_source] = IF aired.src = active_source THEN aired.n ELSE 0

(* The last speed commanded is in the slot or in force. *)
SpeedOK ==
    /\ speeds \in Nat /\ current_speed \in Nat
    /\ ordered_at \in [Sources -> Nat]
    /\ \A s \in Sources : ordered_at[s] <= speeds
    /\ IF new_speed = NULL THEN current_speed = speeds ELSE new_speed = speeds
    /\ active_source # idle_source /\ pc # "speed" =>
          current_speed >= ordered_at[active_source]

(* All pictures put, and all sound, since the last frame taken from both.  *)
Pictures == unpaired.video \o input_pipe
Packets == unpaired.audio \o audio_input_pipe

SoundOK ==
    /\ unpaired \in [video : Seq(Frames), audio : Seq(Frames)]
    /\ audio_input_pipe \in Seq(Frames)
    /\ Pictures = IF pc = "audio" THEN Append(Packets, frame) ELSE Packets

-----------------------------------------------------------------------------
(* Ownership and order of the sources *)

LEMMA NumbersAreNoNULL == \A n \in Nat : n # NULL
BY PlayoutAssumption

LEMMA OwnershipInit == Init => Ownership
<1> USE NumbersAreNoNULL, PlayoutAssumption
<1> SUFFICES ASSUME Init PROVE Ownership
  OBVIOUS
<1>1. TypeOK /\ NextOK
  BY DEF Init, TypeOK, NextOK, Phases, idle_source
<1>2. OwnedOnce /\ InTurn
  BY DEF Init, OwnedOnce, InTurn, MadeSources, idle_source
<1> QED BY <1>1, <1>2 DEF Ownership

(* set_source puts a source in the slot that is new, or the idle one. *)
LEMMA OwnershipSetSource ==
    ASSUME Ownership, NEW src, opc = "idle", SetSource(src),
           \/ src = made + 1 /\ made < MaxSources /\ made' = made + 1
           \/ src = idle_source /\ UNCHANGED made,
           UNCHANGED <<pc, active_source, next_source, deleted>>
    PROVE  Ownership'
<1> USE NumbersAreNoNULL, PlayoutAssumption DEF Ownership, SetSource
<1>1. TypeOK'
  BY DEF TypeOK, idle_source
<1>2. NextOK'
  BY DEF NextOK, TypeOK
<1>3. OwnedOnce'
  BY DEF OwnedOnce, TypeOK, MadeSources, idle_source
<1>4. InTurn'
  BY DEF InTurn, TypeOK, MadeSources, idle_source
<1> QED BY <1>1, <1>2, <1>3, <1>4

LEMMA OwnershipStep == Ownership /\ [Next]_vars => Ownership'
<1> USE NumbersAreNoNULL, PlayoutAssumption
<1> SUFFICES ASSUME Ownership, [Next]_vars PROVE Ownership'
  OBVIOUS
<1> USE DEF Ownership
<1>1. ASSUME NEW list \in ClipLists, Roll(list) PROVE Ownership'
  BY <1>1, OwnershipSetSource DEF Roll, MayCommand
<1>2. CASE Stop
  BY <1>2, OwnershipSetSource DEF Stop, MayCommand
<1>3. CASE DeleteOldSource
  <2>1. TypeOK' /\ NextOK' /\ InTurn'
    BY <1>3 DEF DeleteOldSource, Delete, TypeOK, NextOK, InTurn, MadeSources
  <2>2. OwnedOnce'
    BY <1>3 DEF DeleteOldSource, Delete, TypeOK, OwnedOnce, MadeSources
  <2> QED BY <2>1, <2>2
<1>4. CASE TakeSource
  <2>1. TypeOK' /\ NextOK'
    BY <1>4 DEF TakeSource, At, operator, TypeOK, NextOK, Phases, idle_source
  <2>2. OwnedOnce'
    BY <1>4 DEF TakeSource, At, operator, TypeOK, NextOK, OwnedOnce, MadeSources
  <2>3. InTurn'
    BY <1>4 DEF TakeSource, At, operator, TypeOK, NextOK, InTurn, MadeSources
  <2> QED BY <2>1, <2>2, <2>3
<1>5. CASE SwitchSource
  <2>1. TypeOK' /\ NextOK'
    BY <1>5 DEF SwitchSource, DeleteUnlessIdle, Delete, At, operator, TypeOK, NextOK, Phases, idle_source
  <2>2. OwnedOnce'
    BY <1>5 DEF SwitchSource, DeleteUnlessIdle, Delete, At, operator, TypeOK, NextOK, OwnedOnce, MadeSources, idle_source
  <2>3. InTurn'
    BY <1>5 DEF SwitchSource, DeleteUnlessIdle, Delete, At, operator, TypeOK, NextOK, InTurn, MadeSources, idle_source
  <2> QED BY <2>1, <2>2, <2>3
<1>6. CASE SourceEnded
  <2> active_source' = idle_source /\ next_source = NULL /\ pc' = "take"
    BY <1>6 DEF SourceEnded, At, NextOK
  <2>0. deleted' \in SUBSET (0 .. made')
    BY <1>6 DEF SourceEnded, DeleteUnlessIdle, Delete, operator, TypeOK, idle_source
  <2>1. TypeOK' /\ NextOK'
    BY <1>6, <2>0 DEF SourceEnded, operator, TypeOK, NextOK, Phases, idle_source
  <2>2. OwnedOnce'
    BY <1>6 DEF SourceEnded, DeleteUnlessIdle, Delete, At, operator, TypeOK, NextOK, OwnedOnce, MadeSources, idle_source
  <2>3. InTurn'
    BY <1>6 DEF SourceEnded, DeleteUnlessIdle, Delete, At, operator, TypeOK, NextOK, InTurn, MadeSources, idle_source
  <2> QED BY <2>1, <2>2, <2>3
<1>7. ASSUME UNCHANGED <<playout_source, opc, old_src, made, active_source, next_source, deleted>>,
             pc' \in Phases, NextOK'
      PROVE  Ownership'
  BY <1>7 DEF TypeOK, NextOK, OwnedOnce, InTurn, MadeSources
<1>8. CASE GrabIdlePicture
  BY <1>7, <1>8 DEF GrabIdlePicture, At, operator, NextOK, Phases, idle_source
<1>9. CASE ReadActive
  BY <1>7, <1>9 DEF ReadActive, At, operator, NextOK, Phases
<1>10. CASE TakeSpeed \/ PutVideo \/ PutAudio
  BY <1>7, <1>10 DEF TakeSpeed, PutVideo, PutAudio, At, operator, NextOK, Phases
<1>11. CASE SetSpeed \/ OutputTakesVideo \/ OutputTakesAudio
  BY <1>7, <1>11 DEF SetSpeed, OutputTakesVideo, OutputTakesAudio, operator, TypeOK, NextOK
<1>12. CASE UNCHANGED vars
  BY <1>7, <1>12 DEF vars, operator, TypeOK, NextOK
<1> QED
  BY <1>1, <1>2, <1>3, <1>4, <1>5, <1>6, <1>8, <1>9, <1>10, <1>11, <1>12
  DEF Next, Operator, Playout

(***************************************************************************)
(* The playout thread and the operator's thread pass pointers through one  *)
(* atomic slot (replay_playout.cpp): every pointer is a source made, the   *)
(* thread holds a next source exactly while it switches, each source is in *)
(* one place until it is deleted, and who comes later was made later.      *)
(***************************************************************************)
THEOREM PlayoutOwnership == Spec => []Ownership
<1>1. Init => Ownership
  BY OwnershipInit
<1>2. Ownership /\ [Next]_vars => Ownership'
  BY OwnershipStep
<1> QED BY <1>1, <1>2, PTL DEF Spec

LEMMA OwnershipIsOwnedOnce == Ownership => SourceOwnedOnce
<1> SUFFICES ASSUME Ownership, NEW s \in 1 .. made
             PROVE  /\ s \in deleted <=> Holders(s) = {}
                    /\ \A p, q \in Holders(s) : p = q
  BY DEF SourceOwnedOnce
<1>1. /\ s \in deleted <=> /\ playout_source # s
                           /\ opc = "delete" => old_src # s
                           /\ next_source # s
                           /\ active_source # s
      /\ playout_source = s =>
             (opc = "delete" => old_src # s) /\ next_source # s /\ active_source # s
      /\ next_source = s => (opc = "delete" => old_src # s) /\ active_source # s
      /\ active_source = s => (opc = "delete" => old_src # s)
  BY DEF Ownership, OwnedOnce, MadeSources
<1>2. \A p : p \in Holders(s) <=>
          \/ p = "slot" /\ playout_source = s
          \/ p = "operator" /\ opc = "delete" /\ old_src = s
          \/ p = "next" /\ next_source = s
          \/ p = "active" /\ active_source = s
  BY DEF Holders
<1>3. ASSUME s \in deleted PROVE Holders(s) = {}
  BY <1>1, <1>2, <1>3
<1>4. ASSUME Holders(s) = {} PROVE s \in deleted
  BY <1>1, <1>2, <1>4
<1>5. ASSUME NEW p \in Holders(s), NEW q \in Holders(s) PROVE p = q
  BY <1>1, <1>2
<1> QED BY <1>3, <1>4, <1>5

(***************************************************************************)
(* A source has exactly one holder among the slot, the operator's thread,  *)
(* the next and the active source until it is deleted, and none after: no  *)
(* source leaks, is deleted twice or is read after it was deleted.         *)
(***************************************************************************)
THEOREM SourcesOwnedOnce == Spec => []SourceOwnedOnce
BY PlayoutOwnership, OwnershipIsOwnedOnce, PTL

-----------------------------------------------------------------------------
(* What goes to air *)

(* What a read does to the source that is read. *)
LEMMA ReadFrameResult ==
    ASSUME NEW s \in 0 .. MaxSources, ReadFrame(s)
    PROVE  \/ s = idle_source /\ frame' = IdleFrame /\ rolled' = rolled
           \/ s # idle_source /\ frame' = NULL /\ rolled' = rolled
           \/ /\ s # idle_source
              /\ frame' = Frame(s, rolled[s] + 1)
              /\ rolled' = [rolled EXCEPT ![s] = rolled[s] + 1]
<1> DEFINE left == Playable(clips[s])
<1>1. CASE s = idle_source
  BY <1>1 DEF ReadFrame
<1>2. CASE s # idle_source /\ left = <<>>
  <2> HIDE DEF left
  <2>1. frame' = NULL /\ UNCHANGED rolled
    BY <1>2 DEF ReadFrame, left
  <2> QED BY <1>2, <2>1
<1>3. CASE s # idle_source /\ left # <<>>
  <2>1. /\ frame' = Frame(s, rolled[s] + 1)
        /\ rolled' = [rolled EXCEPT ![s] = @ + 1]
    BY <1>3 DEF ReadFrame
  <2> QED BY <1>3, <2>1
<1> QED BY <1>1, <1>2, <1>3

(* What happens to the counts of the sources, in each step. *)
LEMMA RolledStep ==
    ASSUME Ownership, RolledOK, [Next]_vars
    PROVE  \/ rolled' = rolled
           \/ /\ active_source # idle_source
              /\ GrabIdlePicture \/ ReadActive
              /\ frame' = Frame(active_source, rolled[active_source] + 1)
              /\ rolled' = [rolled EXCEPT ![active_source] = rolled[active_source] + 1]
           \/ /\ DeleteOldSource
              /\ rolled' = [x \in Sources |-> IF x = old_src THEN 0 ELSE rolled[x]]
           \/ /\ SwitchSource \/ SourceEnded
              /\ rolled' = [x \in Sources |-> IF x = active_source THEN 0 ELSE rolled[x]]
<1>1. active_source \in 0 .. MaxSources
  BY PlayoutAssumption DEF Ownership, TypeOK
<1>2. CASE GrabIdlePicture \/ ReadActive
  BY <1>1, <1>2, ReadFrameResult DEF GrabIdlePicture, ReadActive
<1>3. CASE DeleteOldSource
  BY <1>3 DEF DeleteOldSource, Delete
<1>4. CASE SwitchSource \/ SourceEnded
  BY <1>4 DEF SwitchSource, SourceEnded, DeleteUnlessIdle, Delete
<1>5. CASE Stop \/ SetSpeed \/ TakeSource \/ TakeSpeed \/ PutVideo \/ PutAudio
           \/ OutputTakesVideo \/ OutputTakesAudio \/ UNCHANGED vars
  BY <1>5 DEF Stop, SetSpeed, TakeSource, TakeSpeed, PutVideo, PutAudio,
              OutputTakesVideo, OutputTakesAudio, vars
<1>6. ASSUME NEW list \in ClipLists, Roll(list) PROVE rolled' = rolled
  BY <1>6 DEF Roll
<1> QED
  BY <1>2, <1>3, <1>4, <1>5, <1>6 DEF Next, Operator, Playout

LEMMA RolledOKStep ==
    ASSUME Ownership, Ownership', RolledOK, [Next]_vars
    PROVE  RolledOK'
<1> USE NumbersAreNoNULL, PlayoutAssumption
<1>1. rolled' \in [Sources -> Nat]
  <2>1. active_source # idle_source => active_source \in Sources
    BY DEF Ownership, TypeOK, Sources, idle_source
  <2> QED BY <2>1, RolledStep DEF RolledOK
(* A source that waits after the step waited, or was not made, before it.  *)
<1>2. ASSUME NEW s \in Sources, s > made' \/ s = playout_source' \/ s = next_source'
      PROVE  s > made \/ s = playout_source \/ s = next_source
  <2> USE <1>2 DEF Ownership, Sources, idle_source
  <2>1. ASSUME NEW list \in ClipLists, Roll(list)
        PROVE  s > made \/ s = playout_source \/ s = next_source
    BY <2>1 DEF Roll, SetSource, TypeOK
  <2>2. CASE Stop
    BY <2>2 DEF Stop, SetSource, TypeOK
  <2>3. CASE TakeSource
    BY <2>3 DEF TakeSource, operator, TypeOK
  <2>4. CASE SwitchSource
    BY <2>4 DEF SwitchSource, operator, TypeOK
  <2>5. CASE DeleteOldSource \/ SetSpeed \/ GrabIdlePicture \/ TakeSpeed
             \/ ReadActive \/ PutVideo \/ PutAudio \/ SourceEnded
             \/ OutputTakesVideo \/ OutputTakesAudio \/ UNCHANGED vars
    BY <2>5 DEF DeleteOldSource, SetSpeed, GrabIdlePicture, TakeSpeed, ReadActive,
         PutVideo, PutAudio, SourceEnded, OutputTakesVideo, OutputTakesAudio,
         vars, operator
  <2> QED
    BY <2>1, <2>2, <2>3, <2>4, <2>5 DEF Next, Operator, Playout
<1>3. ASSUME NEW s \in Sources, s > made' \/ s = playout_source' \/ s = next_source'
      PROVE  rolled'[s] = 0
  <2>1. s > made \/ s = playout_source \/ s = next_source
    BY <1>2, <1>3
  <2>2. rolled[s] = 0
    BY <1>3, <2>1 DEF RolledOK
  <2>3. s # active_source
    BY <1>3, <2>1 DEF Ownership, TypeOK, OwnedOnce, MadeSources, Sources
  <2> QED BY <1>3, <2>2, <2>3, RolledStep DEF RolledOK
<1> QED BY <1>1, <1>3 DEF RolledOK

LEMMA FrameOKStep ==
    ASSUME Ownership, RolledOK, FrameOK, [Next]_vars
    PROVE  FrameOK'
<1> SUFFICES ASSUME pc' \in {"video", "audio"}
             PROVE  frame' = IF active_source' = idle_source THEN IdleFrame
                             ELSE Frame(active_source', rolled'[active_source'])
  BY DEF FrameOK
<1>0. active_source \in 0 .. MaxSources /\ (active_source # idle_source => active_source \in Sources)
  BY PlayoutAssumption DEF Ownership, TypeOK, Sources, idle_source
<1>1. CASE ReadActive
  <2>1. frame' # NULL /\ active_source' = active_source /\ ReadFrame(active_source)
    BY <1>1 DEF ReadActive, At
  <2>2. CASE active_source = idle_source
    BY <2>1, <2>2 DEF ReadFrame
  <2>3. CASE active_source # idle_source
    <3>1. /\ frame' = Frame(active_source, rolled[active_source] + 1)
          /\ rolled' = [rolled EXCEPT ![active_source] = rolled[active_source] + 1]
      BY <1>0, <2>1, <2>3, ReadFrameResult
    <3>2. rolled'[active_source] = rolled[active_source] + 1
      BY <1>0, <2>3, <3>1 DEF RolledOK
    <3> QED BY <2>1, <2>3, <3>1, <3>2
  <2> QED BY <2>2, <2>3
<1>2. CASE DeleteOldSource
  <2>1. /\ pc' = pc /\ frame' = frame /\ active_source' = active_source
        /\ opc = "delete"
        /\ rolled' = [x \in Sources |-> IF x = old_src THEN 0 ELSE rolled[x]]
    BY <1>2 DEF DeleteOldSource, Delete
  <2>2. active_source # idle_source => active_source # old_src
    BY <1>0, <2>1 DEF Ownership, TypeOK, OwnedOnce, MadeSources, idle_source
  <2>3. active_source # idle_source => rolled'[active_source] = rolled[active_source]
    BY <1>0, <2>1, <2>2
  <2> QED BY <2>1, <2>3 DEF FrameOK
<1>3. CASE Stop \/ SetSpeed \/ PutVideo \/ OutputTakesVideo \/ OutputTakesAudio
           \/ UNCHANGED vars
  BY <1>3 DEF Stop, SetSpeed, PutVideo, OutputTakesVideo, OutputTakesAudio, vars,
              At, FrameOK
<1>4. ASSUME NEW list \in ClipLists, Roll(list)
      PROVE  UNCHANGED <<pc, frame, active_source, rolled>>
  BY <1>4 DEF Roll
<1>5. CASE TakeSource \/ GrabIdlePicture \/ SwitchSource \/ TakeSpeed \/ PutAudio
           \/ SourceEnded
  BY <1>5 DEF TakeSource, GrabIdlePicture, SwitchSource, TakeSpeed, PutAudio,
              SourceEnded, At
<1> QED
  BY <1>1, <1>2, <1>3, <1>4, <1>5 DEF Next, Operator, Playout, FrameOK

(* What is before all that is still to be read stays before it. *)
LEMMA BeforeStep ==
    ASSUME Ownership, Ownership', RolledOK, [Next]_vars,
           NEW f \in Frames, Before(f)
    PROVE  Before(f)'
<1> USE NumbersAreNoNULL, PlayoutAssumption
<1> SUFFICES ASSUME f.src # idle_source PROVE Before(f)'
  BY DEF Before
<1>0. /\ f.src \in Nat /\ f.n \in Nat
      /\ active_source # idle_source => active_source \in Sources /\ rolled[active_source] \in Nat
  BY DEF Frames, Ownership, TypeOK, RolledOK, Sources, idle_source
<1>b. /\ f.src <= made
      /\ playout_source \in MadeSources => f.src < playout_source
      /\ next_source \in MadeSources => f.src < next_source
      /\ active_source # idle_source =>
             \/ f.src < active_source
             \/ /\ f.src = active_source
                /\ IF pc = "video" THEN f.n < rolled[active_source]
                                   ELSE f.n <= rolled[active_source]
  BY DEF Before
<1>1. ASSUME NEW list \in ClipLists, Roll(list) PROVE Before(f)'
  <2>1. /\ made' = made + 1 /\ playout_source' = made + 1
        /\ UNCHANGED <<next_source, active_source, pc, rolled>>
    BY <1>1 DEF Roll, SetSource
  <2>2. next_source \in MadeSources' => next_source \in MadeSources
    BY <2>1 DEF Ownership, TypeOK, MadeSources
  <2> QED BY <1>0, <1>b, <2>1, <2>2 DEF Before, MadeSources, Ownership, TypeOK
<1>2. CASE Stop
  <2>1. /\ playout_source' = idle_source
        /\ UNCHANGED <<made, next_source, active_source, pc, rolled>>
    BY <1>2 DEF Stop, SetSource
  <2> QED BY <1>0, <1>b, <2>1 DEF Before, MadeSources, idle_source, Ownership, TypeOK
<1>3. CASE DeleteOldSource
  <2>1. /\ UNCHANGED <<made, playout_source, next_source, active_source, pc>>
        /\ opc = "delete"
        /\ rolled' = [x \in Sources |-> IF x = old_src THEN 0 ELSE rolled[x]]
    BY <1>3 DEF DeleteOldSource, Delete
  <2>2. active_source # idle_source => active_source # old_src
    BY <1>0, <2>1 DEF Ownership, TypeOK, OwnedOnce, MadeSources, idle_source
  <2>3. active_source # idle_source => rolled'[active_source] = rolled[active_source]
    BY <1>0, <2>1, <2>2
  <2> QED BY <1>b, <2>1, <2>3 DEF Before, MadeSources
<1>4. CASE TakeSource
  <2>1. /\ playout_source' = NULL /\ next_source' = playout_source
        /\ UNCHANGED <<made, active_source, rolled>> /\ pc = "take" /\ pc' # "video"
    BY <1>4 DEF TakeSource, operator, At
  <2> QED BY <1>0, <1>b, <2>1 DEF Before, MadeSources, Ownership, TypeOK
<1>5. CASE SwitchSource
  <2>1. /\ active_source' = next_source /\ next_source' = NULL
        /\ UNCHANGED <<made, playout_source>> /\ pc' # "video"
        /\ next_source # NULL
    BY <1>5 DEF SwitchSource, operator, At, Ownership, NextOK
  <2>2. next_source \in 0 .. made
    BY <2>1 DEF Ownership, TypeOK
  <2> QED BY <1>0, <1>b, <2>1, <2>2 DEF Before, MadeSources, Ownership, TypeOK, idle_source
<1>6. CASE SourceEnded
  <2>1. /\ active_source' = idle_source
        /\ UNCHANGED <<made, playout_source, next_source>>
    BY <1>6 DEF SourceEnded, operator
  <2> QED BY <1>b, <2>1 DEF Before, MadeSources
<1>7. CASE GrabIdlePicture \/ ReadActive
  <2>1. /\ UNCHANGED <<made, playout_source, next_source, active_source>>
        /\ pc # "video"
        /\ pc' = "video" => ReadActive /\ frame' # NULL
    BY <1>7 DEF GrabIdlePicture, ReadActive, operator, At
  <2>2. ReadFrame(active_source)
    BY <1>7 DEF GrabIdlePicture, ReadActive
  <2>3. CASE active_source = idle_source
    BY <1>b, <2>1, <2>3 DEF Before, MadeSources
  <2>4. CASE active_source # idle_source /\ frame' = NULL /\ rolled' = rolled
    BY <1>b, <2>1, <2>4 DEF Before, MadeSources
  <2>5. CASE /\ active_source # idle_source
             /\ rolled' = [rolled EXCEPT ![active_source] = rolled[active_source] + 1]
    <3>1. rolled'[active_source] = rolled[active_source] + 1
      BY <1>0, <2>5 DEF RolledOK
    <3> QED BY <1>0, <1>b, <2>1, <2>5, <3>1 DEF Before, MadeSources
  <2>6. active_source \in 0 .. MaxSources
    BY DEF Ownership, TypeOK
  <2> QED BY <2>2, <2>3, <2>4, <2>5, <2>6, ReadFrameResult
<1>8. CASE PutVideo
  <2>1. /\ UNCHANGED <<made, playout_source, next_source, active_source, rolled>>
        /\ pc = "video" /\ pc' = "audio"
    BY <1>8 DEF PutVideo, operator, At
  <2> QED BY <1>0, <1>b, <2>1 DEF Before, MadeSources
<1>9. CASE TakeSpeed \/ PutAudio
  <2>1. /\ UNCHANGED <<made, playout_source, next_source, active_source, rolled>>
        /\ pc # "video" /\ pc' # "video"
    BY <1>9 DEF TakeSpeed, PutAudio, operator, At
  <2> QED BY <1>b, <2>1 DEF Before, MadeSources
<1>10. CASE SetSpeed \/ OutputTakesVideo \/ OutputTakesAudio \/ UNCHANGED vars
  <2>1. UNCHANGED <<made, playout_source, next_source, active_source, rolled, pc>>
    BY <1>10 DEF SetSpeed, OutputTakesVideo, OutputTakesAudio, operator, vars
  <2> QED BY <1>b, <2>1 DEF Before, MadeSources
<1> QED
  BY <1>1, <1>2, <1>3, <1>4, <1>5, <1>6, <1>7, <1>8, <1>9, <1>10
  DEF Next, Operator, Playout

(* The pictures on their way, in each step. *)
LEMMA InputPipeStep ==
    ASSUME [Next]_vars
    PROVE  \/ UNCHANGED input_pipe
           \/ PutVideo /\ input_pipe' = Append(input_pipe, frame)
           \/ OutputTakesVideo /\ input_pipe # <<>> /\ input_pipe' = Tail(input_pipe)
<1>1. ASSUME NEW list \in ClipLists, Roll(list) PROVE UNCHANGED input_pipe
  BY <1>1 DEF Roll, output
<1>2. CASE Stop \/ DeleteOldSource \/ SetSpeed \/ TakeSource \/ GrabIdlePicture
           \/ SwitchSource \/ TakeSpeed \/ ReadActive \/ PutAudio \/ SourceEnded
           \/ OutputTakesAudio \/ UNCHANGED vars
  BY <1>2 DEF Stop, DeleteOldSource, SetSpeed, TakeSource, GrabIdlePicture,
     SwitchSource, TakeSpeed, ReadActive, PutAudio, SourceEnded, OutputTakesAudio,
     vars, output
<1>3. CASE PutVideo \/ OutputTakesVideo
  BY <1>3 DEF PutVideo, OutputTakesVideo
<1> QED BY <1>1, <1>2, <1>3 DEF Next, Operator, Playout

(* The frame that is put is the one last read from the active source. *)
LEMMA FramePut ==
    ASSUME Ownership, RolledOK, FrameOK, pc \in {"video", "audio"}
    PROVE  /\ frame \in Frames
           /\ frame.src = active_source
           /\ active_source # idle_source => frame.n = rolled[active_source]
<1>1. active_source # idle_source => active_source \in Sources
  BY PlayoutAssumption DEF Ownership, TypeOK, Sources, idle_source
<1>2. CASE active_source = idle_source
  BY <1>2 DEF FrameOK, Frames, Frame, IdleFrame, idle_source
<1>3. CASE active_source # idle_source
  <2>1. active_source \in Nat /\ rolled[active_source] \in Nat
    BY <1>1, <1>3 DEF RolledOK, Sources
  <2>2. frame = Frame(active_source, rolled[active_source])
    BY <1>3 DEF FrameOK
  <2> QED BY <2>1, <2>2 DEF Frames, Frame
<1> QED BY <1>2, <1>3

LEMMA FramePutBefore ==
    ASSUME Ownership, Ownership', RolledOK, FrameOK, PutVideo
    PROVE  Before(frame)'
<1>1. /\ pc = "video" /\ pc' = "audio" /\ frame' = frame
      /\ UNCHANGED <<made, playout_source, next_source, active_source, rolled>>
  BY DEF PutVideo, At, operator
<1>2. /\ frame.src = active_source
      /\ active_source # idle_source =>
             frame.n = rolled[active_source] /\ rolled[active_source] \in Nat
  <2>1. active_source # idle_source => rolled[active_source] \in Nat
    BY PlayoutAssumption DEF RolledOK, Ownership, TypeOK, Sources, idle_source
  <2> QED BY <1>1, <2>1, FramePut
<1>3. next_source = NULL /\ NULL \notin MadeSources
  BY <1>1, PlayoutAssumption DEF Ownership, NextOK, MadeSources
<1>4. active_source # idle_source => active_source \in MadeSources
  BY DEF Ownership, TypeOK, MadeSources, idle_source
<1>5. playout_source \in MadeSources => active_source < playout_source
  BY DEF Ownership, InTurn
<1> QED
  BY <1>1, <1>2, <1>3, <1>4, <1>5 DEF Before, MadeSources, Ownership, TypeOK

LEMMA PipeBeforeStep ==
    ASSUME Ownership, Ownership', RolledOK, FrameOK, PipeBefore, [Next]_vars
    PROVE  PipeBefore'
<1>1. ASSUME NEW i \in DOMAIN input_pipe, NEW f, f = input_pipe[i]
      PROVE  Before(f)'
  <2>1. f \in Frames /\ Before(f)
    BY <1>1 DEF PipeBefore
  <2> QED BY <2>1, BeforeStep
<1>2. CASE UNCHANGED input_pipe
  BY <1>1, <1>2 DEF PipeBefore, Before, MadeSources
<1>3. CASE PutVideo /\ input_pipe' = Append(input_pipe, frame)
  <2>1. frame \in Frames /\ Before(frame)' /\ frame' = frame
    BY <1>3, FramePut, FramePutBefore DEF PutVideo, At
  <2>2. input_pipe' \in Seq(Frames)
    BY <1>3, <2>1 DEF PipeBefore
  <2>3. ASSUME NEW i \in DOMAIN input_pipe' PROVE Before(input_pipe[i])'
    <3>1. CASE i \in DOMAIN input_pipe
      <4>1. input_pipe'[i] = input_pipe[i]
        BY <1>3, <2>1, <3>1 DEF PipeBefore
      <4> QED BY <1>1, <3>1, <4>1 DEF Before, MadeSources
    <3>2. CASE i \notin DOMAIN input_pipe
      <4>1. input_pipe'[i] = frame
        BY <1>3, <2>1, <3>2 DEF PipeBefore
      <4> QED BY <2>1, <4>1 DEF Before, MadeSources
    <3> QED BY <3>1, <3>2
  <2> QED BY <2>2, <2>3 DEF PipeBefore
<1>4. CASE input_pipe # <<>> /\ input_pipe' = Tail(input_pipe)
  <2>1. input_pipe' \in Seq(Frames)
    BY <1>4 DEF PipeBefore
  <2>2. ASSUME NEW i \in DOMAIN input_pipe' PROVE Before(input_pipe[i])'
    <3>1. i + 1 \in DOMAIN input_pipe /\ input_pipe'[i] = input_pipe[i + 1]
      BY <1>4 DEF PipeBefore
    <3> QED BY <1>1, <3>1 DEF Before, MadeSources
  <2> QED BY <2>1, <2>2 DEF PipeBefore
<1> QED BY <1>2, <1>3, <1>4, InputPipeStep

LEMMA ProgramInOrderStep ==
    ASSUME Ownership, RolledOK, FrameOK, PipeBefore, ProgramInOrder, [Next]_vars
    PROVE  ProgramInOrder'
<1>1. CASE UNCHANGED input_pipe
  BY <1>1 DEF ProgramInOrder
<1>2. CASE PutVideo /\ input_pipe' = Append(input_pipe, frame)
  <2> SUFFICES ASSUME NEW i \in DOMAIN input_pipe', NEW j \in DOMAIN input_pipe', i < j,
                      input_pipe'[i].src # idle_source, input_pipe'[j].src # idle_source
               PROVE  Follows(input_pipe'[i], input_pipe'[j])
    BY DEF ProgramInOrder
  <2>1. pc = "video"
    BY <1>2 DEF PutVideo, At
  <2>2. frame \in Frames
    BY <2>1, FramePut
  <2>3. i \in DOMAIN input_pipe /\ input_pipe'[i] = input_pipe[i]
    BY <1>2, <2>2 DEF PipeBefore
  <2>4. CASE j \in DOMAIN input_pipe
    <3>1. input_pipe'[j] = input_pipe[j]
      BY <1>2, <2>2, <2>4 DEF PipeBefore
    <3> QED BY <2>3, <2>4, <3>1 DEF ProgramInOrder
  <2>5. CASE j \notin DOMAIN input_pipe
    <3>1. input_pipe'[j] = frame
      BY <1>2, <2>2, <2>5 DEF PipeBefore
    <3>2. Before(input_pipe[i])
      BY <2>3 DEF PipeBefore
    <3>3. frame.src = active_source /\ active_source # idle_source
          /\ frame.n = rolled[active_source]
      BY <2>1, <3>1, FramePut
    <3> QED BY <2>1, <2>3, <3>1, <3>2, <3>3 DEF Before, Follows
  <2> QED BY <2>4, <2>5
<1>3. CASE input_pipe # <<>> /\ input_pipe' = Tail(input_pipe)
  <2> SUFFICES ASSUME NEW i \in DOMAIN input_pipe', NEW j \in DOMAIN input_pipe', i < j,
                      input_pipe'[i].src # idle_source, input_pipe'[j].src # idle_source
               PROVE  Follows(input_pipe'[i], input_pipe'[j])
    BY DEF ProgramInOrder
  <2>1. /\ i + 1 \in DOMAIN input_pipe /\ input_pipe'[i] = input_pipe[i + 1]
        /\ j + 1 \in DOMAIN input_pipe /\ input_pipe'[j] = input_pipe[j + 1]
        /\ i + 1 < j + 1
    BY <1>3 DEF PipeBefore
  <2> QED BY <2>1 DEF ProgramInOrder
<1> QED BY <1>1, <1>2, <1>3, InputPipeStep

LEMMA AiredOKStep ==
    ASSUME Ownership, Ownership', RolledOK, FrameOK, AiredOK, [Next]_vars
    PROVE  AiredOK'
<1> USE PlayoutAssumption, NumbersAreNoNULL
<1> DEFINE Listens == {"take", "grab", "speed", "read", "audio"}
<1>0. active_source # idle_source => active_source \in Sources /\ rolled[active_source] \in Nat
  BY DEF Ownership, TypeOK, RolledOK, Sources, idle_source
<1>1. CASE PutVideo
  <2>1. /\ pc = "video" /\ pc' = "audio" /\ aired' = frame /\ frame' = frame
        /\ UNCHANGED <<active_source, rolled>>
    BY <1>1 DEF PutVideo, At
  <2>2. /\ frame \in Frames /\ frame.src = active_source
        /\ active_source # idle_source => frame.n = rolled[active_source]
    BY <2>1, FramePut
  <2>3. Before(frame)'
    BY <1>1, FramePutBefore
  <2>4. Before(aired)'
    BY <2>1, <2>3 DEF Before, MadeSources
  <2> QED BY <2>1, <2>2, <2>4 DEF AiredOK
<1>2. CASE ~PutVideo
  <2>1. aired' = aired
    <3>1. ASSUME NEW list \in ClipLists, Roll(list) PROVE aired' = aired
      BY <3>1 DEF Roll
    <3> QED
      BY <1>2, <3>1 DEF Next, Operator, Playout, Stop, DeleteOldSource, SetSpeed,
         TakeSource, GrabIdlePicture, SwitchSource, TakeSpeed, ReadActive, PutAudio,
         SourceEnded, OutputTakesVideo, OutputTakesAudio, vars
  <2>2. ASSUME NEW f, f = aired PROVE Before(f)'
    BY <2>2, BeforeStep DEF AiredOK
  <2>3. aired' \in Frames /\ Before(aired)'
    BY <2>1, <2>2 DEF AiredOK, Before, MadeSources
  <2>4. ASSUME active_source' # idle_source, pc' \in Listens
        PROVE  rolled'[active_source'] = IF aired.src = active_source' THEN aired.n ELSE 0
    <3>1. CASE SwitchSource
      <4>1. /\ pc = "switch" /\ active_source' = next_source
            /\ rolled' = [x \in Sources |-> IF x = active_source THEN 0 ELSE rolled[x]]
               \/ rolled' = rolled
        BY <3>1 DEF SwitchSource, At, DeleteUnlessIdle, Delete
      <4>2. next_source \in MadeSources /\ next_source \in Sources
        BY <2>4, <4>1 DEF Ownership, TypeOK, NextOK, MadeSources, Sources, idle_source
      <4>3. rolled'[next_source] = 0
        BY <4>1, <4>2 DEF RolledOK
      <4>4. aired.src # next_source
        BY <4>2 DEF AiredOK, Before, Frames, MadeSources, idle_source
      <4> QED BY <4>1, <4>3, <4>4
    <3>2. CASE SourceEnded
      BY <2>4, <3>2 DEF SourceEnded
    <3>3. CASE GrabIdlePicture \/ ReadActive
      BY <2>4, <3>3 DEF GrabIdlePicture, ReadActive, At
    <3>4. CASE DeleteOldSource
      <4>1. /\ pc' = pc /\ active_source' = active_source /\ opc = "delete"
            /\ rolled' = [x \in Sources |-> IF x = old_src THEN 0 ELSE rolled[x]]
        BY <3>4 DEF DeleteOldSource, Delete
      <4>2. active_source # old_src
        BY <1>0, <2>4, <4>1 DEF Ownership, TypeOK, OwnedOnce, MadeSources, idle_source
      <4>3. rolled'[active_source] = rolled[active_source]
        BY <1>0, <2>4, <4>1, <4>2
      <4> QED BY <2>4, <4>1, <4>3 DEF AiredOK
    <3>5. ASSUME pc \in Listens, UNCHANGED <<active_source, rolled>>
          PROVE  rolled'[active_source'] = IF aired.src = active_source' THEN aired.n ELSE 0
      BY <2>4, <3>5 DEF AiredOK
    <3>6. CASE TakeSource \/ TakeSpeed \/ PutAudio
      BY <3>5, <3>6 DEF TakeSource, TakeSpeed, PutAudio, At
    <3>7. CASE Stop \/ SetSpeed \/ OutputTakesVideo \/ OutputTakesAudio \/ UNCHANGED vars
      BY <2>4, <3>5, <3>7 DEF Stop, SetSpeed, OutputTakesVideo, OutputTakesAudio, vars
    <3>8. ASSUME NEW list \in ClipLists, Roll(list)
          PROVE  UNCHANGED <<active_source, rolled, pc>>
      BY <3>8 DEF Roll
    <3> QED
      BY <1>2, <2>4, <3>1, <3>2, <3>3, <3>4, <3>5, <3>6, <3>7, <3>8
      DEF Next, Operator, Playout
  <2> QED BY <2>1, <2>3, <2>4 DEF AiredOK
<1> QED BY <1>1, <1>2

(***************************************************************************)
(* The order of the program: the counts of the sources, the frame in hand, *)
(* the frames in the pipe and the last one that went to air agree.         *)
(***************************************************************************)
Program == Ownership /\ RolledOK /\ FrameOK /\ PipeBefore /\ ProgramInOrder /\ AiredOK

LEMMA ProgramInit == Init => Program
<1> SUFFICES ASSUME Init PROVE Program
  OBVIOUS
<1> USE PlayoutAssumption
<1>1. Ownership
  BY OwnershipInit
<1>2. RolledOK /\ FrameOK
  BY DEF Init, RolledOK, FrameOK
<1>3. PipeBefore /\ ProgramInOrder
  BY DEF Init, PipeBefore, ProgramInOrder
<1>4. AiredOK
  BY DEF Init, AiredOK, Before, Frames, IdleFrame, Frame, idle_source
<1> QED BY <1>1, <1>2, <1>3, <1>4 DEF Program

LEMMA ProgramStep == Program /\ [Next]_vars => Program'
<1> SUFFICES ASSUME Program, [Next]_vars PROVE Program'
  OBVIOUS
<1> USE DEF Program
<1>1. Ownership'
  BY OwnershipStep
<1>2. RolledOK'
  BY <1>1, RolledOKStep
<1>3. FrameOK'
  BY FrameOKStep
<1>4. PipeBefore' /\ ProgramInOrder'
  BY <1>1, PipeBeforeStep, ProgramInOrderStep
<1>5. AiredOK'
  BY <1>1, AiredOKStep
<1> QED BY <1>1, <1>2, <1>3, <1>4, <1>5

(***************************************************************************)
(* Frames of a source go to air once each and in order, and none after a   *)
(* frame of a source commanded later, whatever the operator displaces,     *)
(* stops or rolls while the playout thread is between two of its steps.    *)
(***************************************************************************)
THEOREM ProgramGoesInOrder == Spec => []ProgramInOrder
<1>1. Program => ProgramInOrder
  BY DEF Program
<1> QED BY <1>1, ProgramInit, ProgramStep, PTL DEF Spec

StillContinues ==
    bars' # bars =>
        /\ bars'.src = active_source
        /\ bars'.n = IF aired.src = active_source THEN aired.n + 1 ELSE 1

(* Only the grab changes the still picture. *)
LEMMA StillStep == Program /\ [Next]_vars => StillContinues
<1> SUFFICES ASSUME Program, [Next]_vars, bars' # bars
             PROVE  /\ bars'.src = active_source
                    /\ bars'.n = IF aired.src = active_source THEN aired.n + 1 ELSE 1
  BY DEF StillContinues
<1> USE PlayoutAssumption
<1>1. GrabIdlePicture
  <2>1. ASSUME NEW list \in ClipLists, Roll(list) PROVE bars' = bars
    BY <2>1 DEF Roll
  <2> QED
    BY <2>1 DEF Next, Operator, Playout, Stop, DeleteOldSource, SetSpeed,
       TakeSource, PutVideo, SwitchSource, TakeSpeed, ReadActive, PutAudio,
       SourceEnded, OutputTakesVideo, OutputTakesAudio, vars
<1>2. /\ pc = "grab" /\ ReadFrame(active_source)
      /\ bars' = frame' /\ frame' # NULL /\ active_source # idle_source
  BY <1>1 DEF GrabIdlePicture, At
<1>3. active_source \in 0 .. MaxSources
  BY DEF Program, Ownership, TypeOK
<1>4. frame' = Frame(active_source, rolled[active_source] + 1)
  BY <1>2, <1>3, ReadFrameResult
<1>5. rolled[active_source] = IF aired.src = active_source THEN aired.n ELSE 0
  BY <1>2 DEF Program, AiredOK
<1> QED BY <1>2, <1>4, <1>5 DEF Frame

(***************************************************************************)
(* The still picture of a stop is the frame of the stopped source after    *)
(* the last one that went to air, or its first when none did.              *)
(***************************************************************************)
THEOREM StillFollowsProgram == Spec => StillContinuesProgram
<1>1. Program /\ [Next]_vars => [StillContinues]_vars
  BY StillStep
<1> QED BY <1>1, ProgramInit, ProgramStep, PTL DEF Spec, StillContinuesProgram, StillContinues

-----------------------------------------------------------------------------
(* Speeds *)

LEMMA SpeedStep == Ownership /\ SpeedOK /\ [Next]_vars => SpeedOK'
<1> SUFFICES ASSUME Ownership, SpeedOK, [Next]_vars PROVE SpeedOK'
  OBVIOUS
<1> USE PlayoutAssumption, NumbersAreNoNULL
<1>0. active_source # idle_source => active_source \in Sources /\ active_source \in MadeSources
  BY DEF Ownership, TypeOK, Sources, MadeSources, idle_source
<1>1. ASSUME NEW list \in ClipLists, Roll(list) PROVE SpeedOK'
  <2>1. /\ made + 1 \in Sources
        /\ ordered_at' = [ordered_at EXCEPT ![made + 1] = speeds]
        /\ UNCHANGED <<speeds, current_speed, new_speed, active_source, pc>>
    BY <1>1 DEF Roll, Ownership, TypeOK, Sources
  <2>2. active_source # idle_source => ordered_at'[active_source] = ordered_at[active_source]
    BY <1>0, <2>1 DEF SpeedOK, Ownership, TypeOK, MadeSources
  <2>3. ordered_at' \in [Sources -> Nat] /\ \A s \in Sources : ordered_at'[s] <= speeds
    BY <2>1 DEF SpeedOK
  <2> QED BY <2>1, <2>2, <2>3 DEF SpeedOK
<1>2. CASE SetSpeed
  <2>1. /\ speeds' = speeds + 1 /\ new_speed' = speeds + 1
        /\ UNCHANGED <<ordered_at, current_speed, active_source, pc>>
    BY <1>2 DEF SetSpeed
  <2>2. \A s \in Sources : ordered_at[s] <= speeds + 1
    BY DEF SpeedOK
  <2> QED BY <2>1, <2>2 DEF SpeedOK
<1>3. CASE TakeSpeed
  <2>1. /\ current_speed' = speeds /\ new_speed' = NULL
        /\ UNCHANGED <<speeds, ordered_at, active_source>>
    BY <1>3 DEF TakeSpeed, operator, SpeedOK
  <2>2. active_source # idle_source => speeds >= ordered_at[active_source]
    BY <1>0 DEF SpeedOK
  <2> QED BY <2>1, <2>2 DEF SpeedOK
<1>4. CASE SwitchSource \/ SourceEnded
  <2>1. /\ UNCHANGED <<new_speed, speeds, ordered_at, current_speed>>
        /\ active_source' = idle_source \/ pc' = "speed"
    BY <1>4 DEF SwitchSource, SourceEnded, operator, At
  <2> QED BY <2>1 DEF SpeedOK
<1>5. CASE Stop \/ DeleteOldSource \/ TakeSource \/ GrabIdlePicture \/ ReadActive
           \/ PutVideo \/ PutAudio \/ OutputTakesVideo \/ OutputTakesAudio
           \/ UNCHANGED vars
  <2>1. /\ UNCHANGED <<new_speed, speeds, ordered_at, current_speed, active_source>>
        /\ pc = "speed" => pc' = "speed"
    BY <1>5 DEF Stop, DeleteOldSource, TakeSource, GrabIdlePicture, ReadActive,
       PutVideo, PutAudio, OutputTakesVideo, OutputTakesAudio, vars, operator, At
  <2> QED BY <2>1 DEF SpeedOK
<1> QED
  BY <1>1, <1>2, <1>3, <1>4, <1>5 DEF Next, Operator, Playout

(***************************************************************************)
(* A speed commanded before a source was set is in force when the first    *)
(* frame of that source is read: the last speed commanded is always in the *)
(* slot or in force, and the slot is emptied between switch and read.      *)
(***************************************************************************)
THEOREM SpeedComesWithSource == Spec => []SpeedSetBeforeRollApplies
<1>1. Init => SpeedOK
  BY PlayoutAssumption DEF Init, SpeedOK, idle_source
<1>2. SpeedOK => SpeedSetBeforeRollApplies
  BY DEF SpeedOK, SpeedSetBeforeRollApplies
<1> QED BY <1>1, <1>2, PlayoutOwnership, SpeedStep, PTL DEF Spec

-----------------------------------------------------------------------------
(* Sound *)

LEMMA AppendAfterConcat ==
    ASSUME NEW s \in Seq(Frames), NEW t \in Seq(Frames), NEW e \in Frames
    PROVE  Append(s \o t, e) = s \o Append(t, e)
OBVIOUS

LEMMA HeadMovesOver ==
    ASSUME NEW s \in Seq(Frames), NEW t \in Seq(Frames), t # <<>>
    PROVE  Append(s, Head(t)) \o Tail(t) = s \o t
OBVIOUS

LEMMA TailOfConcat ==
    ASSUME NEW s \in Seq(Frames), NEW t \in Seq(Frames), s # <<>>
    PROVE  Tail(s) \o t = Tail(s \o t) /\ s \o t # <<>>
OBVIOUS

LEMMA TailOfAppend ==
    ASSUME NEW s \in Seq(Frames), NEW e \in Frames, s # <<>>
    PROVE  Tail(Append(s, e)) = Append(Tail(s), e)
OBVIOUS

(* Frames leave the history in pairs, and what is behind them moves up. *)
MovesUp(r, v, a, p, q) ==
    /\ r \in [video : Seq(Frames), audio : Seq(Frames)]
    /\ \/ r.video \o p = v \o p /\ r.audio \o q = a \o q
       \/ /\ r.video \o p = Tail(v \o p) /\ v \o p # <<>>
          /\ r.audio \o q = Tail(a \o q) /\ a \o q # <<>>

LEMMA PairedMovesUp ==
    ASSUME NEW v \in Seq(Frames), NEW a \in Seq(Frames),
           NEW p \in Seq(Frames), NEW q \in Seq(Frames)
    PROVE  MovesUp(Paired(v, a), v, a, p, q)
<1>1. CASE v # <<>> /\ a # <<>>
  <2>1. Paired(v, a) = [video |-> Tail(v), audio |-> Tail(a)]
    BY <1>1 DEF Paired
  <2>2. Paired(v, a).video = Tail(v) /\ Paired(v, a).audio = Tail(a)
    BY <2>1
  <2>3. Paired(v, a) \in [video : Seq(Frames), audio : Seq(Frames)]
    BY <1>1, <2>1
  <2>4. Tail(v) \o p = Tail(v \o p) /\ v \o p # <<>>
    BY <1>1, TailOfConcat
  <2>5. Tail(a) \o q = Tail(a \o q) /\ a \o q # <<>>
    BY <1>1, TailOfConcat
  <2> QED BY <2>2, <2>3, <2>4, <2>5, Zenon DEF MovesUp
<1>2. CASE ~(v # <<>> /\ a # <<>>)
  <2>1. Paired(v, a) = [video |-> v, audio |-> a]
    BY <1>2 DEF Paired
  <2> QED BY <2>1 DEF MovesUp
<1> QED BY <1>1, <1>2

LEMMA SoundStep == Program /\ SoundOK /\ [Next]_vars => SoundOK'
<1> SUFFICES ASSUME Program, SoundOK, [Next]_vars PROVE SoundOK'
  OBVIOUS
<1>0. /\ unpaired.video \in Seq(Frames) /\ unpaired.audio \in Seq(Frames)
      /\ input_pipe \in Seq(Frames) /\ audio_input_pipe \in Seq(Frames)
      /\ Pictures \in Seq(Frames) /\ Packets \in Seq(Frames)
  <2>1. /\ unpaired.video \in Seq(Frames) /\ unpaired.audio \in Seq(Frames)
        /\ input_pipe \in Seq(Frames) /\ audio_input_pipe \in Seq(Frames)
    BY DEF SoundOK, Program, PipeBefore
  <2> QED BY <2>1 DEF Pictures, Packets
<1>f. pc \in {"video", "audio"} => frame \in Frames
  BY FramePut DEF Program
<1>1. CASE PutVideo
  <2>1. /\ pc = "video" /\ pc' = "audio" /\ frame' = frame
        /\ input_pipe' = Append(input_pipe, frame)
        /\ UNCHANGED <<audio_input_pipe, unpaired>>
    BY <1>1 DEF PutVideo, At
  <2>2. Pictures' = Append(Pictures, frame)
    <3>1. Append(unpaired.video \o input_pipe, frame)
            = unpaired.video \o Append(input_pipe, frame)
      BY <1>0, <1>f, <2>1, AppendAfterConcat
    <3> QED BY <2>1, <3>1 DEF Pictures
  <2>3. Packets' = Packets
    BY <2>1 DEF Packets
  <2>4. Pictures = Packets
    BY <2>1 DEF SoundOK
  <2> QED BY <2>1, <2>2, <2>3, <2>4 DEF SoundOK
<1>2. CASE PutAudio
  <2>1. /\ pc = "audio" /\ pc' = "take"
        /\ audio_input_pipe' = Append(audio_input_pipe, frame)
        /\ UNCHANGED <<input_pipe, unpaired>>
    BY <1>2 DEF PutAudio, At
  <2>2. Packets' = Append(Packets, frame)
    <3>1. Append(unpaired.audio \o audio_input_pipe, frame)
            = unpaired.audio \o Append(audio_input_pipe, frame)
      BY <1>0, <1>f, <2>1, AppendAfterConcat
    <3> QED BY <2>1, <3>1 DEF Packets
  <2>3. Pictures' = Pictures
    BY <2>1 DEF Pictures
  <2>4. Pictures = Append(Packets, frame)
    BY <2>1 DEF SoundOK
  <2>5. audio_input_pipe' \in Seq(Frames)
    BY <1>0, <1>f, <2>1
  <2> QED BY <2>1, <2>2, <2>3, <2>4, <2>5 DEF SoundOK
(* Taking from a pipe leaves both histories, or takes one off each. *)
<1>3. ASSUME unpaired' \in [video : Seq(Frames), audio : Seq(Frames)],
             audio_input_pipe' \in Seq(Frames),
             \/ Pictures' = Pictures /\ Packets' = Packets
             \/ /\ Pictures' = Tail(Pictures) /\ Packets' = Tail(Packets)
                /\ Pictures # <<>> /\ Packets # <<>>,
             UNCHANGED <<pc, frame>>
      PROVE  SoundOK'
  <2>1. CASE Pictures' = Pictures /\ Packets' = Packets
    BY <1>3, <2>1 DEF SoundOK
  <2>2. CASE /\ Pictures' = Tail(Pictures) /\ Packets' = Tail(Packets)
             /\ Pictures # <<>> /\ Packets # <<>>
    <3>1. CASE pc = "audio"
      <4>1. Tail(Append(Packets, frame)) = Append(Tail(Packets), frame)
        BY <1>0, <1>f, <2>2, <3>1, TailOfAppend
      <4> QED BY <1>3, <2>2, <3>1, <4>1 DEF SoundOK
    <3>2. CASE pc # "audio"
      BY <1>3, <2>2, <3>2 DEF SoundOK
    <3> QED BY <3>1, <3>2
  <2> QED BY <1>3, <2>1, <2>2
<1>4. CASE OutputTakesVideo
  <2> DEFINE v == Append(unpaired.video, Head(input_pipe))
  <2>1. /\ input_pipe # <<>> /\ input_pipe' = Tail(input_pipe)
        /\ unpaired' = Paired(v, unpaired.audio)
        /\ UNCHANGED <<pc, frame, audio_input_pipe>>
    BY <1>4 DEF OutputTakesVideo
  <2>2. v \in Seq(Frames) /\ Tail(input_pipe) \in Seq(Frames)
    BY <1>0, <2>1
  <2>3. v \o Tail(input_pipe) = Pictures
    BY <1>0, <2>1, HeadMovesOver DEF Pictures
  <2> HIDE DEF v
  <2>4. /\ unpaired' \in [video : Seq(Frames), audio : Seq(Frames)]
        /\ \/ Pictures' = Pictures /\ Packets' = Packets
           \/ /\ Pictures' = Tail(Pictures) /\ Packets' = Tail(Packets)
              /\ Pictures # <<>> /\ Packets # <<>>
    <3>1. MovesUp(Paired(v, unpaired.audio), v, unpaired.audio, Tail(input_pipe), audio_input_pipe)
      BY <1>0, <2>2, PairedMovesUp, Zenon
    <3> QED BY <2>1, <2>3, <3>1 DEF MovesUp, Pictures, Packets
  <2> QED BY <1>0, <1>3, <2>1, <2>4
<1>5. CASE OutputTakesAudio
  <2> DEFINE a == Append(unpaired.audio, Head(audio_input_pipe))
  <2>1. /\ audio_input_pipe # <<>> /\ audio_input_pipe' = Tail(audio_input_pipe)
        /\ unpaired' = Paired(unpaired.video, a)
        /\ UNCHANGED <<pc, frame, input_pipe>>
    BY <1>5 DEF OutputTakesAudio
  <2>2. a \in Seq(Frames) /\ Tail(audio_input_pipe) \in Seq(Frames)
    BY <1>0, <2>1
  <2>3. a \o Tail(audio_input_pipe) = Packets
    BY <1>0, <2>1, HeadMovesOver DEF Packets
  <2> HIDE DEF a
  <2>4. /\ unpaired' \in [video : Seq(Frames), audio : Seq(Frames)]
        /\ \/ Pictures' = Pictures /\ Packets' = Packets
           \/ /\ Pictures' = Tail(Pictures) /\ Packets' = Tail(Packets)
              /\ Pictures # <<>> /\ Packets # <<>>
    <3>1. MovesUp(Paired(unpaired.video, a), unpaired.video, a, input_pipe, Tail(audio_input_pipe))
      BY <1>0, <2>2, PairedMovesUp, Zenon
    <3> QED BY <2>1, <2>3, <3>1 DEF MovesUp, Pictures, Packets
  <2> QED BY <1>3, <2>1, <2>2, <2>4
<1>6. ASSUME UNCHANGED output, pc' = "audio" <=> pc = "audio",
             pc = "audio" => frame' = frame
      PROVE  SoundOK'
  BY <1>6 DEF SoundOK, output, Pictures, Packets
<1>7. CASE Stop \/ DeleteOldSource \/ SetSpeed \/ UNCHANGED vars
  BY <1>6, <1>7 DEF Stop, DeleteOldSource, SetSpeed, vars
<1>8. ASSUME NEW list \in ClipLists, Roll(list) PROVE SoundOK'
  BY <1>6, <1>8 DEF Roll
<1>9. CASE TakeSource \/ GrabIdlePicture \/ SwitchSource \/ TakeSpeed \/ ReadActive
           \/ SourceEnded
  <2>1. UNCHANGED output /\ pc # "audio" /\ pc' # "audio"
    BY <1>9 DEF TakeSource, GrabIdlePicture, SwitchSource, TakeSpeed, ReadActive,
       SourceEnded, At
  <2> QED BY <1>6, <2>1
<1> QED
  BY <1>1, <1>2, <1>4, <1>5, <1>7, <1>8, <1>9 DEF Next, Operator, Playout

LEMMA SoundIsPaired == SoundOK => SoundFollowsPicture
<1> SUFFICES ASSUME SoundOK, NEW i \in DOMAIN Pictures \cap DOMAIN Packets
             PROVE  Pictures[i] = Packets[i]
  BY DEF SoundFollowsPicture, Pictures, Packets
<1>1. CASE Pictures = Packets
  BY <1>1
<1>2. CASE Pictures = Append(Packets, frame)
  <2>1. Packets \in Seq(Frames)
    BY DEF SoundOK, Packets
  <2>2. Append(Packets, frame)[i] = Packets[i]
    BY <2>1
  <2> QED BY <1>2, <2>2
<1> QED BY <1>1, <1>2 DEF SoundOK

(***************************************************************************)
(* The sound taken from one output pipe belongs to the picture taken from  *)
(* the other, packet by packet, for pipes of any length: each round of the *)
(* thread writes one of both, the sound of the frame it showed.            *)
(***************************************************************************)
THEOREM SoundComesWithPicture == Spec => []SoundFollowsPicture
<1>1. Init => SoundOK
  BY DEF Init, SoundOK, Pictures, Packets
<1> QED BY <1>1, SoundStep, SoundIsPaired, ProgramInit, ProgramStep, PTL DEF Spec

==============================================================================
