----------------------------- MODULE KeyerProofs -----------------------------
(***************************************************************************)
(* Theorems about the keyer: what the two callbacks of a playing card do   *)
(* to the counter they share, which level an overlay is drawn by, and what *)
(* drawing it does to a picture.                                           *)
(***************************************************************************)
EXTENDS Keyer, AlphaKey, SequenceTheorems, TLAPS

Phases == {"closed", "format", "found", "configured", "open", "preroll", "running"}
SoundCallbacks == [at : {"idle", "loop", "overlapped"}, read : Int]

(* The outputs and what their callbacks hold: a callback that is about to  *)
(* take one packet from the debt has read a debt that was not zero.        *)
OutputsOK ==
    /\ setup \in [outputs : Nat \ {0}, audio : BOOLEAN]
    /\ phase \in [Outputs -> Phases]
    /\ in_pipe \in [Outputs -> 0 .. Slots]
    /\ audio_in_pipe \in [Outputs -> 0 .. Slots]
    /\ audio_fifo \in [Outputs -> Nat]

DebtOK ==
    /\ audio_adjust \in [Outputs -> Nat]
    /\ picture_cb \in [Outputs -> Nat \union {Idle}]
    /\ sound_cb \in [Outputs -> SoundCallbacks]
    /\ \A o \in Outputs :
          /\ sound_cb[o].read # Idle => sound_cb[o].read >= 1
          /\ sound_cb[o].at = "idle" => sound_cb[o].read = Idle

AllOutputsOK == alive \in BOOLEAN /\ OutputsOK /\ DebtOK

LEMMA OutputsInit == Init => AllOutputsOK
<1> SUFFICES ASSUME Init PROVE AllOutputsOK
  OBVIOUS
<1>1. setup \in [outputs : Nat \ {0}, audio : BOOLEAN]
  BY KeyerAssumption DEF Init
<1>2. Slots \in Nat
  BY OutputAssumption DEF Slots
<1>3. OutputsOK
  BY <1>1, <1>2 DEF Init, OutputInit, OutputsOK, Phases
<1>4. DebtOK
  BY <1>1 DEF Init, OutputInit, DebtOK, SoundCallbacks, Waiting, Idle
<1>5. alive \in BOOLEAN
  BY DEF Init, OutputInit
<1> QED BY <1>3, <1>4, <1>5 DEF AllOutputsOK

LEMMA OutputsConstructor ==
    ASSUME AllOutputsOK, NEW o \in Outputs, NEW from, NEW to \in Phases,
           Construct(o, from, to)
    PROVE  AllOutputsOK'
<1>1. /\ UNCHANGED <<setup, picture_side, sound_side, audio_adjust>>
      /\ phase' = [phase EXCEPT ![o] = to] \/ UNCHANGED phase
  BY DEF Construct
<1>2. alive' \in BOOLEAN
  BY DEF Construct, AllOutputsOK
<1>3. OutputsOK'
  BY <1>1 DEF AllOutputsOK, OutputsOK, Outputs, picture_side, sound_side
<1>4. DebtOK'
  BY <1>1 DEF AllOutputsOK, DebtOK, Outputs, picture_side, sound_side
<1> QED BY <1>2, <1>3, <1>4 DEF AllOutputsOK

LEMMA OutputsPreroll ==
    ASSUME AllOutputsOK, NEW o \in Outputs, UNCHANGED alive,
           PrerollVideo(o) \/ AudioPreroll(o)
    PROVE  AllOutputsOK'
<1>1. PREROLL \in Nat
  BY OutputAssumption
<1>2. CASE PrerollVideo(o)
  <2>1. OutputsOK'
    BY <1>1, <1>2 DEF PrerollVideo, AllOutputsOK, OutputsOK, Outputs, picture_side, Phases
  <2>2. DebtOK'
    BY <1>1, <1>2 DEF PrerollVideo, AllOutputsOK, DebtOK, Outputs, picture_side
  <2> QED BY <2>1, <2>2 DEF AllOutputsOK
<1>3. CASE AudioPreroll(o)
  <2>1. OutputsOK'
    BY <1>3 DEF AudioPreroll, AllOutputsOK, OutputsOK, Outputs, picture_side, Phases
  <2>2. DebtOK'
    BY <1>3 DEF AudioPreroll, AllOutputsOK, DebtOK, Outputs, picture_side
  <2> QED BY <2>1, <2>2 DEF AllOutputsOK
<1> QED BY <1>2, <1>3

(* The picture callback only ever adds to the debt it read. *)
LEMMA OutputsPicture ==
    ASSUME AllOutputsOK, NEW o \in Outputs, UNCHANGED alive, PictureCallback(o)
    PROVE  AllOutputsOK'
<1>1. ASSUME PictureDone(o)
      PROVE  /\ sound_cb' \in [Outputs -> SoundCallbacks]
             /\ \A p \in Outputs :
                   /\ sound_cb'[p].read = sound_cb[p].read
                   /\ sound_cb'[p].at = "idle" => sound_cb[p].at = "idle"
  BY <1>1 DEF PictureDone, SoundCallbacks, AllOutputsOK, DebtOK
<1>2. Slots \in Nat
  BY OutputAssumption DEF Slots
<1>3. CASE ScheduleFresh(o)
  <2>1. OutputsOK'
    BY <1>2, <1>3 DEF ScheduleFresh, AllOutputsOK, OutputsOK, Outputs
  <2>2. DebtOK'
    BY <1>1, <1>3 DEF ScheduleFresh, AllOutputsOK, DebtOK, Outputs
  <2> QED BY <2>1, <2>2 DEF AllOutputsOK
<1>4. CASE ScheduleStale(o)
  <2>1. OutputsOK'
    BY <1>4 DEF ScheduleStale, AllOutputsOK, OutputsOK, Outputs
  <2>2. DebtOK'
    BY <1>1, <1>4 DEF ScheduleStale, AllOutputsOK, DebtOK, Outputs
  <2> QED BY <2>1, <2>2 DEF AllOutputsOK
<1>5. CASE ScheduleStaleEnd(o)
  <2>1. OutputsOK'
    BY <1>5 DEF ScheduleStaleEnd, AllOutputsOK, OutputsOK, Outputs, sound_side
  <2>2. DebtOK'
    BY <1>5 DEF ScheduleStaleEnd, AllOutputsOK, DebtOK, Outputs, sound_side, Idle
  <2> QED BY <2>1, <2>2 DEF AllOutputsOK
<1> QED BY <1>3, <1>4, <1>5 DEF PictureCallback

(* The sound callback reads a debt before it writes one less. *)
LEMMA OutputsSound ==
    ASSUME AllOutputsOK, NEW o \in Outputs, UNCHANGED alive, SoundCallback(o)
    PROVE  AllOutputsOK'
<1>1. Slots \in Nat
  BY OutputAssumption DEF Slots
<1>2. CASE Render(o)
  <2>1. OutputsOK'
    BY <1>2 DEF Render, AllOutputsOK, OutputsOK, Outputs, picture_side
  <2>2. DebtOK'
    BY <1>2 DEF Render, AllOutputsOK, DebtOK, Outputs, picture_side, Testing,
                SoundCallbacks, Idle
  <2> QED BY <2>1, <2>2 DEF AllOutputsOK
<1>3. CASE InsertSilence(o)
  <2>1. OutputsOK'
    BY <1>3 DEF InsertSilence, AllOutputsOK, OutputsOK, Outputs, picture_side
  <2>2. DebtOK'
    BY <1>3 DEF InsertSilence, InLoop, OwesSilence, AllOutputsOK, DebtOK, Outputs,
                picture_side, Testing, SoundCallbacks, Idle
  <2> QED BY <2>1, <2>2 DEF AllOutputsOK
<1>4. CASE InsertSilenceEnd(o)
  <2>1. OutputsOK'
    BY <1>4 DEF InsertSilenceEnd, AllOutputsOK, OutputsOK, Outputs, picture_side
  <2>2. audio_adjust' \in [Outputs' -> Nat]
    BY <1>4 DEF InsertSilenceEnd, AllOutputsOK, DebtOK, Outputs, SoundCallbacks, Idle
  <2>3. /\ picture_cb' \in [Outputs' -> Nat \union {Idle}]
        /\ sound_cb' \in [Outputs' -> SoundCallbacks]
    BY <1>4 DEF InsertSilenceEnd, AllOutputsOK, DebtOK, Outputs, picture_side,
                SoundCallbacks, Idle
  <2>4. ASSUME NEW p \in Outputs'
        PROVE  /\ sound_cb'[p].read # Idle => sound_cb'[p].read >= 1
               /\ sound_cb'[p].at = "idle" => sound_cb'[p].read = Idle
    <3>1. p \in Outputs
      BY <1>4, <2>4 DEF InsertSilenceEnd, Outputs
    <3>2. CASE p = o
      BY <1>4, <3>1, <3>2 DEF InsertSilenceEnd, AllOutputsOK, DebtOK, SoundCallbacks
    <3>3. CASE p # o
      BY <1>4, <3>1, <3>3 DEF InsertSilenceEnd, AllOutputsOK, DebtOK, SoundCallbacks
    <3> QED BY <3>2, <3>3
  <2>5. DebtOK'
    BY <2>2, <2>3, <2>4 DEF DebtOK
  <2> QED BY <2>1, <2>5 DEF AllOutputsOK
<1>5. CASE TakeSound(o)
  <2>1. /\ audio_in_pipe[o] > 0
        /\ audio_in_pipe' = [audio_in_pipe EXCEPT ![o] = @ - 1]
        /\ audio_fifo' = [audio_fifo EXCEPT ![o] = @ + 1]
        /\ UNCHANGED <<setup, phase, picture_side, sound_cb, audio_adjust>>
    BY <1>5 DEF TakeSound, InLoop
  <2>2. OutputsOK'
    <3>1. audio_in_pipe' \in [Outputs' -> 0 .. Slots]
      BY <1>1, <2>1 DEF AllOutputsOK, OutputsOK, Outputs
    <3>2. /\ audio_fifo' \in [Outputs' -> Nat]
          /\ in_pipe' \in [Outputs' -> 0 .. Slots]
          /\ phase' \in [Outputs' -> Phases]
      BY <2>1 DEF AllOutputsOK, OutputsOK, Outputs, picture_side
    <3> QED BY <2>1, <3>1, <3>2 DEF AllOutputsOK, OutputsOK
  <2>3. DebtOK'
    BY <2>1 DEF AllOutputsOK, DebtOK, Outputs, picture_side
  <2> QED BY <2>2, <2>3 DEF AllOutputsOK
<1>6. CASE ScheduleSound(o)
  <2>1. OutputsOK'
    BY <1>6 DEF ScheduleSound, Leftover, AllOutputsOK, OutputsOK, Outputs, picture_side
  <2>2. DebtOK'
    BY <1>6 DEF ScheduleSound, AllOutputsOK, DebtOK, Outputs, picture_side, Waiting,
                SoundCallbacks, Idle
  <2> QED BY <2>1, <2>2 DEF AllOutputsOK
<1> QED BY <1>2, <1>3, <1>4, <1>5, <1>6, OutputsPreroll DEF SoundCallback

(* One step of the constructor, or of a callback, of one output. *)
LEMMA OutputsCard ==
    ASSUME AllOutputsOK, NEW o \in Outputs, Card(o)
    PROVE  AllOutputsOK'
<1>1. CASE Constructor(o)
  BY <1>1, OutputsConstructor DEF Constructor, ConvertPF, FindCard, ConfigureCard,
                                  OpenCard, Phases
<1>2. CASE UNCHANGED alive /\ PrerollVideo(o)
  BY <1>2, OutputsPreroll
<1>3. CASE UNCHANGED alive /\ PictureCallback(o)
  BY <1>3, OutputsPicture
<1>4. CASE UNCHANGED alive /\ SoundCallback(o)
  BY <1>4, OutputsSound
<1> QED BY <1>1, <1>2, <1>3, <1>4 DEF Card

-----------------------------------------------------------------------------
(* The loop, the generators and the child. *)

Overlays == [shown : BOOLEAN, level : Nat, before : Nat]
CgThreads == [at : {"ask", "put"}, overlay : Overlays]
ServerStates == {"UP", "DOWN", "IN", "OUT"}

RunOK ==
    /\ run \in [at : {"video", "level", "take", "sound"}, out : Outputs,
                cg : 1 .. Len(cgs) + 1, level : Nat]
    /\ run.at = "take" => run.cg \in CGs

PipesOK ==
    /\ cg_pipe \in [CGs -> Seq(Overlays)]
    /\ \A i \in CGs : Len(cg_pipe[i]) <= 1

GeneratorsOK ==
    /\ cg_thread \in [CGs -> CgThreads]
    /\ level \in [CGs -> Levels \union {0}]

IsServer(s) ==
    /\ DOMAIN s = {"state", "i", "n", "level", "data"}
    /\ s.state \in ServerStates
    /\ s.level \in Levels \union {0}

ServerOK == IsServer(server)

KeyerOK ==
    cgs \in Seq(STRING) /\ RunOK /\ flags \subseteq CGs /\ PipesOK /\ GeneratorsOK
    /\ ServerOK

LEMMA LevelsAreNumbers == Levels \union {0} \subseteq Nat
BY KeyerAssumption

LEMMA KeyerInit == Init => KeyerOK
<1> SUFFICES ASSUME Init PROVE KeyerOK
  OBVIOUS
<1>1. PICK p \in Programs : /\ cgs = p.cgs
                            /\ setup = [outputs |-> p.outputs, audio |-> p.audio]
  BY DEF Init
<1>2. cgs \in Seq(STRING) /\ setup.outputs \in Nat \ {0} /\ Len(cgs) \in Nat
  BY <1>1, KeyerAssumption
<1>3. NoOverlay \in Overlays
  BY DEF NoOverlay, Overlay, Overlays
<1>4. RunOK
  BY <1>2 DEF Init, At, RunOK, Outputs
<1>5. PipesOK /\ GeneratorsOK
  BY <1>3 DEF Init, Thread, PipesOK, GeneratorsOK, CgThreads
<1>6. flags \subseteq CGs /\ ServerOK
  BY DEF Init, ServerOK, IsServer, ServerStates
<1> QED BY <1>2, <1>4, <1>5, <1>6 DEF KeyerOK

(* The loop over the outputs. *)
LEMMA KeyerRun ==
    ASSUME AllOutputsOK, KeyerOK, Run, UNCHANGED cgs
    PROVE  KeyerOK'
<1> USE DEF KeyerOK
<1>0. Len(cgs) \in Nat /\ 0 \in Outputs /\ Outputs \subseteq Nat
  BY DEF AllOutputsOK, OutputsOK, Outputs
<1>1. \A i \in CGs : DirtyLevel(i) \in Nat
  <2>1. \A i \in CGs : level[i] \in Nat
    BY LevelsAreNumbers DEF GeneratorsOK
  <2> QED BY <2>1 DEF DirtyLevel
<1>2. NextOutput \in [at : {"video", "level"}, out : Outputs, cg : 1 .. Len(cgs) + 1,
                      level : Nat]
  BY <1>0 DEF NextOutput, At
<1>3. run.cg \in CGs => NextCG \in [at : {"level"}, out : Outputs, cg : 1 .. Len(cgs) + 1,
                                    level : Nat]
  BY <1>0 DEF NextCG, At, RunOK, CGs
<1>4. CASE GetPicture
  BY <1>0, <1>4 DEF GetPicture, At, output, generators, RunOK, PipesOK,
                    GeneratorsOK, ServerOK, Outputs, CGs
<1>5. CASE TestLevel
  <2>1. /\ run.cg \in CGs /\ UNCHANGED <<setup, flags, generators>>
        /\ run' = NextCG \/ run' = [run EXCEPT !.at = "take", !.level = DirtyLevel(run.cg)]
    BY <1>5 DEF TestLevel, TestLevelOr, output
  <2>2. RunOK'
    BY <1>1, <1>3, <2>1 DEF RunOK, Outputs, CGs
  <2> QED BY <2>1, <2>2 DEF generators, PipesOK, GeneratorsOK, ServerOK, CGs
<1>6. CASE TakeOverlay
  <2>1. /\ run.cg \in CGs /\ run' = NextCG
        /\ UNCHANGED <<setup, cg_thread, level, server>>
    BY <1>6 DEF TakeOverlay, output, RunOK
  <2>2. RunOK'
    BY <1>3, <2>1 DEF RunOK, Outputs, CGs
  <2>3. /\ flags' \subseteq CGs
        /\ \/ UNCHANGED cg_pipe
           \/ /\ cg_pipe[run.cg] # <<>>
              /\ cg_pipe' = [cg_pipe EXCEPT ![run.cg] = Tail(@)]
    BY <1>6, <2>1 DEF TakeOverlay
  <2>4. PipesOK'
    <3>1. CASE UNCHANGED cg_pipe
      BY <3>1 DEF PipesOK, CGs
    <3>2. CASE /\ cg_pipe[run.cg] # <<>>
               /\ cg_pipe' = [cg_pipe EXCEPT ![run.cg] = Tail(@)]
      <4>1. /\ Tail(cg_pipe[run.cg]) \in Seq(Overlays)
            /\ Len(Tail(cg_pipe[run.cg])) <= 1
        BY <2>1, <3>2 DEF PipesOK
      <4> QED BY <2>1, <3>2, <4>1 DEF PipesOK, CGs
    <3> QED BY <2>3, <3>1, <3>2
  <2> QED BY <2>1, <2>2, <2>3, <2>4 DEF GeneratorsOK, ServerOK, CGs
<1>7. CASE PutVideo \/ PutAudio
  <2>1. /\ UNCHANGED <<setup, flags, generators>>
        /\ run' = NextOutput \/ run' = [run EXCEPT !.at = "sound"]
    BY <1>7 DEF PutVideo, PutAudio
  <2>2. RunOK'
    BY <1>2, <2>1 DEF RunOK, Outputs, CGs
  <2> QED BY <2>1, <2>2 DEF generators, PipesOK, GeneratorsOK, ServerOK, CGs
<1> QED BY <1>4, <1>5, <1>6, <1>7 DEF Run

(* The thread of one generator. *)
LEMMA KeyerGenerate ==
    ASSUME KeyerOK, NEW i \in CGs, Generate(i), UNCHANGED <<output, keyer, cgs>>
    PROVE  KeyerOK'
<1> USE DEF KeyerOK
<1>0. RunOK' /\ flags' \subseteq CGs' /\ Levels \union {0} \subseteq Nat
  BY LevelsAreNumbers DEF RunOK, output, keyer, Outputs, CGs
<1>1. ASSUME NEW o \in Overlays, Hold(i, o)
      PROVE  cg_thread' \in [CGs' -> CgThreads]
  BY <1>1 DEF Hold, Thread, CgThreads, GeneratorsOK, CGs
<1>2. NoOverlay \in Overlays /\ \A a : \A l, b \in Nat : Overlay(a, l, b) \in Overlays
  BY DEF NoOverlay, Overlay, Overlays
<1>3. CASE PlainOverlay(i)
  <2>1. UNCHANGED <<cg_pipe, level, server>> /\ Hold(i, NoOverlay)
    BY <1>3 DEF PlainOverlay
  <2> QED BY <1>0, <1>1, <1>2, <2>1 DEF PipesOK, GeneratorsOK, ServerOK, CGs
<1>4. CASE JsOverlay(i)
  <2>1. UNCHANGED <<cg_pipe, level, server>> /\ Hold(i, RenderFrame(i))
    BY <1>4 DEF JsOverlay
  <2>2. RenderFrame(i) \in Overlays
    BY <1>2 DEF RenderFrame
  <2> QED BY <1>0, <1>1, <2>1, <2>2 DEF PipesOK, GeneratorsOK, ServerOK, CGs
<1>5. CASE AnswerAndRead(i)
  <2>1. /\ server.level \in Levels \union {0}
        /\ level[i] \in Levels \union {0}
    BY DEF ServerOK, IsServer, GeneratorsOK
  <2>2. PICK o \in Overlays : Hold(i, o)
    BY <1>0, <1>2, <1>5, <2>1 DEF AnswerAndRead
  <2>3. level' \in [CGs' -> Levels \union {0}]
    BY <1>5, <2>1 DEF AnswerAndRead, GeneratorsOK, CGs
  <2>4. IsServer(Stepped)
    <3>1. CASE ~Dissolving
      BY <3>1 DEF Stepped, SteppedBy, ServerOK
    <3>2. CASE Dissolving /\ server.i + 1 >= server.n
      BY <3>2 DEF Stepped, SteppedBy, Dissolving, AtRest, ServerOK, IsServer, ServerStates
    <3>3. CASE Dissolving /\ ~(server.i + 1 >= server.n)
      BY <3>3 DEF Stepped, SteppedBy, ServerOK, IsServer, ServerStates
    <3> QED BY <3>1, <3>2, <3>3
  <2>5. ServerOK'
    BY <1>5, <2>4 DEF AnswerAndRead, ServerOK, IsServer
  <2>6. PipesOK'
    BY <1>5 DEF AnswerAndRead, PipesOK, CGs
  <2> QED BY <1>0, <1>1, <2>2, <2>3, <2>5, <2>6 DEF GeneratorsOK
<1>6. CASE ServerExits(i)
  BY <1>0, <1>6 DEF ServerExits, generators, PipesOK, GeneratorsOK, ServerOK, CGs
<1>7. CASE PutOverlay(i)
  <2>1. cg_thread[i].overlay \in Overlays /\ cg_pipe[i] = <<>>
    BY <1>7 DEF PutOverlay, CG_PIPE_SLOTS, PipesOK, GeneratorsOK, CgThreads
  <2>2. PipesOK'
    BY <1>7, <2>1 DEF PutOverlay, PipesOK, CGs
  <2>3. cg_thread' \in [CGs' -> CgThreads]
    BY <1>2, <1>7 DEF PutOverlay, Thread, CgThreads, GeneratorsOK, CGs
  <2> QED BY <1>0, <1>7, <2>2, <2>3 DEF PutOverlay, GeneratorsOK, ServerOK, CGs
<1> QED BY <1>3, <1>4, <1>5, <1>6, <1>7 DEF Generate

LEMMA KeyerOperator ==
    ASSUME KeyerOK, Operator,
           UNCHANGED <<output, keyer, cg_pipe, cg_thread, level, cgs>>
    PROVE  KeyerOK'
<1> USE DEF KeyerOK
<1>1. RunOK' /\ flags' \subseteq CGs' /\ PipesOK' /\ GeneratorsOK'
  BY DEF RunOK, PipesOK, GeneratorsOK, output, keyer, Outputs, CGs
<1>2. ServerOK'
  <2>1. CASE PostKey \/ CutIn \/ PutScript
    BY <2>1 DEF PostKey, CutIn, PutScript, AtRest, ServerOK, IsServer, ServerStates
  <2>2. Frames \subseteq Nat
    BY KeyerAssumption
  <2>3. CASE Dissolve("DOWN", "IN") \/ Dissolve("UP", "OUT")
    BY <2>2, <2>3 DEF Dissolve, ServerOK, IsServer, ServerStates
  <2>4. CASE SetDirtyLevel
    BY <2>4 DEF SetDirtyLevel, ServerOK, IsServer
  <2> QED BY <2>1, <2>3, <2>4 DEF Operator
<1> QED BY <1>1, <1>2

-----------------------------------------------------------------------------
(* Types. *)

KeyerInv == AllOutputsOK /\ KeyerOK

LEMMA KeyerTyped == KeyerInv => TypeOK
<1> SUFFICES ASSUME KeyerInv PROVE TypeOK
  OBVIOUS
<1>1. \A o \in Outputs : /\ sound_cb[o].at \in {"idle", "loop", "overlapped"}
                         /\ sound_cb[o].read \in Nat \union {Idle}
                         /\ sound_cb[o].at = "idle" => sound_cb[o].read = Idle
  BY DEF KeyerInv, AllOutputsOK, DebtOK, SoundCallbacks, Idle
<1>2. OutputTypeOK
  BY <1>1 DEF KeyerInv, AllOutputsOK, OutputsOK, DebtOK, OutputTypeOK, Phases
<1>3. \A i \in CGs : /\ Len(cg_pipe[i]) < CG_PIPE_SLOTS
                     /\ cg_thread[i].at \in {"ask", "put"}
                     /\ level[i] \in Levels \union {0}
  BY DEF KeyerInv, KeyerOK, PipesOK, GeneratorsOK, CgThreads, CG_PIPE_SLOTS
<1> QED BY <1>2, <1>3 DEF TypeOK, KeyerInv, KeyerOK, RunOK, ServerOK, IsServer, ServerStates

LEMMA KeyerInvNext == KeyerInv /\ [Next]_vars => KeyerInv'
<1> SUFFICES ASSUME KeyerInv, [Next]_vars PROVE KeyerInv'
  OBVIOUS
<1> USE DEF KeyerInv
<1>1. CASE UNCHANGED vars
  <2>1. AllOutputsOK'
    BY <1>1 DEF vars, output, AllOutputsOK, OutputsOK, DebtOK, Outputs
  <2>2. RunOK' /\ PipesOK' /\ GeneratorsOK' /\ ServerOK'
    BY <1>1 DEF vars, output, keyer, generators, KeyerOK, RunOK, PipesOK, GeneratorsOK,
                ServerOK, Outputs, CGs
  <2> QED BY <1>1, <2>1, <2>2 DEF vars, keyer, KeyerOK, CGs
<1>2. CASE Run /\ UNCHANGED <<alive, cgs>>
  <2>1. KeyerOK'
    BY <1>2, KeyerRun
  <2>2. run.out \in Outputs /\ Slots \in Nat
    BY OutputAssumption DEF KeyerOK, RunOK, Slots
  <2>3. CASE GetPicture \/ TestLevel \/ TakeOverlay
    <3>1. UNCHANGED output
      BY <2>3 DEF GetPicture, TestLevel, TestLevelOr, TakeOverlay
    <3> QED BY <1>2, <2>1, <3>1 DEF output, AllOutputsOK, OutputsOK, DebtOK, Outputs
  <2>4. CASE PutVideo
    <3>1. OutputsOK'
      BY <2>2, <2>4 DEF PutVideo, AllOutputsOK, OutputsOK, Outputs, sound_side
    <3>2. DebtOK'
      BY <2>4 DEF PutVideo, AllOutputsOK, DebtOK, Outputs, sound_side
    <3> QED BY <1>2, <2>1, <3>1, <3>2 DEF AllOutputsOK
  <2>5. CASE PutAudio
    <3>1. OutputsOK'
      BY <2>2, <2>5 DEF PutAudio, AllOutputsOK, OutputsOK, Outputs, picture_side
    <3>2. DebtOK'
      BY <2>5 DEF PutAudio, AllOutputsOK, DebtOK, Outputs, picture_side
    <3> QED BY <1>2, <2>1, <3>1, <3>2 DEF AllOutputsOK
  <2> QED BY <1>2, <2>3, <2>4, <2>5 DEF Run
<1>3. ASSUME NEW i \in CGs, Generate(i), UNCHANGED <<output, keyer, cgs>>
      PROVE  KeyerInv'
  <2>1. KeyerOK'
    BY <1>3, KeyerGenerate
  <2>2. alive' \in BOOLEAN
    BY <1>3 DEF Generate, PlainOverlay, JsOverlay, AnswerAndRead, ServerExits, PutOverlay,
                Compiles, AllOutputsOK
  <2>3. OutputsOK' /\ DebtOK'
    BY <1>3 DEF output, AllOutputsOK, OutputsOK, DebtOK, Outputs
  <2> QED BY <2>1, <2>2, <2>3 DEF AllOutputsOK
<1>4. CASE /\ Operator
           /\ UNCHANGED <<output, alive, keyer, cg_pipe, cg_thread, level, cached, cgs>>
  <2>1. KeyerOK'
    BY <1>4, KeyerOperator
  <2>2. AllOutputsOK'
    BY <1>4 DEF output, AllOutputsOK, OutputsOK, DebtOK, Outputs
  <2> QED BY <2>1, <2>2
<1>5. ASSUME NEW o \in Outputs, Card(o), UNCHANGED cgs
      PROVE  KeyerInv'
  <2>1. AllOutputsOK'
    BY <1>5, OutputsCard
  <2>2. UNCHANGED <<setup, keyer, generators>>
    BY <1>5 DEF Card, Constructor, ConvertPF, FindCard, ConfigureCard, OpenCard, Construct,
                PrerollVideo, PictureCallback, ScheduleFresh, ScheduleStale,
                ScheduleStaleEnd, SoundCallback, AudioPreroll, Render, InsertSilence,
                InsertSilenceEnd, TakeSound, ScheduleSound
  <2>3. RunOK' /\ PipesOK' /\ GeneratorsOK' /\ ServerOK'
    BY <1>5, <2>2 DEF keyer, generators, KeyerOK, RunOK, PipesOK, GeneratorsOK, ServerOK,
                      Outputs, CGs
  <2> QED BY <1>5, <2>1, <2>2, <2>3 DEF keyer, KeyerOK, CGs
<1> QED BY <1>1, <1>2, <1>3, <1>4, <1>5 DEF Next

(* The types of the keyer and of its cards: in particular the silence owed *)
(* to a card, which two threads of the driver change without a lock, never *)
(* falls below zero (decklink.cpp's audio_adjust is unsigned), for any     *)
(* pipes, preroll, outputs and CGs.                                        *)
THEOREM KeyerTypeCorrect == Spec => []TypeOK
<1>1. Init => KeyerInv
  BY OutputsInit, KeyerInit DEF KeyerInv
<1> QED BY <1>1, KeyerInvNext, KeyerTyped, PTL DEF Spec

-----------------------------------------------------------------------------
(* The level an overlay is drawn by.  It is read before the overlay is taken; *)
(* while the loop stands between the two, the CG's thread, which finds one    *)
(* slot in its pipe, can set the level once more and no further.              *)

\* Only a child chooses a level.
ZeroLevel(i) == cgs[i] # "subprocess" => level[i] = 0

\* The overlay made last has the CG's level, until the next header is read.
FreshLevel(i) ==
    /\ cg_thread[i].at = "put" /\ cg_thread[i].overlay.shown
          => cg_thread[i].overlay.level = level[i]
    /\ cg_thread[i].at = "ask" /\ cg_pipe[i] # <<>> /\ Head(cg_pipe[i]).shown
          => Head(cg_pipe[i]).level = level[i]

\* A level t read before is that of the next overlay to be taken, that of the
\* one before it, or, once it waits in the pipe, that of the one after it.
Near(i, t) ==
    /\ cg_pipe[i] # <<>> /\ Head(cg_pipe[i]).shown
          => t \in {Head(cg_pipe[i]).before, Head(cg_pipe[i]).level, level[i]}
    /\ cg_pipe[i] = <<>> /\ cg_thread[i].at = "put" /\ cg_thread[i].overlay.shown
          => t \in {cg_thread[i].overlay.before, cg_thread[i].overlay.level}
    /\ cg_pipe[i] = <<>> /\ cg_thread[i].at = "ask" => t = level[i]

LevelsOK == \A i \in CGs : ZeroLevel(i) /\ FreshLevel(i)
TestedOK == run.at = "take" => Near(run.cg, run.level)
KeyedInv == KeyerInv /\ LevelsOK /\ TestedOK /\ KeyedWithinOneOverlay

LEMMA KeyedInit == Init => KeyedInv
<1> SUFFICES ASSUME Init PROVE KeyedInv
  OBVIOUS
<1>1. KeyerInv
  BY OutputsInit, KeyerInit DEF KeyerInv
<1>2. LevelsOK
  BY DEF Init, LevelsOK, ZeroLevel, FreshLevel, Thread
<1>3. TestedOK /\ KeyedWithinOneOverlay
  BY DEF Init, TestedOK, At, KeyedWithinOneOverlay, NothingKeyed
<1> QED BY <1>1, <1>2, <1>3 DEF KeyedInv

LEMMA DirtyLevelIsLevel ==
    ASSUME NEW i \in CGs, ZeroLevel(i)
    PROVE  DirtyLevel(i) = level[i]
BY DEF DirtyLevel, ZeroLevel

(* The level tested is near the next overlay from the start. *)
LEMMA TestedNear ==
    ASSUME KeyerOK, NEW i \in CGs, ZeroLevel(i), FreshLevel(i)
    PROVE  Near(i, DirtyLevel(i))
BY DirtyLevelIsLevel DEF FreshLevel, Near

(* The loop does not disturb the levels. *)
LEMMA LevelsRun ==
    ASSUME KeyedInv, Run, UNCHANGED <<alive, cgs>>
    PROVE  LevelsOK'
<1> USE DEF KeyedInv, KeyerInv, KeyerOK
<1>1. CASE UNCHANGED <<cg_pipe, cg_thread, level>>
  BY <1>1 DEF LevelsOK, ZeroLevel, FreshLevel, CGs
<1>2. CASE TakeOverlay
  <2>1. /\ run.cg \in CGs /\ UNCHANGED <<cg_thread, level>>
        /\ \/ UNCHANGED cg_pipe
           \/ /\ cg_pipe[run.cg] # <<>>
              /\ cg_pipe' = [cg_pipe EXCEPT ![run.cg] = Tail(@)]
    BY <1>2 DEF TakeOverlay, RunOK
  <2>2. ASSUME NEW i \in CGs, cg_pipe' = [cg_pipe EXCEPT ![run.cg] = Tail(@)],
               cg_pipe[run.cg] # <<>>
        PROVE  cg_pipe'[i] = cg_pipe[i] \/ cg_pipe'[i] = <<>>
    BY <2>1, <2>2 DEF PipesOK
  <2>3. ASSUME NEW i \in CGs PROVE cg_pipe'[i] = cg_pipe[i] \/ cg_pipe'[i] = <<>>
    BY <2>1, <2>2, <2>3
  <2> QED BY <1>2, <2>1, <2>3 DEF LevelsOK, ZeroLevel, FreshLevel, CGs
<1>3. GetPicture \/ TestLevel \/ PutVideo \/ PutAudio => UNCHANGED <<cg_pipe, cg_thread, level>>
  BY DEF GetPicture, TestLevel, TestLevelOr, PutVideo, PutAudio, generators
<1> QED BY <1>1, <1>2, <1>3 DEF Run

LEMMA KeyedRun ==
    ASSUME KeyedInv, Run, UNCHANGED <<alive, cgs>>
    PROVE  TestedOK' /\ KeyedWithinOneOverlay'
<1> USE DEF KeyedInv, KeyerInv, KeyerOK
<1>1. CASE GetPicture \/ PutVideo \/ PutAudio
  <2>1. keyed' = NothingKeyed \/ UNCHANGED keyed
    BY <1>1 DEF GetPicture, PutVideo, PutAudio
  <2>2. run'.at # "take"
    BY <1>1 DEF GetPicture, PutVideo, PutAudio, NextOutput, At, RunOK
  <2> QED BY <2>1, <2>2 DEF TestedOK, KeyedWithinOneOverlay, NothingKeyed
<1>2. CASE TestLevel
  <2>1. /\ run.cg \in CGs /\ UNCHANGED <<cg_pipe, cg_thread, level>>
        /\ run' = NextCG \/ run' = [run EXCEPT !.at = "take", !.level = DirtyLevel(run.cg)]
        /\ keyed' = NothingKeyed
    BY <1>2 DEF TestLevel, TestLevelOr, generators
  <2>2. Near(run.cg, DirtyLevel(run.cg))
    BY <2>1, TestedNear DEF LevelsOK
  <2>3. CASE run' = NextCG
    BY <2>1, <2>3 DEF NextCG, At, TestedOK, KeyedWithinOneOverlay, NothingKeyed
  <2>4. CASE run' = [run EXCEPT !.at = "take", !.level = DirtyLevel(run.cg)]
    <3>1. run'.cg = run.cg /\ run'.level = DirtyLevel(run.cg)
      BY <2>4 DEF RunOK
    <3> QED BY <2>1, <2>2, <3>1 DEF Near, TestedOK, KeyedWithinOneOverlay, NothingKeyed
  <2> QED BY <2>1, <2>3, <2>4
<1>3. CASE TakeOverlay
  <2>1. run.at = "take" /\ run.cg \in CGs /\ run' = NextCG
    BY <1>3 DEF TakeOverlay, RunOK
  <2>2. TestedOK'
    BY <2>1 DEF NextCG, At, TestedOK
  <2>3. DirtyLevel(run.cg) = level[run.cg] /\ Near(run.cg, run.level)
    BY <2>1, DirtyLevelIsLevel DEF LevelsOK, TestedOK
  <2>4. CASE UNCHANGED keyed
    BY <2>2, <2>4 DEF KeyedWithinOneOverlay
  <2>5. CASE ~UNCHANGED keyed
    <3> DEFINE overlay == Head(cg_pipe[run.cg])
    <3>1. /\ cg_pipe[run.cg] # <<>> /\ overlay.shown
          /\ keyed' = [out |-> run.out, tested |-> run.level, own |-> overlay.level,
                       before |-> overlay.before, next |-> DirtyLevel(run.cg)]
      BY <1>3, <2>5 DEF TakeOverlay
    <3>2. run.level \in {overlay.before, overlay.level, level[run.cg]}
      BY <2>3, <3>1 DEF Near
    <3>3. /\ keyed'.tested = run.level /\ keyed'.own = overlay.level
          /\ keyed'.before = overlay.before /\ keyed'.next = level[run.cg]
      BY <2>3, <3>1
    <3> QED BY <2>2, <3>2, <3>3 DEF KeyedWithinOneOverlay
  <2> QED BY <2>4, <2>5
<1> QED BY <1>1, <1>2, <1>3 DEF Run

(* A step of one CG's thread: what it means for that CG. *)
LEMMA LevelsOneCG ==
    ASSUME KeyerOK, NEW i \in CGs, ZeroLevel(i), FreshLevel(i), Generate(i),
           UNCHANGED <<output, keyer, cgs>>
    PROVE  /\ ZeroLevel(i)' /\ FreshLevel(i)'
           /\ \A t : Near(i, t) => Near(i, t)'
<1> USE DEF KeyerOK
<1>1. \A o : Hold(i, o) => /\ cg_thread'[i].at = "put" /\ cg_thread'[i].overlay = o
  BY DEF Hold, Thread, GeneratorsOK
<1>2. cg_thread[i].at # "ask" => cg_thread[i].at = "put"
  BY DEF GeneratorsOK, CgThreads
<1>3. ~NoOverlay.shown
  <2>1. NoOverlay.shown <=> 0 > 0
    BY Zenon DEF NoOverlay, Overlay
  <2>2. ~(0 > 0)
    BY SMT
  <2> QED BY <2>1, <2>2
<1>4. CASE PlainOverlay(i)
  <2>1. /\ cg_thread[i].at = "ask" /\ UNCHANGED <<cg_pipe, level>>
        /\ cg_thread'[i].at = "put" /\ cg_thread'[i].overlay = NoOverlay
    BY <1>1, <1>4 DEF PlainOverlay, AsksAs
  <2> QED BY <1>3, <2>1 DEF ZeroLevel, FreshLevel, Near
<1>5. CASE JsOverlay(i)
  <2>1. /\ cg_thread[i].at = "ask" /\ UNCHANGED <<cg_pipe, level>> /\ level[i] = 0
        /\ cg_thread'[i].at = "put" /\ cg_thread'[i].overlay = RenderFrame(i)
    BY <1>1, <1>5 DEF JsOverlay, AsksAs, ZeroLevel
  <2>2. RenderFrame(i).level = 0 /\ RenderFrame(i).before = 0
    BY DEF RenderFrame, NoOverlay, Overlay
  <2> QED BY <2>1, <2>2 DEF ZeroLevel, FreshLevel, Near
<1>6. CASE AnswerAndRead(i)
  <2>1. /\ cgs[i] = "subprocess" /\ cg_thread[i].at = "ask" /\ UNCHANGED cg_pipe
        /\ level' = [level EXCEPT ![i] = server.level]
        /\ Hold(i, IF cached'[i] THEN Overlay(Alpha, server.level, level[i]) ELSE NoOverlay)
    BY <1>6 DEF AnswerAndRead, AsksAs
  <2>2. level'[i] = server.level
    BY <2>1 DEF GeneratorsOK
  <2>3. /\ cg_thread'[i].at = "put"
        /\ cg_thread'[i].overlay.shown => /\ cg_thread'[i].overlay.level = server.level
                                          /\ cg_thread'[i].overlay.before = level[i]
    BY <1>1, <1>3, <2>1 DEF Overlay
  <2> QED BY <2>1, <2>2, <2>3 DEF ZeroLevel, FreshLevel, Near
<1>7. CASE ServerExits(i)
  BY <1>7 DEF ServerExits, generators, ZeroLevel, FreshLevel, Near
<1>8. CASE PutOverlay(i)
  <2>1. /\ cg_thread[i].at = "put" /\ cg_pipe[i] = <<>> /\ UNCHANGED level
        /\ cg_pipe' = [cg_pipe EXCEPT ![i] = Append(@, cg_thread[i].overlay)]
        /\ cg_thread' = [cg_thread EXCEPT ![i] = Thread("ask", NoOverlay)]
    BY <1>8 DEF PutOverlay, CG_PIPE_SLOTS, PipesOK
  <2>2. cg_pipe'[i] # <<>> /\ Head(cg_pipe'[i]) = cg_thread[i].overlay
    BY <2>1 DEF PipesOK
  <2>3. cg_thread'[i].at = "ask"
    BY <2>1 DEF Thread, GeneratorsOK
  <2> QED BY <2>1, <2>2, <2>3 DEF ZeroLevel, FreshLevel, Near
<1> QED BY <1>4, <1>5, <1>6, <1>7, <1>8 DEF Generate

LEMMA KeyedGenerate ==
    ASSUME KeyedInv, NEW i \in CGs, Generate(i), UNCHANGED <<output, keyer, cgs>>
    PROVE  LevelsOK' /\ TestedOK' /\ KeyedWithinOneOverlay'
<1> USE DEF KeyedInv, KeyerInv, KeyerOK
<1>1. /\ ZeroLevel(i)' /\ FreshLevel(i)'
      /\ \A t : Near(i, t) => Near(i, t)'
  BY LevelsOneCG DEF LevelsOK
<1>2. ASSUME NEW j \in CGs, j # i
      PROVE  /\ cg_pipe'[j] = cg_pipe[j] /\ cg_thread'[j] = cg_thread[j]
             /\ level'[j] = level[j]
  <2>1. cg_pipe'[j] = cg_pipe[j]
    BY <1>2 DEF Generate, PlainOverlay, JsOverlay, AnswerAndRead, ServerExits, PutOverlay,
                generators, PipesOK
  <2>2. cg_thread'[j] = cg_thread[j]
    BY <1>2 DEF Generate, PlainOverlay, JsOverlay, AnswerAndRead, ServerExits, PutOverlay,
                Hold, generators, GeneratorsOK
  <2>3. level'[j] = level[j]
    BY <1>2 DEF Generate, PlainOverlay, JsOverlay, AnswerAndRead, ServerExits, PutOverlay,
                generators, GeneratorsOK
  <2> QED BY <2>1, <2>2, <2>3
<1>3. LevelsOK'
  <2>1. ASSUME NEW j \in CGs, j # i PROVE ZeroLevel(j)' /\ FreshLevel(j)'
    BY <1>2, <2>1 DEF LevelsOK, ZeroLevel, FreshLevel
  <2> QED BY <1>1, <2>1 DEF LevelsOK, CGs
<1>4. run' = run /\ keyed' = keyed
  BY DEF keyer
<1>5. TestedOK'
  <2>1. CASE run.at # "take"
    BY <1>4, <2>1 DEF TestedOK
  <2>2. CASE run.at = "take" /\ run.cg = i
    <3>1. Near(i, run.level)'
      BY <1>1, <1>4, <2>2 DEF TestedOK, Near
    <3> QED BY <1>4, <2>2, <3>1 DEF TestedOK, Near
  <2>3. CASE run.at = "take" /\ run.cg # i
    <3>1. run.cg \in CGs
      BY <2>3 DEF RunOK
    <3> QED BY <1>2, <1>4, <2>3, <3>1 DEF TestedOK, Near
  <2> QED BY <2>1, <2>2, <2>3
<1> QED BY <1>3, <1>4, <1>5 DEF KeyedWithinOneOverlay

LEMMA KeyedNext == KeyedInv /\ [Next]_vars => KeyedInv'
<1> SUFFICES ASSUME KeyedInv, [Next]_vars PROVE KeyedInv'
  OBVIOUS
<1>1. KeyerInv'
  BY KeyerInvNext DEF KeyedInv
<1>2. CASE UNCHANGED <<cgs, run, keyed, cg_pipe, cg_thread, level>>
  BY <1>1, <1>2 DEF KeyedInv, LevelsOK, ZeroLevel, FreshLevel, TestedOK, Near,
                    KeyedWithinOneOverlay, CGs
<1>3. CASE Run /\ UNCHANGED <<alive, cgs>>
  BY <1>1, <1>3, LevelsRun, KeyedRun DEF KeyedInv
<1>4. ASSUME NEW i \in CGs, Generate(i), UNCHANGED <<output, keyer, cgs>>
      PROVE  KeyedInv'
  BY <1>1, <1>4, KeyedGenerate DEF KeyedInv
<1>5. ASSUME NEW o \in Outputs, Card(o), UNCHANGED cgs
      PROVE  UNCHANGED <<cgs, run, keyed, cg_pipe, cg_thread, level>>
  BY <1>5 DEF Card, keyer, generators
<1>6. CASE UNCHANGED vars
  BY <1>2, <1>6 DEF vars, keyer, generators
<1> QED BY <1>2, <1>3, <1>4, <1>5, <1>6 DEF Next, keyer

(* The level by which an overlay is drawn on an output is never older than   *)
(* that of the overlay before it nor newer than that of the one after it,    *)
(* for any CGs, outputs and levels, though the loop of keyer_app.cpp reads   *)
(* it without a lock, apart from the overlay.                                *)
THEOREM DrawnByANearLevel == Spec => []KeyedWithinOneOverlay
<1>1. KeyedInv => KeyedWithinOneOverlay
  BY DEF KeyedInv
<1> QED BY <1>1, KeyedInit, KeyedNext, PTL DEF Spec

-----------------------------------------------------------------------------
(***************************************************************************)
(* The arithmetic of drawing (AlphaKey), for every pixel and every size.   *)
(***************************************************************************)
LEMMA ProductBound ==
    ASSUME NEW x \in Nat, NEW y \in Nat, NEW m \in Nat, NEW n \in Nat, x <= m, y <= n
    PROVE  x * y \in Nat /\ x * y <= m * n
<1>1. x * y <= m * y
  OBVIOUS
<1>2. m * y <= m * n
  OBVIOUS
<1> QED BY <1>1, <1>2

LEMMA AlphaInRange == \A a, g \in Byte : key_alpha(a, g) \in 1 .. 256
<1> SUFFICES ASSUME NEW a \in Byte, NEW g \in Byte PROVE key_alpha(a, g) \in 1 .. 256
  OBVIOUS
<1>1. a * g \in Nat /\ a * g <= 65025
  BY ProductBound DEF Byte
<1> QED BY <1>1 DEF key_alpha

LEMMA ColoursInRange ==
    ASSUME NEW p, p.r \in Byte, p.g \in Byte, p.b \in Byte
    PROVE  luma(p) \in 16 .. 240 /\ chroma_b(p) \in 16 .. 240 /\ chroma_r(p) \in 16 .. 240
<1>0. p.r \in 0 .. 255 /\ p.g \in 0 .. 255 /\ p.b \in 0 .. 255
  BY DEF Byte
<1> DEFINE r == p.r
           g == p.g
           b == p.b
<1>1. r \in 0 .. 255 /\ g \in 0 .. 255 /\ b \in 0 .. 255
  BY <1>0
<1> HIDE DEF r, g, b
<1>2. (4096 + 66 * r + 129 * g + 25 * b) \div 256 \in 16 .. 240
  BY <1>1
<1>3. (32768 - 38 * r - 74 * g + 112 * b) \div 256 \in 16 .. 240
  BY <1>1
<1>4. (32768 + 112 * r - 94 * g - 18 * b) \div 256 \in 16 .. 240
  BY <1>1
<1> QED BY <1>2, <1>3, <1>4 DEF luma, chroma_b, chroma_r, r, g, b

LEMMA PartsOf256 == ASSUME NEW m \in Nat, m < 256 * 256 PROVE m \div 256 \in 0 .. 255
  OBVIOUS

LEMMA MixedBytes ==
    ASSUME NEW x \in 0 .. 255, NEW y \in 0 .. 255, NEW w \in 0 .. 255
    PROVE  mixed(x, y, w) \in 0 .. 255
<1> DEFINE p == x * (255 - w)
           q == y * w
<1>1. p \in Nat /\ p <= 255 * (255 - w)
  <2>1. 255 - w \in Nat
    OBVIOUS
  <2> QED BY <2>1, ProductBound
<1>2. q \in Nat /\ q <= 255 * w
  BY ProductBound
<1>3. mixed(x, y, w) = (p + q + 256) \div 256
  BY DEF mixed
<1> HIDE DEF p, q
<1>4. p + q + 256 \in Nat /\ p + q + 256 < 256 * 256
  BY <1>1, <1>2
<1> DEFINE s == p + q + 256
<1>5. mixed(x, y, w) = s \div 256 /\ s \in Nat /\ s < 256 * 256
  <2>1. mixed(x, y, w) = s \div 256
    BY <1>3
  <2> QED BY <2>1, <1>4
<1> HIDE DEF s
<1>6. s \div 256 \in 0 .. 255
  BY <1>5, PartsOf256
<1> QED BY <1>5, <1>6

LEMMA MixedWhole ==
    ASSUME NEW x \in 0 .. 255, NEW y \in 16 .. 240
    PROVE  mixed(x, y, 256) = IF x = 0 THEN y + 1 ELSE y
<1>1. x * (255 - 256) = 0 - x
  OBVIOUS
<1>2. mixed(x, y, 256) = (0 - x + y * 256 + 256) \div 256
  BY <1>1 DEF mixed
<1> QED BY <1>2

LEMMA Remainder ==
    ASSUME NEW n \in Int, NEW m \in Nat, 0 <= n, n < m
    PROVE  n % m = n
  OBVIOUS

LEMMA MixedInByte ==
    ASSUME NEW bg \in Byte, NEW fill \in 16 .. 240, NEW a \in 0 .. 256
    PROVE  mixed(bg, fill, a) \in Byte
<1>0. bg \in 0 .. 255 /\ fill \in 0 .. 255
  BY DEF Byte
<1>1. CASE a = 256
  BY <1>0, <1>1, MixedWhole DEF Byte
<1>2. CASE a # 256
  <2>1. a \in 0 .. 255
    BY <1>2
  <2>2. mixed(bg, fill, a) \in 0 .. 255
    BY <1>0, <2>1, MixedBytes
  <2> QED BY <2>2 DEF Byte
<1> QED BY <1>1, <1>2

LEMMA FilteredByte ==
    ASSUME NEW m \in Nat, NEW u \in 0 .. m, NEW v \in 0 .. m, NEW w \in 0 .. m
    PROVE  filtered(u, v, w) \in 0 .. m
  BY DEF filtered

ClearKey == [r : Byte, g : Byte, b : Byte, a : 0 .. 256]
ScreenPair == [y0 : Byte, y1 : Byte, cb : Byte, cr : Byte]

LEMMA PairInBytes ==
    ASSUME NEW bg \in ScreenPair, NEW before \in ClearKey, NEW p0 \in ClearKey, NEW p1 \in ClearKey
    PROVE  key_pair(bg, before, p0, p1) \in ScreenPair
<1> DEFINE mean == [c \in {"r", "g", "b", "a"} |-> filtered(before[c], p0[c], p1[c])]
<1>1. /\ before.r \in 0 .. 255 /\ before.g \in 0 .. 255 /\ before.b \in 0 .. 255
      /\ p0.r \in 0 .. 255 /\ p0.g \in 0 .. 255 /\ p0.b \in 0 .. 255
      /\ p1.r \in 0 .. 255 /\ p1.g \in 0 .. 255 /\ p1.b \in 0 .. 255
      /\ before.a \in 0 .. 256 /\ p0.a \in 0 .. 256 /\ p1.a \in 0 .. 256
  BY DEF ClearKey, Byte
<1>2. mean.r \in Byte /\ mean.g \in Byte /\ mean.b \in Byte /\ mean.a \in 0 .. 256
  <2>1. /\ filtered(before.r, p0.r, p1.r) \in 0 .. 255
        /\ filtered(before.g, p0.g, p1.g) \in 0 .. 255
        /\ filtered(before.b, p0.b, p1.b) \in 0 .. 255
        /\ filtered(before.a, p0.a, p1.a) \in 0 .. 256
    BY <1>1, FilteredByte
  <2> QED BY <2>1 DEF Byte
<1>3. /\ luma(p0) \in 16 .. 240 /\ luma(p1) \in 16 .. 240
      /\ chroma_b(mean) \in 16 .. 240 /\ chroma_r(mean) \in 16 .. 240
  BY <1>1, <1>2, ColoursInRange DEF Byte
<1>4. bg.y0 \in Byte /\ bg.y1 \in Byte /\ bg.cb \in Byte /\ bg.cr \in Byte
  BY DEF ScreenPair
<1>5. /\ mixed(bg.y0, luma(p0), p0.a) \in Byte
      /\ mixed(bg.y1, luma(p1), p1.a) \in Byte
      /\ mixed(bg.cb, chroma_b(mean), mean.a) \in Byte
      /\ mixed(bg.cr, chroma_r(mean), mean.a) \in Byte
  BY <1>1, <1>2, <1>3, <1>4, MixedInByte
<1> HIDE DEF mean
<1> DEFINE drawn == [y0 |-> mixed(bg.y0, luma(p0), p0.a),
                     y1 |-> mixed(bg.y1, luma(p1), p1.a),
                     cb |-> mixed(bg.cb, chroma_b(mean), mean.a),
                     cr |-> mixed(bg.cr, chroma_r(mean), mean.a)]
<1>6. drawn \in ScreenPair
  BY <1>5 DEF ScreenPair
<1>7. key_pair(bg, before, p0, p1) = IF p0.a = 0 /\ p1.a = 0 THEN bg ELSE drawn
  BY DEF key_pair, mean
<1> QED BY <1>6, <1>7

Sizes == 0 .. 65535    \* the values of a coord_t

(* A width cut by fixup, and what of it the vector routine leaves over. *)
LiesInBoth(dst, src, dst_at, src_at, n) ==
    LET w == fixup(dst, src, dst_at, src_at, n)
    IN  /\ w <= n /\ src_at + w <= src /\ dst_at + w <= dst
        /\ w \in {n, src - src_at, dst - dst_at}
        /\ aligned(w) <= w /\ w - aligned(w) <= 4

LEMMA SizeBounds == ASSUME NEW n \in Sizes PROVE n \in Nat /\ n < 65536
  BY DEF Sizes

LEMMA CutsToBoth ==
    ASSUME NEW dst \in Sizes, NEW src \in Sizes, NEW n \in Sizes,
           NEW dst_at \in 0 .. dst, NEW src_at \in 0 .. src
    PROVE  LiesInBoth(dst, src, dst_at, src_at, n)
<1>0. dst \in Nat /\ src \in Nat /\ n \in Nat /\ dst < 65536 /\ src < 65536
  BY SizeBounds
<1>1. Coord(src - src_at) = src - src_at /\ Coord(dst - dst_at) = dst - dst_at
  <2>1. /\ src - src_at \in Int /\ 0 <= src - src_at /\ src - src_at < 65536
        /\ dst - dst_at \in Int /\ 0 <= dst - dst_at /\ dst - dst_at < 65536
    BY <1>0
  <2> DEFINE m == 65536
  <2>2. m \in Nat /\ src - src_at < m /\ dst - dst_at < m
    BY <2>1
  <2>3. Coord(src - src_at) = (src - src_at) % m /\ Coord(dst - dst_at) = (dst - dst_at) % m
    BY DEF Coord
  <2> HIDE DEF m
  <2>4. (src - src_at) % m = src - src_at
    BY <2>1, <2>2, Remainder
  <2>5. (dst - dst_at) % m = dst - dst_at
    BY <2>1, <2>2, Remainder
  <2> QED BY <2>3, <2>4, <2>5
<1> DEFINE w == fixup(dst, src, dst_at, src_at, n)
<1>2. /\ w <= n /\ src_at + w <= src /\ dst_at + w <= dst
      /\ w \in {n, src - src_at, dst - dst_at}
  BY <1>0, <1>1 DEF fixup
<1>3. w \in Nat
  BY <1>0, <1>1, <1>2
<1> HIDE DEF w
<1>4. aligned(w) <= w /\ w - aligned(w) <= 4
  BY <1>3 DEF aligned
<1> QED BY <1>2, <1>4 DEF w, LiesInBoth

LEMMA TransparentMovesByOne ==
    ASSUME NEW bg \in Byte, NEW fill \in 16 .. 240
    PROVE  /\ mixed(bg, fill, 1) - bg \in -1 .. 1
           /\ mixed(bg, fill, 1) < bg => fill < bg
<1>1. bg \in 0 .. 255
  BY DEF Byte
<1>2. mixed(bg, fill, 1) = (bg * 254 + fill + 256) \div 256
  BY <1>1 DEF mixed
<1> QED BY <1>1, <1>2

LEMMA TransparentAlpha == ASSUME NEW galpha \in Byte PROVE key_alpha(0, galpha) = 1
<1>1. 0 * galpha = 0
  BY DEF Byte
<1> QED BY <1>1 DEF key_alpha

LEMMA PartsOf255 ==
    ASSUME NEW m \in Nat, m <= 65025
    PROVE  m \div 255 \in 0 .. 255
  OBVIOUS

LEMMA DisplayBytes ==
    ASSUME NEW bg \in Byte, NEW fill \in Byte, NEW a \in Byte, NEW galpha \in Byte
    PROVE  BGRA_key(bg, fill, a, galpha) \in Byte
<1>0. bg \in 0 .. 255 /\ fill \in 0 .. 255 /\ a \in 0 .. 255 /\ galpha \in 0 .. 255
  BY DEF Byte
<1> DEFINE ak == (a * galpha) \div 255
<1>1. ak \in 0 .. 255
  <2> DEFINE m == a * galpha
  <2>1. m \in Nat /\ m <= 255 * 255
    BY <1>0, ProductBound
  <2> HIDE DEF m
  <2>2. m \div 255 \in 0 .. 255
    BY <2>1, PartsOf255
  <2> QED BY <2>2 DEF m
<1>2. BGRA_key(bg, fill, a, galpha) = (fill * ak + bg * (255 - ak)) \div 255
  BY DEF BGRA_key
<1> HIDE DEF ak
<1> DEFINE p == fill * ak
           q == bg * (255 - ak)
<1>3. p \in Nat /\ p <= 255 * ak
  BY <1>0, <1>1, ProductBound
<1>4. q \in Nat /\ q <= 255 * (255 - ak)
  <2>1. 255 - ak \in Nat
    BY <1>1
  <2> QED BY <1>0, <2>1, ProductBound
<1>5. BGRA_key(bg, fill, a, galpha) = (p + q) \div 255
  BY <1>2
<1> HIDE DEF p, q
<1> DEFINE s == p + q
<1>6. s \in Nat /\ s <= 65025 /\ BGRA_key(bg, fill, a, galpha) = s \div 255
  BY <1>1, <1>3, <1>4, <1>5
<1> HIDE DEF s
<1>7. s \div 255 \in 0 .. 255
  BY <1>6, PartsOf255
<1> QED BY <1>6, <1>7 DEF Byte

LEMMA PairsLeaveOddSpace ==
    ASSUME NEW bw \in Nat, NEW x \in Nat, NEW kw \in Nat
    PROVE  KeyedPixels(x, bw, kw) \subseteq 0 .. bw - 1
             <=> ~(x < bw /\ (bw - x) % 2 = 1 /\ kw >= bw - x)
<1> DEFINE J == {j \in 0 .. kw - 1 : j % 2 = 0 /\ x + j < bw}
<1>0. \A n : n \in KeyedPixels(x, bw, kw) <=> \E j \in J : n = x + j \/ n = x + j + 1
  <2>1. KeyedPixels(x, bw, kw) = UNION {{x + j, x + j + 1} : j \in J}
    BY DEF KeyedPixels
  <2> HIDE DEF J
  <2>2. ASSUME NEW n
        PROVE  n \in UNION {{x + j, x + j + 1} : j \in J}
                 <=> \E j \in J : n \in {x + j, x + j + 1}
    OBVIOUS
  <2>3. \A n, j : n \in {x + j, x + j + 1} <=> n = x + j \/ n = x + j + 1
    OBVIOUS
  <2> QED BY <2>1, <2>2, <2>3
<1>1. ASSUME x < bw, (bw - x) % 2 = 1, kw >= bw - x
      PROVE  ~(KeyedPixels(x, bw, kw) \subseteq 0 .. bw - 1)
  <2> DEFINE k == bw - x
             l == k - 1
  <2>0. k \in Nat \ {0} /\ k % 2 = 1 /\ k <= kw /\ x + l + 1 = bw
    BY <1>1
  <2> HIDE DEF k
  <2>1. l % 2 = 0 /\ l \in 0 .. kw - 1 /\ x + l < bw
    BY <2>0
  <2> HIDE DEF l
  <2>2. bw \in KeyedPixels(x, bw, kw)
    BY <1>0, <2>0, <2>1
  <2> QED BY <2>2
<1>2. ASSUME NEW n \in KeyedPixels(x, bw, kw), n \notin 0 .. bw - 1
      PROVE  x < bw /\ (bw - x) % 2 = 1 /\ kw >= bw - x
  <2>1. PICK j \in J : n = x + j \/ n = x + j + 1
    BY <1>0, <1>2
  <2>2. j \in 0 .. kw - 1 /\ j % 2 = 0 /\ x + j < bw
    BY <2>1
  <2>3. x + j + 1 = bw
    BY <1>2, <2>1, <2>2
  <2>4. bw - x = j + 1
    BY <2>2, <2>3
  <2> QED BY <2>2, <2>4
<1> QED BY <1>1, <1>2

(***************************************************************************)
(* Nothing that is drawn leaves its byte, whatever the bytes of the key    *)
(* and of the background (CbYCrY8422_alpha_key.cpp, BGRAn8_alpha_key.cpp), *)
(* although a full alpha is 256 and takes one from the background: no      *)
(* component of a pair of pixels, none of a display's pixel.               *)
(***************************************************************************)
THEOREM DrawingStaysInBytes ==
    /\ \A a, galpha \in Byte : key_alpha(a, galpha) \in 0 .. 256
    /\ \A bg \in ScreenPair, before, p0, p1 \in ClearKey :
          key_pair(bg, before, p0, p1) \in ScreenPair
    /\ \A bg, fill, a, galpha \in Byte : BGRA_key(bg, fill, a, galpha) \in Byte
<1>1. \A a, galpha \in Byte : key_alpha(a, galpha) \in 0 .. 256
  <2>1. \A n : n \in 1 .. 256 => n \in 0 .. 256
    OBVIOUS
  <2> QED BY <2>1, AlphaInRange
<1>2. \A bg \in ScreenPair, before, p0, p1 \in ClearKey :
         key_pair(bg, before, p0, p1) \in ScreenPair
  BY PairInBytes
<1>3. \A bg, fill, a, galpha \in Byte : BGRA_key(bg, fill, a, galpha) \in Byte
  BY DisplayBytes
<1> QED BY <1>1, <1>2, <1>3

(***************************************************************************)
(* What a transparent pixel does: it is drawn, moves the background by one *)
(* at most, and never away from the key's colour.                          *)
(***************************************************************************)
THEOREM TransparentPixelMovesByOne ==
    \A galpha \in Byte, bg \in Byte, fill \in 16 .. 240 :
       LET drawn == mixed(bg, fill, key_alpha(0, galpha))
       IN  drawn - bg \in -1 .. 1 /\ (drawn < bg => fill < bg)
  BY TransparentAlpha, TransparentMovesByOne

(***************************************************************************)
(* The rectangle that is drawn lies in both pictures when its origins do,  *)
(* for all sizes of 16 bits: the width does not wrap.  A line of a key     *)
(* that is drawn in pairs leaves the picture exactly when the space beside *)
(* it is odd and the key is as wide as the space.                          *)
(***************************************************************************)
THEOREM OverlaysAreCut ==
    /\ \A dst, src, n \in Sizes : \A dst_at \in 0 .. dst, src_at \in 0 .. src :
          LiesInBoth(dst, src, dst_at, src_at, n)
    /\ \A bw, x, kw \in Nat :
          KeyedPixels(x, bw, kw) \subseteq 0 .. bw - 1
            <=> ~(x < bw /\ (bw - x) % 2 = 1 /\ kw >= bw - x)
<1>1. \A dst, src, n \in Sizes : \A dst_at \in 0 .. dst, src_at \in 0 .. src :
         LiesInBoth(dst, src, dst_at, src_at, n)
  BY CutsToBoth
<1>2. \A bw, x, kw \in Nat :
         KeyedPixels(x, bw, kw) \subseteq 0 .. bw - 1
           <=> ~(x < bw /\ (bw - x) % 2 = 1 /\ kw >= bw - x)
  BY PairsLeaveOddSpace
<1> QED BY <1>1, <1>2
==============================================================================
