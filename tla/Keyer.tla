-------------------------------- MODULE Keyer ---------------------------------
(***************************************************************************)
(* The keyer (keyer/): KeyerApp::run takes pictures and sound from one     *)
(* input and, for each output in turn, draws the overlays of the character *)
(* generators (CGs) on the picture and puts a copy into the output's       *)
(* pipes.  The outputs are DeckLink cards (DecklinkOutput).                *)
(*                                                                         *)
(* Every CG has a thread that fills a pipe of its own with overlays:       *)
(*   "plain"       the base class: NULL overlays only                      *)
(*   "js"          a script drawn by V8, sent by js_keyer_server.rb        *)
(*   "subprocess"  pictures asked of a child process, http_keyer.rb, which *)
(*                 fades them in and out and chooses their dirty level     *)
(* ("shm" CGs are ShmDoubleBuffer).  A thread that throws takes the whole  *)
(* process with it: Thread::thread_proc catches nothing.                   *)
(***************************************************************************)
EXTENDS DecklinkOutput, Sequences

CONSTANTS Programs,   \* what a configuration script may set up
          Frames,     \* lengths of a dissolve the operator may ask for
          Levels      \* dirty levels he may choose

ASSUME KeyerAssumption ==
    /\ \A p \in Programs : p.cgs \in Seq(STRING) /\ p.outputs \in Nat \ {0}
                           /\ p.audio \in BOOLEAN
    /\ Frames \subseteq Nat /\ Levels \subseteq Nat

VARIABLES cgs,        \* the kinds of the CGs, in the order keyer.cg was called
          run,        \* where KeyerApp::run is: which output, which CG
          flags,      \* CGs already drawn on this picture
          cg_pipe,    \* what waits in each CG's pipe
          cg_thread,  \* where each CG's thread is and what it holds
          level,      \* _dirty_level of each CG
          cached,     \* "subprocess": is there a cache_frame; "js": a script
          server,     \* http_keyer.rb
          message,    \* what js_keyer_server.rb sent and nobody read
          keyed       \* the overlay drawn last

keyer == <<run, flags, keyed>>
generators == <<cg_pipe, cg_thread, level, cached, server, message>>
vars == <<alive, output, cgs, keyer, generators>>

CGs == 1 .. Len(cgs)
TwoOverlaysFit == 3                     \* mutant of the next
CG_PIPE_SLOTS == 2                      \* _output_pipe(2): one overlay fits
\* An overlay, its dirty level and that of the overlay before it.
Overlay(alpha, l, before) == [shown |-> alpha > 0, level |-> l, before |-> before]
NoOverlay == Overlay(0, 0, 0)           \* NULL
Thread(at, o) == [at |-> at, overlay |-> o]
At(where, o, i) == [at |-> where, out |-> o, cg |-> i, level |-> 0]
NothingKeyed == [out |-> 0, tested |-> 0, own |-> 0, before |-> 0, next |-> 0]

Init ==
    /\ \E p \in Programs : /\ cgs = p.cgs
                            /\ setup = [outputs |-> p.outputs, audio |-> p.audio]
    /\ OutputInit
    /\ run = At("video", 0, 1)
    /\ flags = {}
    /\ cg_pipe = [i \in CGs |-> <<>>]
    /\ cg_thread = [i \in CGs |-> Thread("ask", NoOverlay)]
    /\ level = [i \in CGs |-> 0]
    /\ cached = [i \in CGs |-> FALSE]
    /\ server = [state |-> "DOWN", i |-> 0, n |-> 0, level |-> 0, data |-> FALSE]
    /\ message = "none"
    /\ keyed = NothingKeyed

-----------------------------------------------------------------------------
(* KeyerApp::run                                                           *)

Constructed == \A o \in Outputs : Running(o)

\* The input's picture and its sound, taken one after the other.
GetPicture ==
    /\ run.at = "video" /\ Constructed
    /\ run' = At("level", 0, 1)
    /\ flags' = {}
    /\ UNCHANGED <<output, keyed, generators>>

\* dirty_level(): only the child of a "subprocess" CG chooses one.
DirtyLevel(i) == IF cgs[i] = "subprocess" THEN level[i] ELSE 0

NextCG == At("level", run.out, run.cg + 1)

Skips(i) == DirtyLevel(i) > run.out \/ i \in flags

TestLevelOr(next) ==
    /\ run.at = "level" /\ run.cg \in CGs
    /\ run' = IF Skips(run.cg)
              THEN next
              ELSE [run EXCEPT !.at = "take", !.level = DirtyLevel(run.cg)]
    /\ keyed' = NothingKeyed
    /\ UNCHANGED <<output, flags, generators>>

TestLevelAgain == TestLevelOr(run)  \* mutant: waits for the level to fall
TestLevel == TestLevelOr(NextCG)

\* An empty pipe leaves the picture without this CG; a later output of the
\* same picture tries again.
TakeOverlay ==
    /\ run.at = "take"
    /\ run' = NextCG
    /\ IF cg_pipe[run.cg] = <<>>
       THEN UNCHANGED <<flags, keyed, cg_pipe>>
       ELSE LET overlay == Head(cg_pipe[run.cg]) IN
            /\ cg_pipe' = [cg_pipe EXCEPT ![run.cg] = Tail(@)]
            /\ flags' = flags \union {run.cg}
            /\ keyed' = IF overlay.shown
                        THEN [out |-> run.out, tested |-> run.level,
                              own |-> overlay.level, before |-> overlay.before,
                              next |-> DirtyLevel(run.cg)]
                        ELSE keyed
    /\ UNCHANGED <<output, cg_thread, level, cached, server, message>>

NextOutput ==
    IF run.out + 1 \in Outputs THEN At("level", run.out + 1, 1) ELSE At("video", 0, 1)

PutVideo ==
    LET o == run.out IN
    /\ run.at = "level" /\ run.cg \notin CGs
    /\ in_pipe[o] < Slots
    /\ in_pipe' = [in_pipe EXCEPT ![o] = @ + 1]
    /\ run' = IF enable_audio THEN [run EXCEPT !.at = "sound"] ELSE NextOutput
    /\ keyed' = NothingKeyed
    /\ UNCHANGED <<setup, phase, picture_cb, sound_side,
                   audio_adjust, flags, generators>>

PutAudio ==
    LET o == run.out IN
    /\ run.at = "sound"
    /\ audio_in_pipe[o] < Slots
    /\ audio_in_pipe' = [audio_in_pipe EXCEPT ![o] = @ + 1]
    /\ run' = NextOutput
    /\ UNCHANGED <<setup, phase, picture_side, sound_cb, audio_fifo,
                   audio_adjust, flags, keyed, generators>>

Run == GetPicture \/ TestLevel \/ TakeOverlay \/ PutVideo \/ PutAudio

-----------------------------------------------------------------------------
(* The CGs' threads                                                        *)

AsksAs(kind, i) == cgs[i] = kind /\ cg_thread[i].at = "ask"
Hold(i, o) == cg_thread' = [cg_thread EXCEPT ![i] = Thread("put", o)]

PlainOverlay(i) ==
    /\ AsksAs("plain", i)
    /\ Hold(i, NoOverlay)
    /\ UNCHANGED <<alive, cg_pipe, level, cached, server, message>>

\* poll, handle_input if there is any, render_frame.  A script that does not
\* compile throws.
Compiles == message # "bad script"

\* Pictures of assets that failed to load are left out; a script that throws
\* while it draws leaves what it has drawn.
RenderFrame(i) == IF cached'[i] THEN Overlay(255, 0, 0) ELSE NoOverlay

JsOverlay(i) ==
    /\ AsksAs("js", i)
    /\ message' = "none"
    /\ alive' = Compiles
    /\ cached' = [cached EXCEPT ![i] = @ \/ message = "script"]
    /\ Hold(i, RenderFrame(i))
    /\ UNCHANGED <<cg_pipe, level, server>>

\* http_keyer.rb's IO thread answers a request with the key, if a new one was
\* posted, the alpha and the level, and steps the dissolve.  The CG's thread
\* reads the header, which sets _dirty_level, renders a new key, which may fail,
\* and keeps what it rendered last.
Alpha ==
    CASE server.state = "UP"   -> 255
      [] server.state = "DOWN" -> 0
      [] server.state = "IN"   -> (255 * server.i) \div server.n
      [] server.state = "OUT"  -> (255 * (server.n - server.i)) \div server.n

Dissolving == server.state \in {"IN", "OUT"}

\* At rest trans_i and trans_nframes are of no use until the next dissolve.
AtRest(s) == [server EXCEPT !.state = s, !.i = 0, !.n = 0]

SteppedBy(k) ==
    IF ~Dissolving THEN server
    ELSE IF server.i + k >= server.n
         THEN AtRest([IN |-> "UP", OUT |-> "DOWN"][server.state])
         ELSE [server EXCEPT !.i = @ + k]

SteppedInPlace == SteppedBy(0)  \* mutant: $trans_i is not advanced
Stepped == SteppedBy(1)

AnswerAndRead(i) ==
    /\ AsksAs("subprocess", i)
    /\ Dissolving => server.n > 0
    /\ server' = [Stepped EXCEPT !.data = FALSE]
    /\ level' = [level EXCEPT ![i] = server.level]
    /\ \/ server.data /\ \E rendered \in BOOLEAN : cached' = [cached EXCEPT ![i] = rendered]
       \/ ~server.data /\ UNCHANGED cached
    /\ Hold(i, IF cached'[i] THEN Overlay(Alpha, server.level, level[i]) ELSE NoOverlay)
    /\ UNCHANGED <<alive, cg_pipe, message>>

\* A dissolve over 0 frames divides by zero; the child exits, the CG's thread
\* reads the end of file and throws.
ServerExits(i) ==
    /\ AsksAs("subprocess", i)
    /\ Dissolving /\ server.n = 0
    /\ alive' = FALSE
    /\ UNCHANGED generators

PutOverlay(i) ==
    /\ cg_thread[i].at = "put"
    /\ Len(cg_pipe[i]) < CG_PIPE_SLOTS - 1
    /\ cg_pipe' = [cg_pipe EXCEPT ![i] = Append(@, cg_thread[i].overlay)]
    /\ cg_thread' = [cg_thread EXCEPT ![i] = Thread("ask", NoOverlay)]
    /\ UNCHANGED <<alive, level, cached, server, message>>

Generate(i) ==
    \/ PlainOverlay(i)
    \/ JsOverlay(i)
    \/ AnswerAndRead(i)
    \/ ServerExits(i)
    \/ PutOverlay(i)

-----------------------------------------------------------------------------
(* The operator, over http                                                 *)

PostKey ==
    /\ server' = [server EXCEPT !.data = TRUE]
    /\ UNCHANGED message

Dissolve(from, to) ==
    /\ server.state = from
    /\ \E n \in Frames : server' = [server EXCEPT !.state = to, !.i = 0, !.n = n]
    /\ UNCHANGED message

CutIn ==
    /\ server' = AtRest("UP")
    /\ UNCHANGED message

SetDirtyLevel ==
    /\ \E l \in Levels : server' = [server EXCEPT !.level = l]
    /\ UNCHANGED message

\* PUT /script and /command.
PutScript ==
    /\ message = "none"
    /\ message' \in {"script", "bad script", "command"}
    /\ UNCHANGED server

HasCG(kind) == \E i \in CGs : cgs[i] = kind

Operator ==
    \/ /\ HasCG("subprocess")
       /\ \/ PostKey
          \/ Dissolve("DOWN", "IN")
          \/ Dissolve("UP", "OUT")
          \/ CutIn
          \/ SetDirtyLevel
    \/ /\ HasCG("js")
       /\ PutScript

-----------------------------------------------------------------------------
Card(o) ==
    /\ \/ Constructor(o)
       \/ UNCHANGED alive /\ (PrerollVideo(o) \/ PictureCallback(o) \/ SoundCallback(o))
    /\ UNCHANGED <<keyer, generators>>

Next ==
    /\ alive
    /\ UNCHANGED cgs
    /\ \/ Run /\ UNCHANGED alive
       \/ \E i \in CGs : Generate(i) /\ UNCHANGED <<output, keyer>>
       \/ Operator /\ UNCHANGED <<output, alive, keyer, cg_pipe, cg_thread, level, cached>>
       \/ \E o \in Outputs : Card(o)

\* Every thread of the process and of the driver is scheduled, the input goes
\* on and so do the cards; the operator need not do anything.
Alive(A) == alive /\ A /\ UNCHANGED cgs

Callback(o, A) ==
    o \in Outputs /\ Alive(A /\ UNCHANGED <<keyer, generators>>)

Fairness ==
    /\ WF_vars(Alive(Run /\ UNCHANGED alive))
    /\ \A o \in UNION {0 .. p.outputs - 1 : p \in Programs} :
          /\ WF_vars(Callback(o, Constructor(o)))
          /\ WF_vars(Callback(o, PrerollVideo(o) /\ UNCHANGED alive))
          /\ WF_vars(Callback(o, PictureCallback(o) /\ UNCHANGED alive))
          /\ WF_vars(Callback(o, SoundCallback(o) /\ UNCHANGED alive))
    /\ \A i \in UNION {DOMAIN p.cgs : p \in Programs} :
          WF_vars(i \in CGs /\ Alive(Generate(i) /\ UNCHANGED <<output, keyer>>))

Spec == Init /\ [][Next]_vars /\ Fairness

-----------------------------------------------------------------------------
(* Properties                                                              *)

\* Types; in particular audio_adjust, unsigned, is never decremented below
\* zero although two threads read it and write it back without a lock.
TypeOK ==
    /\ OutputTypeOK
    /\ run.at \in {"video", "level", "take", "sound"}
    /\ run.out \in Outputs /\ run.cg \in 1 .. Len(cgs) + 1
    /\ flags \subseteq CGs
    /\ \A i \in CGs : /\ Len(cg_pipe[i]) < CG_PIPE_SLOTS
                      /\ cg_thread[i].at \in {"ask", "put"}
                      /\ level[i] \in Levels \union {0}
    /\ server.state \in {"UP", "DOWN", "IN", "OUT"}

\* The keyer asks for the level of a CG before it takes its overlay, and the
\* level is that of the header read last, not that of the overlay in the pipe.
\* The two are never further apart than one overlay: the level that let an
\* overlay be drawn on an output is its own, or that of the one before or after.
KeyedWithinOneOverlay == keyed.tested \in {keyed.before, keyed.own, keyed.next}

\* keyer/README.md: only overlays of an output's dirty level, or lower, are in
\* the frame when it is sent to that output.  An overlay may slip through.
KeyedByOwnLevel == keyed.own <= keyed.out

\* A picture that was taken goes out on every output, whatever the CGs, their
\* children and the operator do, unless the process dies of an exception.
KeyerGoesOn == (run.at # "video") ~> (run.at = "video" \/ ~alive)

\* A dissolve comes to its end: the keyer never stops taking overlays of a CG
\* whose level some output reaches.
DissolveEnds == Dissolving ~> (~Dissolving \/ ~alive)
==============================================================================
