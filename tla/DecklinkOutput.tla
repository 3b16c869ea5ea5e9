---------------------------- MODULE DecklinkOutput ----------------------------
(***************************************************************************)
(* DeckLinkOutputAdapter of drivers/decklink.cpp: the playing side of the  *)
(* cards.  An application puts pictures and packets of sound into two      *)
(* pipes; two threads of the driver call back, one when a picture was      *)
(* displayed (schedule_frame) and one when the card wants sound            *)
(* (RenderAudioSamples).  They share audio_adjust, the number of packets   *)
(* of silence still to be inserted, which each reads, changes and writes   *)
(* back without a lock.                                                    *)
(*                                                                         *)
(* Pictures and packets are counted, not named: Pipe.tla shows that a pipe *)
(* keeps them in order.  A packet is the sound of one picture.             *)
(***************************************************************************)
EXTENDS Integers

CONSTANTS OUT_PIPE_SIZE,  \* slots of both pipes
          PREROLL,        \* pictures, and packets of silence, prerolled (5)
          MaxAdjust       \* bound: the card repeats pictures no further

ASSUME OutputAssumption ==
    /\ OUT_PIPE_SIZE \in Nat \ {0, 1}
    /\ PREROLL \in Nat /\ MaxAdjust \in Nat /\ PREROLL <= MaxAdjust

VARIABLES alive,         \* the process that owns the outputs
          setup,         \* how many outputs, and whether with sound
          phase,         \* where the constructor of each output is
          in_pipe,       \* pictures waiting for each output
          audio_in_pipe, \* packets waiting
          audio_adjust,  \* packets of silence owed to the card
          picture_cb,    \* what schedule_frame read of audio_adjust, or Idle
          sound_cb,      \* where RenderAudioSamples is
          audio_fifo     \* packets not yet taken by the card

Outputs == 0 .. setup.outputs - 1
enable_audio == setup.audio
Idle == -1                      \* this callback has read nothing
Slots == OUT_PIPE_SIZE - 1

\* RenderAudioSamples between two calls, and in its loop having read r.  The
\* loop takes microseconds and pictures come every 33 ms: at most one picture
\* is completed during it, after which it is "overlapped".
Waiting == [at |-> "idle", read |-> Idle]
Testing(at) == [at |-> at, read |-> Idle]
Leftover == 0 .. 1              \* bound: what the card may leave in the fifo

output == <<setup, phase, in_pipe, audio_in_pipe, audio_adjust,
            picture_cb, sound_cb, audio_fifo>>
picture_side == <<in_pipe, picture_cb>>
sound_side == <<audio_in_pipe, sound_cb, audio_fifo>>

OutputInit ==
    /\ alive = TRUE
    /\ phase = [o \in Outputs |-> "closed"]
    /\ in_pipe = [o \in Outputs |-> 0]
    /\ audio_in_pipe = [o \in Outputs |-> 0]
    /\ audio_adjust = [o \in Outputs |-> 0]
    /\ picture_cb = [o \in Outputs |-> Idle]
    /\ sound_cb = [o \in Outputs |-> Waiting]
    /\ audio_fifo = [o \in Outputs |-> 0]

Running(o) == phase[o] = "running"

-----------------------------------------------------------------------------
(* The constructor.  Every call of the driver may fail, which throws; no   *)
(* script or program catches it.  The outputs are made one after the other.*)

Construct(o, from, to) ==
    /\ phase[o] = from
    /\ \A p \in Outputs : p < o => Running(p)
    /\ \/ phase' = [phase EXCEPT ![o] = to] /\ UNCHANGED alive
       \/ alive' = FALSE /\ UNCHANGED phase
    /\ UNCHANGED <<setup, picture_side, sound_side, audio_adjust>>

ConvertPF(o) == Construct(o, "closed", "format")
FindCard(o) == Construct(o, "format", "found")
ConfigureCard(o) == Construct(o, "found", "configured")
OpenCard(o) == Construct(o, "configured", "open")

\* Nothing is in the pipe and there is no last picture: each prerolled
\* picture is black ("on fire") and counted as one packet of silence owed.
PrerollVideo(o) ==
    /\ phase[o] = "open"
    /\ audio_adjust' = [audio_adjust EXCEPT ![o] = @ + PREROLL]
    /\ IF enable_audio
       THEN /\ phase' = [phase EXCEPT ![o] = "preroll"]
            /\ audio_fifo' = [audio_fifo EXCEPT ![o] = PREROLL]
       ELSE /\ phase' = [phase EXCEPT ![o] = "running"]
            /\ UNCHANGED audio_fifo
    /\ UNCHANGED <<setup, picture_side, audio_in_pipe, sound_cb>>

\* RenderAudioSamples(true): the card takes what it wants of the silence; the
\* constructor, which spins on audio_preroll_done, goes on once it has all.
AudioPreroll(o) ==
    /\ phase[o] = "preroll"
    /\ IF audio_fifo[o] > 0
       THEN /\ \E n \in 1 .. audio_fifo[o] :
                  audio_fifo' = [audio_fifo EXCEPT ![o] = @ - n]
            /\ UNCHANGED phase
       ELSE /\ phase' = [phase EXCEPT ![o] = "running"]
            /\ UNCHANGED audio_fifo
    /\ UNCHANGED <<setup, picture_side, audio_in_pipe, sound_cb, audio_adjust>>

-----------------------------------------------------------------------------
(* schedule_frame, called when the card has displayed a picture.           *)

PictureDone(o) ==
    /\ Running(o) /\ picture_cb[o] = Idle
    /\ sound_cb[o].at # "overlapped"
    /\ sound_cb' = IF sound_cb[o].at = "loop"
                   THEN [sound_cb EXCEPT ![o].at = "overlapped"]
                   ELSE sound_cb

ScheduleFresh(o) ==
    /\ PictureDone(o)
    /\ in_pipe[o] > 0
    /\ in_pipe' = [in_pipe EXCEPT ![o] = @ - 1]
    /\ UNCHANGED <<setup, phase, picture_cb, audio_in_pipe, audio_fifo, audio_adjust>>

\* No picture is waiting: the last one again, or black if there was none; in
\* both cases audio_adjust += 1, here its read.  (Without sound nobody reads
\* audio_adjust, and repeating a picture changes nothing.)
ScheduleStale(o) ==
    /\ PictureDone(o)
    /\ in_pipe[o] = 0 /\ enable_audio
    /\ audio_adjust[o] < MaxAdjust
    /\ picture_cb' = [picture_cb EXCEPT ![o] = audio_adjust[o]]
    /\ UNCHANGED <<setup, phase, in_pipe, audio_in_pipe, audio_fifo, audio_adjust>>

\* ... and its write.
ScheduleStaleEnd(o) ==
    /\ picture_cb[o] # Idle
    /\ audio_adjust' = [audio_adjust EXCEPT ![o] = picture_cb[o] + 1]
    /\ picture_cb' = [picture_cb EXCEPT ![o] = Idle]
    /\ UNCHANGED <<setup, phase, in_pipe, sound_side>>

-----------------------------------------------------------------------------
(* RenderAudioSamples(false), called when the card wants sound.            *)

Render(o) ==
    /\ Running(o) /\ enable_audio
    /\ sound_cb[o] = Waiting
    /\ audio_in_pipe[o] > 0 \/ audio_fifo[o] > 0
    /\ sound_cb' = [sound_cb EXCEPT ![o] = Testing("loop")]
    /\ UNCHANGED <<setup, phase, picture_side, audio_in_pipe, audio_fifo, audio_adjust>>

InLoop(o) ==
    /\ sound_cb[o] \in {Testing("loop"), Testing("overlapped")}
    /\ audio_in_pipe[o] > 0

OwesSilenceAlways(o) == TRUE  \* mutant: decrements without a look
OwesSilence(o) == audio_adjust[o] > 0

\* A packet of silence; audio_adjust--, here its read.
InsertSilence(o) ==
    /\ InLoop(o)
    /\ OwesSilence(o)
    /\ sound_cb' = [sound_cb EXCEPT ![o].read = audio_adjust[o]]
    /\ UNCHANGED <<setup, phase, picture_side, audio_in_pipe, audio_fifo, audio_adjust>>

\* ... and its write, then the packet goes to the fifo.
InsertSilenceEnd(o) ==
    /\ sound_cb[o].read # Idle
    /\ audio_adjust' = [audio_adjust EXCEPT ![o] = sound_cb[o].read - 1]
    /\ sound_cb' = [sound_cb EXCEPT ![o].read = Idle]
    /\ audio_fifo' = [audio_fifo EXCEPT ![o] = @ + 1]
    /\ UNCHANGED <<setup, phase, picture_side, audio_in_pipe>>

TakeSound(o) ==
    /\ InLoop(o)
    /\ ~OwesSilence(o)
    /\ audio_in_pipe' = [audio_in_pipe EXCEPT ![o] = @ - 1]
    /\ audio_fifo' = [audio_fifo EXCEPT ![o] = @ + 1]
    /\ UNCHANGED <<setup, phase, picture_side, sound_cb, audio_adjust>>

\* No more sound is ready: the card takes what it wants of the fifo.
ScheduleSound(o) ==
    /\ sound_cb[o] \in {Testing("loop"), Testing("overlapped")}
    /\ audio_in_pipe[o] = 0
    /\ \E n \in Leftover :
          /\ n <= audio_fifo[o]
          /\ audio_fifo' = [audio_fifo EXCEPT ![o] = n]
    /\ sound_cb' = [sound_cb EXCEPT ![o] = Waiting]
    /\ UNCHANGED <<setup, phase, picture_side, audio_in_pipe, audio_adjust>>

-----------------------------------------------------------------------------
Constructor(o) == ConvertPF(o) \/ FindCard(o) \/ ConfigureCard(o) \/ OpenCard(o)

PictureCallback(o) == ScheduleFresh(o) \/ ScheduleStale(o) \/ ScheduleStaleEnd(o)

SoundCallback(o) ==
    \/ AudioPreroll(o)
    \/ Render(o)
    \/ InsertSilence(o)
    \/ InsertSilenceEnd(o)
    \/ TakeSound(o)
    \/ ScheduleSound(o)

OutputTypeOK ==
    /\ alive \in BOOLEAN
    /\ phase \in [Outputs -> {"closed", "format", "found", "configured", "open",
                             "preroll", "running"}]
    /\ in_pipe \in [Outputs -> 0 .. Slots]
    /\ audio_in_pipe \in [Outputs -> 0 .. Slots]
    /\ audio_adjust \in [Outputs -> Nat]
    /\ picture_cb \in [Outputs -> Nat \union {Idle}]
    /\ \A o \in Outputs : /\ sound_cb[o].at \in {"idle", "loop", "overlapped"}
                          /\ sound_cb[o].read \in Nat \union {Idle}
                          /\ sound_cb[o].at = "idle" => sound_cb[o].read = Idle
    /\ audio_fifo \in [Outputs -> Nat]
==============================================================================
