---------------------------- MODULE ReplayControl ----------------------------
(***************************************************************************)
(* The operators of the replay program.  The local one has a ShuttlePRO    *)
(* (input/shuttlepro.rb), whose buttons ReplayLocalControl of              *)
(* replay/replay_server.rb turns into commands; the others use a browser   *)
(* (ReplayBrowser), whose commands the server of replay_server.rb carries  *)
(* out on a thread of its own.  Both put shots on the one preview and roll *)
(* them on the one program (ReplayPreview, ReplayPlayout), with whatever   *)
(* channels of sound were mapped last.                                     *)
(***************************************************************************)
EXTENDS Integers, Sequences, FiniteSets

CONSTANTS NSources,     \* cameras, numbered from 0
          Row,          \* buttons that choose a camera, 4
          DialSize,     \* positions of the jog dial, 256
          MaxEvents     \* bound: events captured

ASSUME ControlAssumption ==
    /\ NSources \in Nat \ {0} /\ Row \in Nat \ {0} /\ DialSize \in Nat \ {0}

VARIABLES alive,        \* FALSE: a null source was used
          shifted, event_list, event_ptr, current_preview_source,
          recorded,     \* cameras with at least one frame
          pvw,          \* the preview's shot, and whether it came by the web
          channel_map,  \* the camera whose sound is mapped
          align_failed, \* align_shot raised after the camera was chosen
          rolled,       \* the program's last shot, with its sound
          queue_sent    \* the last roll_queue: shots asked for, shots rolled

control == <<shifted, event_list, event_ptr, current_preview_source>>
desk == <<pvw, channel_map, align_failed, rolled>>
vars == <<alive, control, recorded, desk, queue_sent>>

Cameras == 0 .. NSources - 1
None == -1

Rest(up) ==
    /\ alive = up
    /\ shifted = FALSE
    /\ event_list = <<>> /\ event_ptr = 0 /\ current_preview_source = 0
    /\ recorded = {}
    /\ pvw = [src |-> None, valid |-> FALSE, web |-> FALSE]
    /\ channel_map = None /\ align_failed = FALSE
    /\ rolled = [src |-> None, map |-> None, trusted |-> FALSE]
    /\ queue_sent = <<0, 0>>

ControlAbsent == Rest(FALSE)
ControlInit == Rest(TRUE)

Record(s) ==
    /\ alive
    /\ recorded' = recorded \cup {s}
    /\ UNCHANGED <<alive, control, desk, queue_sent>>

-----------------------------------------------------------------------------
(* The dials: pure functions of what the device reports. *)

(* The shorter way round from the last position. *)
Rotation(jog, last_jog) ==
    LET cw_rotation == (jog - last_jog) % DialSize
        ccw_rotation == (last_jog - jog) % DialSize
    IN IF cw_rotation < ccw_rotation THEN cw_rotation ELSE -ccw_rotation

ASSUME RotationFollowsDial ==
    \A d \in 0 .. DialSize - 1, turn \in 1 - DialSize .. DialSize - 1 :
       2 * turn < DialSize /\ -2 * turn < DialSize
          => Rotation((d + turn) % DialSize, d) = turn

(* The shuttle has no position 0: -1 and 1 mean it. *)
ShuttleValue(position) == IF position > 0 THEN position - 1 ELSE position + 1

(* The speeds of -6 .. 6, in twenty-fourths. *)
Speeds == <<3, 4, 6, 8, 9, 12, 18, 24, 30, 36, 48, 60, 72>>
on_shuttle(value) == Speeds[value + 7]

ASSUME ShuttleMonotone ==
    \A p, q \in (-7 .. 7) \ {0} :
       p < q => on_shuttle(ShuttleValue(p)) <= on_shuttle(ShuttleValue(q))

-----------------------------------------------------------------------------
(* ReplayLocalControl: poll_events calls on_button_down for one button     *)
(* after the other.  An exception leaves before the shift key is reset,    *)
(* and poll_events goes on.                                                *)

Unshift == shifted' = FALSE
Raises == UNCHANGED shifted

Shot(s, ok, web) == [src |-> s, valid |-> ok, web |-> web]

ShowEvent(ptr) ==
    /\ event_ptr' = ptr
    /\ IF event_list = <<>>
       THEN Raises /\ UNCHANGED pvw
       ELSE /\ Unshift
            /\ pvw' = Shot(current_preview_source,
                           current_preview_source \in event_list[ptr + 1], FALSE)
    /\ UNCHANGED <<alive, event_list, current_preview_source, recorded,
                   channel_map, align_failed, rolled, queue_sent>>

prev_event == alive /\ ShowEvent(IF event_ptr > 0 THEN event_ptr - 1 ELSE 0)

next_event ==
    alive /\ ShowEvent(IF event_ptr + 1 >= Len(event_list)
                       THEN Len(event_list) - 1 ELSE event_ptr + 1)

ShiftButton ==
    /\ alive
    /\ shifted' = TRUE
    /\ UNCHANGED <<alive, event_list, event_ptr, current_preview_source,
                   recorded, desk, queue_sent>>

(* mark_in, then the program takes the preview's shot.  Before anything is *)
(* on the preview its source is null.                                      *)
RollButton ==
    /\ alive
    /\ IF pvw.src = None
       THEN alive' = FALSE /\ UNCHANGED <<pvw, rolled>>
       ELSE /\ \E ok \in BOOLEAN : pvw' = [pvw EXCEPT !.valid = ok]
            /\ rolled' = [src |-> pvw.src, map |-> channel_map,
                          trusted |-> ~pvw.web /\ ~align_failed]
            /\ UNCHANGED alive
    /\ Unshift
    /\ UNCHANGED <<event_list, event_ptr, current_preview_source, recorded,
                   channel_map, align_failed, queue_sent>>

(* align_shot uses the source of the shot on the preview, null or not, and *)
(* raises when that shot does not exist.                                   *)
preview_source(b) ==
    LET source == IF shifted THEN b + Row ELSE b IN
    /\ alive /\ source \in Cameras
    /\ current_preview_source' = source
    /\ IF pvw.src = None
       THEN alive' = FALSE /\ UNCHANGED <<shifted, pvw, channel_map, align_failed>>
       ELSE /\ UNCHANGED alive
            /\ align_failed' = ~pvw.valid
            /\ IF ~pvw.valid
               THEN Raises /\ UNCHANGED <<pvw, channel_map>>
               ELSE /\ Unshift
                    /\ \E ok \in BOOLEAN : pvw' = Shot(source, ok, FALSE)
                    /\ channel_map' = source
    /\ UNCHANGED <<event_list, event_ptr, recorded, rolled, queue_sent>>

(* A new event has a shot of every camera as it is now, and goes to the    *)
(* server (ReplayBrowser's SendEvent).                                     *)
Captured(map) ==
    /\ alive /\ Len(event_list) < MaxEvents
    /\ event_list' = Append(event_list, recorded)
    /\ event_ptr' = Len(event_list)
    /\ pvw' = Shot(current_preview_source, current_preview_source \in recorded, FALSE)
    /\ channel_map' = map
    /\ align_failed' = FALSE
    /\ Unshift
    /\ UNCHANGED <<alive, current_preview_source, recorded, rolled,
                   queue_sent>>

(* Mutant of capture_event: the sound stays what it was. *)
CaptureWithoutMap == Captured(channel_map)

capture_event == Captured(current_preview_source)

-----------------------------------------------------------------------------
(* ReplayServer: commands of any browser, at any moment *)

PreviewShot(s) ==
    /\ alive
    /\ \E ok \in BOOLEAN : pvw' = Shot(s, ok, TRUE)
    /\ UNCHANGED <<alive, control, recorded, channel_map, align_failed, rolled,
                   queue_sent>>

RollShot(s) ==
    /\ alive
    /\ rolled' = [src |-> s, map |-> channel_map, trusted |-> FALSE]
    /\ UNCHANGED <<alive, control, recorded, pvw, channel_map, align_failed,
                   queue_sent>>

(* program.shot = the first; program has no method queue_shot for the rest. *)
RollQueue(n) ==
    /\ alive
    /\ queue_sent' = <<n, IF n > 0 THEN 1 ELSE 0>>
    /\ IF n = 0 THEN UNCHANGED rolled
       ELSE \E s \in Cameras :
              rolled' = [src |-> s, map |-> channel_map, trusted |-> FALSE]
    /\ UNCHANGED <<alive, control, recorded, pvw, channel_map, align_failed>>

ControlNext ==
    \/ \E s \in Cameras : Record(s)
    \/ prev_event
    \/ next_event
    \/ ShiftButton
    \/ RollButton
    \/ \E b \in 0 .. Row - 1 : preview_source(b)
    \/ capture_event
    \/ \E s \in Cameras : PreviewShot(s)
    \/ \E s \in Cameras : RollShot(s)
    \/ \E n \in 0 .. 2 : RollQueue(n)

-----------------------------------------------------------------------------
(***************************************************************************)
(* The local operator hears what he sees: a shot he rolls from the preview *)
(* plays with the sound mapped for its own camera, whatever he chose,      *)
(* captured or paged through before and whatever others rolled meanwhile.  *)
(* It does not hold of a shot another operator put on his preview, nor     *)
(* after a camera was chosen that align_shot refused: then the camera has  *)
(* changed and the sound has not.                                          *)
(***************************************************************************)
SoundGoesWithPicture == rolled.trusted => rolled.map = rolled.src

(***************************************************************************)
(* "Roll the first shot right now, and roll the rest after it's done."     *)
(* (replay_server.rb:331)                                                  *)
(***************************************************************************)
RollQueueRollsAll == queue_sent[2] = queue_sent[1]
==============================================================================
