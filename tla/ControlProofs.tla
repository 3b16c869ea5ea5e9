---------------------------- MODULE ControlProofs ----------------------------
(***************************************************************************)
(* Four things an operator relies on, for every number of cameras, buttons *)
(* and events and for shots and files of every make: the sound that goes   *)
(* out with the shot he rolls is of its camera, a file's sound keeps the   *)
(* pictures' pace, a subprocess is never stuck with the stream that is not *)
(* awaited, and a shot is played exactly at whatever speeds he turns the   *)
(* shuttle to.                                                             *)
(*                                                                         *)
(* The first rests on what the three copies of a camera's number have to   *)
(* do with one another: the one the preview shows, the one he chose last   *)
(* and the one whose sound is mapped (SoundMapped).  The second rests on   *)
(* the allocator's counter: it always tells how far the samples are off    *)
(* (SoundPace), even between the steps of one frame.  The third rests on   *)
(* the count of what is held of each stream (SourceHeld).  The fourth      *)
(* rests on the arithmetic of the rationals, and that on the gcd: it is    *)
(* defined by recursion, so that it does what it says is proved by the     *)
(* least pair for which it would not.  And a turn of the jog dial is taken *)
(* for what it was.                                                        *)
(***************************************************************************)
EXTENDS MCControl, TLAPS, WellFoundedInduction, SequenceTheorems

-----------------------------------------------------------------------------
(* The local operator *)

ControlType ==
    /\ pvw \in [src : Int, valid : BOOLEAN, web : BOOLEAN]
    /\ align_failed \in BOOLEAN
    /\ current_preview_source \in Cameras

(* Unless align_shot refused the last camera chosen, the sound mapped is   *)
(* the camera's on the preview, and the one of the next event shown.       *)
SoundMapped ==
    /\ event_list # <<>> => pvw.src # None
    /\ event_list # <<>> /\ ~align_failed => channel_map = current_preview_source
    /\ pvw.src # None /\ ~pvw.web /\ ~align_failed => channel_map = pvw.src

ControlInv == ControlType /\ SoundMapped /\ SoundGoesWithPicture

LEMMA CamerasNotNone == \A c \in Cameras : c \in Int /\ c # None
BY ControlAssumption DEF Cameras, None

LEMMA ControlStarts == MCInit => ControlInv
<1> SUFFICES ASSUME MCInit PROVE ControlInv
  OBVIOUS
<1>0. ControlInit \/ ControlAbsent
  BY DEF MCInit
<1>1. /\ event_list = <<>> /\ current_preview_source = 0 /\ align_failed = FALSE
      /\ pvw = [src |-> None, valid |-> FALSE, web |-> FALSE]
      /\ rolled = [src |-> None, map |-> None, trusted |-> FALSE]
  BY <1>0 DEF ControlInit, ControlAbsent, Rest
<1>2. ControlType
  <2>1. None \in Int /\ 0 \in Cameras
    BY ControlAssumption DEF None, Cameras
  <2>2. pvw \in [src : Int, valid : BOOLEAN, web : BOOLEAN]
    BY <1>1, <2>1
  <2> QED BY <1>1, <2>1, <2>2 DEF ControlType
<1> QED BY <1>1, <1>2 DEF ControlInv, SoundMapped, SoundGoesWithPicture

(* Paging shows the chosen camera's shot of another event. *)
LEMMA EventShown ==
    ASSUME ControlInv, NEW ptr, ShowEvent(ptr)
    PROVE  ControlInv'
<1>1. UNCHANGED <<event_list, current_preview_source, channel_map, align_failed, rolled>>
  BY DEF ShowEvent
<1>2. CASE event_list = <<>>
  BY <1>1, <1>2 DEF ShowEvent, ControlInv, ControlType, SoundMapped, SoundGoesWithPicture
<1>3. CASE event_list # <<>>
  <2> DEFINE ok == current_preview_source \in event_list[ptr + 1]
  <2>1. pvw' = [src |-> current_preview_source, valid |-> ok, web |-> FALSE]
    BY <1>3 DEF ShowEvent, Shot
  <2>2. ok \in BOOLEAN
    OBVIOUS
  <2> HIDE DEF ok
  <2>3. current_preview_source \in Int /\ current_preview_source # None
    BY CamerasNotNone DEF ControlInv, ControlType
  <2>4. ControlType'
    BY <1>1, <2>1, <2>2, <2>3 DEF ControlInv, ControlType
  <2> QED BY <1>1, <1>3, <2>1, <2>3, <2>4 DEF ControlInv, SoundMapped, SoundGoesWithPicture
<1> QED BY <1>2, <1>3

(* The program takes the preview's shot with the sound mapped. *)
LEMMA ShotRolled ==
    ASSUME ControlInv, RollButton
    PROVE  ControlInv'
<1>1. UNCHANGED <<event_list, current_preview_source, channel_map, align_failed>>
  BY DEF RollButton
<1>2. CASE pvw.src = None
  BY <1>1, <1>2 DEF RollButton, ControlInv, ControlType, SoundMapped, SoundGoesWithPicture
<1>3. ASSUME pvw.src # None, NEW ok \in BOOLEAN, pvw' = [pvw EXCEPT !.valid = ok]
      PROVE  ControlInv'
  <2>1. rolled' = [src |-> pvw.src, map |-> channel_map,
                   trusted |-> ~pvw.web /\ ~align_failed]
    BY <1>3 DEF RollButton
  <2>2. pvw'.src = pvw.src /\ pvw'.web = pvw.web
        /\ pvw' \in [src : Int, valid : BOOLEAN, web : BOOLEAN]
    BY <1>3 DEF ControlInv, ControlType
  <2>3. rolled'.trusted => rolled'.map = rolled'.src
    BY <1>3, <2>1 DEF ControlInv, SoundMapped
  <2> QED BY <1>1, <2>2, <2>3 DEF ControlInv, ControlType, SoundMapped, SoundGoesWithPicture
<1> QED BY <1>2, <1>3 DEF RollButton

(* Another camera: its sound too, unless align_shot raises before. *)
LEMMA CameraChosen ==
    ASSUME ControlInv, NEW b, preview_source(b)
    PROVE  ControlInv'
<1> DEFINE chosen == IF shifted THEN b + Row ELSE b
<1>1. /\ chosen \in Cameras /\ current_preview_source' = chosen
      /\ UNCHANGED <<event_list, rolled>>
  BY DEF preview_source
<1>2. CASE pvw.src = None
  <2>1. UNCHANGED <<pvw, channel_map, align_failed>>
    BY <1>2 DEF preview_source
  <2> HIDE DEF chosen
  <2> QED BY <1>1, <1>2, <2>1 DEF ControlInv, ControlType, SoundMapped, SoundGoesWithPicture
<1>3. CASE pvw.src # None /\ ~pvw.valid
  <2>1. align_failed' = TRUE /\ UNCHANGED <<pvw, channel_map>>
    BY <1>3 DEF preview_source
  <2> HIDE DEF chosen
  <2> QED BY <1>1, <1>3, <2>1 DEF ControlInv, ControlType, SoundMapped, SoundGoesWithPicture
<1>4. CASE pvw.src # None /\ pvw.valid
  <2>1. /\ align_failed' = FALSE /\ channel_map' = chosen
        /\ \E ok \in BOOLEAN : pvw' = [src |-> chosen, valid |-> ok, web |-> FALSE]
    BY <1>4 DEF preview_source, Shot
  <2> HIDE DEF chosen
  <2>2. chosen \in Int /\ chosen # None
    BY <1>1, CamerasNotNone
  <2>3. PICK ok \in BOOLEAN : pvw' = [src |-> chosen, valid |-> ok, web |-> FALSE]
    BY <2>1
  <2>4. ControlType'
    BY <1>1, <2>1, <2>2, <2>3 DEF ControlType
  <2> QED BY <1>1, <2>1, <2>2, <2>3, <2>4 DEF ControlInv, SoundMapped, SoundGoesWithPicture
<1> QED BY <1>2, <1>3, <1>4

(* A new event is shown with the chosen camera's sound. *)
LEMMA EventCaptured ==
    ASSUME ControlInv, capture_event
    PROVE  ControlInv'
<1> DEFINE ok == current_preview_source \in recorded
<1>1. /\ pvw' = [src |-> current_preview_source, valid |-> ok, web |-> FALSE]
      /\ channel_map' = current_preview_source /\ align_failed' = FALSE
      /\ UNCHANGED <<current_preview_source, rolled>>
  BY DEF capture_event, Captured, Shot
<1>2. ok \in BOOLEAN
  OBVIOUS
<1> HIDE DEF ok
<1>3. current_preview_source \in Int /\ current_preview_source # None
  BY CamerasNotNone DEF ControlInv, ControlType
<1> QED BY <1>1, <1>2, <1>3 DEF ControlInv, ControlType, SoundMapped, SoundGoesWithPicture

(* What others put on the preview is not the local operator's, nor is what *)
(* they roll.                                                              *)
LEMMA OthersPreview ==
    ASSUME ControlInv, NEW s \in Cameras, PreviewShot(s)
    PROVE  ControlInv'
<1>1. UNCHANGED <<event_list, current_preview_source, channel_map, align_failed, rolled>>
  BY DEF PreviewShot, control
<1>2. PICK ok \in BOOLEAN : pvw' = [src |-> s, valid |-> ok, web |-> TRUE]
  BY DEF PreviewShot, Shot
<1>3. s \in Int /\ s # None
  BY CamerasNotNone
<1> QED BY <1>1, <1>2, <1>3 DEF ControlInv, ControlType, SoundMapped, SoundGoesWithPicture

LEMMA OthersRoll ==
    ASSUME ControlInv,
           UNCHANGED <<pvw, event_list, current_preview_source, channel_map, align_failed>>,
           rolled' = rolled \/ ~rolled'.trusted
    PROVE  ControlInv'
BY DEF ControlInv, ControlType, SoundMapped, SoundGoesWithPicture

LEMMA ControlStep == ControlInv /\ [MCNext]_allVars => ControlInv'
<1> SUFFICES ASSUME ControlInv, [MCNext]_allVars PROVE ControlInv'
  OBVIOUS
<1>1. UNCHANGED vars \/ ControlNext
  BY DEF MCNext, allVars
<1>2. CASE UNCHANGED vars
  BY <1>2, OthersRoll DEF vars, control, desk
<1>3. ASSUME NEW s, Record(s) PROVE ControlInv'
  BY <1>3, OthersRoll DEF Record, control, desk
<1>4. CASE prev_event \/ next_event
  BY <1>4, EventShown DEF prev_event, next_event
<1>5. CASE ShiftButton
  BY <1>5, OthersRoll DEF ShiftButton, desk
<1>6. ASSUME NEW s, RollShot(s) PROVE ControlInv'
  BY <1>6, OthersRoll DEF RollShot, control
<1>7. ASSUME NEW n, RollQueue(n) PROVE ControlInv'
  BY <1>7, OthersRoll DEF RollQueue, control
<1> QED BY <1>1, <1>2, <1>3, <1>4, <1>5, <1>6, <1>7, ShotRolled, CameraChosen,
           EventCaptured, OthersPreview DEF ControlNext

(* A shot the local operator rolls from his preview goes out with its own  *)
(* camera's sound, however many cameras and events there are and whatever  *)
(* the others do in between (replay_server.rb:117-237).                    *)
THEOREM OperatorHearsWhatHeSees == MCSpec => []SoundGoesWithPicture
<1>1. ControlInv => SoundGoesWithPicture
  BY DEF ControlInv
<1> QED BY <1>1, ControlStarts, ControlStep, PTL DEF MCSpec

(* The remainder is the only one. *)
LEMMA Residue ==
    ASSUME NEW a \in Int, NEW q \in Int, NEW m \in Nat \ {0}, NEW r \in 0 .. m - 1, a = q * m + r
    PROVE  a % m = r
<1> DEFINE d == a \div m  s == a % m
<1>1. /\ d \in Int /\ s \in 0 .. m - 1 /\ a = d * m + s
  OBVIOUS
<1> HIDE DEF d, s
<1>2. (d - q) * m = r - s
  BY <1>1
<1>3. r - s < m /\ r - s > -m
  BY <1>1
<1>4. d - q = 0
  BY <1>1, <1>2, <1>3
<1> QED BY <1>1, <1>4 DEF s

(* The jog dial counts round and round.  A turn of less than half of it is *)
(* taken for what it was, in its direction, from any position and over the *)
(* wrap, for a dial of every size (input/shuttlepro.rb).                   *)
THEOREM RotationIsTheTurn ==
    \A d \in 0 .. DialSize - 1, turn \in Int :
       2 * turn < DialSize /\ -2 * turn < DialSize
          => Rotation((d + turn) % DialSize, d) = turn
<1> SUFFICES ASSUME NEW d \in 0 .. DialSize - 1, NEW turn \in Int,
                    2 * turn < DialSize, -2 * turn < DialSize
             PROVE  Rotation((d + turn) % DialSize, d) = turn
  OBVIOUS
<1> DEFINE D == DialSize
           jog == (d + turn) % D
           k == (d + turn) \div D
           cw == (jog - d) % D
           ccw == (d - jog) % D
<1>0. D \in Nat \ {0} /\ 2 * turn < D /\ -2 * turn < D /\ d \in Int
  BY ControlAssumption
<1>1. jog \in Int /\ k \in Int /\ d + turn = k * D + jog
  BY <1>0
<1>2. Rotation(jog, d) = IF cw < ccw THEN cw ELSE -ccw
  BY DEF Rotation
<1> HIDE DEF D, jog, k
<1> DEFINE a == jog - d
           b == d - jog
<1>10. a \in Int /\ b \in Int /\ cw = a % D /\ ccw = b % D
  BY <1>0, <1>1
<1> HIDE DEF cw, ccw
<1>11. a = jog - d /\ b = d - jog
  OBVIOUS
<1> HIDE DEF a, b
<1>3. ASSUME NEW q \in Int, NEW r \in 0 .. D - 1
      PROVE  /\ a = q * D + r => cw = r
             /\ b = q * D + r => ccw = r
  <2>1. a = q * D + r => a % D = r
    BY <1>0, <1>10, Residue
  <2>2. b = q * D + r => b % D = r
    BY <1>0, <1>10, Residue
  <2> QED BY <2>1, <2>2, <1>10
<1> DEFINE kD == k * D
<1>4. /\ a = turn - kD /\ b = kD - turn
      /\ kD \in Int /\ (0 - k) * D = 0 - kD
      /\ (0 - k - 1) * D = 0 - kD - D /\ (k - 1) * D = kD - D
  BY <1>0, <1>1, <1>11
<1> HIDE DEF kD
<1>5. CASE turn >= 0
  <2>1. cw = turn
    <3>1. a = (0 - k) * D + turn
      BY <1>4
    <3>2. 0 - k \in Int /\ turn \in 0 .. D - 1
      BY <1>0, <1>1, <1>5
    <3> QED BY <1>3, <3>1, <3>2
  <2>2. CASE turn = 0
    <3>1. b = k * D + 0
      BY <1>0, <1>4, <2>2 DEF kD
    <3>2. ccw = 0
      <4>1. 0 \in 0 .. D - 1
        BY <1>0
      <4> QED BY <1>1, <1>3, <3>1, <4>1
    <3> QED BY <1>2, <2>1, <2>2, <3>2 DEF jog, D
  <2>3. CASE turn > 0
    <3>1. b = (k - 1) * D + (D - turn)
      BY <1>0, <1>4
    <3>2. ccw = D - turn
      <4>1. k - 1 \in Int /\ D - turn \in 0 .. D - 1
        BY <1>0, <1>1, <2>3
      <4> QED BY <1>3, <3>1, <4>1
    <3>3. cw < ccw
      BY <1>0, <2>1, <3>2
    <3> QED BY <1>2, <2>1, <3>3 DEF jog, D
  <2> QED BY <1>5, <2>2, <2>3
<1>6. CASE turn < 0
  <2>1. a = (0 - k - 1) * D + (D + turn)
    BY <1>0, <1>4
  <2>2. cw = D + turn
    <3>1. 0 - k - 1 \in Int /\ D + turn \in 0 .. D - 1
      BY <1>0, <1>1, <1>6
    <3> QED BY <1>3, <2>1, <3>1
  <2>3. b = k * D + (0 - turn)
    BY <1>4 DEF kD
  <2>4. ccw = 0 - turn
    <3>1. 0 - turn \in 0 .. D - 1
      BY <1>0, <1>6
    <3> QED BY <1>1, <1>3, <2>3, <3>1
  <2>5. ~(cw < ccw)
    BY <1>0, <2>2, <2>4
  <2> QED BY <1>2, <2>4, <2>5 DEF jog, D
<1> QED BY <1>5, <1>6

-----------------------------------------------------------------------------
(* A file's sound *)

(* Five packets of 1602, 1601, 1602, 1601 and 1602 samples are 8008: when  *)
(* the counter is f, the samples given are off by Drift(f) fifths of one.  *)
Drift(f) ==
    CASE f = 0 -> 0
      [] f = 1 -> 2
      [] f = 2 -> -1
      [] f = 3 -> 1
      [] f = 4 -> -2

Given(f) == 5 * samples_out - 8008 * n_frames = Drift(f)

(* Between two frames, inside one, or after the end of the file; the cue   *)
(* screen opens no other file inside a frame, and none after an end.       *)
SoundPace ==
    /\ samples_out \in Int /\ n_frames \in Int
    /\ \E f \in 0 .. 4 :
         /\ Given(f)
         /\ \/ need = 0 /\ video_data = "frame" /\ frame = f
            \/ /\ need = Cue!allocate(f) /\ frame = Cue!next_frame(f)
               /\ video_data = "frame" /\ cue \in {"none", "show"}
            \/ need = 0 /\ video_data = "NULL" /\ cue \in {"none", "show"}

(* One packet more, and the counter is right again. *)
LEMMA AllocatorKeepsPace ==
    ASSUME NEW f \in 0 .. 4
    PROVE  /\ Drift(Cue!next_frame(f)) = Drift(f) + 5 * Cue!allocate(f) - 8008
           /\ Cue!next_frame(f) \in 0 .. 4 /\ Cue!allocate(f) \in Nat \ {0}
           /\ Drift(f) \in -2 .. 2
<1>1. f \in {0, 1, 2, 3, 4}
  OBVIOUS
<1> QED BY <1>1 DEF Drift, Cue!next_frame, Cue!allocate

LEMMA PaceStarts == MCInit => SoundPace
<1> SUFFICES ASSUME MCInit PROVE SoundPace
  OBVIOUS
<1>1. samples_out = 0 /\ n_frames = 0 /\ need = 0 /\ video_data = "frame" /\ frame = 0
  BY DEF MCInit, Cue!CueInit, Cue!FileInit, Cue!CueAbsent, Cue!Absent, Cue!Init, Cue!Rest
<1>2. 0 \in 0 .. 4 /\ Given(0)
  BY <1>1 DEF Given, Drift
<1> QED BY <1>1, <1>2 DEF SoundPace

(* No packet is given, none is asked for. *)
LEMMA PaceKept ==
    ASSUME SoundPace, UNCHANGED <<samples_out, n_frames, need, video_data, frame>>,
           cue' = cue \/ (video_data = "frame" /\ need = 0) \/ cue \notin {"none", "show"}
    PROVE  SoundPace'
<1>1. PICK f \in 0 .. 4 :
         /\ Given(f)
         /\ \/ need = 0 /\ video_data = "frame" /\ frame = f
            \/ /\ need = Cue!allocate(f) /\ frame = Cue!next_frame(f)
               /\ video_data = "frame" /\ cue \in {"none", "show"}
            \/ need = 0 /\ video_data = "NULL" /\ cue \in {"none", "show"}
  BY DEF SoundPace
<1>2. Cue!allocate(f) # 0
  BY AllocatorKeepsPace
<1> QED BY <1>1, <1>2 DEF SoundPace, Given

(* A packet is asked for, of the size the counter says. *)
LEMMA PaceAsked ==
    ASSUME SoundPace, Cue!read_frame, cue' \in {"none", "show"}, video_data = "frame"
    PROVE  SoundPace'
<1>1. PICK f \in 0 .. 4 : Given(f) /\ need = 0 /\ frame = f
  BY AllocatorKeepsPace DEF SoundPace, Cue!read_frame
<1>2. /\ need' = Cue!allocate(f) /\ frame' = Cue!next_frame(f)
      /\ UNCHANGED <<samples_out, n_frames, video_data>>
  BY <1>1 DEF Cue!read_frame
<1> QED BY <1>1, <1>2 DEF SoundPace, Given

(* The packet is given, with a picture; or the file ends, with neither. *)
LEMMA PaceDecoded ==
    ASSUME SoundPace, Cue!run_lavc, cue' = cue
    PROVE  SoundPace'
<1>1. CASE Cue!DecodePicture \/ Cue!DecodeSound
  BY <1>1, PaceKept DEF Cue!DecodePicture, Cue!DecodeSound, Cue!output
<1>2. ASSUME need > 0
      PROVE  \E f \in 0 .. 4 : /\ Given(f) /\ need = Cue!allocate(f)
                               /\ frame = Cue!next_frame(f)
                               /\ video_data = "frame" /\ cue \in {"none", "show"}
  BY <1>2 DEF SoundPace
<1>3. CASE Cue!EndOfFile
  <2>1. need > 0 /\ need' = 0 /\ video_data' = "NULL" /\ UNCHANGED <<n_frames, samples_out>>
    BY <1>3 DEF Cue!EndOfFile
  <2> QED BY <1>2, <2>1 DEF SoundPace, Given
<1>4. CASE Cue!FinishFrame
  <2>1. /\ need > 0 /\ need' = 0 /\ video_data' = "frame" /\ frame' = frame
        /\ n_frames' = n_frames + 1 /\ samples_out' = samples_out + need
    BY <1>4 DEF Cue!FinishFrame
  <2>2. PICK f \in 0 .. 4 : Given(f) /\ need = Cue!allocate(f) /\ frame = Cue!next_frame(f)
    BY <1>2, <2>1
  <2>3. /\ frame \in 0 .. 4 /\ Drift(frame) = Drift(f) + 5 * need - 8008
        /\ need \in Nat /\ Drift(f) \in Int
    BY <2>2, AllocatorKeepsPace
  <2>4. Given(frame)'
    BY <2>1, <2>2, <2>3 DEF Given, SoundPace
  <2> QED BY <2>1, <2>3, <2>4 DEF SoundPace
<1> QED BY <1>1, <1>3, <1>4 DEF Cue!run_lavc

LEMMA PaceStep == SoundPace /\ [MCNext]_allVars => SoundPace'
<1> SUFFICES ASSUME SoundPace, [MCNext]_allVars PROVE SoundPace'
  OBVIOUS
<1>1. UNCHANGED cueVars \/ Cue!CueNext \/ Cue!FileNext
  BY DEF MCNext, allVars
<1>2. CASE UNCHANGED cueVars
  BY <1>2, PaceKept DEF cueVars
<1>3. CASE Cue!FileNext
  <2>1. cue = "none" /\ cue' = "none" /\ Cue!Next
    BY <1>3 DEF Cue!FileNext, Cue!thread
  <2>2. ASSUME Cue!OpenFile \/ Cue!Delete \/ \E p \in 1 .. Pictures : Cue!seek(p)
        PROVE  SoundPace'
    BY <2>1, <2>2, PaceKept DEF Cue!OpenFile, Cue!Delete, Cue!seek, Cue!output
  <2> QED BY <2>1, <2>2, PaceAsked, PaceDecoded DEF Cue!Next
<1>4. ASSUME NEW f, Cue!load_file(f) \/ Cue!seek_by(f) PROVE SoundPace'
  BY <1>4, PaceKept DEF Cue!load_file, Cue!seek_by, Cue!thread, Cue!vars, Cue!output
<1>5. CASE Cue!wait_update
  BY <1>5, PaceKept DEF Cue!wait_update, Cue!vars, Cue!output
<1>6. CASE Cue!OpenNewFile
  <2>1. cue = "open"
    BY <1>6 DEF Cue!OpenNewFile
  <2>2. CASE UNCHANGED <<samples_out, n_frames, need, video_data, frame>>
    BY <2>1, <2>2, PaceKept
  <2>3. CASE samples_out' = 0 /\ n_frames' = 0 /\ frame' = 0
             /\ UNCHANGED <<need, video_data>>
    <3>1. need = 0 /\ video_data = "frame"
      BY <2>1 DEF SoundPace
    <3>2. 0 \in 0 .. 4 /\ Given(0)'
      BY <2>3 DEF Given, Drift
    <3> QED BY <2>3, <3>1, <3>2 DEF SoundPace
  <2> QED BY <1>6, <2>2, <2>3 DEF Cue!OpenNewFile, Cue!vars, Cue!output
<1>7. CASE Cue!SeekToPosition
  BY <1>7, PaceKept DEF Cue!SeekToPosition, Cue!seek, Cue!vars, Cue!output
<1>8. CASE Cue!CallReadFrame
  <2>1. cue = "read" /\ cue' = "show" /\ Cue!read_frame
    BY <1>8 DEF Cue!CallReadFrame
  <2>2. video_data = "frame"
    BY <2>1 DEF SoundPace
  <2> QED BY <2>1, <2>2, PaceAsked
<1>9. CASE Cue!run_lavc /\ cue = "show" /\ UNCHANGED <<Cue!operator, Cue!thread>>
  BY <1>9, PaceDecoded DEF Cue!thread
<1>10. CASE Cue!Show
  <2>1. /\ UNCHANGED <<samples_out, n_frames, need, video_data, frame>>
        /\ need = 0 /\ video_data = "NULL" => cue' = cue
    BY <1>10 DEF Cue!Show, Cue!output
  <2>2. video_data \in {"frame", "NULL"}
    BY DEF SoundPace
  <2>3. need = 0
    BY <1>10 DEF Cue!Show
  <2> QED BY <2>1, <2>2, <2>3, PaceKept
<1> QED BY <1>1, <1>2, <1>3, <1>4, <1>5, <1>6, <1>7, <1>8, <1>9, <1>10
        DEF Cue!CueNext, Cue!ThreadSteps

(* After any number of frames the sound given is within half a sample of   *)
(* the exact rate, for files of every length and packets of every size     *)
(* (replay_playout_lavf_source.cpp:149-222, avspipe_allocators.cpp:34-60). *)
THEOREM FileSoundKeepsStep == MCSpec => []SoundKeepsStep
<1>1. SoundPace => SoundKeepsStep
  BY AllocatorKeepsPace DEF SoundPace, Given, SoundKeepsStep, Cue!SoundKeepsStep
<1> QED BY <1>1, PaceStarts, PaceStep, PTL DEF MCSpec

-----------------------------------------------------------------------------
(***************************************************************************)
(* A rollout played by a subprocess.  As long as it runs and its source is *)
(* played, what the child wrote of one stream more than of the other is    *)
(* what is held of it more, and the picture taken whose sound is awaited.  *)
(***************************************************************************)

Playing == caller \in {"idle", "video", "audio"} /\ child # "ended"

InReader(s) == IF reader[s] = "put" THEN 1 ELSE 0

WriteLead == IF child = "video" THEN lead - 1
             ELSE IF child = "audio" THEN lead + 1 ELSE lead

HeldLead == fill["video"] + InReader("video")
              - fill["audio"] - InReader("audio") - in_kernel["audio"]
              + (IF caller = "audio" THEN 1 ELSE 0)

SourceType ==
    /\ child \in {"free", "video", "audio", "ended"}
    /\ lead \in -Lead .. Lead
    /\ reader \in [Avspipe!Streams -> {"read", "put", "done"}]
    /\ fill \in [Avspipe!Streams -> Nat]
    /\ in_kernel \in [Avspipe!Streams -> Nat] /\ in_kernel["video"] = 0

SourceHeld ==
    /\ caller = "new" => Avspipe!Init
    /\ Playing => /\ \A s \in Avspipe!Streams :
                        reader[s] # "done" /\ ~read_done[s] /\ ~write_done[s]
                  /\ WriteLead = HeldLead

SourceInv == SourceType /\ SourceHeld

LEMMA SourceStarts == MCInit => SourceInv
<1> SUFFICES ASSUME MCInit PROVE SourceInv
  OBVIOUS
<1>1. Avspipe!Init \/ Avspipe!Absent
  BY DEF MCInit
<1>2. PICK c \in {"new", "gone"} : Avspipe!Rest(c, "ended", "done")
  BY <1>1 DEF Avspipe!Init, Avspipe!Absent
<1>3. SourceType
  <2>1. "video" \in Avspipe!Streams
    BY DEF Avspipe!Streams
  <2>2. 0 \in -Lead .. Lead
    BY SourceAssumption
  <2>3. reader \in [Avspipe!Streams -> {"read", "put", "done"}]
    BY <1>2 DEF Avspipe!Rest
  <2>4. /\ fill \in [Avspipe!Streams -> Nat] /\ in_kernel \in [Avspipe!Streams -> Nat]
        /\ in_kernel["video"] = 0
    BY <1>2, <2>1 DEF Avspipe!Rest
  <2> QED BY <1>2, <2>2, <2>3, <2>4 DEF Avspipe!Rest, SourceType
<1>4. SourceHeld
  BY <1>2 DEF Avspipe!Rest, SourceHeld, Avspipe!Init, Playing
<1> QED BY <1>3, <1>4 DEF SourceInv

LEMMA SourceParts ==
    ASSUME SourceType
    PROVE  /\ lead \in Int /\ WriteLead \in Int
           /\ fill["video"] \in Nat /\ fill["audio"] \in Nat
           /\ in_kernel["video"] = 0 /\ in_kernel["audio"] \in Nat
           /\ InReader("video") \in {0, 1} /\ InReader("audio") \in {0, 1}
<1>1. lead \in Int /\ WriteLead \in Int
  BY SourceAssumption DEF SourceType, WriteLead
<1>2. "video" \in Avspipe!Streams /\ "audio" \in Avspipe!Streams
  BY DEF Avspipe!Streams
<1>3. /\ fill["video"] \in Nat /\ fill["audio"] \in Nat
      /\ in_kernel["video"] = 0 /\ in_kernel["audio"] \in Nat
  BY <1>2 DEF SourceType
<1>4. InReader("video") \in {0, 1} /\ InReader("audio") \in {0, 1}
  BY DEF InReader
<1> QED BY <1>1, <1>3, <1>4

LEMMA SourceRests ==
    ASSUME SourceInv, UNCHANGED avspipeVars
    PROVE  SourceInv'
<1>1. UNCHANGED <<caller, child, lead, in_kernel, reader, fill, read_done,
                  write_done, inherited>>
  BY DEF avspipeVars
<1>2. SourceType' <=> SourceType
  BY <1>1 DEF SourceType
<1>3. WriteLead' = WriteLead /\ HeldLead' = HeldLead
  BY <1>1 DEF WriteLead, HeldLead, InReader
<1> QED BY <1>1, <1>2, <1>3 DEF SourceInv, SourceHeld, Playing, Avspipe!Init, Avspipe!Rest

LEMMA SourceBegins ==
    ASSUME SourceInv, Avspipe!start_subprocess
    PROVE  SourceInv'
<1>0. /\ caller = "new" /\ caller' \in {"idle", "failed"}
      /\ UNCHANGED <<lead, in_kernel, fill, read_done, write_done>>
      /\ \/ caller' = "idle" /\ child' = "free"
            /\ reader' = [s \in Avspipe!Streams |-> "read"]
         \/ caller' = "failed" /\ UNCHANGED <<child, reader>>
      /\ Avspipe!Rest("new", "ended", "done")
  BY DEF Avspipe!start_subprocess, SourceInv, SourceHeld, Avspipe!Init
<1>1. SourceType'
  BY <1>0 DEF SourceInv, SourceType
<1>2. CASE caller' = "idle"
  <2>1. WriteLead' = 0 /\ HeldLead' = 0
    BY <1>0, <1>2 DEF WriteLead, HeldLead, InReader, Avspipe!Rest, Avspipe!Streams
  <2> QED BY <1>0, <1>1, <1>2, <2>1 DEF SourceInv, SourceHeld, Playing, Avspipe!Rest
<1>3. CASE caller' = "failed"
  BY <1>1, <1>3 DEF SourceInv, SourceHeld, Playing
<1> QED BY <1>0, <1>2, <1>3

LEMMA SourceChild ==
    ASSUME SourceInv, Avspipe!ChildChooses \/ Avspipe!ChildEnds
    PROVE  SourceInv'
<1>0. /\ UNCHANGED <<caller, in_kernel, reader, fill, read_done, write_done>>
      /\ child = "free"
      /\ \/ child' = "video" /\ lead < Lead /\ lead' = lead + 1
         \/ child' = "audio" /\ lead > -Lead /\ lead' = lead - 1
         \/ child' = "ended" /\ lead' = lead
  BY SourceParts DEF SourceInv, Avspipe!ChildChooses, Avspipe!ChildEnds
<1>1. SourceType'
  <2>1. lead' \in -Lead .. Lead
    BY <1>0, SourceAssumption DEF SourceInv, SourceType
  <2> QED BY <1>0, <2>1 DEF SourceInv, SourceType
<1>2. caller' # "new"
  BY <1>0 DEF SourceInv, SourceHeld, Avspipe!Init, Avspipe!Rest
<1>3. WriteLead' = WriteLead
  BY <1>0, SourceParts DEF SourceInv, WriteLead
<1>4. HeldLead' = HeldLead
  BY <1>0 DEF HeldLead, InReader
<1> QED BY <1>0, <1>1, <1>2, <1>3, <1>4 DEF SourceInv, SourceHeld, Playing

LEMMA SourceWrites ==
    ASSUME SourceInv, NEW s \in Avspipe!Streams, Avspipe!ChildSteps(s)
    PROVE  SourceInv'
<1>1. CASE Avspipe!ChildWrites(s)
  <2>0. /\ UNCHANGED <<caller, lead, reader, fill, read_done, write_done>>
        /\ child = s /\ child' = "free"
        /\ in_kernel' = [in_kernel EXCEPT ![s] = @ + 1]
        /\ s = "video" => in_kernel["video"] < 0
    BY <1>1 DEF Avspipe!ChildWrites, Avspipe!Room
  <2>1. s = "audio"
    <3>1. ~(in_kernel["video"] < 0)
      BY SourceParts DEF SourceInv
    <3> QED BY <2>0, <3>1 DEF Avspipe!Streams
  <2>2. /\ in_kernel' \in [Avspipe!Streams -> Nat]
        /\ in_kernel'["video"] = 0 /\ in_kernel'["audio"] = in_kernel["audio"] + 1
    BY <2>0, <2>1 DEF SourceInv, SourceType, Avspipe!Streams
  <2>3. SourceType'
    BY <2>0, <2>2 DEF SourceInv, SourceType
  <2>4. caller' # "new"
    BY <2>0, <2>1 DEF SourceInv, SourceHeld, Avspipe!Init, Avspipe!Rest
  <2>5. WriteLead' = WriteLead - 1
    BY <2>0, <2>1, SourceParts DEF SourceInv, WriteLead
  <2>6. HeldLead' = HeldLead - 1
    BY <2>0, <2>2, SourceParts DEF SourceInv, HeldLead, InReader
  <2>7. child # "ended"
    BY <2>0, <2>1
  <2> QED BY <2>0, <2>3, <2>4, <2>5, <2>6, <2>7 DEF SourceInv, SourceHeld, Playing
<1>2. CASE Avspipe!ChildIsKilled(s)
  <2>0. /\ UNCHANGED <<caller, lead, in_kernel, reader, fill>>
        /\ child = s /\ child' = "ended"
    BY <1>2 DEF Avspipe!ChildIsKilled
  <2>1. caller' # "new"
    BY <2>0 DEF SourceInv, SourceHeld, Avspipe!Init, Avspipe!Rest, Avspipe!Streams
  <2> QED BY <2>0, <2>1 DEF SourceInv, SourceType, SourceHeld, Playing
<1> QED BY <1>1, <1>2 DEF Avspipe!ChildSteps

LEMMA SourceReads ==
    ASSUME SourceInv, NEW s \in Avspipe!Streams, Avspipe!read_from_fd(s)
    PROVE  SourceInv'
<1>0. /\ UNCHANGED <<caller, lead, fill, read_done, write_done>>
      /\ reader[s] = "read" /\ reader' = [reader EXCEPT ![s] = "put"]
      /\ \/ /\ in_kernel[s] > 0 /\ in_kernel' = [in_kernel EXCEPT ![s] = @ - 1]
            /\ UNCHANGED child
         \/ child = s /\ child' = "free" /\ UNCHANGED in_kernel
  BY DEF Avspipe!read_from_fd, Avspipe!read_all
<1>1. /\ reader' \in [Avspipe!Streams -> {"read", "put", "done"}]
      /\ \A t \in Avspipe!Streams \ {s} : InReader(t)' = InReader(t)
      /\ InReader(s) = 0 /\ InReader(s)' = 1 /\ reader'[s] = "put"
      /\ \A t \in Avspipe!Streams \ {s} : reader'[t] = reader[t]
  BY <1>0 DEF SourceInv, SourceType, InReader
<1>2. caller' # "new"
  BY <1>0 DEF SourceInv, SourceHeld, Avspipe!Init, Avspipe!Rest
<1>3. Playing' => \A t \in Avspipe!Streams :
                     reader'[t] # "done" /\ ~read_done'[t] /\ ~write_done'[t]
  <2> SUFFICES ASSUME Playing' PROVE Playing
    BY <1>0, <1>1 DEF SourceInv, SourceHeld
  <2> QED BY <1>0 DEF Playing, Avspipe!Streams
<1>4. CASE /\ in_kernel[s] > 0 /\ in_kernel' = [in_kernel EXCEPT ![s] = @ - 1]
           /\ UNCHANGED child
  <2>1. s = "audio"
    BY <1>4, SourceParts DEF SourceInv, Avspipe!Streams
  <2>2. /\ in_kernel' \in [Avspipe!Streams -> Nat]
        /\ in_kernel'["video"] = 0 /\ in_kernel'["audio"] = in_kernel["audio"] - 1
    BY <1>4, <2>1 DEF SourceInv, SourceType, Avspipe!Streams
  <2>3. /\ InReader("video")' = InReader("video")
        /\ InReader("audio") = 0 /\ InReader("audio")' = 1
    BY <1>1, <2>1 DEF Avspipe!Streams
  <2>4. HeldLead' = HeldLead
    BY <1>0, <2>2, <2>3, SourceParts DEF SourceInv, HeldLead
  <2>5. WriteLead' = WriteLead
    BY <1>0, <1>4 DEF WriteLead
  <2>6. SourceType'
    BY <1>0, <1>1, <1>4, <2>2 DEF SourceInv, SourceType
  <2> QED BY <1>0, <1>2, <1>3, <1>4, <2>4, <2>5, <2>6 DEF SourceInv, SourceHeld, Playing
<1>5. CASE child = s /\ child' = "free" /\ UNCHANGED in_kernel
  <2>1. SourceType'
    BY <1>0, <1>1, <1>5 DEF SourceInv, SourceType
  <2>2. WriteLead' - WriteLead = HeldLead' - HeldLead
    <3>1. CASE s = "video"
      <4>1. /\ InReader("audio")' = InReader("audio")
            /\ InReader("video") = 0 /\ InReader("video")' = 1
        BY <1>1, <3>1 DEF Avspipe!Streams
      <4>2. HeldLead' = HeldLead + 1 /\ HeldLead \in Int
        BY <1>0, <1>5, <4>1, SourceParts DEF SourceInv, HeldLead
      <4>3. WriteLead' = WriteLead + 1
        BY <1>0, <1>5, <3>1, SourceParts DEF SourceInv, WriteLead
      <4> QED BY <4>2, <4>3, SourceParts DEF SourceInv
    <3>2. CASE s = "audio"
      <4>1. /\ InReader("video")' = InReader("video")
            /\ InReader("audio") = 0 /\ InReader("audio")' = 1
        BY <1>1, <3>2 DEF Avspipe!Streams
      <4>2. HeldLead' = HeldLead - 1 /\ HeldLead \in Int
        BY <1>0, <1>5, <4>1, SourceParts DEF SourceInv, HeldLead
      <4>3. WriteLead' = WriteLead - 1
        BY <1>0, <1>5, <3>2, SourceParts DEF SourceInv, WriteLead
      <4> QED BY <4>2, <4>3, SourceParts DEF SourceInv
    <3> QED BY <3>1, <3>2 DEF Avspipe!Streams
  <2>3. WriteLead' \in Int /\ HeldLead' \in Int /\ WriteLead \in Int /\ HeldLead \in Int
    BY <2>1, SourceParts, SourceAssumption
    DEF SourceInv, SourceType, HeldLead, WriteLead, InReader, Avspipe!Streams
  <2>4. child # "ended"
    BY <1>5 DEF Avspipe!Streams
  <2> QED BY <1>0, <1>2, <1>3, <1>5, <2>1, <2>2, <2>3, <2>4
      DEF SourceInv, SourceHeld, Playing
<1> QED BY <1>0, <1>4, <1>5

LEMMA SourcePuts ==
    ASSUME SourceInv, NEW s \in Avspipe!Streams, Avspipe!EndOfFile(s) \/ Avspipe!put(s)
    PROVE  SourceInv'
<1>0. UNCHANGED <<caller, child, lead, in_kernel, read_done>>
  BY DEF Avspipe!EndOfFile, Avspipe!put
<1>1. caller' # "new"
  BY <1>0 DEF SourceInv, SourceHeld, Avspipe!Init, Avspipe!Rest, Avspipe!EndOfFile, Avspipe!put
<1>2. CASE Avspipe!EndOfFile(s)
  <2>1. /\ reader' = [reader EXCEPT ![s] = "done"] /\ UNCHANGED fill
        /\ child = "ended"
    BY <1>2 DEF Avspipe!EndOfFile, Avspipe!read_all
  <2> QED BY <1>0, <1>1, <2>1 DEF SourceInv, SourceType, SourceHeld, Playing
<1>3. CASE Avspipe!put(s) /\ read_done[s]
  <2>1. reader' = [reader EXCEPT ![s] = "done"] /\ UNCHANGED fill
    BY <1>3 DEF Avspipe!put
  <2>2. ~Playing
    BY <1>3 DEF SourceInv, SourceHeld
  <2> QED BY <1>0, <1>1, <2>1, <2>2 DEF SourceInv, SourceType, SourceHeld, Playing
<1>4. CASE Avspipe!put(s) /\ ~read_done[s]
  <2>1. /\ reader' = [reader EXCEPT ![s] = "read"] /\ reader[s] = "put"
        /\ fill' = [fill EXCEPT ![s] = @ + 1] /\ UNCHANGED write_done
    BY <1>4 DEF Avspipe!put
  <2>2. /\ fill' \in [Avspipe!Streams -> Nat] /\ fill'[s] = fill[s] + 1
        /\ reader' \in [Avspipe!Streams -> {"read", "put", "done"}] /\ reader'[s] = "read"
        /\ \A t \in Avspipe!Streams \ {s} : fill'[t] = fill[t] /\ reader'[t] = reader[t]
    BY <2>1 DEF SourceInv, SourceType
  <2>3. SourceType'
    BY <1>0, <2>2 DEF SourceInv, SourceType
  <2>4. InReader(s) = 1 /\ InReader(s)' = 0
        /\ \A t \in Avspipe!Streams \ {s} : InReader(t)' = InReader(t)
    BY <2>1, <2>2 DEF InReader
  <2>5. HeldLead' = HeldLead
    <3>1. CASE s = "video"
      <4>1. fill'["audio"] = fill["audio"] /\ InReader("audio")' = InReader("audio")
        BY <2>2, <2>4, <3>1 DEF Avspipe!Streams
      <4> QED BY <1>0, <2>2, <2>4, <3>1, <4>1, SourceParts DEF SourceInv, HeldLead
    <3>2. CASE s = "audio"
      <4>1. fill'["video"] = fill["video"] /\ InReader("video")' = InReader("video")
        BY <2>2, <2>4, <3>2 DEF Avspipe!Streams
      <4> QED BY <1>0, <2>2, <2>4, <3>2, <4>1, SourceParts DEF SourceInv, HeldLead
    <3> QED BY <3>1, <3>2 DEF Avspipe!Streams
  <2>6. WriteLead' = WriteLead /\ (Playing' <=> Playing)
    BY <1>0 DEF WriteLead, Playing
  <2>7. Playing => \A t \in Avspipe!Streams :
                     reader'[t] # "done" /\ ~read_done'[t] /\ ~write_done'[t]
    BY <1>0, <2>1, <2>2 DEF SourceInv, SourceHeld
  <2> QED BY <1>1, <2>3, <2>5, <2>6, <2>7 DEF SourceInv, SourceHeld
<1> QED BY <1>2, <1>3, <1>4

LEMMA SourceTakes ==
    ASSUME SourceInv, NEW s \in Avspipe!Streams, Avspipe!get(s)
    PROVE  SourceInv'
<1>0. /\ UNCHANGED <<child, lead, in_kernel, reader, read_done, write_done>>
      /\ caller = s
      /\ \/ /\ fill[s] > 0 /\ fill' = [fill EXCEPT ![s] = @ - 1]
            /\ caller' = IF s = "video" THEN "audio" ELSE "idle"
         \/ write_done[s] /\ caller' = "idle" /\ UNCHANGED fill
  BY DEF Avspipe!get
<1>1. Playing' => Playing
  BY <1>0 DEF Playing, Avspipe!Streams
<1>2. caller' \in {"idle", "audio"}
  BY <1>0
<1>3. CASE write_done[s] /\ caller' = "idle" /\ UNCHANGED fill
  <2>1. ~Playing
    BY <1>3 DEF SourceInv, SourceHeld
  <2> QED BY <1>0, <1>1, <1>3, <2>1 DEF SourceInv, SourceType, SourceHeld
<1>4. CASE /\ fill[s] > 0 /\ fill' = [fill EXCEPT ![s] = @ - 1]
           /\ caller' = IF s = "video" THEN "audio" ELSE "idle"
  <2>1. /\ fill' \in [Avspipe!Streams -> Nat] /\ fill'[s] = fill[s] - 1
        /\ \A t \in Avspipe!Streams \ {s} : fill'[t] = fill[t]
    BY <1>4 DEF SourceInv, SourceType
  <2>2. SourceType'
    BY <1>0, <1>2, <2>1 DEF SourceInv, SourceType
  <2>3. HeldLead' = HeldLead
    <3>0. InReader("video")' = InReader("video") /\ InReader("audio")' = InReader("audio")
      BY <1>0 DEF InReader
    <3>1. CASE s = "video"
      <4>1. fill'["audio"] = fill["audio"] /\ caller = "video" /\ caller' = "audio"
        BY <1>0, <1>4, <2>1, <3>1 DEF Avspipe!Streams
      <4> QED BY <1>0, <2>1, <3>0, <3>1, <4>1, SourceParts DEF SourceInv, HeldLead
    <3>2. CASE s = "audio"
      <4>1. fill'["video"] = fill["video"] /\ caller = "audio" /\ caller' = "idle"
        BY <1>0, <1>4, <2>1, <3>2 DEF Avspipe!Streams
      <4> QED BY <1>0, <2>1, <3>0, <3>2, <4>1, SourceParts DEF SourceInv, HeldLead
    <3> QED BY <3>1, <3>2 DEF Avspipe!Streams
  <2>4. WriteLead' = WriteLead
    BY <1>0 DEF WriteLead
  <2> QED BY <1>0, <1>1, <1>2, <2>2, <2>3, <2>4 DEF SourceInv, SourceHeld
<1> QED BY <1>0, <1>3, <1>4

LEMMA SourceOwner ==
    ASSUME SourceInv,
           Avspipe!read_frame \/ Avspipe!DoneReading \/ Avspipe!join_thread
             \/ Avspipe!NextRollout
    PROVE  SourceInv'
<1>0. UNCHANGED <<child, lead, in_kernel, reader, fill, write_done>>
  BY DEF Avspipe!read_frame, Avspipe!DoneReading, Avspipe!join_thread, Avspipe!NextRollout
<1>1. \/ caller = "idle" /\ caller' = "video" /\ UNCHANGED read_done
      \/ caller' \in {"done audio", "join audio", "join video", "gone"}
      \/ caller' = caller /\ caller # "new" /\ UNCHANGED read_done
  BY DEF Avspipe!read_frame, Avspipe!DoneReading, Avspipe!join_thread, Avspipe!NextRollout
<1>2. WriteLead' = WriteLead
  BY <1>0 DEF WriteLead
<1>3. SourceType'
  BY <1>0, <1>1 DEF SourceInv, SourceType
<1>4. CASE caller' \in {"done audio", "join audio", "join video", "gone"}
  BY <1>3, <1>4 DEF SourceInv, SourceHeld, Playing
<1>5. CASE \/ caller = "idle" /\ caller' = "video" /\ UNCHANGED read_done
           \/ caller' = caller /\ caller # "new" /\ UNCHANGED read_done
  <2>1. HeldLead' = HeldLead
    BY <1>0, <1>5 DEF HeldLead, InReader
  <2> QED BY <1>0, <1>2, <1>3, <1>5, <2>1 DEF SourceInv, SourceHeld, Playing
<1> QED BY <1>1, <1>4, <1>5

LEMMA SourceStep == SourceInv /\ [MCNext]_allVars => SourceInv'
<1> SUFFICES ASSUME SourceInv, [MCNext]_allVars PROVE SourceInv'
  OBVIOUS
<1>1. CASE Avspipe!Next
  BY <1>1, SourceBegins, SourceChild, SourceWrites, SourceReads, SourcePuts, SourceTakes,
     SourceOwner
  DEF Avspipe!Next, Avspipe!OwnerSteps, Avspipe!ReaderSteps, Avspipe!Streams
<1>2. CASE UNCHANGED avspipeVars
  BY <1>2, SourceRests
<1> QED BY <1>1, <1>2 DEF MCNext, allVars

LEMMA NotCrossed ==
    ASSUME Lead <= Slots + 2
    PROVE  SourceInv => NoCrossedWait
<1>1. ASSUME SourceInv, Avspipe!Starved("audio"), Avspipe!Stuck("video") PROVE FALSE
  <2>1. /\ Playing /\ caller = "audio" /\ child = "video"
        /\ InReader("audio") = 0 /\ InReader("video") = 1
        /\ fill["audio"] = 0 /\ fill["video"] = Slots /\ in_kernel["audio"] = 0
    BY <1>1 DEF Avspipe!Starved, Avspipe!Stuck, Playing, InReader
  <2>2. WriteLead = lead - 1 /\ HeldLead = Slots + 2
    BY <2>1, SourceAssumption DEF WriteLead, HeldLead
  <2>3. lead = Slots + 3 /\ lead <= Lead
    BY <1>1, <2>1, <2>2, SourceParts, SourceAssumption DEF SourceInv, SourceHeld, SourceType
  <2> QED BY <2>3, SourceAssumption
<1>2. ASSUME SourceInv, Avspipe!Starved("video"), Avspipe!Stuck("audio") PROVE FALSE
  <2>1. /\ Playing /\ caller = "video" /\ child = "audio"
        /\ InReader("audio") = 1 /\ InReader("video") = 0
        /\ fill["video"] = 0 /\ fill["audio"] = Slots /\ in_kernel["audio"] = AudioRoom
    BY <1>2 DEF Avspipe!Starved, Avspipe!Stuck, Avspipe!Room, Playing, InReader
  <2>2. WriteLead = lead + 1 /\ HeldLead = -(Slots + 1 + AudioRoom)
    BY <2>1, SourceAssumption DEF WriteLead, HeldLead
  <2>3. lead = -(Slots + 2 + AudioRoom) /\ lead >= -Lead
    BY <1>2, <2>1, <2>2, SourceParts, SourceAssumption DEF SourceInv, SourceHeld, SourceType
  <2> QED BY <2>3, SourceAssumption
<1> QED BY <1>1, <1>2 DEF NoCrossedWait, Avspipe!NoCrossedWait

(* The playout thread that waits for one stream of a subprocess never       *)
(* faces a child stuck in the other, for pipes of every size, provided the  *)
(* child writes ahead by no more than the pipe, the reader and the picture  *)
(* taken hold (replay_playout_avspipe_source.cpp:27-56,                     *)
(* avspipe_reader_thread.h:38-64).                                          *)
THEOREM WaitsAreNotCrossed ==
    ASSUME Lead <= Slots + 2
    PROVE  MCSpec => []NoCrossedWait
BY NotCrossed, SourceStarts, SourceStep, PTL DEF MCSpec

-----------------------------------------------------------------------------
(* The rationals *)

(* Numbers have a least among them: what induction over them is here. *)
LEMMA Least ==
    ASSUME NEW T, T \subseteq Nat, T # {}
    PROVE  \E n \in T : \A m \in T : n <= m
<1> DEFINE R == OpToRel(<, Nat)
<1>1. IsWellFoundedOn(R, Nat)
  BY NatLessThanWellFounded
<1>2. \A x, y \in Nat : x < y => <<x, y>> \in R
  BY DEF OpToRel
<1> HIDE DEF R
<1>3. PICK n \in T : \A m \in T : ~ (<<m, n>> \in R)
  BY <1>1, WFMin
<1>4. ASSUME NEW m \in T PROVE n <= m
  <2>1. n \in Nat /\ m \in Nat /\ ~(m < n)
    BY <1>2, <1>3
  <2> QED BY <2>1
<1> QED BY <1>3, <1>4

Divides(d, n) == \E k \in Int : n = d * k
Common(a, b) == {d \in Nat \ {0} : Divides(d, a) /\ Divides(d, b)}
Greatest(S) == CHOOSE d \in S : \A e \in S : e <= d

LEMMA Remainder ==
    ASSUME NEW a \in Nat, NEW b \in Nat \ {0}
    PROVE  a = b * (a \div b) + (a % b) /\ a % b \in 0 .. b - 1 /\ a \div b \in Nat
OBVIOUS

LEMMA DividesSum ==
    ASSUME NEW d \in Int, NEW m \in Int, NEW n \in Int, NEW q \in Int,
           Divides(d, m), Divides(d, n)
    PROVE  Divides(d, m + q * n)
<1>1. PICK k \in Int : m = d * k
  BY DEF Divides
<1>2. PICK l \in Int : n = d * l
  BY DEF Divides
<1>3. m + q * n = d * (k + q * l)
  <2>1. q * n = d * (q * l)
    BY <1>2
  <2> HIDE <1>2
  <2> QED BY <1>1, <2>1
<1>4. k + q * l \in Int
  OBVIOUS
<1> QED BY <1>3, <1>4 DEF Divides

LEMMA CommonRemainder ==
    ASSUME NEW a \in Nat, NEW b \in Nat \ {0}, NEW d \in Int, Divides(d, b)
    PROVE  Divides(d, a % b) <=> Divides(d, a)
<1> DEFINE q == a \div b
           r == a % b
           nq == -q
<1>1. /\ a = r + q * b /\ r = a + nq * b
      /\ q \in Int /\ nq \in Int /\ r \in Int /\ b \in Int /\ a \in Int
  BY Remainder
<1> HIDE DEF q, r, nq
<1>2. Divides(d, r) => Divides(d, r + q * b)
  BY <1>1, DividesSum
<1>3. Divides(d, a) => Divides(d, a + nq * b)
  BY <1>1, DividesSum
<1>4. Divides(d, r) <=> Divides(d, a)
  BY <1>1, <1>2, <1>3
<1> QED BY <1>4 DEF r

LEMMA CommonDivisors ==
    ASSUME NEW a \in Nat, NEW b \in Nat \ {0}
    PROVE  Common(a % b, b) = Common(a, b) /\ Common(b, a % b) = Common(b, a)
<1>1. \A d \in Nat \ {0} : Divides(d, b) => (Divides(d, a % b) <=> Divides(d, a))
  BY CommonRemainder
<1> QED BY <1>1 DEF Common

LEMMA DivisorBound ==
    ASSUME NEW d \in Nat \ {0}, NEW n \in Nat \ {0}, Divides(d, n)
    PROVE  d <= n
<1>1. PICK k \in Int : n = d * k
  BY DEF Divides
<1>2. k >= 1
  BY <1>1
<1>3. d * k >= d
  BY <1>2
<1> QED BY <1>1, <1>3

LEMMA GreatestOfOne ==
    ASSUME NEW n \in Nat \ {0}
    PROVE  Greatest(Common(0, n)) = n /\ Greatest(Common(n, 0)) = n
<1>1. n \in Common(0, n) /\ n \in Common(n, 0)
  <2>1. Divides(n, n) /\ Divides(n, 0)
    BY n = n * 1, 0 = n * 0 DEF Divides
  <2> QED BY <2>1 DEF Common
<1>2. \A e \in Common(0, n) \cup Common(n, 0) : e \in Nat /\ e <= n
  BY DivisorBound DEF Common
<1>3. ASSUME NEW S, n \in S, \A e \in S : e \in Nat /\ e <= n
      PROVE  Greatest(S) = n
  <2> DEFINE IsGreatest(d) == d \in S /\ \A e \in S : e <= d
  <2>1. IsGreatest(n)
    BY <1>3
  <2>2. ASSUME NEW d, IsGreatest(d) PROVE d = n
    <3>1. d \in Nat /\ d <= n /\ n <= d
      BY <1>3, <2>2
    <3> QED BY <3>1
  <2>3. Greatest(S) = CHOOSE d : IsGreatest(d)
    BY DEF Greatest
  <2> HIDE DEF IsGreatest
  <2> QED BY <2>1, <2>2, <2>3
<1> QED BY <1>1, <1>2, <1>3

(* The equation that defines the gcd.  A recursive function is a function  *)
(* that solves its equation if there is one: the greatest common divisor   *)
(* does.                                                                   *)
Euclid(g) ==
    g = [p \in Nat \X Nat |->
            LET a == p[1]  b == p[2]
            IN  IF a = 0 THEN b
                ELSE IF b = 0 THEN a
                ELSE IF a > b THEN g[<<a % b, b>>]
                ELSE g[<<a, b % a>>]]

LEMMA EuclidSolvable == \E g : Euclid(g)
<1> DEFINE G == [p \in Nat \X Nat |->
                   IF p[1] = 0 THEN p[2] ELSE IF p[2] = 0 THEN p[1]
                   ELSE Greatest(Common(p[1], p[2]))]
<1>1. ASSUME NEW a \in Nat \ {0}, NEW b \in Nat \ {0}
      PROVE  /\ G[<<a % b, b>>] = Greatest(Common(a, b))
             /\ G[<<a, b % a>>] = Greatest(Common(a, b))
  <2>1. a % b \in Nat /\ b % a \in Nat
    BY Remainder
  <2>2. /\ Common(a % b, b) = Common(a, b) /\ Common(a, b % a) = Common(a, b)
    BY CommonDivisors
  <2>3. /\ Greatest(Common(0, b)) = b /\ Greatest(Common(a, 0)) = a
    BY GreatestOfOne
  <2>4. G[<<a % b, b>>] = IF a % b = 0 THEN b ELSE Greatest(Common(a % b, b))
    BY <2>1
  <2>5. G[<<a, b % a>>] = IF b % a = 0 THEN a ELSE Greatest(Common(a, b % a))
    BY <2>1
  <2> HIDE DEF G
  <2> QED BY <2>2, <2>3, <2>4, <2>5
<1>2. ASSUME NEW p \in Nat \X Nat
      PROVE  G[p] = LET a == p[1]  b == p[2]
                    IN  IF a = 0 THEN b
                        ELSE IF b = 0 THEN a
                        ELSE IF a > b THEN G[<<a % b, b>>]
                        ELSE G[<<a, b % a>>]
  <2>1. p[1] \in Nat /\ p[2] \in Nat
    OBVIOUS
  <2>2. G[p] = IF p[1] = 0 THEN p[2] ELSE IF p[2] = 0 THEN p[1]
                   ELSE Greatest(Common(p[1], p[2]))
    OBVIOUS
  <2> HIDE DEF G
  <2> QED BY <1>1, <2>1, <2>2
<1>3. G = [p \in Nat \X Nat |-> G[p]]
  OBVIOUS
<1> HIDE DEF G
<1> QED BY <1>2, <1>3 DEF Euclid

LEMMA gcdEquation == Euclid(Buffer!gcd)
<1>1. Buffer!gcd = CHOOSE g : Euclid(g)
  BY DEF Buffer!gcd, Euclid
<1> QED BY <1>1, EuclidSolvable, Zenon

LEMMA gcdStep ==
    ASSUME NEW a \in Nat, NEW b \in Nat
    PROVE  Buffer!gcd[<<a, b>>] = IF a = 0 THEN b
                ELSE IF b = 0 THEN a
                ELSE IF a > b THEN Buffer!gcd[<<a % b, b>>]
                ELSE Buffer!gcd[<<a, b % a>>]
BY gcdEquation DEF Euclid

(* The gcd of the code divides both numbers and is a combination of them. *)
GcdOf(g, a, b) ==
    /\ g \in Nat /\ Divides(g, a) /\ Divides(g, b)
    /\ \E x, y \in Int : g = x * a + y * b
    /\ a # 0 \/ b # 0 => g # 0

LEMMA GcdOfRemainder ==
    ASSUME NEW g \in Nat, NEW a \in Nat, NEW b \in Nat \ {0}, GcdOf(g, a % b, b)
    PROVE  GcdOf(g, a, b)
<1> DEFINE q == a \div b
           r == a % b
<1>1. a = r + q * b /\ q \in Int /\ r \in Int
  BY Remainder
<1>2. Divides(g, a)
  BY CommonRemainder DEF GcdOf
<1>3. PICK x \in Int, y \in Int : g = x * r + y * b
  BY DEF GcdOf
<1> HIDE DEF q, r
<1>4. g = x * a + (y - x * q) * b
  <2>1. x * a = x * r + x * (q * b)
    BY <1>1
  <2>2. (y - x * q) * b = y * b - x * (q * b)
    BY <1>1
  <2>3. x * a \in Int /\ x * r \in Int /\ x * (q * b) \in Int /\ y * b \in Int
    BY <1>1
  <2> QED BY <1>3, <2>1, <2>2, <2>3
<1>5. y - x * q \in Int
  BY <1>1
<1>6. \E u, v \in Int : g = u * a + v * b
  BY <1>4, <1>5
<1> QED BY <1>2, <1>6 DEF GcdOf

LEMMA GcdOfSwap ==
    ASSUME NEW g, NEW a \in Nat, NEW b \in Nat, GcdOf(g, a, b)
    PROVE  GcdOf(g, b, a)
<1>1. PICK x \in Int, y \in Int : g = x * a + y * b
  BY DEF GcdOf
<1>2. g = y * b + x * a
  BY <1>1
<1> QED BY <1>2 DEF GcdOf

LEMMA gcdCorrect == \A a, b \in Nat : GcdOf(Buffer!gcd[<<a, b>>], a, b)
<1> DEFINE Wrong == {n \in Nat : \E a, b \in Nat : a + b = n /\ ~GcdOf(Buffer!gcd[<<a, b>>], a, b)}
<1>1. SUFFICES ASSUME Wrong # {} PROVE FALSE
  <2>1. Wrong = {}
    BY <1>1
  <2>2. ASSUME NEW a \in Nat, NEW b \in Nat PROVE GcdOf(Buffer!gcd[<<a, b>>], a, b)
    <3>1. a + b \notin Wrong
      <4> HIDE DEF Wrong
      <4> QED BY <2>1
    <3> QED BY <3>1
  <2> QED BY <2>2
<1>2. PICK n \in Wrong : \A m \in Wrong : n <= m
  BY <1>1, Least, Zenon
<1>3. PICK a \in Nat, b \in Nat : a + b = n /\ ~GcdOf(Buffer!gcd[<<a, b>>], a, b)
  OBVIOUS
<1>4. \A c, d \in Nat : c + d < n => GcdOf(Buffer!gcd[<<c, d>>], c, d)
  <2> SUFFICES ASSUME NEW c \in Nat, NEW d \in Nat, c + d < n, ~GcdOf(Buffer!gcd[<<c, d>>], c, d)
               PROVE  FALSE
    OBVIOUS
  <2>1. c + d \in Nat /\ ~(n <= c + d)
    BY <1>3
  <2>2. c + d \in Wrong
    BY <2>1
  <2> HIDE DEF Wrong
  <2> QED BY <1>2, <2>1, <2>2
<1> HIDE DEF Wrong
<1>5. \A k \in Nat : Divides(k, k) /\ Divides(k, 0)
  BY \A k \in Nat : k = k * 1 /\ 0 = k * 0 DEF Divides
<1>6. CASE a = 0
  <2>1. Buffer!gcd[<<a, b>>] = b
    BY <1>6, gcdStep
  <2>2. b = 0 * a + 1 * b
    OBVIOUS
  <2>3. GcdOf(b, a, b)
    BY <1>5, <1>6, <2>2 DEF GcdOf
  <2> QED BY <1>3, <2>1, <2>3
<1>7. CASE a # 0 /\ b = 0
  <2>1. Buffer!gcd[<<a, b>>] = a
    BY <1>7, gcdStep
  <2>2. a = 1 * a + 0 * b
    OBVIOUS
  <2>3. GcdOf(a, a, b)
    BY <1>5, <1>7, <2>2 DEF GcdOf
  <2> QED BY <1>3, <2>1, <2>3
<1>8. CASE a # 0 /\ b # 0 /\ a > b
  <2>1. Buffer!gcd[<<a, b>>] = Buffer!gcd[<<a % b, b>>]
    BY <1>8, gcdStep
  <2>2. a % b \in Nat /\ (a % b) + b < n
    BY <1>3, <1>8, Remainder
  <2>3. GcdOf(Buffer!gcd[<<a % b, b>>], a % b, b)
    BY <1>4, <2>2
  <2>4. Buffer!gcd[<<a % b, b>>] \in Nat /\ b \in Nat \ {0}
    BY <1>8, <2>3 DEF GcdOf
  <2> QED BY <1>3, <2>1, <2>3, <2>4, GcdOfRemainder
<1>9. CASE a # 0 /\ b # 0 /\ ~(a > b)
  <2>1. Buffer!gcd[<<a, b>>] = Buffer!gcd[<<a, b % a>>]
    BY <1>9, gcdStep
  <2>2. b % a \in Nat /\ a + (b % a) < n
    BY <1>3, <1>9, Remainder
  <2>3. GcdOf(Buffer!gcd[<<a, b % a>>], a, b % a)
    BY <1>4, <2>2
  <2>4. Buffer!gcd[<<a, b % a>>] \in Nat /\ a \in Nat \ {0}
    BY <1>9, <2>3 DEF GcdOf
  <2>5. GcdOf(Buffer!gcd[<<a, b % a>>], b, a)
    BY <2>2, <2>3, <2>4, GcdOfSwap, GcdOfRemainder
  <2> QED BY <1>3, <2>1, <2>5, <2>4, GcdOfSwap
<1> QED BY <1>6, <1>7, <1>8, <1>9

LEMMA Cancel ==
    ASSUME NEW a \in Int, NEW b \in Int, NEW c \in Int \ {0}, a * c = b * c
    PROVE  a = b
<1>1. (a - b) * c = 0
  OBVIOUS
<1> QED BY <1>1

(* Nothing is cut off where the divisor divides. *)
LEMMA ExactQuotient ==
    ASSUME NEW g \in Nat \ {0}, NEW k \in Int
    PROVE  (g * k) \div g = k
OBVIOUS

(* r is x Kths *)
Is(r, x, K) == /\ r.num \in Int /\ r.denom \in Nat \ {0}
               /\ K * r.num = x * r.denom

(* A reduction keeps the value and leaves no common factor. *)
LEMMA reduceExact ==
    ASSUME NEW n \in Int, NEW d \in Int \ {0}
    PROVE  /\ Buffer!reduce(n, d).num \in Int /\ Buffer!reduce(n, d).denom \in Nat \ {0}
           /\ Buffer!reduce(n, d).num * d = n * Buffer!reduce(n, d).denom
           /\ Buffer!gcd[<<Buffer!Abs(Buffer!reduce(n, d).num), Buffer!reduce(n, d).denom>>] = 1
<1> DEFINE sign == IF d < 0 THEN -1 ELSE 1
           g == Buffer!gcd[<<Buffer!Abs(n), Buffer!Abs(d)>>]
           num == Buffer!reduce(n, d).num
           denom == Buffer!reduce(n, d).denom
<1>1. Buffer!Abs(n) \in Nat /\ Buffer!Abs(d) \in Nat \ {0} /\ sign * d = Buffer!Abs(d)
  BY DEF Buffer!Abs
<1>2. GcdOf(g, Buffer!Abs(n), Buffer!Abs(d)) /\ g \in Nat \ {0}
  BY <1>1, gcdCorrect DEF GcdOf
<1>3. PICK k \in Int : Buffer!Abs(n) = g * k
  BY <1>2 DEF GcdOf, Divides
<1>4. PICK l \in Int : Buffer!Abs(d) = g * l
  BY <1>2 DEF GcdOf, Divides
<1>5. num = (sign * n) \div g /\ denom = (sign * d) \div g
  BY DEF Buffer!reduce
<1>6. PICK m \in Int : sign * n = g * m /\ (m = k \/ m = -k)
  <2>1. sign * n = Buffer!Abs(n) \/ sign * n = -Buffer!Abs(n)
    BY DEF Buffer!Abs
  <2>2. -(g * k) = g * (-k)
    BY <1>2
  <2> HIDE DEF sign, g
  <2>3. CASE sign * n = Buffer!Abs(n)
    BY <1>3, <2>3
  <2>4. CASE sign * n = -Buffer!Abs(n)
    BY <1>3, <2>2, <2>4
  <2> QED BY <2>1, <2>3, <2>4
<1>7. num = m /\ denom = l
  <2> HIDE DEF num, denom, g, sign
  <2>1. (g * m) \div g = m /\ (g * l) \div g = l
    BY <1>2, ExactQuotient
  <2> QED BY <1>1, <1>4, <1>5, <1>6, <2>1
<1>8. l > 0
  BY <1>1, <1>2, <1>4
<1>9. num * d = n * denom
  <2>1. sign * d = g * l /\ sign * n = g * m
    BY <1>1, <1>4, <1>6
  <2>2. sign \in {-1, 1}
    OBVIOUS
  <2> HIDE DEF sign, g, num, denom
  <2>3. (sign * n) * l = (sign * d) * m
    BY <2>1, <1>2
  <2>4. n * l = d * m
    BY <2>2, <2>3
  <2> QED BY <1>7, <2>4
<1>10. Buffer!gcd[<<Buffer!Abs(num), denom>>] = 1
  <2>1. Buffer!Abs(num) = k
    <3>1. k >= 0
      BY <1>1, <1>2, <1>3
    <3> QED BY <1>6, <1>7, <3>1 DEF Buffer!Abs
  <2> DEFINE h == Buffer!gcd[<<k, l>>]
  <2>2. k \in Nat /\ l \in Nat /\ GcdOf(h, k, l) /\ h \in Nat \ {0}
    <3>1. k >= 0
      BY <1>1, <1>2, <1>3
    <3>2. k \in Nat /\ l \in Nat \ {0}
      BY <1>8, <3>1
    <3>3. GcdOf(h, k, l)
      BY <3>2, gcdCorrect, Zenon
    <3> QED BY <3>2, <3>3 DEF GcdOf
  <2>3. PICK x \in Int, y \in Int : g = x * Buffer!Abs(n) + y * Buffer!Abs(d)
    BY <1>2 DEF GcdOf
  <2> HIDE DEF h, g
  <2>4. PICK u \in Int : k = h * u
    BY <2>2 DEF GcdOf, Divides
  <2>5. PICK v \in Int : l = h * v
    BY <2>2 DEF GcdOf, Divides
  <2>6. 1 = x * k + y * l
    <3>1. 1 * g = (x * k + y * l) * g
      <4>1. x * Buffer!Abs(n) = (x * k) * g /\ y * Buffer!Abs(d) = (y * l) * g
        BY <1>2, <1>3, <1>4
      <4> QED BY <1>2, <2>3, <4>1
    <3> QED BY <3>1, <1>2, Cancel
  <2>7. 1 = h * (x * u + y * v)
    <3>1. x * k = h * (x * u) /\ y * l = h * (y * v)
      BY <2>2, <2>4, <2>5
    <3> QED BY <2>2, <2>6, <3>1
  <2>8. h = 1
    <3> DEFINE w == x * u + y * v
    <3>1. h \in Nat \ {0} /\ w \in Int /\ 1 = h * w
      BY <2>2, <2>7
    <3> HIDE DEF w
    <3> QED BY <3>1
  <2> QED BY <1>7, <2>1, <2>8 DEF h
<1> QED BY <1>7, <1>8, <1>9, <1>10

LEMMA reduceForm ==
    \A n \in Int, d \in Int \ {0} : \E e \in Int, f \in Nat \ {0} :
       Buffer!reduce(n, d).num = e /\ Buffer!reduce(n, d).denom = f /\ e * d = n * f
BY reduceExact

LEMMA lcmExact ==
    ASSUME NEW a \in Nat \ {0}, NEW b \in Nat \ {0}
    PROVE  \E i, j \in Nat \ {0} : /\ Buffer!lcm(a, b) = a * i /\ Buffer!lcm(a, b) = b * j
                                   /\ Buffer!lcm(a, b) \in Nat \ {0}
                                   /\ Buffer!lcm(a, b) \div a = i /\ Buffer!lcm(a, b) \div b = j
<1> DEFINE g == Buffer!gcd[<<a, b>>]
           cd == Buffer!lcm(a, b)
<1>1. GcdOf(g, a, b) /\ g \in Nat \ {0}
  BY gcdCorrect DEF GcdOf
<1>2. PICK k \in Int : a = g * k
  BY <1>1 DEF GcdOf, Divides
<1>3. PICK l \in Int : b = g * l
  BY <1>1 DEF GcdOf, Divides
<1>4. cd = (a * b) \div g
  BY DEF Buffer!lcm
<1> HIDE DEF g, cd
<1>5. k > 0 /\ l > 0
  BY <1>1, <1>2, <1>3
<1>6. a * b = g * (a * l) /\ a * l \in Int
  BY <1>1, <1>3
<1>7. cd = a * l
  BY <1>1, <1>4, <1>6, ExactQuotient
<1>8. cd = b * k
  <2>1. a * l = g * (k * l) /\ b * k = g * (k * l)
    BY <1>1, <1>2, <1>3
  <2> QED BY <1>7, <2>1
<1>9. cd \in Nat \ {0}
  BY <1>5, <1>7
<1>10. cd \div a = l /\ cd \div b = k
  BY <1>7, <1>8, ExactQuotient
<1> QED BY <1>5, <1>7, <1>8, <1>9, <1>10 DEF cd

(* Sums, products and parts are exact. *)
LEMMA PlusExact ==
    ASSUME NEW r, NEW s, NEW K \in Nat \ {0}, NEW x \in Int, NEW y \in Int,
           Is(r, x, K), Is(s, y, K)
    PROVE  Is(Buffer!Plus(r, s), x + y, K)
<1> DEFINE cd == Buffer!lcm(r.denom, s.denom)
           n == r.num * (cd \div r.denom) + s.num * (cd \div s.denom)
           t == Buffer!reduce(n, cd)
<1>0. PICK a \in Int, b \in Nat \ {0} : r.num = a /\ r.denom = b /\ K * a = x * b
  BY DEF Is
<1>1. PICK c \in Int, d \in Nat \ {0} : s.num = c /\ s.denom = d /\ K * c = y * d
  BY DEF Is
<1>2. PICK i \in Nat \ {0}, j \in Nat \ {0} :
         /\ cd = b * i /\ cd = d * j /\ cd \in Nat \ {0}
         /\ cd \div b = i /\ cd \div d = j
  <2>1. cd = Buffer!lcm(b, d)
    BY <1>0, <1>1
  <2> HIDE DEF cd
  <2> QED BY <2>1, lcmExact
<1>3. n = a * i + c * j /\ n \in Int
  <2> HIDE DEF cd
  <2> QED BY <1>0, <1>1, <1>2
<1>4. Buffer!Plus(r, s) = t
  BY DEF Buffer!Plus
<1> HIDE DEF cd, n
<1>5. PICK e \in Int, f \in Nat \ {0} : t.num = e /\ t.denom = f /\ e * cd = n * f
  <2>1. n \in Int /\ cd \in Int \ {0}
    BY <1>2, <1>3
  <2> QED BY <2>1, reduceForm
<1> HIDE DEF t
<1>6. K * n = (x + y) * cd
  <2>1. K * (a * i) = x * cd
    <3>1. K * (a * i) = (K * a) * i
      BY <1>0, <1>1
    <3>2. (K * a) * i = x * (b * i)
      BY <1>0, <1>1
    <3> QED BY <3>1, <3>2, <1>2
  <2>2. K * (c * j) = y * cd
    <3>1. K * (c * j) = (K * c) * j
      BY <1>0, <1>1
    <3>2. (K * c) * j = y * (d * j)
      BY <1>0, <1>1
    <3> QED BY <3>1, <3>2, <1>2
  <2>3. K * n = K * (a * i) + K * (c * j)
    BY <1>0, <1>1, <1>3
  <2>4. (x + y) * cd = x * cd + y * cd
    BY <1>2
  <2> QED BY <2>1, <2>2, <2>3, <2>4
<1>7. (K * e) * cd = ((x + y) * f) * cd
  <2>1. (K * e) * cd = K * (n * f)
    BY <1>2, <1>5
  <2>2. K * (n * f) = (K * n) * f
    BY <1>3, <1>5
  <2>3. ((x + y) * cd) * f = ((x + y) * f) * cd
    BY <1>2, <1>5
  <2> QED BY <1>6, <2>1, <2>2, <2>3
<1>8. K * e = (x + y) * f
  BY <1>2, <1>5, <1>7, Cancel
<1> QED BY <1>4, <1>5, <1>8 DEF Is

LEMMA TimesExact ==
    ASSUME NEW r, NEW s, NEW J \in Nat \ {0}, NEW K \in Nat \ {0},
           NEW x \in Int, NEW y \in Int, Is(r, x, J), Is(s, y, K)
    PROVE  Is(Buffer!Times(r, s), x * y, J * K)
<1>0. PICK a \in Int, b \in Nat \ {0} : r.num = a /\ r.denom = b /\ J * a = x * b
  BY DEF Is
<1>1. PICK c \in Int, d \in Nat \ {0} : s.num = c /\ s.denom = d /\ K * c = y * d
  BY DEF Is
<1> DEFINE n == a * c
           m == b * d
           t == Buffer!reduce(n, m)
           JK == J * K
           xy == x * y
<1>2. n \in Int /\ m \in Nat \ {0} /\ m \in Int \ {0} /\ JK \in Int /\ xy \in Int
  OBVIOUS
<1>3. Buffer!Times(r, s) = t
  BY <1>0, <1>1 DEF Buffer!Times
<1>4. JK * n = xy * m
  <2>1. JK * n = (J * a) * (K * c)
    OBVIOUS
  <2>2. (x * b) * (y * d) = xy * m
    OBVIOUS
  <2> QED BY <1>0, <1>1, <2>1, <2>2
<1> HIDE DEF n, m, JK, xy
<1>5. PICK e \in Int, f \in Nat \ {0} : t.num = e /\ t.denom = f /\ e * m = n * f
  BY <1>2, reduceForm
<1> HIDE DEF t
<1>6. (JK * e) * m = (xy * f) * m
  <2>1. (JK * e) * m = JK * (n * f)
    BY <1>2, <1>5
  <2>2. JK * (n * f) = (JK * n) * f
    BY <1>2
  <2>3. (xy * m) * f = (xy * f) * m
    BY <1>2
  <2> QED BY <1>4, <2>1, <2>2, <2>3
<1>7. JK * e = xy * f
  <2> DEFINE u == JK * e
             v == xy * f
  <2>1. u \in Int /\ v \in Int /\ u * m = v * m
    BY <1>2, <1>6
  <2> HIDE DEF u, v
  <2>2. u = v
    BY <1>2, <2>1, Cancel
  <2> QED BY <2>2 DEF u, v
<1>8. Is(t, xy, JK)
  BY <1>5, <1>7 DEF Is
<1> QED BY <1>3, <1>8 DEF JK, xy

LEMMA HalfExact ==
    ASSUME NEW r, NEW K \in Nat \ {0}, NEW x \in Int, Is(r, x, K)
    PROVE  Is(Buffer!Over(r, Buffer!Whole(2)), x, 2 * K)
<1>1. Buffer!inverse(Buffer!Whole(2)) = Buffer!reduce(1, 2)
  BY DEF Buffer!inverse, Buffer!Whole, Buffer!Ratio
<1>2. Is(Buffer!reduce(1, 2), 1, 2)
  <2>1. /\ Buffer!reduce(1, 2).num \in Int /\ Buffer!reduce(1, 2).denom \in Nat \ {0}
        /\ Buffer!reduce(1, 2).num * 2 = 1 * Buffer!reduce(1, 2).denom
    <3>1. 1 \in Int /\ 2 \in Int \ {0}
      OBVIOUS
    <3> QED BY <3>1, reduceExact, Zenon
  <2> QED BY <2>1 DEF Is
<1>3. Is(Buffer!Times(r, Buffer!reduce(1, 2)), x * 1, K * 2)
  BY <1>2, TimesExact
<1> QED BY <1>1, <1>3 DEF Buffer!Over

LEMMA PartOfQuotient ==
    ASSUME NEW n \in Nat, NEW d \in Nat \ {0}, NEW K \in Nat \ {0}, NEW x \in Nat,
           K * n = x * d
    PROVE  n \div d = x \div K /\ K * (n % d) = (x % K) * d
<1> DEFINE q == n \div d
           m == n % d
           z == x - K * q
<1>1. n = d * q + m /\ m \in 0 .. d - 1 /\ q \in Nat
  BY Remainder
<1> HIDE DEF q, m
<1>2. z \in Int /\ x = K * q + z
  BY <1>1
<1>3. z * d = K * m
  <2>1. K * n = (K * q) * d + K * m
    BY <1>1
  <2>2. z * d = x * d - (K * q) * d
    BY <1>1
  <2>3. x * d \in Int /\ (K * q) * d \in Int /\ K * m \in Int
    BY <1>1
  <2> QED BY <2>1, <2>2, <2>3
<1> HIDE DEF z
<1>4. z \in 0 .. K - 1
  <2>1. K * m >= 0 /\ K * m < K * d
    BY <1>1
  <2>2. z >= 0
    BY <1>2, <1>3, <2>1
  <2>3. z < K
    BY <1>2, <1>3, <2>1
  <2> QED BY <1>2, <2>2, <2>3
<1>5. x \div K = q /\ x % K = z
  BY <1>1, <1>2, <1>4
<1> QED BY <1>3, <1>5 DEF q, m

LEMMA SameOrder ==
    ASSUME NEW a \in Int, NEW b \in Nat \ {0}, NEW c \in Int, NEW d \in Nat \ {0},
           a * d = c * b
    PROVE  a < b <=> c < d
<1>1. a < b <=> a * d < b * d
  OBVIOUS
<1>2. c < d <=> c * b < d * b
  OBVIOUS
<1> QED BY <1>1, <1>2

LEMMA PartsExact ==
    ASSUME NEW r, NEW K \in Nat \ {0}, NEW x \in Nat, Is(r, x, K)
    PROVE  /\ Buffer!integer_part(r) = x \div K /\ Buffer!integer_part(r) \in Nat
           /\ Buffer!less_than_one_half(Buffer!fractional_part(r)) <=> 2 * (x % K) < K
<1>1. PICK n \in Nat, d \in Nat \ {0} : r.num = n /\ r.denom = d /\ K * n = x * d
  <2>1. PICK n \in Int, d \in Nat \ {0} : r.num = n /\ r.denom = d /\ K * n = x * d
    BY DEF Is
  <2>2. x * d >= 0
    OBVIOUS
  <2>3. n >= 0
    BY <2>1, <2>2
  <2> QED BY <2>1, <2>3
<1> DEFINE m == n % d
           f == Buffer!reduce(m, d)
<1>3. n \div d = x \div K /\ K * m = (x % K) * d
  <2>1. K * n = x * d
    BY <1>1
  <2>2. n \div d = x \div K /\ K * (n % d) = (x % K) * d
    BY <2>1, PartOfQuotient, Zenon
  <2> QED BY <2>2
<1>4. n \div d \in Nat /\ m \in Nat /\ x % K \in Nat
  <2>1. n \div d \in Nat /\ m \in 0 .. d - 1
    BY Remainder, Zenon
  <2>2. x % K \in 0 .. K - 1
    BY Remainder, Zenon
  <2> QED BY <2>1, <2>2
<1>5. Buffer!integer_part(r) = n \div d /\ Buffer!fractional_part(r) = f
  <2>1. (IF n > 0 THEN n \div d ELSE -((-n) \div d)) = n \div d
    OBVIOUS
  <2>2. (IF n > 0 THEN n % d ELSE -((-n) % d)) = m
    OBVIOUS
  <2> QED BY <1>1, <2>1, <2>2 DEF Buffer!integer_part, Buffer!fractional_part, Buffer!Ratio
<1> HIDE DEF m
<1>6. PICK e \in Int, g \in Nat \ {0} : f.num = e /\ f.denom = g /\ e * d = m * g
  <2>1. m \in Int /\ d \in Int \ {0}
    BY <1>4
  <2> QED BY <2>1, reduceForm
<1> HIDE DEF f
<1>7. Buffer!less_than_one_half(f) <=> 2 * m < d
  <2>1. (2 * e) * d = (2 * m) * g
    BY <1>4, <1>6
  <2>2. 2 * e < g <=> 2 * m < d
    <3> DEFINE a == 2 * e
               c == 2 * m
    <3>1. a \in Int /\ c \in Int /\ a * d = c * g
      BY <1>4, <2>1
    <3> HIDE DEF a, c
    <3>2. a < g <=> c < d
      BY <3>1, SameOrder
    <3> QED BY <3>2 DEF a, c
  <2> QED BY <1>6, <2>2 DEF Buffer!less_than_one_half
<1>8. 2 * m < d <=> 2 * (x % K) < K
  <2> DEFINE a == 2 * m
             c == 2 * (x % K)
  <2>1. a \in Int /\ c \in Int /\ a * K = c * d
    <3> DEFINE z == x % K
    <3>1. z \in Nat /\ K * m = z * d
      BY <1>3, <1>4
    <3> HIDE DEF z
    <3>2. (2 * m) * K = (2 * z) * d
      BY <1>4, <3>1
    <3> QED BY <1>4, <3>2 DEF z
  <2> HIDE DEF a, c
  <2>2. a < d <=> c < K
    BY <2>1, SameOrder
  <2> QED BY <2>2 DEF a, c
<1> QED BY <1>3, <1>4, <1>5, <1>7, <1>8

(* One number has one form in lowest terms. *)
LEMMA LowestUnique ==
    ASSUME NEW a \in Int, NEW b \in Nat \ {0}, NEW c \in Int, NEW d \in Nat \ {0},
           Buffer!gcd[<<Buffer!Abs(a), b>>] = 1, Buffer!gcd[<<Buffer!Abs(c), d>>] = 1,
           a * d = c * b
    PROVE  a = c /\ b = d
<1>1. ASSUME NEW m \in Int, NEW n \in Nat \ {0}, NEW k \in Int, NEW l \in Nat \ {0},
             Buffer!gcd[<<Buffer!Abs(m), n>>] = 1, m * l = k * n
      PROVE  l >= n
  <2>1. Buffer!Abs(m) \in Nat /\ (Buffer!Abs(m) = m \/ Buffer!Abs(m) = -m)
    BY DEF Buffer!Abs
  <2>2. PICK x \in Int, y \in Int : 1 = x * Buffer!Abs(m) + y * n
    <3>1. GcdOf(Buffer!gcd[<<Buffer!Abs(m), n>>], Buffer!Abs(m), n)
      BY <2>1, gcdCorrect, n \in Nat, Zenon
    <3> QED BY <1>1, <3>1 DEF GcdOf
  <2>3. PICK u \in Int : 1 = u * m + y * n
    <3>1. CASE Buffer!Abs(m) = m
      BY <2>2, <3>1
    <3>2. CASE Buffer!Abs(m) = -m
      <4>1. x * (-m) = (-x) * m /\ -x \in Int
        OBVIOUS
      <4>2. 1 = (-x) * m + y * n
        BY <2>2, <3>2, <4>1
      <4> QED BY <4>1, <4>2
    <3> QED BY <2>1, <3>1, <3>2
  <2>4. l = n * (u * k + y * l)
    <3>1. (u * m + y * n) * l = u * (m * l) + n * (y * l)
      OBVIOUS
    <3>2. u * (k * n) = n * (u * k)
      OBVIOUS
    <3>3. (u * m + y * n) * l = l
      BY <2>3
    <3>4. n * (u * k) + n * (y * l) = n * (u * k + y * l)
      OBVIOUS
    <3> QED BY <1>1, <3>1, <3>2, <3>3, <3>4
  <2>5. Divides(n, l)
    BY <2>4 DEF Divides
  <2> QED BY <2>5, DivisorBound
<1>2. d >= b /\ b >= d
  <2>1. d >= b
    BY <1>1
  <2>2. c * b = a * d
    OBVIOUS
  <2>3. b >= d
    BY <1>1, <2>2
  <2> QED BY <2>1, <2>3
<1>3. b = d
  BY <1>2
<1>4. a = c
  BY <1>3, Cancel
<1> QED BY <1>3, <1>4

Fractions == [num : Int, denom : Nat \ {0}]

LEMMA reduceLowest ==
    ASSUME NEW n \in Int, NEW d \in Int \ {0}
    PROVE  /\ Buffer!reduce(n, d) \in Fractions
           /\ Buffer!IsLowest(Buffer!reduce(n, d))
<1> DEFINE t == Buffer!reduce(n, d)
<1>1. t.num \in Int /\ t.denom \in Nat \ {0}
      /\ Buffer!gcd[<<Buffer!Abs(t.num), t.denom>>] = 1
  BY reduceExact
<1>2. t = [num |-> t.num, denom |-> t.denom]
  BY DEF Buffer!reduce
<1> HIDE DEF t
<1>3. t \in Fractions
  BY <1>1, <1>2 DEF Fractions
<1>4. Buffer!IsLowest(t)
  BY <1>1 DEF Buffer!IsLowest
<1> QED BY <1>3, <1>4 DEF t

LEMMA SameRational ==
    ASSUME NEW r \in Fractions, NEW s \in Fractions,
           Buffer!IsLowest(r), Buffer!IsLowest(s),
           r.num * s.denom = s.num * r.denom
    PROVE  r = s
<1>1. PICK a \in Int, b \in Nat \ {0} : a = r.num /\ b = r.denom
  BY DEF Fractions
<1>2. PICK c \in Int, d \in Nat \ {0} : c = s.num /\ d = s.denom
  BY DEF Fractions
<1>3. Buffer!gcd[<<Buffer!Abs(a), b>>] = 1 /\ Buffer!gcd[<<Buffer!Abs(c), d>>] = 1
  BY <1>1, <1>2, Zenon DEF Buffer!IsLowest
<1>4. a * d = c * b
  BY <1>1, <1>2
<1>5. a = c /\ b = d
  BY <1>3, <1>4, LowestUnique
<1>6. r = [num |-> a, denom |-> b]
  BY <1>1 DEF Fractions
<1>7. s = [num |-> c, denom |-> d]
  BY <1>2 DEF Fractions
<1> QED BY <1>5, <1>6, <1>7

LEMMA ExactLowest ==
    ASSUME NEW r \in Fractions, NEW s \in Fractions,
           Buffer!IsLowest(r), Buffer!IsLowest(s),
           NEW k \in Nat \ {0}, Is(s, r.num * k, r.denom * k)
    PROVE  s = r
<1>1. PICK a \in Int, b \in Nat \ {0} : a = r.num /\ b = r.denom
  BY DEF Fractions
<1>2. PICK c \in Int, d \in Nat \ {0} : c = s.num /\ d = s.denom
  BY DEF Fractions
<1>3. (b * k) * c = (a * k) * d
  BY <1>1, <1>2 DEF Is
<1>4. (c * b) * k = (a * d) * k
  <2>1. (b * k) * c = (c * b) * k /\ (a * k) * d = (a * d) * k
    OBVIOUS
  <2> QED BY <1>3, <2>1
<1>5. c * b = a * d
  <2> DEFINE u == c * b
             v == a * d
  <2>1. u \in Int /\ v \in Int /\ u * k = v * k
    BY <1>4
  <2> HIDE DEF u, v
  <2>2. u = v
    BY <2>1, Cancel
  <2> QED BY <2>2 DEF u, v
<1>6. s.num * r.denom = r.num * s.denom
  BY <1>1, <1>2, <1>5
<1> QED BY <1>6, SameRational

LEMMA SumExact ==
    ASSUME NEW r \in Fractions, NEW s \in Fractions
    PROVE  /\ Buffer!IsLowest(Buffer!Plus(r, s))
           /\ Buffer!Plus(r, s) \in Fractions
           /\ Buffer!Plus(r, s).num * r.denom * s.denom
                = (r.num * s.denom + s.num * r.denom) * Buffer!Plus(r, s).denom
<1>1. PICK a \in Int, b \in Nat \ {0} : a = r.num /\ b = r.denom
  BY DEF Fractions
<1>2. PICK c \in Int, d \in Nat \ {0} : c = s.num /\ d = s.denom
  BY DEF Fractions
<1> DEFINE sum == Buffer!Plus(r, s)
           cd == Buffer!lcm(b, d)
           n == a * (cd \div b) + c * (cd \div d)
<1>3. sum = Buffer!reduce(n, cd)
  BY <1>1, <1>2 DEF Buffer!Plus
<1>4. cd \in Int \ {0} /\ n \in Int
  <2>1. PICK i \in Nat \ {0}, j \in Nat \ {0} :
           cd \in Nat \ {0} /\ cd \div b = i /\ cd \div d = j
    BY lcmExact
  <2> HIDE DEF cd
  <2> QED BY <2>1
<1>5. Buffer!IsLowest(sum) /\ sum \in Fractions
  <2> HIDE DEF n, cd
  <2> QED BY <1>3, <1>4, reduceLowest
<1> DEFINE K == b * d
           x == a * d
           y == c * b
<1>6. Is(sum, x + y, K)
  <2>1. K \in Nat \ {0} /\ x \in Int /\ y \in Int
    OBVIOUS
  <2>2. K * a = x * b /\ K * c = y * d
    OBVIOUS
  <2>3. Is(r, x, K) /\ Is(s, y, K)
    BY <1>1, <1>2, <2>2 DEF Is
  <2> HIDE DEF K, x, y
  <2> QED BY <2>1, <2>3, PlusExact
<1>7. PICK e \in Int, f \in Nat \ {0} : e = sum.num /\ f = sum.denom
  BY <1>5 DEF Fractions
<1>8. e * b * d = (a * d + c * b) * f
  <2>1. (b * d) * e = (a * d + c * b) * f
    BY <1>6, <1>7 DEF Is
  <2>2. (b * d) * e = e * b * d
    OBVIOUS
  <2> QED BY <2>1, <2>2
<1> HIDE DEF sum
<1>9. sum.num * r.denom * s.denom = (r.num * s.denom + s.num * r.denom) * sum.denom
  BY <1>1, <1>2, <1>7, <1>8
<1> QED BY <1>5, <1>9 DEF sum

LEMMA TimesLowest ==
    ASSUME NEW r \in Fractions, NEW s \in Fractions
    PROVE  Buffer!Times(r, s) \in Fractions /\ Buffer!IsLowest(Buffer!Times(r, s))
<1>1. PICK a \in Int, b \in Nat \ {0} : a = r.num /\ b = r.denom
  BY DEF Fractions
<1>2. PICK c \in Int, d \in Nat \ {0} : c = s.num /\ d = s.denom
  BY DEF Fractions
<1>3. Buffer!Times(r, s) = Buffer!reduce(a * c, b * d)
  BY <1>1, <1>2 DEF Buffer!Times
<1>4. a * c \in Int /\ b * d \in Int \ {0}
  OBVIOUS
<1> QED BY <1>3, <1>4, reduceLowest

LEMMA QuotientExact ==
    ASSUME NEW r \in Fractions, NEW s \in Fractions, Buffer!IsLowest(r), s.num > 0
    PROVE  Buffer!Times(Buffer!Over(r, s), s) = r
<1>1. PICK a \in Int, b \in Nat \ {0} : a = r.num /\ b = r.denom
  BY DEF Fractions
<1>2. PICK c \in Nat \ {0}, d \in Nat \ {0} : c = s.num /\ d = s.denom
  BY DEF Fractions
<1> DEFINE t == Buffer!inverse(s)
           o == Buffer!Over(r, s)
           u == Buffer!Times(o, s)
<1>3. t = Buffer!reduce(d, c) /\ t \in Fractions
  <2>1. t = Buffer!reduce(d, c)
    BY <1>2 DEF Buffer!inverse, Buffer!Ratio
  <2>2. d \in Int /\ c \in Int \ {0}
    OBVIOUS
  <2> QED BY <2>1, <2>2, reduceLowest
<1>4. Is(t, d, c)
  <2>1. PICK e \in Int, f \in Nat \ {0} : t.num = e /\ t.denom = f /\ e * c = d * f
    BY <1>3, reduceForm
  <2>2. c * e = d * f
    BY <2>1
  <2> QED BY <2>1, <2>2 DEF Is
<1>5. Is(r, a, b) /\ Is(s, c, d)
  <2>1. b * a = a * b /\ d * c = c * d
    OBVIOUS
  <2> QED BY <1>1, <1>2, <2>1 DEF Is
<1>6. o = Buffer!Times(r, t)
  BY DEF Buffer!Over
<1>7. o \in Fractions /\ Is(o, a * d, b * c)
  BY <1>3, <1>4, <1>5, <1>6, TimesExact, TimesLowest
<1> HIDE DEF o, t
<1>8. u \in Fractions /\ Buffer!IsLowest(u) /\ Is(u, (a * d) * c, (b * c) * d)
  <2>1. u \in Fractions /\ Buffer!IsLowest(u)
    BY <1>7, TimesLowest
  <2> DEFINE x == a * d
             J == b * c
  <2>2. x \in Int /\ J \in Nat \ {0} /\ Is(o, x, J)
    BY <1>7
  <2> HIDE DEF x, J
  <2>3. Is(u, x * c, J * d)
    BY <1>5, <2>2, TimesExact
  <2> QED BY <2>1, <2>3 DEF x, J
<1> HIDE DEF u
<1>9. /\ (a * d) * c = a * (c * d) /\ (b * c) * d = b * (c * d)
      /\ c * d \in Nat \ {0}
  OBVIOUS
<1>10. Is(u, r.num * (c * d), r.denom * (c * d))
  BY <1>1, <1>8, <1>9
<1> DEFINE k == c * d
<1>11. k \in Nat \ {0} /\ Is(u, r.num * k, r.denom * k)
  BY <1>9, <1>10
<1> HIDE DEF k
<1>12. u = r
  BY <1>8, <1>11, ExactLowest
<1> QED BY <1>12 DEF u, o

LEMMA WholeAndFraction ==
    ASSUME NEW r \in Fractions, Buffer!IsLowest(r)
    PROVE  /\ Buffer!Plus(Buffer!Whole(Buffer!integer_part(r)), Buffer!fractional_part(r)) = r
           /\ Buffer!Abs(Buffer!fractional_part(r).num) < Buffer!fractional_part(r).denom
<1>1. PICK a \in Int, b \in Nat \ {0} : a = r.num /\ b = r.denom
  BY DEF Fractions
<1> DEFINE q == Buffer!integer_part(r)
           f == Buffer!fractional_part(r)
           sum == Buffer!Plus(Buffer!Whole(q), f)
<1>2. PICK m \in Int : /\ f = Buffer!reduce(m, b) /\ q \in Int
                       /\ a = q * b + m /\ -b < m /\ m < b
  <2>1. CASE a > 0
    <3>1. q = a \div b /\ f = Buffer!reduce(a % b, b)
      BY <1>1, <2>1 DEF Buffer!integer_part, Buffer!fractional_part, Buffer!Ratio
    <3>2. a = b * (a \div b) + (a % b) /\ a % b \in 0 .. b - 1 /\ a \div b \in Nat
      <4>1. a \in Nat
        BY <2>1
      <4> HIDE DEF q, f
      <4> QED BY <4>1, Remainder
    <3>3. a % b \in Int /\ -b < a % b /\ a % b < b /\ b * (a \div b) = (a \div b) * b
      BY <3>2
    <3> QED BY <3>1, <3>2, <3>3
  <2>2. CASE ~(a > 0)
    <3> DEFINE na == -a
               w == na \div b
               z == na % b
    <3>1. q = -w /\ f = Buffer!reduce(-z, b)
      BY <1>1, <2>2 DEF Buffer!integer_part, Buffer!fractional_part, Buffer!Ratio
    <3>2. na \in Nat
      BY <2>2
    <3>3. na = b * w + z /\ z \in 0 .. b - 1 /\ w \in Nat
      <4> HIDE DEF na
      <4> QED BY <3>2, Remainder
    <3> HIDE DEF w, z, q, f
    <3>4. (-w) * b = -(b * w)
      BY <3>3
    <3>5. a = (-w) * b + (-z) /\ -z \in Int /\ -b < -z /\ -z < b /\ -w \in Int
      BY <3>3, <3>4
    <3> QED BY <3>1, <3>5
  <2> QED BY <2>1, <2>2
<1> HIDE DEF q, f
<1>3. b \in Int \ {0}
  OBVIOUS
<1>4. f \in Fractions
  BY <1>2, <1>3, reduceLowest
<1>5. PICK g \in Int, h \in Nat \ {0} : f.num = g /\ f.denom = h /\ g * b = m * h
  BY <1>2, <1>3, reduceForm
<1>6. Buffer!Abs(g) < h
  <2>1. m * h < b * h /\ -(m * h) < b * h
    <3>1. (-m) * h < b * h
      BY <1>2
    <3> QED BY <1>2, <3>1
  <2>2. g * b < h * b /\ (-g) * b < h * b
    BY <1>5, <2>1
  <2>3. g < h
    BY <2>2
  <2>4. -g < h
    BY <2>2
  <2> QED BY <2>3, <2>4 DEF Buffer!Abs
<1>7. Buffer!Abs(f.num) < f.denom
  BY <1>5, <1>6
<1>8. Buffer!Whole(q) \in Fractions
  BY <1>2 DEF Buffer!Whole, Fractions
<1>9. sum \in Fractions /\ Buffer!IsLowest(sum)
  BY <1>4, <1>8, SumExact
<1>10. Is(sum, a, b)
  <2> DEFINE x == q * b
  <2>1. x \in Int /\ Is(Buffer!Whole(q), x, b)
    <3>1. b * q = (q * b) * 1
      BY <1>2
    <3> QED BY <1>2, <3>1 DEF Buffer!Whole, Is
  <2>2. Is(f, m, b)
    <3>1. b * g = m * h
      BY <1>5
    <3> QED BY <1>5, <3>1 DEF Is
  <2>3. x + m = a
    BY <1>2
  <2> HIDE DEF x
  <2>4. Is(sum, x + m, b)
    BY <2>1, <2>2, PlusExact
  <2> QED BY <2>3, <2>4
<1> HIDE DEF sum
<1>11. sum = r
  <2>1. Is(sum, r.num * 1, r.denom * 1)
    BY <1>1, <1>10
  <2>2. 1 \in Nat \ {0}
    OBVIOUS
  <2> QED BY <1>9, <2>1, <2>2, ExactLowest
<1> QED BY <1>7, <1>11 DEF sum, q, f

(* The program's arithmetic on positions and speeds is exact, for all      *)
(* numbers in lowest terms: sums, quotients, and the parts a number is cut *)
(* into (rational.cpp:58-205).                                             *)
THEOREM RationalArithmeticExact ==
    ASSUME NEW S, \A r \in S : r \in Fractions /\ Buffer!IsLowest(r)
    PROVE  Buffer!RationalsExact(S)
<1> SUFFICES ASSUME NEW r \in S, NEW s \in S
             PROVE  /\ Buffer!IsLowest(Buffer!Plus(r, s))
                    /\ Buffer!Plus(r, s).num * r.denom * s.denom
                         = (r.num * s.denom + s.num * r.denom) * Buffer!Plus(r, s).denom
                    /\ s.num > 0 => Buffer!Times(Buffer!Over(r, s), s) = r
                    /\ Buffer!Plus(Buffer!Whole(Buffer!integer_part(r)),
                                   Buffer!fractional_part(r)) = r
                    /\ Buffer!Abs(Buffer!fractional_part(r).num)
                         < Buffer!fractional_part(r).denom
  BY DEF Buffer!RationalsExact
<1>1. /\ r \in Fractions /\ Buffer!IsLowest(r)
      /\ s \in Fractions
  OBVIOUS
<1> QED BY <1>1, SumExact, QuotientExact, WholeAndFraction, Zenon

-----------------------------------------------------------------------------
(* A shot *)

(* A field's advance, in 48ths of a frame. *)
Half == Buffer!HalfOf(speed)

(* What is left in the FIFO of sound and what the allocator is off, in     *)
(* tenths of a sample.                                                     *)
Left == 10 * fill_level + 2 * Drift(counter)

(* The sound is ahead of the picture by what is left in the FIFO at the    *)
(* present speed, and by what every change of speed added to that.         *)
Shift == 1280 * Buffer!HalfOf(pos_offset) - 8008 * (exact - 48 * shot_start) - Half * Left

ShotType ==
    /\ Half \in 0 .. 72 /\ Is(speed, Half, 24)
    /\ Buffer!HalfOf(pos_offset) \in Int /\ Is(pos_offset, Buffer!HalfOf(pos_offset), 24)
    /\ exact \in Nat /\ shot_start \in Nat /\ changes \in Nat
    /\ counter \in 0 .. 4 /\ fill_level \in 0 .. 127

(* Where the loop of a frame has come, and which fields it has taken. *)
PlaceInShot ==
    CASE at = "first"  -> Is(shot_pos, exact, 48)
      [] at = "second" -> /\ Is(shot_pos, exact + Half, 48)
                          /\ fields = <<Buffer!ExactField(exact)>>
      [] at = "sound"  -> /\ Is(shot_pos, exact + 2 * Half, 48)
                          /\ fields = <<Buffer!ExactField(exact),
                                        Buffer!ExactField(exact + Half)>>

(* A hop's sound at the highest speed of the shuttle is what a change adds. *)
MostLeft == 1280
PerChange == 72 * MostLeft

(* The invariant of a shot that is rolled. *)
ShotPlace ==
    source \in {"none", "rolling"} =>
      /\ ShotType
      /\ at \in {"first", "second", "sound"} /\ PlaceInShot
      /\ source = "none" => at = "first" /\ exact = 48 * shot_start
      /\ channel # Buffer!Silent =>
           Shift \in -(PerChange * changes) .. PerChange * changes

LEMMA MultipleExact ==
    ASSUME NEW r, NEW x \in Int, Is(r, x, 24), NEW c \in Nat, NEW e \in Nat, e = 24 * c
    PROVE  (e * r.num) \div r.denom = c * x
<1>1. PICK n \in Int, d \in Nat \ {0} : r.num = n /\ r.denom = d /\ 24 * n = x * d
  BY DEF Is
<1>2. e * n = d * (c * x)
  <2>1. (24 * c) * n = c * (24 * n)
    OBVIOUS
  <2>2. c * (x * d) = d * (c * x)
    OBVIOUS
  <2> QED BY <1>1, <2>1, <2>2
<1>3. (d * (c * x)) \div d = c * x
  <2>1. c * x \in Int
    OBVIOUS
  <2> QED BY <2>1, ExactQuotient, Zenon
<1> QED BY <1>1, <1>2, <1>3

LEMMA HalfOfExact ==
    ASSUME NEW r, NEW x \in Int, Is(r, x, 24)
    PROVE  /\ Buffer!HalfOf(r) = x
           /\ (48 * r.num) \div r.denom = 2 * x
           /\ (240 * Buffer!fft_hop * r.num) \div r.denom = 1280 * x
<1>1. \A c, e \in Nat : e = 24 * c => (e * r.num) \div r.denom = c * x
  BY MultipleExact, Zenon
<1>2. (24 * r.num) \div r.denom = 1 * x
  BY <1>1
<1>3. (48 * r.num) \div r.denom = 2 * x
  BY <1>1
<1>4. ((240 * 128) * r.num) \div r.denom = 1280 * x
  BY <1>1
<1>5. 1 * x = x
  OBVIOUS
<1> QED BY <1>2, <1>3, <1>4, <1>5, Zenon DEF Buffer!HalfOf, Buffer!fft_hop

LEMMA WholeExact ==
    ASSUME NEW n \in Int, NEW K \in Nat \ {0}
    PROVE  Is(Buffer!Whole(n), K * n, K)
BY DEF Is, Buffer!Whole

(* The shuttle's speeds are whole 24ths, three times the normal at most. *)
LEMMA ShuttleSpeeds ==
    \A s \in {Rationals!Ratio(Speeds[t], 24) : t \in Turns} :
       \E k \in 0 .. 72 : Is(s, k, 24)
<1> SUFFICES ASSUME NEW t \in Turns
             PROVE  \E k \in 0 .. 72 : Is(Rationals!Ratio(Speeds[t], 24), k, 24)
  OBVIOUS
<1> DEFINE k == Speeds[t]
<1>1. k \in 0 .. 72
  <2>1. t \in 1 .. 13
    BY ShotAssumption DEF Speeds
  <2> QED BY <2>1 DEF Speeds
<1> HIDE DEF k
<1>2. Rationals!Ratio(k, 24) = Buffer!reduce(k, 24)
  BY DEF Rationals!Ratio, Rationals!reduce, Rationals!Abs, Rationals!gcd,
         Buffer!reduce, Buffer!Abs, Buffer!gcd
<1>3. Is(Buffer!reduce(k, 24), k, 24)
  <2>1. k \in Int /\ 24 \in Int \ {0}
    BY <1>1
  <2>2. PICK e \in Int, f \in Nat \ {0} :
           /\ Buffer!reduce(k, 24).num = e /\ Buffer!reduce(k, 24).denom = f
           /\ e * 24 = k * f
    BY <2>1, reduceForm
  <2> QED BY <1>1, <2>2 DEF Is
<1> QED BY <1>1, <1>2, <1>3 DEF k

(* The field at a position is the one the code finds there. *)
LEMMA FieldExact ==
    ASSUME NEW r, NEW x \in Nat, Is(r, x, 48)
    PROVE  /\ Buffer!FieldAt(r) = Buffer!ExactField(x)
           /\ Buffer!integer_part(r) = Buffer!ExactField(x).frame
<1>1. /\ Buffer!integer_part(r) = x \div 48
      /\ Buffer!less_than_one_half(Buffer!fractional_part(r)) <=> 2 * (x % 48) < 48
  BY PartsExact, 48 \in Nat \ {0}, Zenon
<1>2. (IF 2 * (x % 48) < 48 THEN 0 ELSE 1) = (x % 48) \div 24
  OBVIOUS
<1>3. Buffer!FieldAt(r) = [frame |-> x \div 48, field |-> (x % 48) \div 24]
  BY <1>1, <1>2, Zenon DEF Buffer!FieldAt
<1> QED BY <1>1, <1>3 DEF Buffer!ExactField

LEMMA HalfStepExact ==
    ASSUME NEW p, NEW x \in Int, Is(p, x, 48), NEW s, NEW k \in Int, Is(s, k, 24)
    PROVE  Is(Buffer!Plus(p, Buffer!HalfStep(s)), x + k, 48)
<1>1. Is(Buffer!HalfStep(s), k, 2 * 24)
  BY HalfExact, 24 \in Nat \ {0}, Zenon DEF Buffer!HalfStep
<1>2. Is(Buffer!HalfStep(s), k, 48)
  BY <1>1, 2 * 24 = 48
<1> QED BY <1>2, PlusExact, 48 \in Nat \ {0}, Zenon

LEMMA PlaceStarts == MCInit => ShotPlace
<1> SUFFICES ASSUME MCInit, source \in {"none", "rolling"} PROVE ShotPlace
  BY DEF ShotPlace
<1>1. Buffer!BufferInit
  BY DEF MCInit, Buffer!BufferAbsent, Buffer!Rest
<1>2. /\ source = "none" /\ at = "first" /\ shot_pos = Buffer!Whole(0)
      /\ speed = Buffer!Whole(1) /\ pos_offset = Buffer!Whole(0)
      /\ exact = 0 /\ shot_start = 0 /\ changes = 0 /\ counter = 0 /\ fill_level = 0
  BY <1>1 DEF Buffer!BufferInit, Buffer!Rest
<1>3. Is(speed, 24, 24) /\ Is(pos_offset, 0, 24) /\ Is(shot_pos, exact, 48)
  BY <1>2 DEF Is, Buffer!Whole
<1>4. Half = 24 /\ Buffer!HalfOf(pos_offset) = 0
  <2>1. 24 \in Int /\ 0 \in Int
    OBVIOUS
  <2>2. Buffer!HalfOf(speed) = 24 /\ Buffer!HalfOf(pos_offset) = 0
    BY <1>3, <2>1, HalfOfExact
  <2> QED BY <2>2 DEF Half
<1>5. ShotType
  BY <1>2, <1>3, <1>4 DEF ShotType
<1>6. Shift = 0
  BY <1>2, <1>4 DEF Shift, Left, Drift, Half
<1>7. Shift \in -(PerChange * changes) .. PerChange * changes
  BY <1>2, <1>6 DEF PerChange, MostLeft
<1> QED BY <1>2, <1>3, <1>5, <1>7 DEF ShotPlace, PlaceInShot

(* Steps that leave the shot where it is, or end it. *)
LEMMA PlaceKept ==
    ASSUME ShotPlace,
           \/ source' \notin {"none", "rolling"}
           \/ UNCHANGED <<source, at, shot_pos, speed, channel, fill_level, counter,
                          pos_offset, fields, changes, exact, shot_start>>
    PROVE  ShotPlace'
<1>1. CASE source' \notin {"none", "rolling"}
  BY <1>1 DEF ShotPlace
<1>2. CASE UNCHANGED <<source, at, shot_pos, speed, channel, fill_level, counter,
                       pos_offset, fields, changes, exact, shot_start>>
  <2>1. /\ Half' = Half /\ Buffer!HalfOf(pos_offset)' = Buffer!HalfOf(pos_offset)
        /\ Left' = Left
    BY <1>2 DEF Half, Buffer!HalfOf, Left, Drift
  <2>2. Shift' = Shift
    BY <1>2, <2>1 DEF Shift, Half
  <2>3. ShotType' = ShotType
    BY <1>2, <2>1 DEF ShotType, Is
  <2>4. PlaceInShot' = PlaceInShot
    BY <1>2, <2>1 DEF PlaceInShot, Is, Buffer!ExactField
  <2> QED BY <1>2, <2>2, <2>3, <2>4 DEF ShotPlace, Buffer!Silent
<1> QED BY <1>1, <1>2

LEMMA PlaceRolled ==
    ASSUME ShotPlace, NEW from \in Starts, Buffer!Roll(from)
    PROVE  ShotPlace'
<1>1. /\ source = "none" /\ source' = "rolling" /\ shot_pos' = Buffer!Whole(from)
      /\ exact' = 48 * from /\ shot_start' = from
      /\ UNCHANGED <<at, speed, channel, pos_offset, fill_level, counter, fields, changes>>
  BY DEF Buffer!Roll
<1>2. /\ ShotType /\ at = "first" /\ exact = 48 * shot_start
      /\ channel # Buffer!Silent => Shift \in -(PerChange * changes) .. PerChange * changes
  BY <1>1 DEF ShotPlace
<1>3. from \in Nat
  BY ShotAssumption
<1>4. Is(shot_pos', exact', 48)
  BY <1>1, <1>3, WholeExact
<1>5. Half' = Half /\ Buffer!HalfOf(pos_offset)' = Buffer!HalfOf(pos_offset)
      /\ Left' = Left
  BY <1>1 DEF Half, Buffer!HalfOf, Left, Drift
<1>6. ShotType'
  BY <1>1, <1>2, <1>3, <1>5 DEF ShotType, Is
<1>7. Shift' = Shift
  BY <1>1, <1>2, <1>3, <1>5 DEF Shift, Half, ShotType
<1> QED BY <1>1, <1>2, <1>4, <1>6, <1>7 DEF ShotPlace, PlaceInShot, Buffer!Silent

LEMMA ProductBounded ==
    ASSUME NEW a \in Nat, NEW b \in Nat, NEW u \in -a .. a, NEW v \in -b .. b
    PROVE  u * v \in -(a * b) .. a * b
<1> DEFINE w == -u
<1>1. CASE u >= 0
  <2>1. u * v <= u * b /\ u * v >= -(u * b)
    BY <1>1
  <2>2. u * b <= a * b
    BY <1>1
  <2>3. u * v \in Int /\ u * b \in Int /\ a * b \in Int
    OBVIOUS
  <2> QED BY <2>1, <2>2, <2>3
<1>2. CASE u < 0
  <2>1. w \in Nat /\ w <= a /\ u * v = -(w * v)
    BY <1>2
  <2> HIDE DEF w
  <2>2. w * v <= w * b /\ w * v >= -(w * b)
    BY <2>1
  <2>3. w * b <= a * b
    BY <2>1
  <2>4. w * v \in Int /\ w * b \in Int /\ a * b \in Int
    BY <2>1
  <2> QED BY <2>1, <2>2, <2>3, <2>4
<1> QED BY <1>1, <1>2

LEMMA LeftBounded ==
    ASSUME counter \in 0 .. 4, fill_level \in 0 .. 127
    PROVE  Left \in -4 .. 1274
<1>1. counter \in {0, 1, 2, 3, 4}
  OBVIOUS
<1>2. Drift(counter) \in -2 .. 2
  BY <1>1 DEF Drift
<1> QED BY <1>2 DEF Left

(* What is left of the old speed's sound is played at the new one. *)
LEMMA SpeedChanged ==
    ASSUME NEW h \in Int, NEW k \in 0 .. 72, NEW l \in 0 .. 72,
           NEW v \in -MostLeft .. MostLeft,
           NEW n \in Nat, h - k * v \in -(PerChange * n) .. PerChange * n
    PROVE  h - l * v \in -(PerChange * (n + 1)) .. PerChange * (n + 1)
<1> DEFINE u == k - l
           w == h - k * v
           x == u * v
<1>1. u \in -72 .. 72 /\ v \in Int
  BY DEF MostLeft
<1>2. 72 \in Nat /\ MostLeft \in Nat /\ PerChange \in Nat
  BY DEF PerChange, MostLeft
<1>3. x \in -PerChange .. PerChange
  <2> HIDE DEF u
  <2> QED BY <1>1, <1>2, ProductBounded, Zenon DEF PerChange
<1>4. h - l * v = w + x /\ w \in Int
  BY <1>1
<1>5. PerChange * (n + 1) = PerChange * n + PerChange /\ PerChange * n \in Int
  BY <1>2
<1>6. -(PerChange * n) <= w /\ w <= PerChange * n
  BY <1>4, <1>5
<1> HIDE DEF u, w, x
<1> QED BY <1>2, <1>3, <1>4, <1>5, <1>6

LEMMA PlaceFirstField ==
    ASSUME ShotPlace, NEW s \in {Rationals!Ratio(Speeds[t], 24) : t \in Turns},
           Buffer!FirstField(s)
    PROVE  ShotPlace'
<1>1. /\ source = "rolling" /\ at = "first" /\ at' = "second" /\ speed' = s
      /\ fields' = <<Buffer!FieldAt(shot_pos)>>
      /\ shot_pos' = Buffer!Plus(shot_pos, Buffer!HalfStep(s))
      /\ changes' = IF s = speed THEN changes ELSE changes + 1
      /\ UNCHANGED <<source, channel, pos_offset, fill_level, counter, exact, shot_start>>
  BY DEF Buffer!FirstField, Buffer!sound
<1>2. /\ ShotType /\ Is(shot_pos, exact, 48)
      /\ channel # Buffer!Silent => Shift \in -(PerChange * changes) .. PerChange * changes
  BY <1>1 DEF ShotPlace, PlaceInShot
<1>3. PICK k \in 0 .. 72 : Is(s, k, 24)
  BY ShuttleSpeeds
<1>4. Half' = k
  <2>1. k \in Int
    OBVIOUS
  <2>2. Buffer!HalfOf(s) = k
    BY <1>3, <2>1, HalfOfExact
  <2> QED BY <1>1, <2>2 DEF Half, Buffer!HalfOf
<1>5. Is(shot_pos', exact' + k, 48)
  <2>1. exact \in Int /\ k \in Int
    BY <1>2 DEF ShotType
  <2>2. Is(Buffer!Plus(shot_pos, Buffer!HalfStep(s)), exact + k, 48)
    BY <1>2, <1>3, <2>1, HalfStepExact
  <2> QED BY <1>1, <2>2
<1>6. fields' = <<Buffer!ExactField(exact)>>
  <2>1. exact \in Nat
    BY <1>2 DEF ShotType
  <2> QED BY <1>1, <1>2, <2>1, FieldExact
<1>7. Buffer!HalfOf(pos_offset)' = Buffer!HalfOf(pos_offset) /\ Left' = Left
  BY <1>1 DEF Buffer!HalfOf, Left, Drift
<1>8. ShotType'
  BY <1>1, <1>2, <1>3, <1>4, <1>7 DEF ShotType, Is
<1>9. ASSUME channel # Buffer!Silent
      PROVE  Shift' \in -(PerChange * changes') .. PerChange * changes'
  <2> DEFINE h == 1280 * Buffer!HalfOf(pos_offset) - 8008 * (exact - 48 * shot_start)
  <2>1. h \in Int /\ changes \in Nat /\ Half \in 0 .. 72
    BY <1>2 DEF ShotType
  <2>2. Left \in -4 .. 1274
    BY <1>2, LeftBounded DEF ShotType
  <2>3. Shift = h - Half * Left /\ Shift' = h - k * Left
    BY <1>1, <1>4, <1>7 DEF Shift, Half
  <2> HIDE DEF h
  <2>4. h - Half * Left \in -(PerChange * changes) .. PerChange * changes
    BY <1>2, <1>9, <2>3
  <2>5. CASE s = speed
    <3>1. k = Half /\ changes' = changes
      BY <1>1, <1>4, <2>5 DEF Half, Buffer!HalfOf
    <3> QED BY <2>3, <2>4, <3>1
  <2>6. CASE s # speed
    <3>1. changes' = changes + 1
      BY <1>1, <2>6
    <3>2. h - k * Left \in -(PerChange * (changes + 1)) .. PerChange * (changes + 1)
      <4>1. Left \in -MostLeft .. MostLeft
        BY <2>2 DEF MostLeft
      <4> QED BY <2>1, <2>4, <4>1, SpeedChanged, Zenon
    <3> QED BY <2>3, <3>1, <3>2
  <2> QED BY <2>5, <2>6
<1>10. PlaceInShot'
  BY <1>1, <1>4, <1>5, <1>6 DEF PlaceInShot, Buffer!ExactField
<1> QED BY <1>1, <1>8, <1>9, <1>10 DEF ShotPlace, Buffer!Silent

LEMMA Pair ==
    ASSUME NEW e, NEW f
    PROVE  Append(<<e>>, f) = <<e, f>>
<1> DEFINE S == {e, f}
           s == Append(<<e>>, f)
           t == <<e, f>>
<1>1. <<e>> \in Seq(S) /\ f \in S /\ t \in Seq(S)
  OBVIOUS
<1>2. s \in Seq(S) /\ Len(s) = 2 /\ s[1] = e /\ s[2] = f
  BY <1>1
<1>3. Len(t) = 2 /\ t[1] = e /\ t[2] = f
  OBVIOUS
<1> HIDE DEF s, t, S
<1>4. Len(s) = Len(t) /\ \A i \in 1 .. Len(s) : s[i] = t[i]
  BY <1>2, <1>3
<1>5. s = t
  BY <1>1, <1>2, <1>4, SeqEqual, Zenon
<1> QED BY <1>5 DEF s, t

LEMMA PlaceSecondField ==
    ASSUME ShotPlace, Buffer!SecondField
    PROVE  ShotPlace'
<1>1. /\ source = "rolling" /\ at = "second" /\ at' = "sound"
      /\ fields' = Append(fields, Buffer!FieldAt(shot_pos))
      /\ shot_pos' = Buffer!Plus(shot_pos, Buffer!HalfStep(speed))
      /\ UNCHANGED <<source, speed, channel, pos_offset, fill_level, counter, changes,
                     exact, shot_start>>
  BY DEF Buffer!SecondField, Buffer!sound, Buffer!history
<1>2. /\ ShotType /\ Is(shot_pos, exact + Half, 48) /\ fields = <<Buffer!ExactField(exact)>>
      /\ channel # Buffer!Silent => Shift \in -(PerChange * changes) .. PerChange * changes
  BY <1>1 DEF ShotPlace, PlaceInShot
<1>3. exact \in Nat /\ Half \in 0 .. 72 /\ exact + Half \in Nat /\ Is(speed, Half, 24)
  BY <1>2 DEF ShotType
<1>4. Half' = Half /\ Buffer!HalfOf(pos_offset)' = Buffer!HalfOf(pos_offset)
      /\ Left' = Left /\ Shift' = Shift
  BY <1>1 DEF Half, Buffer!HalfOf, Left, Drift, Shift
<1>5. Is(shot_pos', exact + 2 * Half, 48)
  <2>1. Is(shot_pos', (exact + Half) + Half, 48)
    <3>1. exact + Half \in Int /\ Half \in Int
      BY <1>3
    <3> QED BY <1>1, <1>2, <1>3, <3>1, HalfStepExact
  <2>2. (exact + Half) + Half = exact + 2 * Half
    BY <1>3
  <2> QED BY <2>1, <2>2
<1>6. fields' = <<Buffer!ExactField(exact), Buffer!ExactField(exact + Half)>>
  <2>1. Buffer!FieldAt(shot_pos) = Buffer!ExactField(exact + Half)
    BY <1>2, <1>3, FieldExact
  <2> QED BY <1>1, <1>2, <2>1, Pair, Zenon
<1>7. ShotType'
  BY <1>1, <1>2, <1>4 DEF ShotType, Is
<1>8. PlaceInShot'
  BY <1>1, <1>4, <1>5, <1>6 DEF PlaceInShot, Buffer!ExactField
<1> QED BY <1>1, <1>2, <1>4, <1>7, <1>8 DEF ShotPlace, Buffer!Silent

(* The packet of sound ends the frame, and the next one starts exactly. *)
LEMMA NextFrame ==
    ASSUME ShotType, PlaceInShot, at = "sound", Buffer!FrameDone
    PROVE  /\ exact' = exact + 2 * Half /\ exact' \in Nat
           /\ at' = "first" /\ Is(shot_pos', exact', 48)
           /\ Half' = Half /\ counter' = Buffer!next_frame(counter)
           /\ UNCHANGED <<source, speed, channel, changes, shot_start>>
<1>1. /\ counter' = Buffer!next_frame(counter) /\ at' = "first"
      /\ exact' = exact + (48 * speed.num) \div speed.denom
      /\ UNCHANGED <<source, shot_pos, speed, channel, changes, shot_start>>
  BY DEF Buffer!FrameDone, Buffer!sound
<1>2. Half \in 0 .. 72 /\ Half \in Int /\ Is(speed, Half, 24) /\ exact \in Nat
  BY DEF ShotType
<1>3. (48 * speed.num) \div speed.denom = 2 * Half
  BY <1>2, HalfOfExact
<1>4. Is(shot_pos, exact + 2 * Half, 48)
  BY DEF PlaceInShot
<1> QED BY <1>1, <1>2, <1>3, <1>4 DEF Half, Buffer!HalfOf

LEMMA PlaceSilence ==
    ASSUME ShotPlace, Buffer!FillSilence
    PROVE  ShotPlace'
<1>1. /\ source = "rolling" /\ at = "sound" /\ channel = Buffer!Silent
      /\ Buffer!FrameDone /\ UNCHANGED <<pos_offset, fill_level>>
  BY DEF Buffer!FillSilence
<1>2. ShotType /\ PlaceInShot
  BY <1>1 DEF ShotPlace
<1>3. /\ exact' = exact + 2 * Half /\ exact' \in Nat
      /\ at' = "first" /\ Is(shot_pos', exact', 48)
      /\ Half' = Half /\ counter' = Buffer!next_frame(counter)
      /\ UNCHANGED <<source, speed, channel, changes, shot_start>>
  BY <1>1, <1>2, NextFrame
<1>4. counter' \in 0 .. 4
  BY <1>2, <1>3 DEF ShotType, Buffer!next_frame
<1>5. ShotType'
  BY <1>1, <1>2, <1>3, <1>4 DEF ShotType, Is, Buffer!HalfOf
<1> QED BY <1>1, <1>3, <1>5 DEF ShotPlace, PlaceInShot, Buffer!Silent

(* The hops that are made for a packet. *)
LEMMA HopsNeeded ==
    ASSUME NEW a \in {1601, 1602}, NEW f \in 0 .. 127
    PROVE  /\ (a - f + 128 - 1) \div 128 \in Nat
           /\ f + ((a - f + 128 - 1) \div 128) * 128 - a \in 0 .. 127
OBVIOUS

LEMMA OffsetMoved ==
    ASSUME NEW p, NEW x \in Int, Is(p, x, 24), NEW s, NEW k \in Int, Is(s, k, 24),
           NEW n \in Int
    PROVE  Is(Buffer!Plus(p, Buffer!Times(Buffer!Whole(n), s)), x + n * k, 24)
<1>1. Is(Buffer!Whole(n), 1 * n, 1)
  BY WholeExact, 1 \in Nat \ {0}, Zenon
<1>2. Is(Buffer!Whole(n), n, 1)
  BY <1>1, 1 * n = n
<1>3. Is(Buffer!Times(Buffer!Whole(n), s), n * k, 1 * 24)
  BY <1>2, TimesExact, 1 \in Nat \ {0}, 24 \in Nat \ {0}, Zenon
<1>4. Is(Buffer!Times(Buffer!Whole(n), s), n * k, 24)
  BY <1>3, 1 * 24 = 24
<1>5. n * k \in Int
  OBVIOUS
<1> QED BY <1>4, <1>5, PlusExact, 24 \in Nat \ {0}, Zenon

LEMMA PlacePacket ==
    ASSUME ShotPlace, Buffer!FillPacket
    PROVE  ShotPlace'
<1> DEFINE a == Buffer!allocate(counter)
           n == Buffer!Needed
           P == Buffer!HalfOf(pos_offset)
<1>1. /\ source = "rolling" /\ at = "sound" /\ channel # Buffer!Silent
      /\ pos_offset' = Buffer!Plus(pos_offset, Buffer!Times(Buffer!Whole(n), speed))
      /\ fill_level' = fill_level + n * 128 - a
      /\ Buffer!FrameDone
  BY DEF Buffer!FillPacket, Buffer!fft_hop, Buffer!Silent
<1>2. ShotType /\ PlaceInShot /\ Shift \in -(PerChange * changes) .. PerChange * changes
  BY <1>1 DEF ShotPlace
<1>3. /\ exact' = exact + 2 * Half /\ exact' \in Nat
      /\ at' = "first" /\ Is(shot_pos', exact', 48)
      /\ Half' = Half /\ counter' = Buffer!next_frame(counter)
      /\ UNCHANGED <<source, speed, channel, changes, shot_start>>
  BY <1>1, <1>2, NextFrame
<1>4. /\ counter \in {0, 1, 2, 3, 4} /\ fill_level \in 0 .. 127 /\ P \in Int
      /\ Half \in 0 .. 72 /\ Half \in Int /\ exact \in Nat /\ shot_start \in Nat
      /\ changes \in Nat /\ Is(speed, Half, 24) /\ Is(pos_offset, P, 24)
  BY <1>2 DEF ShotType
<1>5. /\ a \in {1601, 1602} /\ counter' \in 0 .. 4
      /\ 2 * Drift(counter') = 2 * Drift(counter) + 10 * a - 16016
      /\ Drift(counter) \in Int /\ Drift(counter') \in Int
  BY <1>3, <1>4 DEF Buffer!allocate, Buffer!next_frame, Drift
<1>6. n = (a - fill_level + 128 - 1) \div 128
  BY DEF Buffer!Needed, Buffer!fft_hop
<1> HIDE DEF n, a, P
<1>7. n \in Nat /\ fill_level + n * 128 - a \in 0 .. 127
  BY <1>4, <1>5, <1>6, HopsNeeded
<1>8. Is(pos_offset', P + n * Half, 24)
  <2>1. n \in Int
    BY <1>7
  <2> QED BY <1>1, <1>4, <2>1, OffsetMoved, Zenon
<1>9. P' = P + n * Half
  <2>1. P + n * Half \in Int
    BY <1>4, <1>7
  <2>2. Buffer!HalfOf(pos_offset') = P + n * Half
    BY <1>8, <2>1, HalfOfExact
  <2> QED BY <2>2 DEF P, Buffer!HalfOf
<1>10. ShotType'
  <2>1. fill_level' \in 0 .. 127 /\ P' \in Int /\ Is(pos_offset', P', 24)
    BY <1>1, <1>4, <1>7, <1>8, <1>9
  <2> QED BY <1>3, <1>4, <1>5, <2>1 DEF ShotType, Is, P
<1>11. Shift' = Shift
  <2>1. Left' = Left + 1280 * n - 16016
    BY <1>1, <1>4, <1>5, <1>7 DEF Left, Drift
  <2>2. Shift = 1280 * P - 8008 * (exact - 48 * shot_start) - Half * Left
    BY DEF Shift, P, Half
  <2>3. Shift' = 1280 * P' - 8008 * (exact' - 48 * shot_start) - Half * Left'
    BY <1>3 DEF Shift, P, Half
  <2>4. Left \in Int
    BY <1>4, <1>5 DEF Left
  <2>5. Half * Left' = Half * Left + 1280 * (n * Half) - 16016 * Half
    BY <1>4, <1>7, <2>1, <2>4
  <2>6. n * Half \in Int /\ Half * Left \in Int
    BY <1>4, <1>7, <2>4
  <2> QED BY <1>3, <1>4, <1>9, <2>2, <2>3, <2>5, <2>6
<1> QED BY <1>1, <1>2, <1>3, <1>10, <1>11 DEF ShotPlace, PlaceInShot

LEMMA PlaceStep == ShotPlace /\ [MCNext]_allVars => ShotPlace'
<1> SUFFICES ASSUME ShotPlace, [MCNext]_allVars PROVE ShotPlace'
  OBVIOUS
<1>1. UNCHANGED bufferVars \/ Buffer!BufferNext
  BY DEF MCNext, allVars
<1>2. CASE UNCHANGED bufferVars
  BY <1>2, PlaceKept DEF bufferVars
<1>3. CASE Buffer!RecordPicture \/ Buffer!process_packet \/ Buffer!DestroyIngest
  BY <1>3, PlaceKept DEF Buffer!RecordPicture, Buffer!process_packet,
     Buffer!DestroyIngest, Buffer!sound, Buffer!history
<1>4. CASE Buffer!PictureMissing \/ Buffer!DecodeThrows \/ Buffer!SoundMissing \/ Buffer!Spins
  BY <1>4, PlaceKept DEF Buffer!PictureMissing, Buffer!DecodeThrows,
     Buffer!SoundMissing, Buffer!Spins, Buffer!Ends
<1> QED BY <1>1, <1>2, <1>3, <1>4, PlaceRolled, PlaceFirstField, PlaceSecondField,
           PlaceSilence, PlacePacket DEF Buffer!BufferNext, Buffer!fill_packet

(* However often the operator turns the shuttle on the way, each field of  *)
(* a shot is the one recorded at the exact position, and the sound stays   *)
(* within a hop of the picture for every change of speed, for shots and    *)
(* recordings of every length (replay_playout_buffer_source.cpp:35-98,     *)
(* replay_audio_buffer_playout.cpp:96-175, rational.cpp).                  *)
THEOREM ShotsPlayedExactly == MCSpec => []ShotPlayedExactly
<1>1. source # "rolling" => Buffer!FieldsExact /\ Buffer!SoundInStep
  <2>1. source # "rolling" => Buffer!FieldsExact
    BY DEF Buffer!FieldsExact
  <2>2. source # "rolling" => Buffer!SoundInStep
    BY DEF Buffer!SoundInStep
  <2> QED BY <2>1, <2>2
<1>2. ASSUME ShotPlace, source = "rolling"
      PROVE  Buffer!FieldsExact /\ Buffer!SoundInStep
  <2>1. ShotType /\ at \in {"first", "second", "sound"} /\ PlaceInShot
    BY <1>2 DEF ShotPlace
  <2>2. Buffer!FieldsExact
    <3>1. at = "first" => Buffer!integer_part(shot_pos) = Buffer!ExactField(exact).frame
      BY <2>1, FieldExact DEF ShotType, PlaceInShot
    <3>2. at = "second" => fields = <<Buffer!ExactField(exact)>>
      BY <2>1 DEF PlaceInShot
    <3>3. at = "sound" => fields = <<Buffer!ExactField(exact),
                                     Buffer!ExactField(exact + Buffer!HalfOf(speed))>>
      BY <2>1 DEF PlaceInShot, Half
    <3> QED BY <2>1, <3>1, <3>2, <3>3 DEF Buffer!FieldsExact
  <2>3. ASSUME at = "first", channel # Buffer!Silent
        PROVE  (240 * Buffer!fft_hop * pos_offset.num) \div pos_offset.denom
                  - 8008 * (exact - 48 * shot_start)
                 \in -(Buffer!OneHop * changes + Buffer!Slack)
                       .. Buffer!OneHop * (changes + 1) + Buffer!Slack
    <3> DEFINE P == Buffer!HalfOf(pos_offset)
               seen == 8008 * (exact - 48 * shot_start)
               hl == Half * Left
    <3>1. /\ P \in Int /\ Is(pos_offset, P, 24) /\ exact \in Nat /\ shot_start \in Nat
          /\ changes \in Nat /\ Half \in 0 .. 72 /\ counter \in 0 .. 4
          /\ fill_level \in 0 .. 127
      BY <2>1 DEF ShotType
    <3>2. (240 * Buffer!fft_hop * pos_offset.num) \div pos_offset.denom = 1280 * P
      BY <3>1, HalfOfExact
    <3>3. 1280 * P - seen = Shift + hl /\ seen \in Int
      <4>1. Left \in Int
        BY <3>1, LeftBounded
      <4>2. Shift = 1280 * P - seen - hl
        BY DEF Shift, Half
      <4>3. seen \in Int /\ hl \in Int
        BY <3>1, <4>1
      <4> HIDE DEF seen, hl, P
      <4> QED BY <3>1, <4>2, <4>3
    <3>4. hl >= -288 /\ hl <= 92160 /\ hl \in Int
      <4>1. Left >= -4 /\ Left <= 1280 /\ Left \in Int
        BY <3>1, LeftBounded
      <4>2. Half * Left >= Half * (-4) /\ Half * Left <= Half * 1280
        BY <3>1, <4>1
      <4> QED BY <3>1, <4>1, <4>2
    <3>5. Shift \in Int /\ Shift >= -(92160 * changes) /\ Shift <= 92160 * changes
      <4>1. Shift \in -(PerChange * changes) .. PerChange * changes
        BY <1>2, <2>3 DEF ShotPlace
      <4> QED BY <3>1, <4>1 DEF PerChange, MostLeft
    <3>6. Buffer!OneHop = 92160 /\ Buffer!Slack = 960
      BY DEF Buffer!OneHop, Buffer!Slack, Buffer!fft_hop
    <3> HIDE DEF seen, hl, P
    <3>7. 1280 * P - seen \in -(92160 * changes + 960) .. 92160 * (changes + 1) + 960
      BY <3>1, <3>3, <3>4, <3>5
    <3> QED BY <3>2, <3>6, <3>7 DEF seen
  <2>4. Buffer!SoundInStep
    BY <2>3 DEF Buffer!SoundInStep
  <2> QED BY <2>2, <2>4
<1>3. ShotPlace => ShotPlayedExactly
  BY <1>1, <1>2 DEF ShotPlayedExactly, Buffer!ShotPlayedExactly
<1> QED BY <1>3, PlaceStarts, PlaceStep, PTL DEF MCSpec
==============================================================================
