------------------------------ MODULE MCControl ------------------------------
(***************************************************************************)
(* What stands between an operator and the program: the replay server's    *)
(* two kinds of operators, a browser, a shot played from a buffer, and the *)
(* rollout's cue screen, file and subprocess.  One of them exists at a     *)
(* time.                                                                   *)
(***************************************************************************)
EXTENDS ReplayControl

CONSTANTS MaxSent, MaxClicks, SeekStep, MaxFrame,
          Pictures, PacketSamples, SoundPackets, MaxFrames, CueFiles, MaxLoads,
          Slots, AudioRoom, Lead,
          Recorded, MaxRecorded, Starts, Turns, ChannelNos, MaxRead, MaxChanges

VARIABLES page, served, events, sent, shown, request, clicks, start, length, offset,
          lavf, decodable, next_picture, next_sound, pending_video, pending_audio,
          frame, need, video_data, n_frames, samples_out,
          filename, pos, cue, new_file, new_pos, current_file, current_pos,
          do_update, monitor, loads,
          caller, child, lead, in_kernel, reader, fill, read_done, write_done,
          inherited,
          pictures, packets, samples_in, sound_index, closing, source, at, shot_pos,
          speed, cached, channel, origin_timecode, pos_offset, fill_level, counter,
          fields, n_read, changes, shot_start, exact

Rationals == INSTANCE Rational
Browser == INSTANCE ReplayBrowser
Cue == INSTANCE RolloutPreview
Avspipe == INSTANCE AvspipeSource
Buffer == INSTANCE ReplayBufferSource WITH pos <- shot_pos,
              ShotSpeeds <- {Rationals!Ratio(Speeds[t], 24) : t \in Turns}

browserVars == <<page, served, events, sent, shown, request, clicks, start, length,
                 offset>>
cueVars == <<lavf, decodable, next_picture, next_sound, pending_video, pending_audio,
             frame, need, video_data, n_frames, samples_out, filename, pos, cue,
             new_file, new_pos, current_file, current_pos, do_update, monitor, loads>>
avspipeVars == <<caller, child, lead, in_kernel, reader, fill, read_done, write_done,
                 inherited>>
bufferVars == <<pictures, packets, samples_in, sound_index, closing, source, at,
                shot_pos, speed, cached, channel, origin_timecode, pos_offset,
                fill_level, counter, fields, n_read, changes, shot_start, exact>>
allVars == <<vars, browserVars, cueVars, avspipeVars, bufferVars>>

(* The shuttle has these speeds, and a shot starts at a frame. *)
ASSUME ShotAssumption == Turns \subseteq DOMAIN Speeds /\ Starts \subseteq Nat

(* A kernel's pipe holds a packet at least. *)
ASSUME SourceAssumption ==
    Slots \in Nat /\ AudioRoom \in Nat \ {0} /\ Lead \in Nat

\* All numbers the speeds and the positions of a shot are made of.
ASSUME Rationals!RationalsExact(
    {Rationals!Ratio(n, d) : n \in -5 .. 9, d \in {1, 2, 3, 8, 16, 48}})

Kinds == {"local", "browser", "cue", "file", "subprocess", "shot"}

MCInit ==
    \E kind \in Kinds :
      /\ IF kind = "local" THEN ControlInit ELSE ControlAbsent
      /\ IF kind = "browser" THEN Browser!Init ELSE Browser!Absent
      /\ CASE kind = "cue" -> Cue!CueInit
           [] kind = "file" -> Cue!FileInit
           [] OTHER -> Cue!CueAbsent
      /\ IF kind = "subprocess" THEN Avspipe!Init ELSE Avspipe!Absent
      /\ IF kind = "shot" THEN Buffer!BufferInit ELSE Buffer!BufferAbsent

MCNext ==
    \/ ControlNext /\ UNCHANGED <<browserVars, cueVars, avspipeVars, bufferVars>>
    \/ Browser!Next /\ UNCHANGED <<vars, cueVars, avspipeVars, bufferVars>>
    \/ /\ Cue!CueNext \/ Cue!FileNext
       /\ UNCHANGED <<vars, browserVars, avspipeVars, bufferVars>>
    \/ Avspipe!Next /\ UNCHANGED <<vars, browserVars, cueVars, bufferVars>>
    \/ Buffer!BufferNext /\ UNCHANGED <<vars, browserVars, cueVars, avspipeVars>>

MCSpec ==
    /\ MCInit /\ [][MCNext]_allVars
    /\ Browser!Fairness /\ Cue!CueFairness /\ Avspipe!Fairness

ListCatchesUp == Browser!ListCatchesUp
ShotPlayedExactly == Buffer!ShotPlayedExactly
CueSettles == Cue!CueSettles
SoundKeepsStep == Cue!SoundKeepsStep
SourceReturns == Avspipe!SourceReturns
NoCrossedWait == Avspipe!NoCrossedWait
==============================================================================
