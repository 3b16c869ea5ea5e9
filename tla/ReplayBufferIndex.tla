-------------------------- MODULE ReplayBufferIndex --------------------------
(***************************************************************************)
(* The index of replay/replay_buffer_index.cpp as a value: an array of     *)
(* entries [start, timestamp] of which the first `written' ones are        *)
(* published.  (The search for a time stamp takes time: ReplayBuffer.)     *)
(***************************************************************************)
EXTENDS Integers

NotFound == -1    \* ReplayFrameNotFoundException

(* get_frame_location and get_frame_timestamp test the frame the same way. *)
(* Mutant of Exists: the frame after the last one passes. *)
ExistsOneTooMany(written, frame) == frame <= written /\ frame >= 0

Exists(written, frame) == frame < written /\ frame >= 0

get_frame_location(data, written, frame) ==
    IF Exists(written, frame) THEN data[frame].start ELSE NotFound

get_frame_timestamp(data, written, frame) ==
    IF Exists(written, frame) THEN data[frame].timestamp ELSE NotFound

(* What timestamp_search is for: the last frame not newer than the stamp. *)
LastNotAfter(data, written, stamp) ==
    CHOOSE f \in 0 .. written - 1 :
        /\ data[f].timestamp <= stamp
        /\ \A g \in 0 .. written - 1 : data[g].timestamp <= stamp => g <= f
==============================================================================
