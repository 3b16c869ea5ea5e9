-------------------------- MODULE AvspipeAllocator --------------------------
(***************************************************************************)
(* AvspipeNTSCSyncAudioAllocator of avspipe/avspipe_allocators.cpp: the    *)
(* sizes of five consecutive packets of sound, as functions of its counter *)
(***************************************************************************)
EXTENDS Naturals

(* Mutant of next_frame: the sequence is not started again. *)
FrameNotReset(frame) == frame + 1

next_frame(frame) == IF frame + 1 >= 5 THEN 0 ELSE frame + 1

allocate(frame) == IF frame \in {1, 3} THEN 1601 ELSE 1602

channels == 2
=============================================================================
