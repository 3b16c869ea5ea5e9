---------------------------- MODULE MCReplayBuffer ----------------------------
(***************************************************************************)
(* Two ways of making the buffers small: one camera whose records have two *)
(* lengths and whose program is restarted, for what lies on the file; and  *)
(* two cameras with records of one length in one run of the program, for   *)
(* the alignment of one with the other.  RecordFormat is checked besides.  *)
(***************************************************************************)
EXTENDS ReplayBuffer, RecordFormat, TLC

CONSTANTS camA, camB, camC

Recording == [buffers |-> {camC}, sizes |-> {2, 3}, frames |-> 3,
              clock |-> 1, sessions |-> 3]
Aligning == [buffers |-> {camA, camB}, sizes |-> {2}, frames |-> 4,
             clock |-> 4, sessions |-> 1]

MCBoth == {Recording, Aligning}
Symmetry == Permutations({camA, camB})

MCAligning == {[Aligning EXCEPT !.frames = 3, !.clock = 3]}
===============================================================================
