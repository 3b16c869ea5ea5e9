--------------------------- MODULE MCReplayPlayout ---------------------------
(* Short sources: one clip, and a queue with an empty clip in the middle. *)
EXTENDS ReplayPlayout

MCClipLists == {<<2>>, <<1, 0, 1>>}
==============================================================================
