------------------------------ MODULE MCReplay ------------------------------
(***************************************************************************)
(* What the operator of the replay works on, one of the two at a time: the *)
(* program's playout, or his preview.  Two cameras with two frames each    *)
(* and jumps that overshoot either end.  Overlays is checked besides.      *)
(***************************************************************************)
EXTENDS MCReplayPlayout, ReplayPreview, Overlays

VARIABLE works_on

MCCameras == {"A", "B"}
MCDeltas == {-2, 1, 3}

MCInit ==
    /\ works_on \in {"playout", "preview"}
    /\ Init
    /\ PreviewInit
    /\ works_on = "playout" => ~update_monitor

MCNext ==
    /\ UNCHANGED works_on
    /\ \/ works_on = "playout" /\ Next /\ UNCHANGED previewVars
       \/ works_on = "preview" /\ PreviewNext /\ UNCHANGED vars

(* As in FairSpec of ReplayPlayout. *)
PlayoutFairness ==
    /\ WF_vars(works_on = "playout" /\ Playout)
    /\ WF_vars(works_on = "playout" /\ OutputTakesVideo)
    /\ WF_vars(works_on = "playout" /\ OutputTakesAudio)
    /\ WF_vars(works_on = "playout" /\ DeleteOldSource)

(***************************************************************************)
(* The preview thread and the multiviewer are scheduled.  Nothing obliges  *)
(* the operator to act or a camera to record.                              *)
(***************************************************************************)
PreviewFairness ==
    /\ WF_previewVars(works_on = "preview" /\ Preview)
    /\ WF_previewVars(works_on = "preview" /\ Multiviewer)

MCSpec ==
    /\ MCInit /\ [][MCNext]_<<works_on, vars, previewVars>>
    /\ PlayoutFairness /\ PreviewFairness
==============================================================================
