------------------------------- MODULE MCKeyer --------------------------------
(* The keyer with a card that plays sound, with two cards and a CG whose     *)
(* child chooses its level, and with a scripted CG; and how overlays are drawn.*)
EXTENDS Keyer, AlphaKey

MCPrograms == {[cgs |-> <<"plain">>, outputs |-> 1, audio |-> TRUE],
               [cgs |-> <<"subprocess">>, outputs |-> 2, audio |-> FALSE],
               [cgs |-> <<"plain", "js">>, outputs |-> 1, audio |-> FALSE]}
==============================================================================
