----------------------------- MODULE MCStackRing -----------------------------
(***************************************************************************)
(* Instances of StackRing for TLC.  There are a main window, its dialogue   *)
(* and a third window that may be a transient of either, of the root or of *)
(* nothing.                                                                *)
(***************************************************************************)
EXTENDS StackRing

CONSTANTS main, dialogue, third

MCHints == {<<dialogue, main>>, <<third, dialogue>>, <<third, main>>, <<third, Root>>}

MCLayerStyle == [w \in {main} |-> 2]

=============================================================================
