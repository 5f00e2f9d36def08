---------------------------- MODULE MCWindowLife ----------------------------
(* Instances of WindowLife for TLC. *)
EXTENDS WindowLife, TLC

CONSTANTS main, dialog, other, grump

MCLeader == [w \in Windows |-> IF w = dialog THEN main ELSE NoWindow]
=============================================================================
