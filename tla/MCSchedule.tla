----------------------------- MODULE MCSchedule -----------------------------
(* Instances of Schedule for TLC. *)
EXTENDS Schedule

CONSTANTS beep, chain, snooze
MCMinId == -2
MCIds == {7}

(* what each command does when it runs *)
Quiet      == [c \in {beep, chain} |-> IF c = chain THEN {"schedule"} ELSE {}]
Everything == [c \in {beep, snooze} |->
                IF c = snooze THEN {"schedule", "deschedule", "wait"} ELSE {}]
=============================================================================
