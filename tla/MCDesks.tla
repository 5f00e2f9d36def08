------------------------------ MODULE MCDesks -------------------------------
(* Instances of Desks for TLC. *)
EXTENDS Desks, TLC

CONSTANTS editor, panel, home, away

\* Pages are only ever compared with each other.
AnyPage == Permutations(Pages)

(* Nothing but GotoDeskAndPage prev reads what it returns to, and that command *)
(* goes to every desk and page anyway; so states that differ in this only have *)
(* the same future, and one of them stands for all.                            *)
WithoutBack ==
    <<tracking, shared, [m \in Monitors |-> <<mon[m].desk, mon[m].page>>],
      win, focus, heard>>
=============================================================================
