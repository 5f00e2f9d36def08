--------------------------- MODULE MessageChannel ---------------------------
(***************************************************************************)
(* What fvwm promises its modules: each has a channel that is open while   *)
(* fvwm keeps the module's record.  Messages are accepted and received in  *)
(* the same order, each once and none after the channel was closed.        *)
(***************************************************************************)
EXTENDS Integers, Sequences

CONSTANTS Modules, Kinds, InitModules

VARIABLES
    open,      \* the modules that fvwm has a record of
    sent,      \* per module: the messages that were accepted
    received   \* per module: how many of them have arrived completely

vars == <<open, sent, received>>

Init == /\ open = 1 .. InitModules
        /\ sent = [m \in Modules |-> <<>>]
        /\ received = [m \in Modules |-> 0]

Open(m) == /\ m \notin open /\ sent[m] = <<>>
           /\ open' = open \cup {m}
           /\ UNCHANGED <<sent, received>>

Send(m, k) == /\ m \in open
              /\ sent' = [sent EXCEPT ![m] = Append(@, k)]
              /\ UNCHANGED <<open, received>>

Receive(m) == /\ m \in open /\ received[m] < Len(sent[m])
              /\ received' = [received EXCEPT ![m] = @ + 1]
              /\ UNCHANGED <<open, sent>>

Close == /\ open' \in SUBSET open
         /\ UNCHANGED <<sent, received>>

Next == \/ \E m \in Modules : Open(m) \/ Receive(m)
        \/ \E m \in Modules, k \in Kinds : Send(m, k)
        \/ Close

Spec == Init /\ [][Next]_vars
=============================================================================
