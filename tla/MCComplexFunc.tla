--------------------------- MODULE MCComplexFunc ---------------------------
(* Instances of ComplexFunc for TLC. *)
EXTENDS ComplexFunc, TLC

CONSTANTS outer, helper

Do(op) == [op |-> op]
Of(op, fn) == [op |-> op, fn |-> fn]
Item(cond, do) == [cond |-> cond, do |-> do]

MCItems ==
    {Item("i", Of("call", outer)), Item("i", Do("wait")),
     Item("i", Of("destroy", outer)), Item("i", Of("add", outer)), Item("i", Do("more")),
     Item("i", [op |-> "break", levels |-> 1]),
     Item("j", [op |-> "break", levels |-> -1]), Item("c", Do("other"))}
=============================================================================
