---------------------------- MODULE MCModuleLink ----------------------------
(* Instances of ModuleLink for TLC.  "note" is a message most modules select,
   "string" is that of SendToModule, "reply" that of Send_Reply. *)
EXTENDS ModuleLink

KindsValue == {"note", "string", "reply"}

AllSelect == [m \in Modules |-> KindsValue]
Nobody    == [m \in Modules |-> {}]
NewestOnly == [m \in Modules |-> IF m = InitModules THEN {"note"} ELSE {}]

(* input of modules and X events *)
PlainInputs == {<<"note">>, <<"kill">>, <<"wait", "note">>}
PlainEvents == {<<"note", "start">>, <<"wait", "note">>, <<"string", "kill">>}
SyncInputs  == {<<"note">>, <<"reply">>}
SyncEvents  == {<<"note">>, <<"wait", "note">>, <<"grab", "note", "ungrab", "string">>}
NoteEvents  == {<<"note">>}
KillInputs  == {<<"kill">>}
=============================================================================
