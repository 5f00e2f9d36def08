----------------------------- MODULE ModuleLink -----------------------------
(***************************************************************************)
(* fvwm's end of the pipes to its modules: fvwm/module_list.c,             *)
(* fvwm/module_interface.c and the module part of My_XNextEvent.           *)
(*                                                                         *)
(* Every operation here may run in the middle of every other one: a        *)
(* broadcast locks fvwm until the receiving module has answered, and until *)
(* then executes the commands that this module sends; a command may        *)
(* broadcast, kill and start modules, or run Wait, which enters the event  *)
(* loop again.  The C stack of these activations is the variable frames,   *)
(* oldest first:                                                           *)
(*   - "loop":  My_XNextEvent and its caller (HandleEvents or CMD_Wait)    *)
(*   - "cmd":   module_input_execute or the handler of an X event          *)
(*   - "bcast": one of the Broadcast functions, or CMD_SendToModule        *)
(*   - "sync":  PositiveWrite waiting for the module's unlock response     *)
(*   - "flush": FlushMessageQueue                                          *)
(* A message is Size units, of which a write takes as many as fit.         *)
(***************************************************************************)
EXTENDS Integers, Sequences, FiniteSets

CONSTANTS
    MaxModules,  \* bound: modules that are started
    InitModules, \* modules that the configuration starts
    Kinds,       \* types of messages
    Reply,       \* the type of message of Send_Reply
    Told,        \* the types that are flushed at once (SendToModule)
    Selects,     \* [module -> SUBSET Kinds]: MOD_PIPEMASK; {} if listen-only
    Locks,       \* [module -> SUBSET Kinds]: MOD_SYNCMASK
    NoGrab,      \* [module -> SUBSET Kinds]: MOD_NOGRABMASK
    Size,        \* units of a message
    Capacity,    \* units the pipe to a module holds
    Inputs,      \* what modules send: commands
    EventInputs, \* commands that are bound to X events
    Quits,       \* subset of BOOLEAN: may a module say that it quits?
    Exits,       \* may module processes die?
    MaxSends,    \* bound: commands that modules send
    MaxEvents    \* bound: X events

Modules == 1 .. MaxModules

(* A command is the sequence of what it does: broadcast a type of message,
   reply to the module it came from, or one of these. *)
Ops == Kinds \cup {"nop", "kill", "start", "wait", "grab", "ungrab"}

ASSUME LinkAssumption ==
    /\ MaxModules \in Nat \ {0} /\ InitModules \in 0 .. MaxModules
    /\ Size \in Nat \ {0} /\ Capacity \in Nat \ {0}
    /\ Reply \in Kinds /\ Told \subseteq Kinds
    /\ Kinds \cap {"nop", "kill", "start", "wait", "grab", "ungrab"} = {}
    /\ {Selects, Locks, NoGrab} \subseteq [Modules -> SUBSET Kinds]
    /\ Inputs \subseteq Seq(Ops) /\ EventInputs \subseteq Seq(Ops)
    /\ Quits \subseteq BOOLEAN /\ Exits \in BOOLEAN
    /\ MaxSends \in Nat /\ MaxEvents \in Nat

VARIABLES
    list,      \* module_list.  Modules are numbered in the order they start and
               \* the newest is inserted at the head, so the list is sorted.
    row,       \* death_row
    freed,     \* modules whose record was freed
    started,   \* number of modules started
    queue,     \* MOD_PIPEQUEUE, per module: the numbers of its messages
    done,      \* obj->done of the first message of the queue, per module
    pipe,      \* units in the pipe to the module
    inbox,     \* input in the pipe from the module
    running,   \* is the module's process alive?
    cqueue,    \* the command queue
    frames,    \* the C stack of activations
    grabs,     \* myxgrabcount
    budget,    \* what may still happen: [sends, events]
    log,       \* history: the messages PositiveWrite accepted, per module
    got        \* history: the units that the module's process has read

queues  == <<queue, done, log>>
records == <<list, row, freed, started>>
process == <<pipe, inbox, running, got>>
vars == <<records, queues, process, cqueue, frames, grabs, budget>>

-----------------------------------------------------------------------------
(* The stack *)

Depth   == Len(frames)
Top     == frames[Depth]
Callers == SubSeq(frames, 1, Depth - 1)
At(kind) == Top.kind = kind

Frame(kind, mod) == [kind |-> kind, mod |-> mod, pc |-> "select", itr |-> 0,
                     msg |-> Reply, no |-> 0, rest |-> <<>>,
                     in |-> {}, out |-> {}, seen |-> {}]
LoopFrame        == Frame("loop", 0)
CmdFrame(m, cmd) == [Frame("cmd", m) EXCEPT !.rest = cmd]
FlushFrame(m)    == Frame("flush", m)
SyncFrame(m, no) == [Frame("sync", m) EXCEPT !.no = no]

InLoop(pc) == At("loop") /\ Top.pc = pc
Become(f)  == [frames EXCEPT ![Depth] = f]
Return     == frames' = Callers
Call(f)    == frames' = Append(frames, f)

-----------------------------------------------------------------------------
(* The module list *)

(* module_list_itr_next: the module behind m *)
NextOf(m) == LET below == {x \in list : x < m}
             IN  IF below = {} THEN 0
                 ELSE CHOOSE x \in below : \A y \in below : y <= x

NextButOne(m) == NextOf(NextOf(m))   \* the slip of an iterator that steps twice
ItrNext(m) == NextOf(m)

(* module_list_itr_init *)
ItrFirst == NextOf(started + 1)

BroadcastFrame(k) == [Frame("bcast", 0) EXCEPT !.itr = ItrFirst, !.msg = k,
                                               !.no = started]

(* the orders in which a loop over the list may meet the modules of S *)
Orders(S) == {s \in [1 .. Cardinality(S) -> S] :
                 /\ \A i, j \in DOMAIN s : s[i] = s[j] => i = j
                 /\ \A m \in S : \E i \in DOMAIN s : s[i] = m}

(* the slip of putting a module on the death row once more *)
KillAgain(S) == list' = list \ S /\ \E s \in Orders(S) : row' = row \o s

(* the slip of taking the rest of the list off with the module *)
KillRest(S) == LET gone == {x \in list : \E m \in S \cap list : x <= m}
               IN  list' = list \ gone /\ \E s \in Orders(gone) : row' = row \o s

(* module_kill of each module of S: those still on the list move to the death
   row *)
Kill(S) == list' = list \ S /\ \E s \in Orders(S \cap list) : row' = row \o s

-----------------------------------------------------------------------------
(* Sending *)

(* PositiveWrite: does the module get a message of this type now ... *)
Accepts(m, k) == /\ k \in Selects[m]
                 /\ ~(k \in NoGrab[m] \cap Locks[m] /\ grabs > 0)

(* the slip of waiting for modules that do not answer this type *)
LocksAlways(m, k) == grabs = 0

(* ... and does fvwm wait for the answer? *)
LocksOn(m, k) == k \in Locks[m] /\ grabs = 0

(* the slip of adding a message in front *)
PutFirst(m, no) == <<no>> \o queue[m]
PutLast(m, no)  == Append(queue[m], no)

(* PositiveWrite, from an activation that goes on with the stack fs *)
PositiveWrite(m, k, fs) ==
    LET no == Len(log[m]) + 1
    IN  IF Accepts(m, k)
        THEN /\ log'   = [log EXCEPT ![m] = Append(@, k)]
             /\ queue' = [queue EXCEPT ![m] = PutLast(m, no)]
             /\ frames' = IF LocksOn(m, k)
                          THEN Append(Append(fs, SyncFrame(m, no)), FlushFrame(m))
                          ELSE fs
             /\ UNCHANGED done
        ELSE frames' = fs /\ UNCHANGED queues

(* One round of the loop of a Broadcast function or of CMD_SendToModule: the
   iterator moves on before the module is written to. *)
Broadcast ==
    LET m  == Top.itr
        fs == Become([Top EXCEPT !.itr = ItrNext(m), !.seen = Top.seen \cup {m}])
    IN  /\ At("bcast") /\ m \in list
        /\ \/ /\ Top.msg \in Told    \* m has another name
              /\ frames' = fs /\ UNCHANGED queues
           \/ PositiveWrite(m, Top.msg,
                            IF Top.msg \in Told THEN Append(fs, FlushFrame(m)) ELSE fs)
        /\ UNCHANGED <<records, process, cqueue, grabs, budget>>

BroadcastEnds == /\ At("bcast") /\ Top.itr = 0
                 /\ Return
                 /\ UNCHANGED <<records, queues, process, cqueue, grabs, budget>>

(* obj->done when n more units are written, 0 for the next message; and the slip
   of not starting at 0 again *)
DoneOn(m, n)    == done[m] + n
DoneAfter(m, n) == IF done[m] + n = Size THEN 0 ELSE done[m] + n

(* FlushMessageQueue: write() took n units.  A message goes when it is
   complete. *)
FlushWrites ==
    /\ At("flush")
    /\ LET m    == Top.mod
           from == (Head(queue[m]) - 1) * Size + done[m]
       IN  /\ queue[m] # <<>> /\ running[m]
           /\ \E n \in 1 .. Size - done[m] :
                 /\ Len(pipe[m]) + n <= Capacity
                 /\ pipe' = [pipe EXCEPT ![m] = @ \o [i \in 1 .. n |-> from + i]]
                 /\ done' = [done EXCEPT ![m] = DoneAfter(m, n)]
                 /\ queue' = IF done[m] + n = Size
                             THEN [queue EXCEPT ![m] = Tail(@)] ELSE queue
    /\ UNCHANGED <<records, inbox, running, got, log, cqueue, frames, grabs, budget>>

FlushEnds == /\ At("flush") /\ queue[Top.mod] = <<>>
             /\ Return
             /\ UNCHANGED <<records, queues, process, cqueue, grabs, budget>>

(* the slip of going on with a queue that cannot be written *)
FlushIgnores == /\ At("flush") /\ queue[Top.mod] # <<>> /\ ~running[Top.mod]
                /\ UNCHANGED vars

(* The pipe is broken. *)
FlushFails == /\ At("flush") /\ queue[Top.mod] # <<>> /\ ~running[Top.mod]
              /\ Kill({Top.mod})
              /\ Return
              /\ UNCHANGED <<freed, started, queues, process, cqueue, grabs, budget>>

(* The pipe has been full for moduleTimeout seconds. *)
FlushTimeout == /\ At("flush") /\ queue[Top.mod] # <<>> /\ running[Top.mod]
                /\ Len(pipe[Top.mod]) = Capacity
                /\ Kill({Top.mod})
                /\ Return
                /\ UNCHANGED <<freed, started, queues, process, cqueue, grabs, budget>>

-----------------------------------------------------------------------------
(* Receiving.  An input is what the module wrote with one SendText: the command
   and whether the module says that it quits. *)

Unlock == [cmd |-> <<"nop">>, quit |-> FALSE, unlock |-> TRUE]
Quit   == [Unlock EXCEPT !.quit = TRUE]   \* SendQuitNotification
(* what a module may write *)
Says == [cmd : Inputs, quit : Quits, unlock : {FALSE}]
            \cup (IF TRUE \in Quits THEN {Quit} ELSE {})

AtEof(m) == inbox[m] = <<>> /\ ~running[m]

(* module_receive when there is input: one that says it quits kills the module,
   which is not known to the list any more when its command is executed. *)
TakeInput(m) == /\ inbox' = [inbox EXCEPT ![m] = Tail(@)]
                /\ IF Head(inbox[m]).quit THEN Kill({m}) ELSE UNCHANGED <<list, row>>

(* PositiveWrite, waiting: anything but the unlock response is executed before
   fvwm goes on waiting. *)
SyncReceive ==
    /\ At("sync") /\ inbox[Top.mod] # <<>>
    /\ LET input == Head(inbox[Top.mod])
       IN  /\ TakeInput(Top.mod)
           /\ IF input.unlock THEN Return ELSE Call(CmdFrame(Top.mod, input.cmd))
    /\ UNCHANGED <<freed, started, queues, pipe, running, got, cqueue, grabs, budget>>

(* module_receive returns NULL *)
SyncEof == /\ At("sync") /\ AtEof(Top.mod)
           /\ Kill({Top.mod})
           /\ Return
           /\ UNCHANGED <<freed, started, queues, process, cqueue, grabs, budget>>

(* no answer for moduleTimeout seconds *)
SyncTimeout == /\ At("sync") /\ inbox[Top.mod] = <<>> /\ running[Top.mod]
               /\ Kill({Top.mod})
               /\ Return
               /\ UNCHANGED <<freed, started, queues, process, cqueue, grabs, budget>>

-----------------------------------------------------------------------------
(* Commands *)

Rest == Become([Top EXCEPT !.rest = Tail(Top.rest)])
Doing(op) == At("cmd") /\ Top.rest # <<>> /\ Head(Top.rest) = op

(* a command that broadcasts: to all modules, or to those with the given name *)
CmdBroadcasts ==
    \E k \in Kinds \ {Reply} :
        /\ Doing(k)
        /\ frames' = Append(Rest, BroadcastFrame(k))
        /\ UNCHANGED <<records, queues, process, cqueue, grabs, budget>>

(* Send_Reply: to the module that sent the command *)
CmdReplies ==
    /\ Doing(Reply)
    /\ IF Top.mod = 0
       THEN frames' = Rest /\ UNCHANGED queues
       ELSE PositiveWrite(Top.mod, Reply, Append(Rest, FlushFrame(Top.mod)))
    /\ UNCHANGED <<records, process, cqueue, grabs, budget>>

(* KillModule: those whose name matches *)
CmdKills == /\ Doing("kill")
            /\ \E S \in SUBSET list : Kill(S)
            /\ frames' = Rest
            /\ UNCHANGED <<freed, started, queues, process, cqueue, grabs, budget>>

(* Module: fork may fail *)
CmdStarts == /\ Doing("start")
             /\ \/ /\ started < MaxModules
                   /\ started' = started + 1
                   /\ list' = list \cup {started'}
                   /\ running' = [running EXCEPT ![started'] = TRUE]
                \/ UNCHANGED <<started, list, running>>
             /\ frames' = Rest
             /\ UNCHANGED <<row, freed, queues, pipe, inbox, got, cqueue, grabs, budget>>

(* Wait enters the event loop. *)
CmdWaits == /\ Doing("wait")
            /\ frames' = Append(Rest, LoopFrame)
            /\ UNCHANGED <<records, queues, process, cqueue, grabs, budget>>

(* MyXGrabServer and MyXUngrabServer *)
CmdGrabs == /\ \/ Doing("grab") /\ grabs' = grabs + 1
               \/ Doing("ungrab") /\ grabs' = IF grabs = 0 THEN 0 ELSE grabs - 1
            /\ frames' = Rest
            /\ UNCHANGED <<records, queues, process, cqueue, budget>>

CmdDoesNothing == /\ Doing("nop")
                  /\ frames' = Rest
                  /\ UNCHANGED <<records, queues, process, cqueue, grabs, budget>>

CmdEnds == /\ At("cmd") /\ Top.rest = <<>>
           /\ Return
           /\ UNCHANGED <<records, queues, process, cqueue, grabs, budget>>

-----------------------------------------------------------------------------
(* The event loop *)

(* My_XNextEvent returns an X event and it is dispatched.  The loop of Wait ends
   with the event it waits for. *)
Event ==
    /\ InLoop("select") /\ budget.events > 0
    /\ \E cmd \in EventInputs :
          \/ Call(CmdFrame(0, cmd))
          \/ Depth > 1 /\ frames' = Append(Callers, CmdFrame(0, cmd))
    /\ budget' = [budget EXCEPT !.events = @ - 1]
    /\ UNCHANGED <<records, queues, process, cqueue, grabs>>

Readable == {m \in list : inbox[m] # <<>> \/ ~running[m]}
(* the slip of writing only to modules that have something to say *)
WritableToo == {m \in Readable : queue[m] # <<>>}
Writable == {m \in list : queue[m] # <<>> /\ (Len(pipe[m]) < Capacity \/ ~running[m])}

(* select() returns for the modules that are ready, or for the X server while
   there are events to come; then the round finds no module. *)
SelectReturns ==
    /\ InLoop("select")
    /\ Readable \cup Writable # {} \/ budget.events > 0
    /\ frames' = Become([Top EXCEPT !.pc = "scan", !.itr = ItrFirst,
                                    !.in = Readable, !.out = Writable])
    /\ UNCHANGED <<records, queues, process, cqueue, grabs, budget>>

(* One round of the loop over the modules, for the module m: what is left of the
   round once its input was read. *)
ScanNext(m) ==
    LET fs == Become([Top EXCEPT !.itr = ItrNext(m)])
    IN  frames' = IF m \in Top.out THEN Append(fs, FlushFrame(m)) ELSE fs

Scanning(m) == InLoop("scan") /\ m \in list /\ Top.itr = m

ScanReads ==
    /\ \E m \in Top.in :
          /\ Scanning(m) /\ inbox[m] # <<>>
          /\ TakeInput(m)
          /\ cqueue' = Append(cqueue, [mod |-> m, cmd |-> Head(inbox[m]).cmd])
          /\ ScanNext(m)
    /\ UNCHANGED <<freed, started, queues, pipe, running, got, grabs, budget>>

ScanEof ==
    /\ \E m \in Top.in : Scanning(m) /\ AtEof(m) /\ Kill({m}) /\ ScanNext(m)
    /\ UNCHANGED <<freed, started, queues, process, cqueue, grabs, budget>>

ScanWrites ==
    /\ \E m \in list \ Top.in : Scanning(m) /\ ScanNext(m)
    /\ UNCHANGED <<records, queues, process, cqueue, grabs, budget>>

(* the slip of freeing modules before their commands are executed *)
ScanEndsCleanup == /\ InLoop("scan") /\ Top.itr = 0
                   /\ freed' = freed \cup {row[i] : i \in DOMAIN row}
                   /\ row' = <<>>
                   /\ frames' = Become([Top EXCEPT !.pc = "queue"])
                   /\ UNCHANGED <<list, started, queues, process, cqueue, grabs, budget>>

ScanEnds == /\ InLoop("scan") /\ Top.itr = 0
            /\ frames' = Become([Top EXCEPT !.pc = "queue"])
            /\ UNCHANGED <<records, queues, process, cqueue, grabs, budget>>

(* ExecuteCommandQueue *)
QueueExecutes ==
    /\ InLoop("queue") /\ cqueue # <<>>
    /\ cqueue' = Tail(cqueue)
    /\ Call(CmdFrame(Head(cqueue).mod, Head(cqueue).cmd))
    /\ UNCHANGED <<records, queues, process, grabs, budget>>

(* module_cleanup *)
Cleanup ==
    /\ InLoop("queue") /\ cqueue = <<>>
    /\ freed' = freed \cup {row[i] : i \in DOMAIN row}
    /\ row' = <<>>
    /\ frames' = Become(LoopFrame)
    /\ UNCHANGED <<list, started, queues, process, cqueue, grabs, budget>>

-----------------------------------------------------------------------------
(* The module processes *)

Alive(m) == m \in 1 .. started /\ m \notin freed /\ running[m]

(* A module reads.  It answers a message of its MOD_SYNCMASK when it has
   processed it. *)
ProcReads(m) ==
    /\ Alive(m) /\ pipe[m] # <<>>
    /\ LET u  == Head(pipe[m])
           no == (u - 1) \div Size + 1
       IN  /\ got' = [got EXCEPT ![m] = u]
           /\ inbox' = IF u % Size = 0 /\ log[m][no] \in Locks[m]
                       THEN [inbox EXCEPT ![m] = Append(@, Unlock)] ELSE inbox
    /\ pipe' = [pipe EXCEPT ![m] = Tail(@)]
    /\ UNCHANGED <<records, queues, running, cqueue, frames, grabs, budget>>

ProcSends(m) ==
    /\ Alive(m) /\ budget.sends > 0
    /\ \E input \in Says : inbox' = [inbox EXCEPT ![m] = Append(@, input)]
    /\ budget' = [budget EXCEPT !.sends = @ - 1]
    /\ UNCHANGED <<records, queues, pipe, running, got, cqueue, frames, grabs>>

ProcExits(m) ==
    /\ Exits /\ Alive(m)
    /\ running' = [running EXCEPT ![m] = FALSE]
    /\ UNCHANGED <<records, queues, pipe, inbox, got, cqueue, frames, grabs, budget>>

-----------------------------------------------------------------------------
Init ==
    /\ list = 1 .. InitModules /\ row = <<>> /\ freed = {} /\ started = InitModules
    /\ queue = [m \in Modules |-> <<>>]
    /\ done = [m \in Modules |-> 0]
    /\ pipe = [m \in Modules |-> <<>>]
    /\ inbox = [m \in Modules |-> <<>>]
    /\ running = [m \in Modules |-> m <= InitModules]
    /\ cqueue = <<>>
    /\ frames = <<LoopFrame>>
    /\ grabs = 0
    /\ budget = [sends |-> MaxSends, events |-> MaxEvents]
    /\ log = [m \in Modules |-> <<>>]
    /\ got = [m \in Modules |-> 0]

(* What fvwm does without a new X event. *)
Write == Broadcast \/ BroadcastEnds \/ FlushWrites \/ FlushEnds \/ FlushFails \/ FlushTimeout
Wait  == SyncReceive \/ SyncEof \/ SyncTimeout
Command == \/ CmdBroadcasts \/ CmdReplies \/ CmdKills \/ CmdStarts \/ CmdWaits
           \/ CmdGrabs \/ CmdDoesNothing \/ CmdEnds
Round == \/ SelectReturns \/ ScanReads \/ ScanEof \/ ScanWrites \/ ScanEnds
         \/ QueueExecutes \/ Cleanup
Fvwm == Write \/ Wait \/ Command \/ Round

Process(m) == ProcReads(m) \/ ProcSends(m) \/ ProcExits(m)

Next == Fvwm \/ Event \/ \E m \in Modules : Process(m)

Spec == Init /\ [][Next]_vars

(* The kernel runs fvwm, and the modules read what they are sent. *)
FairSpec == Spec /\ WF_vars(Fvwm) /\ \A m \in Modules : WF_vars(ProcReads(m))

-----------------------------------------------------------------------------
(* Properties *)

Entry  == [mod : 0 .. MaxModules, cmd : Seq(Ops)]
Input  == [cmd : Seq(Ops), quit : BOOLEAN, unlock : BOOLEAN]
Frames == [kind : {"loop", "cmd", "bcast", "sync", "flush"}, mod : 0 .. MaxModules,
           pc : {"select", "scan", "queue"}, itr : 0 .. MaxModules, msg : Kinds,
           no : Nat, rest : Seq(Ops), in : SUBSET Modules, out : SUBSET Modules,
           seen : SUBSET Modules]

(* The types of the variables; the activation at the bottom is the event loop. *)
TypeOK ==
    /\ list \subseteq Modules /\ freed \subseteq Modules /\ row \in Seq(Modules)
    /\ started \in 0 .. MaxModules
    /\ queue \in [Modules -> Seq(Nat)] /\ done \in [Modules -> 0 .. Size - 1]
    /\ pipe \in [Modules -> Seq(Nat)] /\ got \in [Modules -> Nat]
    /\ inbox \in [Modules -> Seq(Input)] /\ running \in [Modules -> BOOLEAN]
    /\ cqueue \in Seq(Entry) /\ grabs \in Nat
    /\ frames \in Seq(Frames) /\ frames # <<>> /\ frames[1].kind = "loop"
    /\ budget \in [sends : Nat, events : Nat]
    /\ log \in [Modules -> Seq(Kinds)]

Consecutive(s, base) == \A i \in DOMAIN s : s[i] = base + i

(* What a module was sent is found, in order, once and completely, in what it
   read, in the pipe and in its queue: partial writes, flushes in the middle of
   other flushes' callers and broken pipes tear no message apart. *)
StreamIntact ==
    \A m \in Modules :
        /\ Consecutive(queue[m], Len(log[m]) - Len(queue[m]))
        /\ Consecutive(pipe[m], got[m])
        /\ got[m] + Len(pipe[m]) = (Len(log[m]) - Len(queue[m])) * Size + done[m]
        /\ queue[m] = <<>> => done[m] = 0

(* A loop over the modules never holds a link of the list that was removed
   meanwhile (module_list.h promises safe iteration). *)
IteratorSafe ==
    \A d \in DOMAIN frames :
        \/ frames[d].kind = "bcast"
        \/ frames[d].kind = "loop" /\ frames[d].pc = "scan"
        => frames[d].itr \in list \cup {0}

(* No activation uses the record of a module that was freed: not the write and
   the wait in PositiveWrite, not Send_Reply, whose command keeps the pointer. *)
Needs(cmd) == \E i \in DOMAIN cmd : cmd[i] = Reply
UseSafe ==
    /\ \A d \in DOMAIN frames :
          frames[d].kind \in {"sync", "flush"} \/ Needs(frames[d].rest)
          => frames[d].mod \notin freed
    /\ \A i \in DOMAIN cqueue : Needs(cqueue[i].cmd) => cqueue[i].mod \notin freed

(* A module is at one place at a time: on the list, once on the death row, or
   freed; so a module that is killed twice is freed once. *)
FreedOnce ==
    /\ \A i, j \in DOMAIN row : row[i] = row[j] => i = j
    /\ \A i \in DOMAIN row : row[i] \notin list \cup freed
    /\ list \cap freed = {}
    /\ list \cup freed \cup {row[i] : i \in DOMAIN row} = 1 .. started

(* A broadcast passes no module by: whoever was on the list when it began and
   still is was written to, or its turn is to come. *)
NobodySkipped ==
    \A d \in DOMAIN frames : frames[d].kind = "bcast" =>
        \A m \in list : m <= frames[d].no /\ m \notin frames[d].seen => m <= frames[d].itr

(* No activation waits for an answer that another one took: for each one that
   waits for a module there is an answer on its way or a message to be answered.
   (A comment in PositiveWrite doubts it.) *)
Waiting(m) == {d \in DOMAIN frames : frames[d].kind = "sync" /\ frames[d].mod = m}
Answers(m) == {i \in DOMAIN inbox[m] : inbox[m][i].unlock}
ToAnswer(m) == {i \in DOMAIN log[m] : i > got[m] \div Size /\ log[m][i] \in Locks[m]}
LockHasAnswer ==
    \A m \in list : running[m] =>
        Cardinality(Waiting(m)) <= Cardinality(Answers(m)) + Cardinality(ToAnswer(m))

(* fvwm always comes back to where it takes X events, whatever modules do or
   fail to do. *)
FvwmReturns == []<>InLoop("select")

(* What fvwm sends to a module arrives, unless the module is killed or dies. *)
MaxLog == 4   \* bound: messages to a module of which this is checked
Delivered ==
    \A m \in Modules, n \in 1 .. MaxLog :
        Len(log[m]) >= n ~> got[m] >= n * Size \/ m \notin list \/ ~running[m]

(* An ordered channel to each module. *)
Channel == INSTANCE MessageChannel WITH
    open <- (1 .. started) \ freed,
    sent <- log,
    received <- [m \in Modules |-> got[m] \div Size]
ImplementsChannel == Channel!Spec
=============================================================================
