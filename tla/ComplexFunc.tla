---------------------------- MODULE ComplexFunc ----------------------------
(***************************************************************************)
(* Complex functions (functions.c, functable_complex.c): lists of items    *)
(* that AddToFunc, + and DestroyFunc change and that a binding, a menu or  *)
(* another function executes.  An item may call a function, its own one    *)
(* included, change or destroy any function, Break, or Wait, which enters  *)
(* the event loop, where bindings execute functions again.                 *)
(*                                                                         *)
(* frames is the C stack: event loops and activations of                   *)
(* execute_complex_function; only the last one acts.  The activations      *)
(* between two event loops share one return code (cond_rc_t); each holds   *)
(* the value break_levels would have in it, and hands it down when it      *)
(* ends.  Two static counters, depth and run_item_count, are shared by all *)
(* activations.                                                            *)
(*                                                                         *)
(* Whether a function needs a window, and what the user does when asked    *)
(* for one (DeferExecution), is a free choice, as is what                  *)
(* CheckActionType makes of the next pointer events.                       *)
(***************************************************************************)
EXTENDS Naturals, Integers, Sequences, SequencesExt, FiniteSets

CONSTANTS
    Functions,   \* names of functions
    Items,       \* the items that AddToFunc and + may add, see below
    MaxItems,    \* MAX_FUNCTION_ITEMS
    MaxItemsRun, \* MAX_FUNCTION_ITEMS_RUN
    MaxBareWaits \* bound: Waits on the stack that no function has run

NoFunction == "no function"

Clicks == {"c", "d", "h", "m"}

(* An item has a condition, "i" immediate, "j" late immediate, "c" click,  *)
(* "d" double click, "h" hold or "m" motion, and a command, a record with  *)
(* a field op: "call", "destroy", "add" (with fn), "more" (the command +), *)
(* "break" (with levels, -1 for all), "wait", or "other", which changes    *)
(* nothing here.  Which item "add" and "more" add is a free choice.        *)
ASSUME ComplexFuncAssumption ==
    /\ NoFunction \notin Functions
    /\ \A item \in Items :
          /\ item.cond \in {"i", "j"} \cup Clicks
          /\ item.do.op \in {"call", "destroy", "add", "more", "break", "wait",
                             "other"}
          /\ item.do.op \in {"call", "destroy", "add"} => item.do.fn \in Functions
          /\ item.do.op = "break" =>
                item.do.levels = -1 \/ item.do.levels \in Nat \ {0}
    /\ MaxItems \in Nat /\ MaxItemsRun \in Nat /\ MaxBareWaits \in Nat

VARIABLES
    table,     \* Scr.functions: [defined, items, use] of each name
    frames,    \* the C stack
    depth,     \* depth, of execute_complex_function
    count,     \* run_item_count, of execute_complex_function
    executing, \* Scr.flags.is_executing_complex_function
    grabs,     \* grab_count[GRAB_NORMAL]; the pointer is grabbed if # 0
    last       \* Scr.last_added_item, if it is a function

vars == <<table, frames, depth, count, executing, grabs, last>>

-----------------------------------------------------------------------------
(* Frames.  pos is the item that fi points to, phase the kind of items     *)
(* that run now, type what CheckActionType found, holds that the           *)
(* activation, or the Wait, has (given up) its grab of the pointer, and    *)
(* brk break_levels.  cut (history): a Break has ended this activation.    *)

Frame == [kind : {"loop", "func"}, fn : Functions \cup {NoFunction},
          phase : {"i", "j"} \cup Clicks, pos : Nat, type : Clicks,
          holds : BOOLEAN, brk : Int, cut : BOOLEAN]

LoopFrame(ungrabbed) ==
    [kind |-> "loop", fn |-> NoFunction, phase |-> "i", pos |-> 1,
     type |-> "c", holds |-> ungrabbed, brk |-> 0, cut |-> FALSE]

Activation(f) ==
    [kind |-> "func", fn |-> f, phase |-> "i", pos |-> 1, type |-> "c",
     holds |-> TRUE, brk |-> 0, cut |-> FALSE]

Top == frames[Len(frames)]
Below == Front(frames)
InLoop == Top.kind = "loop"

(* the event loops of Waits that were run by an event loop *)
BareWaits(stack) == {d \in DOMAIN stack \ {1} : /\ stack[d].kind = "loop"
                                               /\ stack[d - 1].kind = "loop"}

ItemsOf(fr) == table[fr.fn].items
HasItem(f, cond) == \E i \in DOMAIN table[f].items : table[f].items[i].cond = cond

(* the next item that _run_complex_function_items executes *)
Matches(fr) == {i \in DOMAIN ItemsOf(fr) : i >= fr.pos /\ ItemsOf(fr)[i].cond = fr.phase}
IsNext(fr, i) == i \in Matches(fr) /\ \A j \in Matches(fr) : i <= j

(* the loop over the items ends *)
PhaseDone(fr) == fr.brk # 0 \/ Matches(fr) = {} \/ count >= MaxItemsRun

(* UngrabEm(GRAB_NORMAL); GrabEm fails only if another client has the      *)
(* pointer                                                                 *)
Ungrabbed(n) == IF n > 0 THEN n - 1 ELSE 0
MayGrab(n) == IF n > 0 THEN {n + 1} ELSE {0, 1}

-----------------------------------------------------------------------------
(* The table *)

Undefined == [defined |-> FALSE, items |-> <<>>, use |-> 0]

(* AddToFunction, NewFvwmFunction: a function that is too big stays as it is *)
WithItem(entry, item) ==
    [entry EXCEPT !.defined = TRUE,
                  !.items = IF Len(@) < MaxItems THEN Append(@, item) ELSE @]

(* a slip: functions are freed whether they are in use or not *)
DestroyedAnyway(entry) == Undefined

(* DestroyFunction *)
Destroyed(entry) == IF entry.use # 0 THEN entry ELSE Undefined

(* CMD_DestroyFunc forgets the last function, whichever it was *)
LastAfterDestroy(l, f) == IF table[f].defined THEN NoFunction ELSE l

Destroy(f) ==
    /\ table' = [table EXCEPT ![f] = Destroyed(@)]
    /\ last' = LastAfterDestroy(last, f)

-----------------------------------------------------------------------------
(* Entering and leaving a function *)

(* execute_complex_function up to the first item.  below is the stack, n   *)
(* the budget used so far.  It may end at once: no such function, no       *)
(* budget, the user chose no window, or the pointer cannot be grabbed; in  *)
(* the last two cases the pointer is ungrabbed although it was not grabbed *)
(* for this activation.                                                    *)
Called(f, below, n) ==
    \/ /\ ~table[f].defined \/ n >= MaxItemsRun
       /\ frames' = below /\ count' = n
       /\ UNCHANGED <<table, depth, executing, grabs>>
    \/ /\ table[f].defined /\ n < MaxItemsRun
       /\ frames' = below /\ grabs' = Ungrabbed(grabs)
       /\ count' = IF depth = 0 THEN 0 ELSE n
       /\ executing' = (depth # 0)
       /\ UNCHANGED <<table, depth>>
    \/ /\ table[f].defined /\ n < MaxItemsRun
       /\ frames' = Append(below, Activation(f))
       /\ table' = [table EXCEPT ![f].use = @ + 1]
       /\ depth' = depth + 1 /\ count' = n /\ executing' = TRUE
       /\ grabs' \in MayGrab(grabs) \ {0}

(* slips: the flag is cleared by every function that ends, a Break is not
   counted down, a function without clicks keeps the pointer, every
   function that ends gives its caller a new budget *)
ExecutingAfterAny(d) == FALSE
BreakAfterSame(fr) == fr.brk
GrabsAfterClicks(fr, n) == IF fr.phase = "i" THEN n ELSE Ungrabbed(n)
CountAfterAny(d) == 0

ExecutingAfter(d) == d # 0
CountAfter(d) == IF d = 0 THEN 0 ELSE count
BreakAfter(fr) == IF fr.brk > 0 THEN fr.brk - 1 ELSE fr.brk
GrabsAfter(fr, n) == Ungrabbed(n)

(* ungrab_exit and _cf_cleanup; the caller shares break_levels *)
Leave ==
    /\ table' = [table EXCEPT ![Top.fn].use = @ - 1]
    /\ depth' = depth - 1
    /\ executing' = ExecutingAfter(depth - 1)
    /\ count' = CountAfter(depth - 1)
    /\ grabs' = GrabsAfter(Top, grabs)
    /\ frames' = [i \in DOMAIN Below |->
                    IF i = Len(Below) /\ Below[i].kind = "func"
                    THEN [Below[i] EXCEPT !.brk = BreakAfter(Top)]
                    ELSE Below[i]]
    /\ UNCHANGED last

-----------------------------------------------------------------------------
(* The items *)

(* the frames that a Break of so many levels ends: those of this chain *)
Cut(stack, levels) ==
    LET n == Len(stack)
        chain == {i \in DOMAIN stack : \A j \in i .. n : stack[j].kind = "func"}
    IN  [i \in DOMAIN stack |->
            IF i \in chain /\ (levels = -1 \/ i > n - levels)
            THEN [stack[i] EXCEPT !.cut = TRUE] ELSE stack[i]]

(* the top frame has executed item i, and counts it *)
Passed(i) == [frames EXCEPT ![Len(frames)].pos = i + 1]

ItemRuns(i, op) ==
    /\ ~InLoop /\ ~PhaseDone(Top) /\ IsNext(Top, i)
    /\ ItemsOf(Top)[i].do.op = op

ItemCalls(i) ==
    /\ ItemRuns(i, "call")
    /\ Called(ItemsOf(Top)[i].do.fn, Passed(i), count + 1)
    /\ UNCHANGED last

ItemDestroys(i) ==
    /\ ItemRuns(i, "destroy")
    /\ Destroy(ItemsOf(Top)[i].do.fn)
    /\ frames' = Passed(i) /\ count' = count + 1
    /\ UNCHANGED <<depth, executing, grabs>>

(* CMD_Break *)
ItemBreaks(i) ==
    /\ ItemRuns(i, "break")
    /\ LET levels == ItemsOf(Top)[i].do.levels
       IN  frames' = [Cut(Passed(i), levels) EXCEPT ![Len(frames)].brk = levels]
    /\ count' = count + 1
    /\ UNCHANGED <<table, depth, executing, grabs, last>>

(* CMD_Wait gives up one grab of the pointer *)
ItemWaits(i) ==
    /\ ItemRuns(i, "wait")
    /\ frames' = Append(Passed(i), LoopFrame(grabs > 0))
    /\ grabs' = Ungrabbed(grabs) /\ count' = count + 1
    /\ UNCHANGED <<table, depth, executing, last>>

(* any other command *)
ItemDoesOther(i) ==
    /\ ItemRuns(i, "other")
    /\ frames' = Passed(i) /\ count' = count + 1
    /\ UNCHANGED <<table, depth, executing, grabs, last>>

(* CMD_AddToFunc *)
ItemAdds(i, item) ==
    /\ ItemRuns(i, "add")
    /\ LET f == ItemsOf(Top)[i].do.fn
       IN  table' = [table EXCEPT ![f] = WithItem(@, item)] /\ last' = f
    /\ frames' = Passed(i) /\ count' = count + 1
    /\ UNCHANGED <<depth, executing, grabs>>

(* CMD_Plus *)
AddMore(item) ==
    table' = IF last = NoFunction THEN table
             ELSE [table EXCEPT ![last] = WithItem(@, item)]

ItemAddsMore(i, item) ==
    /\ ItemRuns(i, "more")
    /\ AddMore(item)
    /\ frames' = Passed(i) /\ count' = count + 1
    /\ UNCHANGED <<depth, executing, grabs, last>>

(* The immediate items are through, and there are others: the user may be  *)
(* asked for a window, and CheckActionType looks at the pointer.           *)
Persists(f) == \E c \in Clicks : HasItem(f, c)

Typed(type) ==
    /\ ~InLoop /\ Top.phase = "i" /\ PhaseDone(Top)
    /\ Persists(Top.fn) /\ Top.brk = 0
    /\ type = "h" => HasItem(Top.fn, "h")
    /\ type = "d" => HasItem(Top.fn, "d")
    /\ frames' = [frames EXCEPT ![Len(frames)] =
                      [@ EXCEPT !.phase = "j", !.pos = 1, !.type = type]]
    /\ UNCHANGED <<table, depth, count, executing, grabs, last>>

(* the items for that kind of click run after the late ones *)
LateDone ==
    /\ ~InLoop /\ Top.phase = "j" /\ PhaseDone(Top)
    /\ frames' = [frames EXCEPT ![Len(frames)] =
                      [@ EXCEPT !.phase = Top.type, !.pos = 1]]
    /\ UNCHANGED <<table, depth, count, executing, grabs, last>>

(* The activation ends: there are no clicks to wait for, the user chose no *)
(* window for them, or their items are through.                            *)
FunctionEnds ==
    /\ ~InLoop /\ Top.phase # "j" /\ PhaseDone(Top)
    /\ Leave

-----------------------------------------------------------------------------
(* The event loop, and the commands that bindings execute in it *)

EventCalls(f) ==
    /\ InLoop
    /\ Called(f, frames, count)
    /\ UNCHANGED last

EventDestroys(f) ==
    /\ InLoop
    /\ Destroy(f)
    /\ UNCHANGED <<frames, depth, count, executing, grabs>>

EventAdds(f, item) ==
    /\ InLoop
    /\ table' = [table EXCEPT ![f] = WithItem(@, item)] /\ last' = f
    /\ UNCHANGED <<frames, depth, count, executing, grabs>>

EventAddsMore(item) ==
    /\ InLoop /\ AddMore(item)
    /\ UNCHANGED <<frames, depth, count, executing, grabs, last>>

(* CMD_Wait, run by a binding: no item is counted, so these can be as many *)
(* as the C stack holds.                                                   *)
EventWaits ==
    /\ InLoop /\ Cardinality(BareWaits(frames)) < MaxBareWaits
    /\ frames' = Append(frames, LoopFrame(grabs > 0))
    /\ grabs' = Ungrabbed(grabs)
    /\ UNCHANGED <<table, depth, count, executing, last>>

(* the window that Wait waits for is there, or the user escapes *)
WaitEnds ==
    /\ InLoop /\ Len(frames) > 1
    /\ frames' = Below
    /\ grabs' \in IF Top.holds THEN MayGrab(grabs) ELSE {grabs}
    /\ UNCHANGED <<table, depth, count, executing, last>>

-----------------------------------------------------------------------------
Init ==
    /\ table = [f \in Functions |-> Undefined]
    /\ frames = <<LoopFrame(FALSE)>>
    /\ depth = 0 /\ count = 0 /\ executing = FALSE /\ grabs = 0
    /\ last = NoFunction

(* what fvwm does next on its own, when it is not in an event loop *)
Goes ==
    \/ \E i \in 1 .. MaxItems :
          \/ ItemCalls(i) \/ ItemDestroys(i) \/ ItemBreaks(i) \/ ItemWaits(i)
          \/ ItemDoesOther(i)
          \/ \E item \in Items : ItemAdds(i, item) \/ ItemAddsMore(i, item)
    \/ \E type \in Clicks : Typed(type)
    \/ LateDone \/ FunctionEnds

Events ==
    \/ \E f \in Functions :
          \/ EventCalls(f) \/ EventDestroys(f)
          \/ \E item \in Items : EventAdds(f, item)
    \/ \E item \in Items : EventAddsMore(item)
    \/ EventWaits \/ WaitEnds

Next == Goes \/ Events

Spec == Init /\ [][Next]_vars

-----------------------------------------------------------------------------
(* Properties *)

Entry == [defined : BOOLEAN, items : Seq(Items), use : Nat]

(* The type of the state. *)
TypeOK ==
    /\ table \in [Functions -> Entry] /\ frames \in Seq(Frame)
    /\ depth \in Nat /\ count \in Nat /\ executing \in BOOLEAN
    /\ grabs \in Nat /\ last \in Functions \cup {NoFunction}

InFunc(stack) == {d \in DOMAIN stack : stack[d].kind = "func"}
Runs(f) == {d \in InFunc(frames) : frames[d].fn = f}

(* A function is not freed, nor are its items, as long as some activation  *)
(* of it is on the stack: not by its own items, not by a function that it  *)
(* calls, not by an event that a Wait in it handles.  The activation goes  *)
(* on at an item of the list after every one of these.  Nor does the       *)
(* command + add to a function that was freed.                             *)
InUseAlive ==
    /\ \A d \in InFunc(frames) : table[frames[d].fn].defined
    /\ last # NoFunction => table[last].defined

(* The counters that are handed around the stack agree with it: use_depth  *)
(* of each function, depth, and is_executing_complex_function, on which    *)
(* destroy_window relies when it decides if a window can be freed at once. *)
CountsAgree ==
    /\ \A f \in Functions : table[f].use = Cardinality(Runs(f))
    /\ depth = Cardinality(InFunc(frames))
    /\ executing = (depth # 0)

(* Break ends the innermost activations, as many as it names or all up to  *)
(* the event loop, and no other: an activation executes no further item    *)
(* exactly if a Break in it, or in one it called, has ended it.            *)
BreakExact == ~InLoop => ((Top.brk # 0) <=> Top.cut)

(* As soon as no function runs fvwm has released the pointer, whatever     *)
(* activation ended early and whatever was grabbed again after a Wait, and *)
(* the next function has its full budget.                                  *)
AllReturned == InFunc(frames) = {} => grabs = 0 /\ count = 0

(* Functions that call themselves, or that Wait while bindings call them   *)
(* again, do not fill the C stack: the budget is shared by all that the    *)
(* outermost function started, in event loops too, and every activation    *)
(* and every Wait in a function has cost an item of it.  (What a binding   *)
(* runs costs nothing, so a binding that Waits may do so without end.)     *)
StackBounded ==
    Len(frames) <= 2 * MaxItemsRun + 2 + Cardinality(BareWaits(frames))
=============================================================================
