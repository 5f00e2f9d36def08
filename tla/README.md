# A TLA+ model of fvwm3

This directory holds TLA+ modules that model parts of fvwm3, configurations that check them with TLC on small instances, and theorems about them that TLAPS checks for every value of the constants.  Paths such as `schedule.c:305` are relative to `src/fvwm/` unless they say otherwise; `doc/` is `src/doc/`.

## The system

fvwm is one process with one thread.  It reads X events and the input of its *modules* (child processes on a pair of pipes each), executes commands, and tells the modules what happened.  Nothing in it runs in parallel, and yet most of its hard behaviour is interleaving, because almost every operation may enter the event loop again, from `Wait`, from a message that locks fvwm until a module answers, or from an interactive move or menu, and so may run in the middle of almost every other operation.

| Component | State it keeps | Operations | Interacts through | What is hard |
|---|---|---|---|---|
| lockable queue (`libs/fqueue.c`) | records with two flags, a lock level, a dirty flag | add at the front, the end, inside; remove or operate on the first, the last, all; count; lock, unlock | callbacks run on a record under the lock | a callback changes the queue that is being walked |
| scheduled commands (`schedule.c`) | the queue of jobs sorted by time, the last and the next id | `Schedule`, `Deschedule`, execute what is due | called by the event loop; calls any command | commands that schedule, deschedule or `Wait`; time stamps that wrap or are stale |
| event loop (`events.c`, `libs/FEvent.c`) | the last time stamp, the select timeout | one round: X event, due jobs, module input, flush, cleanup | calls everything, is called by `Wait` | re-entrancy at every call |
| module list (`module_list.c`) | live modules, the death row, per module the masks, pipes and message queue | start, kill, clean up, iterate, send, flush, receive | pipes to child processes | a module dies, blocks or answers late in the middle of an iteration |
| module interface (`module_interface.c`) | the queue of module commands | broadcast, reply, enqueue, execute | module list, command execution | a broadcast that executes commands which broadcast |
| stacking order (`stack.c`) | a ring of windows in the order of the screen, a layer per window, scratch marks | raise, lower, restack, new layer, new position, resynchronise | every window operation; X `ConfigureRequest`; the `RESTACK` message | ring, layers, transient trees and X order must agree after every operation; marks must not outlive it |
| window life cycle (`add_window.c`, `icccm2.c`) | the window list, flags per window, the list of windows to destroy | add, destroy now or later, capture | events, session, focus, stack | a window that is destroyed while a command uses it |
| icons (`icons.c`) | iconified and mapped flags of transient trees | iconify, deiconify | focus, stack, client's own map requests | counting unmap events that fvwm caused itself |
| focus (`focus.c`) | focus window, last window, window list order, button grabs | set, restore after unmap, revert | stack, events | the server's focus and fvwm's idea of it run apart |
| virtual desktop (`virtual.c`, `libs/FScreen.c`) | desk and viewport per monitor | change desk, page, viewport, monitor | icons, focus, stack | shared and per-monitor desks, windows that move between them |
| functions (`functions.c`, `functable_complex.c`) | complex functions, use counts, nesting depth | define, execute, destroy; wait for clicks | everything | a function that redefines or destroys itself; clicks against a timeout |
| command parser (`cmdparser_old.c`) | none | prefixes, conditionals, rest of the line | functions | the order of prefixes |
| conditional commands (`conditional.c`, `condrc.c`) | the return code | circulate, test | window list | the window list changes under the circulation |
| variables (`infostore.c`, `expand.c`) | a dictionary | add, remove, expand | all commands | nothing concurrent |
| styles and updates (`style.c`, `update.c`) | styles, need-update flags | merge, look up, flush updates | windows | which change makes which update necessary |
| colormaps, decorations, cursors (`colormaps.c`, `borders.c`, ...) | server resources | draw, install | focus, events | drawing |
| menus (`menus.c`, ...) | menus and their popup state | pop up, navigate | bindings, functions | layout; a modal loop |
| bindings (`bindings.c`, `libs/Bindings.c`) | the list of bindings | bind, find, grab | events | precedence |
| hints (`ewmh*.c`) | properties of the root window | translate client messages | all window operations | completeness |
| session (`session.c`, `libs/fsm.c`) | saved windows | save, match, restore | window life cycle | matching the right window |
| start, restart, misc (`fvwm3.c`, `builtins.c`, `modconf.c`) | global flags | start, restart, quit | all | order of the start |
| FvwmMFL (`modules/FvwmMFL`) | clients, their masks and buffers | accept, subscribe, send, drop | fvwm's pipe, a UNIX socket | slow and vanishing clients |
| FvwmAuto, FvwmAnimate, FvwmEvent, FvwmPager, FvwmIconMan and the other modules | own copies of the window list | react to messages | the pipes | timeouts; stale copies |
| libraries (`libs/`) | mostly none | parsing, lists, rectangles, fonts, pictures | all | boundaries |

What makes each of the central components correct:

* **queue and scheduler:** no record is freed while a scan stands on it; a job is started once, not before its time, and eventually; what is descheduled is not started; the queue stays sorted; ids stay valid when they wrap around.
* **module link:** every module gets the messages it asked for, complete, once and in order, however writes are cut into pieces and whoever flushes; iterators and module pointers never outlive what they point to; fvwm waits for an answer only if one will come and never forever; only modules that do not respond are killed.
* **stacking order:** the ring holds every window once, sorted by layer; an operation moves the windows it is meant for and no other; transients stay above their parents; layer changes keep both.
* **windows, icons, focus:** no command uses a freed window; every flag agrees with the map state; focus goes to a window that exists and is mapped.
## How the modules are written

| Module | Models | Extends |
|---|---|---|
| `FQueue` | the lockable queue, as far as `schedule.c` uses it, as operators on one queue value | standard modules |
| `Schedule` | scheduled commands, the scan that runs them, the event loop around it | `FQueue` |
| `ModuleLink` | module list, message queues, lock on send, module commands, the event loop around them | standard modules |
| `MessageChannel` | the abstract specification that `ModuleLink` implements: an ordered channel per module | standard modules |
| `StackRing` | the stacking order: ring, layers, transients, the X server's order, the pager's copy | `SequencesExt` |
| `MapState` | the map state of windows: requests of clients, commands, desks, restarts and crashes | `SequencesExt` |
| `ComplexFunc` | complex functions: the table, nested activations, `Break`, `Wait`, clicks | `SequencesExt` |
| `WindowLife` | the window list, the focus, and the destruction of windows in two phases under functions, menus and `All` | `SequencesExt` |
| `Desks` | which desk each monitor shows in the three modes, which windows are mapped and focused, what the pager knows | `SequencesExt` |
| `MCSchedule`, `MCModuleLink`, `MCStackRing`, `MCMapState`, `MCComplexFunc`, `MCWindowLife`, `MCDesks` | values of the constants for TLC | the module after `MC` |
| `ScheduleProofs`, `ModuleLinkProofs`, `MapStateProofs`, `ComplexFuncProofs`, `WindowLifeProofs`, `DesksProofs`, `StackRingProofs` | theorems and their proofs | the module before `Proofs`, `ListLemmas` |
| `ListLemmas` | lemmas on sequences, numbers and recursive functions that several proofs need | standard modules |

`Schedule`, `ModuleLink`, `ComplexFunc` and `WindowLife` share one device.  fvwm has one thread, and what interleaves is *re-entrancy*; so the state holds the C stack of activations, `frames`, oldest first, and only the top frame acts.  A frame keeps exactly the locals that the code uses after a call that may re-enter: the cursor of a scan, the iterator of a broadcast, the module that `PositiveWrite` waits for.  An action is one stretch of C code between two points where something else may run (a callback, the wait for a pipe, the start of a command); everything the code does in that stretch, clean-up at its end included, is in the action.

Definitions called a *slip* in their comment (`KillAgain`, `UnlockEager`, ...) are not part of the specifications.  Each stands beside the definition it is a plausible mistake in, and `PROJECT.json` names the property that catches it; this keeps the properties honest.  Variables called *history* are read by no guard.

## Scheduled commands: `FQueue`, `Schedule`

`FQueue` translates the functions of `libs/fqueue.c` that `schedule.c` calls: insertion in order, `fqueue_get_first`, `fqueue_remove_or_operate_all` and the lock.  A queue is a record of its sequence of records, the lock level and the dirty flag.  The functions that add at an end, remove from an end and count are left out; the queues of `module_list.c` and `module_interface.c`, which use some of them and never change a queue under its lock, are sequences in `ModuleLink`.  While the queue is locked records are only marked (`del`) and new records carry `new` (`is_just_created`); the unlock that brings the level from 1 to 0 calls `CleanupQueue`.

`Schedule` translates `fvwm/schedule.c`, the part of `My_XNextEvent` that looks at the queue (`events.c:4255`), and `CMD_Wait` as a call of the event loop.

| Action | Code |
|---|---|
| `ScheduleCmd`, `DescheduleCmd` | `CMD_Schedule`, `CMD_Deschedule`, from an event or from a running scheduled command |
| `StartJob`, `FinishJob`, `ReturnFromExecute` | the loop of `fqueue_remove_or_operate_all` with `check_deschedule`/`execute_obj_func`; the end of `fqueue_operate`, where periodic jobs are copied; the unlock |
| `Poll`, `Recheck`, `Timeout` | the calls of `squeue_get_next_ms` and `squeue_execute` before and after `select()` |
| `EventArrives`, `DispatchDone`, `WaitBegins`, `WaitEnds` | an X event or module input; the event loop inside `Wait` |
| `Tick` | external: the server's clock; it runs in `select()` and while a command runs |

Time stamps: the clock runs modulo `ServerMod` (2^32 in the code), times are computed modulo `TimeMod` (2^64, the type `Time`), and `evtime` is `fev_last_timestamp`, which is only as new as the last event that carried a stamp.

| Run | Shows | Instance |
|---|---|---|
| `schedule_core` | the queue stays intact whatever scheduled commands do: no scan loses its cursor, the queue stays sorted, no job is lost | two commands, one of which schedules, deschedules and waits; two jobs, four activations, so a scan inside a `Wait` inside a scan; 435,049 states |
| `schedule_quiet` | if no command waits or deschedules, every job runs once, what was descheduled is not started, and each due job is eventually started or descheduled | periodic and single jobs, commands that schedule others; 116,856 states |

Two jobs suffice for the queue's hazards: one that a scan stands on and one that is added, removed or started beside it; a third adds no relation between two of them that a pair does not have.  `MinId = -2` makes the ids wrap around after two jobs.  Four activations are event loop, scan, `Wait`, scan; the theorems below cover deeper stacks and longer queues.

*Fairness.*  `FairSpec` has weak fairness for what fvwm itself does next (commands end, scans continue, the loop goes round) and for the clock.  The code justifies it: there is one thread, nothing between two of these steps can block except `select()`, and that one is left at its timeout.  X events are not fair and are bounded by `MaxEvents`: `My_XNextEvent` looks at the schedule queue only when no X event is pending, so endless events would starve it.  In the second half of the modelled time no events arrive and commands take no time (`Late`), so that what is due by then has the time to happen; `DueJobEnds` speaks about these jobs only.

*Met while modelling, and not kept as runs of their own:* a scheduled command that runs `Wait` is started again by the event loop inside the `Wait`, without a limit, because `fqueue_operate` marks the record for deletion only after the command has returned (`fqueue.c:148`; `RunsOnce` fails with such a command); a periodic job whose command deschedules its own id is copied back all the same (`schedule.c:197` does not look at it; `DescheduledStops` holds in `schedule_quiet` because there only events deschedule); after `squeue_execute` a job may be due at once, because jobs scheduled in the scan are skipped by it; for the same reason a `Deschedule` in a command does not see jobs that were scheduled in the same scan (`fqueue.c:359`), although the manual page says that it removes all with the id; a job whose time lies beyond the wrap around of the server's clock is never due, because times are computed modulo 2^64 and time stamps modulo 2^32 (`schedule.c:305`).

## Modules: `ModuleLink`, `MessageChannel`

`ModuleLink` translates `fvwm/module_list.c`, the sending and queueing half of `fvwm/module_interface.c`, and the module half of `My_XNextEvent`.

| State | Code |
|---|---|
| `list`, `row`, `freed`, `started` | `module_list`, `death_row`, what `free()` got, and which slots were ever used.  `module_insert` puts a module at the head, so the list is always in the order newest first and a set of numbers holds it |
| `queue`, `done` | `MOD_PIPEQUEUE` as the numbers of messages, and `obj->done` of the first |
| `pipe`, `inbox`, `running`, `got` | the two pipes, the process, and what it has read |
| `cqueue` | the queue of `module_interface.c` that `ExecuteCommandQueue` works off |
| `grabs` | `myxgrabcount` of `libs/Grab.c` |
| `log` | history: what `PositiveWrite` accepted |

A message has `Size` units, and `FlushWrites` moves any number of them that fits, as `write()` does.  Module behaviour is external: a module reads, answers messages of its sync mask, sends any of `Inputs`, says that it quits, or dies at any time.

| Actions | Code |
|---|---|
| `Broadcast`, `BroadcastEnds` | one round of the loop of `BroadcastPacket` and its siblings; the iterator moves on *before* the write, as `module_list_itr_next` does |
| `PositiveWrite` (operator), `FlushWrites`, `FlushEnds`, `FlushFails`, `FlushTimeout` | `PositiveWrite` and `FlushMessageQueue`, with a broken pipe and a pipe that stays full |
| `SyncReceive`, `SyncEof`, `SyncTimeout` | the wait of `PositiveWrite` for the unlock response, executing other commands of that module meanwhile |
| `CmdBroadcasts`, `CmdReplies`, `CmdKills`, `CmdStarts`, `CmdWaits`, `CmdGrabs` | what a command may do, one step at a time |
| `SelectReturns`, `ScanReads`, `ScanEof`, `ScanWrites`, `ScanEnds`, `QueueExecutes`, `Cleanup` | one round of `My_XNextEvent`: the sets that `select()` reports, one module after the other, the command queue, `module_cleanup`; the X connection alone may end the `select()`, as long as an event is to come |

`MessageChannel` says what modules may rely on: each has a channel that is open as long as fvwm keeps its record; messages are received in the order they were accepted, once, and not after the channel was closed.  `ImplementsChannel` is the refinement, with `sent <- log`, `received <- got \div Size` and `open <- started, not freed`.

| Run | Shows | Instance |
|---|---|---|
| `modules_plain` | without lock on send: streams are intact, iterators stay on the list, records are freed once, no broadcast skips a module, and the channel is implemented | three modules, one started later; messages of two units over pipes of three, so that messages are cut; commands of the user and of modules that kill, start, broadcast and wait; 217,228 states |
| `modules_sync` | with one module that locks fvwm: every wait has an answer on its way, no freed record is used, fvwm returns to its event loop, what was sent arrives — provided that no command of a module runs `Wait` | two modules; grabs, replies, `SendToModule`, a `Wait` of the user; 27,811 states, with fairness |
| `modules_iterator` | *violation*: `KillModule` sent by a locking module frees the link that the broadcast stands on | |

Two modules are what the hazards need: the one a loop stands on and the one that is killed, flushed or waited for; the third in `modules_plain` lets a link be removed in front of, at and behind an iterator.  One X event and one module command suffice to reach every nesting that two commands in flight can make; the depth of the stack is bounded by these budgets only.

*Fairness.*  `WF(Fvwm)` says that the one thread goes on when it can: reads and writes are on descriptors that `select()` reported or are bounded by `moduleTimeout`, which is the actions `FlushTimeout` and `SyncTimeout`.  `WF(ProcReads(m))` says that a module that is alive reads its pipe; `Delivered` excludes those that die or are killed, and `FvwmReturns` does not need it.  Modules need not send, quit or die, and X events need not happen.

*Met while modelling, and not kept as runs of their own:* the event loop inside a `Wait` reads the unlock response that `PositiveWrite` waits for and executes it as a `NOP` (`events.c:4386`), so a module that has answered is killed after `moduleTimeout` seconds (`LockHasAnswer` fails as soon as a command of a module may `Wait`); a command run from `PositiveWrite` that runs `Wait` lets `module_cleanup` free the module whose record the write still uses (`UseSafe` fails; `modules_sync` and the theorems exclude this `Wait`, as they say, and allow that of the user); a module whose message was sent while the server was grabbed answers although fvwm did not wait, and that stray answer ends a later wait too early; with nested locks the inner wait takes the answer to the outer message, because `PositiveWrite` takes any answer for its own (`module_list.c:642`).

## Stacking order: `StackRing`

`StackRing` translates `stack.c` and the callers that change the stack: `_handle_cr_restack` (`events.c`), `Iconify` and `DeIconify` (`icons.c`), adding and destroying a window and `WM_TRANSIENT_FOR` (`add_window.c`, `events.c`).  fvwm never enters its event loop in these, so an action is a whole command and the operators in it work on a record of the state, in the order of the calls of the code.

| State | Code |
|---|---|
| `ring`, `layer`, `hint`, `iconic`, `byParent` | the ring through `stack_next`, top first, and these fields and flags of each window |
| `marks` | `is_in_transient_subtree` and `scratch.p` of all windows, and `Scr.FvwmRoot.scratch.i`, which tells the next operation to use them instead of clearing them |
| `x` | external: the order of the frames on the X server, as `XConfigureWindow` and `XRestackWindows` change it |
| `view` | history: the order that a module shows which had it right before the last operation and does what it is told, as `process_raise`, `process_lower` and `process_restack` of `FvwmPager` do |

| Operator or action | Code |
|---|---|
| `MarkTransientSubtree`, `IsStraight`, `SortTransientRing`, `MustMoveTransients` | the functions of these names: the windows of a tree, whether it is where it should be, its order |
| `RestackWindow`, `RestackWindowList`, `StackFrames`, `BroadcastRestack` | move a window with its transients in the ring, on the server, and tell the modules |
| `RaiseOrLower` | `_raise_or_lower_window` and its recursion through the leaders of a window |
| `Raise`, `Lower`, `RaiseLower`, `RestackTransients`, `Layer` | the commands |
| `ClientRestack`, `HintChanges` | `ConfigureRequest` with a sibling in the same layer (without one it is `Raise` or `Lower`), `WM_TRANSIENT_FOR` |
| `AddWindow`, `Destroy`, `Iconify`, `DeIconify` | what these do to the stack; a new window has the layer of its style, or else that of the window it is transient for, or else the default (`LayerFor`, from `setup_layer`) |
| `Commit` | the end of all of them: the state, and the grabs of buttons, which may look for windows above others and so use up the marks |

| Run | Shows | Instance |
|---|---|---|
| `stack_sorted` | the ring is sorted and agrees with the server; the modules are told all that changes, but for what `PagerOffByOne` names; a raised window ends above, a lowered one below all but its family; `RestackTransients` moves only transients; nothing moves a window of another family | three windows: a main window with `RaiseTransient` and `LowerTransient`, two that may be transient for it, for each other, for the root or for nothing, with `StackTransientParent`; two layers, the main window's style names the upper one; 11,435 states, about a minute |
| `stack_stale_marks` | *violation*: with `LowerTransient` only, the marks of a `Lower` that has nothing to do are used by a later `RestackTransients`, which takes a window out of its layer | the same windows, other styles |

Three windows hold a tree of three levels, two branches of one leader, and a tree beside a window that is not in it; two layers are what is needed to leave one.

`PagerOffByOne` says how right a pager is that had the order right and does what it is told.  `RaiseWindow` and `LowerWindow` tell the modules to put the window above or below *all* layers and only then look what is to be done.  If nothing is, no message takes it back: a window that is raised in a lower layer, where it was on top, is above all others in the pager.  If a window moves alone, its `M_RESTACK` names its neighbours in the ring, and the pager puts the lower one of them right below it: that takes it back, but if the lower neighbour is the first window of the next layer, that one may be misplaced instead.  So the pager is right within each layer but for one window, which is at the top of its layer below others.  The comment on `RaiseWindow`, that it *always* sends a proper `M_RESTACK` (`stack.c:1717`), is too optimistic.  The run was repeated with four windows from arbitrary states, with many choices of the styles.  The property holds in all of them if no window has both `RaiseTransient` and `StackTransientParent`; with a window that has both and a leader with `RaiseTransient` it fails: if the tree has three levels and is in order, raising the window in the middle tells the modules to raise it and then to put its leader below it, so that both are above the topmost window in the pager.  In `stack_sorted` the grabs always look at the stack (`ChecksStack = {TRUE}`), as they do with the focus policies other than click to focus, and the main window raises its transients; then no mark outlives an operation.  Without either they do, which is the finding; `OneFamilyMoves` then fails within five operations, because the next `Layer` or `Iconify` takes the marked windows with it.

The hints of the instances close no loop (`StackAssumption`).  `AddWindow` accepts a hint that closes one, because `validate_transientfor` looks up the context of the new window before it is stored, and the recursion through the leaders would not end.

## Mapped, iconified, withdrawn: `MapState`

`MapState` translates the handlers of `MapRequest`, `MapNotify`, `UnmapNotify`, `DestroyNotify` and `WM_CHANGE_STATE` (`events.c`), `Iconify` and `DeIconify` (`icons.c`), the switch of a desk (`virtual.c`), and the way out of and back into fvwm: `Reborder`, the server's save set, `CaptureAllWindows` (`add_window.c`).

The client, the user and fvwm act on a window; the server applies what they ask at once and reports it later.  So what fvwm remembers lags behind the server, and the handlers run on a record that may be older or newer than the event.  `win[w]` holds both sides and the events between them:

| State | Code |
|---|---|
| `exists`, `up`, `frameUp`, `capture`, `prop` | the server: the client window and its frame are mapped, `StructureNotifyMask` is still selected on the frame, `WM_STATE` |
| `managed`, `mapped`, `iconified`, `iconifyPending`, `mapPending`, `iconifyAfterMap`, `desk` | the flags of these names in `window_flags`, `Desk` |
| `q` | the events about the window that fvwm has not handled |
| `hint`, `wants`, `order` | `initial_state` of `WM_HINTS`; history: what the client asked for last, what fvwm was told last |
| `curDesk`, `phase` | `CurrentDesk`; `fFvwmInStartup`, or no window manager at all |

| Action | Code |
|---|---|
| `ClientMap`, `ClientWithdraw`, `ClientIconify`, `ClientDestroy` | external: `XMapWindow`, `XWithdrawWindow`, `XIconifyWindow`, `XDestroyWindow` |
| `UserIconify`, `GotoDesk`, `MoveToDesk` | `CMD_Iconify`, `goto_desk`, `do_move_window_to_desk` |
| `HandleEvent` | `dispatch_event` and the handler, to its end; most grab the server |
| `Restart`, `Crash`, `Startup`, `CaptureAllWindows` | `Done` with `Reborder` and `XCloseDisplay`, at which the server maps the windows of the save set, icons too; the end of the connection without them; the redirection of the root; `StartupStuff` |

Operators take a window and return it changed, so handlers that call other handlers (`HandleUnmapNotify` dispatches a `MapRequest` that waits at the frame it destroyed) compose.  No handler looks at two windows, so every window has its own queue, and one window in the instances is as good as several.

| Run | Shows | Instance |
|---|---|---|
| `mapstate_calm` | when all events about a window have been handled, fvwm's record, the server, `WM_STATE`, the client's last wish and the last order agree, through restarts and crashes; and at every moment a mapped frame is that of a window of this desk that is no icon, and the client window of an icon is unmapped | a client that maps again at any time but waits for fvwm before it withdraws or iconifies, commands one at a time; two desks, four requests, two restarts or crashes; 4,606 states |
| `mapstate_toggle` | *violation*: `Iconify`, `DeIconify`, `Iconify` in one function leave the frame of an icon on the screen | |

`OnlyThisDesk` and `IconHidden` hold in a far wilder environment than the one of `mapstate_calm`: clients that never wait, windows that start as icons, any number of commands between two rounds of the event loop.  The theorems `FramesOfThisDesk` and `IconsHidden` are about all of these.  The other three properties are proved for any number of windows and desks and for any length of queues, under the hypothesis `Calm`, which says of clients and commands what the run says of its instance.  `iconifyAfterMap` is never set there: it takes an order to iconify while the server does not show the window yet, hence a switch of the desk before it in the same round.

*Met while modelling, and not kept as runs of their own.*  All of these need a client that does not wait, or commands that outrun the events, and are why `mapstate_calm` bounds both.  A window that is mapped and withdrawn before fvwm has handled the `MapNotify` stays mapped: `HandleUnmapNotify` returns early for a window that is neither mapped nor iconified, and nobody looks at the withdrawal again (the comment at `events.c:3916` knows).  Iconifying a window of another desk sets `is_iconify_pending`, but its frame is unmapped already, so no event clears the flag, and a later order to iconify while it is being mapped is forgotten.  A client that withdraws an icon while a `DeIconify` is under way is left mapped on the root without a manager.  A switch of the desk away and back before the `MapNotify` leaves `WM_STATE` at Iconic on a visible window, and a restart makes it an icon.  A `MapRequest` that is still in the queue when fvwm restarts is lost.  After a crash the windows of other desks come back as icons, because `WM_STATE` said so; `SaveSet` records it as the order.

## Complex functions: `ComplexFunc`

`ComplexFunc` translates `execute_complex_function` with what it calls (`functions.c`), the table of functions (`functable_complex.c`), the commands `AddToFunc`, `+`, `DestroyFunc` and `Break`, and `Wait` as far as functions see it.

A function is a list of items.  An item may call any function, its own one included, add to any function, destroy any, break out of several, or wait in an event loop, in which bindings start functions, or a `Wait`, again.  The code has no record of who runs what; it has counters: `use_depth` in each function, the static `depth` and `run_item_count`, the count of pointer grabs, a flag in `Scr`, and `break_levels` in a return code that all activations of one chain share.  Whether these agree with the C stack is the question.

| State | Code |
|---|---|
| `table` | `Scr.functions`, each with its items and `use_depth`; names are unique |
| `frames` | the C stack: event loops and activations with `fi` (`pos`), the phase, the type of the click, `break_levels` |
| `depth`, `count`, `executing`, `grabs` | the static counters, `Scr.flags.is_executing_complex_function`, the pointer grabs |
| `last` | `Scr.last_added_item` |

| Action | Code |
|---|---|
| `ItemCalls`, `EventCalls` | `execute_complex_function` up to its first item, with its three ways to end at once |
| `ItemDestroys`, `ItemAdds`, `ItemAddsMore`, `EventDestroys`, `EventAdds`, `EventAddsMore` | `DestroyFunc`, `AddToFunc`, `+` |
| `ItemBreaks`, `ItemWaits`, `ItemDoesOther` | `Break`, `Wait`, any other command |
| `EventWaits`, `WaitEnds` | a `Wait` that a binding runs, in the main event loop or in that of another `Wait`; the end of the event loop in any `Wait` |
| `Typed`, `LateDone` | `CheckActionType`, and the order immediate, late, click |
| `FunctionEnds` | `ungrab_exit` and `_cf_cleanup` |

`break_levels` is one variable of a chain of activations.  In the model each frame has the value it would read, and `Leave` hands it to the caller; a chain ends at an event loop, which starts with a new return code.

`func_core` has two functions and eight items (a call, `Wait`, `DestroyFunc`, `AddToFunc`, `+`, `Break` of one level and of all, a click), functions of two items, a budget of three items, and one `Wait` of a binding on the stack at a time; 981,943 states.  Two functions are the one that is destroyed and the one that does it, by an event or because the other calls it; a budget of three is a function in an event loop in a function, with an item to follow.  Without `Wait`s of bindings the same properties hold with two items more, a call of the second function and one in a click (1,145,446 states).

A `Wait` that a binding runs is not an item, so it costs nothing, and nothing in fvwm bounds how many of them are on the stack: a binding that waits and is used again in its own event loop nests without end.  `MaxBareWaits` bounds them in the model, and `StackBounded` counts them apart: it says that everything else on the stack, the `Wait`s of functions included, stays within the budget.

*Met while modelling, and not kept as runs of their own.*  `do_ungrab` starts as 1 (`functions.c:935`), so an activation that ends before its `GrabEm`, because the user chose no window or the grab failed, releases the grab of the function that called it; the comment at `functions.c:1047` gives the reason why that pointer has to be grabbed, and the one at 1194 says that it must not be ungrabbed (`AllReturned` holds because `UngrabEm` stops at zero; `grabs` is *at most* what the stack holds, never more).  `Wait` releases one grab only, so a `Wait` in a function in a function runs with the pointer grabbed.  A function with immediate and late items and no others never runs the late ones: `functions.c:1094` leaves before them, although the manual page (`fvwm3_manpage_source.adoc:7716`) has late items wait for a click, a movement or "the function completes".  The budget is shared through `Wait` by functions that have nothing to do with one another.


## Windows come, have the focus, and go: `WindowLife`

`WindowLife` translates what happens to a window on the list after `AddWindow` put it there: `_update_windowlist` and the setting of the focus (`focus.c`), `destroy_window` (`add_window.c`), `destroy_scheduled_windows` (`update.c`), `Next`, `Prev` and `All` (`conditional.c`), and the events that close a window or move the focus.

Commands hold a pointer to their window in an execution context, and nothing counts these references.  What keeps them alive is a rule: while `is_executing_complex_function` or `is_executing_menu_function` is set, `destroy_window` takes the window off the list and leaves the rest to the main event loop.  Whether that is enough is the question; the list moves under `Next` and `Prev` as well, because the focus reorders it.

| State | Code |
|---|---|
| `list`, `focus`, `scheduled` | `Scr.FvwmRoot.next` and so on, `ScreenFocus`, `Scr.FWScheduledForDestroy` |
| `freed` | history: the windows whose `FvwmWindow` was freed |
| `frames` | the C stack: functions, menus, `All` and the event loops in `Wait`, with the window of the context and the array that `All` works off |
| `tour` | history: the windows that `Next` has given the focus to in turn |

| Action | Code |
|---|---|
| `WindowMapped` | the end of `AddWindow`, and the focus that `HandleMapNotify` may give |
| `WindowUnmapped`, `WindowDestroyed`, `FocusIn`, `UserFocuses` | the handlers of `UnmapNotify`, which destroys the window or, if fvwm takes it to be neither mapped nor an icon, only moves the focus away from it, of `DestroyNotify` and of `FocusIn`; `SetFocusWindow` from pointer events |
| `Destroy`, `Focus` | `Destroy` and `Close`, `Focus` and `FlipFocus`, from a binding or a function |
| `CirculateFocus`, `CirculateCalls` | `Next` and `Prev` with `Focus` or with a function |
| `All`, `AllDestroys`, `AllFocuses`, `AllCalls` | `All`, and its steps |
| `Call`, `Wait`, `OpenMenu`, `MenuActs`, `Return` | what goes on the stack and comes off it; `check_if_fvwm_window_exists` after the action of a menu item |
| `DestroyScheduledWindows` | the second phase |

| Run | Shows | Instance |
|---|---|---|
| `window_life` | nothing that is still to go on holds a freed window; a window is on the list, scheduled, or freed; the focus does not stay with a window that leaves the list; `Next (...) Focus`, again and again, comes to each window that may have the focus before it comes to one twice | four windows: a transient for another, one that is sorted by opening, one that refuses the focus and is not given it; two frames; 192,423 states |

Four windows are needed for `TourComplete`: a list in the wrong order leaves one out only if there are three that may have the focus.  Two frames hold a function in `All`, in a menu, in a function and around a `Wait`.  With three frames the run has 1,886,215 states and shows the same; for any number of frames and windows all four properties are proved.

All windows are on the current page of one desk.  A window whose record was freed does not come back: a client that maps again gets a new record, which is another window here.  That the flags are set exactly while a function is on the stack is `CountsAgree` of `ComplexFunc`.

*Met while modelling, and not kept as runs of their own.*  `Focus` does not look whether its window is scheduled for destruction: a function that runs `Destroy` and then `Focus` leaves `ScreenFocus` at a record that the main loop frees, because the second call of `destroy_window` skips the part that moves the focus (`FocusLeaves` speaks about the step in which a window leaves the list, and holds).  `destroy_window` takes a window off the list before it looks for the one that gets the focus next, so `fw->next` is `NULL` there and `FPReleaseFocus` (`fvwm3_manpage_source.adoc:5289`) is kept only for windows that the client withdraws, and for transients.  `Read` and `PipeRead` set no flag: if the first line of a file calls a function that destroys the window of the context and the second line is `Destroy`, the window is freed by the second and, as it is still scheduled, once more by the main loop.  `All` outside of functions with a `Wait` in its command, or with `Next (...) Destroy`, goes on with pointers to windows that were freed meanwhile; the bodies of the modelled `All` are `Focus`, `Destroy` and functions, for which this cannot happen.  `Next Focus` stays where it is if the next window refuses the focus and the condition `AcceptsFocus` is not given.

## Desks on several monitors: `Desks`

`Desks` translates `virtual.c` as far as it decides what is on show: `goto_desk` with `UnmapDesk`, `MapDesk` and `broadcast_new_desk_monitor`, `MoveViewport`, `GotoDesk`, `GotoDeskAndPage`, `GotoPage`, `MoveToDesk`, `DesktopConfiguration`; and what other files do with a desk: `update_fvwm_monitor`, `MoveToScreen`, sticking, `Focus`, the desk a new window gets, who inherits the focus, and the client messages `_NET_CURRENT_DESKTOP` and `_NET_WM_DESKTOP`.

There are three modes.  In *global* mode all monitors show one desk and page, and `monitor_assign_virtual` copies the state of one to the others.  In *per-monitor* mode each has its own, and two may show the same number, each with the windows that are on it.  In *shared* mode each has its own, a desk is on one monitor only, its windows come to the monitor that shows it, and `GotoDesk` to a desk that another monitor shows exchanges the two.

| State | Code |
|---|---|
| `tracking`, `shared` | `monitor_mode`, `is_tracking_shared` |
| `mon[m]` | `virtual_scr`: `CurrentDesk`; the page `(Vx, Vy)`; `prev_page` and `prev_desk_and_page` as one pair `back` |
| `win[w]` | `Desk`, `m`, `is_sticky_across_desks`, whether the frame is mapped, and `FocusDesk` if `is_focused_on_other_desk` (`left`) |
| `focus` | `get_focus_window()` |
| `heard[q]` | the `CurrentDesk` that FvwmPager `q` keeps of each monitor; a pager is named by the monitor it shows, or `Everything` if it shows all |

| Action | Code |
|---|---|
| `GotoDesk`, `GotoDeskAndPage`, `GotoPage`, `Configure` | the commands |
| `EwmhCurrentDesktop`, `EwmhWMDesktop` | `goto_desk` and `do_move_window_to_desk` by order of a client |
| `MoveToDesk`, `StickAcrossDesks`, `Move`, `MoveToScreen` | the commands for a window; `Move` stands for whatever takes its middle to another monitor |
| `Focus`, `FocusNoWarp` | `_activate_window_by_command` without and with `NoWarp`, with `set_focus_to_fwin`; the first goes to the desk of the window, the second does not |
| `Open`, `Close` | `_place_window` with `map_window`, `_restore_focus_after_unmap` |

The functions call each other two and three deep on the same variables (`GotoDeskAndPage` calls `UnmapDesk`, then `GotoDesk`, which calls `goto_desk` twice for an exchange), so each is an operator from the record of all variables to the next one; an action is one command with everything it calls.  The window list matters for one thing, which of several remembered windows gets the focus, and so every action may take the windows in any order (`Lists`).

| Run | Shows | Instance |
|---|---|---|
| `desks_core` | the mapped windows are those of the desks on show (`OnlyShownDesks`); shared desks differ, global ones agree (`DesksPerMode`); no step brings the focus to a hidden window or hides the window that has it, with two exceptions (`FocusShown`); FvwmPager knows the desks (`PagerKnows`); `GotoDeskAndPage prev` goes back one step (`BackIsLast`) | two monitors, three desks, two pages, two windows of which one gives up the focus with the desk, a pager of all monitors and one of the first; all three modes; 22,635 states |

Two monitors are what an exchange or a copy is between; the third desk is the one that neither shows, and two windows are needed for who of two inherits or is restored.  With three monitors, four desks, two pages, one window, a pager of all monitors and one of the second the properties hold as well (26,264 states).  Pages are only compared, so they are interchangeable (`SYMMETRY`).  The `VIEW` leaves out `back`: only `GotoDeskAndPage prev` reads it, which goes to one of the desks and pages that `GotoDeskAndPage` is tried with anyway, and `BackIsLast` compares it with the state before each step.

*Where the focus does go to hidden windows.*  `FocusShown` excepts two steps, and only these.

* `Focus NoWarp` goes to no desk (`focus.c:650`) and makes `set_focus_to_fwin` skip its look at the page (`focus.c:274`), so fvwm takes a window of a hidden desk to have the focus.  The manual page says that with `NoWarp` it "cannot transfer the keyboard focus to windows on other desks" (`doc/fvwm3_manpage_source.adoc:4376`); the server refuses an unmapped window, but the record of who has the focus is changed.
* `Close` passes the focus on to a window with the same number for its `Desk` (`_restore_focus_after_unmap`, `focus.c:565`; "Don't transfer focus to windows on other desks", `focus.c:602`).  `IsRectangleOnThisPage` has a parameter for the desk and does not use it (`misc.c:421`), so nothing asks if that desk is on show where the window is.  Per monitor it may be hidden there.  In the other two modes it is mapped if the window that goes was mapped and not sticky; the `Desk` of a hidden or a sticky window need not be on show.

A window that was given the focus while hidden keeps it until another step takes it away, so the property is about steps, not states: the focus is where it was, or on a mapped window.  It still catches a `MapDesk` that restores the focus to what another desk remembers, a desk left without taking the focus away, or a window moved from the screen with the focus on it.

*What FvwmPager knows.*  `broadcast_new_desk_monitor` names one monitor although in global mode all have changed, and `process_new_desk` makes up for it: it copies the desk to all ("Keep monitors in sync when tracking is global", `messages.c:453`).  But a pager that shows one monitor returns before that if the packet names another (`messages.c:434`), so in global mode it shows a desk that is gone until a page changes or its own monitor is named.  `PagerKnows` therefore speaks of the pager of all monitors in every mode, and of one of a single monitor unless the mode is global; whatever it missed there, the list of monitors that follows a change of the mode puts right.

*What the guards leave out.*  `Upsets` names four things users and clients can do and the code does not expect; the run has none of them, and each, put in, gives a counterexample:

* `"memory"`: focus a window on desk 0, go to desk 1, move the window, hidden, to desk 2, go back to desk 0.  `MapDesk` remembers that it had the focus and does not look where it is now: the focus goes to a hidden window (`virtual.c:636`), by a step that `FocusShown` does not except.
* `"direct"`: in shared mode `_NET_CURRENT_DESKTOP` calls `goto_desk`, not `CMD_GotoDesk`, so two monitors show one desk (`ewmh_events.c:80`; the comment at `virtual.c:2497` says that there can only ever be one).
* `"hidden"`: a hidden window that is moved to another monitor, or by `MoveToDesk` to a shared desk on show, gets the desk of that monitor but is not mapped (`update.c:678`).
* `"sticky"`: `MoveToDesk` of a window that is sticky across desks unmaps it (`virtual.c:1700`), and `Focus` of one whose `Desk` is another monitor's goes to that desk.

*Met while modelling, and not kept as runs of their own.*  The manual page says that the mode can be changed on the fly, but a change from global or per-monitor to shared with windows on show leaves some mapped on the wrong monitor, as does one from shared to global with three monitors; `Configure` enters shared without windows, as a configuration does at start-up.  `Focus` that changes both desk and page leaves the new desk with the old page for `prev`.  `GotoDeskAndPage` calls `UnmapDesk` twice unless desks are shared, and the second call forgets which window had the focus; so the focus does not come back as it does with `GotoDesk`.  In shared mode sticky windows of all monitors get the number of whichever desk was switched to last.

`Desks` leaves out the page a window is on, icons, windows that must not be moved, edge scrolling, the names of desks, and the restart of fvwm, which takes the shared mode and the desks as the last session has left them (`virtual.c:2252`); `MapState` has what mapping a frame means while events are under way, with one desk per screen.
## What is proved

All theorems hold for every value of the constants that satisfies the module's assumption (`ScheduleAssumption`, `LinkAssumption`, `StackAssumption`, `MapStateAssumption`, `ComplexFuncAssumption`, `WindowLifeAssumption`, `DesksAssumption`): any number of jobs, commands, modules, windows, monitors, desks, functions and their items, events under way, types of messages, any masks, any depth of nesting.  The assumptions say only that the constants have their types, and `StackAssumption` that hints of transients close no loop; TLC evaluates them in the runs.  Theorems that need more say so as a hypothesis of their own, named in brackets in the table; the run that checks the property meets it, and the section on the module says how the property fails without it (`TimesFit` excepted, which the code's types guarantee).

| Theorem | States |
|---|---|
| `ScheduleProofs!TypesHold`, `ModuleLinkProofs!TypesHold` | the type invariants |
| `ScheduleProofs!CursorSafe` | no scan of the schedule queue ever stands on a freed record |
| `ScheduleProofs!LockIsScans` | the lock level is the number of active scans; outside all scans no record carries a flag |
| `ScheduleProofs!SortedHolds` | the schedule queue is sorted by the time of execution (`TimesFit`) |
| `ScheduleProofs!NoJobLostHolds` | a job leaves the queue only if its command was started or a `Deschedule` named it |
| `ScheduleProofs!RunsOnceHolds` | a job is executed once (`NoWaits`) |
| `ScheduleProofs!DescheduledStopsHolds` | what was descheduled is not started (`CommandsOnlySchedule`) |
| `ModuleLinkProofs!StreamHolds` | every module reads an intact prefix of what was accepted for it |
| `ModuleLinkProofs!FreedOnceHolds` | a module is on the list, once on the death row, or freed |
| `ModuleLinkProofs!NobodySkippedHolds` | a broadcast passes nobody by who is on the list all the time |
| `ModuleLinkProofs!UseSafeHolds` | no activation and no queued command holds a freed module (`ModulesNeverWait`) |
| `ModuleLinkProofs!LockHasAnswerHolds` | who waits for a module has an answer on its way (`ModulesNeverWait`) |
| `ModuleLinkProofs!IteratorSafeHolds` | no loop over the modules holds a link that was removed (`NoLocks`) |
| `ModuleLinkProofs!ChannelImplemented` | `ModuleLink` implements `MessageChannel` (`ModulesNeverWait`) |
| `StackRingProofs!XMatchesRingHolds` | the frames on the X server are in the order of the ring |
| `StackRingProofs!LayersSortedHolds` | the ring is sorted by layers (`ChecksStack = {TRUE}`, `LowerTransient \subseteq RaiseTransient`) |
| `StackRingProofs!OneFamilyMovesHolds` | an operation moves the windows of one family only (the same) |
| `StackRingProofs!ReachesEndHolds` | a raised window ends above all but its transients, a lowered one below all but its family (the same, and `Cardinality(Windows) <= BranchBonus`) |
| `StackRingProofs!PagerOffByOneHolds` | a module that was right is off by one window at most (the same as for `ReachesEndHolds`, and `RaiseTransient \cap StackTransientParent = {}`) |
| `StackRingProofs!TypeHolds` | ring, frames and view are lists of the same windows |
| `MapStateProofs!FramesOfThisDesk` | a mapped frame is that of a managed window of the current desk that is no icon |
| `MapStateProofs!IconsHidden` | the client window of an icon is unmapped |
| `MapStateProofs!MapAgreesHolds` | when no event about a window waits, flags, `WM_STATE` and server agree about it (`Calm`) |
| `MapStateProofs!ClientObeyedHolds` | it is managed exactly if its client last asked to map it (`Calm`) |
| `MapStateProofs!OrderObeyedHolds` | it is an icon exactly if the last order was to iconify it (`Calm`) |
| `ComplexFuncProofs!RunningFunctionsLive` | no function on the stack is freed, and `+` never adds to one that was destroyed |
| `ComplexFuncProofs!CountersTrue` | use counts, `depth` and the flag say what is on the stack |
| `ComplexFuncProofs!StackIsBounded` | at most twice the budget of activations and event loops, but for `Wait`s that bindings run |
| `ComplexFuncProofs!EverythingReturned` | when no function is left on the stack nothing is grabbed and nothing is counted |
| `ComplexFuncProofs!BreakIsExact` | a `Break` ends the activations it names and no others |
| `WindowLifeProofs!UseSafeHolds` | nothing on the stack holds a freed window |
| `WindowLifeProofs!PartitionHolds` | a window is listed, scheduled or freed, never two of them |
| `WindowLifeProofs!FocusLeavesHolds` | the focus leaves a window in the step in which the window leaves the list |
| `WindowLifeProofs!TourCompleteHolds` | `Next` comes to every window that may have the focus before it comes to one again |
| `DesksProofs!ShownDesks` | what is mapped are the windows of the desks on show and the sticky ones; a shared desk is on one monitor |
| `DesksProofs!DesksAreApart` | shared desks differ, global ones agree |
| `DesksProofs!FocusIsShown` | no step brings the focus to a hidden window, or hides the window that has it, but `Focus NoWarp` and the close of a window that need not be on show |
| `DesksProofs!PagerIsRight` | a FvwmPager of all monitors knows which desk each shows in every mode, one of a single monitor does unless the mode is global |
| `DesksProofs!PrevGoesBack` | `prev` goes back one step |
| `DesksProofs!DesksGood` | the inductive invariant that these follow from |
| `ComplexFuncProofs!TypeCorrect`, `WindowLifeProofs!TypeCorrect` | types |

**Schedule.**  `CursorAlive` is not inductive.  A record disappears only in `CleanupQueue`, which runs in the unlock from 1 to 0; one has to know that the lock is the number of scans on the stack, so that at this unlock no other scan is left, and that a queue whose dirty flag is clear has no flags, or else the unlock would leave marks behind.  `IInv` adds these: `QueueOK` (types, the lock, dirty or no flags) and `StackOK` (the bottom is the event loop, a running command belongs to a record, the record a scan stands on is in the queue).  The proof has a lemma per action.  The first part of the module has the facts about the operators of `FQueue`: what each does to the type, to the tokens in the queue and to the flags, and how the records after it lie in those before (`Embeds`, `Follows`, `Cleaned`, `Touched`, `Inserted`, `Removed`).  The library's induction theorems cannot be instantiated by the provers here, so `RankStep` and its like take a least counterexample (`ListLemmas!LeastNat`), whose existence the library states for sets.

The other properties add to `IInv`.  `Sorted` compares times modulo 2^64, as the code does, and that is no order; the invariant `Ordered` says that times are in order as *numbers* and below the middle of the range, which `TimesFit` keeps up: the server's stamps have 32 bits, the type `Time` 64.  `NoJobLost` needs no hypothesis: records are found by their token (`Addressed`), a marked record was started or named by a `Deschedule` (`Marked`), and a scan that runs a command has started the job it stands on (`Started`).  `RunsOnce` is false when a scheduled command runs `Wait`, as said above; with `NoWaits` there is at most one scan, at the top (`OneScan`), and a job that was started is marked or its command runs now (`OnceOK`).  `DescheduledStops` is false when a command deschedules in the middle of the scan; `CommandsOnlySchedule` leaves the `Deschedule` to events, where the lock is 0 and every record it names goes at once (`NoneStopped`).

**ModuleLink.**  `IInv` is types, `FreedOnce`, `StreamIntact` and `StackOK`, which says that every activation that writes or waits names a module.  `FreedOnce` rests on `KillKeeps`: however often a module is killed, only those still on the list move.  `StreamIntact` is split per module into `Intact(queue, done, pipe, got, length of log)`, and three lemmas show that putting a message in the queue, writing `n` units and reading one keep it; all other actions leave its variables alone.  Nothing about the order in which activations nest is needed, and that is the point: the message queue is safe under every interleaving, which is what the code relies on when it flushes in the middle of a broadcast.

The second part of the module adds what does depend on the stack.  `QuietStack` says once what the actions that send nothing do to it: for a set of stacks closed under returning, under a change of the top frame and under the frames that may be pushed, the stack stays in the set.  `NobodySkipped` puts into the frame of a broadcast that whoever was on the list and still is has been visited or lies ahead of the iterator (`Sound`); that is kept because modules leave the list and new ones come in front of every iterator.  For `UseSafe`, `Good` says of each frame that what it holds is not freed, and `Layered` that event loops and commands of the user, which hold none, are the lower part of the stack and everything that holds a module lies above them: so an event loop that comes to `module_cleanup` has no such frame below it.  This is where `ModulesNeverWait` comes in: a `Wait` in a command that a module sent puts an event loop above the `PositiveWrite` that executes it, and TLC finds the freed record at once.  `LockHasAnswer` counts: the activations that wait for a module are no more than the answers in its inbox and the messages it has yet to answer (`Answered`); each action moves one of the three numbers, and the messages still to be answered are those behind what the module has read, which is why the proof has facts on `\div`.  `IteratorSafe` needs `NoLocks`: `PositiveWrite` of a module that locks fvwm on send executes commands, and so kills modules, in the middle of the loop that sends.  Without it a frame of a loop is the top of the stack or has above it only the flush of the module the iterator has already left (`Safe`), and that flush ends before anything else runs.  The refinement follows from `Good` (nothing is accepted for a module whose record is freed) and `StreamIntact` (what is read is what was accepted, in order): writing, waiting, killing and the event loop are stutters, `PositiveWrite` is `Send`, a read that completes a message is `Receive`, `Cleanup` is `Close`.

**Stacking order.**  A list without repetitions is known from its windows and from which comes before which (`Before`, `SameOrder`), and each operator on lists has a lemma that says both for its result; no proof counts positions.  `WindowRestacked` does this for the move of a window with its transients, `ChainResult` for the chain of moves that begins with the topmost leader, and the lemmas `...Happens` for each action: what becomes of ring, frames, layers, hints and marks.

* `XMatchesRing` is inductive with the types, and the marks do not matter: whichever windows an operation takes out of the ring, it puts them back in one piece, places the frame of the first next to that of the right-hand neighbour and the others below it, and the rest of the frames were in order before.
* `LayersSorted` is not inductive: marks that an earlier operation left take windows of another layer along.  The invariant is `Tidy`: sorted, and no marks between two operations.  That needs both hypotheses.  If the buttons are grabbed without a look at the stack, or only after operations on windows with `RaiseTransient`, marks outlive the operation; the run `stack_stale_marks` is the violation with `LowerTransient` alone.
* `OneFamilyMoves` uses that a set of windows that contains with each window its leaders and its transients (`FamilySet`) is left by none of the moves, and that the property's family is such a set.
* `ReachesEnd` follows from types and `Tidy`, but the way is long, because `_raise_lower_recursion` moves the leaders first and each move may take the window along.  `TreeShape`: what `mark_transient_subtree` marks is closed under transients and each window in it has its leader in it; the rank of acyclic hints shows that the passes reach all.  `RestackGathers`: a move, if it happens or not, ends with the group in one piece at the end of its layer, the window itself below the others, which are sorted by `scratch.i`; if nothing is done, `IsStraight` or `IsPlaced` say that it is there already (`StraightGathered`, `PlacedEnds`).  `LastMove`: the window is in the group of the last leader that is moved itself, because each later one is skipped only if the one above takes its transients along.  Lowering is done then (`LowerReaches`): whatever is below it is of its family.  For raising one has to know which of the group is on top, and that is what the 200000 in `scratch.i` are for: `BranchNumbers` shows that the windows on the way to the raised one get a greater number than all outside its own tree, as long as the depths, at most the number of windows, do not add up to the bonus of a branch.
* `PagerOffByOne` is about the messages between two moves of one operation, so the proof follows a module through them.  `ToldAround` says what one `M_RESTACK` does to the order a module shows: the window is right between its neighbours, and these come along with it (`Heard`).  `Agree` and `AgreeIn` compare two orders but for some windows, over all layers or within each.  Then there are two cases.  If the leader right above the window is moved and takes it along (`LeaderCarries`), it is a main window, and the only move is its own; `CarriedNumbers` says that `scratch.i` puts the window at the end of the group, where the early message has it.  Otherwise the leaders are moved one by one and the window last (`ChainOneByOne`).  While leaders are raised, the module has only the window itself too high, and is right if that is on top already (`RaisePhase`).  While they are lowered, the first leader is put below the window that is shown at the very bottom, and drags the first window of the next layers along (`LowerStart`, `LowerOff`).  The last move, or the lack of one, leaves `RightButOne`, from which the property follows for each operation.  Without the last hypothesis the property is false; the section on `StackRing` has the example with four windows.

The recursive functions of the module (the leader at the top, the windows of a list that are in a set, the chain of leaders, the family) exist only if shown: `ListLemmas!Recursion` gives a function on numbers for each step function, from the functions on the first *n* numbers (`UpTo`); the families need the rank that acyclic hints have.

**MapState.**  Neither `OnlyThisDesk` nor `IconHidden` is inductive alone.  `UnmapDesk` skips icons, so `OnlyThisDesk` needs that the frame of an icon is unmapped already; a client maps a window freely that fvwm does not manage, so `IconHidden` needs that only managed windows are icons; and both need that nothing is managed while no fvwm runs.  `Inv` is `Sane` for each window, which has the two properties and these facts, and `Managed`.  Each operator on a window has a lemma that it keeps `Sane`, whatever events wait; the actions follow, because no operator looks at two windows.

The other three speak of a window only when its queue is empty, so their invariant, `Settled`, has to say what may be in the queue before that, and that every event there leads back to agreement.  While fvwm runs, each window is in one of six scenes: `Outside` (not managed; at most requests to map it wait), `Appearing` (mapped by fvwm, and the event that says so is still to come), `Shown`, `Icon` (first the news of an older map, which `iconifyPending` makes fvwm ignore, then that of the frame's unmapping, then requests), `Leaving` (the client's own unmapping, its synthetic event, and perhaps requests) and `Dying`; otherwise in `Stored`, where `WM_STATE` and the requests that wait are what the next fvwm will go by.  A command comes only before anything else in its round, and then more is known (`Fair`: no news of an unmapping waits for a window on the screen); a window with an empty queue is fair again, so that the next round may begin.  The proof first says what each operator does to the fields and which events join the queue (`Same`, `Longer`), and then has one lemma per scene for the event at the head of the queue (`OutsideEvent` ... `DyingEvent`), and one per command, request, and way out of and into fvwm.  `Calm` is needed: with two commands per round, `mapstate_toggle` violates `MapAgrees`, and the section on the module has what clients that do not wait bring about.  `AboutClient` is a recursive function and no `SelectSeq`, so that `ListLemmas!Recursion` says what it is.

**Complex functions.**  That a running function is not freed rests on `use_depth # 0`, and this on the counter being the number of activations of *that* function, so `IInv` has `use_depth` and `depth` as cardinalities of sets of positions in `frames` (`Idx`), and lemmas say how these change when a frame is pushed or popped.  `StackOK` says that the bottom is the main loop, and that below each activation no more `Wait`s have given up a grab than there are activations.  `AllReturned` needs the sum of the grabs and of the `Wait`s that gave one up to be at most `depth`; `StackBounded` needs that `count` is zero only when `depth` is, and two frames per item counted; the `Wait`s that an event loop has run itself (`BareWaits`) cost no item and are counted apart.  `BreakExact` has an invariant of its own, `BreakOK`: the activations that a `Break` has cut are the topmost ones of their chain, and their number is what `break_levels` says.

**Window life.**  `UseSafe` and `Partition` need one another: what the stack holds is listed or scheduled (`StackOK`), and nothing that is listed or scheduled is freed.  A window is freed at once only if no function runs; then only the top frame of the stack can hold windows, because menus and `All` run nothing but functions (`Linked`), and if the top frame is an event loop it holds none.  The one case left is `All` with `Destroy` outside of functions, which frees windows while it goes through an array of them; it is safe because nothing comes between two of its steps, so what it has still to do is listed (`AllListed`), and because the array names no window twice.  `FocusLeaves` follows from `RestoredFacts`: whatever `restore_focus_after_unmap` finds is on the list that the window has left.  The larger part of the proof is about sequences: taking a window out of a list, putting it in front or rotating the list keeps the windows and names none twice.

`TourComplete` has an invariant of its own, `TourInv`.  `Next` goes backwards through the list and around its end, and `Focus` by a command rotates the list, so the list is to be seen as a ring that is cut somewhere.  `TourGood` says it without a ring: no window before the one with the focus was visited, and of those behind it a window that was visited comes behind windows that were visited or are skipped.  So going backwards what was not visited comes first, and if `Next` finds a window for the second time there is nothing else left (`TourNext`, from `NextFound`, which says what lies between the focus and the window that is found).  Windows that leave the list do not disturb this (`TourWithout`), and a new window is not among the visited: at the end of the list, or at its front if it was given the focus and refused it, it is where the tour comes to next (`TourAppend`, `TourMoved`).  Everything else that changes the focus ends the tour.  The argument uses only which window is ahead of which (`Ahead`), of which each operation on the list has a lemma.

**Desks.**  The theorems assume `Upsets = {}`, as the run does: none of the four things the code does not expect.  The invariant is `Good(H, s)`, a predicate of the record of all variables: its type, `OnlyShown`, `Modes`, `Heard`, `Focused(H, s)`, which says that the focus is on a mapped window or on one of *H*, and `Memory`: a window that waits for the focus is hidden, and on the desk where it had it, so that `MapDesk` maps it before the focus returns.  Each function of `virtual.c` has a lemma that it takes a `Good` state to a `Good` one for the same *H* (`Arrived`), and the actions follow.  That is what makes `FocusShown` provable although hidden windows may have the focus: the states satisfy `Good` with all windows for *H* (`Inv`), and then also with only the one window that has the focus while it is hidden (`Hidden`); a step that keeps `Good` for this *H* brings the focus to no other hidden window.  `FocusNoWarp`, and `Close` if it `Strays`, are taken with all windows; `HeirIsUp` shows that every other `Close` passes the focus on to a mapped window.  `Heard` is weak enough for a pager that returns early: `SwitchedHeard` needs it before a switch only unless the mode is global, where all monitors get the desk that the packet names.  Three times the code passes through states that are not `Good`.  Between the two calls of `goto_desk` of an exchange two monitors show one desk; `Exchanged` looks at both calls at once.  `GotoDeskAndPage` hides the windows of the old desk before `GotoDesk` does it again; `Blank` says which windows may be hidden by then.  And `DesktopConfiguration` changes its flag first and the monitors one by one; for the loops, `Lead` and `Spread` say what holds after the first *k* monitors, and the proof takes a least counterexample.  To become global with windows on show it needs that no more than two monitors shared the desks: then only one monitor has to follow, and its switch hides the windows of its desk and leaves those of the other (`FirstFollows`).

**Only model-checked:** liveness (`DueJobEnds`, `FvwmReturns`, `Delivered`: fairness is out of the prover's reach).  All other properties of the runs that are to hold are theorems.

## Plan

Done so far: `Schedule`, `ModuleLink`, `StackRing`, `MapState`, `ComplexFunc`, `WindowLife` (with the focus and the window list), `Desks`.  What is left, in this order:

1. **`StackRing`**: icon windows and unmanaged windows in `x`, window groups, `raise_over_unmanaged`.  Abstract specification: an order of windows from which one family is taken out and put back.
2. **`Desks`**: the page of a window, icons that come along, edge scrolling, modes that change while windows are on show, monitors that come and go.
3. **`CmdParser`**: the prefixes of a command as operators against a reference.
4. **`MFL`** and **`AutoRaise`**: clients that come and go, the message a client keeps a pointer to; a timeout against a late packet.  Both compose with `MessageChannel` as the abstraction of the pipe from fvwm.
5. **`ModuleLink`**: `ModuleSynchronous`, masks that change at run time, the start-up phase, in which the event loop frees dead modules before the commands they sent are executed (`events.c:4288`).
6. **`Schedule`**: ids that wrap, with the jobs that still hold them.
7. **`MapState`** with **`WindowLife`**: transients that are iconified with their parents, so that handlers look at several windows; unmanaged windows; session management.
8. Pure helpers as operators against a reference definition: `flist`, `gravity.c`, wild cards.

## What is not modelled, and why

* **Scheduler:** nothing of `schedule.c` is left out; of `fqueue.c`, what `schedule.c` does not use.  The text of a command is one of a few model commands, each a choice of what it does to the queue.
* **Modules:** `ModuleSynchronous`, `module_kill_all` and the start-up phase, in which the event loop behaves differently; masks that change after a module has started; what packets contain; signals.  They are planned, except for the contents.
* **Stack:** windows that fvwm does not manage and the hacks that keep windows above them, icon windows, window groups, several desks and monitors (in `StackRing` all windows are on one), restored sessions, a window whose map is pending, and commands between `MapRequest` and `MapNotify` of a new window.  Each adds frames to `x` or conditions on the windows that are looked at.  Whether two windows overlap is a free choice.
* **Windows and desks:** the ends of the sections on `MapState`, `WindowLife` and `Desks` say what each leaves out; between them they share no variables, so what only happens to a window that is an icon, on another desk and scheduled for destruction at once is in none.
* **Everything else in the inventory:** `PROJECT.json` says for each component if it is planned or why it is not.  Drawing, layout, fonts, pictures and the vendored code have no behaviour that a state machine would show.
