----------------------------- MODULE WindowLife -----------------------------
(***************************************************************************)
(* The life of a managed window after AddWindow: the window list, the      *)
(* focus window, and destroy_window, which frees a window at once, or, if  *)
(* a function or the action of a menu is running, only takes it off the    *)
(* list and leaves the rest to the main event loop (add_window.c,          *)
(* update.c, focus.c, conditional.c, events.c).                            *)
(*                                                                         *)
(* frames is the C stack: functions, menus, All commands and the event     *)
(* loops inside Wait; each but the last kind holds pointers to windows in  *)
(* its execution context, and only the last frame acts.  If there is no    *)
(* frame, fvwm is in HandleEvents.  The flags                              *)
(* is_executing_complex_function and is_executing_menu_function are set    *)
(* exactly if there is a "func" frame (CountsAgree of ComplexFunc).        *)
(*                                                                         *)
(* All windows are on the current page of one desk.  A function and the    *)
(* action of a menu item that is executed while the menu is open are       *)
(* treated alike.                                                          *)
(***************************************************************************)
EXTENDS Naturals, Sequences, SequencesExt, FiniteSets

CONSTANTS
    Windows,   \* windows that clients may map, each once
    Leader,    \* the window each is a transient for, or NoWindow
    Refuses,   \* windows that do not take the focus
    ByOpen,    \* windows with FPSortWindowlistByOpen, see FocusPolicy
    Keeps,     \* windows with !FPReleaseFocus and !FPReleaseFocusTransient
    Overrides, \* windows with FPOverrideReleaseFocus
    Skips,     \* windows with CirculateSkip
    MaxFrames  \* bound: the frames on the stack

NoWindow == "no window"

ASSUME WindowLifeAssumption ==
    /\ NoWindow \notin Windows
    /\ Leader \in [Windows -> Windows \cup {NoWindow}]
    /\ MaxFrames \in Nat

VARIABLES
    list,      \* Scr.FvwmRoot.next and so on: the window list
    focus,     \* ScreenFocus, of focus.c
    scheduled, \* Scr.FWScheduledForDestroy
    freed,     \* windows whose FvwmWindow was freed
    frames,    \* the C stack
    tour       \* (history) windows that Next, Focus has been to in turn

vars == <<list, focus, scheduled, freed, frames, tour>>

Listed == ToSet(list)
Scheduled == ToSet(scheduled)

-----------------------------------------------------------------------------
(* The window list *)

Place(l, w) == CHOOSE i \in DOMAIN l : l[i] = w
Upto(l, w) == SubSeq(l, 1, Place(l, w) - 1)
After(l, w) == SubSeq(l, Place(l, w) + 1, Len(l))

Without(l, w) == IF w \in ToSet(l) THEN Upto(l, w) \o After(l, w) ELSE l
ToFront(l, w) == <<w>> \o Without(l, w)
Rotated(l, w) == IF w \in ToSet(l) THEN <<w>> \o After(l, w) \o Upto(l, w) ELSE l

(* the first window of s that is one of ws *)
FirstIn(s, ws) ==
    IF \E i \in DOMAIN s : s[i] \in ws
    THEN s[CHOOSE i \in DOMAIN s : s[i] \in ws /\ \A j \in 1 .. i - 1 : s[j] \notin ws]
    ELSE NoWindow

(* slips: a window that is scheduled comes back to the list; Focus by a    *)
(* command takes the window out of its place                               *)
UpdatedBlindly(st, w, how) ==
    IF w = st.focus THEN st.list
    ELSE IF how # "flip" /\ (w \in ByOpen \/ how = "command")
    THEN Rotated(st.list, w) ELSE ToFront(st.list, w)
UpdatedToFront(st, w, how) ==
    IF w = st.focus \/ w \in Scheduled THEN st.list ELSE ToFront(st.list, w)

(* _update_windowlist *)
Updated(st, w, how) ==
    IF w = st.focus \/ w \in Scheduled THEN st.list
    ELSE IF how # "flip" /\ (w \in ByOpen \/ how = "command")
    THEN Rotated(st.list, w) ELSE ToFront(st.list, w)

-----------------------------------------------------------------------------
(* The focus.  st is a record [list, focus]; how tells who sets it: "force" *)
(* and "user" go through SetFocusWindow, "command" and "flip" are the      *)
(* commands Focus and FlipFocus.                                           *)

(* set_focus_to_fwin; a window that refuses the focus moves in the list,   *)
(* but only if it may get it                                               *)
WithFocus(st, w, how) ==
    IF \/ how \in {"command", "flip"} /\ w = st.focus
       \/ how # "force" /\ w \in Refuses /\ st.focus # NoWindow
    THEN st
    ELSE [list |-> Updated(st, w, how),
          focus |-> IF w \in Refuses THEN st.focus ELSE w]

(* the window that _restore_focus_after_unmap gives the focus to; a window *)
(* that is off the list has no successor                                   *)
Heir(l, w) ==
    IF Leader[w] \in ToSet(l) \ {w}
    THEN IF w \in Keeps \/ Leader[w] \in Overrides THEN NoWindow ELSE Leader[w]
    ELSE IF w \in Keeps \/ w \notin ToSet(l) THEN NoWindow
    ELSE FirstIn(After(l, w), Windows \ (Overrides \cup Skips))

(* restore_focus_after_unmap *)
FocusRestored(st, w) ==
    IF st.focus # w THEN st
    ELSE LET heir == Heir(st.list, w)
             next == IF heir = NoWindow THEN st ELSE WithFocus(st, heir, "force")
         IN  IF next.focus = w THEN [next EXCEPT !.focus = NoWindow] ELSE next

(* Circulate: Next goes backwards from where it starts, Prev forwards *)
Order(l, start, dir) ==
    IF dir = "Next"
    THEN (IF start \in ToSet(l) THEN Reverse(Upto(l, start)) ELSE <<>>) \o Reverse(l)
    ELSE (IF start \in ToSet(l) THEN After(l, start) ELSE <<>>) \o l

Circulate(sf, dir) ==
    FirstIn(Order(list, IF sf = NoWindow THEN focus ELSE sf, dir), Windows \ Skips)

-----------------------------------------------------------------------------
(* Frames *)

Frame == [kind : {"wait", "func", "menu", "all"},
          win : Windows \cup {NoWindow},   \* exc->w.fw
          rest : Seq(Windows),             \* the windows All has still to do
          body : {"none", "focus", "destroy", "func"}] \* what it does to them

WaitFrame == [kind |-> "wait", win |-> NoWindow, rest |-> <<>>, body |-> "none"]
HolderFrame(kind, w) == [kind |-> kind, win |-> w, rest |-> <<>>, body |-> "none"]
AllFrame(ws, body) == [kind |-> "all", win |-> NoWindow, rest |-> ws, body |-> body]

Top == frames[Len(frames)]
InHandleEvents == frames = <<>>
InLoop == IF InHandleEvents THEN scheduled = <<>> ELSE Top.kind = "wait"
InFunction == ~InHandleEvents /\ Top.kind = "func"

Executing == \E d \in DOMAIN frames : frames[d].kind = "func"

Push(frame) ==
    /\ Len(frames) < MaxFrames
    /\ frames' = Append(frames, frame)

(* the windows for which a command may be executed now: those a binding    *)
(* finds, or the one of the function that runs; NoWindow is the root       *)
Contexts ==
    IF InLoop THEN Listed \cup {NoWindow} ELSE IF InFunction THEN {Top.win} ELSE {}

-----------------------------------------------------------------------------
(* destroy_window *)

(* what follows for the focus and the list *)
Becomes(st) ==
    /\ list' = st.list /\ focus' = st.focus
    /\ tour' = IF st.focus = focus THEN tour \cap ToSet(st.list) ELSE {}

(* slips: nobody waits until the functions have ended; the focus stays     *)
(* with a window that is only scheduled                                    *)
DestroyedAtOnce(st, w) ==
    /\ Becomes(IF w \in Scheduled THEN st
               ELSE FocusRestored([st EXCEPT !.list = Without(@, w)], w))
    /\ freed' = freed \cup {w} /\ UNCHANGED scheduled
DestroyedFocused(st, w) ==
    /\ Becomes(IF w \in Scheduled THEN st ELSE [st EXCEPT !.list = Without(@, w)])
    /\ scheduled' = IF Executing /\ w \notin Scheduled
                    THEN Append(scheduled, w) ELSE scheduled
    /\ freed' = IF Executing THEN freed ELSE freed \cup {w}

Destroyed(st, w) ==
    /\ Becomes(IF w \in Scheduled THEN st
               ELSE FocusRestored([st EXCEPT !.list = Without(@, w)], w))
    /\ scheduled' = IF Executing /\ w \notin Scheduled
                    THEN Append(scheduled, w) ELSE scheduled
    /\ freed' = IF Executing THEN freed ELSE freed \cup {w}

Now == [list |-> list, focus |-> focus]

(* destroy_scheduled_windows, called by HandleEvents before each event *)
DestroyScheduledWindows ==
    /\ InHandleEvents /\ scheduled # <<>>
    /\ freed' = freed \cup Scheduled /\ scheduled' = <<>>
    /\ UNCHANGED <<list, focus, frames, tour>>

-----------------------------------------------------------------------------
(* Events *)

(* a client maps a window: AddWindow puts it at the end of the list;       *)
(* HandleMapNotify may give it the focus                                   *)
WindowMapped(w, grabs) ==
    /\ InLoop /\ w \notin Listed \cup Scheduled \cup freed
    /\ LET st == [Now EXCEPT !.list = Append(@, w)]
       IN  Becomes(IF grabs THEN WithFocus(st, w, "force") ELSE st)
    /\ UNCHANGED <<scheduled, freed, frames>>

(* HandleUnmapNotify: the client withdraws its window; if fvwm takes it to *)
(* be neither mapped nor an icon, it loses the focus only                  *)
WindowUnmapped(w) ==
    /\ InLoop /\ w \in Listed
    /\ \/ Destroyed(FocusRestored(Now, w), w)
       \/ Becomes(FocusRestored(Now, w)) /\ UNCHANGED <<scheduled, freed>>
    /\ UNCHANGED frames

(* HandleDestroyNotify: it destroys its window, an icon for example *)
WindowDestroyed(w) ==
    /\ InLoop /\ w \in Listed
    /\ Destroyed(Now, w)
    /\ UNCHANGED frames

(* HandleFocusIn: the server says who has the focus *)
FocusIn(w) ==
    /\ InLoop /\ w \in Listed
    /\ Becomes([Now EXCEPT !.focus = w])
    /\ UNCHANGED <<scheduled, freed, frames>>

(* HandleEnterNotify, HandleButtonPress: the pointer sets the focus *)
UserFocuses(w) ==
    /\ InLoop /\ w \in Listed
    /\ Becomes(WithFocus(Now, w, "user"))
    /\ UNCHANGED <<scheduled, freed, frames>>

-----------------------------------------------------------------------------
(* Commands, of a binding or of the function on top of the stack *)

(* CMD_Destroy, and CMD_Close without WM_DELETE_WINDOW *)
Destroy(w) ==
    /\ w \in Contexts \ {NoWindow}
    /\ Destroyed(Now, w)
    /\ UNCHANGED frames

(* CMD_Focus, CMD_FlipFocus *)
Focus(w, how) ==
    /\ w \in Contexts \ {NoWindow} /\ how \in {"command", "flip"}
    /\ Becomes(WithFocus(Now, w, how))
    /\ UNCHANGED <<scheduled, freed, frames>>

(* CMD_Next, CMD_Prev with Focus *)
CirculateFocus(w, dir) ==
    /\ w \in Contexts
    /\ LET found == Circulate(w, dir)
           st == WithFocus(Now, found, "command")
       IN  /\ found # NoWindow
           /\ list' = st.list /\ focus' = st.focus
           /\ tour' = IF st.focus = focus THEN tour
                      ELSE IF dir = "Prev" \/ w # NoWindow THEN {}
                      ELSE IF st.focus \in tour THEN {st.focus}
                      ELSE tour \cup ({focus, st.focus} \ {NoWindow})
    /\ UNCHANGED <<scheduled, freed, frames>>

(* the same with a function *)
CirculateCalls(w, dir) ==
    /\ w \in Contexts
    /\ Circulate(w, dir) # NoWindow
    /\ Push(HolderFrame("func", Circulate(w, dir)))
    /\ UNCHANGED <<list, focus, scheduled, freed, tour>>

(* execute_complex_function, CMD_Menu, CMD_Wait, CMD_All *)
Call(w) ==
    /\ w \in Contexts
    /\ Push(HolderFrame("func", w))
    /\ UNCHANGED <<list, focus, scheduled, freed, tour>>

OpenMenu(w) ==
    /\ w \in Contexts
    /\ Push(HolderFrame("menu", w))
    /\ UNCHANGED <<list, focus, scheduled, freed, tour>>

Wait ==
    /\ InLoop \/ InFunction
    /\ Push(WaitFrame)
    /\ UNCHANGED <<list, focus, scheduled, freed, tour>>

All(body) ==
    /\ InLoop \/ InFunction
    /\ list # <<>>
    /\ Push(AllFrame(list, body))
    /\ UNCHANGED <<list, focus, scheduled, freed, tour>>

-----------------------------------------------------------------------------
(* Going on, and back *)

InAll(body) ==
    ~InHandleEvents /\ Top.kind = "all" /\ Top.rest # <<>> /\ Top.body = body

OneDone == [frames EXCEPT ![Len(frames)].rest = Tail(@)]

AllDestroys ==
    /\ InAll("destroy")
    /\ Destroyed(Now, Head(Top.rest)) /\ frames' = OneDone

AllFocuses ==
    /\ InAll("focus")
    /\ Becomes(WithFocus(Now, Head(Top.rest), "command")) /\ frames' = OneDone
    /\ UNCHANGED <<scheduled, freed>>

(* a function whose budget is used up does nothing, see ComplexFunc *)
AllCalls ==
    /\ InAll("func")
    /\ \/ frames' = OneDone
       \/ /\ Len(frames) < MaxFrames
          /\ frames' = Append(OneDone, HolderFrame("func", Head(Top.rest)))
    /\ UNCHANGED <<list, focus, scheduled, freed, tour>>

(* _menu_execute_function: an item acts while its menu is open *)
MenuActs ==
    /\ ~InHandleEvents /\ Top.kind = "menu"
    /\ Push(HolderFrame("func", Top.win))
    /\ UNCHANGED <<list, focus, scheduled, freed, tour>>

(* check_if_fvwm_window_exists, called when the action has ended *)
MenuChecks(stack) ==
    [d \in DOMAIN stack |->
        IF d = Len(stack) /\ stack[d].kind = "menu" /\ stack[d].win \notin Listed
        THEN [stack[d] EXCEPT !.win = NoWindow] ELSE stack[d]]

(* a function ends, a menu closes, All or Wait is done *)
Return ==
    /\ ~InHandleEvents /\ (Top.kind = "all" => Top.rest = <<>>)
    /\ frames' = IF Top.kind = "func" THEN MenuChecks(Front(frames)) ELSE Front(frames)
    /\ UNCHANGED <<list, focus, scheduled, freed, tour>>

-----------------------------------------------------------------------------
Init ==
    /\ list = <<>> /\ focus = NoWindow /\ scheduled = <<>> /\ freed = {}
    /\ frames = <<>> /\ tour = {}

Events ==
    \E w \in Windows :
        \/ \E grabs \in BOOLEAN : WindowMapped(w, grabs)
        \/ WindowUnmapped(w) \/ WindowDestroyed(w) \/ FocusIn(w) \/ UserFocuses(w)

Commands ==
    \/ \E w \in Windows \cup {NoWindow} :
          \/ Destroy(w) \/ Call(w) \/ OpenMenu(w)
          \/ \E how \in {"command", "flip"} : Focus(w, how)
          \/ \E dir \in {"Next", "Prev"} : CirculateFocus(w, dir) \/ CirculateCalls(w, dir)
    \/ Wait
    \/ \E body \in {"focus", "destroy", "func"} : All(body)

Progress ==
    \/ DestroyScheduledWindows
    \/ AllDestroys \/ AllFocuses \/ AllCalls \/ MenuActs \/ Return

Next == Events \/ Commands \/ Progress

Spec == Init /\ [][Next]_vars

-----------------------------------------------------------------------------
(* Properties *)

TypeOK ==
    /\ list \in Seq(Windows) /\ focus \in Windows \cup {NoWindow}
    /\ scheduled \in Seq(Windows) /\ freed \subseteq Windows
    /\ frames \in Seq(Frame) /\ tour \subseteq Windows

HeldBy(frame) == {frame.win} \cup ToSet(frame.rest)

(* No function, menu or All that is still to go on holds a pointer to a    *)
(* window that was freed, whatever it, a function it called, or an event   *)
(* that a Wait in it handled has destroyed.                                *)
UseSafe == \A d \in DOMAIN frames : HeldBy(frames[d]) \cap freed = {}

(* A window is at one place of the window list, or scheduled once, or      *)
(* freed, never two of them: it is freed once, and no command and no focus *)
(* brings it back.                                                         *)
Partition ==
    /\ IsInjective(list) /\ IsInjective(scheduled)
    /\ Listed \cap Scheduled = {} /\ freed \cap (Listed \cup Scheduled) = {}

(* When a window leaves the window list the focus does not stay with it.   *)
FocusLeaves ==
    [][focus' \in ToSet(list') \cup {NoWindow} \/ focus' \notin Listed]_vars

(* Next (condition) Focus, again and again and without anything else that  *)
(* moves the focus, comes to each window that may get it before it comes   *)
(* to one for the second time, even if windows open and close meanwhile.   *)
TourComplete ==
    [][focus' # focus /\ focus' \in tour /\ tour' # {}
          => Listed \ (Skips \cup Refuses) \subseteq tour]_vars
=============================================================================
