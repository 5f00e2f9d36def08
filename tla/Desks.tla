------------------------------- MODULE Desks --------------------------------
(***************************************************************************)
(* Virtual desks on several monitors (virtual.c, with the parts of         *)
(* FScreen.c, update.c, move_resize.c, focus.c, placement.c, add_window.c  *)
(* and ewmh_events.c that change a desk): which desk and page each monitor *)
(* shows in the three modes of DesktopConfiguration, which windows are     *)
(* mapped, which window has the focus and which windows are remembered to  *)
(* get it back, and what FvwmPager believes of all this.                   *)
(*                                                                         *)
(* The functions of virtual.c call each other, so each is an operator on   *)
(* the whole state s, a record of the variables; an action makes what the  *)
(* operator returns the next state.  Windows are not icons, may be moved,  *)
(* and accept the focus.  The page that a window is on is left out.        *)
(***************************************************************************)
EXTENDS Integers, SequencesExt, FiniteSets

CONSTANTS
    N,        \* number of monitors
    Windows,  \* windows that clients may open and close
    LastDesk, \* bound: desks are 0 .. LastDesk
    Pages,    \* the pages of a desk
    Clicky,   \* windows whose focus policy is not FPUnfocusLeave
    Pagers,   \* FvwmPagers, each named by the one monitor it is told to show,
              \* or Everything, with CurrentDeskPerMonitor or without Monitor
    Upsets    \* what may happen besides, see Settled, Free, Pinned, Visible

NoWindow == "no window"
Everything == 0
NoDesk == -1
Monitors == 1 .. N       \* in the order of monitor_q
Desks == 0 .. LastDesk
Lists == SetToSeqs(Windows)

ASSUME DesksAssumption ==
    /\ N \in Nat \ {0}
    /\ LastDesk \in Nat
    /\ Pages # {}
    /\ IsFiniteSet(Windows)
    /\ Clicky \subseteq Windows
    /\ Pagers \subseteq Monitors \cup {Everything}
    /\ NoWindow \notin Windows
    /\ Upsets \subseteq {"memory", "direct", "hidden", "sticky"}

VARIABLES
    tracking, \* monitor_mode: "G" or "M"
    shared,   \* is_tracking_shared
    mon,      \* virtual_scr of each monitor: CurrentDesk, the page, and the
              \* desk and page that GotoDeskAndPage prev returns to
    win,      \* managed windows: Desk, m, stickiness, whether the frame is
              \* mapped, and FocusDesk if is_focused_on_other_desk
    focus,    \* the window that has the focus, or NoWindow
    heard     \* CurrentDesk of each monitor in each FvwmPager

vars == <<tracking, shared, mon, win, focus, heard>>

Now == [tracking |-> tracking, shared |-> shared, mon |-> mon, win |-> win,
        focus |-> focus, heard |-> heard]

Becomes(s) ==
    /\ tracking' = s.tracking
    /\ shared' = s.shared
    /\ mon' = s.mon
    /\ win' = s.win
    /\ focus' = s.focus
    /\ heard' = s.heard

Managed == DOMAIN win

-----------------------------------------------------------------------------
(* Switching desks *)

\* Not global: each monitor has a desk of its own.
Apart(s) == s.tracking = "M" \/ s.shared

\* monitor_assign_virtual: in global mode all monitors are as m.
Assigned(s, m) ==
    IF Apart(s)
    THEN s
    ELSE [s EXCEPT !.mon = [n \in Monitors |-> s.mon[m]]]

\* UnmapDesk and MapDesk look at window w for monitor m.
Looks(s, m, w) == s.tracking = "M" => s.win[w].m = m

\* UnmapDesk.  Two monitors that exchange their desks unmap nothing.
Goes(s, m, d, w) ==
    Looks(s, m, w) /\ ~s.win[w].sticky /\ s.win[w].desk = d

Left(s, m, d, w) ==
    CASE Goes(s, m, d, w) ->
             [s.win[w] EXCEPT !.up = FALSE,
                              !.left = IF w = s.focus THEN d ELSE NoDesk]
      [] Looks(s, m, w) /\ s.win[w].sticky ->
             [s.win[w] EXCEPT !.left = NoDesk]
      [] OTHER -> s.win[w]

DeskUnmapped(s, m, d, swapping) ==
    IF s.shared /\ swapping
    THEN s
    ELSE [s EXCEPT
             !.win = [w \in DOMAIN s.win |-> Left(s, m, d, w)],
             !.focus = IF @ # NoWindow /\ Goes(s, m, d, @) THEN NoWindow ELSE @]

LastOn(list, S) == list[CHOOSE i \in DOMAIN list :
    /\ list[i] \in S
    /\ \A j \in DOMAIN list : list[j] \in S => j <= i]

\* Slip: the windows stay on their monitor.
ComeInPlace(s, m, d, x) ==
    [x EXCEPT !.desk = d, !.up = @ \/ ~x.sticky,
              !.left = IF @ = d THEN NoDesk ELSE @]

\* MapDesk.  Sticky windows come along; in shared mode the windows of the desk
\* are moved to the monitor.
Come(s, m, d, x) ==
    [x EXCEPT !.desk = d,
              !.up = @ \/ ~x.sticky,
              !.m = IF s.shared /\ ~x.sticky THEN m ELSE @,
              !.left = IF @ = d THEN NoDesk ELSE @]

\* Slip: whatever desk it was.
DueAnywhere(s, m, d) ==
    {w \in DOMAIN s.win : Looks(s, m, w) /\ s.win[w].left # NoDesk}

\* The windows that had the focus when this desk was left.
Due(s, m, d) == {w \in DOMAIN s.win : Looks(s, m, w) /\ s.win[w].left = d}

Shown(s, m, d, w) ==
    LET x == s.win[w] IN
    CASE Looks(s, m, w) /\ (x.sticky \/ x.desk = d) -> Come(s, m, d, x)
      [] Looks(s, m, w) /\ x.left = d /\ ~(x.sticky \/ x.desk = d) ->
             [x EXCEPT !.left = NoDesk]
      [] OTHER -> x

\* Of the windows that had the focus the last one on the window list gets it
\* back, or, if its policy is not to keep the focus, nobody has it, unless the
\* focus is on a sticky window.
DeskMapped(s, list, m, d) ==
    LET due == Due(s, m, d)
        undisturbed == /\ s.focus # NoWindow
                       /\ Looks(s, m, s.focus)
                       /\ s.win[s.focus].sticky
    IN  [s EXCEPT
            !.win = [w \in DOMAIN s.win |-> Shown(s, m, d, w)],
            !.focus = IF due = {} \/ undisturbed THEN @
                      ELSE IF LastOn(list, due) \in Clicky
                           THEN LastOn(list, due) ELSE NoWindow]

\* Slip: the pager never brings the others in line.
NewDeskAlone(s, q, m, d) == [s.heard[q] EXCEPT ![m] = d]

\* process_new_desk of FvwmPager q, which is told the desk d of monitor m.  If
\* it shows another monitor it returns before it brings all in line with m.
NewDesk(s, q, m, d) ==
    IF Apart(s) \/ q \notin {m, Everything}
    THEN [s.heard[q] EXCEPT ![m] = d]
    ELSE [n \in Monitors |-> d]

\* broadcast_new_desk_monitor: in global mode too it names one monitor.
NewDeskSent(s, m) ==
    [s EXCEPT !.heard = [q \in Pagers |-> NewDesk(s, q, m, s.mon[m].desk)]]

\* M_NEW_PAGE, which names all monitors, in shared mode only m; process_new_page
\* of FvwmPager takes the desk from it too.
NewPageSent(s, m) ==
    [s EXCEPT !.heard = [q \in Pagers |-> [n \in Monitors |->
        IF s.shared /\ n # m THEN s.heard[q][n] ELSE s.mon[n].desk]]]

\* goto_desk.
Switched(s, list, m, d, swapping) ==
    LET from == s.mon[m].desk
        kept == Assigned(
            [s EXCEPT !.mon[m].back = <<from, s.mon[m].page>>], m)
        gone == DeskUnmapped(kept, m, from, swapping)
        come == DeskMapped([gone EXCEPT !.mon[m].desk = d], list, m, d)
    IN  IF from = d THEN s ELSE NewDeskSent(Assigned(come, m), m)

\* Slip: nobody looks at the other monitors.
WentToDeskAlone(s, list, m, d) == Switched(s, list, m, d, FALSE)

\* CMD_GotoDesk.  In shared mode a desk that another monitor shows is exchanged.
WentToDesk(s, list, m, d) ==
    LET from == s.mon[m].desk
        others == {n \in Monitors \ {m} : s.mon[n].desk = d}
        other == CHOOSE n \in others : \A k \in others : n <= k
    IN  CASE from = d -> s
          [] from # d /\ s.shared /\ others # {} ->
                 Switched(Switched(s, list, other, from, TRUE),
                          list, m, d, TRUE)
          [] OTHER -> Switched(s, list, m, d, FALSE)

\* MoveViewport.
ViewportMoved(s, m, p) ==
    LET v == s.mon[m]
        there == [v EXCEPT !.page = p, !.back = <<v.desk, v.page>>]
    IN  IF v.page = p
        THEN Assigned(s, m)
        ELSE NewPageSent(Assigned([s EXCEPT !.mon[m] = there], m), m)

\* Slip: MoveViewport has the last word on where prev returns to.
WentToDeskAndPageOnce(s, list, m, d, p) ==
    ViewportMoved(WentToDesk(s, list, m, d), m, p)

\* CMD_GotoDeskAndPage.  The last goto_desk of the code finds the desk shown.
WentToDeskAndPage(s, list, m, d, p) ==
    LET from == s.mon[m].desk
        blank == IF s.shared THEN s ELSE DeskUnmapped(s, m, from, FALSE)
        there == ViewportMoved(WentToDesk(blank, list, m, d), m, p)
    IN  IF from = d
        THEN ViewportMoved(s, m, p)
        ELSE Assigned([there EXCEPT !.mon[m].back[1] = from], m)

\* CMD_DesktopConfiguration, called while the pointer is on monitor m: to become
\* global, all monitors go to the desk and page of m; to share the desks, they
\* take the desks from that of the first monitor on.
Following(s, list, m, n) ==
    IF n = m THEN s
    ELSE WentToDeskAndPage(s, list, n, s.mon[m].desk, s.mon[m].page)

AllFollowed(s, list, m) ==
    LET upTo[n \in 0 .. N] ==
            IF n = 0 THEN [s EXCEPT !.shared = FALSE]
            ELSE Following(upTo[n - 1], list, m, n)
    IN  upTo[N]

Spreading(s, list, first, n) ==
    IF n = 1 THEN s ELSE WentToDesk(s, list, n, first + n - 1)

AllSpread(s, list) ==
    LET upTo[n \in 0 .. N] ==
            IF n = 0 THEN [s EXCEPT !.shared = TRUE]
            ELSE Spreading(upTo[n - 1], list, s.mon[1].desk, n)
    IN  upTo[N]

\* BroadcastMonitorList.  It tells FvwmPager of the mode as well; until then it
\* goes by the old one, but all that it has made of it is overwritten here.
Announced(s) ==
    [s EXCEPT !.heard = [q \in Pagers |-> [n \in Monitors |-> s.mon[n].desk]]]

\* With one monitor shared needs more than one desk.  The names of desks are
\* left out, and so is a restart, which takes the mode shared and the desks as
\* the last session has left them.
Configured(s, list, m, to) ==
    CASE to = "global" ->
             Announced([AllFollowed(s, list, m) EXCEPT !.tracking = "G"])
      [] to = "per-monitor" ->
             Announced([s EXCEPT !.tracking = "M", !.shared = FALSE])
      [] to = "shared" /\ ~s.shared ->
             Announced([AllSpread(s, list) EXCEPT !.tracking = "G"])
      [] OTHER -> s

-----------------------------------------------------------------------------
(* Moving windows *)

\* do_move_window_to_desk.
MovedToDesk(s, w, d) ==
    LET x == s.win[w]
        cur == s.mon[x.m].desk
    IN  [s EXCEPT
            !.win[w] = [x EXCEPT
                !.desk = d,
                !.up = CASE x.desk = cur -> FALSE
                         [] x.desk # cur /\ d = cur -> TRUE
                         [] OTHER -> @],
            !.focus = IF x.desk = cur /\ @ = w THEN NoWindow ELSE @]

\* update_fvwm_monitor without an UpdateDesk, after the geometry has changed.
MovedToMonitor(s, w, m) ==
    IF s.win[w].m = m THEN s
    ELSE [s EXCEPT !.win[w] = [@ EXCEPT !.m = m, !.desk = s.mon[m].desk]]

\* _move_window of MoveToScreen, which sets m and UpdateDesk, and
\* update_fvwm_monitor.
MovedToScreen(s, w, m) ==
    LET cur == s.mon[m].desk
        x == [s.win[w] EXCEPT !.m = m]
    IN  [s EXCEPT !.win[w] = IF x.desk = cur THEN x
                             ELSE [x EXCEPT !.desk = cur, !.up = TRUE]]

\* stick_across_desks.
Stuck(s, w) ==
    LET cur == s.mon[s.win[w].m].desk
        t == IF s.win[w].desk = cur THEN s ELSE MovedToDesk(s, w, cur)
    IN  IF s.win[w].sticky
        THEN [s EXCEPT !.win[w] = [@ EXCEPT !.sticky = FALSE, !.desk = cur]]
        ELSE [t EXCEPT !.win[w].sticky = TRUE]

-----------------------------------------------------------------------------
(* What users, programs and clients may do.  Each of the following         *)
(* conditions is dropped if its name is in Upsets; the code checks none.   *)

\* A window that waits on another desk for the focus is not moved.
Settled(w) == "memory" \in Upsets \/ win[w].left = NoDesk

\* In shared mode a desk that another monitor shows is not asked for by calls
\* that do not look at the other monitors, as GotoDesk and MoveToDesk do.
Free(m, d) ==
    \/ "direct" \in Upsets
    \/ shared => \A n \in Monitors \ {m} : mon[n].desk # d

\* Sticky windows are not moved to another desk, nor focused while their Desk
\* is that of another monitor.
Pinned(w) == "sticky" \in Upsets \/ ~win[w].sticky

\* A hidden window is not moved to where its desk is on show.
Visible(w) == "hidden" \in Upsets \/ win[w].up

ShownBy(d) == {m \in Monitors : mon[m].desk = d}

Init ==
    /\ tracking = "G"
    /\ shared = FALSE
    /\ \E p \in Pages :
           mon = [m \in Monitors |->
                      [desk |-> 0, page |-> p, back |-> <<0, p>>]]
    /\ win = [w \in {} |-> 0]
    /\ focus = NoWindow
    /\ heard = [q \in Pagers |-> [m \in Monitors |-> 0]]

\* shared is entered while there are no windows, as at start-up, and left for
\* global with at most two monitors.
Configure(m, to) ==
    /\ to = "shared" /\ ~shared =>
           Managed = {} /\ mon[1].desk + N - 1 <= LastDesk
    /\ to = "global" /\ shared => Managed = {} \/ N <= 2
    /\ \E list \in Lists : Becomes(Configured(Now, list, m, to))

GotoDesk(m, d) ==
    \E list \in Lists : Becomes(WentToDesk(Now, list, m, d))

GotoDeskAndPage(m, d, p) ==
    \E list \in Lists : Becomes(WentToDeskAndPage(Now, list, m, d, p))

GotoPage(m, p) == Becomes(ViewportMoved(Now, m, p))

\* A client asks for a desk with _NET_CURRENT_DESKTOP, of its own window, or of
\* any other but the root, for the monitor with the pointer.
EwmhCurrentDesktop(m, d) ==
    /\ Free(m, d)
    /\ \E list \in Lists : Becomes(Switched(Now, list, m, d, FALSE))

MoveToDesk(w, d) ==
    /\ Settled(w)
    /\ Pinned(w)
    /\ d # win[w].desk
    /\ IF shared /\ ShownBy(d) # {}
       THEN /\ Visible(w)
            /\ \E m \in ShownBy(d) :
                   /\ \A n \in ShownBy(d) : m <= n
                   /\ Becomes(MovedToMonitor(Now, w, m))
       ELSE Becomes(MovedToDesk(Now, w, d))

\* A client asks for a desk with _NET_WM_DESKTOP.
EwmhWMDesktop(w, d) ==
    LET s == IF win[w].sticky THEN Stuck(Now, w) ELSE Now IN
    /\ Settled(w)
    /\ Free(win[w].m, d)
    /\ Becomes(IF s.win[w].desk = d THEN s ELSE MovedToDesk(s, w, d))

\* Move, AnimatedMove, MoveToPage or a ConfigureRequest ends on monitor m.
Move(w, m) ==
    /\ Visible(w)
    /\ Becomes(MovedToMonitor(Now, w, m))

MoveToScreen(w, m) ==
    /\ Settled(w)
    /\ win[w].desk = mon[m].desk => Visible(w)
    /\ Becomes(MovedToScreen(Now, w, m))

StickAcrossDesks(w) ==
    /\ Settled(w)
    /\ Becomes(Stuck(Now, w))

\* Focus without NoWarp, a click, or the pointer that enters a mapped window.
\* The viewport may have to follow.
Focus(w) ==
    LET m == win[w].m IN
    /\ win[w].desk # mon[m].desk => Pinned(w)
    /\ \E list \in Lists, p \in Pages :
           LET s == Switched(Now, list, m, win[w].desk, FALSE)
               t == IF p = s.mon[m].page THEN s ELSE ViewportMoved(s, m, p)
           IN  Becomes([t EXCEPT !.focus = w])

\* Focus NoWarp: nothing asks if the desk of the window is on show.
FocusNoWarp(w) == Becomes([Now EXCEPT !.focus = w])

\* A new window on monitor m and desk d (StartsOnDesk, or that of its group or
\* leader); place_window switches to the desk unless the window is not to be
\* shown.  The window may grab the focus when it is mapped.
Open(w, m, d, show) ==
    /\ w \notin Managed
    /\ Free(m, d)
    /\ \E list \in Lists, grabs \in BOOLEAN :
           LET s == IF shared \/ ~show THEN Now
                    ELSE Switched(Now, list, m, d, FALSE)
               up == s.mon[m].desk = d
               new == [desk |-> d, m |-> m, sticky |-> FALSE, up |-> up,
                       left |-> NoDesk]
           IN  Becomes([s EXCEPT
                   !.win = [x \in DOMAIN s.win \cup {w} |->
                                IF x = w THEN new ELSE s.win[x]],
                   !.focus = IF grabs /\ up THEN w ELSE @])

\* The focus of a window that goes is passed on to one with the same number for
\* its Desk, whatever its monitor shows; if that one is on another page, which
\* is all that IsRectangleOnThisPage looks at, nobody gets it.
Heirs(w) == {x \in Managed \ {w} : win[x].desk = win[w].desk}

Close(w) ==
    \E heir \in Heirs(w) \cup {NoWindow} :
        Becomes([Now EXCEPT
            !.win = [x \in Managed \ {w} |-> win[x]],
            !.focus = IF @ = w THEN heir ELSE @])

Configures == \E m \in Monitors, to \in {"global", "per-monitor", "shared"} :
    Configure(m, to)

Switches == \E m \in Monitors :
    \/ \E d \in Desks : GotoDesk(m, d) \/ EwmhCurrentDesktop(m, d)
    \/ \E d \in Desks, p \in Pages : GotoDeskAndPage(m, d, p)
    \/ \E p \in Pages : GotoPage(m, p)

Comes == \E w \in Windows, m \in Monitors, d \in Desks, show \in BOOLEAN :
    Open(w, m, d, show)

Acts == \E w \in Managed :
    \/ \E d \in Desks : MoveToDesk(w, d) \/ EwmhWMDesktop(w, d)
    \/ \E m \in Monitors : Move(w, m) \/ MoveToScreen(w, m)
    \/ StickAcrossDesks(w)
    \/ Focus(w)
    \/ FocusNoWarp(w)
    \/ Close(w)

Next == Configures \/ Switches \/ Comes \/ Acts

Spec == Init /\ [][Next]_vars

-----------------------------------------------------------------------------
(* Properties *)

\* What UnmapDesk, MapDesk and the moves of single windows leave on the screen:
\* a window is mapped exactly if it is sticky or its monitor shows its desk; in
\* shared mode it is on the monitor that shows its desk, if one does.
OnlyShownDesks == \A w \in Managed :
    LET x == win[w] IN
    /\ x.up <=> x.sticky \/ x.desk = mon[x.m].desk
    /\ shared /\ ~x.sticky => ShownBy(x.desk) \subseteq {x.m}

\* goto_desk, exchanges and DesktopConfiguration: in shared mode no two
\* monitors show one desk, in global mode all show the same desk and page.
DesksPerMode ==
    /\ shared => tracking = "G"
    /\ shared => \A m, n \in Monitors : m # n => mon[m].desk # mon[n].desk
    /\ tracking = "G" /\ ~shared => \A m, n \in Monitors :
           mon[m].desk = mon[n].desk /\ mon[m].page = mon[n].page

\* What UnmapDesk remembers and MapDesk restores: the focus is on a window that
\* is managed, and no command brings it to a hidden window or hides the window
\* that has it, with two exceptions.  Focus NoWarp does, and so does the closing
\* of a window, if the desks are per monitor or the Desk of the window is not one
\* that is on show, as the window was hidden itself or sticky.
FocusShown == [][LET f == focus' IN f # NoWindow =>
    /\ f \in DOMAIN win'
    /\ \/ win'[f].up
       \/ f = focus /\ ~win[f].up
       \/ \E w \in Managed :
              \/ FocusNoWarp(w)
              \/ Close(w) /\ (tracking = "M" \/ ~win[w].up \/ win[w].sticky)]_vars

\* M_NEW_DESK and M_NEW_PAGE: a FvwmPager that shows all monitors knows which
\* desk each of them shows, whatever the mode; one that shows a single monitor
\* does unless the mode is global.
PagerKnows == \A q \in Pagers : q = Everything \/ Apart(Now) =>
    \A m \in Monitors : heard[q][m] = mon[m].desk

\* GotoDeskAndPage prev: however commands and clients take a monitor from one
\* desk or page to another, it is the last one it has left that prev returns to.
\* (Focus is not among them: if it changes both, it leaves the new desk there.)
BackIsLast == [][
    \/ tracking' # tracking
    \/ shared' # shared
    \/ \E w \in Managed : Focus(w)
    \/ \A m \in Monitors :
           \/ mon'[m].desk = mon[m].desk /\ mon'[m].page = mon[m].page
           \/ mon'[m].back = <<mon[m].desk, mon[m].page>>]_vars
=============================================================================
