----------------------------- MODULE DesksProofs -----------------------------
(***************************************************************************)
(* Proofs about Desks, for any number of monitors, windows, desks and      *)
(* pages: as long as none of the Upsets happens, the mapped windows are    *)
(* those of the desks on show (OnlyShownDesks), the desks of the monitors  *)
(* are as their mode wants them (DesksPerMode), nothing but Focus NoWarp   *)
(* and certain closes brings the focus to a hidden window (FocusShown), a  *)
(* FvwmPager that may know all the desks does (PagerKnows), and prev goes  *)
(* back one step (BackIsLast).  What keeps the focus on mapped windows is  *)
(* preserved up to a set H of windows that may be hidden: each step is     *)
(* taken with the window that has the focus already, if it is hidden, or,  *)
(* where the focus may go anywhere, with all windows.                      *)
(***************************************************************************)
EXTENDS Desks, ListLemmas, FiniteSetTheorems

-----------------------------------------------------------------------------
(* The state *)

WindowRec == [desk: Desks, m: Monitors, sticky: BOOLEAN, up: BOOLEAN,
              left: Desks \cup {NoDesk}]

MonitorRec == [desk: Desks, page: Pages, back: Desks \X Pages]

State == [tracking: {"G", "M"}, shared: BOOLEAN, mon: [Monitors -> MonitorRec],
          win: UNION {[W -> WindowRec] : W \in SUBSET Windows},
          focus: Windows \cup {NoWindow},
          heard: [Pagers -> [Monitors -> Desks]]]

(* The fields of a state, in the form in which the provers use them. *)
LEMMA StateFields ==
    ASSUME NEW s \in State
    PROVE  /\ s.tracking \in {"G", "M"} /\ s.shared \in BOOLEAN
           /\ s.mon \in [Monitors -> MonitorRec]
           /\ s.win \in [DOMAIN s.win -> WindowRec]
           /\ DOMAIN s.win \subseteq Windows
           /\ s.focus \in Windows \cup {NoWindow}
           /\ s.heard \in [Pagers -> [Monitors -> Desks]]
  BY DEF State

LEMMA StateMade ==
    ASSUME NEW t, NEW u \in {"G", "M"}, NEW sh \in BOOLEAN,
           NEW mo \in [Monitors -> MonitorRec], NEW W \in SUBSET Windows,
           NEW wi \in [W -> WindowRec], NEW f \in Windows \cup {NoWindow},
           NEW h \in [Pagers -> [Monitors -> Desks]],
           t = [tracking |-> u, shared |-> sh, mon |-> mo, win |-> wi,
                focus |-> f, heard |-> h]
    PROVE  t \in State
  BY DEF State

LEMMA DesksFacts ==
    /\ NoDesk \notin Desks
    /\ NoWindow \notin Windows
    /\ Monitors \subseteq Nat
    /\ 1 \in Monitors
  BY DesksAssumption DEF NoDesk, Desks, Monitors

(* Every window is on the window list, so that LastOn finds one of S. *)
LEMMA LastOnFound ==
    ASSUME NEW list \in Lists, NEW S \in SUBSET Windows, S # {}
    PROVE  LastOn(list, S) \in S
<1> DEFINE n == Cardinality(Windows)
           P == {i \in 1 .. n : list[i] \in S}
<1>1. n \in Nat /\ list \in [1 .. n -> Windows]
      /\ \A i, j \in 1 .. n : i # j => list[i] # list[j]
  BY DesksAssumption, FS_CardinalityType DEF Lists, SetToSeqs
<1>2. list \in Surjection(1 .. n, Windows)
  <2>1. list \in Injection(1 .. n, Windows)
    BY <1>1 DEF Injection, IsInjective
  <2>2. Cardinality(1 .. n) = n
    BY <1>1, FS_Interval
  <2> QED BY <2>1, <2>2, FS_Injection, DesksAssumption
<1>3. P # {}
  BY <1>2 DEF Surjection
<1>4. PICK i \in P : \A j \in P : j <= i
  <2>1. P \subseteq 0 .. n
    BY <1>1
  <2> QED BY <1>1, <1>3, <2>1, GreatestNat
<1> QED BY <1>1, <1>4 DEF LastOn

-----------------------------------------------------------------------------
(* What the operators of virtual.c do to a state, field by field *)

LEMMA AssignedFields ==
    ASSUME NEW s \in State, NEW m \in Monitors, NEW t, t = Assigned(s, m)
    PROVE  /\ t \in State
           /\ t.tracking = s.tracking /\ t.shared = s.shared
           /\ t.win = s.win /\ t.focus = s.focus /\ t.heard = s.heard
           /\ \A n \in Monitors :
                 t.mon[n] = IF Apart(s) THEN s.mon[n] ELSE s.mon[m]
<1>1. CASE Apart(s)
  BY <1>1 DEF Assigned, Apart
<1>2. CASE ~Apart(s)
  <2> DEFINE mo == [n \in Monitors |-> s.mon[m]]
  <2>1. mo \in [Monitors -> MonitorRec]
    BY StateFields
  <2>2. t = [tracking |-> s.tracking, shared |-> s.shared, mon |-> mo,
             win |-> s.win, focus |-> s.focus, heard |-> s.heard]
    BY <1>2 DEF Assigned, Apart, State
  <2> HIDE DEF mo
  <2>3. t \in State
    BY <2>1, <2>2, StateFields, StateMade
  <2> QED BY <1>2, <2>2, <2>3 DEF mo
<1> QED BY <1>1, <1>2

(* UnmapDesk. *)
LEMMA DeskUnmappedFields ==
    ASSUME NEW s \in State, NEW m \in Monitors, NEW d \in Desks,
           NEW swap \in BOOLEAN, NEW t, t = DeskUnmapped(s, m, d, swap)
    PROVE  /\ t \in State
           /\ t.tracking = s.tracking /\ t.shared = s.shared
           /\ t.mon = s.mon /\ t.heard = s.heard
           /\ DOMAIN t.win = DOMAIN s.win
           /\ s.shared /\ swap => t = s
           /\ ~(s.shared /\ swap) =>
                \A w \in DOMAIN s.win :
                  LET x == s.win[w]
                      y == t.win[w]
                  IN  /\ y.desk = x.desk /\ y.m = x.m /\ y.sticky = x.sticky
                      /\ Goes(s, m, d, w) => ~y.up /\ y.left \in {d, NoDesk}
                      /\ ~Goes(s, m, d, w) =>
                            y.up = x.up /\ y.left \in {x.left, NoDesk}
                      /\ x.sticky /\ Looks(s, m, w) => y.left = NoDesk
           /\ ~(s.shared /\ swap) =>
                t.focus = IF s.focus # NoWindow /\ Goes(s, m, d, s.focus)
                          THEN NoWindow ELSE s.focus
<1>1. CASE s.shared /\ swap
  BY <1>1 DEF DeskUnmapped
<1>2. CASE ~(s.shared /\ swap)
  <2> DEFINE wi == [w \in DOMAIN s.win |-> Left(s, m, d, w)]
             f == IF s.focus # NoWindow /\ Goes(s, m, d, s.focus)
                  THEN NoWindow ELSE s.focus
  <2>1. ASSUME NEW w \in DOMAIN s.win
        PROVE  LET x == s.win[w]
                   y == Left(s, m, d, w)
               IN  /\ y \in WindowRec
                   /\ y.desk = x.desk /\ y.m = x.m /\ y.sticky = x.sticky
                   /\ Goes(s, m, d, w) => ~y.up /\ y.left \in {d, NoDesk}
                   /\ ~Goes(s, m, d, w) =>
                         y.up = x.up /\ y.left \in {x.left, NoDesk}
                   /\ x.sticky /\ Looks(s, m, w) => y.left = NoDesk
    <3>1. s.win[w] \in WindowRec
      BY StateFields
    <3>2. CASE Goes(s, m, d, w)
      <4> DEFINE l == IF w = s.focus THEN d ELSE NoDesk
      <4>1. Left(s, m, d, w) = [s.win[w] EXCEPT !.up = FALSE, !.left = l]
        BY <3>2 DEF Left, Goes, Looks
      <4>2. l \in {d, NoDesk} /\ ~s.win[w].sticky
        BY <3>2 DEF Goes
      <4> HIDE DEF l
      <4> QED BY <3>1, <3>2, <4>1, <4>2 DEF WindowRec
    <3>3. CASE ~Goes(s, m, d, w) /\ Looks(s, m, w) /\ s.win[w].sticky
      <4>1. Left(s, m, d, w) = [s.win[w] EXCEPT !.left = NoDesk]
        BY <3>3 DEF Left
      <4> QED BY <3>1, <3>3, <4>1 DEF WindowRec
    <3>4. CASE ~Goes(s, m, d, w) /\ ~(Looks(s, m, w) /\ s.win[w].sticky)
      <4>1. Left(s, m, d, w) = s.win[w]
        BY <3>4 DEF Left
      <4> QED BY <3>1, <3>4, <4>1
    <3> QED BY <3>2, <3>3, <3>4
  <2>2. t = [tracking |-> s.tracking, shared |-> s.shared, mon |-> s.mon,
             win |-> wi, focus |-> f, heard |-> s.heard]
    BY <1>2 DEF DeskUnmapped, State
  <2>3. wi \in [DOMAIN s.win -> WindowRec]
    BY <2>1
  <2>4. f \in Windows \cup {NoWindow}
    BY StateFields
  <2>5. \A w \in DOMAIN s.win : wi[w] = Left(s, m, d, w)
    OBVIOUS
  <2> HIDE DEF wi, f
  <2>6. t \in State
    BY <2>2, <2>3, <2>4, StateFields, StateMade
  <2>7. DOMAIN t.win = DOMAIN s.win
    BY <2>2, <2>3
  <2>8. ASSUME NEW w \in DOMAIN s.win PROVE t.win[w] = Left(s, m, d, w)
    BY <2>2, <2>5
  <2>9. /\ t.tracking = s.tracking /\ t.shared = s.shared
        /\ t.mon = s.mon /\ t.heard = s.heard /\ t.focus = f
    BY <2>2
  <2>10. \A w \in DOMAIN s.win :
            LET x == s.win[w]
                y == t.win[w]
            IN  /\ y.desk = x.desk /\ y.m = x.m /\ y.sticky = x.sticky
                /\ Goes(s, m, d, w) => ~y.up /\ y.left \in {d, NoDesk}
                /\ ~Goes(s, m, d, w) =>
                      y.up = x.up /\ y.left \in {x.left, NoDesk}
                /\ x.sticky /\ Looks(s, m, w) => y.left = NoDesk
    <3> TAKE w \in DOMAIN s.win
    <3> QED BY <2>1, <2>8, Zenon
  <2> QED BY <1>2, <2>6, <2>7, <2>9, <2>10 DEF f
<1> QED BY <1>1, <1>2

(* MapDesk. *)
LEMMA DeskMappedFields ==
    ASSUME NEW s \in State, NEW m \in Monitors, NEW d \in Desks,
           NEW list \in Lists, NEW t, t = DeskMapped(s, list, m, d)
    PROVE  /\ t \in State
           /\ t.tracking = s.tracking /\ t.shared = s.shared
           /\ t.mon = s.mon /\ t.heard = s.heard
           /\ DOMAIN t.win = DOMAIN s.win
           /\ \A w \in DOMAIN s.win :
                LET x == s.win[w]
                    y == t.win[w]
                    comes == Looks(s, m, w) /\ (x.sticky \/ x.desk = d)
                IN  /\ y.sticky = x.sticky
                    /\ y.desk = IF comes THEN d ELSE x.desk
                    /\ y.m = IF comes /\ s.shared /\ ~x.sticky THEN m ELSE x.m
                    /\ y.up = (x.up \/ (comes /\ ~x.sticky))
                    /\ y.left = IF Looks(s, m, w) /\ x.left = d
                                THEN NoDesk ELSE x.left
           /\ \/ t.focus = NoWindow
              \/ t.focus = s.focus
              \/ /\ t.focus \in DOMAIN s.win
                 /\ Looks(s, m, t.focus) /\ s.win[t.focus].left = d
<1> DEFINE wi == [w \in DOMAIN s.win |-> Shown(s, m, d, w)]
           f == t.focus
<1>1. ASSUME NEW w \in DOMAIN s.win
      PROVE  LET x == s.win[w]
                 y == Shown(s, m, d, w)
                 comes == Looks(s, m, w) /\ (x.sticky \/ x.desk = d)
             IN  /\ y \in WindowRec
                 /\ y.sticky = x.sticky
                 /\ y.desk = IF comes THEN d ELSE x.desk
                 /\ y.m = IF comes /\ s.shared /\ ~x.sticky THEN m ELSE x.m
                 /\ y.up = (x.up \/ (comes /\ ~x.sticky))
                 /\ y.left = IF Looks(s, m, w) /\ x.left = d
                             THEN NoDesk ELSE x.left
  <2> DEFINE x == s.win[w]
             comes == Looks(s, m, w) /\ (x.sticky \/ x.desk = d)
  <2>1. x \in WindowRec
    BY StateFields
  <2>2. CASE comes
    <3>1. Shown(s, m, d, w) = Come(s, m, d, x)
      BY <2>2 DEF Shown
    <3> QED BY <2>1, <2>2, <3>1 DEF Come, WindowRec
  <2>3. CASE ~comes /\ Looks(s, m, w) /\ x.left = d
    <3>1. Shown(s, m, d, w) = [x EXCEPT !.left = NoDesk]
      BY <2>3 DEF Shown
    <3> QED BY <2>1, <2>3, <3>1 DEF WindowRec
  <2>4. CASE ~comes /\ ~(Looks(s, m, w) /\ x.left = d)
    <3>1. Shown(s, m, d, w) = x
      BY <2>4 DEF Shown
    <3> QED BY <2>1, <2>4, <3>1 DEF WindowRec
  <2> QED BY <2>2, <2>3, <2>4
<1>2. /\ t.win = wi
      /\ \/ t.focus = NoWindow
         \/ t.focus = s.focus
         \/ Due(s, m, d) # {} /\ t.focus = LastOn(list, Due(s, m, d))
      /\ t = [tracking |-> s.tracking, shared |-> s.shared, mon |-> s.mon,
              win |-> wi, focus |-> f, heard |-> s.heard]
  BY DEF DeskMapped, State
<1>3. Due(s, m, d) \subseteq DOMAIN s.win /\ Due(s, m, d) \subseteq Windows
  BY StateFields DEF Due
<1>4. Due(s, m, d) # {} => LastOn(list, Due(s, m, d)) \in Due(s, m, d)
  BY <1>3, LastOnFound
<1>5. \/ t.focus = NoWindow
      \/ t.focus = s.focus
      \/ /\ t.focus \in DOMAIN s.win
         /\ Looks(s, m, t.focus) /\ s.win[t.focus].left = d
  BY <1>2, <1>4 DEF Due
<1>6. wi \in [DOMAIN s.win -> WindowRec]
  BY <1>1
<1>7. f \in Windows \cup {NoWindow}
  BY <1>5, StateFields
<1>8. \A w \in DOMAIN s.win : wi[w] = Shown(s, m, d, w)
  OBVIOUS
<1> HIDE DEF wi, f
<1>9. t \in State
  BY <1>2, <1>6, <1>7, StateFields, StateMade
<1>10. /\ DOMAIN t.win = DOMAIN s.win
       /\ t.tracking = s.tracking /\ t.shared = s.shared
       /\ t.mon = s.mon /\ t.heard = s.heard
  BY <1>2, <1>6
<1>11. ASSUME NEW w \in DOMAIN s.win PROVE t.win[w] = Shown(s, m, d, w)
  BY <1>2, <1>8
<1> QED BY <1>1, <1>5, <1>9, <1>10, <1>11

(* What becomes of the record of one monitor. *)
WithMon(s, m, v) == [s EXCEPT !.mon[m] = v]

LEMMA MonFields ==
    ASSUME NEW s \in State, NEW m \in Monitors, NEW v \in MonitorRec, NEW t,
           t = WithMon(s, m, v)
    PROVE  /\ t \in State
           /\ t.tracking = s.tracking /\ t.shared = s.shared
           /\ t.win = s.win /\ t.focus = s.focus /\ t.heard = s.heard
           /\ t.mon[m] = v
           /\ \A n \in Monitors \ {m} : t.mon[n] = s.mon[n]
<1> DEFINE mo == [s.mon EXCEPT ![m] = v]
<1>1. mo \in [Monitors -> MonitorRec] /\ mo[m] = v
      /\ \A n \in Monitors \ {m} : mo[n] = s.mon[n]
  BY StateFields
<1>2. t = [tracking |-> s.tracking, shared |-> s.shared, mon |-> mo,
           win |-> s.win, focus |-> s.focus, heard |-> s.heard]
  BY DEF State, WithMon
<1> HIDE DEF mo
<1>3. t \in State
  BY <1>1, <1>2, StateFields, StateMade
<1> QED BY <1>1, <1>2, <1>3

LEMMA BackFields ==
    ASSUME NEW s \in State, NEW m \in Monitors, NEW b \in Desks \X Pages
    PROVE  LET v == [desk |-> s.mon[m].desk, page |-> s.mon[m].page, back |-> b]
           IN  /\ v \in MonitorRec
               /\ [s EXCEPT !.mon[m].back = b] = WithMon(s, m, v)
<1>1. s.mon[m] \in MonitorRec
  BY StateFields
<1>2. [s.mon[m] EXCEPT !.back = b]
        = [desk |-> s.mon[m].desk, page |-> s.mon[m].page, back |-> b]
  BY <1>1 DEF MonitorRec
<1> QED BY <1>1, <1>2 DEF MonitorRec, WithMon

LEMMA DeskFields ==
    ASSUME NEW s \in State, NEW m \in Monitors, NEW d \in Desks
    PROVE  LET v == [desk |-> d, page |-> s.mon[m].page, back |-> s.mon[m].back]
           IN  /\ v \in MonitorRec
               /\ [s EXCEPT !.mon[m].desk = d] = WithMon(s, m, v)
<1>1. s.mon[m] \in MonitorRec
  BY StateFields
<1>2. [s.mon[m] EXCEPT !.desk = d]
        = [desk |-> d, page |-> s.mon[m].page, back |-> s.mon[m].back]
  BY <1>1 DEF MonitorRec
<1> QED BY <1>1, <1>2 DEF MonitorRec, WithMon

(* Whether FvwmPager q takes a packet about m to be about n as well. *)
Told(s, q, m, n) == n = m \/ (~Apart(s) /\ q \in {m, Everything})

LEMMA NewDeskSentFields ==
    ASSUME NEW s \in State, NEW m \in Monitors, NEW t, t = NewDeskSent(s, m)
    PROVE  /\ t \in State
           /\ t.tracking = s.tracking /\ t.shared = s.shared
           /\ t.mon = s.mon /\ t.win = s.win /\ t.focus = s.focus
           /\ \A q \in Pagers, n \in Monitors :
                 t.heard[q][n] = IF Told(s, q, m, n) THEN s.mon[m].desk
                                 ELSE s.heard[q][n]
<1> DEFINE d == s.mon[m].desk
           h == [q \in Pagers |-> NewDesk(s, q, m, d)]
<1>1. d \in Desks
  BY StateFields DEF MonitorRec
<1>2. h \in [Pagers -> [Monitors -> Desks]]
      /\ \A q \in Pagers, n \in Monitors :
            h[q][n] = IF Told(s, q, m, n) THEN d ELSE s.heard[q][n]
  <2>1. ASSUME NEW q \in Pagers
        PROVE  /\ NewDesk(s, q, m, d) \in [Monitors -> Desks]
               /\ \A n \in Monitors : NewDesk(s, q, m, d)[n] =
                     IF Told(s, q, m, n) THEN d ELSE s.heard[q][n]
    <3>1. s.heard[q] \in [Monitors -> Desks]
      BY StateFields
    <3>2. CASE Apart(s) \/ q \notin {m, Everything}
      BY <1>1, <3>1, <3>2 DEF NewDesk, Told
    <3>3. CASE ~(Apart(s) \/ q \notin {m, Everything})
      BY <1>1, <3>3 DEF NewDesk, Told
    <3> QED BY <3>2, <3>3
  <2> QED BY <2>1
<1>3. t = [tracking |-> s.tracking, shared |-> s.shared, mon |-> s.mon,
           win |-> s.win, focus |-> s.focus, heard |-> h]
  BY DEF NewDeskSent, State
<1> HIDE DEF h
<1>4. t \in State
  BY <1>2, <1>3, StateFields, StateMade
<1> QED BY <1>2, <1>3, <1>4

(* What goto_desk does to a window: it comes along with the desk, goes with *)
(* the old one, or neither.                                                 *)
Appears(s, m, d, w) == Looks(s, m, w) /\ (s.win[w].sticky \/ s.win[w].desk = d)

Hides(s, m, swap, w) ==
    ~(s.shared /\ swap) /\ Goes(s, m, s.mon[m].desk, w)

WindowSwitched(s, m, d, swap, w, y) ==
    LET x == s.win[w]
        comes == Appears(s, m, d, w)
    IN  /\ y.sticky = x.sticky
        /\ y.desk = IF comes THEN d ELSE x.desk
        /\ y.m = IF comes /\ s.shared /\ ~x.sticky THEN m ELSE x.m
        /\ comes /\ ~x.sticky => y.up
        /\ Hides(s, m, swap, w) =>
              ~y.up /\ y.left \in {s.mon[m].desk, NoDesk}
        /\ ~Hides(s, m, swap, w) => y.left \in {x.left, NoDesk}
        /\ ~Hides(s, m, swap, w) /\ (~comes \/ x.sticky) => y.up = x.up
        /\ Looks(s, m, w) => y.left # d

FocusSwitched(s, m, d, swap, f) ==
    \/ f = NoWindow
    \/ f = s.focus /\ ~Hides(s, m, swap, f)
    \/ f \in DOMAIN s.win /\ Looks(s, m, f) /\ s.win[f].left = d

MonSwitched(s, m, d) ==
    [desk |-> d, page |-> s.mon[m].page,
     back |-> <<s.mon[m].desk, s.mon[m].page>>]

IsSwitched(s, m, d, swap, t) ==
    /\ t \in State
    /\ t.tracking = s.tracking /\ t.shared = s.shared
    /\ \A n \in Monitors :
          t.mon[n] = IF ~Apart(s) \/ n = m THEN MonSwitched(s, m, d)
                     ELSE s.mon[n]
    /\ \A q \in Pagers, n \in Monitors :
          t.heard[q][n] = IF Told(s, q, m, n) THEN d ELSE s.heard[q][n]
    /\ DOMAIN t.win = DOMAIN s.win
    /\ \A w \in DOMAIN s.win : WindowSwitched(s, m, d, swap, w, t.win[w])
    /\ FocusSwitched(s, m, d, swap, t.focus)

LEMMA SwitchedFields ==
    ASSUME NEW s \in State, NEW m \in Monitors, NEW d \in Desks,
           s.mon[m].desk # d, NEW list \in Lists, NEW swap \in BOOLEAN
    PROVE  IsSwitched(s, m, d, swap, Switched(s, list, m, d, swap))
<1> DEFINE from == s.mon[m].desk
           v == [desk |-> d, page |-> s.mon[m].page,
                 back |-> <<s.mon[m].desk, s.mon[m].page>>]
           b == [s EXCEPT !.mon[m].back = <<from, s.mon[m].page>>]
           kept == Assigned(b, m)
           gone == DeskUnmapped(kept, m, from, swap)
           c == [gone EXCEPT !.mon[m].desk = d]
           come == DeskMapped(c, list, m, d)
           all == Assigned(come, m)
           t == Switched(s, list, m, d, swap)
<1>1. from \in Desks /\ s.mon[m].page \in Pages
      /\ <<from, s.mon[m].page>> \in Desks \X Pages
  BY StateFields DEF MonitorRec
<1>2. t = NewDeskSent(all, m)
  BY DEF Switched
<1> HIDE DEF t
<1>3. /\ b \in State /\ b.tracking = s.tracking /\ b.shared = s.shared
      /\ b.win = s.win /\ b.focus = s.focus /\ b.heard = s.heard
      /\ b.mon[m].desk = from /\ b.mon[m].page = s.mon[m].page
      /\ b.mon[m].back = <<from, s.mon[m].page>>
      /\ \A n \in Monitors \ {m} : b.mon[n] = s.mon[n]
  <2> DEFINE v1 == [desk |-> from, page |-> s.mon[m].page,
                    back |-> <<from, s.mon[m].page>>]
  <2>1. v1 \in MonitorRec /\ b = WithMon(s, m, v1)
    BY <1>1, BackFields
  <2>2. /\ v1.desk = from /\ v1.page = s.mon[m].page
        /\ v1.back = <<from, s.mon[m].page>>
    OBVIOUS
  <2> HIDE DEF b, v1
  <2> QED BY <2>1, <2>2, MonFields
<1> HIDE DEF b
<1>4. /\ kept \in State /\ kept.tracking = s.tracking /\ kept.shared = s.shared
      /\ kept.win = s.win /\ kept.focus = s.focus /\ kept.heard = s.heard
      /\ kept.mon[m] = b.mon[m]
      /\ Apart(s) => \A n \in Monitors : kept.mon[n] = b.mon[n]
  BY <1>3, AssignedFields DEF Apart
<1> HIDE DEF kept
<1>5. /\ gone \in State /\ gone.tracking = s.tracking /\ gone.shared = s.shared
      /\ gone.heard = s.heard /\ gone.mon = kept.mon
      /\ DOMAIN gone.win = DOMAIN s.win
  BY <1>1, <1>4, DeskUnmappedFields
<1>6. \A w \in DOMAIN s.win :
        LET x == s.win[w]
            y == gone.win[w]
        IN  /\ y.desk = x.desk /\ y.m = x.m /\ y.sticky = x.sticky
            /\ Hides(s, m, swap, w) => ~y.up /\ y.left \in {from, NoDesk}
            /\ ~Hides(s, m, swap, w) =>
                  y.up = x.up /\ y.left \in {x.left, NoDesk}
            /\ Looks(gone, m, w) <=> Looks(s, m, w)
  <2>1. CASE s.shared /\ swap
    <3>1. gone = kept
      BY <1>4, <2>1 DEF DeskUnmapped
    <3> QED BY <1>4, <2>1, <3>1 DEF Hides, Looks
  <2>2. CASE ~(s.shared /\ swap)
    <3> TAKE w \in DOMAIN s.win
    <3>1. Goes(kept, m, from, w) <=> Hides(s, m, swap, w)
      BY <1>4, <2>2 DEF Goes, Hides, Looks
    <3>2. LET x == s.win[w]
              y == gone.win[w]
          IN  /\ y.desk = x.desk /\ y.m = x.m /\ y.sticky = x.sticky
              /\ Goes(kept, m, from, w) => ~y.up /\ y.left \in {from, NoDesk}
              /\ ~Goes(kept, m, from, w) =>
                    y.up = x.up /\ y.left \in {x.left, NoDesk}
      BY <1>1, <1>4, <2>2, DeskUnmappedFields, SMTT(30)
    <3>3. Looks(gone, m, w) <=> Looks(s, m, w)
      BY <1>5, <3>2 DEF Looks
    <3> QED BY <3>1, <3>2, <3>3
  <2> QED BY <2>1, <2>2
<1>7. \/ gone.focus = NoWindow
      \/ gone.focus = s.focus /\ ~Hides(s, m, swap, s.focus)
  <2>1. CASE s.shared /\ swap
    <3>1. gone = kept
      BY <1>4, <2>1 DEF DeskUnmapped
    <3> QED BY <1>4, <2>1, <3>1 DEF Hides
  <2>2. CASE ~(s.shared /\ swap)
    <3>1. gone.focus = IF s.focus # NoWindow /\ Goes(kept, m, from, s.focus)
                       THEN NoWindow ELSE s.focus
      BY <1>1, <1>4, <2>2, DeskUnmappedFields
    <3>2. Goes(kept, m, from, s.focus) <=> Goes(s, m, from, s.focus)
      BY <1>4 DEF Goes, Looks
    <3>3. Hides(s, m, swap, s.focus) <=> Goes(s, m, from, s.focus)
      BY <2>2 DEF Hides
    <3> QED BY <3>1, <3>2, <3>3, Zenon
  <2> QED BY <2>1, <2>2
<1> HIDE DEF gone
<1>8. /\ c \in State /\ c.tracking = s.tracking /\ c.shared = s.shared
      /\ c.win = gone.win /\ c.focus = gone.focus /\ c.heard = s.heard
      /\ c.mon[m] = v
      /\ Apart(s) => \A n \in Monitors \ {m} : c.mon[n] = s.mon[n]
  <2> DEFINE v2 == [desk |-> d, page |-> gone.mon[m].page,
                    back |-> gone.mon[m].back]
  <2>1. v2 \in MonitorRec /\ c = WithMon(gone, m, v2)
    BY <1>5, DeskFields
  <2>2. v2 = v
    BY <1>3, <1>4, <1>5
  <2> HIDE DEF c, v2
  <2>3. /\ c \in State /\ c.tracking = gone.tracking /\ c.shared = gone.shared
        /\ c.win = gone.win /\ c.focus = gone.focus /\ c.heard = gone.heard
        /\ c.mon[m] = v2
        /\ \A n \in Monitors \ {m} : c.mon[n] = gone.mon[n]
    BY <1>5, <2>1, MonFields
  <2> QED BY <1>3, <1>4, <1>5, <2>2, <2>3
<1> HIDE DEF c, v
<1>9. /\ come \in State /\ come.tracking = s.tracking
      /\ come.shared = s.shared /\ come.mon = c.mon /\ come.heard = s.heard
      /\ DOMAIN come.win = DOMAIN s.win
  BY <1>5, <1>8, DeskMappedFields
<1>10. \A w \in DOMAIN s.win : WindowSwitched(s, m, d, swap, w, come.win[w])
  <2> TAKE w \in DOMAIN s.win
  <2> DEFINE x == gone.win[w]
             y == come.win[w]
             comes == Looks(c, m, w) /\ (x.sticky \/ x.desk = d)
  <2>1. /\ y.sticky = x.sticky
        /\ y.desk = IF comes THEN d ELSE x.desk
        /\ y.m = IF comes /\ s.shared /\ ~x.sticky THEN m ELSE x.m
        /\ y.up = (x.up \/ (comes /\ ~x.sticky))
        /\ y.left = IF Looks(c, m, w) /\ x.left = d THEN NoDesk ELSE x.left
    BY <1>5, <1>8, DeskMappedFields
  <2>2. Looks(c, m, w) = Looks(s, m, w)
    BY <1>5, <1>6, <1>8 DEF Looks
  <2>3. /\ x.desk = s.win[w].desk /\ x.m = s.win[w].m
        /\ x.sticky = s.win[w].sticky
        /\ Hides(s, m, swap, w) => ~x.up /\ x.left \in {from, NoDesk}
        /\ ~Hides(s, m, swap, w) =>
              x.up = s.win[w].up /\ x.left \in {s.win[w].left, NoDesk}
    BY <1>6
  <2>4. comes <=> Appears(s, m, d, w)
    BY <2>2, <2>3 DEF Appears
  <2>5. Hides(s, m, swap, w) => ~comes
    BY <2>3 DEF Hides, Goes
  <2>6. NoDesk # d
    BY DesksFacts
  <2>7. x.up \in BOOLEAN /\ y.up \in BOOLEAN /\ s.win[w].up \in BOOLEAN
        /\ x.sticky \in BOOLEAN
    BY <1>5, <1>9, StateFields DEF WindowRec
  <2> HIDE DEF x, y, comes
  <2>8. WindowSwitched(s, m, d, swap, w, y)
    BY <2>1, <2>2, <2>3, <2>4, <2>5, <2>6, <2>7 DEF WindowSwitched
  <2> QED BY <2>8 DEF y
<1>11. FocusSwitched(s, m, d, swap, come.focus)
  <2>1. \/ come.focus = NoWindow
        \/ come.focus = c.focus
        \/ /\ come.focus \in DOMAIN c.win
           /\ Looks(c, m, come.focus) /\ c.win[come.focus].left = d
    BY <1>8, DeskMappedFields
  <2>2. CASE /\ come.focus \in DOMAIN c.win
             /\ Looks(c, m, come.focus) /\ c.win[come.focus].left = d
    <3>1. PICK f \in DOMAIN s.win :
              f = come.focus /\ Looks(c, m, f) /\ gone.win[f].left = d
      BY <1>5, <1>8, <2>2
    <3>2. Looks(c, m, f) <=> Looks(s, m, f)
      BY <1>5, <1>6, <1>8, <3>1 DEF Looks
    <3>3. s.win[f].left = d
      <4>1. gone.win[f].left \in {from, NoDesk, s.win[f].left}
        BY <1>6, <3>1
      <4> QED BY <3>1, <4>1, DesksFacts
    <3> QED BY <3>1, <3>2, <3>3, Zenon DEF FocusSwitched
  <2>3. CASE come.focus = c.focus
    BY <1>7, <1>8, <2>3, Zenon DEF FocusSwitched
  <2>4. CASE come.focus = NoWindow
    BY <2>4, Zenon DEF FocusSwitched
  <2> HIDE DEF come
  <2> QED BY <2>1, <2>2, <2>3, <2>4, Zenon
<1> HIDE DEF come
<1>12. /\ all \in State /\ all.tracking = s.tracking /\ all.shared = s.shared
       /\ all.win = come.win /\ all.focus = come.focus /\ all.heard = s.heard
       /\ \A n \in Monitors :
             all.mon[n] = IF ~Apart(s) \/ n = m THEN v ELSE s.mon[n]
  <2>1. /\ all \in State /\ all.tracking = come.tracking
        /\ all.shared = come.shared
        /\ all.win = come.win /\ all.focus = come.focus
        /\ all.heard = come.heard
        /\ \A n \in Monitors :
              all.mon[n] = IF Apart(come) THEN come.mon[n] ELSE come.mon[m]
    BY <1>9, AssignedFields
  <2>2. Apart(come) <=> Apart(s)
    BY <1>9 DEF Apart
  <2> QED BY <1>8, <1>9, <2>1, <2>2
<1> HIDE DEF all
<1>13. v.desk = d
  BY DEF v
<1>14. Apart(all) <=> Apart(s)
  BY <1>12 DEF Apart
<1>15. /\ t \in State
       /\ t.tracking = s.tracking /\ t.shared = s.shared
       /\ t.mon = all.mon /\ t.win = come.win /\ t.focus = come.focus
       /\ \A q \in Pagers, n \in Monitors :
             t.heard[q][n] = IF Told(s, q, m, n) THEN d ELSE s.heard[q][n]
  <2>1. \A q \in Pagers, n \in Monitors :
          Told(all, q, m, n) <=> Told(s, q, m, n)
    BY <1>14 DEF Told
  <2> QED BY <1>2, <1>12, <1>13, <2>1, NewDeskSentFields, SMTT(30)
<1> QED BY <1>9, <1>10, <1>11, <1>12, <1>15 DEF v, t, IsSwitched, MonSwitched

DesksNow(s, m, d, t) == \A n \in Monitors :
    /\ t.mon[n].desk = IF ~Apart(s) \/ n = m THEN d ELSE s.mon[n].desk
    /\ t.mon[n].page = IF ~Apart(s) \/ n = m THEN s.mon[m].page
                       ELSE s.mon[n].page
    /\ t.mon[n].back = IF ~Apart(s) \/ n = m
                       THEN <<s.mon[m].desk, s.mon[m].page>>
                       ELSE s.mon[n].back

LEMMA DesksSwitched ==
    ASSUME NEW s, NEW m \in Monitors, NEW d, NEW swap, NEW t,
           IsSwitched(s, m, d, swap, t)
    PROVE  DesksNow(s, m, d, t)
<1> SUFFICES ASSUME NEW n \in Monitors
             PROVE  /\ t.mon[n].desk = IF ~Apart(s) \/ n = m THEN d
                                       ELSE s.mon[n].desk
                    /\ t.mon[n].page = IF ~Apart(s) \/ n = m THEN s.mon[m].page
                                       ELSE s.mon[n].page
                    /\ t.mon[n].back = IF ~Apart(s) \/ n = m
                                       THEN <<s.mon[m].desk, s.mon[m].page>>
                                       ELSE s.mon[n].back
  BY DEF DesksNow
<1>1. CASE ~Apart(s) \/ n = m
  <2>1. t.mon[n] = MonSwitched(s, m, d)
    BY <1>1 DEF IsSwitched
  <2> QED BY <1>1, <2>1 DEF MonSwitched
<1>2. CASE ~(~Apart(s) \/ n = m)
  <2>1. t.mon[n] = s.mon[n]
    BY <1>2 DEF IsSwitched
  <2> QED BY <1>2, <2>1
<1> QED BY <1>1, <1>2

-----------------------------------------------------------------------------
(* The invariant *)

WindowFits(s, w) ==
    LET x == s.win[w] IN
    /\ x.up <=> x.sticky \/ x.desk = s.mon[x.m].desk
    /\ s.shared /\ ~x.sticky =>
          \A n \in Monitors : s.mon[n].desk = x.desk => n = x.m

OnlyShown(s) == \A w \in DOMAIN s.win : WindowFits(s, w)

Modes(s) ==
    /\ s.shared => s.tracking = "G"
    /\ s.shared => \A m, n \in Monitors : m # n => s.mon[m].desk # s.mon[n].desk
    /\ s.tracking = "G" /\ ~s.shared => \A m, n \in Monitors :
          s.mon[m].desk = s.mon[n].desk /\ s.mon[m].page = s.mon[n].page

(* A window that is remembered is hidden, on the desk it had the focus on. *)
Memory(s) == \A w \in DOMAIN s.win : s.win[w].left # NoDesk =>
    ~s.win[w].sticky /\ s.win[w].left = s.win[w].desk /\ ~s.win[w].up

(* The focus is on a mapped window or on one of H. *)
Focused(H, s) == s.focus # NoWindow =>
    /\ s.focus \in DOMAIN s.win
    /\ s.win[s.focus].up \/ s.focus \in H

(* A FvwmPager that shows one monitor need not know the others if all the *)
(* monitors follow one.                                                    *)
Heard(s) == \A q \in Pagers : q = Everything \/ Apart(s) =>
    \A n \in Monitors : s.heard[q][n] = s.mon[n].desk

Good(H, s) ==
    /\ s \in State /\ OnlyShown(s) /\ Modes(s)
    /\ Memory(s) /\ Focused(H, s) /\ Heard(s)

(* prev returns to what a monitor has left. *)
BackRight(s, t) == \A n \in Monitors :
    \/ t.mon[n].desk = s.mon[n].desk /\ t.mon[n].page = s.mon[n].page
    \/ t.mon[n].back = <<s.mon[n].desk, s.mon[n].page>>

(* FvwmPager learns of goto_desk, if all is well with what it knows of the *)
(* others, or all the monitors follow.                                     *)
LEMMA SwitchedHeard ==
    ASSUME NEW s, NEW m \in Monitors, NEW d, NEW swap, NEW t,
           IsSwitched(s, m, d, swap, t), Apart(s) => Heard(s)
    PROVE  Heard(t)
<1> SUFFICES ASSUME NEW q \in Pagers, q = Everything \/ Apart(t),
                    NEW n \in Monitors
             PROVE  t.heard[q][n] = t.mon[n].desk
  BY DEF Heard
<1>1. /\ t.tracking = s.tracking /\ t.shared = s.shared
      /\ t.heard[q][n] = IF Told(s, q, m, n) THEN d ELSE s.heard[q][n]
  BY DEF IsSwitched
<1>2. t.mon[n].desk = IF ~Apart(s) \/ n = m THEN d ELSE s.mon[n].desk
  <2>1. DesksNow(s, m, d, t)
    BY DesksSwitched
  <2> QED BY <2>1 DEF DesksNow
<1>3. Apart(t) <=> Apart(s)
  BY <1>1 DEF Apart
<1>4. CASE Apart(s)
  <2>1. s.heard[q][n] = s.mon[n].desk
    BY <1>3, <1>4 DEF Heard
  <2> QED BY <1>1, <1>2, <1>4, <2>1 DEF Told
<1>5. CASE ~Apart(s)
  BY <1>1, <1>2, <1>3, <1>5 DEF Told
<1> QED BY <1>4, <1>5

(* goto_desk keeps what MapDesk relies on, whatever is mapped. *)
LEMMA SwitchedMemory ==
    ASSUME NEW H, NEW s \in State, Memory(s), Focused(H, s), NEW m \in Monitors,
           NEW d \in Desks, s.mon[m].desk # d, NEW list \in Lists,
           NEW swap \in BOOLEAN, NEW t, t = Switched(s, list, m, d, swap)
    PROVE  Memory(t) /\ Focused(H, t)
<1>1. /\ t \in State /\ DOMAIN t.win = DOMAIN s.win
      /\ \A w \in DOMAIN s.win : WindowSwitched(s, m, d, swap, w, t.win[w])
      /\ FocusSwitched(s, m, d, swap, t.focus)
  BY SwitchedFields DEF IsSwitched
<1>2. ASSUME NEW w \in DOMAIN s.win, t.win[w].left # NoDesk
      PROVE  ~t.win[w].sticky /\ t.win[w].left = t.win[w].desk /\ ~t.win[w].up
  <2>1. WindowSwitched(s, m, d, swap, w, t.win[w])
    BY <1>1
  <2>2. CASE Hides(s, m, swap, w)
    <3>1. ~Appears(s, m, d, w) /\ ~s.win[w].sticky
          /\ s.win[w].desk = s.mon[m].desk
      BY <2>2 DEF Hides, Goes, Appears
    <3> QED BY <1>2, <2>1, <2>2, <3>1 DEF WindowSwitched
  <2>3. CASE ~Hides(s, m, swap, w)
    <3>1. t.win[w].left = s.win[w].left
      BY <1>2, <2>1, <2>3 DEF WindowSwitched
    <3>2. ~s.win[w].sticky /\ s.win[w].left = s.win[w].desk /\ ~s.win[w].up
      BY <1>2, <3>1 DEF Memory
    <3>3. ~Appears(s, m, d, w)
      BY <2>1, <3>1, <3>2 DEF WindowSwitched, Appears
    <3> QED BY <2>1, <2>3, <3>1, <3>2, <3>3 DEF WindowSwitched
  <2> QED BY <2>2, <2>3
<1>3. ASSUME t.focus # NoWindow
      PROVE  /\ t.focus \in DOMAIN s.win
             /\ t.win[t.focus].up \/ t.focus \in H
  <2>1. CASE t.focus = s.focus /\ ~Hides(s, m, swap, t.focus)
    <3>1. /\ t.focus \in DOMAIN s.win
          /\ s.win[t.focus].up \/ t.focus \in H
      BY <1>3, <2>1 DEF Focused
    <3>2. WindowSwitched(s, m, d, swap, t.focus, t.win[t.focus])
      BY <1>1, <3>1
    <3> QED BY <2>1, <3>1, <3>2 DEF WindowSwitched
  <2>2. CASE /\ t.focus \in DOMAIN s.win
             /\ Looks(s, m, t.focus) /\ s.win[t.focus].left = d
    <3>1. ~s.win[t.focus].sticky /\ s.win[t.focus].desk = d
      BY <2>2, DesksFacts DEF Memory
    <3>2. Appears(s, m, d, t.focus)
      BY <2>2, <3>1 DEF Appears
    <3>3. WindowSwitched(s, m, d, swap, t.focus, t.win[t.focus])
      BY <1>1, <2>2
    <3> QED BY <2>2, <3>1, <3>2, <3>3 DEF WindowSwitched
  <2> QED BY <1>1, <1>3, <2>1, <2>2 DEF FocusSwitched
<1> QED BY <1>1, <1>2, <1>3 DEF Memory, Focused

(* Global mode: whatever the monitors showed, afterwards all show desk d, if *)
(* no window but those of the old desk and of d was mapped.                  *)
LEMMA SwitchedTogether ==
    ASSUME NEW H, NEW s \in State, Memory(s), Focused(H, s), ~Apart(s),
           NEW m \in Monitors, NEW d \in Desks, s.mon[m].desk # d,
           NEW list \in Lists, NEW t, t = Switched(s, list, m, d, FALSE),
           \A w \in DOMAIN s.win :
              /\ s.win[w].sticky => s.win[w].up
              /\ ~s.win[w].sticky /\ s.win[w].desk \notin {s.mon[m].desk, d}
                    => ~s.win[w].up
    PROVE  Good(H, t)
<1>1. IsSwitched(s, m, d, FALSE, t)
  BY SwitchedFields
<1>2. /\ t \in State /\ t.tracking = s.tracking /\ t.shared = s.shared
      /\ DOMAIN t.win = DOMAIN s.win
      /\ \A w \in DOMAIN s.win : WindowSwitched(s, m, d, FALSE, w, t.win[w])
  BY <1>1 DEF IsSwitched
<1>7. \A n \in Monitors :
         t.mon[n].desk = d /\ t.mon[n].page = s.mon[m].page
  <2>1. DesksNow(s, m, d, t)
    BY <1>1, DesksSwitched, Zenon
  <2> QED BY <2>1 DEF DesksNow
<1>3. s.tracking = "G" /\ ~s.shared
  BY StateFields DEF Apart
<1>4. Modes(t) /\ Heard(t)
  BY <1>1, <1>2, <1>3, <1>7, SwitchedHeard DEF Modes
<1>5. Memory(t) /\ Focused(H, t)
  BY SwitchedMemory
<1>6. OnlyShown(t)
  <2> SUFFICES ASSUME NEW w \in DOMAIN s.win PROVE WindowFits(t, w)
    BY <1>2 DEF OnlyShown
  <2> DEFINE x == s.win[w]
             y == t.win[w]
  <2>1. WindowSwitched(s, m, d, FALSE, w, y)
    BY <1>2
  <2>2. Looks(s, m, w)
    BY <1>3 DEF Looks
  <2>3. t.mon[y.m].desk = d
    <3>1. y.m \in Monitors
      BY <1>2, StateFields DEF WindowRec
    <3> QED BY <1>7, <3>1
  <2>4. x.sticky \in BOOLEAN /\ x.up \in BOOLEAN /\ y.up \in BOOLEAN
    BY <1>2, StateFields DEF WindowRec
  <2>5. y.up <=> y.sticky \/ y.desk = d
    <3>1. CASE x.sticky
      <4>1. ~Hides(s, m, FALSE, w)
        BY <3>1 DEF Hides, Goes
      <4> QED BY <2>1, <2>4, <3>1, <4>1 DEF WindowSwitched
    <3>2. CASE ~x.sticky /\ x.desk = d
      BY <2>1, <2>2, <2>4, <3>2 DEF WindowSwitched, Appears
    <3>3. CASE ~x.sticky /\ x.desk # d
      <4>1. ~Appears(s, m, d, w)
        BY <3>3 DEF Appears
      <4>2. ~y.up
        <5>1. CASE x.desk = s.mon[m].desk
          <6>1. Hides(s, m, FALSE, w)
            BY <2>2, <3>3, <5>1 DEF Hides, Goes
          <6> QED BY <2>1, <6>1 DEF WindowSwitched
        <5>2. CASE x.desk # s.mon[m].desk
          <6>1. ~Hides(s, m, FALSE, w)
            BY <5>2 DEF Hides, Goes
          <6> QED BY <2>1, <3>3, <4>1, <5>2, <6>1 DEF WindowSwitched
        <5> QED BY <5>1, <5>2
      <4> QED BY <2>1, <3>3, <4>1, <4>2 DEF WindowSwitched
    <3> QED BY <2>4, <3>1, <3>2, <3>3
  <2> QED BY <1>2, <1>3, <2>3, <2>5 DEF WindowFits
<1> QED BY <1>2, <1>4, <1>5, <1>6 DEF Good

(* A window that need not fit, because it is on the desk that m is leaving. *)
MayHide(s, m, w) ==
    /\ ~s.shared /\ Looks(s, m, w)
    /\ ~s.win[w].sticky /\ s.win[w].desk = s.mon[m].desk

(* All that is Good, but windows of the desk of m may be hidden already, as *)
(* GotoDeskAndPage does it, and the monitor they are on is the right one.   *)
Blank(H, s, m) ==
    /\ s \in State /\ Modes(s) /\ Memory(s) /\ Focused(H, s) /\ Heard(s)
    /\ \A w \in DOMAIN s.win : MayHide(s, m, w) \/ WindowFits(s, w)

LEMMA GoodIsBlank ==
    ASSUME NEW H, NEW s, Good(H, s), NEW m \in Monitors
    PROVE  Blank(H, s, m)
  BY DEF Good, Blank, OnlyShown

(* The other modes, if no other monitor shows desk d where desks are shared. *)
LEMMA SwitchedApart ==
    ASSUME NEW H, NEW s, NEW m \in Monitors, Blank(H, s, m), Apart(s),
           NEW d \in Desks, s.mon[m].desk # d,
           s.shared => \A n \in Monitors \ {m} : s.mon[n].desk # d,
           NEW list \in Lists, NEW t, t = Switched(s, list, m, d, FALSE)
    PROVE  Good(H, t)
<1>0. s \in State /\ Memory(s) /\ Focused(H, s) /\ Modes(s) /\ Heard(s)
  BY DEF Blank
<1>1. IsSwitched(s, m, d, FALSE, t)
  BY <1>0, SwitchedFields
<1>2. /\ t \in State /\ t.tracking = s.tracking /\ t.shared = s.shared
      /\ DOMAIN t.win = DOMAIN s.win
      /\ \A w \in DOMAIN s.win : WindowSwitched(s, m, d, FALSE, w, t.win[w])
  BY <1>1 DEF IsSwitched
<1>3. \A n \in Monitors :
         /\ t.mon[n].desk = IF n = m THEN d ELSE s.mon[n].desk
  <2>1. DesksNow(s, m, d, t)
    BY <1>1, DesksSwitched, Zenon
  <2> QED BY <2>1 DEF DesksNow
<1>4. s.tracking \in {"G", "M"} /\ s.shared \in BOOLEAN
  BY <1>0, StateFields
<1>5. Modes(t)
  <2>1. s.tracking = "G" => s.shared
    BY <1>4 DEF Apart
  <2>2. s.shared =>
           \A n, k \in Monitors : n # k => t.mon[n].desk # t.mon[k].desk
    <3> SUFFICES ASSUME s.shared, NEW n \in Monitors, NEW k \in Monitors, n # k
                 PROVE  t.mon[n].desk # t.mon[k].desk
      OBVIOUS
    <3>1. s.mon[n].desk # s.mon[k].desk
      BY <1>0 DEF Modes
    <3>2. n = m \/ s.mon[n].desk # d
      OBVIOUS
    <3>3. k = m \/ s.mon[k].desk # d
      OBVIOUS
    <3>4. t.mon[n].desk = IF n = m THEN d ELSE s.mon[n].desk
      BY <1>3
    <3>5. t.mon[k].desk = IF k = m THEN d ELSE s.mon[k].desk
      BY <1>3
    <3> QED BY <3>1, <3>2, <3>3, <3>4, <3>5
  <2>3. s.shared => s.tracking = "G"
    BY <1>0 DEF Modes
  <2> QED BY <1>2, <2>1, <2>2, <2>3 DEF Modes
<1>6. Heard(t)
  BY <1>0, <1>1, SwitchedHeard
<1>7. Memory(t) /\ Focused(H, t)
  BY <1>0, SwitchedMemory
<1>8. OnlyShown(t)
  <2> SUFFICES ASSUME NEW w \in DOMAIN s.win PROVE WindowFits(t, w)
    BY <1>2 DEF OnlyShown
  <2> DEFINE x == s.win[w]
             y == t.win[w]
  <2>1. WindowSwitched(s, m, d, FALSE, w, y)
    BY <1>2
  <2>2. /\ x.sticky \in BOOLEAN /\ x.up \in BOOLEAN /\ y.up \in BOOLEAN
        /\ x.m \in Monitors /\ y.m \in Monitors
    BY <1>0, <1>2, StateFields DEF WindowRec
  <2>3. t.mon[y.m].desk = IF y.m = m THEN d ELSE s.mon[y.m].desk
    BY <1>3, <2>2
  <2>4. s.shared => Looks(s, m, w)
    BY <1>0 DEF Looks, Modes
  <2>5. ~s.shared => (Looks(s, m, w) <=> x.m = m)
    BY <1>4 DEF Looks, Apart
  <2>6. MayHide(s, m, w) \/ WindowFits(s, w)
    BY DEF Blank
  <2>7. CASE x.sticky
    <3>1. ~Hides(s, m, FALSE, w) /\ WindowFits(s, w)
      BY <2>6, <2>7 DEF Hides, Goes, MayHide
    <3>2. x.up
      BY <2>7, <3>1 DEF WindowFits
    <3> QED BY <2>1, <2>2, <2>7, <3>1, <3>2 DEF WindowSwitched, WindowFits
  <2>8. CASE ~x.sticky /\ Appears(s, m, d, w)
    <3>1. y.desk = d /\ y.up /\ ~y.sticky
      BY <2>1, <2>2, <2>8 DEF WindowSwitched
    <3>2. y.m = m
      <4>1. y.m = IF s.shared THEN m ELSE x.m
        BY <2>1, <2>8 DEF WindowSwitched
      <4>2. Looks(s, m, w)
        BY <2>8 DEF Appears
      <4> QED BY <2>5, <4>1, <4>2
    <3>3. y.desk = t.mon[y.m].desk
      BY <2>3, <3>1, <3>2
    <3>4. t.shared => \A n \in Monitors : t.mon[n].desk = y.desk => n = y.m
      BY <1>2, <1>3, <3>1, <3>2
    <3> QED BY <3>1, <3>3, <3>4 DEF WindowFits
  <2>9. CASE ~x.sticky /\ ~Appears(s, m, d, w)
    <3>1. y.desk = x.desk /\ y.m = x.m /\ ~y.sticky
      BY <2>1, <2>9 DEF WindowSwitched
    <3>2. CASE Hides(s, m, FALSE, w)
      <4>1. ~y.up /\ x.desk = s.mon[m].desk /\ Looks(s, m, w)
        BY <2>1, <3>2 DEF WindowSwitched, Hides, Goes
      <4>2. CASE ~s.shared
        <5>1. y.desk # t.mon[y.m].desk
          BY <2>3, <2>5, <3>1, <4>1, <4>2
        <5> QED BY <1>2, <3>1, <4>1, <4>2, <5>1 DEF WindowFits
      <4>3. CASE s.shared
        <5>1. x.m = m
          BY <2>6, <2>9, <4>1, <4>3 DEF WindowFits, MayHide
        <5>2. \A n \in Monitors : t.mon[n].desk # x.desk
          BY <1>0, <1>3, <4>1, <4>3, ZenonT(60) DEF Modes
        <5> QED BY <2>2, <3>1, <4>1, <5>1, <5>2 DEF WindowFits
      <4> QED BY <1>4, <4>2, <4>3
    <3>3. CASE ~Hides(s, m, FALSE, w)
      <4>1. y.up = x.up
        BY <2>1, <2>9, <3>3 DEF WindowSwitched
      <4>2. ~(Looks(s, m, w) /\ x.desk = s.mon[m].desk)
        BY <2>9, <3>3 DEF Hides, Goes
      <4>3. WindowFits(s, w)
        BY <2>6, <4>2 DEF MayHide
      <4>4. ~(Looks(s, m, w) /\ x.desk = d)
        BY <2>9 DEF Appears
      <4>5. y.up <=> y.desk = t.mon[y.m].desk
        BY <2>3, <2>4, <2>5, <2>9, <3>1, <4>1, <4>2, <4>3, <4>4
           DEF WindowFits
      <4>6. t.shared => \A n \in Monitors : t.mon[n].desk = y.desk => n = y.m
        BY <1>2, <1>3, <2>4, <2>9, <3>1, <4>2, <4>3, <4>4 DEF WindowFits
      <4> QED BY <3>1, <4>5, <4>6 DEF WindowFits
    <3> QED BY <3>2, <3>3
  <2> QED BY <2>2, <2>7, <2>8, <2>9
<1> QED BY <1>2, <1>5, <1>6, <1>7, <1>8 DEF Good

(* What a command that takes monitor m to desk d and page p makes of a state *)
(* that is Good.                                                             *)
Arrived(H, s, m, d, p, t) ==
    /\ Good(H, t)
    /\ t.tracking = s.tracking /\ t.shared = s.shared
    /\ DOMAIN t.win = DOMAIN s.win
    /\ BackRight(s, t)
    /\ t.mon[m].desk = d /\ t.mon[m].page = p
    /\ ~s.shared => \A n \in Monitors \ {m} :
          /\ t.mon[n].desk = IF Apart(s) THEN s.mon[n].desk ELSE d
          /\ t.mon[n].page = IF Apart(s) THEN s.mon[n].page ELSE p

(* Two monitors that exchange their desks. *)
Exchange(s, list, m, o) ==
    Switched(Switched(s, list, o, s.mon[m].desk, TRUE), list,
             m, s.mon[o].desk, TRUE)

LEMMA Exchanged ==
    ASSUME NEW H, NEW s, Good(H, s), s.shared, NEW m \in Monitors,
           NEW o \in Monitors,
           s.mon[m].desk # s.mon[o].desk, NEW list \in Lists,
           NEW t, t = Exchange(s, list, m, o)
    PROVE  Arrived(H, s, m, s.mon[o].desk, s.mon[m].page, t)
<1> DEFINE from == s.mon[m].desk
           d == s.mon[o].desk
           s1 == Switched(s, list, o, from, TRUE)
<1>0. t = Switched(s1, list, m, d, TRUE)
  BY DEF Exchange
<1> HIDE DEF s1
<1>1. /\ s \in State /\ s.tracking = "G" /\ Apart(s)
      /\ Memory(s) /\ Focused(H, s) /\ Modes(s) /\ Heard(s)
      /\ from \in Desks /\ d \in Desks /\ o # m
  BY StateFields DEF Good, Modes, Apart, MonitorRec
<1>2. /\ IsSwitched(s, o, from, TRUE, s1)
      /\ Memory(s1) /\ Focused(H, s1)
  BY <1>1, SwitchedFields, SwitchedMemory DEF s1
<1>3. /\ s1 \in State /\ s1.tracking = s.tracking /\ s1.shared = s.shared
      /\ DOMAIN s1.win = DOMAIN s.win
      /\ \A w \in DOMAIN s.win : WindowSwitched(s, o, from, TRUE, w, s1.win[w])
  BY <1>2 DEF IsSwitched
<1>4. \A n \in Monitors :
         /\ s1.mon[n].desk = IF n = o THEN from ELSE s.mon[n].desk
         /\ s1.mon[n].page = s.mon[n].page
         /\ s1.mon[n].back = IF n = o THEN <<d, s.mon[n].page>>
                             ELSE s.mon[n].back
  <2>1. DesksNow(s, o, from, s1)
    BY <1>2, DesksSwitched, Zenon
  <2> QED BY <1>1, <2>1 DEF DesksNow
<1>5. Apart(s1) /\ s1.mon[m].desk # d
  BY <1>1, <1>3, <1>4 DEF Apart
<1>6. IsSwitched(s1, m, d, TRUE, t) /\ Memory(t) /\ Focused(H, t)
  BY <1>0, <1>1, <1>2, <1>3, <1>5, SwitchedFields, SwitchedMemory
<1>7. /\ t \in State /\ t.tracking = s.tracking /\ t.shared = s.shared
      /\ DOMAIN t.win = DOMAIN s.win
      /\ \A w \in DOMAIN s.win : WindowSwitched(s1, m, d, TRUE, w, t.win[w])
  BY <1>3, <1>6 DEF IsSwitched
<1>8. \A n \in Monitors :
         /\ t.mon[n].desk = IF n = m THEN d
                            ELSE IF n = o THEN from ELSE s.mon[n].desk
         /\ t.mon[n].page = s.mon[n].page
         /\ t.mon[n].back = IF n = m THEN <<from, s.mon[n].page>>
                            ELSE IF n = o THEN <<d, s.mon[n].page>>
                            ELSE s.mon[n].back
  <2>1. DesksNow(s1, m, d, t)
    BY <1>6, DesksSwitched, Zenon
  <2> TAKE n \in Monitors
  <2>2. /\ t.mon[n].desk = IF n = m THEN d ELSE s1.mon[n].desk
        /\ t.mon[n].page = IF n = m THEN s1.mon[m].page ELSE s1.mon[n].page
        /\ t.mon[n].back = IF n = m THEN <<s1.mon[m].desk, s1.mon[m].page>>
                           ELSE s1.mon[n].back
    BY <1>5, <2>1 DEF DesksNow
  <2>3. s1.mon[m].desk = from /\ s1.mon[m].page = s.mon[m].page
    BY <1>1, <1>4
  <2>4. CASE n = m
    BY <2>2, <2>3, <2>4
  <2>5. CASE n # m
    BY <1>4, <2>2, <2>5
  <2> QED BY <2>4, <2>5
<1>9. Modes(t)
  <2>1. \A n, k \in Monitors : n # k => t.mon[n].desk # t.mon[k].desk
    <3> SUFFICES ASSUME NEW n \in Monitors, NEW k \in Monitors, n # k
                 PROVE  t.mon[n].desk # t.mon[k].desk
      OBVIOUS
    <3>1. \A i, j \in Monitors : i # j => s.mon[i].desk # s.mon[j].desk
      BY <1>1 DEF Modes
    <3> DEFINE was(i) == IF i = m THEN o ELSE IF i = o THEN m ELSE i
    <3>2. /\ t.mon[n].desk = s.mon[was(n)].desk
          /\ t.mon[k].desk = s.mon[was(k)].desk
      BY <1>8
    <3>3. was(n) \in Monitors /\ was(k) \in Monitors /\ was(n) # was(k)
      BY <1>1
    <3> HIDE DEF was
    <3> QED BY <3>1, <3>2, <3>3
  <2> QED BY <1>1, <1>7, <2>1 DEF Modes
<1>13. \A n, k \in Monitors : n # k => t.mon[n].desk # t.mon[k].desk
  BY <1>7, <1>9 DEF Modes
<1>10. Heard(t)
  <2>1. Heard(s1)
    BY <1>1, <1>2, SwitchedHeard
  <2> QED BY <1>6, <2>1, SwitchedHeard
<1>11. BackRight(s, t)
  BY <1>1, <1>8 DEF BackRight
<1>12. OnlyShown(t)
  <2> SUFFICES ASSUME NEW w \in DOMAIN s.win PROVE WindowFits(t, w)
    BY <1>7 DEF OnlyShown
  <2> DEFINE x == s.win[w]
             y == s1.win[w]
             z == t.win[w]
  <2>1. WindowSwitched(s, o, from, TRUE, w, y)
    BY <1>3
  <2>2. WindowSwitched(s1, m, d, TRUE, w, z)
    BY <1>7
  <2>3. ~Hides(s, o, TRUE, w) /\ ~Hides(s1, m, TRUE, w)
    BY <1>3 DEF Hides
  <2>4. Looks(s, o, w) /\ Looks(s1, m, w)
    BY <1>1, <1>3 DEF Looks
  <2>5. /\ x.up \in BOOLEAN /\ y.up \in BOOLEAN /\ z.up \in BOOLEAN
        /\ x.sticky \in BOOLEAN /\ x.m \in Monitors
    BY <1>1, <1>3, <1>7, StateFields DEF WindowRec
  <2>6. /\ x.up <=> x.sticky \/ x.desk = s.mon[x.m].desk
        /\ ~x.sticky => \A n \in Monitors : s.mon[n].desk = x.desk => n = x.m
    BY DEF Good, OnlyShown, WindowFits
  <2>7. z.sticky = x.sticky
    BY <2>1, <2>2 DEF WindowSwitched
  <2>8. CASE x.sticky
    <3>1. y.up = x.up /\ y.sticky = x.sticky
      BY <2>1, <2>3, <2>8 DEF WindowSwitched
    <3>2. z.up = y.up
      BY <2>2, <2>3, <2>8, <3>1 DEF WindowSwitched
    <3> QED BY <2>5, <2>6, <2>7, <2>8, <3>1, <3>2 DEF WindowFits
  <2>9. CASE ~x.sticky /\ x.desk = from
    <3>1. y.up /\ y.desk = from /\ y.m = o /\ ~y.sticky
      BY <2>1, <2>4, <2>5, <2>9 DEF WindowSwitched, Appears
    <3>2. ~Appears(s1, m, d, w)
      BY <3>1 DEF Appears
    <3>3. z.up /\ z.desk = from /\ z.m = o
      BY <2>2, <2>3, <2>5, <3>1, <3>2 DEF WindowSwitched
    <3>4. t.mon[z.m].desk = z.desk /\ z.m \in Monitors
      BY <1>1, <1>8, <3>3
    <3>5. \A n \in Monitors : t.mon[n].desk = z.desk => n = z.m
      <4> SUFFICES ASSUME NEW n \in Monitors, n # z.m
                   PROVE  t.mon[n].desk # z.desk
        OBVIOUS
      <4>1. t.mon[n].desk # t.mon[z.m].desk
        BY <1>13, <3>4
      <4> QED BY <3>4, <4>1
    <3>6. z.up <=> z.sticky \/ z.desk = t.mon[z.m].desk
      BY <2>5, <3>3, <3>4
    <3> QED BY <3>5, <3>6 DEF WindowFits
  <2>10. CASE ~x.sticky /\ x.desk = d
    <3>1. y.desk = d /\ ~y.sticky
      BY <2>1, <2>10 DEF WindowSwitched, Appears
    <3>2. Appears(s1, m, d, w)
      BY <2>4, <3>1 DEF Appears
    <3>3. z.up /\ z.desk = d /\ z.m = m
      BY <1>3, <2>2, <2>5, <3>1, <3>2 DEF WindowSwitched
    <3>4. t.mon[z.m].desk = z.desk /\ z.m \in Monitors
      BY <1>1, <1>8, <3>3
    <3>5. \A n \in Monitors : t.mon[n].desk = z.desk => n = z.m
      <4> SUFFICES ASSUME NEW n \in Monitors, n # z.m
                   PROVE  t.mon[n].desk # z.desk
        OBVIOUS
      <4>1. t.mon[n].desk # t.mon[z.m].desk
        BY <1>13, <3>4
      <4> QED BY <3>4, <4>1
    <3>6. z.up <=> z.sticky \/ z.desk = t.mon[z.m].desk
      BY <2>5, <3>3, <3>4
    <3> QED BY <3>5, <3>6 DEF WindowFits
  <2>11. CASE ~x.sticky /\ x.desk \notin {from, d}
    <3>1. ~Appears(s, o, from, w)
      BY <2>11 DEF Appears
    <3>2. y.up = x.up /\ y.desk = x.desk /\ y.m = x.m /\ ~y.sticky
      BY <2>1, <2>3, <2>11, <3>1 DEF WindowSwitched
    <3>3. ~Appears(s1, m, d, w)
      BY <2>11, <3>2 DEF Appears
    <3>4. z.up = x.up /\ z.desk = x.desk /\ z.m = x.m
      BY <2>2, <2>3, <2>11, <3>2, <3>3 DEF WindowSwitched
    <3>5. t.mon[x.m].desk = x.desk <=> s.mon[x.m].desk = x.desk
      BY <1>1, <1>8, <2>5, <2>11
    <3>6. \A n \in Monitors : t.mon[n].desk = x.desk => s.mon[n].desk = x.desk
      BY <1>1, <1>8, <2>11
    <3> QED BY <2>5, <2>6, <2>7, <2>11, <3>4, <3>5, <3>6 DEF WindowFits
  <2> QED BY <2>5, <2>8, <2>9, <2>10, <2>11
<1>14. Good(H, t)
  BY <1>6, <1>7, <1>9, <1>10, <1>12 DEF Good
<1>15. t.mon[m].desk = d /\ t.mon[m].page = s.mon[m].page
  BY <1>8
<1> QED BY <1>7, <1>11, <1>14, <1>15 DEF Arrived

LEMMA SwitchedGood ==
    ASSUME NEW H, NEW s, NEW m \in Monitors, Blank(H, s, m), NEW d \in Desks,
           s.mon[m].desk # d,
           s.shared => \A n \in Monitors \ {m} : s.mon[n].desk # d,
           NEW list \in Lists, NEW t, t = Switched(s, list, m, d, FALSE)
    PROVE  Arrived(H, s, m, d, s.mon[m].page, t)
<1>1. /\ s \in State /\ Memory(s) /\ Focused(H, s) /\ Modes(s)
      /\ s.tracking \in {"G", "M"} /\ s.shared \in BOOLEAN
  BY StateFields DEF Blank
<1>2. IsSwitched(s, m, d, FALSE, t)
  BY <1>1, SwitchedFields
<1>3. /\ t \in State /\ t.tracking = s.tracking /\ t.shared = s.shared
      /\ DOMAIN t.win = DOMAIN s.win
  BY <1>2 DEF IsSwitched
<1>4. DesksNow(s, m, d, t)
  BY <1>2, DesksSwitched, Zenon
<1>5. CASE Apart(s)
  <2>1. Good(H, t)
    BY <1>5, SwitchedApart
  <2>2. \A n \in Monitors :
           /\ t.mon[n].desk = IF n = m THEN d ELSE s.mon[n].desk
           /\ t.mon[n].page = s.mon[n].page
           /\ n = m => t.mon[n].back = <<s.mon[m].desk, s.mon[m].page>>
    BY <1>4, <1>5 DEF DesksNow
  <2>3. BackRight(s, t)
    BY <2>2 DEF BackRight
  <2> QED BY <1>3, <1>5, <2>1, <2>2, <2>3 DEF Arrived
<1>6. CASE ~Apart(s)
  <2>1. s.tracking = "G" /\ ~s.shared
    BY <1>1, <1>6 DEF Apart
  <2>2. \A n \in Monitors : /\ s.mon[n].desk = s.mon[m].desk
                            /\ s.mon[n].page = s.mon[m].page
    BY <1>1, <2>1 DEF Modes
  <2>3. \A n \in Monitors :
           /\ t.mon[n].desk = d /\ t.mon[n].page = s.mon[m].page
           /\ t.mon[n].back = <<s.mon[m].desk, s.mon[m].page>>
    BY <1>4, <1>6 DEF DesksNow
  <2>4. BackRight(s, t)
    BY <2>2, <2>3 DEF BackRight
  <2>5. ASSUME NEW w \in DOMAIN s.win
        PROVE  /\ s.win[w].sticky => s.win[w].up
               /\ ~s.win[w].sticky /\ s.win[w].desk \notin {s.mon[m].desk, d}
                     => ~s.win[w].up
    <3>1. s.mon[s.win[w].m].desk = s.mon[m].desk
      <4>1. s.win[w].m \in Monitors
        BY <1>1, StateFields DEF WindowRec
      <4> QED BY <2>2, <4>1
    <3>2. MayHide(s, m, w) \/ WindowFits(s, w)
      BY DEF Blank
    <3>3. CASE MayHide(s, m, w)
      BY <3>3 DEF MayHide
    <3>4. CASE WindowFits(s, w)
      BY <3>1, <3>4 DEF WindowFits
    <3> QED BY <3>2, <3>3, <3>4
  <2>6. Good(H, t)
    BY <1>1, <1>6, <2>5, SwitchedTogether, ZenonT(60)
  <2> QED BY <1>3, <1>6, <2>3, <2>4, <2>6 DEF Arrived
<1> QED BY <1>5, <1>6

(* Which of the three things GotoDesk does. *)
Exchanges(s, list, m, d, t) ==
    /\ s.shared
    /\ \E o \in Monitors : s.mon[o].desk = d /\ t = Exchange(s, list, m, o)

Goto(s, list, m, d, t) ==
    /\ s.shared => \A n \in Monitors \ {m} : s.mon[n].desk # d
    /\ t = Switched(s, list, m, d, FALSE)

LEMMA WentToDeskCases ==
    ASSUME NEW s, NEW m \in Monitors, NEW d, s.mon[m].desk # d, NEW list,
           NEW t, t = WentToDesk(s, list, m, d)
    PROVE  Goto(s, list, m, d, t) \/ Exchanges(s, list, m, d, t)
<1> DEFINE others == {n \in Monitors \ {m} : s.mon[n].desk = d}
           o == CHOOSE n \in others : \A k \in others : n <= k
<1>1. CASE s.shared /\ others # {}
  <2>1. others \subseteq Nat
    BY DesksFacts
  <2>2. \E n \in others : \A k \in others : n <= k
    BY <1>1, <2>1, LeastNat
  <2>3. o \in others
    BY <2>2
  <2>4. t = Switched(Switched(s, list, o, s.mon[m].desk, TRUE),
                     list, m, d, TRUE)
    BY <1>1 DEF WentToDesk
  <2> HIDE DEF o
  <2>5. t = Exchange(s, list, m, o)
    BY <2>3, <2>4 DEF Exchange
  <2> QED BY <1>1, <2>3, <2>5 DEF Exchanges
<1>2. CASE ~(s.shared /\ others # {})
  <2>1. t = Switched(s, list, m, d, FALSE)
    BY <1>2 DEF WentToDesk
  <2> QED BY <1>2, <2>1 DEF Goto
<1> QED BY <1>1, <1>2

(* GotoDesk, called in a Good state or, in shared mode excepted, after the *)
(* windows of the old desk have been hidden.                               *)
LEMMA WentToDeskGood ==
    ASSUME NEW H, NEW s, NEW m \in Monitors, Blank(H, s, m), NEW d \in Desks,
           s.shared \/ s.mon[m].desk = d => Good(H, s), NEW list \in Lists,
           NEW t, t = WentToDesk(s, list, m, d)
    PROVE  Arrived(H, s, m, d, s.mon[m].page, t)
<1>1. CASE s.mon[m].desk = d
  <2>1. t = s
    BY <1>1 DEF WentToDesk
  <2>2. BackRight(s, s)
    BY DEF BackRight
  <2>3. s \in State /\ Modes(s)
    BY DEF Blank
  <2>4. ~Apart(s) => \A n \in Monitors :
           s.mon[n].desk = d /\ s.mon[n].page = s.mon[m].page
    BY <1>1, <2>3, StateFields DEF Apart, Modes
  <2> QED BY <1>1, <2>1, <2>2, <2>4 DEF Arrived
<1>2. CASE s.mon[m].desk # d
  <2>1. CASE Goto(s, list, m, d, t)
    BY <1>2, <2>1, SwitchedGood DEF Goto
  <2>2. CASE Exchanges(s, list, m, d, t)
    <3>1. PICK o \in Monitors : s.mon[o].desk = d /\ t = Exchange(s, list, m, o)
      BY <2>2 DEF Exchanges
    <3>2. Good(H, s) /\ s.shared
      BY <2>2 DEF Exchanges
    <3> QED BY <1>2, <3>1, <3>2, Exchanged
  <2> QED BY <1>2, <2>1, <2>2, WentToDeskCases
<1> QED BY <1>1, <1>2

(* Windows and what they are shown by is the same in two states, and what *)
(* FvwmPager knows no worse.                                              *)
SameWindows(s, t) ==
    /\ t \in State
    /\ t.tracking = s.tracking /\ t.shared = s.shared
    /\ t.win = s.win /\ t.focus = s.focus
    /\ \A n \in Monitors : t.mon[n].desk = s.mon[n].desk
    /\ \A q \in Pagers, n \in Monitors :
          t.heard[q][n] \in {s.heard[q][n], t.mon[n].desk}

LEMMA SameWindowsGood ==
    ASSUME NEW H, NEW s, Good(H, s), NEW t, SameWindows(s, t),
           ~Apart(s) => \A n, k \in Monitors : t.mon[n].page = t.mon[k].page
    PROVE  Good(H, t)
<1>1. /\ s \in State /\ t \in State
      /\ t.tracking = s.tracking /\ t.shared = s.shared
      /\ t.win = s.win /\ t.focus = s.focus
      /\ \A n \in Monitors : t.mon[n].desk = s.mon[n].desk
      /\ \A q \in Pagers, n \in Monitors :
            t.heard[q][n] \in {s.heard[q][n], t.mon[n].desk}
  BY DEF SameWindows, Good
<1>2. Memory(t) /\ Focused(H, t) /\ Heard(t)
  <2>1. Memory(t) /\ Focused(H, t)
    BY <1>1 DEF Good, Memory, Focused
  <2>2. Heard(t)
    <3> SUFFICES ASSUME NEW q \in Pagers, q = Everything \/ Apart(t),
                        NEW n \in Monitors
                 PROVE  t.heard[q][n] = t.mon[n].desk
      BY DEF Heard
    <3>1. Apart(t) => Apart(s)
      BY <1>1 DEF Apart
    <3>2. s.heard[q][n] = s.mon[n].desk
      BY <3>1 DEF Good, Heard
    <3> QED BY <1>1, <3>2
  <2> QED BY <2>1, <2>2
<1>3. Modes(t)
  <2>1. s.tracking \in {"G", "M"} /\ s.shared \in BOOLEAN
    BY <1>1, StateFields
  <2>2. s.shared => s.tracking = "G"
    BY DEF Good, Modes
  <2>3. s.shared =>
           \A n, k \in Monitors : n # k => t.mon[n].desk # t.mon[k].desk
    <3> SUFFICES ASSUME s.shared, NEW n \in Monitors, NEW k \in Monitors, n # k
                 PROVE  t.mon[n].desk # t.mon[k].desk
      OBVIOUS
    <3>1. s.mon[n].desk # s.mon[k].desk
      BY DEF Good, Modes
    <3> QED BY <1>1, <3>1
  <2>4. ~Apart(s) => \A n, k \in Monitors :
           t.mon[n].desk = t.mon[k].desk /\ t.mon[n].page = t.mon[k].page
    <3> SUFFICES ASSUME ~Apart(s), NEW n \in Monitors, NEW k \in Monitors
                 PROVE  t.mon[n].desk = t.mon[k].desk
      OBVIOUS
    <3>1. s.mon[n].desk = s.mon[k].desk
      BY <2>1 DEF Good, Modes, Apart
    <3> QED BY <1>1, <3>1
  <2>5. s.tracking = "G" /\ ~s.shared => ~Apart(s)
    BY DEF Apart
  <2> QED BY <1>1, <2>2, <2>3, <2>4, <2>5 DEF Modes
<1>4. ASSUME NEW w \in DOMAIN t.win PROVE WindowFits(t, w)
  <2>1. WindowFits(s, w)
    BY <1>1 DEF Good, OnlyShown
  <2>2. s.win[w].m \in Monitors
    BY <1>1, StateFields DEF WindowRec
  <2> QED BY <1>1, <2>1, <2>2 DEF WindowFits
<1> QED BY <1>1, <1>2, <1>3, <1>4 DEF Good, OnlyShown

(* MoveViewport, field by field. *)
PageMoved(s, m, p) ==
    IF s.mon[m].page = p THEN s.mon[m]
    ELSE [desk |-> s.mon[m].desk, page |-> p,
          back |-> <<s.mon[m].desk, s.mon[m].page>>]

LEMMA PageAndBack ==
    ASSUME NEW v \in MonitorRec, NEW p, NEW b
    PROVE  [v EXCEPT !.page = p, !.back = b]
              = [desk |-> v.desk, page |-> p, back |-> b]
<1> DEFINE r == [v EXCEPT !.page = p, !.back = b]
<1>1. r \in [desk: {v.desk}, page: {p}, back: {b}]
  BY DEF MonitorRec
<1> HIDE DEF r
<1>2. r = [desk |-> v.desk, page |-> p, back |-> b]
  BY <1>1
<1> QED BY <1>2 DEF r

LEMMA NewPageSentFields ==
    ASSUME NEW s \in State, NEW m, NEW t, t = NewPageSent(s, m)
    PROVE  /\ t \in State
           /\ t.tracking = s.tracking /\ t.shared = s.shared
           /\ t.mon = s.mon /\ t.win = s.win /\ t.focus = s.focus
           /\ \A q \in Pagers, n \in Monitors :
                 t.heard[q][n] \in {s.heard[q][n], s.mon[n].desk}
<1> DEFINE h == [q \in Pagers |-> [n \in Monitors |->
                    IF s.shared /\ n # m THEN s.heard[q][n] ELSE s.mon[n].desk]]
<1>1. h \in [Pagers -> [Monitors -> Desks]]
      /\ \A q \in Pagers, n \in Monitors :
            h[q][n] \in {s.heard[q][n], s.mon[n].desk}
  BY StateFields DEF MonitorRec
<1>2. t = [tracking |-> s.tracking, shared |-> s.shared, mon |-> s.mon,
           win |-> s.win, focus |-> s.focus, heard |-> h]
  BY DEF NewPageSent, State
<1> HIDE DEF h
<1>3. t \in State
  BY <1>1, <1>2, StateFields, StateMade
<1> QED BY <1>1, <1>2, <1>3

LEMMA ViewportMovedFields ==
    ASSUME NEW s \in State, NEW m \in Monitors, NEW p \in Pages,
           NEW t, t = ViewportMoved(s, m, p)
    PROVE  /\ t \in State
           /\ t.tracking = s.tracking /\ t.shared = s.shared
           /\ t.win = s.win /\ t.focus = s.focus
           /\ \A n \in Monitors :
                 t.mon[n] = IF ~Apart(s) \/ n = m THEN PageMoved(s, m, p)
                            ELSE s.mon[n]
           /\ \A q \in Pagers, n \in Monitors :
                 t.heard[q][n] \in {s.heard[q][n], t.mon[n].desk}
<1> DEFINE u == IF s.mon[m].page = p THEN s
                ELSE WithMon(s, m, PageMoved(s, m, p))
           a == Assigned(u, m)
<1>1. t = a \/ t = NewPageSent(a, m)
  <2>1. s.mon[m] \in MonitorRec
    BY StateFields
  <2>2. [s.mon[m] EXCEPT !.page = p, !.back = <<s.mon[m].desk, s.mon[m].page>>]
          = [desk |-> s.mon[m].desk, page |-> p,
             back |-> <<s.mon[m].desk, s.mon[m].page>>]
    BY <2>1, PageAndBack
  <2>3. CASE s.mon[m].page = p
    BY <2>3 DEF ViewportMoved
  <2>4. CASE s.mon[m].page # p
    <3>1. t = NewPageSent(Assigned([s EXCEPT !.mon[m] =
                [s.mon[m] EXCEPT !.page = p,
                    !.back = <<s.mon[m].desk, s.mon[m].page>>]], m), m)
      BY <2>4 DEF ViewportMoved
    <3>2. u = [s EXCEPT !.mon[m] = [desk |-> s.mon[m].desk, page |-> p,
                           back |-> <<s.mon[m].desk, s.mon[m].page>>]]
      BY <2>4 DEF WithMon, PageMoved
    <3> HIDE DEF u
    <3> QED BY <2>2, <3>1, <3>2
  <2> QED BY <2>3, <2>4
<1>2. /\ u \in State /\ u.tracking = s.tracking /\ u.shared = s.shared
      /\ u.win = s.win /\ u.focus = s.focus /\ u.heard = s.heard
      /\ u.mon[m] = PageMoved(s, m, p)
      /\ \A n \in Monitors \ {m} : u.mon[n] = s.mon[n]
  <2>1. CASE s.mon[m].page = p
    BY <2>1 DEF PageMoved
  <2>2. CASE s.mon[m].page # p
    <3>1. PageMoved(s, m, p) \in MonitorRec
      <4>1. s.mon[m] \in MonitorRec
        BY StateFields
      <4> QED BY <4>1 DEF PageMoved, MonitorRec
    <3>2. u = WithMon(s, m, PageMoved(s, m, p))
      BY <2>2
    <3> HIDE DEF u
    <3> QED BY <3>1, <3>2, MonFields
  <2> QED BY <2>1, <2>2
<1> HIDE DEF u
<1>3. Apart(u) <=> Apart(s)
  BY <1>2 DEF Apart
<1>4. /\ a \in State
      /\ a.tracking = s.tracking /\ a.shared = s.shared
      /\ a.win = s.win /\ a.focus = s.focus /\ a.heard = s.heard
      /\ \A n \in Monitors :
            a.mon[n] = IF ~Apart(s) \/ n = m THEN PageMoved(s, m, p)
                       ELSE s.mon[n]
  BY <1>2, <1>3, AssignedFields
<1> HIDE DEF a
<1>5. CASE t = a
  BY <1>4, <1>5
<1>6. CASE t = NewPageSent(a, m)
  BY <1>4, <1>6, NewPageSentFields
<1> QED BY <1>1, <1>5, <1>6

LEMMA ViewportMovedGood ==
    ASSUME NEW H, NEW s, Good(H, s), NEW m \in Monitors, NEW p \in Pages,
           NEW t, t = ViewportMoved(s, m, p)
    PROVE  /\ Arrived(H, s, m, s.mon[m].desk, p, t)
           /\ t.mon[m] = PageMoved(s, m, p)
           /\ Apart(s) => \A n \in Monitors \ {m} : t.mon[n] = s.mon[n]
           /\ ~Apart(s) => \A n \in Monitors : t.mon[n] = PageMoved(s, m, p)
<1>1. s \in State /\ Modes(s)
  BY DEF Good
<1>2. /\ t \in State
      /\ t.tracking = s.tracking /\ t.shared = s.shared
      /\ t.win = s.win /\ t.focus = s.focus
      /\ \A n \in Monitors :
            t.mon[n] = IF ~Apart(s) \/ n = m THEN PageMoved(s, m, p)
                       ELSE s.mon[n]
      /\ \A q \in Pagers, n \in Monitors :
            t.heard[q][n] \in {s.heard[q][n], t.mon[n].desk}
  BY <1>1, ViewportMovedFields
<1>3. ~Apart(s) => \A n \in Monitors :
         s.mon[n].desk = s.mon[m].desk /\ s.mon[n].page = s.mon[m].page
  BY <1>1, StateFields DEF Apart, Modes
<1>4. /\ PageMoved(s, m, p).desk = s.mon[m].desk
      /\ PageMoved(s, m, p).page = p
      /\ \/ p = s.mon[m].page
         \/ PageMoved(s, m, p).back = <<s.mon[m].desk, s.mon[m].page>>
  BY DEF PageMoved
<1>5. \A n \in Monitors :
         /\ t.mon[n].desk = s.mon[n].desk
         /\ t.mon[n].page = IF ~Apart(s) \/ n = m THEN p ELSE s.mon[n].page
  <2> TAKE n \in Monitors
  <2>1. CASE ~Apart(s) \/ n = m
    <3>1. t.mon[n] = PageMoved(s, m, p)
      BY <1>2, <2>1
    <3>2. s.mon[n].desk = s.mon[m].desk
      BY <1>3, <2>1
    <3> QED BY <1>4, <2>1, <3>1, <3>2
  <2>2. CASE ~(~Apart(s) \/ n = m)
    <3>1. t.mon[n] = s.mon[n]
      BY <1>2, <2>2
    <3> QED BY <2>2, <3>1
  <2> QED BY <2>1, <2>2
<1>6. Good(H, t)
  <2>1. SameWindows(s, t)
    BY <1>2, <1>5 DEF SameWindows
  <2>2. ~Apart(s) => \A n, k \in Monitors : t.mon[n].page = t.mon[k].page
    BY <1>5
  <2> QED BY <2>1, <2>2, SameWindowsGood
<1>7. BackRight(s, t)
  <2> SUFFICES ASSUME NEW n \in Monitors
               PROVE  \/ /\ t.mon[n].desk = s.mon[n].desk
                         /\ t.mon[n].page = s.mon[n].page
                      \/ t.mon[n].back = <<s.mon[n].desk, s.mon[n].page>>
    BY DEF BackRight
  <2>1. CASE ~Apart(s) \/ n = m
    <3>1. t.mon[n] = PageMoved(s, m, p)
      BY <1>2, <2>1
    <3>2. s.mon[n].desk = s.mon[m].desk /\ s.mon[n].page = s.mon[m].page
      BY <1>3, <2>1
    <3> QED BY <1>4, <3>1, <3>2
  <2>2. CASE ~(~Apart(s) \/ n = m)
    BY <1>5, <2>2
  <2> QED BY <2>1, <2>2
<1>8. DOMAIN t.win = DOMAIN s.win
  BY <1>2
<1>9. Arrived(H, s, m, s.mon[m].desk, p, t)
  BY <1>2, <1>3, <1>5, <1>6, <1>7, <1>8 DEF Arrived
<1> QED BY <1>2, <1>9

IsUnmapped(s, m, d, t) ==
    /\ t \in State
    /\ t.tracking = s.tracking /\ t.shared = s.shared
    /\ t.mon = s.mon /\ t.heard = s.heard
    /\ DOMAIN t.win = DOMAIN s.win
    /\ \A w \in DOMAIN s.win :
          LET x == s.win[w]
              y == t.win[w]
          IN  /\ y.desk = x.desk /\ y.m = x.m /\ y.sticky = x.sticky
              /\ Goes(s, m, d, w) => ~y.up /\ y.left \in {d, NoDesk}
              /\ ~Goes(s, m, d, w) =>
                    y.up = x.up /\ y.left \in {x.left, NoDesk}
    /\ t.focus = IF s.focus # NoWindow /\ Goes(s, m, d, s.focus)
                 THEN NoWindow ELSE s.focus

LEMMA Unmapped ==
    ASSUME NEW s \in State, NEW m \in Monitors, NEW d \in Desks,
           NEW swap \in BOOLEAN, ~(s.shared /\ swap),
           NEW t, t = DeskUnmapped(s, m, d, swap)
    PROVE  IsUnmapped(s, m, d, t)
<1>1. /\ t \in State
      /\ t.tracking = s.tracking /\ t.shared = s.shared
      /\ t.mon = s.mon /\ t.heard = s.heard
      /\ DOMAIN t.win = DOMAIN s.win
  BY DeskUnmappedFields
<1>2. ASSUME NEW w \in DOMAIN s.win
      PROVE  LET x == s.win[w]
                 y == t.win[w]
             IN  /\ y.desk = x.desk /\ y.m = x.m /\ y.sticky = x.sticky
                 /\ Goes(s, m, d, w) => ~y.up /\ y.left \in {d, NoDesk}
                 /\ ~Goes(s, m, d, w) =>
                       y.up = x.up /\ y.left \in {x.left, NoDesk}
  BY DeskUnmappedFields
<1>3. t.focus = IF s.focus # NoWindow /\ Goes(s, m, d, s.focus)
                THEN NoWindow ELSE s.focus
  BY DeskUnmappedFields
<1> QED BY <1>1, <1>2, <1>3 DEF IsUnmapped

(* GotoDeskAndPage hides the windows of the old desk before GotoDesk. *)
Blanked(s, m) == DeskUnmapped(s, m, s.mon[m].desk, FALSE)

LEMMA UnmappedIsBlank ==
    ASSUME NEW H, NEW s, Good(H, s), ~s.shared, NEW m \in Monitors,
           NEW t, t = Blanked(s, m)
    PROVE  /\ Blank(H, t, m)
           /\ t.mon = s.mon /\ t.tracking = s.tracking /\ t.shared = s.shared
           /\ DOMAIN t.win = DOMAIN s.win
<1> DEFINE d == s.mon[m].desk
<1>1. /\ s \in State /\ d \in Desks
      /\ OnlyShown(s) /\ Modes(s) /\ Memory(s) /\ Focused(H, s) /\ Heard(s)
  BY StateFields DEF Good, MonitorRec
<1>2. /\ t \in State
      /\ t.tracking = s.tracking /\ t.shared = s.shared
      /\ t.mon = s.mon /\ t.heard = s.heard
      /\ DOMAIN t.win = DOMAIN s.win
      /\ \A w \in DOMAIN s.win :
            LET x == s.win[w]
                y == t.win[w]
            IN  /\ y.desk = x.desk /\ y.m = x.m /\ y.sticky = x.sticky
                /\ Goes(s, m, d, w) => ~y.up /\ y.left \in {d, NoDesk}
                /\ ~Goes(s, m, d, w) =>
                      y.up = x.up /\ y.left \in {x.left, NoDesk}
      /\ t.focus = IF s.focus # NoWindow /\ Goes(s, m, d, s.focus)
                   THEN NoWindow ELSE s.focus
  <2>1. FALSE \in BOOLEAN /\ ~(s.shared /\ FALSE)
    OBVIOUS
  <2>2. IsUnmapped(s, m, d, t)
    BY <1>1, <2>1, Unmapped, Zenon DEF Blanked
  <2> QED BY <2>2 DEF IsUnmapped
<1>3. Modes(t) /\ Heard(t)
  <2>1. /\ t.tracking = s.tracking /\ t.shared = s.shared
        /\ t.mon = s.mon /\ t.heard = s.heard
    BY <1>2
  <2>2. Modes(t)
    BY <1>1, <2>1, ZenonT(60) DEF Modes
  <2>3. Heard(t)
    BY <1>1, <2>1 DEF Heard, Apart
  <2> QED BY <2>2, <2>3
<1>4. Memory(t)
  <2> SUFFICES ASSUME NEW w \in DOMAIN s.win, t.win[w].left # NoDesk
               PROVE  /\ ~t.win[w].sticky /\ t.win[w].left = t.win[w].desk
                      /\ ~t.win[w].up
    BY <1>2 DEF Memory
  <2>1. CASE Goes(s, m, d, w)
    BY <1>2, <2>1 DEF Goes
  <2>2. CASE ~Goes(s, m, d, w)
    <3>1. t.win[w].left = s.win[w].left /\ t.win[w].up = s.win[w].up
      BY <1>2, <2>2
    <3> QED BY <1>1, <1>2, <3>1 DEF Memory
  <2> QED BY <2>1, <2>2
<1>5. Focused(H, t)
  BY <1>1, <1>2 DEF Focused
<1>6. ASSUME NEW w \in DOMAIN s.win PROVE MayHide(t, m, w) \/ WindowFits(t, w)
  <2>1. CASE Goes(s, m, d, w)
    <3>1. Looks(t, m, w) /\ ~t.win[w].sticky /\ t.win[w].desk = t.mon[m].desk
      BY <1>2, <2>1 DEF Goes, Looks
    <3> QED BY <1>2, <3>1 DEF MayHide
  <2>2. CASE ~Goes(s, m, d, w)
    <3>1. WindowFits(s, w)
      BY <1>1 DEF OnlyShown
    <3>2. /\ t.win[w].up = s.win[w].up /\ t.win[w].desk = s.win[w].desk
          /\ t.win[w].m = s.win[w].m /\ t.win[w].sticky = s.win[w].sticky
      BY <1>2, <2>2
    <3> QED BY <1>2, <3>1, <3>2 DEF WindowFits
  <2> QED BY <2>1, <2>2
<1> QED BY <1>2, <1>3, <1>4, <1>5, <1>6 DEF Blank

(* The last thing GotoDeskAndPage does. *)
DeskRemembered(s, m, d) ==
    Assigned([s EXCEPT !.mon[m].back[1] = d], m)

Returns(s, m, d, t) == \A n \in Monitors :
    /\ t.mon[n].page = s.mon[n].page
    /\ t.mon[n].back = IF ~Apart(s) \/ n = m THEN <<d, s.mon[m].back[2]>>
                       ELSE s.mon[n].back

LEMMA DeskRememberedGood ==
    ASSUME NEW H, NEW s, Good(H, s), NEW m \in Monitors, NEW d \in Desks,
           NEW t, t = DeskRemembered(s, m, d)
    PROVE  Good(H, t) /\ SameWindows(s, t) /\ Returns(s, m, d, t)
<1> DEFINE b == <<d, s.mon[m].back[2]>>
           v == [desk |-> s.mon[m].desk, page |-> s.mon[m].page, back |-> b]
           u == [s EXCEPT !.mon[m].back = b]
<1>1. s \in State /\ Modes(s)
  BY DEF Good
<1>2. b \in Desks \X Pages /\ [s.mon[m].back EXCEPT ![1] = d] = b
  <2>1. s.mon[m] \in MonitorRec
    BY <1>1, StateFields
  <2>2. s.mon[m].back \in Desks \X Pages
    BY <2>1 DEF MonitorRec
  <2> QED BY <2>2
<1>3. [s EXCEPT !.mon[m].back[1] = d] = u
  BY <1>2
<1> HIDE DEF b
<1>4. v \in MonitorRec /\ u = WithMon(s, m, v)
  BY <1>1, <1>2, BackFields
<1>5. v.desk = s.mon[m].desk /\ v.page = s.mon[m].page /\ v.back = b
  OBVIOUS
<1>6. t = Assigned(u, m)
  BY <1>3 DEF DeskRemembered
<1> HIDE DEF u, v
<1>7. /\ u \in State
      /\ u.tracking = s.tracking /\ u.shared = s.shared
      /\ u.win = s.win /\ u.focus = s.focus /\ u.heard = s.heard
      /\ u.mon[m] = v
      /\ \A n \in Monitors \ {m} : u.mon[n] = s.mon[n]
  BY <1>1, <1>4, MonFields
<1>8. Apart(u) <=> Apart(s)
  BY <1>7 DEF Apart
<1>9. /\ t \in State
      /\ t.tracking = s.tracking /\ t.shared = s.shared
      /\ t.win = s.win /\ t.focus = s.focus /\ t.heard = s.heard
      /\ \A n \in Monitors : t.mon[n] = IF ~Apart(s) \/ n = m THEN v
                                        ELSE s.mon[n]
  BY <1>6, <1>7, <1>8, AssignedFields
<1>10. ~Apart(s) => \A n \in Monitors :
          s.mon[n].desk = s.mon[m].desk /\ s.mon[n].page = s.mon[m].page
  BY <1>1, StateFields DEF Apart, Modes
<1>11. ASSUME NEW n \in Monitors
       PROVE  /\ t.mon[n].desk = s.mon[n].desk
              /\ t.mon[n].page = s.mon[n].page
              /\ t.mon[n].back = IF ~Apart(s) \/ n = m THEN b
                                 ELSE s.mon[n].back
  <2>1. CASE ~Apart(s) \/ n = m
    <3>1. t.mon[n] = v
      BY <1>9, <2>1
    <3>2. s.mon[n].desk = s.mon[m].desk /\ s.mon[n].page = s.mon[m].page
      BY <1>10, <2>1
    <3> QED BY <1>5, <2>1, <3>1, <3>2
  <2>2. CASE ~(~Apart(s) \/ n = m)
    <3>1. t.mon[n] = s.mon[n]
      BY <1>9, <2>2
    <3> QED BY <2>2, <3>1
  <2> QED BY <2>1, <2>2
<1>12. SameWindows(s, t)
  BY <1>9, <1>11 DEF SameWindows
<1>13. Good(H, t)
  <2>1. ~Apart(s) => \A n, k \in Monitors : t.mon[n].page = t.mon[k].page
    BY <1>10, <1>11
  <2> QED BY <1>12, <2>1, SameWindowsGood
<1>14. Returns(s, m, d, t)
  BY <1>11 DEF b, Returns
<1> QED BY <1>12, <1>13, <1>14

LEMMA WentToDeskAndPageGood ==
    ASSUME NEW H, NEW s, Good(H, s), NEW m \in Monitors, NEW d \in Desks,
           NEW p \in Pages, NEW list \in Lists,
           NEW t, t = WentToDeskAndPage(s, list, m, d, p)
    PROVE  Arrived(H, s, m, d, p, t)
<1> DEFINE from == s.mon[m].desk
           page == s.mon[m].page
           b == IF s.shared THEN s ELSE DeskUnmapped(s, m, from, FALSE)
           u == WentToDesk(b, list, m, d)
           v == ViewportMoved(u, m, p)
<1>1. /\ s \in State /\ Modes(s) /\ s.shared \in BOOLEAN
      /\ from \in Desks /\ page \in Pages
  BY StateFields DEF Good, MonitorRec
<1>2. CASE from = d
  <2>1. t = ViewportMoved(s, m, p)
    BY <1>2 DEF WentToDeskAndPage
  <2> QED BY <1>2, <2>1, ViewportMovedGood
<1>3. CASE from # d
  <2>1. t = DeskRemembered(v, m, from)
    BY <1>3 DEF WentToDeskAndPage, DeskRemembered
  <2>2. /\ Blank(H, b, m)
        /\ s.shared => Good(H, b)
        /\ b.mon = s.mon /\ b.tracking = s.tracking /\ b.shared = s.shared
        /\ DOMAIN b.win = DOMAIN s.win
    <3>1. CASE s.shared
      BY <3>1, GoodIsBlank
    <3>2. CASE ~s.shared
      <4>1. b = Blanked(s, m)
        BY <3>2 DEF Blanked
      <4> HIDE DEF b
      <4> QED BY <3>2, <4>1, UnmappedIsBlank
    <3> QED BY <3>1, <3>2
  <2> HIDE DEF b
  <2>3. Arrived(H, b, m, d, page, u)
    <3>1. b.shared \/ b.mon[m].desk = d => Good(H, b)
      BY <1>3, <2>2
    <3>2. b.mon[m].page = page
      BY <2>2
    <3> QED BY <2>2, <3>1, <3>2, WentToDeskGood
  <2> HIDE DEF u
  <2>4. /\ Good(H, u) /\ u.tracking = s.tracking /\ u.shared = s.shared
        /\ DOMAIN u.win = DOMAIN s.win
        /\ u.mon[m].desk = d /\ u.mon[m].page = page
        /\ BackRight(b, u)
        /\ ~s.shared => \A n \in Monitors \ {m} :
              /\ u.mon[n].desk = IF Apart(b) THEN b.mon[n].desk ELSE d
              /\ u.mon[n].page = IF Apart(b) THEN b.mon[n].page ELSE page
    BY <2>2, <2>3 DEF Arrived
  <2>5. Apart(u) <=> Apart(s)
    BY <2>4 DEF Apart
  <2>6. /\ Arrived(H, u, m, d, p, v)
        /\ v.mon[m] = PageMoved(u, m, p)
        /\ Apart(u) => \A n \in Monitors \ {m} : v.mon[n] = u.mon[n]
    BY <2>4, ViewportMovedGood
  <2> HIDE DEF v
  <2>7. /\ Good(H, v) /\ v.tracking = s.tracking /\ v.shared = s.shared
        /\ DOMAIN v.win = DOMAIN s.win
        /\ v.mon[m].desk = d /\ v.mon[m].page = p
        /\ ~s.shared => \A n \in Monitors \ {m} :
              /\ v.mon[n].desk = IF Apart(u) THEN u.mon[n].desk ELSE d
              /\ v.mon[n].page = IF Apart(u) THEN u.mon[n].page ELSE p
    BY <2>4, <2>6 DEF Arrived
  <2>8. Apart(v) <=> Apart(s)
    BY <2>7 DEF Apart
  <2>9. v.mon[m].back[2] = page
    <3>1. u.mon[m].back = <<from, page>>
      BY <1>3, <2>2, <2>4 DEF BackRight
    <3> QED BY <2>4, <2>6, <3>1 DEF PageMoved
  <2>10. /\ Good(H, t) /\ SameWindows(v, t)
         /\ \A n \in Monitors :
               /\ t.mon[n].page = v.mon[n].page
               /\ t.mon[n].back = IF ~Apart(v) \/ n = m
                                  THEN <<from, v.mon[m].back[2]>>
                                  ELSE v.mon[n].back
    <3>1. Good(H, t) /\ SameWindows(v, t) /\ Returns(v, m, from, t)
      BY <1>1, <2>1, <2>7, DeskRememberedGood
    <3> QED BY <3>1 DEF Returns
  <2>11. /\ t.tracking = s.tracking /\ t.shared = s.shared
         /\ DOMAIN t.win = DOMAIN s.win
         /\ \A n \in Monitors : t.mon[n].desk = v.mon[n].desk
    BY <2>7, <2>10 DEF SameWindows
  <2>12. ~s.shared => \A n \in Monitors \ {m} :
            /\ t.mon[n].desk = IF Apart(s) THEN s.mon[n].desk ELSE d
            /\ t.mon[n].page = IF Apart(s) THEN s.mon[n].page ELSE p
    <3>1. Apart(b) <=> Apart(s)
      BY <2>2 DEF Apart
    <3> QED BY <2>2, <2>4, <2>5, <2>7, <2>10, <2>11, <3>1
  <2>13. BackRight(s, t)
    <3> SUFFICES ASSUME NEW n \in Monitors
                 PROVE  \/ /\ t.mon[n].desk = s.mon[n].desk
                           /\ t.mon[n].page = s.mon[n].page
                        \/ t.mon[n].back = <<s.mon[n].desk, s.mon[n].page>>
      BY DEF BackRight
    <3>1. CASE ~Apart(s) \/ n = m
      <4>1. t.mon[n].back = <<from, page>>
        BY <2>8, <2>9, <2>10, <3>1
      <4>2. s.mon[n].desk = from /\ s.mon[n].page = page
        BY <1>1, <3>1, StateFields DEF Apart, Modes
      <4> QED BY <4>1, <4>2
    <3>2. CASE ~(~Apart(s) \/ n = m)
      <4>1. v.mon[n] = u.mon[n]
        BY <2>5, <2>6, <3>2
      <4>2. /\ t.mon[n].desk = u.mon[n].desk /\ t.mon[n].page = u.mon[n].page
            /\ t.mon[n].back = u.mon[n].back
        BY <2>8, <2>10, <2>11, <3>2, <4>1
      <4> QED BY <2>2, <2>4, <4>2 DEF BackRight
    <3> QED BY <3>1, <3>2
  <2>14. t.mon[m].desk = d /\ t.mon[m].page = p
    BY <2>7, <2>10, <2>11
  <2> QED BY <2>10, <2>11, <2>12, <2>13, <2>14 DEF Arrived
<1> QED BY <1>2, <1>3

-----------------------------------------------------------------------------
(* Moving, opening and closing one window *)

WindowChanged(s, w, x, t) ==
    /\ t \in State
    /\ t.tracking = s.tracking /\ t.shared = s.shared
    /\ t.mon = s.mon /\ t.heard = s.heard
    /\ DOMAIN t.win = DOMAIN s.win
    /\ t.win[w] = x
    /\ \A v \in DOMAIN s.win \ {w} : t.win[v] = s.win[v]

LEMMA WinFields ==
    ASSUME NEW s \in State, NEW w \in DOMAIN s.win, NEW x \in WindowRec,
           NEW t, t = [s EXCEPT !.win[w] = x]
    PROVE  WindowChanged(s, w, x, t) /\ t.focus = s.focus
<1> DEFINE wi == [s.win EXCEPT ![w] = x]
<1>1. /\ wi \in [DOMAIN s.win -> WindowRec] /\ wi[w] = x
      /\ \A v \in DOMAIN s.win \ {w} : wi[v] = s.win[v]
  BY StateFields
<1>2. t = [tracking |-> s.tracking, shared |-> s.shared, mon |-> s.mon,
           win |-> wi, focus |-> s.focus, heard |-> s.heard]
  BY DEF State
<1> HIDE DEF wi
<1>3. t \in State
  <2>1. DOMAIN s.win \in SUBSET Windows /\ s.focus \in Windows \cup {NoWindow}
        /\ s.mon \in [Monitors -> MonitorRec]
        /\ s.heard \in [Pagers -> [Monitors -> Desks]]
        /\ s.tracking \in {"G", "M"} /\ s.shared \in BOOLEAN
    BY StateFields
  <2>2. wi \in [DOMAIN s.win -> WindowRec]
    BY <1>1
  <2> QED BY <1>2, <2>1, <2>2, StateMade, ZenonT(60)
<1>4. t.win = wi /\ DOMAIN wi = DOMAIN s.win
  BY <1>1, <1>2
<1> QED BY <1>1, <1>2, <1>3, <1>4 DEF WindowChanged

LEMMA FocusFields ==
    ASSUME NEW s \in State, NEW f \in Windows \cup {NoWindow},
           NEW t, t = [s EXCEPT !.focus = f]
    PROVE  /\ t \in State
           /\ t.tracking = s.tracking /\ t.shared = s.shared
           /\ t.mon = s.mon /\ t.win = s.win /\ t.heard = s.heard
           /\ t.focus = f
<1>1. t = [tracking |-> s.tracking, shared |-> s.shared, mon |-> s.mon,
           win |-> s.win, focus |-> f, heard |-> s.heard]
  BY DEF State
<1>2. t \in State
  <2>1. DOMAIN s.win \in SUBSET Windows /\ s.win \in [DOMAIN s.win -> WindowRec]
        /\ s.mon \in [Monitors -> MonitorRec]
        /\ s.heard \in [Pagers -> [Monitors -> Desks]]
        /\ s.tracking \in {"G", "M"} /\ s.shared \in BOOLEAN
    BY StateFields
  <2> QED BY <1>1, <2>1, StateMade, ZenonT(60)
<1> QED BY <1>1, <1>2

(* One window changes: all is Good if the window fits, is not remembered, and *)
(* does not have the focus while it is hidden.                                *)
LEMMA WindowChangedGood ==
    ASSUME NEW H, NEW s, Good(H, s), NEW w \in DOMAIN s.win, NEW x,
           x.left = NoDesk,
           NEW t, WindowChanged(s, w, x, t), WindowFits(t, w),
           t.focus = NoWindow \/ t.focus = s.focus,
           t.focus = w => x.up \/ w \in H
    PROVE  Good(H, t)
<1>1. /\ s \in State /\ OnlyShown(s) /\ Modes(s)
      /\ Memory(s) /\ Focused(H, s) /\ Heard(s)
  BY DEF Good
<1>2. /\ t \in State
      /\ t.tracking = s.tracking /\ t.shared = s.shared
      /\ t.mon = s.mon /\ t.heard = s.heard
      /\ DOMAIN t.win = DOMAIN s.win
      /\ t.win[w] = x
      /\ \A v \in DOMAIN s.win \ {w} : t.win[v] = s.win[v]
  BY DEF WindowChanged
<1>3. /\ t.tracking = s.tracking /\ t.shared = s.shared
      /\ t.mon = s.mon /\ t.heard = s.heard
  BY <1>2
<1>4. Modes(t)
  BY <1>1, <1>3 DEF Modes
<1>5. Heard(t)
  BY <1>1, <1>3 DEF Heard, Apart
<1>6. Memory(t)
  BY <1>1, <1>2 DEF Memory
<1>7. Focused(H, t)
  <2> SUFFICES ASSUME t.focus # NoWindow
               PROVE  /\ t.focus \in DOMAIN s.win
                      /\ t.win[t.focus].up \/ t.focus \in H
    BY <1>2 DEF Focused
  <2>1. CASE t.focus = w
    BY <1>2, <2>1
  <2>2. CASE t.focus # w
    BY <1>1, <1>2, <2>2 DEF Focused
  <2> QED BY <2>1, <2>2
<1>8. ASSUME NEW v \in DOMAIN t.win PROVE WindowFits(t, v)
  <2>1. CASE v = w
    BY <2>1
  <2>2. CASE v # w
    <3>1. WindowFits(s, v) /\ t.win[v] = s.win[v]
      BY <1>1, <1>2, <2>2 DEF OnlyShown
    <3> QED BY <1>2, <3>1 DEF WindowFits
  <2> QED BY <2>1, <2>2
<1> QED BY <1>2, <1>4, <1>5, <1>6, <1>7, <1>8 DEF Good, OnlyShown

(* In shared mode only one monitor shows a desk. *)
LEMMA OneShows ==
    ASSUME NEW H, NEW s, Good(H, s), s.shared, NEW m \in Monitors
    PROVE  \A n \in Monitors : s.mon[n].desk = s.mon[m].desk => n = m
  BY DEF Good, Modes

(* What the moves of a window have in common. *)
Kept(H, s, t) ==
    /\ Good(H, t) /\ t.mon = s.mon
    /\ t.tracking = s.tracking /\ t.shared = s.shared

OnDesk(s, w, d, t) ==
    /\ DOMAIN t.win = DOMAIN s.win
    /\ t.win[w].desk = d /\ t.win[w].m = s.win[w].m
    /\ ~t.win[w].sticky /\ t.win[w].left = NoDesk

(* A window that is not sticky is taken to desk d; in shared mode, no other *)
(* monitor than its own shows d.                                            *)
LEMMA MovedToDeskGood ==
    ASSUME NEW H, NEW s, Good(H, s), NEW w \in DOMAIN s.win, ~s.win[w].sticky,
           s.win[w].left = NoDesk, NEW d \in Desks, d # s.win[w].desk,
           s.shared => \A n \in Monitors : s.mon[n].desk = d => n = s.win[w].m,
           NEW t, t = MovedToDesk(s, w, d)
    PROVE  Kept(H, s, t) /\ OnDesk(s, w, d, t)
<1> DEFINE x == s.win[w]
           cur == s.mon[x.m].desk
           up == d = cur
           y == [desk |-> d, m |-> x.m, sticky |-> FALSE, up |-> up,
                 left |-> NoDesk]
           f == IF x.desk = cur /\ s.focus = w THEN NoWindow ELSE s.focus
           u == [s EXCEPT !.win[w] = y]
<1>1. s \in State /\ x \in WindowRec /\ WindowFits(s, w) /\ Focused(H, s)
  BY StateFields DEF Good, OnlyShown
<1>2. x.up <=> x.desk = cur
  BY <1>1 DEF WindowFits
<1>3. [x EXCEPT !.desk = d,
                !.up = CASE x.desk = cur -> FALSE
                         [] x.desk # cur /\ d = cur -> TRUE
                         [] OTHER -> @] = y
  <2> DEFINE b == CASE x.desk = cur -> FALSE
                    [] x.desk # cur /\ d = cur -> TRUE
                    [] OTHER -> x.up
             r == [x EXCEPT !.desk = d, !.up = b]
  <2>1. x.up \in BOOLEAN
    BY <1>1 DEF WindowRec
  <2>2. b = up
    <3>1. CASE x.desk = cur
      BY <3>1
    <3>2. CASE x.desk # cur /\ d = cur
      BY <3>2
    <3>3. CASE x.desk # cur /\ d # cur
      BY <1>2, <2>1, <3>3
    <3> QED BY <3>1, <3>2, <3>3
  <2> HIDE DEF b, up
  <2>3. r \in [desk: {d}, m: {x.m}, sticky: {FALSE}, up: {up}, left: {NoDesk}]
    BY <1>1, <2>2 DEF WindowRec
  <2> HIDE DEF r
  <2>4. r = y
    BY <2>3
  <2> QED BY <2>4 DEF r, b
<1>4. y \in WindowRec
  BY <1>1 DEF WindowRec
<1>5. y.desk = d /\ y.m = x.m /\ ~y.sticky /\ (y.up <=> d = cur)
      /\ y.left = NoDesk
  OBVIOUS
<1>6. t = [u EXCEPT !.focus = f]
  BY <1>1, <1>3 DEF MovedToDesk, State
<1> HIDE DEF y, u, f
<1>7. WindowChanged(s, w, y, u) /\ u.focus = s.focus
  BY <1>1, <1>4, WinFields DEF u
<1>8. \/ f = NoWindow
      \/ /\ f = s.focus
         /\ ~(x.desk = cur /\ s.focus = w)
  BY DEF f
<1>9. /\ t \in State
      /\ t.tracking = u.tracking /\ t.shared = u.shared
      /\ t.mon = u.mon /\ t.win = u.win /\ t.heard = u.heard
      /\ t.focus = f
  <2>1. f \in Windows \cup {NoWindow} /\ u \in State
    BY <1>1, <1>7, <1>8, StateFields DEF WindowChanged
  <2> QED BY <1>6, <2>1, FocusFields
<1>10. WindowChanged(s, w, y, t)
  BY <1>7, <1>9 DEF WindowChanged
<1>11. t.focus = w => y.up \/ w \in H
  <2>1. w # NoWindow
    BY <1>1, DesksFacts, StateFields
  <2>2. s.focus = w => x.up \/ w \in H
    BY <1>1, <2>1 DEF Focused
  <2> QED BY <1>2, <1>8, <1>9, <2>1, <2>2
<1>12. WindowFits(t, w)
  <2>1. t.win[w] = y /\ t.mon = s.mon /\ t.shared = s.shared
    BY <1>10 DEF WindowChanged
  <2> QED BY <1>5, <2>1 DEF WindowFits
<1>13. Good(H, t)
  BY <1>5, <1>8, <1>9, <1>10, <1>11, <1>12, WindowChangedGood
<1> QED BY <1>5, <1>10, <1>13 DEF WindowChanged, Kept, OnDesk

LEMMA KeptOne ==
    ASSUME NEW H, NEW s, Good(H, s), NEW w \in DOMAIN s.win,
           NEW x \in WindowRec,
           x.left = NoDesk, NEW t, t = [s EXCEPT !.win[w] = x],
           x.up <=> x.sticky \/ x.desk = s.mon[x.m].desk,
           s.shared /\ ~x.sticky => s.mon[x.m].desk = x.desk,
           s.focus = w => x.up \/ w \in H
    PROVE  Kept(H, s, t) /\ t.win[w] = x /\ w \in DOMAIN t.win
<1>1. s \in State /\ x.m \in Monitors
  BY DEF Good, WindowRec
<1>2. WindowChanged(s, w, x, t) /\ t.focus = s.focus
  BY <1>1, WinFields
<1>3. /\ t.win[w] = x /\ t.mon = s.mon
      /\ t.tracking = s.tracking /\ t.shared = s.shared
      /\ DOMAIN t.win = DOMAIN s.win
  BY <1>2 DEF WindowChanged
<1>4. WindowFits(t, w)
  <2>1. t.shared /\ ~x.sticky =>
           \A n \in Monitors : t.mon[n].desk = x.desk => n = x.m
    BY <1>1, <1>3, OneShows
  <2> QED BY <1>3, <2>1 DEF WindowFits
<1>5. Good(H, t)
  BY <1>2, <1>4, WindowChangedGood
<1> QED BY <1>3, <1>5 DEF Kept

LEMMA MovedToMonitorGood ==
    ASSUME NEW H, NEW s, Good(H, s), NEW w \in DOMAIN s.win, s.win[w].up,
           NEW m \in Monitors, NEW t, t = MovedToMonitor(s, w, m)
    PROVE  Kept(H, s, t)
<1>1. s \in State /\ s.win[w] \in WindowRec /\ s.mon[m].desk \in Desks
  BY StateFields DEF Good, MonitorRec
<1>2. CASE s.win[w].m = m
  BY <1>2 DEF MovedToMonitor, Kept
<1>3. CASE s.win[w].m # m
  <2> DEFINE x == [s.win[w] EXCEPT !.m = m, !.desk = s.mon[m].desk]
  <2>1. s.win[w].left = NoDesk
    BY DEF Good, Memory
  <2>2. x \in WindowRec
    BY <1>1 DEF WindowRec
  <2>3. /\ x.m = m /\ x.desk = s.mon[m].desk /\ x.up /\ x.left = NoDesk
        /\ x.up \in BOOLEAN
    BY <1>1, <2>1 DEF WindowRec
  <2>4. t = [s EXCEPT !.win[w] = x]
    BY <1>3 DEF MovedToMonitor
  <2> HIDE DEF x
  <2> QED BY <2>2, <2>3, <2>4, KeptOne
<1> QED BY <1>2, <1>3

LEMMA MovedToScreenGood ==
    ASSUME NEW H, NEW s, Good(H, s), NEW w \in DOMAIN s.win,
           s.win[w].left = NoDesk,
           NEW m \in Monitors,
           s.win[w].desk = s.mon[m].desk => s.win[w].up,
           NEW t, t = MovedToScreen(s, w, m)
    PROVE  Kept(H, s, t)
<1> DEFINE cur == s.mon[m].desk
           x == [s.win[w] EXCEPT !.m = m]
           y == IF s.win[w].desk = cur THEN x
                ELSE [x EXCEPT !.desk = cur, !.up = TRUE]
<1>1. s \in State /\ s.win[w] \in WindowRec /\ cur \in Desks
  BY StateFields DEF Good, MonitorRec
<1>2. t = [s EXCEPT !.win[w] = y]
  BY DEF MovedToScreen
<1>3. /\ x \in WindowRec /\ x.m = m /\ x.desk = s.win[w].desk
      /\ x.up = s.win[w].up /\ x.left = NoDesk
  BY <1>1 DEF WindowRec
<1> HIDE DEF x
<1>4. y \in WindowRec /\ y.m = m /\ y.desk = cur /\ y.up /\ y.left = NoDesk
  <2>1. CASE s.win[w].desk = cur
    BY <1>3, <2>1
  <2>2. CASE s.win[w].desk # cur
    BY <1>1, <1>3, <2>2 DEF WindowRec
  <2> QED BY <2>1, <2>2
<1>5. y.up \in BOOLEAN
  BY <1>4 DEF WindowRec
<1> HIDE DEF y
<1> QED BY <1>2, <1>4, <1>5, KeptOne

LEMMA StuckGood ==
    ASSUME NEW H, NEW s, Good(H, s), NEW w \in DOMAIN s.win,
           s.win[w].left = NoDesk,
           NEW t, t = Stuck(s, w)
    PROVE  /\ Kept(H, s, t)
           /\ s.win[w].sticky =>
                 /\ w \in DOMAIN t.win /\ ~t.win[w].sticky
                 /\ t.win[w].left = NoDesk /\ t.win[w].m = s.win[w].m
<1> DEFINE x == s.win[w]
           cur == s.mon[x.m].desk
<1>1. /\ s \in State /\ x \in WindowRec /\ x.m \in Monitors /\ cur \in Desks
      /\ WindowFits(s, w) /\ Focused(H, s)
  BY StateFields DEF Good, MonitorRec, WindowRec, OnlyShown
<1>2. CASE x.sticky
  <2> DEFINE y == [x EXCEPT !.sticky = FALSE, !.desk = cur]
  <2>1. t = [s EXCEPT !.win[w] = y]
    BY <1>2 DEF Stuck
  <2>2. x.up
    BY <1>1, <1>2 DEF WindowFits
  <2>3. /\ y \in WindowRec /\ y.m = x.m /\ y.desk = cur /\ y.up = x.up
        /\ ~y.sticky /\ y.left = NoDesk /\ y.up \in BOOLEAN
    BY <1>1 DEF WindowRec
  <2> HIDE DEF y
  <2>4. /\ y.up <=> y.sticky \/ y.desk = s.mon[y.m].desk
        /\ s.mon[y.m].desk = y.desk
        /\ y.up
    BY <2>2, <2>3
  <2> QED BY <2>1, <2>3, <2>4, KeptOne
<1>3. CASE ~x.sticky
  <2> DEFINE u == IF x.desk = cur THEN s ELSE MovedToDesk(s, w, cur)
             y == [u.win[w] EXCEPT !.sticky = TRUE]
  <2>1. t = [u EXCEPT !.win[w] = y]
    BY <1>3 DEF Stuck
  <2>2. /\ Good(H, u) /\ u.mon = s.mon
        /\ u.tracking = s.tracking /\ u.shared = s.shared
        /\ w \in DOMAIN u.win
        /\ u.win[w].desk = cur /\ u.win[w].m = x.m
        /\ ~u.win[w].sticky /\ u.win[w].left = NoDesk
    <3>1. CASE x.desk = cur
      BY <1>3, <3>1
    <3>2. CASE x.desk # cur
      <4>1. s.shared => \A n \in Monitors : s.mon[n].desk = cur => n = x.m
        BY <1>1, OneShows
      <4>2. u = MovedToDesk(s, w, cur)
        BY <3>2
      <4> HIDE DEF u, y
      <4>3. cur \in Desks /\ cur # s.win[w].desk /\ ~s.win[w].sticky
        BY <1>1, <1>3, <3>2
      <4>4. Kept(H, s, u) /\ OnDesk(s, w, cur, u)
        BY <4>1, <4>2, <4>3, MovedToDeskGood, Zenon
      <4> QED BY <4>4 DEF Kept, OnDesk
    <3> QED BY <3>1, <3>2
  <2> HIDE DEF u
  <2>3. u \in State /\ u.win[w] \in WindowRec /\ WindowFits(u, w)
    BY <2>2, StateFields DEF Good, OnlyShown
  <2>4. u.win[w].up
    BY <2>2, <2>3 DEF WindowFits
  <2>5. /\ y \in WindowRec /\ y.up = u.win[w].up /\ y.sticky
        /\ y.sticky \in BOOLEAN /\ y.up \in BOOLEAN /\ y.left = NoDesk
    BY <2>2, <2>3 DEF WindowRec
  <2> HIDE DEF y
  <2>6. /\ y.up <=> y.sticky \/ y.desk = u.mon[y.m].desk
        /\ u.shared /\ ~y.sticky => u.mon[y.m].desk = y.desk
        /\ y.up
    BY <2>4, <2>5
  <2>7. Kept(H, u, t)
    BY <2>1, <2>2, <2>5, <2>6, KeptOne
  <2> QED BY <1>3, <2>2, <2>7 DEF Kept
<1>4. x.sticky \in BOOLEAN
  BY <1>1 DEF WindowRec
<1> QED BY <1>2, <1>3, <1>4

-----------------------------------------------------------------------------
(* DesktopConfiguration *)

(* The recursive functions of AllFollowed and AllSpread exist. *)
Follows(f, k, s, list, m) ==
    /\ DOMAIN f = 0 .. k
    /\ f[0] = [s EXCEPT !.shared = FALSE]
    /\ \A i \in 1 .. k : f[i] = Following(f[i - 1], list, m, i)

LEMMA AllFollowedIs ==
    ASSUME NEW s, NEW list, NEW m
    PROVE  \E f : Follows(f, N, s, list, m) /\ AllFollowed(s, list, m) = f[N]
<1> DEFINE base == [s EXCEPT !.shared = FALSE]
           T == {k \in 0 .. N : ~ \E f : Follows(f, k, s, list, m)}
<1>0. N \in Nat
  BY DesksAssumption
<1>1. T = {}
  <2> SUFFICES ASSUME T # {} PROVE FALSE
    OBVIOUS
  <2>1. PICK k \in T : \A j \in T : k <= j
    <3>1. T \subseteq Nat
      BY <1>0
    <3> QED BY <3>1, LeastNat
  <2>2. k # 0
    <3> DEFINE f == [i \in 0 .. 0 |-> base]
    <3>1. DOMAIN f = 0 .. 0 /\ f[0] = base
      OBVIOUS
    <3> HIDE DEF f
    <3>2. Follows(f, 0, s, list, m)
      BY <3>1 DEF Follows
    <3> QED BY <2>1, <3>2
  <2>3. PICK f : Follows(f, k - 1, s, list, m)
    <3>1. k - 1 \in 0 .. N /\ ~(k <= k - 1)
      BY <1>0, <2>1, <2>2
    <3> QED BY <2>1, <3>1
  <2> DEFINE g == [i \in 0 .. k |->
                      IF i = k THEN Following(f[k - 1], list, m, k)
                                    ELSE f[i]]
  <2>4. /\ DOMAIN g = 0 .. k /\ g[0] = f[0]
        /\ g[k] = Following(f[k - 1], list, m, k)
        /\ \A i \in 0 .. k - 1 : g[i] = f[i]
    BY <1>0, <2>1, <2>2
  <2> HIDE DEF g
  <2>5. \A i \in 1 .. k : g[i] = Following(g[i - 1], list, m, i)
    <3> TAKE i \in 1 .. k
    <3>1. i - 1 \in 0 .. k - 1 /\ g[i - 1] = f[i - 1]
      BY <1>0, <2>1, <2>4
    <3>2. CASE i = k
      BY <2>4, <3>1, <3>2
    <3>3. CASE i # k
      <4>1. i \in 1 .. k - 1 /\ i \in 0 .. k - 1
        BY <1>0, <2>1, <3>3
      <4>2. f[i] = Following(f[i - 1], list, m, i)
        BY <2>3, <4>1 DEF Follows
      <4> QED BY <2>4, <3>1, <4>1, <4>2
    <3> QED BY <3>2, <3>3
  <2>6. Follows(g, k, s, list, m)
    BY <2>3, <2>4, <2>5 DEF Follows
  <2> QED BY <2>1, <2>6
<1>2. \E f : Follows(f, N, s, list, m)
  BY <1>0, <1>1
<1> DEFINE Is(f) == f = [n \in 0 .. N |->
                            IF n = 0 THEN base
                            ELSE Following(f[n - 1], list, m, n)]
<1>3. \A f : Follows(f, N, s, list, m) => Is([n \in 0 .. N |-> f[n]])
  <2> SUFFICES ASSUME NEW f, Follows(f, N, s, list, m)
               PROVE  Is([n \in 0 .. N |-> f[n]])
    OBVIOUS
  <2> DEFINE g == [n \in 0 .. N |-> f[n]]
  <2>1. ASSUME NEW n \in 0 .. N
        PROVE  g[n] = IF n = 0 THEN base ELSE Following(g[n - 1], list, m, n)
    <3>1. CASE n = 0
      BY <1>0, <3>1 DEF Follows
    <3>2. CASE n # 0
      <4>1. n \in 1 .. N /\ n - 1 \in 0 .. N
        BY <1>0, <3>2
      <4> QED BY <3>2, <4>1 DEF Follows
    <3> QED BY <3>1, <3>2
  <2> HIDE DEF base
  <2> QED BY <2>1
<1>4. \E f : Is(f)
  BY <1>2, <1>3
<1> DEFINE h == CHOOSE f : Is(f)
<1>5. Is(h)
  <2> HIDE DEF Is
  <2> QED BY <1>4
<1>6. AllFollowed(s, list, m) = h[N]
  BY DEF AllFollowed
<1>7. Follows(h, N, s, list, m)
  <2> HIDE DEF h
  <2>1. DOMAIN h = 0 .. N
    BY <1>5
  <2>2. h[0] = base
    BY <1>0, <1>5
  <2>3. \A i \in 1 .. N : h[i] = Following(h[i - 1], list, m, i)
    <3> TAKE i \in 1 .. N
    <3>1. i \in 0 .. N /\ i # 0
      BY <1>0
    <3> QED BY <1>5, <3>1
  <2> QED BY <2>1, <2>2, <2>3 DEF Follows
<1> HIDE DEF h
<1> QED BY <1>6, <1>7

Spreads(f, k, s, list) ==
    /\ DOMAIN f = 0 .. k
    /\ f[0] = [s EXCEPT !.shared = TRUE]
    /\ \A i \in 1 .. k : f[i] = Spreading(f[i - 1], list, s.mon[1].desk, i)

LEMMA AllSpreadIs ==
    ASSUME NEW s, NEW list
    PROVE  \E f : Spreads(f, N, s, list) /\ AllSpread(s, list) = f[N]
<1> DEFINE base == [s EXCEPT !.shared = TRUE]
           T == {k \in 0 .. N : ~ \E f : Spreads(f, k, s, list)}
<1>0. N \in Nat
  BY DesksAssumption
<1>1. T = {}
  <2> SUFFICES ASSUME T # {} PROVE FALSE
    OBVIOUS
  <2>1. PICK k \in T : \A j \in T : k <= j
    <3>1. T \subseteq Nat
      BY <1>0
    <3> QED BY <3>1, LeastNat
  <2>2. k # 0
    <3> DEFINE f == [i \in 0 .. 0 |-> base]
    <3>1. DOMAIN f = 0 .. 0 /\ f[0] = base
      OBVIOUS
    <3> HIDE DEF f
    <3>2. Spreads(f, 0, s, list)
      BY <3>1 DEF Spreads
    <3> QED BY <2>1, <3>2
  <2>3. PICK f : Spreads(f, k - 1, s, list)
    <3>1. k - 1 \in 0 .. N /\ ~(k <= k - 1)
      BY <1>0, <2>1, <2>2
    <3> QED BY <2>1, <3>1
  <2> DEFINE g == [i \in 0 .. k |->
                      IF i = k
                      THEN Spreading(f[k - 1], list, s.mon[1].desk, k)
                                    ELSE f[i]]
  <2>4. /\ DOMAIN g = 0 .. k /\ g[0] = f[0]
        /\ g[k] = Spreading(f[k - 1], list, s.mon[1].desk, k)
        /\ \A i \in 0 .. k - 1 : g[i] = f[i]
    BY <1>0, <2>1, <2>2
  <2> HIDE DEF g
  <2>5. \A i \in 1 .. k : g[i] = Spreading(g[i - 1], list, s.mon[1].desk, i)
    <3> TAKE i \in 1 .. k
    <3>1. i - 1 \in 0 .. k - 1 /\ g[i - 1] = f[i - 1]
      BY <1>0, <2>1, <2>4
    <3>2. CASE i = k
      BY <2>4, <3>1, <3>2
    <3>3. CASE i # k
      <4>1. i \in 1 .. k - 1 /\ i \in 0 .. k - 1
        BY <1>0, <2>1, <3>3
      <4>2. f[i] = Spreading(f[i - 1], list, s.mon[1].desk, i)
        BY <2>3, <4>1 DEF Spreads
      <4> QED BY <2>4, <3>1, <4>1, <4>2
    <3> QED BY <3>2, <3>3
  <2>6. Spreads(g, k, s, list)
    BY <2>3, <2>4, <2>5 DEF Spreads
  <2> QED BY <2>1, <2>6
<1>2. \E f : Spreads(f, N, s, list)
  BY <1>0, <1>1
<1> DEFINE Is(f) == f = [n \in 0 .. N |->
                            IF n = 0 THEN base
                            ELSE Spreading(f[n - 1], list, s.mon[1].desk, n)]
<1>3. \A f : Spreads(f, N, s, list) => Is([n \in 0 .. N |-> f[n]])
  <2> SUFFICES ASSUME NEW f, Spreads(f, N, s, list)
               PROVE  Is([n \in 0 .. N |-> f[n]])
    OBVIOUS
  <2> DEFINE g == [n \in 0 .. N |-> f[n]]
  <2>1. ASSUME NEW n \in 0 .. N
        PROVE  g[n] = IF n = 0 THEN base
                      ELSE Spreading(g[n - 1], list, s.mon[1].desk, n)
    <3>1. CASE n = 0
      BY <1>0, <3>1 DEF Spreads
    <3>2. CASE n # 0
      <4>1. n \in 1 .. N /\ n - 1 \in 0 .. N
        BY <1>0, <3>2
      <4> QED BY <3>2, <4>1 DEF Spreads
    <3> QED BY <3>1, <3>2
  <2> HIDE DEF base
  <2> QED BY <2>1
<1>4. \E f : Is(f)
  BY <1>2, <1>3
<1> DEFINE h == CHOOSE f : Is(f)
<1>5. Is(h)
  <2> HIDE DEF Is
  <2> QED BY <1>4
<1>6. AllSpread(s, list) = h[N]
  BY DEF AllSpread
<1>7. Spreads(h, N, s, list)
  <2> HIDE DEF h
  <2>1. DOMAIN h = 0 .. N
    BY <1>5
  <2>2. h[0] = base
    BY <1>0, <1>5
  <2>3. \A i \in 1 .. N : h[i] = Spreading(h[i - 1], list, s.mon[1].desk, i)
    <3> TAKE i \in 1 .. N
    <3>1. i \in 0 .. N /\ i # 0
      BY <1>0
    <3> QED BY <1>5, <3>1
  <2> QED BY <2>1, <2>2, <2>3 DEF Spreads
<1> HIDE DEF h
<1> QED BY <1>6, <1>7

(* Global mode, left from shared mode: the first monitor that follows m. *)
LEMMA FirstFollows ==
    ASSUME NEW H, NEW s, Good(H, s), s.shared, DOMAIN s.win = {} \/ N <= 2,
           NEW m \in Monitors, NEW o \in Monitors, o # m, NEW list \in Lists,
           NEW s0, s0 = [s EXCEPT !.shared = FALSE],
           NEW t, t = WentToDeskAndPage(s0, list, o, s.mon[m].desk,
                                        s.mon[m].page)
    PROVE  /\ Good(H, t) /\ t.tracking = "G" /\ ~t.shared
           /\ t.mon[o].desk = s.mon[m].desk /\ t.mon[o].page = s.mon[m].page
<1> DEFINE D == s.mon[m].desk
           p == s.mon[m].page
           from == s.mon[o].desk
           b == DeskUnmapped(s0, o, from, FALSE)
           u == WentToDesk(b, list, o, D)
           v == ViewportMoved(u, o, p)
<1>1. /\ s \in State /\ s.tracking = "G" /\ D # from
      /\ D \in Desks /\ p \in Pages /\ from \in Desks
      /\ OnlyShown(s) /\ Memory(s) /\ Focused(H, s)
  BY StateFields DEF Good, Modes, MonitorRec
<1>2. /\ s0 \in State /\ s0.tracking = "G" /\ s0.shared = FALSE
      /\ s0.mon = s.mon /\ s0.win = s.win /\ s0.focus = s.focus
  <2>1. s0 = [tracking |-> s.tracking, shared |-> FALSE, mon |-> s.mon,
              win |-> s.win, focus |-> s.focus, heard |-> s.heard]
    BY <1>1 DEF State
  <2>2. /\ s.tracking \in {"G", "M"} /\ FALSE \in BOOLEAN
        /\ DOMAIN s.win \in SUBSET Windows
        /\ s.win \in [DOMAIN s.win -> WindowRec]
        /\ s.mon \in [Monitors -> MonitorRec]
        /\ s.heard \in [Pagers -> [Monitors -> Desks]]
        /\ s.focus \in Windows \cup {NoWindow}
    BY <1>1, StateFields
  <2>3. s0 \in State
    BY <2>1, <2>2, StateMade
  <2> QED BY <1>1, <2>1, <2>3
<1>3. t = DeskRemembered(v, o, from)
  BY <1>1, <1>2 DEF WentToDeskAndPage, DeskRemembered
<1>4. IsUnmapped(s0, o, from, b)
  <2>1. FALSE \in BOOLEAN /\ ~(s0.shared /\ FALSE)
    OBVIOUS
  <2> QED BY <1>1, <1>2, <2>1, Unmapped, Zenon
<1> HIDE DEF b
<1>5. /\ b \in State /\ b.tracking = "G" /\ b.shared = FALSE
      /\ b.mon = s.mon /\ DOMAIN b.win = DOMAIN s.win
      /\ b.focus = IF s.focus # NoWindow /\ Goes(s0, o, from, s.focus)
                   THEN NoWindow ELSE s.focus
  BY <1>2, <1>4 DEF IsUnmapped
<1>6. ASSUME NEW w \in DOMAIN s.win
      PROVE  LET x == s.win[w]
                 y == b.win[w]
                 goes == ~x.sticky /\ x.desk = from
             IN  /\ y.desk = x.desk /\ y.m = x.m /\ y.sticky = x.sticky
                 /\ Goes(s0, o, from, w) <=> goes
                 /\ goes => ~y.up /\ y.left \in {from, NoDesk}
                 /\ ~goes => y.up = x.up /\ y.left \in {x.left, NoDesk}
  <2>1. Goes(s0, o, from, w) <=> ~s.win[w].sticky /\ s.win[w].desk = from
    BY <1>2 DEF Goes, Looks
  <2>2. LET x == s.win[w]
            y == b.win[w]
        IN  /\ y.desk = x.desk /\ y.m = x.m /\ y.sticky = x.sticky
            /\ Goes(s0, o, from, w) => ~y.up /\ y.left \in {from, NoDesk}
            /\ ~Goes(s0, o, from, w) =>
                  y.up = x.up /\ y.left \in {x.left, NoDesk}
    <3>1. w \in DOMAIN s0.win
      BY <1>2
    <3>2. LET x == s0.win[w]
              y == b.win[w]
          IN  /\ y.desk = x.desk /\ y.m = x.m /\ y.sticky = x.sticky
              /\ Goes(s0, o, from, w) => ~y.up /\ y.left \in {from, NoDesk}
              /\ ~Goes(s0, o, from, w) =>
                    y.up = x.up /\ y.left \in {x.left, NoDesk}
      BY <1>4, <3>1 DEF IsUnmapped
    <3> QED BY <1>2, <3>2
  <2> QED BY <2>1, <2>2
<1>7. Memory(b)
  <2> SUFFICES ASSUME NEW w \in DOMAIN s.win, b.win[w].left # NoDesk
               PROVE  /\ ~b.win[w].sticky /\ b.win[w].left = b.win[w].desk
                      /\ ~b.win[w].up
    BY <1>5 DEF Memory
  <2>1. CASE ~s.win[w].sticky /\ s.win[w].desk = from
    BY <1>6, <2>1
  <2>2. CASE ~(~s.win[w].sticky /\ s.win[w].desk = from)
    <3>1. b.win[w].left = s.win[w].left /\ b.win[w].up = s.win[w].up
      BY <1>6, <2>2
    <3> QED BY <1>1, <1>6, <3>1 DEF Memory
  <2> QED BY <2>1, <2>2
<1>8. Focused(H, b)
  <2> SUFFICES ASSUME b.focus # NoWindow
               PROVE  /\ b.focus \in DOMAIN s.win
                      /\ b.win[b.focus].up \/ b.focus \in H
    BY <1>5 DEF Focused
  <2>1. b.focus = s.focus /\ ~Goes(s0, o, from, s.focus)
    BY <1>5
  <2>2. /\ s.focus \in DOMAIN s.win
        /\ s.win[s.focus].up \/ s.focus \in H
    BY <1>1, <2>1 DEF Focused
  <2> QED BY <1>6, <2>1, <2>2
<1>9. ASSUME NEW w \in DOMAIN b.win
      PROVE  /\ b.win[w].sticky => b.win[w].up
             /\ ~b.win[w].sticky /\ b.win[w].desk \notin {b.mon[o].desk, D}
                   => ~b.win[w].up
  <2> DEFINE x == s.win[w]
             y == b.win[w]
  <2>1. w \in DOMAIN s.win /\ N <= 2
    BY <1>5
  <2>2. x.m \in Monitors /\ WindowFits(s, w)
    BY <1>1, <2>1, StateFields DEF WindowRec, OnlyShown
  <2>3. x.m \in {o, m}
    <3>1. \A i \in Monitors : i = 1 \/ i = 2
      BY <2>1, DesksAssumption DEF Monitors
    <3> QED BY <2>2, <3>1
  <2>4. s.mon[x.m].desk \in {from, D}
    BY <2>3
  <2>5. y.sticky = x.sticky /\ y.desk = x.desk
    BY <1>6, <2>1
  <2>6. ASSUME x.sticky PROVE y.up
    <3>1. x.up
      BY <2>2, <2>6 DEF WindowFits
    <3> QED BY <1>6, <2>1, <2>6, <3>1
  <2>7. ASSUME ~x.sticky, x.desk \notin {from, D} PROVE ~y.up
    <3>1. ~x.up
      BY <2>2, <2>4, <2>7 DEF WindowFits
    <3> QED BY <1>6, <2>1, <2>7, <3>1
  <2> QED BY <1>5, <2>5, <2>6, <2>7
<1>10. u = Switched(b, list, o, D, FALSE) /\ ~Apart(b) /\ b.mon[o].desk # D
  BY <1>1, <1>5 DEF WentToDesk, Apart
<1> HIDE DEF u
<1>11. Good(H, u)
  BY <1>1, <1>5, <1>7, <1>8, <1>9, <1>10, SwitchedTogether
<1>12. /\ u.tracking = "G" /\ u.shared = FALSE
       /\ u.mon[o].desk = D
  <2>1. IsSwitched(b, o, D, FALSE, u)
    <3>1. FALSE \in BOOLEAN
      OBVIOUS
    <3> QED BY <1>1, <1>5, <1>10, <3>1, SwitchedFields, Zenon
  <2>2. DesksNow(b, o, D, u)
    BY <2>1, DesksSwitched, Zenon
  <2>3. u.mon[o].desk = D
    BY <1>10, <2>2 DEF DesksNow
  <2> QED BY <1>5, <2>1, <2>3 DEF IsSwitched
<1>13. Arrived(H, u, o, D, p, v)
  BY <1>1, <1>11, <1>12, ViewportMovedGood
<1> HIDE DEF v
<1>14. /\ Good(H, v) /\ v.tracking = "G" /\ v.shared = FALSE
       /\ v.mon[o].desk = D /\ v.mon[o].page = p
  BY <1>12, <1>13 DEF Arrived
<1>15. /\ Good(H, t) /\ SameWindows(v, t)
       /\ \A i \in Monitors : t.mon[i].page = v.mon[i].page
  <2>1. Good(H, t) /\ SameWindows(v, t) /\ Returns(v, o, from, t)
    BY <1>1, <1>3, <1>14, DeskRememberedGood
  <2> QED BY <2>1 DEF Returns
<1> QED BY <1>14, <1>15 DEF SameWindows

(* After the first k monitors: nothing has happened, or all is Good, and the *)
(* monitors so far show what m showed.                                      *)
Lead(H, s, m, k, t) ==
    \/ 1 .. k \subseteq {m} /\ t = [s EXCEPT !.shared = FALSE]
    \/ /\ Good(H, t) /\ t.tracking = s.tracking /\ ~t.shared
       /\ \A i \in (1 .. k) \cup {m} :
             t.mon[i].desk = s.mon[m].desk /\ t.mon[i].page = s.mon[m].page

LEMMA LeadFollows ==
    ASSUME NEW H, NEW s, Good(H, s), s.shared => DOMAIN s.win = {} \/ N <= 2,
           NEW m \in Monitors, NEW list \in Lists, NEW k \in Monitors,
           NEW t, Lead(H, s, m, k - 1, t), NEW u, u = Following(t, list, m, k),
           s.shared \/ Good(H, t),
           t.mon[m].desk = s.mon[m].desk, t.mon[m].page = s.mon[m].page
    PROVE  Lead(H, s, m, k, u)
<1> DEFINE D == s.mon[m].desk
           p == s.mon[m].page
<1>0. /\ k \in Nat \ {0} /\ 1 .. k = (1 .. k - 1) \cup {k}
      /\ 1 .. k \subseteq Monitors
  BY DesksAssumption DEF Monitors
<1>1. D \in Desks /\ p \in Pages
  BY StateFields DEF Good, MonitorRec
<1>2. CASE k = m
  <2>1. u = t
    BY <1>2 DEF Following
  <2> QED BY <1>0, <1>2, <2>1 DEF Lead
<1>3. CASE k # m
  <2>1. u = WentToDeskAndPage(t, list, k, D, p)
    BY <1>3 DEF Following
  <2>2. CASE 1 .. k - 1 \subseteq {m} /\ t = [s EXCEPT !.shared = FALSE]
             /\ s.shared
    <3>1. /\ Good(H, u) /\ u.tracking = "G" /\ ~u.shared
          /\ u.mon[k].desk = D /\ u.mon[k].page = p
      BY <1>3, <2>1, <2>2, FirstFollows
    <3>2. s.tracking = "G"
      BY <2>2 DEF Good, Modes
    <3>3. \A i \in Monitors : u.mon[i].desk = D /\ u.mon[i].page = p
      BY <3>1 DEF Good, Modes
    <3> QED BY <1>0, <3>1, <3>2, <3>3 DEF Lead
  <2>3. CASE /\ Good(H, t) /\ t.tracking = s.tracking /\ ~t.shared
             /\ \A i \in (1 .. k - 1) \cup {m} :
                   t.mon[i].desk = D /\ t.mon[i].page = p
    <3>1. Arrived(H, t, k, D, p, u)
      BY <1>1, <2>1, <2>3, WentToDeskAndPageGood
    <3>2. /\ Good(H, u) /\ u.tracking = t.tracking /\ u.shared = t.shared
          /\ u.mon[k].desk = D /\ u.mon[k].page = p
          /\ \A i \in Monitors \ {k} :
                /\ u.mon[i].desk = IF Apart(t) THEN t.mon[i].desk ELSE D
                /\ u.mon[i].page = IF Apart(t) THEN t.mon[i].page ELSE p
      BY <2>3, <3>1 DEF Arrived
    <3>3. \A i \in (1 .. k) \cup {m} : u.mon[i].desk = D /\ u.mon[i].page = p
      <4> TAKE i \in (1 .. k) \cup {m}
      <4>1. CASE i = k
        BY <3>2, <4>1
      <4>2. CASE i # k
        <5>1. i \in Monitors \ {k} /\ i \in (1 .. k - 1) \cup {m}
          BY <1>0, <4>2
        <5>2. t.mon[i].desk = D /\ t.mon[i].page = p
          BY <2>3, <5>1
        <5> QED BY <3>2, <5>1, <5>2
      <4> QED BY <4>1, <4>2
    <3> QED BY <2>3, <3>2, <3>3 DEF Lead
  <2>4. CASE /\ Good(H, t) /\ ~s.shared
             /\ 1 .. k - 1 \subseteq {m} /\ t = [s EXCEPT !.shared = FALSE]
    <3>1. /\ t.tracking = s.tracking /\ ~t.shared
          /\ \A i \in (1 .. k - 1) \cup {m} :
                t.mon[i].desk = D /\ t.mon[i].page = p
      BY <2>4 DEF Good, State
    <3> QED BY <2>3, <2>4, <3>1
  <2> QED BY <2>2, <2>3, <2>4 DEF Lead
<1> QED BY <1>2, <1>3

LEMMA AllFollowedGood ==
    ASSUME NEW H, NEW s, Good(H, s), s.shared => DOMAIN s.win = {} \/ N <= 2,
           NEW m \in Monitors, NEW list \in Lists,
           NEW t, t = AllFollowed(s, list, m)
    PROVE  Lead(H, s, m, N, t)
<1>1. PICK f : Follows(f, N, s, list, m) /\ t = f[N]
  BY AllFollowedIs
<1> DEFINE P(k) == /\ Lead(H, s, m, k, f[k])
                   /\ s.shared \/ Good(H, f[k])
                   /\ f[k].mon[m].desk = s.mon[m].desk
                   /\ f[k].mon[m].page = s.mon[m].page
           T == {k \in 0 .. N : ~P(k)}
<1>2. N \in Nat /\ s \in State
  BY DesksAssumption DEF Good
<1>3. P(0)
  <2>1. f[0] = [s EXCEPT !.shared = FALSE]
    BY <1>1 DEF Follows
  <2>2. f[0].mon = s.mon
    BY <1>2, <2>1 DEF State
  <2>3. ~s.shared => f[0] = s
    BY <1>2, <2>1 DEF State
  <2>4. s.shared \/ Good(H, f[0])
    BY <2>3
  <2>5. 1 .. 0 \subseteq {m}
    OBVIOUS
  <2> QED BY <2>1, <2>2, <2>4, <2>5 DEF Lead
<1>4. T = {}
  <2> SUFFICES ASSUME T # {} PROVE FALSE
    OBVIOUS
  <2>1. PICK k \in T : \A j \in T : k <= j
    <3>1. T \subseteq Nat
      BY <1>2
    <3> HIDE DEF T
    <3> QED BY <3>1, LeastNat
  <2>2. k \in 0 .. N /\ ~P(k)
    BY <2>1
  <2>3. k # 0
    BY <1>3, <2>2
  <2> HIDE DEF P
  <2>4. k - 1 \in 0 .. N /\ ~(k <= k - 1) /\ k \in 1 .. N
    BY <1>2, <2>2, <2>3
  <2>5. P(k - 1)
    BY <2>1, <2>4
  <2>6. f[k] = Following(f[k - 1], list, m, k)
    BY <1>1, <2>4 DEF Follows
  <2>7. Lead(H, s, m, k, f[k])
    <3>1. k \in Monitors
      BY <2>4 DEF Monitors
    <3> QED BY <2>5, <2>6, <3>1, LeadFollows DEF P
  <2>8. CASE 1 .. k \subseteq {m} /\ f[k] = [s EXCEPT !.shared = FALSE]
    <3>1. f[k].mon = s.mon
      BY <1>2, <2>8 DEF State
    <3>2. ~s.shared => f[k] = s
      BY <1>2, <2>8 DEF State
    <3>3. s.shared \/ Good(H, f[k])
      BY <3>2
    <3>4. P(k)
      BY <2>7, <3>1, <3>3 DEF P
    <3> QED BY <2>2, <3>4
  <2>9. CASE /\ Good(H, f[k])
             /\ \A i \in (1 .. k) \cup {m} :
                   /\ f[k].mon[i].desk = s.mon[m].desk
                   /\ f[k].mon[i].page = s.mon[m].page
    <3>1. P(k)
      BY <2>7, <2>9 DEF P
    <3> QED BY <2>2, <3>1
  <2> QED BY <2>7, <2>8, <2>9 DEF Lead
<1>5. P(N)
  <2> HIDE DEF P
  <2> QED BY <1>2, <1>4
<1> QED BY <1>1, <1>5

(* Shared mode, entered without windows. *)
Bare(s) == s \in State /\ s.shared /\ DOMAIN s.win = {} /\ s.focus = NoWindow

OneDesk(s, m, d, t) ==
    /\ Bare(t) /\ t.tracking = s.tracking
    /\ t.mon[m].desk = d
    /\ \A n \in Monitors \ {m} : t.mon[n].desk = s.mon[n].desk

LEMMA BareSwitched ==
    ASSUME NEW s, Bare(s), NEW m \in Monitors, NEW d \in Desks,
           s.mon[m].desk # d, NEW list \in Lists, NEW swap \in BOOLEAN,
           NEW t, t = Switched(s, list, m, d, swap)
    PROVE  OneDesk(s, m, d, t)
<1>1. s \in State /\ Apart(s)
  BY DEF Bare, Apart
<1>2. IsSwitched(s, m, d, swap, t)
  BY <1>1, SwitchedFields
<1>3. DesksNow(s, m, d, t)
  BY <1>2, DesksSwitched, Zenon
<1>4. /\ t \in State /\ t.tracking = s.tracking /\ t.shared = s.shared
      /\ DOMAIN t.win = DOMAIN s.win /\ FocusSwitched(s, m, d, swap, t.focus)
  BY <1>2 DEF IsSwitched
<1>5. Bare(t)
  BY <1>4 DEF Bare, FocusSwitched
<1>6. \A n \in Monitors : t.mon[n].desk = IF n = m THEN d ELSE s.mon[n].desk
  BY <1>1, <1>3 DEF DesksNow
<1> QED BY <1>4, <1>5, <1>6 DEF OneDesk

LEMMA BareWentToDesk ==
    ASSUME NEW s, Bare(s), NEW m \in Monitors, NEW d \in Desks,
           NEW list \in Lists, NEW t, t = WentToDesk(s, list, m, d)
    PROVE  /\ Bare(t) /\ t.tracking = s.tracking
           /\ t.mon[m].desk = d
           /\ \A n \in Monitors \ {m} : s.mon[n].desk # d =>
                 t.mon[n].desk = s.mon[n].desk
<1> DEFINE from == s.mon[m].desk
<1>1. CASE from = d
  <2>1. t = s
    BY <1>1 DEF WentToDesk
  <2> QED BY <1>1, <2>1
<1>2. CASE from # d
  <2>1. CASE Goto(s, list, m, d, t)
    <3>1. FALSE \in BOOLEAN /\ t = Switched(s, list, m, d, FALSE)
      BY <2>1 DEF Goto
    <3>2. OneDesk(s, m, d, t)
      BY <1>2, <3>1, BareSwitched, Zenon
    <3> QED BY <3>2 DEF OneDesk
  <2>2. CASE Exchanges(s, list, m, d, t)
    <3>1. PICK o \in Monitors : s.mon[o].desk = d /\ t = Exchange(s, list, m, o)
      BY <2>2 DEF Exchanges
    <3> DEFINE u == Switched(s, list, o, from, TRUE)
    <3>2. t = Switched(u, list, m, d, TRUE)
      BY <3>1 DEF Exchange
    <3>3. TRUE \in BOOLEAN /\ from \in Desks /\ s.mon[o].desk # from /\ o # m
      BY <1>2, <3>1, StateFields DEF Bare, MonitorRec
    <3>4. /\ Bare(u) /\ u.tracking = s.tracking
          /\ u.mon[o].desk = from
          /\ \A n \in Monitors \ {o} : u.mon[n].desk = s.mon[n].desk
      <4>1. OneDesk(s, o, from, u)
        BY <3>3, BareSwitched, Zenon
      <4> HIDE DEF u
      <4> QED BY <4>1 DEF OneDesk
    <3> HIDE DEF u
    <3>5. u.mon[m].desk # d
      BY <1>2, <3>3, <3>4
    <3>6. /\ Bare(t) /\ t.tracking = u.tracking
          /\ t.mon[m].desk = d
          /\ \A n \in Monitors \ {m} : t.mon[n].desk = u.mon[n].desk
      <4>1. OneDesk(u, m, d, t)
        BY <3>2, <3>3, <3>4, <3>5, BareSwitched, Zenon
      <4> QED BY <4>1 DEF OneDesk
    <3> QED BY <3>1, <3>4, <3>6
  <2> QED BY <1>2, <2>1, <2>2, WentToDeskCases
<1> QED BY <1>1, <1>2

(* After the first k monitors: they have the desks that follow each other. *)
Spread(s, k, t) ==
    /\ Bare(t) /\ t.tracking = s.tracking
    /\ \A i \in (1 .. k) \cup {1} : t.mon[i].desk = s.mon[1].desk + i - 1

LEMMA AllSpreadGood ==
    ASSUME NEW H, NEW s, Good(H, s), DOMAIN s.win = {},
           s.mon[1].desk + N - 1 <= LastDesk,
           NEW list \in Lists, NEW t, t = AllSpread(s, list)
    PROVE  Spread(s, N, t)
<1>1. PICK f : Spreads(f, N, s, list) /\ t = f[N]
  BY AllSpreadIs
<1> DEFINE first == s.mon[1].desk
           T == {k \in 0 .. N : ~Spread(s, k, f[k])}
<1>2. /\ N \in Nat \ {0} /\ LastDesk \in Nat /\ s \in State
      /\ first \in Nat /\ 1 \in Monitors
  <2>1. first \in Desks
    BY DesksFacts, StateFields DEF Good, MonitorRec
  <2> QED BY <2>1, DesksAssumption, DesksFacts DEF Good, Desks
<1>3. Spread(s, 0, f[0])
  <2>1. f[0] = [s EXCEPT !.shared = TRUE]
    BY <1>1 DEF Spreads
  <2>2. s.focus = NoWindow
    BY DEF Good, Focused
  <2>3. f[0] = [tracking |-> s.tracking, shared |-> TRUE, mon |-> s.mon,
                win |-> s.win, focus |-> s.focus, heard |-> s.heard]
    BY <1>2, <2>1 DEF State
  <2>4. f[0] \in State
    <3>1. /\ s.tracking \in {"G", "M"} /\ TRUE \in BOOLEAN
          /\ DOMAIN s.win \in SUBSET Windows
          /\ s.win \in [DOMAIN s.win -> WindowRec]
          /\ s.mon \in [Monitors -> MonitorRec]
          /\ s.heard \in [Pagers -> [Monitors -> Desks]]
          /\ s.focus \in Windows \cup {NoWindow}
      BY <1>2, StateFields
    <3> QED BY <2>3, <3>1, StateMade
  <2>5. \A i \in (1 .. 0) \cup {1} : f[0].mon[i].desk = first + i - 1
    BY <1>2, <2>3
  <2> QED BY <2>2, <2>3, <2>4, <2>5 DEF Spread, Bare
<1>4. T = {}
  <2> SUFFICES ASSUME T # {} PROVE FALSE
    OBVIOUS
  <2>1. PICK k \in T : \A j \in T : k <= j
    <3>1. T \subseteq Nat
      BY <1>2
    <3> HIDE DEF T
    <3> QED BY <3>1, LeastNat
  <2>2. k \in 0 .. N /\ ~Spread(s, k, f[k]) /\ k # 0
    BY <1>3, <2>1
  <2>3. k - 1 \in 0 .. N /\ ~(k <= k - 1) /\ k \in 1 .. N /\ k \in Monitors
    BY <1>2, <2>2 DEF Monitors
  <2>4. Spread(s, k - 1, f[k - 1])
    BY <2>1, <2>3
  <2>5. f[k] = Spreading(f[k - 1], list, first, k)
    BY <1>1, <2>3 DEF Spreads
  <2>6. /\ Bare(f[k - 1]) /\ f[k - 1].tracking = s.tracking
        /\ \A i \in (1 .. k - 1) \cup {1} :
              f[k - 1].mon[i].desk = first + i - 1
    BY <2>4 DEF Spread
  <2>7. CASE k = 1
    <3>1. f[k] = f[k - 1]
      BY <2>5, <2>7 DEF Spreading
    <3>2. (1 .. k) \cup {1} = (1 .. k - 1) \cup {1}
      BY <2>7
    <3> QED BY <2>2, <2>6, <3>1, <3>2 DEF Spread
  <2>8. CASE k # 1
    <3> DEFINE d == first + k - 1
    <3>1. f[k] = WentToDesk(f[k - 1], list, k, d)
      BY <2>5, <2>8 DEF Spreading
    <3>2. d \in Desks
      BY <1>2, <2>3 DEF Desks
    <3>3. /\ Bare(f[k]) /\ f[k].tracking = f[k - 1].tracking
          /\ f[k].mon[k].desk = d
          /\ \A i \in Monitors \ {k} : f[k - 1].mon[i].desk # d =>
                f[k].mon[i].desk = f[k - 1].mon[i].desk
      <4> HIDE DEF d
      <4> QED BY <2>3, <2>6, <3>1, <3>2, BareWentToDesk
    <3>4. \A i \in (1 .. k) \cup {1} : f[k].mon[i].desk = first + i - 1
      <4> TAKE i \in (1 .. k) \cup {1}
      <4>1. CASE i = k
        BY <3>3, <4>1
      <4>2. CASE i # k
        <5>1. /\ i \in (1 .. k - 1) \cup {1} /\ i \in Monitors \ {k}
              /\ i \in Nat /\ i < k
          BY <1>2, <2>3, <2>8, <4>2 DEF Monitors
        <5>2. f[k - 1].mon[i].desk = first + i - 1
          BY <2>6, <5>1
        <5>3. first + i - 1 # d
          BY <1>2, <2>3, <5>1
        <5> QED BY <3>3, <5>1, <5>2, <5>3
      <4> QED BY <4>1, <4>2
    <3> QED BY <2>2, <2>6, <3>3, <3>4 DEF Spread
  <2> QED BY <2>7, <2>8
<1>5. N \in 0 .. N
  BY <1>2
<1> QED BY <1>1, <1>4, <1>5

(* The mode is set; FvwmPager has not been told yet. *)
InMode(u, tr, sh) ==
    [tracking |-> tr, shared |-> sh, mon |-> u.mon, win |-> u.win,
     focus |-> u.focus, heard |-> u.heard]

LEMMA AnnouncedGood ==
    ASSUME NEW H, NEW u \in State, OnlyShown(u), Memory(u), Focused(H, u),
           NEW tr \in {"G", "M"}, NEW sh \in BOOLEAN,
           sh => u.shared \/ DOMAIN u.win = {},
           NEW v, v = InMode(u, tr, sh), NEW t, t = Announced(v), Modes(t)
    PROVE  /\ Good(H, t) /\ t.mon = u.mon
           /\ t.tracking = tr /\ t.shared = sh
<1> DEFINE h == [q \in Pagers |-> [n \in Monitors |-> v.mon[n].desk]]
<1>1. v = [tracking |-> tr, shared |-> sh, mon |-> u.mon, win |-> u.win,
           focus |-> u.focus, heard |-> u.heard]
  BY DEF InMode
<1>2. v.mon = u.mon
  BY <1>1
<1>3. /\ h \in [Pagers -> [Monitors -> Desks]]
      /\ \A q \in Pagers, n \in Monitors : h[q][n] = u.mon[n].desk
  <2>1. \A n \in Monitors : v.mon[n].desk \in Desks
    BY <1>2, StateFields DEF MonitorRec
  <2> QED BY <1>2, <2>1
<1>4. t = [v EXCEPT !.heard = h]
  BY DEF Announced
<1> HIDE DEF h
<1>5. t = [tracking |-> tr, shared |-> sh, mon |-> u.mon, win |-> u.win,
           focus |-> u.focus, heard |-> h]
  BY <1>1, <1>4
<1>6. t \in State
  <2>1. /\ DOMAIN u.win \in SUBSET Windows
        /\ u.win \in [DOMAIN u.win -> WindowRec]
        /\ u.mon \in [Monitors -> MonitorRec]
        /\ u.focus \in Windows \cup {NoWindow}
    BY StateFields
  <2> QED BY <1>3, <1>5, <2>1, StateMade
<1>7. /\ t.shared = sh /\ t.mon = u.mon /\ t.win = u.win
      /\ t.focus = u.focus /\ t.heard = h /\ t.tracking = tr
  BY <1>5
<1>8. Memory(t)
  BY <1>7 DEF Memory
<1>9. Focused(H, t)
  BY <1>7 DEF Focused
<1>10. Heard(t)
  BY <1>3, <1>7 DEF Heard
<1>11. ASSUME NEW w \in DOMAIN t.win PROVE WindowFits(t, w)
  <2>1. WindowFits(u, w)
    BY <1>7 DEF OnlyShown
  <2>2. t.shared => u.shared
    BY <1>7
  <2> QED BY <1>7, <2>1, <2>2 DEF WindowFits
<1> QED BY <1>6, <1>7, <1>8, <1>9, <1>10, <1>11 DEF Good, OnlyShown

LEMMA InModeIs ==
    ASSUME NEW u \in State, NEW tr, NEW sh
    PROVE  /\ [u EXCEPT !.tracking = tr] = InMode(u, tr, u.shared)
           /\ [u EXCEPT !.shared = sh] = InMode(u, u.tracking, sh)
<1>1. u = [tracking |-> u.tracking, shared |-> u.shared, mon |-> u.mon,
           win |-> u.win, focus |-> u.focus, heard |-> u.heard]
  BY DEF State
<1>2. [u EXCEPT !.tracking = tr] = InMode(u, tr, u.shared)
  <2> DEFINE r == [u EXCEPT !.tracking = tr]
  <2>1. r \in [tracking: {tr}, shared: {u.shared}, mon: {u.mon}, win: {u.win},
               focus: {u.focus}, heard: {u.heard}]
    BY <1>1
  <2> HIDE DEF r
  <2>2. r = InMode(u, tr, u.shared)
    BY <2>1 DEF InMode
  <2> QED BY <2>2 DEF r
<1>3. [u EXCEPT !.shared = sh] = InMode(u, u.tracking, sh)
  <2> DEFINE r == [u EXCEPT !.shared = sh]
  <2>1. r \in [tracking: {u.tracking}, shared: {sh}, mon: {u.mon}, win: {u.win},
               focus: {u.focus}, heard: {u.heard}]
    BY <1>1
  <2> HIDE DEF r
  <2>2. r = InMode(u, u.tracking, sh)
    BY <2>1 DEF InMode
  <2> QED BY <2>2 DEF r
<1> QED BY <1>2, <1>3

BackUnlessMode(s, t) ==
    t.tracking = s.tracking /\ t.shared = s.shared => BackRight(s, t)

LEMMA GlobalGood ==
    ASSUME NEW H, NEW s, Good(H, s), s.shared => DOMAIN s.win = {} \/ N <= 2,
           NEW m \in Monitors, NEW list \in Lists,
           NEW t,
           t = Announced([AllFollowed(s, list, m) EXCEPT !.tracking = "G"])
    PROVE  Good(H, t) /\ BackUnlessMode(s, t)
<1> DEFINE a == AllFollowed(s, list, m)
           v == [a EXCEPT !.tracking = "G"]
<1>1. Lead(H, s, m, N, a)
  BY AllFollowedGood
<1>2. t = Announced(v)
  OBVIOUS
<1> HIDE DEF a
<1>3. /\ s \in State /\ OnlyShown(s) /\ Modes(s) /\ Memory(s) /\ Focused(H, s)
      /\ s.tracking \in {"G", "M"} /\ s.shared \in BOOLEAN
      /\ "G" \in {"G", "M"} /\ Monitors = 1 .. N
  BY StateFields DEF Good, Monitors
<1> DEFINE no == FALSE
<1>4. no \in BOOLEAN /\ ~no
  OBVIOUS
<1>5. CASE 1 .. N \subseteq {m} /\ a = [s EXCEPT !.shared = FALSE]
  <2>1. a = [s EXCEPT !.shared = no]
    BY <1>5
  <2> HIDE DEF no
  <2>2. a = InMode(s, s.tracking, no)
    BY <1>3, <2>1, InModeIs
  <2>3. v = InMode(s, "G", no)
    BY <2>2 DEF InMode
  <2> HIDE DEF v
  <2>4. t = [v EXCEPT !.heard = [q \in Pagers |->
                              [n \in Monitors |-> v.mon[n].desk]]]
    BY <1>2 DEF Announced
  <2>5. Modes(t)
    <3> DEFINE h == [q \in Pagers |-> [n \in Monitors |-> v.mon[n].desk]]
    <3>1. t = [v EXCEPT !.heard = h]
      BY <2>4
    <3> HIDE DEF h
    <3>2. t.tracking = "G" /\ ~t.shared
      BY <1>4, <2>3, <3>1 DEF InMode
    <3>3. \A i, j \in Monitors : i = j
      BY <1>3, <1>5
    <3> QED BY <3>2, <3>3 DEF Modes
  <2>6. Good(H, t) /\ t.mon = s.mon
    BY <1>2, <1>3, <1>4, <2>3, <2>5, AnnouncedGood
  <2> QED BY <2>6 DEF BackUnlessMode, BackRight
<1>6. CASE /\ Good(H, a) /\ ~a.shared
           /\ \A i \in Monitors : /\ a.mon[i].desk = s.mon[m].desk
                                  /\ a.mon[i].page = s.mon[m].page
  <2>1. /\ a \in State /\ OnlyShown(a) /\ Memory(a) /\ Focused(H, a)
        /\ a.shared \in BOOLEAN
    BY <1>6, StateFields DEF Good
  <2>2. v = InMode(a, "G", a.shared)
    BY <2>1, InModeIs, Zenon
  <2> HIDE DEF v
  <2>3. t = [v EXCEPT !.heard = [q \in Pagers |->
                              [n \in Monitors |-> v.mon[n].desk]]]
    BY <1>2 DEF Announced
  <2>4. Modes(t)
    <3> DEFINE h == [q \in Pagers |-> [n \in Monitors |-> v.mon[n].desk]]
    <3>1. t = [v EXCEPT !.heard = h]
      BY <2>3
    <3> HIDE DEF h
    <3>2. t.tracking = "G" /\ ~t.shared /\ t.mon = a.mon
      BY <1>6, <2>2, <3>1 DEF InMode
    <3> QED BY <1>6, <3>2 DEF Modes
  <2>5. Good(H, t) /\ t.mon = a.mon /\ t.tracking = "G" /\ t.shared = a.shared
    BY <1>2, <1>3, <1>6, <2>1, <2>2, <2>4, AnnouncedGood
  <2>6. ASSUME s.tracking = "G", ~s.shared, NEW n \in Monitors
        PROVE  /\ t.mon[n].desk = s.mon[n].desk
               /\ t.mon[n].page = s.mon[n].page
    <3>1. s.mon[n].desk = s.mon[m].desk /\ s.mon[n].page = s.mon[m].page
      BY <1>3, <2>6 DEF Modes
    <3> QED BY <1>6, <2>5, <3>1
  <2>7. BackUnlessMode(s, t)
    BY <1>6, <2>5, <2>6 DEF BackUnlessMode, BackRight
  <2> QED BY <2>5, <2>7
<1>7. m \in Monitors /\ (1 .. N) \cup {m} = Monitors
  BY <1>3
<1> QED BY <1>1, <1>5, <1>6, <1>7 DEF Lead

LEMMA PerMonitorGood ==
    ASSUME NEW H, NEW s, Good(H, s),
           NEW t, t = Announced([s EXCEPT !.tracking = "M", !.shared = FALSE])
    PROVE  Good(H, t) /\ BackUnlessMode(s, t)
<1> DEFINE v == [s EXCEPT !.tracking = "M", !.shared = FALSE]
<1>1. /\ s \in State /\ OnlyShown(s) /\ Memory(s) /\ Focused(H, s)
      /\ "M" \in {"G", "M"}
  BY DEF Good
<1> DEFINE no == FALSE
<1>2. no \in BOOLEAN /\ ~no
  OBVIOUS
<1>3. t = Announced(v)
  OBVIOUS
<1>4. s = [tracking |-> s.tracking, shared |-> s.shared, mon |-> s.mon,
           win |-> s.win, focus |-> s.focus, heard |-> s.heard]
  BY <1>1 DEF State
<1>5. v \in [tracking: {"M"}, shared: {no}, mon: {s.mon}, win: {s.win},
             focus: {s.focus}, heard: {s.heard}]
  BY <1>4
<1> HIDE DEF v, no
<1>6. t = Announced(v) /\ v = InMode(s, "M", no)
  BY <1>3, <1>5 DEF InMode
<1>7. Modes(t)
  <2> DEFINE h == [q \in Pagers |-> [n \in Monitors |-> v.mon[n].desk]]
  <2>1. t = [v EXCEPT !.heard = h]
    BY <1>6 DEF Announced
  <2> HIDE DEF h
  <2>2. t.tracking = "M" /\ ~t.shared
    BY <1>6, <1>2, <2>1 DEF InMode
  <2> QED BY <2>2 DEF Modes
<1>8. Good(H, t) /\ t.mon = s.mon
  BY <1>1, <1>6, <1>7, <1>2, AnnouncedGood
<1> QED BY <1>8 DEF BackUnlessMode, BackRight

LEMMA SharedGood ==
    ASSUME NEW H, NEW s, Good(H, s), ~s.shared, DOMAIN s.win = {},
           s.mon[1].desk + N - 1 <= LastDesk, NEW list \in Lists,
           NEW t, t = Announced([AllSpread(s, list) EXCEPT !.tracking = "G"])
    PROVE  Good(H, t) /\ BackUnlessMode(s, t)
<1> DEFINE a == AllSpread(s, list)
           v == [a EXCEPT !.tracking = "G"]
<1>1. Spread(s, N, a)
  BY AllSpreadGood
<1>2. t = Announced(v)
  OBVIOUS
<1> HIDE DEF a
<1>3. /\ a \in State /\ a.shared /\ DOMAIN a.win = {} /\ a.focus = NoWindow
      /\ a.shared \in BOOLEAN /\ "G" \in {"G", "M"}
      /\ \A i \in Monitors : a.mon[i].desk = s.mon[1].desk + i - 1
  <2>1. Bare(a) /\ \A i \in Monitors : a.mon[i].desk = s.mon[1].desk + i - 1
    BY <1>1 DEF Spread, Monitors
  <2> QED BY <2>1, StateFields DEF Bare
<1>4. OnlyShown(a) /\ Memory(a) /\ Focused(H, a)
  BY <1>3 DEF OnlyShown, Memory, Focused
<1>5. v = InMode(a, "G", a.shared)
  BY <1>3, InModeIs, Zenon
<1> HIDE DEF v
<1>6. t.tracking = "G" /\ t.shared /\ t.mon = a.mon
  <2> DEFINE h == [q \in Pagers |-> [n \in Monitors |-> v.mon[n].desk]]
  <2>1. t = [v EXCEPT !.heard = h]
    BY <1>2 DEF Announced
  <2> HIDE DEF h
  <2> QED BY <1>3, <1>5, <2>1 DEF InMode
<1>7. Modes(t)
  <2>1. s.mon[1].desk \in Nat
    BY DesksFacts, StateFields, DesksAssumption DEF Good, MonitorRec, Desks
  <2>2. \A i, j \in Monitors : i # j => t.mon[i].desk # t.mon[j].desk
    BY <1>3, <1>6, <2>1, DesksFacts
  <2> QED BY <1>6, <2>2 DEF Modes
<1>8. Good(H, t)
  <2> DEFINE yes == a.shared
  <2>1. /\ yes \in BOOLEAN /\ (yes => a.shared \/ DOMAIN a.win = {})
        /\ v = InMode(a, "G", yes)
    BY <1>3, <1>5
  <2> HIDE DEF yes
  <2> QED BY <1>2, <1>3, <1>4, <1>7, <2>1, AnnouncedGood
<1> QED BY <1>6, <1>8 DEF BackUnlessMode

LEMMA ConfiguredGood ==
    ASSUME NEW H, NEW s, Good(H, s), NEW m \in Monitors, NEW list \in Lists,
           NEW to \in {"global", "per-monitor", "shared"},
           to = "shared" /\ ~s.shared =>
              DOMAIN s.win = {} /\ s.mon[1].desk + N - 1 <= LastDesk,
           to = "global" /\ s.shared => DOMAIN s.win = {} \/ N <= 2,
           NEW t, t = Configured(s, list, m, to)
    PROVE  Good(H, t) /\ BackUnlessMode(s, t)
<1>1. CASE to = "global"
  <2>1. t = Announced([AllFollowed(s, list, m) EXCEPT !.tracking = "G"])
    BY <1>1 DEF Configured, Announced
  <2> QED BY <1>1, <2>1, GlobalGood
<1>2. CASE to = "per-monitor"
  <2>1. t = Announced([s EXCEPT !.tracking = "M", !.shared = FALSE])
    BY <1>2 DEF Configured, Announced
  <2> QED BY <2>1, PerMonitorGood
<1>3. CASE to = "shared" /\ ~s.shared
  <2>1. t = Announced([AllSpread(s, list) EXCEPT !.tracking = "G"])
    BY <1>3 DEF Configured, Announced
  <2> QED BY <1>3, <2>1, SharedGood
<1>4. CASE to = "shared" /\ s.shared
  <2>1. t = s
    BY <1>4 DEF Configured
  <2> QED BY <2>1 DEF BackUnlessMode, BackRight
<1> QED BY <1>1, <1>2, <1>3, <1>4

-----------------------------------------------------------------------------
(* The commands *)

Safe(H, s, t) == Good(H, t) /\ BackUnlessMode(s, t)

LEMMA ArrivedSafe ==
    ASSUME NEW H, NEW s, NEW m, NEW d, NEW p, NEW t, Arrived(H, s, m, d, p, t)
    PROVE  Safe(H, s, t)
  BY DEF Arrived, Safe, BackUnlessMode

LEMMA KeptSafe ==
    ASSUME NEW H, NEW s, NEW t, Kept(H, s, t)
    PROVE  Safe(H, s, t)
  BY DEF Kept, Safe, BackUnlessMode, BackRight

(* goto_desk, called without a look at the other monitors. *)
LEMMA SwitchedOrNot ==
    ASSUME NEW H, NEW s, Good(H, s), NEW m \in Monitors, NEW d \in Desks,
           s.shared => \A n \in Monitors \ {m} : s.mon[n].desk # d,
           NEW list \in Lists, NEW t, t = Switched(s, list, m, d, FALSE)
    PROVE  Arrived(H, s, m, d, s.mon[m].page, t)
<1>1. Blank(H, s, m)
  BY GoodIsBlank
<1>2. CASE s.mon[m].desk = d
  <2>1. t = s /\ WentToDesk(s, list, m, d) = s
    BY <1>2 DEF Switched, WentToDesk
  <2> QED BY <1>1, <2>1, WentToDeskGood
<1>3. CASE s.mon[m].desk # d
  BY <1>1, <1>3, SwitchedGood
<1> QED BY <1>2, <1>3

(* The focus moves to a window that is mapped or may be hidden. *)
LEMMA FocusGood ==
    ASSUME NEW H, NEW s, Good(H, s), NEW f \in DOMAIN s.win,
           s.win[f].up \/ f \in H,
           NEW t, t = [s EXCEPT !.focus = f]
    PROVE  Good(H, t)
<1>1. /\ s \in State /\ OnlyShown(s) /\ Modes(s) /\ Memory(s) /\ Heard(s)
      /\ f \in Windows \cup {NoWindow}
  BY StateFields DEF Good
<1>2. /\ t \in State
      /\ t.tracking = s.tracking /\ t.shared = s.shared
      /\ t.mon = s.mon /\ t.win = s.win /\ t.heard = s.heard
      /\ t.focus = f
  BY <1>1, FocusFields
<1>3. Modes(t)
  BY <1>1, <1>2 DEF Modes
<1>4. Memory(t)
  BY <1>1, <1>2 DEF Memory
<1>5. Heard(t)
  BY <1>1, <1>2 DEF Heard, Apart
<1>6. Focused(H, t)
  BY <1>2 DEF Focused
<1>7. ASSUME NEW w \in DOMAIN t.win PROVE WindowFits(t, w)
  <2>1. WindowFits(s, w)
    BY <1>1, <1>2 DEF OnlyShown
  <2> QED BY <1>2, <2>1 DEF WindowFits
<1> QED BY <1>2, <1>3, <1>4, <1>5, <1>6, <1>7 DEF Good, OnlyShown

(* Windows come and go: those that stay do not change, and one that comes *)
(* fits and waits for nothing.                                            *)
WithWindows(s, wi, f) == [s EXCEPT !.win = wi, !.focus = f]

LEMMA WithWindowsGood ==
    ASSUME NEW H, NEW s, Good(H, s), NEW W \in SUBSET Windows,
           NEW wi \in [W -> WindowRec], NEW f,
           \A w \in W : \/ w \in DOMAIN s.win /\ wi[w] = s.win[w]
                        \/ wi[w].left = NoDesk,
           NEW t, t = WithWindows(s, wi, f),
           \A w \in W : WindowFits(t, w),
           f = NoWindow \/ (f \in W /\ (wi[f].up \/ f \in H))
    PROVE  Safe(H, s, t)
<1>1. s \in State /\ Modes(s) /\ Memory(s) /\ Heard(s)
      /\ f \in Windows \cup {NoWindow}
  BY DEF Good
<1>2. t = [tracking |-> s.tracking, shared |-> s.shared, mon |-> s.mon,
           win |-> wi, focus |-> f, heard |-> s.heard]
  <2> DEFINE r == [s EXCEPT !.win = wi, !.focus = f]
  <2>1. s = [tracking |-> s.tracking, shared |-> s.shared, mon |-> s.mon,
             win |-> s.win, focus |-> s.focus, heard |-> s.heard]
    BY <1>1 DEF State
  <2>2. r \in [tracking: {s.tracking}, shared: {s.shared}, mon: {s.mon},
               win: {wi}, focus: {f}, heard: {s.heard}]
    BY <2>1
  <2>3. t = r
    BY DEF WithWindows
  <2> HIDE DEF r
  <2> QED BY <2>2, <2>3
<1>3. t \in State
  <2>1. /\ s.mon \in [Monitors -> MonitorRec]
        /\ s.heard \in [Pagers -> [Monitors -> Desks]]
        /\ s.tracking \in {"G", "M"} /\ s.shared \in BOOLEAN
    BY <1>1, StateFields
  <2> QED BY <1>1, <1>2, <2>1, StateMade
<1>4. /\ t.tracking = s.tracking /\ t.shared = s.shared
      /\ t.mon = s.mon /\ t.heard = s.heard
      /\ t.win = wi /\ t.focus = f /\ DOMAIN wi = W
  BY <1>2
<1>5. Modes(t)
  BY <1>1, <1>4 DEF Modes
<1>6. Memory(t)
  BY <1>1, <1>4 DEF Memory
<1>7. Heard(t)
  BY <1>1, <1>4 DEF Heard, Apart
<1>8. Focused(H, t)
  BY <1>4 DEF Focused
<1>9. Good(H, t)
  BY <1>3, <1>4, <1>5, <1>6, <1>7, <1>8 DEF Good, OnlyShown
<1> QED BY <1>4, <1>9 DEF Safe, BackUnlessMode, BackRight

LEMMA FitsAlike ==
    ASSUME NEW s, NEW t, NEW w, WindowFits(s, w), t.win[w] = s.win[w],
           t.mon = s.mon, t.shared = s.shared
    PROVE  WindowFits(t, w)
  BY DEF WindowFits

LEMMA WithWindowsIs ==
    ASSUME NEW s \in State, NEW wi, NEW f
    PROVE  /\ WithWindows(s, wi, f).mon = s.mon
           /\ WithWindows(s, wi, f).tracking = s.tracking
           /\ WithWindows(s, wi, f).shared = s.shared
           /\ WithWindows(s, wi, f).win = wi
<1>1. s = [tracking |-> s.tracking, shared |-> s.shared, mon |-> s.mon,
           win |-> s.win, focus |-> s.focus, heard |-> s.heard]
  BY DEF State
<1> QED BY <1>1 DEF WithWindows

LEMMA OpenedGood ==
    ASSUME NEW H, NEW s, Good(H, s), NEW w \in Windows, w \notin DOMAIN s.win,
           NEW m \in Monitors, NEW d \in Desks,
           s.shared => \A n \in Monitors \ {m} : s.mon[n].desk # d,
           NEW wi \in [DOMAIN s.win \cup {w} -> WindowRec],
           \A x \in DOMAIN s.win : wi[x] = s.win[x],
           wi[w].desk = d, wi[w].m = m, ~wi[w].sticky,
           wi[w].up <=> s.mon[m].desk = d, wi[w].left = NoDesk,
           NEW f, f = s.focus \/ (f = w /\ wi[w].up),
           NEW t, t = WithWindows(s, wi, f)
    PROVE  Safe(H, s, t)
<1> DEFINE W == DOMAIN s.win \cup {w}
<1>1. s \in State /\ OnlyShown(s) /\ Focused(H, s)
  BY DEF Good
<1>2. W \in SUBSET Windows
  BY <1>1, StateFields
<1>3. \A x \in W : \/ x \in DOMAIN s.win /\ wi[x] = s.win[x]
                   \/ wi[x].left = NoDesk
  OBVIOUS
<1>4. t.shared = s.shared /\ t.mon = s.mon /\ t.win = wi
  BY <1>1, WithWindowsIs
<1>5. ASSUME NEW x \in W PROVE WindowFits(t, x)
  <2>1. CASE x = w
    <3>1. t.win[x] = wi[w] /\ t.mon[m].desk = s.mon[m].desk
      BY <1>4, <2>1
    <3>2. t.shared => \A n \in Monitors : t.mon[n].desk = d => n = m
      BY <1>4
    <3>3. t.win[x].up <=> t.mon[m].desk = d
      BY <3>1
    <3>4. t.win[x].desk = d /\ t.win[x].m = m /\ ~t.win[x].sticky
      BY <3>1
    <3> QED BY <3>2, <3>3, <3>4 DEF WindowFits
  <2>2. CASE x # w
    <3>1. x \in DOMAIN s.win
      BY <2>2
    <3>2. WindowFits(s, x) /\ t.win[x] = s.win[x]
      BY <1>1, <1>4, <3>1 DEF OnlyShown
    <3> QED BY <1>4, <3>2, FitsAlike
  <2> QED BY <2>1, <2>2
<1>6. f = NoWindow \/ (f \in W /\ (wi[f].up \/ f \in H))
  <2>1. CASE f = s.focus
    BY <1>1, <2>1 DEF Focused
  <2>2. CASE f = w /\ wi[w].up
    BY <2>2
  <2> QED BY <2>1, <2>2
<1> QED BY <1>2, <1>3, <1>5, <1>6, WithWindowsGood

LEMMA ClosedGood ==
    ASSUME NEW H, NEW s, Good(H, s), NEW w \in DOMAIN s.win,
           NEW heir,
           heir # NoWindow =>
              /\ heir \in DOMAIN s.win \ {w}
              /\ s.win[heir].up \/ heir \in H,
           NEW W, W = DOMAIN s.win \ {w},
           NEW wi, DOMAIN wi = W, wi \in [W -> WindowRec],
           \A x \in W : wi[x] = s.win[x],
           NEW f, f = heir \/ (f = s.focus /\ f # w)
    PROVE  Safe(H, s, WithWindows(s, wi, f))
<1> DEFINE t == WithWindows(s, wi, f)
<1>1. s \in State /\ OnlyShown(s) /\ Focused(H, s)
  BY DEF Good
<1>2. W \in SUBSET Windows
  BY <1>1, StateFields
<1>3. \A x \in W : \/ x \in DOMAIN s.win /\ wi[x] = s.win[x]
                   \/ wi[x].left = NoDesk
  OBVIOUS
<1>4. t.shared = s.shared /\ t.mon = s.mon /\ t.win = wi
  BY <1>1, WithWindowsIs
<1> HIDE DEF t
<1>5. ASSUME NEW x \in W PROVE WindowFits(t, x)
  <2>1. WindowFits(s, x) /\ t.win[x] = s.win[x]
    BY <1>1, <1>4 DEF OnlyShown
  <2> QED BY <1>4, <2>1, FitsAlike
<1>6. f = NoWindow \/ (f \in W /\ (wi[f].up \/ f \in H))
  <2>2. CASE f = heir
    BY <2>2
  <2>3. CASE f = s.focus /\ f # w
    BY <1>1, <2>3 DEF Focused
  <2> QED BY <2>2, <2>3
<1>7. t = WithWindows(s, wi, f)
  BY DEF t
<1>8. Safe(H, s, t)
  BY <1>2, <1>3, <1>5, <1>6, <1>7, WithWindowsGood
<1> QED BY <1>8 DEF t

(* Focus: goto_desk maps the window, then the viewport may move. *)
LEMMA WindowComes ==
    ASSUME NEW H, NEW s, Good(H, s), NEW w \in DOMAIN s.win,
           NEW m, m = s.win[w].m,
           s.win[w].desk # s.mon[m].desk => ~s.win[w].sticky,
           NEW list \in Lists,
           NEW t, t = Switched(s, list, m, s.win[w].desk, FALSE)
    PROVE  Good(H, t) /\ w \in DOMAIN t.win /\ t.win[w].up
<1> DEFINE d == s.win[w].desk
<1>1. /\ s \in State /\ s.win[w] \in WindowRec /\ WindowFits(s, w) /\ Modes(s)
      /\ m \in Monitors /\ d \in Desks /\ FALSE \in BOOLEAN
  BY StateFields DEF Good, OnlyShown, WindowRec
<1>2. s.shared => \A n \in Monitors \ {m} : s.mon[n].desk # d
  <2>1. CASE d = s.mon[m].desk
    BY <1>1, <2>1, OneShows
  <2>2. CASE d # s.mon[m].desk
    BY <1>1, <2>2 DEF WindowFits
  <2> QED BY <2>1, <2>2
<1>3. Arrived(H, s, m, d, s.mon[m].page, t)
  BY <1>1, <1>2, SwitchedOrNot
<1>4. Good(H, t) /\ DOMAIN t.win = DOMAIN s.win /\ t.mon[m].desk = d
  BY <1>3 DEF Arrived
<1>5. CASE d = s.mon[m].desk
  <2>1. t = s
    BY <1>5 DEF Switched
  <2> QED BY <1>1, <1>4, <1>5, <2>1 DEF WindowFits
<1>6. CASE d # s.mon[m].desk
  <2>1. IsSwitched(s, m, d, FALSE, Switched(s, list, m, d, FALSE))
    BY <1>1, <1>6, SwitchedFields, Zenon
  <2>2. IsSwitched(s, m, d, FALSE, t)
    BY <2>1
  <2>3. WindowSwitched(s, m, d, FALSE, w, t.win[w])
    BY <2>2 DEF IsSwitched
  <2>4. Appears(s, m, d, w)
    BY DEF Appears, Looks
  <2>5. t.win[w].up
    BY <1>6, <2>3, <2>4 DEF WindowSwitched
  <2> QED BY <1>4, <2>5
<1> QED BY <1>5, <1>6

-----------------------------------------------------------------------------
(* The actions: each leads to a state that is Good *)

LEMMA NowIs ==
    /\ Now.tracking = tracking /\ Now.shared = shared /\ Now.mon = mon
    /\ Now.win = win /\ Now.focus = focus /\ Now.heard = heard
  BY DEF Now

GoodStep(H) == \E t : Becomes(t) /\ Good(H, t)

SafeStep(H) == \E t : Becomes(t) /\ Safe(H, Now, t)

LEMMA ConfigureSafe ==
    ASSUME NEW H, Good(H, Now), NEW m \in Monitors,
           NEW to \in {"global", "per-monitor", "shared"}, Configure(m, to)
    PROVE  SafeStep(H)
<1>1. PICK list \in Lists : Becomes(Configured(Now, list, m, to))
  BY DEF Configure
<1>2. /\ to = "shared" /\ ~Now.shared =>
             DOMAIN Now.win = {} /\ Now.mon[1].desk + N - 1 <= LastDesk
      /\ to = "global" /\ Now.shared => DOMAIN Now.win = {} \/ N <= 2
  BY NowIs DEF Configure, Managed
<1> DEFINE t == Configured(Now, list, m, to)
<1>3. Good(H, t) /\ BackUnlessMode(Now, t)
  BY <1>2, ConfiguredGood
<1> HIDE DEF t
<1>4. Safe(H, Now, t)
  BY <1>3 DEF Safe
<1> QED BY <1>1, <1>4 DEF t, SafeStep

LEMMA GotoDeskSafe ==
    ASSUME NEW H, Good(H, Now), NEW m \in Monitors, NEW d \in Desks,
           GotoDesk(m, d)
    PROVE  SafeStep(H)
<1>1. PICK list \in Lists : Becomes(WentToDesk(Now, list, m, d))
  BY DEF GotoDesk
<1> DEFINE t == WentToDesk(Now, list, m, d)
<1>2. Arrived(H, Now, m, d, Now.mon[m].page, t)
  BY GoodIsBlank, WentToDeskGood
<1> HIDE DEF t
<1>3. Safe(H, Now, t)
  BY <1>2, ArrivedSafe
<1> QED BY <1>1, <1>3 DEF t, SafeStep

LEMMA GotoDeskAndPageSafe ==
    ASSUME NEW H, Good(H, Now), NEW m \in Monitors, NEW d \in Desks,
           NEW p \in Pages,
           GotoDeskAndPage(m, d, p)
    PROVE  SafeStep(H)
<1>1. PICK list \in Lists : Becomes(WentToDeskAndPage(Now, list, m, d, p))
  BY DEF GotoDeskAndPage
<1> DEFINE t == WentToDeskAndPage(Now, list, m, d, p)
<1>2. Arrived(H, Now, m, d, p, t)
  BY WentToDeskAndPageGood
<1> HIDE DEF t
<1>3. Safe(H, Now, t)
  BY <1>2, ArrivedSafe
<1> QED BY <1>1, <1>3 DEF t, SafeStep

LEMMA GotoPageSafe ==
    ASSUME NEW H, Good(H, Now), NEW m \in Monitors, NEW p \in Pages,
           GotoPage(m, p)
    PROVE  SafeStep(H)
<1> DEFINE t == ViewportMoved(Now, m, p)
<1>1. Becomes(t)
  BY DEF GotoPage
<1>2. Arrived(H, Now, m, Now.mon[m].desk, p, t)
  BY ViewportMovedGood
<1> HIDE DEF t
<1>3. Safe(H, Now, t)
  BY <1>2, ArrivedSafe
<1> QED BY <1>1, <1>3 DEF SafeStep

LEMMA FreeIs ==
    ASSUME Upsets = {}, NEW m, NEW d, Free(m, d)
    PROVE  Now.shared => \A n \in Monitors \ {m} : Now.mon[n].desk # d
  BY NowIs DEF Free

LEMMA EwmhCurrentDesktopSafe ==
    ASSUME NEW H, Upsets = {}, Good(H, Now), NEW m \in Monitors,
           NEW d \in Desks,
           EwmhCurrentDesktop(m, d)
    PROVE  SafeStep(H)
<1>1. PICK list \in Lists : Becomes(Switched(Now, list, m, d, FALSE))
  BY DEF EwmhCurrentDesktop
<1>2. Now.shared => \A n \in Monitors \ {m} : Now.mon[n].desk # d
  BY FreeIs DEF EwmhCurrentDesktop
<1> DEFINE t == Switched(Now, list, m, d, FALSE)
<1>3. Arrived(H, Now, m, d, Now.mon[m].page, t)
  BY <1>2, SwitchedOrNot, Zenon
<1> HIDE DEF t
<1>4. Safe(H, Now, t)
  BY <1>3, ArrivedSafe
<1> QED BY <1>1, <1>4 DEF t, SafeStep

LEMMA MoveToDeskSafe ==
    ASSUME NEW H, Upsets = {}, Good(H, Now), NEW w \in Managed, NEW d \in Desks,
           MoveToDesk(w, d)
    PROVE  SafeStep(H)
<1>1. /\ w \in DOMAIN Now.win /\ Now.win[w].left = NoDesk
      /\ ~Now.win[w].sticky /\ d # Now.win[w].desk
  BY NowIs DEF MoveToDesk, Settled, Pinned, Managed
<1>2. CASE shared /\ ShownBy(d) # {}
  <2>1. PICK m \in ShownBy(d) : Becomes(MovedToMonitor(Now, w, m))
    BY <1>2 DEF MoveToDesk
  <2>2. m \in Monitors /\ Now.win[w].up
    BY <1>2, <2>1, NowIs DEF MoveToDesk, Visible, ShownBy
  <2> DEFINE t == MovedToMonitor(Now, w, m)
  <2>3. Kept(H, Now, t)
    BY <1>1, <2>2, MovedToMonitorGood
  <2> HIDE DEF t
  <2>4. Safe(H, Now, t)
    BY <2>3, KeptSafe
  <2> QED BY <2>1, <2>4 DEF t, SafeStep
<1>3. CASE ~(shared /\ ShownBy(d) # {})
  <2> DEFINE t == MovedToDesk(Now, w, d)
  <2>1. Becomes(t)
    BY <1>3 DEF MoveToDesk
  <2>2. Now.shared =>
           \A n \in Monitors : Now.mon[n].desk = d => n = Now.win[w].m
    BY <1>3, NowIs DEF ShownBy
  <2>3. Kept(H, Now, t)
    BY <1>1, <2>2, MovedToDeskGood
  <2> HIDE DEF t
  <2>4. Safe(H, Now, t)
    BY <2>3, KeptSafe
  <2> QED BY <2>1, <2>4 DEF SafeStep
<1> QED BY <1>2, <1>3

LEMMA EwmhWMDesktopSafe ==
    ASSUME NEW H, Upsets = {}, Good(H, Now), NEW w \in Managed, NEW d \in Desks,
           EwmhWMDesktop(w, d)
    PROVE  SafeStep(H)
<1> DEFINE s == IF win[w].sticky THEN Stuck(Now, w) ELSE Now
           t == IF s.win[w].desk = d THEN s ELSE MovedToDesk(s, w, d)
<1>1. /\ w \in DOMAIN Now.win /\ Now.win[w].left = NoDesk
      /\ Now.win[w].sticky = win[w].sticky
  BY NowIs DEF EwmhWMDesktop, Settled, Managed
<1>2. Now.shared =>
         \A n \in Monitors : Now.mon[n].desk = d => n = Now.win[w].m
  <2>1. Free(Now.win[w].m, d)
    BY NowIs DEF EwmhWMDesktop
  <2> QED BY <2>1, FreeIs
<1>3. /\ Kept(H, Now, s) /\ w \in DOMAIN s.win /\ ~s.win[w].sticky
      /\ s.win[w].left = NoDesk /\ s.win[w].m = Now.win[w].m
  <2>1. CASE win[w].sticky
    <3>1. s = Stuck(Now, w)
      BY <2>1
    <3> HIDE DEF s
    <3> QED BY <1>1, <2>1, <3>1, StuckGood
  <2>2. CASE ~win[w].sticky
    <3>1. s = Now
      BY <2>2
    <3> QED BY <1>1, <2>2, <3>1 DEF Kept
  <2> QED BY <2>1, <2>2
<1>4. Becomes(t)
  BY DEF EwmhWMDesktop
<1> HIDE DEF s
<1>5. Kept(H, Now, t)
  <2>1. CASE s.win[w].desk = d
    BY <1>3, <2>1
  <2>2. CASE s.win[w].desk # d
    <3>1. /\ Good(H, s) /\ s.shared = Now.shared /\ s.mon = Now.mon
          /\ s.tracking = Now.tracking
      BY <1>3 DEF Kept
    <3>2. s.shared => \A n \in Monitors : s.mon[n].desk = d => n = s.win[w].m
      BY <1>2, <1>3, <3>1
    <3>3. t = MovedToDesk(s, w, d)
      BY <2>2
    <3> HIDE DEF t
    <3>4. Kept(H, s, t)
      BY <1>3, <2>2, <3>1, <3>2, <3>3, MovedToDeskGood
    <3> QED BY <3>1, <3>4 DEF Kept
  <2> QED BY <2>1, <2>2
<1> HIDE DEF t
<1>6. Safe(H, Now, t)
  BY <1>5, KeptSafe
<1> QED BY <1>4, <1>6 DEF SafeStep

LEMMA MoveSafe ==
    ASSUME NEW H, Upsets = {}, Good(H, Now), NEW w \in Managed,
           NEW m \in Monitors,
           Move(w, m)
    PROVE  SafeStep(H)
<1> DEFINE t == MovedToMonitor(Now, w, m)
<1>1. Becomes(t) /\ w \in DOMAIN Now.win /\ Now.win[w].up
  BY NowIs DEF Move, Visible, Managed
<1>2. Kept(H, Now, t)
  BY <1>1, MovedToMonitorGood
<1> HIDE DEF t
<1>3. Safe(H, Now, t)
  BY <1>2, KeptSafe
<1> QED BY <1>1, <1>3 DEF SafeStep

LEMMA MoveToScreenSafe ==
    ASSUME NEW H, Upsets = {}, Good(H, Now), NEW w \in Managed,
           NEW m \in Monitors,
           MoveToScreen(w, m)
    PROVE  SafeStep(H)
<1> DEFINE t == MovedToScreen(Now, w, m)
<1>1. /\ Becomes(t) /\ w \in DOMAIN Now.win /\ Now.win[w].left = NoDesk
      /\ Now.win[w].desk = Now.mon[m].desk => Now.win[w].up
  BY NowIs DEF MoveToScreen, Settled, Visible, Managed
<1>2. Kept(H, Now, t)
  BY <1>1, MovedToScreenGood
<1> HIDE DEF t
<1>3. Safe(H, Now, t)
  BY <1>2, KeptSafe
<1> QED BY <1>1, <1>3 DEF SafeStep

LEMMA StickAcrossDesksSafe ==
    ASSUME NEW H, Upsets = {}, Good(H, Now), NEW w \in Managed,
           StickAcrossDesks(w)
    PROVE  SafeStep(H)
<1> DEFINE t == Stuck(Now, w)
<1>1. Becomes(t) /\ w \in DOMAIN Now.win /\ Now.win[w].left = NoDesk
  BY NowIs DEF StickAcrossDesks, Settled, Managed
<1>2. Kept(H, Now, t)
  BY <1>1, StuckGood
<1> HIDE DEF t
<1>3. Safe(H, Now, t)
  BY <1>2, KeptSafe
<1> QED BY <1>1, <1>3 DEF SafeStep

LEMMA FocusStep ==
    ASSUME NEW H, Upsets = {}, Good(H, Now), NEW w \in Managed, Focus(w)
    PROVE  GoodStep(H)
<1> DEFINE m == Now.win[w].m
           d == Now.win[w].desk
<1>1. /\ w \in DOMAIN Now.win
      /\ d # Now.mon[m].desk => ~Now.win[w].sticky
  BY NowIs DEF Focus, Pinned, Managed
<1>2. PICK list \in Lists, p \in Pages :
        LET s == Switched(Now, list, m, d, FALSE)
            t == IF p = s.mon[m].page THEN s ELSE ViewportMoved(s, m, p)
        IN  Becomes([t EXCEPT !.focus = w])
  BY NowIs DEF Focus
<1> DEFINE s == Switched(Now, list, m, d, FALSE)
           t == IF p = s.mon[m].page THEN s ELSE ViewportMoved(s, m, p)
           u == [t EXCEPT !.focus = w]
<1>3. Good(H, s) /\ w \in DOMAIN s.win /\ s.win[w].up
  BY <1>1, WindowComes
<1>4. Becomes(u)
  BY <1>2
<1>5. m \in Monitors
  BY <1>1, StateFields DEF Good, WindowRec
<1> HIDE DEF s, m
<1>6. Good(H, t) /\ w \in DOMAIN t.win /\ t.win[w].up
  <2>1. CASE t = s
    BY <1>3, <2>1
  <2>2. CASE t = ViewportMoved(s, m, p)
    <3> HIDE DEF t
    <3>1. Arrived(H, s, m, s.mon[m].desk, p, t)
      BY <1>3, <1>5, <2>2, ViewportMovedGood
    <3>2. t.win = s.win
      BY <1>3, <1>5, <2>2, ViewportMovedFields DEF Good
    <3> QED BY <1>3, <3>1, <3>2 DEF Arrived
  <2> QED BY <2>1, <2>2
<1> HIDE DEF t
<1>7. Good(H, u)
  BY <1>6, FocusGood
<1> HIDE DEF u
<1> QED BY <1>4, <1>7 DEF GoodStep

LEMMA OpenSafe ==
    ASSUME NEW H, Upsets = {}, Good(H, Now), NEW w \in Windows,
           NEW m \in Monitors,
           NEW d \in Desks, NEW show \in BOOLEAN, Open(w, m, d, show)
    PROVE  SafeStep(H)
<1>1. PICK list \in Lists, grabs \in BOOLEAN :
        LET s == IF shared \/ ~show THEN Now
                 ELSE Switched(Now, list, m, d, FALSE)
            up == s.mon[m].desk = d
            new == [desk |-> d, m |-> m, sticky |-> FALSE, up |-> up,
                    left |-> NoDesk]
        IN  Becomes([s EXCEPT
                !.win = [x \in DOMAIN s.win \cup {w} |->
                             IF x = w THEN new ELSE s.win[x]],
                !.focus = IF grabs /\ up THEN w ELSE @])
  BY DEF Open
<1> DEFINE s == IF shared \/ ~show THEN Now
                ELSE Switched(Now, list, m, d, FALSE)
           up == s.mon[m].desk = d
           new == [desk |-> d, m |-> m, sticky |-> FALSE, up |-> up,
                   left |-> NoDesk]
           wi == [x \in DOMAIN s.win \cup {w} |->
                      IF x = w THEN new ELSE s.win[x]]
           f == IF grabs /\ up THEN w ELSE s.focus
           t == WithWindows(s, wi, f)
<1>2. w \notin DOMAIN Now.win
  BY NowIs DEF Open, Managed
<1>3. Now.shared => \A n \in Monitors \ {m} : Now.mon[n].desk # d
  BY FreeIs DEF Open
<1>4. Becomes(t)
  BY <1>1, Zenon DEF WithWindows
<1>5. Safe(H, Now, s) /\ s.shared = Now.shared /\ DOMAIN s.win = DOMAIN Now.win
      /\ (s.shared => s = Now)
  <2>1. CASE shared \/ ~show
    <3>1. s = Now
      BY <2>1
    <3> QED BY <3>1 DEF Safe, BackUnlessMode, BackRight
  <2>2. CASE ~(shared \/ ~show)
    <3>1. s = Switched(Now, list, m, d, FALSE)
      BY <2>2
    <3> HIDE DEF s
    <3>2. Arrived(H, Now, m, d, Now.mon[m].page, s)
      BY <1>3, <3>1, SwitchedOrNot
    <3>3. ~Now.shared
      BY <2>2, NowIs
    <3>4. s.shared = Now.shared /\ DOMAIN s.win = DOMAIN Now.win
      BY <3>2 DEF Arrived
    <3>5. Safe(H, Now, s)
      BY <3>2, ArrivedSafe
    <3> QED BY <3>3, <3>4, <3>5, Zenon
  <2> QED BY <2>1, <2>2
<1> HIDE DEF s
<1>6. s \in State /\ Good(H, s)
  BY <1>5 DEF Safe, Good
<1>7. up \in BOOLEAN
  OBVIOUS
<1>8. up = (s.mon[m].desk = d)
  OBVIOUS
<1>9. f = s.focus \/ (f = w /\ up)
  OBVIOUS
<1> HIDE DEF up, f
<1>10. /\ new \in WindowRec /\ new.desk = d /\ new.m = m /\ ~new.sticky
       /\ new.up = up /\ new.left = NoDesk
  BY <1>7 DEF WindowRec
<1> HIDE DEF new
<1>11. /\ DOMAIN wi = DOMAIN s.win \cup {w}
       /\ wi \in [DOMAIN s.win \cup {w} -> WindowRec] /\ wi[w] = new
       /\ \A x \in DOMAIN s.win : wi[x] = s.win[x]
  <2>1. \A x \in DOMAIN s.win : s.win[x] \in WindowRec
    BY <1>6, StateFields
  <2>2. w \notin DOMAIN s.win
    BY <1>2, <1>5
  <2> QED BY <1>10, <2>1, <2>2
<1> HIDE DEF wi
<1>12. Safe(H, s, t)
  <2>1. s.shared => \A n \in Monitors \ {m} : s.mon[n].desk # d
    BY <1>3, <1>5
  <2>2. w \notin DOMAIN s.win
    BY <1>2, <1>5
  <2>3. /\ wi[w].desk = d /\ wi[w].m = m /\ ~wi[w].sticky /\ wi[w].up = up
        /\ wi[w].left = NoDesk
    BY <1>10, <1>11
  <2>4. (wi[w].up <=> s.mon[m].desk = d) /\ (f = s.focus \/ (f = w /\ wi[w].up))
    BY <1>8, <1>9, <2>3
  <2>5. t = WithWindows(s, wi, f)
    OBVIOUS
  <2> HIDE DEF t
  <2> QED BY <1>6, <1>11, <2>1, <2>2, <2>3, <2>4, <2>5, OpenedGood
<1>13. t.mon = s.mon /\ t.tracking = s.tracking /\ t.shared = s.shared
  BY <1>6, WithWindowsIs
<1> HIDE DEF t
<1>14. Safe(H, Now, t)
  <2>1. Good(H, t)
    BY <1>12 DEF Safe
  <2>2. BackUnlessMode(Now, t)
    BY <1>5, <1>13 DEF Safe, BackUnlessMode, BackRight
  <2> QED BY <2>1, <2>2 DEF Safe
<1> QED BY <1>4, <1>14 DEF SafeStep

(* Focus NoWarp shows nothing, so the window must be allowed to be hidden. *)
LEMMA FocusNoWarpSafe ==
    ASSUME NEW H, Good(H, Now), NEW w \in Managed, FocusNoWarp(w),
           Windows \subseteq H
    PROVE  SafeStep(H)
<1> DEFINE t == [Now EXCEPT !.focus = w]
<1>1. Becomes(t)
  BY DEF FocusNoWarp
<1>2. Now \in State /\ w \in DOMAIN Now.win /\ w \in H
  BY NowIs, StateFields DEF Good, Managed
<1>3. Good(H, t)
  BY <1>2, FocusGood
<1>4. t.mon = Now.mon
  BY <1>2, FocusFields, StateFields
<1> HIDE DEF t
<1>5. Safe(H, Now, t)
  BY <1>3, <1>4 DEF Safe, BackUnlessMode, BackRight
<1> QED BY <1>1, <1>5 DEF SafeStep

(* The desk of a window that is shown, and not sticky, is shown by one        *)
(* monitor or by all, so that whoever has the same Desk is shown as well.     *)
LEMMA HeirIsUp ==
    ASSUME NEW H, NEW s, Good(H, s), NEW w \in DOMAIN s.win,
           s.tracking # "M", s.win[w].up, ~s.win[w].sticky,
           NEW x \in DOMAIN s.win, s.win[x].desk = s.win[w].desk
    PROVE  s.win[x].up
<1>1. /\ s \in State /\ s.tracking = "G" /\ s.shared \in BOOLEAN
      /\ WindowFits(s, w) /\ WindowFits(s, x) /\ Modes(s)
      /\ s.win[w].m \in Monitors /\ s.win[x].m \in Monitors
  BY StateFields DEF Good, OnlyShown, WindowRec
<1>2. s.mon[s.win[w].m].desk = s.win[x].desk
  BY <1>1 DEF WindowFits
<1>3. CASE s.shared
  BY <1>1, <1>2, <1>3 DEF WindowFits
<1>4. CASE ~s.shared
  <2>1. s.mon[s.win[x].m].desk = s.mon[s.win[w].m].desk
    BY <1>1, <1>4 DEF Modes
  <2> QED BY <1>1, <1>2, <2>1 DEF WindowFits
<1> QED BY <1>3, <1>4

(* A close that may pass the focus on to a hidden window. *)
Strays(w) == tracking = "M" \/ ~win[w].up \/ win[w].sticky

LEMMA CloseSafe ==
    ASSUME NEW H, Good(H, Now), NEW w \in Managed, Close(w),
           Strays(w) => Windows \subseteq H
    PROVE  SafeStep(H)
<1>1. PICK heir \in Heirs(w) \cup {NoWindow} :
        Becomes([Now EXCEPT
            !.win = [x \in Managed \ {w} |-> win[x]],
            !.focus = IF @ = w THEN heir ELSE @])
  BY DEF Close
<1> DEFINE W == DOMAIN Now.win \ {w}
           wi == [x \in W |-> Now.win[x]]
           f == IF Now.focus = w THEN heir ELSE Now.focus
           t == WithWindows(Now, wi, f)
<1>2. Becomes(t)
  <2>1. wi = [x \in Managed \ {w} |-> win[x]]
    BY NowIs, Zenon DEF Managed
  <2>2. Becomes([Now EXCEPT !.win = wi,
                            !.focus = IF @ = w THEN heir ELSE @])
    BY <1>1, <2>1, Zenon
  <2> QED BY <2>2, Zenon DEF WithWindows
<1>3. w \in DOMAIN Now.win
  BY NowIs DEF Managed
<1>4. heir # NoWindow =>
         /\ heir \in DOMAIN Now.win \ {w}
         /\ Now.win[heir].up \/ heir \in H
  <2> SUFFICES ASSUME heir # NoWindow
               PROVE  /\ heir \in DOMAIN Now.win \ {w}
                      /\ Now.win[heir].up \/ heir \in H
    OBVIOUS
  <2>1. heir \in DOMAIN Now.win \ {w} /\ Now.win[heir].desk = Now.win[w].desk
    BY <1>1, NowIs DEF Heirs, Managed
  <2>2. CASE Strays(w)
    BY <2>1, <2>2, StateFields DEF Good
  <2>3. CASE ~Strays(w)
    BY <1>3, <2>1, <2>3, NowIs, HeirIsUp DEF Strays
  <2> QED BY <2>1, <2>2, <2>3
<1>5. f = heir \/ (f = Now.focus /\ f # w)
  OBVIOUS
<1>6. /\ DOMAIN wi = W /\ wi \in [W -> WindowRec]
      /\ \A x \in W : wi[x] = Now.win[x]
  BY StateFields DEF Good
<1> HIDE DEF wi, f
<1>7. Safe(H, Now, t)
  BY <1>3, <1>4, <1>5, <1>6, ClosedGood
<1> HIDE DEF t
<1> QED BY <1>2, <1>7 DEF SafeStep

(* Any window may have the focus: Focus NoWarp gives it to hidden ones. *)
Inv == Good(Windows, Now)

LEMMA InitGood == Init => Inv
<1> SUFFICES ASSUME Init PROVE Good(Windows, Now)
  BY DEF Inv
<1>1. PICK p \in Pages :
        mon = [m \in Monitors |-> [desk |-> 0, page |-> p, back |-> <<0, p>>]]
  BY DEF Init
<1>2. 0 \in Desks
  BY DesksAssumption DEF Desks
<1>3. /\ mon \in [Monitors -> MonitorRec]
      /\ \A m \in Monitors : mon[m].desk = 0 /\ mon[m].page = p
  <2>1. [desk |-> 0, page |-> p, back |-> <<0, p>>] \in MonitorRec
    BY <1>2 DEF MonitorRec
  <2> QED BY <1>1, <2>1
<1>4. /\ tracking = "G" /\ ~shared /\ shared \in BOOLEAN /\ focus = NoWindow
      /\ heard \in [Pagers -> [Monitors -> Desks]]
      /\ \A q \in Pagers, m \in Monitors : heard[q][m] = 0
      /\ DOMAIN win = {} /\ win \in [{} -> WindowRec]
  BY <1>2 DEF Init
<1>5. Now \in State
  <2>1. /\ tracking \in {"G", "M"} /\ {} \in SUBSET Windows
        /\ focus \in Windows \cup {NoWindow}
    BY <1>4
  <2> QED BY <1>3, <1>4, <2>1, StateMade DEF Now
<1>6. /\ Now.tracking = "G" /\ ~Now.shared /\ Now.mon = mon /\ Now.heard = heard
      /\ DOMAIN Now.win = {} /\ Now.focus = NoWindow
  BY <1>4, NowIs
<1>7. OnlyShown(Now)
  BY <1>6 DEF OnlyShown
<1>8. Modes(Now)
  BY <1>3, <1>6 DEF Modes
<1>9. Memory(Now) /\ Focused(Windows, Now)
  BY <1>6 DEF Memory, Focused
<1>10. Heard(Now)
  BY <1>3, <1>4, <1>6 DEF Heard
<1> QED BY <1>5, <1>7, <1>8, <1>9, <1>10 DEF Good

(* The next state is the one that the operators have made. *)
LEMMA NextIs ==
    ASSUME NEW t \in State, Becomes(t)
    PROVE  Now' = t
<1>1. Now' = [tracking |-> t.tracking, shared |-> t.shared, mon |-> t.mon,
              win |-> t.win, focus |-> t.focus, heard |-> t.heard]
  BY DEF Becomes, Now
<1> QED BY <1>1 DEF State

(* The window that has the focus, if it is hidden. *)
Hidden == {w \in Managed : focus = w /\ ~win[w].up}

LEMMA HiddenIs ==
    ASSUME Inv
    PROVE  Good(Hidden, Now)
  BY NowIs DEF Inv, Good, Focused, Hidden, Managed

FocusIn(H) == focus' # NoWindow =>
    /\ focus' \in DOMAIN win'
    /\ win'[focus'].up \/ focus' \in H

LEMMA GoodNext ==
    ASSUME NEW H, GoodStep(H)
    PROVE  Inv' /\ FocusIn(H)
<1>1. PICK t : Becomes(t) /\ Good(H, t)
  BY DEF GoodStep
<1>2. t \in State
  BY <1>1 DEF Good
<1>3. Now' = t
  BY <1>1, <1>2, NextIs
<1>4. Good(Windows, t)
  <2>1. t.focus \in Windows \cup {NoWindow}
    BY <1>2, StateFields
  <2> QED BY <1>1, <2>1 DEF Good, Focused
<1>5. focus' = t.focus /\ win' = t.win
  BY <1>1 DEF Becomes
<1>6. FocusIn(H)
  BY <1>1, <1>5 DEF Good, Focused, FocusIn
<1> QED BY <1>3, <1>4, <1>6 DEF Inv

FocusNext == LET f == focus' IN f # NoWindow =>
    /\ f \in DOMAIN win'
    /\ \/ win'[f].up
       \/ f = focus /\ ~win[f].up
       \/ \E w \in Managed :
              \/ FocusNoWarp(w)
              \/ Close(w) /\ (tracking = "M" \/ ~win[w].up \/ win[w].sticky)

LEMMA FocusInHidden ==
    ASSUME FocusIn(Hidden)
    PROVE  FocusNext
  BY DEF FocusIn, Hidden, FocusNext

BackNext ==
    \/ tracking' # tracking
    \/ shared' # shared
    \/ \E w \in Managed : Focus(w)
    \/ \A m \in Monitors :
           \/ mon'[m].desk = mon[m].desk /\ mon'[m].page = mon[m].page
           \/ mon'[m].back = <<mon[m].desk, mon[m].page>>

LEMMA SafeNext ==
    ASSUME NEW H, SafeStep(H)
    PROVE  Inv' /\ FocusIn(H) /\ BackNext
<1>1. PICK t : Becomes(t) /\ Safe(H, Now, t)
  BY DEF SafeStep
<1>2. Good(H, t) /\ BackUnlessMode(Now, t)
  BY <1>1 DEF Safe
<1>3. Inv' /\ FocusIn(H)
  BY <1>1, <1>2, GoodNext DEF GoodStep
<1>4. tracking' = t.tracking /\ shared' = t.shared /\ mon' = t.mon
  BY <1>1 DEF Becomes
<1>5. BackNext
  BY <1>2, <1>4, NowIs DEF BackUnlessMode, BackRight, BackNext
<1> QED BY <1>3, <1>5

LEMMA SafeFromHidden ==
    ASSUME SafeStep(Hidden)
    PROVE  Inv' /\ FocusNext /\ BackNext
  BY SafeNext, FocusInHidden

LEMMA NextGood ==
    ASSUME Upsets = {}
    PROVE  Inv /\ [Next]_vars
             => Inv' /\ ((FocusNext /\ BackNext) \/ UNCHANGED vars)
<1> SUFFICES ASSUME Inv, [Next]_vars
             PROVE  Inv' /\ ((FocusNext /\ BackNext) \/ UNCHANGED vars)
  OBVIOUS
<1>0. Good(Hidden, Now) /\ Good(Windows, Now)
  BY HiddenIs DEF Inv
<1>1. CASE Configures
  BY <1>0, <1>1, ConfigureSafe, SafeFromHidden DEF Configures
<1>2. CASE Switches
  <2>1. PICK m \in Monitors :
          \/ \E d \in Desks : GotoDesk(m, d) \/ EwmhCurrentDesktop(m, d)
          \/ \E d \in Desks, p \in Pages : GotoDeskAndPage(m, d, p)
          \/ \E p \in Pages : GotoPage(m, p)
    BY <1>2 DEF Switches
  <2>2. CASE \E d \in Desks : GotoDesk(m, d)
    BY <1>0, <2>2, GotoDeskSafe, SafeFromHidden
  <2>3. CASE \E d \in Desks : EwmhCurrentDesktop(m, d)
    BY <1>0, <2>3, EwmhCurrentDesktopSafe, SafeFromHidden
  <2>4. CASE \E d \in Desks, p \in Pages : GotoDeskAndPage(m, d, p)
    BY <1>0, <2>4, GotoDeskAndPageSafe, SafeFromHidden
  <2>5. CASE \E p \in Pages : GotoPage(m, p)
    BY <1>0, <2>5, GotoPageSafe, SafeFromHidden
  <2> QED BY <2>1, <2>2, <2>3, <2>4, <2>5
<1>3. CASE Comes
  BY <1>0, <1>3, OpenSafe, SafeFromHidden DEF Comes
<1>4. CASE Acts
  <2>1. PICK w \in Managed :
          \/ \E d \in Desks : MoveToDesk(w, d) \/ EwmhWMDesktop(w, d)
          \/ \E m \in Monitors : Move(w, m) \/ MoveToScreen(w, m)
          \/ StickAcrossDesks(w)
          \/ Focus(w)
          \/ FocusNoWarp(w)
          \/ Close(w)
    BY <1>4 DEF Acts
  <2>2. CASE \E d \in Desks : MoveToDesk(w, d)
    BY <1>0, <2>2, MoveToDeskSafe, SafeFromHidden
  <2>3. CASE \E d \in Desks : EwmhWMDesktop(w, d)
    BY <1>0, <2>3, EwmhWMDesktopSafe, SafeFromHidden
  <2>4. CASE \E m \in Monitors : Move(w, m)
    BY <1>0, <2>4, MoveSafe, SafeFromHidden
  <2>5. CASE \E m \in Monitors : MoveToScreen(w, m)
    BY <1>0, <2>5, MoveToScreenSafe, SafeFromHidden
  <2>6. CASE StickAcrossDesks(w)
    BY <1>0, <2>6, StickAcrossDesksSafe, SafeFromHidden
  <2>7. CASE Focus(w)
    <3>1. Inv' /\ FocusNext
      BY <1>0, <2>7, FocusStep, GoodNext, FocusInHidden
    <3>2. BackNext
      BY <2>7 DEF BackNext
    <3> QED BY <3>1, <3>2
  <2>8. CASE FocusNoWarp(w)
    <3>1. Inv' /\ FocusIn(Windows) /\ BackNext
      BY <1>0, <2>8, FocusNoWarpSafe, SafeNext
    <3>2. FocusNext
      BY <2>8, <3>1 DEF FocusIn, FocusNext
    <3> QED BY <3>1, <3>2
  <2>9. CASE Close(w) /\ Strays(w)
    <3>1. Inv' /\ FocusIn(Windows) /\ BackNext
      BY <1>0, <2>9, CloseSafe, SafeNext
    <3>2. FocusNext
      BY <2>9, <3>1 DEF FocusIn, FocusNext, Strays
    <3> QED BY <3>1, <3>2
  <2>10. CASE Close(w) /\ ~Strays(w)
    BY <1>0, <2>10, CloseSafe, SafeFromHidden
  <2> QED BY <2>1, <2>2, <2>3, <2>4, <2>5, <2>6, <2>7, <2>8, <2>9, <2>10
<1>5. CASE UNCHANGED vars
  <2>1. Now' = Now
    BY <1>5 DEF vars, Now
  <2> QED BY <1>5, <2>1 DEF Inv
<1> QED BY <1>1, <1>2, <1>3, <1>4, <1>5 DEF Next

(* All that the operators preserve holds in every state. *)
THEOREM DesksGood ==
    ASSUME Upsets = {}
    PROVE  Spec => []Inv
<1>1. Init => Inv
  BY InitGood
<1>2. Inv /\ [Next]_vars => Inv'
  BY NextGood
<1> QED BY <1>1, <1>2, PTL DEF Spec

(* What UnmapDesk, MapDesk and the moves of windows leave on the screen are *)
(* the windows of the desks on show, and the sticky ones.                   *)
THEOREM ShownDesks ==
    ASSUME Upsets = {}
    PROVE  Spec => []OnlyShownDesks
<1>1. Inv => OnlyShownDesks
  <2> SUFFICES ASSUME Good(Windows, Now), NEW w \in Managed
               PROVE  LET x == win[w] IN
                      /\ x.up <=> x.sticky \/ x.desk = mon[x.m].desk
                      /\ shared /\ ~x.sticky => ShownBy(x.desk) \subseteq {x.m}
    BY DEF Inv, OnlyShownDesks
  <2>1. w \in DOMAIN Now.win
    BY NowIs DEF Managed
  <2>2. WindowFits(Now, w)
    BY <2>1 DEF Good, OnlyShown
  <2> QED BY <2>2, NowIs DEF WindowFits, ShownBy
<1> QED BY <1>1, DesksGood, PTL

(* goto_desk, exchanges and DesktopConfiguration leave every monitor with a *)
(* desk as its mode wants it.                                               *)
THEOREM DesksAreApart ==
    ASSUME Upsets = {}
    PROVE  Spec => []DesksPerMode
<1>1. Inv => DesksPerMode
  BY NowIs DEF Inv, Good, Modes, DesksPerMode
<1> QED BY <1>1, DesksGood, PTL

(* What UnmapDesk remembers and MapDesk restores: no command brings the focus *)
(* to a hidden window or hides the window that has it, but Focus NoWarp and   *)
(* the closing of a window whose Desk need not be on show.                    *)
THEOREM FocusIsShown ==
    ASSUME Upsets = {}
    PROVE  Spec => FocusShown
<1>1. Inv /\ [Next]_vars => [FocusNext]_vars
  BY NextGood
<1> QED BY <1>1, DesksGood, PTL DEF Spec, FocusShown, FocusNext

(* M_NEW_DESK and M_NEW_PAGE keep a FvwmPager right about every monitor, if   *)
(* it shows all of them or the desks are not global.                          *)
THEOREM PagerIsRight ==
    ASSUME Upsets = {}
    PROVE  Spec => []PagerKnows
<1>1. Inv => PagerKnows
  BY NowIs DEF Inv, Good, Heard, PagerKnows, Apart
<1> QED BY <1>1, DesksGood, PTL

(* GotoDeskAndPage prev: no command but Focus leaves a monitor with a memory *)
(* of anything else than what it has shown last.                             *)
THEOREM PrevGoesBack ==
    ASSUME Upsets = {}
    PROVE  Spec => BackIsLast
<1>1. Inv /\ [Next]_vars => [BackNext]_vars
  BY NextGood
<1> QED BY <1>1, DesksGood, PTL DEF Spec, BackIsLast, BackNext

=============================================================================
