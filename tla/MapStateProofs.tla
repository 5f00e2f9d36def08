--------------------------- MODULE MapStateProofs ---------------------------
(***************************************************************************)
(* Proofs about MapState, for any windows, desks and bounds.               *)
(*                                                                         *)
(* First: whatever the order in which commands, requests and events come,  *)
(* and however many are under way, the frame of an icon or of a window on  *)
(* another desk is not mapped (OnlyThisDesk), and the client window of an  *)
(* icon is not mapped (IconHidden).  Neither is inductive alone.           *)
(* UnmapDesk skips icons, so OnlyThisDesk needs that the frame of an icon  *)
(* is unmapped already; a client of a window that fvwm does not manage     *)
(* maps it freely, so IconHidden needs that only managed windows are       *)
(* icons; and both need that nothing is managed while no fvwm runs.  Their *)
(* conjunction is Sane, for each window, with Managed.                     *)
(*                                                                         *)
(* Second, for clients that wait for an answer before they withdraw or     *)
(* iconify a window, and one command between two rounds of the event loop  *)
(* (Calm): whenever no event about a window waits, client, user, server    *)
(* and fvwm agree about it (MapAgrees, ClientObeyed, OrderObeyed).  The    *)
(* invariant, Settled, says what may wait in the queue of a window: while  *)
(* fvwm runs a window is in one of six scenes, each with the events that   *)
(* lead out of it, and while it does not, in Stored.  The proof has one    *)
(* lemma per scene for the events, and one per command and request.        *)
(***************************************************************************)
EXTENDS MapState, ListLemmas, TLAPS

Fields ==
    {"exists", "up", "frameUp", "capture", "prop", "managed", "mapped",
     "iconified", "iconifyPending", "mapPending", "iconifyAfterMap", "desk",
     "hint", "q", "wants", "order", "asked"}

IsWindow(s) == s = [f \in Fields |-> s[f]]

Sane(s, cur) ==
    /\ s.iconified => s.managed /\ ~s.up /\ ~s.frameUp
    /\ s.frameUp => s.managed /\ s.desk = cur

(* t is s but for what the server shows, and for fields nothing here reads *)
Alike(s, t) ==
    /\ IsWindow(t) /\ t.managed = s.managed /\ t.iconified = s.iconified
    /\ t.desk = s.desk

-----------------------------------------------------------------------------
(* The requests to the server *)

LEMMA TellAlike ==
    ASSUME NEW s, NEW type, IsWindow(s)
    PROVE  /\ Alike(s, Tell(s, type)) /\ Tell(s, type).up = s.up
           /\ Tell(s, type).frameUp = s.frameUp
BY DEF IsWindow, Fields, Alike, Tell

LEMMA PropAlike ==
    ASSUME NEW s, NEW state, IsWindow(s)
    PROVE  LET t == SetMapStateProp(s, state) IN
           Alike(s, t) /\ t.up = s.up /\ t.frameUp = s.frameUp
BY DEF IsWindow, Fields, Alike, SetMapStateProp

LEMMA MapClientAlike ==
    ASSUME NEW s, IsWindow(s)
    PROVE  LET t == MapClient(s) IN Alike(s, t) /\ t.frameUp = s.frameUp
<1> DEFINE u == [s EXCEPT !.up = TRUE]
<1>1. IsWindow(u) /\ Alike(s, u) /\ u.frameUp = s.frameUp
      BY DEF IsWindow, Fields, Alike
<1>2. Alike(u, Tell(u, "MapNotify")) /\ Tell(u, "MapNotify").frameUp = u.frameUp
      BY <1>1, TellAlike
<1>3. MapClient(s) \in {s, u, Tell(u, "MapNotify")}
      BY DEF MapClient
<1> QED BY <1>1, <1>2, <1>3 DEF Alike

LEMMA MapFrameAlike ==
    ASSUME NEW s, IsWindow(s)
    PROVE  LET t == MapFrame(s) IN
           Alike(s, t) /\ t.up = s.up /\ t.frameUp
<1> DEFINE u == [s EXCEPT !.frameUp = TRUE]
           v == Tell(u, "FrameMapNotify")
<1>1. Alike(s, u) /\ u.up = s.up /\ u.frameUp
      BY DEF IsWindow, Fields, Alike
<1>2. Alike(u, v) /\ v.up = u.up /\ v.frameUp = u.frameUp
      BY <1>1, TellAlike DEF Alike
<1>3. (s.frameUp /\ MapFrame(s) = s) \/ MapFrame(s) = u \/ MapFrame(s) = v
      BY DEF MapFrame
<1>4. Alike(s, s)
      BY DEF Alike
<1> QED BY <1>1, <1>2, <1>3, <1>4 DEF Alike

LEMMA UnmapFrameAlike ==
    ASSUME NEW s, IsWindow(s)
    PROVE  LET t == UnmapFrame(s) IN
           Alike(s, t) /\ t.up = s.up /\ ~t.frameUp
<1> DEFINE u == [s EXCEPT !.frameUp = FALSE]
           v == Tell(u, "FrameUnmapNotify")
           x == Tell(v, "FrameUnmapNotify")
<1>1. Alike(s, u) /\ u.up = s.up /\ ~u.frameUp
      BY DEF IsWindow, Fields, Alike
<1>2. Alike(u, v) /\ v.up = u.up /\ v.frameUp = u.frameUp
      BY <1>1, TellAlike DEF Alike
<1>3. Alike(v, x) /\ x.up = v.up /\ x.frameUp = v.frameUp
      BY <1>2, TellAlike DEF Alike
<1>4. \/ ~s.frameUp /\ UnmapFrame(s) = s
      \/ UnmapFrame(s) = v \/ UnmapFrame(s) = x
      BY DEF UnmapFrame
<1>5. Alike(s, s)
      BY DEF Alike
<1> QED BY <1>1, <1>2, <1>3, <1>4, <1>5 DEF Alike

LEMMA ToRootAlike ==
    ASSUME NEW s, IsWindow(s)
    PROVE  LET t == ToRoot(s) IN
           Alike(s, t) /\ t.up = s.up /\ t.frameUp = s.frameUp
<1> DEFINE u == Tell(s, "UnmapNotify")
           v == Tell(u, "MapNotify")
<1>1. Alike(s, u) /\ u.up = s.up /\ u.frameUp = s.frameUp
      BY TellAlike
<1>2. Alike(u, v) /\ v.up = u.up /\ v.frameUp = u.frameUp
      BY <1>1, TellAlike DEF Alike
<1>3. ToRoot(s) = s \/ ToRoot(s) = v
      BY DEF ToRoot
<1>4. Alike(s, s)
      BY DEF Alike
<1> QED BY <1>1, <1>2, <1>3, <1>4 DEF Alike

-----------------------------------------------------------------------------
(* What fvwm does with one window *)

(* fvwm's record and the frame are gone *)
Free(t) == IsWindow(t) /\ ~t.managed /\ ~t.iconified /\ ~t.frameUp

LEMMA ForgottenFree ==
    ASSUME NEW s, IsWindow(s)
    PROVE  Free(Forgotten(s))
BY DEF Free, IsWindow, Fields, Forgotten

LEMMA DestroyFree ==
    ASSUME NEW s, IsWindow(s)
    PROVE  Free(DestroyWindow(s))
<1> DEFINE u == [s EXCEPT !.q = AboutClient(s.q)]
<1>1. IsWindow(u)
      BY DEF IsWindow, Fields
<1>2. DestroyWindow(s) = Forgotten(u)
      BY DEF DestroyWindow
<1> QED BY <1>1, <1>2, ForgottenFree

(* a managed window, on whatever desk it was, is sane and stays managed *)
Good(s, t, cur) ==
    IsWindow(t) /\ Sane(t, cur) /\ t.managed = s.managed /\ t.desk = s.desk

LEMMA IconifyGood ==
    ASSUME NEW s, NEW cur, IsWindow(s), Sane(s, cur), s.managed
    PROVE  Good(s, Iconify(s), cur)
<1> DEFINE t == [s EXCEPT !.order = "Iconic",
                          !.mapPending = s.mapPending /\ ~Viewable(s)]
           n == [t EXCEPT !.iconifyAfterMap = TRUE]
           u == [t EXCEPT !.up = FALSE, !.mapped = FALSE,
                          !.iconifyPending = TRUE, !.iconified = TRUE]
           v == UnmapFrame(u)
           x == SetMapStateProp(v, "Iconic")
<1>1. Alike(s, t) /\ t.up = s.up /\ t.frameUp = s.frameUp
      BY DEF IsWindow, Fields, Alike
<1>2. Alike(t, n) /\ n.up = t.up /\ n.frameUp = t.frameUp
      BY <1>1 DEF IsWindow, Fields, Alike
<1>3. IsWindow(u) /\ u.managed = s.managed /\ u.desk = s.desk
      /\ u.iconified /\ ~u.up
      BY <1>1, ZenonT(60) DEF IsWindow, Fields, Alike
<1>4. Alike(u, v) /\ v.up = u.up /\ ~v.frameUp
      BY <1>3, UnmapFrameAlike
<1>5. Alike(v, x) /\ x.up = v.up /\ x.frameUp = v.frameUp
      BY <1>4, PropAlike DEF Alike
<1>6. Iconify(s) \in {s, n, x}
      BY DEF Iconify
<1>7. Good(s, s, cur) /\ Good(s, n, cur)
      BY <1>1, <1>2 DEF Good, Alike, Sane
<1>8. Good(s, x, cur)
      BY <1>3, <1>4, <1>5 DEF Good, Alike, Sane
<1> QED BY <1>6, <1>7, <1>8

LEMMA DeIconifyGood ==
    ASSUME NEW s, NEW cur, IsWindow(s), Sane(s, cur), s.managed
    PROVE  Good(s, DeIconify(s, cur), cur)
<1> DEFINE t == [s EXCEPT !.order = "Normal",
                          !.mapPending = s.mapPending /\ ~Viewable(s)]
           n == [t EXCEPT !.iconifyAfterMap = FALSE]
           u == [t EXCEPT !.mapped = TRUE, !.iconified = FALSE]
           c == MapClient(u)
           f == MapFrame(c)
           g == [f EXCEPT !.mapPending = TRUE]
           m == IF s.desk = cur THEN g ELSE c
           x == SetMapStateProp(m, "Normal")
<1>1. Alike(s, t) /\ t.up = s.up /\ t.frameUp = s.frameUp
      BY DEF IsWindow, Fields, Alike
<1>2. Alike(t, n) /\ n.up = t.up /\ n.frameUp = t.frameUp
      BY <1>1 DEF IsWindow, Fields, Alike
<1>3. IsWindow(u) /\ u.managed = s.managed /\ u.desk = s.desk
      /\ ~u.iconified /\ u.frameUp = s.frameUp
      BY <1>1 DEF IsWindow, Fields, Alike
<1>4. Alike(u, c) /\ c.frameUp = u.frameUp
      BY <1>3, MapClientAlike
<1>5. Alike(c, f)
      BY <1>4, MapFrameAlike DEF Alike
<1>6. Alike(f, g)
      BY <1>5 DEF IsWindow, Fields, Alike
<1>7. IsWindow(m) /\ m.managed = s.managed /\ m.desk = s.desk
      /\ ~m.iconified /\ (m.frameUp => m.desk = cur)
      BY <1>3, <1>4, <1>5, <1>6 DEF Alike, Sane
<1>8. Alike(m, x) /\ x.frameUp = m.frameUp
      BY <1>7, PropAlike
<1>9. DeIconify(s, cur) \in {s, n, x}
      BY DEF DeIconify
<1>10. Good(s, s, cur) /\ Good(s, n, cur)
      BY <1>1, <1>2 DEF Good, Alike, Sane
<1>11. Good(s, x, cur)
      BY <1>7, <1>8 DEF Good, Alike, Sane
<1> QED BY <1>9, <1>10, <1>11

LEMMA FirstMapGood ==
    ASSUME NEW s, NEW state, NEW cur, IsWindow(s), Sane(s, cur),
           s.managed, ~s.iconified
    PROVE  Good(s, FirstMap(s, state, cur), cur)
<1> DEFINE p == [s EXCEPT !.mapPending = TRUE, !.order = "Normal"]
           f == MapFrame(p)
           c == MapClient(f)
           x == SetMapStateProp(c, "Normal")
           o == [s EXCEPT !.order = "Normal"]
           d == MapClient(o)
           y == SetMapStateProp(d, "Normal")
<1>1. Alike(s, p)
      BY DEF IsWindow, Fields, Alike
<1>2. Alike(p, f)
      BY <1>1, MapFrameAlike DEF Alike
<1>3. Alike(f, c)
      BY <1>2, MapClientAlike DEF Alike
<1>4. Alike(c, x)
      BY <1>3, PropAlike DEF Alike
<1>5. Alike(s, o) /\ o.frameUp = s.frameUp
      BY DEF IsWindow, Fields, Alike
<1>6. Alike(o, d) /\ d.frameUp = o.frameUp
      BY <1>5, MapClientAlike DEF Alike
<1>7. Alike(d, y) /\ y.frameUp = d.frameUp
      BY <1>6, PropAlike DEF Alike
<1>8. Good(s, y, cur)
      BY <1>5, <1>6, <1>7 DEF Alike, Good, Sane
<1>9. s.desk = cur => Good(s, x, cur)
      BY <1>1, <1>2, <1>3, <1>4 DEF Alike, Good, Sane
<1>10. Good(s, Iconify(s), cur)
      BY IconifyGood
<1>11. \/ FirstMap(s, state, cur) = Iconify(s)
       \/ s.desk = cur /\ FirstMap(s, state, cur) = x
       \/ FirstMap(s, state, cur) = y
      BY DEF FirstMap
<1> QED BY <1>8, <1>9, <1>10, <1>11

LEMMA AddWindowNew ==
    ASSUME NEW s, NEW d, IsWindow(s)
    PROVE  LET t == AddWindow(s, d) IN
           /\ IsWindow(t) /\ t.managed /\ ~t.iconified /\ ~t.frameUp
           /\ t.desk = d
BY DEF IsWindow, Fields, AddWindow

(* for a window that may be managed or not, before and after *)
Fine(t, cur) == IsWindow(t) /\ Sane(t, cur)

LEMMA MapRequestedFine ==
    ASSUME NEW s, NEW d, NEW cur, IsWindow(s), Sane(s, cur)
    PROVE  Fine(MapRequested(s, d, cur), cur)
<1> DEFINE t == IF s.managed THEN s ELSE AddWindow(s, d)
<1>1. IsWindow(t) /\ t.managed /\ Sane(t, cur)
      BY AddWindowNew DEF Sane
<1>2. t.iconified => Good(t, DeIconify(t, cur), cur)
      BY <1>1, DeIconifyGood
<1>3. ~t.iconified => Good(t, FirstMap(t, t.hint, cur), cur)
      BY <1>1, FirstMapGood
<1>4. \/ MapRequested(s, d, cur) = s
      \/ t.iconified /\ MapRequested(s, d, cur) = DeIconify(t, cur)
      \/ MapRequested(s, d, cur) = t
      \/ ~t.iconified /\ MapRequested(s, d, cur) = FirstMap(t, t.hint, cur)
      BY DEF MapRequested
<1> QED BY <1>1, <1>2, <1>3, <1>4 DEF Good, Fine

LEMMA MapNotifiedFine ==
    ASSUME NEW s, NEW cur, IsWindow(s), Sane(s, cur)
    PROVE  Fine(MapNotified(s, cur), cur)
<1> DEFINE t == [s EXCEPT !.mapPending = FALSE]
           f == IF s.desk = cur THEN MapFrame(t) ELSE t
           m == [f EXCEPT !.mapped = TRUE, !.iconified = FALSE]
           i == Iconify(m)
           j == [i EXCEPT !.iconifyAfterMap = FALSE]
<1>1. CASE ~s.managed
      BY <1>1 DEF MapNotified, Fine
<1>2. CASE s.managed
  <2>1. Alike(s, t) /\ t.up = s.up /\ t.frameUp = s.frameUp
        BY DEF IsWindow, Fields, Alike
  <2>2. Alike(t, MapFrame(t))
        BY <2>1, MapFrameAlike DEF Alike
  <2>3. Alike(s, f) /\ (f.frameUp => s.desk = cur)
        BY <2>1, <2>2 DEF Alike, Sane
  <2>4. IsWindow(m) /\ m.managed /\ Sane(m, cur)
        BY <1>2, <2>3 DEF IsWindow, Fields, Alike, Sane
  <2>5. Good(m, i, cur)
        BY <2>4, IconifyGood
  <2>6. Fine(j, cur)
        BY <2>5 DEF Good, Fine, IsWindow, Fields, Sane
  <2>7. Fine(t, cur)
        BY <2>1 DEF Fine, Alike, Sane
  <2>8. MapNotified(s, cur) \in {s, t, j, m}
        BY DEF MapNotified
  <2> QED BY <2>4, <2>6, <2>7, <2>8 DEF Fine
<1> QED BY <1>1, <1>2

LEMMA UnmapNotifiedFine ==
    ASSUME NEW s, NEW d, NEW cur, IsWindow(s), Sane(s, cur)
    PROVE  Fine(UnmapNotified(s, d, cur), cur)
<1> DEFINE p == SetMapStateProp(s, "Withdrawn")
           w == Withdrawn(s)
           k == Take(s, "DestroyNotify")
<1>1. IsWindow(w)
      BY PropAlike, ToRootAlike DEF Alike, Withdrawn
<1>2. IsWindow(k)
      BY DEF IsWindow, Fields, Take
<1>3. Free(DestroyWindow(w)) /\ Free(DestroyWindow(k))
      BY <1>1, <1>2, DestroyFree
<1>4. Fine(DestroyWindow(w), cur) /\ Fine(DestroyWindow(k), cur)
      BY <1>3 DEF Free, Fine, Sane
<1>5. Fine(MapRequested(DestroyWindow(w), d, cur), cur)
      BY <1>4, MapRequestedFine DEF Fine
<1>6. UnmapNotified(s, d, cur) \in
          {s, DestroyWindow(k), DestroyWindow(w),
           MapRequested(DestroyWindow(w), d, cur)}
      BY DEF UnmapNotified
<1> QED BY <1>4, <1>5, <1>6 DEF Fine

LEMMA DispatchedFine ==
    ASSUME NEW s, NEW type, NEW d, NEW cur, IsWindow(s), Sane(s, cur)
    PROVE  Fine(Dispatched(s, type, d, cur), cur)
<1>1. Fine(MapRequested(s, d, cur), cur) /\ Fine(MapNotified(s, cur), cur)
      /\ Fine(UnmapNotified(s, d, cur), cur)
      BY MapRequestedFine, MapNotifiedFine, UnmapNotifiedFine
<1>2. Fine(FrameMapNotified(s, cur), cur)
  <2> DEFINE t == [s EXCEPT !.capture = FALSE]
  <2>1. IsWindow(t) /\ Sane(t, cur)
        BY DEF IsWindow, Fields, Sane
  <2> QED BY <2>1, MapNotifiedFine DEF FrameMapNotified
<1>3. Fine([s EXCEPT !.iconifyPending = FALSE], cur)
      BY DEF IsWindow, Fields, Sane, Fine
<1>4. Fine(DestroyNotified(s), cur)
      BY DestroyFree DEF DestroyNotified, Fine, Free, Sane
<1>5. Fine(ChangeStateAsked(s), cur)
      BY IconifyGood DEF ChangeStateAsked, Good, Fine
<1> QED BY <1>1, <1>2, <1>3, <1>4, <1>5 DEF Dispatched

(* the two halves of a desk switch, on the desk cur before or after it *)
LEMMA UnmapWindowDown ==
    ASSUME NEW s, IsWindow(s), s.frameUp => s.managed,
           s.iconified => s.managed /\ ~s.up /\ ~s.frameUp
    PROVE  LET t == UnmapWindow(s) IN
           Alike(s, t) /\ t.up = s.up /\ ~t.frameUp
<1> DEFINE u == UnmapFrame(s)
           v == SetMapStateProp(u, "Iconic")
<1>1. Alike(s, u) /\ u.up = s.up /\ ~u.frameUp
      BY UnmapFrameAlike
<1>2. Alike(u, v) /\ v.up = u.up /\ v.frameUp = u.frameUp
      BY <1>1, PropAlike DEF Alike
<1>3. \/ ~s.frameUp /\ UnmapWindow(s) = s
      \/ UnmapWindow(s) = v
      BY DEF UnmapWindow
<1>4. Alike(s, s)
      BY DEF Alike
<1> QED BY <1>1, <1>2, <1>3, <1>4 DEF Alike

LEMMA MapWindowUp ==
    ASSUME NEW s, IsWindow(s)
    PROVE  LET t == MapWindow(s) IN
           /\ Alike(s, t) /\ t.up = s.up
           /\ t = s \/ (s.managed /\ ~s.iconified)
<1> DEFINE u == MapFrame(s)
           v == SetMapStateProp(u, "Normal")
<1>1. Alike(s, u) /\ u.up = s.up
      BY MapFrameAlike
<1>2. Alike(u, v) /\ v.up = u.up
      BY <1>1, PropAlike DEF Alike
<1>3. \/ MapWindow(s) = s
      \/ s.managed /\ ~s.iconified /\ MapWindow(s) = v
      BY DEF MapWindow
<1>4. Alike(s, s)
      BY DEF Alike
<1> QED BY <1>1, <1>2, <1>3, <1>4 DEF Alike

LEMMA DeskSwitchedFine ==
    ASSUME NEW s, NEW from, NEW to, IsWindow(s), Sane(s, from)
    PROVE  LET t == DeskSwitched(s, from, to) IN
           Fine(t, to) /\ t.managed = s.managed
<1>1. CASE s.desk = from
      BY <1>1, UnmapWindowDown DEF DeskSwitched, Fine, Sane, Alike
<1>2. CASE s.desk # from /\ s.desk = to
      BY <1>2, MapWindowUp DEF DeskSwitched, Fine, Sane, Alike
<1>3. CASE s.desk # from /\ s.desk # to
      BY <1>3 DEF DeskSwitched, Fine, Sane
<1> QED BY <1>1, <1>2, <1>3

LEMMA ReborderFree ==
    ASSUME NEW s, NEW cur, IsWindow(s)
    PROVE  Free(Reborder(s, cur))
<1> DEFINE c == MapClient(s)
           p == SetMapStateProp(c, "Normal")
           t == IF ~s.iconified /\ s.desk # cur THEN p ELSE s
           u == IF s.managed THEN t ELSE s
           v == Forgotten(u)
<1>1. IsWindow(c)
      BY MapClientAlike DEF Alike
<1>2. IsWindow(p)
      BY <1>1, PropAlike DEF Alike
<1>3. IsWindow(u)
      BY <1>2
<1>4. Free(v)
      BY <1>3, ForgottenFree
<1>5. Reborder(s, cur) = [v EXCEPT !.up = v.up \/ InSaveSet(s), !.q = <<>>]
      BY DEF Reborder
<1>6. (v.up \/ InSaveSet(s)) \in BOOLEAN
      OBVIOUS
<1> HIDE DEF v
<1> QED BY <1>4, <1>5, <1>6 DEF Free, IsWindow, Fields

LEMMA SaveSetFree ==
    ASSUME NEW s, NEW d, IsWindow(s)
    PROVE  Free(SaveSet(s, d))
<1> DEFINE v == Forgotten(s)
           up == s.up \/ InSaveSet(s)
<1>1. Free(v)
      BY ForgottenFree
<1>2. SaveSet(s, d) =
          [v EXCEPT !.up = up, !.desk = d, !.q = <<>>,
                    !.wants = IF up THEN "map" ELSE "withdraw",
                    !.order = IF s.prop = "Iconic" THEN "Iconic" ELSE v.order]
      BY DEF SaveSet
<1> QED BY <1>1, <1>2 DEF Free, IsWindow, Fields

LEMMA CapturedFine ==
    ASSUME NEW s, NEW cur, IsWindow(s), Sane(s, cur)
    PROVE  Fine(Captured(s, cur), cur)
<1> DEFINE known == s.prop \in {"Iconic", "Normal"}
           state == IF known THEN s.prop ELSE s.hint
           u == [s EXCEPT !.up = FALSE]
           a == AddWindow(u, s.desk)
           t == FirstMap(a, state, cur)
           x == [t EXCEPT !.order = IF known THEN s.order ELSE t.order]
<1>1. IsWindow(u)
      BY DEF IsWindow, Fields
<1>2. IsWindow(a) /\ Sane(a, cur) /\ a.managed /\ ~a.iconified
      BY <1>1, AddWindowNew DEF Sane
<1>3. Good(a, t, cur)
      BY <1>2, FirstMapGood
<1>4. Fine(x, cur)
      BY <1>3 DEF Good, Fine, IsWindow, Fields, Sane
<1>5. Captured(s, cur) = x \/ Captured(s, cur) = s
      BY DEF Captured
<1> QED BY <1>4, <1>5 DEF Fine

-----------------------------------------------------------------------------
(* The client *)

LEMMA AskedFine ==
    ASSUME NEW s, NEW t, NEW what, NEW cur, IsWindow(t), Sane(t, cur),
           t.managed = s.managed
    PROVE  /\ Fine(Asks(t, what), cur)
           /\ Asks(t, what).managed = s.managed
BY DEF IsWindow, Fields, Sane, Asks, Fine

(* a request leaves fvwm's record alone, and may only map the client of a
   window that is not managed *)
Untouched(s, t) == Alike(s, t) /\ t.frameUp = s.frameUp /\ (s.managed /\ t.up => s.up)

LEMMA UntouchedSane ==
    ASSUME NEW s, NEW t, NEW cur, Sane(s, cur), Untouched(s, t)
    PROVE  IsWindow(t) /\ Sane(t, cur) /\ t.managed = s.managed
BY DEF Untouched, Alike, Sane

LEMMA TellUntouched ==
    ASSUME NEW s, NEW t, NEW type, IsWindow(s), Untouched(s, t)
    PROVE  Untouched(s, Tell(t, type))
BY TellAlike DEF Untouched, Alike

LEMMA MapAskedUntouched ==
    ASSUME NEW s, IsWindow(s)
    PROVE  Untouched(s, MapAsked(s))
<1> DEFINE u == [s EXCEPT !.up = TRUE]
<1>1. Untouched(s, s)
      BY DEF Untouched, Alike
<1>2. ~s.managed => Untouched(s, u)
      BY DEF Untouched, Alike, IsWindow, Fields
<1>3. Untouched(s, Tell(s, "MapRequestInFrame"))
      /\ Untouched(s, Tell(s, "MapRequest"))
      BY <1>1, TellUntouched
<1>4. \/ MapAsked(s) \in {s, Tell(s, "MapRequestInFrame"), Tell(s, "MapRequest")}
      \/ ~s.managed /\ MapAsked(s) = u
      BY DEF MapAsked
<1> QED BY <1>1, <1>2, <1>3, <1>4

LEMMA WithdrawAskedUntouched ==
    ASSUME NEW s, IsWindow(s)
    PROVE  Untouched(s, WithdrawAsked(s))
<1> DEFINE t == IF s.up /\ s.managed THEN Tell(s, "UnmapNotify") ELSE s
           u == [t EXCEPT !.up = FALSE]
           v == Tell(u, "FakeUnmapNotify")
<1>1. Untouched(s, s)
      BY DEF Untouched, Alike
<1>2. Untouched(s, t)
      BY <1>1, TellUntouched
<1>3. Untouched(s, u)
      BY <1>2 DEF Untouched, Alike, IsWindow, Fields
<1>4. Untouched(s, v)
      BY <1>3, TellUntouched
<1>5. WithdrawAsked(s) \in {u, v}
      BY DEF WithdrawAsked
<1> QED BY <1>3, <1>4, <1>5

LEMMA GoneUntouched ==
    ASSUME NEW s, IsWindow(s)
    PROVE  Untouched(s, Gone(s))
<1> DEFINE t == IF s.up /\ s.managed THEN Tell(s, "UnmapNotify") ELSE s
           u == IF s.managed THEN Tell(t, "DestroyNotify") ELSE t
           v == [u EXCEPT !.exists = FALSE, !.up = FALSE, !.prop = "None"]
<1>1. Untouched(s, s)
      BY DEF Untouched, Alike
<1>2. Untouched(s, t)
      BY <1>1, TellUntouched
<1>3. Untouched(s, u)
      BY <1>2, TellUntouched
<1>4. Untouched(s, v)
      BY <1>3 DEF Untouched, Alike, IsWindow, Fields
<1>5. Gone(s) = v
      BY DEF Gone
<1> QED BY <1>4, <1>5

-----------------------------------------------------------------------------
(* The inductive invariant *)

Managed == \A w \in Windows : win[w].managed => phase = "running"

Inv ==
    /\ win = [w \in Windows |-> win[w]]
    /\ \A w \in Windows : Fine(win[w], curDesk)
    /\ Managed
    /\ phase \in {"running", "down", "startup"}

LEMMA InitInv == Init => Inv
<1> SUFFICES ASSUME Init PROVE Inv
    OBVIOUS
<1>1. PICK hint \in [Windows -> Hints], d \in Desks :
          win = [w \in Windows |-> Fresh(hint[w], d)] /\ curDesk = d
      BY DEF Init
<1>2. \A w \in Windows : win[w] = Fresh(hint[w], d)
      BY <1>1
<1>3. ASSUME NEW h PROVE Fine(Fresh(h, d), d) /\ ~Fresh(h, d).managed
      BY DEF Fine, Sane, IsWindow, Fields, Fresh
<1>4. ASSUME NEW w \in Windows
      PROVE  Fine(win[w], curDesk) /\ ~win[w].managed
      BY <1>1, <1>2, <1>3
<1> QED BY <1>1, <1>4 DEF Inv, Managed, Init

(* One window changes, and only fvwm, when it runs, may come to manage it. *)
LEMMA OneWindow ==
    ASSUME NEW w \in Windows, NEW t, Inv, win' = [win EXCEPT ![w] = t],
           UNCHANGED <<curDesk, phase>>, Fine(t, curDesk),
           t.managed => win[w].managed \/ phase = "running"
    PROVE  Inv'
<1>1. \A v \in Windows : win'[v] = IF v = w THEN t ELSE win[v]
      BY DEF Inv
<1>2. win' = [v \in Windows |-> win'[v]]
      BY DEF Inv
<1>3. \A v \in Windows : Fine(win'[v], curDesk')
      BY <1>1 DEF Inv
<1>4. Managed'
      BY <1>1 DEF Inv, Managed
<1> QED BY <1>2, <1>3, <1>4 DEF Inv

(* A client's request that leaves fvwm's record alone. *)
LEMMA Requested ==
    ASSUME NEW w \in Windows, NEW t, NEW what, Inv, Untouched(win[w], t),
           win' = [win EXCEPT ![w] = Asks(t, what)],
           UNCHANGED <<curDesk, phase>>
    PROVE  Inv'
<1>1. Fine(win[w], curDesk)
      BY DEF Inv
<1>2. IsWindow(t) /\ Sane(t, curDesk) /\ t.managed = win[w].managed
      BY <1>1, UntouchedSane DEF Fine
<1>3. Fine(Asks(t, what), curDesk) /\ Asks(t, what).managed = win[w].managed
      BY <1>2, AskedFine
<1> QED BY <1>3, OneWindow

LEMMA ClientInv ==
    ASSUME NEW w \in Windows, Inv, ClientStep(w)
    PROVE  Inv'
<1>1. IsWindow(win[w]) /\ Sane(win[w], curDesk)
      BY DEF Inv, Fine
<1>2. CASE ClientMap(w)
      BY <1>1, <1>2, MapAskedUntouched, Requested DEF ClientMap
<1>3. CASE ClientWithdraw(w)
      BY <1>1, <1>3, WithdrawAskedUntouched, Requested DEF ClientWithdraw
<1>4. CASE ClientIconify(w)
  <2> DEFINE u == [win[w] EXCEPT !.asked = win[w].asked + 1]
             t == Tell(u, "ChangeState")
  <2>1. Untouched(win[w], u)
        BY <1>1 DEF Untouched, Alike, IsWindow, Fields
  <2>2. Untouched(win[w], t)
        BY <1>1, <2>1, TellUntouched
  <2>3. IsWindow(t) /\ Sane(t, curDesk) /\ t.managed = win[w].managed
        BY <1>1, <2>2, UntouchedSane
  <2>4. win' = [win EXCEPT ![w] = t] /\ UNCHANGED <<curDesk, phase>>
        BY <1>4 DEF ClientIconify
  <2> QED BY <2>3, <2>4, OneWindow DEF Fine
<1>5. CASE ClientDestroy(w)
      BY <1>1, <1>5, GoneUntouched, Requested DEF ClientDestroy
<1> QED BY <1>2, <1>3, <1>4, <1>5 DEF ClientStep

LEMMA UserIconifyInv ==
    ASSUME NEW w \in Windows, Inv, UserIconify(w)
    PROVE  Inv'
<1> DEFINE s == win[w]
           t == IF s.iconified THEN DeIconify(s, curDesk) ELSE Iconify(s)
<1>1. IsWindow(s) /\ Sane(s, curDesk) /\ s.managed /\ phase = "running"
      BY DEF Inv, Fine, UserIconify, CanCommand
<1>2. Good(s, t, curDesk)
      BY <1>1, IconifyGood, DeIconifyGood
<1>3. win' = [win EXCEPT ![w] = t] /\ UNCHANGED <<curDesk, phase>>
      BY DEF UserIconify
<1> QED BY <1>1, <1>2, <1>3, OneWindow DEF Good, Fine

LEMMA MoveToDeskInv ==
    ASSUME NEW w \in Windows, NEW d \in Desks, Inv, MoveToDesk(w, d)
    PROVE  Inv'
<1> DEFINE s == win[w]
           u == [s EXCEPT !.desk = d]
           t == IF s.desk = curDesk THEN UnmapWindow(u)
                ELSE IF d = curDesk THEN MapWindow(u) ELSE u
<1>1. IsWindow(s) /\ Sane(s, curDesk) /\ s.managed /\ phase = "running"
      BY DEF Inv, Fine, MoveToDesk, CanCommand
<1>2. IsWindow(u) /\ u.desk = d /\ u.managed = s.managed
      /\ u.iconified = s.iconified /\ u.up = s.up /\ u.frameUp = s.frameUp
      BY <1>1 DEF IsWindow, Fields
<1>3. Fine(UnmapWindow(u), curDesk)
      BY <1>1, <1>2, UnmapWindowDown DEF Fine, Sane, Alike
<1>4. s.desk # curDesk /\ d = curDesk => Fine(MapWindow(u), curDesk)
      BY <1>1, <1>2, MapWindowUp DEF Fine, Sane, Alike
<1>5. s.desk # curDesk /\ d # curDesk => Fine(u, curDesk)
      BY <1>1, <1>2 DEF Fine, Sane
<1>6. Fine(t, curDesk)
      BY <1>3, <1>4, <1>5
<1>7. win' = [win EXCEPT ![w] = t] /\ UNCHANGED <<curDesk, phase>>
      BY DEF MoveToDesk
<1> QED BY <1>1, <1>6, <1>7, OneWindow

LEMMA GotoDeskInv ==
    ASSUME NEW d \in Desks, Inv, GotoDesk(d)
    PROVE  Inv'
<1>1. \A w \in Windows : IsWindow(win[w]) /\ Sane(win[w], curDesk)
      BY DEF Inv, Fine
<1>2. win' = [w \in Windows |-> DeskSwitched(win[w], curDesk, d)]
      /\ curDesk' = d /\ phase' = phase
      BY DEF GotoDesk
<1>3. ASSUME NEW w \in Windows
      PROVE  Fine(win'[w], curDesk') /\ win'[w].managed = win[w].managed
      BY <1>1, <1>2, DeskSwitchedFine
<1> QED BY <1>2, <1>3 DEF Inv, Managed

LEMMA HandleEventInv ==
    ASSUME NEW w \in Windows, NEW d \in Desks, Inv, HandleEvent(w, d)
    PROVE  Inv'
<1> DEFINE type == Head(win[w].q)
           s == [win[w] EXCEPT !.q = Tail(win[w].q)]
           t == IF phase = "startup" THEN DispatchedInStartup(s, type)
                ELSE Dispatched(s, type, d, curDesk)
<1>1. IsWindow(win[w]) /\ Sane(win[w], curDesk)
      BY DEF Inv, Fine
<1>2. IsWindow(s) /\ Sane(s, curDesk) /\ s.managed = win[w].managed
      BY <1>1 DEF IsWindow, Fields, Sane
<1>4. Fine(Dispatched(s, type, d, curDesk), curDesk)
      BY <1>2, DispatchedFine
<1>5. CASE phase = "startup"
  <2>1. ~s.managed /\ ~s.iconified
        BY <1>2, <1>5 DEF Inv, Managed, Sane
  <2>2. Alike(s, MapClient(s)) /\ MapClient(s).frameUp = s.frameUp
        BY <1>2, MapClientAlike
  <2>3. Fine(t, curDesk) /\ ~t.managed
        BY <1>2, <1>5, <2>1, <2>2 DEF DispatchedInStartup, Fine, Sane, Alike
  <2>4. win' = [win EXCEPT ![w] = t] /\ UNCHANGED <<curDesk, phase>>
        BY DEF HandleEvent
  <2> QED BY <2>3, <2>4, OneWindow
<1>6. CASE phase # "startup"
  <2>1. win' = [win EXCEPT ![w] = t] /\ UNCHANGED <<curDesk, phase>>
        BY DEF HandleEvent
  <2>2. phase = "running" /\ Fine(t, curDesk)
        BY <1>4, <1>6 DEF HandleEvent, Inv
  <2> QED BY <1>6, <2>1, <2>2, OneWindow
<1> QED BY <1>5, <1>6

LEMMA RestartInv == ASSUME Inv, Restart PROVE Inv'
<1>1. win' = [w \in Windows |-> Reborder(win[w], curDesk)] /\ phase' = "down"
      /\ curDesk' = curDesk
      BY DEF Restart
<1>2. ASSUME NEW w \in Windows
      PROVE  Fine(win'[w], curDesk') /\ ~win'[w].managed
      BY <1>1, ReborderFree DEF Inv, Fine, Free, Sane
<1> QED BY <1>1, <1>2 DEF Inv, Managed

LEMMA CrashInv == ASSUME Inv, Crash PROVE Inv'
<1>1. PICK desk \in [Windows -> Desks] :
          win' = [w \in Windows |-> SaveSet(win[w], desk[w])]
      BY DEF Crash
<1>2. phase' = "down"
      BY DEF Crash
<1>3. ASSUME NEW w \in Windows
      PROVE  Fine(win'[w], curDesk') /\ ~win'[w].managed
      BY <1>1, SaveSetFree DEF Inv, Fine, Free, Sane
<1> QED BY <1>1, <1>2, <1>3 DEF Inv, Managed

LEMMA StartupInv == ASSUME Inv, Startup PROVE Inv'
<1>1. phase = "down" /\ phase' = "startup" /\ win' = win /\ curDesk' = curDesk
      BY DEF Startup
<1> QED BY <1>1 DEF Inv, Managed

LEMMA CaptureInv == ASSUME Inv, CaptureAllWindows PROVE Inv'
<1>1. win' = [w \in Windows |-> Captured(win[w], curDesk)]
      /\ phase' = "running" /\ curDesk' = curDesk
      BY DEF CaptureAllWindows
<1>2. ASSUME NEW w \in Windows PROVE Fine(win'[w], curDesk')
      BY <1>1, CapturedFine DEF Inv, Fine
<1> QED BY <1>1, <1>2 DEF Inv, Managed

LEMMA NextInv == Inv /\ [Next]_vars => Inv'
<1> SUFFICES ASSUME Inv, [Next]_vars PROVE Inv'
    OBVIOUS
<1>1. ASSUME NEW w \in Windows, ClientStep(w) \/ UserIconify(w) PROVE Inv'
      BY <1>1, ClientInv, UserIconifyInv
<1>2. ASSUME NEW d \in Desks, GotoDesk(d) PROVE Inv'
      BY <1>2, GotoDeskInv
<1>3. ASSUME NEW w \in Windows, NEW d \in Desks,
             MoveToDesk(w, d) \/ HandleEvent(w, d)
      PROVE  Inv'
      BY <1>3, MoveToDeskInv, HandleEventInv
<1>4. CASE UNCHANGED vars
      BY <1>4 DEF vars, Inv, Managed
<1> QED BY <1>1, <1>2, <1>3, <1>4, RestartInv, CrashInv, StartupInv,
           CaptureInv DEF Next

(* fvwm's records and the server agree on every window so far that frames  *)
(* of icons and of other desks are down, at every step of every behaviour. *)
THEOREM InvHolds == Spec => []Inv
<1> QED BY InitInv, NextInv, PTL DEF Spec

LEMMA InvScreen == Inv => OnlyThisDesk /\ IconHidden
<1> SUFFICES ASSUME Inv PROVE OnlyThisDesk /\ IconHidden
    OBVIOUS
<1>1. ASSUME NEW w \in Windows
      PROVE  Sane(win[w], curDesk) /\ (win[w].managed => phase = "running")
      BY DEF Inv, Fine, Managed
<1> QED BY <1>1 DEF Sane, OnlyThisDesk, IconHidden

(* For any windows, desks and clients, and however many commands run and   *)
(* events wait: what MapRequest, Iconify, UnmapDesk and the rest leave on  *)
(* the screen is frames of the current desk, and none of an icon.          *)
THEOREM FramesOfThisDesk == Spec => []OnlyThisDesk
<1> QED BY InvHolds, InvScreen, PTL

(* The client window of an icon is never mapped, whatever the client, the  *)
(* user and a restart do meanwhile: its next MapRequest reaches fvwm.      *)
THEOREM IconsHidden == Spec => []IconHidden
<1> QED BY InvHolds, InvScreen, PTL

-----------------------------------------------------------------------------
(* The scenes of a window *)

(* Maps are the client's requests to map a window, Notes tell of a map. *)
Maps == {"MapRequest", "MapRequestInFrame"}
Notes == {"MapNotify", "FrameMapNotify"}

(* what is left of the queue when a synthetic UnmapNotify at its head is handled *)
NoFake(q) == IF q # <<>> /\ Head(q) = "FakeUnmapNotify" THEN Tail(q) ELSE q

(* an event of the types waits *)
Tells(q, types) == \E i \in DOMAIN q : q[i] \in types

(* fvwm keeps no record of the window *)
Idle(s) ==
    /\ ~s.managed /\ ~s.mapped /\ ~s.iconified /\ ~s.iconifyPending
    /\ ~s.mapPending /\ ~s.iconifyAfterMap /\ ~s.frameUp

(* The scenes of a window while fvwm runs: it is not managed and, unless a
   request waits, not to be; *)
Outside(s) ==
    /\ Idle(s) /\ ~s.up /\ s.prop \in {"None", "Withdrawn"}
    /\ s.exists \/ s.q = <<>>
    /\ NoFake(s.q) \in Seq({"MapRequest"})
    /\ s.wants = "map" <=> Tells(s.q, Maps)

(* the client window is mapped; *)
Open(s) ==
    /\ s.exists /\ s.managed /\ s.up /\ ~s.iconified /\ ~s.iconifyAfterMap
    /\ s.wants = "map" /\ s.order = "Normal" /\ s.prop \in {"Normal", "Iconic"}

(* fvwm has mapped it and waits to hear of it; *)
Appearing(s, cur) ==
    /\ Open(s) /\ ~s.mapped /\ ~s.iconifyPending
    /\ s.frameUp => s.desk = cur
    /\ s.desk = cur => s.prop = "Normal"
    /\ NoFake(s.q) \in Seq(Maps \cup Notes \cup {"FrameUnmapNotify"})
    /\ Tells(s.q, Notes)

(* fvwm has heard of it: what waits is no news, or the client's order to
   iconify; *)
Shown(s, cur) ==
    /\ Open(s) /\ s.mapped
    /\ s.frameUp = (s.desk = cur)
    /\ s.frameUp => s.prop = "Normal"
    /\ \/ s.q = <<"ChangeState">> /\ ~s.mapPending
       \/ /\ s.q \in Seq(Maps \cup Notes \cup {"FrameUnmapNotify"})
          /\ s.mapPending => Tells(s.q, Notes)

(* An icon hears of the map before the order to iconify, with iconifyPending
   set, then of the unmapping of its frame, and of requests at last. *)
IconQueue(s) ==
    /\ s.q \in Seq(Maps \cup Notes \cup {"FrameUnmapNotify"})
    /\ Tells(s.q, Notes) => s.iconifyPending
    /\ \A i, j \in DOMAIN s.q : i < j =>
          /\ s.q[i] \in Maps => s.q[j] \in Maps
          /\ s.q[i] = "FrameUnmapNotify" => s.q[j] \notin Notes

(* an event, then only requests to map the window *)
OneThenMaps(q, type) ==
    q # <<>> /\ Head(q) = type /\ Tail(q) \in Seq({"MapRequestInFrame"})

(* it is an icon; *)
Icon(s) ==
    /\ s.exists /\ s.managed /\ s.iconified /\ ~s.mapped /\ ~s.up /\ ~s.frameUp
    /\ ~s.mapPending /\ ~s.iconifyAfterMap
    /\ s.prop = "Iconic" /\ s.order = "Iconic"
    /\ \/ (IconQueue(s) \/ OneThenMaps(s.q, "ChangeState")) /\ s.wants = "map"
       \/ OneThenMaps(s.q, "FakeUnmapNotify") /\ (s.wants = "map" <=> Tail(s.q) # <<>>)

(* the client withdraws it; *)
Leaving(s) ==
    /\ s.exists /\ s.managed /\ s.mapped /\ ~s.iconified /\ ~s.up
    /\ s.prop \in {"Normal", "Iconic"} /\ s.order = "Normal"
    /\ s.q # <<>> /\ Head(s.q) = "UnmapNotify"
    /\ OneThenMaps(Tail(s.q), "FakeUnmapNotify")
    /\ s.wants = "map" <=> Tail(Tail(s.q)) # <<>>

(* or it is gone. *)
Dying(s) ==
    /\ ~s.exists /\ s.managed /\ ~s.up /\ s.prop = "None" /\ s.wants = "withdraw"
    /\ \/ s.mapped /\ ~s.iconified /\ s.q = <<"UnmapNotify", "DestroyNotify">>
       \/ ~s.mapped /\ s.iconified /\ s.q = <<"DestroyNotify">>

(* one of the scenes *)
Live(s, cur) ==
    \/ Outside(s) \/ Appearing(s, cur) \/ Shown(s, cur)
    \/ Icon(s) \/ Leaving(s) \/ Dying(s)

(* More is known before the first command. *)
Fair(s) ==
    s.up => /\ s.mapPending => s.frameUp
            /\ s.mapped \/ s.prop = "Normal"
            /\ ~Tells(s.q, {"FrameUnmapNotify"})

(* No window manager, or one that starts: WM_STATE and the client's requests
   say what will become of the window. *)
Stored(s) ==
    /\ Idle(s) /\ s.q \in Seq({"MapRequest"})
    /\ ~s.exists => s.q = <<>> /\ ~s.up /\ s.prop \in {"None", "Withdrawn"}
    /\ \/ s.prop \in {"None", "Withdrawn"} /\ (s.wants = "map" <=> s.up \/ s.q # <<>>)
       \/ s.prop = "Iconic" /\ s.order = "Iconic" /\ s.wants = "map"
       \/ s.prop = "Normal" /\ s.order = "Normal" /\ s.up /\ s.wants = "map"

(* what becomes of the windows *)
Settling ==
    /\ phase = "running" => \A w \in Windows : /\ Live(win[w], curDesk)
                                               /\ burst = 0 => Fair(win[w])
    /\ phase # "running" => burst = 0 /\ \A w \in Windows : Stored(win[w])

-----------------------------------------------------------------------------
(* a record of a window *)
Row(s) == /\ IsWindow(s) /\ s.q \in Seq(EventTypes) /\ s.hint = "Normal"
          /\ s.mapped \in BOOLEAN /\ s.iconified \in BOOLEAN
          /\ s.up \in BOOLEAN /\ s.frameUp \in BOOLEAN

(* t is s but for some fields, and for events that joined the queue. *)
Same(s, t, but) == \A f \in Fields \ but : t[f] = s[f]
(* r is q, and events of the types that joined it *)
Longer(q, r, types) ==
    /\ r \in Seq(EventTypes) /\ Len(q) <= Len(r)
    /\ \A i \in DOMAIN q : r[i] = q[i]
    /\ \A i \in DOMAIN r \ DOMAIN q : r[i] \in types

(* A queue that events joined tells what it told, and begins as it began. *)
LEMMA LongerFacts ==
    ASSUME NEW q \in Seq(EventTypes), NEW r, NEW types, Longer(q, r, types)
    PROVE  /\ \A A : q \in Seq(A) => r \in Seq(A \cup types)
           /\ \A A : Tells(q, A) => Tells(r, A)
           /\ \A A : Tells(r, A) => Tells(q, A) \/ A \cap types # {}
           /\ q # <<>> => /\ r # <<>> /\ Head(r) = Head(q) /\ Longer(Tail(q), Tail(r), types)

<1>1. DOMAIN q = 1 .. Len(q) /\ DOMAIN r = 1 .. Len(r) /\ Len(q) \in Nat /\ Len(r) \in Nat
  BY DEF Longer
<1>2. ASSUME NEW A, q \in Seq(A) PROVE r \in Seq(A \cup types)
  <2>1. \A i \in 1 .. Len(r) : r[i] \in A \cup types
    BY <1>1, <1>2 DEF Longer
  <2> QED BY <1>1, <2>1 DEF Longer
<1>3. ASSUME NEW A, Tells(q, A) PROVE Tells(r, A)
  BY <1>1, <1>3 DEF Longer, Tells
<1>4. ASSUME NEW A, Tells(r, A) PROVE Tells(q, A) \/ A \cap types # {}
  BY <1>1, <1>4 DEF Longer, Tells
<1>5. ASSUME q # <<>> PROVE r # <<>> /\ Head(r) = Head(q) /\ Longer(Tail(q), Tail(r), types)
  <2>1. Len(q) # 0
    BY <1>5
  <2>2. r # <<>> /\ Head(r) = Head(q)
    BY <1>1, <2>1 DEF Longer
  <2>3. /\ Tail(q) \in Seq(EventTypes) /\ Len(Tail(q)) = Len(q) - 1
        /\ \A i \in 1 .. Len(q) - 1 : Tail(q)[i] = q[i + 1]
    BY <1>5
  <2>4. /\ Tail(r) \in Seq(EventTypes) /\ Len(Tail(r)) = Len(r) - 1
        /\ \A i \in 1 .. Len(r) - 1 : Tail(r)[i] = r[i + 1]
    BY <2>2 DEF Longer
  <2>5. ASSUME NEW i \in DOMAIN Tail(q) PROVE Tail(r)[i] = Tail(q)[i]
    <3>1. i \in 1 .. Len(q) - 1 /\ i + 1 \in DOMAIN q /\ i \in 1 .. Len(r) - 1
      BY <1>1, <2>3 DEF Longer
    <3> QED BY <2>3, <2>4, <3>1 DEF Longer
  <2>6. ASSUME NEW i \in DOMAIN Tail(r) \ DOMAIN Tail(q) PROVE Tail(r)[i] \in types
    <3>1. i \in 1 .. Len(r) - 1 /\ i + 1 \in DOMAIN r \ DOMAIN q
      BY <1>1, <2>3, <2>4
    <3> QED BY <2>4, <3>1 DEF Longer
  <2>7. Len(Tail(q)) <= Len(Tail(r))
    BY <1>1, <2>3, <2>4 DEF Longer
  <2> QED BY <2>2, <2>4, <2>5, <2>6, <2>7 DEF Longer
<1> QED BY <1>2, <1>3, <1>4, <1>5

(* One event, or two, join a queue. *)
LEMMA LongerMore ==
    ASSUME NEW q \in Seq(EventTypes), NEW type \in EventTypes
    PROVE  /\ Longer(q, q, {type}) /\ Longer(q, Append(q, type), {type})
           /\ Longer(q, Append(Append(q, type), type), {type})
           /\ Tells(Append(q, type), {type})
<1>1. DOMAIN q = 1 .. Len(q) /\ Len(q) \in Nat
  OBVIOUS
<1>2. ASSUME NEW r \in Seq(EventTypes)
      PROVE  /\ Append(r, type) \in Seq(EventTypes) /\ Len(Append(r, type)) = Len(r) + 1
             /\ \A i \in 1 .. Len(r) : Append(r, type)[i] = r[i]
             /\ Append(r, type)[Len(r) + 1] = type
  OBVIOUS
<1>3. Longer(q, q, {type})
  BY <1>1 DEF Longer
<1> DEFINE r == Append(q, type)
           t == Append(r, type)
<1>4. /\ r \in Seq(EventTypes) /\ Len(r) = Len(q) + 1
      /\ \A i \in 1 .. Len(q) : r[i] = q[i]
      /\ r[Len(q) + 1] = type
  BY <1>2
<1> HIDE DEF r
<1>5. /\ t \in Seq(EventTypes) /\ Len(t) = Len(r) + 1
      /\ \A i \in 1 .. Len(r) : t[i] = r[i]
      /\ t[Len(r) + 1] = type
  BY <1>2, <1>4
<1> HIDE DEF t
<1>6. Longer(q, r, {type})
  BY <1>1, <1>4 DEF Longer
<1>7. Longer(q, t, {type})
  BY <1>1, <1>4, <1>5 DEF Longer
<1>8. Tells(r, {type})
  BY <1>1, <1>4 DEF Tells
<1> QED BY <1>3, <1>6, <1>7, <1>8 DEF r, t

(* What the requests to the server do to a window and its queue *)
LEMMA MapFrameDoes ==
    ASSUME NEW s, Row(s)
    PROVE  LET t == MapFrame(s)
           IN  /\ Row(t) /\ t.frameUp /\ Same(s, t, {"frameUp", "q"})
               /\ Longer(s.q, t.q, {"FrameMapNotify"})
<1> DEFINE u == [s EXCEPT !.frameUp = TRUE]
           v == Tell(u, "FrameMapNotify")
<1>1. Row(u) /\ u.frameUp /\ Same(s, u, {"frameUp", "q"}) /\ u.q = s.q
  BY DEF Row, IsWindow, Fields, Same
<1>2. /\ Longer(s.q, s.q, {"FrameMapNotify"})
      /\ Longer(s.q, Append(s.q, "FrameMapNotify"), {"FrameMapNotify"})
  BY LongerMore DEF Row, EventTypes
<1>3. v = [u EXCEPT !.q = Append(u.q, "FrameMapNotify")]
  BY DEF Tell
<1> HIDE DEF u
<1>4. v.q = Append(s.q, "FrameMapNotify") /\ Same(u, v, {"q"}) /\ IsWindow(v)
  BY <1>1, <1>3 DEF Row, IsWindow, Fields, Same
<1> HIDE DEF v
<1>5. Row(v) /\ v.frameUp /\ Same(s, v, {"frameUp", "q"})
  BY <1>1, <1>2, <1>4 DEF Row, Same, Fields, Longer
<1>6. MapFrame(s) = IF s.frameUp THEN s ELSE IF s.capture THEN v ELSE u
  BY <1>1 DEF MapFrame, u, v, Row, IsWindow, Fields
<1>7. Same(s, s, {"frameUp", "q"})
  BY DEF Same
<1> QED BY <1>1, <1>2, <1>4, <1>5, <1>6, <1>7

(* Two changes, one after the other *)
LEMMA SameTwice ==
    ASSUME NEW r, NEW s, NEW t, NEW A, NEW B, Same(r, s, A), Same(s, t, B)
    PROVE  Same(r, t, A \cup B)
BY DEF Same

LEMMA LongerTwice ==
    ASSUME NEW q \in Seq(EventTypes), NEW r, NEW t, NEW A, NEW B, Longer(q, r, A), Longer(r, t, B)
    PROVE  Longer(q, t, A \cup B)
<1>1. DOMAIN q = 1 .. Len(q) /\ DOMAIN r = 1 .. Len(r) /\ Len(q) \in Nat /\ Len(r) \in Nat
      /\ DOMAIN t = 1 .. Len(t) /\ Len(t) \in Nat
  BY DEF Longer
<1>2. ASSUME NEW i \in DOMAIN q PROVE t[i] = q[i]
  BY <1>1 DEF Longer
<1>3. ASSUME NEW i \in DOMAIN t \ DOMAIN q PROVE t[i] \in A \cup B
  <2>1. CASE i \in DOMAIN r
    BY <2>1, <1>3 DEF Longer
  <2>2. CASE i \notin DOMAIN r
    BY <2>2, <1>3 DEF Longer
  <2> QED BY <2>1, <2>2
<1> QED BY <1>1, <1>2, <1>3 DEF Longer

LEMMA UnmapFrameDoes ==
    ASSUME NEW s, Row(s)
    PROVE  LET t == UnmapFrame(s)
           IN  /\ Row(t) /\ ~t.frameUp /\ Same(s, t, {"frameUp", "q"})
               /\ Longer(s.q, t.q, {"FrameUnmapNotify"})
               /\ ~s.frameUp => t.q = s.q
<1> DEFINE u == [s EXCEPT !.frameUp = FALSE]
           v == Tell(u, "FrameUnmapNotify")
           w == Tell(v, "FrameUnmapNotify")
<1>1. Row(u) /\ ~u.frameUp /\ Same(s, u, {"frameUp", "q"}) /\ u.q = s.q
  BY DEF Row, IsWindow, Fields, Same
<1>2. /\ Longer(s.q, s.q, {"FrameUnmapNotify"})
      /\ Longer(s.q, Append(s.q, "FrameUnmapNotify"), {"FrameUnmapNotify"})
      /\ Longer(s.q, Append(Append(s.q, "FrameUnmapNotify"), "FrameUnmapNotify"),
                {"FrameUnmapNotify"})
  BY LongerMore DEF Row, EventTypes
<1>3. v = [u EXCEPT !.q = Append(u.q, "FrameUnmapNotify")]
  BY DEF Tell
<1> HIDE DEF u
<1>4. v.q = Append(s.q, "FrameUnmapNotify") /\ Same(u, v, {"q"}) /\ IsWindow(v)
  BY <1>1, <1>3 DEF Row, IsWindow, Fields, Same
<1> HIDE DEF v
<1>5. Row(v) /\ ~v.frameUp /\ Same(s, v, {"frameUp", "q"})
  BY <1>1, <1>2, <1>4 DEF Row, Same, Fields, Longer
<1>8. w = [v EXCEPT !.q = Append(v.q, "FrameUnmapNotify")]
  BY DEF Tell
<1>9. w.q = Append(Append(s.q, "FrameUnmapNotify"), "FrameUnmapNotify")
      /\ Same(v, w, {"q"}) /\ IsWindow(w)
  BY <1>4, <1>5, <1>8 DEF Row, IsWindow, Fields, Same
<1> HIDE DEF w
<1>10. Row(w) /\ ~w.frameUp /\ Same(s, w, {"frameUp", "q"})
  BY <1>2, <1>5, <1>9 DEF Row, Same, Fields, Longer
<1>6. UnmapFrame(s) = IF ~s.frameUp THEN s ELSE IF s.capture THEN w ELSE v
  BY <1>1 DEF UnmapFrame, u, v, w, Row, IsWindow, Fields
<1>7. Same(s, s, {"frameUp", "q"})
  BY DEF Same
<1> QED BY <1>1, <1>2, <1>4, <1>5, <1>6, <1>7, <1>9, <1>10

LEMMA MapClientDoes ==
    ASSUME NEW s, Row(s), s.exists, s.managed
    PROVE  LET t == MapClient(s)
           IN  /\ Row(t) /\ t.up /\ Same(s, t, {"up", "q"})
               /\ Longer(s.q, t.q, {"MapNotify"})
               /\ s.up \/ Tells(t.q, {"MapNotify"})
<1> DEFINE u == [s EXCEPT !.up = TRUE]
           v == Tell(u, "MapNotify")
<1>1. Row(u) /\ u.up /\ Same(s, u, {"up", "q"}) /\ u.q = s.q
  BY DEF Row, IsWindow, Fields, Same
<1>2. /\ Longer(s.q, s.q, {"MapNotify"})
      /\ Longer(s.q, Append(s.q, "MapNotify"), {"MapNotify"})
      /\ Tells(Append(s.q, "MapNotify"), {"MapNotify"})
  BY LongerMore DEF Row, EventTypes
<1>3. v = [u EXCEPT !.q = Append(u.q, "MapNotify")]
  BY DEF Tell
<1>6. MapClient(s) = IF s.up THEN s ELSE v
  BY <1>1 DEF MapClient, u, v, Row, IsWindow, Fields
<1> HIDE DEF u
<1>4. v.q = Append(s.q, "MapNotify") /\ Same(u, v, {"q"}) /\ IsWindow(v)
  BY <1>1, <1>3 DEF Row, IsWindow, Fields, Same
<1> HIDE DEF v
<1>5. Row(v) /\ v.up /\ Same(s, v, {"up", "q"})
  BY <1>1, <1>2, <1>4 DEF Row, Same, Fields, Longer
<1>7. Same(s, s, {"up", "q"})
  BY DEF Same
<1> QED BY <1>1, <1>2, <1>4, <1>5, <1>6, <1>7

LEMMA PropDoes ==
    ASSUME NEW s, Row(s), s.exists, NEW state
    PROVE  LET t == SetMapStateProp(s, state)
           IN  Row(t) /\ t.prop = state /\ Same(s, t, {"prop"})
BY DEF SetMapStateProp, Row, IsWindow, Fields, Same

LEMMA LongerNone ==
    ASSUME NEW s, Row(s), NEW types PROVE Longer(s.q, s.q, types)
BY DEF Row, Longer

(* Iconify, unless it only leaves a note *)
Iconified(s, t) ==
    /\ Row(t) /\ t.iconified /\ t.iconifyPending /\ ~t.mapped /\ ~t.mapPending
    /\ ~t.up /\ ~t.frameUp /\ t.prop = "Iconic" /\ t.order = "Iconic"
    /\ Same(s, t, {"iconified", "iconifyPending", "mapped", "mapPending", "up",
                   "frameUp", "prop", "order", "q"})
    /\ Longer(s.q, t.q, {"FrameUnmapNotify"}) /\ (~s.frameUp => t.q = s.q)

LEMMA IconifyDoes ==
    ASSUME NEW s, Row(s), s.exists, s.mapPending => Viewable(s)
    PROVE  Iconified(s, Iconify(s))
<1> DEFINE t == [s EXCEPT !.order = "Iconic", !.mapPending = @ /\ ~Viewable(s)]
           u == [t EXCEPT !.up = FALSE, !.mapped = FALSE,
                          !.iconifyPending = TRUE, !.iconified = TRUE]
           v == UnmapFrame(u)
           z == SetMapStateProp(v, "Iconic")
<1>1. /\ Row(t) /\ t.order = "Iconic" /\ ~t.mapPending /\ Same(s, t, {"order", "mapPending"})
  BY DEF Row, IsWindow, Fields, Same
<1>2. Iconify(s) = z
  BY <1>1 DEF Iconify
<1> HIDE DEF t
<1>3. /\ Row(u) /\ ~u.up /\ ~u.mapped /\ u.iconifyPending /\ u.iconified
      /\ Same(t, u, {"up", "mapped", "iconifyPending", "iconified"})
  BY <1>1 DEF Row, IsWindow, Fields, Same
<1> HIDE DEF u
<1>4. /\ Row(v) /\ ~v.frameUp /\ Same(u, v, {"frameUp", "q"})
      /\ Longer(u.q, v.q, {"FrameUnmapNotify"}) /\ (~u.frameUp => v.q = u.q)
  BY <1>3, UnmapFrameDoes
<1> HIDE DEF v
<1>5. s.exists => v.exists
  BY <1>1, <1>3, <1>4 DEF Same, Fields
<1>6. Row(z) /\ z.prop = "Iconic" /\ Same(v, z, {"prop"})
  BY <1>4, <1>5, PropDoes
<1> HIDE DEF z
<1> QED BY <1>1, <1>2, <1>3, <1>4, <1>6 DEF Iconified, Same, Fields

(* DeIconify of an icon *)
Restored(s, t, cur) ==
    /\ Row(t) /\ ~t.iconified /\ t.mapped /\ t.up /\ (t.frameUp <=> s.desk = cur)
    /\ (t.mapPending => s.desk = cur) /\ t.prop = "Normal" /\ t.order = "Normal"
    /\ Same(s, t, {"iconified", "mapped", "mapPending", "up", "frameUp", "prop",
                   "order", "q"})
    /\ Longer(s.q, t.q, Notes) /\ Tells(t.q, Notes)

LEMMA LongerWider ==
    ASSUME NEW q, NEW r, NEW A, NEW B, Longer(q, r, A), A \subseteq B
    PROVE  Longer(q, r, B)
BY DEF Longer

LEMMA DeIconifyDoes ==
    ASSUME NEW s, NEW cur, Row(s), s.exists, s.managed, ~s.mapPending, ~s.up, ~s.frameUp
    PROVE  Restored(s, DeIconify(s, cur), cur)
<1> DEFINE t == [s EXCEPT !.order = "Normal", !.mapPending = @ /\ ~Viewable(s)]
           u == [t EXCEPT !.mapped = TRUE, !.iconified = FALSE]
           c == MapClient(u)
           f == MapFrame(c)
           m == IF s.desk = cur THEN [f EXCEPT !.mapPending = TRUE] ELSE c
           z == SetMapStateProp(m, "Normal")
<1>1. /\ Row(t) /\ t.order = "Normal" /\ ~t.mapPending /\ Same(s, t, {"order", "mapPending"})
  BY DEF Row, IsWindow, Fields, Same
<1>2. DeIconify(s, cur) = z
  BY <1>1 DEF DeIconify
<1> HIDE DEF t
<1>3. /\ Row(u) /\ u.mapped /\ ~u.iconified /\ Same(t, u, {"mapped", "iconified"})
  BY <1>1 DEF Row, IsWindow, Fields, Same
<1> HIDE DEF u
<1>4. u.exists /\ u.managed /\ ~u.up /\ ~u.frameUp /\ u.q = s.q
  BY <1>1, <1>3 DEF Same, Fields
<1>5. /\ Row(c) /\ c.up /\ Same(u, c, {"up", "q"})
      /\ Longer(u.q, c.q, {"MapNotify"}) /\ Tells(c.q, {"MapNotify"})
  BY <1>3, <1>4, MapClientDoes
<1> HIDE DEF c
<1>6. /\ Row(f) /\ f.frameUp /\ Same(c, f, {"frameUp", "q"})
      /\ Longer(c.q, f.q, {"FrameMapNotify"})
  BY <1>5, MapFrameDoes
<1> HIDE DEF f
<1>7. /\ Row(m) /\ Same(c, m, {"frameUp", "mapPending", "q"})
      /\ (m.frameUp <=> s.desk = cur) /\ (m.mapPending => s.desk = cur)
      /\ m.q = (IF s.desk = cur THEN f.q ELSE c.q)
  <2>1. CASE s.desk = cur
    <3>1. Row(m) /\ m.mapPending /\ Same(f, m, {"mapPending"})
      BY <1>6, <2>1 DEF Row, IsWindow, Fields, Same
    <3> HIDE DEF m
    <3> QED BY <1>6, <2>1, <3>1 DEF Same, Fields
  <2>2. CASE s.desk # cur
    <3>1. ~c.frameUp /\ ~c.mapPending
      BY <1>1, <1>3, <1>4, <1>5 DEF Same, Fields
    <3> QED BY <1>5, <2>2, <3>1 DEF Same
  <2> QED BY <2>1, <2>2
<1> HIDE DEF m
<1>8. m.exists
  BY <1>4, <1>5, <1>7 DEF Same, Fields
<1>9. Row(z) /\ z.prop = "Normal" /\ Same(m, z, {"prop"})
  BY <1>7, <1>8, PropDoes
<1> HIDE DEF z
<1>10. Longer(s.q, z.q, Notes) /\ Tells(z.q, Notes)
  <2>1. z.q = m.q /\ s.q \in Seq(EventTypes)
    BY <1>9 DEF Same, Fields, Row
  <2>2. Longer(s.q, c.q, {"MapNotify"})
    BY <1>4, <1>5
  <2>3. Longer(s.q, f.q, {"MapNotify"} \cup {"FrameMapNotify"}) 
    BY <1>6, <2>1, <2>2, LongerTwice
  <2>4. Longer(s.q, f.q, Notes) /\ Longer(s.q, c.q, Notes)
    BY <2>2, <2>3, LongerWider DEF Notes
  <2>5. Tells(f.q, {"MapNotify"})
    BY <1>5, <1>6, LongerFacts DEF Row
  <2>6. Tells(f.q, Notes) /\ Tells(c.q, Notes)
    BY <1>5, <2>5 DEF Tells, Notes
  <2> QED BY <1>7, <2>1, <2>4, <2>6
<1>11. z.up /\ ~z.iconified /\ z.mapped /\ z.order = "Normal"
       /\ z.frameUp = m.frameUp /\ z.mapPending = m.mapPending
  BY <1>1, <1>3, <1>5, <1>7, <1>9 DEF Same, Fields
<1>12. Same(s, z, {"iconified", "mapped", "mapPending", "up", "frameUp", "prop",
                   "order", "q"})
  BY <1>1, <1>3, <1>5, <1>7, <1>9 DEF Same, Fields
<1> QED BY <1>2, <1>7, <1>9, <1>10, <1>11, <1>12 DEF Restored

(* The first map of a window *)
Mapped(s, t, cur) ==
    /\ Row(t) /\ t.up /\ (t.frameUp <=> s.frameUp \/ s.desk = cur)
    /\ (t.mapPending <=> s.mapPending \/ s.desk = cur)
    /\ t.prop = "Normal" /\ t.order = "Normal"
    /\ Same(s, t, {"mapPending", "up", "frameUp", "prop", "order", "q"})
    /\ Longer(s.q, t.q, Notes) /\ (s.up \/ Tells(t.q, Notes))

LEMMA FirstMapDoes ==
    ASSUME NEW s, NEW cur, Row(s), s.exists, s.managed
    PROVE  Mapped(s, FirstMap(s, "Normal", cur), cur)
<1> DEFINE a == [s EXCEPT !.mapPending = TRUE, !.order = "Normal"]
           f == MapFrame(a)
           o == [s EXCEPT !.order = "Normal"]
           b == IF s.desk = cur THEN f ELSE o
           c == MapClient(b)
           z == SetMapStateProp(c, "Normal")
<1>1. Row(a) /\ a.order = "Normal" /\ a.mapPending /\ Same(s, a, {"order", "mapPending"})
  BY DEF Row, IsWindow, Fields, Same
<1>2. Row(o) /\ o.order = "Normal" /\ Same(s, o, {"order"})
  BY DEF Row, IsWindow, Fields, Same
<1>3. FirstMap(s, "Normal", cur) = z
  BY DEF FirstMap
<1> HIDE DEF a, o
<1>4. /\ Row(f) /\ f.frameUp /\ Same(a, f, {"frameUp", "q"})
      /\ Longer(a.q, f.q, {"FrameMapNotify"})
  BY <1>1, MapFrameDoes
<1> HIDE DEF f
<1>5. /\ Row(b) /\ b.order = "Normal" /\ Same(s, b, {"order", "mapPending", "frameUp", "q"})
      /\ (b.frameUp <=> s.frameUp \/ s.desk = cur)
      /\ (b.mapPending <=> s.mapPending \/ s.desk = cur)
      /\ Longer(s.q, b.q, {"FrameMapNotify"})
  <2>1. CASE s.desk = cur
    BY <1>1, <1>4, <2>1 DEF Same, Fields
  <2>2. CASE s.desk # cur
    BY <1>2, <2>2, LongerNone DEF Same, Fields
  <2> QED BY <2>1, <2>2
<1> HIDE DEF b
<1>6. b.exists /\ b.managed /\ b.up = s.up
  BY <1>5 DEF Same, Fields
<1>7. /\ Row(c) /\ c.up /\ Same(b, c, {"up", "q"})
      /\ Longer(b.q, c.q, {"MapNotify"}) /\ (s.up \/ Tells(c.q, {"MapNotify"}))
  BY <1>5, <1>6, MapClientDoes
<1> HIDE DEF c
<1>8. c.exists
  BY <1>6, <1>7 DEF Same, Fields
<1>9. Row(z) /\ z.prop = "Normal" /\ Same(c, z, {"prop"})
  BY <1>7, <1>8, PropDoes
<1> HIDE DEF z
<1>10. Longer(s.q, z.q, Notes) /\ (s.up \/ Tells(z.q, Notes))
  <2>1. z.q = c.q /\ s.q \in Seq(EventTypes)
    BY <1>9 DEF Same, Fields, Row
  <2>2. Longer(s.q, c.q, {"FrameMapNotify"} \cup {"MapNotify"})
    BY <1>5, <1>7, <2>1, LongerTwice
  <2>3. Longer(s.q, c.q, Notes)
    BY <2>2, LongerWider DEF Notes
  <2>4. s.up \/ Tells(c.q, Notes)
    BY <1>7 DEF Tells, Notes
  <2> QED BY <2>1, <2>3, <2>4
<1>11. Same(s, z, {"mapPending", "up", "frameUp", "prop", "order", "q"})
  BY <1>5, <1>7, <1>9 DEF Same, Fields
<1>12. z.up /\ z.order = "Normal" /\ z.frameUp = b.frameUp /\ z.mapPending = b.mapPending
  BY <1>5, <1>7, <1>9 DEF Same, Fields
<1> QED BY <1>3, <1>5, <1>9, <1>10, <1>11, <1>12 DEF Mapped

-----------------------------------------------------------------------------
(* Queues *)

(* The first event of a queue, and the rest *)
LEMMA HeadTail ==
    ASSUME NEW q \in Seq(EventTypes), q # <<>>
    PROVE  /\ Head(q) \in EventTypes /\ Tail(q) \in Seq(EventTypes)
           /\ \A A : q \in Seq(A) <=> Head(q) \in A /\ Tail(q) \in Seq(A)
           /\ \A A : Tells(q, A) <=> Head(q) \in A \/ Tells(Tail(q), A)
<1>1. /\ Len(q) \in Nat /\ Len(q) # 0 /\ DOMAIN q = 1 .. Len(q) /\ Head(q) = q[1]
      /\ Tail(q) \in Seq(EventTypes) /\ Len(Tail(q)) = Len(q) - 1
      /\ DOMAIN Tail(q) = 1 .. Len(q) - 1
      /\ \A i \in 1 .. Len(q) - 1 : Tail(q)[i] = q[i + 1]
  OBVIOUS
<1>2. \A i \in DOMAIN q : i = 1 \/ (i - 1 \in DOMAIN Tail(q) /\ Tail(q)[i - 1] = q[i])
  BY <1>1
<1>3. \A i \in DOMAIN Tail(q) : i + 1 \in DOMAIN q /\ Tail(q)[i] = q[i + 1]
  BY <1>1
<1>4. 1 \in DOMAIN q
  BY <1>1
<1>5. ASSUME NEW A PROVE q \in Seq(A) <=> Head(q) \in A /\ Tail(q) \in Seq(A)
  <2>1. ASSUME q \in Seq(A) PROVE Head(q) \in A /\ Tail(q) \in Seq(A)
    BY <1>1, <2>1
  <2>2. ASSUME Head(q) \in A, Tail(q) \in Seq(A) PROVE q \in Seq(A)
    <3>1. \A i \in DOMAIN Tail(q) : Tail(q)[i] \in A
      BY <2>2
    <3>2. \A i \in 1 .. Len(q) : q[i] \in A
      BY <1>1, <1>2, <2>2, <3>1
    <3> QED BY <1>1, <3>2
  <2> QED BY <2>1, <2>2
<1>6. ASSUME NEW A PROVE Tells(q, A) <=> Head(q) \in A \/ Tells(Tail(q), A)
  BY <1>1, <1>2, <1>3, <1>4 DEF Tells
<1> QED BY <1>1, <1>4, <1>5, <1>6

(* A queue has only events of a set. *)
LEMMA AllIn ==
    ASSUME NEW A, NEW q \in Seq(A), NEW B, \A i \in DOMAIN q : q[i] \in B
    PROVE  q \in Seq(B)
OBVIOUS

(* What the head or the rest of a queue tells, it tells. *)
LEMMA TellsFacts ==
    ASSUME NEW q \in Seq(EventTypes), NEW A, q \in Seq(A)
    PROVE  \A B : Tells(q, B) => A \cap B # {}
<1>1. \A i \in DOMAIN q : q[i] \in A
  OBVIOUS
<1> QED BY <1>1 DEF Tells

LEMMA NoFakeFacts ==
    ASSUME NEW q \in Seq(EventTypes)
    PROVE  /\ NoFake(q) \in Seq(EventTypes)
           /\ \A A : "FakeUnmapNotify" \notin A /\ q \in Seq(A) => NoFake(q) = q
           /\ \A B : "FakeUnmapNotify" \notin B => (Tells(NoFake(q), B) <=> Tells(q, B))
<1>1. CASE q = <<>>
  BY <1>1 DEF NoFake
<1>2. CASE q # <<>>
  BY <1>2, HeadTail DEF NoFake
<1> QED BY <1>1, <1>2

(* A synthetic UnmapNotify at the head stays at the head. *)
LEMMA NoFakeLonger ==
    ASSUME NEW q \in Seq(EventTypes), NEW r, NEW types, Longer(q, r, types),
           "FakeUnmapNotify" \notin types
    PROVE  Longer(NoFake(q), NoFake(r), types)
<1>1. CASE q = <<>>
  <2>1. q \in Seq({})
    BY <1>1
  <2>2. r \in Seq({} \cup types) /\ r \in Seq(EventTypes)
    BY <2>1, LongerFacts DEF Longer
  <2>3. NoFake(r) = r
    <3>1. "FakeUnmapNotify" \notin {} \cup types
      OBVIOUS
    <3> QED BY <2>2, <3>1, NoFakeFacts
  <2> QED BY <1>1, <2>3 DEF NoFake
<1>2. CASE q # <<>>
  BY <1>2, LongerFacts DEF NoFake
<1> QED BY <1>1, <1>2

(* A destroyed frame leaves the events of the client window. *)
LEMMA ClientEvents ==
    ASSUME NEW q \in Seq(EventTypes)
    PROVE  /\ q \in Seq({"MapRequestInFrame"}) => AboutClient(q) = <<>>
           /\ OneThenMaps(q, "FakeUnmapNotify") => AboutClient(q) = <<"FakeUnmapNotify">>
<1> DEFINE n == Len(q)
           frame == {"FrameMapNotify", "FrameUnmapNotify", "MapRequestInFrame"}
           D == Seq(EventTypes)
           base == <<>>
           Body(i, r) == IF q[i] \in frame THEN r ELSE Append(r, q[i])
           Is(f) == f = [i \in 0 .. n |-> IF i = 0 THEN base
                                        ELSE IF q[i] \in frame THEN f[i - 1]
                                        ELSE Append(f[i - 1], q[i])]
           kept == CHOOSE f : Is(f)
<1>1. n \in Nat /\ DOMAIN q = 1 .. n
  OBVIOUS
<1>2. AboutClient(q) = kept[n]
  BY DEF AboutClient
<1>3. base \in D
  OBVIOUS
<1>4. \A i \in 1 .. n : \A r \in D : Body(i, r) \in D
  <2> SUFFICES ASSUME NEW i \in 1 .. n, NEW r \in D PROVE Body(i, r) \in D
    OBVIOUS
  <2>1. q[i] \in EventTypes
    OBVIOUS
  <2> QED BY <2>1
<1> HIDE DEF base, n
<1>5. \E f : Is(f)
  <2> DEFINE step == [i \in 1 .. n |-> [r \in D |-> Body(i, r)]]
  <2>1. step \in Steps(D, n) /\ \A i \in 1 .. n : \A r \in D : step[i][r] = Body(i, r)
    <3> HIDE DEF Body
    <3> QED BY <1>4 DEF Steps
  <2> HIDE DEF step
  <2>2. PICK f : Iterates(f, D, base, n, step)
    <3> HIDE DEF D
    <3> QED BY <1>1, <1>3, <2>1, Recursion
  <2>3. /\ f \in [0 .. n -> D] /\ f[0] = base
        /\ \A i \in 1 .. n : f[i] = step[i][f[i - 1]]
    BY <2>2 DEF Iterates
  <2>4. ASSUME NEW i \in 0 .. n
        PROVE  f[i] = IF i = 0 THEN base ELSE Body(i, f[i - 1])
    <3>1. i # 0 => i \in 1 .. n /\ i - 1 \in 0 .. n
      BY <1>1
    <3> HIDE DEF Body
    <3> QED BY <2>1, <2>3, <3>1
  <2>5. f = [i \in 0 .. n |-> IF i = 0 THEN base ELSE Body(i, f[i - 1])]
    <3> HIDE DEF Body
    <3> QED BY <2>3, <2>4
  <2>6. Is(f)
    BY <2>5
  <2> HIDE DEF Is
  <2> QED BY <2>6
<1>6. Is(kept)
  <2> HIDE DEF Is
  <2> QED BY <1>5
<1> HIDE DEF kept
<1>7. /\ kept[0] = <<>>
      /\ \A i \in 1 .. n : kept[i] = IF q[i] \in frame THEN kept[i - 1]
                                     ELSE Append(kept[i - 1], q[i])
  <2>1. 0 \in 0 .. n /\ \A i \in 1 .. n : i \in 0 .. n /\ i # 0
    BY <1>1
  <2>2. kept[0] = base
    BY <1>6, <2>1
  <2>3. \A i \in 1 .. n : kept[i] = IF q[i] \in frame THEN kept[i - 1]
                                     ELSE Append(kept[i - 1], q[i])
    BY <1>6, <2>1
  <2> QED BY <2>2, <2>3 DEF base
<1>8. ASSUME q \in Seq({"MapRequestInFrame"}) PROVE kept[n] = <<>>
  <2> DEFINE P == {i \in 0 .. n : kept[i] = <<>>}
  <2>1. 0 \in P
    BY <1>1, <1>7
  <2>2. ASSUME NEW i \in 1 .. n, i - 1 \in P PROVE i \in P
    <3>1. q[i] = "MapRequestInFrame"
      BY <1>8 DEF n
    <3> QED BY <1>1, <1>7, <2>2, <3>1
  <2> HIDE DEF P
  <2>3. 0 .. n \subseteq P
    BY <1>1, <2>1, <2>2, UpTo
  <2> QED BY <1>1, <2>3 DEF P
<1>9. ASSUME OneThenMaps(q, "FakeUnmapNotify") PROVE kept[n] = <<"FakeUnmapNotify">>
  <2> DEFINE P == {i \in 0 .. n : i = 0 \/ kept[i] = <<"FakeUnmapNotify">>}
  <2>1. 0 \in P
    BY <1>1
  <2>2. n # 0 /\ q[1] = "FakeUnmapNotify"
    BY <1>9 DEF OneThenMaps, n
  <2>3. \A i \in 1 .. n : i # 1 => q[i] = "MapRequestInFrame"
    <3> SUFFICES ASSUME NEW i \in 1 .. n, i # 1 PROVE q[i] = "MapRequestInFrame"
      OBVIOUS
    <3>1. i - 1 \in DOMAIN Tail(q) /\ Tail(q)[i - 1] = q[i]
      BY DEF n
    <3>2. Tail(q) \in Seq({"MapRequestInFrame"})
      BY <1>9 DEF OneThenMaps
    <3> QED BY <3>1, <3>2
  <2>4. ASSUME NEW i \in 1 .. n, i - 1 \in P PROVE i \in P
    <3>1. CASE i = 1
      <4>1. q[1] \notin frame /\ 1 \in 1 .. n /\ 1 - 1 = 0
        BY <1>1, <2>2
      <4> HIDE DEF frame
      <4>2. kept[1] = Append(kept[1 - 1], q[1])
        BY <1>7, <4>1
      <4>3. kept[1] = Append(<<>>, "FakeUnmapNotify")
        BY <1>7, <2>2, <4>1, <4>2
      <4>4. kept[1] = <<"FakeUnmapNotify">>
        BY <4>3
      <4> QED BY <3>1, <4>4
    <3>2. CASE i # 1
      BY <1>1, <1>7, <2>3, <2>4, <3>2
    <3> QED BY <3>1, <3>2
  <2> HIDE DEF P
  <2>5. 0 .. n \subseteq P
    BY <1>1, <2>1, <2>4, UpTo
  <2> QED BY <1>1, <2>2, <2>5 DEF P
<1> QED BY <1>2, <1>8, <1>9

-----------------------------------------------------------------------------
(* Scenes *)

(* AddWindow of a window on desk d *)
AddedRow(s, t, d) ==
    /\ Row(t) /\ t.managed /\ ~t.mapped /\ ~t.iconified /\ ~t.iconifyPending
    /\ ~t.mapPending /\ ~t.iconifyAfterMap /\ ~t.frameUp /\ t.desk = d
    /\ Same(s, t, {"managed", "mapped", "iconified", "iconifyPending", "mapPending",
                   "iconifyAfterMap", "capture", "frameUp", "desk"})

(* AddWindow sets up the record of a window. *)
LEMMA AddWindowDoes ==
    ASSUME NEW s, Row(s), NEW d PROVE AddedRow(s, AddWindow(s, d), d)
BY DEF AddWindow, AddedRow, Row, IsWindow, Fields, Same

(* A window that fvwm maps for the first time appears. *)
LEMMA Appears ==
    ASSUME NEW s, Row(s), s.exists, ~s.up, s.wants = "map",
           NoFake(s.q) \in Seq(Maps), NEW d, NEW cur
    PROVE  LET t == FirstMap(AddWindow(s, d), "Normal", cur)
           IN  Row(t) /\ Appearing(t, cur) /\ Fair(t)
<1> DEFINE a == AddWindow(s, d)
           t == FirstMap(a, "Normal", cur)
<1>1. AddedRow(s, a, d)
  BY AddWindowDoes
<1> HIDE DEF a
<1>2. Row(a) /\ a.exists /\ a.managed /\ ~a.up /\ a.q = s.q /\ ~a.mapPending /\ ~a.frameUp
      /\ a.wants = "map" /\ ~a.mapped /\ ~a.iconified /\ ~a.iconifyPending
      /\ ~a.iconifyAfterMap
  BY <1>1 DEF AddedRow, Same, Fields
<1>3. Mapped(a, t, cur)
  BY <1>2, FirstMapDoes
<1> HIDE DEF t
<1>4. /\ Row(t) /\ t.up /\ (t.frameUp <=> a.desk = cur) /\ (t.mapPending <=> a.desk = cur)
      /\ t.prop = "Normal" /\ t.order = "Normal" /\ Longer(s.q, t.q, Notes)
      /\ Tells(t.q, Notes)
  BY <1>2, <1>3 DEF Mapped
<1>5. /\ t.exists /\ t.managed /\ t.desk = a.desk /\ t.wants = "map" /\ ~t.mapped
      /\ ~t.iconified /\ ~t.iconifyPending /\ ~t.iconifyAfterMap
  BY <1>2, <1>3 DEF Mapped, Same, Fields
<1>6. s.q \in Seq(EventTypes) /\ t.q \in Seq(EventTypes)
  BY <1>4 DEF Row
<1>7. NoFake(t.q) \in Seq(Maps \cup Notes)
  <2>1. Longer(NoFake(s.q), NoFake(t.q), Notes)
    BY <1>4, <1>6, NoFakeLonger DEF Notes
  <2>2. NoFake(s.q) \in Seq(EventTypes)
    BY <1>6, NoFakeFacts
  <2> QED BY <2>1, <2>2, LongerFacts
<1>8. NoFake(t.q) \in Seq(Maps \cup Notes \cup {"FrameUnmapNotify"})
  BY <1>7
<1>9. ~Tells(t.q, {"FrameUnmapNotify"})
  <2>1. NoFake(t.q) \in Seq(EventTypes)
    BY <1>6, NoFakeFacts
  <2>2. ~Tells(NoFake(t.q), {"FrameUnmapNotify"})
    BY <1>7, <2>1, TellsFacts DEF Maps, Notes
  <2> QED BY <1>6, <2>2, NoFakeFacts
<1> QED BY <1>4, <1>5, <1>8, <1>9 DEF Appearing, Open, Fair, t, a

(* MapNotify of a window that is no icon *)
Notified(s, t, cur) ==
    /\ Row(t) /\ t.mapped /\ ~t.iconified /\ ~t.mapPending
    /\ (t.frameUp <=> s.desk = cur)
    /\ Same(s, t, {"mapped", "iconified", "mapPending", "frameUp", "q"})
    /\ Longer(s.q, t.q, {"FrameMapNotify"})

LEMMA MapNotifiedDoes ==
    ASSUME NEW s, NEW cur, Row(s), s.managed, ~s.iconified, ~s.iconifyAfterMap,
           s.frameUp => s.desk = cur,
           s.iconifyPending => s.mapped /\ (s.frameUp <=> s.desk = cur)
    PROVE  Notified(s, MapNotified(s, cur), cur)
<1> DEFINE t == [s EXCEPT !.mapPending = FALSE]
           g == MapFrame(t)
           f == IF s.desk = cur THEN g ELSE t
           m == [f EXCEPT !.mapped = TRUE, !.iconified = FALSE]
<1>1. Row(t) /\ ~t.mapPending /\ Same(s, t, {"mapPending"})
  BY DEF Row, IsWindow, Fields, Same
<1>2. MapNotified(s, cur) = IF s.iconifyPending THEN t
                            ELSE IF m.iconifyAfterMap
                            THEN [Iconify(m) EXCEPT !.iconifyAfterMap = FALSE] ELSE m
  BY DEF MapNotified
<1> HIDE DEF t
<1>3. /\ Row(g) /\ g.frameUp /\ Same(t, g, {"frameUp", "q"})
      /\ Longer(t.q, g.q, {"FrameMapNotify"})
  BY <1>1, MapFrameDoes
<1> HIDE DEF g
<1>4. /\ Row(f) /\ ~f.mapPending /\ (f.frameUp <=> s.desk = cur)
      /\ Same(s, f, {"mapPending", "frameUp", "q"})
      /\ Longer(s.q, f.q, {"FrameMapNotify"})
  <2>1. CASE s.desk = cur
    BY <1>1, <1>3, <2>1 DEF Same, Fields
  <2>2. CASE s.desk # cur
    <3>1. t.q = s.q /\ t.frameUp = s.frameUp
      BY <1>1 DEF Same, Fields
    <3>2. Longer(s.q, t.q, {"FrameMapNotify"})
      BY <1>1, <3>1, LongerNone
    <3> QED BY <1>1, <2>2, <3>1, <3>2 DEF Same, Fields
  <2> QED BY <2>1, <2>2
<1> HIDE DEF f
<1>5. Row(m) /\ m.mapped /\ ~m.iconified /\ Same(f, m, {"mapped", "iconified"})
  BY <1>4 DEF Row, IsWindow, Fields, Same
<1> HIDE DEF m
<1>6. ~m.iconifyAfterMap
  BY <1>4, <1>5 DEF Same, Fields
<1>7. CASE ~s.iconifyPending
  <2>1. Notified(s, m, cur)
    BY <1>4, <1>5 DEF Notified, Same, Fields
  <2> QED BY <1>2, <1>6, <1>7, <2>1
<1>8. CASE s.iconifyPending
  <2>1. t.q = s.q /\ t.mapped = s.mapped /\ t.iconified = s.iconified /\ t.frameUp = s.frameUp
    BY <1>1 DEF Same, Fields
  <2>2. Longer(s.q, t.q, {"FrameMapNotify"})
    BY <2>1, LongerNone
  <2>3. Notified(s, t, cur)
    BY <1>1, <1>8, <2>1, <2>2 DEF Notified, Same, Fields
  <2> QED BY <1>2, <1>8, <2>3
<1> QED BY <1>7, <1>8

(* the oldest event leaves the queue *)
Popped(s, p) == Row(p) /\ Same(s, p, {"q"}) /\ p.q = Tail(s.q)

(* What becomes of a window is a scene again. *)
Plays(s, t, cur) == Row(t) /\ Live(t, cur) /\ (Fair(s) => Fair(t))

(* An event of a window that is not managed *)
LEMMA OutsideEvent ==
    ASSUME NEW s, NEW p, NEW d, NEW cur, Row(s), Outside(s), s.q # <<>>, Popped(s, p)
    PROVE  Plays(s, Dispatched(p, Head(s.q), d, cur), cur)
<1>1. /\ s.q \in Seq(EventTypes) /\ s.exists /\ Row(p) /\ p.q = Tail(s.q) /\ Idle(p)
      /\ p.exists /\ ~p.up /\ p.prop = s.prop /\ p.wants = s.wants /\ p.hint = "Normal"
  BY DEF Popped, Row, Outside, Idle, Same, Fields
<1>2. CASE Head(s.q) = "FakeUnmapNotify"
  <2>1. p.q \in Seq({"MapRequest"})
    BY <1>1, <1>2 DEF Outside, NoFake
  <2>2. NoFake(p.q) = p.q
    BY <2>1, NoFakeFacts, <1>1 DEF Row
  <2>3. Tells(p.q, Maps) <=> Tells(s.q, Maps)
    BY <1>1, <1>2, HeadTail DEF Maps
  <2>4. Outside(p)
    BY <1>1, <2>1, <2>2, <2>3 DEF Outside
  <2>5. Dispatched(p, "FakeUnmapNotify", d, cur) = p
    BY <1>1 DEF Dispatched, UnmapNotified, Idle
  <2> QED BY <1>1, <1>2, <2>4, <2>5 DEF Plays, Live, Fair
<1>3. CASE Head(s.q) # "FakeUnmapNotify"
  <2>1. NoFake(s.q) = s.q
    BY <1>3 DEF NoFake
  <2>2. Head(s.q) = "MapRequest" /\ p.q \in Seq({"MapRequest"})
    BY <1>1, <2>1, HeadTail DEF Outside
  <2>3. NoFake(p.q) \in Seq(Maps)
    <3>1. NoFake(p.q) = p.q
      BY <1>1, <2>2, NoFakeFacts DEF Row
    <3> QED BY <2>2, <3>1 DEF Maps
  <2>4. p.wants = "map"
    BY <1>1, <2>2, HeadTail DEF Outside, Maps
  <2> DEFINE t == FirstMap(AddWindow(p, d), "Normal", cur)
  <2>5. Row(t) /\ Appearing(t, cur) /\ Fair(t)
    BY <1>1, <2>3, <2>4, Appears
  <2>6. AddedRow(p, AddWindow(p, d), d)
    BY <1>1, AddWindowDoes
  <2>7. ~AddWindow(p, d).iconified /\ ~AddWindow(p, d).mapped /\ AddWindow(p, d).hint = "Normal"
    BY <2>6 DEF AddedRow, Row
  <2>8. Dispatched(p, "MapRequest", d, cur) = t
    BY <1>1, <2>7 DEF Dispatched, MapRequested, Idle
  <2> QED BY <2>2, <2>5, <2>8 DEF Plays, Live
<1> QED BY <1>2, <1>3

(* what waits for a window that is on the screen, or will be *)
News == Maps \cup Notes \cup {"FrameUnmapNotify"}

(* News without its oldest event is news. *)
LEMMA PoppedFacts ==
    ASSUME NEW s, NEW p, Row(s), s.q # <<>>, Popped(s, p)
    PROVE  /\ s.q \in Seq(EventTypes) /\ Row(p) /\ p.q = Tail(s.q)
           /\ p.q \in Seq(EventTypes) /\ p.hint = "Normal"
           /\ \A f \in Fields \ {"q"} : p[f] = s[f]
           /\ \A A : s.q \in Seq(A) <=> Head(s.q) \in A /\ p.q \in Seq(A)
           /\ \A A : Tells(s.q, A) <=> Head(s.q) \in A \/ Tells(p.q, A)
<1>1. /\ s.q \in Seq(EventTypes) /\ Row(p) /\ p.q = Tail(s.q)
      /\ p.q \in Seq(EventTypes) /\ p.hint = "Normal"
      /\ \A f \in Fields \ {"q"} : p[f] = s[f]
  BY DEF Popped, Row, Same
<1> QED BY <1>1, HeadTail

(* A MapNotify of the client window has been handled. *)
LEMMA Noted ==
    ASSUME NEW p, NEW cur, NEW d, NEW type \in Notes, Row(p), Open(p), p.frameUp => p.desk = cur,
           p.iconifyPending => p.mapped /\ (p.frameUp <=> p.desk = cur),
           p.desk = cur => p.prop = "Normal", p.q \in Seq(News)
    PROVE  LET t == Dispatched(p, type, d, cur)
           IN  Row(t) /\ Shown(t, cur) /\ (~Tells(p.q, {"FrameUnmapNotify"}) => Fair(t))
<1> DEFINE t == Dispatched(p, type, d, cur)
           c == [p EXCEPT !.capture = FALSE]
<1>1. Row(c) /\ Same(p, c, {"capture"})
  BY DEF Row, IsWindow, Fields, Same
<1>2. t = (IF type = "MapNotify" THEN MapNotified(p, cur) ELSE MapNotified(c, cur))
  BY DEF Dispatched, FrameMapNotified, Notes
<1> HIDE DEF t, c
<1>3. PICK r : /\ r \in {p, c} /\ t = MapNotified(r, cur)
  BY <1>2
<1>4. Row(r) /\ Same(p, r, {"capture"})
  BY <1>1, <1>3 DEF Same
<1>5. /\ r.managed /\ ~r.iconified /\ ~r.iconifyAfterMap /\ r.q = p.q
      /\ r.frameUp = p.frameUp /\ r.desk = p.desk /\ r.mapped = p.mapped
      /\ r.iconifyPending = p.iconifyPending
  BY <1>4 DEF Same, Fields, Open
<1>6. Notified(r, t, cur)
  BY <1>3, <1>4, <1>5, MapNotifiedDoes
<1>7. /\ Row(t) /\ t.mapped /\ ~t.iconified /\ ~t.mapPending
      /\ t.frameUp = (t.desk = cur) /\ t.desk = p.desk
      /\ Longer(p.q, t.q, {"FrameMapNotify"})
  BY <1>5, <1>6 DEF Notified, Row, Same, Fields
<1>8. Open(t) /\ t.prop = p.prop
  BY <1>4, <1>6, <1>7 DEF Notified, Same, Fields, Open
<1>9. p.q \in Seq(EventTypes)
  BY DEF Row
<1>10. t.q \in Seq(News)
  <2>1. t.q \in Seq(News \cup {"FrameMapNotify"})
    BY <1>7, <1>9, LongerFacts
  <2>2. News \cup {"FrameMapNotify"} = News
    BY DEF News, Notes
  <2> QED BY <2>1, <2>2
<1>11. ~Tells(p.q, {"FrameUnmapNotify"}) => ~Tells(t.q, {"FrameUnmapNotify"})
  BY <1>7, <1>9, LongerFacts
<1> QED BY <1>7, <1>8, <1>10, <1>11 DEF Shown, Fair, News, t

(* An event of a window that is shown *)
LEMMA ShownEvent ==
    ASSUME NEW s, NEW p, NEW d, NEW cur, Row(s), Shown(s, cur), s.q # <<>>, Popped(s, p)
    PROVE  Plays(s, Dispatched(p, Head(s.q), d, cur), cur)
<1>1. /\ s.q \in Seq(EventTypes) /\ Row(p) /\ p.q = Tail(s.q) /\ p.q \in Seq(EventTypes)
      /\ \A A : s.q \in Seq(A) <=> Head(s.q) \in A /\ p.q \in Seq(A)
      /\ \A A : Tells(s.q, A) <=> Head(s.q) \in A \/ Tells(p.q, A)
  BY PoppedFacts
<1>2. /\ Open(p) /\ p.mapped /\ p.frameUp = (p.desk = cur) /\ (p.frameUp => p.prop = "Normal")
      /\ p.mapPending = s.mapPending /\ s.up
  BY PoppedFacts DEF Shown, Open, Fields
<1>3. CASE s.q = <<"ChangeState">>
  <2>1. Head(s.q) = "ChangeState" /\ p.q = <<>> /\ ~p.mapPending
    <3>1. Head(<<"ChangeState">>) = "ChangeState" /\ Tail(<<"ChangeState">>) = <<>>
      OBVIOUS
    <3>2. Head(s.q) = "ChangeState" /\ p.q = <<>>
      BY <1>1, <1>3, <3>1
    <3>3. s.q \notin Seq(News)
      BY <1>1, <3>2 DEF News, Maps, Notes
    <3> QED BY <1>2, <3>2, <3>3 DEF Shown, News
  <2> DEFINE t == Iconify(p)
  <2>2. Dispatched(p, "ChangeState", d, cur) = t
    BY <1>2 DEF Dispatched, ChangeStateAsked, Open
  <2>3. Iconified(p, t)
    BY <1>1, <1>2, <2>1, IconifyDoes DEF Open
  <2> HIDE DEF t
  <2>4. Row(t) /\ ~t.up /\ t.q \in Seq({"FrameUnmapNotify"})
    <3>1. p.q \in Seq({}) /\ Longer(p.q, t.q, {"FrameUnmapNotify"})
      BY <2>1, <2>3 DEF Iconified
    <3>2. t.q \in Seq({} \cup {"FrameUnmapNotify"})
      BY <1>1, <3>1, LongerFacts
    <3> QED BY <2>3, <3>2 DEF Iconified
  <2>5. \A i \in DOMAIN t.q : t.q[i] = "FrameUnmapNotify"
    BY <2>4
  <2>6. IconQueue(t)
    BY <2>3, <2>4, <2>5 DEF IconQueue, Iconified, Maps, Notes
  <2>7. Icon(t)
    BY <1>2, <2>3, <2>6 DEF Icon, Iconified, Same, Fields, Open
  <2> QED BY <2>1, <2>2, <2>4, <2>7 DEF Plays, Live, Fair
<1>4. CASE s.q \in Seq(News)
  <2>1. Head(s.q) \in News /\ p.q \in Seq(News)
    BY <1>1, <1>4
  <2>2. CASE Head(s.q) \in Maps
    <3>1. Dispatched(p, Head(s.q), d, cur) = p
      BY <1>2, <2>2 DEF Dispatched, MapRequested, Maps, Open
    <3>2. s.mapPending => Tells(p.q, Notes)
      BY <1>1, <2>2, <1>4 DEF Shown, Maps, Notes
    <3>3. Shown(p, cur)
      BY <1>2, <2>1, <3>2 DEF Shown, News
    <3>4. Fair(s) => Fair(p)
      BY <1>1, <1>2, PoppedFacts DEF Fair, Fields
    <3> QED BY <1>1, <3>1, <3>3, <3>4 DEF Plays, Live
  <2>3. CASE Head(s.q) \in Notes
    <3> DEFINE t == Dispatched(p, Head(s.q), d, cur)
    <3>1. Row(t) /\ Shown(t, cur) /\ (~Tells(p.q, {"FrameUnmapNotify"}) => Fair(t))
      BY <1>1, <1>2, <2>1, <2>3, Noted
    <3>2. Fair(s) => Fair(t)
      BY <1>1, <1>2, <3>1 DEF Fair
    <3> QED BY <3>1, <3>2 DEF Plays, Live
  <2>4. CASE Head(s.q) = "FrameUnmapNotify"
    <3> DEFINE t == [p EXCEPT !.iconifyPending = FALSE]
    <3>1. Dispatched(p, "FrameUnmapNotify", d, cur) = t
      BY DEF Dispatched
    <3>2. Row(t) /\ Same(p, t, {"iconifyPending"})
      BY <1>1 DEF Row, IsWindow, Fields, Same
    <3> HIDE DEF t
    <3>3. /\ Open(t) /\ t.mapped /\ t.frameUp = (t.desk = cur) /\ (t.frameUp => t.prop = "Normal")
          /\ t.mapPending = s.mapPending /\ t.q = p.q
      BY <1>2, <3>2 DEF Same, Fields, Open
    <3>4. s.mapPending => Tells(p.q, Notes)
      BY <1>1, <2>4, <1>4 DEF Shown, Notes
    <3>5. Shown(t, cur)
      BY <2>1, <3>3, <3>4 DEF Shown, News
    <3>6. ~Fair(s)
      BY <1>1, <1>2, <2>4 DEF Fair
    <3> QED BY <2>4, <3>1, <3>2, <3>5, <3>6 DEF Plays, Live
  <2> QED BY <2>1, <2>2, <2>3, <2>4 DEF News
<1> QED BY <1>3, <1>4 DEF Shown, News

(* An event of a window whose MapNotify is under way *)
LEMMA AppearingEvent ==
    ASSUME NEW s, NEW p, NEW d, NEW cur, Row(s), Appearing(s, cur), s.q # <<>>, Popped(s, p)
    PROVE  Plays(s, Dispatched(p, Head(s.q), d, cur), cur)
<1>1. /\ s.q \in Seq(EventTypes) /\ Row(p) /\ p.q = Tail(s.q) /\ p.q \in Seq(EventTypes)
      /\ p.hint = "Normal"
      /\ \A A : s.q \in Seq(A) <=> Head(s.q) \in A /\ p.q \in Seq(A)
      /\ \A A : Tells(s.q, A) <=> Head(s.q) \in A \/ Tells(p.q, A)
  BY PoppedFacts
<1>2. /\ Open(p) /\ ~p.mapped /\ ~p.iconifyPending /\ (p.frameUp => p.desk = cur)
      /\ (p.desk = cur => p.prop = "Normal") /\ p.mapPending = s.mapPending
      /\ p.frameUp = s.frameUp /\ p.prop = s.prop /\ p.mapped = s.mapped /\ s.up
  BY PoppedFacts DEF Appearing, Open, Fields
<1>3. p.q \in Seq(News) /\ NoFake(p.q) = p.q
  <2>1. p.q \in Seq(News)
    <3>1. CASE Head(s.q) = "FakeUnmapNotify"
      BY <1>1, <3>1 DEF Appearing, NoFake, News
    <3>2. CASE Head(s.q) # "FakeUnmapNotify"
      <4>1. s.q \in Seq(News)
        BY <3>2 DEF Appearing, NoFake, News
      <4> QED BY <1>1, <4>1
    <3> QED BY <3>1, <3>2
  <2>2. "FakeUnmapNotify" \notin News
    BY DEF News, Maps, Notes
  <2>3. NoFake(p.q) = p.q
    BY <1>1, <2>1, <2>2, NoFakeFacts
  <2> QED BY <2>1, <2>3
<1>4. CASE Head(s.q) \in Maps \cup {"FakeUnmapNotify"}
  <2>1. /\ Tells(p.q, Notes)
        /\ Tells(s.q, {"FrameUnmapNotify"}) <=> Tells(p.q, {"FrameUnmapNotify"})
    BY <1>1, <1>4 DEF Appearing, Maps, Notes
  <2>2. Appearing(p, cur) /\ (Fair(s) => Fair(p))
    BY <1>2, <1>3, <2>1 DEF Appearing, Fair, News
  <2>3. CASE Head(s.q) = "FakeUnmapNotify" \/ p.mapPending
    <3>1. Dispatched(p, Head(s.q), d, cur) = p
      BY <1>2, <1>4, <2>3 DEF Dispatched, MapRequested, UnmapNotified, Maps, Open
    <3> QED BY <1>1, <2>2, <3>1 DEF Plays, Live
  <2>4. CASE Head(s.q) \in Maps /\ ~p.mapPending
    <3> DEFINE t == FirstMap(p, "Normal", cur)
    <3>1. Dispatched(p, Head(s.q), d, cur) = t
      BY <1>1, <1>2, <2>4 DEF Dispatched, MapRequested, Maps, Open
    <3>2. Mapped(p, t, cur)
      BY <1>1, <1>2, FirstMapDoes DEF Open
    <3> HIDE DEF t
    <3>3. /\ Row(t) /\ t.up /\ (t.frameUp <=> p.desk = cur) /\ (t.mapPending <=> p.desk = cur)
          /\ t.prop = "Normal" /\ Longer(p.q, t.q, Notes)
      BY <1>2, <2>4, <3>2 DEF Mapped
    <3>4. Open(t) /\ ~t.mapped /\ ~t.iconifyPending /\ t.desk = p.desk
      BY <1>2, <3>2 DEF Mapped, Same, Fields, Open
    <3>5. t.q \in Seq(News) /\ NoFake(t.q) = t.q
      <4>1. t.q \in Seq(News \cup Notes)
        BY <1>1, <1>3, <3>3, LongerFacts
      <4>2. News \cup Notes = News
        BY DEF News
      <4>3. t.q \in Seq(News) /\ t.q \in Seq(EventTypes)
        BY <3>3, <4>1, <4>2 DEF Row
      <4> QED BY <4>3, NoFakeFacts DEF News, Maps, Notes
    <3>6. Tells(t.q, Notes)
      BY <1>1, <2>1, <3>3, LongerFacts
    <3>7. ~Tells(p.q, {"FrameUnmapNotify"}) => ~Tells(t.q, {"FrameUnmapNotify"})
      <4>1. {"FrameUnmapNotify"} \cap Notes = {}
        BY DEF Notes
      <4>2. p.q \in Seq(EventTypes) /\ Longer(p.q, t.q, Notes)
        BY <1>1, <3>3
      <4> QED BY <4>1, <4>2, LongerFacts
    <3>8. Appearing(t, cur)
      BY <3>3, <3>4, <3>5, <3>6 DEF Appearing, News
    <3>9. Fair(s) => Fair(t)
      BY <1>2, <2>1, <3>3, <3>7 DEF Fair
    <3> QED BY <3>1, <3>3, <3>8, <3>9 DEF Plays, Live
  <2> QED BY <1>4, <2>3, <2>4
<1>5. CASE Head(s.q) \in Notes
  <2> DEFINE t == Dispatched(p, Head(s.q), d, cur)
  <2>1. Row(t) /\ Shown(t, cur) /\ (~Tells(p.q, {"FrameUnmapNotify"}) => Fair(t))
    BY <1>1, <1>2, <1>3, <1>5, Noted
  <2>2. Fair(s) => Fair(t)
    BY <1>1, <1>2, <2>1 DEF Fair
  <2> QED BY <2>1, <2>2 DEF Plays, Live
<1>6. CASE Head(s.q) = "FrameUnmapNotify"
  <2> DEFINE t == [p EXCEPT !.iconifyPending = FALSE]
  <2>1. Dispatched(p, "FrameUnmapNotify", d, cur) = t
    BY DEF Dispatched
  <2>2. Row(t) /\ Same(p, t, {"iconifyPending"}) /\ ~t.iconifyPending
    BY <1>1 DEF Row, IsWindow, Fields, Same
  <2> HIDE DEF t
  <2>3. /\ Open(t) /\ ~t.mapped /\ ~t.iconifyPending /\ (t.frameUp => t.desk = cur)
        /\ (t.desk = cur => t.prop = "Normal") /\ t.q = p.q
    BY <1>2, <2>2 DEF Same, Fields, Open
  <2>4. Tells(p.q, Notes)
    BY <1>1, <1>6 DEF Appearing, Notes
  <2>5. Appearing(t, cur)
    BY <1>3, <2>3, <2>4 DEF Appearing, News
  <2>6. ~Fair(s)
    BY <1>1, <1>2, <1>6 DEF Fair
  <2> QED BY <1>6, <2>1, <2>2, <2>5, <2>6 DEF Plays, Live
<1>7. Head(s.q) \in News \cup {"FakeUnmapNotify"}
  BY <1>1 DEF Appearing, NoFake, News
<1> QED BY <1>4, <1>5, <1>6, <1>7 DEF News

(* the window is left to itself; what waits in its queue is q *)
Released(s, t, q) ==
    /\ Row(t) /\ Idle(t) /\ t.q = q
    /\ Same(s, t, {"managed", "mapped", "iconified", "iconifyPending", "mapPending",
                   "iconifyAfterMap", "capture", "frameUp", "q"})

(* destroy_window leaves the events about the client window. *)
LEMMA DestroyWindowDoes ==
    ASSUME NEW s, Row(s), AboutClient(s.q) \in Seq(EventTypes)
    PROVE  Released(s, DestroyWindow(s), AboutClient(s.q))
<1> DEFINE u == [s EXCEPT !.q = AboutClient(s.q)]
           t == Forgotten(u)
<1>1. Row(u) /\ Same(s, u, {"q"}) /\ u.q = AboutClient(s.q)
  BY DEF Row, IsWindow, Fields, Same
<1>2. DestroyWindow(s) = t
  BY DEF DestroyWindow
<1> HIDE DEF u
<1>3. /\ Row(t) /\ Idle(t) /\ t.q = u.q
      /\ Same(u, t, {"managed", "mapped", "iconified", "iconifyPending", "mapPending",
                     "iconifyAfterMap", "capture", "frameUp"})
  BY <1>1 DEF Row, IsWindow, Fields, Same, Idle, Forgotten
<1> HIDE DEF t
<1> QED BY <1>1, <1>2, <1>3 DEF Released, Same

(* A window that fvwm does not manage is mapped at its client's request. *)
LEMMA MapsAgain ==
    ASSUME NEW s, Row(s), Idle(s), s.exists, ~s.up, s.wants = "map",
           NoFake(s.q) \in Seq(Maps), NEW d, NEW cur
    PROVE  LET t == MapRequested(s, d, cur)
           IN  Row(t) /\ Appearing(t, cur) /\ Fair(t)
<1> DEFINE a == AddWindow(s, d)
<1>1. AddedRow(s, a, d)
  BY AddWindowDoes
<1> HIDE DEF a
<1>2. ~a.iconified /\ ~a.mapped /\ a.hint = "Normal"
  BY <1>1 DEF AddedRow, Row
<1>3. MapRequested(s, d, cur) = FirstMap(a, "Normal", cur)
  BY <1>2 DEF MapRequested, Idle, a
<1> QED BY <1>3, Appears DEF a

(* The client withdraws the window, and may have mapped it again. *)
LEMMA Withdraws ==
    ASSUME NEW s, NEW d, NEW cur, Row(s), s.exists, ~s.up, s.mapped \/ s.iconified,
           \/ s.q \in Seq({"MapRequestInFrame"}) /\ (s.wants = "map" <=> s.q # <<>>)
           \/ OneThenMaps(s.q, "FakeUnmapNotify") /\ (s.wants = "map" <=> Tail(s.q) # <<>>)
    PROVE  LET t == UnmapNotified(s, d, cur)
           IN  Row(t) /\ Live(t, cur) /\ Fair(t)
<1> DEFINE w == SetMapStateProp(s, "Withdrawn")
           k == DestroyWindow(w)
           t == UnmapNotified(s, d, cur)
           kept == AboutClient(s.q)
<1>1. s.q \in Seq(EventTypes)
  BY DEF Row
<1>2. /\ kept = <<>> \/ kept = <<"FakeUnmapNotify">>
      /\ ~Has(s, "DestroyNotify")
      /\ Has(s, "MapRequestInFrame") <=> s.wants = "map"
  <2>1. CASE s.q \in Seq({"MapRequestInFrame"}) /\ (s.wants = "map" <=> s.q # <<>>)
    <3>1. \A i \in DOMAIN s.q : s.q[i] = "MapRequestInFrame"
      BY <2>1
    <3>2. s.q # <<>> => 1 \in DOMAIN s.q
      BY <1>1
    <3>3. s.q = <<>> => DOMAIN s.q = {}
      OBVIOUS
    <3>4. kept = <<>>
      BY <1>1, <2>1, ClientEvents
    <3> HIDE DEF kept
    <3> QED BY <2>1, <3>1, <3>2, <3>3, <3>4 DEF Has
  <2>2. CASE OneThenMaps(s.q, "FakeUnmapNotify") /\ (s.wants = "map" <=> Tail(s.q) # <<>>)
    <3>1. kept = <<"FakeUnmapNotify">>
      BY <1>1, <2>2, ClientEvents
    <3> HIDE DEF kept
    <3>2. /\ s.q # <<>> /\ Head(s.q) = "FakeUnmapNotify"
          /\ Tail(s.q) \in Seq({"MapRequestInFrame"})
      BY <2>2 DEF OneThenMaps
    <3>3. \A type : Has(s, type) <=> Tells(s.q, {type})
      BY DEF Has, Tells
    <3>4. \A type : Tells(s.q, {type}) <=> type = "FakeUnmapNotify" \/ Tells(Tail(s.q), {type})
      BY <1>1, <3>2, HeadTail
    <3>5. \A i \in DOMAIN Tail(s.q) : Tail(s.q)[i] = "MapRequestInFrame"
      BY <3>2
    <3>6. Tail(s.q) # <<>> => 1 \in DOMAIN Tail(s.q)
      BY <3>2
    <3>7. Tail(s.q) = <<>> => DOMAIN Tail(s.q) = {}
      OBVIOUS
    <3>8. ~Tells(Tail(s.q), {"DestroyNotify"})
      BY <3>5 DEF Tells
    <3>9. Tells(Tail(s.q), {"MapRequestInFrame"}) <=> Tail(s.q) # <<>>
      BY <3>5, <3>6, <3>7 DEF Tells
    <3> QED BY <2>2, <3>1, <3>3, <3>4, <3>8, <3>9
  <2> QED BY <2>1, <2>2
<1>3. kept \in Seq(EventTypes)
  <2>1. <<>> \in Seq(EventTypes) /\ <<"FakeUnmapNotify">> \in Seq(EventTypes)
    BY DEF EventTypes
  <2> QED BY <1>2, <2>1
<1>4. NoFake(kept) = <<>> /\ ~Tells(kept, Maps)
  <2>1. CASE kept = <<>>
    BY <2>1 DEF NoFake, Tells
  <2>2. CASE kept = <<"FakeUnmapNotify">>
    <3>1. /\ <<"FakeUnmapNotify">> # <<>> /\ Head(<<"FakeUnmapNotify">>) = "FakeUnmapNotify"
          /\ Tail(<<"FakeUnmapNotify">>) = <<>>
      OBVIOUS
    <3>2. ~Tells(<<"FakeUnmapNotify">>, Maps)
      BY DEF Tells, Maps
    <3> HIDE DEF kept
    <3> QED BY <2>2, <3>1, <3>2 DEF NoFake
  <2> QED BY <1>2, <2>1, <2>2
<1> HIDE DEF kept
<1>5. Row(w) /\ w.prop = "Withdrawn" /\ Same(s, w, {"prop"})
  BY PropDoes
<1>6. Withdrawn(s) = w
  <2>1. ~w.up
    BY <1>5 DEF Same, Fields
  <2> HIDE DEF w
  <2> QED BY <2>1 DEF Withdrawn, ToRoot, w
<1> HIDE DEF w
<1>7. AboutClient(w.q) = kept
  BY <1>5 DEF Same, Fields, kept
<1>8. Released(w, k, kept)
  BY <1>3, <1>5, <1>7, DestroyWindowDoes
<1> HIDE DEF k
<1>9. /\ Row(k) /\ Idle(k) /\ k.q = kept /\ k.exists /\ ~k.up /\ k.prop = "Withdrawn"
      /\ k.wants = s.wants
  BY <1>5, <1>8 DEF Released, Same, Fields
<1>10. t = IF s.wants = "map" THEN MapRequested(k, d, cur) ELSE k
  <2> HIDE DEF k
  <2> QED BY <1>2, <1>6 DEF UnmapNotified, k
<1>11. CASE s.wants = "map"
  <2>1. NoFake(k.q) \in Seq(Maps)
    BY <1>4, <1>9
  <2> QED BY <1>9, <1>10, <1>11, <2>1, MapsAgain DEF Live
<1>12. CASE s.wants # "map"
  <2>1. NoFake(k.q) \in Seq({"MapRequest"})
    BY <1>4, <1>9
  <2>2. Outside(k)
    BY <1>4, <1>9, <1>12, <2>1 DEF Outside
  <2>3. Row(k) /\ Live(k, cur) /\ Fair(k)
    BY <1>9, <2>2 DEF Live, Fair
  <2>4. t = k
    BY <1>10, <1>12
  <2> QED BY <2>3, <2>4
<1> QED BY <1>11, <1>12

(* An event of an icon *)
LEMMA IconEvent ==
    ASSUME NEW s, NEW p, NEW d, NEW cur, Row(s), Icon(s), s.q # <<>>, Popped(s, p)
    PROVE  Plays(s, Dispatched(p, Head(s.q), d, cur), cur)
<1> DEFINE t == Dispatched(p, Head(s.q), d, cur)
<1>1. /\ s.q \in Seq(EventTypes) /\ Row(p) /\ p.q = Tail(s.q) /\ p.q \in Seq(EventTypes)
      /\ p.hint = "Normal"
      /\ \A A : s.q \in Seq(A) <=> Head(s.q) \in A /\ p.q \in Seq(A)
      /\ \A A : Tells(s.q, A) <=> Head(s.q) \in A \/ Tells(p.q, A)
  BY PoppedFacts
<1>2. /\ p.exists /\ p.managed /\ p.iconified /\ ~p.mapped /\ ~p.up /\ ~p.frameUp
      /\ ~p.mapPending /\ ~p.iconifyAfterMap /\ p.prop = "Iconic" /\ p.order = "Iconic"
      /\ p.wants = s.wants /\ p.iconifyPending = s.iconifyPending
  BY PoppedFacts DEF Icon, Fields
<1>3. CASE IconQueue(s) /\ s.wants = "map"
  <2>1. /\ Head(s.q) \in News /\ p.q \in Seq(News)
        /\ Tells(p.q, Notes) => s.iconifyPending
        /\ Head(s.q) \in Notes => s.iconifyPending
    BY <1>1, <1>3 DEF IconQueue, News
  <2>2. /\ \A i \in DOMAIN p.q : /\ Head(s.q) \in Maps => p.q[i] \in Maps
                                 /\ Head(s.q) = "FrameUnmapNotify" => p.q[i] \notin Notes
        /\ \A i, j \in DOMAIN p.q : i < j =>
              /\ p.q[i] \in Maps => p.q[j] \in Maps
              /\ p.q[i] = "FrameUnmapNotify" => p.q[j] \notin Notes
    <3>1. /\ 1 \in DOMAIN s.q /\ Head(s.q) = s.q[1]
          /\ \A i \in DOMAIN p.q : i + 1 \in DOMAIN s.q /\ 1 < i + 1 /\ p.q[i] = s.q[i + 1]
          /\ \A i, j \in DOMAIN p.q : i < j => i + 1 < j + 1
      BY <1>1
    <3> QED BY <1>3, <3>1 DEF IconQueue
  <2>3. CASE Head(s.q) \in Maps
    <3>1. Restored(p, DeIconify(p, cur), cur)
      BY <1>1, <1>2, DeIconifyDoes
    <3>2. t = DeIconify(p, cur)
      BY <1>2, <2>3 DEF Dispatched, MapRequested, Maps
    <3> HIDE DEF t
    <3>3. /\ Row(t) /\ ~t.iconified /\ t.mapped /\ t.up /\ (t.frameUp <=> p.desk = cur)
          /\ (t.mapPending => p.desk = cur) /\ t.prop = "Normal" /\ t.order = "Normal"
          /\ Longer(p.q, t.q, Notes) /\ Tells(t.q, Notes)
      BY <3>1, <3>2 DEF Restored
    <3>4. /\ t.exists /\ t.managed /\ ~t.iconifyAfterMap /\ t.wants = "map" /\ t.desk = p.desk
      BY <1>2, <1>3, <3>1, <3>2 DEF Restored, Same, Fields
    <3>5. t.q \in Seq(Maps \cup Notes)
      <4>1. \A i \in DOMAIN p.q : p.q[i] \in Maps
        BY <2>2, <2>3
      <4>2. p.q \in Seq(Maps)
        BY <1>1, <4>1, AllIn
      <4> QED BY <1>1, <3>3, <4>2, LongerFacts
    <3>6. t.q \in Seq(News)
      BY <3>5 DEF News
    <3>7. ~Tells(t.q, {"FrameUnmapNotify"})
      <4>1. t.q \in Seq(EventTypes)
        BY <3>3 DEF Row
      <4> QED BY <3>5, <4>1, TellsFacts DEF Maps, Notes
    <3>8. Shown(t, cur)
      BY <3>3, <3>4, <3>6 DEF Shown, Open, News, Row
    <3>9. Fair(t)
      BY <3>3, <3>7 DEF Fair
    <3> QED BY <3>3, <3>8, <3>9 DEF Plays, Live, t
  <2>4. CASE Head(s.q) \in Notes \cup {"FrameUnmapNotify"}
    <3> DEFINE c == [p EXCEPT !.capture = FALSE]
               a == [p EXCEPT !.mapPending = FALSE]
               b == [c EXCEPT !.mapPending = FALSE]
               e == [p EXCEPT !.iconifyPending = FALSE]
    <3>1. /\ Row(c) /\ Row(a) /\ Row(b) /\ Row(e) /\ Same(p, c, {"capture"})
          /\ Same(p, a, {"mapPending"}) /\ ~a.mapPending
          /\ Same(p, b, {"mapPending", "capture"}) /\ ~b.mapPending
          /\ Same(p, e, {"iconifyPending"})
      BY <1>1 DEF Row, IsWindow, Fields, Same
    <3>2. c.managed /\ c.iconifyPending = p.iconifyPending
      BY <1>2, <3>1 DEF Same, Fields
    <3>3. t = CASE Head(s.q) = "MapNotify" -> a
                [] Head(s.q) = "FrameMapNotify" -> b
                [] OTHER -> e
      <4> HIDE DEF c, e
      <4>1. CASE Head(s.q) = "MapNotify"
        <5>1. s.iconifyPending
          BY <2>1, <4>1 DEF Notes
        <5> QED BY <1>2, <4>1, <5>1 DEF Dispatched, MapNotified
      <4>2. CASE Head(s.q) = "FrameMapNotify"
        <5>1. s.iconifyPending
          BY <2>1, <4>2 DEF Notes
        <5>2. t = MapNotified(c, cur)
          BY <4>2 DEF Dispatched, FrameMapNotified, c
        <5>3. MapNotified(c, cur) = b
          BY <1>2, <3>2, <5>1 DEF MapNotified
        <5> HIDE DEF t, a, b
        <5> QED BY <4>2, <5>2, <5>3
      <4>3. CASE Head(s.q) = "FrameUnmapNotify"
        BY <4>3 DEF Dispatched, e
      <4> QED BY <2>4, <4>1, <4>2, <4>3 DEF Notes
    <3> HIDE DEF t, a, b, c, e
    <3>4. /\ Row(t) /\ ~t.mapPending
          /\ Same(p, t, {"mapPending", "capture", "iconifyPending"})
          /\ Head(s.q) \in Notes => t.iconifyPending = p.iconifyPending
      BY <1>2, <2>4, <3>1, <3>3 DEF Same, Fields, Notes
    <3>5. /\ t.exists /\ t.managed /\ t.iconified /\ ~t.mapped /\ ~t.up /\ ~t.frameUp
          /\ ~t.iconifyAfterMap /\ t.prop = "Iconic" /\ t.order = "Iconic"
          /\ t.wants = "map" /\ t.q = p.q
      BY <1>2, <1>3, <3>4 DEF Same, Fields
    <3>6. Tells(t.q, Notes) => t.iconifyPending
      <4>1. CASE Head(s.q) \in Notes
        BY <1>2, <2>1, <3>4, <3>5, <4>1
      <4>2. CASE Head(s.q) = "FrameUnmapNotify"
        BY <2>2, <3>5, <4>2 DEF Tells
      <4> QED BY <2>4, <4>1, <4>2
    <3>7. IconQueue(t)
      BY <2>1, <2>2, <3>5, <3>6 DEF IconQueue, News
    <3>8. Icon(t)
      BY <3>4, <3>5, <3>7 DEF Icon
    <3> QED BY <3>4, <3>5, <3>8 DEF Plays, Live, Fair, t
  <2> QED BY <2>1, <2>3, <2>4 DEF News
<1>4. CASE OneThenMaps(s.q, "ChangeState") /\ s.wants = "map"
  <2>1. Head(s.q) = "ChangeState" /\ p.q \in Seq({"MapRequestInFrame"})
    BY <1>1, <1>4 DEF OneThenMaps
  <2>2. t = p
    BY <1>2, <2>1 DEF Dispatched, ChangeStateAsked
  <2>3. \A i \in DOMAIN p.q : p.q[i] = "MapRequestInFrame"
    BY <2>1
  <2>4. p.q \in Seq(News)
    BY <2>1 DEF News, Maps
  <2>5. ~Tells(p.q, Notes)
    BY <2>3 DEF Tells, Notes
  <2>6. IconQueue(p)
    BY <2>3, <2>4, <2>5 DEF IconQueue, News, Maps
  <2>7. Icon(p)
    BY <1>2, <1>4, <2>6 DEF Icon
  <2> QED BY <1>1, <1>2, <2>2, <2>7 DEF Plays, Live, Fair
<1>5. CASE OneThenMaps(s.q, "FakeUnmapNotify") /\ (s.wants = "map" <=> Tail(s.q) # <<>>)
  <2>1. Head(s.q) = "FakeUnmapNotify" /\ p.q \in Seq({"MapRequestInFrame"})
        /\ (p.wants = "map" <=> p.q # <<>>)
    BY <1>1, <1>2, <1>5 DEF OneThenMaps
  <2>2. t = UnmapNotified(p, d, cur)
    BY <2>1 DEF Dispatched
  <2> HIDE DEF t
  <2>3. Row(t) /\ Live(t, cur) /\ Fair(t)
    BY <1>1, <1>2, <2>1, <2>2, Withdraws
  <2> QED BY <2>3 DEF Plays, t
<1> QED BY <1>3, <1>4, <1>5 DEF Icon

(* An event of a window that its client withdraws *)
LEMMA LeavingEvent ==
    ASSUME NEW s, NEW p, NEW d, NEW cur, Row(s), Leaving(s), Popped(s, p)
    PROVE  Plays(s, Dispatched(p, Head(s.q), d, cur), cur)
<1>1. /\ p.exists /\ ~p.up /\ p.mapped /\ p.q = Tail(s.q) /\ p.wants = s.wants /\ Row(p)
  BY DEF Popped, Leaving, Same, Fields
<1>2. /\ Head(s.q) = "UnmapNotify" /\ OneThenMaps(p.q, "FakeUnmapNotify")
      /\ p.wants = "map" <=> Tail(p.q) # <<>>
  BY <1>1 DEF Leaving
<1> DEFINE t == UnmapNotified(p, d, cur)
<1>3. Dispatched(p, "UnmapNotify", d, cur) = t
  BY DEF Dispatched
<1>4. Row(t) /\ Live(t, cur) /\ Fair(t)
  BY <1>1, <1>2, Withdraws
<1> HIDE DEF t
<1> QED BY <1>2, <1>3, <1>4 DEF Plays

(* A destroyed window is not managed. *)
LEMMA DestroyedOutside ==
    ASSUME NEW s, Row(s), s.q = <<>>, ~s.exists, ~s.up, s.prop = "None", s.wants = "withdraw",
           NEW cur
    PROVE  LET t == DestroyWindow(s) IN Row(t) /\ Live(t, cur) /\ Fair(t)
<1> DEFINE t == DestroyWindow(s)
<1>1. s.q \in Seq({"MapRequestInFrame"}) /\ s.q \in Seq(EventTypes)
  OBVIOUS
<1>2. AboutClient(s.q) = <<>>
  BY <1>1, ClientEvents
<1>3. Released(s, t, <<>>)
  <2>1. AboutClient(s.q) \in Seq(EventTypes)
    <3>1. <<>> \in Seq(EventTypes)
      OBVIOUS
    <3> QED BY <1>2, <3>1
  <2>2. Released(s, t, AboutClient(s.q))
    BY <2>1, DestroyWindowDoes
  <2> HIDE DEF t
  <2> QED BY <1>2, <2>2
<1> HIDE DEF t
<1>4. /\ Row(t) /\ Idle(t) /\ t.q = <<>> /\ ~t.up /\ t.prop = "None" /\ t.wants = "withdraw"
  BY <1>3 DEF Released, Same, Fields
<1>5. NoFake(t.q) \in Seq({"MapRequest"}) /\ ~Tells(t.q, Maps)
  BY <1>4 DEF NoFake, Tells
<1>6. Outside(t)
  BY <1>4, <1>5 DEF Outside
<1> QED BY <1>4, <1>6 DEF Live, Fair, t

(* The only event is taken out. *)
LEMMA OneOut == ASSUME NEW e PROVE RemoveFirst(<<e>>, e) = <<>>
<1> DEFINE s == <<e>>
           I == {i \in 1 .. Len(s) : s[i] = e}
<1>1. I = {1} /\ Len(s) = 1 /\ s[1] = e
  OBVIOUS
<1>2. Min(I) = 1
  BY <1>1 DEF Min
<1>3. RemoveFirst(s, e) = RemoveAt(s, Min(I))
  <2> HIDE DEF s
  <2> QED BY <1>1 DEF RemoveFirst, SelectInSeq
<1>4. RemoveAt(s, 1) = <<>>
  BY DEF RemoveAt
<1> QED BY <1>2, <1>3, <1>4

(* An event of a window that is gone *)
LEMMA DyingEvent ==
    ASSUME NEW s, NEW p, NEW d, NEW cur, Row(s), Dying(s), Popped(s, p)
    PROVE  Plays(s, Dispatched(p, Head(s.q), d, cur), cur)
<1>1. /\ ~p.exists /\ p.managed /\ ~p.up /\ p.prop = "None" /\ p.wants = "withdraw"
      /\ p.mapped = s.mapped /\ p.iconified = s.iconified /\ p.q = Tail(s.q) /\ Row(p)
  BY DEF Popped, Dying, Same, Fields
<1>2. /\ Tail(<<"UnmapNotify", "DestroyNotify">>) = <<"DestroyNotify">>
      /\ Head(<<"UnmapNotify", "DestroyNotify">>) = "UnmapNotify"
      /\ Tail(<<"DestroyNotify">>) = <<>> /\ Head(<<"DestroyNotify">>) = "DestroyNotify"
  OBVIOUS
<1>3. CASE s.mapped /\ s.q = <<"UnmapNotify", "DestroyNotify">>
  <2>1. Head(s.q) = "UnmapNotify" /\ p.q = <<"DestroyNotify">>
    BY <1>1, <1>2, <1>3
  <2> DEFINE k == Take(p, "DestroyNotify")
  <2>2. Row(k) /\ Same(p, k, {"q"}) /\ k.q = <<>>
    <3>1. RemoveFirst(p.q, "DestroyNotify") = <<>>
      BY <2>1, OneOut
    <3>2. k = [p EXCEPT !.q = <<>>]
      BY <3>1 DEF Take
    <3> HIDE DEF k
    <3>3. IsWindow(k) /\ Same(p, k, {"q"}) /\ k.q = <<>>
      BY <1>1, <3>2 DEF Row, IsWindow, Fields, Same
    <3>4. <<>> \in Seq(EventTypes)
      OBVIOUS
    <3> QED BY <1>1, <3>3, <3>4 DEF Row, Same, Fields
  <2>3. Has(p, "DestroyNotify")
    BY <2>1 DEF Has
  <2>4. Dispatched(p, "UnmapNotify", d, cur) = DestroyWindow(k)
    <3> HIDE DEF k
    <3> QED BY <1>1, <1>3, <2>3 DEF Dispatched, UnmapNotified, k
  <2> HIDE DEF k
  <2>5. ~k.exists /\ ~k.up /\ k.prop = "None" /\ k.wants = "withdraw"
    BY <1>1, <2>2 DEF Same, Fields
  <2>6. /\ Row(DestroyWindow(k)) /\ Live(DestroyWindow(k), cur) /\ Fair(DestroyWindow(k))
    BY <2>2, <2>5, DestroyedOutside
  <2> QED BY <2>1, <2>4, <2>6 DEF Plays
<1>4. CASE s.q = <<"DestroyNotify">>
  <2>1. Head(s.q) = "DestroyNotify" /\ p.q = <<>>
    BY <1>1, <1>2, <1>4
  <2>2. Dispatched(p, "DestroyNotify", d, cur) = DestroyWindow(p)
    BY <1>1 DEF Dispatched, DestroyNotified
  <2>3. /\ Row(DestroyWindow(p)) /\ Live(DestroyWindow(p), cur) /\ Fair(DestroyWindow(p))
    BY <1>1, <2>1, DestroyedOutside
  <2> QED BY <2>1, <2>2, <2>3 DEF Plays
<1> QED BY <1>3, <1>4 DEF Dying

(* Handling the oldest event leads from scene to scene. *)
LEMMA LiveEvent ==
    ASSUME NEW s, NEW p, NEW d, NEW cur, Row(s), Live(s, cur), s.q # <<>>, Popped(s, p)
    PROVE  Plays(s, Dispatched(p, Head(s.q), d, cur), cur)
BY OutsideEvent, AppearingEvent, ShownEvent, IconEvent, LeavingEvent, DyingEvent DEF Live

(* When nothing waits, what is known before the first command is. *)
LEMMA EmptyFair ==
    ASSUME NEW s, NEW cur, Live(s, cur), s.q = <<>> PROVE Fair(s)
<1>1. \A A : ~Tells(s.q, A)
  BY DEF Tells
<1>2. s.q # <<"ChangeState">> /\ ~OneThenMaps(s.q, "FakeUnmapNotify")
  BY DEF OneThenMaps
<1> QED BY <1>1, <1>2 DEF Live, Fair, Outside, Appearing, Shown, Open, Icon, Leaving, Dying

-----------------------------------------------------------------------------
(* Commands *)

(* a window on the screen, or on its way there, that no request waits for *)
Present(s) ==
    /\ Row(s) /\ Open(s) /\ s.q \in Seq(Notes) /\ (s.mapPending => Tells(s.q, Notes))
    /\ ~s.mapped => ~s.iconifyPending /\ Tells(s.q, Notes) /\ s.prop = "Normal"

(* A window that no request waits for is present, an icon or outside. *)
LEMMA NoRequest ==
    ASSUME NEW s, NEW cur, Row(s), Live(s, cur), Fair(s), ~RequestWaits(s)
    PROVE  \/ Outside(s) /\ s.q = <<>>
           \/ Icon(s) /\ IconQueue(s) /\ s.wants = "map"
           \/ /\ Present(s) /\ (s.frameUp => s.desk = cur)
              /\ s.mapPending => Viewable(s)
              /\ s.mapped => s.frameUp = (s.desk = cur)
              /\ s.desk = cur => s.prop = "Normal"
<1>1. ~Tells(s.q, Requests) /\ s.q \in Seq(EventTypes)
  BY DEF RequestWaits, Has, Tells, Row
<1>2. \A i \in DOMAIN s.q : s.q[i] \notin Requests
  BY <1>1 DEF Tells
<1>3. s.q # <<>> => Head(s.q) \notin Requests /\ 1 \in DOMAIN s.q
  BY <1>1, <1>2
<1>4. NoFake(s.q) = s.q
  BY <1>3 DEF NoFake, Requests
<1>5. CASE Outside(s)
  <2>1. s.q = <<>>
    BY <1>1, <1>3, <1>4, <1>5 DEF Outside, Requests
  <2> QED BY <1>5, <2>1
<1>6. CASE Icon(s)
  BY <1>3, <1>6 DEF Icon, OneThenMaps, Requests
<1>7. CASE Appearing(s, cur) \/ Shown(s, cur)
  <2>1. s.q # <<"ChangeState">>
    <3>1. <<"ChangeState">> # <<>> /\ Head(<<"ChangeState">>) = "ChangeState"
      OBVIOUS
    <3> QED BY <1>3, <3>1 DEF Requests
  <2>2. s.q \in Seq(News)
    BY <1>4, <1>7, <2>1 DEF Appearing, Shown, News
  <2>3. \A i \in DOMAIN s.q : s.q[i] # "FrameUnmapNotify"
    BY <1>7 DEF Appearing, Shown, Open, Fair, Tells
  <2>4. \A i \in DOMAIN s.q : s.q[i] \in News
    BY <2>2
  <2>5. \A i \in DOMAIN s.q : s.q[i] \in Notes
    BY <1>2, <2>3, <2>4 DEF News, Maps, Requests
  <2>6. s.q \in Seq(Notes)
    BY <1>1, <2>5, AllIn
  <2> QED BY <1>7, <2>1, <2>6 DEF Appearing, Shown, Open, Fair, Present, Viewable
<1>8. ~Leaving(s) /\ ~Dying(s)
  <2>1. /\ <<"UnmapNotify", "DestroyNotify">> # <<>> /\ <<"DestroyNotify">> # <<>>
        /\ Head(<<"UnmapNotify", "DestroyNotify">>) = "UnmapNotify"
        /\ Head(<<"DestroyNotify">>) = "DestroyNotify"
    OBVIOUS
  <2> QED BY <1>3, <2>1 DEF Leaving, Dying, Requests
<1> QED BY <1>5, <1>6, <1>7, <1>8 DEF Live

(* Iconify makes an icon. *)
LEMMA IconifiedIcon ==
    ASSUME NEW s, NEW t, Row(s), s.exists, s.managed, ~s.iconifyAfterMap, s.wants = "map",
           Iconified(s, t), s.q \in Seq(Notes)
    PROVE  Icon(t) /\ Fair(t)
<1>1. /\ s.q \in Seq(EventTypes) /\ Longer(s.q, t.q, {"FrameUnmapNotify"})
      /\ t.q \in Seq(EventTypes) /\ t.iconifyPending /\ ~t.up
  BY DEF Iconified, Row
<1>2. t.q \in Seq(Notes \cup {"FrameUnmapNotify"})
  BY <1>1, LongerFacts
<1>3. t.q \in Seq(News)
  BY <1>2 DEF News
<1>4. \A i \in DOMAIN t.q : /\ i \in DOMAIN s.q => t.q[i] \in Notes
                            /\ i \notin DOMAIN s.q => t.q[i] = "FrameUnmapNotify"
  BY <1>1 DEF Longer
<1>5. \A i, j \in DOMAIN t.q : i < j =>
          /\ t.q[i] \in Maps => t.q[j] \in Maps
          /\ t.q[i] = "FrameUnmapNotify" => t.q[j] \notin Notes
  <2>1. \A i \in DOMAIN t.q : t.q[i] \notin Maps
    BY <1>4 DEF Maps, Notes
  <2>2. ASSUME NEW i \in DOMAIN t.q, NEW j \in DOMAIN t.q, i < j, t.q[i] = "FrameUnmapNotify"
        PROVE  t.q[j] \notin Notes
    <3>1. i \notin DOMAIN s.q
      BY <1>4, <2>2 DEF Notes
    <3>2. j \notin DOMAIN s.q
      BY <1>1, <2>2, <3>1
    <3> QED BY <1>4, <3>2 DEF Notes
  <2> QED BY <2>1, <2>2
<1>6. IconQueue(t)
  BY <1>1, <1>3, <1>5 DEF IconQueue, News
<1> QED BY <1>1, <1>6 DEF Icon, Iconified, Same, Fields, Fair

(* The command Iconify leads from scene to scene. *)
LEMMA IconifyToggles ==
    ASSUME NEW s, NEW cur, Row(s), Live(s, cur), Fair(s), ~RequestWaits(s), s.managed
    PROVE  LET t == IF s.iconified THEN DeIconify(s, cur) ELSE Iconify(s)
           IN  Row(t) /\ Live(t, cur)
<1> DEFINE t == IF s.iconified THEN DeIconify(s, cur) ELSE Iconify(s)
<1>1. ~Outside(s)
  BY DEF Outside, Idle
<1>2. CASE Icon(s) /\ IconQueue(s) /\ s.wants = "map"
  <2>1. /\ s.exists /\ s.managed /\ s.iconified /\ ~s.up /\ ~s.frameUp /\ ~s.mapPending
        /\ ~s.iconifyAfterMap
    BY <1>2 DEF Icon
  <2>2. Restored(s, DeIconify(s, cur), cur)
    BY <2>1, DeIconifyDoes
  <2>3. t = DeIconify(s, cur)
    BY <2>1
  <2> HIDE DEF t
  <2>4. /\ Row(t) /\ ~t.iconified /\ t.mapped /\ t.up /\ (t.frameUp <=> s.desk = cur)
        /\ (t.mapPending => s.desk = cur) /\ t.prop = "Normal" /\ t.order = "Normal"
        /\ Longer(s.q, t.q, Notes) /\ Tells(t.q, Notes)
    BY <2>2, <2>3 DEF Restored
  <2>5. /\ t.exists /\ t.managed /\ ~t.iconifyAfterMap /\ t.wants = "map" /\ t.desk = s.desk
    BY <1>2, <2>1, <2>2, <2>3 DEF Restored, Same, Fields
  <2>6. t.q \in Seq(News)
    <3>1. s.q \in Seq(EventTypes) /\ s.q \in Seq(News)
      BY <1>2 DEF IconQueue, Row, News
    <3>2. t.q \in Seq(News \cup Notes)
      BY <2>4, <3>1, LongerFacts
    <3>3. News \cup Notes = News
      BY DEF News
    <3> QED BY <3>2, <3>3
  <2>7. Shown(t, cur)
    BY <2>4, <2>5, <2>6 DEF Shown, Open, News, Row
  <2> QED BY <2>4, <2>7 DEF Live, t
<1>3. CASE Present(s) /\ (s.mapPending => Viewable(s))
  <2>1. /\ s.exists /\ s.managed /\ ~s.iconified /\ ~s.iconifyAfterMap /\ s.wants = "map"
        /\ s.q \in Seq(Notes)
    BY <1>3 DEF Present, Open
  <2>2. Iconified(s, Iconify(s))
    BY <1>3, <2>1, IconifyDoes
  <2>3. t = Iconify(s)
    BY <2>1
  <2>4. Icon(Iconify(s)) /\ Row(Iconify(s))
    BY <2>1, <2>2, IconifiedIcon DEF Iconified
  <2> QED BY <2>3, <2>4 DEF Live
<1> QED BY <1>1, <1>2, <1>3, NoRequest

(* A window leaves the screen with its desk. *)
LEMMA Lowered ==
    ASSUME NEW s, NEW cur, Present(s), s.desk # cur
    PROVE  Row(UnmapWindow(s)) /\ Live(UnmapWindow(s), cur)
<1> DEFINE u == UnmapFrame(s)
           t == SetMapStateProp(u, "Iconic")
<1>1. UnmapWindow(s) = t
  BY DEF UnmapWindow, Present, Open
<1>2. /\ Row(u) /\ ~u.frameUp /\ Same(s, u, {"frameUp", "q"})
      /\ Longer(s.q, u.q, {"FrameUnmapNotify"})
  BY UnmapFrameDoes DEF Present
<1> HIDE DEF u
<1>3. u.exists
  BY <1>2 DEF Same, Fields, Present, Open
<1>4. Row(t) /\ t.prop = "Iconic" /\ Same(u, t, {"prop"})
  BY <1>2, <1>3, PropDoes
<1> HIDE DEF t
<1>5. /\ Open(t) /\ ~t.frameUp /\ t.desk = s.desk /\ t.mapped = s.mapped
      /\ t.iconifyPending = s.iconifyPending /\ t.mapPending = s.mapPending
      /\ t.q = u.q
  BY <1>2, <1>4 DEF Same, Fields, Present, Open
<1>6. t.q \in Seq(News) /\ NoFake(t.q) = t.q /\ (Tells(s.q, Notes) => Tells(t.q, Notes))
  <2>1. s.q \in Seq(EventTypes) /\ s.q \in Seq(Notes) /\ Longer(s.q, t.q, {"FrameUnmapNotify"})
        /\ t.q \in Seq(EventTypes)
    BY <1>2, <1>4, <1>5 DEF Present, Row
  <2>2. t.q \in Seq(Notes \cup {"FrameUnmapNotify"})
    BY <2>1, LongerFacts
  <2>3. t.q \in Seq(News)
    BY <2>2 DEF News
  <2>4. Tells(s.q, Notes) => Tells(t.q, Notes)
    BY <2>1, LongerFacts
  <2> QED BY <2>1, <2>3, <2>4, NoFakeFacts DEF News, Maps, Notes
<1>7. CASE s.mapped
  <2>1. Shown(t, cur)
    BY <1>4, <1>5, <1>6, <1>7 DEF Shown, News, Present, Row
  <2> QED BY <1>1, <1>4, <2>1 DEF Live
<1>8. CASE ~s.mapped
  <2>1. Appearing(t, cur)
    BY <1>4, <1>5, <1>6, <1>8 DEF Appearing, News, Present
  <2> QED BY <1>1, <1>4, <2>1 DEF Live
<1> QED BY <1>7, <1>8

(* A present window is in a scene. *)
LEMMA PresentStays ==
    ASSUME NEW s, NEW cur, Present(s), s.frameUp => s.desk = cur,
           s.mapped => s.frameUp = (s.desk = cur) /\ (s.frameUp => s.prop = "Normal")
    PROVE  Live(s, cur)
<1>1. s.q \in Seq(News) /\ NoFake(s.q) = s.q
  <2>1. s.q \in Seq(EventTypes) /\ s.q \in Seq(News)
    BY DEF Present, Row, News
  <2> QED BY <2>1, NoFakeFacts DEF News, Maps, Notes
<1>2. CASE s.mapped
  BY <1>1, <1>2 DEF Live, Shown, Present, News
<1>3. CASE ~s.mapped
  BY <1>1, <1>3 DEF Live, Appearing, Present, News
<1> QED BY <1>2, <1>3

(* A window comes to the screen with its desk. *)
LEMMA Raised ==
    ASSUME NEW s, NEW cur, Present(s), s.desk = cur
    PROVE  Row(MapWindow(s)) /\ Live(MapWindow(s), cur)
<1>1. CASE ~s.mapped
  <2>1. MapWindow(s) = s
    BY <1>1 DEF MapWindow
  <2> QED BY <1>1, <2>1, PresentStays DEF Present
<1>2. CASE s.mapped
  <2> DEFINE u == MapFrame(s)
             t == SetMapStateProp(u, "Normal")
  <2>1. MapWindow(s) = t
    BY <1>2 DEF MapWindow, Present, Open
  <2>2. /\ Row(u) /\ u.frameUp /\ Same(s, u, {"frameUp", "q"})
        /\ Longer(s.q, u.q, {"FrameMapNotify"})
    BY MapFrameDoes DEF Present
  <2> HIDE DEF u
  <2>3. u.exists
    BY <2>2 DEF Same, Fields, Present, Open
  <2>4. Row(t) /\ t.prop = "Normal" /\ Same(u, t, {"prop"})
    BY <2>2, <2>3, PropDoes
  <2> HIDE DEF t
  <2>5. /\ Open(t) /\ t.frameUp /\ t.desk = s.desk /\ t.mapped
        /\ t.mapPending = s.mapPending /\ t.q = u.q
    BY <1>2, <2>2, <2>4 DEF Same, Fields, Present, Open
  <2>6. t.q \in Seq(Notes) /\ (Tells(s.q, Notes) => Tells(t.q, Notes))
    <3>1. s.q \in Seq(EventTypes) /\ s.q \in Seq(Notes) /\ Longer(s.q, t.q, {"FrameMapNotify"})
      BY <2>2, <2>5 DEF Present, Row
    <3>2. t.q \in Seq(Notes \cup {"FrameMapNotify"})
      BY <3>1, LongerFacts
    <3>3. Notes \cup {"FrameMapNotify"} = Notes
      BY DEF Notes
    <3>4. Tells(s.q, Notes) => Tells(t.q, Notes)
      BY <3>1, LongerFacts
    <3> QED BY <3>2, <3>3, <3>4
  <2>7. Present(t)
    BY <2>4, <2>5, <2>6 DEF Present
  <2>8. Live(t, cur)
    BY <2>4, <2>5, <2>7, PresentStays DEF Row
  <2> QED BY <2>1, <2>4, <2>8
<1> QED BY <1>1, <1>2

(* A switch of the desk leads from scene to scene. *)
LEMMA DeskSwitchedScene ==
    ASSUME NEW s, NEW from, NEW to, from # to, Row(s), Live(s, from), Fair(s), ~RequestWaits(s)
    PROVE  Row(DeskSwitched(s, from, to)) /\ Live(DeskSwitched(s, from, to), to)
<1>1. CASE Outside(s) \/ Icon(s)
  <2>1. DeskSwitched(s, from, to) = s
    BY <1>1 DEF DeskSwitched, UnmapWindow, MapWindow, Outside, Idle, Icon
  <2> QED BY <1>1, <2>1 DEF Live
<1>2. CASE Present(s) /\ (s.frameUp => s.desk = from) /\ (s.mapped => s.frameUp = (s.desk = from))
  <2>1. CASE s.desk = from
    BY <1>2, <2>1, Lowered DEF DeskSwitched
  <2>2. CASE s.desk = to
    BY <1>2, <2>2, Raised DEF DeskSwitched
  <2>3. CASE s.desk # from /\ s.desk # to
    <3>1. DeskSwitched(s, from, to) = s
      BY <2>3 DEF DeskSwitched
    <3>2. ~s.frameUp /\ (s.mapped => s.frameUp = (s.desk = to))
      BY <1>2, <2>3
    <3>3. Live(s, to)
      BY <1>2, <3>2, PresentStays
    <3> QED BY <3>1, <3>3
  <2> QED BY <2>1, <2>2, <2>3
<1> QED BY <1>1, <1>2, NoRequest

(* A move to another desk leads from scene to scene. *)
LEMMA MovedScene ==
    ASSUME NEW s, NEW cur, NEW d, d # s.desk, Row(s), Live(s, cur), Fair(s), ~RequestWaits(s)
    PROVE  LET t == [s EXCEPT !.desk = d]
               u == IF s.desk = cur THEN UnmapWindow(t)
                    ELSE IF d = cur THEN MapWindow(t) ELSE t
           IN  Row(u) /\ Live(u, cur)
<1> DEFINE t == [s EXCEPT !.desk = d]
           u == IF s.desk = cur THEN UnmapWindow(t) ELSE IF d = cur THEN MapWindow(t) ELSE t
<1>1. Row(t) /\ Same(s, t, {"desk"}) /\ t.desk = d
  BY DEF Row, IsWindow, Fields, Same
<1> HIDE DEF t
<1>2. CASE Outside(s)
  <2>1. Outside(t)
    BY <1>1, <1>2 DEF Outside, Idle, Same, Fields
  <2>2. u = t
    BY <2>1 DEF Outside, Idle, UnmapWindow, MapWindow
  <2> QED BY <1>1, <2>1, <2>2 DEF Live, t
<1>3. CASE Icon(s)
  <2>1. Icon(t)
    BY <1>1, <1>3 DEF Icon, IconQueue, Same, Fields
  <2>2. u = t
    BY <2>1 DEF Icon, UnmapWindow, MapWindow
  <2> QED BY <1>1, <2>1, <2>2 DEF Live, t
<1>4. CASE Present(s) /\ (s.frameUp => s.desk = cur) /\ (s.mapped => s.frameUp = (s.desk = cur))
  <2>1. /\ Present(t) /\ t.frameUp = s.frameUp /\ t.mapped = s.mapped
    BY <1>1, <1>4 DEF Present, Open, Same, Fields
  <2>2. CASE s.desk = cur
    <3>1. Row(UnmapWindow(t)) /\ Live(UnmapWindow(t), cur)
      BY <1>1, <2>1, <2>2, Lowered
    <3> QED BY <2>2, <3>1 DEF t
  <2>3. CASE s.desk # cur /\ d = cur
    <3>1. Row(MapWindow(t)) /\ Live(MapWindow(t), cur)
      BY <1>1, <2>1, <2>3, Raised
    <3> QED BY <2>3, <3>1 DEF t
  <2>4. CASE s.desk # cur /\ d # cur
    <3>1. ~t.frameUp /\ (t.mapped => t.frameUp = (t.desk = cur))
      BY <1>1, <1>4, <2>1, <2>4
    <3>2. Live(t, cur)
      BY <2>1, <3>1, PresentStays
    <3> QED BY <1>1, <2>4, <3>2 DEF t
  <2> QED BY <2>2, <2>3, <2>4
<1> QED BY <1>2, <1>3, <1>4, NoRequest

-----------------------------------------------------------------------------
(* Clients *)

(* A request or an event joins the queue. *)
LEMMA TellDoes ==
    ASSUME NEW s, Row(s), NEW type \in EventTypes
    PROVE  LET t == Tell(s, type)
           IN  /\ Row(t) /\ Same(s, t, {"q"}) /\ t.q = Append(s.q, type)
               /\ Longer(s.q, t.q, {type}) /\ Tells(t.q, {type}) /\ t.q # <<>>
<1> DEFINE t == Tell(s, type)
<1>1. s.q \in Seq(EventTypes) /\ Append(s.q, type) \in Seq(EventTypes)
      /\ Append(s.q, type) # <<>>
  BY DEF Row
<1>2. t = [s EXCEPT !.q = Append(s.q, type)]
  BY DEF Tell
<1> HIDE DEF t
<1>3. IsWindow(t) /\ Same(s, t, {"q"}) /\ t.q = Append(s.q, type)
  BY <1>2 DEF Row, IsWindow, Fields, Same
<1>4. Row(t)
  BY <1>1, <1>3 DEF Row, Same, Fields
<1>5. Longer(s.q, t.q, {type}) /\ Tells(t.q, {type})
  BY <1>1, <1>3, LongerMore
<1> QED BY <1>1, <1>3, <1>4, <1>5 DEF t

(* The client remembers its last request. *)
LEMMA AsksDoes ==
    ASSUME NEW s, Row(s), NEW what
    PROVE  LET t == Asks(s, what)
           IN  Row(t) /\ Same(s, t, {"wants", "asked"}) /\ t.wants = what
BY DEF Asks, Row, IsWindow, Fields, Same

(* MapRequestInFrame joins the queue of an icon, or of a window the client
   has withdrawn *)
LEMMA OneThenMore ==
    ASSUME NEW q \in Seq(EventTypes), NEW type \in EventTypes, NEW r, OneThenMaps(q, type),
           Longer(q, r, {"MapRequestInFrame"})
    PROVE  OneThenMaps(r, type)
<1>1. /\ r # <<>> /\ Head(r) = type /\ Tail(q) \in Seq({"MapRequestInFrame"})
      /\ Longer(Tail(q), Tail(r), {"MapRequestInFrame"}) /\ Tail(q) \in Seq(EventTypes)
  BY LongerFacts DEF OneThenMaps
<1>2. Tail(r) \in Seq({"MapRequestInFrame"} \cup {"MapRequestInFrame"})
  BY <1>1, LongerFacts
<1> QED BY <1>1, <1>2 DEF OneThenMaps

(* A request joins the queue of an icon. *)
LEMMA IconQueueMore ==
    ASSUME NEW s, NEW t, Row(s), IconQueue(s), t.iconifyPending = s.iconifyPending,
           Longer(s.q, t.q, {"MapRequestInFrame"})
    PROVE  IconQueue(t)
<1>1. s.q \in Seq(EventTypes) /\ t.q \in Seq(EventTypes) /\ s.q \in Seq(News)
  BY DEF Row, IconQueue, Longer, News
<1>2. t.q \in Seq(News)
  <2>1. t.q \in Seq(News \cup {"MapRequestInFrame"})
    BY <1>1, LongerFacts
  <2>2. News \cup {"MapRequestInFrame"} = News
    BY DEF News, Maps
  <2> QED BY <2>1, <2>2
<1>3. Tells(t.q, Notes) => t.iconifyPending
  <2>1. Notes \cap {"MapRequestInFrame"} = {}
    BY DEF Notes
  <2>2. Tells(t.q, Notes) => Tells(s.q, Notes)
    BY <1>1, <2>1, LongerFacts
  <2> QED BY <2>2 DEF IconQueue
<1>4. ASSUME NEW i \in DOMAIN t.q, NEW j \in DOMAIN t.q, i < j
      PROVE  /\ t.q[i] \in Maps => t.q[j] \in Maps
             /\ t.q[i] = "FrameUnmapNotify" => t.q[j] \notin Notes
  <2>1. CASE j \in DOMAIN s.q
    <3>1. i \in DOMAIN s.q
      BY <1>1, <1>4, <2>1
    <3>2. t.q[i] = s.q[i] /\ t.q[j] = s.q[j]
      BY <2>1, <3>1 DEF Longer
    <3> QED BY <1>4, <2>1, <3>1, <3>2 DEF IconQueue
  <2>2. CASE j \notin DOMAIN s.q
    <3>1. t.q[j] = "MapRequestInFrame"
      BY <2>2 DEF Longer
    <3> QED BY <3>1 DEF Maps, Notes
  <2> QED BY <2>1, <2>2
<1> QED BY <1>2, <1>3, <1>4 DEF IconQueue, News

(* Small queues *)
LEMMA TwoEvents == ASSUME NEW a, NEW b PROVE Append(<<a>>, b) = <<a, b>>
<1> DEFINE S == {a, b} p == <<a>>  q == <<a, b>>  r == Append(p, b)
<1>1. a \in S /\ b \in S
  OBVIOUS
<1> HIDE DEF S
<1>2. p \in Seq(S) /\ q \in Seq(S) /\ Len(p) = 1 /\ Len(q) = 2
      /\ q[1] = a /\ q[2] = b /\ p[1] = a
  BY <1>1
<1> HIDE DEF p, q
<1>3. r \in Seq(S) /\ Len(r) = 2 /\ r[1] = a /\ r[2] = b
  <2>1. 1 \in 1 .. Len(p) /\ Len(p) + 1 = 2
    BY <1>2
  <2>2. /\ r \in Seq(S) /\ Len(r) = Len(p) + 1 /\ r[Len(p) + 1] = b
        /\ \A i \in 1 .. Len(p) : r[i] = p[i]
    <3>1. p \in Seq(S) /\ b \in S
      BY <1>1, <1>2
    <3> QED BY ONLY <3>1, AppendFacts DEF r
  <2> HIDE DEF r
  <2> QED BY <1>2, <2>1, <2>2
<1> HIDE DEF r
<1>4. r = q
  BY <1>2, <1>3
<1> QED BY <1>4 DEF p, q, r

LEMMA LongTail ==
    ASSUME NEW S, NEW q \in Seq(S), Len(q) >= 3 PROVE Tail(Tail(q)) # <<>>
<1>1. q # <<>>
  OBVIOUS
<1>2. Tail(q) \in Seq(S) /\ Len(Tail(q)) = Len(q) - 1 /\ Len(q) \in Nat
  BY <1>1
<1> DEFINE r == Tail(q)
<1> HIDE DEF r
<1>3. r \in Seq(S) /\ Len(r) >= 2
  BY <1>2 DEF r
<1>4. r # <<>>
  BY <1>3
<1>5. Len(Tail(r)) = Len(r) - 1 /\ Tail(r) \in Seq(S)
  BY <1>3, <1>4
<1>6. Len(Tail(r)) # 0
  BY <1>3, <1>5
<1>7. Len(<<>>) = 0
  OBVIOUS
<1>8. Tail(r) # <<>>
  BY <1>6, <1>7
<1> QED BY <1>8 DEF r

(* A client maps its window, at any moment. *)
LEMMA MapAskedScene ==
    ASSUME NEW s, NEW cur, Row(s), Live(s, cur), s.exists, phase = "running"
    PROVE  Plays(s, Asks(MapAsked(s), "map"), cur)
<1> DEFINE t == Asks(MapAsked(s), "map")
           type == IF s.managed THEN "MapRequestInFrame" ELSE "MapRequest"
           v == Tell(s, type)
<1>0. s.q \in Seq(EventTypes) /\ type \in EventTypes /\ type \in Maps
  BY DEF Row, EventTypes, Maps
<1>1. ~Dying(s)
  BY DEF Dying
<1>2. CASE s.up
  <2>1. MapAsked(s) = s
    BY <1>2 DEF MapAsked
  <2>2. Row(t) /\ Same(s, t, {"wants", "asked"}) /\ t.wants = "map"
    BY <2>1, AsksDoes
  <2> HIDE DEF t
  <2>3. \/ Appearing(s, cur) /\ Appearing(t, cur)
        \/ Shown(s, cur) /\ Shown(t, cur)
    BY <1>1, <1>2, <2>2 DEF Live, Outside, Icon, Leaving, Appearing, Shown, Open, Same, Fields
  <2>4. Fair(s) => Fair(t)
    BY <2>2 DEF Fair, Same, Fields
  <2> QED BY <2>2, <2>3, <2>4 DEF Plays, Live, t
<1>3. CASE ~s.up
  <2>1. MapAsked(s) = v
    BY <1>3 DEF MapAsked
  <2>2. /\ Row(v) /\ Same(s, v, {"q"}) /\ Longer(s.q, v.q, {type})
        /\ Tells(v.q, {type}) /\ v.q # <<>> /\ v.q = Append(s.q, type)
    BY <1>0, TellDoes
  <2> HIDE DEF v, type
  <2>3. Row(t) /\ Same(v, t, {"wants", "asked"}) /\ t.wants = "map"
    BY <2>1, <2>2, AsksDoes
  <2> HIDE DEF t
  <2>4. /\ Row(t) /\ Same(s, t, {"wants", "asked", "q"}) /\ t.wants = "map"
        /\ Longer(s.q, t.q, {type}) /\ Tells(t.q, {type}) /\ t.q # <<>>
        /\ ~t.up
    BY <1>3, <2>2, <2>3 DEF Same, Fields
  <2>5. CASE Outside(s)
    <3>1. type = "MapRequest"
      BY <2>5 DEF Outside, Idle, type
    <3>2. Tells(t.q, Maps)
      BY <2>4, <3>1 DEF Tells, Maps
    <3>3. NoFake(t.q) \in Seq({"MapRequest"})
      <4>1. Longer(NoFake(s.q), NoFake(t.q), {"MapRequest"})
        BY <1>0, <2>4, <3>1, NoFakeLonger
      <4>2. NoFake(s.q) \in Seq(EventTypes) /\ NoFake(s.q) \in Seq({"MapRequest"})
        BY <1>0, <2>5, NoFakeFacts DEF Outside
      <4>3. NoFake(t.q) \in Seq({"MapRequest"} \cup {"MapRequest"})
        BY <4>1, <4>2, LongerFacts
      <4> QED BY <4>3
    <3>4. Outside(t)
      BY <2>4, <2>5, <3>2, <3>3 DEF Outside, Idle, Same, Fields
    <3> QED BY <2>4, <3>4 DEF Plays, Live, Fair, t
  <2>6. CASE Icon(s) \/ Leaving(s)
    <3>1. type = "MapRequestInFrame" /\ Longer(s.q, t.q, {"MapRequestInFrame"})
      BY <2>4, <2>6 DEF Icon, Leaving, type
    <3>2. "ChangeState" \in EventTypes /\ "FakeUnmapNotify" \in EventTypes
      BY DEF EventTypes
    <3>3. CASE Icon(s)
      <4>1. CASE IconQueue(s)
        <5>1. IconQueue(t)
          BY <2>4, <3>1, <4>1, IconQueueMore DEF Same, Fields
        <5>2. Icon(t)
          BY <2>4, <3>3, <5>1 DEF Icon, Same, Fields
        <5> QED BY <2>4, <5>2 DEF Plays, Live, Fair, t
      <4>2. CASE OneThenMaps(s.q, "ChangeState")
        <5>1. OneThenMaps(t.q, "ChangeState")
          BY <1>0, <3>1, <3>2, <4>2, OneThenMore
        <5>2. Icon(t)
          BY <2>4, <3>3, <5>1 DEF Icon, Same, Fields
        <5> QED BY <2>4, <5>2 DEF Plays, Live, Fair, t
      <4>3. CASE OneThenMaps(s.q, "FakeUnmapNotify")
        <5>1. OneThenMaps(t.q, "FakeUnmapNotify")
          BY <1>0, <3>1, <3>2, <4>3, OneThenMore
        <5>2. Tail(t.q) # <<>>
          BY <1>0, <2>2, <2>3, <4>3 DEF OneThenMaps, Same, Fields
        <5>3. Icon(t)
          BY <2>4, <3>3, <5>1, <5>2 DEF Icon, Same, Fields
        <5> QED BY <2>4, <5>3 DEF Plays, Live, Fair, t
      <4> QED BY <3>3, <4>1, <4>2, <4>3 DEF Icon
    <3>4. CASE Leaving(s)
      <4>1. /\ Head(t.q) = "UnmapNotify" /\ Longer(Tail(s.q), Tail(t.q), {"MapRequestInFrame"})
            /\ Tail(s.q) \in Seq(EventTypes) /\ OneThenMaps(Tail(s.q), "FakeUnmapNotify")
        BY <1>0, <3>1, <3>4, LongerFacts DEF Leaving
      <4>2. OneThenMaps(Tail(t.q), "FakeUnmapNotify")
        BY <3>2, <4>1, OneThenMore
      <4>3. Tail(Tail(t.q)) # <<>>
        <5>1. t.q = Append(s.q, type)
          BY <2>2, <2>3 DEF Same, Fields
        <5>2. Len(s.q) \in Nat /\ Len(s.q) >= 2
          BY <1>0, <3>4 DEF Leaving, OneThenMaps
        <5>3. Len(t.q) = Len(s.q) + 1 /\ t.q \in Seq(EventTypes)
          BY <1>0, <2>4, <5>1 DEF Row
        <5>4. Len(t.q) >= 3
          BY <5>2, <5>3
        <5> QED BY <5>3, <5>4, LongTail
      <4>4. Leaving(t)
        BY <2>4, <3>4, <4>1, <4>2, <4>3 DEF Leaving, Same, Fields
      <4> QED BY <2>4, <4>4 DEF Plays, Live, Fair, t
    <3> QED BY <2>6, <3>3, <3>4
  <2> QED BY <1>1, <1>3, <2>5, <2>6 DEF Live, Appearing, Shown, Open
<1> QED BY <1>2, <1>3

(* a request of a client that waits for no event *)
LEMMA QuietScene ==
    ASSUME NEW s, NEW cur, Row(s), Live(s, cur), s.q = <<>>
    PROVE  \/ Outside(s) /\ s.wants # "map"
           \/ Shown(s, cur) /\ ~s.mapPending
           \/ Icon(s) /\ s.wants = "map"
<1>1. \A A : ~Tells(s.q, A)
  BY DEF Tells
<1>2. \A type : ~OneThenMaps(s.q, type)
  BY DEF OneThenMaps
<1>3. s.q # <<"ChangeState">> /\ s.q # <<"DestroyNotify">>
      /\ s.q # <<"UnmapNotify", "DestroyNotify">>
  OBVIOUS
<1> QED BY <1>1, <1>2, <1>3 DEF Live, Outside, Appearing, Shown, Icon, Leaving, Dying

(* An event joins an empty queue. *)
LEMMA OneEvent ==
    ASSUME NEW type \in EventTypes
    PROVE  /\ Append(<<>>, type) = <<type>> /\ <<type>> # <<>> /\ Head(<<type>>) = type
           /\ Tail(<<type>>) = <<>> /\ OneThenMaps(<<type>>, type)
           /\ NoFake(<<"FakeUnmapNotify">>) = <<>>
           /\ \A A : type \notin A => ~Tells(<<type>>, A)
<1>1. /\ Append(<<>>, type) = <<type>> /\ <<type>> # <<>> /\ Head(<<type>>) = type
      /\ Tail(<<type>>) = <<>>
  OBVIOUS
<1>2. OneThenMaps(<<type>>, type)
  <2>1. <<>> \in Seq({"MapRequestInFrame"})
    OBVIOUS
  <2> QED BY <1>1, <2>1 DEF OneThenMaps
<1>3. NoFake(<<"FakeUnmapNotify">>) = <<>>
  BY DEF NoFake
<1>4. \A A : type \notin A => ~Tells(<<type>>, A)
  BY DEF Tells
<1> QED BY <1>1, <1>2, <1>3, <1>4

(* A client withdraws its window. *)
LEMMA WithdrawAskedScene ==
    ASSUME NEW s, NEW cur, Row(s), Live(s, cur), s.exists, s.q = <<>>, phase = "running"
    PROVE  Plays(s, Asks(WithdrawAsked(s), "withdraw"), cur)
<1> DEFINE a == Tell(s, "UnmapNotify")
           t == IF s.up /\ s.managed THEN a ELSE s
           u == [t EXCEPT !.up = FALSE]
           v == Tell(u, "FakeUnmapNotify")
           z == Asks(v, "withdraw")
<1>0. "UnmapNotify" \in EventTypes /\ "FakeUnmapNotify" \in EventTypes
      /\ "FakeUnmapNotify" \notin Maps
  BY DEF EventTypes, Maps
<1>1. WithdrawAsked(s) = v
  BY DEF WithdrawAsked
<1>2. Row(a) /\ Same(s, a, {"q"}) /\ a.q = <<"UnmapNotify">>
  <2>1. Row(a) /\ Same(s, a, {"q"}) /\ a.q = Append(s.q, "UnmapNotify")
    BY <1>0, TellDoes
  <2> HIDE DEF a
  <2> QED BY <1>0, <2>1, OneEvent
<1> HIDE DEF a
<1>3. /\ Row(t) /\ Same(s, t, {"q"})
      /\ t.q = IF s.up /\ s.managed THEN <<"UnmapNotify">> ELSE <<>>
  BY <1>2 DEF Same
<1> HIDE DEF t
<1>4. Row(u) /\ Same(t, u, {"up"}) /\ ~u.up
  BY <1>3 DEF Row, IsWindow, Fields, Same
<1> HIDE DEF u
<1>5. Row(v) /\ Same(u, v, {"q"}) /\ v.q = Append(u.q, "FakeUnmapNotify")
  BY <1>0, <1>4, TellDoes
<1> HIDE DEF v
<1>6. Row(z) /\ Same(v, z, {"wants", "asked"}) /\ z.wants = "withdraw"
  BY <1>5, AsksDoes
<1> HIDE DEF z
<1>7. /\ Row(z) /\ Same(s, z, {"q", "up", "wants", "asked"}) /\ ~z.up /\ z.wants = "withdraw"
      /\ z.q = Append(t.q, "FakeUnmapNotify")
  BY <1>3, <1>4, <1>5, <1>6 DEF Same, Fields
<1>8. CASE Outside(s)
  <2>1. z.q = <<"FakeUnmapNotify">>
    BY <1>0, <1>3, <1>7, <1>8, OneEvent DEF Outside
  <2>2. NoFake(z.q) \in Seq({"MapRequest"}) /\ ~Tells(z.q, Maps)
    <3>1. <<>> \in Seq({"MapRequest"})
      OBVIOUS
    <3> QED BY <1>0, <2>1, <3>1, OneEvent
  <2>3. Outside(z)
    BY <1>7, <1>8, <2>2 DEF Outside, Idle, Same, Fields
  <2> QED BY <1>1, <1>7, <2>3 DEF Plays, Live, Fair, z
<1>9. CASE Shown(s, cur)
  <2>1. z.q = <<"UnmapNotify", "FakeUnmapNotify">>
    <3>1. t.q = <<"UnmapNotify">>
      BY <1>3, <1>9 DEF Shown, Open
    <3>2. Append(<<"UnmapNotify">>, "FakeUnmapNotify") = <<"UnmapNotify", "FakeUnmapNotify">>
      BY TwoEvents
    <3> QED BY <1>7, <3>1, <3>2
  <2>2. /\ z.q # <<>> /\ Head(z.q) = "UnmapNotify" /\ Tail(z.q) = <<"FakeUnmapNotify">>
    BY <2>1
  <2>3. OneThenMaps(Tail(z.q), "FakeUnmapNotify") /\ Tail(Tail(z.q)) = <<>>
    BY <1>0, <2>2, OneEvent
  <2>4. Leaving(z)
    BY <1>7, <1>9, <2>2, <2>3 DEF Leaving, Shown, Open, Same, Fields
  <2> QED BY <1>1, <1>7, <2>4 DEF Plays, Live, Fair, z
<1>10. CASE Icon(s)
  <2>1. z.q = <<"FakeUnmapNotify">>
    BY <1>0, <1>3, <1>7, <1>10, OneEvent DEF Icon
  <2>2. OneThenMaps(z.q, "FakeUnmapNotify") /\ Tail(z.q) = <<>>
    BY <1>0, <2>1, OneEvent
  <2>3. Icon(z)
    BY <1>7, <1>10, <2>2 DEF Icon, Same, Fields
  <2> QED BY <1>1, <1>7, <2>3 DEF Plays, Live, Fair, z
<1> QED BY <1>8, <1>9, <1>10, QuietScene

(* A client iconifies its window. *)
LEMMA IconifyAskedScene ==
    ASSUME NEW s, NEW cur, Row(s), Live(s, cur), s.q = <<>>, s.wants = "map"
    PROVE  Plays(s, Tell([s EXCEPT !.asked = @ + 1], "ChangeState"), cur)
<1> DEFINE u == [s EXCEPT !.asked = @ + 1]
           t == Tell(u, "ChangeState")
<1>0. "ChangeState" \in EventTypes
  BY DEF EventTypes
<1>1. Row(u) /\ Same(s, u, {"asked"})
  BY DEF Row, IsWindow, Fields, Same
<1> HIDE DEF u
<1>2. Row(t) /\ Same(u, t, {"q"}) /\ t.q = Append(u.q, "ChangeState")
  BY <1>0, <1>1, TellDoes
<1> HIDE DEF t
<1>3. Same(s, t, {"q", "asked"}) /\ t.q = <<"ChangeState">>
  <2>1. u.q = <<>>
    BY <1>1 DEF Same, Fields
  <2> QED BY <1>0, <1>1, <1>2, <2>1, OneEvent DEF Same
<1>4. CASE Shown(s, cur) /\ ~s.mapPending
  <2>1. Shown(t, cur)
    BY <1>3, <1>4 DEF Shown, Open, Same, Fields
  <2>2. ~Tells(t.q, {"FrameUnmapNotify"})
    BY <1>0, <1>3, OneEvent
  <2>3. Fair(t)
    BY <1>3, <1>4, <2>1, <2>2 DEF Fair, Shown, Same, Fields
  <2> QED BY <1>2, <2>1, <2>3 DEF Plays, Live, t, u
<1>5. CASE Icon(s)
  <2>1. OneThenMaps(t.q, "ChangeState")
    BY <1>0, <1>3, OneEvent
  <2>2. Icon(t) /\ ~t.up
    BY <1>3, <1>5, <2>1 DEF Icon, Same, Fields
  <2> QED BY <1>2, <2>2 DEF Plays, Live, Fair, t, u
<1> QED BY <1>4, <1>5, QuietScene

(* A client destroys its window. *)
LEMMA GoneScene ==
    ASSUME NEW s, NEW cur, Row(s), Live(s, cur), s.q = <<>>
    PROVE  Plays(s, Asks(Gone(s), "withdraw"), cur)
<1> DEFINE a == Tell(s, "UnmapNotify")
           t == IF s.up /\ s.managed THEN a ELSE s
           b == Tell(t, "DestroyNotify")
           u == IF s.managed THEN b ELSE t
           v == [u EXCEPT !.exists = FALSE, !.up = FALSE, !.prop = "None"]
           z == Asks(v, "withdraw")
<1>0. "UnmapNotify" \in EventTypes /\ "DestroyNotify" \in EventTypes
  BY DEF EventTypes
<1>1. Gone(s) = v
  BY DEF Gone
<1>2. Row(a) /\ Same(s, a, {"q"}) /\ a.q = <<"UnmapNotify">>
  <2>1. Row(a) /\ Same(s, a, {"q"}) /\ a.q = Append(s.q, "UnmapNotify")
    BY <1>0, TellDoes
  <2> HIDE DEF a
  <2> QED BY <1>0, <2>1, OneEvent
<1> HIDE DEF a
<1>3. /\ Row(t) /\ Same(s, t, {"q"})
      /\ t.q = IF s.up /\ s.managed THEN <<"UnmapNotify">> ELSE <<>>
  BY <1>2 DEF Same
<1> HIDE DEF t
<1>4. Row(b) /\ Same(t, b, {"q"}) /\ b.q = Append(t.q, "DestroyNotify")
  BY <1>0, <1>3, TellDoes
<1> HIDE DEF b
<1>5. /\ Row(u) /\ Same(s, u, {"q"})
      /\ u.q = IF s.managed THEN Append(t.q, "DestroyNotify") ELSE t.q
  BY <1>3, <1>4 DEF Same
<1> HIDE DEF u
<1>6. Row(v) /\ Same(u, v, {"exists", "up", "prop"}) /\ ~v.exists /\ ~v.up /\ v.prop = "None"
  BY <1>5 DEF Row, IsWindow, Fields, Same
<1> HIDE DEF v
<1>7. Row(z) /\ Same(v, z, {"wants", "asked"}) /\ z.wants = "withdraw"
  BY <1>6, AsksDoes
<1> HIDE DEF z
<1>8. /\ Row(z) /\ Same(s, z, {"q", "exists", "up", "prop", "wants", "asked"})
      /\ ~z.exists /\ ~z.up /\ z.prop = "None" /\ z.wants = "withdraw" /\ z.q = u.q
  BY <1>5, <1>6, <1>7 DEF Same, Fields
<1>9. CASE Outside(s)
  <2>1. z.q = <<>>
    BY <1>3, <1>5, <1>8, <1>9 DEF Outside, Idle
  <2>2. NoFake(z.q) \in Seq({"MapRequest"}) /\ ~Tells(z.q, Maps)
    BY <2>1 DEF NoFake, Tells
  <2>3. Outside(z)
    BY <1>8, <1>9, <2>1, <2>2 DEF Outside, Idle, Same, Fields
  <2> QED BY <1>1, <1>8, <2>3 DEF Plays, Live, Fair, z
<1>10. CASE Shown(s, cur)
  <2>1. z.q = <<"UnmapNotify", "DestroyNotify">>
    <3>1. t.q = <<"UnmapNotify">> /\ s.managed
      BY <1>3, <1>10 DEF Shown, Open
    <3>2. Append(<<"UnmapNotify">>, "DestroyNotify") = <<"UnmapNotify", "DestroyNotify">>
      BY TwoEvents
    <3> QED BY <1>5, <1>8, <3>1, <3>2
  <2>2. Dying(z)
    BY <1>8, <1>10, <2>1 DEF Dying, Shown, Open, Same, Fields
  <2> QED BY <1>1, <1>8, <2>2 DEF Plays, Live, Fair, z
<1>11. CASE Icon(s)
  <2>1. z.q = <<"DestroyNotify">>
    BY <1>0, <1>3, <1>5, <1>8, <1>11, OneEvent DEF Icon
  <2>2. Dying(z)
    BY <1>8, <1>11, <2>1 DEF Dying, Icon, Same, Fields
  <2> QED BY <1>1, <1>8, <2>2 DEF Plays, Live, Fair, z
<1> QED BY <1>9, <1>10, <1>11, QuietScene

-----------------------------------------------------------------------------
(* The way out of fvwm and back in *)

(* A client maps its window while no fvwm runs. *)
LEMMA StoredMapAsked ==
    ASSUME NEW s, Row(s), Stored(s), s.exists, phase \in {"down", "startup"}
    PROVE  Row(Asks(MapAsked(s), "map")) /\ Stored(Asks(MapAsked(s), "map"))
<1> DEFINE u == [s EXCEPT !.up = TRUE]
           v == Tell(s, "MapRequest")
           m == MapAsked(s)
           t == Asks(m, "map")
<1>1. m = IF s.up THEN s ELSE IF phase = "down" THEN u ELSE v
  BY DEF MapAsked, Stored, Idle
<1>2. Row(u) /\ Same(s, u, {"up"}) /\ u.up
  BY DEF Row, IsWindow, Fields, Same
<1>3. /\ Row(v) /\ Same(s, v, {"q"}) /\ v.q # <<>> /\ v.q = Append(s.q, "MapRequest")
  BY TellDoes DEF EventTypes
<1>4. v.q \in Seq({"MapRequest"})
  <2>1. s.q \in Seq({"MapRequest"})
    BY DEF Stored
  <2> HIDE DEF v
  <2> QED BY <1>3, <2>1, AppendFacts
<1> HIDE DEF u, v
<1>5. /\ Row(m) /\ Same(s, m, {"up", "q"}) /\ m.q \in Seq({"MapRequest"})
      /\ (s.up => m.up) /\ (m.up \/ m.q # <<>>)
  <2>1. s.q \in Seq({"MapRequest"})
    BY DEF Stored
  <2> QED BY <1>1, <1>2, <1>3, <1>4, <2>1 DEF Same, Fields
<1> HIDE DEF m
<1>6. Row(t) /\ Same(m, t, {"wants", "asked"}) /\ t.wants = "map"
  BY <1>5, AsksDoes
<1> HIDE DEF t
<1>7. /\ Row(t) /\ Same(s, t, {"up", "q", "wants", "asked"}) /\ t.q \in Seq({"MapRequest"})
      /\ (s.up => t.up) /\ (t.up \/ t.q # <<>>) /\ t.wants = "map"
  BY <1>5, <1>6 DEF Same, Fields
<1>8. Stored(t)
  BY <1>7 DEF Stored, Idle, Same, Fields
<1> QED BY <1>7, <1>8 DEF t, m

(* fvwm handles an event while it starts. *)
LEMMA StoredEvent ==
    ASSUME NEW s, NEW p, Row(s), Stored(s), s.q # <<>>, Popped(s, p)
    PROVE  LET t == DispatchedInStartup(p, Head(s.q)) IN Row(t) /\ Stored(t)
<1> DEFINE u == [p EXCEPT !.up = TRUE]
<1>1. /\ Head(s.q) = "MapRequest" /\ p.q \in Seq({"MapRequest"}) /\ Row(p) /\ Same(s, p, {"q"})
  BY PoppedFacts DEF Stored, Same
<1>2. /\ p.exists /\ ~p.managed /\ p.up = s.up
  BY <1>1 DEF Stored, Idle, Same, Fields
<1>3. DispatchedInStartup(p, "MapRequest") = IF p.up THEN p ELSE u
  BY <1>2 DEF DispatchedInStartup, MapClient
<1>4. Row(u) /\ Same(p, u, {"up"}) /\ u.up
  BY <1>1 DEF Row, IsWindow, Fields, Same
<1> HIDE DEF u
<1>5. CASE p.up
  <2>1. Stored(p)
    BY <1>1, <1>2, <1>5 DEF Stored, Idle, Same, Fields
  <2> QED BY <1>1, <1>3, <1>5, <2>1
<1>6. CASE ~p.up
  <2>1. Stored(u)
    BY <1>1, <1>2, <1>4 DEF Stored, Idle, Same, Fields
  <2> QED BY <1>1, <1>3, <1>4, <1>6, <2>1
<1> QED BY <1>5, <1>6

(* An empty queue tells nothing. *)
LEMMA EmptyQueue ==
    /\ <<>> \in Seq(EventTypes) /\ <<>> \in Seq({"MapRequest"})
    /\ \A A : ~Tells(<<>>, A)
BY DEF Tells

(* A restart stores every scene. *)
LEMMA ReborderScene ==
    ASSUME NEW s, NEW cur, Row(s), Live(s, cur), Fair(s), ~RequestWaits(s)
    PROVE  Row(Reborder(s, cur)) /\ Stored(Reborder(s, cur))
<1> DEFINE m == MapClient(s)
           n == SetMapStateProp(m, "Normal")
           t == IF ~s.iconified /\ s.desk # cur THEN n ELSE s
           a == IF s.managed THEN t ELSE s
           up == a.up \/ InSaveSet(s)
           z == [Forgotten(a) EXCEPT !.up = up, !.q = <<>>]
<1>1. Reborder(s, cur) = z
  <2>1. Forgotten(a).up = a.up
    BY DEF Forgotten
  <2> QED BY <2>1 DEF Reborder
<1>0. up \in BOOLEAN
  OBVIOUS
<1> HIDE DEF up
<1>2. ASSUME Row(a)
      PROVE  /\ Row(z) /\ Idle(z) /\ z.q = <<>> /\ z.up = up
             /\ Same(a, z, {"up", "managed", "mapped", "iconified", "iconifyPending", "mapPending",
                            "iconifyAfterMap", "capture", "frameUp", "q"})
  <2> HIDE DEF a
  <2>1. /\ IsWindow(z) /\ Idle(z) /\ z.q = <<>> /\ z.hint = "Normal" /\ z.up = up
        /\ Same(a, z, {"up", "managed", "mapped", "iconified", "iconifyPending", "mapPending",
                       "iconifyAfterMap", "capture", "frameUp", "q"})
        /\ z.mapped = FALSE /\ z.iconified = FALSE /\ z.frameUp = FALSE
    BY <1>0, <1>2 DEF Forgotten, Row, IsWindow, Fields, Same, Idle
  <2> HIDE DEF z
  <2> QED BY <1>0, <1>2, <2>1, EmptyQueue DEF Row
<1> HIDE DEF z
<1>3. CASE Outside(s) /\ s.q = <<>>
  <2>1. a = s
    BY <1>3 DEF Outside, Idle
  <2>2. s.wants # "map"
    BY <1>3, EmptyQueue DEF Outside
  <2>4. ~up
    BY <1>3, <2>1 DEF up, InSaveSet, Outside, Idle
  <2>3. Stored(z) /\ Row(z)
    BY <1>2, <1>3, <2>1, <2>2, <2>4, EmptyQueue DEF Stored, Outside, Same, Fields
  <2> QED BY <1>1, <2>3
<1>4. CASE Icon(s) /\ s.wants = "map"
  <2>1. a = s
    BY <1>4 DEF Icon
  <2>2. Stored(z) /\ Row(z)
    BY <1>2, <1>4, <2>1, EmptyQueue DEF Stored, Icon, Same, Fields
  <2> QED BY <1>1, <2>2
<1>5. CASE Present(s) /\ (s.desk = cur => s.prop = "Normal")
  <2>1. s.exists /\ s.managed /\ s.up /\ ~s.iconified /\ s.order = "Normal" /\ s.wants = "map"
    BY <1>5 DEF Present, Open
  <2>2. m = s
    BY <2>1 DEF MapClient
  <2>3. Row(n) /\ n.prop = "Normal" /\ Same(s, n, {"prop"})
    BY <2>1, <2>2, PropDoes
  <2> HIDE DEF n
  <2>4. Row(a) /\ a.prop = "Normal" /\ Same(s, a, {"prop"})
    BY <1>5, <2>1, <2>3 DEF Same
  <2> HIDE DEF a
  <2>6. up
    BY <2>1 DEF up, InSaveSet
  <2>5. Stored(z) /\ Row(z)
    BY <1>2, <2>1, <2>4, <2>6, EmptyQueue DEF Stored, Same, Fields
  <2> QED BY <1>1, <2>5
<1> QED BY <1>3, <1>4, <1>5, NoRequest

(* A crash stores every scene. *)
LEMMA SaveSetScene ==
    ASSUME NEW s, NEW cur, NEW d, Row(s), Live(s, cur)
    PROVE  Row(SaveSet(s, d)) /\ Stored(SaveSet(s, d))
<1> DEFINE up == s.up \/ InSaveSet(s)
           wants == IF up THEN "map" ELSE "withdraw"
           order == IF s.prop = "Iconic" THEN "Iconic" ELSE s.order
           f == Forgotten(s)
           z == [f EXCEPT !.up = up, !.desk = d, !.q = <<>>, !.wants = wants,
                          !.order = IF s.prop = "Iconic" THEN "Iconic" ELSE @]
<1>1. SaveSet(s, d) = z
  BY DEF SaveSet
<1>2. up \in BOOLEAN
  BY DEF Row
<1> HIDE DEF up, wants
<1>3. /\ IsWindow(f) /\ Idle(f) /\ f.mapped = FALSE /\ f.iconified = FALSE /\ f.frameUp = FALSE
      /\ Same(s, f, {"managed", "mapped", "iconified", "iconifyPending", "mapPending",
                     "iconifyAfterMap", "capture", "frameUp"})
  BY DEF Forgotten, Row, IsWindow, Fields, Same, Idle
<1> HIDE DEF f
<1>4. /\ IsWindow(z) /\ z.up = up /\ z.q = <<>> /\ z.wants = wants
      /\ z.order = (IF s.prop = "Iconic" THEN "Iconic" ELSE f.order)
      /\ Same(f, z, {"up", "desk", "q", "wants", "order"})
  BY <1>3 DEF IsWindow, Fields, Same
<1> HIDE DEF z
<1>5. Row(z) /\ Idle(z)
  BY <1>2, <1>3, <1>4, EmptyQueue DEF Row, Idle, Same, Fields
<1>6. z.exists = s.exists /\ z.prop = s.prop /\ z.order = order
  BY <1>3, <1>4 DEF Same, Fields
<1>7. CASE Outside(s) \/ Dying(s)
  <2>1. ~up /\ s.prop \in {"None", "Withdrawn"}
    BY <1>7 DEF up, InSaveSet, Outside, Idle, Dying
  <2>2. z.wants = "withdraw"
    BY <1>4, <2>1 DEF wants
  <2>3. Stored(z)
    BY <1>4, <1>5, <1>6, <2>1, <2>2, EmptyQueue DEF Stored
  <2> QED BY <1>1, <1>5, <2>3
<1>8. CASE Appearing(s, cur) \/ Shown(s, cur) \/ Icon(s) \/ Leaving(s)
  <2>1. s.exists /\ s.managed /\ s.prop \in {"Normal", "Iconic"}
        /\ (s.prop = "Normal" => s.order = "Normal")
    BY <1>8 DEF Appearing, Shown, Open, Icon, Leaving
  <2>2. up /\ z.wants = "map"
    BY <1>4, <2>1 DEF up, wants, InSaveSet
  <2>3. Stored(z)
    BY <1>4, <1>5, <1>6, <2>1, <2>2, EmptyQueue DEF Stored
  <2> QED BY <1>1, <1>5, <2>3
<1> QED BY <1>7, <1>8 DEF Live

(* fvwm takes a stored window over in a scene. *)
LEMMA CapturedScene ==
    ASSUME NEW s, NEW cur, Row(s), Stored(s)
    PROVE  Row(Captured(s, cur)) /\ Live(Captured(s, cur), cur) /\ Fair(Captured(s, cur))
<1> DEFINE known == s.prop \in {"Iconic", "Normal"}
           u == [s EXCEPT !.up = FALSE]
           state == IF known THEN s.prop ELSE s.hint
           a == AddWindow(u, s.desk)
           t == FirstMap(a, state, cur)
           z == [t EXCEPT !.order = IF known THEN s.order ELSE @]
<1>0. /\ s.q \in Seq(EventTypes) /\ s.q \in Seq({"MapRequest"}) /\ s.q \in Seq(Maps)
      /\ s.hint = "Normal" /\ NoFake(s.q) = s.q
  BY NoFakeFacts DEF Row, Stored, Maps
<1>1. CASE ~(s.exists /\ (s.up \/ s.prop = "Iconic"))
  <2>1. Captured(s, cur) = s
    BY <1>1 DEF Captured
  <2>2. s.prop \in {"None", "Withdrawn"} /\ ~s.up /\ (s.exists \/ s.q = <<>>)
        /\ (s.wants = "map" <=> s.q # <<>>)
    BY <1>1 DEF Stored
  <2>3. s.q # <<>> <=> Tells(s.q, Maps)
    BY <1>0, HeadTail, EmptyQueue DEF Maps
  <2>4. Outside(s)
    BY <1>0, <2>2, <2>3 DEF Outside, Stored
  <2> QED BY <2>1, <2>2, <2>4 DEF Live, Fair
<1>2. CASE s.exists /\ (s.up \/ s.prop = "Iconic")
  <2>1. Captured(s, cur) = z
    BY <1>2 DEF Captured
  <2>2. Row(u) /\ Same(s, u, {"up"}) /\ ~u.up
    BY DEF Row, IsWindow, Fields, Same
  <2> HIDE DEF u
  <2>3. s.wants = "map"
    BY <1>2 DEF Stored
  <2>4. /\ u.exists /\ ~u.up /\ u.wants = "map" /\ NoFake(u.q) \in Seq(Maps)
        /\ u.q = s.q
    BY <1>0, <2>2, <2>3, <1>2 DEF Same, Fields
  <2>5. CASE s.prop # "Iconic"
    <3>1. state = "Normal"
      BY <1>0, <2>5
    <3>2. Row(t) /\ Appearing(t, cur) /\ Fair(t)
      BY <2>2, <2>4, <3>1, Appears
    <3> HIDE DEF t
    <3>3. t.order = "Normal" /\ (known => s.order = "Normal")
      BY <2>5, <3>2 DEF Appearing, Open, Stored
    <3>4. z.order = "Normal" /\ Row(z) /\ Same(t, z, {"order"})
      BY <3>2, <3>3 DEF Row, IsWindow, Fields, Same
    <3> HIDE DEF z
    <3>5. Appearing(z, cur) /\ Fair(z)
      BY <3>2, <3>3, <3>4 DEF Appearing, Open, Fair, Same, Fields
    <3> QED BY <2>1, <3>4, <3>5 DEF Live
  <2>6. CASE s.prop = "Iconic"
    <3>1. state = "Iconic" /\ s.order = "Iconic"
      BY <2>6 DEF Stored
    <3>2. AddedRow(u, a, s.desk)
      BY <2>2, AddWindowDoes
    <3> HIDE DEF a
    <3>3. /\ Row(a) /\ a.exists /\ a.managed /\ ~a.mapPending /\ ~a.frameUp /\ a.q = s.q
          /\ ~a.iconifyAfterMap /\ a.wants = "map"
      BY <2>4, <3>2 DEF AddedRow, Same, Fields
    <3>4. t = Iconify(a)
      BY <3>1 DEF FirstMap
    <3>5. Iconified(a, Iconify(a))
      BY <3>3, IconifyDoes
    <3>6. Iconified(a, t) /\ t.q = s.q
      BY <3>3, <3>4, <3>5 DEF Iconified
    <3> HIDE DEF t
    <3>7. z.order = "Iconic" /\ Row(z) /\ Same(t, z, {"order"})
      <4>1. Row(t) /\ t.order = "Iconic"
        BY <3>6 DEF Iconified
      <4> QED BY <2>6, <3>1, <4>1 DEF Row, IsWindow, Fields, Same
    <3> HIDE DEF z
    <3>8. /\ z.exists /\ z.managed /\ z.iconified /\ ~z.mapped /\ ~z.up /\ ~z.frameUp
          /\ ~z.mapPending /\ ~z.iconifyAfterMap /\ z.prop = "Iconic"
          /\ z.wants = "map" /\ z.q = s.q
      BY <3>3, <3>6, <3>7 DEF Iconified, Same, Fields
    <3>9. IconQueue(z)
      <4>1. \A i \in DOMAIN s.q : s.q[i] = "MapRequest"
        BY <1>0
      <4>2. s.q \in Seq(News)
        BY <1>0 DEF News
      <4>3. ~Tells(s.q, Notes)
        BY <4>1 DEF Tells, Notes
      <4> QED BY <3>8, <4>1, <4>2, <4>3 DEF IconQueue, News, Maps
    <3>10. Icon(z)
      BY <3>7, <3>8, <3>9 DEF Icon
    <3> QED BY <2>1, <3>7, <3>8, <3>10 DEF Live, Fair
  <2> QED BY <2>5, <2>6
<1> QED BY <1>1, <1>2

-----------------------------------------------------------------------------
(* The steps *)

(* Clients wait for fvwm, except that they may map a window again at once;  *)
(* a command runs only when fvwm has handled every request, and all events  *)
(* of the command before.                                                   *)
Calm ==
    Hints = {"Normal"} /\ Hasty \subseteq {"map"} /\ ~Crossing /\ MaxBurst <= 1

Settled ==
    /\ win = [w \in Windows |-> win[w]] /\ \A w \in Windows : Row(win[w])
    /\ phase \in {"running", "down", "startup"} /\ burst \in Nat
    /\ Settling

(* Settled while fvwm runs, and while it does not *)
LEMMA RunningStep ==
    ASSUME phase' = "running", burst' \in Nat, win' = [w \in Windows |-> win'[w]],
           \A w \in Windows : Row(win'[w]) /\ Live(win'[w], curDesk'),
           burst' = 0 => \A w \in Windows : Fair(win'[w])
    PROVE  Settled'
BY DEF Settled, Settling

LEMMA StoppedStep ==
    ASSUME phase' \in {"down", "startup"}, burst' = 0, win' = [w \in Windows |-> win'[w]],
           \A w \in Windows : Row(win'[w]) /\ Stored(win'[w])
    PROVE  Settled'
BY DEF Settled, Settling

(* one window changes while fvwm runs, and no command runs *)
LEMMA OnePlays ==
    ASSUME NEW w \in Windows, NEW t, Settled, phase = "running",
           win' = [win EXCEPT ![w] = t], UNCHANGED <<curDesk, phase>>,
           Plays(win[w], t, curDesk), burst' \in Nat,
           burst' = 0 => burst = 0 \/ \A v \in Windows : win'[v].q = <<>>
    PROVE  Settled'
<1>1. /\ win' = [v \in Windows |-> win'[v]]
      /\ \A v \in Windows : win'[v] = IF v = w THEN t ELSE win[v]
  BY DEF Settled
<1>2. \A v \in Windows : Row(win'[v]) /\ Live(win'[v], curDesk')
  BY <1>1 DEF Settled, Settling, Plays
<1>3. ASSUME burst' = 0, NEW v \in Windows PROVE Fair(win'[v])
  <2>1. CASE burst = 0
    BY <1>1, <2>1 DEF Settled, Settling, Plays
  <2>2. CASE win'[v].q = <<>>
    BY <1>2, <2>2, EmptyFair
  <2> QED BY <1>3, <2>1, <2>2
<1> QED BY <1>1, <1>2, <1>3, RunningStep

(* a command runs *)
LEMMA Commanded ==
    ASSUME Settled, CanCommand, CountBurst(burst + 1), win' = [v \in Windows |-> win'[v]],
           phase' = phase,
           \A v \in Windows : Row(win'[v]) /\ Live(win'[v], curDesk')
    PROVE  Settled'
<1>1. burst \in Nat /\ phase' = "running"
  BY DEF Settled, CanCommand
<1>2. burst' \in Nat
  BY <1>1 DEF CountBurst
<1>3. ASSUME burst' = 0, NEW v \in Windows PROVE Fair(win'[v])
  <2>1. win'[v].q = <<>>
    BY <1>1, <1>3 DEF CountBurst
  <2> QED BY <2>1, EmptyFair
<1> QED BY <1>1, <1>2, <1>3, RunningStep

(* A command runs before anything else has, this round. *)
LEMMA BeforeCommand ==
    ASSUME Calm, Settled, CanCommand
    PROVE  /\ phase = "running"
           /\ \A w \in Windows : /\ Row(win[w]) /\ Live(win[w], curDesk) /\ Fair(win[w])
                                 /\ ~RequestWaits(win[w])
<1>1. burst \in Nat /\ MaxBurst \in Nat
  BY MapStateAssumption DEF Settled
<1>2. burst = 0
  BY <1>1 DEF Calm, CanCommand
<1> QED BY <1>2 DEF Calm, CanCommand, Settled, Settling

(* The actions *)
LEMMA InitSettled == ASSUME Calm, Init PROVE Settled
<1>1. PICK hint \in [Windows -> Hints], d \in Desks :
          win = [w \in Windows |-> Fresh(hint[w], d)] /\ curDesk = d
  BY DEF Init
<1>2. ASSUME NEW w \in Windows
      PROVE  Row(win[w]) /\ Live(win[w], curDesk) /\ Fair(win[w])
  <2>1. win[w] = Fresh("Normal", d)
    BY <1>1 DEF Calm
  <2> DEFINE s == Fresh("Normal", d)
  <2>2. IsWindow(s)
    BY DEF Fresh, IsWindow, Fields
  <2>3. /\ s.q = <<>> /\ s.hint = "Normal" /\ s.mapped = FALSE /\ s.iconified = FALSE
        /\ s.up = FALSE /\ s.frameUp = FALSE /\ Idle(s) /\ s.prop = "None"
        /\ s.exists /\ s.wants = "withdraw"
    BY DEF Fresh, Idle
  <2> HIDE DEF s
  <2>4. Row(s)
    BY <2>2, <2>3, EmptyQueue DEF Row
  <2>5. NoFake(s.q) \in Seq({"MapRequest"})
    BY <2>3, EmptyQueue DEF NoFake
  <2>6. Outside(s)
    BY <2>3, <2>5, EmptyQueue DEF Outside
  <2> QED BY <2>1, <2>3, <2>4, <2>6 DEF Live, Fair, s
<1>3. win = [w \in Windows |-> win[w]]
  BY <1>1
<1> QED BY <1>2, <1>3 DEF Settled, Settling, Init

LEMMA ClientSettled ==
    ASSUME Calm, Settled, NEW w \in Windows, ClientStep(w) PROVE Settled'
<1>1. /\ Row(win[w]) /\ burst \in Nat
      /\ phase = "running" => Live(win[w], curDesk)
      /\ phase # "running" => burst = 0 /\ Stored(win[w])
  BY DEF Settled, Settling
<1>2. CASE ClientMap(w)
  <2> DEFINE t == Asks(MapAsked(win[w]), "map")
  <2>1. /\ win[w].exists /\ win' = [win EXCEPT ![w] = t]
        /\ UNCHANGED <<curDesk, phase, burst, stops>>
    BY <1>2 DEF ClientMap, CanAsk
  <2>2. CASE phase = "running"
    <3>1. Plays(win[w], t, curDesk)
      BY <1>1, <2>1, <2>2, MapAskedScene
    <3> QED BY <1>1, <2>1, <2>2, <3>1, OnePlays
  <2>3. CASE phase # "running"
    <3>1. Row(t) /\ Stored(t)
      BY <1>1, <2>1, <2>3, StoredMapAsked DEF Settled
    <3> HIDE DEF t
    <3>2. /\ win' = [v \in Windows |-> win'[v]]
          /\ \A v \in Windows : win'[v] = IF v = w THEN t ELSE win[v]
      BY <2>1 DEF Settled
    <3>3. \A v \in Windows : Row(win'[v]) /\ Stored(win'[v])
      BY <2>3, <3>1, <3>2 DEF Settled, Settling
    <3> QED BY <1>1, <2>1, <2>3, <3>2, <3>3, StoppedStep DEF Settled
  <2> QED BY <2>2, <2>3
<1>3. ASSUME CanAsk(w, "withdraw") \/ CanAsk(w, "iconify")
      PROVE  phase = "running" /\ win[w].q = <<>> /\ win[w].exists
  BY <1>3 DEF CanAsk, Calm
<1>4. CASE ClientWithdraw(w)
  <2> DEFINE t == Asks(WithdrawAsked(win[w]), "withdraw")
  <2>1. /\ CanAsk(w, "withdraw") /\ win' = [win EXCEPT ![w] = t]
        /\ UNCHANGED <<curDesk, phase, burst, stops>>
    BY <1>4 DEF ClientWithdraw
  <2>2. Plays(win[w], t, curDesk)
    BY <1>1, <1>3, <2>1, WithdrawAskedScene
  <2> QED BY <1>1, <1>3, <2>1, <2>2, OnePlays
<1>5. CASE ClientIconify(w)
  <2> DEFINE t == Tell([win[w] EXCEPT !.asked = @ + 1], "ChangeState")
  <2>1. /\ CanAsk(w, "iconify") /\ win[w].wants = "map" /\ win' = [win EXCEPT ![w] = t]
        /\ UNCHANGED <<curDesk, phase, burst, stops>>
    BY <1>5 DEF ClientIconify
  <2>2. Plays(win[w], t, curDesk)
    BY <1>1, <1>3, <2>1, IconifyAskedScene
  <2> QED BY <1>1, <1>3, <2>1, <2>2, OnePlays
<1>6. CASE ClientDestroy(w)
  <2> DEFINE t == Asks(Gone(win[w]), "withdraw")
  <2>1. /\ CanAsk(w, "withdraw") /\ win' = [win EXCEPT ![w] = t]
        /\ UNCHANGED <<curDesk, phase, burst, stops>>
    BY <1>6 DEF ClientDestroy
  <2>2. Plays(win[w], t, curDesk)
    BY <1>1, <1>3, <2>1, GoneScene
  <2> QED BY <1>1, <1>3, <2>1, <2>2, OnePlays
<1> QED BY <1>2, <1>4, <1>5, <1>6 DEF ClientStep

LEMMA UserIconifySettled ==
    ASSUME Calm, Settled, NEW w \in Windows, UserIconify(w) PROVE Settled'
<1> DEFINE s == win[w]
           t == IF s.iconified THEN DeIconify(s, curDesk) ELSE Iconify(s)
<1>1. /\ CanCommand /\ s.managed /\ win' = [win EXCEPT ![w] = t]
      /\ CountBurst(burst + 1) /\ UNCHANGED <<curDesk, phase>>
  BY DEF UserIconify
<1>2. Row(t) /\ Live(t, curDesk)
  BY <1>1, BeforeCommand, IconifyToggles
<1> HIDE DEF t
<1>3. /\ win' = [v \in Windows |-> win'[v]]
      /\ \A v \in Windows : win'[v] = IF v = w THEN t ELSE win[v]
  BY <1>1 DEF Settled
<1>4. \A v \in Windows : Row(win'[v]) /\ Live(win'[v], curDesk')
  BY <1>1, <1>2, <1>3, BeforeCommand
<1> QED BY <1>1, <1>3, <1>4, Commanded

LEMMA GotoDeskSettled ==
    ASSUME Calm, Settled, NEW d \in Desks, GotoDesk(d) PROVE Settled'
<1>1. /\ CanCommand /\ d # curDesk /\ curDesk' = d /\ CountBurst(burst + 1)
      /\ win' = [w \in Windows |-> DeskSwitched(win[w], curDesk, d)] /\ phase' = phase
  BY DEF GotoDesk
<1>2. \A w \in Windows : Row(win'[w]) /\ Live(win'[w], curDesk')
  BY <1>1, BeforeCommand, DeskSwitchedScene
<1>3. win' = [w \in Windows |-> win'[w]]
  BY <1>1
<1> QED BY <1>1, <1>2, <1>3, Commanded

LEMMA MoveToDeskSettled ==
    ASSUME Calm, Settled, NEW w \in Windows, NEW d \in Desks, MoveToDesk(w, d) PROVE Settled'
<1> DEFINE s == win[w]
           u == [s EXCEPT !.desk = d]
           t == IF s.desk = curDesk THEN UnmapWindow(u)
                ELSE IF d = curDesk THEN MapWindow(u) ELSE u
<1>1. /\ CanCommand /\ d # s.desk /\ win' = [win EXCEPT ![w] = t]
      /\ CountBurst(burst + 1) /\ UNCHANGED <<curDesk, phase>>
  BY DEF MoveToDesk
<1>2. Row(t) /\ Live(t, curDesk)
  BY <1>1, BeforeCommand, MovedScene
<1> HIDE DEF t
<1>3. /\ win' = [v \in Windows |-> win'[v]]
      /\ \A v \in Windows : win'[v] = IF v = w THEN t ELSE win[v]
  BY <1>1 DEF Settled
<1>4. \A v \in Windows : Row(win'[v]) /\ Live(win'[v], curDesk')
  BY <1>1, <1>2, <1>3, BeforeCommand
<1> QED BY <1>1, <1>3, <1>4, Commanded

LEMMA HandleEventSettled ==
    ASSUME Calm, Settled, NEW w \in Windows, NEW d \in Desks, HandleEvent(w, d) PROVE Settled'
<1> DEFINE s == win[w]
           type == Head(s.q)
           p == [s EXCEPT !.q = Tail(s.q)]
           t == IF phase = "startup" THEN DispatchedInStartup(p, type)
                ELSE Dispatched(p, type, d, curDesk)
<1>1. /\ phase # "down" /\ s.q # <<>> /\ win' = [win EXCEPT ![w] = t]
      /\ CountBurst(burst) /\ UNCHANGED <<curDesk, phase>>
  BY DEF HandleEvent
<1>2. /\ Row(s) /\ burst \in Nat /\ phase \in {"running", "startup"}
      /\ phase = "running" => Live(s, curDesk)
      /\ phase # "running" => burst = 0 /\ Stored(s)
  BY <1>1 DEF Settled, Settling
<1>3. Popped(s, p)
  <2>1. Tail(s.q) \in Seq(EventTypes)
    BY <1>1, <1>2, HeadTail DEF Row
  <2>2. IsWindow(p) /\ Same(s, p, {"q"}) /\ p.q = Tail(s.q)
    BY <1>2 DEF Row, IsWindow, Fields, Same
  <2> HIDE DEF p
  <2> QED BY <1>2, <2>1, <2>2 DEF Popped, Row, Same, Fields
<1> HIDE DEF p
<1>4. burst' \in Nat /\ (burst' = 0 => burst = 0 \/ \A v \in Windows : win'[v].q = <<>>)
      /\ (burst = 0 => burst' = 0)
  BY <1>1, <1>2 DEF CountBurst
<1>5. CASE phase = "running"
  <2>1. Plays(s, t, curDesk)
    BY <1>1, <1>2, <1>3, <1>5, LiveEvent
  <2> HIDE DEF t
  <2> QED BY <1>1, <1>4, <1>5, <2>1, OnePlays
<1>6. CASE phase = "startup"
  <2>1. Row(t) /\ Stored(t)
    BY <1>1, <1>2, <1>3, <1>6, StoredEvent
  <2> HIDE DEF t
  <2>2. /\ win' = [v \in Windows |-> win'[v]]
        /\ \A v \in Windows : win'[v] = IF v = w THEN t ELSE win[v]
    BY <1>1 DEF Settled
  <2>3. \A v \in Windows : Row(win'[v]) /\ Stored(win'[v])
    BY <1>6, <2>1, <2>2 DEF Settled, Settling
  <2> QED BY <1>1, <1>2, <1>4, <1>6, <2>2, <2>3, StoppedStep
<1> QED BY <1>2, <1>5, <1>6

LEMMA RestartSettled == ASSUME Calm, Settled, Restart PROVE Settled'
<1>1. /\ CanCommand /\ win' = [w \in Windows |-> Reborder(win[w], curDesk)]
      /\ phase' = "down" /\ burst' = 0
  BY DEF Restart
<1>2. \A w \in Windows : Row(win'[w]) /\ Stored(win'[w])
  BY <1>1, BeforeCommand, ReborderScene
<1>3. win' = [w \in Windows |-> win'[w]]
  BY <1>1
<1> QED BY <1>1, <1>2, <1>3, StoppedStep

LEMMA CrashSettled == ASSUME Settled, Crash PROVE Settled'
<1>1. PICK desk \in [Windows -> Desks] :
          win' = [w \in Windows |-> SaveSet(win[w], desk[w])]
  BY DEF Crash
<1>2. phase = "running" /\ phase' = "down" /\ burst' = 0
  BY DEF Crash
<1>3. \A w \in Windows : Row(win'[w]) /\ Stored(win'[w])
  BY <1>1, <1>2, SaveSetScene DEF Settled, Settling
<1>4. win' = [w \in Windows |-> win'[w]]
  BY <1>1
<1> QED BY <1>2, <1>3, <1>4, StoppedStep

LEMMA StartupSettled == ASSUME Settled, Startup PROVE Settled'
BY DEF Settled, Settling, Startup

LEMMA CaptureSettled == ASSUME Settled, CaptureAllWindows PROVE Settled'
<1>1. /\ phase = "startup" /\ phase' = "running" /\ curDesk' = curDesk /\ burst' = burst
      /\ win' = [w \in Windows |-> Captured(win[w], curDesk)]
  BY DEF CaptureAllWindows
<1>2. \A w \in Windows : Row(win'[w]) /\ Live(win'[w], curDesk') /\ Fair(win'[w])
  BY <1>1, CapturedScene DEF Settled, Settling
<1>3. win' = [w \in Windows |-> win'[w]] /\ burst' \in Nat
  BY <1>1 DEF Settled
<1> QED BY <1>1, <1>2, <1>3, RunningStep

(* Settled is inductive. *)
LEMMA NextSettled == ASSUME Calm PROVE Settled /\ [Next]_vars => Settled'
<1> SUFFICES ASSUME Settled, [Next]_vars PROVE Settled'
  OBVIOUS
<1>1. ASSUME NEW w \in Windows, ClientStep(w) \/ UserIconify(w) PROVE Settled'
  BY <1>1, ClientSettled, UserIconifySettled
<1>2. ASSUME NEW d \in Desks, GotoDesk(d) PROVE Settled'
  BY <1>2, GotoDeskSettled
<1>3. ASSUME NEW w \in Windows, NEW d \in Desks, MoveToDesk(w, d) \/ HandleEvent(w, d)
      PROVE  Settled'
  BY <1>3, MoveToDeskSettled, HandleEventSettled
<1>4. CASE UNCHANGED vars
  BY <1>4 DEF vars, Settled, Settling
<1> QED BY <1>1, <1>2, <1>3, <1>4, RestartSettled, CrashSettled, StartupSettled,
           CaptureSettled DEF Next

(* As long as the clients wait for fvwm and fvwm for its events, every window *)
(* is in one of the six scenes while fvwm runs, and can be found again from   *)
(* its WM_STATE while it does not.                                            *)
THEOREM SettledHolds == ASSUME Calm PROVE Spec => []Settled
<1>1. Init => Settled
  BY InitSettled
<1>2. Settled /\ [Next]_vars => Settled'
  BY NextSettled
<1> QED BY <1>1, <1>2, PTL DEF Spec

(* When nothing waits, each scene says what the properties say. *)
LEMMA SettledAgrees == Settled => MapAgrees /\ ClientObeyed /\ OrderObeyed
<1> SUFFICES ASSUME Settled PROVE MapAgrees /\ ClientObeyed /\ OrderObeyed
  OBVIOUS
<1>1. ASSUME NEW w \in Windows, Quiet(w)
      PROVE  LET s == win[w] IN
             /\ Row(s)
             /\ \/ Outside(s) /\ s.wants # "map"
                \/ Shown(s, curDesk) /\ ~s.mapPending
                \/ Icon(s) /\ s.wants = "map"
  <2>1. Row(win[w]) /\ Live(win[w], curDesk) /\ win[w].q = <<>>
    BY <1>1 DEF Quiet, Settled, Settling
  <2> QED BY <2>1, QuietScene
<1>2. MapAgrees
  BY <1>1 DEF MapAgrees, Row, Outside, Idle, Shown, Open, Icon
<1>3. ClientObeyed
  BY <1>1 DEF ClientObeyed, Outside, Idle, Shown, Open, Icon
<1>4. OrderObeyed
  BY <1>1 DEF OrderObeyed, Row, Outside, Idle, Shown, Open, Icon
<1> QED BY <1>2, <1>3, <1>4

(* When fvwm has handled every event about a window it manages, what it       *)
(* remembers is what the server shows, whatever switches of desks, orders to  *)
(* iconify, withdrawals, restarts and crashes came before.                    *)
THEOREM MapAgreesHolds == ASSUME Calm PROVE Spec => []MapAgrees
<1>1. Settled => MapAgrees
  BY SettledAgrees
<1>2. Spec => []Settled
  BY SettledHolds
<1> QED BY <1>1, <1>2, PTL

(* Such a window is managed exactly if its client asked for it last; no own   *)
(* unmapping was taken for a withdrawal, and none was lost in a restart.      *)
THEOREM ClientObeyedHolds == ASSUME Calm PROVE Spec => []ClientObeyed
<1>1. Settled => ClientObeyed
  BY SettledAgrees
<1>2. Spec => []Settled
  BY SettledHolds
<1> QED BY <1>1, <1>2, PTL

(* It is the icon, or the window, that the last order made of it.             *)
THEOREM OrderObeyedHolds == ASSUME Calm PROVE Spec => []OrderObeyed
<1>1. Settled => OrderObeyed
  BY SettledAgrees
<1>2. Spec => []Settled
  BY SettledHolds
<1> QED BY <1>1, <1>2, PTL

=============================================================================
