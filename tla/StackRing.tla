------------------------------ MODULE StackRing ------------------------------
(***************************************************************************)
(* The stacking order of fvwm/stack.c.                                     *)
(*                                                                         *)
(* fvwm keeps the managed windows in a ring, top first, sorted by layer.   *)
(* A window may have a hint that it is transient for another one, its      *)
(* leader here.  What raises or lowers a window may have to move its       *)
(* transients, their transients and so on, its tree, and its leader.       *)
(* Each operation marks the windows of a tree, moves them in the ring,     *)
(* restacks the frames on the X server and tells the modules.  In most     *)
(* cases the next operation clears the marks, but not always: marks        *)
(* is what an operation finds of an earlier one.                           *)
(*                                                                         *)
(* fvwm handles one command or event at a time and nothing here runs the   *)
(* event loop, so that an action is a whole command.                       *)
(***************************************************************************)
EXTENDS Integers, SequencesExt

CONSTANTS
    Windows,
    Root,                  \* Scr.FvwmRoot, the head of the ring, and Scr.Root
    NoHint,
    MayHint,               \* pairs of a window and its possible WM_TRANSIENT_FOR
    Layers, DefaultLayer,
    LayerStyle,            \* the layer of a window whose style names one
    RaiseTransient,        \* windows with this style, and so on
    LowerTransient,
    StackTransientParent,
    ChecksStack            \* subset of BOOLEAN: do grabs of buttons depend on
                           \* the stack, as they do for the focus window?

Hints == Windows \cup {Root, NoHint}

(* rank shows that hints close no cycle.  AddWindow takes a hint that does, and
   then raising one of these windows does not end. *)
Acyclic(edges) == \E rank \in [Windows -> 1 .. Cardinality(Windows)] :
                     \A e \in edges : e[2] \in Windows => rank[e[1]] > rank[e[2]]

ASSUME StackAssumption ==
    /\ IsFiniteSet(Windows) /\ Root \notin Windows /\ NoHint \notin Windows \cup {Root}
    /\ MayHint \subseteq Windows \X Hints /\ Acyclic(MayHint)
    /\ Layers \subseteq Nat /\ DefaultLayer \in Layers
    /\ DOMAIN LayerStyle \subseteq Windows
    /\ \A w \in DOMAIN LayerStyle : LayerStyle[w] \in Layers
    /\ RaiseTransient \cup LowerTransient \cup StackTransientParent \subseteq Windows
    /\ ChecksStack \subseteq BOOLEAN

VARIABLES
    ring,      \* the stack ring, top first
    x,         \* the order of the frames on the X server, top first
    view,      \* history: what a module shows that was right before the last
               \* operation and did what the operation told it
    layer,     \* the layer of each window
    hint,      \* FW_W_TRANSIENTFOR, NoHint if the window is not IS_TRANSIENT
    iconic,    \* IS_ICONIFIED
    byParent,  \* IS_ICONIFIED_BY_PARENT
    marks      \* [keep |-> FvwmRoot.scratch.i # 0, tree |-> IS_IN_TRANSIENT_SUBTREE,
               \*  leader |-> scratch.p]; only looked at if keep is true

vars == <<ring, x, view, layer, hint, iconic, byParent, marks>>

NoMarks == [keep |-> FALSE, tree |-> {}, leader |-> [w \in Windows |-> Root]]

(* What an operation works on *)
Now == [ring |-> ring, x |-> x, view |-> ring, layer |-> layer, hint |-> hint,
        iconic |-> iconic, byParent |-> byParent, marks |-> marks]

-----------------------------------------------------------------------------
(* Orders *)

Place(order, w) == CHOOSE i \in DOMAIN order : order[i] = w

Only(order, S) ==
    LET kept[n \in 0 .. Len(order)] ==
            IF n = 0 THEN <<>>
            ELSE IF order[n] \in S THEN Append(kept[n - 1], order[n]) ELSE kept[n - 1]
    IN  kept[Len(order)]

Without(order, S) == Only(order, ToSet(order) \ S)

(* stack_prev and stack_next *)
PrevIn(order, w) == IF w = Head(order) THEN Root ELSE order[Place(order, w) - 1]
NextIn(order, w) == IF w = Last(order) THEN Root ELSE order[Place(order, w) + 1]

PutBefore(order, list, s) ==
    LET n == IF s = Root THEN Len(order) ELSE Place(order, s) - 1
    IN  SubSeq(order, 1, n) \o list \o SubSeq(order, n + 1, Len(order))

OnTop(order, w) == <<w>> \o Without(order, {w})

(* XRestackWindows: the first window stays, the others go below it *)
XRestackWindows(order, list) ==
    LET rest == Without(order, ToSet(Tail(list)))
    IN  PutBefore(rest, Tail(list), NextIn(rest, Head(list)))

IsAbove(order, v, w) == Place(order, v) < Place(order, w)

-----------------------------------------------------------------------------
(* What the modules are told *)

(* the slip of naming the first two windows only *)
TellFirstTwo(st, s1, s2) ==
    LET first == IF s1 = Root THEN Head(st.ring) ELSE s1
    IN  IF first = Last(st.ring) THEN st
        ELSE [st EXCEPT !.view = XRestackWindows(@, <<first, NextIn(st.ring, first)>>)]

(* BroadcastRestack: M_RESTACK for the windows from s1 to s2, as process_restack
   of FvwmPager handles it; M_RAISE if s1 is at the top. *)
BroadcastRestack(st, s1, s2) ==
    LET first  == IF s1 = Root THEN Head(st.ring) ELSE s1
        last   == IF s2 = Root THEN Last(st.ring) ELSE s2
        raised == IF s1 = Root THEN [st EXCEPT !.view = OnTop(@, first)] ELSE st
        part   == SubSeq(st.ring, Place(st.ring, first), Place(st.ring, last))
    IN  IF first = last \/ (s1 = Root /\ Len(part) = 2) THEN raised
        ELSE [raised EXCEPT !.view = XRestackWindows(@, part)]

BroadcastRestackAllWindows(st) == BroadcastRestack(st, Head(st.ring), Last(st.ring))

-----------------------------------------------------------------------------
(* Trees of transients *)

(* get_transientfor_fvwmwindow *)
LeaderOf(st, w) == IF st.hint[w] \in ToSet(st.ring) THEN st.hint[w] ELSE Root

(* _is_restack_transients_needed; "all" is MARK_ALL *)
MovesTransients(w, mode) == \/ w \in RaiseTransient /\ mode \in {"raise", "restack"}
                            \/ w \in LowerTransient /\ mode \in {"lower", "restack"}
                            \/ mode = "all"

InLayer(st, l) == {w \in ToSet(st.ring) : st.layer[w] = l}

(* the leaders that marking works with, for the windows of scope *)
Leaders(st, scope) ==
    IF st.marks.keep THEN st.marks.leader
    ELSE [w \in Windows |-> IF w \in scope THEN LeaderOf(st, w) ELSE Root]

(* mark_transient_subtree: the marked windows, each with scratch.i, its place
   in the tree, which starts with num *)
MarkTransientSubtree(st, num, t, scope, mode) ==
    LET leader == Leaders(st, scope)
        follows(tree) == {w \in scope \ DOMAIN tree :
                             /\ leader[w] \in DOMAIN tree
                             /\ MovesTransients(leader[w], mode)
                             /\ mode = "all" \/ w \notin st.iconic}
        grown[n \in 0 .. Cardinality(Windows)] ==
            IF n = 0
            THEN [w \in {t} \cup (IF st.marks.keep THEN st.marks.tree ELSE {}) |-> num[w]]
            ELSE LET tree == grown[n - 1]
                 IN  [w \in DOMAIN tree \cup follows(tree) |->
                         IF w \in DOMAIN tree THEN tree[w]
                         ELSE num[w] + tree[leader[w]] + 1]
    IN  grown[Cardinality(Windows)]

(* _sort_transient_ring: by scratch.i, the order of equals does not change *)
SortTransientRing(list, num) ==
    LET before(i) == {j \in DOMAIN list : \/ num[list[j]] > num[list[i]]
                                          \/ num[list[j]] = num[list[i]] /\ j < i}
    IN  [k \in DOMAIN list |->
            list[CHOOSE i \in DOMAIN list : Cardinality(before(i)) = k - 1]]

(* the slip of not looking above a tree that is in one piece *)
IsInOnePiece(st, tree, t, mode) ==
    LET l    == Reverse(Only(st.ring, InLayer(st, st.layer[t])))
        size == Cardinality(DOMAIN tree)
    IN  /\ Place(l, t) + size - 1 <= Len(l)
        /\ ToSet(SubSeq(l, Place(l, t), Place(l, t) + size - 1)) = DOMAIN tree

(* is_transient_subtree_straight: the windows of the tree of t are in one piece
   with t at the bottom, each above its leader and sorted, and the piece is
   where it should be in its layer *)
IsStraight(st, tree, t, mode) ==
    LET l    == Reverse(Only(st.ring, InLayer(st, st.layer[t])))
        p    == Place(l, t)
        size == Cardinality(DOMAIN tree)
        rest == SubSeq(l, p, p + size - 1)
    IN  /\ mode = "lower" => p = 1
        /\ p + size - 1 <= Len(l)
        /\ mode = "raise" => p + size - 1 = Len(l)
        /\ ToSet(rest) = DOMAIN tree
        /\ \A i, j \in 2 .. size : i < j => tree[rest[i]] <= tree[rest[j]]
        /\ \A i \in 2 .. size : \E j \in 1 .. i - 1 : rest[j] = LeaderOf(st, rest[i])

(* _must_move_transients *)
MustMoveTransients(st, t, mode) ==
    /\ t \notin st.iconic /\ MovesTransients(t, mode)
    /\ \E q \in InLayer(st, st.layer[t]) :
          \/ st.hint[q] = t
          \/ mode = "raise" /\ IsAbove(st.ring, q, t)

(* _is_restack_needed, when no transients move *)
IsPlaced(st, t, mode) ==
    LET n == IF mode = "raise" THEN PrevIn(st.ring, t) ELSE NextIn(st.ring, t)
    IN  n = Root \/ st.layer[n] # st.layer[t]

-----------------------------------------------------------------------------
(* Moving windows *)

(* the slip of looking for a window in layer l only *)
FirstInLayer(st, order, t, l) ==
    LET i == SelectInSeq(order, LAMBDA w : w # t /\ st.layer[w] = l)
    IN  IF i = 0 THEN Root ELSE order[i]

(* the first window other than t in layer l or below *)
FirstAtMost(st, order, t, l) ==
    LET i == SelectInSeq(order, LAMBDA w : w # t /\ st.layer[w] <= l)
    IN  IF i = 0 THEN Root ELSE order[i]

(* the slip of never telling XConfigureWindow to stack above the sibling *)
StackFramesBelow(order, list, r, s, lower) ==
    LET others == Without(order, {Head(list)})
        below  == IF r # Root THEN NextIn(others, r)
                  ELSE IF s # Root THEN NextIn(others, s) ELSE Root
    IN  XRestackWindows(PutBefore(others, <<Head(list)>>, below), list)

(* The first frame goes below r, or above s if there is no r, and the others below
   the first.  Without both XConfigureWindow has no sibling, and a raised window
   goes to the bottom. *)
StackFrames(order, list, r, s, lower) ==
    LET others == Without(order, {Head(list)})
        below  == IF r # Root THEN NextIn(others, r)
                  ELSE IF s = Root /\ lower /\ others # <<>> THEN Head(others) ELSE s
    IN  XRestackWindows(PutBefore(others, <<Head(list)>>, below), list)

(* _restack_window_list, after the list was moved before s in the ring *)
RestackWindowList(st, list, s, lower) ==
    LET placed == PutBefore(Without(st.ring, ToSet(list)), list, s)
        r      == PrevIn(placed, Head(list))
        moved  == [st EXCEPT !.ring = placed, !.x = StackFrames(@, list, r, s, lower)]
    IN  IF Len(list) > 1 THEN BroadcastRestackAllWindows(moved)
                         ELSE BroadcastRestack(moved, r, s)

(* the window that t is inserted before; _get_window_to_insert_after *)
InsertBeforeWindow(st, rest, t, mode) ==
    CASE mode = "raise"   -> FirstAtMost(st, rest, t, st.layer[t])
      [] mode = "lower"   -> FirstAtMost(st, rest, t, st.layer[t] - 1)
      [] mode = "restack" -> NextIn(rest, t)

(* _restack_window *)
RestackWindow(st, t, mode, num) ==
    LET scope  == InLayer(st, st.layer[t])
        moves  == MustMoveTransients(st, t, mode)
        from   == IF mode = "restack" THEN st ELSE [st EXCEPT !.marks = NoMarks]
        tree   == MarkTransientSubtree(from, num, t, scope, mode)
        keep   == [keep |-> TRUE, tree |-> DOMAIN tree, leader |-> Leaders(from, scope)]
        movers == IF moves THEN DOMAIN tree \ {t} ELSE {}
        list   == SortTransientRing(Only(st.ring, movers), tree)
    IN  IF mode # "restack" /\ ~moves /\ IsPlaced(st, t, mode) THEN st
        ELSE IF mode # "restack" /\ moves /\ IsStraight(st, tree, t, mode)
        THEN BroadcastRestack([st EXCEPT !.marks = keep],
                              PrevIn(st.ring, t), NextIn(st.ring, t))
        ELSE RestackWindowList([st EXCEPT !.marks = IF moves THEN NoMarks ELSE @],
                               Append(list, t),
                               InsertBeforeWindow(st, Without(st.ring, movers), t, mode),
                               mode = "lower")

LowerPenalty == 200000 * 10000
BranchBonus  == 200000

(* the leader that _raise_lower_recursion moves before t *)
StackParent(st, t) ==
    LET p == LeaderOf(st, t)
    IN  IF /\ t \in StackTransientParent \ st.iconic
           /\ p # Root /\ p \notin st.iconic /\ st.layer[p] = st.layer[t]
        THEN p ELSE Root

StackParents(st, t) ==
    LET up[n \in 0 .. Cardinality(Windows)] ==
            IF n = 0 THEN <<t>>
            ELSE LET c == up[n - 1]
                     p == StackParent(st, Last(c))
                 IN  IF p = Root THEN c ELSE Append(c, p)
    IN  up[Cardinality(Windows)]

(* raise_or_lower_window: t after the windows it is a transient of, unless one
   that moves its transients has moved t *)
RaiseOrLower(st, t, mode) ==
    LET up       == StackParents(st, t)
        parent(w) == up[Place(up, w) + 1]
        isTop(w) == st.hint[w] = NoHint \/ w \notin StackTransientParent
        num      == [w \in Windows |->
                        IF w \notin ToSet(Front(up)) THEN 0
                        ELSE IF mode = "lower" /\ isTop(parent(w)) THEN -LowerPenalty
                        ELSE BranchBonus]
        step(w, s) == IF w # Last(up) /\ MovesTransients(parent(w), mode) THEN s
                      ELSE RestackWindow(s, w, mode, num)
        done[n \in 0 .. Len(up)] ==
            IF n = 0 THEN st ELSE step(up[Len(up) - n + 1], done[n - 1])
    IN  done[Len(up)]

(* RaiseWindow and LowerWindow, which tell the modules before they look *)
RaiseWindow(st, t) == RaiseOrLower([st EXCEPT !.view = OnTop(@, t)], t, "raise")
LowerWindow(st, t) ==
    RaiseOrLower([st EXCEPT !.view = Append(Without(@, {t}), t)], t, "lower")

-----------------------------------------------------------------------------
(* Operations *)

Managed  == ToSet(ring)
NoNumber == [w \in Windows |-> 0]

(* the slip of looking for windows above without clearing the marks *)
CommitKeepsMarks(st, layers) ==
    /\ ring' = st.ring /\ x' = st.x /\ view' = st.view /\ layer' = st.layer
    /\ hint' = st.hint /\ iconic' = st.iconic /\ byParent' = st.byParent
    /\ marks' = st.marks

(* The operation ends with grabbing buttons on layers.  If that looks for windows
   above a window that raises its transients, it uses and ends the marks. *)
Commit(st, layers) ==
    /\ ring' = st.ring /\ x' = st.x /\ view' = st.view /\ layer' = st.layer
    /\ hint' = st.hint /\ iconic' = st.iconic /\ byParent' = st.byParent
    /\ \E checks \in ChecksStack :
          marks' = IF checks /\ \E l \in layers :
                                   (InLayer(st, l) \cap RaiseTransient) \ st.iconic # {}
                   THEN NoMarks ELSE st.marks

Raise(w)             == w \in Managed /\ Commit(RaiseWindow(Now, w), {layer[w]})
Lower(w)             == w \in Managed /\ Commit(LowerWindow(Now, w), {layer[w]})
RestackTransients(w) == w \in Managed /\ Commit(RaiseOrLower(Now, w, "restack"), {layer[w]})

(* CMD_RaiseLower: any window above w may overlap it; those of the tree of w
   do not matter if w raises its transients *)
RaiseLower(w) ==
    /\ w \in Managed
    /\ LET same  == InLayer(Now, layer[w])
           tree  == IF w \in RaiseTransient
                    THEN DOMAIN MarkTransientSubtree(Now, NoNumber, w, same, "raise") ELSE {}
           above == {v \in same \ tree : IsAbove(ring, v, w)}
           st    == [Now EXCEPT !.marks = IF w \in RaiseTransient THEN NoMarks ELSE @]
       IN  \/ above # {} /\ Commit(RaiseWindow(st, w), {layer[w]})
           \/ Commit(LowerWindow(st, w), {layer[w]})

(* From t to its leader, and on, as long as the windows are in S *)
Ancestor(st, t, S) ==
    LET up[n \in 0 .. Cardinality(Windows)] ==
            IF n = 0 THEN t
            ELSE LET w == up[n - 1]
                 IN  IF w \in S /\ LeaderOf(st, w) # Root THEN LeaderOf(st, w) ELSE w
    IN  up[Cardinality(Windows)]

(* get_transientfor_top_fvwmwindow *)
TopLeader(st, t) == Ancestor(st, t, StackTransientParent)

(* CMD_Layer and new_layer *)
Layer(w, l) ==
    /\ w \in Managed
    /\ LET t     == TopLeader(Now, w)
           old   == layer[t]
           lower == l < old
           tree  == DOMAIN MarkTransientSubtree(Now, NoNumber, t, InLayer(Now, old),
                                                IF lower THEN "lower" ELSE "raise")
           list  == Only(ring, tree)
           s     == FirstAtMost(Now, Without(ring, tree), t, IF lower THEN l - 1 ELSE l)
           moved == [Now EXCEPT !.marks = NoMarks,
                                !.layer = [v \in Windows |-> IF v \in ToSet(list) THEN l ELSE @[v]]]
       IN  l # old /\ Commit(RestackWindowList(moved, list, s, lower), {l, old})

(* _handle_cr_restack with a sibling in the same layer *)
ClientRestack(w, v, detail) ==
    /\ {w, v} \subseteq Managed /\ w # v /\ layer[w] = layer[v]
    /\ LET put(order) == LET rest == Without(order, {w})
                         IN  PutBefore(rest, <<w>>, IF detail = "Above" THEN v ELSE NextIn(rest, v))
           st == [Now EXCEPT !.ring = put(@), !.x = put(@)]
       IN  Commit(BroadcastRestack(st, PrevIn(st.ring, w), NextIn(st.ring, w)), {})

(* validate_transientfor: a hint to a window that is not mapped is ignored *)
ValidHint(h) == IF h \in Windows \ Managed THEN Root ELSE h

(* setup_layer: a transient of a managed window goes to the layer that one is in *)
LayerFor(w, h) ==
    CASE w \in DOMAIN LayerStyle -> LayerStyle[w]
      [] w \notin DOMAIN LayerStyle /\ ValidHint(h) \in Windows -> layer[ValidHint(h)]
      [] OTHER -> DefaultLayer

(* AddWindow, with the grabs of HandleMapNotify for the new window *)
AddWindow(w, h, lower) ==
    /\ w \notin Managed
    /\ LET mode == IF lower THEN "lower" ELSE "raise"
           l    == LayerFor(w, h)
           st   == [Now EXCEPT !.ring = <<w>> \o @, !.x = <<w>> \o @, !.view = <<w>> \o @,
                               !.layer[w] = l, !.hint[w] = ValidHint(h),
                               !.marks = [marks EXCEPT !.tree = marks.tree \ {w},
                                                       !.leader = [marks.leader EXCEPT ![w] = Root]]]
           s    == FirstAtMost(st, st.ring, w, IF lower THEN l - 1 ELSE l)
           put  == [st EXCEPT !.ring = PutBefore(ring, <<w>>, s)]
           done == RaiseOrLower(put, w, mode)
       IN  IF h # NoHint /\ w \in StackTransientParent
           THEN Commit(BroadcastRestackAllWindows([done EXCEPT !.x = done.ring]), {l})
           ELSE Commit(RestackWindowList(st, <<w>>, s, lower), {l})

(* destroy_window.  What the mark of a window reads like after it is freed
   depends on the allocator. *)
Destroy(w) ==
    /\ w \in Managed
    /\ LET st == [Now EXCEPT !.ring = Without(@, {w}), !.x = Without(@, {w}),
                             !.view = Without(@, {w}), !.layer = [@ EXCEPT ![w] = DefaultLayer],
                             !.hint = [@ EXCEPT ![w] = NoHint],
                             !.iconic = @ \ {w}, !.byParent = @ \ {w}]
       IN  \E tree \in {marks.tree, marks.tree \ {w}} :
              Commit([st EXCEPT !.marks.tree = tree], {layer[w]})

(* HandlePropertyNotify for WM_TRANSIENT_FOR *)
HintChanges(w, h) ==
    /\ w \in Managed /\ hint[w] # ValidHint(h)
    /\ LET st == [Now EXCEPT !.hint[w] = ValidHint(h)]
       IN  Commit(IF h = NoHint THEN st ELSE RaiseWindow(st, w),
                  IF h = NoHint THEN {} ELSE {layer[w]})

(* what the marks are for Iconify and DeIconify, which may change the focus first *)
MarksAfterFocus == {marks, NoMarks}

Iconify(w) ==
    /\ w \in Managed \ iconic
    /\ \E m \in MarksAfterFocus :
          LET tree == Managed \cap DOMAIN MarkTransientSubtree([Now EXCEPT !.marks = m],
                                                              NoNumber, w, Managed, "all")
              st   == [Now EXCEPT !.iconic = @ \cup tree, !.byParent = @ \cup (tree \ {w}),
                                  !.marks = NoMarks]
          IN  Commit(LowerWindow(st, w), {layer[w]})

(* the window that DeIconify works on instead of w *)
IconifiedParent(w) == Ancestor(Now, w, byParent)

DeIconify(w) ==
    /\ w \in iconic
    /\ \E m \in MarksAfterFocus :
          LET t    == IconifiedParent(w)
              tree == DOMAIN MarkTransientSubtree([Now EXCEPT !.marks = m],
                                                  NoNumber, t, Managed, "all")
              st   == [Now EXCEPT !.iconic = @ \ tree, !.byParent = @ \ tree, !.marks = NoMarks]
          IN  Commit(RaiseWindow(st, t), {layer[t]})

Init ==
    /\ ring = <<>> /\ x = <<>> /\ view = <<>>
    /\ layer = [w \in Windows |-> DefaultLayer]
    /\ hint = [w \in Windows |-> NoHint]
    /\ iconic = {} /\ byParent = {} /\ marks = NoMarks

Next == \E w \in Windows :
    \/ Raise(w)
    \/ Lower(w)
    \/ RestackTransients(w)
    \/ RaiseLower(w)
    \/ \E l \in Layers : Layer(w, l)
    \/ \E v \in Windows, detail \in {"Above", "Below"} : ClientRestack(w, v, detail)
    \/ \E h \in Hints, lower \in BOOLEAN :
          (h = NoHint \/ <<w, h>> \in MayHint) /\ AddWindow(w, h, lower)
    \/ Destroy(w)
    \/ \E h \in Hints : (h = NoHint \/ <<w, h>> \in MayHint) /\ HintChanges(w, h)
    \/ Iconify(w)
    \/ DeIconify(w)

Spec == Init /\ [][Next]_vars

-----------------------------------------------------------------------------
(* Properties *)

(* The ring is sorted by layers, which all searches for a place in it rely on and
   verify_stack_ring_consistency checks. *)
LayersSorted == \A i, j \in DOMAIN ring : i < j => layer[ring[i]] >= layer[ring[j]]

(* The frames are stacked on the X server as the ring says, the other check of
   verify_stack_ring_consistency. *)
XMatchesRing == x = ring

(* the windows that hints connect with w, itself included *)
Family(st, w) ==
    LET top[v \in Windows] == LET p == LeaderOf(st, v) IN IF p = Root THEN v ELSE top[p]
        t == top[w]
    IN  {v \in Windows : top[v] = t}

(* An operation moves, iconifies or changes the layer of the windows of one
   family, however many of them it has to: all others keep their order, layer
   and state. *)
OneFamilyMoves ==
    [][LET now  == [ring |-> IF Managed \subseteq Managed' THEN ring' ELSE ring,
                    hint |-> hint']
           holds(f) == /\ Without(ring', f) = Without(ring, f)
                       /\ \A v \in Windows \ f : layer'[v] = layer[v]
                       /\ iconic' \ f = iconic \ f
       IN  \E w \in Windows : holds(Family(now, w))]_<<ring, layer, iconic>>

(* A module that had the order right before an operation and does what it is told
   has it right afterwards within each layer, but for one window, which is at the
   top of its layer below others.  RaiseWindow and LowerWindow tell it to put a
   window above or below all layers, before they look.  If nothing is to be moved
   it hears no more, and if a window is put next to the one that it has misplaced,
   it misplaces the next one, too. *)
PagerOffByOne ==
    view # ring => \E s \in Managed \ {Head(ring)} :
        /\ IsPlaced(Now, s, "raise")
        /\ \A l \in Layers : LET others == InLayer(Now, l) \ {s}
                              IN  Only(view, others) = Only(ring, others)

(* After Raise, only transients of a window, and theirs, are above it in its
   layer.  In particular it is above its siblings, and above its leader.
   Lower puts a window below all of its layer but its family. *)
ReachesEnd ==
    \A w \in Managed \ iconic :
       LET r == RaiseWindow(Now, w).ring
           low == LowerWindow(Now, w).ring
           tree == DOMAIN MarkTransientSubtree(Now, NoNumber, w, InLayer(Now, layer[w]), "all")
       IN  /\ \A v \in InLayer(Now, layer[w]) \ tree : IsAbove(r, w, v) \/ v = w
           /\ \A v \in InLayer(Now, layer[w]) \ Family(Now, w) : IsAbove(low, v, w)

=============================================================================
