------------------------- MODULE ComplexFuncProofs -------------------------
(***************************************************************************)
(* Proofs about ComplexFunc: whatever functions do to themselves and to    *)
(* one another, from items and from event loops inside of a Wait, no       *)
(* function that runs is freed, the counters agree with the C stack, the   *)
(* stack is bounded, the pointer is released in the end, and Break ends    *)
(* what it names.                                                          *)
(*                                                                         *)
(* The numbers are those of the frames of some kind: Idx(s, K) are the     *)
(* frames of the stack s whose kind, function and grab are in K.           *)
(***************************************************************************)
EXTENDS ComplexFunc, FiniteSetTheorems, ListLemmas

Look(fr) == <<fr.kind, fr.fn, fr.holds>>
Idx(s, K) == {d \in DOMAIN s : Look(s[d]) \in K}

Running(f) == {"func"} \X {f} \X BOOLEAN
Active == {"func"} \X Functions \X BOOLEAN
Waiting == {"loop"} \X {NoFunction} \X {TRUE}

Before(s, K, d) == {i \in Idx(s, K) : i < d}

(* The main event loop is at the bottom.  Below an activation no more      *)
(* Waits have given up a grab than there are activations.                  *)
StackOK(s) ==
    /\ s \in Seq(Frame) /\ s # <<>>
    /\ Look(s[1]) = <<"loop", NoFunction, FALSE>>
    /\ \A d \in 1 .. Len(s) : s[d].kind = "func" <=> s[d].fn \in Functions
    /\ \A d \in 1 .. Len(s) : s[d].kind = "func" =>
          Cardinality(Before(s, Waiting, d)) <= Cardinality(Before(s, Active, d))

(* t is s but for what a frame is doing *)
Same(t, s) ==
    /\ t \in Seq(Frame) /\ Len(t) = Len(s)
    /\ \A d \in 1 .. Len(s) : Look(t[d]) = Look(s[d])

NumbersOK ==
    /\ depth \in Nat /\ count \in 0 .. MaxItemsRun /\ executing \in BOOLEAN
    /\ grabs \in Nat /\ last \in Functions \cup {NoFunction}

TableOK ==
    /\ table \in [Functions -> Entry]
    /\ \A f \in Functions : table[f].use # 0 => table[f].defined
    /\ last # NoFunction => table[last].defined

CountsOK ==
    /\ \A f \in Functions : table[f].use = Cardinality(Idx(frames, Running(f)))
    /\ depth = Cardinality(Idx(frames, Active))
    /\ executing = (depth # 0)

(* A Wait has given up the grab of a function, and each activation and     *)
(* each event loop has cost an item, but for one of the outermost two and  *)
(* for the Waits that event loops have run.                                *)
Bare(s) == Cardinality(BareWaits(s))

BoundsOK ==
    /\ grabs + Cardinality(Idx(frames, Waiting)) <= depth
    /\ Len(frames) <= 2 * count + (IF InLoop THEN 1 ELSE 2) + Bare(frames)
    /\ depth = 0 => count = 0

IInv == StackOK(frames) /\ NumbersOK /\ TableOK /\ CountsOK /\ BoundsOK

-----------------------------------------------------------------------------
(* The stack *)

LEMMA FrameFields ==
    ASSUME NEW fr \in Frame
    PROVE  /\ fr.kind \in {"loop", "func"} /\ fr.fn \in Functions \cup {NoFunction}
           /\ fr.holds \in BOOLEAN /\ fr.brk \in Int /\ fr.cut \in BOOLEAN
           /\ fr.type \in Clicks
BY DEF Frame

LEMMA IdxFinite ==
    ASSUME NEW s \in Seq(Frame), NEW K
    PROVE  IsFiniteSet(Idx(s, K)) /\ Cardinality(Idx(s, K)) \in Nat
<1>1. Idx(s, K) \subseteq 1 .. Len(s) /\ Len(s) \in Nat
  BY DEF Idx
<1>2. IsFiniteSet(1 .. Len(s))
  BY <1>1, FS_Interval
<1> QED BY <1>1, <1>2, FS_Subset, FS_CardinalityType

LEMMA IdxSame ==
    ASSUME NEW s \in Seq(Frame), NEW t, Same(t, s), NEW K
    PROVE  Idx(t, K) = Idx(s, K)
BY DEF Same, Idx

LEMMA SameRefl ==
    ASSUME NEW s \in Seq(Frame)
    PROVE  Same(s, s)
BY DEF Same

LEMMA SameOK ==
    ASSUME NEW s, StackOK(s), NEW t, Same(t, s)
    PROVE  StackOK(t) /\ t[Len(t)].kind = s[Len(s)].kind
<1>1. /\ s \in Seq(Frame) /\ t \in Seq(Frame) /\ Len(s) \in Nat /\ Len(s) >= 1
      /\ Len(t) = Len(s)
  BY DEF StackOK, Same
<1>2. \A d \in 1 .. Len(s) : t[d].kind = s[d].kind /\ t[d].fn = s[d].fn
  BY DEF Same, Look
<1>3. Look(t[1]) = Look(s[1])
  BY <1>1 DEF Same
<1>4. \A K, d : Before(t, K, d) = Before(s, K, d)
  BY <1>1, IdxSame DEF Before
<1>5. t # <<>> /\ Len(s) \in 1 .. Len(s)
  BY <1>1
<1> QED BY <1>1, <1>2, <1>3, <1>4, <1>5 DEF StackOK

(* the number of frames of a kind when a frame is pushed *)
LEMMA IdxPush ==
    ASSUME NEW s \in Seq(Frame), NEW fr \in Frame, NEW K
    PROVE  Cardinality(Idx(Append(s, fr), K))
             = IF Look(fr) \in K THEN Cardinality(Idx(s, K)) + 1
               ELSE Cardinality(Idx(s, K))
<1> DEFINE t == Append(s, fr)
           n == Len(s) + 1
<1>1. /\ DOMAIN t = DOMAIN s \cup {n} /\ n \notin DOMAIN s
      /\ t[n] = fr /\ \A d \in DOMAIN s : t[d] = s[d]
  OBVIOUS
<1> HIDE DEF t, n
<1>2. CASE Look(fr) \in K
  <2>1. Idx(t, K) = Idx(s, K) \cup {n} /\ n \notin Idx(s, K)
    BY <1>1, <1>2 DEF Idx
  <2> QED BY <2>1, <1>2, IdxFinite, FS_AddElement DEF t
<1>3. CASE Look(fr) \notin K
  <2>1. Idx(t, K) = Idx(s, K)
    BY <1>1, <1>3 DEF Idx
  <2> QED BY <2>1, <1>3 DEF t
<1> QED BY <1>2, <1>3

LEMMA PushOK ==
    ASSUME NEW s, StackOK(s), NEW fr \in Frame,
           fr.kind = "func" <=> fr.fn \in Functions,
           fr.kind = "func" => Cardinality(Idx(s, Waiting)) <= Cardinality(Idx(s, Active))
    PROVE  /\ StackOK(Append(s, fr)) /\ Len(Append(s, fr)) = Len(s) + 1
           /\ Append(s, fr)[Len(s) + 1] = fr
<1> DEFINE t == Append(s, fr)
<1>1. s \in Seq(Frame) /\ s # <<>> /\ Len(s) \in Nat /\ Len(s) >= 1
  BY DEF StackOK
<1>2. /\ t \in Seq(Frame) /\ t # <<>> /\ Len(t) = Len(s) + 1
      /\ t[Len(s) + 1] = fr /\ \A d \in 1 .. Len(s) : t[d] = s[d]
  BY <1>1, AppendFacts
<1> HIDE DEF t
<1>3. Look(t[1]) = <<"loop", NoFunction, FALSE>>
  <2>1. 1 \in 1 .. Len(s)
    BY <1>1
  <2> QED BY <1>2, <2>1 DEF StackOK
<1>4. ASSUME NEW d \in 1 .. Len(t), t[d].kind = "func"
      PROVE  Cardinality(Before(t, Waiting, d)) <= Cardinality(Before(t, Active, d))
  <2>1. CASE d = Len(s) + 1
    <3>1. ASSUME NEW K PROVE Before(t, K, d) = Idx(s, K)
      BY <1>1, <1>2, <2>1 DEF Before, Idx
    <3> QED BY <3>1, <1>2, <1>4, <2>1
  <2>2. CASE d # Len(s) + 1
    <3>1. d \in 1 .. Len(s)
      BY <2>2, <1>1, <1>2
    <3>2. ASSUME NEW K PROVE Before(t, K, d) = Before(s, K, d)
      BY <1>1, <1>2, <3>1 DEF Before, Idx
    <3> QED BY <3>1, <3>2, <1>2, <1>4 DEF StackOK
  <2> QED BY <2>1, <2>2
<1>5. ASSUME NEW d \in 1 .. Len(t) PROVE t[d].kind = "func" <=> t[d].fn \in Functions
  <2>1. CASE d = Len(s) + 1
    BY <2>1, <1>2
  <2>2. CASE d # Len(s) + 1
    <3>1. d \in 1 .. Len(s)
      BY <2>2, <1>1, <1>2
    <3> QED BY <3>1, <1>2 DEF StackOK
  <2> QED BY <2>1, <2>2
<1>6. StackOK(t)
  BY <1>2, <1>3, <1>4, <1>5 DEF StackOK
<1> QED BY <1>2, <1>6 DEF t

(* popping is the reverse of pushing *)
LEMMA FrontPush ==
    ASSUME NEW s \in Seq(Frame), s # <<>>
    PROVE  /\ Front(s) \in Seq(Frame) /\ s[Len(s)] \in Frame
           /\ Len(Front(s)) = Len(s) - 1
           /\ \A d \in 1 .. Len(s) - 1 : Front(s)[d] = s[d]
           /\ DOMAIN Front(s) = 1 .. Len(s) - 1
           /\ s = Append(Front(s), s[Len(s)])
<1>1. /\ Front(s) \in Seq(Frame) /\ Len(Front(s)) = Len(s) - 1
      /\ DOMAIN Front(s) = 1 .. Len(s) - 1
      /\ \A d \in 1 .. Len(s) - 1 : Front(s)[d] = s[d]
  BY FrontFacts DEF Front
<1>2. s[Len(s)] \in Frame
  OBVIOUS
<1>3. s = Append(Front(s), s[Len(s)])
  <2> DEFINE t == Append(Front(s), s[Len(s)])
  <2>1. /\ t \in Seq(Frame) /\ Len(t) = Len(s) /\ t[Len(s)] = s[Len(s)]
        /\ \A d \in 1 .. Len(s) - 1 : t[d] = s[d]
    BY <1>1, <1>2, AppendFacts
  <2>2. \A d \in 1 .. Len(s) : t[d] = s[d]
    BY <2>1
  <2> HIDE DEF t
  <2> QED BY <2>1, <2>2, SeqEqual DEF t
<1> QED BY <1>1, <1>2, <1>3

LEMMA PopOK ==
    ASSUME NEW s, StackOK(s), Len(s) > 1
    PROVE  StackOK(Front(s))
<1>1. s \in Seq(Frame) /\ s # <<>> /\ Len(s) \in Nat
  BY DEF StackOK
<1>2. /\ Front(s) \in Seq(Frame) /\ Len(Front(s)) = Len(s) - 1
      /\ \A d \in 1 .. Len(s) - 1 : Front(s)[d] = s[d]
  BY <1>1, FrontPush
<1> DEFINE t == Front(s)
<1>3. t # <<>> /\ t[1] = s[1]
  BY <1>1, <1>2
<1>4. \A d \in 1 .. Len(t) : t[d] = s[d] /\ d \in 1 .. Len(s)
  BY <1>1, <1>2
<1>5. Len(t) = Len(s) - 1
  BY <1>2
<1>6. t \in Seq(Frame)
  BY <1>2
<1> HIDE DEF t
<1>7. Look(t[1]) = <<"loop", NoFunction, FALSE>>
  BY <1>3 DEF StackOK
<1>8. ASSUME NEW d \in 1 .. Len(t), t[d].kind = "func"
      PROVE  Cardinality(Before(t, Waiting, d)) <= Cardinality(Before(t, Active, d))
  <2>1. ASSUME NEW K PROVE Before(t, K, d) = Before(s, K, d)
    <3>1. DOMAIN t = 1 .. Len(t) /\ DOMAIN s = 1 .. Len(s) /\ Len(t) = Len(s) - 1
      BY <1>1, <1>5, <1>6
    <3> QED BY <1>1, <1>4, <3>1 DEF Before, Idx
  <2>2. t[d] = s[d] /\ d \in 1 .. Len(s)
    BY <1>4
  <2> QED BY <1>8, <2>1, <2>2 DEF StackOK
<1>9. \A d \in 1 .. Len(t) : t[d].kind = "func" <=> t[d].fn \in Functions
  BY <1>4, Zenon DEF StackOK
<1>10. StackOK(t)
  BY <1>3, <1>6, <1>7, <1>8, <1>9 DEF StackOK
<1> QED BY <1>10 DEF t

LEMMA IdxPop ==
    ASSUME NEW s, StackOK(s), Len(s) > 1, NEW K
    PROVE  /\ Cardinality(Idx(Front(s), K)) \in Nat
           /\ Cardinality(Idx(s, K))
             = IF Look(s[Len(s)]) \in K THEN Cardinality(Idx(Front(s), K)) + 1
               ELSE Cardinality(Idx(Front(s), K))
<1> DEFINE b == Front(s)
           x == s[Len(s)]
<1>1. b \in Seq(Frame) /\ x \in Frame /\ s = Append(b, x)
  BY FrontPush DEF StackOK
<1> HIDE DEF b, x
<1>2. /\ Cardinality(Idx(Append(b, x), K))
           = IF Look(x) \in K THEN Cardinality(Idx(b, K)) + 1
             ELSE Cardinality(Idx(b, K))
      /\ Cardinality(Idx(b, K)) \in Nat
  BY <1>1, IdxPush, IdxFinite
<1>3. Idx(Append(b, x), K) = Idx(s, K)
  BY <1>1
<1> QED BY <1>2, <1>3 DEF b, x

(* the Waits that event loops have run *)
LEMMA BareFacts ==
    ASSUME NEW s \in Seq(Frame)
    PROVE  /\ Bare(s) \in Nat
           /\ \A t : Same(t, s) => Bare(t) = Bare(s)
           /\ \A fr \in Frame : s # <<>> =>
                 Bare(Append(s, fr)) = IF fr.kind = "loop" /\ s[Len(s)].kind = "loop"
                                       THEN Bare(s) + 1 ELSE Bare(s)
<1>1. IsFiniteSet(BareWaits(s))
  <2>1. BareWaits(s) \subseteq 1 .. Len(s) /\ Len(s) \in Nat
    BY DEF BareWaits
  <2>2. IsFiniteSet(1 .. Len(s))
    BY <2>1, FS_Interval
  <2> QED BY <2>1, <2>2, FS_Subset
<1>2. Bare(s) \in Nat
  BY <1>1, FS_CardinalityType DEF Bare
<1>3. ASSUME NEW t, Same(t, s) PROVE Bare(t) = Bare(s)
  <2>1. /\ t \in Seq(Frame) /\ DOMAIN t = 1 .. Len(s) /\ DOMAIN s = 1 .. Len(s)
        /\ \A d \in 1 .. Len(s) : t[d].kind = s[d].kind
    BY <1>3 DEF Same, Look
  <2>2. \A d \in 1 .. Len(s) : d # 1 => d - 1 \in 1 .. Len(s)
    OBVIOUS
  <2>3. BareWaits(t) = BareWaits(s)
    BY <2>1, <2>2 DEF BareWaits
  <2> QED BY <2>3 DEF Bare
<1>4. ASSUME NEW fr \in Frame, s # <<>>
      PROVE  Bare(Append(s, fr)) = IF fr.kind = "loop" /\ s[Len(s)].kind = "loop"
                                   THEN Bare(s) + 1 ELSE Bare(s)
  <2> DEFINE t == Append(s, fr)
             n == Len(s) + 1
  <2>1. /\ DOMAIN t = (1 .. Len(s)) \cup {n} /\ DOMAIN s = 1 .. Len(s)
        /\ t[n] = fr /\ \A d \in 1 .. Len(s) : t[d] = s[d]
        /\ n - 1 = Len(s) /\ Len(s) \in 1 .. Len(s) /\ n \notin 1 .. Len(s) /\ n # 1
    BY <1>4, AppendFacts
  <2>2. \A d \in 1 .. Len(s) : d # 1 => d - 1 \in 1 .. Len(s)
    OBVIOUS
  <2> HIDE DEF t, n
  <2>3. /\ \A d \in 1 .. Len(s) : d \in BareWaits(t) <=> d \in BareWaits(s)
        /\ n \in BareWaits(t) <=> fr.kind = "loop" /\ s[Len(s)].kind = "loop"
        /\ BareWaits(t) \subseteq (1 .. Len(s)) \cup {n}
        /\ BareWaits(s) \subseteq 1 .. Len(s)
    BY <2>1, <2>2 DEF BareWaits
  <2>4. CASE fr.kind = "loop" /\ s[Len(s)].kind = "loop"
    <3>1. BareWaits(t) = BareWaits(s) \cup {n} /\ n \notin BareWaits(s)
      BY <2>1, <2>3, <2>4
    <3> QED BY <1>1, <2>4, <3>1, FS_AddElement DEF Bare, t
  <2>5. CASE ~(fr.kind = "loop" /\ s[Len(s)].kind = "loop")
    <3>1. BareWaits(t) = BareWaits(s)
      BY <2>1, <2>3, <2>5
    <3> QED BY <2>5, <3>1 DEF Bare, t
  <2> QED BY <2>4, <2>5
<1> QED BY <1>2, <1>3, <1>4

LEMMA BarePop ==
    ASSUME NEW s, StackOK(s), Len(s) > 1
    PROVE  /\ Bare(Front(s)) \in Nat
           /\ Bare(s) = Bare(Front(s)) \/ Bare(s) = Bare(Front(s)) + 1
           /\ s[Len(s)].kind = "func" => Bare(s) = Bare(Front(s))
           /\ s[Len(s) - 1].kind = "func" => Bare(s) = Bare(Front(s))
           /\ s[Len(s)].kind = "loop" /\ s[Len(s) - 1].kind = "loop" =>
                 Bare(s) = Bare(Front(s)) + 1
<1> DEFINE b == Front(s)
           x == s[Len(s)]
<1>1. /\ b \in Seq(Frame) /\ x \in Frame /\ s = Append(b, x) /\ Len(s) \in Nat
      /\ Len(b) = Len(s) - 1 /\ b[Len(b)] = s[Len(s) - 1] /\ b # <<>>
  <2>1. /\ s \in Seq(Frame) /\ s # <<>> /\ Len(s) - 1 \in 1 .. Len(s) - 1
    BY DEF StackOK
  <2>2. /\ b \in Seq(Frame) /\ x \in Frame /\ Len(b) = Len(s) - 1
        /\ s = Append(b, x) /\ \A d \in 1 .. Len(s) - 1 : b[d] = s[d]
    BY <2>1, FrontPush
  <2> HIDE DEF b, x
  <2> QED BY <2>1, <2>2
<1> HIDE DEF b, x
<1>2. /\ Bare(b) \in Nat
      /\ Bare(Append(b, x)) = IF x.kind = "loop" /\ b[Len(b)].kind = "loop"
                              THEN Bare(b) + 1 ELSE Bare(b)
  BY <1>1, BareFacts
<1>3. Bare(Append(b, x)) = Bare(s)
  BY <1>1
<1> QED BY <1>1, <1>2, <1>3 DEF b, x

(* If no function is left, only the main event loop is, and Waits that     *)
(* event loops have run.                                                   *)
LEMMA NoFunctionLeft ==
    ASSUME NEW s, StackOK(s), Cardinality(Idx(s, Active)) = 0
    PROVE  Len(s) = Bare(s) + 1 /\ s[Len(s)].kind = "loop"
<1>1. /\ s \in Seq(Frame) /\ s # <<>> /\ Len(s) \in Nat /\ Len(s) >= 1
      /\ DOMAIN s = 1 .. Len(s)
  BY DEF StackOK
<1>2. Idx(s, Active) = {}
  BY <1>1, IdxFinite, FS_EmptySet
<1>3. ASSUME NEW d \in 1 .. Len(s) PROVE s[d].kind = "loop"
  <2>1. s[d] \in Frame /\ d \in DOMAIN s
    BY <1>1
  <2>2. s[d].kind \in {"loop", "func"} /\ s[d].holds \in BOOLEAN
    BY <2>1, FrameFields
  <2>3. s[d].kind = "func" => Look(s[d]) \in Active
    BY <2>2 DEF StackOK, Look, Active
  <2> QED BY <1>2, <2>1, <2>2, <2>3 DEF Idx
<1>4. BareWaits(s) = 2 .. Len(s)
  <2>1. \A d \in 1 .. Len(s) : d # 1 => d - 1 \in 1 .. Len(s)
    BY <1>1
  <2>2. (1 .. Len(s)) \ {1} = 2 .. Len(s)
    BY <1>1
  <2> QED BY <1>1, <1>3, <2>1, <2>2 DEF BareWaits
<1>5. Bare(s) = Len(s) - 1
  <2>1. 2 \in Int /\ Len(s) \in Int /\ (2 > Len(s) => Len(s) = 1)
    BY <1>1
  <2>2. Cardinality(2 .. Len(s)) = IF 2 > Len(s) THEN 0 ELSE Len(s) - 2 + 1
    BY <2>1, FS_Interval
  <2> QED BY <1>1, <1>4, <2>1, <2>2 DEF Bare
<1>6. Len(s) \in 1 .. Len(s)
  BY <1>1
<1>7. s[Len(s)].kind = "loop"
  BY <1>3, <1>6
<1> QED BY <1>1, <1>5, <1>7

-----------------------------------------------------------------------------
(* The steps, in four kinds *)

(* a function that runs has a grab that no Wait has given up *)
LEMMA WaitsBelow ==
    ASSUME NEW s, StackOK(s), s[Len(s)].kind = "func"
    PROVE  Cardinality(Idx(s, Waiting)) <= Cardinality(Idx(s, Active)) - 1
<1> DEFINE W == Idx(s, Waiting)
           A == Idx(s, Active)
           n == Len(s)
<1>1. s \in Seq(Frame) /\ n \in Nat /\ n >= 1 /\ DOMAIN s = 1 .. n /\ n \in 1 .. n
  BY DEF StackOK
<1>2. n \in A /\ n \notin W
  <2>1. s[n].fn \in Functions /\ s[n].holds \in BOOLEAN
    BY <1>1, FrameFields DEF StackOK
  <2> QED BY <1>1, <2>1 DEF Idx, Look, Active, Waiting
<1>3. Before(s, Waiting, n) = W /\ Before(s, Active, n) = A \ {n}
  <2>1. W \subseteq 1 .. n /\ A \subseteq 1 .. n
    BY <1>1 DEF Idx
  <2> HIDE DEF n
  <2>2. \A d \in 1 .. n : d < n <=> d # n
    BY <1>1
  <2> QED BY <1>2, <2>1, <2>2 DEF Before
<1>4. Cardinality(Before(s, Waiting, n)) <= Cardinality(Before(s, Active, n))
  BY <1>1 DEF StackOK
<1>5. /\ IsFiniteSet(A) /\ Cardinality(A) \in Nat
      /\ Cardinality(A \ {n}) = Cardinality(A) - 1
  <2>1. IsFiniteSet(A) /\ Cardinality(A) \in Nat
    BY <1>1, IdxFinite
  <2> HIDE DEF A, n
  <2> QED BY <1>2, <2>1, FS_RemoveElement
<1> QED BY <1>3, <1>4, <1>5

LEMMA TopFacts ==
    ASSUME IInv, ~InLoop
    PROVE  /\ Top \in Frame /\ Top.kind = "func" /\ Top.fn \in Functions
           /\ depth # 0 /\ Len(frames) > 1 /\ table[Top.fn].use # 0
<1>1. /\ StackOK(frames) /\ frames \in Seq(Frame) /\ Len(frames) \in Nat
      /\ Len(frames) >= 1 /\ Len(frames) \in DOMAIN frames
  BY DEF IInv, StackOK
<1>2. Top \in Frame /\ Top.kind \in {"loop", "func"} /\ Top.holds \in BOOLEAN
  <2>1. Top \in Frame
    BY <1>1 DEF Top
  <2> QED BY <2>1, FrameFields
<1>3. Top.kind = "func" /\ Top.fn \in Functions
  <2>1. Len(frames) \in 1 .. Len(frames)
    BY <1>1
  <2>2. Top.kind = "func" <=> Top.fn \in Functions
    BY <1>1, <2>1 DEF StackOK, Top
  <2> QED BY <1>2, <2>2 DEF InLoop
<1>4. Len(frames) # 1
  <2> SUFFICES ASSUME Len(frames) = 1 PROVE FALSE
    OBVIOUS
  <2>1. Look(frames[1]) = <<"loop", NoFunction, FALSE>> /\ Top = frames[1]
    BY <1>1 DEF StackOK, Top
  <2> QED BY <1>3, <2>1 DEF Look
<1>5. Len(frames) \in Idx(frames, Active) /\ Len(frames) \in Idx(frames, Running(Top.fn))
  BY <1>1, <1>2, <1>3 DEF Idx, Look, Active, Running, Top
<1>6. \A K : Idx(frames, K) # {} => Cardinality(Idx(frames, K)) # 0
  BY <1>1, IdxFinite, FS_EmptySet
<1>7. Len(frames) > 1
  <2>1. Len(frames) \in Nat /\ Len(frames) >= 1
    BY <1>1
  <2>2. \A n \in Nat : n >= 1 /\ n # 1 => n > 1
    OBVIOUS
  <2> QED BY <1>4, <2>1, <2>2
<1>8. Idx(frames, Active) # {} /\ Idx(frames, Running(Top.fn)) # {}
  BY <1>5
<1>9. depth # 0 /\ table[Top.fn].use # 0
  BY <1>3, <1>6, <1>8, Zenon DEF IInv, CountsOK
<1> QED BY <1>2, <1>3, <1>7, <1>9

(* an item, or a command of an event, that leaves the stack as it is; a    *)
(* function may be called and end before its first item                    *)
QuietStep ==
    /\ Same(frames', frames) /\ depth' = depth
    /\ executing' = executing \/ executing' = (depth # 0)
    /\ grabs' \in Nat /\ grabs' <= grabs
    /\ \/ count' = count
       \/ ~InLoop /\ count < MaxItemsRun /\ count' = count + 1
       \/ depth = 0 /\ count' = 0
    /\ table' \in [Functions -> Entry]
    /\ \A f \in Functions : /\ table'[f].use = table[f].use
                            /\ table[f].use # 0 /\ table[f].defined => table'[f].defined
    /\ last' \in Functions \cup {NoFunction}
    /\ last' # NoFunction => table'[last'].defined

LEMMA Quiet ==
    ASSUME ComplexFuncAssumption, IInv, QuietStep
    PROVE  IInv'
<1>1. /\ StackOK(frames) /\ frames \in Seq(Frame) /\ MaxItemsRun \in Nat
      /\ depth \in Nat /\ count \in 0 .. MaxItemsRun /\ grabs \in Nat
  BY DEF IInv, StackOK, NumbersOK, ComplexFuncAssumption
<1>2. Same(frames', frames) /\ Len(frames') = Len(frames)
  BY DEF QuietStep, Same
<1>3. StackOK(frames') /\ (InLoop' <=> InLoop)
  BY <1>1, <1>2, SameOK DEF InLoop, Top
<1>4. \A K : Idx(frames', K) = Idx(frames, K)
  BY <1>1, <1>2, IdxSame
<1>5. /\ executing' \in BOOLEAN /\ executing' = (depth # 0) /\ depth' = depth
      /\ grabs' \in Nat /\ grabs' <= grabs
  BY DEF IInv, NumbersOK, CountsOK, QuietStep
<1>6. /\ Cardinality(Idx(frames, Waiting)) \in Nat
      /\ grabs + Cardinality(Idx(frames, Waiting)) <= depth
      /\ Len(frames) <= 2 * count + (IF InLoop THEN 1 ELSE 2) + Bare(frames)
      /\ depth = 0 => count = 0
      /\ Bare(frames) \in Nat /\ Bare(frames') = Bare(frames)
  BY <1>1, <1>2, IdxFinite, BareFacts DEF IInv, BoundsOK
<1>7. ~InLoop => depth # 0
  BY TopFacts
<1>8. depth = 0 => Len(frames) = Bare(frames) + 1 /\ InLoop
  BY <1>1, NoFunctionLeft DEF IInv, CountsOK, InLoop, Top
<1>9. count' \in 0 .. MaxItemsRun /\ (depth = 0 => count' = 0)
      /\ Len(frames) <= 2 * count' + (IF InLoop THEN 1 ELSE 2) + Bare(frames)
  <2> HIDE DEF InLoop
  <2>1. \/ count' = count
        \/ ~InLoop /\ count < MaxItemsRun /\ count' = count + 1
        \/ depth = 0 /\ count' = 0
    BY DEF QuietStep
  <2>2. Bare(frames) \in Nat /\ Len(frames) \in Nat /\ count \in Nat
    BY <1>1, <1>6
  <2>3. CASE InLoop
    BY <1>1, <1>6, <1>8, <2>1, <2>2, <2>3
  <2>4. CASE ~InLoop
    BY <1>1, <1>6, <1>7, <2>1, <2>2, <2>4
  <2> QED BY <2>3, <2>4
<1>10. BoundsOK'
  <2> HIDE DEF InLoop
  <2> QED BY <1>1, <1>2, <1>3, <1>4, <1>5, <1>6, <1>9 DEF BoundsOK
<1>11. NumbersOK'
  BY <1>1, <1>5, <1>9 DEF NumbersOK, QuietStep
<1> QED BY <1>3, <1>4, <1>5, <1>10, <1>11 DEF IInv, TableOK, CountsOK, QuietStep

-----------------------------------------------------------------------------
(* What the operators of the items do *)

LEMMA FrameChanges ==
    ASSUME NEW fr \in Frame, NEW n \in Nat, NEW b \in Int
    PROVE  /\ [fr EXCEPT !.pos = n] \in Frame /\ Look([fr EXCEPT !.pos = n]) = Look(fr)
           /\ [fr EXCEPT !.brk = b] \in Frame /\ Look([fr EXCEPT !.brk = b]) = Look(fr)
           /\ [fr EXCEPT !.cut = TRUE] \in Frame
           /\ Look([fr EXCEPT !.cut = TRUE]) = Look(fr)
<1>1. [fr EXCEPT !.pos = n] \in Frame /\ Look([fr EXCEPT !.pos = n]) = Look(fr)
  BY DEF Frame, Look
<1>2. [fr EXCEPT !.brk = b] \in Frame /\ Look([fr EXCEPT !.brk = b]) = Look(fr)
  BY DEF Frame, Look
<1>3. /\ [fr EXCEPT !.cut = TRUE] \in Frame
      /\ Look([fr EXCEPT !.cut = TRUE]) = Look(fr)
  BY DEF Frame, Look
<1> QED BY <1>1, <1>2, <1>3

LEMMA PhaseChanges ==
    ASSUME NEW fr \in Frame, NEW ph \in {"i", "j"} \cup Clicks, NEW ty \in Clicks
    PROVE  /\ [fr EXCEPT !.phase = ph, !.pos = 1, !.type = ty] \in Frame
           /\ Look([fr EXCEPT !.phase = ph, !.pos = 1, !.type = ty]) = Look(fr)
           /\ [fr EXCEPT !.phase = ph, !.pos = 1] \in Frame
           /\ Look([fr EXCEPT !.phase = ph, !.pos = 1]) = Look(fr)
<1>1. /\ [fr EXCEPT !.phase = ph, !.pos = 1, !.type = ty] \in Frame
      /\ Look([fr EXCEPT !.phase = ph, !.pos = 1, !.type = ty]) = Look(fr)
  BY DEF Frame, Look
<1>2. /\ [fr EXCEPT !.phase = ph, !.pos = 1] \in Frame
      /\ Look([fr EXCEPT !.phase = ph, !.pos = 1]) = Look(fr)
  BY DEF Frame, Look
<1> QED BY <1>1, <1>2

(* a new top frame that looks like the old one *)
LEMMA NewTop ==
    ASSUME NEW s \in Seq(Frame), s # <<>>, NEW fr \in Frame,
           Look(fr) = Look(s[Len(s)])
    PROVE  Same([s EXCEPT ![Len(s)] = fr], s)
<1> DEFINE t == [s EXCEPT ![Len(s)] = fr]
<1>1. /\ t \in Seq(Frame) /\ Len(t) = Len(s) /\ t[Len(s)] = fr
      /\ \A d \in 1 .. Len(s) - 1 : t[d] = s[d]
  BY LastFacts
<1>2. \A d \in 1 .. Len(s) : d = Len(s) \/ d \in 1 .. Len(s) - 1
  OBVIOUS
<1> HIDE DEF t
<1> QED BY <1>1, <1>2 DEF Same, t

LEMMA PassedSame ==
    ASSUME StackOK(frames), NEW i \in Nat
    PROVE  Same(Passed(i), frames)
<1>1. frames \in Seq(Frame) /\ frames # <<>> /\ Top \in Frame
  BY DEF StackOK, Top
<1>2. 0 \in Int /\ i + 1 \in Nat
  OBVIOUS
<1>3. [Top EXCEPT !.pos = i + 1] \in Frame /\ Look([Top EXCEPT !.pos = i + 1]) = Look(Top)
  BY <1>1, <1>2, FrameChanges
<1>4. Same([frames EXCEPT ![Len(frames)] = [Top EXCEPT !.pos = i + 1]], frames)
  BY <1>1, <1>3, NewTop DEF Top
<1>5. Passed(i) = [frames EXCEPT ![Len(frames)] = [Top EXCEPT !.pos = i + 1]]
  BY DEF Passed, Top
<1> QED BY <1>4, <1>5

LEMMA UseChanges ==
    ASSUME NEW e \in Entry
    PROVE  /\ e.use \in Nat
           /\ [e EXCEPT !.use = @ + 1] \in Entry
           /\ [e EXCEPT !.use = @ + 1].defined = e.defined
           /\ [e EXCEPT !.use = @ + 1].use = e.use + 1
           /\ e.use # 0 => [e EXCEPT !.use = @ - 1] \in Entry
           /\ [e EXCEPT !.use = @ - 1].defined = e.defined
           /\ [e EXCEPT !.use = @ - 1].use = e.use - 1
<1>1. e.defined \in BOOLEAN /\ e.items \in Seq(Items) /\ e.use \in Nat
  BY DEF Entry
<1> QED BY <1>1 DEF Entry

(* the phase of the top frame changes *)
LEMMA PhaseSame ==
    ASSUME NEW s \in Seq(Frame), s # <<>>,
           NEW t, NEW ph \in {"i", "j"} \cup Clicks, NEW ty \in Clicks,
           \/ t = [s EXCEPT ![Len(s)] = [@ EXCEPT !.phase = ph, !.pos = 1, !.type = ty]]
           \/ t = [s EXCEPT ![Len(s)] = [@ EXCEPT !.phase = ph, !.pos = 1]]
    PROVE  Same(t, s)
<1>1. s[Len(s)] \in Frame /\ 1 \in Nat /\ 0 \in Int
  OBVIOUS
<1> DEFINE a == [s[Len(s)] EXCEPT !.phase = ph, !.pos = 1, !.type = ty]
           b == [s[Len(s)] EXCEPT !.phase = ph, !.pos = 1]
<1>2. a \in Frame /\ Look(a) = Look(s[Len(s)]) /\ b \in Frame /\ Look(b) = Look(s[Len(s)])
  BY <1>1, PhaseChanges
<1>3. t = [s EXCEPT ![Len(s)] = a] \/ t = [s EXCEPT ![Len(s)] = b]
  OBVIOUS
<1> HIDE DEF a, b
<1> QED BY <1>2, <1>3, NewTop

(* what Break does to the frames *)
LEMMA BreakSame ==
    ASSUME NEW s, Same(s, frames), StackOK(frames), NEW levels \in Int
    PROVE  /\ Same(Cut(s, levels), frames)
           /\ Same([Cut(s, levels) EXCEPT ![Len(frames)].brk = levels], frames)
<1>1. /\ s \in Seq(Frame) /\ s # <<>> /\ Len(s) \in Nat /\ Len(s) = Len(frames)
      /\ \A d \in 1 .. Len(frames) : Look(s[d]) = Look(frames[d])
  <2>1. Len(frames) \in Nat /\ Len(frames) >= 1
    BY DEF StackOK
  <2> QED BY <2>1 DEF Same
<1>2. 0 \in Nat
  OBVIOUS
<1>3. ASSUME NEW x \in Frame
      PROVE  /\ [x EXCEPT !.cut = TRUE] \in Frame /\ Look([x EXCEPT !.cut = TRUE]) = Look(x)
             /\ [x EXCEPT !.brk = levels] \in Frame
             /\ Look([x EXCEPT !.brk = levels]) = Look(x)
  BY <1>2, FrameChanges
<1> DEFINE t == Cut(s, levels)
<1>4. /\ DOMAIN t = 1 .. Len(s)
      /\ \A d \in 1 .. Len(s) : t[d] = s[d] \/ t[d] = [s[d] EXCEPT !.cut = TRUE]
      /\ t = [d \in 1 .. Len(s) |-> t[d]]
  <2> DEFINE F(d) == IF /\ d \in {i \in DOMAIN s : \A j \in i .. Len(s) : s[j].kind = "func"}
                        /\ levels = -1 \/ d > Len(s) - levels
                     THEN [s[d] EXCEPT !.cut = TRUE] ELSE s[d]
  <2>1. t = [d \in DOMAIN s |-> F(d)]
    BY DEF Cut
  <2>2. DOMAIN s = 1 .. Len(s)
    BY <1>1
  <2>3. \A d : F(d) = s[d] \/ F(d) = [s[d] EXCEPT !.cut = TRUE]
    OBVIOUS
  <2> HIDE DEF F, t
  <2> QED BY <2>1, <2>2, <2>3
<1> HIDE DEF t
<1>5. \A d \in 1 .. Len(s) : t[d] \in Frame /\ Look(t[d]) = Look(frames[d])
  <2> SUFFICES ASSUME NEW d \in 1 .. Len(s)
               PROVE  t[d] \in Frame /\ Look(t[d]) = Look(frames[d])
    OBVIOUS
  <2>1. s[d] \in Frame /\ Look(s[d]) = Look(frames[d])
    BY <1>1
  <2> QED BY <1>3, <1>4, <2>1
<1>6. t \in Seq(Frame) /\ Len(t) = Len(frames)
  BY <1>1, <1>4, <1>5
<1>7. Same(t, frames)
  BY <1>1, <1>5, <1>6 DEF Same
<1> DEFINE n == Len(t)
           e == [t[n] EXCEPT !.brk = levels]
           u == [t EXCEPT ![n] = e]
<1>8. t # <<>> /\ t[n] \in Frame
  BY <1>1, <1>6
<1>9. e \in Frame /\ Look(e) = Look(t[n])
  BY <1>3, <1>8
<1>10. Same(u, t)
  <2> HIDE DEF e
  <2> QED BY <1>6, <1>8, <1>9, NewTop
<1>11. u = [t EXCEPT ![Len(frames)].brk = levels]
  BY <1>6
<1>12. Same(u, frames)
  <2> HIDE DEF u
  <2> QED BY <1>7, <1>10 DEF Same
<1> QED BY <1>7, <1>11, <1>12 DEF t

LEMMA EntryChanges ==
    ASSUME NEW e \in Entry, NEW item \in Items
    PROVE  /\ WithItem(e, item) \in Entry /\ WithItem(e, item).use = e.use
           /\ WithItem(e, item).defined
           /\ Destroyed(e) \in Entry /\ Destroyed(e).use = e.use
           /\ e.use # 0 => Destroyed(e) = e
<1>1. e.defined \in BOOLEAN /\ e.items \in Seq(Items) /\ e.use \in Nat
  BY DEF Entry
<1>2. WithItem(e, item) \in Entry /\ WithItem(e, item).use = e.use
      /\ WithItem(e, item).defined
  <2> DEFINE l == IF Len(e.items) < MaxItems THEN Append(e.items, item) ELSE e.items
  <2>1. l \in Seq(Items)
    BY <1>1
  <2>2. WithItem(e, item) = [e EXCEPT !.defined = TRUE, !.items = l]
    BY DEF WithItem
  <2> HIDE DEF l
  <2> QED BY <1>1, <2>1, <2>2 DEF Entry
<1>3. /\ Destroyed(e) \in Entry /\ Destroyed(e).use = e.use
      /\ e.use # 0 => Destroyed(e) = e
  <2>1. Undefined \in Entry /\ Undefined.use = 0
    BY DEF Entry, Undefined
  <2> QED BY <1>1, <2>1 DEF Destroyed
<1> QED BY <1>2, <1>3

(* What an item that runs tells of the state. *)
LEMMA RunFacts ==
    ASSUME ComplexFuncAssumption, IInv, NEW i \in 1 .. MaxItems, NEW op, ItemRuns(i, op)
    PROVE  /\ ~InLoop /\ count < MaxItemsRun /\ count + 1 \in 0 .. MaxItemsRun
           /\ Top.brk = 0 /\ Same(Passed(i), frames)
           /\ ItemsOf(Top)[i] \in Items /\ ItemsOf(Top)[i].do.op = op
<1>1. ~InLoop /\ ~PhaseDone(Top) /\ IsNext(Top, i) /\ ItemsOf(Top)[i].do.op = op
  BY DEF ItemRuns
<1>2. count < MaxItemsRun /\ Top.brk = 0
  BY <1>1 DEF PhaseDone, IInv, NumbersOK, ComplexFuncAssumption
<1>3. count + 1 \in 0 .. MaxItemsRun
  BY <1>2 DEF IInv, NumbersOK, ComplexFuncAssumption
<1>4. Top.fn \in Functions /\ table[Top.fn] \in Entry
  BY <1>1, TopFacts DEF IInv, TableOK
<1>5. ItemsOf(Top) \in Seq(Items)
  BY <1>4 DEF Entry, ItemsOf
<1>6. i \in DOMAIN ItemsOf(Top)
  BY <1>1 DEF IsNext, Matches
<1>7. ItemsOf(Top)[i] \in Items
  BY <1>5, <1>6
<1>8. Same(Passed(i), frames)
  <2>1. i \in Nat
    BY DEF ComplexFuncAssumption
  <2> QED BY <2>1, PassedSame DEF IInv
<1> QED BY <1>1, <1>2, <1>3, <1>7, <1>8

LEMMA TableWith ==
    ASSUME TableOK, NEW f \in Functions, NEW item \in Items,
           table' = [table EXCEPT ![f] = WithItem(@, item)]
    PROVE  /\ table' \in [Functions -> Entry]
           /\ \A g \in Functions : /\ table'[g].use = table[g].use
                                   /\ table[g].defined => table'[g].defined
           /\ table'[f].defined
<1>1. table \in [Functions -> Entry] /\ table[f] \in Entry
  BY DEF TableOK
<1>2. /\ WithItem(table[f], item) \in Entry
      /\ WithItem(table[f], item).use = table[f].use
      /\ WithItem(table[f], item).defined
  BY <1>1, EntryChanges
<1>3. table' = [table EXCEPT ![f] = WithItem(table[f], item)]
  OBVIOUS
<1>4. table'[f] = WithItem(table[f], item) /\ \A g \in Functions : g # f => table'[g] = table[g]
  BY <1>1, <1>3
<1>5. table' \in [Functions -> Entry]
  BY <1>1, <1>2, <1>3
<1> QED BY <1>2, <1>4, <1>5, Zenon

LEMMA TableWithout ==
    ASSUME TableOK, last \in Functions \cup {NoFunction}, ComplexFuncAssumption,
           NEW f \in Functions, Destroy(f)
    PROVE  /\ table' \in [Functions -> Entry]
           /\ \A g \in Functions :
                 /\ table'[g].use = table[g].use
                 /\ table[g].use # 0 /\ table[g].defined => table'[g].defined
           /\ last' \in Functions \cup {NoFunction}
           /\ last' # NoFunction => table'[last'].defined
<1>1. table \in [Functions -> Entry] /\ table[f] \in Entry
  BY DEF TableOK
<1>2. /\ Destroyed(table[f]) \in Entry /\ Destroyed(table[f]).use = table[f].use
      /\ table[f].use # 0 => Destroyed(table[f]) = table[f]
  <2>1. CASE Items = {}
    BY <1>1 DEF Destroyed, Undefined, Entry
  <2>2. CASE Items # {}
    <3>1. PICK item \in Items : TRUE
      BY <2>2
    <3> QED BY <1>1, <3>1, EntryChanges
  <2> QED BY <2>1, <2>2
<1>3. table' = [table EXCEPT ![f] = Destroyed(table[f])]
  BY DEF Destroy
<1>4. table'[f] = Destroyed(table[f]) /\ \A g \in Functions : g # f => table'[g] = table[g]
  BY <1>1, <1>3
<1>5. table' \in [Functions -> Entry]
  BY <1>1, <1>2, <1>3
<1>6. /\ last' \in Functions \cup {NoFunction}
      /\ last' # NoFunction => last' = last /\ ~table[f].defined
  BY DEF Destroy, LastAfterDestroy
<1>7. last' # NoFunction => table'[last'].defined
  BY <1>4, <1>6 DEF TableOK
<1> QED BY <1>2, <1>4, <1>5, <1>6, <1>7, Zenon

-----------------------------------------------------------------------------
(* The actions *)

LEMMA IInvFacts ==
    ASSUME ComplexFuncAssumption, IInv
    PROVE  /\ StackOK(frames) /\ frames \in Seq(Frame) /\ Same(frames, frames)
           /\ frames # <<>>
           /\ MaxItemsRun \in Nat /\ NoFunction \notin Functions
           /\ depth \in Nat /\ count \in 0 .. MaxItemsRun /\ count \in Nat
           /\ grabs \in Nat /\ grabs <= grabs /\ last \in Functions \cup {NoFunction}
           /\ table \in [Functions -> Entry] /\ TableOK
           /\ last # NoFunction => table[last].defined
BY SameRefl DEF IInv, StackOK, NumbersOK, TableOK, ComplexFuncAssumption

(* a step on the table, from an item or from an event *)
ItemCounts == ~InLoop /\ count < MaxItemsRun /\ count' = count + 1

LEMMA TableStep ==
    ASSUME ComplexFuncAssumption, IInv, Same(frames', frames),
           count' = count \/ ItemCounts, UNCHANGED <<depth, executing, grabs>>,
           \/ UNCHANGED <<table, last>>
           \/ \E f \in Functions : Destroy(f)
           \/ \E f \in Functions, item \in Items :
                 table' = [table EXCEPT ![f] = WithItem(@, item)] /\ last' = f
           \/ \E item \in Items : AddMore(item) /\ UNCHANGED last
    PROVE  IInv'
<1> USE IInvFacts
<1>1. /\ table' \in [Functions -> Entry]
      /\ \A f \in Functions :
            /\ table'[f].use = table[f].use
            /\ table[f].use # 0 /\ table[f].defined => table'[f].defined
      /\ last' \in Functions \cup {NoFunction}
      /\ last' # NoFunction => table'[last'].defined
  <2>1. CASE UNCHANGED <<table, last>>
    BY <2>1
  <2>2. CASE \E f \in Functions : Destroy(f)
    BY <2>2, TableWithout
  <2>3. CASE \E f \in Functions, item \in Items :
                 table' = [table EXCEPT ![f] = WithItem(@, item)] /\ last' = f
    <3>1. PICK f \in Functions, item \in Items :
                 table' = [table EXCEPT ![f] = WithItem(@, item)] /\ last' = f
      BY <2>3
    <3> QED BY <3>1, TableWith
  <2>4. CASE \E item \in Items : AddMore(item) /\ UNCHANGED last
    <3>1. PICK item \in Items : AddMore(item) /\ last' = last
      BY <2>4
    <3>2. CASE last = NoFunction
      BY <3>1, <3>2 DEF AddMore
    <3>3. CASE last # NoFunction
      <4>1. last \in Functions /\ table' = [table EXCEPT ![last] = WithItem(@, item)]
        BY <3>1, <3>3 DEF AddMore
      <4>2. /\ table' \in [Functions -> Entry]
            /\ \A g \in Functions : /\ table'[g].use = table[g].use
                                    /\ table[g].defined => table'[g].defined
            /\ table'[last].defined
        BY <4>1, TableWith
      <4> QED BY <3>1, <4>2
    <3> QED BY <3>2, <3>3
  <2> QED BY <2>1, <2>2, <2>3, <2>4
<1>2. QuietStep
  BY <1>1 DEF QuietStep, ItemCounts
<1> QED BY <1>2, Quiet

LEMMA ActivationFacts ==
    ASSUME ComplexFuncAssumption, NEW f \in Functions
    PROVE  /\ Activation(f) \in Frame /\ Activation(f).kind = "func"
           /\ Activation(f).fn = f /\ Activation(f).brk = 0 /\ Activation(f).cut = FALSE
           /\ Look(Activation(f)) \in Active /\ Look(Activation(f)) \notin Waiting
           /\ \A g \in Functions : Look(Activation(f)) \in Running(g) <=> g = f
<1>1. Activation(f) \in Frame
  BY DEF Activation, Frame, Clicks
<1>2. /\ Activation(f).kind = "func" /\ Activation(f).fn = f
      /\ Activation(f).holds = TRUE
      /\ Activation(f).brk = 0 /\ Activation(f).cut = FALSE
  BY DEF Activation
<1> QED BY <1>1, <1>2 DEF Look, Active, Waiting, Running

(* A function is called, by an item that was counted or by an event. *)
LEMMA CalledStep ==
    ASSUME ComplexFuncAssumption, IInv, NEW f \in Functions,
           NEW s, Same(s, frames), NEW n \in 0 .. MaxItemsRun, Called(f, s, n),
           UNCHANGED last,
           \/ InLoop /\ n = count
           \/ ~InLoop /\ n = count + 1
    PROVE  IInv'
<1> USE IInvFacts
<1>1. CASE /\ ~table[f].defined \/ n >= MaxItemsRun
           /\ frames' = s /\ count' = n
           /\ UNCHANGED <<table, depth, executing, grabs>>
  <2>1. count' = count \/ ItemCounts
    BY <1>1 DEF ItemCounts
  <2> QED BY <1>1, <2>1, TableStep
<1>2. CASE /\ table[f].defined /\ n < MaxItemsRun
           /\ frames' = s /\ grabs' = Ungrabbed(grabs)
           /\ count' = IF depth = 0 THEN 0 ELSE n
           /\ executing' = (depth # 0)
           /\ UNCHANGED <<table, depth>>
  <2>1. grabs' \in Nat /\ grabs' <= grabs
    BY <1>2 DEF Ungrabbed
  <2>2. \/ count' = count
        \/ ~InLoop /\ count < MaxItemsRun /\ count' = count + 1
        \/ depth = 0 /\ count' = 0
    BY <1>2
  <2>3. QuietStep
    BY <1>2, <2>1, <2>2 DEF QuietStep
  <2> QED BY <2>3, Quiet
<1>3. CASE /\ table[f].defined /\ n < MaxItemsRun
           /\ frames' = Append(s, Activation(f))
           /\ table' = [table EXCEPT ![f].use = @ + 1]
           /\ depth' = depth + 1 /\ count' = n /\ executing' = TRUE
           /\ grabs' \in MayGrab(grabs) \ {0}
  <2> DEFINE fr == Activation(f)
  <2>1. StackOK(s) /\ s \in Seq(Frame) /\ Len(s) = Len(frames)
    BY SameOK DEF Same
  <2>2. /\ fr \in Frame /\ fr.kind = "func" /\ fr.fn = f
        /\ Look(fr) \in Active /\ Look(fr) \notin Waiting
        /\ \A g \in Functions : Look(fr) \in Running(g) <=> g = f
    BY ActivationFacts
  <2> HIDE DEF fr
  <2>3. StackOK(frames') /\ Len(frames') = Len(frames) + 1 /\ frames'[Len(frames')] = fr
    <3>1. Idx(s, Waiting) = Idx(frames, Waiting) /\ Idx(s, Active) = Idx(frames, Active)
      BY IdxSame
    <3>2. Cardinality(Idx(frames, Waiting)) \in Nat
      BY IdxFinite
    <3>3. Cardinality(Idx(s, Waiting)) <= Cardinality(Idx(s, Active))
      BY <3>1, <3>2 DEF IInv, BoundsOK, CountsOK
    <3> QED BY <1>3, <2>1, <2>2, <3>3, PushOK DEF fr
  <2>4. \A K : /\ Cardinality(Idx(frames, K)) \in Nat
               /\ Cardinality(Idx(frames', K))
                    = IF Look(fr) \in K THEN Cardinality(Idx(frames, K)) + 1
                      ELSE Cardinality(Idx(frames, K))
    <3> SUFFICES ASSUME NEW K
                 PROVE  /\ Cardinality(Idx(frames, K)) \in Nat
                        /\ Cardinality(Idx(frames', K))
                             = IF Look(fr) \in K THEN Cardinality(Idx(frames, K)) + 1
                               ELSE Cardinality(Idx(frames, K))
      OBVIOUS
    <3>1. Idx(s, K) = Idx(frames, K)
      BY IdxSame
    <3>2. s \in Seq(Frame) /\ frames' = Append(s, fr)
      BY <1>3, <2>1 DEF fr
    <3>3. Cardinality(Idx(s, K)) \in Nat
      BY <3>2, IdxFinite
    <3>4. Cardinality(Idx(Append(s, fr), K))
            = IF Look(fr) \in K THEN Cardinality(Idx(s, K)) + 1
              ELSE Cardinality(Idx(s, K))
      BY <2>2, <3>2, IdxPush
    <3> QED BY <3>1, <3>2, <3>3, <3>4
  <2>5. /\ table' \in [Functions -> Entry] /\ table'[f].use = table[f].use + 1
        /\ table'[f].defined
        /\ \A g \in Functions : g # f => table'[g] = table[g]
    <3> DEFINE e == [table[f] EXCEPT !.use = @ + 1]
    <3>1. table[f] \in Entry /\ table[f].use \in Nat
      BY DEF Entry
    <3>2. e \in Entry /\ e.use = table[f].use + 1 /\ e.defined = table[f].defined
      BY <3>1, UseChanges
    <3>3. table' = [table EXCEPT ![f] = e]
      BY <1>3
    <3> HIDE DEF e
    <3>4. table \in [Functions -> Entry]
      BY IInvFacts
    <3>5. table' \in [Functions -> Entry]
      BY <3>2, <3>3, <3>4
    <3>6. table'[f] = e /\ \A g \in Functions : g # f => table'[g] = table[g]
      BY <3>3, <3>4
    <3> QED BY <1>3, <3>2, <3>5, <3>6
  <2>6. TableOK'
    <3>1. \A g \in Functions : /\ table'[g].use # 0 => table'[g].defined
                              /\ table[g].defined => table'[g].defined
      BY <2>5, Zenon DEF TableOK
    <3> QED BY <2>5, <3>1 DEF TableOK
  <2>7. CountsOK'
    <3>1. depth' = Cardinality(Idx(frames', Active)) /\ executing' = (depth' # 0)
      <4>1. depth = Cardinality(Idx(frames, Active))
        BY DEF IInv, CountsOK
      <4>2. depth' = depth + 1 /\ executing' = TRUE
        BY <1>3
      <4>3. Cardinality(Idx(frames', Active)) = Cardinality(Idx(frames, Active)) + 1
        BY <2>2, <2>4
      <4>4. depth' # 0
        BY <4>2
      <4>5. executing' = (depth' # 0)
        BY <4>2, <4>4, Zenon
      <4> QED BY <4>1, <4>2, <4>3, <4>5
    <3>2. ASSUME NEW g \in Functions
          PROVE  table'[g].use = Cardinality(Idx(frames', Running(g)))
      <4>1. table[g].use = Cardinality(Idx(frames, Running(g)))
        BY DEF IInv, CountsOK
      <4>2. CASE g = f
        BY <2>2, <2>4, <2>5, <4>1, <4>2
      <4>3. CASE g # f
        BY <2>2, <2>4, <2>5, <4>1, <4>3
      <4> QED BY <4>2, <4>3
    <3> QED BY <3>1, <3>2 DEF CountsOK
  <2>8. NumbersOK'
    BY <1>3 DEF NumbersOK, MayGrab
  <2>9. BoundsOK'
    <3>1. grabs' \in Nat /\ grabs' <= grabs + 1
      BY <1>3 DEF MayGrab
    <3>2. grabs' + Cardinality(Idx(frames', Waiting)) <= depth'
      <4>1. /\ Cardinality(Idx(frames', Waiting)) = Cardinality(Idx(frames, Waiting))
            /\ Cardinality(Idx(frames, Waiting)) \in Nat
        BY <2>2, <2>4
      <4>2. grabs + Cardinality(Idx(frames, Waiting)) <= depth /\ depth' = depth + 1
        BY <1>3 DEF IInv, BoundsOK
      <4> QED BY <3>1, <4>1, <4>2
    <3>3. ~InLoop'
      BY <2>2, <2>3 DEF InLoop, Top
    <3>4. /\ Len(frames) <= 2 * count + (IF InLoop THEN 1 ELSE 2) + Bare(frames)
          /\ Len(frames) \in Nat
      BY DEF IInv, BoundsOK
    <3>5. Bare(frames) \in Nat /\ Bare(frames') = Bare(frames)
      <4>1. Bare(s) = Bare(frames) /\ Bare(frames) \in Nat
        BY BareFacts
      <4>2. frames' = Append(s, fr) /\ s # <<>>
        BY <1>3, <2>1 DEF fr
      <4>3. Bare(Append(s, fr)) = Bare(s)
        BY <2>1, <2>2, <4>2, BareFacts
      <4> QED BY <4>1, <4>2, <4>3
    <3>6. Len(frames') <= 2 * count' + 2 + Bare(frames')
      <4> HIDE DEF InLoop
      <4>1. /\ Len(frames') = Len(frames) + 1 /\ count' = n
            /\ Bare(frames') = Bare(frames) /\ n \in Nat /\ count \in Nat
        BY <1>3, <2>3, <3>5
      <4>2. CASE InLoop
        BY <3>4, <3>5, <4>1, <4>2
      <4>3. CASE ~InLoop
        BY <3>4, <3>5, <4>1, <4>3
      <4> QED BY <4>2, <4>3
    <3> QED BY <1>3, <3>2, <3>3, <3>6 DEF BoundsOK
  <2> QED BY <2>3, <2>6, <2>7, <2>8, <2>9 DEF IInv
<1> QED BY <1>1, <1>2, <1>3 DEF Called

(* The stack without the function that ends *)
LEMMA LeaveStack ==
    ASSUME IInv, ~InLoop, Leave
    PROVE  Same(frames', Below)
<1>1. /\ StackOK(frames) /\ frames \in Seq(Frame) /\ frames # <<>>
      /\ Top \in Frame /\ Len(frames) > 1
  BY TopFacts DEF IInv, StackOK
<1>2. /\ Below \in Seq(Frame) /\ DOMAIN Below = 1 .. Len(Below)
  BY <1>1, FrontPush DEF Below
<1>3. BreakAfter(Top) \in Int
  BY <1>1, FrameFields DEF BreakAfter
<1>4. ASSUME NEW x \in Frame
      PROVE  /\ [x EXCEPT !.brk = BreakAfter(Top)] \in Frame
             /\ Look([x EXCEPT !.brk = BreakAfter(Top)]) = Look(x)
  <2>1. 0 \in Nat
    OBVIOUS
  <2> QED BY <1>3, <2>1, FrameChanges
<1> DEFINE F(i) == IF i = Len(Below) /\ Below[i].kind = "func"
                   THEN [Below[i] EXCEPT !.brk = BreakAfter(Top)] ELSE Below[i]
<1>5. frames' = [i \in 1 .. Len(Below) |-> F(i)]
  BY <1>2 DEF Leave
<1>6. \A i \in 1 .. Len(Below) : F(i) \in Frame /\ Look(F(i)) = Look(Below[i])
  BY <1>2, <1>4
<1> HIDE DEF F
<1>7. Len(Below) \in Nat
  BY <1>2
<1>8. frames' \in Seq(Frame) /\ Len(frames') = Len(Below)
  BY <1>5, <1>6, <1>7
<1>9. \A i \in 1 .. Len(Below) : frames'[i] = F(i)
  BY <1>5
<1> QED BY <1>6, <1>8, <1>9 DEF Same

LEMMA LeaveStep ==
    ASSUME ComplexFuncAssumption, IInv, ~InLoop, Leave
    PROVE  IInv'
<1> DEFINE f == Top.fn
           b == Below
<1>0. /\ StackOK(frames) /\ frames \in Seq(Frame) /\ frames # <<>>
      /\ Top \in Frame /\ Top.kind = "func" /\ f \in Functions
      /\ depth \in Nat /\ depth # 0 /\ Len(frames) > 1 /\ table[f].use # 0
      /\ MaxItemsRun \in Nat /\ count \in 0 .. MaxItemsRun /\ count \in Nat
      /\ grabs \in Nat /\ last \in Functions \cup {NoFunction} /\ TableOK
      /\ table \in [Functions -> Entry] /\ table[f] \in Entry
  <2>1. /\ Top \in Frame /\ Top.kind = "func" /\ f \in Functions
        /\ depth # 0 /\ Len(frames) > 1 /\ table[f].use # 0
    BY TopFacts
  <2>2. /\ StackOK(frames) /\ frames \in Seq(Frame) /\ frames # <<>>
        /\ MaxItemsRun \in Nat /\ count \in 0 .. MaxItemsRun /\ count \in Nat
        /\ depth \in Nat /\ grabs \in Nat /\ last \in Functions \cup {NoFunction}
        /\ TableOK /\ table \in [Functions -> Entry]
    BY IInvFacts
  <2> HIDE DEF f
  <2> QED BY <2>1, <2>2
<1>1. StackOK(b) /\ Len(b) = Len(frames) - 1 /\ b \in Seq(Frame)
  BY <1>0, PopOK, FrontPush DEF Below
<1>2. Same(frames', b) /\ StackOK(frames') /\ Len(frames') = Len(frames) - 1
  BY <1>1, LeaveStack, SameOK DEF Same
<1>3. \A K : /\ Cardinality(Idx(frames', K)) \in Nat
             /\ Cardinality(Idx(frames, K))
                  = IF Look(Top) \in K THEN Cardinality(Idx(frames', K)) + 1
                    ELSE Cardinality(Idx(frames', K))
  <2> SUFFICES ASSUME NEW K
               PROVE  /\ Cardinality(Idx(frames', K)) \in Nat
                      /\ Cardinality(Idx(frames, K))
                           = IF Look(Top) \in K THEN Cardinality(Idx(frames', K)) + 1
                             ELSE Cardinality(Idx(frames', K))
    OBVIOUS
  <2>1. Idx(frames', K) = Idx(b, K)
    BY <1>1, <1>2, IdxSame
  <2> QED BY <1>0, <2>1, IdxPop DEF Top, Below
<1>4. /\ Look(Top) \in Active /\ Look(Top) \notin Waiting
      /\ \A g \in Functions : Look(Top) \in Running(g) <=> g = f
  <2>1. Top.kind = "func" /\ Top.fn \in Functions /\ Top.holds \in BOOLEAN
    BY <1>0, FrameFields
  <2> QED BY <2>1 DEF Look, Active, Waiting, Running
<1> HIDE DEF f, b
<1>5. /\ depth = Cardinality(Idx(frames, Active))
      /\ Cardinality(Idx(frames', Active)) = depth - 1
  <2>1. depth = Cardinality(Idx(frames, Active))
    BY DEF IInv, CountsOK
  <2> QED BY <1>3, <1>4, <2>1
<1>6. /\ depth' = depth - 1 /\ executing' = (depth' # 0) /\ depth' \in Nat
      /\ count' = (IF depth' = 0 THEN 0 ELSE count)
      /\ grabs' = Ungrabbed(grabs) /\ last' = last
  <2>1. /\ depth' = depth - 1 /\ executing' = (depth - 1 # 0)
        /\ count' = (IF depth - 1 = 0 THEN 0 ELSE count)
        /\ grabs' = Ungrabbed(grabs) /\ last' = last
    BY DEF Leave, ExecutingAfter, CountAfter, GrabsAfter
  <2>2. depth - 1 \in Nat
    BY <1>0
  <2> QED BY <2>1, <2>2, Zenon
<1>7. /\ table' \in [Functions -> Entry] /\ table'[f].use = table[f].use - 1
      /\ table'[f].defined = table[f].defined
      /\ \A g \in Functions : g # f => table'[g] = table[g]
  <2> DEFINE e == [table[f] EXCEPT !.use = @ - 1]
  <2>1. f \in Functions /\ table[f] \in Entry /\ table[f].use # 0
    BY <1>0
  <2>2. e \in Entry /\ e.use = table[f].use - 1 /\ e.defined = table[f].defined
    BY <2>1, UseChanges
  <2>3. table' = [table EXCEPT ![f] = e]
    BY DEF Leave, f
  <2> HIDE DEF e
  <2> QED BY <1>0, <2>1, <2>2, <2>3
<1>8. TableOK'
  <2>1. \A g \in Functions : /\ table'[g].use # 0 => table'[g].defined
                            /\ table[g].defined => table'[g].defined
    <3>1. \A g \in Functions : table[g].use # 0 => table[g].defined
      BY <1>0 DEF TableOK
    <3>2. table[f].defined /\ table'[f].defined
      BY <1>0, <1>7, <3>1, Zenon
    <3>3. \A g \in Functions : g # f => table'[g] = table[g]
      BY <1>7
    <3> QED BY <3>1, <3>2, <3>3, Zenon
  <2> QED BY <1>0, <1>6, <1>7, <2>1 DEF TableOK
<1>9. CountsOK'
  <2>1. ASSUME NEW g \in Functions
        PROVE  table'[g].use = Cardinality(Idx(frames', Running(g)))
    <3>1. table[g].use = Cardinality(Idx(frames, Running(g)))
      BY DEF IInv, CountsOK
    <3>2. CASE g = f
      <4>1. Cardinality(Idx(frames, Running(f))) = Cardinality(Idx(frames', Running(f))) + 1
        BY <1>0, <1>3, <1>4
      <4>2. Cardinality(Idx(frames', Running(f))) \in Nat
        BY <1>3
      <4> QED BY <1>7, <3>1, <3>2, <4>1, <4>2
    <3>3. CASE g # f
      <4>1. Cardinality(Idx(frames, Running(g))) = Cardinality(Idx(frames', Running(g)))
        BY <1>3, <1>4, <3>3
      <4> QED BY <1>7, <3>1, <3>3, <4>1
    <3> QED BY <3>2, <3>3
  <2> QED BY <1>5, <1>6, <2>1 DEF CountsOK
<1>10. NumbersOK'
  <2>1. grabs' \in Nat
    BY <1>0, <1>6 DEF Ungrabbed
  <2>2. count' \in 0 .. MaxItemsRun
    BY <1>0, <1>6
  <2>3. executing' \in BOOLEAN
    BY <1>6, Zenon
  <2> QED BY <1>0, <1>6, <2>1, <2>2, <2>3 DEF NumbersOK
<1>11. BoundsOK'
  <2>1. /\ Cardinality(Idx(frames', Waiting)) = Cardinality(Idx(frames, Waiting))
        /\ Cardinality(Idx(frames', Waiting)) \in Nat
    BY <1>3, <1>4
  <2>2. /\ grabs + Cardinality(Idx(frames, Waiting)) <= depth
        /\ Len(frames) <= 2 * count + (IF InLoop THEN 1 ELSE 2) + Bare(frames)
    BY DEF IInv, BoundsOK
  <2>3. grabs' + Cardinality(Idx(frames', Waiting)) <= depth'
    <3>1. grabs' = (IF grabs > 0 THEN grabs - 1 ELSE 0) /\ depth' = depth - 1
      BY <1>6 DEF Ungrabbed
    <3>2. grabs \in Nat /\ depth \in Nat /\ depth # 0
      BY <1>0
    <3> DEFINE w == Cardinality(Idx(frames', Waiting))
    <3>3. w \in Nat /\ grabs + w <= depth
      BY <2>1, <2>2
    <3>4. w <= depth - 1
      BY <1>0, <1>5, <2>1, WaitsBelow DEF Top
    <3> HIDE DEF w
    <3>5. CASE grabs > 0
      BY <3>1, <3>2, <3>3, <3>5 DEF w
    <3>6. CASE grabs = 0
      BY <3>1, <3>2, <3>3, <3>4, <3>6 DEF w
    <3> QED BY <3>2, <3>5, <3>6
  <2>4. depth' = 0 => Len(frames') = Bare(frames') + 1 /\ InLoop'
    BY <1>2, <1>5, <1>6, NoFunctionLeft DEF InLoop, Top
  <2>5. Bare(frames) \in Nat /\ Bare(frames') = Bare(frames)
    <3>1. Bare(b) \in Nat /\ Bare(frames) = Bare(b)
      BY <1>0, BarePop DEF b, Below, Top
    <3> QED BY <1>1, <1>2, <3>1, BareFacts
  <2>6. Len(frames') <= 2 * count' + (IF InLoop' THEN 1 ELSE 2) + Bare(frames')
    <3>1. CASE depth' = 0
      <4>1. count' = 0 /\ Len(frames') = Bare(frames') + 1
        BY <1>6, <2>4, <3>1
      <4> HIDE DEF InLoop
      <4> QED BY <2>4, <2>5, <3>1, <4>1
    <3>2. CASE depth' # 0
      <4>1. count' = count
        BY <1>6, <3>2
      <4>2. Len(frames) <= 2 * count + 2 + Bare(frames) /\ Len(frames) \in Nat
        BY <1>0, <2>2
      <4>3. Len(frames') <= 2 * count + 1 + Bare(frames')
        BY <1>0, <1>2, <2>5, <4>2
      <4> HIDE DEF InLoop
      <4> QED BY <1>0, <2>5, <4>1, <4>3
    <3> HIDE DEF InLoop
    <3> QED BY <3>1, <3>2
  <2> QED BY <1>6, <2>3, <2>6 DEF BoundsOK
<1> QED BY <1>2, <1>8, <1>9, <1>10, <1>11 DEF IInv

LEMMA LoopFrameFacts ==
    ASSUME ComplexFuncAssumption, NEW b \in BOOLEAN
    PROVE  /\ LoopFrame(b) \in Frame /\ LoopFrame(b).kind = "loop"
           /\ LoopFrame(b).fn = NoFunction /\ LoopFrame(b).fn \notin Functions
           /\ LoopFrame(b).brk = 0
           /\ Look(LoopFrame(b)) \in Waiting <=> b
           /\ Look(LoopFrame(b)) \notin Active
           /\ \A g : Look(LoopFrame(b)) \notin Running(g)
<1>1. LoopFrame(b) \in Frame
  BY DEF LoopFrame, Frame, Clicks
<1>2. /\ LoopFrame(b).kind = "loop" /\ LoopFrame(b).fn = NoFunction
      /\ LoopFrame(b).holds = b /\ LoopFrame(b).brk = 0
  BY DEF LoopFrame
<1>3. NoFunction \notin Functions
  BY DEF ComplexFuncAssumption
<1>4. Look(LoopFrame(b)) = <<"loop", NoFunction, b>>
  BY <1>2 DEF Look
<1>5. /\ <<"loop", NoFunction, b>> \in Waiting <=> b
      /\ <<"loop", NoFunction, b>> \notin Active
      /\ \A g : <<"loop", NoFunction, b>> \notin Running(g)
  BY DEF Active, Waiting, Running
<1> QED BY <1>1, <1>2, <1>3, <1>4, <1>5

(* a Wait begins, in a function or in an event loop *)
LEMMA WaitStep ==
    ASSUME ComplexFuncAssumption, IInv, NEW s, Same(s, frames),
           frames' = Append(s, LoopFrame(grabs > 0)), grabs' = Ungrabbed(grabs),
           UNCHANGED <<table, depth, executing, last>>,
           \/ ~InLoop /\ count + 1 \in 0 .. MaxItemsRun /\ count' = count + 1
           \/ InLoop /\ count' = count
    PROVE  IInv'
<1> DEFINE g == grabs > 0
           fr == LoopFrame(g)
<1>0. /\ StackOK(frames) /\ frames \in Seq(Frame) /\ TableOK
      /\ depth \in Nat /\ count \in Nat /\ grabs \in Nat /\ MaxItemsRun \in Nat
      /\ last \in Functions \cup {NoFunction}
  BY IInvFacts
<1>1. count' \in 0 .. MaxItemsRun /\ count' \in Nat /\ (depth = 0 => count' = 0)
  <2>1. ~InLoop => depth # 0
    BY TopFacts
  <2> HIDE DEF InLoop
  <2> QED BY <1>0, <2>1 DEF IInv, NumbersOK, BoundsOK
<1>2. /\ frames' = Append(s, fr) /\ grabs' = Ungrabbed(grabs)
      /\ UNCHANGED <<table, depth, executing, last>>
  OBVIOUS
<1>3. /\ StackOK(s) /\ s \in Seq(Frame) /\ Len(s) = Len(frames) /\ s # <<>>
      /\ s[Len(s)].kind = "loop" <=> InLoop
  <2>1. StackOK(s) /\ s[Len(s)].kind = frames[Len(frames)].kind
    BY <1>0, SameOK
  <2>2. s \in Seq(Frame) /\ Len(s) = Len(frames) /\ s # <<>>
    BY <2>1 DEF Same, StackOK
  <2> QED BY <2>1, <2>2 DEF InLoop, Top
<1>4. /\ fr \in Frame /\ fr.kind = "loop" /\ fr.kind # "func"
      /\ fr.fn \notin Functions
      /\ Look(fr) \in Waiting <=> g
      /\ Look(fr) \notin Active
      /\ \A h : Look(fr) \notin Running(h)
  <2>1. g \in BOOLEAN
    OBVIOUS
  <2> HIDE DEF g
  <2> QED BY <2>1, LoopFrameFacts
<1> HIDE DEF fr
<1>5. StackOK(frames') /\ Len(frames') = Len(frames) + 1 /\ InLoop'
  BY <1>2, <1>3, <1>4, PushOK DEF InLoop, Top
<1>6. \A K : /\ Cardinality(Idx(frames, K)) \in Nat
             /\ Cardinality(Idx(frames', K))
                  = IF Look(fr) \in K THEN Cardinality(Idx(frames, K)) + 1
                    ELSE Cardinality(Idx(frames, K))
  <2> SUFFICES ASSUME NEW K
               PROVE  /\ Cardinality(Idx(frames, K)) \in Nat
                      /\ Cardinality(Idx(frames', K))
                           = IF Look(fr) \in K THEN Cardinality(Idx(frames, K)) + 1
                             ELSE Cardinality(Idx(frames, K))
    OBVIOUS
  <2>1. Idx(s, K) = Idx(frames, K)
    BY <1>0, IdxSame
  <2> QED BY <1>0, <1>2, <1>3, <1>4, <2>1, IdxPush, IdxFinite
<1>7. CountsOK'
  <2>1. Cardinality(Idx(frames', Active)) = Cardinality(Idx(frames, Active))
    BY <1>4, <1>6
  <2>2. \A h \in Functions :
          Cardinality(Idx(frames', Running(h))) = Cardinality(Idx(frames, Running(h)))
    BY <1>4, <1>6
  <2> QED BY <1>2, <2>1, <2>2 DEF IInv, CountsOK
<1>8. grabs' + Cardinality(Idx(frames', Waiting)) <= depth'
  <2> DEFINE w == Cardinality(Idx(frames, Waiting))
  <2>1. w \in Nat /\ Cardinality(Idx(frames', Waiting)) = IF g THEN w + 1 ELSE w
    BY <1>4, <1>6
  <2>2. grabs + w <= depth
    BY DEF IInv, BoundsOK
  <2>3. grabs' = (IF g THEN grabs - 1 ELSE 0) /\ depth' = depth
    BY <1>2 DEF Ungrabbed
  <2> HIDE DEF w
  <2> QED BY <1>0, <2>1, <2>2, <2>3
<1>9. BoundsOK'
  <2>1. /\ Len(frames) <= 2 * count + (IF InLoop THEN 1 ELSE 2) + Bare(frames)
        /\ Len(frames) \in Nat
    BY <1>0 DEF IInv, BoundsOK
  <2>2. /\ Bare(frames) \in Nat
        /\ Bare(frames') = IF InLoop THEN Bare(frames) + 1 ELSE Bare(frames)
    <3>1. Bare(frames) \in Nat /\ Bare(s) = Bare(frames)
      BY <1>0, BareFacts
    <3>2. Bare(Append(s, fr)) = IF s[Len(s)].kind = "loop" THEN Bare(s) + 1 ELSE Bare(s)
      BY <1>3, <1>4, BareFacts
    <3> HIDE DEF InLoop
    <3> QED BY <1>2, <1>3, <3>1, <3>2
  <2> HIDE DEF InLoop
  <2>3. Len(frames') <= 2 * count' + 1 + Bare(frames')
    BY <1>0, <1>5, <2>1, <2>2
  <2> QED BY <1>1, <1>2, <1>5, <1>8, <2>3 DEF BoundsOK
<1>10. NumbersOK'
  BY <1>0, <1>1, <1>2 DEF IInv, NumbersOK, Ungrabbed
<1>11. TableOK'
  BY <1>0, <1>2 DEF TableOK
<1> QED BY <1>5, <1>7, <1>9, <1>10, <1>11 DEF IInv

LEMMA WaitEndsStep ==
    ASSUME ComplexFuncAssumption, IInv, WaitEnds
    PROVE  IInv'
<1>0. /\ StackOK(frames) /\ frames \in Seq(Frame) /\ frames # <<>> /\ TableOK
      /\ depth \in Nat /\ count \in Nat /\ grabs \in Nat /\ MaxItemsRun \in Nat
      /\ last \in Functions \cup {NoFunction} /\ Len(frames) \in Nat
  BY IInvFacts
<1>1. /\ InLoop /\ Len(frames) > 1 /\ frames' = Below
      /\ grabs' \in (IF Top.holds THEN MayGrab(grabs) ELSE {grabs})
      /\ UNCHANGED <<table, depth, count, executing, last>>
  BY DEF WaitEnds
<1>2. /\ StackOK(frames') /\ Len(frames') = Len(frames) - 1
  BY <1>0, <1>1, PopOK, FrontPush DEF Below
<1>3. \A K : /\ Cardinality(Idx(frames', K)) \in Nat
             /\ Cardinality(Idx(frames, K))
                  = IF Look(Top) \in K THEN Cardinality(Idx(frames', K)) + 1
                    ELSE Cardinality(Idx(frames', K))
  BY <1>0, <1>1, IdxPop DEF Top, Below
<1>4. /\ Look(Top) \notin Active /\ \A h : Look(Top) \notin Running(h)
      /\ Look(Top) \in Waiting <=> Top.holds
  <2>1. Top \in Frame /\ Len(frames) \in 1 .. Len(frames)
    BY <1>0 DEF Top
  <2>2. Top.kind = "loop" /\ Top.fn = NoFunction /\ Top.holds \in BOOLEAN
    BY <1>0, <1>1, <2>1, FrameFields DEF InLoop, StackOK, Top
  <2> QED BY <2>2 DEF Look, Active, Running, Waiting
<1>5. CountsOK'
  <2>1. Cardinality(Idx(frames', Active)) = Cardinality(Idx(frames, Active))
    BY <1>3, <1>4
  <2>2. \A h \in Functions :
          Cardinality(Idx(frames', Running(h))) = Cardinality(Idx(frames, Running(h)))
    BY <1>3, <1>4
  <2> QED BY <1>1, <2>1, <2>2 DEF IInv, CountsOK
<1>6. grabs' \in Nat /\ grabs' + Cardinality(Idx(frames', Waiting)) <= depth'
  <2> DEFINE w == Cardinality(Idx(frames', Waiting))
  <2>1. w \in Nat /\ Cardinality(Idx(frames, Waiting)) = IF Top.holds THEN w + 1 ELSE w
    BY <1>3, <1>4
  <2>2. grabs + Cardinality(Idx(frames, Waiting)) <= depth /\ depth' = depth
    BY <1>1 DEF IInv, BoundsOK
  <2>3. CASE Top.holds
    <3>1. grabs' \in Nat /\ grabs' <= grabs + 1
      BY <1>0, <1>1, <2>3 DEF MayGrab
    <3> HIDE DEF w
    <3> QED BY <1>0, <2>1, <2>2, <2>3, <3>1 DEF w
  <2>4. CASE ~Top.holds
    <3>1. grabs' = grabs
      BY <1>1, <2>4
    <3> HIDE DEF w
    <3> QED BY <1>0, <2>1, <2>2, <2>4, <3>1 DEF w
  <2> QED BY <2>3, <2>4
<1>7. BoundsOK'
  <2>1. Len(frames) <= 2 * count + 1 + Bare(frames)
    BY <1>1 DEF IInv, BoundsOK
  <2>2. /\ Bare(frames') \in Nat
        /\ Bare(frames) = IF InLoop' THEN Bare(frames') + 1 ELSE Bare(frames')
    <3>1. /\ frames' = Front(frames) /\ frames[Len(frames)].kind = "loop"
          /\ Len(frames) - 1 \in 1 .. Len(frames) - 1
      BY <1>0, <1>1 DEF Below, InLoop, Top
    <3>2. /\ InLoop' <=> frames[Len(frames) - 1].kind = "loop"
          /\ frames[Len(frames) - 1].kind \in {"loop", "func"}
      <4>1. frames'[Len(frames')] = frames[Len(frames) - 1]
        BY <1>0, <1>2, <3>1, FrontPush
      <4>2. frames[Len(frames) - 1] \in Frame
        BY <1>0, <3>1
      <4> QED BY <4>1, <4>2, FrameFields DEF InLoop, Top
    <3>3. /\ Bare(Front(frames)) \in Nat
          /\ frames[Len(frames) - 1].kind = "func" => Bare(frames) = Bare(Front(frames))
          /\ frames[Len(frames) - 1].kind = "loop" =>
                Bare(frames) = Bare(Front(frames)) + 1
      BY <1>0, <1>1, <3>1, BarePop
    <3> HIDE DEF InLoop
    <3> QED BY <3>1, <3>2, <3>3
  <2> HIDE DEF InLoop
  <2>3. depth' = 0 => count' = 0
    BY <1>1 DEF IInv, BoundsOK
  <2>4. Len(frames') <= 2 * count' + (IF InLoop' THEN 1 ELSE 2) + Bare(frames')
    <3>1. Len(frames') \in Nat /\ count' \in Nat
      BY <1>0, <1>1, <1>2
    <3> QED BY <1>0, <1>1, <1>2, <2>1, <2>2, <3>1
  <2> QED BY <1>6, <2>3, <2>4 DEF BoundsOK
<1>8. NumbersOK'
  BY <1>1, <1>6 DEF IInv, NumbersOK
<1>9. TableOK'
  BY <1>0, <1>1 DEF TableOK
<1> QED BY <1>2, <1>5, <1>7, <1>8, <1>9 DEF IInv

-----------------------------------------------------------------------------
(* The invariant *)

LEMMA InitOK ==
    ASSUME ComplexFuncAssumption, Init
    PROVE  IInv
<1>1. /\ frames = <<LoopFrame(FALSE)>> /\ depth = 0 /\ count = 0 /\ executing = FALSE
      /\ grabs = 0 /\ last = NoFunction /\ table = [f \in Functions |-> Undefined]
  BY DEF Init
<1>2. /\ LoopFrame(FALSE) \in Frame /\ LoopFrame(FALSE).kind = "loop"
      /\ LoopFrame(FALSE).fn \notin Functions
      /\ ~(Look(LoopFrame(FALSE)) \in Waiting) /\ Look(LoopFrame(FALSE)) \notin Active
      /\ \A g : Look(LoopFrame(FALSE)) \notin Running(g)
      /\ Look(LoopFrame(FALSE)) = <<"loop", NoFunction, FALSE>>
  BY LoopFrameFacts DEF LoopFrame, Look
<1>3. /\ frames \in Seq(Frame) /\ Len(frames) = 1 /\ frames[1] = LoopFrame(FALSE)
      /\ frames # <<>> /\ DOMAIN frames = {1}
  <2> DEFINE x == LoopFrame(FALSE)
  <2>1. x \in Frame /\ frames = <<x>>
    BY <1>1, <1>2
  <2> HIDE DEF x
  <2>2. <<x>> \in Seq(Frame) /\ Len(<<x>>) = 1 /\ <<x>>[1] = x /\ <<x>> # <<>>
        /\ DOMAIN <<x>> = {1}
    BY <2>1
  <2> QED BY <2>1, <2>2 DEF x
<1>4. StackOK(frames)
  <2>1. \A d \in 1 .. Len(frames) : d = 1
    BY <1>3
  <2> HIDE DEF Look
  <2> QED BY <1>2, <1>3, <2>1 DEF StackOK
<1>5. \A K : Look(LoopFrame(FALSE)) \notin K => Cardinality(Idx(frames, K)) = 0
  <2>1. \A K : Look(LoopFrame(FALSE)) \notin K => Idx(frames, K) = {}
    BY <1>3 DEF Idx
  <2> QED BY <2>1, FS_EmptySet
<1>6. Undefined \in Entry /\ Undefined.use = 0
  BY DEF Undefined, Entry
<1>7. TableOK /\ NumbersOK
  <2>1. TableOK
    <3>1. table \in [Functions -> Entry] /\ \A f \in Functions : table[f].use = 0
      BY <1>1, <1>6
    <3>2. last = NoFunction
      BY <1>1
    <3> QED BY <3>1, <3>2 DEF TableOK
  <2>2. NumbersOK
    <3>1. 0 \in 0 .. MaxItemsRun
      BY DEF ComplexFuncAssumption
    <3> QED BY <1>1, <3>1 DEF NumbersOK
  <2> QED BY <2>1, <2>2
<1>8. CountsOK
  BY <1>1, <1>2, <1>5, <1>6 DEF CountsOK
<1>9. BoundsOK
  <2>1. InLoop
    BY <1>2, <1>3 DEF InLoop, Top
  <2>2. Cardinality(Idx(frames, Waiting)) = 0
    BY <1>2, <1>5
  <2>3. Bare(frames) \in Nat
    BY <1>3, BareFacts
  <2> HIDE DEF InLoop
  <2> QED BY <1>1, <1>3, <2>1, <2>2, <2>3 DEF BoundsOK
<1> QED BY <1>4, <1>7, <1>8, <1>9 DEF IInv

LEMMA ItemStep ==
    ASSUME ComplexFuncAssumption, IInv, NEW i \in 1 .. MaxItems,
           \/ ItemCalls(i) \/ ItemDestroys(i) \/ ItemBreaks(i) \/ ItemWaits(i)
           \/ ItemDoesOther(i)
           \/ \E item \in Items : ItemAdds(i, item) \/ ItemAddsMore(i, item)
    PROVE  IInv'
<1> DEFINE it == ItemsOf(Top)[i]
<1>0. /\ it \in Items => /\ it.do.op \in {"call", "destroy", "add"} => it.do.fn \in Functions
                         /\ it.do.op = "break" => it.do.levels \in Int
      /\ StackOK(frames)
  <2> HIDE DEF it
  <2> QED BY IInvFacts DEF ComplexFuncAssumption
<1>1. ASSUME ItemCalls(i) PROVE IInv'
  <2>1. /\ ~InLoop /\ count + 1 \in 0 .. MaxItemsRun /\ Same(Passed(i), frames)
        /\ it \in Items /\ it.do.op = "call"
    BY <1>1, RunFacts DEF ItemCalls
  <2>2. Called(it.do.fn, Passed(i), count + 1) /\ UNCHANGED last /\ it.do.fn \in Functions
    BY <1>0, <1>1, <2>1 DEF ItemCalls
  <2> HIDE DEF it
  <2> QED BY <2>1, <2>2, CalledStep
<1>2. ASSUME ItemDestroys(i) PROVE IInv'
  <2>1. /\ ItemCounts /\ Same(frames', frames) /\ it \in Items /\ it.do.op = "destroy"
    BY <1>2, RunFacts DEF ItemDestroys, ItemCounts
  <2>2. it.do.fn \in Functions
    BY <1>0, <2>1
  <2>3. Destroy(it.do.fn) /\ UNCHANGED <<depth, executing, grabs>>
    BY <1>2 DEF ItemDestroys
  <2> QED BY <2>1, <2>2, <2>3, TableStep
<1>3. ASSUME ItemBreaks(i) PROVE IInv'
  <2>1. /\ ItemCounts /\ Same(Passed(i), frames) /\ it \in Items /\ it.do.op = "break"
    BY <1>3, RunFacts DEF ItemBreaks, ItemCounts
  <2>2. Same(frames', frames)
    BY <1>0, <1>3, <2>1, BreakSame DEF ItemBreaks
  <2>3. UNCHANGED <<table, depth, executing, grabs, last>>
    BY <1>3 DEF ItemBreaks
  <2> QED BY <2>1, <2>2, <2>3, TableStep
<1>4. ASSUME ItemWaits(i) PROVE IInv'
  <2>1. ~InLoop /\ count + 1 \in 0 .. MaxItemsRun /\ Same(Passed(i), frames)
    BY <1>4, RunFacts DEF ItemWaits
  <2> QED BY <1>4, <2>1, WaitStep DEF ItemWaits
<1>5. ASSUME ItemDoesOther(i) PROVE IInv'
  <2>1. ItemCounts /\ Same(frames', frames)
    BY <1>5, RunFacts DEF ItemDoesOther, ItemCounts
  <2> QED BY <1>5, <2>1, TableStep DEF ItemDoesOther
<1>6. ASSUME NEW item \in Items, ItemAdds(i, item) PROVE IInv'
  <2>1. /\ ItemCounts /\ Same(frames', frames) /\ it \in Items /\ it.do.op = "add"
    BY <1>6, RunFacts DEF ItemAdds, ItemCounts
  <2>2. it.do.fn \in Functions
    BY <1>0, <2>1
  <2>3. /\ table' = [table EXCEPT ![it.do.fn] = WithItem(@, item)] /\ last' = it.do.fn
        /\ UNCHANGED <<depth, executing, grabs>>
    BY <1>6 DEF ItemAdds
  <2> HIDE DEF it
  <2> QED BY <2>1, <2>2, <2>3, TableStep
<1>7. ASSUME NEW item \in Items, ItemAddsMore(i, item) PROVE IInv'
  <2>1. ItemCounts /\ Same(frames', frames)
    BY <1>7, RunFacts DEF ItemAddsMore, ItemCounts
  <2>2. AddMore(item) /\ UNCHANGED <<depth, executing, grabs, last>>
    BY <1>7 DEF ItemAddsMore
  <2> QED BY <2>1, <2>2, TableStep
<1> QED BY <1>1, <1>2, <1>3, <1>4, <1>5, <1>6, <1>7

LEMMA Step ==
    ASSUME ComplexFuncAssumption, IInv, [Next]_vars
    PROVE  IInv'
<1>0. /\ frames \in Seq(Frame) /\ frames # <<>> /\ Same(frames, frames)
      /\ count \in 0 .. MaxItemsRun
  BY IInvFacts
<1>1. ASSUME NEW i \in 1 .. MaxItems,
             \/ ItemCalls(i) \/ ItemDestroys(i) \/ ItemBreaks(i) \/ ItemWaits(i)
             \/ ItemDoesOther(i)
             \/ \E item \in Items : ItemAdds(i, item) \/ ItemAddsMore(i, item)
      PROVE  IInv'
  BY <1>1, ItemStep
<1>2. ASSUME NEW type \in Clicks, Typed(type) PROVE IInv'
  <2>1. Same(frames', frames)
    BY <1>0, <1>2, PhaseSame DEF Typed
  <2> QED BY <1>2, <2>1, TableStep DEF Typed
<1>3. ASSUME LateDone PROVE IInv'
  <2>1. /\ Top.type \in Clicks /\ Top.type \in {"i", "j"} \cup Clicks
    <3>1. Top \in Frame
      BY <1>0 DEF Top
    <3> QED BY <3>1, FrameFields
  <2>2. frames' = [frames EXCEPT ![Len(frames)] =
                      [@ EXCEPT !.phase = Top.type, !.pos = 1]]
    BY <1>3 DEF LateDone
  <2>3. Same(frames', frames)
    BY <1>0, <2>1, <2>2, PhaseSame
  <2> QED BY <1>3, <2>3, TableStep DEF LateDone
<1>4. ASSUME FunctionEnds PROVE IInv'
  BY <1>4, LeaveStep DEF FunctionEnds
<1>5. ASSUME NEW f \in Functions, EventCalls(f) PROVE IInv'
  BY <1>0, <1>5, CalledStep DEF EventCalls
<1>6. ASSUME NEW f \in Functions, EventDestroys(f) PROVE IInv'
  BY <1>0, <1>6, TableStep DEF EventDestroys
<1>7. ASSUME NEW f \in Functions, NEW item \in Items, EventAdds(f, item) PROVE IInv'
  BY <1>0, <1>7, TableStep DEF EventAdds
<1>8. ASSUME NEW item \in Items, EventAddsMore(item) PROVE IInv'
  BY <1>0, <1>8, TableStep DEF EventAddsMore
<1>9. CASE WaitEnds
  BY <1>9, WaitEndsStep
<1>13. CASE EventWaits
  BY <1>0, <1>13, WaitStep DEF EventWaits
<1>10. CASE UNCHANGED vars
  BY <1>0, <1>10, TableStep DEF vars
<1>11. ASSUME Goes PROVE IInv'
  BY <1>1, <1>2, <1>3, <1>4, <1>11 DEF Goes
<1>12. ASSUME Events PROVE IInv'
  BY <1>5, <1>6, <1>7, <1>8, <1>9, <1>12, <1>13 DEF Events
<1> QED BY <1>10, <1>11, <1>12 DEF Next

THEOREM Invariance == Spec => []IInv
<1>1. Init => IInv
  BY InitOK, ComplexFuncAssumption
<1>2. IInv /\ [Next]_vars => IInv'
  BY Step, ComplexFuncAssumption
<1> QED BY <1>1, <1>2, PTL DEF Spec

-----------------------------------------------------------------------------
(* The properties *)

LEMMA FuncIsActive ==
    ASSUME NEW s, StackOK(s)
    PROVE  /\ InFunc(s) = Idx(s, Active)
           /\ \A f \in Functions :
                 {d \in InFunc(s) : s[d].fn = f} = Idx(s, Running(f))
           /\ \A d \in InFunc(s) : s[d].fn \in Functions
<1>1. s \in Seq(Frame) /\ DOMAIN s = 1 .. Len(s)
  BY DEF StackOK
<1>2. \A d \in DOMAIN s : /\ s[d].kind = "func" <=> s[d].fn \in Functions
                           /\ s[d].holds \in BOOLEAN
  <2>1. \A d \in DOMAIN s : s[d] \in Frame
    BY <1>1
  <2> QED BY <1>1, <2>1, FrameFields DEF StackOK
<1>3. InFunc(s) = Idx(s, Active)
  BY <1>2 DEF InFunc, Idx, Look, Active
<1>4. ASSUME NEW f \in Functions
      PROVE  {d \in InFunc(s) : s[d].fn = f} = Idx(s, Running(f))
  BY <1>2 DEF InFunc, Idx, Look, Running
<1>5. \A d \in InFunc(s) : s[d].fn \in Functions
  BY <1>2 DEF InFunc
<1> QED BY <1>3, <1>4, <1>5

(* The type of the state. *)
THEOREM TypeCorrect == Spec => []TypeOK
<1>1. IInv => TypeOK
  BY ComplexFuncAssumption DEF IInv, StackOK, NumbersOK, TableOK, TypeOK,
     ComplexFuncAssumption
<1> QED BY <1>1, Invariance, PTL

(* However functions call, change and destroy one another, from items and  *)
(* from the event loops of Wait, DestroyFunction never frees one that      *)
(* execute_complex_function still runs: its use_depth is the number of its *)
(* activations on the stack.                                               *)
THEOREM RunningFunctionsLive == Spec => []InUseAlive
<1>1. ASSUME IInv PROVE InUseAlive
  <2>0. last # NoFunction => table[last].defined
    BY <1>1 DEF IInv, TableOK
  <2> SUFFICES ASSUME NEW d \in InFunc(frames) PROVE table[frames[d].fn].defined
    BY <2>0 DEF InUseAlive
  <2> DEFINE f == frames[d].fn
  <2>1. StackOK(frames) /\ frames \in Seq(Frame)
    BY <1>1 DEF IInv, StackOK
  <2>2. f \in Functions /\ d \in Idx(frames, Running(f))
    BY <2>1, FuncIsActive
  <2> HIDE DEF f
  <2>3. Cardinality(Idx(frames, Running(f))) # 0
    BY <2>1, <2>2, IdxFinite, FS_EmptySet
  <2>4. table[f].use # 0
    BY <1>1, <2>2, <2>3 DEF IInv, CountsOK
  <2> QED BY <1>1, <2>2, <2>4 DEF IInv, TableOK, f
<1> QED BY <1>1, Invariance, PTL

(* use_depth, depth and is_executing_complex_function say what the C stack *)
(* says, after any number of early exits, Waits and nested calls.          *)
THEOREM CountersTrue == Spec => []CountsAgree
<1>1. ASSUME IInv PROVE CountsAgree
  <2>1. StackOK(frames)
    BY <1>1 DEF IInv
  <2>2. \A f \in Functions : Runs(f) = Idx(frames, Running(f))
    BY <2>1, FuncIsActive DEF Runs
  <2>3. InFunc(frames) = Idx(frames, Active)
    BY <2>1, FuncIsActive
  <2> QED BY <1>1, <2>2, <2>3 DEF IInv, CountsOK, CountsAgree
<1> QED BY <1>1, Invariance, PTL

(* Whatever calls itself, there are never more activations and Waits of    *)
(* functions on the C stack than two for each item of the budget, and two. *)
THEOREM StackIsBounded == Spec => []StackBounded
<1>1. ASSUME IInv PROVE StackBounded
  <2>1. frames \in Seq(Frame)
    BY <1>1, IInvFacts, ComplexFuncAssumption
  <2>2. /\ Len(frames) <= 2 * count + 2 + Bare(frames) /\ Len(frames) \in Nat
        /\ count \in 0 .. MaxItemsRun /\ MaxItemsRun \in Nat /\ Bare(frames) \in Nat
    BY <1>1, <2>1, IInvFacts, ComplexFuncAssumption, BareFacts DEF IInv, BoundsOK
  <2>3. Len(frames) <= 2 * MaxItemsRun + 2 + Bare(frames)
    BY <2>2
  <2> QED BY <2>3 DEF StackBounded, Bare
<1> QED BY <1>1, Invariance, PTL

(* As soon as no function runs the pointer is released and the budget is   *)
(* full again.                                                             *)
THEOREM EverythingReturned == Spec => []AllReturned
<1>1. ASSUME IInv PROVE AllReturned
  <2> SUFFICES ASSUME InFunc(frames) = {} PROVE grabs = 0 /\ count = 0
    BY DEF AllReturned
  <2>1. StackOK(frames) /\ frames \in Seq(Frame) /\ depth \in Nat /\ grabs \in Nat
    BY <1>1, IInvFacts, ComplexFuncAssumption
  <2>2. Idx(frames, Active) = {}
    BY <2>1, FuncIsActive
  <2>3. depth = 0
    BY <1>1, <2>2, FS_EmptySet DEF IInv, CountsOK
  <2>4. Cardinality(Idx(frames, Waiting)) \in Nat
    BY <2>1, IdxFinite
  <2> QED BY <1>1, <2>1, <2>3, <2>4 DEF IInv, BoundsOK
<1> QED BY <1>1, Invariance, PTL

-----------------------------------------------------------------------------
(* Break *)

(* d is in the chain of activations at the top of s *)
InChain(s, d) == \A j \in d .. Len(s) : s[j].kind = "func"

(* break_levels of the top frame tells which frames of its chain have been *)
(* ended; no other frame has been.                                         *)
BreakOK(s) ==
    \A d \in 1 .. Len(s) :
        /\ s[d].brk \in Int /\ s[d].brk >= -1
        /\ d # Len(s) \/ s[d].kind = "loop" => s[d].brk = 0
        /\ s[d].kind = "func" =>
              (s[d].cut <=> /\ InChain(s, d)
                            /\ s[Len(s)].brk = -1 \/ s[Len(s)].brk > Len(s) - d)

BInv == BreakOK(frames)

(* t has the breaks of s *)
Alike(t, s) ==
    /\ Len(t) = Len(s)
    /\ \A d \in 1 .. Len(s) : /\ t[d].kind = s[d].kind /\ t[d].brk = s[d].brk
                              /\ t[d].cut = s[d].cut

LEMMA BreakAlike ==
    ASSUME NEW s \in Seq(Frame), s # <<>>, BreakOK(s), NEW t, Alike(t, s)
    PROVE  BreakOK(t)
<1>1. Len(s) \in Nat /\ Len(s) \in 1 .. Len(s) /\ Len(t) = Len(s)
  BY DEF Alike
<1> SUFFICES ASSUME NEW d \in 1 .. Len(s)
             PROVE  /\ t[d].brk \in Int /\ t[d].brk >= -1
                    /\ d # Len(s) \/ t[d].kind = "loop" => t[d].brk = 0
                    /\ t[d].kind = "func" =>
                          (t[d].cut <=> /\ InChain(t, d)
                                        /\ t[Len(s)].brk = -1 \/ t[Len(s)].brk > Len(s) - d)
  BY <1>1 DEF BreakOK
<1>2. /\ t[d].kind = s[d].kind /\ t[d].brk = s[d].brk /\ t[d].cut = s[d].cut
      /\ t[Len(s)].brk = s[Len(s)].brk
  BY <1>1 DEF Alike
<1>3. InChain(t, d) <=> InChain(s, d)
  <2>1. \A j \in d .. Len(s) : j \in 1 .. Len(s)
    BY <1>1
  <2> QED BY <1>1, <2>1 DEF InChain, Alike
<1>4. /\ s[d].brk \in Int /\ s[d].brk >= -1
      /\ d # Len(s) \/ s[d].kind = "loop" => s[d].brk = 0
      /\ s[d].kind = "func" =>
            (s[d].cut <=> /\ InChain(s, d)
                          /\ s[Len(s)].brk = -1 \/ s[Len(s)].brk > Len(s) - d)
  BY DEF BreakOK
<1> QED BY <1>2, <1>3, <1>4, Zenon

(* nothing has been ended if the top frame has no break_levels *)
LEMMA NoneCut ==
    ASSUME NEW s \in Seq(Frame), s # <<>>, BreakOK(s), s[Len(s)].brk = 0
    PROVE  \A d \in 1 .. Len(s) : s[d].brk = 0 /\ (s[d].kind = "func" => ~s[d].cut)
<1>1. Len(s) \in Nat /\ Len(s) \in 1 .. Len(s)
  OBVIOUS
<1> SUFFICES ASSUME NEW d \in 1 .. Len(s)
             PROVE  s[d].brk = 0 /\ (s[d].kind = "func" => ~s[d].cut)
  OBVIOUS
<1>2. ~(s[Len(s)].brk = -1 \/ s[Len(s)].brk > Len(s) - d)
  BY <1>1
<1>3. s[d].brk = 0
  BY <1>1 DEF BreakOK
<1> QED BY <1>2, <1>3, Zenon DEF BreakOK

(* and the other way round *)
LEMMA CleanOK ==
    ASSUME NEW s \in Seq(Frame), s # <<>>,
           \A d \in 1 .. Len(s) : s[d].brk = 0 /\ (s[d].kind = "func" => ~s[d].cut)
    PROVE  BreakOK(s)
<1>1. Len(s) \in Nat /\ Len(s) \in 1 .. Len(s)
  OBVIOUS
<1>2. ASSUME NEW d \in 1 .. Len(s)
      PROVE  /\ s[d].brk \in Int /\ s[d].brk >= -1 /\ s[d].brk = 0
             /\ ~(s[Len(s)].brk = -1 \/ s[Len(s)].brk > Len(s) - d)
  BY <1>1
<1> QED BY <1>2, Zenon DEF BreakOK

LEMMA BreakPush ==
    ASSUME NEW s \in Seq(Frame), s # <<>>, BreakOK(s), s[Len(s)].brk = 0,
           NEW fr \in Frame, fr.brk = 0, fr.kind = "func" => ~fr.cut
    PROVE  BreakOK(Append(s, fr))
<1> DEFINE t == Append(s, fr)
<1>1. /\ t \in Seq(Frame) /\ t # <<>> /\ Len(t) = Len(s) + 1 /\ t[Len(s) + 1] = fr
      /\ \A d \in 1 .. Len(s) : t[d] = s[d]
  BY AppendFacts
<1>2. \A d \in 1 .. Len(t) : d = Len(s) + 1 \/ d \in 1 .. Len(s)
  BY <1>1
<1> HIDE DEF t
<1>3. \A d \in 1 .. Len(t) : t[d].brk = 0 /\ (t[d].kind = "func" => ~t[d].cut)
  BY <1>1, <1>2, NoneCut
<1>4. BreakOK(t)
  BY <1>1, <1>3, CleanOK
<1> QED BY <1>4 DEF t

(* a Wait ends *)
LEMMA BreakPop ==
    ASSUME NEW s \in Seq(Frame), Len(s) > 1, BreakOK(s), s[Len(s)].kind = "loop"
    PROVE  BreakOK(Front(s))
<1>1. s # <<>> /\ Len(s) \in 1 .. Len(s)
  OBVIOUS
<1>2. /\ Front(s) \in Seq(Frame) /\ Len(Front(s)) = Len(s) - 1 /\ Front(s) # <<>>
      /\ \A d \in 1 .. Len(Front(s)) : Front(s)[d] = s[d] /\ d \in 1 .. Len(s)
  BY <1>1, FrontPush
<1>3. s[Len(s)].brk = 0
  BY <1>1 DEF BreakOK
<1>4. \A d \in 1 .. Len(s) : s[d].brk = 0 /\ (s[d].kind = "func" => ~s[d].cut)
  BY <1>1, <1>3, NoneCut
<1> QED BY <1>2, <1>4, CleanOK

(* an activation ends and hands break_levels down *)
LEMMA BreakLeave ==
    ASSUME NEW s \in Seq(Frame), Len(s) > 1, BreakOK(s), s[Len(s)].kind = "func",
           NEW t, Len(t) = Len(s) - 1,
           \A d \in 1 .. Len(s) - 1 :
              /\ t[d].kind = s[d].kind /\ t[d].cut = s[d].cut
              /\ t[d].brk = IF d = Len(s) - 1 /\ s[d].kind = "func"
                            THEN BreakAfter(s[Len(s)]) ELSE s[d].brk
    PROVE  BreakOK(t)
<1> DEFINE n == Len(s)
           b == s[n].brk
           c == BreakAfter(s[n])
<1>1. n \in Nat /\ n \in 1 .. n /\ n - 1 \in 1 .. n - 1 /\ n - 1 \in 1 .. n
  OBVIOUS
<1>2. b \in Int /\ b >= -1
  BY <1>1 DEF BreakOK
<1>3. c \in Int /\ c >= -1 /\ c = (IF b > 0 THEN b - 1 ELSE b)
  BY <1>2 DEF BreakAfter
<1> HIDE DEF n, b, c
<1> SUFFICES ASSUME NEW d \in 1 .. n - 1
             PROVE  /\ t[d].brk \in Int /\ t[d].brk >= -1
                    /\ d # n - 1 \/ t[d].kind = "loop" => t[d].brk = 0
                    /\ t[d].kind = "func" =>
                          (t[d].cut <=> /\ InChain(t, d)
                                        /\ t[n - 1].brk = -1 \/ t[n - 1].brk > n - 1 - d)
  BY DEF BreakOK, n
<1>4. /\ t[d].kind = s[d].kind /\ t[d].cut = s[d].cut
      /\ t[d].brk = IF d = n - 1 /\ s[d].kind = "func" THEN c ELSE s[d].brk
  BY DEF n, c
<1>5. /\ d \in 1 .. n /\ d # n /\ d \in Int
      /\ s[d].brk = 0
      /\ s[d].kind = "func" => (s[d].cut <=> InChain(s, d) /\ (b = -1 \/ b > n - d))
  <2>1. d \in 1 .. n /\ d # n /\ d \in Int
    BY <1>1
  <2> QED BY <2>1, Zenon DEF BreakOK, n, b
<1>6. InChain(t, d) <=> InChain(s, d)
  <2>1. Len(t) = n - 1 /\ s[n].kind = "func"
    BY DEF n
  <2>2. \A j \in 1 .. n - 1 : t[j].kind = s[j].kind
    BY DEF n
  <2>3. \A j \in d .. n : j = n \/ j \in d .. n - 1
    BY <1>1, <1>5
  <2>4. \A j \in d .. n - 1 : j \in d .. n /\ j \in 1 .. n - 1
    BY <1>1, <1>5
  <2> QED BY <2>1, <2>2, <2>3, <2>4, Zenon DEF InChain, n
<1>7. /\ t[d].brk \in Int /\ t[d].brk >= -1
      /\ d # n - 1 \/ t[d].kind = "loop" => t[d].brk = 0
  BY <1>3, <1>4, <1>5
<1>8. ASSUME t[d].kind = "func"
      PROVE  t[d].cut <=> /\ InChain(t, d)
                          /\ t[n - 1].brk = -1 \/ t[n - 1].brk > n - 1 - d
  <2>1. CASE ~InChain(t, d)
    BY <1>4, <1>5, <1>6, <1>8, <2>1, Zenon
  <2>2. CASE InChain(t, d)
    <3>1. n - 1 \in d .. Len(t)
      BY <1>1, <1>5 DEF n
    <3>2. t[n - 1].kind = "func"
      BY <2>2, <3>1 DEF InChain
    <3>3. t[n - 1].brk = c
      BY <1>1, <3>2 DEF n, c
    <3>4. (b = -1 \/ b > n - d) <=> (c = -1 \/ c > n - 1 - d)
      BY <1>1, <1>2, <1>3, <1>5
    <3> QED BY <1>4, <1>5, <1>6, <1>8, <2>2, <3>3, <3>4, Zenon
  <2> QED BY <2>1, <2>2
<1> QED BY <1>7, <1>8

LEMMA LevelBound ==
    ASSUME NEW l \in Int, l = -1 \/ l \in Nat \ {0}
    PROVE  l >= -1
OBVIOUS

(* the command Break *)
LEMMA BreakBreak ==
    ASSUME NEW s \in Seq(Frame), s # <<>>, BreakOK(s), s[Len(s)].brk = 0,
           s[Len(s)].kind = "func",
           NEW levels \in Int, levels = -1 \/ levels \in Nat \ {0}
    PROVE  BreakOK([Cut(s, levels) EXCEPT ![Len(s)].brk = levels])
<1> DEFINE n == Len(s)
           u == Cut(s, levels)
           t == [u EXCEPT ![n].brk = levels]
           In(d) == InChain(s, d) /\ (levels = -1 \/ d > n - levels)
           v(d) == IF In(d) THEN [s[d] EXCEPT !.cut = TRUE] ELSE s[d]
<1>1. n \in Nat /\ n \in 1 .. n /\ DOMAIN s = 1 .. n
  OBVIOUS
<1>2. u = [d \in 1 .. n |-> v(d)]
  BY <1>1 DEF Cut, InChain
<1>3. \A d \in 1 .. n : /\ s[d] \in Frame /\ s[d].brk = 0
                        /\ s[d].kind = "func" => ~s[d].cut
  <2>1. \A d \in 1 .. n : s[d] \in Frame
    BY <1>1
  <2> QED BY <2>1, NoneCut
<1>4. ASSUME NEW d \in 1 .. n
      PROVE  /\ v(d).kind = s[d].kind /\ v(d).brk = 0 /\ v(d) \in Frame
             /\ s[d].kind = "func" => (v(d).cut <=> In(d))
  <2>1. s[d] \in Frame /\ s[d].brk = 0 /\ (s[d].kind = "func" => ~s[d].cut)
    BY <1>3
  <2>2. CASE In(d)
    <3>1. v(d) = [s[d] EXCEPT !.cut = TRUE]
      BY <2>2
    <3> HIDE DEF In, v
    <3>2. v(d).kind = s[d].kind /\ v(d).brk = s[d].brk /\ v(d).cut = TRUE /\ v(d) \in Frame
      BY <2>1, <3>1 DEF Frame
    <3> QED BY <2>1, <2>2, <3>2
  <2>3. CASE ~In(d)
    <3>1. v(d) = s[d]
      BY <2>3
    <3> HIDE DEF In, v
    <3> QED BY <2>1, <2>3, <3>1
  <2> QED BY <2>2, <2>3
<1> HIDE DEF v
<1>5. Len(u) = n /\ DOMAIN u = 1 .. n /\ DOMAIN t = 1 .. n /\ Len(t) = n
  BY <1>1, <1>2
<1>6. \A x \in Frame : /\ [x EXCEPT !.brk = levels].kind = x.kind
                       /\ [x EXCEPT !.brk = levels].brk = levels
                       /\ [x EXCEPT !.brk = levels].cut = x.cut
  BY DEF Frame
<1>7. ASSUME NEW d \in 1 .. n
      PROVE  /\ t[d].kind = v(d).kind /\ t[d].cut = v(d).cut
             /\ t[d].brk = IF d = n THEN levels ELSE v(d).brk
  <2>1. u[d] = v(d) /\ u[n] = v(n)
    BY <1>1, <1>2
  <2>2. t[d] = IF d = n THEN [v(n) EXCEPT !.brk = levels] ELSE v(d)
    BY <1>1, <1>5, <2>1
  <2> HIDE DEF In, t, u
  <2> QED BY <1>1, <1>4, <1>6, <2>2
<1> HIDE DEF In, t, u, n
<1>8. \A d \in 1 .. n : t[d].kind = s[d].kind
  BY <1>4, <1>7
<1>9. \A d \in 1 .. n : t[d].brk = IF d = n THEN levels ELSE 0
  BY <1>4, <1>7
<1>10. ASSUME NEW d \in 1 .. n, s[d].kind = "func" PROVE t[d].cut <=> In(d)
  BY <1>4, <1>7, <1>10, Zenon
<1>11. t[n].brk = levels /\ t[n].kind = "func"
  BY <1>1, <1>8, <1>9 DEF n
<1>12. levels >= -1 /\ levels \in Int /\ 0 >= -1 /\ 0 \in Int
  BY LevelBound
<1>13. ASSUME NEW d \in 1 .. n
       PROVE  /\ t[d].brk \in Int /\ t[d].brk >= -1
              /\ d # n \/ t[d].kind = "loop" => t[d].brk = 0
  <2>1. CASE d = n
    BY <1>11, <1>12, <2>1
  <2>2. CASE d # n
    <3>1. t[d].brk = 0
      BY <1>9, <2>2
    <3> QED BY <1>12, <3>1
  <2> QED BY <2>1, <2>2
<1>14. ASSUME NEW d \in 1 .. n, t[d].kind = "func"
       PROVE  t[d].cut <=> /\ InChain(t, d)
                           /\ t[n].brk = -1 \/ t[n].brk > n - d
  <2>1. \A j \in d .. n : j \in 1 .. n
    BY <1>1
  <2>2. InChain(t, d) <=> InChain(s, d)
    BY <1>5, <1>8, <2>1 DEF InChain, n
  <2>3. (levels = -1 \/ d > n - levels) <=> (levels = -1 \/ levels > n - d)
    BY <1>1
  <2>4. In(d) <=> InChain(t, d) /\ (levels = -1 \/ levels > n - d)
    BY <2>2, <2>3, Zenon DEF In
  <2>5. s[d].kind = "func"
    BY <1>8, <1>14
  <2> QED BY <1>10, <1>11, <2>4, <2>5, Zenon
<1>15. BreakOK(t)
  BY <1>5, <1>13, <1>14, Zenon DEF BreakOK
<1> QED BY <1>15 DEF t, u, n

LEMMA PassedAlike ==
    ASSUME StackOK(frames), NEW i \in Nat
    PROVE  Alike(Passed(i), frames)
<1> DEFINE n == Len(frames)
           e == [frames[n] EXCEPT !.pos = i + 1]
           t == [frames EXCEPT ![n] = e]
<1>1. frames \in Seq(Frame) /\ n \in 1 .. n /\ frames[n] \in Frame /\ DOMAIN frames = 1 .. n
  BY DEF StackOK
<1>2. e.kind = frames[n].kind /\ e.brk = frames[n].brk /\ e.cut = frames[n].cut
  BY <1>1 DEF Frame
<1>3. Passed(i) = t
  BY DEF Passed
<1> HIDE DEF e
<1>4. Len(t) = n /\ \A d \in 1 .. n : t[d] = IF d = n THEN e ELSE frames[d]
  BY <1>1
<1> HIDE DEF t
<1> QED BY <1>2, <1>3, <1>4 DEF Alike

LEMMA PhaseAlike ==
    ASSUME NEW s \in Seq(Frame), s # <<>>, NEW t, NEW ph, NEW ty,
           \/ t = [s EXCEPT ![Len(s)] = [@ EXCEPT !.phase = ph, !.pos = 1, !.type = ty]]
           \/ t = [s EXCEPT ![Len(s)] = [@ EXCEPT !.phase = ph, !.pos = 1]]
    PROVE  Alike(t, s)
<1> DEFINE n == Len(s)
           a == [s[n] EXCEPT !.phase = ph, !.pos = 1, !.type = ty]
           b == [s[n] EXCEPT !.phase = ph, !.pos = 1]
<1>1. n \in 1 .. n /\ s[n] \in Frame /\ DOMAIN s = 1 .. n
  OBVIOUS
<1>2. /\ a.kind = s[n].kind /\ a.brk = s[n].brk /\ a.cut = s[n].cut
      /\ b.kind = s[n].kind /\ b.brk = s[n].brk /\ b.cut = s[n].cut
  BY <1>1 DEF Frame
<1>3. t = [s EXCEPT ![n] = a] \/ t = [s EXCEPT ![n] = b]
  OBVIOUS
<1> HIDE DEF a, b
<1>4. /\ Len(t) = n
      /\ \/ \A d \in 1 .. n : t[d] = IF d = n THEN a ELSE s[d]
         \/ \A d \in 1 .. n : t[d] = IF d = n THEN b ELSE s[d]
  BY <1>1, <1>3
<1> QED BY <1>2, <1>4 DEF Alike

LEMMA BreakStep ==
    ASSUME ComplexFuncAssumption, IInv, BreakOK(frames), [Next]_vars
    PROVE  BreakOK(frames')
<1> DEFINE n == Len(frames)
<1>0. /\ StackOK(frames) /\ frames \in Seq(Frame) /\ frames # <<>> /\ n \in 1 .. n
      /\ Alike(frames, frames) /\ Top \in Frame
  BY IInvFacts DEF Alike, Top
<1> HIDE DEF n
<1>1. ASSUME Alike(frames', frames) PROVE BreakOK(frames')
  BY <1>0, <1>1, BreakAlike
<1>2. InLoop => Top.brk = 0
  BY <1>0 DEF BreakOK, InLoop, Top, n
<1>3. ASSUME NEW f \in Functions, NEW s \in Seq(Frame), Alike(s, frames), Top.brk = 0,
             NEW k, Called(f, s, k)
      PROVE  BreakOK(frames')
  <2>1. BreakOK(s) /\ s # <<>> /\ s[Len(s)].brk = 0
    BY <1>0, <1>3, BreakAlike DEF Alike, Top, n
  <2>2. frames' = s \/ frames' = Append(s, Activation(f))
    BY <1>3 DEF Called
  <2> DEFINE fr == Activation(f)
  <2>3. fr \in Frame /\ fr.brk = 0 /\ (fr.kind = "func" => ~fr.cut)
    BY <1>3, ActivationFacts
  <2> HIDE DEF fr
  <2>4. BreakOK(Append(s, fr))
    BY <1>3, <2>1, <2>3, BreakPush
  <2> QED BY <2>1, <2>2, <2>4 DEF fr
<1>4. ASSUME NEW i \in 1 .. MaxItems, NEW op, ItemRuns(i, op)
      PROVE  /\ ~InLoop /\ Top.brk = 0 /\ Alike(Passed(i), frames)
             /\ Passed(i) \in Seq(Frame) /\ Passed(i) # <<>> /\ BreakOK(Passed(i))
             /\ Len(Passed(i)) = n
             /\ Passed(i)[n].brk = 0 /\ Passed(i)[n].kind = "func"
             /\ ItemsOf(Top)[i] \in Items /\ ItemsOf(Top)[i].do.op = op
  <2>1. /\ ~InLoop /\ Top.brk = 0 /\ Same(Passed(i), frames)
        /\ ItemsOf(Top)[i] \in Items /\ ItemsOf(Top)[i].do.op = op
    BY <1>4, RunFacts
  <2>2. Alike(Passed(i), frames)
    BY <1>0, PassedAlike DEF ComplexFuncAssumption
  <2>3. Passed(i) \in Seq(Frame) /\ Len(Passed(i)) = n /\ Passed(i) # <<>>
    BY <1>0, <2>1 DEF Same, n
  <2>4. Passed(i)[n].brk = 0 /\ Passed(i)[n].kind = "func"
    BY <1>0, <2>1, <2>2, TopFacts DEF Alike, Top, n
  <2>5. BreakOK(Passed(i))
    BY <1>0, <2>2, BreakAlike
  <2> QED BY <2>1, <2>2, <2>3, <2>4, <2>5
<1>5. ASSUME NEW i \in 1 .. MaxItems, ItemCalls(i) PROVE BreakOK(frames')
  <2>1. /\ Top.brk = 0 /\ Alike(Passed(i), frames) /\ Passed(i) \in Seq(Frame)
        /\ ItemsOf(Top)[i] \in Items /\ ItemsOf(Top)[i].do.op = "call"
    BY <1>4, <1>5 DEF ItemCalls
  <2>2. ItemsOf(Top)[i].do.fn \in Functions
    BY <2>1 DEF ComplexFuncAssumption
  <2>3. Called(ItemsOf(Top)[i].do.fn, Passed(i), count + 1)
    BY <1>5 DEF ItemCalls
  <2> QED BY <1>3, <2>1, <2>2, <2>3
<1>6. ASSUME NEW i \in 1 .. MaxItems, ItemBreaks(i) PROVE BreakOK(frames')
  <2> DEFINE levels == ItemsOf(Top)[i].do.levels
  <2>1. /\ Passed(i) \in Seq(Frame) /\ Passed(i) # <<>> /\ BreakOK(Passed(i))
        /\ Len(Passed(i)) = n /\ Passed(i)[n].brk = 0 /\ Passed(i)[n].kind = "func"
        /\ ItemsOf(Top)[i] \in Items /\ ItemsOf(Top)[i].do.op = "break"
    BY <1>4, <1>6 DEF ItemBreaks
  <2>2. levels \in Int /\ (levels = -1 \/ levels \in Nat \ {0})
    BY <2>1 DEF ComplexFuncAssumption
  <2>3. frames' = [Cut(Passed(i), levels) EXCEPT ![n].brk = levels]
    BY <1>6 DEF ItemBreaks, n
  <2> HIDE DEF levels
  <2> QED BY <2>1, <2>2, <2>3, BreakBreak
<1>7. ASSUME NEW i \in 1 .. MaxItems, ItemWaits(i) PROVE BreakOK(frames')
  <2>1. /\ Passed(i) \in Seq(Frame) /\ Passed(i) # <<>> /\ BreakOK(Passed(i))
        /\ Len(Passed(i)) = n /\ Passed(i)[n].brk = 0
    BY <1>4, <1>7 DEF ItemWaits
  <2>2. frames' = Append(Passed(i), LoopFrame(grabs > 0)) /\ (grabs > 0) \in BOOLEAN
    BY <1>7 DEF ItemWaits
  <2>3. LoopFrame(grabs > 0) \in Frame /\ LoopFrame(grabs > 0).brk = 0
        /\ LoopFrame(grabs > 0).kind = "loop"
    BY <2>2, LoopFrameFacts
  <2> QED BY <2>1, <2>2, <2>3, BreakPush
<1>8. ASSUME NEW i \in 1 .. MaxItems, NEW op, ItemRuns(i, op), frames' = Passed(i)
      PROVE  BreakOK(frames')
  BY <1>4, <1>8
<1>9. ASSUME FunctionEnds PROVE BreakOK(frames')
  <2>1. /\ ~InLoop /\ Leave /\ n > 1 /\ frames[n].kind = "func"
    BY <1>9, TopFacts DEF FunctionEnds, Top, n
  <2>2. /\ Below \in Seq(Frame) /\ Len(Below) = n - 1 /\ DOMAIN Below = 1 .. n - 1
        /\ \A d \in 1 .. n - 1 : Below[d] = frames[d] /\ frames[d] \in Frame
    BY <1>0, FrontPush DEF Below, n
  <2>3. frames' = [d \in 1 .. n - 1 |->
                      IF d = n - 1 /\ frames[d].kind = "func"
                      THEN [frames[d] EXCEPT !.brk = BreakAfter(frames[n])] ELSE frames[d]]
    BY <2>1, <2>2 DEF Leave, Top, n
  <2>4. \A b : \A x \in Frame :
                            /\ [x EXCEPT !.brk = b].kind = x.kind
                            /\ [x EXCEPT !.brk = b].cut = x.cut
                            /\ [x EXCEPT !.brk = b].brk = b
    BY DEF Frame
  <2>5. \A d \in 1 .. n - 1 :
          /\ frames'[d].kind = frames[d].kind /\ frames'[d].cut = frames[d].cut
          /\ frames'[d].brk = IF d = n - 1 /\ frames[d].kind = "func"
                              THEN BreakAfter(frames[n]) ELSE frames[d].brk
    BY <2>2, <2>3, <2>4
  <2>6. Len(frames') = n - 1
    BY <1>0, <2>1, <2>3 DEF n
  <2> QED BY <1>0, <2>1, <2>5, <2>6, BreakLeave DEF n
<1>10. ASSUME WaitEnds PROVE BreakOK(frames')
  BY <1>0, <1>10, BreakPop DEF WaitEnds, InLoop, Top, Below, n
<1>11. ASSUME \/ \E type \in Clicks : Typed(type)
              \/ LateDone
       PROVE  Alike(frames', frames)
  BY <1>0, <1>11, PhaseAlike DEF Typed, LateDone
<1>12. ASSUME NEW f \in Functions, EventCalls(f) PROVE BreakOK(frames')
  BY <1>0, <1>2, <1>3, <1>12 DEF EventCalls
<1>13. ASSUME \/ \E f \in Functions : \/ EventDestroys(f)
                                     \/ \E item \in Items : EventAdds(f, item)
              \/ \E item \in Items : EventAddsMore(item)
              \/ UNCHANGED vars
       PROVE  frames' = frames
  BY <1>13 DEF EventDestroys, EventAdds, EventAddsMore, vars
<1>14. ASSUME Goes PROVE BreakOK(frames')
  <2>1. ASSUME NEW i \in 1 .. MaxItems,
               \/ ItemDestroys(i) \/ ItemDoesOther(i)
               \/ \E item \in Items : ItemAdds(i, item) \/ ItemAddsMore(i, item)
        PROVE  BreakOK(frames')
    <3>1. \E op : ItemRuns(i, op) /\ frames' = Passed(i)
      BY <2>1 DEF ItemDestroys, ItemDoesOther, ItemAdds, ItemAddsMore
    <3> QED BY <1>8, <3>1
  <2> QED BY <1>1, <1>5, <1>6, <1>7, <1>9, <1>11, <1>14, <2>1 DEF Goes
<1>16. ASSUME EventWaits PROVE BreakOK(frames')
  <2>1. frames' = Append(frames, LoopFrame(grabs > 0)) /\ (grabs > 0) \in BOOLEAN
    BY <1>16 DEF EventWaits
  <2>2. LoopFrame(grabs > 0) \in Frame /\ LoopFrame(grabs > 0).brk = 0
        /\ LoopFrame(grabs > 0).kind = "loop"
    BY <2>1, LoopFrameFacts
  <2>3. frames[Len(frames)].brk = 0
    BY <1>2, <1>16 DEF EventWaits, Top
  <2> QED BY <1>0, <2>1, <2>2, <2>3, BreakPush
<1>15. ASSUME Events PROVE BreakOK(frames')
  BY <1>10, <1>12, <1>13, <1>15, <1>16 DEF Events
<1> QED BY <1>13, <1>14, <1>15 DEF Next

(* Break ends the activations it names and no other: what is handed down   *)
(* in break_levels from one activation to its caller is exact.             *)
THEOREM BreakIsExact == Spec => []BreakExact
<1>1. Init => BInv
  <2> SUFFICES ASSUME Init PROVE BreakOK(frames)
    BY DEF BInv
  <2> DEFINE x == LoopFrame(FALSE)
  <2>1. x \in Frame /\ x.brk = 0 /\ x.kind = "loop" /\ frames = <<x>>
    BY ComplexFuncAssumption, LoopFrameFacts DEF Init
  <2> HIDE DEF x
  <2>2. /\ <<x>> \in Seq(Frame) /\ <<x>> # <<>>
        /\ \A d \in 1 .. Len(<<x>>) : <<x>>[d] = x
    BY <2>1
  <2> QED BY <2>1, <2>2, CleanOK
<1>2. IInv /\ BInv /\ [Next]_vars => BInv'
  BY BreakStep, ComplexFuncAssumption DEF BInv
<1>3. IInv /\ BInv => BreakExact
  <2> SUFFICES ASSUME IInv, BreakOK(frames), ~InLoop
               PROVE  (Top.brk # 0) <=> Top.cut
    BY DEF BreakExact, BInv
  <2> DEFINE n == Len(frames)
  <2>1. frames \in Seq(Frame) /\ n \in Nat /\ n \in 1 .. n /\ Top = frames[n]
        /\ Top.kind = "func"
    BY ComplexFuncAssumption, IInvFacts, TopFacts DEF Top
  <2>2. InChain(frames, n)
    BY <2>1 DEF InChain
  <2> HIDE DEF n
  <2>3. /\ Top.brk \in Int /\ Top.brk >= -1
        /\ Top.cut <=> Top.brk = -1 \/ Top.brk > n - n
    BY <2>1, <2>2 DEF BreakOK, n
  <2>4. (Top.brk # 0) <=> (Top.brk = -1 \/ Top.brk > n - n)
    BY <2>1, <2>3
  <2>5. CASE Top.brk = 0
    <3>1. ~Top.cut
      BY <2>3, <2>4, <2>5
    <3> QED BY <2>5, <3>1
  <2>6. CASE Top.brk # 0
    <3>1. Top.cut
      BY <2>3, <2>4, <2>6
    <3> QED BY <2>6, <3>1
  <2> QED BY <2>5, <2>6
<1> QED BY <1>1, <1>2, <1>3, Invariance, PTL DEF Spec
=============================================================================
