-------------------------- MODULE WindowLifeProofs --------------------------
(***************************************************************************)
(* Proofs about WindowLife, for any number of windows, any policies, and   *)
(* any nesting of functions, menus, All and Wait: a window is on the list, *)
(* scheduled, or freed, never two of them (Partition); nothing on the      *)
(* stack holds a pointer to a freed window (UseSafe); the focus does not   *)
(* stay with a window that leaves the list (FocusLeaves); and Next comes   *)
(* to every window before it comes to one again (TourComplete).            *)
(***************************************************************************)
EXTENDS WindowLife, ListLemmas

-----------------------------------------------------------------------------
(* Sequences without duplicates *)

LEMMA ToSetInSeq ==
    ASSUME NEW S, NEW s \in Seq(S)
    PROVE  ToSet(s) \subseteq S
<1>1. DOMAIN s = 1 .. Len(s) /\ \A i \in DOMAIN s : s[i] \in S
  OBVIOUS
<1> QED BY <1>1 DEF ToSet

LEMMA EmptyAndSingle ==
    ASSUME NEW S, NEW w \in S
    PROVE  /\ <<>> \in Seq(S) /\ ToSet(<<>>) = {} /\ IsInjective(<<>>)
           /\ <<w>> \in Seq(S) /\ ToSet(<<w>>) = {w} /\ IsInjective(<<w>>)
<1>1. <<w>> \in Seq(S) /\ DOMAIN <<w>> = {1} /\ <<w>>[1] = w
  OBVIOUS
<1>2. <<>> \in Seq(S) /\ DOMAIN <<>> = {}
  OBVIOUS
<1> QED BY <1>1, <1>2 DEF ToSet, IsInjective

LEMMA ConcatSet ==
    ASSUME NEW S, NEW s \in Seq(S), NEW t \in Seq(S)
    PROVE  s \o t \in Seq(S) /\ ToSet(s \o t) = ToSet(s) \cup ToSet(t)
<1>1. /\ DOMAIN s = 1 .. Len(s) /\ DOMAIN t = 1 .. Len(t)
      /\ Len(s) \in Nat /\ Len(t) \in Nat
  OBVIOUS
<1> DEFINE u == s \o t
<1>2. /\ u \in Seq(S) /\ DOMAIN u = 1 .. Len(s) + Len(t)
      /\ \A d \in 1 .. Len(s) : u[d] = s[d]
      /\ \A d \in 1 .. Len(t) : u[d + Len(s)] = t[d]
      /\ \A d \in (Len(s) + 1) .. (Len(s) + Len(t)) :
            d - Len(s) \in 1 .. Len(t) /\ u[d] = t[d - Len(s)]
  BY ConcatFacts
<1> HIDE DEF u
<1>3. ASSUME NEW d \in DOMAIN u PROVE u[d] \in ToSet(s) \cup ToSet(t)
  <2>1. d \in 1 .. Len(s) \/ d \in (Len(s) + 1) .. (Len(s) + Len(t))
    BY <1>1, <1>2
  <2> QED BY <1>1, <1>2, <2>1 DEF ToSet
<1>4. ASSUME NEW d \in DOMAIN s PROVE s[d] \in ToSet(u)
  <2>1. d \in DOMAIN u /\ u[d] = s[d]
    BY <1>1, <1>2
  <2> QED BY <2>1 DEF ToSet
<1>5. ASSUME NEW d \in DOMAIN t PROVE t[d] \in ToSet(u)
  <2>1. d + Len(s) \in DOMAIN u /\ u[d + Len(s)] = t[d]
    BY <1>1, <1>2
  <2> QED BY <2>1 DEF ToSet
<1>6. ToSet(u) = ToSet(s) \cup ToSet(t)
  <2>1. \A e \in ToSet(u) : e \in ToSet(s) \cup ToSet(t)
    BY <1>3 DEF ToSet
  <2>2. \A e \in ToSet(s) : e \in ToSet(u)
    BY <1>4 DEF ToSet
  <2>3. \A e \in ToSet(t) : e \in ToSet(u)
    BY <1>5 DEF ToSet
  <2> QED BY <2>1, <2>2, <2>3
<1> QED BY <1>2, <1>6 DEF u

LEMMA ConcatInjective ==
    ASSUME NEW S, NEW s \in Seq(S), NEW t \in Seq(S),
           IsInjective(s), IsInjective(t), ToSet(s) \cap ToSet(t) = {}
    PROVE  IsInjective(s \o t)
<1>1. /\ DOMAIN s = 1 .. Len(s) /\ DOMAIN t = 1 .. Len(t)
      /\ Len(s) \in Nat /\ Len(t) \in Nat
  OBVIOUS
<1> DEFINE u == s \o t
<1>2. /\ u \in Seq(S) /\ DOMAIN u = 1 .. Len(s) + Len(t)
      /\ \A d \in 1 .. Len(s) : u[d] = s[d]
      /\ \A d \in (Len(s) + 1) .. (Len(s) + Len(t)) :
            d - Len(s) \in 1 .. Len(t) /\ u[d] = t[d - Len(s)]
  BY ConcatFacts
<1> HIDE DEF u
<1>3. ASSUME NEW a \in DOMAIN u, NEW b \in DOMAIN u, u[a] = u[b] PROVE a = b
  <2>1. /\ a \in 1 .. Len(s) \/ a \in (Len(s) + 1) .. (Len(s) + Len(t))
        /\ b \in 1 .. Len(s) \/ b \in (Len(s) + 1) .. (Len(s) + Len(t))
        /\ a \in Int /\ b \in Int
    BY <1>1, <1>2
  <2>2. CASE a \in 1 .. Len(s) /\ b \in 1 .. Len(s)
    <3>1. s[a] = s[b] /\ a \in DOMAIN s /\ b \in DOMAIN s
      BY <1>1, <1>2, <1>3, <2>2
    <3> QED BY <3>1 DEF IsInjective
  <2>3. CASE /\ a \in (Len(s) + 1) .. (Len(s) + Len(t))
             /\ b \in (Len(s) + 1) .. (Len(s) + Len(t))
    <3>1. /\ a - Len(s) \in DOMAIN t /\ b - Len(s) \in DOMAIN t
          /\ t[a - Len(s)] = t[b - Len(s)]
      BY <1>1, <1>2, <1>3, <2>3
    <3>2. a - Len(s) = b - Len(s)
      BY <3>1 DEF IsInjective
    <3> QED BY <3>2, <2>1, <1>1
  <2>4. ASSUME NEW c \in 1 .. Len(s), NEW d \in (Len(s) + 1) .. (Len(s) + Len(t)),
               u[c] = u[d]
        PROVE  FALSE
    <3>1. u[c] \in ToSet(s)
      BY <1>1, <1>2 DEF ToSet
    <3>2. u[d] \in ToSet(t)
      BY <1>1, <1>2 DEF ToSet
    <3> QED BY <3>1, <3>2, <2>4
  <2> QED BY <2>1, <2>2, <2>3, <2>4, <1>3
<1> QED BY <1>3 DEF IsInjective, u

(* The two parts of a list, before and behind one of its windows *)
LEMMA PartsFacts ==
    ASSUME NEW S, NEW l \in Seq(S), IsInjective(l), NEW w \in ToSet(l)
    PROVE  /\ Upto(l, w) \in Seq(S) /\ After(l, w) \in Seq(S)
           /\ IsInjective(Upto(l, w)) /\ IsInjective(After(l, w))
           /\ w \notin ToSet(Upto(l, w)) /\ w \notin ToSet(After(l, w))
           /\ ToSet(Upto(l, w)) \cap ToSet(After(l, w)) = {}
           /\ ToSet(l) = ToSet(Upto(l, w)) \cup ToSet(After(l, w)) \cup {w}
<1> DEFINE n == Place(l, w)
<1> DEFINE u == Upto(l, w)
<1> DEFINE v == After(l, w)
<1>0. /\ DOMAIN l = 1 .. Len(l) /\ Len(l) \in Nat
      /\ \A i \in 1 .. Len(l) : l[i] \in S
  OBVIOUS
<1>1. n \in 1 .. Len(l) /\ l[n] = w
  <2>1. \E i \in DOMAIN l : l[i] = w
    BY DEF ToSet
  <2> QED BY <2>1, <1>0 DEF Place
<1>2. u = SubSeq(l, 1, n - 1) /\ v = SubSeq(l, n + 1, Len(l))
  BY DEF Upto, After
<1> HIDE DEF n, u, v
<1>3. /\ u \in Seq(S) /\ Len(u) = n - 1 /\ DOMAIN u = 1 .. n - 1
      /\ \A d \in 1 .. n - 1 : u[d] = l[d]
  <2>1. /\ u \in Seq(S) /\ Len(u) = IF 1 <= n - 1 THEN n - 1 - 1 + 1 ELSE 0
        /\ \A i \in 1 .. n - 1 - 1 + 1 : u[i] = l[1 + i - 1]
    <3>1. n - 1 \in Int /\ 1 \in Int /\ \A i \in 1 .. n - 1 : l[i] \in S
      BY <1>0, <1>1
    <3> QED BY <3>1, <1>2, SubSeqProperties
  <2>2. Len(u) = n - 1
    BY <2>1, <1>1, <1>0
  <2>3. \A d \in 1 .. n - 1 : u[d] = l[d]
    BY <2>1, <1>1, <1>0
  <2>4. DOMAIN u = 1 .. Len(u)
    BY <2>1
  <2> QED BY <2>1, <2>2, <2>3, <2>4
<1>4. /\ v \in Seq(S) /\ Len(v) = Len(l) - n /\ DOMAIN v = 1 .. Len(l) - n
      /\ \A d \in 1 .. Len(l) - n : v[d] = l[n + d]
  <2>1. /\ v \in Seq(S)
        /\ Len(v) = IF n + 1 <= Len(l) THEN Len(l) - (n + 1) + 1 ELSE 0
        /\ \A i \in 1 .. Len(l) - (n + 1) + 1 : v[i] = l[(n + 1) + i - 1]
    <3>1. n + 1 \in Int /\ Len(l) \in Int /\ \A i \in n + 1 .. Len(l) : l[i] \in S
      BY <1>0, <1>1
    <3> QED BY <3>1, <1>2, SubSeqProperties
  <2>2. Len(v) = Len(l) - n
    <3>1. CASE n + 1 <= Len(l)
      <4>1. Len(v) = Len(l) - (n + 1) + 1
        BY <2>1, <3>1
      <4> QED BY <4>1, <1>0, <1>1
    <3>2. CASE ~(n + 1 <= Len(l))
      <4>1. Len(v) = 0
        BY <2>1, <3>2
      <4>2. n = Len(l)
        <5>1. Len(l) \in Nat /\ n \in 1 .. Len(l) /\ ~(n + 1 <= Len(l))
          BY <3>2, <1>0, <1>1
        <5> QED BY <5>1
      <4>3. Len(l) - n = 0
        BY <4>2, <1>0
      <4> QED BY <4>1, <4>3
    <3> QED BY <3>1, <3>2
  <2>3. \A d \in 1 .. Len(l) - n : v[d] = l[n + d]
    <3>1. Len(l) - (n + 1) + 1 = Len(l) - n
      BY <1>0, <1>1
    <3>2. \A d \in 1 .. Len(l) - n : (n + 1) + d - 1 = n + d
      BY <1>0, <1>1
    <3> QED BY <2>1, <3>1, <3>2
  <2>4. DOMAIN v = 1 .. Len(v)
    BY <2>1
  <2> QED BY <2>1, <2>2, <2>3, <2>4
<1>5. IsInjective(u)
  <2>1. ASSUME NEW a \in DOMAIN u, NEW b \in DOMAIN u, u[a] = u[b] PROVE a = b
    <3>1. a \in DOMAIN l /\ b \in DOMAIN l /\ l[a] = l[b]
      BY <2>1, <1>0, <1>1, <1>3
    <3> QED BY <3>1 DEF IsInjective
  <2> QED BY <2>1 DEF IsInjective
<1>6. IsInjective(v)
  <2>1. ASSUME NEW a \in DOMAIN v, NEW b \in DOMAIN v, v[a] = v[b] PROVE a = b
    <3>1. n + a \in DOMAIN l /\ n + b \in DOMAIN l /\ l[n + a] = l[n + b]
      BY <2>1, <1>0, <1>1, <1>4
    <3>2. n + a = n + b
      BY <3>1 DEF IsInjective
    <3> QED BY <3>2, <1>1, <1>4
  <2> QED BY <2>1 DEF IsInjective
<1>7. ASSUME NEW i \in DOMAIN l, NEW j \in DOMAIN l, i # j PROVE l[i] # l[j]
  BY <1>7 DEF IsInjective
<1>8. w \notin ToSet(u) /\ w \notin ToSet(v)
  <2>1. \A d \in DOMAIN u : u[d] # w
    BY <1>0, <1>1, <1>3, <1>7
  <2>2. ASSUME NEW d \in DOMAIN v PROVE v[d] # w
    <3>1. n + d \in DOMAIN l /\ n + d # n /\ v[d] = l[n + d] /\ n \in DOMAIN l
      BY <1>0, <1>1, <1>4
    <3> QED BY <3>1, <1>1, <1>7
  <2> QED BY <2>1, <2>2 DEF ToSet
<1>9. ToSet(u) \cap ToSet(v) = {}
  <2>1. ASSUME NEW c \in DOMAIN u, NEW d \in DOMAIN v PROVE u[c] # v[d]
    <3>1. /\ c \in DOMAIN l /\ n + d \in DOMAIN l /\ c # n + d
          /\ u[c] = l[c] /\ v[d] = l[n + d]
      BY <1>0, <1>1, <1>3, <1>4
    <3> QED BY <3>1, <1>7
  <2> QED BY <2>1 DEF ToSet
<1>10. ToSet(l) = ToSet(u) \cup ToSet(v) \cup {w}
  <2>1. ASSUME NEW i \in DOMAIN l PROVE l[i] \in ToSet(u) \cup ToSet(v) \cup {w}
    <3>1. CASE i < n
      <4>1. i \in DOMAIN u /\ u[i] = l[i]
        BY <3>1, <1>0, <1>1, <1>3
      <4> QED BY <4>1 DEF ToSet
    <3>2. CASE i = n
      BY <3>2, <1>1
    <3>3. CASE i > n
      <4>1. i - n \in 1 .. Len(l) - n /\ n + (i - n) = i
        BY <3>3, <1>0, <1>1
      <4>2. i - n \in DOMAIN v /\ v[i - n] = l[i]
        BY <4>1, <1>4
      <4> QED BY <4>2 DEF ToSet
    <3> QED BY <3>1, <3>2, <3>3, <1>0, <1>1
  <2>2. ASSUME NEW d \in DOMAIN u PROVE u[d] \in ToSet(l)
    <3>1. d \in DOMAIN l /\ u[d] = l[d]
      BY <1>0, <1>1, <1>3
    <3> QED BY <3>1 DEF ToSet
  <2>3. ASSUME NEW d \in DOMAIN v PROVE v[d] \in ToSet(l)
    <3>1. n + d \in DOMAIN l /\ v[d] = l[n + d]
      BY <1>0, <1>1, <1>4
    <3> QED BY <3>1 DEF ToSet
  <2>4. /\ \A e \in ToSet(l) : e \in ToSet(u) \cup ToSet(v) \cup {w}
        /\ \A e \in ToSet(u) : e \in ToSet(l)
        /\ \A e \in ToSet(v) : e \in ToSet(l)
    BY <2>1, <2>2, <2>3 DEF ToSet
  <2> QED BY <2>4
<1> QED BY <1>3, <1>4, <1>5, <1>6, <1>8, <1>9, <1>10 DEF u, v

-----------------------------------------------------------------------------
(* The window list *)

GoodList(l) == l \in Seq(Windows) /\ IsInjective(l)

LEMMA WithoutFacts ==
    ASSUME NEW l, GoodList(l), NEW w \in Windows
    PROVE  GoodList(Without(l, w)) /\ ToSet(Without(l, w)) = ToSet(l) \ {w}
<1>1. CASE w \in ToSet(l)
  <2> DEFINE u == Upto(l, w)
  <2> DEFINE v == After(l, w)
  <2>1. /\ u \in Seq(Windows) /\ v \in Seq(Windows) /\ IsInjective(u) /\ IsInjective(v)
        /\ w \notin ToSet(u) /\ w \notin ToSet(v) /\ ToSet(u) \cap ToSet(v) = {}
        /\ ToSet(l) = ToSet(u) \cup ToSet(v) \cup {w}
    BY <1>1, PartsFacts DEF GoodList
  <2>2. Without(l, w) = u \o v
    BY <1>1 DEF Without
  <2> HIDE DEF u, v
  <2>3. u \o v \in Seq(Windows) /\ ToSet(u \o v) = ToSet(u) \cup ToSet(v)
    BY <2>1, ConcatSet
  <2>4. IsInjective(u \o v)
    BY <2>1, ConcatInjective
  <2> QED BY <2>1, <2>2, <2>3, <2>4 DEF GoodList
<1>2. CASE w \notin ToSet(l)
  BY <1>2 DEF Without
<1> QED BY <1>1, <1>2

LEMMA ToFrontFacts ==
    ASSUME NEW l, GoodList(l), NEW w \in Windows
    PROVE  GoodList(ToFront(l, w)) /\ ToSet(ToFront(l, w)) = ToSet(l) \cup {w}
<1> DEFINE t == Without(l, w)
<1>1. GoodList(t) /\ ToSet(t) = ToSet(l) \ {w}
  BY WithoutFacts
<1>2. ToFront(l, w) = <<w>> \o t
  BY DEF ToFront
<1> DEFINE s == <<w>>
<1>3. s \in Seq(Windows) /\ ToSet(s) = {w} /\ IsInjective(s) /\ ToFront(l, w) = s \o t
  BY <1>2, EmptyAndSingle
<1> HIDE DEF s, t
<1>4. s \o t \in Seq(Windows) /\ ToSet(s \o t) = {w} \cup ToSet(t)
  BY <1>1, <1>3, ConcatSet DEF GoodList
<1>5. IsInjective(s \o t)
  BY <1>1, <1>3, ConcatInjective DEF GoodList
<1> QED BY <1>1, <1>3, <1>4, <1>5 DEF GoodList

LEMMA RotatedFacts ==
    ASSUME NEW l, GoodList(l), NEW w \in Windows
    PROVE  GoodList(Rotated(l, w)) /\ ToSet(Rotated(l, w)) = ToSet(l)
<1>1. CASE w \in ToSet(l)
  <2> DEFINE u == Upto(l, w)
  <2> DEFINE v == After(l, w)
  <2>1. /\ u \in Seq(Windows) /\ v \in Seq(Windows) /\ IsInjective(u) /\ IsInjective(v)
        /\ w \notin ToSet(u) /\ w \notin ToSet(v) /\ ToSet(u) \cap ToSet(v) = {}
        /\ ToSet(l) = ToSet(u) \cup ToSet(v) \cup {w}
    BY <1>1, PartsFacts DEF GoodList
  <2>2. Rotated(l, w) = <<w>> \o v \o u
    BY <1>1 DEF Rotated
  <2> DEFINE s == <<w>>
  <2>3. s \in Seq(Windows) /\ ToSet(s) = {w} /\ IsInjective(s) /\ Rotated(l, w) = s \o v \o u
    BY <2>2, EmptyAndSingle
  <2> HIDE DEF s, u, v
  <2> DEFINE t == s \o v
  <2>4. t \in Seq(Windows) /\ ToSet(t) = {w} \cup ToSet(v)
    BY <2>1, <2>3, ConcatSet
  <2>5. IsInjective(t)
    BY <2>1, <2>3, ConcatInjective
  <2>6. Rotated(l, w) = t \o u
    BY <2>3
  <2> HIDE DEF t
  <2>7. t \o u \in Seq(Windows) /\ ToSet(t \o u) = ToSet(t) \cup ToSet(u)
    BY <2>1, <2>4, ConcatSet
  <2>8. ToSet(t) \cap ToSet(u) = {}
    BY <2>1, <2>4
  <2>9. IsInjective(t \o u)
    BY <2>1, <2>4, <2>5, <2>8, ConcatInjective
  <2> QED BY <2>1, <2>4, <2>6, <2>7, <2>9 DEF GoodList
<1>2. CASE w \notin ToSet(l)
  BY <1>2 DEF Rotated
<1> QED BY <1>1, <1>2

LEMMA AppendGood ==
    ASSUME NEW l, GoodList(l), NEW w \in Windows, w \notin ToSet(l)
    PROVE  GoodList(Append(l, w)) /\ ToSet(Append(l, w)) = ToSet(l) \cup {w}
<1> DEFINE s == <<w>>
<1>1. s \in Seq(Windows) /\ ToSet(s) = {w} /\ IsInjective(s)
  BY EmptyAndSingle
<1>2. Append(l, w) = l \o s
  BY DEF GoodList
<1> HIDE DEF s
<1>3. l \o s \in Seq(Windows) /\ ToSet(l \o s) = ToSet(l) \cup {w}
  BY <1>1, ConcatSet DEF GoodList
<1>4. IsInjective(l \o s)
  BY <1>1, ConcatInjective DEF GoodList
<1> QED BY <1>2, <1>3, <1>4 DEF GoodList

(* FirstIn finds a window that is in the list and one of those looked for. *)
LEMMA FirstInFacts ==
    ASSUME NEW s \in Seq(Windows), NEW ws
    PROVE  FirstIn(s, ws) \in (ToSet(s) \cap ws) \cup {NoWindow}
<1>1. CASE \E i \in DOMAIN s : s[i] \in ws
  <2> DEFINE T == {i \in DOMAIN s : s[i] \in ws}
  <2>1. DOMAIN s = 1 .. Len(s) /\ Len(s) \in Nat
    OBVIOUS
  <2>2. T \subseteq Nat /\ T # {}
    BY <1>1, <2>1
  <2>3. PICK n \in T : \A k \in T : n <= k
    <3> HIDE DEF T
    <3> QED BY <2>2, LeastNat
  <2>4. \A j \in 1 .. n - 1 : s[j] \notin ws
    <3>1. ASSUME NEW j \in 1 .. n - 1, s[j] \in ws PROVE FALSE
      <4>1. n \in 1 .. Len(s)
        BY <2>1
      <4>2. j \in DOMAIN s /\ ~(n <= j)
        BY <2>1, <4>1
      <4> QED BY <2>3, <3>1, <4>2
    <3> QED BY <3>1
  <2>5. \E i \in DOMAIN s : s[i] \in ws /\ \A j \in 1 .. i - 1 : s[j] \notin ws
    BY <2>4
  <2> DEFINE m == CHOOSE i \in DOMAIN s : s[i] \in ws /\ \A j \in 1 .. i - 1 : s[j] \notin ws
  <2>6. m \in DOMAIN s /\ s[m] \in ws
    BY <2>5
  <2>7. FirstIn(s, ws) = s[m]
    BY <1>1 DEF FirstIn
  <2> HIDE DEF m
  <2> QED BY <2>6, <2>7 DEF ToSet
<1>2. CASE ~\E i \in DOMAIN s : s[i] \in ws
  BY <1>2 DEF FirstIn
<1> QED BY <1>1, <1>2

LEMMA ReverseFacts ==
    ASSUME NEW s \in Seq(Windows)
    PROVE  Reverse(s) \in Seq(Windows) /\ ToSet(Reverse(s)) \subseteq ToSet(s)
<1>1. DOMAIN s = 1 .. Len(s) /\ Len(s) \in Nat /\ \A i \in 1 .. Len(s) : s[i] \in Windows
  OBVIOUS
<1>2. Reverse(s) = [i \in 1 .. Len(s) |-> s[(Len(s) - i) + 1]]
  BY DEF Reverse
<1>3. \A i \in 1 .. Len(s) : (Len(s) - i) + 1 \in 1 .. Len(s)
  BY <1>1
<1>4. Reverse(s) \in [1 .. Len(s) -> Windows]
  BY <1>1, <1>2, <1>3
<1>5. Reverse(s) \in Seq(Windows) /\ DOMAIN Reverse(s) = 1 .. Len(s)
  BY <1>1, <1>4
<1>6. ASSUME NEW i \in DOMAIN Reverse(s) PROVE Reverse(s)[i] \in ToSet(s)
  <2>1. Reverse(s)[i] = s[(Len(s) - i) + 1] /\ (Len(s) - i) + 1 \in DOMAIN s
    BY <1>1, <1>2, <1>3, <1>5
  <2> QED BY <2>1 DEF ToSet
<1> QED BY <1>5, <1>6 DEF ToSet

-----------------------------------------------------------------------------
(* The focus *)

GoodState(st) ==
    /\ st \in [list : Seq(Windows), focus : Windows \cup {NoWindow}]
    /\ IsInjective(st.list)

LEMMA UpdatedFacts ==
    ASSUME NEW st, GoodState(st), NEW w \in Windows, NEW how,
           w \in ToSet(st.list) \cup Scheduled
    PROVE  GoodList(Updated(st, w, how)) /\ ToSet(Updated(st, w, how)) = ToSet(st.list)
<1>1. GoodList(st.list)
  BY DEF GoodState, GoodList
<1>2. /\ GoodList(Rotated(st.list, w)) /\ ToSet(Rotated(st.list, w)) = ToSet(st.list)
      /\ GoodList(ToFront(st.list, w))
      /\ ToSet(ToFront(st.list, w)) = ToSet(st.list) \cup {w}
  BY <1>1, RotatedFacts, ToFrontFacts
<1>3. \/ Updated(st, w, how) = st.list
      \/ Updated(st, w, how) = Rotated(st.list, w)
      \/ Updated(st, w, how) = ToFront(st.list, w) /\ w \notin Scheduled
  BY DEF Updated
<1> QED BY <1>1, <1>2, <1>3

(* Setting the focus keeps the windows of the list. *)
LEMMA WithFocusFacts ==
    ASSUME NEW st, GoodState(st), NEW w \in Windows, NEW how,
           w \in ToSet(st.list) \cup Scheduled
    PROVE  LET r == WithFocus(st, w, how) IN
           /\ GoodState(r) /\ ToSet(r.list) = ToSet(st.list)
           /\ r.focus \in {st.focus, w}
<1> DEFINE l == Updated(st, w, how)
<1> DEFINE r == WithFocus(st, w, how)
<1>1. GoodList(l) /\ ToSet(l) = ToSet(st.list)
  BY UpdatedFacts
<1>2. r = st \/ r = [list |-> l, focus |-> IF w \in Refuses THEN st.focus ELSE w]
  BY DEF WithFocus
<1> HIDE DEF l, r
<1>3. CASE r = st
  BY <1>3 DEF r
<1>4. CASE r = [list |-> l, focus |-> IF w \in Refuses THEN st.focus ELSE w]
  <2>1. r.list = l /\ r.focus \in {st.focus, w}
    BY <1>4
  <2>2. r \in [list : Seq(Windows), focus : Windows \cup {NoWindow}]
    BY <1>1, <1>4 DEF GoodList, GoodState
  <2> QED BY <1>1, <2>1, <2>2 DEF GoodState, GoodList, r
<1> QED BY <1>2, <1>3, <1>4

LEMMA HeirFacts ==
    ASSUME NEW l, GoodList(l), NEW w \in Windows
    PROVE  Heir(l, w) \in (ToSet(l) \ {w}) \cup {NoWindow}
<1>1. CASE Leader[w] \in ToSet(l) \ {w}
  BY <1>1 DEF Heir
<1>2. CASE Leader[w] \notin ToSet(l) \ {w}
  <2>1. CASE w \in Keeps \/ w \notin ToSet(l)
    BY <1>2, <2>1 DEF Heir
  <2>2. CASE ~(w \in Keeps \/ w \notin ToSet(l))
    <3> DEFINE v == After(l, w)
    <3> DEFINE ws == Windows \ (Overrides \cup Skips)
    <3>1. v \in Seq(Windows) /\ w \notin ToSet(v) /\ ToSet(v) \subseteq ToSet(l)
      BY <2>2, PartsFacts DEF GoodList
    <3>2. Heir(l, w) = FirstIn(v, ws)
      BY <1>2, <2>2 DEF Heir
    <3> HIDE DEF v, ws
    <3>3. FirstIn(v, ws) \in (ToSet(v) \cap ws) \cup {NoWindow}
      BY <3>1, FirstInFacts
    <3> QED BY <3>1, <3>2, <3>3
  <2> QED BY <2>1, <2>2
<1> QED BY <1>1, <1>2

(* After a window is unmapped it does not have the focus: either it had    *)
(* not before, or another window of the list has it now, or none.          *)
LEMMA RestoredFacts ==
    ASSUME NEW st, GoodState(st), NEW w \in Windows
    PROVE  LET r == FocusRestored(st, w) IN
           /\ GoodState(r) /\ ToSet(r.list) = ToSet(st.list) /\ r.focus # w
           /\ st.focus # w => r.focus = st.focus
           /\ st.focus = w => r.focus \in ToSet(st.list) \cup {NoWindow}
<1>0. w # NoWindow
  BY WindowLifeAssumption
<1>1. CASE st.focus # w
  BY <1>1 DEF FocusRestored
<1>2. CASE st.focus = w
  <2> DEFINE heir == Heir(st.list, w)
  <2> DEFINE next == IF heir = NoWindow THEN st ELSE WithFocus(st, heir, "force")
  <2> DEFINE r == FocusRestored(st, w)
  <2>1. r = IF next.focus = w THEN [next EXCEPT !.focus = NoWindow] ELSE next
    BY <1>2 DEF FocusRestored
  <2>2. heir \in (ToSet(st.list) \ {w}) \cup {NoWindow}
    BY HeirFacts DEF GoodState, GoodList
  <2>3. /\ GoodState(next) /\ ToSet(next.list) = ToSet(st.list)
        /\ next.focus \in {w} \cup ToSet(st.list)
    <3>1. CASE heir = NoWindow
      BY <3>1, <1>2
    <3>2. CASE heir # NoWindow
      <4>1. heir \in Windows /\ heir \in ToSet(st.list)
        BY <2>2, <3>2, ToSetInSeq DEF GoodState
      <4>2. next = WithFocus(st, heir, "force")
        BY <3>2
      <4> HIDE DEF heir, next
      <4>3. LET n == WithFocus(st, heir, "force") IN
            GoodState(n) /\ ToSet(n.list) = ToSet(st.list) /\ n.focus \in {st.focus, heir}
        BY <4>1, WithFocusFacts
      <4> QED BY <4>1, <4>2, <4>3, <1>2
    <3> QED BY <3>1, <3>2
  <2> HIDE DEF heir, next, r
  <2>4. CASE next.focus = w
    <3>1. r = [next EXCEPT !.focus = NoWindow]
      BY <2>1, <2>4
    <3>2. /\ r \in [list : Seq(Windows), focus : Windows \cup {NoWindow}]
          /\ r.list = next.list /\ r.focus = NoWindow
      BY <3>1, <2>3 DEF GoodState
    <3> QED BY <3>2, <2>3, <1>0, <1>2 DEF GoodState, r
  <2>5. CASE next.focus # w
    <3>1. r = next
      BY <2>1, <2>5
    <3> QED BY <3>1, <2>3, <2>5, <1>2 DEF r
  <2> QED BY <2>4, <2>5
<1> QED BY <1>1, <1>2

LEMMA CirculateFacts ==
    ASSUME GoodList(list), NEW sf, NEW dir
    PROVE  Circulate(sf, dir) \in (Listed \ Skips) \cup {NoWindow}
<1> DEFINE start == IF sf = NoWindow THEN focus ELSE sf
<1> DEFINE o == Order(list, start, dir)
<1> DEFINE before == IF start \in ToSet(list) THEN Reverse(Upto(list, start)) ELSE <<>>
<1> DEFINE behind == IF start \in ToSet(list) THEN After(list, start) ELSE <<>>
<1>1. o = before \o Reverse(list) \/ o = behind \o list
  BY DEF Order
<1>2. Circulate(sf, dir) = FirstIn(o, Windows \ Skips)
  BY DEF Circulate
<1>3. Reverse(list) \in Seq(Windows) /\ ToSet(Reverse(list)) \subseteq Listed
  BY ReverseFacts DEF GoodList, Listed
<1>4. /\ before \in Seq(Windows) /\ ToSet(before) \subseteq Listed
      /\ behind \in Seq(Windows) /\ ToSet(behind) \subseteq Listed
  <2> HIDE DEF start
  <2>1. CASE start \in ToSet(list)
    <3> DEFINE u == Upto(list, start)
    <3> DEFINE v == After(list, start)
    <3>1. /\ u \in Seq(Windows) /\ v \in Seq(Windows)
          /\ ToSet(u) \subseteq Listed /\ ToSet(v) \subseteq Listed
      BY <2>1, PartsFacts DEF GoodList, Listed
    <3>2. before = Reverse(u) /\ behind = v
      BY <2>1
    <3> HIDE DEF u, v
    <3>3. Reverse(u) \in Seq(Windows) /\ ToSet(Reverse(u)) \subseteq ToSet(u)
      BY <3>1, ReverseFacts
    <3> QED BY <3>1, <3>2, <3>3
  <2>2. CASE start \notin ToSet(list)
    <3>1. before = <<>> /\ behind = <<>>
      BY <2>2
    <3>2. <<>> \in Seq(Windows) /\ ToSet(<<>>) = {}
      <4>1. <<>> \in Seq(Windows) /\ DOMAIN <<>> = {}
        OBVIOUS
      <4> QED BY <4>1 DEF ToSet
    <3> QED BY <3>1, <3>2
  <2> QED BY <2>1, <2>2
<1> HIDE DEF start, o, before, behind
<1>5. o \in Seq(Windows) /\ ToSet(o) \subseteq Listed
  <2>1. CASE o = before \o Reverse(list)
    <3> DEFINE r == Reverse(list)
    <3>1. r \in Seq(Windows) /\ ToSet(r) \subseteq Listed /\ o = before \o r
      BY <1>3, <2>1
    <3> HIDE DEF r
    <3> QED BY <3>1, <1>4, ConcatSet
  <2>2. CASE o = behind \o list
    <3>1. list \in Seq(Windows) /\ ToSet(list) = Listed
      BY DEF GoodList, Listed
    <3> QED BY <3>1, <2>2, <1>4, ConcatSet
  <2> QED BY <1>1, <2>1, <2>2
<1>6. FirstIn(o, Windows \ Skips) \in (ToSet(o) \cap (Windows \ Skips)) \cup {NoWindow}
  BY <1>5, FirstInFacts
<1> QED BY <1>2, <1>5, <1>6

-----------------------------------------------------------------------------
(* The stack *)

(* An event loop holds nothing, and only All a list of windows.            *)
Shape(fr) ==
    /\ fr.kind # "all" => fr.rest = <<>>
    /\ fr.kind \in {"wait", "all"} => fr.win = NoWindow
    /\ IsInjective(fr.rest)

(* On a menu or an All there is nothing but a function, and nothing at all *)
(* on an All that destroys the windows itself.                             *)
Linked(fr, above) ==
    /\ fr.kind \in {"menu", "all"} => above.kind = "func"
    /\ fr.kind = "all" => fr.body # "destroy"

StackOK(s, known) ==
    /\ s \in Seq(Frame)
    /\ \A d \in DOMAIN s : Shape(s[d]) /\ HeldBy(s[d]) \subseteq known \cup {NoWindow}
    /\ \A d \in DOMAIN s : d < Len(s) => Linked(s[d], s[d + 1])

SameKind(fr, other) == fr.kind = other.kind

LEMMA WiderOK ==
    ASSUME NEW s, NEW k, NEW k2, StackOK(s, k), k \subseteq k2
    PROVE  StackOK(s, k2)
BY DEF StackOK

LEMMA PushOK ==
    ASSUME NEW s, NEW k, StackOK(s, k), NEW fr \in Frame, Shape(fr),
           HeldBy(fr) \subseteq k \cup {NoWindow},
           s # <<>> => Linked(s[Len(s)], fr)
    PROVE  StackOK(Append(s, fr), k)
<1> DEFINE t == Append(s, fr)
<1>1. s \in Seq(Frame) /\ DOMAIN s = 1 .. Len(s) /\ Len(s) \in Nat
  BY DEF StackOK
<1>2. /\ t \in Seq(Frame) /\ Len(t) = Len(s) + 1 /\ DOMAIN t = 1 .. Len(s) + 1
      /\ t[Len(s) + 1] = fr /\ \A d \in 1 .. Len(s) : t[d] = s[d]
  BY <1>1, AppendFacts
<1> HIDE DEF t
<1>3. ASSUME NEW d \in DOMAIN t
      PROVE  Shape(t[d]) /\ HeldBy(t[d]) \subseteq k \cup {NoWindow}
  <2>1. CASE d \in DOMAIN s
    BY <2>1, <1>1, <1>2 DEF StackOK
  <2>2. CASE d = Len(s) + 1
    BY <2>2, <1>2
  <2> QED BY <2>1, <2>2, <1>1, <1>2
<1>4. ASSUME NEW d \in DOMAIN t, d < Len(t) PROVE Linked(t[d], t[d + 1])
  <2>1. CASE d < Len(s)
    <3>1. d \in DOMAIN s /\ t[d] = s[d] /\ t[d + 1] = s[d + 1]
      BY <2>1, <1>1, <1>2, <1>4
    <3> QED BY <3>1, <2>1 DEF StackOK
  <2>2. CASE d = Len(s)
    <3>1. s # <<>> /\ t[d] = s[Len(s)] /\ t[d + 1] = fr
      BY <2>2, <1>1, <1>2, <1>4
    <3> QED BY <3>1
  <2> QED BY <2>1, <2>2, <1>1, <1>2, <1>4
<1> QED BY <1>2, <1>3, <1>4 DEF StackOK, t

LEMMA NewTop ==
    ASSUME NEW s \in Seq(Frame), s # <<>>, NEW fr \in Frame
    PROVE  LET t == [s EXCEPT ![Len(s)] = fr] IN
           /\ t \in Seq(Frame) /\ Len(t) = Len(s) /\ t[Len(s)] = fr
           /\ \A d \in 1 .. Len(s) - 1 : t[d] = s[d]
BY LastFacts

LEMMA ReplaceTopOK ==
    ASSUME NEW s, NEW k, StackOK(s, k), s # <<>>, NEW fr \in Frame, Shape(fr),
           HeldBy(fr) \subseteq k \cup {NoWindow}, SameKind(fr, s[Len(s)])
    PROVE  StackOK([s EXCEPT ![Len(s)] = fr], k)
<1> DEFINE t == [s EXCEPT ![Len(s)] = fr]
<1>1. s \in Seq(Frame) /\ DOMAIN s = 1 .. Len(s) /\ Len(s) \in Nat \ {0}
  BY DEF StackOK
<1>2. /\ t \in Seq(Frame) /\ Len(t) = Len(s) /\ DOMAIN t = 1 .. Len(s)
      /\ t[Len(s)] = fr /\ \A d \in 1 .. Len(s) - 1 : t[d] = s[d]
  BY <1>1, NewTop
<1> HIDE DEF t
<1>3. ASSUME NEW d \in DOMAIN t
      PROVE  Shape(t[d]) /\ HeldBy(t[d]) \subseteq k \cup {NoWindow}
  <2>1. CASE d < Len(s)
    <3>1. d \in DOMAIN s /\ t[d] = s[d]
      BY <2>1, <1>1, <1>2
    <3> QED BY <3>1 DEF StackOK
  <2>2. CASE d = Len(s)
    BY <2>2, <1>2
  <2> QED BY <2>1, <2>2, <1>1, <1>2
<1>4. ASSUME NEW d \in DOMAIN t, d < Len(t) PROVE Linked(t[d], t[d + 1])
  <2>1. d \in DOMAIN s /\ d < Len(s) /\ t[d] = s[d] /\ d + 1 \in 1 .. Len(s)
    BY <1>1, <1>2, <1>4
  <2>2. Linked(s[d], s[d + 1])
    BY <2>1 DEF StackOK
  <2>3. t[d + 1].kind = s[d + 1].kind
    <3>1. CASE d + 1 < Len(s)
      BY <3>1, <2>1, <1>1, <1>2
    <3>2. CASE d + 1 = Len(s)
      BY <3>2, <1>2 DEF SameKind
    <3> QED BY <3>1, <3>2, <2>1, <1>1
  <2> QED BY <2>1, <2>2, <2>3 DEF Linked
<1> QED BY <1>2, <1>3, <1>4 DEF StackOK, t

LEMMA PopOK ==
    ASSUME NEW s, NEW k, StackOK(s, k), s # <<>>
    PROVE  /\ StackOK(Front(s), k) /\ Len(Front(s)) = Len(s) - 1
           /\ \A d \in DOMAIN Front(s) :
                 d \in DOMAIN s /\ d < Len(s) /\ Front(s)[d] = s[d]
<1> DEFINE t == Front(s)
<1>1. s \in Seq(Frame) /\ DOMAIN s = 1 .. Len(s) /\ Len(s) \in Nat \ {0}
  BY DEF StackOK
<1>2. t = SubSeq(s, 1, Len(s) - 1)
  BY DEF Front
<1>3. /\ t \in Seq(Frame) /\ Len(t) = Len(s) - 1 /\ DOMAIN t = 1 .. Len(s) - 1
      /\ \A d \in 1 .. Len(s) - 1 : t[d] = s[d]
  BY <1>1, <1>2, FrontFacts
<1> HIDE DEF t
<1>4. \A d \in DOMAIN t : d \in DOMAIN s /\ d < Len(s) /\ t[d] = s[d]
  BY <1>1, <1>3
<1>5. ASSUME NEW d \in DOMAIN t, d < Len(t) PROVE Linked(t[d], t[d + 1])
  <2>1. t[d] = s[d] /\ t[d + 1] = s[d + 1] /\ d \in DOMAIN s /\ d < Len(s)
    BY <1>1, <1>3, <1>5
  <2> QED BY <2>1 DEF StackOK
<1>6. \A d \in DOMAIN t : Shape(t[d]) /\ HeldBy(t[d]) \subseteq k \cup {NoWindow}
  BY <1>4 DEF StackOK
<1> QED BY <1>3, <1>4, <1>5, <1>6 DEF StackOK, t

LEMMA MenuOK ==
    ASSUME NEW s, NEW k, StackOK(s, k)
    PROVE  /\ StackOK(MenuChecks(s), k) /\ Len(MenuChecks(s)) = Len(s)
           /\ \A d \in DOMAIN s : MenuChecks(s)[d].kind = s[d].kind
           /\ \A d \in DOMAIN s : MenuChecks(s)[d].body = s[d].body
<1> DEFINE t == MenuChecks(s)
<1> DEFINE Cleared(fr) == [fr EXCEPT !.win = NoWindow]
<1>1. s \in Seq(Frame) /\ DOMAIN s = 1 .. Len(s) /\ Len(s) \in Nat
  BY DEF StackOK
<1>2. t = [d \in DOMAIN s |->
             IF d = Len(s) /\ s[d].kind = "menu" /\ s[d].win \notin Listed
             THEN Cleared(s[d]) ELSE s[d]]
  BY DEF MenuChecks
<1> HIDE DEF t
<1>3. ASSUME NEW fr \in Frame
      PROVE  /\ Cleared(fr) \in Frame
             /\ Cleared(fr).kind = fr.kind /\ Cleared(fr).rest = fr.rest
             /\ Cleared(fr).body = fr.body /\ Cleared(fr).win = NoWindow
  BY DEF Frame
<1> HIDE DEF Cleared
<1>4. ASSUME NEW d \in DOMAIN s
      PROVE  /\ t[d] \in Frame /\ t[d].kind = s[d].kind /\ t[d].rest = s[d].rest
             /\ t[d].body = s[d].body /\ t[d].win \in {s[d].win, NoWindow}
  <2>1. s[d] \in Frame
    BY <1>1
  <2>2. t[d] = s[d] \/ t[d] = Cleared(s[d])
    BY <1>2
  <2> QED BY <2>1, <2>2, <1>3
<1>5. t \in Seq(Frame) /\ Len(t) = Len(s) /\ DOMAIN t = DOMAIN s
  <2>1. DOMAIN t = 1 .. Len(s) /\ t \in [1 .. Len(s) -> Frame]
    <3>1. t = [d \in 1 .. Len(s) |-> t[d]]
      BY <1>1, <1>2
    <3> QED BY <3>1, <1>1, <1>4
  <2> QED BY <2>1, <1>1
<1>6. ASSUME NEW d \in DOMAIN t
      PROVE  Shape(t[d]) /\ HeldBy(t[d]) \subseteq k \cup {NoWindow}
  <2>1. Shape(s[d]) /\ HeldBy(s[d]) \subseteq k \cup {NoWindow} /\ d \in DOMAIN s
    BY <1>5 DEF StackOK
  <2> QED BY <2>1, <1>4 DEF Shape, HeldBy
<1>7. ASSUME NEW d \in DOMAIN t, d < Len(t) PROVE Linked(t[d], t[d + 1])
  <2>1. d \in DOMAIN s /\ d + 1 \in DOMAIN s /\ Linked(s[d], s[d + 1])
    BY <1>1, <1>5, <1>7 DEF StackOK
  <2> QED BY <2>1, <1>4 DEF Linked
<1> QED BY <1>4, <1>5, <1>6, <1>7 DEF StackOK, t

(* Without a function on the stack only the last frame holds a window.     *)
LEMMA OnlyTopHolds ==
    ASSUME NEW s, NEW k, StackOK(s, k), \A d \in DOMAIN s : s[d].kind # "func",
           NEW d \in DOMAIN s, d < Len(s) \/ s[d].kind = "wait"
    PROVE  HeldBy(s[d]) = {NoWindow}
<1>1. s \in Seq(Frame) /\ DOMAIN s = 1 .. Len(s) /\ Len(s) \in Nat
  BY DEF StackOK
<1>2. s[d].kind \in {"wait", "func", "menu", "all"}
  <2>1. s[d] \in Frame
    BY <1>1
  <2> QED BY <2>1 DEF Frame
<1>3. s[d].kind = "wait"
  <2>1. CASE d < Len(s)
    <3>1. d + 1 \in DOMAIN s /\ Linked(s[d], s[d + 1])
      BY <1>1, <2>1 DEF StackOK
    <3> QED BY <3>1, <1>2 DEF Linked
  <2> QED BY <2>1
<1>4. s[d].rest = <<>> /\ s[d].win = NoWindow
  BY <1>3 DEF StackOK, Shape
<1>5. ToSet(<<>>) = {}
  <2>1. DOMAIN <<>> = {}
    OBVIOUS
  <2> QED BY <2>1 DEF ToSet
<1> QED BY <1>4, <1>5 DEF HeldBy

-----------------------------------------------------------------------------
(* The invariant *)

Lists ==
    /\ GoodList(list) /\ GoodList(scheduled)
    /\ focus \in Windows \cup {NoWindow}
    /\ freed \subseteq Windows /\ tour \subseteq Windows
    /\ Listed \cap Scheduled = {} /\ freed \cap (Listed \cup Scheduled) = {}

(* Outside of functions All, Destroy frees its windows at once, and         *)
(* nothing comes between two of them.                                      *)
AllListed ==
    /\ frames # <<>> /\ Top.kind = "all" /\ Top.body = "destroy" /\ ~Executing
    => ToSet(Top.rest) \subseteq Listed

Inv == Lists /\ StackOK(frames, Listed \cup Scheduled) /\ AllListed

FocusStep == focus' \in ToSet(list') \cup {NoWindow} \/ focus' \notin Listed

LEMMA SameWindows ==
    ASSUME Lists, NEW st, GoodState(st), ToSet(st.list) = Listed, Becomes(st),
           UNCHANGED <<scheduled, freed>>
    PROVE  Lists' /\ Listed' = Listed /\ Scheduled' = Scheduled /\ FocusStep
<1>1. /\ list' = st.list /\ focus' = st.focus
      /\ tour' \in {tour \cap ToSet(st.list), {}}
  BY DEF Becomes
<1>2. Listed' = Listed /\ Scheduled' = Scheduled
  BY <1>1 DEF Listed, Scheduled
<1>3. GoodList(list') /\ focus' \in Windows \cup {NoWindow}
  BY <1>1 DEF GoodState, GoodList
<1>4. FocusStep
  BY <1>2 DEF FocusStep, Listed
<1>5. tour' \subseteq Windows
  BY <1>1 DEF Lists
<1> QED BY <1>2, <1>3, <1>4, <1>5 DEF Lists

LEMMA FramesKept ==
    ASSUME Inv, InLoop \/ InFunction, UNCHANGED frames,
           Listed \cup Scheduled \subseteq Listed' \cup Scheduled'
    PROVE  StackOK(frames, Listed \cup Scheduled)' /\ AllListed'
<1>1. StackOK(frames, Listed' \cup Scheduled')
  <2> DEFINE k == Listed \cup Scheduled
  <2> DEFINE k2 == Listed' \cup Scheduled'
  <2>1. StackOK(frames, k) /\ k \subseteq k2
    BY DEF Inv
  <2> HIDE DEF k, k2
  <2>2. StackOK(frames, k2)
    BY <2>1, WiderOK
  <2> QED BY <2>2 DEF k2
<1>2. frames # <<>> => Top.kind # "all"
  BY DEF InLoop, InFunction, InHandleEvents
<1>3. AllListed'
  BY <1>2 DEF AllListed, Top
<1> QED BY <1>1, <1>3

LEMMA SameStep ==
    ASSUME Inv, InLoop \/ InFunction, NEW st, GoodState(st), ToSet(st.list) = Listed,
           Becomes(st), UNCHANGED <<scheduled, freed, frames>>
    PROVE  Inv' /\ FocusStep
<1>1. Lists
  BY DEF Inv
<1>2. Lists' /\ Listed' = Listed /\ Scheduled' = Scheduled /\ FocusStep
  BY <1>1, SameWindows
<1>3. StackOK(frames, Listed \cup Scheduled)' /\ AllListed'
  BY <1>2, FramesKept
<1> QED BY <1>2, <1>3 DEF Inv

LEMMA NowGood ==
    ASSUME Inv
    PROVE  GoodState(Now) /\ ToSet(Now.list) = Listed /\ Now.focus = focus
<1>1. list \in Seq(Windows) /\ IsInjective(list) /\ focus \in Windows \cup {NoWindow}
  BY DEF Inv, Lists, GoodList
<1>2. Now = [list |-> list, focus |-> focus]
  BY DEF Now
<1> QED BY <1>1, <1>2 DEF GoodState, Listed

(* the windows a command is for are known *)
LEMMA ContextFacts ==
    ASSUME Inv, NEW w \in Contexts
    PROVE  /\ InLoop \/ InFunction
           /\ w \in Listed \cup Scheduled \cup {NoWindow}
           /\ w \in Scheduled => Executing
<1>1. StackOK(frames, Listed \cup Scheduled) /\ Listed \cap Scheduled = {}
  BY DEF Inv, Lists
<1>2. CASE InLoop
  <2>1. w \in Listed \cup {NoWindow}
    BY <1>2 DEF Contexts
  <2>2. NoWindow \notin Scheduled
    <3>1. Scheduled \subseteq Windows
      BY ToSetInSeq DEF Inv, Lists, GoodList, Scheduled
    <3> QED BY <3>1, WindowLifeAssumption DEF WindowLifeAssumption
  <2> QED BY <2>1, <2>2, <1>1, <1>2
<1>3. CASE ~InLoop
  <2>1. InFunction /\ w = Top.win
    BY <1>3 DEF Contexts
  <2>2. Len(frames) \in DOMAIN frames /\ frames[Len(frames)] = Top /\ Top.kind = "func"
    BY <2>1, <1>1 DEF StackOK, InFunction, InHandleEvents, Top
  <2>3. HeldBy(Top) \subseteq Listed \cup Scheduled \cup {NoWindow}
    BY <2>2, <1>1 DEF StackOK
  <2>4. Executing
    BY <2>2 DEF Executing
  <2> QED BY <2>1, <2>3, <2>4 DEF HeldBy
<1> QED BY <1>2, <1>3

LEMMA TopFacts ==
    ASSUME Inv, frames # <<>>
    PROVE  /\ frames \in Seq(Frame) /\ Top \in Frame
           /\ Len(frames) \in DOMAIN frames /\ Top = frames[Len(frames)]
           /\ Shape(Top) /\ HeldBy(Top) \subseteq Listed \cup Scheduled \cup {NoWindow}
<1>1. StackOK(frames, Listed \cup Scheduled)
  BY DEF Inv
<1>2. frames \in Seq(Frame) /\ Len(frames) \in DOMAIN frames /\ Top = frames[Len(frames)]
  BY <1>1 DEF StackOK, Top
<1>3. Top \in Frame
  BY <1>2
<1> QED BY <1>1, <1>2, <1>3 DEF StackOK

-----------------------------------------------------------------------------
(* Steps that leave the windows as they are *)

LEMMA FocusInStep ==
    ASSUME Inv, NEW w \in Windows, FocusIn(w)
    PROVE  Inv' /\ FocusStep
<1> DEFINE st == [Now EXCEPT !.focus = w]
<1>1. GoodState(st) /\ ToSet(st.list) = Listed
  BY NowGood DEF GoodState
<1>2. InLoop /\ Becomes(st) /\ UNCHANGED <<scheduled, freed, frames>>
  BY DEF FocusIn
<1> HIDE DEF st
<1> QED BY <1>1, <1>2, SameStep

(* the focus goes to a window that is listed or scheduled *)
LEMMA GivenFocus ==
    ASSUME Inv, NEW w \in Listed \cup Scheduled, NEW how
    PROVE  /\ w \in Windows
           /\ GoodState(WithFocus(Now, w, how))
           /\ ToSet(WithFocus(Now, w, how).list) = Listed
<1>1. w \in Windows
  BY ToSetInSeq DEF Inv, Lists, GoodList, Listed, Scheduled
<1>2. GoodState(Now) /\ ToSet(Now.list) = Listed
  BY NowGood
<1> DEFINE n == Now
<1>3. GoodState(n) /\ w \in ToSet(n.list) \cup Scheduled /\ ToSet(n.list) = Listed
  BY <1>2
<1> HIDE DEF n
<1>4. /\ GoodState(WithFocus(n, w, how))
      /\ ToSet(WithFocus(n, w, how).list) = ToSet(n.list)
  BY <1>1, <1>3, WithFocusFacts
<1> QED BY <1>1, <1>3, <1>4 DEF n

LEMMA GivenFocusStep ==
    ASSUME Inv, NEW w \in Listed \cup Scheduled, NEW how, InLoop \/ InFunction,
           Becomes(WithFocus(Now, w, how)), UNCHANGED <<scheduled, freed, frames>>
    PROVE  Inv' /\ FocusStep
<1> DEFINE st == WithFocus(Now, w, how)
<1>1. GoodState(st) /\ ToSet(st.list) = Listed /\ Becomes(st)
  BY GivenFocus
<1> HIDE DEF st
<1> QED BY <1>1, SameStep

LEMMA UserFocusesStep ==
    ASSUME Inv, NEW w \in Windows, UserFocuses(w)
    PROVE  Inv' /\ FocusStep
<1>1. /\ w \in Listed \cup Scheduled /\ (InLoop \/ InFunction)
      /\ Becomes(WithFocus(Now, w, "user")) /\ UNCHANGED <<scheduled, freed, frames>>
  BY DEF UserFocuses
<1> QED BY <1>1, GivenFocusStep

LEMMA FocusCommandStep ==
    ASSUME Inv, NEW w, NEW how, Focus(w, how)
    PROVE  Inv' /\ FocusStep
<1>1. /\ w \in Contexts \ {NoWindow}
      /\ Becomes(WithFocus(Now, w, how)) /\ UNCHANGED <<scheduled, freed, frames>>
  BY DEF Focus
<1>2. w \in Listed \cup Scheduled /\ (InLoop \/ InFunction)
  BY <1>1, ContextFacts
<1> QED BY <1>1, <1>2, GivenFocusStep

LEMMA CirculateFocusStep ==
    ASSUME Inv, NEW w, NEW dir, CirculateFocus(w, dir)
    PROVE  Inv' /\ FocusStep
<1> DEFINE found == Circulate(w, dir)
<1> DEFINE st == WithFocus(Now, found, "command")
<1>1. /\ w \in Contexts /\ found # NoWindow
      /\ list' = st.list /\ focus' = st.focus
      /\ UNCHANGED <<scheduled, freed, frames>>
  BY DEF CirculateFocus
<1>2. \/ tour' = tour \/ tour' = {}
      \/ st.focus \in tour /\ tour' = {st.focus}
      \/ tour' = tour \cup ({focus, st.focus} \ {NoWindow})
  BY DEF CirculateFocus
<1>3. GoodList(list) /\ Lists
  BY DEF Inv, Lists
<1>4. found \in Listed
  <2>1. Circulate(w, dir) \in Listed \cup {NoWindow}
    BY <1>3, CirculateFacts
  <2> QED BY <2>1, <1>1
<1>5. GoodState(st) /\ ToSet(st.list) = Listed
  <2> HIDE DEF found
  <2> QED BY <1>4, GivenFocus
<1>6. InLoop \/ InFunction
  BY <1>1, ContextFacts
<1> HIDE DEF found, st
<1>7. /\ GoodList(list') /\ focus' \in Windows \cup {NoWindow}
      /\ Listed' = Listed /\ Scheduled' = Scheduled
  BY <1>1, <1>5 DEF GoodState, GoodList, Listed, Scheduled
<1>8. tour' \subseteq Windows
  <2>1. tour \subseteq Windows /\ focus \in Windows \cup {NoWindow}
        /\ st.focus \in Windows \cup {NoWindow}
    BY <1>3, <1>5 DEF Lists, GoodState
  <2> QED BY <2>1, <1>2
<1>9. Lists' /\ FocusStep
  BY <1>1, <1>3, <1>7, <1>8 DEF Lists, FocusStep, Listed
<1>10. StackOK(frames, Listed \cup Scheduled)' /\ AllListed'
  BY <1>1, <1>6, <1>7, FramesKept
<1> QED BY <1>9, <1>10 DEF Inv

-----------------------------------------------------------------------------
(* Steps that add a window or take one off *)

LEMMA WindowMappedStep ==
    ASSUME Inv, NEW w \in Windows, NEW grabs, WindowMapped(w, grabs)
    PROVE  Inv' /\ FocusStep
<1> DEFINE st == [Now EXCEPT !.list = Append(@, w)]
<1> DEFINE r == IF grabs THEN WithFocus(st, w, "force") ELSE st
<1>1. /\ InLoop /\ w \notin Listed \cup Scheduled \cup freed
      /\ Becomes(r) /\ UNCHANGED <<scheduled, freed, frames>>
  BY DEF WindowMapped
<1>2. GoodState(Now) /\ ToSet(Now.list) = Listed /\ Lists
  BY NowGood DEF Inv
<1>3. GoodState(st) /\ ToSet(st.list) = Listed \cup {w} /\ st.focus = focus
  <2>1. GoodList(Now.list) /\ w \notin ToSet(Now.list)
    BY <1>1, <1>2 DEF GoodState, GoodList
  <2> DEFINE l == Append(Now.list, w)
  <2>2. GoodList(l) /\ ToSet(l) = Listed \cup {w}
    BY <2>1, <1>2, AppendGood
  <2> HIDE DEF l
  <2>3. st = [Now EXCEPT !.list = l] /\ Now.focus = focus
    BY NowGood DEF l
  <2> QED BY <2>2, <2>3, <1>2 DEF GoodState, GoodList
<1>4. GoodState(r) /\ ToSet(r.list) = Listed \cup {w}
  <2>1. CASE grabs
    <3> HIDE DEF st
    <3>1. w \in ToSet(st.list) \cup Scheduled
      BY <1>3
    <3>2. /\ GoodState(WithFocus(st, w, "force"))
          /\ ToSet(WithFocus(st, w, "force").list) = ToSet(st.list)
      BY <1>3, <3>1, WithFocusFacts
    <3> QED BY <2>1, <3>2, <1>3
  <2> QED BY <2>1, <1>3
<1>5. r.focus \in {focus, w}
  <2>1. CASE grabs
    <3> HIDE DEF st
    <3>1. w \in ToSet(st.list) \cup Scheduled
      BY <1>3
    <3>2. WithFocus(st, w, "force").focus \in {st.focus, w}
      BY <1>3, <3>1, WithFocusFacts
    <3> QED BY <2>1, <3>2, <1>3
  <2> QED BY <2>1, <1>3
<1> HIDE DEF r
<1>6. /\ list' = r.list /\ focus' = r.focus
      /\ tour' \in {tour \cap ToSet(r.list), {}}
  BY <1>1 DEF Becomes
<1>7. /\ GoodList(list') /\ Listed' = Listed \cup {w} /\ Scheduled' = Scheduled
      /\ focus' \in Windows \cup {NoWindow} /\ tour' \subseteq Windows
      /\ focus' \in {focus, w}
  BY <1>1, <1>2, <1>4, <1>5, <1>6
  DEF GoodState, GoodList, Listed, Scheduled, Lists
<1>8. Lists'
  BY <1>1, <1>2, <1>7 DEF Lists
<1>9. FocusStep
  BY <1>7 DEF FocusStep, Listed
<1>10. StackOK(frames, Listed \cup Scheduled)' /\ AllListed'
  BY <1>1, <1>7, FramesKept
<1> QED BY <1>8, <1>9, <1>10 DEF Inv

LEMMA DestroyedFacts ==
    ASSUME Inv, NEW st, GoodState(st), ToSet(st.list) = Listed,
           NEW w \in Listed \cup Scheduled, w \in Scheduled => Executing,
           Destroyed(st, w)
    PROVE  /\ Lists' /\ FocusStep /\ w \in Windows
           /\ Executing => Listed' \cup Scheduled' = Listed \cup Scheduled
           /\ ~Executing => Listed' = Listed \ {w} /\ Scheduled' = Scheduled
<1>1. w \in Windows /\ Listed \cap Scheduled = {} /\ Lists
  BY ToSetInSeq DEF Inv, Lists, GoodList, Listed, Scheduled
<1> DEFINE st1 == [st EXCEPT !.list = Without(@, w)]
<1> DEFINE r == IF w \in Scheduled THEN st ELSE FocusRestored(st1, w)
<1>2. /\ Becomes(r)
      /\ scheduled' = IF Executing /\ w \notin Scheduled
                      THEN Append(scheduled, w) ELSE scheduled
      /\ freed' = IF Executing THEN freed ELSE freed \cup {w}
  BY DEF Destroyed
<1>3. GoodState(st1) /\ ToSet(st1.list) = Listed \ {w} /\ st1.focus = st.focus
  <2> DEFINE l == Without(st.list, w)
  <2>1. GoodList(st.list)
    BY DEF GoodState, GoodList
  <2>2. GoodList(l) /\ ToSet(l) = Listed \ {w}
    BY <2>1, <1>1, WithoutFacts
  <2>3. st1 = [st EXCEPT !.list = l]
    OBVIOUS
  <2> HIDE DEF l
  <2> QED BY <2>2, <2>3 DEF GoodState, GoodList
<1>4. GoodState(r) /\ ToSet(r.list) = Listed \ {w}
  <2>1. CASE w \in Scheduled
    BY <2>1, <1>1
  <2>2. CASE w \notin Scheduled
    <3> HIDE DEF st1
    <3>1. /\ GoodState(FocusRestored(st1, w))
          /\ ToSet(FocusRestored(st1, w).list) = ToSet(st1.list)
      BY <1>1, <1>3, RestoredFacts
    <3> QED BY <3>1, <2>2, <1>3
  <2> QED BY <2>1, <2>2
<1>5. r.focus \in (Listed \ {w}) \cup {NoWindow} \/ r.focus \notin Listed
  <2>1. CASE w \in Scheduled
    BY <2>1, <1>1
  <2>2. CASE w \notin Scheduled
    <3> HIDE DEF st1
    <3>1. /\ FocusRestored(st1, w).focus # w
          /\ st1.focus # w => FocusRestored(st1, w).focus = st1.focus
          /\ st1.focus = w => FocusRestored(st1, w).focus
                                 \in ToSet(st1.list) \cup {NoWindow}
      BY <1>1, <1>3, RestoredFacts
    <3>2. r.focus = FocusRestored(st1, w).focus
      BY <2>2
    <3> QED BY <3>1, <3>2, <1>3
  <2> QED BY <2>1, <2>2
<1> HIDE DEF r
<1>6. /\ list' = r.list /\ focus' = r.focus
      /\ tour' \in {tour \cap ToSet(r.list), {}}
  BY <1>2 DEF Becomes
<1>7. /\ GoodList(list') /\ Listed' = Listed \ {w}
      /\ focus' \in Windows \cup {NoWindow} /\ tour' \subseteq Windows
  BY <1>1, <1>4, <1>6 DEF GoodState, GoodList, Listed, Lists
<1>8. FocusStep
  BY <1>5, <1>6, <1>7 DEF FocusStep, Listed
<1>9. CASE Executing /\ w \notin Scheduled
  <2>1. scheduled' = Append(scheduled, w) /\ freed' = freed /\ w \in Listed
    BY <1>2, <1>9
  <2>2. GoodList(scheduled') /\ Scheduled' = Scheduled \cup {w}
    BY <2>1, <1>1, <1>9, AppendGood DEF Lists, Scheduled
  <2>3. Lists'
    BY <2>1, <2>2, <1>1, <1>7 DEF Lists
  <2> QED BY <2>1, <2>2, <2>3, <1>1, <1>7, <1>8, <1>9
<1>10. CASE Executing /\ w \in Scheduled
  <2>1. scheduled' = scheduled /\ freed' = freed /\ Scheduled' = Scheduled
    BY <1>2, <1>10 DEF Scheduled
  <2>2. Lists'
    BY <2>1, <1>1, <1>7 DEF Lists
  <2> QED BY <2>1, <2>2, <1>1, <1>7, <1>8, <1>10
<1>11. CASE ~Executing
  <2>1. /\ scheduled' = scheduled /\ freed' = freed \cup {w} /\ Scheduled' = Scheduled
        /\ w \in Listed
    BY <1>2, <1>11 DEF Scheduled
  <2>2. Lists'
    BY <2>1, <1>1, <1>7 DEF Lists
  <2> QED BY <2>1, <2>2, <1>1, <1>7, <1>8, <1>11
<1> QED BY <1>9, <1>10, <1>11

(* no frame holds a window if no function runs and the top frame does not  *)
LEMMA NothingHeld ==
    ASSUME Inv, ~Executing, frames # <<>> => Top.kind = "wait", NEW k
    PROVE  StackOK(frames, k)
<1>1. StackOK(frames, Listed \cup Scheduled)
  BY DEF Inv
<1>2. ASSUME NEW d \in DOMAIN frames PROVE HeldBy(frames[d]) \subseteq k \cup {NoWindow}
  <2>1. \A e \in DOMAIN frames : frames[e].kind # "func"
    BY DEF Executing
  <2>2. d < Len(frames) \/ frames[d].kind = "wait"
    <3>1. DOMAIN frames = 1 .. Len(frames) /\ Len(frames) \in Nat
      BY <1>1 DEF StackOK
    <3>2. CASE d = Len(frames)
      BY <3>1, <3>2 DEF Top
    <3> QED BY <3>1, <3>2
  <2>3. HeldBy(frames[d]) = {NoWindow}
    <3> DEFINE known == Listed \cup Scheduled
    <3>1. StackOK(frames, known)
      BY <1>1
    <3> HIDE DEF known
    <3> QED BY <3>1, <2>1, <2>2, OnlyTopHolds
  <2> QED BY <2>3
<1> QED BY <1>1, <1>2 DEF StackOK

LEMMA DestroyedStep ==
    ASSUME Inv, NEW st, GoodState(st), ToSet(st.list) = Listed,
           NEW w \in Listed \cup Scheduled, w \in Scheduled => Executing,
           InLoop \/ InFunction, Destroyed(st, w), UNCHANGED frames
    PROVE  Inv' /\ FocusStep
<1>1. /\ Lists' /\ FocusStep
      /\ Executing => Listed' \cup Scheduled' = Listed \cup Scheduled
  BY DestroyedFacts
<1>2. frames # <<>> => Top.kind # "all"
  BY DEF InLoop, InFunction, InHandleEvents
<1>3. AllListed'
  BY <1>2 DEF AllListed, Top
<1>4. StackOK(frames, Listed \cup Scheduled)'
  <2>1. CASE Executing
    BY <2>1, <1>1, FramesKept
  <2>2. CASE ~Executing
    <3>1. frames # <<>> => Top.kind = "wait"
      <4>1. CASE frames # <<>> /\ Top.kind = "func"
        <5>1. Len(frames) \in DOMAIN frames /\ frames[Len(frames)].kind = "func"
          BY <4>1, TopFacts
        <5> QED BY <5>1, <2>2 DEF Executing
      <4> QED BY <4>1 DEF InLoop, InFunction, InHandleEvents
    <3> DEFINE k == Listed' \cup Scheduled'
    <3>2. StackOK(frames, k)
      <4> HIDE DEF k
      <4> QED BY <2>2, <3>1, NothingHeld
    <3> QED BY <3>2
  <2> QED BY <2>1, <2>2
<1> QED BY <1>1, <1>3, <1>4 DEF Inv

LEMMA WindowUnmappedStep ==
    ASSUME Inv, NEW w \in Windows, WindowUnmapped(w)
    PROVE  Inv' /\ FocusStep
<1> DEFINE st == FocusRestored(Now, w)
<1>1. GoodState(st) /\ ToSet(st.list) = Listed
  <2> DEFINE n == Now
  <2>1. GoodState(n) /\ ToSet(n.list) = Listed
    BY NowGood
  <2> HIDE DEF n
  <2>2. /\ GoodState(FocusRestored(n, w))
        /\ ToSet(FocusRestored(n, w).list) = ToSet(n.list)
    BY <2>1, RestoredFacts
  <2> QED BY <2>1, <2>2 DEF n
<1>2. /\ InLoop \/ InFunction
      /\ w \in Listed \cup Scheduled
      /\ Destroyed(st, w) \/ (Becomes(st) /\ UNCHANGED <<scheduled, freed>>)
      /\ UNCHANGED frames
  BY DEF WindowUnmapped
<1>3. w \notin Scheduled
  BY DEF WindowUnmapped, Inv, Lists
<1> HIDE DEF st
<1>4. CASE Destroyed(st, w)
  BY <1>1, <1>2, <1>3, <1>4, DestroyedStep
<1>5. CASE Becomes(st) /\ UNCHANGED <<scheduled, freed>>
  BY <1>1, <1>2, <1>5, SameStep
<1> QED BY <1>2, <1>4, <1>5

LEMMA WindowDestroyedStep ==
    ASSUME Inv, NEW w \in Windows, WindowDestroyed(w)
    PROVE  Inv' /\ FocusStep
<1> DEFINE st == Now
<1>1. GoodState(st) /\ ToSet(st.list) = Listed
  BY NowGood
<1>2. /\ InLoop \/ InFunction
      /\ w \in Listed \cup Scheduled
      /\ Destroyed(st, w) /\ UNCHANGED frames
  BY DEF WindowDestroyed
<1>3. w \notin Scheduled
  BY DEF WindowDestroyed, Inv, Lists
<1> HIDE DEF st
<1> QED BY <1>1, <1>2, <1>3, DestroyedStep

LEMMA DestroyStep ==
    ASSUME Inv, NEW w, Destroy(w)
    PROVE  Inv' /\ FocusStep
<1> DEFINE st == Now
<1>1. GoodState(st) /\ ToSet(st.list) = Listed
  BY NowGood
<1>2. w \in Contexts \ {NoWindow} /\ Destroyed(st, w) /\ UNCHANGED frames
  BY DEF Destroy
<1>3. /\ InLoop \/ InFunction
      /\ w \in Listed \cup Scheduled
      /\ w \in Scheduled => Executing
  BY <1>2, ContextFacts
<1> HIDE DEF st
<1> QED BY <1>1, <1>2, <1>3, DestroyedStep

-----------------------------------------------------------------------------
(* The steps of All *)

LEMMA RestFacts ==
    ASSUME NEW s \in Seq(Windows), s # <<>>, IsInjective(s)
    PROVE  /\ Tail(s) \in Seq(Windows) /\ IsInjective(Tail(s))
           /\ Head(s) \in ToSet(s) /\ ToSet(Tail(s)) \subseteq ToSet(s) \ {Head(s)}
<1> DEFINE t == Tail(s)
<1>1. /\ DOMAIN s = 1 .. Len(s) /\ Len(s) \in Nat \ {0} /\ Head(s) = s[1]
      /\ t \in Seq(Windows) /\ DOMAIN t = 1 .. Len(s) - 1
      /\ \A i \in 1 .. Len(s) - 1 : t[i] = s[i + 1]
  OBVIOUS
<1> HIDE DEF t
<1>2. 1 \in DOMAIN s /\ Head(s) \in ToSet(s)
  BY <1>1 DEF ToSet
<1>3. ASSUME NEW i \in DOMAIN t PROVE t[i] \in ToSet(s) \ {Head(s)}
  <2>1. i + 1 \in DOMAIN s /\ i + 1 # 1 /\ t[i] = s[i + 1]
    BY <1>1
  <2>2. s[i + 1] # s[1]
    BY <2>1, <1>2 DEF IsInjective
  <2> QED BY <2>1, <2>2, <1>1 DEF ToSet
<1>4. IsInjective(t)
  <2>1. ASSUME NEW a \in DOMAIN t, NEW b \in DOMAIN t, t[a] = t[b] PROVE a = b
    <3>1. a + 1 \in DOMAIN s /\ b + 1 \in DOMAIN s /\ s[a + 1] = s[b + 1]
      BY <2>1, <1>1
    <3>2. a + 1 = b + 1
      BY <3>1 DEF IsInjective
    <3> QED BY <3>2, <1>1
  <2> QED BY <2>1 DEF IsInjective
<1>5. ToSet(t) \subseteq ToSet(s) \ {Head(s)}
  <2>1. ToSet(t) = {t[i] : i \in DOMAIN t}
    BY DEF ToSet
  <2> QED BY <2>1, <1>3
<1> QED BY <1>1, <1>2, <1>4, <1>5 DEF t

Shorter == [Top EXCEPT !.rest = Tail(@)]

LEMMA ShorterFacts ==
    ASSUME Inv, frames # <<>>, Top.kind = "all", Top.rest # <<>>
    PROVE  /\ Shorter \in Frame /\ Shape(Shorter) /\ SameKind(Shorter, Top)
           /\ Shorter.kind = "all" /\ Shorter.body = Top.body
           /\ Shorter.rest = Tail(Top.rest)
           /\ Head(Top.rest) \in ToSet(Top.rest)
           /\ Head(Top.rest) \in Listed \cup Scheduled
           /\ Head(Top.rest) \in Windows
           /\ ToSet(Tail(Top.rest)) \subseteq ToSet(Top.rest) \ {Head(Top.rest)}
           /\ HeldBy(Shorter) \subseteq HeldBy(Top)
           /\ HeldBy(Shorter) = {NoWindow} \cup ToSet(Tail(Top.rest))
           /\ OneDone = [frames EXCEPT ![Len(frames)] = Shorter]
<1> DEFINE s == Top.rest
<1>1. Top \in Frame /\ Shape(Top) /\ HeldBy(Top) \subseteq Listed \cup Scheduled \cup {NoWindow}
  BY TopFacts
<1>2. s \in Seq(Windows) /\ s # <<>> /\ IsInjective(s) /\ Top.win = NoWindow
  BY <1>1 DEF Frame, Shape
<1> DEFINE t == Tail(s)
<1>3. /\ t \in Seq(Windows) /\ IsInjective(t)
      /\ Head(s) \in ToSet(s) /\ ToSet(t) \subseteq ToSet(s) \ {Head(s)}
  <2> HIDE DEF s
  <2> QED BY <1>2, RestFacts
<1>4. Head(s) \in Windows
  <2> HIDE DEF s
  <2> QED BY <1>2, <1>3, ToSetInSeq
<1>5. Head(s) \in Listed \cup Scheduled
  BY <1>1, <1>3, <1>4, WindowLifeAssumption DEF HeldBy, WindowLifeAssumption
<1> HIDE DEF t
<1>6. Shorter = [Top EXCEPT !.rest = t]
  BY DEF Shorter, t
<1>7. /\ Shorter \in Frame /\ Shorter.kind = "all" /\ Shorter.body = Top.body
      /\ Shorter.rest = t /\ Shorter.win = NoWindow
  BY <1>1, <1>2, <1>3, <1>6 DEF Frame
<1>8. Shape(Shorter) /\ SameKind(Shorter, Top)
  BY <1>3, <1>7 DEF Shape, SameKind
<1>9. HeldBy(Shorter) = {NoWindow} \cup ToSet(t) /\ HeldBy(Shorter) \subseteq HeldBy(Top)
  BY <1>2, <1>3, <1>7 DEF HeldBy
<1>10. OneDone = [frames EXCEPT ![Len(frames)] = Shorter]
  <2>1. frames \in Seq(Frame) /\ Len(frames) \in DOMAIN frames /\ Top = frames[Len(frames)]
    BY TopFacts
  <2> QED BY <2>1 DEF OneDone, Shorter
<1> QED BY <1>3, <1>4, <1>5, <1>7, <1>8, <1>9, <1>10 DEF t

LEMMA OneDoneOK ==
    ASSUME Inv, frames # <<>>, Top.kind = "all", Top.rest # <<>>,
           NEW k, StackOK(frames, k)
    PROVE  /\ StackOK(OneDone, k) /\ OneDone # <<>> /\ Len(OneDone) = Len(frames)
           /\ OneDone[Len(OneDone)] = Shorter
           /\ \A d \in DOMAIN OneDone : d \in DOMAIN frames /\ OneDone[d].kind = frames[d].kind
<1>1. /\ Shorter \in Frame /\ Shape(Shorter) /\ SameKind(Shorter, Top)
      /\ HeldBy(Shorter) \subseteq HeldBy(Top)
      /\ OneDone = [frames EXCEPT ![Len(frames)] = Shorter]
  BY ShorterFacts
<1>2. /\ frames \in Seq(Frame) /\ Len(frames) \in DOMAIN frames
      /\ Top = frames[Len(frames)]
  BY TopFacts
<1>3. HeldBy(Shorter) \subseteq k \cup {NoWindow}
  BY <1>1, <1>2 DEF StackOK
<1>4. StackOK([frames EXCEPT ![Len(frames)] = Shorter], k)
  BY <1>1, <1>2, <1>3, ReplaceTopOK
<1> DEFINE t == [frames EXCEPT ![Len(frames)] = Shorter]
<1>5. /\ t \in Seq(Frame) /\ Len(t) = Len(frames) /\ t[Len(frames)] = Shorter
      /\ \A d \in 1 .. Len(frames) - 1 : t[d] = frames[d]
  BY <1>1, <1>2, NewTop
<1> HIDE DEF t
<1>6. ASSUME NEW d \in DOMAIN t PROVE d \in DOMAIN frames /\ t[d].kind = frames[d].kind
  <2>1. d \in DOMAIN frames /\ (d = Len(frames) \/ d \in 1 .. Len(frames) - 1)
    BY <1>2, <1>5
  <2> QED BY <2>1, <1>1, <1>2, <1>5 DEF SameKind
<1>7. OneDone = t
  BY <1>1 DEF t
<1>8. StackOK(t, k)
  BY <1>4 DEF t
<1>9. t # <<>>
  BY <1>2, <1>5
<1> QED BY <1>5, <1>6, <1>7, <1>8, <1>9

LEMMA AllFocusesStep ==
    ASSUME Inv, AllFocuses
    PROVE  Inv' /\ FocusStep
<1> DEFINE w == Head(Top.rest)
<1>1. /\ frames # <<>> /\ Top.kind = "all" /\ Top.rest # <<>> /\ Top.body = "focus"
      /\ Becomes(WithFocus(Now, w, "command")) /\ frames' = OneDone
      /\ UNCHANGED <<scheduled, freed>>
  BY DEF AllFocuses, InAll, InHandleEvents
<1>2. w \in Listed \cup Scheduled /\ Shorter.body = "focus"
  BY <1>1, ShorterFacts
<1>3. Lists' /\ Listed' = Listed /\ Scheduled' = Scheduled /\ FocusStep
  <2> HIDE DEF w
  <2> DEFINE st == WithFocus(Now, w, "command")
  <2>1. GoodState(st) /\ ToSet(st.list) = Listed /\ Becomes(st)
    BY <1>1, <1>2, GivenFocus
  <2> HIDE DEF st
  <2>2. Lists /\ UNCHANGED <<scheduled, freed>>
    BY <1>1 DEF Inv
  <2> QED BY <2>1, <2>2, SameWindows
<1>4. StackOK(frames', Listed' \cup Scheduled') /\ frames'[Len(frames')] = Shorter
  <2> DEFINE k == Listed \cup Scheduled
  <2>1. StackOK(frames, k)
    BY DEF Inv
  <2>2. StackOK(OneDone, k) /\ OneDone[Len(OneDone)] = Shorter
    <3> HIDE DEF k
    <3> QED BY <1>1, <2>1, OneDoneOK
  <2> QED BY <2>2, <1>1, <1>3
<1>5. AllListed'
  BY <1>2, <1>4 DEF AllListed, Top
<1> QED BY <1>3, <1>4, <1>5 DEF Inv

LEMMA AllDestroysStep ==
    ASSUME Inv, AllDestroys
    PROVE  Inv' /\ FocusStep
<1> DEFINE w == Head(Top.rest)
<1> DEFINE k == Listed \cup Scheduled
<1> DEFINE k2 == Listed' \cup Scheduled'
<1>1. /\ frames # <<>> /\ Top.kind = "all" /\ Top.rest # <<>> /\ Top.body = "destroy"
      /\ Destroyed(Now, w) /\ frames' = OneDone
  BY DEF AllDestroys, InAll, InHandleEvents
<1>2. /\ w \in Listed \cup Scheduled /\ w \in ToSet(Top.rest)
      /\ ToSet(Tail(Top.rest)) \subseteq ToSet(Top.rest) \ {w}
      /\ Shorter.rest = Tail(Top.rest)
      /\ HeldBy(Shorter) = {NoWindow} \cup ToSet(Tail(Top.rest))
  BY <1>1, ShorterFacts
<1>3. ~Executing => ToSet(Top.rest) \subseteq Listed
  BY <1>1 DEF Inv, AllListed
<1>4. w \in Scheduled => Executing
  BY <1>2, <1>3 DEF Inv, Lists
<1>5. /\ Lists' /\ FocusStep
      /\ Executing => Listed' \cup Scheduled' = Listed \cup Scheduled
      /\ ~Executing => Listed' = Listed \ {w} /\ Scheduled' = Scheduled
  <2> HIDE DEF w
  <2> DEFINE st == Now
  <2>1. GoodState(st) /\ ToSet(st.list) = Listed /\ Destroyed(st, w)
    BY <1>1, NowGood
  <2> HIDE DEF st
  <2> QED BY <2>1, <1>2, <1>4, DestroyedFacts
<1>6. StackOK(OneDone, k)
  <2>1. StackOK(frames, k)
    BY DEF Inv
  <2> HIDE DEF k
  <2> QED BY <1>1, <2>1, OneDoneOK
<1>7. /\ OneDone # <<>> /\ Len(OneDone) = Len(frames)
      /\ OneDone[Len(OneDone)] = Shorter
      /\ \A d \in DOMAIN OneDone :
            d \in DOMAIN frames /\ OneDone[d].kind = frames[d].kind
  BY <1>1, OneDoneOK DEF Inv
<1>8. CASE Executing
  <2>1. StackOK(frames', k2)
    BY <1>1, <1>5, <1>6, <1>8
  <2>2. PICK d \in DOMAIN frames : frames[d].kind = "func"
    BY <1>8 DEF Executing
  <2>3. d \in DOMAIN OneDone
    <3>1. frames \in Seq(Frame) /\ OneDone \in Seq(Frame) /\ Len(OneDone) = Len(frames)
      BY <1>1, <1>6, <1>7, TopFacts DEF StackOK
    <3>2. DOMAIN frames = 1 .. Len(frames) /\ DOMAIN OneDone = 1 .. Len(frames)
      BY <3>1
    <3> QED BY <3>2
  <2>4. Executing'
    BY <1>1, <1>7, <2>2, <2>3 DEF Executing
  <2>5. AllListed'
    BY <2>4 DEF AllListed
  <2> QED BY <1>5, <2>1, <2>5 DEF Inv
<1>9. CASE ~Executing
  <2>1. HeldBy(Shorter) \subseteq Listed' \cup {NoWindow} /\ ToSet(Shorter.rest) \subseteq Listed'
    BY <1>2, <1>3, <1>5, <1>9
  <2>2. \A d \in DOMAIN OneDone : OneDone[d].kind # "func"
    BY <1>7, <1>9 DEF Executing
  <2>3. ASSUME NEW d \in DOMAIN OneDone PROVE HeldBy(OneDone[d]) \subseteq k2 \cup {NoWindow}
    <3>1. CASE d = Len(OneDone)
      BY <3>1, <2>1, <1>7
    <3>2. CASE d < Len(OneDone)
      <4>1. HeldBy(OneDone[d]) = {NoWindow}
        <5> HIDE DEF k
        <5> QED BY <3>2, <2>2, <1>6, OnlyTopHolds
      <4> QED BY <4>1
    <3>3. DOMAIN OneDone = 1 .. Len(OneDone) /\ Len(OneDone) \in Nat
      BY <1>6 DEF StackOK
    <3> QED BY <3>1, <3>2, <3>3
  <2>4. StackOK(OneDone, k2)
    BY <2>3, <1>6 DEF StackOK
  <2>5. AllListed'
    BY <1>1, <1>7, <2>1 DEF AllListed, Top
  <2> QED BY <1>1, <1>5, <2>4, <2>5 DEF Inv
<1> QED BY <1>8, <1>9

-----------------------------------------------------------------------------
(* Steps that only change the stack *)

LEMMA SameLists ==
    ASSUME Inv, UNCHANGED <<list, focus, scheduled, freed, tour>>
    PROVE  /\ Lists' /\ FocusStep /\ Listed' = Listed /\ Scheduled' = Scheduled
<1>1. Listed' = Listed /\ Scheduled' = Scheduled
  BY DEF Listed, Scheduled
<1>2. Lists'
  BY <1>1 DEF Inv, Lists
<1>3. FocusStep
  BY <1>1 DEF FocusStep, Listed
<1> QED BY <1>1, <1>2, <1>3

LEMMA PushStep ==
    ASSUME Inv, NEW fr \in Frame, Push(fr), Shape(fr),
           HeldBy(fr) \subseteq Listed \cup Scheduled \cup {NoWindow},
           frames # <<>> => Linked(Top, fr),
           fr.kind = "all" => ToSet(fr.rest) \subseteq Listed,
           UNCHANGED <<list, focus, scheduled, freed, tour>>
    PROVE  Inv' /\ FocusStep
<1> DEFINE k == Listed \cup Scheduled
<1>1. Lists' /\ FocusStep /\ Listed' = Listed /\ Scheduled' = Scheduled
  BY SameLists
<1>2. frames' = Append(frames, fr) /\ StackOK(frames, k)
  BY DEF Push, Inv
<1>3. StackOK(Append(frames, fr), k)
  <2>1. HeldBy(fr) \subseteq k \cup {NoWindow} /\ (frames # <<>> => Linked(frames[Len(frames)], fr))
    BY DEF Top
  <2> HIDE DEF k
  <2> QED BY <1>2, <2>1, PushOK
<1>4. frames'[Len(frames')] = fr
  <2>1. frames \in Seq(Frame)
    BY <1>2 DEF StackOK
  <2> QED BY <1>2, <2>1, AppendFacts
<1>5. AllListed'
  BY <1>1, <1>4 DEF AllListed, Top
<1> QED BY <1>1, <1>2, <1>3, <1>5 DEF Inv

LEMMA HolderFacts ==
    ASSUME NEW kind \in {"func", "menu"}, NEW w \in Windows \cup {NoWindow}
    PROVE  LET fr == HolderFrame(kind, w) IN
           /\ fr \in Frame /\ Shape(fr) /\ HeldBy(fr) = {w} /\ fr.kind = kind
<1> DEFINE fr == HolderFrame(kind, w)
<1>1. fr = [kind |-> kind, win |-> w, rest |-> <<>>, body |-> "none"]
  BY DEF HolderFrame
<1>2. <<>> \in Seq(Windows) /\ DOMAIN <<>> = {}
  OBVIOUS
<1>3. ToSet(<<>>) = {} /\ IsInjective(<<>>)
  BY <1>2 DEF ToSet, IsInjective
<1>4. fr \in Frame
  BY <1>1, <1>2 DEF Frame
<1>5. fr.kind = kind /\ fr.win = w /\ fr.rest = <<>>
  BY <1>1
<1>6. Shape(fr)
  BY <1>3, <1>5 DEF Shape
<1>7. HeldBy(fr) = {w}
  BY <1>3, <1>5 DEF HeldBy
<1> QED BY <1>4, <1>5, <1>6, <1>7

LEMMA KnownWindows ==
    ASSUME Inv
    PROVE  Listed \subseteq Windows /\ Scheduled \subseteq Windows
BY ToSetInSeq DEF Inv, Lists, GoodList, Listed, Scheduled

LEMMA HolderStep ==
    ASSUME Inv, NEW kind \in {"func", "menu"},
           NEW w \in Listed \cup Scheduled \cup {NoWindow},
           Push(HolderFrame(kind, w)),
           frames # <<>> => \/ Top.kind \in {"wait", "func"}
                            \/ Top.kind = "menu" /\ kind = "func",
           UNCHANGED <<list, focus, scheduled, freed, tour>>
    PROVE  Inv' /\ FocusStep
<1> DEFINE fr == HolderFrame(kind, w)
<1>1. w \in Windows \cup {NoWindow}
  BY KnownWindows
<1>2. fr \in Frame /\ Shape(fr) /\ HeldBy(fr) = {w} /\ fr.kind = kind /\ Push(fr)
  BY <1>1, HolderFacts
<1> HIDE DEF fr
<1>3. frames # <<>> => Linked(Top, fr)
  BY <1>2 DEF Linked
<1> QED BY <1>2, <1>3, PushStep

(* whoever may start something is not in a menu or in All *)
LEMMA MayPush ==
    ASSUME InLoop \/ InFunction, frames # <<>>
    PROVE  Top.kind \in {"wait", "func"}
BY DEF InLoop, InFunction, InHandleEvents

LEMMA CallStep ==
    ASSUME Inv, NEW w, Call(w) \/ OpenMenu(w)
    PROVE  Inv' /\ FocusStep
<1>1. /\ w \in Contexts /\ UNCHANGED <<list, focus, scheduled, freed, tour>>
      /\ Push(HolderFrame("func", w)) \/ Push(HolderFrame("menu", w))
  BY DEF Call, OpenMenu
<1>2. w \in Listed \cup Scheduled \cup {NoWindow} /\ (InLoop \/ InFunction)
  BY <1>1, ContextFacts
<1>3. frames # <<>> => Top.kind \in {"wait", "func"}
  BY <1>2, MayPush
<1> QED BY <1>1, <1>2, <1>3, HolderStep

LEMMA CirculateCallsStep ==
    ASSUME Inv, NEW w, NEW dir, CirculateCalls(w, dir)
    PROVE  Inv' /\ FocusStep
<1> DEFINE found == Circulate(w, dir)
<1>1. /\ w \in Contexts /\ UNCHANGED <<list, focus, scheduled, freed, tour>>
      /\ Push(HolderFrame("func", found))
  BY DEF CirculateCalls
<1>2. InLoop \/ InFunction
  BY <1>1, ContextFacts
<1>3. frames # <<>> => Top.kind \in {"wait", "func"}
  BY <1>2, MayPush
<1>4. found \in Listed \cup Scheduled \cup {NoWindow}
  BY CirculateFacts DEF Inv, Lists
<1> HIDE DEF found
<1> QED BY <1>1, <1>3, <1>4, HolderStep

LEMMA WaitStep ==
    ASSUME Inv, Wait
    PROVE  Inv' /\ FocusStep
<1>1. /\ InLoop \/ InFunction
      /\ Push(WaitFrame) /\ UNCHANGED <<list, focus, scheduled, freed, tour>>
  BY DEF Wait
<1>2. /\ WaitFrame \in Frame /\ WaitFrame.kind = "wait"
      /\ WaitFrame.rest = <<>> /\ WaitFrame.win = NoWindow
  BY DEF WaitFrame, Frame
<1>3. ToSet(<<>>) = {} /\ IsInjective(<<>>)
  <2>1. DOMAIN <<>> = {}
    OBVIOUS
  <2> QED BY <2>1 DEF ToSet, IsInjective
<1>4. Shape(WaitFrame) /\ HeldBy(WaitFrame) = {NoWindow}
  BY <1>2, <1>3 DEF Shape, HeldBy
<1>5. frames # <<>> => Linked(Top, WaitFrame)
  BY <1>1, MayPush DEF Linked
<1> QED BY <1>1, <1>2, <1>4, <1>5, PushStep

LEMMA AllStep ==
    ASSUME Inv, NEW body \in {"focus", "destroy", "func"}, All(body)
    PROVE  Inv' /\ FocusStep
<1> DEFINE fr == AllFrame(list, body)
<1>1. /\ InLoop \/ InFunction
      /\ Push(fr) /\ UNCHANGED <<list, focus, scheduled, freed, tour>>
  BY DEF All
<1>2. list \in Seq(Windows) /\ IsInjective(list)
  BY DEF Inv, Lists, GoodList
<1>3. fr \in Frame /\ fr.kind = "all" /\ fr.rest = list /\ fr.win = NoWindow
  BY <1>2 DEF AllFrame, Frame
<1> HIDE DEF fr
<1>4. Shape(fr) /\ HeldBy(fr) = {NoWindow} \cup Listed
  BY <1>2, <1>3 DEF Shape, HeldBy, Listed
<1>5. frames # <<>> => Linked(Top, fr)
  BY <1>1, MayPush DEF Linked
<1>6. ToSet(fr.rest) \subseteq Listed
  BY <1>3 DEF Listed
<1> QED BY <1>1, <1>3, <1>4, <1>5, <1>6, PushStep

LEMMA MenuActsStep ==
    ASSUME Inv, MenuActs
    PROVE  Inv' /\ FocusStep
<1> DEFINE w == Top.win
<1>1. /\ frames # <<>> /\ Top.kind = "menu"
      /\ Push(HolderFrame("func", w))
      /\ UNCHANGED <<list, focus, scheduled, freed, tour>>
  BY DEF MenuActs, InHandleEvents
<1>2. w \in Listed \cup Scheduled \cup {NoWindow}
  BY <1>1, TopFacts DEF HeldBy
<1> HIDE DEF w
<1> QED BY <1>1, <1>2, HolderStep

LEMMA AllCallsStep ==
    ASSUME Inv, AllCalls
    PROVE  Inv' /\ FocusStep
<1> DEFINE k == Listed \cup Scheduled
<1> DEFINE fr == HolderFrame("func", Head(Top.rest))
<1>1. /\ frames # <<>> /\ Top.kind = "all" /\ Top.rest # <<>> /\ Top.body = "func"
      /\ frames' = OneDone \/ frames' = Append(OneDone, fr)
      /\ UNCHANGED <<list, focus, scheduled, freed, tour>>
  BY DEF AllCalls, InAll, InHandleEvents
<1>2. Lists' /\ FocusStep /\ Listed' = Listed /\ Scheduled' = Scheduled
  BY <1>1, SameLists
<1>3. /\ Head(Top.rest) \in Listed \cup Scheduled /\ Head(Top.rest) \in Windows
      /\ Shorter.body = "func" /\ Shorter.kind = "all"
  BY <1>1, ShorterFacts
<1>4. /\ StackOK(OneDone, k) /\ OneDone # <<>> /\ OneDone[Len(OneDone)] = Shorter
  <2>1. StackOK(frames, k)
    BY DEF Inv
  <2> HIDE DEF k
  <2> QED BY <1>1, <2>1, OneDoneOK
<1>5. fr \in Frame /\ Shape(fr) /\ HeldBy(fr) = {Head(Top.rest)} /\ fr.kind = "func"
  BY <1>3, HolderFacts
<1>6. StackOK(Append(OneDone, fr), k) /\ Append(OneDone, fr)[Len(Append(OneDone, fr))] = fr
  <2>1. Linked(Shorter, fr) /\ HeldBy(fr) \subseteq k \cup {NoWindow}
    BY <1>3, <1>5 DEF Linked
  <2> HIDE DEF k, fr
  <2>2. StackOK(Append(OneDone, fr), k)
    BY <1>4, <1>5, <2>1, PushOK
  <2>3. OneDone \in Seq(Frame)
    BY <1>4 DEF StackOK
  <2> QED BY <2>2, <2>3, <1>5, AppendFacts
<1> HIDE DEF fr
<1>7. CASE frames' = OneDone
  <2>1. AllListed'
    BY <1>3, <1>4, <1>7 DEF AllListed, Top
  <2> QED BY <2>1, <1>2, <1>4, <1>7 DEF Inv
<1>8. CASE frames' = Append(OneDone, fr)
  <2>1. AllListed'
    BY <1>5, <1>6, <1>8 DEF AllListed, Top
  <2> QED BY <2>1, <1>2, <1>6, <1>8 DEF Inv
<1> QED BY <1>1, <1>7, <1>8

LEMMA ReturnStep ==
    ASSUME Inv, Return
    PROVE  Inv' /\ FocusStep
<1> DEFINE k == Listed \cup Scheduled
<1> DEFINE s == Front(frames)
<1>1. /\ frames # <<>>
      /\ frames' = MenuChecks(s) \/ frames' = s
      /\ UNCHANGED <<list, focus, scheduled, freed, tour>>
  BY DEF Return, InHandleEvents
<1>2. Lists' /\ FocusStep /\ Listed' = Listed /\ Scheduled' = Scheduled
  BY <1>1, SameLists
<1>3. StackOK(frames, k)
  BY DEF Inv
<1>4. /\ StackOK(s, k) /\ Len(s) = Len(frames) - 1
      /\ \A d \in DOMAIN s : d \in DOMAIN frames /\ d < Len(frames) /\ s[d] = frames[d]
  <2> HIDE DEF k
  <2> QED BY <1>1, <1>3, PopOK
<1> HIDE DEF s
<1>5. /\ StackOK(MenuChecks(s), k) /\ Len(MenuChecks(s)) = Len(s)
      /\ \A d \in DOMAIN s : MenuChecks(s)[d].kind = s[d].kind
      /\ \A d \in DOMAIN s : MenuChecks(s)[d].body = s[d].body
  <2> HIDE DEF k
  <2> QED BY <1>4, MenuOK
<1>6. /\ StackOK(frames', k) /\ Len(frames') = Len(s)
      /\ \A d \in DOMAIN s : frames'[d].kind = s[d].kind
      /\ \A d \in DOMAIN s : frames'[d].body = s[d].body
  BY <1>1, <1>4, <1>5
<1>7. ASSUME frames' # <<>>, frames'[Len(frames')].kind = "all"
      PROVE  frames'[Len(frames')].body # "destroy"
  <2> DEFINE d == Len(frames')
  <2>1. d \in DOMAIN s
    BY <1>4, <1>6, <1>7 DEF StackOK
  <2>2. d \in DOMAIN frames /\ d < Len(frames) /\ s[d] = frames[d]
    BY <2>1, <1>4
  <2>3. Linked(frames[d], frames[d + 1])
    BY <2>2, <1>3 DEF StackOK
  <2> QED BY <2>1, <2>2, <2>3, <1>6, <1>7 DEF Linked
<1>8. AllListed'
  BY <1>7 DEF AllListed, Top
<1>9. StackOK(frames, Listed \cup Scheduled)'
  BY <1>2, <1>6
<1> QED BY <1>2, <1>8, <1>9 DEF Inv

LEMMA DestroyScheduledStep ==
    ASSUME Inv, DestroyScheduledWindows
    PROVE  Inv' /\ FocusStep
<1>1. /\ frames = <<>> /\ freed' = freed \cup Scheduled /\ scheduled' = <<>>
      /\ UNCHANGED <<list, focus, frames, tour>>
  BY DEF DestroyScheduledWindows, InHandleEvents
<1>2. DOMAIN <<>> = {} /\ <<>> \in Seq(Windows) /\ <<>> \in Seq(Frame)
  OBVIOUS
<1>3. Scheduled' = {} /\ Listed' = Listed /\ GoodList(scheduled')
  BY <1>1, <1>2 DEF Scheduled, Listed, ToSet, GoodList, IsInjective
<1>4. Lists' /\ FocusStep
  BY <1>1, <1>3, KnownWindows DEF Inv, Lists, FocusStep, Listed
<1>5. StackOK(frames', Listed' \cup Scheduled')
  BY <1>1, <1>2 DEF StackOK
<1>6. AllListed'
  BY <1>1 DEF AllListed
<1> QED BY <1>4, <1>5, <1>6 DEF Inv

-----------------------------------------------------------------------------
(* The theorems *)

LEMMA InitInv == Init => Inv
<1> SUFFICES ASSUME Init PROVE Inv
  OBVIOUS
<1>1. DOMAIN <<>> = {} /\ <<>> \in Seq(Windows) /\ <<>> \in Seq(Frame)
  OBVIOUS
<1>2. GoodList(<<>>) /\ ToSet(<<>>) = {}
  BY <1>1 DEF GoodList, IsInjective, ToSet
<1>3. Lists
  BY <1>2 DEF Init, Lists, Listed, Scheduled
<1>4. StackOK(<<>>, Listed \cup Scheduled)
  BY <1>1 DEF StackOK
<1> QED BY <1>3, <1>4 DEF Init, Inv, AllListed

LEMMA NextStep ==
    ASSUME Inv, [Next]_vars
    PROVE  Inv' /\ FocusStep
<1>1. CASE UNCHANGED vars
  <2>1. UNCHANGED <<list, focus, scheduled, freed, tour>> /\ UNCHANGED frames
    BY <1>1 DEF vars
  <2>2. Lists' /\ FocusStep /\ Listed' = Listed /\ Scheduled' = Scheduled
    BY <2>1, SameLists
  <2>3. StackOK(frames, Listed \cup Scheduled)'
    BY <2>1, <2>2 DEF Inv
  <2>4. AllListed'
    BY <2>1, <2>2 DEF Inv, AllListed, Top, Executing
  <2> QED BY <2>2, <2>3, <2>4 DEF Inv
<1>2. CASE Events
  <2>1. PICK w \in Windows :
          \/ \E grabs \in BOOLEAN : WindowMapped(w, grabs)
          \/ WindowUnmapped(w) \/ WindowDestroyed(w) \/ FocusIn(w) \/ UserFocuses(w)
    BY <1>2 DEF Events
  <2> QED BY <2>1, WindowMappedStep, WindowUnmappedStep, WindowDestroyedStep,
             FocusInStep, UserFocusesStep
<1>3. CASE Commands
  <2>1. CASE \E w \in Windows \cup {NoWindow} :
               \/ Destroy(w) \/ Call(w) \/ OpenMenu(w)
               \/ \E how \in {"command", "flip"} : Focus(w, how)
               \/ \E dir \in {"Next", "Prev"} : CirculateFocus(w, dir) \/ CirculateCalls(w, dir)
    BY <2>1, DestroyStep, CallStep, FocusCommandStep, CirculateFocusStep,
       CirculateCallsStep
  <2> QED BY <2>1, <1>3, WaitStep, AllStep DEF Commands
<1>4. CASE Progress
  BY <1>4, DestroyScheduledStep, AllDestroysStep, AllFocusesStep, AllCallsStep,
     MenuActsStep, ReturnStep DEF Progress
<1> QED BY <1>1, <1>2, <1>3, <1>4 DEF Next

LEMMA InvHolds == Spec => []Inv
<1>1. Inv /\ [Next]_vars => Inv'
  BY NextStep
<1> QED BY <1>1, InitInv, PTL DEF Spec

(* Every variable has its type: the list and the queue of windows that are *)
(* to be freed hold windows, and the stack holds frames.                   *)
THEOREM TypeCorrect == Spec => []TypeOK
<1>1. Inv => TypeOK
  BY DEF Inv, Lists, GoodList, StackOK, TypeOK
<1> QED BY <1>1, InvHolds, PTL

(* A window is listed, scheduled or freed, never two of them, and at one   *)
(* place of its list.                                                      *)
THEOREM PartitionHolds == Spec => []Partition
<1>1. Inv => Partition
  BY DEF Inv, Lists, GoodList, Partition
<1> QED BY <1>1, InvHolds, PTL

(* No function, menu or All holds a pointer to a window that was freed.    *)
THEOREM UseSafeHolds == Spec => []UseSafe
<1>1. Inv => UseSafe
  <2> SUFFICES ASSUME Inv, NEW d \in DOMAIN frames
               PROVE  HeldBy(frames[d]) \cap freed = {}
    BY DEF UseSafe
  <2>1. HeldBy(frames[d]) \subseteq Listed \cup Scheduled \cup {NoWindow}
    BY DEF Inv, StackOK
  <2>2. NoWindow \notin freed /\ freed \cap (Listed \cup Scheduled) = {}
    BY WindowLifeAssumption DEF WindowLifeAssumption, Inv, Lists
  <2> QED BY <2>1, <2>2
<1> QED BY <1>1, InvHolds, PTL

(* When the window with the focus leaves the list it loses the focus in    *)
(* the same step.                                                          *)
THEOREM FocusLeavesHolds == Spec => FocusLeaves
<1>1. Inv /\ [Next]_vars => [FocusStep]_vars
  BY NextStep
<1>2. [FocusStep]_vars <=>
        [focus' \in ToSet(list') \cup {NoWindow} \/ focus' \notin Listed]_vars
  BY DEF FocusStep
<1> QED BY <1>1, <1>2, InvHolds, PTL DEF Spec, FocusLeaves

-----------------------------------------------------------------------------
(* The order of a list *)

Ahead(l, a, b) == \E i, j \in DOMAIN l : i < j /\ l[i] = a /\ l[j] = b

LEMMA AheadFacts ==
    ASSUME NEW l, GoodList(l)
    PROVE  /\ \A a, b : Ahead(l, a, b) => a \in ToSet(l) /\ b \in ToSet(l) /\ ~Ahead(l, b, a)
           /\ \A a, b, c : Ahead(l, a, b) /\ Ahead(l, b, c) => Ahead(l, a, c)
           /\ \A a, b \in ToSet(l) : a # b => Ahead(l, a, b) \/ Ahead(l, b, a)
<1>1. DOMAIN l = 1 .. Len(l) /\ Len(l) \in Nat
  BY DEF GoodList
<1>2. \A i, j \in DOMAIN l : l[i] = l[j] => i = j
  BY DEF GoodList, IsInjective
<1>3. ASSUME NEW a, NEW b, Ahead(l, a, b)
      PROVE  a \in ToSet(l) /\ b \in ToSet(l) /\ ~Ahead(l, b, a)
  <2>1. PICK i, j \in DOMAIN l : i < j /\ l[i] = a /\ l[j] = b
    BY <1>3 DEF Ahead
  <2>2. ASSUME NEW p \in DOMAIN l, NEW q \in DOMAIN l, l[p] = b, l[q] = a PROVE ~(p < q)
    <3>1. p = j /\ q = i
      BY <2>1, <2>2, <1>2
    <3> QED BY <3>1, <2>1, <1>1
  <2> QED BY <2>1, <2>2 DEF Ahead, ToSet
<1>4. ASSUME NEW a, NEW b, NEW c, Ahead(l, a, b), Ahead(l, b, c) PROVE Ahead(l, a, c)
  <2>1. PICK i, j \in DOMAIN l : i < j /\ l[i] = a /\ l[j] = b
    BY <1>4 DEF Ahead
  <2>2. PICK p, q \in DOMAIN l : p < q /\ l[p] = b /\ l[q] = c
    BY <1>4 DEF Ahead
  <2>3. p = j
    BY <2>1, <2>2, <1>2
  <2>4. i < q
    BY <2>1, <2>2, <2>3, <1>1
  <2> QED BY <2>1, <2>2, <2>4 DEF Ahead
<1>5. ASSUME NEW a \in ToSet(l), NEW b \in ToSet(l), a # b
      PROVE  Ahead(l, a, b) \/ Ahead(l, b, a)
  <2>1. PICK i, j \in DOMAIN l : l[i] = a /\ l[j] = b
    BY DEF ToSet
  <2>2. i < j \/ j < i
    BY <2>1, <1>5, <1>1
  <2> QED BY <2>1, <2>2 DEF Ahead
<1> QED BY <1>3, <1>4, <1>5

LEMMA ConcatAhead ==
    ASSUME NEW S, NEW s \in Seq(S), NEW t \in Seq(S), NEW a, NEW b
    PROVE  Ahead(s \o t, a, b) <=> \/ Ahead(s, a, b) \/ Ahead(t, a, b)
                                   \/ a \in ToSet(s) /\ b \in ToSet(t)
<1> DEFINE u == s \o t
<1>1. /\ DOMAIN s = 1 .. Len(s) /\ DOMAIN t = 1 .. Len(t)
      /\ Len(s) \in Nat /\ Len(t) \in Nat
  OBVIOUS
<1>2. /\ DOMAIN u = 1 .. Len(s) + Len(t)
      /\ \A i \in 1 .. Len(s) + Len(t) :
            u[i] = IF i <= Len(s) THEN s[i] ELSE t[i - Len(s)]
  OBVIOUS
<1> HIDE DEF u
<1>3. \A i \in DOMAIN s : i \in DOMAIN u /\ u[i] = s[i] /\ i <= Len(s)
  BY <1>1, <1>2
<1>4. ASSUME NEW i \in DOMAIN t
      PROVE  Len(s) + i \in DOMAIN u /\ u[Len(s) + i] = t[i]
  <2>1. Len(s) + i \in 1 .. Len(s) + Len(t) /\ ~(Len(s) + i <= Len(s)) /\ (Len(s) + i) - Len(s) = i
    BY <1>1
  <2> QED BY <2>1, <1>2
<1>5. ASSUME NEW i \in DOMAIN u, ~(i <= Len(s))
      PROVE  i - Len(s) \in DOMAIN t /\ u[i] = t[i - Len(s)]
  <2>1. i - Len(s) \in 1 .. Len(t)
    BY <1>1, <1>2, <1>5
  <2> QED BY <2>1, <1>1, <1>2, <1>5
<1>6. ASSUME NEW i \in DOMAIN u, i <= Len(s) PROVE i \in DOMAIN s /\ u[i] = s[i]
  BY <1>1, <1>2, <1>6
<1>7. ASSUME Ahead(u, a, b)
      PROVE  Ahead(s, a, b) \/ Ahead(t, a, b) \/ (a \in ToSet(s) /\ b \in ToSet(t))
  <2>1. PICK i, j \in DOMAIN u : i < j /\ u[i] = a /\ u[j] = b
    BY <1>7 DEF Ahead
  <2>2. CASE j <= Len(s)
    <3>1. i <= Len(s)
      BY <2>1, <2>2, <1>1, <1>2
    <3> QED BY <2>1, <2>2, <3>1, <1>6 DEF Ahead
  <2>3. CASE i <= Len(s) /\ ~(j <= Len(s))
    BY <2>1, <2>3, <1>5, <1>6 DEF ToSet
  <2>4. CASE ~(i <= Len(s)) /\ ~(j <= Len(s))
    <3>1. i - Len(s) < j - Len(s)
      BY <2>1, <1>1, <1>2
    <3> QED BY <2>1, <2>4, <3>1, <1>5 DEF Ahead
  <2> QED BY <2>2, <2>3, <2>4
<1>8. ASSUME Ahead(s, a, b) PROVE Ahead(u, a, b)
  BY <1>8, <1>3 DEF Ahead
<1>9. ASSUME Ahead(t, a, b) PROVE Ahead(u, a, b)
  <2>1. PICK i, j \in DOMAIN t : i < j /\ t[i] = a /\ t[j] = b
    BY <1>9 DEF Ahead
  <2>2. Len(s) + i < Len(s) + j
    BY <2>1, <1>1
  <2> QED BY <2>1, <2>2, <1>4 DEF Ahead
<1>10. ASSUME a \in ToSet(s), b \in ToSet(t) PROVE Ahead(u, a, b)
  <2>1. PICK i \in DOMAIN s, j \in DOMAIN t : s[i] = a /\ t[j] = b
    BY <1>10 DEF ToSet
  <2>2. i < Len(s) + j
    BY <2>1, <1>1
  <2> QED BY <2>1, <2>2, <1>3, <1>4 DEF Ahead
<1> QED BY <1>7, <1>8, <1>9, <1>10 DEF u

(* The two parts of a list, before and behind w *)
LEMMA PartsAhead ==
    ASSUME NEW l, GoodList(l), NEW w \in ToSet(l)
    PROVE  /\ \A a : a \in ToSet(Upto(l, w)) <=> Ahead(l, a, w)
           /\ \A a : a \in ToSet(After(l, w)) <=> Ahead(l, w, a)
           /\ \A a, b : Ahead(Upto(l, w), a, b) <=> Ahead(l, a, b) /\ Ahead(l, b, w)
           /\ \A a, b : Ahead(After(l, w), a, b) <=> Ahead(l, w, a) /\ Ahead(l, a, b)
<1> DEFINE n == Place(l, w)
<1> DEFINE u == Upto(l, w)
<1> DEFINE v == After(l, w)
<1>1. DOMAIN l = 1 .. Len(l) /\ Len(l) \in Nat /\ l \in Seq(Windows) /\ IsInjective(l)
  BY DEF GoodList
<1>2. n \in 1 .. Len(l) /\ l[n] = w
  <2>1. \E i \in DOMAIN l : l[i] = w
    BY DEF ToSet
  <2> QED BY <2>1, <1>1 DEF Place
<1>3. u = SubSeq(l, 1, n - 1) /\ v = SubSeq(l, n + 1, Len(l))
  BY DEF Upto, After
<1> HIDE DEF n, u, v
<1>4. DOMAIN u = 1 .. n - 1 /\ \A d \in 1 .. n - 1 : u[d] = l[d]
  <2>1. Len(u) = n - 1 /\ DOMAIN u = 1 .. Len(u) /\ \A d \in 1 .. n - 1 : u[d] = l[d]
    BY <1>1, <1>2, <1>3
  <2> QED BY <2>1
<1>5. DOMAIN v = 1 .. Len(l) - n /\ \A d \in 1 .. Len(l) - n : v[d] = l[n + d]
  <2>1. \A i \in n + 1 .. Len(l) : l[i] \in Windows
    BY <1>1, <1>2
  <2>2. /\ v \in Seq(Windows)
        /\ Len(v) = IF n + 1 <= Len(l) THEN Len(l) - (n + 1) + 1 ELSE 0
        /\ \A i \in 1 .. Len(l) - (n + 1) + 1 : v[i] = l[(n + 1) + i - 1]
    BY <2>1, <1>1, <1>2, <1>3, SubSeqProperties
  <2>3. Len(l) - (n + 1) + 1 = Len(l) - n /\ (~(n + 1 <= Len(l)) => Len(l) - n = 0)
    <3>1. n \in 1 .. Len(l) /\ Len(l) \in Nat
      BY <1>1, <1>2
    <3> QED BY <3>1
  <2>4. Len(v) = Len(l) - n
    BY <2>2, <2>3
  <2>5. \A d \in 1 .. Len(l) - n : (n + 1) + d - 1 = n + d
    BY <1>1, <1>2
  <2> QED BY <2>2, <2>3, <2>4, <2>5
<1>6. \A i, j \in DOMAIN l : l[i] = l[j] => i = j
  BY <1>1 DEF IsInjective
<1>7. \A i \in DOMAIN l : i < n => i \in DOMAIN u /\ u[i] = l[i]
  BY <1>1, <1>2, <1>4
<1>8. \A i \in DOMAIN u : i \in DOMAIN l /\ i < n /\ u[i] = l[i]
  BY <1>1, <1>2, <1>4
<1>9. ASSUME NEW i \in DOMAIN l, n < i PROVE i - n \in DOMAIN v /\ v[i - n] = l[i]
  <2>1. i - n \in 1 .. Len(l) - n /\ n + (i - n) = i
    BY <1>1, <1>2, <1>9
  <2> QED BY <2>1, <1>5
<1>10. \A i \in DOMAIN v : n + i \in DOMAIN l /\ n < n + i /\ v[i] = l[n + i]
  BY <1>1, <1>2, <1>5
<1>11. ASSUME NEW a PROVE a \in ToSet(u) <=> Ahead(l, a, w)
  <2>1. ASSUME a \in ToSet(u) PROVE Ahead(l, a, w)
    BY <2>1, <1>8, <1>1, <1>2 DEF ToSet, Ahead
  <2>2. ASSUME Ahead(l, a, w) PROVE a \in ToSet(u)
    <3>1. PICK i, j \in DOMAIN l : i < j /\ l[i] = a /\ l[j] = w
      BY <2>2 DEF Ahead
    <3>2. j = n
      BY <3>1, <1>1, <1>2, <1>6
    <3> QED BY <3>1, <3>2, <1>7 DEF ToSet
  <2> QED BY <2>1, <2>2
<1>12. ASSUME NEW a PROVE a \in ToSet(v) <=> Ahead(l, w, a)
  <2>1. ASSUME a \in ToSet(v) PROVE Ahead(l, w, a)
    BY <2>1, <1>10, <1>1, <1>2 DEF ToSet, Ahead
  <2>2. ASSUME Ahead(l, w, a) PROVE a \in ToSet(v)
    <3>1. PICK i, j \in DOMAIN l : i < j /\ l[i] = w /\ l[j] = a
      BY <2>2 DEF Ahead
    <3>2. i = n
      BY <3>1, <1>1, <1>2, <1>6
    <3> QED BY <3>1, <3>2, <1>9 DEF ToSet
  <2> QED BY <2>1, <2>2
<1>13. ASSUME NEW a, NEW b PROVE Ahead(u, a, b) <=> Ahead(l, a, b) /\ Ahead(l, b, w)
  <2>1. ASSUME Ahead(u, a, b) PROVE Ahead(l, a, b) /\ Ahead(l, b, w)
    BY <2>1, <1>8, <1>1, <1>2 DEF Ahead
  <2>2. ASSUME Ahead(l, a, b), Ahead(l, b, w) PROVE Ahead(u, a, b)
    <3>1. PICK i, j \in DOMAIN l : i < j /\ l[i] = a /\ l[j] = b
      BY <2>2 DEF Ahead
    <3>2. PICK p, q \in DOMAIN l : p < q /\ l[p] = b /\ l[q] = w
      BY <2>2 DEF Ahead
    <3>3. q = n /\ p = j
      BY <3>1, <3>2, <1>1, <1>2, <1>6
    <3>4. i < n /\ j < n
      BY <3>1, <3>2, <3>3, <1>1, <1>2
    <3> QED BY <3>1, <3>4, <1>7 DEF Ahead
  <2> QED BY <2>1, <2>2
<1>14. ASSUME NEW a, NEW b PROVE Ahead(v, a, b) <=> Ahead(l, w, a) /\ Ahead(l, a, b)
  <2>1. ASSUME Ahead(v, a, b) PROVE Ahead(l, w, a) /\ Ahead(l, a, b)
    <3>1. PICK i, j \in DOMAIN v : i < j /\ v[i] = a /\ v[j] = b
      BY <2>1 DEF Ahead
    <3>2. n + i < n + j
      BY <3>1, <1>1, <1>2, <1>5
    <3> QED BY <3>1, <3>2, <1>10, <1>1, <1>2 DEF Ahead
  <2>2. ASSUME Ahead(l, w, a), Ahead(l, a, b) PROVE Ahead(v, a, b)
    <3>1. PICK i, j \in DOMAIN l : i < j /\ l[i] = a /\ l[j] = b
      BY <2>2 DEF Ahead
    <3>2. PICK p, q \in DOMAIN l : p < q /\ l[p] = w /\ l[q] = a
      BY <2>2 DEF Ahead
    <3>3. p = n /\ q = i
      BY <3>1, <3>2, <1>1, <1>2, <1>6
    <3>4. n < i /\ n < j /\ i - n < j - n
      BY <3>1, <3>2, <3>3, <1>1, <1>2
    <3> QED BY <3>1, <3>4, <1>9 DEF Ahead
  <2> QED BY <2>1, <2>2
<1> QED BY <1>11, <1>12, <1>13, <1>14 DEF u, v

LEMMA SingleAhead == ASSUME NEW w, NEW a, NEW b PROVE ~Ahead(<<w>>, a, b)
<1>1. DOMAIN <<w>> = {1}
  OBVIOUS
<1> QED BY <1>1 DEF Ahead

LEMMA WithoutAhead ==
    ASSUME NEW l, GoodList(l), NEW w, NEW a, NEW b, Ahead(Without(l, w), a, b)
    PROVE  Ahead(l, a, b)
<1>1. CASE w \in ToSet(l)
  <2> DEFINE u == Upto(l, w)
  <2> DEFINE v == After(l, w)
  <2>1. u \in Seq(Windows) /\ v \in Seq(Windows) /\ Without(l, w) = u \o v
    BY <1>1, PartsFacts DEF GoodList, Without
  <2>2. /\ \A c : c \in ToSet(u) <=> Ahead(l, c, w)
        /\ \A c : c \in ToSet(v) <=> Ahead(l, w, c)
        /\ \A c, d : Ahead(u, c, d) => Ahead(l, c, d)
        /\ \A c, d : Ahead(v, c, d) => Ahead(l, c, d)
    BY <1>1, PartsAhead
  <2> HIDE DEF u, v
  <2>3. Ahead(u, a, b) \/ Ahead(v, a, b) \/ (a \in ToSet(u) /\ b \in ToSet(v))
    BY <2>1, ConcatAhead
  <2> QED BY <2>2, <2>3, AheadFacts
<1>2. CASE w \notin ToSet(l)
  BY <1>2 DEF Without
<1> QED BY <1>1, <1>2

LEMMA RotatedAhead ==
    ASSUME NEW l, GoodList(l), NEW w \in ToSet(l), NEW a, NEW b
    PROVE  Ahead(Rotated(l, w), a, b) <=>
              \/ a = w /\ b \in ToSet(l) \ {w}
              \/ Ahead(l, a, b) /\ (Ahead(l, w, a) \/ Ahead(l, b, w))
              \/ Ahead(l, w, a) /\ Ahead(l, b, w)
<1> DEFINE u == Upto(l, w)
<1> DEFINE v == After(l, w)
<1> DEFINE s == <<w>>
<1> DEFINE sv == s \o v
<1>1. /\ u \in Seq(Windows) /\ v \in Seq(Windows) /\ w \in Windows
      /\ ToSet(l) = ToSet(u) \cup ToSet(v) \cup {w} /\ w \notin ToSet(u) /\ w \notin ToSet(v)
  BY PartsFacts, ToSetInSeq DEF GoodList
<1>2. s \in Seq(Windows) /\ ToSet(s) = {w} /\ ~Ahead(s, a, b)
  BY <1>1, EmptyAndSingle, SingleAhead
<1>3. Rotated(l, w) = sv \o u
  BY DEF Rotated
<1>4. /\ \A c : c \in ToSet(u) <=> Ahead(l, c, w)
      /\ \A c : c \in ToSet(v) <=> Ahead(l, w, c)
      /\ Ahead(u, a, b) <=> Ahead(l, a, b) /\ Ahead(l, b, w)
      /\ Ahead(v, a, b) <=> Ahead(l, w, a) /\ Ahead(l, a, b)
  BY PartsAhead
<1> HIDE DEF u, v, s
<1>5. /\ sv \in Seq(Windows) /\ ToSet(sv) = {w} \cup ToSet(v)
      /\ Ahead(sv, a, b) <=> Ahead(v, a, b) \/ (a = w /\ b \in ToSet(v))
  BY <1>1, <1>2, ConcatSet, ConcatAhead
<1> HIDE DEF sv
<1>6. Ahead(Rotated(l, w), a, b) <=> \/ Ahead(sv, a, b) \/ Ahead(u, a, b)
                                     \/ a \in ToSet(sv) /\ b \in ToSet(u)
  BY <1>1, <1>3, <1>5, ConcatAhead
<1> QED BY <1>1, <1>4, <1>5, <1>6

LEMMA AppendAhead ==
    ASSUME NEW l, GoodList(l), NEW w \in Windows, NEW a, NEW b
    PROVE  Ahead(Append(l, w), a, b) <=> Ahead(l, a, b) \/ (a \in ToSet(l) /\ b = w)
<1> DEFINE s == <<w>>
<1>1. s \in Seq(Windows) /\ ToSet(s) = {w} /\ ~Ahead(s, a, b)
  BY EmptyAndSingle, SingleAhead
<1>2. Append(l, w) = l \o s /\ l \in Seq(Windows)
  BY DEF GoodList
<1> HIDE DEF s
<1> QED BY <1>1, <1>2, ConcatAhead

LEMMA ToFrontAhead ==
    ASSUME NEW l, GoodList(l), NEW w \in Windows, NEW a, NEW b, Ahead(ToFront(l, w), a, b)
    PROVE  b # w /\ (a = w \/ Ahead(l, a, b))
<1> DEFINE s == <<w>>
<1> DEFINE t == Without(l, w)
<1>1. s \in Seq(Windows) /\ ToSet(s) = {w} /\ ~Ahead(s, a, b)
  BY EmptyAndSingle, SingleAhead
<1>2. GoodList(t) /\ t \in Seq(Windows) /\ ToSet(t) = ToSet(l) \ {w} /\ ToFront(l, w) = s \o t
  BY WithoutFacts DEF ToFront, GoodList
<1>3. Ahead(t, a, b) => Ahead(l, a, b)
  BY WithoutAhead
<1> HIDE DEF s, t
<1>4. Ahead(t, a, b) \/ (a = w /\ b \in ToSet(t))
  BY <1>1, <1>2, ConcatAhead
<1> QED BY <1>2, <1>3, <1>4, AheadFacts

-----------------------------------------------------------------------------
(* The window that Next finds *)

IsFirst(s, ws, x) ==
    \E i \in DOMAIN s : s[i] = x /\ x \in ws /\ \A j \in 1 .. i - 1 : s[j] \notin ws

LEMMA FirstInIsFirst ==
    ASSUME NEW s \in Seq(Windows), NEW ws, FirstIn(s, ws) # NoWindow
    PROVE  IsFirst(s, ws, FirstIn(s, ws))
<1>1. \E i \in DOMAIN s : s[i] \in ws
  BY DEF FirstIn
<1> DEFINE T == {i \in DOMAIN s : s[i] \in ws}
<1>2. DOMAIN s = 1 .. Len(s) /\ Len(s) \in Nat
  OBVIOUS
<1>3. T \subseteq Nat /\ T # {}
  BY <1>1, <1>2
<1>4. PICK n \in T : \A k \in T : n <= k
  <2> HIDE DEF T
  <2> QED BY <1>3, LeastNat
<1>5. ASSUME NEW j \in 1 .. n - 1 PROVE s[j] \notin ws
  <2>1. n \in 1 .. Len(s)
    BY <1>2
  <2>2. j \in DOMAIN s /\ ~(n <= j)
    BY <1>2, <2>1
  <2> QED BY <1>4, <2>2
<1>6. \E i \in DOMAIN s : s[i] \in ws /\ \A j \in 1 .. i - 1 : s[j] \notin ws
  BY <1>5
<1> DEFINE m == CHOOSE i \in DOMAIN s : s[i] \in ws /\ \A j \in 1 .. i - 1 : s[j] \notin ws
<1>7. m \in DOMAIN s /\ s[m] \in ws /\ \A j \in 1 .. m - 1 : s[j] \notin ws
  BY <1>6
<1>8. FirstIn(s, ws) = s[m]
  BY <1>1 DEF FirstIn
<1> HIDE DEF m
<1> QED BY <1>7, <1>8 DEF IsFirst

LEMMA FirstOfTwo ==
    ASSUME NEW s \in Seq(Windows), NEW t \in Seq(Windows), NEW ws, NEW x,
           IsFirst(s \o t, ws, x)
    PROVE  \/ IsFirst(s, ws, x)
           \/ ToSet(s) \cap ws = {} /\ IsFirst(t, ws, x)
<1> DEFINE u == s \o t
<1>1. /\ DOMAIN s = 1 .. Len(s) /\ DOMAIN t = 1 .. Len(t)
      /\ Len(s) \in Nat /\ Len(t) \in Nat
  OBVIOUS
<1>2. /\ DOMAIN u = 1 .. Len(s) + Len(t)
      /\ \A i \in 1 .. Len(s) + Len(t) :
            u[i] = IF i <= Len(s) THEN s[i] ELSE t[i - Len(s)]
  OBVIOUS
<1>3. PICK i \in DOMAIN u : u[i] = x /\ x \in ws /\ \A j \in 1 .. i - 1 : u[j] \notin ws
  BY DEF IsFirst
<1> HIDE DEF u
<1>4. CASE i <= Len(s)
  <2>1. i \in DOMAIN s /\ s[i] = x
    BY <1>1, <1>2, <1>3, <1>4
  <2>2. \A j \in 1 .. i - 1 : u[j] = s[j]
    BY <1>1, <1>2, <1>4
  <2> QED BY <2>1, <2>2, <1>3 DEF IsFirst
<1>5. CASE ~(i <= Len(s))
  <2>1. i - Len(s) \in DOMAIN t /\ t[i - Len(s)] = x
    BY <1>1, <1>2, <1>3, <1>5
  <2>2. ASSUME NEW j \in DOMAIN s PROVE s[j] \notin ws
    <3>1. j \in 1 .. i - 1 /\ u[j] = s[j]
      BY <1>1, <1>2, <1>5
    <3> QED BY <3>1, <1>3
  <2>3. ASSUME NEW j \in 1 .. (i - Len(s)) - 1 PROVE t[j] \notin ws
    <3>1. /\ Len(s) + j \in 1 .. i - 1 /\ Len(s) + j \in DOMAIN u /\ ~(Len(s) + j <= Len(s))
          /\ (Len(s) + j) - Len(s) = j
      BY <1>1, <1>2, <1>5
    <3>2. u[Len(s) + j] = t[j]
      BY <3>1, <1>2
    <3> QED BY <3>1, <3>2, <1>3
  <2> QED BY <2>1, <2>2, <2>3, <1>3 DEF IsFirst, ToSet
<1> QED BY <1>4, <1>5

LEMMA FirstBackwards ==
    ASSUME NEW s, GoodList(s), NEW r, r = Reverse(s),
           NEW ws, NEW x, IsFirst(r, ws, x)
    PROVE  x \in ToSet(s) /\ x \in ws /\ \A a : Ahead(s, x, a) => a \notin ws
<1>1. DOMAIN s = 1 .. Len(s) /\ Len(s) \in Nat
  BY DEF GoodList
<1>2. Reverse(s) = [i \in 1 .. Len(s) |-> s[(Len(s) - i) + 1]]
  BY DEF Reverse
<1>3. DOMAIN r = 1 .. Len(s) /\ \A i \in 1 .. Len(s) : r[i] = s[(Len(s) - i) + 1]
  BY <1>2
<1>4. PICK i \in DOMAIN r : r[i] = x /\ x \in ws /\ \A j \in 1 .. i - 1 : r[j] \notin ws
  BY DEF IsFirst
<1> DEFINE n == (Len(s) - i) + 1
<1>5. n \in DOMAIN s /\ s[n] = x
  BY <1>1, <1>3, <1>4
<1>6. ASSUME NEW a, Ahead(s, x, a) PROVE a \notin ws
  <2>1. PICK p, q \in DOMAIN s : p < q /\ s[p] = x /\ s[q] = a
    BY <1>6 DEF Ahead
  <2>2. p = n
    <3> HIDE DEF n
    <3> QED BY <2>1, <1>5 DEF GoodList, IsInjective
  <2> DEFINE j == (Len(s) - q) + 1
  <2>3. j \in 1 .. i - 1 /\ j \in 1 .. Len(s) /\ (Len(s) - j) + 1 = q
    <3>1. Len(s) \in Nat /\ i \in 1 .. Len(s) /\ q \in 1 .. Len(s) /\ (Len(s) - i) + 1 < q
      BY <2>1, <2>2, <1>1, <1>3
    <3> QED BY <3>1
  <2>4. r[j] = a
    <3> HIDE DEF j
    <3> QED BY <2>1, <2>3, <1>3
  <2> HIDE DEF j
  <2> QED BY <2>3, <2>4, <1>4
<1> QED BY <1>4, <1>5, <1>6 DEF ToSet

(* Between the window with the focus and the one that Next finds, backwards *)
(* and around the end of the list, there are only windows that are skipped. *)
LEMMA NextFound ==
    ASSUME GoodList(list), NEW f \in Listed, NEW x, x # NoWindow,
           x = FirstIn(Order(list, f, "Next"), Windows \ Skips)
    PROVE  /\ x \in Listed \ Skips
           /\ Ahead(list, x, f) =>
                 \A a : Ahead(list, x, a) /\ Ahead(list, a, f) => a \in Skips
           /\ ~Ahead(list, x, f) =>
                 \A a : Ahead(list, a, f) \/ Ahead(list, x, a) => a \in Skips
<1> DEFINE u == Upto(list, f)
<1> DEFINE ru == Reverse(u)
<1> DEFINE rl == Reverse(list)
<1> DEFINE ws == Windows \ Skips
<1>1. /\ list \in Seq(Windows) /\ IsInjective(list) /\ f \in ToSet(list)
      /\ u \in Seq(Windows) /\ GoodList(u) /\ ToSet(u) \subseteq ToSet(list)
  BY PartsFacts DEF GoodList, Listed
<1>2. /\ \A a : a \in ToSet(u) <=> Ahead(list, a, f)
      /\ \A a, b : Ahead(u, a, b) <=> Ahead(list, a, b) /\ Ahead(list, b, f)
  BY <1>1, PartsAhead
<1>3. Order(list, f, "Next") = ru \o rl
  BY <1>1 DEF Order
<1> HIDE DEF u
<1>4. ru \in Seq(Windows) /\ rl \in Seq(Windows)
      /\ ToSet(ru) \subseteq ToSet(u)
  BY <1>1, ReverseFacts
<1>5. IsFirst(ru \o rl, ws, x)
  <2> DEFINE o == ru \o rl
  <2>1. o \in Seq(Windows)
    BY <1>4, ConcatSet
  <2>2. x = FirstIn(o, ws)
    BY <1>3
  <2> HIDE DEF o, ws
  <2>3. IsFirst(o, ws, x)
    BY <2>1, <2>2, FirstInIsFirst
  <2> QED BY <2>3 DEF o
<1>6. IsFirst(ru, ws, x) \/ (ToSet(ru) \cap ws = {} /\ IsFirst(rl, ws, x))
  <2> HIDE DEF ru, rl, ws
  <2> QED BY <1>4, <1>5, FirstOfTwo
<1>7. ToSet(list) \subseteq Windows
  BY <1>1, ToSetInSeq
<1>8. CASE IsFirst(ru, ws, x)
  <2>1. x \in ToSet(u) /\ x \in ws /\ \A a : Ahead(u, x, a) => a \notin ws
    <3>1. ru = Reverse(u)
      OBVIOUS
    <3>2. GoodList(u)
      BY <1>1
    <3> HIDE DEF ws, ru
    <3> QED BY <3>1, <3>2, <1>8, FirstBackwards
  <2>2. \A a : Ahead(list, x, a) /\ Ahead(list, a, f) => a \in ToSet(list)
    BY AheadFacts
  <2> QED BY <1>1, <1>2, <1>7, <2>1, <2>2 DEF Listed
<1>9. CASE ~IsFirst(ru, ws, x) /\ ToSet(ru) \cap ws = {} /\ IsFirst(rl, ws, x)
  <2>1. x \in ToSet(list) /\ x \in ws /\ \A a : Ahead(list, x, a) => a \notin ws
    <3>1. rl = Reverse(list)
      OBVIOUS
    <3>2. IsFirst(rl, ws, x)
      BY <1>9
    <3> HIDE DEF ws, ru, rl
    <3> QED BY <3>1, <3>2, FirstBackwards
  <2>2. ToSet(u) \subseteq ToSet(ru)
    <3>1. ASSUME NEW i \in DOMAIN u PROVE u[i] \in ToSet(ru)
      <4>1. DOMAIN u = 1 .. Len(u) /\ Len(u) \in Nat
        BY <1>1
      <4>2. ru = [k \in 1 .. Len(u) |-> u[(Len(u) - k) + 1]]
        BY DEF Reverse
      <4>3. (Len(u) - i) + 1 \in 1 .. Len(u) /\ (Len(u) - ((Len(u) - i) + 1)) + 1 = i
        BY <4>1
      <4> HIDE DEF ru
      <4>4. (Len(u) - i) + 1 \in DOMAIN ru /\ ru[(Len(u) - i) + 1] = u[i]
        BY <4>2, <4>3
      <4> QED BY <4>4 DEF ToSet
    <3> QED BY <3>1 DEF ToSet
  <2>3. \A a : Ahead(list, a, f) \/ Ahead(list, x, a) => a \in Windows /\ a \notin ws
    <3>1. \A a : Ahead(list, a, f) => a \in ToSet(u) /\ a \in Windows /\ a \notin ws
      BY <1>2, <1>7, <1>9, <2>2, AheadFacts
    <3>2. \A a : Ahead(list, x, a) => a \in Windows /\ a \notin ws
      BY <1>7, <2>1, AheadFacts
    <3> QED BY <3>1, <3>2
  <2>4. ~Ahead(list, x, f)
    BY <1>2, <1>9, <2>1, <2>2
  <2> QED BY <2>1, <2>3, <2>4 DEF Listed
<1> QED BY <1>6, <1>8, <1>9

-----------------------------------------------------------------------------
(* A tour.  Going backwards from the window with the focus, and around the  *)
(* end of the list, all windows that were not visited come before those    *)
(* that were, but for the windows that are skipped.                        *)

TourGood(l, f, t) ==
    t # {} => /\ f \in ToSet(l) \cap t
              /\ \A a : Ahead(l, a, f) => a \notin t
              /\ \A a, b : Ahead(l, f, a) /\ Ahead(l, a, b) /\ b \in t => a \in t \cup Skips

Known == Listed \cup Scheduled \cup freed

TourInv ==
    /\ TourGood(list, focus, tour)
    /\ tour \subseteq Known /\ focus \in Known \cup {NoWindow}

TourStep ==
    focus' # focus /\ focus' \in tour /\ tour' # {} => Listed \ (Skips \cup Refuses) \subseteq tour

LEMMA TourSame ==
    ASSUME NEW l, NEW f, NEW t, TourGood(l, f, t)
    PROVE  TourGood(l, f, t \cap ToSet(l))
<1> SUFFICES ASSUME t \cap ToSet(l) # {} PROVE TourGood(l, f, t \cap ToSet(l))
  BY DEF TourGood
<1>1. \A a, b : Ahead(l, a, b) => a \in ToSet(l)
  BY DEF Ahead, ToSet
<1> QED BY <1>1 DEF TourGood

LEMMA TourWithout ==
    ASSUME NEW l, GoodList(l), NEW f, NEW t, TourGood(l, f, t), NEW w \in Windows \ {f}
    PROVE  TourGood(Without(l, w), f, t \cap ToSet(Without(l, w)))
<1> DEFINE m == Without(l, w)
<1>1. GoodList(m) /\ ToSet(m) = ToSet(l) \ {w}
  BY WithoutFacts
<1>2. \A a, b : Ahead(m, a, b) => Ahead(l, a, b)
  BY WithoutAhead
<1> HIDE DEF m
<1>3. \A a, b : Ahead(m, a, b) => a \in ToSet(m)
  BY <1>1, AheadFacts
<1> SUFFICES TourGood(m, f, t \cap ToSet(m))
  BY DEF m
<1> QED BY <1>1, <1>2, <1>3 DEF TourGood

LEMMA TourAppend ==
    ASSUME NEW l, GoodList(l), NEW f, NEW t, TourGood(l, f, t),
           NEW w \in Windows, w \notin ToSet(l), w \notin t
    PROVE  TourGood(Append(l, w), f, t)
<1> DEFINE m == Append(l, w)
<1>1. GoodList(m) /\ ToSet(m) = ToSet(l) \cup {w}
  BY AppendGood
<1>2. \A a, b : Ahead(m, a, b) <=> Ahead(l, a, b) \/ (a \in ToSet(l) /\ b = w)
  BY AppendAhead
<1> HIDE DEF m
<1> SUFFICES ASSUME t # {} PROVE TourGood(m, f, t)
  BY DEF m, TourGood
<1>3. f \in ToSet(l) /\ f \in t /\ f # w
  BY DEF TourGood
<1>4. \A a : Ahead(m, a, f) => a \notin t
  BY <1>2, <1>3 DEF TourGood
<1>5. ASSUME NEW a, NEW b, Ahead(m, f, a), Ahead(m, a, b), b \in t PROVE a \in t \cup Skips
  <2>1. Ahead(l, a, b)
    BY <1>2, <1>5
  <2>2. a # w
    BY <2>1, AheadFacts
  <2>3. Ahead(l, f, a)
    BY <2>2, <1>2, <1>5
  <2> QED BY <2>1, <2>3, <1>5 DEF TourGood
<1> QED BY <1>1, <1>3, <1>4, <1>5 DEF TourGood

(* A window that was not visited may come to the front. *)
LEMMA TourMoved ==
    ASSUME NEW l, NEW f, NEW t, TourGood(l, f, t), NEW w, w \notin t,
           NEW m, ToSet(m) = ToSet(l),
           \A a, b : Ahead(m, a, b) => b # w /\ (a = w \/ Ahead(l, a, b))
    PROVE  TourGood(m, f, t)
<1> SUFFICES ASSUME t # {} PROVE TourGood(m, f, t)
  BY DEF TourGood
<1>1. f \in ToSet(m) /\ f \in t /\ f # w
  BY DEF TourGood
<1>2. \A a : Ahead(m, a, f) => a \notin t
  BY DEF TourGood
<1>3. ASSUME NEW a, NEW b, Ahead(m, f, a), Ahead(m, a, b), b \in t PROVE a \in t \cup Skips
  <2>1. Ahead(l, f, a) /\ Ahead(l, a, b)
    BY <1>1, <1>3
  <2> QED BY <2>1, <1>3 DEF TourGood
<1> QED BY <1>1, <1>2, <1>3 DEF TourGood

(* x is the window that Next finds if f has the focus. *)
Found(l, f, x) ==
    /\ x \in ToSet(l) \ Skips
    /\ f \in ToSet(l) =>
          /\ Ahead(l, x, f) => \A a : Ahead(l, x, a) /\ Ahead(l, a, f) => a \in Skips
          /\ ~Ahead(l, x, f) => \A a : Ahead(l, a, f) \/ Ahead(l, x, a) => a \in Skips

LEMMA TourNext ==
    ASSUME NEW l, GoodList(l), NEW f, NEW t, TourGood(l, f, t),
           NEW x, x # f, Found(l, f, x)
    PROVE  /\ TourGood(Rotated(l, x), x, {x})
           /\ x \notin t => TourGood(Rotated(l, x), x, t \cup ({f, x} \ {NoWindow}))
           /\ x \in t => ToSet(l) \ Skips \subseteq t
<1> DEFINE r == Rotated(l, x)
<1>1. x \in ToSet(l) /\ x \in Windows /\ x # NoWindow
  BY ToSetInSeq, WindowLifeAssumption DEF Found, GoodList, WindowLifeAssumption
<1>2. GoodList(r) /\ ToSet(r) = ToSet(l)
  BY <1>1, RotatedFacts
<1>3. \A a, b : Ahead(r, a, b) <=>
              \/ a = x /\ b \in ToSet(l) \ {x}
              \/ Ahead(l, a, b) /\ (Ahead(l, x, a) \/ Ahead(l, b, x))
              \/ Ahead(l, x, a) /\ Ahead(l, b, x)
  BY <1>1, RotatedAhead
<1> HIDE DEF r
<1>4. /\ \A a, b : Ahead(l, a, b) => a \in ToSet(l) /\ b \in ToSet(l) /\ a # b /\ ~Ahead(l, b, a)
      /\ \A a, b, c : Ahead(l, a, b) /\ Ahead(l, b, c) => Ahead(l, a, c)
      /\ \A a, b \in ToSet(l) : a # b => Ahead(l, a, b) \/ Ahead(l, b, a)
  BY AheadFacts
<1>5. \A a : ~Ahead(r, a, x)
  BY <1>3, <1>4
<1>6. TourGood(r, x, {x})
  BY <1>1, <1>2, <1>5 DEF TourGood
<1>7. ASSUME x \notin t PROVE TourGood(r, x, t \cup ({f, x} \ {NoWindow}))
  <2>1. ASSUME NEW a, NEW b, Ahead(r, x, a), Ahead(r, a, b), b \in t \cup {f, x}, a # f
        PROVE  a \in t \cup Skips
    <3>1. b # x /\ a # x
      BY <2>1, <1>5
    <3>2. b \in ToSet(l) /\ a \in ToSet(l)
      BY <2>1, <1>2, AheadFacts
    <3>3. f \in ToSet(l)
      BY <2>1, <3>1, <3>2 DEF TourGood
    <3>4. b = f \/ Ahead(l, f, b)
      BY <2>1, <3>1, <3>2, <3>3, <1>4 DEF TourGood
    <3>5. ASSUME Ahead(l, f, a), Ahead(l, a, b) PROVE a \in t \cup Skips
      <4>1. b \in t
        BY <3>1, <3>5, <2>1, <1>4
      <4> QED BY <4>1, <3>5 DEF TourGood
    <3>6. CASE Ahead(l, x, f)
      <4>1. ~Ahead(l, b, x)
        BY <3>4, <3>6, <1>4
      <4>2. Ahead(l, a, b) /\ Ahead(l, x, a)
        BY <4>1, <3>1, <2>1, <1>3
      <4>3. Ahead(l, a, f) => a \in Skips
        BY <4>2, <3>3, <3>6 DEF Found
      <4> QED BY <4>2, <4>3, <3>2, <3>3, <3>5, <2>1, <1>4
    <3>7. CASE ~Ahead(l, x, f)
      <4>1. Ahead(l, a, f) \/ Ahead(l, x, a) => a \in Skips
        BY <3>3, <3>7 DEF Found
      <4>2. Ahead(l, x, a) \/ Ahead(l, a, b)
        BY <3>1, <2>1, <1>3
      <4> QED BY <4>1, <4>2, <3>2, <3>3, <3>5, <2>1, <1>4
    <3> QED BY <3>6, <3>7
  <2>2. f = NoWindow => \A b : ~Ahead(r, f, b)
    <3>1. \A b : Ahead(r, f, b) => f \in Windows
      BY <1>2, AheadFacts, ToSetInSeq DEF GoodList
    <3> QED BY <3>1, WindowLifeAssumption DEF WindowLifeAssumption
  <2>3. ASSUME NEW a, NEW b, Ahead(r, x, a), Ahead(r, a, b), b \in t \cup ({f, x} \ {NoWindow})
        PROVE  a \in (t \cup ({f, x} \ {NoWindow})) \cup Skips
    BY <2>1, <2>2, <2>3
  <2>4. x \in ToSet(r) \cap (t \cup ({f, x} \ {NoWindow}))
    BY <1>1, <1>2
  <2> QED BY <2>3, <2>4, <1>5 DEF TourGood
<1>8. ASSUME x \in t PROVE ToSet(l) \ Skips \subseteq t
  <2>1. f \in ToSet(l) /\ f \in t /\ ~Ahead(l, x, f)
    BY <1>8 DEF TourGood
  <2>2. ASSUME NEW a \in ToSet(l) \ Skips PROVE a \in t
    <3>1. ~Ahead(l, a, f) /\ ~Ahead(l, x, a)
      BY <2>1 DEF Found
    <3>2. a = f \/ a = x \/ (Ahead(l, f, a) /\ Ahead(l, a, x))
      BY <3>1, <2>1, <1>1, <1>4
    <3> QED BY <3>2, <2>1, <1>8 DEF TourGood
  <2> QED BY <2>2
<1> QED BY <1>6, <1>7, <1>8 DEF r

-----------------------------------------------------------------------------
(* What steps do to a tour *)

LEMMA BecomesTour ==
    ASSUME TourInv, NEW st, Becomes(st), Known \subseteq Known', st.focus \in Known' \cup {NoWindow},
           st.focus = focus /\ tour # {} => TourGood(st.list, focus, tour \cap ToSet(st.list))
    PROVE  TourInv' /\ TourStep
<1>1. /\ list' = st.list /\ focus' = st.focus
      /\ tour' = IF st.focus = focus THEN tour \cap ToSet(st.list) ELSE {}
  BY DEF Becomes
<1>2. TourGood(list', focus', tour')
  <2>1. CASE st.focus = focus /\ tour # {}
    BY <1>1, <2>1
  <2>2. CASE ~(st.focus = focus /\ tour # {})
    <3>1. tour' = {}
      BY <1>1, <2>2
    <3> QED BY <3>1 DEF TourGood
  <2> QED BY <2>1, <2>2
<1>3. tour' \subseteq Known' /\ focus' \in Known' \cup {NoWindow}
  BY <1>1 DEF TourInv
<1> QED BY <1>1, <1>2, <1>3 DEF TourInv, TourStep

LEMMA SameTour ==
    ASSUME TourInv, UNCHANGED <<list, focus, tour>>, Known \subseteq Known'
    PROVE  TourInv' /\ TourStep
<1>1. TourGood(list', focus', tour') /\ tour' \subseteq Known' /\ focus' \in Known' \cup {NoWindow}
  BY DEF TourInv
<1> QED BY <1>1 DEF TourInv, TourStep

(* On a tour a window has the focus, and it is on the list. *)
LEMMA OnTour ==
    ASSUME Inv, TourInv, tour # {}
    PROVE  focus \in Listed /\ focus \in Windows /\ focus # NoWindow
<1>1. focus \in Listed
  BY DEF TourInv, TourGood, Listed
<1>2. focus \in Windows
  BY <1>1, ToSetInSeq DEF Inv, Lists, GoodList, Listed
<1> QED BY <1>1, <1>2, WindowLifeAssumption DEF WindowLifeAssumption

LEMMA KnownSame ==
    ASSUME UNCHANGED <<scheduled, freed>>, Listed \subseteq Listed'
    PROVE  Known \subseteq Known'
BY DEF Known, Scheduled

LEMMA GivenTour ==
    ASSUME Inv, TourInv, NEW w \in Listed \cup Scheduled, NEW how \in {"user", "command", "flip"},
           Becomes(WithFocus(Now, w, how)), UNCHANGED <<scheduled, freed>>
    PROVE  TourInv' /\ TourStep
<1> DEFINE st == WithFocus(Now, w, how)
<1>1. Now = [list |-> list, focus |-> focus]
  BY DEF Now
<1>2. w \in Windows /\ GoodState(st) /\ ToSet(st.list) = Listed
  BY GivenFocus
<1>3. st.focus \in {focus, w}
  BY <1>1 DEF WithFocus
<1>4. ASSUME st.focus = focus, tour # {} PROVE st.list = list
  <2>1. focus # NoWindow
    BY <1>4, OnTour
  <2>2. CASE \/ how \in {"command", "flip"} /\ w = focus
             \/ how # "force" /\ w \in Refuses /\ focus # NoWindow
    BY <1>1, <2>2 DEF WithFocus
  <2>3. CASE ~(\/ how \in {"command", "flip"} /\ w = focus
               \/ how # "force" /\ w \in Refuses /\ focus # NoWindow)
    <3>1. /\ st.list = Updated(Now, w, how)
          /\ st.focus = IF w \in Refuses THEN focus ELSE w
      BY <1>1, <2>3 DEF WithFocus
    <3>2. w = focus
      BY <3>1, <2>1, <2>3, <1>4
    <3> QED BY <1>1, <3>1, <3>2 DEF Updated
  <2> QED BY <2>2, <2>3
<1>5. Becomes(st)
  OBVIOUS
<1> HIDE DEF st
<1>6. Known \subseteq Known'
  BY <1>2, <1>5, KnownSame DEF Becomes, Listed
<1>7. st.focus \in Known \cup {NoWindow}
  BY <1>3 DEF Known, TourInv
<1>8. TourGood(list, focus, tour \cap ToSet(list))
  BY TourSame DEF TourInv
<1> QED BY <1>4, <1>5, <1>6, <1>7, <1>8, BecomesTour

LEMMA FocusInTour ==
    ASSUME Inv, TourInv, NEW w \in Windows, FocusIn(w)
    PROVE  TourInv' /\ TourStep
<1> DEFINE st == [Now EXCEPT !.focus = w]
<1>1. Becomes(st) /\ UNCHANGED <<scheduled, freed>> /\ w \in Listed
  BY DEF FocusIn
<1>2. st.list = list /\ st.focus = w
  BY DEF Now
<1> HIDE DEF st
<1>3. Known \subseteq Known'
  BY <1>1, <1>2, KnownSame DEF Becomes, Listed
<1>4. TourGood(list, focus, tour \cap ToSet(list))
  BY TourSame DEF TourInv
<1>5. st.focus \in Known \cup {NoWindow}
  BY <1>1, <1>2 DEF Known
<1> QED BY <1>1, <1>2, <1>3, <1>4, <1>5, BecomesTour

(* A new window comes at the end of the list, or to its front: the tour     *)
(* comes to it next.                                                        *)
LEMMA MappedTour ==
    ASSUME Inv, TourInv, NEW w \in Windows, NEW grabs, WindowMapped(w, grabs)
    PROVE  TourInv' /\ TourStep
<1> DEFINE l == Append(list, w)
<1> DEFINE st == [Now EXCEPT !.list = Append(@, w)]
<1> DEFINE r == IF grabs THEN WithFocus(st, w, "force") ELSE st
<1>1. /\ w \notin Listed \cup Scheduled \cup freed
      /\ Becomes(r) /\ UNCHANGED <<scheduled, freed>>
  BY DEF WindowMapped
<1>2. GoodList(list) /\ w \notin ToSet(list) /\ w \notin tour /\ Listed \cap Scheduled = {}
  BY <1>1 DEF Inv, Lists, TourInv, Known, Listed
<1>3. st = [list |-> l, focus |-> focus]
  BY DEF Now
<1>4. GoodList(l) /\ ToSet(l) = Listed \cup {w}
  BY <1>2, AppendGood DEF Listed
<1>5. TourGood(l, focus, tour)
  BY <1>2, TourAppend DEF TourInv
<1>6. /\ ToSet(ToFront(l, w)) = ToSet(l) /\ ToSet(Rotated(l, w)) = ToSet(l)
  BY <1>4, ToFrontFacts, RotatedFacts
<1>7. \A a : ~Ahead(l, w, a)
  <2>1. ASSUME NEW a, Ahead(l, w, a) PROVE FALSE
    <3>1. Ahead(list, w, a) \/ w \in ToSet(list)
      BY <2>1, <1>2, AppendAhead
    <3> QED BY <3>1, <1>2, AheadFacts
  <2> QED BY <2>1
<1>8. \A a, b : Ahead(ToFront(l, w), a, b) => b # w /\ (a = w \/ Ahead(l, a, b))
  BY <1>4, ToFrontAhead
<1>9. \A a, b : Ahead(Rotated(l, w), a, b) => b # w /\ (a = w \/ Ahead(l, a, b))
  BY <1>4, <1>7, RotatedAhead, AheadFacts
<1>10. TourGood(ToFront(l, w), focus, tour) /\ TourGood(Rotated(l, w), focus, tour)
  <2>1. TourGood(ToFront(l, w), focus, tour)
    BY <1>2, <1>5, <1>6, <1>8, TourMoved
  <2>2. TourGood(Rotated(l, w), focus, tour)
    BY <1>2, <1>5, <1>6, <1>9, TourMoved
  <2> QED BY <2>1, <2>2
<1>11. r.list \in {l, ToFront(l, w), Rotated(l, w)} /\ r.focus \in {focus, w}
  <2> HIDE DEF l
  <2>1. CASE grabs
    <3>1. Updated([list |-> l, focus |-> focus], w, "force") \in {l, ToFront(l, w), Rotated(l, w)}
      BY DEF Updated
    <3>2. WithFocus([list |-> l, focus |-> focus], w, "force")
             = [list |-> Updated([list |-> l, focus |-> focus], w, "force"),
                focus |-> IF w \in Refuses THEN focus ELSE w]
      BY DEF WithFocus
    <3> QED BY <2>1, <3>1, <3>2, <1>3
  <2>2. CASE ~grabs
    BY <2>2, <1>3
  <2> QED BY <2>1, <2>2
<1> HIDE DEF l, r, st
<1>12. ToSet(r.list) = Listed \cup {w} /\ TourGood(r.list, focus, tour)
  BY <1>4, <1>5, <1>6, <1>10, <1>11
<1>13. Listed \subseteq Listed' /\ w \in Listed'
  BY <1>1, <1>12 DEF Becomes, Listed
<1>14. Known \subseteq Known' /\ w \in Known'
  BY <1>1, <1>13, KnownSame DEF Known
<1>15. TourGood(r.list, focus, tour \cap ToSet(r.list))
  BY <1>12, TourSame
<1>16. r.focus \in Known' \cup {NoWindow}
  BY <1>11, <1>14 DEF TourInv
<1> QED BY <1>1, <1>14, <1>15, <1>16, BecomesTour

(* Who destroys a window without the focus leaves the focus alone, and one  *)
(* with it ends the tour.                                                   *)
LEMMA DestroyedTour ==
    ASSUME Inv, TourInv, NEW w \in Listed \cup Scheduled,
           NEW st, st = Now \/ st = FocusRestored(Now, w), Destroyed(st, w)
    PROVE  TourInv' /\ TourStep
<1> DEFINE st1 == [st EXCEPT !.list = Without(@, w)]
<1> DEFINE r == IF w \in Scheduled THEN st ELSE FocusRestored(st1, w)
<1>1. w \in Windows /\ Listed \cap Scheduled = {} /\ GoodList(list)
  BY ToSetInSeq DEF Inv, Lists, GoodList, Listed, Scheduled
<1>2. /\ Becomes(r)
      /\ scheduled' = IF Executing /\ w \notin Scheduled
                      THEN Append(scheduled, w) ELSE scheduled
      /\ freed' = IF Executing THEN freed ELSE freed \cup {w}
  BY DEF Destroyed
<1>3. GoodState(Now) /\ ToSet(Now.list) = Listed /\ Now = [list |-> list, focus |-> focus]
  BY NowGood DEF Now
<1>4. /\ GoodState(st) /\ ToSet(st.list) = Listed
      /\ st.focus \in {focus, NoWindow} \cup Listed
      /\ focus # w => st = Now
  <2>1. CASE st = Now
    BY <2>1, <1>3
  <2>2. CASE st = FocusRestored(Now, w)
    <3> DEFINE n == Now
    <3>1. GoodState(n) /\ ToSet(n.list) = Listed /\ n.focus = focus /\ st = FocusRestored(n, w)
      BY <2>2, <1>3
    <3>2. focus # w => st = Now
      BY <2>2, <1>3 DEF FocusRestored
    <3> HIDE DEF n
    <3>3. /\ GoodState(st) /\ ToSet(st.list) = ToSet(n.list)
          /\ n.focus # w => st.focus = n.focus
          /\ n.focus = w => st.focus \in ToSet(n.list) \cup {NoWindow}
      BY <3>1, <1>1, RestoredFacts
    <3> QED BY <3>1, <3>2, <3>3
  <2> QED BY <2>1, <2>2
<1>5. GoodState(st1) /\ ToSet(st1.list) = Listed \ {w} /\ st1.focus = st.focus
  <2> DEFINE l == Without(st.list, w)
  <2>1. GoodList(st.list)
    BY <1>4 DEF GoodState, GoodList
  <2>2. GoodList(l) /\ ToSet(l) = Listed \ {w}
    BY <2>1, <1>1, <1>4, WithoutFacts
  <2>3. st1 = [st EXCEPT !.list = l]
    OBVIOUS
  <2> HIDE DEF l
  <2> QED BY <2>2, <2>3, <1>4 DEF GoodState, GoodList
<1>6. /\ w \notin Scheduled => r.focus # w
      /\ ToSet(r.list) = Listed \ {w}
      /\ r.focus \in {st.focus, NoWindow} \cup Listed
      /\ st.focus # w /\ w \notin Scheduled => r = st1
  <2>1. CASE w \in Scheduled
    BY <2>1, <1>1, <1>4
  <2>2. CASE w \notin Scheduled
    <3> HIDE DEF st1
    <3>1. /\ FocusRestored(st1, w).focus # w
          /\ ToSet(FocusRestored(st1, w).list) = ToSet(st1.list)
          /\ st1.focus # w => FocusRestored(st1, w).focus = st1.focus
          /\ st1.focus = w => FocusRestored(st1, w).focus \in ToSet(st1.list) \cup {NoWindow}
      BY <1>1, <1>5, RestoredFacts
    <3>2. st1.focus # w => FocusRestored(st1, w) = st1
      BY DEF FocusRestored
    <3>3. r = FocusRestored(st1, w)
      BY <2>2
    <3> HIDE DEF r
    <3> QED BY <3>1, <3>2, <3>3, <2>2, <1>5
  <2> QED BY <2>1, <2>2
<1>7. ASSUME r.focus = focus, tour # {}
      PROVE  TourGood(r.list, focus, tour \cap ToSet(r.list))
  <2>1. focus \in Listed
    BY <1>7, OnTour
  <2>2. focus # w
    BY <2>1, <1>1, <1>6, <1>7
  <2>3. st = Now /\ st.focus # w /\ st.list = list
    BY <2>2, <1>3, <1>4
  <2>4. CASE w \in Scheduled
    <3>1. r.list = list
      BY <2>3, <2>4
    <3> QED BY <3>1, TourSame DEF TourInv
  <2>5. CASE w \notin Scheduled
    <3>1. r = st1 /\ st1.list = Without(list, w)
      BY <2>3, <2>5, <1>3, <1>6
    <3>2. TourGood(Without(list, w), focus, tour \cap ToSet(Without(list, w)))
      BY <2>2, <1>1, TourWithout DEF TourInv
    <3> HIDE DEF r, st1
    <3> QED BY <3>1, <3>2
  <2> QED BY <2>4, <2>5
<1> HIDE DEF r, st1
<1>8. Listed' = Listed \ {w}
  BY <1>2, <1>6 DEF Becomes, Listed
<1>9. Scheduled \subseteq Scheduled' /\ (Executing => w \in Scheduled')
  <2>1. CASE Executing /\ w \notin Scheduled
    <3>1. GoodList(scheduled) /\ scheduled' = Append(scheduled, w)
      BY <2>1, <1>2 DEF Inv, Lists
    <3>2. ToSet(Append(scheduled, w)) = ToSet(scheduled) \cup {w}
      BY <2>1, <3>1, <1>1, AppendGood DEF Scheduled
    <3> QED BY <3>1, <3>2 DEF Scheduled
  <2>2. CASE ~(Executing /\ w \notin Scheduled)
    <3>1. scheduled' = scheduled
      BY <2>2, <1>2
    <3> QED BY <3>1, <2>2 DEF Scheduled
  <2> QED BY <2>1, <2>2
<1>10. freed \subseteq freed' /\ (~Executing => w \in freed')
  BY <1>2
<1>11. Known \subseteq Known'
  BY <1>8, <1>9, <1>10 DEF Known
<1>12. r.focus \in Known' \cup {NoWindow}
  <2>1. r.focus \in Known \cup {NoWindow}
    BY <1>4, <1>6 DEF TourInv, Known
  <2> QED BY <2>1, <1>11
<1> QED BY <1>2, <1>7, <1>11, <1>12, BecomesTour

LEMMA CirculateTour ==
    ASSUME Inv, TourInv, NEW w, NEW dir \in {"Next", "Prev"}, CirculateFocus(w, dir)
    PROVE  TourInv' /\ TourStep
<1> DEFINE found == Circulate(w, dir)
<1> DEFINE st == WithFocus(Now, found, "command")
<1>1. /\ found # NoWindow /\ list' = st.list /\ focus' = st.focus
      /\ tour' = IF st.focus = focus THEN tour
                 ELSE IF dir = "Prev" \/ w # NoWindow THEN {}
                 ELSE IF st.focus \in tour THEN {st.focus}
                 ELSE tour \cup ({focus, st.focus} \ {NoWindow})
      /\ UNCHANGED <<scheduled, freed>>
  BY DEF CirculateFocus
<1>2. GoodList(list) /\ Listed \cap Scheduled = {} /\ Now = [list |-> list, focus |-> focus]
  BY DEF Inv, Lists, Now
<1>3. found \in Listed \ Skips
  BY <1>1, <1>2, CirculateFacts
<1>4. found \in Windows /\ ToSet(st.list) = Listed
  <2> HIDE DEF found
  <2> QED BY <1>3, GivenFocus
<1>5. (w = NoWindow /\ dir = "Next") => found = FirstIn(Order(list, focus, "Next"), Windows \ Skips)
  BY DEF Circulate
<1> HIDE DEF found
<1>6. \/ st = Now
      \/ /\ st.list = Updated(Now, found, "command")
         /\ st.focus = IF found \in Refuses THEN focus ELSE found
         /\ found # focus /\ (found \in Refuses => focus = NoWindow)
  BY <1>2 DEF WithFocus
<1>7. found # focus => Updated(Now, found, "command") = Rotated(list, found)
  BY <1>2, <1>3 DEF Updated
<1>8. st.focus \in {focus, found}
  BY <1>2, <1>6
<1>9. st.focus = focus => st.list = list \/ focus = NoWindow
  BY <1>2, <1>6
<1>10. st.focus # focus => st.focus = found /\ found # focus /\ st.list = Rotated(list, found)
  BY <1>2, <1>6, <1>7
<1> HIDE DEF st
<1>11. Listed' = Listed /\ Known' = Known
  BY <1>1, <1>4 DEF Listed, Scheduled, Known
<1>12. focus' \in Known' \cup {NoWindow} /\ tour' \subseteq Known'
  <2>1. focus' \in {focus, found} /\ tour' \subseteq tour \cup ({focus, found} \ {NoWindow})
    BY <1>1, <1>8
  <2> QED BY <2>1, <1>3, <1>11 DEF TourInv, Known
<1>13. CASE st.focus = focus
  <2>1. TourGood(list', focus', tour')
    <3>1. tour' = tour /\ focus' = focus /\ (tour # {} => list' = list)
      BY <1>1, <1>9, <1>13, OnTour
    <3> QED BY <3>1 DEF TourInv, TourGood
  <2> QED BY <2>1, <1>1, <1>12, <1>13 DEF TourInv, TourStep
<1>14. CASE st.focus # focus /\ (dir = "Prev" \/ w # NoWindow)
  <2>1. tour' = {}
    BY <1>1, <1>14
  <2> QED BY <2>1, <1>12 DEF TourInv, TourGood, TourStep
<1>15. CASE st.focus # focus /\ w = NoWindow /\ dir = "Next"
  <2>1. /\ found # focus /\ list' = Rotated(list, found) /\ focus' = found
        /\ tour' = IF found \in tour THEN {found} ELSE tour \cup ({focus, found} \ {NoWindow})
    BY <1>1, <1>10, <1>15
  <2>2. Found(list, focus, found)
    <3>2. CASE focus \in Listed
      <4>1. /\ Ahead(list, found, focus) =>
                  \A a : Ahead(list, found, a) /\ Ahead(list, a, focus) => a \in Skips
            /\ ~Ahead(list, found, focus) =>
                  \A a : Ahead(list, a, focus) \/ Ahead(list, found, a) => a \in Skips
        BY <1>1, <1>2, <1>5, <1>15, <3>2, NextFound
      <4> QED BY <1>3, <4>1 DEF Found, Listed
    <3>3. CASE focus \notin Listed
      BY <1>3, <3>3 DEF Found, Listed
    <3> QED BY <3>2, <3>3
  <2>3. /\ TourGood(Rotated(list, found), found, {found})
        /\ found \notin tour =>
              TourGood(Rotated(list, found), found, tour \cup ({focus, found} \ {NoWindow}))
        /\ found \in tour => ToSet(list) \ Skips \subseteq tour
    BY <2>1, <2>2, <1>2, TourNext DEF TourInv
  <2>4. TourGood(list', focus', tour')
    BY <2>1, <2>3
  <2>5. TourStep
    BY <2>1, <2>3 DEF TourStep, Listed
  <2> QED BY <2>4, <2>5, <1>12 DEF TourInv
<1> QED BY <1>13, <1>14, <1>15

-----------------------------------------------------------------------------
LEMMA KnownStays ==
    ASSUME UNCHANGED <<list, scheduled, freed>>
    PROVE  Known \subseteq Known'
BY DEF Known, Listed, Scheduled

(* A window that is unmapped without being destroyed keeps its place, but   *)
(* the tour ends if it had the focus.                                       *)
LEMMA UnfocusedTour ==
    ASSUME Inv, TourInv, NEW w \in Listed, UNCHANGED <<scheduled, freed>>,
           NEW st, st = FocusRestored(Now, w), Becomes(st)
    PROVE  TourInv' /\ TourStep
<1>1. w \in Windows
  BY ToSetInSeq DEF Inv, Lists, GoodList, Listed
<1>2. GoodState(Now) /\ ToSet(Now.list) = Listed /\ Now.list = list /\ Now.focus = focus
  BY NowGood DEF Now
<1> DEFINE n == Now
<1>3. /\ GoodState(n) /\ ToSet(n.list) = Listed /\ n.list = list /\ n.focus = focus
      /\ st = FocusRestored(n, w)
  BY <1>2
<1>4. focus # w => st = n
  BY <1>3 DEF FocusRestored
<1> HIDE DEF n
<1>5. /\ ToSet(st.list) = Listed /\ st.focus # w
      /\ focus # w => st.focus = focus
      /\ focus = w => st.focus \in Listed \cup {NoWindow}
  BY <1>1, <1>3, RestoredFacts
<1>6. Known \subseteq Known'
  BY <1>5, KnownSame DEF Becomes, Listed
<1>7. st.focus \in Known \cup {NoWindow}
  BY <1>5 DEF Known, TourInv
<1>8. st.focus = focus => TourGood(st.list, focus, tour \cap ToSet(st.list))
  BY <1>3, <1>4, <1>5, TourSame DEF TourInv
<1> QED BY <1>6, <1>7, <1>8, BecomesTour

LEMMA EventsTour ==
    ASSUME Inv, TourInv, Events
    PROVE  TourInv' /\ TourStep
<1>1. PICK w \in Windows :
          \/ \E grabs \in BOOLEAN : WindowMapped(w, grabs)
          \/ WindowUnmapped(w) \/ WindowDestroyed(w) \/ FocusIn(w) \/ UserFocuses(w)
  BY DEF Events
<1>2. CASE WindowUnmapped(w) \/ WindowDestroyed(w)
  <2>1. /\ w \in Listed
        /\ \/ \E st : (st = Now \/ st = FocusRestored(Now, w)) /\ Destroyed(st, w)
           \/ Becomes(FocusRestored(Now, w)) /\ UNCHANGED <<scheduled, freed>>
    BY <1>2 DEF WindowUnmapped, WindowDestroyed
  <2> QED BY <2>1, DestroyedTour, UnfocusedTour
<1>3. CASE UserFocuses(w)
  <2>1. /\ w \in Listed \cup Scheduled
        /\ Becomes(WithFocus(Now, w, "user")) /\ UNCHANGED <<scheduled, freed>>
    BY <1>3 DEF UserFocuses
  <2> QED BY <2>1, GivenTour
<1> QED BY <1>1, <1>2, <1>3, MappedTour, FocusInTour

LEMMA CommandsTour ==
    ASSUME Inv, TourInv, Commands
    PROVE  TourInv' /\ TourStep
<1>1. ASSUME NEW w, Destroy(w) PROVE TourInv' /\ TourStep
  <2>1. w \in Contexts \ {NoWindow} /\ Destroyed(Now, w)
    BY <1>1 DEF Destroy
  <2>2. w \in Listed \cup Scheduled
    BY <2>1, ContextFacts
  <2> QED BY <2>1, <2>2, DestroyedTour
<1>2. ASSUME NEW w, NEW how, Focus(w, how) PROVE TourInv' /\ TourStep
  <2>1. /\ w \in Contexts \ {NoWindow} /\ how \in {"user", "command", "flip"}
        /\ Becomes(WithFocus(Now, w, how)) /\ UNCHANGED <<scheduled, freed>>
    BY <1>2 DEF Focus
  <2>2. w \in Listed \cup Scheduled
    BY <2>1, ContextFacts
  <2> QED BY <2>1, <2>2, GivenTour
<1>3. ASSUME \/ \E w : Call(w) \/ OpenMenu(w) \/ \E dir : CirculateCalls(w, dir)
             \/ Wait \/ \E body : All(body)
      PROVE  TourInv' /\ TourStep
  <2>1. UNCHANGED <<list, focus, scheduled, freed, tour>>
    BY <1>3 DEF Call, OpenMenu, CirculateCalls, Wait, All
  <2> QED BY <2>1, KnownStays, SameTour
<1> QED BY <1>1, <1>2, <1>3, CirculateTour DEF Commands

LEMMA ProgressTour ==
    ASSUME Inv, TourInv, Progress
    PROVE  TourInv' /\ TourStep
<1>1. CASE DestroyScheduledWindows
  <2>1. UNCHANGED <<list, focus, tour>> /\ freed' = freed \cup Scheduled
    BY <1>1 DEF DestroyScheduledWindows
  <2>2. Known \subseteq Known'
    BY <2>1 DEF Known, Listed
  <2> QED BY <2>1, <2>2, SameTour
<1>2. CASE AllDestroys
  <2>1. frames # <<>> /\ Top.kind = "all" /\ Top.rest # <<>> /\ Destroyed(Now, Head(Top.rest))
    BY <1>2 DEF AllDestroys, InAll, InHandleEvents
  <2>2. Head(Top.rest) \in Listed \cup Scheduled
    BY <2>1, ShorterFacts
  <2> QED BY <2>1, <2>2, DestroyedTour
<1>3. CASE AllFocuses
  <2>1. /\ frames # <<>> /\ Top.kind = "all" /\ Top.rest # <<>>
        /\ Becomes(WithFocus(Now, Head(Top.rest), "command")) /\ UNCHANGED <<scheduled, freed>>
    BY <1>3 DEF AllFocuses, InAll, InHandleEvents
  <2>2. Head(Top.rest) \in Listed \cup Scheduled
    BY <2>1, ShorterFacts
  <2> QED BY <2>1, <2>2, GivenTour
<1>4. CASE AllCalls \/ MenuActs \/ Return
  <2>1. UNCHANGED <<list, focus, scheduled, freed, tour>>
    BY <1>4 DEF AllCalls, MenuActs, Return
  <2> QED BY <2>1, KnownStays, SameTour
<1> QED BY <1>1, <1>2, <1>3, <1>4 DEF Progress

LEMMA NextTour ==
    ASSUME Inv, TourInv, [Next]_vars
    PROVE  TourInv' /\ TourStep
<1>1. CASE UNCHANGED vars
  <2>1. UNCHANGED <<list, focus, scheduled, freed, tour>>
    BY <1>1 DEF vars
  <2> QED BY <2>1, KnownStays, SameTour
<1> QED BY <1>1, EventsTour, CommandsTour, ProgressTour DEF Next

(* A tour with Next comes to all windows that may get the focus before it   *)
(* comes to one again: the windows it has not been to are the next ones,    *)
(* wherever the list was cut, and new ones join them.                       *)
THEOREM TourCompleteHolds == Spec => TourComplete
<1>1. Init => TourInv
  BY DEF Init, TourInv, TourGood
<1>2. Inv /\ TourInv /\ [Next]_vars => TourInv'
  BY NextTour
<1>3. Inv /\ TourInv /\ [Next]_vars => [TourStep]_vars
  BY NextTour
<1>4. [TourStep]_vars <=>
        [focus' # focus /\ focus' \in tour /\ tour' # {}
           => Listed \ (Skips \cup Refuses) \subseteq tour]_vars
  BY DEF TourStep
<1> QED BY <1>1, <1>2, <1>3, <1>4, InvHolds, PTL DEF Spec, TourComplete
=============================================================================
