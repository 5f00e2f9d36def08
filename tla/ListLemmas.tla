----------------------------- MODULE ListLemmas -----------------------------
(***************************************************************************)
(* Facts about numbers and sequences that the proofs share.                *)
(***************************************************************************)
EXTENDS Integers, SequenceTheorems, FiniteSetTheorems, WellFoundedInduction, TLAPS

(* A set of numbers that is not empty has a least element.  Proofs by
   induction are put in this form: the least counterexample is none. *)
LEMMA LeastNat ==
    ASSUME NEW T, T \subseteq Nat, T # {}
    PROVE  \E n \in T : \A m \in T : n <= m
<1> DEFINE R == {ss \in Nat \X Nat : ss[1] < ss[2]}
<1>1. IsWellFoundedOn(R, Nat)
  BY NatLessThanWellFounded DEF OpToRel
<1>2. \E x \in T : \A y \in T : ~ (<<y, x>> \in R)
  <2> HIDE DEF R
  <2> QED BY <1>1, WFMin
<1>3. PICK x \in T : \A y \in T : ~ (<<y, x>> \in R)
  BY <1>2
<1>4. ASSUME NEW y \in T PROVE x <= y
  <2>1. x \in Nat /\ y \in Nat
    OBVIOUS
  <2>2. ~ (<<y, x>> \in Nat \X Nat /\ <<y, x>>[1] < <<y, x>>[2])
    BY <1>3, Zenon
  <2> QED BY <2>1, <2>2
<1> QED BY <1>4

(* A set of numbers that is bounded and not empty has a greatest element. *)
LEMMA GreatestNat ==
    ASSUME NEW b \in Nat, NEW T, T \subseteq 0 .. b, T # {}
    PROVE  \E x \in T : \A y \in T : y <= x
<1> DEFINE M == {b - x : x \in T}
<1>1. M \subseteq Nat /\ M # {}
  <2>1. \A x \in T : x \in 0 .. b /\ b - x \in Nat
    OBVIOUS
  <2>2. \E x \in T : TRUE
    OBVIOUS
  <2>3. M \subseteq Nat
    BY <2>1
  <2> QED BY <2>2, <2>3
<1>2. PICK n \in M : \A k \in M : n <= k
  <2> HIDE DEF M
  <2> QED BY <1>1, LeastNat
<1>3. PICK x \in T : n = b - x
  OBVIOUS
<1>4. ASSUME NEW y \in T PROVE y <= x
  <2>1. b - y \in M
    OBVIOUS
  <2>2. n <= b - y
    BY <1>2, <2>1
  <2>3. x \in Nat /\ y \in Nat
    OBVIOUS
  <2> HIDE DEF M
  <2> QED BY <2>2, <2>3, <1>3
<1> QED BY <1>4

(* What Append, replacing the last element and dropping it do to a sequence. *)
LEMMA AppendFacts ==
    ASSUME NEW S, NEW s \in Seq(S), NEW e \in S
    PROVE  /\ Append(s, e) \in Seq(S) /\ Append(s, e) # <<>>
           /\ Len(Append(s, e)) = Len(s) + 1
           /\ DOMAIN Append(s, e) = 1 .. Len(s) + 1
           /\ Append(s, e)[Len(s) + 1] = e
           /\ \A d \in 1 .. Len(s) : Append(s, e)[d] = s[d]
OBVIOUS

LEMMA LastFacts ==
    ASSUME NEW S, NEW s \in Seq(S), NEW e \in S, s # <<>>
    PROVE  /\ [s EXCEPT ![Len(s)] = e] \in Seq(S)
           /\ Len([s EXCEPT ![Len(s)] = e]) = Len(s)
           /\ DOMAIN [s EXCEPT ![Len(s)] = e] = 1 .. Len(s)
           /\ [s EXCEPT ![Len(s)] = e][Len(s)] = e
           /\ \A d \in 1 .. Len(s) - 1 : [s EXCEPT ![Len(s)] = e][d] = s[d]
OBVIOUS

LEMMA FrontFacts ==
    ASSUME NEW S, NEW s \in Seq(S), s # <<>>
    PROVE  /\ SubSeq(s, 1, Len(s) - 1) \in Seq(S)
           /\ Len(SubSeq(s, 1, Len(s) - 1)) = Len(s) - 1
           /\ DOMAIN SubSeq(s, 1, Len(s) - 1) = 1 .. Len(s) - 1
           /\ \A d \in 1 .. Len(s) - 1 : SubSeq(s, 1, Len(s) - 1)[d] = s[d]
<1>1. Len(s) \in Nat /\ Len(s) - 1 \in Nat /\ Len(s) - 1 \in 0 .. Len(s)
  OBVIOUS
<1> DEFINE n == Len(s) - 1
<1> DEFINE t == SubSeq(s, 1, n)
<1>2. /\ t \in Seq(S) /\ Len(t) = Len(s) - 1
      /\ \A d \in 1 .. Len(s) - 1 : t[d] = s[d]
  <2>1. n \in Int /\ 1 \in Int /\ \A i \in 1 .. n : s[i] \in S
    OBVIOUS
  <2> HIDE DEF n
  <2>2. /\ t \in Seq(S) /\ Len(t) = IF 1 <= n THEN n - 1 + 1 ELSE 0
        /\ \A i \in 1 .. n - 1 + 1 : t[i] = s[1 + i - 1]
    BY <2>1, SubSeqProperties
  <2> HIDE DEF t
  <2>3. n \in Nat /\ n = Len(s) - 1
    BY <1>1 DEF n
  <2>4. Len(t) = n
    BY <2>2, <2>3
  <2>5. \A d \in 1 .. n : t[d] = s[d]
    BY <2>2, <2>3
  <2> QED BY <2>2, <2>3, <2>4, <2>5
<1>3. DOMAIN t = 1 .. Len(s) - 1
  BY <1>2
<1> QED BY <1>2, <1>3

(* What Head, Tail and concatenation do. *)
LEMMA TailFacts ==
    ASSUME NEW S, NEW s \in Seq(S), s # <<>>
    PROVE  /\ Tail(s) \in Seq(S) /\ Head(s) \in S
           /\ Len(Tail(s)) = Len(s) - 1
           /\ DOMAIN Tail(s) = 1 .. Len(s) - 1
           /\ \A d \in 1 .. Len(s) - 1 : Tail(s)[d] = s[d + 1]
           /\ Head(s) = s[1]
OBVIOUS

LEMMA ConcatFacts ==
    ASSUME NEW S, NEW s \in Seq(S), NEW t \in Seq(S)
    PROVE  /\ s \o t \in Seq(S)
           /\ Len(s \o t) = Len(s) + Len(t)
           /\ DOMAIN (s \o t) = 1 .. Len(s) + Len(t)
           /\ \A d \in 1 .. Len(s) : (s \o t)[d] = s[d]
           /\ \A d \in 1 .. Len(t) : (s \o t)[d + Len(s)] = t[d]
           /\ \A d \in (Len(s) + 1) .. (Len(s) + Len(t)) :
                 d - Len(s) \in 1 .. Len(t) /\ (s \o t)[d] = t[d - Len(s)]
OBVIOUS
-----------------------------------------------------------------------------
(* How often members of T occur in a sequence *)

Places(s, T) == {i \in DOMAIN s : s[i] \in T}

LEMMA PlacesFinite ==
    ASSUME NEW S, NEW s \in Seq(S), NEW T
    PROVE  IsFiniteSet(Places(s, T)) /\ Cardinality(Places(s, T)) \in Nat
<1>1. Places(s, T) \subseteq 1 .. Len(s) /\ Len(s) \in Nat
  BY DEF Places
<1>2. IsFiniteSet(1 .. Len(s))
  BY <1>1, FS_Interval
<1> QED BY <1>1, <1>2, FS_Subset, FS_CardinalityType

LEMMA PlacesAppend ==
    ASSUME NEW S, NEW s \in Seq(S), NEW e \in S, NEW T
    PROVE  Cardinality(Places(Append(s, e), T))
             = IF e \in T THEN Cardinality(Places(s, T)) + 1
               ELSE Cardinality(Places(s, T))
<1> DEFINE t == Append(s, e)
           n == Len(s) + 1
<1>1. /\ DOMAIN t = 1 .. n /\ t[n] = e /\ n \in Nat /\ n > 0
      /\ \A d \in 1 .. n - 1 : t[d] = s[d]
      /\ DOMAIN s = 1 .. n - 1
  BY AppendFacts
<1> HIDE DEF t, n
<1>2. CASE e \in T
  <2>1. Places(t, T) = Places(s, T) \cup {n} /\ n \notin Places(s, T)
    <3>1. 1 .. n = (1 .. n - 1) \cup {n} /\ n \notin 1 .. n - 1
      BY <1>1
    <3> QED BY <3>1, <1>1, <1>2 DEF Places
  <2>2. IsFiniteSet(Places(s, T))
    BY PlacesFinite
  <2>3. Cardinality(Places(t, T)) = Cardinality(Places(s, T)) + 1
    BY <2>1, <2>2, FS_AddElement
  <2> QED BY <2>3, <1>2 DEF t
<1>3. CASE e \notin T
  <2>1. Places(t, T) = Places(s, T)
    <3>1. 1 .. n = (1 .. n - 1) \cup {n} /\ n \notin 1 .. n - 1
      BY <1>1
    <3> QED BY <3>1, <1>1, <1>3 DEF Places
  <2> QED BY <2>1, <1>3 DEF t
<1> QED BY <1>2, <1>3

LEMMA PlacesFront ==
    ASSUME NEW S, NEW s \in Seq(S), s # <<>>, NEW T
    PROVE  Cardinality(Places(s, T))
             = IF s[Len(s)] \in T
               THEN Cardinality(Places(SubSeq(s, 1, Len(s) - 1), T)) + 1
               ELSE Cardinality(Places(SubSeq(s, 1, Len(s) - 1), T))
<1> DEFINE t == SubSeq(s, 1, Len(s) - 1)
           n == Len(s)
<1>1. /\ t \in Seq(S) /\ DOMAIN t = 1 .. n - 1 /\ n \in Nat /\ n > 0
      /\ \A d \in 1 .. n - 1 : t[d] = s[d]
      /\ DOMAIN s = 1 .. n
  BY FrontFacts
<1> HIDE DEF t, n
<1>2. CASE s[n] \in T
  <2>1. Places(s, T) = Places(t, T) \cup {n} /\ n \notin Places(t, T)
    <3>1. 1 .. n = (1 .. n - 1) \cup {n} /\ n \notin 1 .. n - 1
      BY <1>1
    <3> QED BY <3>1, <1>1, <1>2 DEF Places
  <2> QED BY <2>1, <1>1, <1>2, PlacesFinite, FS_AddElement DEF t, n
<1>3. CASE s[n] \notin T
  <2>1. Places(s, T) = Places(t, T)
    <3>1. 1 .. n = (1 .. n - 1) \cup {n} /\ n \notin 1 .. n - 1
      BY <1>1
    <3> QED BY <3>1, <1>1, <1>3 DEF Places
  <2> QED BY <2>1, <1>3 DEF t, n
<1> QED BY <1>2, <1>3

LEMMA PlacesReplace ==
    ASSUME NEW S, NEW s \in Seq(S), NEW d \in DOMAIN s, NEW e, NEW T,
           e \in T <=> s[d] \in T
    PROVE  Places([s EXCEPT ![d] = e], T) = Places(s, T)
BY DEF Places

LEMMA PlacesTail ==
    ASSUME NEW S, NEW s \in Seq(S), s # <<>>, NEW T
    PROVE  Cardinality(Places(s, T))
             = IF Head(s) \in T THEN Cardinality(Places(Tail(s), T)) + 1
               ELSE Cardinality(Places(Tail(s), T))
<1> DEFINE t == Tail(s)
           n == Len(s)
           P == Places(t, T)
           Q == {i \in 2 .. n : s[i] \in T}
           f == [i \in P |-> i + 1]
<1>1. /\ t \in Seq(S) /\ DOMAIN t = 1 .. n - 1 /\ n \in Nat /\ n > 0
      /\ \A d \in 1 .. n - 1 : t[d] = s[d + 1]
      /\ DOMAIN s = 1 .. n /\ Head(s) = s[1]
  BY TailFacts
<1> HIDE DEF t, n
<1>2. /\ f \in [P -> Q] /\ \A i, j \in P : f[i] = f[j] => i = j
      /\ \A j \in Q : \E i \in P : f[i] = j
  <2>1. \A i \in P : i \in Int /\ i + 1 \in Q
    BY <1>1 DEF Places
  <2>2. \A j \in Q : j - 1 \in P /\ j - 1 + 1 = j
    BY <1>1 DEF Places
  <2>3. f \in [P -> Q]
    BY <2>1
  <2>4. \A i, j \in P : f[i] = f[j] => i = j
    BY <2>1
  <2>5. \A j \in Q : \E i \in P : f[i] = j
    BY <2>2
  <2> QED BY <2>3, <2>4, <2>5
<1>3. f \in Bijection(P, Q)
  <2> HIDE DEF f, P, Q
  <2> QED BY <1>2 DEF Bijection, Injection, Surjection, IsInjective
<1>4. IsFiniteSet(P) /\ Cardinality(P) \in Nat
  BY <1>1, PlacesFinite
<1>5. IsFiniteSet(Q) /\ Cardinality(Q) = Cardinality(P)
  <2> HIDE DEF f, P, Q
  <2>1. ExistsBijection(P, Q)
    BY <1>3 DEF ExistsBijection
  <2> QED BY <2>1, <1>4, FS_Bijection
<1>6. CASE Head(s) \in T
  <2>1. Places(s, T) = Q \cup {1} /\ 1 \notin Q
    BY <1>1, <1>6 DEF Places
  <2> HIDE DEF f, P, Q
  <2>2. Cardinality(Places(s, T)) = Cardinality(P) + 1
    BY <2>1, <1>5, FS_AddElement
  <2> QED BY <2>2, <1>6 DEF P, t
<1>7. CASE Head(s) \notin T
  <2>1. Places(s, T) = Q
    <3>1. \A i \in DOMAIN s : s[i] \in T => i # 1
      BY <1>1, <1>7
    <3>2. \A i \in DOMAIN s : i # 1 => i \in 2 .. n
      BY <1>1
    <3>3. Q \subseteq DOMAIN s
      BY <1>1
    <3> QED BY <3>1, <3>2, <3>3 DEF Places
  <2> HIDE DEF f, P, Q
  <2> QED BY <2>1, <1>5, <1>7 DEF P, t
<1> QED BY <1>6, <1>7

(* Induction up to a bound, for a set of numbers. *)
LEMMA UpTo ==
    ASSUME NEW n \in Nat, NEW P, 0 \in P, \A i \in 1 .. n : i - 1 \in P => i \in P
    PROVE  0 .. n \subseteq P
<1> DEFINE T == 0 .. n \ P
<1> SUFFICES ASSUME T # {} PROVE FALSE
  OBVIOUS
<1>1. PICK k \in T : \A j \in T : k <= j
  <2>1. T \subseteq Nat
    OBVIOUS
  <2> QED BY <2>1, LeastNat
<1>2. k # 0 /\ k \in 1 .. n
  BY <1>1
<1>3. k - 1 \in 0 .. n /\ ~(k <= k - 1)
  BY <1>2
<1>4. k - 1 \in P
  BY <1>1, <1>3
<1> QED BY <1>1, <1>2, <1>4

(* A function can be defined by recursion on a number. *)
Steps(D, n) == [1 .. n -> [D -> D]]
Iterates(f, D, base, n, step) == /\ f \in [0 .. n -> D] /\ f[0] = base
                                 /\ \A i \in 1 .. n : f[i] = step[i][f[i - 1]]

LEMMA Recursion ==
    ASSUME NEW D, NEW base \in D, NEW n \in Nat, NEW step \in Steps(D, n)
    PROVE  \E f : Iterates(f, D, base, n, step)
<1> USE DEF Steps
<1> DEFINE Is(f, k) == /\ f \in [0 .. k -> D] /\ f[0] = base
                       /\ \A i \in 1 .. k : f[i] = step[i][f[i - 1]]
           P == {k \in 0 .. n : \E f : Is(f, k)}
<1>1. 0 \in P
  <2> DEFINE f == [i \in 0 .. 0 |-> base]
  <2>1. Is(f, 0)
    OBVIOUS
  <2> HIDE DEF f
  <2> QED BY <2>1
<1>2. ASSUME NEW k \in 1 .. n, k - 1 \in P PROVE k \in P
  <2>1. PICK f : Is(f, k - 1)
    BY <1>2
  <2>2. f[k - 1] \in D /\ step[k] \in [D -> D]
    BY <2>1
  <2>3. step[k][f[k - 1]] \in D
    BY <2>2
  <2> DEFINE g == [i \in 0 .. k |-> IF i = k THEN step[k][f[k - 1]] ELSE f[i]]
  <2>4. g \in [0 .. k -> D]
    <3> SUFFICES ASSUME NEW i \in 0 .. k PROVE g[i] \in D
      OBVIOUS
    <3>1. i # k => i \in 0 .. k - 1
      OBVIOUS
    <3> QED BY <2>1, <2>3, <3>1
  <2>5. g[0] = base /\ g[k] = step[k][f[k - 1]] /\ \A i \in 0 .. k - 1 : g[i] = f[i]
    BY <2>1
  <2> HIDE DEF g
  <2>6. ASSUME NEW i \in 1 .. k PROVE g[i] = step[i][g[i - 1]]
    <3>1. i - 1 \in 0 .. k - 1 /\ g[i - 1] = f[i - 1]
      BY <2>5
    <3>2. CASE i = k
      BY <2>5, <3>1, <3>2
    <3>3. CASE i # k
      <4>1. i \in 1 .. k - 1 /\ i \in 0 .. k - 1
        BY <3>3
      <4> QED BY <2>1, <2>5, <3>1, <4>1
    <3> QED BY <3>2, <3>3
  <2>7. Is(g, k)
    BY <2>4, <2>5, <2>6
  <2> QED BY <2>7
<1> HIDE DEF P
<1>3. 0 .. n \subseteq P
  BY <1>1, <1>2, UpTo
<1> QED BY <1>3 DEF P, Iterates

=============================================================================
