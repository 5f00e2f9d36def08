--------------------------- MODULE StackRingProofs ---------------------------
(***************************************************************************)
(* Theorems about StackRing.                                               *)
(***************************************************************************)
EXTENDS StackRing, ListLemmas

(* A list names no window twice: it is known from its windows and from which
   of them comes before which. *)
Lists == {s \in Seq(Windows) : \A i, j \in DOMAIN s : s[i] = s[j] => i = j}
Before(s, v, w) == \E i, j \in DOMAIN s : i < j /\ s[i] = v /\ s[j] = w

LEMMA OrderFacts ==
    ASSUME NEW s \in Lists
    PROVE  /\ \A v, w : Before(s, v, w) => /\ v \in ToSet(s) /\ w \in ToSet(s)
                                           /\ v # w /\ ~Before(s, w, v)
           /\ \A v, w \in ToSet(s) : v = w \/ Before(s, v, w) \/ Before(s, w, v)
           /\ \A u, v, w : Before(s, u, v) /\ Before(s, v, w) => Before(s, u, w)
<1>1. DOMAIN s = 1 .. Len(s) /\ Len(s) \in Nat
  BY DEF Lists
<1>2. ASSUME NEW v, NEW w, Before(s, v, w)
      PROVE  v \in ToSet(s) /\ w \in ToSet(s) /\ v # w /\ ~Before(s, w, v)
  <2>1. PICK i, j \in DOMAIN s : i < j /\ s[i] = v /\ s[j] = w
    BY <1>2 DEF Before
  <2>2. v # w
    BY <1>1, <2>1 DEF Lists
  <2>3. ASSUME Before(s, w, v) PROVE FALSE
    <3>1. PICK k, l \in DOMAIN s : k < l /\ s[k] = w /\ s[l] = v
      BY <2>3 DEF Before
    <3>2. k = j /\ l = i
      BY <2>1, <3>1 DEF Lists
    <3> QED BY <1>1, <2>1, <3>1, <3>2
  <2> QED BY <2>1, <2>2, <2>3 DEF ToSet
<1>3. ASSUME NEW v \in ToSet(s), NEW w \in ToSet(s)
      PROVE  v = w \/ Before(s, v, w) \/ Before(s, w, v)
  <2>1. PICK i, j \in DOMAIN s : s[i] = v /\ s[j] = w
    BY DEF ToSet
  <2>2. i = j \/ i < j \/ j < i
    BY <1>1, <2>1
  <2> QED BY <2>1, <2>2 DEF Before
<1>4. ASSUME NEW u, NEW v, NEW w, Before(s, u, v), Before(s, v, w)
      PROVE  Before(s, u, w)
  <2>1. PICK i, j \in DOMAIN s : i < j /\ s[i] = u /\ s[j] = v
    BY <1>4 DEF Before
  <2>2. PICK k, l \in DOMAIN s : k < l /\ s[k] = v /\ s[l] = w
    BY <1>4 DEF Before
  <2>3. k = j
    BY <2>1, <2>2 DEF Lists
  <2>4. i < l
    BY <1>1, <2>1, <2>2, <2>3
  <2> QED BY <2>1, <2>2, <2>4 DEF Before
<1> QED BY <1>2, <1>3, <1>4

LEMMA SameOrder ==
    ASSUME NEW s \in Lists, NEW t \in Lists, ToSet(s) = ToSet(t),
           \A v, w \in ToSet(s) : Before(s, v, w) => Before(t, v, w)
    PROVE  s = t
<1>1. /\ DOMAIN s = 1 .. Len(s) /\ Len(s) \in Nat
      /\ DOMAIN t = 1 .. Len(t) /\ Len(t) \in Nat
  BY DEF Lists
<1> DEFINE T == {i \in 1 .. Len(s) : i \notin 1 .. Len(t) \/ s[i] # t[i]}
<1>2. T = {}
  <2> SUFFICES ASSUME T # {} PROVE FALSE
    OBVIOUS
  <2>1. PICK i \in T : \A j \in T : i <= j
    <3>1. T \subseteq Nat
      BY <1>1
    <3> QED BY <3>1, LeastNat
  <2>2. i \in 1 .. Len(s)
    BY <2>1
  <2>3. ASSUME NEW j \in 1 .. Len(s), j < i PROVE j \in 1 .. Len(t) /\ s[j] = t[j]
    <3>1. ~(i <= j)
      BY <2>2, <2>3
    <3> QED BY <2>1, <3>1
  <2>4. PICK k \in 1 .. Len(t) : t[k] = s[i]
    BY <1>1, <2>2 DEF ToSet
  <2>5. ~(k < i)
    <3> SUFFICES ASSUME k < i PROVE FALSE
      OBVIOUS
    <3>1. k \in 1 .. Len(s)
      BY <1>1, <2>2, <2>4
    <3>2. s[k] = s[i]
      BY <2>3, <2>4, <3>1
    <3>3. k = i
      BY <1>1, <2>2, <3>1, <3>2 DEF Lists
    <3> QED BY <3>3, <2>2
  <2>6. k # i
    BY <2>1, <2>4
  <2>7. i \in 1 .. Len(t) /\ i < k
    BY <1>1, <2>2, <2>4, <2>5, <2>6
  <2>8. PICK m \in 1 .. Len(s) : s[m] = t[i]
    BY <1>1, <2>7 DEF ToSet
  <2>9. ~(m < i)
    <3> SUFFICES ASSUME m < i PROVE FALSE
      OBVIOUS
    <3>1. m \in 1 .. Len(t) /\ t[m] = t[i]
      BY <2>3, <2>8
    <3>2. m = i
      BY <1>1, <2>7, <3>1 DEF Lists
    <3> QED BY <3>2, <2>2
  <2>10. m # i
    BY <2>1, <2>7, <2>8
  <2>11. i < m
    BY <2>2, <2>8, <2>9, <2>10
  <2>12. Before(s, s[i], s[m])
    BY <1>1, <2>2, <2>8, <2>11 DEF Before
  <2>13. Before(t, t[i], t[k])
    BY <1>1, <2>4, <2>7 DEF Before
  <2>14. s[i] \in ToSet(s) /\ s[m] \in ToSet(s)
    BY <1>1, <2>2, <2>8 DEF ToSet
  <2> QED BY <2>4, <2>8, <2>12, <2>13, <2>14, OrderFacts
<1>3. \A i \in 1 .. Len(s) : i \in 1 .. Len(t) /\ s[i] = t[i]
  BY <1>2
<1> HIDE DEF T
<1>0. Len(s) \in Nat /\ Len(t) \in Nat
  BY DEF Lists
<1>4. Len(s) = Len(t)
  <2> SUFFICES ASSUME Len(s) # Len(t) PROVE FALSE
    OBVIOUS
  <2>1. Len(s) < Len(t)
    <3>1. Len(s) <= Len(t)
      <4>1. CASE Len(s) = 0
        BY <1>0, <4>1
      <4>2. CASE Len(s) # 0
        <5>1. Len(s) \in 1 .. Len(s)
          BY <1>0, <4>2
        <5> QED BY <1>0, <1>3, <5>1
      <4> QED BY <4>1, <4>2
    <3> QED BY <1>0, <3>1
  <2> DEFINE k == Len(s) + 1
  <2>2. k \in 1 .. Len(t) /\ k \notin 1 .. Len(s)
    BY <1>0, <2>1
  <2>3. PICK m \in 1 .. Len(s) : s[m] = t[k]
    BY <1>1, <2>2 DEF ToSet
  <2>4. m \in 1 .. Len(t) /\ t[m] = t[k]
    BY <1>3, <2>3
  <2>5. m = k
    BY <1>1, <2>2, <2>4 DEF Lists
  <2> QED BY <2>2, <2>3, <2>5
<1>5. s \in Seq(Windows) /\ t \in Seq(Windows)
  BY DEF Lists
<1> QED BY <1>3, <1>4, <1>5

LEMMA ConcatOrder ==
    ASSUME NEW a \in Lists, NEW b \in Lists, ToSet(a) \cap ToSet(b) = {}
    PROVE  /\ a \o b \in Lists /\ ToSet(a \o b) = ToSet(a) \cup ToSet(b)
           /\ \A v, w : Before(a \o b, v, w) <=> \/ Before(a, v, w) \/ Before(b, v, w)
                                                 \/ v \in ToSet(a) /\ w \in ToSet(b)
<1> DEFINE c == a \o b
<1>1. a \in Seq(Windows) /\ b \in Seq(Windows) /\ Len(a) \in Nat /\ Len(b) \in Nat
  BY DEF Lists
<1>2. /\ c \in Seq(Windows) /\ DOMAIN c = 1 .. Len(a) + Len(b)
      /\ \A d \in 1 .. Len(a) : c[d] = a[d]
      /\ \A d \in 1 .. Len(b) : c[d + Len(a)] = b[d]
      /\ \A d \in (Len(a) + 1) .. (Len(a) + Len(b)) :
            d - Len(a) \in 1 .. Len(b) /\ c[d] = b[d - Len(a)]
  BY <1>1, ConcatFacts
<1>3. DOMAIN a = 1 .. Len(a) /\ DOMAIN b = 1 .. Len(b)
  BY <1>1
<1> HIDE DEF c
<1>4. \A d \in DOMAIN c : \/ d \in 1 .. Len(a)
                          \/ d \in (Len(a) + 1) .. (Len(a) + Len(b))
  BY <1>1, <1>2
<1>5. \A d \in 1 .. Len(a) : a[d] \in ToSet(a) /\ c[d] = a[d] /\ d \in DOMAIN c
  BY <1>1, <1>2, <1>3 DEF ToSet
<1>6. \A d \in 1 .. Len(b) : /\ b[d] \in ToSet(b) /\ c[d + Len(a)] = b[d]
                             /\ d + Len(a) \in DOMAIN c
  <2>1. \A d \in 1 .. Len(b) : d + Len(a) \in 1 .. Len(a) + Len(b)
    BY <1>1
  <2>2. \A d \in 1 .. Len(b) : b[d] \in ToSet(b)
    BY <1>3 DEF ToSet
  <2> QED BY <1>2, <2>1, <2>2
<1>7. ASSUME NEW i \in DOMAIN c, NEW j \in DOMAIN c, c[i] = c[j] PROVE i = j
  <2>1. CASE i \in 1 .. Len(a) /\ j \in 1 .. Len(a)
    BY <1>2, <1>3, <1>7, <2>1 DEF Lists
  <2>2. CASE i \notin 1 .. Len(a) /\ j \notin 1 .. Len(a)
    <3>1. /\ i - Len(a) \in 1 .. Len(b) /\ j - Len(a) \in 1 .. Len(b)
          /\ b[i - Len(a)] = b[j - Len(a)]
      BY <1>2, <1>4, <1>7, <2>2
    <3>2. i - Len(a) = j - Len(a)
      BY <1>3, <3>1 DEF Lists
    <3> QED BY <1>1, <1>2, <3>2
  <2>3. CASE i \in 1 .. Len(a) /\ j \notin 1 .. Len(a)
    <3>1. j - Len(a) \in 1 .. Len(b) /\ c[j] = b[j - Len(a)]
      BY <1>2, <1>4, <2>3
    <3> QED BY <1>5, <1>6, <1>7, <2>3, <3>1
  <2>4. CASE i \notin 1 .. Len(a) /\ j \in 1 .. Len(a)
    <3>1. i - Len(a) \in 1 .. Len(b) /\ c[i] = b[i - Len(a)]
      BY <1>2, <1>4, <2>4
    <3> QED BY <1>5, <1>6, <1>7, <2>4, <3>1
  <2> QED BY <2>1, <2>2, <2>3, <2>4
<1>8. c \in Lists
  BY <1>2, <1>7 DEF Lists
<1>9. ToSet(c) = ToSet(a) \cup ToSet(b)
  <2>1. ASSUME NEW d \in DOMAIN c PROVE c[d] \in ToSet(a) \cup ToSet(b)
    BY <1>2, <1>4, <1>5, <1>6
  <2>2. ASSUME NEW d \in DOMAIN a PROVE a[d] \in ToSet(c)
    BY <1>3, <1>5 DEF ToSet
  <2>3. ASSUME NEW d \in DOMAIN b PROVE b[d] \in ToSet(c)
    <3>1. b[d] = c[d + Len(a)] /\ d + Len(a) \in DOMAIN c
      BY <1>3, <1>6
    <3> QED BY <3>1 DEF ToSet
  <2> QED BY <2>1, <2>2, <2>3 DEF ToSet
<1>10. ASSUME NEW v, NEW w, Before(c, v, w)
       PROVE  Before(a, v, w) \/ Before(b, v, w) \/ (v \in ToSet(a) /\ w \in ToSet(b))
  <2>1. PICK i, j \in DOMAIN c : i < j /\ c[i] = v /\ c[j] = w
    BY <1>10 DEF Before
  <2>2. CASE i \in 1 .. Len(a) /\ j \in 1 .. Len(a)
    <3>1. a[i] = v /\ a[j] = w
      BY <1>5, <2>1, <2>2
    <3>2. Before(a, v, w)
      BY <1>3, <2>1, <2>2, <3>1 DEF Before
    <3> QED BY <3>2
  <2>3. CASE i \in 1 .. Len(a) /\ j \notin 1 .. Len(a)
    <3>1. j - Len(a) \in 1 .. Len(b) /\ c[j] = b[j - Len(a)]
      BY <1>2, <1>4, <2>3
    <3> QED BY <1>5, <1>6, <2>1, <2>3, <3>1
  <2>4. CASE i \notin 1 .. Len(a)
    <3>1. j \notin 1 .. Len(a)
      BY <1>1, <1>2, <2>1, <2>4
    <3>2. /\ i - Len(a) \in 1 .. Len(b) /\ c[i] = b[i - Len(a)]
          /\ j - Len(a) \in 1 .. Len(b) /\ c[j] = b[j - Len(a)]
      BY <1>2, <1>4, <2>4, <3>1
    <3>3. i - Len(a) < j - Len(a)
      BY <1>1, <1>2, <2>1
    <3>4. Before(b, v, w)
      BY <1>3, <2>1, <3>2, <3>3 DEF Before
    <3> QED BY <3>4
  <2> QED BY <2>2, <2>3, <2>4
<1>11. ASSUME NEW v, NEW w, Before(a, v, w) PROVE Before(c, v, w)
  BY <1>3, <1>5, <1>11 DEF Before
<1>12. ASSUME NEW v, NEW w, Before(b, v, w) PROVE Before(c, v, w)
  <2>1. PICK i, j \in DOMAIN b : i < j /\ b[i] = v /\ b[j] = w
    BY <1>12 DEF Before
  <2>2. /\ c[i + Len(a)] = v /\ c[j + Len(a)] = w
        /\ i + Len(a) \in DOMAIN c /\ j + Len(a) \in DOMAIN c
    BY <1>3, <1>6, <2>1
  <2>3. i + Len(a) < j + Len(a)
    BY <1>1, <1>3, <2>1
  <2> QED BY <2>2, <2>3 DEF Before
<1>13. ASSUME NEW v \in ToSet(a), NEW w \in ToSet(b) PROVE Before(c, v, w)
  <2>1. PICK i \in DOMAIN a : a[i] = v
    BY DEF ToSet
  <2>2. PICK j \in DOMAIN b : b[j] = w
    BY DEF ToSet
  <2>3. /\ c[i] = v /\ i \in DOMAIN c
        /\ c[j + Len(a)] = w /\ j + Len(a) \in DOMAIN c
    BY <1>3, <1>5, <1>6, <2>1, <2>2
  <2>4. i < j + Len(a)
    BY <1>1, <1>3, <2>1, <2>2
  <2> QED BY <2>3, <2>4 DEF Before
<1> QED BY <1>8, <1>9, <1>10, <1>11, <1>12, <1>13 DEF c

LEMMA OneWindow ==
    ASSUME NEW e \in Windows
    PROVE  <<e>> \in Lists /\ ToSet(<<e>>) = {e} /\ \A v, w : ~Before(<<e>>, v, w)
<1>1. <<e>> \in Seq(Windows) /\ DOMAIN <<e>> = 1 .. 1 /\ <<e>>[1] = e
  OBVIOUS
<1> QED BY <1>1 DEF Lists, ToSet, Before

LEMMA NoWindow ==
    <<>> \in Lists /\ ToSet(<<>>) = {} /\ \A v, w : ~Before(<<>>, v, w)
<1>1. <<>> \in Seq(Windows) /\ DOMAIN <<>> = {}
  OBVIOUS
<1> QED BY <1>1 DEF Lists, ToSet, Before

LEMMA AppendOrder ==
    ASSUME NEW a \in Lists, NEW e \in Windows \ ToSet(a)
    PROVE  /\ Append(a, e) \in Lists /\ ToSet(Append(a, e)) = ToSet(a) \cup {e}
           /\ \A v, w : Before(Append(a, e), v, w) <=> \/ Before(a, v, w)
                                                       \/ (v \in ToSet(a) /\ w = e)
<1>1. Append(a, e) = a \o <<e>>
  BY DEF Lists
<1>2. ToSet(a) \cap ToSet(<<e>>) = {}
  BY OneWindow
<1> QED BY <1>1, <1>2, OneWindow, ConcatOrder

LEMMA EmptyList ==
    ASSUME NEW a \in Lists
    PROVE  /\ a = <<>> <=> ToSet(a) = {}
           /\ a = <<>> <=> Len(a) = 0
           /\ ToSet(a) \subseteq Windows /\ Len(a) \in Nat /\ DOMAIN a = 1 .. Len(a)
<1>1. a \in Seq(Windows) /\ Len(a) \in Nat
  BY DEF Lists
<1>2. a # <<>> => a[1] \in ToSet(a)
  BY <1>1 DEF ToSet
<1>3. ToSet(a) \subseteq Windows
  BY <1>1 DEF ToSet
<1> QED BY <1>1, <1>2, <1>3, NoWindow

LEMMA SplitOrder ==
    ASSUME NEW s \in Lists, NEW n \in 0 .. Len(s)
    PROVE  LET a == SubSeq(s, 1, n)
               b == SubSeq(s, n + 1, Len(s))
           IN  /\ a \in Lists /\ b \in Lists /\ ToSet(a) \cap ToSet(b) = {}
               /\ ToSet(a) = {s[i] : i \in 1 .. n} /\ s = a \o b
<1> DEFINE a == SubSeq(s, 1, n)
           b == SubSeq(s, n + 1, Len(s))
<1>1. s \in Seq(Windows) /\ Len(s) \in Nat /\ n \in Nat /\ n <= Len(s)
  BY EmptyList DEF Lists
<1>2. DOMAIN s = 1 .. Len(s)
  BY <1>1
<1>3. /\ a \in Seq(Windows) /\ DOMAIN a = 1 .. n
      /\ \A i \in 1 .. n : a[i] = s[i] /\ i \in 1 .. Len(s)
  BY <1>1, <1>2
<1>4. /\ b \in Seq(Windows) /\ DOMAIN b = 1 .. Len(s) - n
      /\ \A i \in 1 .. Len(s) - n : b[i] = s[n + i] /\ n + i \in 1 .. Len(s)
  BY <1>1, <1>2
<1> HIDE DEF a, b
<1>10. Len(a) = n /\ Len(b) = Len(s) - n
  BY <1>1, <1>3, <1>4
<1>5. s = a \o b
  <2>1. /\ a \o b \in Seq(Windows) /\ Len(a \o b) = Len(a) + Len(b)
        /\ \A d \in 1 .. Len(a) : (a \o b)[d] = a[d]
        /\ \A d \in (Len(a) + 1) .. (Len(a) + Len(b)) :
              d - Len(a) \in 1 .. Len(b) /\ (a \o b)[d] = b[d - Len(a)]
    BY <1>3, <1>4, ConcatFacts
  <2>2. Len(a \o b) = Len(s)
    BY <1>1, <1>10, <2>1
  <2>3. ASSUME NEW d \in 1 .. Len(s) PROVE (a \o b)[d] = s[d]
    <3>1. CASE d \in 1 .. n
      BY <1>3, <1>10, <2>1, <3>1
    <3>2. CASE d \notin 1 .. n
      <4>1. d \in (Len(a) + 1) .. (Len(a) + Len(b)) /\ d - n \in 1 .. Len(s) - n
        BY <1>1, <1>10, <3>2
      <4>2. (a \o b)[d] = b[d - n] /\ n + (d - n) = d
        BY <1>1, <1>10, <2>1, <4>1
      <4> QED BY <1>4, <4>1, <4>2
    <3> QED BY <3>1, <3>2
  <2> DEFINE c == a \o b
  <2>4. c \in Seq(Windows) /\ Len(c) = Len(s) /\ \A d \in 1 .. Len(s) : c[d] = s[d]
    BY <2>1, <2>2, <2>3
  <2> HIDE DEF c
  <2>5. c = s
    BY <1>1, <2>4
  <2> QED BY <2>5 DEF c
<1>6. a \in Lists
  BY <1>2, <1>3 DEF Lists
<1>7. b \in Lists
  <2>1. ASSUME NEW i \in DOMAIN b, NEW j \in DOMAIN b, b[i] = b[j] PROVE i = j
    <3>1. /\ s[n + i] = s[n + j] /\ n + i \in DOMAIN s /\ n + j \in DOMAIN s
      BY <1>2, <1>4, <2>1
    <3>2. n + i = n + j
      BY <3>1 DEF Lists
    <3> QED BY <1>1, <1>4, <3>2
  <2> QED BY <1>4, <2>1 DEF Lists
<1>8. ToSet(a) = {s[i] : i \in 1 .. n}
  BY <1>3 DEF ToSet
<1>9. ToSet(a) \cap ToSet(b) = {}
  <2>1. ASSUME NEW i \in DOMAIN a, NEW j \in DOMAIN b, a[i] = b[j] PROVE FALSE
    <3>1. /\ s[i] = s[n + j] /\ i \in DOMAIN s /\ n + j \in DOMAIN s
      BY <1>2, <1>3, <1>4, <2>1
    <3>2. i = n + j
      BY <3>1 DEF Lists
    <3> QED BY <1>1, <1>3, <1>4, <3>2
  <2> QED BY <2>1 DEF ToSet
<1> QED BY <1>5, <1>6, <1>7, <1>8, <1>9 DEF a, b

LEMMA PlaceFacts ==
    ASSUME NEW s \in Lists, NEW w \in ToSet(s)
    PROVE  Place(s, w) \in 1 .. Len(s) /\ Place(s, w) \in DOMAIN s /\ s[Place(s, w)] = w
<1>1. \E i \in DOMAIN s : s[i] = w
  BY DEF ToSet
<1>2. Place(s, w) \in DOMAIN s /\ s[Place(s, w)] = w
  BY <1>1 DEF Place
<1> QED BY <1>2, EmptyList

LEMMA BeforePlace ==
    ASSUME NEW s \in Lists, NEW v \in ToSet(s), NEW w \in ToSet(s)
    PROVE  Before(s, v, w) <=> Place(s, v) < Place(s, w)
<1>1. /\ Place(s, v) \in DOMAIN s /\ s[Place(s, v)] = v
      /\ Place(s, w) \in DOMAIN s /\ s[Place(s, w)] = w
  BY PlaceFacts
<1>2. ASSUME Before(s, v, w) PROVE Place(s, v) < Place(s, w)
  <2>1. PICK i, j \in DOMAIN s : i < j /\ s[i] = v /\ s[j] = w
    BY <1>2 DEF Before
  <2>2. i = Place(s, v) /\ j = Place(s, w)
    BY <1>1, <2>1 DEF Lists
  <2> QED BY <2>1, <2>2
<1>3. ASSUME Place(s, v) < Place(s, w) PROVE Before(s, v, w)
  BY <1>1, <1>3 DEF Before
<1> QED BY <1>2, <1>3

(* w is ahead of the place before p; Root stands for the end. *)
Ahead(s, w, p) == p = Root \/ Before(s, w, p)

LEMMA PutBeforeOrder ==
    ASSUME NEW s \in Lists, NEW l \in Lists, ToSet(s) \cap ToSet(l) = {},
           NEW p \in ToSet(s) \cup {Root}
    PROVE  /\ PutBefore(s, l, p) \in Lists
           /\ ToSet(PutBefore(s, l, p)) = ToSet(s) \cup ToSet(l)
           /\ \A v, w : Before(PutBefore(s, l, p), v, w) <=>
                          \/ Before(s, v, w) \/ Before(l, v, w)
                          \/ (v \in ToSet(s) /\ w \in ToSet(l) /\ Ahead(s, v, p))
                          \/ (v \in ToSet(l) /\ w \in ToSet(s) /\ ~Ahead(s, w, p))
<1> DEFINE n == IF p = Root THEN Len(s) ELSE Place(s, p) - 1
           a == SubSeq(s, 1, n)
           b == SubSeq(s, n + 1, Len(s))
<1>1. Len(s) \in Nat /\ DOMAIN s = 1 .. Len(s) /\ ToSet(s) \subseteq Windows
  BY EmptyList
<1>2. p # Root => Place(s, p) \in 1 .. Len(s) /\ s[Place(s, p)] = p
  BY PlaceFacts
<1>3. n \in 0 .. Len(s)
  BY <1>1, <1>2
<1>4. \A i \in 1 .. Len(s) : i \in 1 .. n <=> p = Root \/ i < Place(s, p)
  BY <1>1, <1>2
<1>5. PutBefore(s, l, p) = a \o l \o b
  BY DEF PutBefore
<1> HIDE DEF n
<1>6. /\ a \in Lists /\ b \in Lists /\ ToSet(a) \cap ToSet(b) = {}
      /\ ToSet(a) = {s[i] : i \in 1 .. n} /\ s = a \o b
  BY <1>3, SplitOrder
<1> HIDE DEF a, b
<1>7. /\ ToSet(s) = ToSet(a) \cup ToSet(b)
      /\ \A v, w : Before(s, v, w) <=> \/ Before(a, v, w) \/ Before(b, v, w)
                                       \/ (v \in ToSet(a) /\ w \in ToSet(b))
  BY <1>6, ConcatOrder
<1>8. ASSUME NEW v \in ToSet(s) PROVE v \in ToSet(a) <=> Ahead(s, v, p)
  <2>1. Place(s, v) \in 1 .. Len(s) /\ s[Place(s, v)] = v
    BY PlaceFacts
  <2>2. v \in ToSet(a) <=> Place(s, v) \in 1 .. n
    <3>1. ASSUME v \in ToSet(a) PROVE Place(s, v) \in 1 .. n
      <4>1. PICK i \in 1 .. n : s[i] = v
        BY <1>6, <3>1
      <4>2. i \in DOMAIN s /\ Place(s, v) \in DOMAIN s
        BY <1>1, <1>3, <2>1, <4>1
      <4> QED BY <2>1, <4>1, <4>2 DEF Lists
    <3> QED BY <1>6, <2>1, <3>1
  <2>3. CASE p = Root
    BY <1>4, <2>1, <2>2, <2>3 DEF Ahead
  <2>4. CASE p # Root
    <3>1. Before(s, v, p) <=> Place(s, v) < Place(s, p)
      BY <2>4, BeforePlace
    <3> QED BY <1>4, <2>1, <2>2, <2>4, <3>1 DEF Ahead
  <2> QED BY <2>3, <2>4
<1>9. /\ a \o l \in Lists /\ ToSet(a \o l) = ToSet(a) \cup ToSet(l)
      /\ \A v, w : Before(a \o l, v, w) <=> \/ Before(a, v, w) \/ Before(l, v, w)
                                            \/ (v \in ToSet(a) /\ w \in ToSet(l))
  <2>1. ToSet(a) \cap ToSet(l) = {}
    BY <1>7
  <2> QED BY <1>6, <2>1, ConcatOrder
<1> DEFINE c == a \o l
<1> HIDE DEF c
<1>10. /\ c \o b \in Lists /\ ToSet(c \o b) = ToSet(c) \cup ToSet(b)
       /\ \A v, w : Before(c \o b, v, w) <=> \/ Before(c, v, w) \/ Before(b, v, w)
                                             \/ (v \in ToSet(c) /\ w \in ToSet(b))
  <2>1. c \in Lists /\ ToSet(c) \cap ToSet(b) = {}
    BY <1>6, <1>7, <1>9 DEF c
  <2> QED BY <1>6, <2>1, ConcatOrder
<1>11. PutBefore(s, l, p) = c \o b
  BY <1>5 DEF c
<1>12. \A v, w : Before(c, v, w) <=> \/ Before(a, v, w) \/ Before(l, v, w)
                                     \/ (v \in ToSet(a) /\ w \in ToSet(l))
  BY <1>9 DEF c
<1>13. ToSet(c) = ToSet(a) \cup ToSet(l)
  BY <1>9 DEF c
<1>14. ASSUME NEW v, NEW w
       PROVE  Before(c \o b, v, w) <=>
                  \/ Before(s, v, w) \/ Before(l, v, w)
                  \/ (v \in ToSet(s) /\ w \in ToSet(l) /\ Ahead(s, v, p))
                  \/ (v \in ToSet(l) /\ w \in ToSet(s) /\ ~Ahead(s, w, p))
  <2>1. v \in ToSet(s) /\ Ahead(s, v, p) <=> v \in ToSet(a)
    BY <1>7, <1>8
  <2>2. w \in ToSet(s) /\ ~Ahead(s, w, p) <=> w \in ToSet(b)
    BY <1>6, <1>7, <1>8
  <2> QED BY <1>7, <1>10, <1>12, <1>13, <2>1, <2>2
<1>15. ToSet(c \o b) = ToSet(s) \cup ToSet(l)
  BY <1>7, <1>10, <1>13
<1> QED BY <1>10, <1>11, <1>14, <1>15

LEMMA OnlyOrder ==
    ASSUME NEW s \in Lists, NEW T
    PROVE  /\ Only(s, T) \in Lists /\ ToSet(Only(s, T)) = ToSet(s) \cap T
           /\ \A v, w : Before(Only(s, T), v, w) <=> v \in T /\ w \in T /\ Before(s, v, w)
<1> DEFINE n == Len(s)
           D == Seq(Windows)
           Body(k, i) == IF s[i] \in T THEN Append(k, s[i]) ELSE k
           Is(f) == f = [i \in 0 .. n |->
                           IF i = 0 THEN <<>>
                           ELSE IF s[i] \in T THEN Append(f[i - 1], s[i]) ELSE f[i - 1]]
           kept == CHOOSE f : Is(f)
<1>1. n \in Nat /\ s \in Seq(Windows) /\ DOMAIN s = 1 .. n
  BY EmptyList DEF Lists
<1>2. \E f : Is(f)
  <2> DEFINE step == [i \in 1 .. n |-> [k \in D |-> Body(k, i)]]
  <2>1. \A i \in 1 .. n : \A k \in D : Body(k, i) \in D
    BY <1>1
  <2>2. step \in Steps(D, n) /\ <<>> \in D
    BY <2>1 DEF Steps
  <2>3. \A i \in 1 .. n : \A k \in D : step[i][k] = Body(k, i)
    OBVIOUS
  <2> HIDE DEF step, D
  <2>6. PICK f : Iterates(f, D, <<>>, n, step)
    <3>1. n \in Nat
      BY <1>1
    <3> HIDE DEF n
    <3> QED BY <2>2, <3>1, Recursion
  <2>4. /\ f \in [0 .. n -> D] /\ f[0] = <<>>
        /\ \A i \in 1 .. n : f[i] = step[i][f[i - 1]]
    BY <2>6 DEF Iterates
  <2>5. ASSUME NEW i \in 0 .. n
        PROVE  f[i] = IF i = 0 THEN <<>>
                      ELSE IF s[i] \in T THEN Append(f[i - 1], s[i]) ELSE f[i - 1]
    <3>1. CASE i = 0
      BY <2>4, <3>1
    <3>2. CASE i # 0
      <4>1. i \in 1 .. n /\ i - 1 \in 0 .. n
        BY <1>1, <3>2
      <4> QED BY <2>3, <2>4, <3>2, <4>1
    <3> QED BY <3>1, <3>2
  <2>7. Is(f)
    BY <2>4, <2>5
  <2> QED BY <2>7
<1>3. Is(kept)
  BY <1>2
<1>4. Only(s, T) = kept[n]
  BY DEF Only
<1> HIDE DEF kept
<1>5. kept[0] = <<>> /\ \A i \in 1 .. n :
                           kept[i] = IF s[i] \in T THEN Append(kept[i - 1], s[i]) ELSE kept[i - 1]
  <2>1. ASSUME NEW i \in 1 .. n
        PROVE  kept[i] = IF s[i] \in T THEN Append(kept[i - 1], s[i]) ELSE kept[i - 1]
    <3>1. i \in 0 .. n /\ i # 0
      BY <1>1
    <3> QED BY <1>3, <3>1
  <2>2. kept[0] = <<>>
    BY <1>1, <1>3
  <2> QED BY <2>1, <2>2
<1> DEFINE Part(i) == {s[j] : j \in 1 .. i}
           Good(k, i) == /\ k \in Lists /\ ToSet(k) = Part(i) \cap T
                         /\ \A v, w : Before(k, v, w) <=>
                                         /\ v \in Part(i) \cap T /\ w \in Part(i) \cap T
                                         /\ Before(s, v, w)
           P == {i \in 0 .. n : Good(kept[i], i)}
<1>6. 0 \in P
  <2>1. Part(0) = {}
    OBVIOUS
  <2> QED BY <1>1, <1>5, <2>1, NoWindow
<1>7. ASSUME NEW i \in 1 .. n, i - 1 \in P PROVE i \in P
  <2> DEFINE k == kept[i - 1]
  <2>1. Good(k, i - 1)
    BY <1>7
  <2>2. Part(i) = Part(i - 1) \cup {s[i]}
    <3>1. \A j \in 1 .. i : j = i \/ j \in 1 .. i - 1
      BY <1>1
    <3>2. \A j \in 1 .. i - 1 : j \in 1 .. i
      BY <1>1
    <3> QED BY <3>1, <3>2
  <2>3. CASE s[i] \notin T
    <3>1. kept[i] = k /\ Part(i) \cap T = Part(i - 1) \cap T
      BY <1>5, <2>2, <2>3
    <3>2. Good(kept[i], i)
      BY <2>1, <3>1
    <3> QED BY <3>2
  <2>4. CASE s[i] \in T
    <3>1. kept[i] = Append(k, s[i]) /\ Part(i) \cap T = (Part(i - 1) \cap T) \cup {s[i]}
      BY <1>5, <2>2, <2>4
    <3>2. s[i] \notin Part(i - 1) /\ s[i] \in Windows
      <4>1. ASSUME NEW j \in 1 .. i - 1, s[j] = s[i] PROVE FALSE
        <5>1. j \in DOMAIN s /\ i \in DOMAIN s /\ i # j
          BY <1>1
        <5> QED BY <4>1, <5>1 DEF Lists
      <4> QED BY <1>1, <4>1
    <3>3. \A v \in Part(i - 1) : Before(s, v, s[i]) /\ ~Before(s, s[i], v)
      <4> SUFFICES ASSUME NEW j \in 1 .. i - 1
                   PROVE  Before(s, s[j], s[i]) /\ ~Before(s, s[i], s[j])
        OBVIOUS
      <4>1. Before(s, s[j], s[i])
        BY <1>1 DEF Before
      <4> QED BY <4>1, OrderFacts
    <3>4. ~Before(s, s[i], s[i])
      BY OrderFacts
    <3>5. /\ Append(k, s[i]) \in Lists /\ ToSet(Append(k, s[i])) = ToSet(k) \cup {s[i]}
          /\ \A v, w : Before(Append(k, s[i]), v, w) <=> \/ Before(k, v, w)
                                                         \/ (v \in ToSet(k) /\ w = s[i])
      <4>1. k \in Lists /\ s[i] \in Windows \ ToSet(k)
        BY <2>1, <3>2
      <4> QED BY <4>1, AppendOrder
    <3> HIDE DEF k, Part
    <3>6. Good(kept[i], i)
      BY <2>1, <3>1, <3>3, <3>4, <3>5
    <3> QED BY <3>6 DEF k, Part
  <2> QED BY <2>3, <2>4
<1>8. n \in P
  <2> HIDE DEF P
  <2>1. 0 .. n \subseteq P
    BY <1>1, <1>6, <1>7, UpTo
  <2> QED BY <1>1, <2>1
<1>9. Part(n) = ToSet(s)
  BY <1>1 DEF ToSet
<1>10. Good(Only(s, T), n)
  BY <1>4, <1>8
<1> HIDE DEF Part
<1> QED BY <1>9, <1>10, OrderFacts

LEMMA WithoutOrder ==
    ASSUME NEW s \in Lists, NEW T
    PROVE  /\ Without(s, T) \in Lists /\ ToSet(Without(s, T)) = ToSet(s) \ T
           /\ \A v, w : Before(Without(s, T), v, w) <=>
                          v \notin T /\ w \notin T /\ Before(s, v, w)
<1> DEFINE U == ToSet(s) \ T
<1>1. /\ Only(s, U) \in Lists /\ ToSet(Only(s, U)) = ToSet(s) \cap U
      /\ \A v, w : Before(Only(s, U), v, w) <=> v \in U /\ w \in U /\ Before(s, v, w)
  BY OnlyOrder
<1>2. \A v, w : Before(s, v, w) => v \in ToSet(s) /\ w \in ToSet(s)
  BY OrderFacts
<1> QED BY <1>1, <1>2 DEF Without

LEMMA NextOrder ==
    ASSUME NEW s \in Lists, NEW w \in ToSet(s)
    PROVE  /\ NextIn(s, w) \in (ToSet(s) \ {w}) \cup {Root}
           /\ NextIn(s, w) # Root => Before(s, w, NextIn(s, w))
           /\ \A v \in ToSet(s) : Ahead(s, v, NextIn(s, w)) <=> v = w \/ Before(s, v, w)
<1> DEFINE k == Place(s, w)
           n == Len(s)
           p == NextIn(s, w)
<1>1. /\ k \in 1 .. n /\ k \in DOMAIN s /\ s[k] = w /\ n \in Nat /\ DOMAIN s = 1 .. n
      /\ ToSet(s) \subseteq Windows /\ Root \notin Windows
  BY PlaceFacts, EmptyList, StackAssumption DEF StackAssumption
<1>2. \A v \in ToSet(s) : /\ Place(s, v) \in 1 .. n /\ s[Place(s, v)] = v
                          /\ Before(s, v, w) <=> Place(s, v) < k
  BY PlaceFacts, BeforePlace
<1>3. CASE w = Last(s)
  <2>1. p = Root
    BY <1>3 DEF NextIn
  <2>2. k = n
    <3>1. s[n] = w /\ n \in DOMAIN s
      BY <1>1, <1>3 DEF Last
    <3> QED BY <1>1, <3>1 DEF Lists
  <2>3. ASSUME NEW v \in ToSet(s) PROVE v = w \/ Before(s, v, w)
    <3>1. Place(s, v) = n \/ Place(s, v) < n
      BY <1>1, <1>2
    <3> QED BY <1>1, <1>2, <2>2, <3>1
  <2> HIDE DEF p
  <2>4. \A v : Ahead(s, v, p)
    BY <2>1 DEF Ahead
  <2> QED BY <2>1, <2>3, <2>4 DEF p
<1>4. CASE w # Last(s)
  <2>1. p = s[k + 1]
    BY <1>4 DEF NextIn
  <2>2. k # n
    BY <1>1, <1>4 DEF Last
  <2>3. k + 1 \in 1 .. n /\ k < k + 1
    BY <1>1, <2>2
  <2> HIDE DEF p
  <2>4. p \in ToSet(s) /\ Before(s, w, p)
    BY <1>1, <2>1, <2>3 DEF ToSet, Before
  <2>5. p # w /\ p # Root
    BY <1>1, <2>4, OrderFacts
  <2>6. Place(s, p) = k + 1
    <3>1. Place(s, p) \in DOMAIN s /\ s[Place(s, p)] = s[k + 1] /\ k + 1 \in DOMAIN s
      BY <1>1, <1>2, <2>1, <2>3, <2>4
    <3> QED BY <3>1 DEF Lists
  <2>7. ASSUME NEW v \in ToSet(s) PROVE Ahead(s, v, p) <=> v = w \/ Before(s, v, w)
    <3>1. Before(s, v, p) <=> Place(s, v) < k + 1
      BY <2>4, <2>6, BeforePlace
    <3>2. Place(s, v) = k <=> v = w
      BY <1>1, <1>2
    <3>3. Place(s, v) < k + 1 <=> Place(s, v) = k \/ Place(s, v) < k
      BY <1>1, <1>2
    <3> QED BY <1>2, <2>5, <3>1, <3>2, <3>3 DEF Ahead
  <2> QED BY <2>4, <2>5, <2>7 DEF p
<1> QED BY <1>3, <1>4

LEMMA HeadOrder ==
    ASSUME NEW s \in Lists, s # <<>>
    PROVE  /\ Head(s) \in ToSet(s)
           /\ \A v \in ToSet(s) : v = Head(s) \/ Before(s, Head(s), v)
           /\ \A v : ~Before(s, v, Head(s))
           /\ Tail(s) \in Lists /\ ToSet(Tail(s)) = ToSet(s) \ {Head(s)}
           /\ \A v, w : Before(Tail(s), v, w) <=> v # Head(s) /\ Before(s, v, w)
<1>1. s \in Seq(Windows) /\ DOMAIN s = 1 .. Len(s)
  BY EmptyList DEF Lists
<1>2. /\ Tail(s) \in Seq(Windows) /\ Head(s) \in Windows
      /\ DOMAIN Tail(s) = 1 .. Len(s) - 1 /\ Head(s) = s[1]
      /\ \A d \in 1 .. Len(s) - 1 : Tail(s)[d] = s[d + 1]
  BY <1>1, TailFacts
<1> DEFINE h == Head(s)
           t == Tail(s)
           n == Len(s)
<1>3. n \in Nat /\ 1 \in 1 .. n
  BY <1>1
<1>4. h \in ToSet(s)
  BY <1>1, <1>2, <1>3 DEF ToSet
<1>5. Place(s, h) = 1
  <2>1. Place(s, h) \in DOMAIN s /\ s[Place(s, h)] = s[1]
    BY <1>2, <1>4, PlaceFacts
  <2> QED BY <1>1, <1>3, <2>1 DEF Lists
<1>6. ASSUME NEW v \in ToSet(s) PROVE ~Before(s, v, h) /\ (v = h \/ Before(s, h, v))
  <2>1. Place(s, v) \in 1 .. n /\ s[Place(s, v)] = v
    BY PlaceFacts
  <2>2. /\ Before(s, v, h) <=> Place(s, v) < 1
        /\ Before(s, h, v) <=> 1 < Place(s, v)
    BY <1>4, <1>5, BeforePlace
  <2> QED BY <1>2, <1>3, <2>1, <2>2
<1> HIDE DEF h, t
<1>7. /\ t \in Seq(Windows) /\ DOMAIN t = 1 .. n - 1 /\ h = s[1]
      /\ \A d \in 1 .. n - 1 : t[d] = s[d + 1] /\ d + 1 \in 1 .. n /\ d + 1 # 1
  BY <1>2, <1>3 DEF h, t
<1> HIDE DEF n
<1>8. DOMAIN s = 1 .. n
  BY <1>1 DEF n
<1>9. t \in Lists
  <2>1. ASSUME NEW i \in DOMAIN t, NEW j \in DOMAIN t, t[i] = t[j] PROVE i = j
    <3>1. s[i + 1] = s[j + 1] /\ i + 1 \in DOMAIN s /\ j + 1 \in DOMAIN s
      BY <1>7, <1>8, <2>1
    <3>2. i + 1 = j + 1
      BY <3>1 DEF Lists
    <3> QED BY <1>3, <1>7, <3>2
  <2> QED BY <1>7, <2>1 DEF Lists
<1>10. ToSet(t) = ToSet(s) \ {h}
  <2>1. ASSUME NEW d \in DOMAIN t PROVE t[d] \in ToSet(s) \ {h}
    <3>1. t[d] = s[d + 1] /\ d + 1 \in DOMAIN s /\ d + 1 # 1 /\ 1 \in DOMAIN s
      BY <1>3, <1>7, <1>8, <2>1
    <3> QED BY <1>7, <3>1 DEF ToSet, Lists
  <2>2. ASSUME NEW d \in DOMAIN s, s[d] # h PROVE s[d] \in ToSet(t)
    <3>1. d - 1 \in 1 .. n - 1 /\ (d - 1) + 1 = d
      BY <1>3, <1>7, <1>8, <2>2
    <3>2. t[d - 1] = s[d] /\ d - 1 \in DOMAIN t
      BY <1>7, <3>1
    <3> QED BY <3>2 DEF ToSet
  <2> QED BY <2>1, <2>2 DEF ToSet
<1>11. ASSUME NEW v, NEW w, Before(t, v, w) PROVE v # h /\ Before(s, v, w)
  <2>1. PICK i, j \in DOMAIN t : i < j /\ t[i] = v /\ t[j] = w
    BY <1>11 DEF Before
  <2>2. /\ s[i + 1] = v /\ s[j + 1] = w /\ i + 1 \in DOMAIN s /\ j + 1 \in DOMAIN s
        /\ i + 1 < j + 1
    BY <1>3, <1>7, <1>8, <2>1
  <2>3. v \in ToSet(t)
    BY <2>1 DEF ToSet
  <2> QED BY <1>10, <2>2, <2>3 DEF Before
<1>12. ASSUME NEW v, NEW w, v # h, Before(s, v, w) PROVE Before(t, v, w)
  <2>1. PICK i, j \in DOMAIN s : i < j /\ s[i] = v /\ s[j] = w
    BY <1>12 DEF Before
  <2>2. i # 1
    BY <1>7, <1>12, <2>1
  <2>3. /\ i - 1 \in 1 .. n - 1 /\ j - 1 \in 1 .. n - 1 /\ i - 1 < j - 1
        /\ (i - 1) + 1 = i /\ (j - 1) + 1 = j
    BY <1>3, <1>8, <2>1, <2>2
  <2>4. t[i - 1] = v /\ t[j - 1] = w
    BY <1>7, <2>1, <2>3
  <2> QED BY <1>7, <2>3, <2>4 DEF Before
<1>13. \A v : ~Before(s, v, h)
  BY <1>6, OrderFacts
<1> QED BY <1>4, <1>6, <1>9, <1>10, <1>11, <1>12, <1>13 DEF h, t

LEMMA PrevOrder ==
    ASSUME NEW s \in Lists, NEW w \in ToSet(s)
    PROVE  /\ PrevIn(s, w) \in (ToSet(s) \ {w}) \cup {Root}
           /\ PrevIn(s, w) = Root => \A v : ~Before(s, v, w)
           /\ PrevIn(s, w) # Root =>
                 \A v : Before(s, v, w) <=> v = PrevIn(s, w) \/ Before(s, v, PrevIn(s, w))
<1> DEFINE k == Place(s, w)
           n == Len(s)
           p == PrevIn(s, w)
<1>1. /\ k \in 1 .. n /\ k \in DOMAIN s /\ s[k] = w /\ n \in Nat /\ DOMAIN s = 1 .. n
      /\ ToSet(s) \subseteq Windows /\ Root \notin Windows
  BY PlaceFacts, EmptyList, StackAssumption DEF StackAssumption
<1>2. s # <<>> /\ s \in Seq(Windows)
  BY EmptyList DEF Lists
<1>3. CASE w = Head(s)
  BY <1>2, <1>3, HeadOrder DEF PrevIn
<1>4. CASE w # Head(s)
  <2>1. p = s[k - 1]
    BY <1>4 DEF PrevIn
  <2>2. k # 1
    BY <1>1, <1>2, <1>4
  <2>3. k - 1 \in 1 .. n /\ k - 1 < k
    BY <1>1, <2>2
  <2> HIDE DEF p
  <2>4. p \in ToSet(s) /\ Before(s, p, w)
    BY <1>1, <2>1, <2>3 DEF ToSet, Before
  <2>5. p # w /\ p # Root
    BY <1>1, <2>4, OrderFacts
  <2>6. Place(s, p) = k - 1
    <3>1. Place(s, p) \in DOMAIN s /\ s[Place(s, p)] = s[k - 1] /\ k - 1 \in DOMAIN s
      BY <1>1, <2>1, <2>3, <2>4, PlaceFacts
    <3> QED BY <3>1 DEF Lists
  <2>7. ASSUME NEW v \in ToSet(s) PROVE Before(s, v, w) <=> v = p \/ Before(s, v, p)
    <3>1. /\ Before(s, v, p) <=> Place(s, v) < k - 1
          /\ Before(s, v, w) <=> Place(s, v) < k
      BY <2>4, <2>6, BeforePlace
    <3>2. Place(s, v) = k - 1 <=> v = p
      BY <2>1, <2>6, PlaceFacts
    <3>3. Place(s, v) \in 1 .. n
      BY PlaceFacts
    <3>4. Place(s, v) < k <=> Place(s, v) = k - 1 \/ Place(s, v) < k - 1
      BY <1>1, <3>3
    <3> QED BY <3>1, <3>2, <3>4
  <2>8. \A v : Before(s, v, w) \/ Before(s, v, p) => v \in ToSet(s)
    BY OrderFacts
  <2>9. \A v : Before(s, v, w) <=> v = p \/ Before(s, v, p)
    BY <2>4, <2>7, <2>8
  <2> QED BY <2>4, <2>5, <2>9 DEF p
<1> QED BY <1>3, <1>4

LEMMA XRestackOrder ==
    ASSUME NEW s \in Lists, NEW l \in Lists, l # <<>>, ToSet(l) \subseteq ToSet(s)
    PROVE  /\ XRestackWindows(s, l) \in Lists
           /\ ToSet(XRestackWindows(s, l)) = ToSet(s)
           /\ \A v, w \in ToSet(s) \ ToSet(l) :
                 Before(XRestackWindows(s, l), v, w) <=> Before(s, v, w)
           /\ \A v, w \in ToSet(l) : Before(XRestackWindows(s, l), v, w) <=> Before(l, v, w)
           /\ \A v \in ToSet(s) \ ToSet(l) : \A w \in ToSet(l) :
                 Before(XRestackWindows(s, l), v, w) <=> Before(s, v, Head(l))
<1> DEFINE h == Head(l)
           t == Tail(l)
           rest == Without(s, ToSet(t))
           q == NextIn(rest, h)
           r == PutBefore(rest, t, q)
<1>1. /\ h \in ToSet(l) /\ t \in Lists /\ ToSet(t) = ToSet(l) \ {h}
      /\ \A w \in ToSet(l) : w = h \/ Before(l, h, w)
      /\ \A v : ~Before(l, v, h)
      /\ \A v, w : Before(t, v, w) <=> v # h /\ Before(l, v, w)
  BY HeadOrder
<1>2. XRestackWindows(s, l) = r
  BY DEF XRestackWindows
<1> HIDE DEF h, t
<1>3. /\ rest \in Lists /\ ToSet(rest) = ToSet(s) \ ToSet(t)
      /\ \A v, w : Before(rest, v, w) <=> v \notin ToSet(t) /\ w \notin ToSet(t) /\ Before(s, v, w)
  BY WithoutOrder
<1> HIDE DEF rest
<1>4. h \in ToSet(rest)
  BY <1>1, <1>3
<1>5. /\ q \in ToSet(rest) \cup {Root}
      /\ \A v \in ToSet(rest) : Ahead(rest, v, q) <=> v = h \/ Before(rest, v, h)
  BY <1>3, <1>4, NextOrder
<1> HIDE DEF q
<1>6. /\ r \in Lists /\ ToSet(r) = ToSet(rest) \cup ToSet(t)
      /\ \A v, w : Before(r, v, w) <=>
                     \/ Before(rest, v, w) \/ Before(t, v, w)
                     \/ (v \in ToSet(rest) /\ w \in ToSet(t) /\ Ahead(rest, v, q))
                     \/ (v \in ToSet(t) /\ w \in ToSet(rest) /\ ~Ahead(rest, w, q))
  <2>1. ToSet(rest) \cap ToSet(t) = {}
    BY <1>3
  <2> QED BY <1>1, <1>3, <1>5, <2>1, PutBeforeOrder
<1> HIDE DEF r
<1>7. /\ \A v, w : Before(rest, v, w) => v \in ToSet(rest) /\ w \in ToSet(rest)
      /\ \A v, w : Before(t, v, w) => v \in ToSet(t) /\ w \in ToSet(t)
      /\ \A v, w : Before(l, v, w) => v \in ToSet(l) /\ w \in ToSet(l)
  BY <1>1, <1>3, OrderFacts
<1>8. ToSet(r) = ToSet(s)
  BY <1>1, <1>3, <1>6
<1>9. ASSUME NEW v \in ToSet(s) \ ToSet(l), NEW w \in ToSet(s) \ ToSet(l)
      PROVE  Before(r, v, w) <=> Before(s, v, w)
  BY <1>1, <1>3, <1>6, <1>7
<1>10. ASSUME NEW v \in ToSet(l), NEW w \in ToSet(l)
       PROVE  Before(r, v, w) <=> Before(l, v, w)
  <2>1. CASE v = h
    <3>1. ~Before(rest, h, h) /\ h \notin ToSet(t) /\ Ahead(rest, h, q)
      BY <1>1, <1>3, <1>4, <1>5, OrderFacts
    <3>2. CASE w = h
      BY <1>1, <1>6, <1>7, <2>1, <3>1, <3>2
    <3>3. CASE w # h
      BY <1>1, <1>4, <1>6, <2>1, <3>1, <3>3
    <3> QED BY <3>2, <3>3
  <2>2. CASE v # h
    <3>1. v \in ToSet(t) /\ v \notin ToSet(rest)
      BY <1>1, <1>3, <2>2
    <3>2. w \in ToSet(rest) => Ahead(rest, w, q)
      BY <1>1, <1>3, <1>5
    <3> QED BY <1>1, <1>6, <1>7, <2>2, <3>1, <3>2
  <2> QED BY <2>1, <2>2
<1>11. ASSUME NEW v \in ToSet(s) \ ToSet(l), NEW w \in ToSet(l)
       PROVE  Before(r, v, w) <=> Before(s, v, h)
  <2>1. v \in ToSet(rest) /\ v \notin ToSet(t) /\ v # h
    BY <1>1, <1>3
  <2>2. Before(rest, v, h) <=> Before(s, v, h)
    BY <1>1, <1>3, <2>1
  <2>3. Ahead(rest, v, q) <=> Before(rest, v, h)
    BY <1>5, <2>1
  <2>4. CASE w = h
    BY <1>1, <1>6, <1>7, <2>1, <2>2, <2>4
  <2>5. CASE w # h
    <3>1. w \in ToSet(t) /\ w \notin ToSet(rest)
      BY <1>1, <1>3, <2>5
    <3> QED BY <1>6, <1>7, <2>1, <2>2, <2>3, <3>1
  <2> QED BY <2>4, <2>5
<1> QED BY <1>2, <1>6, <1>8, <1>9, <1>10, <1>11 DEF h

(* The first of the frames that StackFrames moves goes where the list goes in
   the ring, and the others follow it. *)
FramesAgree(s, l, p, lower) ==
    LET placed == PutBefore(Without(s, ToSet(l)), l, p)
    IN  StackFrames(s, l, PrevIn(placed, Head(l)), p, lower) = placed

LEMMA FramesFollow ==
    ASSUME NEW s \in Lists, NEW l \in Lists, l # <<>>, ToSet(l) \subseteq ToSet(s),
           NEW p \in (ToSet(s) \ ToSet(l)) \cup {Root}, NEW lower
    PROVE  FramesAgree(s, l, p, lower)
<1> USE DEF FramesAgree
<1> DEFINE h == Head(l)
           L == ToSet(l)
           W == Without(s, L)
           placed == PutBefore(W, l, p)
           r == PrevIn(placed, h)
           others == Without(s, {h})
           b == IF r # Root THEN NextIn(others, r)
                ELSE IF p = Root /\ lower /\ others # <<>> THEN Head(others) ELSE p
           put == PutBefore(others, <<h>>, b)
<1>1. /\ h \in L /\ \A v : ~Before(l, v, h)
      /\ \A w \in L : w = h \/ Before(l, h, w)
  BY HeadOrder
<1>2. L \subseteq Windows /\ Root \notin Windows /\ ToSet(s) \subseteq Windows
  BY EmptyList, StackAssumption DEF StackAssumption
<1>3. StackFrames(s, l, r, p, lower) = XRestackWindows(put, l)
  BY DEF StackFrames
<1> HIDE DEF h
<1>4. /\ W \in Lists /\ ToSet(W) = ToSet(s) \ L
      /\ \A v, w : Before(W, v, w) <=> v \notin L /\ w \notin L /\ Before(s, v, w)
  BY WithoutOrder
<1>5. /\ others \in Lists /\ ToSet(others) = ToSet(s) \ {h}
      /\ \A v, w : Before(others, v, w) <=> v \notin {h} /\ w \notin {h} /\ Before(s, v, w)
  BY WithoutOrder
<1>6. /\ placed \in Lists /\ ToSet(placed) = ToSet(s)
      /\ \A v, w : Before(placed, v, w) <=>
                     \/ Before(W, v, w) \/ Before(l, v, w)
                     \/ (v \in ToSet(W) /\ w \in L /\ Ahead(W, v, p))
                     \/ (v \in L /\ w \in ToSet(W) /\ ~Ahead(W, w, p))
  <2>1. ToSet(W) \cap ToSet(l) = {} /\ p \in ToSet(W) \cup {Root}
    BY <1>4
  <2>2. /\ placed \in Lists /\ ToSet(placed) = ToSet(W) \cup L
        /\ \A v, w : Before(placed, v, w) <=>
                       \/ Before(W, v, w) \/ Before(l, v, w)
                       \/ (v \in ToSet(W) /\ w \in L /\ Ahead(W, v, p))
                       \/ (v \in L /\ w \in ToSet(W) /\ ~Ahead(W, w, p))
    BY <1>4, <2>1, PutBeforeOrder
  <2> QED BY <1>4, <2>2
<1> HIDE DEF L, W, placed, others
<1>7. /\ \A v, w : Before(W, v, w) => v \in ToSet(W) /\ w \in ToSet(W)
      /\ \A v, w : Before(l, v, w) => v \in L /\ w \in L
  BY <1>4, OrderFacts DEF L
<1>8. \A v \in ToSet(W) : Before(placed, v, h) <=> Ahead(W, v, p)
  BY <1>1, <1>4, <1>6, <1>7
<1>9. h \in ToSet(placed) /\ ToSet(l) = L
  BY <1>1, <1>6 DEF L
<1>10. /\ b \in ToSet(others) \cup {Root}
       /\ \A v \in ToSet(W) : Ahead(others, v, b) <=> Ahead(W, v, p)
  <2>1. CASE r # Root
    <3>1. /\ r \in ToSet(placed) \ {h}
          /\ \A v : Before(placed, v, h) <=> v = r \/ Before(placed, v, r)
      BY <1>6, <1>9, <2>1, PrevOrder
    <3> HIDE DEF r
    <3>2. r \notin L
      <4> SUFFICES ASSUME r \in L PROVE FALSE
        OBVIOUS
      <4>1. Before(l, h, r)
        BY <1>1, <3>1
      <4>2. Before(placed, h, r) /\ Before(placed, r, h)
        BY <1>6, <3>1, <4>1
      <4> QED BY <1>6, <4>2, OrderFacts
    <3>3. r \in ToSet(W) /\ r \in ToSet(others)
      BY <1>4, <1>5, <1>6, <3>1, <3>2
    <3>4. /\ b \in ToSet(others) \cup {Root}
          /\ \A v \in ToSet(others) : Ahead(others, v, b) <=> v = r \/ Before(others, v, r)
      BY <1>5, <2>1, <3>3, NextOrder
    <3>5. ASSUME NEW v \in ToSet(W) PROVE Ahead(others, v, b) <=> Ahead(W, v, p)
      <4>1. v \in ToSet(others) /\ v # h /\ r # h /\ v \notin L
        BY <1>1, <1>4, <1>5, <3>1
      <4>2. Before(others, v, r) <=> Before(s, v, r)
        BY <1>5, <4>1
      <4>3. Before(placed, v, r) <=> Before(s, v, r)
        BY <1>4, <1>6, <1>7, <3>2, <4>1
      <4> QED BY <1>8, <3>1, <3>4, <4>1, <4>2, <4>3
    <3> QED BY <3>4, <3>5
  <2>2. CASE r = Root
    <3>1. \A v : ~Before(placed, v, h)
      BY <1>6, <1>9, <2>2, PrevOrder
    <3>2. \A v \in ToSet(W) : ~Ahead(W, v, p)
      BY <1>8, <3>1
    <3>3. CASE p = Root
      <4>1. ToSet(W) = {}
        BY <3>2, <3>3 DEF Ahead
      <4>2. b \in ToSet(others) \cup {Root}
        BY <1>5, <2>2, <3>3, HeadOrder
      <4> QED BY <4>1, <4>2
    <3>4. CASE p # Root
      <4>1. b = p
        BY <2>2, <3>4
      <4>2. p \in ToSet(others) /\ p \notin L
        BY <1>1, <1>5, <1>9, <3>4
      <4>3. \A v \in ToSet(W) : Before(others, v, p) <=> Before(W, v, p)
        BY <1>1, <1>4, <1>5, <4>2
      <4> HIDE DEF b
      <4> QED BY <3>4, <4>1, <4>2, <4>3 DEF Ahead
    <3> QED BY <3>3, <3>4
  <2> QED BY <2>1, <2>2
<1> HIDE DEF b, r
<1>11. /\ put \in Lists /\ ToSet(put) = ToSet(s)
       /\ \A v, w : Before(put, v, w) <=>
                      \/ Before(others, v, w)
                      \/ (v \in ToSet(others) /\ w = h /\ Ahead(others, v, b))
                      \/ (v = h /\ w \in ToSet(others) /\ ~Ahead(others, w, b))
  <2>1. /\ <<h>> \in Lists /\ ToSet(<<h>>) = {h} /\ \A v, w : ~Before(<<h>>, v, w)
    BY <1>1, <1>2, OneWindow
  <2> DEFINE hh == <<h>>
  <2> HIDE DEF hh
  <2>2. /\ hh \in Lists /\ ToSet(hh) = {h} /\ \A v, w : ~Before(hh, v, w)
    BY <2>1 DEF hh
  <2>3. ToSet(others) \cap ToSet(hh) = {}
    BY <1>5, <2>2
  <2>4. /\ PutBefore(others, hh, b) \in Lists
        /\ ToSet(PutBefore(others, hh, b)) = ToSet(others) \cup ToSet(hh)
        /\ \A v, w : Before(PutBefore(others, hh, b), v, w) <=>
                       \/ Before(others, v, w) \/ Before(hh, v, w)
                       \/ (v \in ToSet(others) /\ w \in ToSet(hh) /\ Ahead(others, v, b))
                       \/ (v \in ToSet(hh) /\ w \in ToSet(others) /\ ~Ahead(others, w, b))
    BY <1>5, <1>10, <2>2, <2>3, PutBeforeOrder
  <2>5. ToSet(put) = ToSet(s)
    <3>1. ToSet(s) = ToSet(others) \cup {h}
      BY <1>5, <1>6, <1>9
    <3>2. ToSet(PutBefore(others, hh, b)) = ToSet(s)
      BY <2>2, <2>4, <3>1
    <3> QED BY <3>2 DEF hh, put
  <2> QED BY <2>2, <2>4, <2>5 DEF hh, put
<1> HIDE DEF put
<1> DEFINE out == XRestackWindows(put, l)
<1>12. /\ out \in Lists /\ ToSet(out) = ToSet(s)
       /\ \A v, w \in ToSet(s) \ L : Before(out, v, w) <=> Before(put, v, w)
       /\ \A v, w \in L : Before(out, v, w) <=> Before(l, v, w)
       /\ \A v \in ToSet(s) \ L : \A w \in L : Before(out, v, w) <=> Before(put, v, h)
  BY <1>11, XRestackOrder DEF L, h
<1> HIDE DEF out
<1>13. ASSUME NEW v \in ToSet(s), NEW w \in ToSet(s), Before(placed, v, w)
       PROVE  Before(out, v, w)
  <2>1. CASE v \notin L /\ w \notin L
    <3>1. Before(s, v, w)
      BY <1>4, <1>6, <1>7, <1>13, <2>1
    <3>2. Before(put, v, w)
      BY <1>1, <1>5, <1>11, <2>1, <3>1
    <3> QED BY <1>12, <2>1, <3>2
  <2>2. CASE v \in L /\ w \in L
    <3>1. Before(l, v, w)
      BY <1>4, <1>6, <1>7, <1>13, <2>2
    <3> QED BY <1>12, <2>2, <3>1
  <2>3. CASE v \notin L /\ w \in L
    <3>1. v \in ToSet(W) /\ Ahead(W, v, p)
      BY <1>4, <1>6, <1>7, <1>13, <2>3
    <3>2. v \in ToSet(others)
      BY <1>1, <1>5, <2>3
    <3>3. Before(put, v, h)
      BY <1>10, <1>11, <3>1, <3>2
    <3> QED BY <1>12, <2>3, <3>3
  <2>4. CASE v \in L /\ w \notin L
    <3>1. w \in ToSet(W) /\ ~Ahead(W, w, p)
      BY <1>4, <1>6, <1>7, <1>13, <2>4
    <3>2. w \in ToSet(others) /\ w # h
      BY <1>1, <1>5, <2>4
    <3>3. ~Before(others, w, h)
      BY <1>5
    <3>4. ~Before(put, w, h)
      BY <1>10, <1>11, <3>1, <3>2, <3>3
    <3>5. ~Before(out, w, v)
      BY <1>12, <2>4, <3>4
    <3>6. v # w
      BY <2>4
    <3> QED BY <1>12, <3>5, <3>6, OrderFacts
  <2> QED BY <2>1, <2>2, <2>3, <2>4
<1>14. placed = out
  BY <1>6, <1>12, <1>13, SameOrder
<1> QED BY <1>3, <1>14 DEF out, r, placed, W, L, h

LEMMA FirstOrder ==
    ASSUME NEW st, NEW s \in Lists, NEW t, NEW l
    PROVE  LET p == FirstAtMost(st, s, t, l)
           IN  /\ p \in (ToSet(s) \ {t}) \cup {Root}
               /\ p # Root => st.layer[p] <= l
               /\ \A w \in ToSet(s) \ {t} : Ahead(s, w, p) => ~(st.layer[w] <= l)
<1> DEFINE I == {i \in 1 .. Len(s) : s[i] # t /\ st.layer[s[i]] <= l}
           k == IF I # {} THEN Min(I) ELSE 0
           p == FirstAtMost(st, s, t, l)
<1>1. /\ DOMAIN s = 1 .. Len(s) /\ Len(s) \in Nat
      /\ ToSet(s) \subseteq Windows /\ Root \notin Windows
  BY EmptyList, StackAssumption DEF StackAssumption
<1>2. p = IF k = 0 THEN Root ELSE s[k]
  BY DEF FirstAtMost, SelectInSeq
<1> HIDE DEF p
<1>3. CASE I = {}
  <2>1. p = Root
    BY <1>2, <1>3
  <2>2. ASSUME NEW w \in ToSet(s) \ {t} PROVE ~(st.layer[w] <= l)
    <3>1. PICK i \in DOMAIN s : s[i] = w
      BY DEF ToSet
    <3>2. i \notin I
      BY <1>3
    <3> QED BY <1>1, <3>1, <3>2
  <2> QED BY <2>1, <2>2 DEF p
<1>4. CASE I # {}
  <2>1. I \subseteq Nat
    BY <1>1
  <2>2. PICK n \in I : \A m \in I : n <= m
    <3> HIDE DEF I
    <3> QED BY <1>4, <2>1, LeastNat
  <2>3. Min(I) \in I /\ \A m \in I : Min(I) <= m
    <3> HIDE DEF I
    <3> QED BY <2>2 DEF Min
  <2>4. k \in I /\ \A m \in I : k <= m
    <3> HIDE DEF I
    <3> QED BY <1>4, <2>3
  <2> HIDE DEF k
  <2>5. k \in 1 .. Len(s) /\ s[k] # t /\ st.layer[s[k]] <= l
    BY <2>4
  <2>6. p = s[k]
    BY <1>1, <1>2, <2>5
  <2>7. p \in ToSet(s) /\ p # Root
    BY <1>1, <2>5, <2>6 DEF ToSet
  <2>8. ASSUME NEW w \in ToSet(s) \ {t}, Ahead(s, w, p) PROVE ~(st.layer[w] <= l)
    <3>1. PICK i \in DOMAIN s, j \in DOMAIN s : i < j /\ s[i] = w /\ s[j] = p
      BY <2>7, <2>8 DEF Ahead, Before
    <3>2. j = k
      BY <1>1, <2>5, <2>6, <3>1 DEF Lists
    <3>3. i \notin I
      BY <1>1, <2>4, <2>5, <3>1, <3>2
    <3> QED BY <1>1, <3>1, <3>3
  <2> QED BY <2>5, <2>6, <2>7, <2>8 DEF p
<1> QED BY <1>3, <1>4

LEMMA PieceOrder ==
    ASSUME NEW s \in Lists, NEW i \in 1 .. Len(s), NEW j \in 1 .. Len(s), i <= j
    PROVE  LET a == SubSeq(s, i, j)
           IN  /\ a \in Lists /\ a # <<>> /\ ToSet(a) \subseteq ToSet(s)
               /\ Len(a) = j - i + 1 /\ Head(a) = s[i]
               /\ ToSet(a) = {s[k] : k \in i .. j}
               /\ \A v, w \in ToSet(a) : Before(a, v, w) <=> Before(s, v, w)
<1> DEFINE a == SubSeq(s, i, j)
           n == j - i + 1
<1>1. s \in Seq(Windows) /\ Len(s) \in Nat /\ i \in Nat /\ j \in Nat /\ DOMAIN s = 1 .. Len(s)
  BY EmptyList DEF Lists
<1>2. a \in Seq(Windows) /\ Len(a) = n
  BY <1>1
<1>3. \A k \in 1 .. n : a[k] = s[i + k - 1] /\ i + k - 1 \in 1 .. Len(s) /\ i + k - 1 \in i .. j
  BY <1>1
<1>4. n \in Nat /\ 1 \in 1 .. n
  BY <1>1
<1> HIDE DEF a, n
<1>5. DOMAIN a = 1 .. n
  BY <1>2, <1>4
<1>6. a \in Lists
  <2>1. ASSUME NEW k \in 1 .. n, NEW m \in 1 .. n, a[k] = a[m] PROVE k = m
    <3>1. i + k - 1 = i + m - 1
      BY <1>1, <1>3, <2>1 DEF Lists
    <3> QED BY <1>1, <1>4, <3>1
  <2> QED BY <1>2, <1>5, <2>1 DEF Lists
<1>7. ToSet(a) = {s[k] : k \in i .. j}
  <2>1. ASSUME NEW k \in i .. j PROVE s[k] \in ToSet(a)
    <3>1. k - i + 1 \in 1 .. n /\ i + (k - i + 1) - 1 = k
      BY <1>1 DEF n
    <3>2. a[k - i + 1] = s[k]
      BY <1>3, <3>1
    <3> QED BY <1>5, <3>1, <3>2 DEF ToSet
  <2>2. ASSUME NEW k \in DOMAIN a PROVE a[k] \in {s[m] : m \in i .. j}
    BY <1>3, <1>5
  <2> QED BY <2>1, <2>2 DEF ToSet
<1>8. ToSet(a) \subseteq ToSet(s)
  <2>1. \A k \in i .. j : k \in DOMAIN s
    BY <1>1
  <2> QED BY <1>7, <2>1 DEF ToSet
<1>9. a # <<>> /\ Head(a) = s[i]
  <2>1. a[1] = s[i + 1 - 1] /\ i + 1 - 1 = i
    BY <1>1, <1>3, <1>4
  <2>2. a # <<>>
    BY <1>4, <1>5
  <2>3. Head(a) = a[1]
    BY <1>2, <2>2
  <2> QED BY <2>1, <2>2, <2>3
<1>10. ASSUME NEW v \in ToSet(a), NEW w \in ToSet(a), Before(a, v, w) PROVE Before(s, v, w)
  <2>1. PICK k \in DOMAIN a, m \in DOMAIN a : k < m /\ a[k] = v /\ a[m] = w
    BY <1>10 DEF Before
  <2>2. /\ s[i + k - 1] = v /\ s[i + m - 1] = w
        /\ i + k - 1 \in DOMAIN s /\ i + m - 1 \in DOMAIN s
    BY <1>1, <1>3, <1>5, <2>1
  <2>3. i + k - 1 < i + m - 1
    BY <1>1, <1>4, <1>5, <2>1
  <2> QED BY <2>2, <2>3 DEF Before
<1>11. \A v, w \in ToSet(a) : Before(a, v, w) <=> Before(s, v, w)
  <2> SUFFICES ASSUME NEW v \in ToSet(a), NEW w \in ToSet(a), Before(s, v, w)
               PROVE  Before(a, v, w)
    BY <1>10
  <2>1. v # w /\ ~Before(s, w, v)
    BY OrderFacts
  <2> QED BY <1>6, <1>10, <2>1, OrderFacts
<1>12. Len(a) = j - i + 1
  BY <1>2 DEF n
<1> QED BY <1>6, <1>7, <1>8, <1>9, <1>11, <1>12 DEF a

LEMMA TopOrder ==
    ASSUME NEW s \in Lists, NEW w \in ToSet(s)
    PROVE  /\ OnTop(s, w) \in Lists /\ ToSet(OnTop(s, w)) = ToSet(s)
           /\ \A u, v : Before(OnTop(s, w), u, v) <=>
                          \/ (u # w /\ v # w /\ Before(s, u, v))
                          \/ (u = w /\ v \in ToSet(s) \ {w})
<1> DEFINE a == <<w>>
           b == Without(s, {w})
<1>1. a \in Lists /\ ToSet(a) = {w} /\ \A u, v : ~Before(a, u, v)
  BY OneWindow, EmptyList
<1>2. /\ b \in Lists /\ ToSet(b) = ToSet(s) \ {w}
      /\ \A u, v : Before(b, u, v) <=> u # w /\ v # w /\ Before(s, u, v)
  BY WithoutOrder
<1>3. OnTop(s, w) = a \o b
  BY DEF OnTop
<1> HIDE DEF a, b
<1>4. /\ a \o b \in Lists /\ ToSet(a \o b) = ToSet(a) \cup ToSet(b)
      /\ \A u, v : Before(a \o b, u, v) <=> \/ Before(a, u, v) \/ Before(b, u, v)
                                            \/ (u \in ToSet(a) /\ v \in ToSet(b))
  BY <1>1, <1>2, ConcatOrder
<1> QED BY <1>1, <1>2, <1>3, <1>4

LEMMA BottomOrder ==
    ASSUME NEW s \in Lists, NEW w \in ToSet(s)
    PROVE  LET a == Append(Without(s, {w}), w)
           IN  /\ a \in Lists /\ ToSet(a) = ToSet(s)
               /\ \A u, v : Before(a, u, v) <=> \/ (u # w /\ v # w /\ Before(s, u, v))
                                                \/ (u \in ToSet(s) \ {w} /\ v = w)
<1> DEFINE b == Without(s, {w})
<1>1. /\ b \in Lists /\ ToSet(b) = ToSet(s) \ {w}
      /\ \A u, v : Before(b, u, v) <=> u # w /\ v # w /\ Before(s, u, v)
  BY WithoutOrder
<1>2. w \in Windows
  BY EmptyList
<1> HIDE DEF b
<1>3. /\ Append(b, w) \in Lists /\ ToSet(Append(b, w)) = ToSet(b) \cup {w}
      /\ \A u, v : Before(Append(b, w), u, v) <=> \/ Before(b, u, v)
                                                  \/ (u \in ToSet(b) /\ v = w)
  BY <1>1, <1>2, AppendOrder
<1> QED BY <1>1, <1>3 DEF b

-----------------------------------------------------------------------------
(* States *)

Marks == [keep : BOOLEAN, tree : SUBSET Windows, leader : [Windows -> Windows \cup {Root}]]

(* What an operation works on: three lists of the same windows, and the rest *)
States ==
    {st \in [ring : Lists, x : Lists, view : Lists, layer : [Windows -> Layers],
             hint : [Windows -> Hints], iconic : SUBSET Windows,
             byParent : SUBSET Windows, marks : Marks] :
        ToSet(st.x) = ToSet(st.ring) /\ ToSet(st.view) = ToSet(st.ring)}

LEMMA Constants ==
    /\ IsFiniteSet(Windows) /\ Root \notin Windows /\ NoHint \notin Windows /\ NoHint # Root
    /\ Layers \subseteq Nat /\ DefaultLayer \in Layers
    /\ \A w \in DOMAIN LayerStyle : LayerStyle[w] \in Layers
    /\ RaiseTransient \subseteq Windows /\ LowerTransient \subseteq Windows
    /\ StackTransientParent \subseteq Windows
    /\ Hints = Windows \cup {Root, NoHint}
BY StackAssumption DEF StackAssumption, Hints

LEMMA NoMarksType == NoMarks \in Marks
BY DEF NoMarks, Marks

LEMMA NewView ==
    ASSUME NEW st \in States, NEW v \in Lists, ToSet(v) = ToSet(st.ring)
    PROVE  [st EXCEPT !.view = v] \in States
BY DEF States

LEMMA NewMarks ==
    ASSUME NEW st \in States, NEW m \in Marks
    PROVE  [st EXCEPT !.marks = m] \in States
BY DEF States

LEMMA PieceFacts ==
    ASSUME NEW s \in Lists, NEW i \in 1 .. Len(s), NEW j \in 1 .. Len(s), i <= j
    PROVE  SubSeq(s, i, j) \in Lists /\ SubSeq(s, i, j) # <<>>
           /\ ToSet(SubSeq(s, i, j)) \subseteq ToSet(s)
BY PieceOrder

(* There are windows from s1 to s2 in the ring. *)
Spans(st, s1, s2) ==
    /\ st.ring # <<>>
    /\ s1 \in ToSet(st.ring) \cup {Root} /\ s2 \in ToSet(st.ring) \cup {Root}
    /\ s1 # Root /\ s2 # Root => s1 = s2 \/ Before(st.ring, s1, s2)

(* What the modules are told changes the view only. *)
ViewChanges(st, out) ==
    \E v \in Lists : ToSet(v) = ToSet(st.ring) /\ out = [st EXCEPT !.view = v]

LEMMA Told ==
    ASSUME NEW st \in States, NEW s1, NEW s2, Spans(st, s1, s2)
    PROVE  ViewChanges(st, BroadcastRestack(st, s1, s2))
<1> USE DEF Spans
<1> DEFINE first  == IF s1 = Root THEN Head(st.ring) ELSE s1
           last   == IF s2 = Root THEN Last(st.ring) ELSE s2
           raised == IF s1 = Root THEN [st EXCEPT !.view = OnTop(@, first)] ELSE st
           i == Place(st.ring, first)
           j == Place(st.ring, last)
           part == SubSeq(st.ring, i, j)
           s == st.ring
<1>1. /\ s \in Lists /\ s \in Seq(Windows) /\ s # <<>> /\ Len(s) \in Nat
      /\ DOMAIN s = 1 .. Len(s) /\ ToSet(s) \subseteq Windows /\ Root \notin Windows
      /\ st.view \in Lists /\ ToSet(st.view) = ToSet(s)
  BY Constants, EmptyList DEF States, Lists
<1>2. Head(s) \in ToSet(s) /\ \A v \in ToSet(s) : v = Head(s) \/ Before(s, Head(s), v)
  BY <1>1, HeadOrder
<1>3. Last(s) \in ToSet(s) /\ \A v \in ToSet(s) : v = Last(s) \/ Before(s, v, Last(s))
  <2>1. Len(s) \in DOMAIN s
    BY <1>1
  <2>2. Last(s) \in ToSet(s) /\ Last(s) = s[Len(s)]
    BY <2>1 DEF Last, ToSet
  <2>3. Place(s, Last(s)) = Len(s)
    <3>1. Place(s, Last(s)) \in DOMAIN s /\ s[Place(s, Last(s))] = s[Len(s)]
      BY <1>1, <2>2, PlaceFacts
    <3> QED BY <1>1, <2>1, <3>1 DEF Lists
  <2>4. ASSUME NEW v \in ToSet(s) PROVE v = Last(s) \/ Before(s, v, Last(s))
    <3>1. Place(s, v) \in 1 .. Len(s) /\ s[Place(s, v)] = v
      BY <1>1, PlaceFacts
    <3>2. Before(s, v, Last(s)) <=> Place(s, v) < Len(s)
      BY <1>1, <2>2, <2>3, BeforePlace
    <3> QED BY <1>1, <2>2, <3>1, <3>2
  <2> QED BY <2>2, <2>4
<1>4. first \in ToSet(s) /\ last \in ToSet(s) /\ (first = last \/ Before(s, first, last))
  BY <1>1, <1>2, <1>3
<1>5. raised = [st EXCEPT !.view = raised.view] /\ raised.view \in Lists
      /\ ToSet(raised.view) = ToSet(s)
  <2>1. CASE s1 = Root
    <3>1. OnTop(st.view, first) \in Lists /\ ToSet(OnTop(st.view, first)) = ToSet(s)
      BY <1>1, <1>4, TopOrder
    <3> HIDE DEF first
    <3> QED BY <2>1, <3>1 DEF States
  <2>2. CASE s1 # Root
    BY <1>1, <2>2 DEF States
  <2> QED BY <2>1, <2>2
<1>6. BroadcastRestack(st, s1, s2) =
         IF first = last \/ (s1 = Root /\ Len(part) = 2) THEN raised
         ELSE [raised EXCEPT !.view = XRestackWindows(@, part)]
  BY DEF BroadcastRestack
<1> HIDE DEF first, last
<1>7. part \in Lists /\ part # <<>> /\ ToSet(part) \subseteq ToSet(s)
  <2>1. i \in 1 .. Len(s) /\ j \in 1 .. Len(s)
    BY <1>1, <1>4, PlaceFacts
  <2>2. i <= j
    <3>1. CASE first = last
      BY <1>1, <2>1, <3>1
    <3>2. CASE Before(s, first, last)
      BY <1>1, <1>4, <2>1, <3>2, BeforePlace
    <3> QED BY <1>4, <3>1, <3>2
  <2> HIDE DEF i, j, raised
  <2>3. SubSeq(s, i, j) \in Lists /\ SubSeq(s, i, j) # <<>> /\ ToSet(SubSeq(s, i, j)) \subseteq ToSet(s)
    <3> HIDE DEF part
    <3> QED BY <1>1, <2>1, <2>2, PieceFacts
  <2> QED BY <2>3
<1> HIDE DEF raised, part
<1> DEFINE v == IF first = last \/ (s1 = Root /\ Len(part) = 2) THEN raised.view
                ELSE XRestackWindows(raised.view, part)
<1>8. v \in Lists /\ ToSet(v) = ToSet(s)
  BY <1>1, <1>5, <1>7, XRestackOrder
<1>9. BroadcastRestack(st, s1, s2) = [st EXCEPT !.view = v]
  <2>1. CASE first = last \/ (s1 = Root /\ Len(part) = 2)
    BY <1>5, <1>6, <2>1
  <2>2. CASE ~(first = last \/ (s1 = Root /\ Len(part) = 2))
    <3>1. BroadcastRestack(st, s1, s2) = [raised EXCEPT !.view = v]
      BY <1>6, <2>2
    <3> HIDE DEF v
    <3> QED BY <1>5, <3>1 DEF States
  <2> QED BY <2>1, <2>2
<1> QED BY <1>8, <1>9 DEF ViewChanges

FramesFit(s, l, r, p) == /\ l # <<>> /\ ToSet(l) \subseteq ToSet(s)
                         /\ {r, p} \subseteq (ToSet(s) \ {Head(l)}) \cup {Root}

LEMMA FramesType ==
    ASSUME NEW s \in Lists, NEW l \in Lists, NEW r, NEW p, NEW lower, FramesFit(s, l, r, p)
    PROVE  /\ StackFrames(s, l, r, p, lower) \in Lists
           /\ ToSet(StackFrames(s, l, r, p, lower)) = ToSet(s)
<1> DEFINE h == Head(l)
           others == Without(s, {h})
           b == IF r # Root THEN NextIn(others, r)
                ELSE IF p = Root /\ lower /\ others # <<>> THEN Head(others) ELSE p
           hh == <<h>>
           put == PutBefore(others, hh, b)
<1> USE DEF FramesFit
<1>1. h \in ToSet(l) /\ h \in ToSet(s) /\ h \in Windows
  BY HeadOrder, EmptyList
<1>2. others \in Lists /\ ToSet(others) = ToSet(s) \ {h}
  BY WithoutOrder
<1>3. hh \in Lists /\ ToSet(hh) = {h}
  BY <1>1, OneWindow
<1>4. StackFrames(s, l, r, p, lower) = XRestackWindows(put, l)
  BY DEF StackFrames
<1>5. r \in ToSet(others) \cup {Root} /\ p \in ToSet(others) \cup {Root}
  BY <1>2
<1> HIDE DEF h, others, hh
<1>6. b \in ToSet(others) \cup {Root}
  <2>1. CASE r # Root
    BY <1>2, <1>5, <2>1, NextOrder
  <2>2. CASE r = Root
    BY <1>2, <1>5, <2>2, HeadOrder
  <2> QED BY <2>1, <2>2
<1> HIDE DEF b
<1>7. put \in Lists /\ ToSet(put) = ToSet(s)
  <2>1. ToSet(others) \cap ToSet(hh) = {}
    BY <1>2, <1>3
  <2>2. put \in Lists /\ ToSet(put) = ToSet(others) \cup ToSet(hh)
    BY <1>2, <1>3, <1>6, <2>1, PutBeforeOrder
  <2> HIDE DEF put
  <2> QED BY <1>1, <1>2, <1>3, <2>2
<1> HIDE DEF put
<1> QED BY <1>4, <1>7, XRestackOrder

(* A list of windows of the ring can be moved before s. *)
Movable(st, l, s) == /\ l # <<>> /\ ToSet(l) \subseteq ToSet(st.ring)
                     /\ s \in (ToSet(st.ring) \ ToSet(l)) \cup {Root}

(* The list was moved in the ring, and if the frames on the server were stacked as
   the ring says they still are. *)
ListMoved(st, l, s, out) ==
    /\ out \in States
    /\ out = [st EXCEPT !.ring = PutBefore(Without(st.ring, ToSet(l)), l, s),
                        !.x = out.x, !.view = out.view]
    /\ ToSet(out.ring) = ToSet(st.ring)
    /\ st.x = st.ring => out.x = out.ring

(* What the modules are told then, from a state m in which they know nothing of it *)
ListTold(st, l, s, out) ==
    \E m \in States :
       /\ m.ring = out.ring /\ m.view = st.view
       /\ out = IF Len(l) > 1 THEN BroadcastRestackAllWindows(m)
                ELSE BroadcastRestack(m, PrevIn(out.ring, Head(l)), s)

LEMMA ListRestacked ==
    ASSUME NEW st \in States, NEW l \in Lists, NEW s, NEW lower, Movable(st, l, s)
    PROVE  LET out == RestackWindowList(st, l, s, lower)
           IN  ListMoved(st, l, s, out) /\ ListTold(st, l, s, out)
<1> USE DEF Movable
<1> DEFINE W == Without(st.ring, ToSet(l))
           h == Head(l)
           placed == PutBefore(W, l, s)
           r == PrevIn(placed, h)
           frames == StackFrames(st.x, l, r, s, lower)
           moved == [st EXCEPT !.ring = placed, !.x = frames]
           out == RestackWindowList(st, l, s, lower)
<1>1. /\ st.ring \in Lists /\ st.x \in Lists /\ st.view \in Lists
      /\ ToSet(st.x) = ToSet(st.ring) /\ ToSet(st.view) = ToSet(st.ring)
  BY DEF States
<1>2. /\ h \in ToSet(l) /\ \A v : ~Before(l, v, h)
      /\ \A v \in ToSet(l) : v = h \/ Before(l, h, v)
      /\ ToSet(l) \subseteq Windows /\ Root \notin Windows /\ l \in Seq(Windows)
  BY HeadOrder, EmptyList, Constants DEF Lists
<1>3. out = IF Len(l) > 1 THEN BroadcastRestackAllWindows(moved)
                          ELSE BroadcastRestack(moved, r, s)
  BY DEF RestackWindowList
<1>4. /\ W \in Lists /\ ToSet(W) = ToSet(st.ring) \ ToSet(l)
  BY <1>1, WithoutOrder
<1>5. /\ placed \in Lists /\ ToSet(placed) = ToSet(st.ring)
      /\ \A v, w : Before(placed, v, w) <=>
                     \/ Before(W, v, w) \/ Before(l, v, w)
                     \/ (v \in ToSet(W) /\ w \in ToSet(l) /\ Ahead(W, v, s))
                     \/ (v \in ToSet(l) /\ w \in ToSet(W) /\ ~Ahead(W, w, s))
  <2>1. ToSet(W) \cap ToSet(l) = {} /\ s \in ToSet(W) \cup {Root}
    BY <1>4
  <2>2. ToSet(W) \cup ToSet(l) = ToSet(st.ring)
    BY <1>4
  <2> HIDE DEF W
  <2> QED BY <1>4, <2>1, <2>2, PutBeforeOrder
<1>6. ASSUME st.x = st.ring PROVE frames = placed
  <2>1. StackFrames(st.ring, l, r, s, lower) = placed
    <3>1. FramesAgree(st.ring, l, s, lower)
      BY <1>1, FramesFollow
    <3> HIDE DEF moved, out, frames
    <3> QED BY <3>1 DEF FramesAgree
  <2> HIDE DEF placed, r
  <2> QED BY <1>6, <2>1
<1> HIDE DEF W, h, placed, out
<1>7. h \in ToSet(placed) /\ placed # <<>> /\ s \in (ToSet(placed) \ {h}) \cup {Root}
  <2>1. h \in ToSet(placed)
    BY <1>2, <1>5
  <2>2. placed # <<>>
    BY <1>5, <2>1, EmptyList
  <2> QED BY <1>2, <1>5, <2>1, <2>2
<1>8. /\ r \in (ToSet(placed) \ {h}) \cup {Root}
      /\ r # Root => Before(placed, r, h)
  BY <1>5, <1>7, PrevOrder
<1>9. s # Root => Before(placed, h, s)
  <2> SUFFICES ASSUME s # Root PROVE Before(placed, h, s)
    OBVIOUS
  <2>1. s \in ToSet(W) /\ ~Ahead(W, s, s)
    BY <1>4, OrderFacts DEF Ahead
  <2> QED BY <1>2, <1>5, <2>1
<1> HIDE DEF r
<1>10. frames \in Lists /\ ToSet(frames) = ToSet(st.ring)
  <2>1. FramesFit(st.x, l, r, s)
    BY <1>1, <1>5, <1>7, <1>8 DEF h, FramesFit
  <2> HIDE DEF frames
  <2>2. frames \in Lists /\ ToSet(frames) = ToSet(st.x)
    BY <1>1, <2>1, FramesType DEF frames
  <2> QED BY <1>1, <2>2
<1> HIDE DEF frames
<1>11. moved \in States /\ moved.ring = placed
  BY <1>1, <1>5, <1>10 DEF States
<1>12. \E v \in Lists : ToSet(v) = ToSet(placed) /\ out = [moved EXCEPT !.view = v]
  <2>1. CASE Len(l) > 1
    <3>1. Head(placed) \in ToSet(placed) /\ Last(placed) \in ToSet(placed)
      <4>1. Len(placed) \in DOMAIN placed /\ Last(placed) = placed[Len(placed)]
        BY <1>5, <1>7, EmptyList DEF Last
      <4> QED BY <1>5, <1>7, <4>1, HeadOrder DEF ToSet
    <3>2. Head(placed) = Last(placed) \/ Before(placed, Head(placed), Last(placed))
      BY <1>5, <1>7, <3>1, HeadOrder
    <3>3. out = BroadcastRestack(moved, Head(placed), Last(placed))
      BY <1>3, <1>11, <2>1 DEF BroadcastRestackAllWindows
    <3> HIDE DEF moved
    <3>4. Spans(moved, Head(placed), Last(placed))
      BY <1>7, <1>11, <3>1, <3>2 DEF Spans
    <3>5. ViewChanges(moved, out)
      BY <1>11, <3>3, <3>4, Told
    <3> QED BY <1>11, <3>5 DEF ViewChanges
  <2>2. CASE ~(Len(l) > 1)
    <3>1. out = BroadcastRestack(moved, r, s)
      BY <1>3, <2>2
    <3>2. r # Root /\ s # Root => Before(placed, r, s)
      BY <1>5, <1>8, <1>9, OrderFacts
    <3> HIDE DEF moved
    <3>3. Spans(moved, r, s)
      BY <1>7, <1>8, <1>11, <3>2 DEF Spans
    <3>4. ViewChanges(moved, out)
      BY <1>11, <3>1, <3>3, Told
    <3> QED BY <1>11, <3>4 DEF ViewChanges
  <2> QED BY <2>1, <2>2
<1>13. PICK v \in Lists : ToSet(v) = ToSet(placed) /\ out = [moved EXCEPT !.view = v]
  BY <1>12
<1>14. out \in States
  <2> HIDE DEF moved
  <2> QED BY <1>11, <1>13, NewView
<1>15. /\ out = [st EXCEPT !.ring = placed, !.x = frames, !.view = v]
       /\ out.ring = placed /\ out.x = frames /\ out.view = v
  BY <1>13 DEF States
<1>16. out = [st EXCEPT !.ring = placed, !.x = out.x, !.view = out.view]
  BY <1>15
<1>17. ListTold(st, l, s, out)
  <2>1. moved.view = st.view
    BY DEF States
  <2> HIDE DEF moved
  <2>2. out = IF Len(l) > 1 THEN BroadcastRestackAllWindows(moved)
              ELSE BroadcastRestack(moved, PrevIn(out.ring, Head(l)), s)
    BY <1>3, <1>15 DEF r, h
  <2> QED BY <1>11, <1>15, <2>1, <2>2 DEF ListTold
<1> QED BY <1>5, <1>6, <1>14, <1>15, <1>16, <1>17 DEF out, placed, W, ListMoved

-----------------------------------------------------------------------------
(* Trees *)

Trees == UNION {[A -> Int] : A \in SUBSET Windows}

(* Marking from t stays in F. *)
Encloses(st, t, scope, F) ==
    /\ t \in F /\ (st.marks.keep => st.marks.tree \subseteq F)
    /\ \A w \in scope : Leaders(st, scope)[w] \in F => w \in F

LEMMA LeadersType ==
    ASSUME NEW st \in States, NEW scope
    PROVE  Leaders(st, scope) \in [Windows -> Windows \cup {Root}]
<1>1. \A w \in Windows : LeaderOf(st, w) \in Windows \cup {Root}
  <2>1. ToSet(st.ring) \subseteq Windows
    BY EmptyList DEF States
  <2> QED BY <2>1 DEF LeaderOf
<1>2. st.marks.leader \in [Windows -> Windows \cup {Root}]
  BY DEF States, Marks
<1> QED BY <1>1, <1>2 DEF Leaders

(* The windows that one round of marking adds, and the tree after it *)
Followers(st, scope, mode, tree) ==
    {w \in scope \ DOMAIN tree : /\ Leaders(st, scope)[w] \in DOMAIN tree
                                 /\ MovesTransients(Leaders(st, scope)[w], mode)
                                 /\ mode = "all" \/ w \notin st.iconic}

OneRound(st, num, scope, mode, tree) ==
    [w \in DOMAIN tree \cup Followers(st, scope, mode, tree) |->
        IF w \in DOMAIN tree THEN tree[w] ELSE num[w] + tree[Leaders(st, scope)[w]] + 1]

Marked(st, t) == {t} \cup (IF st.marks.keep THEN st.marks.tree ELSE {})

(* The rounds that lead to the tree *)
Rounds(st, num, t, scope, mode, g) ==
    /\ g \in [0 .. Cardinality(Windows) -> Trees]
    /\ g[0] = [w \in Marked(st, t) |-> num[w]]
    /\ \A i \in 1 .. Cardinality(Windows) : g[i] = OneRound(st, num, scope, mode, g[i - 1])
    /\ MarkTransientSubtree(st, num, t, scope, mode) = g[Cardinality(Windows)]

LEMMA TreeGrows ==
    ASSUME NEW st \in States, NEW num \in [Windows -> Int], NEW t \in Windows,
           NEW scope \in SUBSET Windows, NEW mode
    PROVE  \E g : Rounds(st, num, t, scope, mode, g)
<1> DEFINE n == Cardinality(Windows)
           leader == Leaders(st, scope)
           follows(tree) == {w \in scope \ DOMAIN tree :
                                /\ leader[w] \in DOMAIN tree
                                /\ MovesTransients(leader[w], mode)
                                /\ mode = "all" \/ w \notin st.iconic}
           base == [w \in {t} \cup (IF st.marks.keep THEN st.marks.tree ELSE {}) |-> num[w]]
           Body(tree) == [w \in DOMAIN tree \cup follows(tree) |->
                             IF w \in DOMAIN tree THEN tree[w]
                             ELSE num[w] + tree[leader[w]] + 1]
           Is(f) == f = [i \in 0 .. n |->
                           IF i = 0
                           THEN base
                           ELSE LET tree == f[i - 1]
                                IN  [w \in DOMAIN tree \cup follows(tree) |->
                                        IF w \in DOMAIN tree THEN tree[w]
                                        ELSE num[w] + tree[leader[w]] + 1]]
           grown == CHOOSE f : Is(f)
<1>1. n \in Nat
  BY Constants, FS_CardinalityType
<1>2. leader \in [Windows -> Windows \cup {Root}]
  BY LeadersType
<1>3. st.marks.tree \subseteq Windows
  BY DEF States, Marks
<1>4. base \in Trees
  <2>1. base \in [{t} \cup (IF st.marks.keep THEN st.marks.tree ELSE {}) -> Int]
    BY <1>3
  <2> DEFINE A == {t} \cup (IF st.marks.keep THEN st.marks.tree ELSE {})
  <2>2. A \in SUBSET Windows /\ base \in [A -> Int]
    BY <1>3, <2>1
  <2> HIDE DEF A, base
  <2> QED BY <2>2 DEF Trees
<1>5. MarkTransientSubtree(st, num, t, scope, mode) = grown[n]
  BY DEF MarkTransientSubtree
<1> HIDE DEF leader
<1>6. ASSUME NEW tree \in Trees PROVE Body(tree) \in Trees
  <2>1. PICK A \in SUBSET Windows : tree \in [A -> Int]
    BY DEF Trees
  <2>2. \A w \in follows(tree) : w \in Windows /\ num[w] + tree[leader[w]] + 1 \in Int
    BY <2>1
  <2> DEFINE B == DOMAIN tree \cup follows(tree)
  <2>3. B \in SUBSET Windows
    BY <2>1
  <2>4. Body(tree) \in [B -> Int]
    BY <2>1, <2>2
  <2> HIDE DEF B
  <2> QED BY <2>3, <2>4 DEF Trees
<1>7. \E f : Is(f)
  <2> DEFINE step == [i \in 1 .. n |-> [tree \in Trees |-> Body(tree)]]
  <2> HIDE DEF n, base, Body
  <2>1. step \in Steps(Trees, n)
    BY <1>6 DEF Steps
  <2>2. \A i \in 1 .. n : \A tree \in Trees : step[i][tree] = Body(tree)
    OBVIOUS
  <2> HIDE DEF step
  <2>6. PICK f : Iterates(f, Trees, base, n, step)
    BY <1>1, <1>4, <2>1, Recursion
  <2>3. /\ f \in [0 .. n -> Trees] /\ f[0] = base
        /\ \A i \in 1 .. n : f[i] = step[i][f[i - 1]]
    BY <2>6 DEF Iterates
  <2>4. ASSUME NEW i \in 0 .. n PROVE f[i] = IF i = 0 THEN base ELSE Body(f[i - 1])
    <3>1. CASE i = 0
      BY <2>3, <3>1
    <3>2. CASE i # 0
      <4>1. i \in 1 .. n /\ i - 1 \in 0 .. n
        BY <1>1, <3>2
      <4> QED BY <2>2, <2>3, <3>2, <4>1
    <3> QED BY <3>1, <3>2
  <2>5. f = [i \in 0 .. n |-> IF i = 0 THEN base ELSE Body(f[i - 1])]
    BY <2>3, <2>4
  <2>7. Is(f)
    BY <2>5 DEF Body
  <2> HIDE DEF Is
  <2> QED BY <2>7
<1>8. Is(grown)
  BY <1>7
<1> HIDE DEF grown
<1>9. grown = [i \in 0 .. n |-> IF i = 0 THEN base ELSE Body(grown[i - 1])]
  BY <1>8
<1> HIDE DEF n, base, Body
<1>10. grown[0] = base /\ \A i \in 1 .. n : grown[i] = Body(grown[i - 1])
  <2>1. ASSUME NEW i \in 1 .. n PROVE grown[i] = Body(grown[i - 1])
    <3>1. i \in 0 .. n /\ i # 0
      BY <1>1
    <3> QED BY <1>9, <3>1
  <2>2. grown[0] = base
    BY <1>1, <1>9
  <2> QED BY <2>1, <2>2
<1>11. \A i \in 0 .. n : grown[i] \in Trees
  <2> DEFINE P == {i \in 0 .. n : grown[i] \in Trees}
  <2>1. 0 \in P
    BY <1>1, <1>4, <1>10
  <2>2. \A i \in 1 .. n : i - 1 \in P => i \in P
    BY <1>1, <1>6, <1>10
  <2> HIDE DEF P
  <2>3. 0 .. n \subseteq P
    BY <1>1, <2>1, <2>2, UpTo
  <2> QED BY <2>3 DEF P
<1>12. grown \in [0 .. n -> Trees]
  BY <1>9, <1>11
<1>13. base = [w \in Marked(st, t) |-> num[w]]
  BY DEF base, Marked
<1>14. \A tree : Body(tree) = OneRound(st, num, scope, mode, tree)
  BY DEF Body, OneRound, Followers, leader
<1> QED BY <1>5, <1>10, <1>12, <1>13, <1>14 DEF Rounds, n

LEMMA TreeFacts ==
    ASSUME NEW st \in States, NEW num \in [Windows -> Int], NEW t \in Windows,
           NEW scope \in SUBSET Windows, NEW mode
    PROVE  LET tree == MarkTransientSubtree(st, num, t, scope, mode)
           IN  /\ tree \in Trees /\ t \in DOMAIN tree
               /\ \A F \in SUBSET Windows : Encloses(st, t, scope, F) => DOMAIN tree \subseteq F
<1> DEFINE n == Cardinality(Windows)
           Good(tree) == /\ t \in DOMAIN tree
                         /\ \A F \in SUBSET Windows :
                               Encloses(st, t, scope, F) => DOMAIN tree \subseteq F
<1>1. n \in Nat
  BY Constants, FS_CardinalityType
<1>2. PICK g : Rounds(st, num, t, scope, mode, g)
  BY TreeGrows
<1>3. /\ g[0] = [w \in Marked(st, t) |-> num[w]]
      /\ \A i \in 1 .. n : g[i] = OneRound(st, num, scope, mode, g[i - 1])
      /\ MarkTransientSubtree(st, num, t, scope, mode) = g[n]
      /\ \A i \in 0 .. n : g[i] \in Trees
  BY <1>2 DEF Rounds
<1> HIDE DEF n
<1>4. Good(g[0])
  BY <1>3 DEF Encloses, Marked
<1>5. ASSUME NEW tree, Good(tree) PROVE Good(OneRound(st, num, scope, mode, tree))
  <2>1. DOMAIN OneRound(st, num, scope, mode, tree)
           = DOMAIN tree \cup Followers(st, scope, mode, tree)
    BY DEF OneRound
  <2>2. ASSUME NEW F \in SUBSET Windows, Encloses(st, t, scope, F)
        PROVE  DOMAIN OneRound(st, num, scope, mode, tree) \subseteq F
    <3>1. DOMAIN tree \subseteq F
      BY <1>5, <2>2
    <3>2. Followers(st, scope, mode, tree) \subseteq F
      BY <2>2, <3>1 DEF Encloses, Followers
    <3> QED BY <2>1, <3>1, <3>2
  <2> QED BY <1>5, <2>1, <2>2
<1> DEFINE P == {i \in 0 .. n : Good(g[i])}
<1> HIDE DEF Good
<1>6. 0 \in P
  BY <1>1, <1>4
<1>7. \A i \in 1 .. n : i - 1 \in P => i \in P
  BY <1>1, <1>3, <1>5
<1>8. n \in P
  <2> HIDE DEF P
  <2>1. 0 .. n \subseteq P
    BY <1>1, <1>6, <1>7, UpTo
  <2> QED BY <1>1, <2>1
<1>9. Good(g[n]) /\ g[n] \in Trees
  BY <1>1, <1>3, <1>8
<1> QED BY <1>3, <1>9 DEF Good

(* Sorting puts every window of the list somewhere once, by its number. *)
LEMMA SortFacts ==
    ASSUME NEW l \in Lists, NEW num \in Trees, ToSet(l) \subseteq DOMAIN num
    PROVE  /\ SortTransientRing(l, num) \in Lists
           /\ ToSet(SortTransientRing(l, num)) = ToSet(l)
           /\ \A v, w : Before(SortTransientRing(l, num), v, w) => num[v] >= num[w]
<1> DEFINE n == Len(l)
           key(i) == num[l[i]]
           before(i) == {j \in DOMAIN l : \/ num[l[j]] > num[l[i]]
                                          \/ num[l[j]] = num[l[i]] /\ j < i}
           rank(i) == Cardinality(before(i))
           sorted == SortTransientRing(l, num)
<1>1. n \in Nat /\ DOMAIN l = 1 .. n /\ l \in Seq(Windows)
  BY EmptyList DEF Lists
<1>2. \A i \in 1 .. n : key(i) \in Int
  <2>1. \A w \in DOMAIN num : num[w] \in Int
    BY DEF Trees
  <2>2. \A i \in 1 .. n : l[i] \in ToSet(l)
    BY <1>1 DEF ToSet
  <2> QED BY <2>1, <2>2
<1>3. \A i, j \in 1 .. n : j \in before(i) <=> key(j) > key(i) \/ (key(j) = key(i) /\ j < i)
  BY <1>1
<1>4. \A i \in 1 .. n : before(i) \subseteq 1 .. n
  BY <1>1
<1>5. sorted = [k \in 1 .. n |-> l[CHOOSE i \in 1 .. n : rank(i) = k - 1]]
  BY <1>1 DEF SortTransientRing
<1> HIDE DEF key, before, n
<1>6. \A i \in 1 .. n : IsFiniteSet(before(i)) /\ rank(i) \in Nat
  <2>1. IsFiniteSet(1 .. n)
    BY <1>1, FS_Interval
  <2> QED BY <1>4, <2>1, FS_Subset, FS_CardinalityType
<1>7. ASSUME NEW i \in 1 .. n, NEW j \in 1 .. n, j \in before(i) PROVE rank(j) < rank(i)
  <2>1. before(j) \subseteq before(i)
    <3> SUFFICES ASSUME NEW k \in before(j) PROVE k \in before(i)
      OBVIOUS
    <3>1. k \in 1 .. n
      BY <1>4
    <3>2. key(i) \in Int /\ key(j) \in Int /\ key(k) \in Int
      BY <1>2, <3>1
    <3> QED BY <1>1, <1>3, <1>7, <3>1, <3>2
  <2>2. j \notin before(j)
    BY <1>1, <1>2, <1>3
  <2>3. rank(j) <= rank(i) /\ rank(j) # rank(i)
    BY <1>6, <1>7, <2>1, <2>2, FS_Subset
  <2> QED BY <1>6, <2>3
<1>8. ASSUME NEW i \in 1 .. n, NEW j \in 1 .. n, rank(i) = rank(j) PROVE i = j
  <2> SUFFICES ASSUME i # j PROVE FALSE
    OBVIOUS
  <2>1. key(i) \in Int /\ key(j) \in Int /\ i \in Int /\ j \in Int
    BY <1>2
  <2>2. i \in before(j) \/ j \in before(i)
    BY <1>3, <2>1
  <2>3. rank(i) < rank(j) \/ rank(j) < rank(i)
    BY <1>7, <2>2
  <2> QED BY <1>6, <1>8, <2>3
<1>9. ASSUME NEW i \in 1 .. n PROVE rank(i) + 1 \in 1 .. n
  <2>1. before(i) \subseteq 1 .. n \ {i}
    BY <1>1, <1>2, <1>3, <1>4
  <2>2. IsFiniteSet(1 .. n) /\ Cardinality(1 .. n) = n
    BY <1>1, FS_Interval
  <2>3. IsFiniteSet(1 .. n \ {i}) /\ Cardinality(1 .. n \ {i}) = n - 1
    <3> DEFINE S == 1 .. n
    <3>1. IsFiniteSet(S) /\ Cardinality(S) = n /\ i \in S
      BY <2>2
    <3> HIDE DEF S, rank, sorted
    <3>2. IsFiniteSet(S \ {i}) /\ Cardinality(S \ {i}) = n - 1
      BY <3>1, FS_RemoveElement
    <3> QED BY <3>2 DEF S
  <2>4. rank(i) <= n - 1
    BY <2>1, <2>3, FS_Subset
  <2> QED BY <1>1, <1>6, <2>4
<1>10. ASSUME NEW k \in 1 .. n PROVE \E i \in 1 .. n : rank(i) + 1 = k
  <2> SUFFICES ASSUME \A i \in 1 .. n : rank(i) + 1 # k PROVE FALSE
    OBVIOUS
  <2> DEFINE S == 1 .. n
             T == 1 .. n \ {k}
             f == [i \in S |-> rank(i) + 1]
  <2>1. IsFiniteSet(S) /\ Cardinality(S) = n
    BY <1>1, FS_Interval
  <2>2. IsFiniteSet(T) /\ Cardinality(T) = n - 1
    BY <1>1, <2>1, FS_RemoveElement
  <2>3. f \in [S -> T]
    BY <1>9
  <2>4. Cardinality(T) < Cardinality(S)
    BY <1>1, <2>1, <2>2
  <2> HIDE DEF S, T, f
  <2>5. PICK i \in S, j \in S : i # j /\ f[i] = f[j]
    BY <2>1, <2>2, <2>3, <2>4, FS_PigeonHole
  <2>6. i \in 1 .. n /\ j \in 1 .. n /\ rank(i) + 1 = rank(j) + 1
    BY <2>5 DEF S, f
  <2>7. rank(i) = rank(j)
    BY <1>6, <2>6
  <2> QED BY <1>8, <2>5, <2>6, <2>7
<1> DEFINE at(k) == CHOOSE i \in 1 .. n : rank(i) = k - 1
<1>11. \A k \in 1 .. n : at(k) \in 1 .. n /\ rank(at(k)) = k - 1
  <2> SUFFICES ASSUME NEW k \in 1 .. n PROVE \E i \in 1 .. n : rank(i) = k - 1
    OBVIOUS
  <2>1. PICK i \in 1 .. n : rank(i) + 1 = k
    BY <1>10
  <2>2. rank(i) = k - 1
    BY <1>6, <2>1
  <2> QED BY <2>2
<1>12. sorted = [k \in 1 .. n |-> l[at(k)]]
  BY <1>5
<1> HIDE DEF at, rank, sorted
<1>13. sorted \in Seq(Windows) /\ DOMAIN sorted = 1 .. n
  <2>1. \A k \in 1 .. n : l[at(k)] \in Windows
    BY <1>1, <1>11
  <2> QED BY <1>1, <1>12, <2>1
<1>14. ASSUME NEW k \in 1 .. n, NEW m \in 1 .. n, sorted[k] = sorted[m] PROVE k = m
  <2>1. at(k) = at(m)
    BY <1>1, <1>11, <1>12, <1>14 DEF Lists
  <2>2. k - 1 = m - 1
    BY <1>11, <2>1
  <2> QED BY <1>1, <2>2
<1>15. sorted \in Lists
  BY <1>13, <1>14 DEF Lists
<1>16. ToSet(sorted) = ToSet(l)
  <2>1. ASSUME NEW k \in 1 .. n PROVE sorted[k] \in ToSet(l)
    BY <1>1, <1>11, <1>12 DEF ToSet
  <2>2. ASSUME NEW i \in 1 .. n PROVE l[i] \in ToSet(sorted)
    <3>1. rank(i) + 1 \in 1 .. n /\ rank(i) = (rank(i) + 1) - 1
      BY <1>6, <1>9
    <3>2. at(rank(i) + 1) = i
      BY <1>8, <1>11, <3>1
    <3>3. sorted[rank(i) + 1] = l[i]
      BY <1>12, <3>1, <3>2
    <3> QED BY <1>13, <3>1, <3>3 DEF ToSet
  <2> QED BY <1>1, <1>13, <2>1, <2>2 DEF ToSet
<1>17. ASSUME NEW v, NEW w, Before(sorted, v, w) PROVE num[v] >= num[w]
  <2>1. PICK k \in 1 .. n, m \in 1 .. n : k < m /\ sorted[k] = v /\ sorted[m] = w
    BY <1>13, <1>17 DEF Before
  <2>2. /\ at(k) \in 1 .. n /\ at(m) \in 1 .. n
        /\ rank(at(k)) = k - 1 /\ rank(at(m)) = m - 1
    BY <1>11
  <2>3. v = l[at(k)] /\ w = l[at(m)]
    BY <1>12, <2>1
  <2>4. ~(rank(at(m)) < rank(at(k)))
    BY <1>1, <2>1, <2>2
  <2>5. at(m) \notin before(at(k))
    BY <1>7, <2>2, <2>4
  <2>6. /\ key(at(k)) \in Int /\ key(at(m)) \in Int
        /\ ~(key(at(m)) > key(at(k)))
    BY <1>2, <1>3, <2>2, <2>5
  <2> QED BY <2>3, <2>6 DEF key
<1> QED BY <1>15, <1>16, <1>17 DEF sorted

-----------------------------------------------------------------------------
(* Layers *)

Sorted(s, layers) == \A v, w : Before(s, v, w) => layers[v] >= layers[w]

(* The place before p is one for windows of layer l. *)
Fits(st, s, p, l) == \A w \in ToSet(s) : IF Ahead(s, w, p) THEN st.layer[w] >= l
                                                          ELSE st.layer[w] <= l

LEMMA LayerType ==
    ASSUME NEW st \in States
    PROVE  /\ \A w \in Windows : st.layer[w] \in Layers /\ st.layer[w] \in Int
           /\ DefaultLayer \in Int
<1>1. st.layer \in [Windows -> Layers]
  BY DEF States
<1>2. Layers \subseteq Int /\ DefaultLayer \in Layers
  BY Constants
<1>3. \A w \in Windows : st.layer[w] \in Layers
  BY <1>1
<1> QED BY <1>2, <1>3

LEMMA FirstFits ==
    ASSUME NEW st \in States, NEW s \in Lists, NEW t, NEW l \in Int, NEW k \in {l, l - 1},
           Sorted(Without(s, {t}), st.layer)
    PROVE  LET p == FirstAtMost(st, s, t, k)
           IN  /\ p \in ToSet(Without(s, {t})) \cup {Root}
               /\ Fits(st, Without(s, {t}), p, l)
<1> DEFINE p == FirstAtMost(st, s, t, k)
           V == Without(s, {t})
<1>1. /\ V \in Lists /\ ToSet(V) = ToSet(s) \ {t}
      /\ \A v, w : Before(V, v, w) <=> v \notin {t} /\ w \notin {t} /\ Before(s, v, w)
  BY WithoutOrder
<1> HIDE DEF V
<1>2. /\ p \in ToSet(V) \cup {Root}
      /\ p # Root => st.layer[p] <= k
      /\ \A w \in ToSet(V) : Ahead(s, w, p) => ~(st.layer[w] <= k)
  BY <1>1, FirstOrder
<1> HIDE DEF p
<1>3. \A w \in ToSet(V) : st.layer[w] \in Int
  BY <1>1, EmptyList, LayerType
<1>4. ASSUME NEW w \in ToSet(V)
      PROVE  IF Ahead(V, w, p) THEN st.layer[w] >= l ELSE st.layer[w] <= l
  <2>1. CASE Ahead(V, w, p)
    <3>1. Ahead(s, w, p)
      BY <1>1, <2>1 DEF Ahead
    <3>2. ~(st.layer[w] <= k) /\ st.layer[w] \in Int
      BY <1>2, <1>3, <3>1
    <3> QED BY <2>1, <3>2
  <2>2. CASE ~Ahead(V, w, p)
    <3>1. p # Root /\ (w = p \/ Before(V, p, w))
      BY <1>1, <1>2, <2>2, OrderFacts DEF Ahead
    <3>2. st.layer[w] \in Int /\ st.layer[p] \in Int /\ st.layer[p] <= k
      BY <1>2, <1>3, <3>1
    <3>3. st.layer[p] >= st.layer[w]
      BY <3>1, <3>2 DEF Sorted, V
    <3> QED BY <2>2, <3>2, <3>3
  <2> QED BY <2>1, <2>2
<1> QED BY <1>2, <1>4 DEF Fits, p, V

LEMMA InsertSorted ==
    ASSUME NEW st \in States, NEW s \in Lists, NEW list \in Lists, NEW l \in Int,
           ToSet(s) \cap ToSet(list) = {}, NEW p \in ToSet(s) \cup {Root},
           Sorted(s, st.layer), Fits(st, s, p, l), NEW layers,
           \A w \in ToSet(list) : layers[w] = l,
           \A w \in ToSet(s) : layers[w] = st.layer[w]
    PROVE  Sorted(PutBefore(s, list, p), layers)
<1> DEFINE r == PutBefore(s, list, p)
<1>1. \A v, w : Before(r, v, w) <=>
                  \/ Before(s, v, w) \/ Before(list, v, w)
                  \/ (v \in ToSet(s) /\ w \in ToSet(list) /\ Ahead(s, v, p))
                  \/ (v \in ToSet(list) /\ w \in ToSet(s) /\ ~Ahead(s, w, p))
  BY PutBeforeOrder
<1> HIDE DEF r
<1>2. /\ \A w \in ToSet(s) : layers[w] \in Int /\ layers[w] = st.layer[w]
      /\ \A w \in ToSet(list) : layers[w] \in Int /\ layers[w] = l
  BY EmptyList, LayerType
<1>3. ASSUME NEW v, NEW w, Before(r, v, w) PROVE layers[v] >= layers[w]
  <2>1. CASE Before(s, v, w)
    BY <1>2, <2>1, OrderFacts DEF Sorted
  <2>2. CASE Before(list, v, w)
    BY <1>2, <2>2, OrderFacts
  <2>3. CASE v \in ToSet(s) /\ w \in ToSet(list) /\ Ahead(s, v, p)
    BY <1>2, <2>3 DEF Fits
  <2>4. CASE v \in ToSet(list) /\ w \in ToSet(s) /\ ~Ahead(s, w, p)
    BY <1>2, <2>4 DEF Fits
  <2> QED BY <1>1, <1>3, <2>1, <2>2, <2>3, <2>4
<1> QED BY <1>3 DEF Sorted, r

-----------------------------------------------------------------------------
(* Restacking a window *)

Modes == {"raise", "lower", "restack"}

(* An operation on the order keeps the windows and all else that is known of them. *)
Kept(st, out) ==
    /\ out \in States /\ ToSet(out.ring) = ToSet(st.ring)
    /\ out.layer = st.layer /\ out.hint = st.hint
    /\ out.iconic = st.iconic /\ out.byParent = st.byParent
    /\ st.x = st.ring => out.x = out.ring

(* The windows that are not in F keep their order. *)
OthersStay(st, out, F) ==
    \A v, w \in Windows \ F : Before(st.ring, v, w) => Before(out.ring, v, w)

(* What RestackWindow leaves of the marks *)
MarksAfter(st, t, mode, out) ==
    \/ out.marks = NoMarks \/ out.marks = st.marks
    \/ mode # "restack" /\ t \notin st.iconic /\ MovesTransients(t, mode)

Scope(st, t) == InLayer(st, st.layer[t])
From(st, mode) == IF mode = "restack" THEN st ELSE [st EXCEPT !.marks = NoMarks]

(* What RestackWindow does with a window t of the ring; all but t that it moves is
   in a set that encloses the marks. *)
WindowMoved(st, t, mode, out) ==
    /\ Kept(st, out) /\ MarksAfter(st, t, mode, out)
    /\ Sorted(st.ring, st.layer) /\ (mode = "restack" => ~st.marks.keep) =>
          Sorted(out.ring, st.layer)
    /\ \A F \in SUBSET Windows : Encloses(From(st, mode), t, Scope(st, t), F) =>
          OthersStay(st, out, F)

LEMMA FromType ==
    ASSUME NEW st \in States, NEW mode
    PROVE  /\ From(st, mode) \in States /\ From(st, mode).ring = st.ring
           /\ From(st, mode).layer = st.layer /\ From(st, mode).hint = st.hint
           /\ From(st, mode).iconic = st.iconic
           /\ (mode = "restack" => ~st.marks.keep) => ~From(st, mode).marks.keep
<1>1. CASE mode = "restack"
  BY <1>1 DEF From
<1>2. CASE mode # "restack"
  <2>1. From(st, mode) = [st EXCEPT !.marks = NoMarks]
    BY <1>2 DEF From
  <2>2. [st EXCEPT !.marks = NoMarks] \in States
    BY NoMarksType, NewMarks
  <2>3. NoMarks.keep = FALSE
    BY DEF NoMarks
  <2> QED BY <1>2, <2>1, <2>2, <2>3 DEF States
<1> QED BY <1>1, <1>2

(* The list that is moved with t, in the order it is put in *)
LEMMA MoversFacts ==
    ASSUME NEW st \in States, NEW t \in ToSet(st.ring), NEW tree \in Trees, NEW movers,
           movers \subseteq DOMAIN tree, t \notin movers
    PROVE  LET list == SortTransientRing(Only(st.ring, movers), tree)
           IN  /\ Append(list, t) \in Lists /\ Append(list, t) # <<>>
               /\ ToSet(Append(list, t)) = (ToSet(st.ring) \cap movers) \cup {t}
<1> DEFINE l == Only(st.ring, movers)
           list == SortTransientRing(l, tree)
<1>1. st.ring \in Lists
  BY DEF States
<1>2. l \in Lists /\ ToSet(l) = ToSet(st.ring) \cap movers
  BY <1>1, OnlyOrder
<1> HIDE DEF l
<1>3. list \in Lists /\ ToSet(list) = ToSet(l)
  BY <1>2, SortFacts
<1> HIDE DEF list
<1>4. t \in Windows \ ToSet(list)
  BY <1>1, <1>2, <1>3, EmptyList
<1>5. Append(list, t) \in Lists /\ ToSet(Append(list, t)) = ToSet(list) \cup {t}
  BY <1>3, <1>4, AppendOrder
<1>6. Append(list, t) # <<>>
  BY <1>5, EmptyList
<1> QED BY <1>2, <1>3, <1>5, <1>6 DEF l, list

(* The window that the list is put before *)
LEMMA PlaceToInsert ==
    ASSUME NEW st \in States, NEW t \in ToSet(st.ring), NEW movers, t \notin movers,
           NEW mode \in Modes
    PROVE  LET rest == Without(st.ring, movers)
               s == InsertBeforeWindow(st, rest, t, mode)
               W == Without(st.ring, movers \cup {t})
           IN  /\ s \in ToSet(W) \cup {Root}
               /\ Sorted(st.ring, st.layer) => Fits(st, W, s, st.layer[t])
<1> DEFINE rest == Without(st.ring, movers)
           s == InsertBeforeWindow(st, rest, t, mode)
           W == Without(st.ring, movers \cup {t})
           l == st.layer[t]
<1>1. st.ring \in Lists /\ t \in Windows
  BY EmptyList DEF States
<1>2. /\ rest \in Lists /\ ToSet(rest) = ToSet(st.ring) \ movers
      /\ \A v, w : Before(rest, v, w) <=> v \notin movers /\ w \notin movers /\ Before(st.ring, v, w)
  BY <1>1, WithoutOrder
<1>3. /\ W \in Lists /\ ToSet(W) = ToSet(st.ring) \ (movers \cup {t})
      /\ \A v, w : Before(W, v, w) <=> /\ v \notin movers \cup {t} /\ w \notin movers \cup {t}
                                       /\ Before(st.ring, v, w)
  BY <1>1, WithoutOrder
<1>4. s = CASE mode = "raise"   -> FirstAtMost(st, rest, t, l)
            [] mode = "lower"   -> FirstAtMost(st, rest, t, l - 1)
            [] mode = "restack" -> NextIn(rest, t)
  BY DEF InsertBeforeWindow
<1> HIDE DEF rest, s, W
<1>5. W = Without(rest, {t})
  <2> DEFINE V == Without(rest, {t})
  <2>1. /\ V \in Lists /\ ToSet(V) = ToSet(rest) \ {t}
        /\ \A v, w : Before(V, v, w) <=> v \notin {t} /\ w \notin {t} /\ Before(rest, v, w)
    BY <1>2, WithoutOrder
  <2> HIDE DEF V
  <2>2. ToSet(V) = ToSet(W)
    BY <1>2, <1>3, <2>1
  <2>3. \A v, w \in ToSet(W) : Before(W, v, w) => Before(V, v, w)
    BY <1>2, <1>3, <2>1
  <2>4. V = W
    BY <1>3, <2>1, <2>2, <2>3, SameOrder
  <2> QED BY <2>4 DEF V
<1>6. l \in Int
  BY <1>1, LayerType
<1>7. Sorted(st.ring, st.layer) => Sorted(W, st.layer)
  BY <1>3 DEF Sorted
<1>8. ASSUME mode \in {"raise", "lower"}
      PROVE  /\ s \in ToSet(W) \cup {Root}
             /\ Sorted(st.ring, st.layer) => Fits(st, W, s, l)
  <2> DEFINE k == IF mode = "raise" THEN l ELSE l - 1
  <2>1. s = FirstAtMost(st, rest, t, k)
    BY <1>4, <1>8
  <2>2. k \in {l, l - 1}
    OBVIOUS
  <2> HIDE DEF k, l
  <2>3. s \in (ToSet(rest) \ {t}) \cup {Root}
    BY <1>2, <2>1, FirstOrder
  <2>4. Sorted(st.ring, st.layer) => Fits(st, W, s, l)
    BY <1>2, <1>5, <1>6, <1>7, <2>1, <2>2, FirstFits
  <2> QED BY <1>2, <1>3, <2>3, <2>4
<1>9. ASSUME mode = "restack"
      PROVE  /\ s \in ToSet(W) \cup {Root}
             /\ Sorted(st.ring, st.layer) => Fits(st, W, s, l)
  <2>1. s = NextIn(rest, t) /\ t \in ToSet(rest)
    BY <1>2, <1>4, <1>9
  <2>2. /\ s \in (ToSet(rest) \ {t}) \cup {Root}
        /\ \A v \in ToSet(rest) : Ahead(rest, v, s) <=> v = t \/ Before(rest, v, t)
    BY <1>2, <2>1, NextOrder
  <2> HIDE DEF l
  <2>3. ASSUME Sorted(st.ring, st.layer), NEW w \in ToSet(W)
        PROVE  IF Ahead(W, w, s) THEN st.layer[w] >= l ELSE st.layer[w] <= l
    <3>1. w \in ToSet(rest) /\ w # t /\ w \notin movers /\ w \in ToSet(st.ring)
      BY <1>2, <1>3
    <3>2. st.layer[w] \in Int
      BY <1>1, <3>1, EmptyList, LayerType
    <3>3. Ahead(W, w, s) <=> Before(st.ring, w, t)
      <4>1. Ahead(W, w, s) <=> Ahead(rest, w, s)
        BY <1>2, <1>3, <2>2, <3>1 DEF Ahead
      <4> QED BY <1>2, <2>2, <3>1, <4>1
    <3>4. Before(st.ring, w, t) \/ Before(st.ring, t, w)
      BY <1>1, <3>1, OrderFacts
    <3> QED BY <1>6, <2>3, <3>2, <3>3, <3>4 DEF Sorted, l
  <2> QED BY <1>2, <1>3, <2>2, <2>3 DEF Fits
<1> QED BY <1>8, <1>9 DEF Modes, rest, s, W

(* The windows from the one above t to the one below t *)
LEMMA AroundSpans ==
    ASSUME NEW st \in States, NEW t \in ToSet(st.ring)
    PROVE  Spans(st, PrevIn(st.ring, t), NextIn(st.ring, t))
<1> DEFINE s == st.ring
           p == PrevIn(s, t)
           q == NextIn(s, t)
<1>1. s \in Lists
  BY DEF States
<1>2. s # <<>>
  BY <1>1, EmptyList
<1>3. p \in ToSet(s) \cup {Root} /\ (p # Root => Before(s, p, t))
  BY <1>1, PrevOrder
<1>4. q \in ToSet(s) \cup {Root} /\ (q # Root => Before(s, t, q))
  BY <1>1, NextOrder
<1> HIDE DEF p, q
<1>5. p # Root /\ q # Root => Before(s, p, q)
  BY <1>1, <1>3, <1>4, OrderFacts
<1> QED BY <1>2, <1>3, <1>4, <1>5 DEF Spans, p, q

LEMMA MarksKept ==
    ASSUME NEW st \in States, NEW m \in Marks
    PROVE  LET from == [st EXCEPT !.marks = m]
           IN  /\ from \in States /\ from.marks = m /\ from.ring = st.ring /\ from.x = st.x
               /\ from.layer = st.layer /\ from.hint = st.hint
               /\ from.iconic = st.iconic /\ from.byParent = st.byParent
BY NewMarks DEF States

LEMMA ViewKept ==
    ASSUME NEW st \in States, NEW out, ViewChanges(st, out)
    PROVE  /\ out \in States /\ out.marks = st.marks /\ out.ring = st.ring /\ out.x = st.x
           /\ out.layer = st.layer /\ out.hint = st.hint
           /\ out.iconic = st.iconic /\ out.byParent = st.byParent
<1>1. PICK v \in Lists : ToSet(v) = ToSet(st.ring) /\ out = [st EXCEPT !.view = v]
  BY DEF ViewChanges
<1> QED BY <1>1, NewView DEF States

LEMMA WindowRestacked ==
    ASSUME NEW st \in States, NEW t \in ToSet(st.ring), NEW mode \in Modes,
           NEW num \in [Windows -> Int]
    PROVE  WindowMoved(st, t, mode, RestackWindow(st, t, mode, num))
<1> DEFINE scope == Scope(st, t)
           moves == MustMoveTransients(st, t, mode)
           from == From(st, mode)
           tree == MarkTransientSubtree(from, num, t, scope, mode)
           keep == [keep |-> TRUE, tree |-> DOMAIN tree, leader |-> Leaders(from, scope)]
           movers == IF moves THEN DOMAIN tree \ {t} ELSE {}
           list == Append(SortTransientRing(Only(st.ring, movers), tree), t)
           s == InsertBeforeWindow(st, Without(st.ring, movers), t, mode)
           marked == [st EXCEPT !.marks = keep]
           cleared == [st EXCEPT !.marks = IF moves THEN NoMarks ELSE st.marks]
           out == RestackWindow(st, t, mode, num)
<1>1. /\ st.ring \in Lists /\ t \in Windows /\ ToSet(st.ring) \subseteq Windows
      /\ st.marks \in Marks
  BY EmptyList DEF States
<1>2. scope \in SUBSET Windows
  BY <1>1 DEF Scope, InLayer
<1>3. /\ from \in States /\ ((mode = "restack" => ~st.marks.keep) => ~from.marks.keep)
  BY FromType
<1>4. out = IF mode # "restack" /\ ~moves /\ IsPlaced(st, t, mode) THEN st
            ELSE IF mode # "restack" /\ moves /\ IsStraight(st, tree, t, mode)
            THEN BroadcastRestack(marked, PrevIn(st.ring, t), NextIn(st.ring, t))
            ELSE RestackWindowList(cleared, list, s, mode = "lower")
  BY DEF RestackWindow, Scope, From
<1> HIDE DEF scope, from, out
<1>5. /\ tree \in Trees /\ t \in DOMAIN tree
      /\ \A F \in SUBSET Windows : Encloses(from, t, scope, F) => DOMAIN tree \subseteq F
  BY <1>1, <1>2, <1>3, TreeFacts
<1> HIDE DEF tree
<1>6. keep \in Marks
  <2>1. Leaders(from, scope) \in [Windows -> Windows \cup {Root}]
    BY <1>3, LeadersType
  <2>2. DOMAIN tree \subseteq Windows
    BY <1>5 DEF Trees
  <2> QED BY <2>1, <2>2 DEF Marks
<1> HIDE DEF keep
<1>7. movers \subseteq DOMAIN tree /\ t \notin movers
  OBVIOUS
<1>8. moves => t \notin st.iconic /\ MovesTransients(t, mode)
  BY DEF MustMoveTransients
<1> HIDE DEF moves, movers
<1>9. CASE mode # "restack" /\ ~moves /\ IsPlaced(st, t, mode)
  <2>1. out = st
    BY <1>4, <1>9
  <2>2. Kept(st, st) /\ MarksAfter(st, t, mode, st) /\ \A F : OthersStay(st, st, F)
    BY DEF Kept, MarksAfter, OthersStay
  <2> QED BY <2>1, <2>2 DEF WindowMoved, out
<1>10. CASE mode # "restack" /\ moves /\ IsStraight(st, tree, t, mode)
  <2>1. out = BroadcastRestack(marked, PrevIn(st.ring, t), NextIn(st.ring, t))
    BY <1>4, <1>10
  <2>2. /\ marked \in States /\ marked.ring = st.ring /\ marked.x = st.x
        /\ marked.layer = st.layer /\ marked.hint = st.hint
        /\ marked.iconic = st.iconic /\ marked.byParent = st.byParent
    BY <1>6, MarksKept
  <2> HIDE DEF marked
  <2>3. Spans(marked, PrevIn(st.ring, t), NextIn(st.ring, t))
    BY <2>2, AroundSpans
  <2>4. ViewChanges(marked, out)
    BY <2>1, <2>2, <2>3, Told
  <2>5. /\ out \in States /\ out.ring = st.ring /\ out.x = st.x
        /\ out.layer = st.layer /\ out.hint = st.hint
        /\ out.iconic = st.iconic /\ out.byParent = st.byParent
    BY <2>2, <2>4, ViewKept
  <2>6. Kept(st, out) /\ MarksAfter(st, t, mode, out) /\ \A F : OthersStay(st, out, F)
    BY <1>8, <1>10, <2>5 DEF Kept, MarksAfter, OthersStay
  <2> QED BY <2>5, <2>6 DEF WindowMoved, out
<1>11. CASE /\ ~(mode # "restack" /\ ~moves /\ IsPlaced(st, t, mode))
            /\ ~(mode # "restack" /\ moves /\ IsStraight(st, tree, t, mode))
  <2> DEFINE W == Without(st.ring, ToSet(list))
  <2>1. out = RestackWindowList(cleared, list, s, mode = "lower")
    BY <1>4, <1>11
  <2>2. /\ cleared \in States /\ cleared.ring = st.ring /\ cleared.x = st.x
        /\ cleared.layer = st.layer /\ cleared.hint = st.hint
        /\ cleared.iconic = st.iconic /\ cleared.byParent = st.byParent
        /\ cleared.marks = IF moves THEN NoMarks ELSE st.marks
    <3>1. (IF moves THEN NoMarks ELSE st.marks) \in Marks
      BY <1>1, NoMarksType
    <3> QED BY <3>1, MarksKept
  <2> HIDE DEF cleared
  <2>3. /\ list \in Lists /\ list # <<>>
        /\ ToSet(list) = (ToSet(st.ring) \cap movers) \cup {t}
    BY <1>5, <1>7, MoversFacts
  <2>4. /\ s \in ToSet(Without(st.ring, movers \cup {t})) \cup {Root}
        /\ Sorted(st.ring, st.layer) =>
              Fits(st, Without(st.ring, movers \cup {t}), s, st.layer[t])
    BY <1>7, PlaceToInsert
  <2> HIDE DEF list, s
  <2>5. W = Without(st.ring, movers \cup {t})
    <3>1. ToSet(st.ring) \ ToSet(list) = ToSet(st.ring) \ (movers \cup {t})
      BY <2>3
    <3> QED BY <3>1 DEF Without
  <2>6. /\ W \in Lists /\ ToSet(W) = ToSet(st.ring) \ ToSet(list)
        /\ \A v, w : Before(W, v, w) <=> /\ v \notin ToSet(list) /\ w \notin ToSet(list)
                                         /\ Before(st.ring, v, w)
    BY <1>1, WithoutOrder
  <2>7. Movable(cleared, list, s)
    BY <2>2, <2>3, <2>4, <2>5, <2>6 DEF Movable
  <2>8. ListMoved(cleared, list, s, out)
    BY <2>1, <2>2, <2>3, <2>7, ListRestacked
  <2> HIDE DEF W
  <2>9. /\ out \in States /\ out.ring = PutBefore(W, list, s)
        /\ ToSet(out.ring) = ToSet(st.ring)
        /\ out.layer = st.layer /\ out.hint = st.hint
        /\ out.iconic = st.iconic /\ out.byParent = st.byParent
        /\ out.marks = cleared.marks
        /\ st.x = st.ring => out.x = out.ring
    <3>1. /\ out \in States /\ ToSet(out.ring) = ToSet(cleared.ring)
          /\ cleared.x = cleared.ring => out.x = out.ring
      BY <2>8 DEF ListMoved
    <3>2. out = [cleared EXCEPT !.ring = PutBefore(Without(cleared.ring, ToSet(list)), list, s),
                                !.x = out.x, !.view = out.view]
      BY <2>8 DEF ListMoved
    <3>3. PutBefore(Without(cleared.ring, ToSet(list)), list, s) = PutBefore(W, list, s)
      BY <2>2 DEF W
    <3> HIDE DEF out, marked
    <3>4. /\ out.ring = PutBefore(Without(cleared.ring, ToSet(list)), list, s)
          /\ out.layer = cleared.layer /\ out.hint = cleared.hint
          /\ out.iconic = cleared.iconic /\ out.byParent = cleared.byParent
          /\ out.marks = cleared.marks
      BY <2>2, <3>2 DEF States
    <3> QED BY <2>2, <3>1, <3>3, <3>4
  <2>10. Kept(st, out) /\ MarksAfter(st, t, mode, out)
    BY <2>2, <2>9 DEF Kept, MarksAfter
  <2>11. ToSet(W) \cap ToSet(list) = {} /\ s \in ToSet(W) \cup {Root}
    BY <2>4, <2>5, <2>6
  <2>12. ASSUME Sorted(st.ring, st.layer), mode = "restack" => ~st.marks.keep
         PROVE  Sorted(out.ring, st.layer)
    <3>1. Encloses(from, t, scope, scope \cup {t})
      BY <1>3, <2>12 DEF Encloses
    <3>2. ToSet(list) \subseteq scope \cup {t}
      BY <1>1, <1>2, <1>5, <1>7, <2>3, <3>1
    <3>3. \A w \in ToSet(list) : st.layer[w] = st.layer[t]
      BY <3>2 DEF scope, Scope, InLayer
    <3>4. st.layer[t] \in Int
      BY <1>1, LayerType
    <3>5. Fits(st, W, s, st.layer[t])
      BY <2>4, <2>5, <2>12
    <3>6. Sorted(W, st.layer)
      BY <2>6, <2>12 DEF Sorted
    <3> DEFINE l == st.layer[t]
               lay == st.layer
    <3>7. l \in Int /\ Fits(st, W, s, l) /\ \A w \in ToSet(list) : lay[w] = l
      BY <3>3, <3>4, <3>5
    <3> HIDE DEF l
    <3>8. Sorted(PutBefore(W, list, s), lay)
      BY <2>3, <2>6, <2>11, <3>6, <3>7, InsertSorted
    <3> QED BY <2>9, <3>8
  <2>13. ASSUME NEW F \in SUBSET Windows, Encloses(from, t, scope, F)
         PROVE  OthersStay(st, out, F)
    <3>1. ToSet(list) \subseteq F
      BY <1>5, <1>7, <2>3, <2>13 DEF Encloses
    <3>2. ASSUME NEW v \in Windows \ F, NEW w \in Windows \ F, Before(st.ring, v, w)
          PROVE  Before(out.ring, v, w)
      <4>1. Before(W, v, w)
        BY <2>6, <3>1, <3>2
      <4> QED BY <2>3, <2>6, <2>9, <2>11, <4>1, PutBeforeOrder
    <3> QED BY <3>2 DEF OthersStay
  <2> QED BY <2>10, <2>12, <2>13 DEF WindowMoved, from, scope, out
<1> QED BY <1>9, <1>10, <1>11

-----------------------------------------------------------------------------
(* Raising and lowering *)

(* F holds with a window its leader and its transients. *)
FamilySet(st, F) ==
    /\ F \subseteq Windows
    /\ \A w \in Windows : LeaderOf(st, w) # Root => (w \in F <=> LeaderOf(st, w) \in F)

SameFamily(st, t, w) == \A F : FamilySet(st, F) /\ t \in F => w \in F

(* What RaiseOrLower does with t, or a part of it *)
ChainMoved(st, t, mode, out) ==
    /\ Kept(st, out)
    /\ \/ out.marks = NoMarks \/ out.marks = st.marks
       \/ mode # "restack" /\ \E w \in Scope(st, t) \ st.iconic : MovesTransients(w, mode)
    /\ (mode = "restack" => ~st.marks.keep) =>
          /\ Sorted(st.ring, st.layer) => Sorted(out.ring, st.layer)
          /\ \A F : FamilySet(st, F) /\ t \in F => OthersStay(st, out, F)

LEMMA KeptFacts ==
    ASSUME NEW st, NEW s, Kept(st, s)
    PROVE  /\ \A w : LeaderOf(s, w) = LeaderOf(st, w)
           /\ \A t : Scope(s, t) = Scope(st, t)
           /\ \A F : FamilySet(s, F) <=> FamilySet(st, F)
           /\ \A out : Kept(s, out) => Kept(st, out)
<1>1. \A w : LeaderOf(s, w) = LeaderOf(st, w)
  BY DEF Kept, LeaderOf
<1>2. \A t : Scope(s, t) = Scope(st, t)
  BY DEF Kept, Scope, InLayer
<1>3. \A F : FamilySet(s, F) <=> FamilySet(st, F)
  BY <1>1 DEF FamilySet
<1>4. \A out : Kept(s, out) => Kept(st, out)
  BY DEF Kept
<1> QED BY <1>1, <1>2, <1>3, <1>4

LEMMA MarkedInFamily ==
    ASSUME NEW st \in States, ~st.marks.keep, NEW w, NEW scope \in SUBSET Windows,
           NEW F, FamilySet(st, F), w \in F
    PROVE  Encloses(st, w, scope, F)
<1>1. F \subseteq Windows /\ Root \notin Windows
  BY Constants DEF FamilySet
<1>2. Leaders(st, scope) = [v \in Windows |-> IF v \in scope THEN LeaderOf(st, v) ELSE Root]
  BY DEF Leaders
<1>3. ASSUME NEW v \in scope, Leaders(st, scope)[v] \in F PROVE v \in F
  <2>1. Leaders(st, scope)[v] = LeaderOf(st, v)
    BY <1>2
  <2>2. LeaderOf(st, v) \in F /\ LeaderOf(st, v) # Root
    BY <1>1, <1>3, <2>1
  <2> QED BY <2>2 DEF FamilySet
<1> QED BY <1>3 DEF Encloses

(* G holds the leaders that move before its windows. *)
MovesWith(st, G) == \A w \in G : StackParent(st, w) \in G \cup {Root}

(* c leads from t to leaders that move before it. *)
Chain(st, t, c) ==
    /\ c[1] = t
    /\ \A i \in 1 .. Len(c) - 1 : c[i + 1] = StackParent(st, c[i]) /\ c[i + 1] # Root

LEMMA ParentsFacts ==
    ASSUME NEW st \in States, NEW G \in SUBSET Windows, NEW t \in G, MovesWith(st, G)
    PROVE  /\ StackParents(st, t) \in Seq(G) /\ StackParents(st, t) # <<>>
           /\ Chain(st, t, StackParents(st, t))
<1> DEFINE n == Cardinality(Windows)
           D == {c \in Seq(G) \ {<<>>} : Chain(st, t, c)}
           Body(c) == LET p == StackParent(st, Last(c)) IN IF p = Root THEN c ELSE Append(c, p)
           Is(f) == f = [i \in 0 .. n |->
                           IF i = 0 THEN <<t>>
                           ELSE LET c == f[i - 1]
                                    p == StackParent(st, Last(c))
                                IN  IF p = Root THEN c ELSE Append(c, p)]
           up == CHOOSE f : Is(f)
<1>1. n \in Nat
  BY Constants, FS_CardinalityType
<1>2. StackParents(st, t) = up[n]
  BY DEF StackParents
<1>3. <<t>> \in D
  BY DEF Chain
<1>4. ASSUME NEW c \in D PROVE Body(c) \in D
  <2>1. c \in Seq(G) /\ Len(c) \in Nat /\ Len(c) # 0 /\ Chain(st, t, c)
    BY <1>4
  <2>2. Last(c) \in G
    BY <2>1 DEF Last
  <2>3. StackParent(st, Last(c)) \in G \cup {Root}
    BY <2>2 DEF MovesWith
  <2> DEFINE p == StackParent(st, Last(c))
  <2> HIDE DEF p
  <2>4. ASSUME p # Root PROVE Append(c, p) \in D
    <3> DEFINE d == Append(c, p)
    <3>1. p \in G /\ p = StackParent(st, c[Len(c)])
      BY <2>1, <2>3, <2>4 DEF p, Last
    <3>2. /\ d \in Seq(G) /\ d # <<>> /\ Len(d) = Len(c) + 1 /\ d[Len(c) + 1] = p
          /\ \A i \in 1 .. Len(c) : d[i] = c[i]
      BY <2>1, <3>1, AppendFacts
    <3> HIDE DEF d, p
    <3>3. ASSUME NEW i \in 1 .. Len(c) PROVE d[i + 1] = StackParent(st, d[i]) /\ d[i + 1] # Root
      <4>1. CASE i = Len(c)
        BY <2>4, <3>1, <3>2, <4>1
      <4>2. CASE i # Len(c)
        <5>1. i \in 1 .. Len(c) - 1 /\ i + 1 \in 1 .. Len(c)
          BY <2>1, <4>2
        <5> QED BY <2>1, <3>2, <5>1 DEF Chain
      <4> QED BY <4>1, <4>2
    <3>4. d[1] = t
      <4>1. 1 \in 1 .. Len(c)
        BY <2>1
      <4> QED BY <2>1, <3>2, <4>1 DEF Chain
    <3>5. Chain(st, t, d)
      BY <2>1, <3>2, <3>3, <3>4 DEF Chain
    <3> QED BY <3>2, <3>5 DEF d
  <2> QED BY <2>1, <2>4 DEF p
<1>5. \E f : Is(f)
  <2> DEFINE step == [i \in 1 .. n |-> [c \in D |-> Body(c)]]
  <2> HIDE DEF n, D, Body
  <2>1. step \in Steps(D, n)
    BY <1>4 DEF Steps
  <2>2. \A i \in 1 .. n : \A c \in D : step[i][c] = Body(c)
    OBVIOUS
  <2> HIDE DEF step
  <2>3. PICK f : Iterates(f, D, <<t>>, n, step)
    BY <1>1, <1>3, <2>1, Recursion
  <2>4. /\ f \in [0 .. n -> D] /\ f[0] = <<t>>
        /\ \A i \in 1 .. n : f[i] = step[i][f[i - 1]]
    BY <2>3 DEF Iterates
  <2>5. ASSUME NEW i \in 0 .. n PROVE f[i] = IF i = 0 THEN <<t>> ELSE Body(f[i - 1])
    <3>1. CASE i = 0
      BY <2>4, <3>1
    <3>2. CASE i # 0
      <4>1. i \in 1 .. n /\ i - 1 \in 0 .. n
        BY <1>1, <3>2
      <4> QED BY <2>2, <2>4, <3>2, <4>1
    <3> QED BY <3>1, <3>2
  <2>6. f = [i \in 0 .. n |-> IF i = 0 THEN <<t>> ELSE Body(f[i - 1])]
    BY <2>4, <2>5
  <2>7. Is(f)
    BY <2>6 DEF Body
  <2> QED BY <2>7
<1>6. Is(up)
  BY <1>5
<1> HIDE DEF up
<1>7. up = [i \in 0 .. n |-> IF i = 0 THEN <<t>> ELSE Body(up[i - 1])]
  BY <1>6
<1> HIDE DEF n, D, Body
<1>8. up[0] = <<t>>
  BY <1>1, <1>7
<1>9. ASSUME NEW i \in 1 .. n PROVE up[i] = Body(up[i - 1])
  <2>1. i \in 0 .. n /\ i # 0
    BY <1>1
  <2> QED BY <1>7, <2>1
<1> DEFINE P == {i \in 0 .. n : up[i] \in D}
<1>10. 0 \in P
  BY <1>1, <1>3, <1>8
<1>11. \A i \in 1 .. n : i - 1 \in P => i \in P
  <2> SUFFICES ASSUME NEW i \in 1 .. n, i - 1 \in P PROVE i \in P
    OBVIOUS
  <2>1. up[i] \in D
    BY <1>4, <1>9
  <2> QED BY <1>1, <2>1
<1>12. 0 .. n \subseteq P
  <2> HIDE DEF P
  <2> QED BY <1>1, <1>10, <1>11, UpTo
<1>13. up[n] \in D
  BY <1>1, <1>12
<1> QED BY <1>2, <1>13 DEF D

LEMMA ParentsPlace ==
    ASSUME NEW st \in States, NEW t \in ToSet(st.ring), NEW w \in ToSet(StackParents(st, t))
    PROVE  w \in Scope(st, t) /\ SameFamily(st, t, w)
<1>1. ToSet(st.ring) \subseteq Windows
  BY EmptyList DEF States
<1>2. \A v : StackParent(st, v) # Root => /\ StackParent(st, v) = LeaderOf(st, v)
                                          /\ st.layer[LeaderOf(st, v)] = st.layer[v]
  BY DEF StackParent
<1>3. \A v : LeaderOf(st, v) \in ToSet(st.ring) \cup {Root}
  BY DEF LeaderOf
<1>4. ASSUME NEW F, FamilySet(st, F), t \in F PROVE w \in F \cap Scope(st, t)
  <2> DEFINE G == F \cap Scope(st, t)
  <2>1. G \in SUBSET Windows
    BY <1>1 DEF Scope, InLayer
  <2>2. t \in G
    BY <1>4 DEF Scope, InLayer
  <2>3. ASSUME NEW v \in G PROVE StackParent(st, v) \in G \cup {Root}
    <3>1. CASE StackParent(st, v) = Root
      BY <3>1
    <3>2. CASE StackParent(st, v) # Root
      <4>1. StackParent(st, v) \in Scope(st, t)
        BY <1>2, <1>3, <2>3, <3>2 DEF Scope, InLayer
      <4>2. StackParent(st, v) \in F
        BY <1>2, <1>4, <2>1, <2>3, <3>2 DEF FamilySet
      <4> QED BY <4>1, <4>2
    <3> QED BY <3>1, <3>2
  <2> HIDE DEF G
  <2>4. StackParents(st, t) \in Seq(G)
    BY <2>1, <2>2, <2>3, ParentsFacts DEF MovesWith
  <2>5. ToSet(StackParents(st, t)) \subseteq G
    BY <2>4 DEF ToSet
  <2> QED BY <2>5 DEF G
<1>5. FamilySet(st, Windows)
  BY <1>1, <1>3 DEF FamilySet
<1> QED BY <1>1, <1>4, <1>5 DEF SameFamily

LEMMA OneMore ==
    ASSUME NEW st \in States, NEW t \in ToSet(st.ring), NEW mode \in Modes,
           NEW s, ChainMoved(st, t, mode, s),
           NEW w \in Scope(st, t), SameFamily(st, t, w),
           NEW out, WindowMoved(s, w, mode, out)
    PROVE  ChainMoved(st, t, mode, out)
<1>1. Kept(st, s) /\ Kept(s, out) /\ s \in States
  BY DEF ChainMoved, WindowMoved, Kept
<1>2. /\ \A v : LeaderOf(s, v) = LeaderOf(st, v)
      /\ \A v : Scope(s, v) = Scope(st, v)
      /\ \A F : FamilySet(s, F) <=> FamilySet(st, F)
      /\ Kept(st, out)
  BY <1>1, KeptFacts
<1>3. s.iconic = st.iconic /\ s.layer = st.layer
  BY <1>1 DEF Kept
<1>4. \/ out.marks = NoMarks \/ out.marks = st.marks
      \/ mode # "restack" /\ \E v \in Scope(st, t) \ st.iconic : MovesTransients(v, mode)
  BY <1>3 DEF ChainMoved, WindowMoved, MarksAfter
<1>5. ASSUME mode = "restack" => ~st.marks.keep
      PROVE  /\ Sorted(st.ring, st.layer) => Sorted(out.ring, st.layer)
             /\ \A F : FamilySet(st, F) /\ t \in F => OthersStay(st, out, F)
  <2> DEFINE from == From(s, mode)
  <2>1. mode = "restack" => ~s.marks.keep
    <3>1. NoMarks.keep = FALSE
      BY DEF NoMarks
    <3> QED BY <1>5, <3>1 DEF ChainMoved
  <2>2. /\ from \in States /\ from.ring = s.ring /\ from.hint = s.hint
        /\ ~from.marks.keep
    BY <1>1, <2>1, FromType
  <2> HIDE DEF from
  <2>3. Sorted(st.ring, st.layer) => Sorted(out.ring, st.layer)
    BY <1>3, <1>5, <2>1 DEF ChainMoved, WindowMoved
  <2>4. ASSUME NEW F, FamilySet(st, F), t \in F PROVE OthersStay(st, out, F)
    <3>1. FamilySet(s, F) /\ w \in F
      BY <1>2, <2>4 DEF SameFamily
    <3>2. \A v : LeaderOf(from, v) = LeaderOf(s, v)
      BY <2>2 DEF LeaderOf
    <3>3. FamilySet(from, F)
      BY <3>1, <3>2 DEF FamilySet
    <3>4. Scope(s, w) \in SUBSET Windows
      BY <1>1, EmptyList DEF Scope, InLayer, States
    <3>5. Encloses(from, w, Scope(s, w), F)
      BY <2>2, <3>1, <3>3, <3>4, MarkedInFamily
    <3>6. F \in SUBSET Windows
      BY <2>4 DEF FamilySet
    <3>7. OthersStay(s, out, F)
      BY <3>5, <3>6 DEF WindowMoved, from
    <3>8. OthersStay(st, s, F)
      BY <1>5, <2>4 DEF ChainMoved
    <3> QED BY <3>7, <3>8 DEF OthersStay
  <2> QED BY <2>3, <2>4
<1> QED BY <1>2, <1>4, <1>5 DEF ChainMoved

(* The numbers that RaiseOrLower gives the windows *)
Numbers(st, t, mode) ==
    LET up == StackParents(st, t)
        parent(w) == up[Place(up, w) + 1]
        isTop(w) == st.hint[w] = NoHint \/ w \notin StackTransientParent
    IN  [w \in Windows |->
            IF w \notin ToSet(Front(up)) THEN 0
            ELSE IF mode = "lower" /\ isTop(parent(w)) THEN -LowerPenalty
            ELSE BranchBonus]

(* What it does with a window w of the chain, in state s *)
OneStep(st, t, mode, w, s) ==
    LET up == StackParents(st, t)
    IN  IF w # Last(up) /\ MovesTransients(up[Place(up, w) + 1], mode) THEN s
        ELSE RestackWindow(s, w, mode, Numbers(st, t, mode))

StepsTaken(st, t, mode, done) ==
    LET up == StackParents(st, t)
        n  == Len(up)
    IN  /\ done[0] = st
        /\ \A i \in 1 .. n : done[i] = OneStep(st, t, mode, up[n - i + 1], done[i - 1])
        /\ \A i \in 0 .. n : done[i] \in States /\ ChainMoved(st, t, mode, done[i])
        /\ RaiseOrLower(st, t, mode) = done[n]

LEMMA RaiseOrLowerSteps ==
    ASSUME NEW st \in States, NEW t \in ToSet(st.ring), NEW mode \in Modes
    PROVE  \E done : StepsTaken(st, t, mode, done)
<1> DEFINE up == StackParents(st, t)
           parent(w) == up[Place(up, w) + 1]
           isTop(w) == st.hint[w] = NoHint \/ w \notin StackTransientParent
           num == [w \in Windows |->
                      IF w \notin ToSet(Front(up)) THEN 0
                      ELSE IF mode = "lower" /\ isTop(parent(w)) THEN -LowerPenalty
                      ELSE BranchBonus]
           moved(w, s) == IF w # Last(up) /\ MovesTransients(parent(w), mode) THEN s
                          ELSE RestackWindow(s, w, mode, num)
           n == Len(up)
           D == {s \in States : ChainMoved(st, t, mode, s)}
           Is(f) == f = [i \in 0 .. n |->
                            IF i = 0 THEN st ELSE moved(up[n - i + 1], f[i - 1])]
           done == CHOOSE f : Is(f)
<1>1. ToSet(st.ring) \subseteq Windows /\ t \in Windows
  BY EmptyList DEF States
<1>2. up \in Seq(Windows)
  <2>1. MovesWith(st, Windows)
    BY <1>1 DEF MovesWith, StackParent, LeaderOf
  <2> QED BY <1>1, <2>1, ParentsFacts
<1>3. n \in Nat /\ DOMAIN up = 1 .. n
  BY <1>2
<1>4. num \in [Windows -> Int]
  BY DEF LowerPenalty, BranchBonus
<1>5. RaiseOrLower(st, t, mode) = done[n]
  BY DEF RaiseOrLower
<1>6. \A w \in ToSet(up) : w \in Scope(st, t) /\ SameFamily(st, t, w)
  BY ParentsPlace
<1>7. \A i \in 1 .. n : up[n - i + 1] \in ToSet(up)
  <2> SUFFICES ASSUME NEW i \in 1 .. n PROVE up[n - i + 1] \in ToSet(up)
    OBVIOUS
  <2>1. n - i + 1 \in 1 .. n
    BY <1>3
  <2> QED BY <1>3, <2>1 DEF ToSet
<1> HIDE DEF num, up, n
<1>8. st \in D
  BY DEF ChainMoved, Kept, OthersStay
<1>9. ASSUME NEW w \in ToSet(up), NEW s \in D PROVE moved(w, s) \in D
  <2>1. s \in States /\ ChainMoved(st, t, mode, s)
    BY <1>9
  <2>2. ToSet(s.ring) = ToSet(st.ring)
    BY <2>1 DEF ChainMoved, Kept
  <2>3. w \in Scope(st, t) /\ SameFamily(st, t, w) /\ w \in ToSet(s.ring)
    BY <1>6, <2>2 DEF Scope, InLayer
  <2> DEFINE out == RestackWindow(s, w, mode, num)
  <2>4. WindowMoved(s, w, mode, out)
    BY <1>4, <2>1, <2>3, WindowRestacked
  <2> HIDE DEF out
  <2>5. ChainMoved(st, t, mode, out)
    BY <2>1, <2>3, <2>4, OneMore
  <2>6. out \in States
    BY <2>5 DEF ChainMoved, Kept
  <2> QED BY <1>9, <2>5, <2>6 DEF out
<1> HIDE DEF D, moved
<1>10. \E f : Is(f)
  <2> DEFINE step == [i \in 1 .. n |-> [s \in D |-> moved(up[n - i + 1], s)]]
  <2>1. step \in Steps(D, n)
    BY <1>7, <1>9 DEF Steps
  <2>2. \A i \in 1 .. n : \A s \in D : step[i][s] = moved(up[n - i + 1], s)
    OBVIOUS
  <2> HIDE DEF step
  <2>3. PICK f : Iterates(f, D, st, n, step)
    BY <1>3, <1>8, <2>1, Recursion
  <2>4. /\ f \in [0 .. n -> D] /\ f[0] = st
        /\ \A i \in 1 .. n : f[i] = step[i][f[i - 1]]
    BY <2>3 DEF Iterates
  <2>5. ASSUME NEW i \in 0 .. n
        PROVE  f[i] = IF i = 0 THEN st ELSE moved(up[n - i + 1], f[i - 1])
    <3>1. CASE i = 0
      BY <2>4, <3>1
    <3>2. CASE i # 0
      <4>1. i \in 1 .. n /\ i - 1 \in 0 .. n
        BY <1>3, <3>2
      <4> QED BY <2>2, <2>4, <3>2, <4>1
    <3> QED BY <3>1, <3>2
  <2>6. Is(f)
    BY <2>4, <2>5
  <2> QED BY <2>6
<1>11. Is(done)
  BY <1>10
<1> HIDE DEF done
<1>12. done[0] = st
  BY <1>3, <1>11
<1>13. ASSUME NEW i \in 1 .. n PROVE done[i] = moved(up[n - i + 1], done[i - 1])
  <2>1. i \in 0 .. n /\ i # 0
    BY <1>3
  <2> QED BY <1>11, <2>1
<1> DEFINE P == {i \in 0 .. n : done[i] \in D}
<1>14. 0 \in P
  BY <1>3, <1>8, <1>12
<1>15. \A i \in 1 .. n : i - 1 \in P => i \in P
  <2> SUFFICES ASSUME NEW i \in 1 .. n, i - 1 \in P PROVE i \in P
    OBVIOUS
  <2>1. done[i] \in D
    BY <1>7, <1>9, <1>13
  <2> QED BY <1>3, <2>1
<1>16. 0 .. n \subseteq P
  <2> HIDE DEF P
  <2> QED BY <1>3, <1>14, <1>15, UpTo
<1>17. \A w, s : moved(w, s) = OneStep(st, t, mode, w, s)
  BY DEF moved, num, up, OneStep, Numbers
<1>18. \A i \in 0 .. n : done[i] \in D
  BY <1>16
<1>19. /\ \A i \in 1 .. n : done[i] = OneStep(st, t, mode, up[n - i + 1], done[i - 1])
       /\ \A i \in 0 .. n : done[i] \in States /\ ChainMoved(st, t, mode, done[i])
  BY <1>13, <1>17, <1>18 DEF D
<1> QED BY <1>5, <1>12, <1>19 DEF StepsTaken, up, n

LEMMA RaiseOrLowerMoves ==
    ASSUME NEW st \in States, NEW t \in ToSet(st.ring), NEW mode \in Modes
    PROVE  ChainMoved(st, t, mode, RaiseOrLower(st, t, mode))
<1> DEFINE n == Len(StackParents(st, t))
<1>1. n \in Nat
  <2>1. StackParents(st, t) \in Seq(Windows)
    <3>1. ToSet(st.ring) \subseteq Windows
      BY EmptyList DEF States
    <3> QED BY <3>1, ParentsFacts DEF MovesWith, StackParent, LeaderOf
  <2> QED BY <2>1
<1>2. PICK done : StepsTaken(st, t, mode, done)
  BY RaiseOrLowerSteps
<1>3. /\ RaiseOrLower(st, t, mode) = done[n]
      /\ \A i \in 0 .. n : ChainMoved(st, t, mode, done[i])
  BY <1>2 DEF StepsTaken
<1> HIDE DEF n
<1> QED BY <1>1, <1>3


LEMMA OtherView ==
    ASSUME NEW st \in States, NEW v \in Lists, ToSet(v) = ToSet(st.ring), NEW t, NEW mode, NEW out,
           ChainMoved([st EXCEPT !.view = v], t, mode, out)
    PROVE  ChainMoved(st, t, mode, out)
<1> DEFINE s == [st EXCEPT !.view = v]
<1>1. /\ s.ring = st.ring /\ s.x = st.x /\ s.layer = st.layer /\ s.hint = st.hint
      /\ s.iconic = st.iconic /\ s.byParent = st.byParent /\ s.marks = st.marks
  BY DEF States
<1>2. ChainMoved(s, t, mode, out)
  OBVIOUS
<1> HIDE DEF s
<1>3. Scope(s, t) = Scope(st, t)
  BY <1>1 DEF Scope, InLayer
<1>4. \A F : FamilySet(st, F) => FamilySet(s, F)
  BY <1>1 DEF FamilySet, LeaderOf
<1>5. Kept(st, out)
  BY <1>1, <1>2 DEF ChainMoved, Kept
<1>6. \A F : OthersStay(s, out, F) => OthersStay(st, out, F)
  BY <1>1 DEF OthersStay
<1> QED BY <1>1, <1>2, <1>3, <1>4, <1>5, <1>6 DEF ChainMoved

LEMMA RaiseMoves ==
    ASSUME NEW st \in States, NEW t \in ToSet(st.ring)
    PROVE  ChainMoved(st, t, "raise", RaiseWindow(st, t))
<1> DEFINE v == OnTop(st.view, t)
           s == [st EXCEPT !.view = v]
<1>1. st.view \in Lists /\ ToSet(st.view) = ToSet(st.ring)
  BY DEF States
<1>2. v \in Lists /\ ToSet(v) = ToSet(st.ring)
  BY <1>1, TopOrder
<1>3. RaiseWindow(st, t) = RaiseOrLower(s, t, "raise")
  BY DEF RaiseWindow, States
<1> HIDE DEF v
<1>4. s \in States /\ s.ring = st.ring
  BY <1>2, NewView DEF States
<1> HIDE DEF s
<1>5. ChainMoved(s, t, "raise", RaiseWindow(st, t))
  BY <1>3, <1>4, RaiseOrLowerMoves DEF Modes
<1> QED BY <1>2, <1>5, OtherView DEF s

LEMMA LowerMoves ==
    ASSUME NEW st \in States, NEW t \in ToSet(st.ring)
    PROVE  ChainMoved(st, t, "lower", LowerWindow(st, t))
<1> DEFINE v == Append(Without(st.view, {t}), t)
           s == [st EXCEPT !.view = v]
<1>1. st.view \in Lists /\ ToSet(st.view) = ToSet(st.ring)
  BY DEF States
<1>2. v \in Lists /\ ToSet(v) = ToSet(st.ring)
  BY <1>1, BottomOrder
<1>3. LowerWindow(st, t) = RaiseOrLower(s, t, "lower")
  BY DEF LowerWindow, States
<1> HIDE DEF v
<1>4. s \in States /\ s.ring = st.ring
  BY <1>2, NewView DEF States
<1> HIDE DEF s
<1>5. ChainMoved(s, t, "lower", LowerWindow(st, t))
  BY <1>3, <1>4, RaiseOrLowerMoves DEF Modes
<1> QED BY <1>2, <1>5, OtherView DEF s

-----------------------------------------------------------------------------
(* The invariants *)

HintsMayBe(hints) == \A w \in Windows : hints[w] \in Windows => <<w, hints[w]>> \in MayHint

(* Windows that are not in the ring are as a new window is. *)
Fine(st) ==
    /\ st \in States /\ HintsMayBe(st.hint)
    /\ \A w \in Windows \ ToSet(st.ring) : st.layer[w] = DefaultLayer /\ w \notin st.iconic

TypeOK == Fine(Now) /\ view \in Lists /\ ToSet(view) = Managed

(* Between operations the marks are clear; otherwise RestackTransients would take
   windows of another layer along. *)
Tidy == marks = NoMarks /\ Sorted(ring, layer)

(* Whatever the marks are, the buttons of these layers being grabbed clears them. *)
Clears(st, layers) ==
    \/ st.marks = NoMarks
    \/ \E l \in layers : (InLayer(st, l) \cap RaiseTransient) \ st.iconic # {}

(* The windows whose leaders are those that OneFamilyMoves looks at *)
Across(st) == [ring |-> IF Managed \subseteq ToSet(st.ring) THEN st.ring ELSE ring,
               hint |-> st.hint]

Within(st, F) ==
    /\ ToSet(st.ring) \ F = Managed \ F /\ OthersStay(Now, st, F)
    /\ \A v \in Windows \ F : st.layer[v] = layer[v]
    /\ st.iconic \ F = iconic \ F

(* What an operation leads to from the present state *)
Result(st, layers) ==
    /\ Fine(st)
    /\ Tidy => /\ Sorted(st.ring, st.layer)
               /\ LowerTransient \subseteq RaiseTransient => Clears(st, layers)
    /\ marks = NoMarks =>
          \E w \in Windows : \A F : FamilySet(Across(st), F) /\ w \in F => Within(st, F)

(* What an operation works on before it moves t *)
Prepared(st, t) ==
    /\ Fine(st) /\ t \in ToSet(st.ring) /\ Managed \subseteq ToSet(st.ring)
    /\ marks = NoMarks => st.marks = NoMarks
    /\ Tidy => Sorted(st.ring, st.layer)
    /\ marks = NoMarks => \A F : FamilySet(st, F) /\ t \in F => Within(st, F)

LEMMA ChainResult ==
    ASSUME NEW st, NEW t, Prepared(st, t), NEW mode \in Modes, NEW out,
           ChainMoved(st, t, mode, out), NEW layers, st.layer[t] \in layers
    PROVE  Result(out, layers) /\ (st.x = st.ring => out.x = out.ring)
<1>1. Kept(st, out) /\ Fine(st) /\ NoMarks.keep = FALSE
  BY DEF ChainMoved, Prepared, NoMarks
<1>2. Fine(out) /\ ToSet(out.ring) = ToSet(st.ring) /\ (st.x = st.ring => out.x = out.ring)
  BY <1>1 DEF Kept, Fine
<1>3. ASSUME Tidy PROVE Sorted(out.ring, out.layer)
  BY <1>1, <1>3 DEF Prepared, Tidy, ChainMoved, Kept
<1>4. ASSUME Tidy, LowerTransient \subseteq RaiseTransient PROVE Clears(out, layers)
  <2>1. st.marks = NoMarks
    BY <1>4 DEF Prepared, Tidy
  <2>2. CASE out.marks = NoMarks
    BY <2>2 DEF Clears
  <2>3. CASE mode # "restack" /\ \E w \in Scope(st, t) \ st.iconic : MovesTransients(w, mode)
    <3>1. PICK w \in Scope(st, t) \ st.iconic : MovesTransients(w, mode)
      BY <2>3
    <3>2. w \in RaiseTransient
      BY <1>4, <2>3, <3>1 DEF MovesTransients, Modes
    <3>3. w \in InLayer(out, st.layer[t]) /\ w \notin out.iconic
      BY <1>1, <3>1 DEF Kept, Scope, InLayer
    <3> QED BY <3>2, <3>3 DEF Clears
  <2> QED BY <2>1, <2>2, <2>3 DEF ChainMoved
<1>5. ASSUME marks = NoMarks, NEW F, FamilySet(Across(out), F), t \in F
      PROVE  Within(out, F)
  <2>1. Across(out) = [ring |-> out.ring, hint |-> out.hint]
    BY <1>2 DEF Across, Prepared
  <2>2. \A v : LeaderOf(Across(out), v) = LeaderOf(st, v)
    BY <1>1, <1>2, <2>1 DEF LeaderOf, Kept
  <2>3. FamilySet(st, F)
    BY <1>5, <2>2 DEF FamilySet
  <2>4. Within(st, F)
    BY <1>5, <2>3 DEF Prepared
  <2>5. OthersStay(st, out, F)
    BY <1>1, <1>5, <2>3 DEF Prepared, ChainMoved
  <2>6. OthersStay(Now, out, F)
    BY <2>4, <2>5 DEF Within, OthersStay
  <2> QED BY <1>1, <2>4, <2>6 DEF Within, Kept
<1>6. t \in Windows
  BY EmptyList DEF Prepared, Fine, States
<1> QED BY <1>2, <1>3, <1>4, <1>5, <1>6 DEF Result

-----------------------------------------------------------------------------
(* The operations *)

Happens == \E st, layers : /\ Result(st, layers) /\ (x = ring => st.x = st.ring)
                           /\ Commit(st, layers)

LEMMA NowFields ==
    /\ Now.ring = ring /\ Now.x = x /\ Now.layer = layer /\ Now.hint = hint
    /\ Now.iconic = iconic /\ Now.byParent = byParent /\ Now.marks = marks
    /\ \A w : Scope(Now, w) = InLayer(Now, layer[w])
BY DEF Now, Scope

LEMMA FineNow ==
    ASSUME TypeOK
    PROVE  /\ Now \in States /\ Managed \subseteq Windows /\ ring \in Lists /\ marks \in Marks
           /\ x \in Lists /\ ToSet(x) = Managed
           /\ layer \in [Windows -> Layers] /\ hint \in [Windows -> Hints]
           /\ iconic \in SUBSET Windows /\ byParent \in SUBSET Windows
           /\ \A w \in Windows \ Managed : layer[w] = DefaultLayer /\ w \notin iconic
           /\ HintsMayBe(hint)
<1>1. Now \in States
  BY DEF TypeOK, Fine
<1>2. /\ ring \in Lists /\ marks \in Marks /\ x \in Lists /\ ToSet(x) = Managed
      /\ layer \in [Windows -> Layers] /\ hint \in [Windows -> Hints]
      /\ iconic \in SUBSET Windows /\ byParent \in SUBSET Windows
  BY <1>1 DEF States, Now, Managed
<1>3. Managed \subseteq Windows
  BY <1>2, EmptyList DEF Managed
<1> QED BY <1>1, <1>2, <1>3, NowFields DEF TypeOK, Fine, Managed

(* A state that differs from the present one in the marks only *)
LEMMA PreparedNow ==
    ASSUME TypeOK, NEW w \in Managed, NEW m \in Marks, marks = NoMarks => m = NoMarks
    PROVE  Prepared([Now EXCEPT !.marks = m], w) /\ [Now EXCEPT !.marks = m] \in States
<1> DEFINE st == [Now EXCEPT !.marks = m]
<1>1. st \in States
  BY FineNow, NewMarks
<1>2. /\ st.ring = ring /\ st.layer = layer /\ st.hint = hint
      /\ st.iconic = iconic /\ st.byParent = byParent /\ st.marks = m
  BY DEF Now
<1> HIDE DEF st
<1>3. Fine(st)
  BY <1>1, <1>2, FineNow DEF Fine, Managed
<1>4. \A F : Within(st, F)
  BY <1>2, NowFields DEF Within, OthersStay, Managed
<1>5. Prepared(st, w)
  BY <1>2, <1>3, <1>4 DEF Prepared, Tidy, Managed
<1> QED BY <1>1, <1>5 DEF st

LEMMA SameMarks == Now = [Now EXCEPT !.marks = marks]
BY DEF Now

LEMMA MovedNow ==
    ASSUME TypeOK, NEW st, NEW t, Prepared(st, t), st.x = x, st.ring = ring,
           NEW mode \in Modes, NEW out, ChainMoved(st, t, mode, out),
           NEW layers, st.layer[t] \in layers, Commit(out, layers)
    PROVE  Happens
<1>1. Result(out, layers) /\ (st.x = st.ring => out.x = out.ring)
  BY ChainResult
<1> QED BY <1>1 DEF Happens

LEMMA RaiseHappens ==
    ASSUME TypeOK, NEW w, Raise(w)
    PROVE  Happens
<1>1. w \in Managed /\ Commit(RaiseWindow(Now, w), {layer[w]})
  BY DEF Raise
<1>2. Prepared(Now, w) /\ Now \in States
  BY <1>1, FineNow, PreparedNow, SameMarks
<1>3. ChainMoved(Now, w, "raise", RaiseWindow(Now, w))
  BY <1>1, <1>2, NowFields, RaiseMoves DEF Managed
<1> QED BY <1>1, <1>2, <1>3, NowFields, MovedNow DEF Modes

LEMMA LowerHappens ==
    ASSUME TypeOK, NEW w, Lower(w)
    PROVE  Happens
<1>1. w \in Managed /\ Commit(LowerWindow(Now, w), {layer[w]})
  BY DEF Lower
<1>2. Prepared(Now, w) /\ Now \in States
  BY <1>1, FineNow, PreparedNow, SameMarks
<1>3. ChainMoved(Now, w, "lower", LowerWindow(Now, w))
  BY <1>1, <1>2, NowFields, LowerMoves DEF Managed
<1> QED BY <1>1, <1>2, <1>3, NowFields, MovedNow DEF Modes

LEMMA RestackTransientsHappens ==
    ASSUME TypeOK, NEW w, RestackTransients(w)
    PROVE  Happens
<1>1. w \in Managed /\ Commit(RaiseOrLower(Now, w, "restack"), {layer[w]})
  BY DEF RestackTransients
<1>2. Prepared(Now, w) /\ Now \in States
  BY <1>1, FineNow, PreparedNow, SameMarks
<1>3. ChainMoved(Now, w, "restack", RaiseOrLower(Now, w, "restack"))
  BY <1>1, <1>2, NowFields, RaiseOrLowerMoves DEF Managed, Modes
<1> QED BY <1>1, <1>2, <1>3, NowFields, MovedNow DEF Modes

LEMMA RaiseLowerHappens ==
    ASSUME TypeOK, NEW w, RaiseLower(w)
    PROVE  Happens
<1> DEFINE m == IF w \in RaiseTransient THEN NoMarks ELSE marks
           st == [Now EXCEPT !.marks = m]
<1>1. /\ w \in Managed
      /\ \/ Commit(RaiseWindow(st, w), {layer[w]})
         \/ Commit(LowerWindow(st, w), {layer[w]})
  BY NowFields DEF RaiseLower
<1>2. m \in Marks /\ (marks = NoMarks => m = NoMarks)
  BY FineNow, NoMarksType
<1> HIDE DEF m
<1>3. Prepared(st, w) /\ st \in States
  BY <1>1, <1>2, PreparedNow
<1>4. st.ring = ring /\ st.x = x /\ st.layer = layer
  BY DEF Now
<1> HIDE DEF st
<1>5. CASE Commit(RaiseWindow(st, w), {layer[w]})
  <2>1. ChainMoved(st, w, "raise", RaiseWindow(st, w))
    BY <1>1, <1>3, <1>4, RaiseMoves DEF Managed
  <2> QED BY <1>3, <1>4, <1>5, <2>1, MovedNow DEF Modes
<1>6. CASE Commit(LowerWindow(st, w), {layer[w]})
  <2>1. ChainMoved(st, w, "lower", LowerWindow(st, w))
    BY <1>1, <1>3, <1>4, LowerMoves DEF Managed
  <2> QED BY <1>3, <1>4, <1>6, <2>1, MovedNow DEF Modes
<1> QED BY <1>1, <1>5, <1>6

LEMMA AncestorFacts ==
    ASSUME NEW st \in States, NEW S, NEW G \in SUBSET Windows, NEW t \in G,
           \A w \in G : LeaderOf(st, w) \in G \cup {Root}
    PROVE  Ancestor(st, t, S) \in G
<1> DEFINE n == Cardinality(Windows)
           Body(w) == IF w \in S /\ LeaderOf(st, w) # Root THEN LeaderOf(st, w) ELSE w
           Is(f) == f = [i \in 0 .. n |->
                           IF i = 0 THEN t
                           ELSE LET w == f[i - 1]
                                IN  IF w \in S /\ LeaderOf(st, w) # Root
                                    THEN LeaderOf(st, w) ELSE w]
           up == CHOOSE f : Is(f)
<1>1. n \in Nat
  BY Constants, FS_CardinalityType
<1>2. Ancestor(st, t, S) = up[n]
  BY DEF Ancestor
<1>3. ASSUME NEW w \in G PROVE Body(w) \in G
  OBVIOUS
<1>4. \E f : Is(f)
  <2> DEFINE step == [i \in 1 .. n |-> [w \in G |-> Body(w)]]
  <2> HIDE DEF n, Body
  <2>1. step \in Steps(G, n)
    BY <1>3 DEF Steps
  <2>2. \A i \in 1 .. n : \A w \in G : step[i][w] = Body(w)
    OBVIOUS
  <2> HIDE DEF step
  <2>3. PICK f : Iterates(f, G, t, n, step)
    BY <1>1, <2>1, Recursion
  <2>4. /\ f \in [0 .. n -> G] /\ f[0] = t
        /\ \A i \in 1 .. n : f[i] = step[i][f[i - 1]]
    BY <2>3 DEF Iterates
  <2>5. ASSUME NEW i \in 0 .. n PROVE f[i] = IF i = 0 THEN t ELSE Body(f[i - 1])
    <3>1. CASE i = 0
      BY <2>4, <3>1
    <3>2. CASE i # 0
      <4>1. i \in 1 .. n /\ i - 1 \in 0 .. n
        BY <1>1, <3>2
      <4> QED BY <2>2, <2>4, <3>2, <4>1
    <3> QED BY <3>1, <3>2
  <2>6. f = [i \in 0 .. n |-> IF i = 0 THEN t ELSE Body(f[i - 1])]
    BY <2>4, <2>5
  <2>7. Is(f)
    BY <2>6 DEF Body
  <2> QED BY <2>7
<1>5. Is(up)
  BY <1>4
<1> HIDE DEF up
<1>6. up = [i \in 0 .. n |-> IF i = 0 THEN t ELSE Body(up[i - 1])]
  BY <1>5
<1> HIDE DEF n, Body
<1>7. up[0] = t
  BY <1>1, <1>6
<1>8. ASSUME NEW i \in 1 .. n PROVE up[i] = Body(up[i - 1])
  <2>1. i \in 0 .. n /\ i # 0
    BY <1>1
  <2> QED BY <1>6, <2>1
<1> DEFINE P == {i \in 0 .. n : up[i] \in G}
<1>9. 0 \in P
  BY <1>1, <1>7
<1>10. \A i \in 1 .. n : i - 1 \in P => i \in P
  <2> SUFFICES ASSUME NEW i \in 1 .. n, i - 1 \in P PROVE i \in P
    OBVIOUS
  <2>1. up[i] \in G
    BY <1>3, <1>8
  <2> QED BY <1>1, <2>1
<1>11. 0 .. n \subseteq P
  <2> HIDE DEF P
  <2> QED BY <1>1, <1>9, <1>10, UpTo
<1>12. up[n] \in G
  BY <1>1, <1>11
<1> QED BY <1>2, <1>12

(* An ancestor of a window of the ring is in the ring, and in the same family. *)
LEMMA AncestorPlace ==
    ASSUME NEW st \in States, NEW S, NEW t \in ToSet(st.ring)
    PROVE  /\ Ancestor(st, t, S) \in ToSet(st.ring)
           /\ SameFamily(st, t, Ancestor(st, t, S))
<1>1. ToSet(st.ring) \in SUBSET Windows
  BY EmptyList DEF States
<1>2. \A w : LeaderOf(st, w) \in ToSet(st.ring) \cup {Root}
  BY DEF LeaderOf
<1>3. Ancestor(st, t, S) \in ToSet(st.ring)
  BY <1>1, <1>2, AncestorFacts
<1>4. ASSUME NEW F, FamilySet(st, F), t \in F PROVE Ancestor(st, t, S) \in F
  <2>1. F \in SUBSET Windows /\ \A w \in F : LeaderOf(st, w) \in F \cup {Root}
    BY <1>4 DEF FamilySet
  <2> QED BY <1>4, <2>1, AncestorFacts
<1> QED BY <1>3, <1>4 DEF SameFamily

(* A state with other hints, or with other windows iconified in one family *)
Changed(st, t) ==
    /\ st \in States /\ st.ring = ring /\ st.x = x /\ st.layer = layer
    /\ HintsMayBe(st.hint) /\ \A v \in Windows \ Managed : v \notin st.iconic
    /\ marks = NoMarks => st.marks = NoMarks
    /\ marks = NoMarks => \A F : FamilySet(st, F) /\ t \in F => st.iconic \ F = iconic \ F

LEMMA PreparedChanged ==
    ASSUME TypeOK, NEW t \in Managed, NEW st, Changed(st, t)
    PROVE  Prepared(st, t)
<1>1. /\ st \in States /\ st.ring = ring /\ st.layer = layer
  BY DEF Changed
<1>2. Fine(st)
  BY <1>1, FineNow DEF Fine, Managed, Changed
<1>3. ASSUME marks = NoMarks, NEW F, FamilySet(st, F), t \in F PROVE Within(st, F)
  BY <1>1, <1>3, NowFields DEF Within, OthersStay, Managed, Changed
<1> QED BY <1>1, <1>2, <1>3 DEF Prepared, Changed, Tidy, Managed

LEMMA PreparedResult ==
    ASSUME NEW st, NEW t, Prepared(st, t), NEW layers
    PROVE  Result(st, layers)
<1>1. t \in Windows /\ Fine(st)
  BY EmptyList DEF Prepared, Fine, States
<1>2. ASSUME marks = NoMarks, NEW F, FamilySet(Across(st), F), t \in F PROVE Within(st, F)
  <2>1. \A v : LeaderOf(Across(st), v) = LeaderOf(st, v)
    BY DEF Across, Prepared, LeaderOf
  <2>2. FamilySet(st, F)
    BY <1>2, <2>1 DEF FamilySet
  <2> QED BY <1>2, <2>2 DEF Prepared
<1>3. Tidy => Sorted(st.ring, st.layer) /\ Clears(st, layers)
  BY DEF Prepared, Tidy, Clears
<1> QED BY <1>1, <1>2, <1>3 DEF Result

(* A hint that a window may have *)
MayGet(w, h) == h \in Hints /\ (h = NoHint \/ <<w, h>> \in MayHint)

LEMMA HintMayBe ==
    ASSUME TypeOK, NEW w \in Windows, NEW h, MayGet(w, h)
    PROVE  LET hints == [hint EXCEPT ![w] = ValidHint(h)]
           IN  hints \in [Windows -> Hints] /\ HintsMayBe(hints)
<1> DEFINE hints == [hint EXCEPT ![w] = ValidHint(h)]
<1>1. hint \in [Windows -> Hints] /\ HintsMayBe(hint)
  BY FineNow
<1>2. ValidHint(h) \in Hints /\ (ValidHint(h) \in Windows => <<w, ValidHint(h)>> \in MayHint)
  BY Constants DEF ValidHint, MayGet
<1>3. hints \in [Windows -> Hints]
  BY <1>1, <1>2
<1>4. \A v \in Windows : hints[v] = IF v = w THEN ValidHint(h) ELSE hint[v]
  BY <1>1
<1> HIDE DEF hints
<1>5. HintsMayBe(hints)
  BY <1>1, <1>2, <1>4 DEF HintsMayBe
<1> QED BY <1>3, <1>5 DEF hints

LEMMA HintChangesHappens ==
    ASSUME TypeOK, NEW w, NEW h, MayGet(w, h), HintChanges(w, h)
    PROVE  Happens
<1> DEFINE st == [Now EXCEPT !.hint[w] = ValidHint(h)]
           hints == [hint EXCEPT ![w] = ValidHint(h)]
<1>1. /\ w \in Managed
      /\ Commit(IF h = NoHint THEN st ELSE RaiseWindow(st, w),
                IF h = NoHint THEN {} ELSE {layer[w]})
  BY DEF HintChanges
<1>2. w \in Windows /\ hints \in [Windows -> Hints] /\ HintsMayBe(hints)
  BY <1>1, FineNow, HintMayBe
<1>3. st = [Now EXCEPT !.hint = hints]
  BY DEF Now
<1>4. st.ring = ring /\ st.x = x /\ st.layer = layer /\ st.hint = hints /\ st.iconic = iconic
      /\ st.marks = marks
  BY DEF Now
<1> HIDE DEF hints
<1>5. st \in States
  BY <1>2, <1>3, FineNow DEF States
<1> HIDE DEF st
<1>6. Changed(st, w)
  BY <1>2, <1>4, <1>5, FineNow DEF Changed
<1>7. Prepared(st, w)
  BY <1>1, <1>6, PreparedChanged
<1>8. CASE h = NoHint
  BY <1>1, <1>4, <1>7, <1>8, PreparedResult DEF Happens
<1>9. CASE h # NoHint
  <2>1. ChainMoved(st, w, "raise", RaiseWindow(st, w))
    BY <1>1, <1>4, <1>5, RaiseMoves DEF Managed
  <2> QED BY <1>1, <1>4, <1>7, <1>9, <2>1, MovedNow DEF Modes
<1> QED BY <1>8, <1>9

LEMMA TreeInFamily ==
    ASSUME TypeOK, NEW m \in Marks, NEW t \in Managed, NEW scope \in SUBSET Windows, NEW mode
    PROVE  LET tree == DOMAIN MarkTransientSubtree([Now EXCEPT !.marks = m],
                                                   NoNumber, t, scope, mode)
           IN  /\ tree \in SUBSET Windows /\ t \in tree
               /\ ~m.keep => \A F : FamilySet(Now, F) /\ t \in F => tree \subseteq F
<1> DEFINE from == [Now EXCEPT !.marks = m]
           marked == MarkTransientSubtree(from, NoNumber, t, scope, mode)
<1>1. from \in States
  BY FineNow, NewMarks
<1>2. from.ring = ring /\ from.hint = hint /\ from.marks = m
  BY DEF Now
<1>3. NoNumber \in [Windows -> Int] /\ t \in Windows
  BY FineNow DEF NoNumber
<1> HIDE DEF from
<1>4. /\ marked \in Trees /\ t \in DOMAIN marked
      /\ \A F \in SUBSET Windows : Encloses(from, t, scope, F) => DOMAIN marked \subseteq F
  BY <1>1, <1>3, TreeFacts
<1> HIDE DEF marked
<1>5. ASSUME ~m.keep, NEW F, FamilySet(Now, F), t \in F PROVE DOMAIN marked \subseteq F
  <2>1. FamilySet(from, F)
    BY <1>2, <1>5, NowFields DEF FamilySet, LeaderOf
  <2>2. Encloses(from, t, scope, F)
    BY <1>1, <1>2, <1>5, <2>1, MarkedInFamily
  <2> QED BY <1>4, <1>5, <2>2 DEF FamilySet
<1>6. DOMAIN marked \in SUBSET Windows
  BY <1>4 DEF Trees
<1> QED BY <1>4, <1>5, <1>6 DEF marked, from

(* Iconifying or deiconifying windows of a family *)
LEMMA IconicChanged ==
    ASSUME TypeOK, NEW t \in Managed, NEW icons \in SUBSET Windows, NEW parents \in SUBSET Windows,
           \A v \in Windows \ Managed : v \notin icons,
           marks = NoMarks => \A F : FamilySet(Now, F) /\ t \in F => icons \ F = iconic \ F
    PROVE  LET st == [Now EXCEPT !.iconic = icons, !.byParent = parents, !.marks = NoMarks]
           IN  /\ st \in States /\ st.ring = ring /\ st.x = x /\ st.layer = layer
               /\ Prepared(st, t)
<1> DEFINE st == [Now EXCEPT !.iconic = icons, !.byParent = parents, !.marks = NoMarks]
<1>1. st \in States
  BY FineNow, NoMarksType DEF States
<1>2. st.ring = ring /\ st.x = x /\ st.layer = layer /\ st.hint = hint /\ st.iconic = icons
      /\ st.marks = NoMarks
  BY DEF Now
<1> HIDE DEF st
<1>3. \A F : FamilySet(st, F) => FamilySet(Now, F)
  BY <1>2, NowFields DEF FamilySet, LeaderOf
<1>4. Changed(st, t)
  BY <1>1, <1>2, <1>3, FineNow DEF Changed
<1>5. Prepared(st, t)
  BY <1>4, PreparedChanged
<1> QED BY <1>1, <1>2, <1>5 DEF st

LEMMA FocusMarks ==
    ASSUME TypeOK, NEW m \in MarksAfterFocus
    PROVE  m \in Marks /\ (marks = NoMarks => ~m.keep)
<1>1. marks \in Marks /\ NoMarks \in Marks
  BY FineNow, NoMarksType
<1>2. NoMarks.keep = FALSE
  BY DEF NoMarks
<1> QED BY <1>1, <1>2 DEF MarksAfterFocus

LEMMA IconifyHappens ==
    ASSUME TypeOK, NEW w, Iconify(w)
    PROVE  Happens
<1>1. w \in Managed \ iconic
  BY DEF Iconify
<1>2. PICK m \in MarksAfterFocus :
          LET tree == Managed \cap DOMAIN MarkTransientSubtree([Now EXCEPT !.marks = m],
                                                              NoNumber, w, Managed, "all")
              st == [Now EXCEPT !.iconic = @ \cup tree, !.byParent = @ \cup (tree \ {w}),
                                !.marks = NoMarks]
          IN  Commit(LowerWindow(st, w), {layer[w]})
  BY DEF Iconify
<1> DEFINE all == DOMAIN MarkTransientSubtree([Now EXCEPT !.marks = m],
                                              NoNumber, w, Managed, "all")
           tree == Managed \cap all
           icons == iconic \cup tree
           parents == byParent \cup (tree \ {w})
           st == [Now EXCEPT !.iconic = icons, !.byParent = parents, !.marks = NoMarks]
<1>3. Commit(LowerWindow(st, w), {layer[w]})
  BY <1>2 DEF Now
<1>4. m \in Marks /\ (marks = NoMarks => ~m.keep)
  BY FocusMarks
<1>5. /\ all \in SUBSET Windows
      /\ ~m.keep => \A F : FamilySet(Now, F) /\ w \in F => all \subseteq F
  <2>1. Managed \in SUBSET Windows
    BY FineNow
  <2> QED BY <1>1, <1>4, <2>1, TreeInFamily
<1> HIDE DEF all
<1>6. icons \in SUBSET Windows /\ parents \in SUBSET Windows
  BY <1>5, FineNow
<1>7. \A v \in Windows \ Managed : v \notin icons
  BY FineNow
<1>8. marks = NoMarks => \A F : FamilySet(Now, F) /\ w \in F => icons \ F = iconic \ F
  BY <1>4, <1>5
<1> HIDE DEF icons, parents
<1>9. st \in States /\ st.ring = ring /\ st.x = x /\ st.layer = layer /\ Prepared(st, w)
  BY <1>1, <1>6, <1>7, <1>8, IconicChanged
<1> HIDE DEF st
<1>10. ChainMoved(st, w, "lower", LowerWindow(st, w))
  BY <1>1, <1>9, LowerMoves DEF Managed
<1> QED BY <1>3, <1>9, <1>10, MovedNow DEF Modes

LEMMA DeIconifyHappens ==
    ASSUME TypeOK, NEW w \in Windows, DeIconify(w)
    PROVE  Happens
<1>1. w \in Managed
  BY FineNow DEF DeIconify
<1> DEFINE t == IconifiedParent(w)
<1>2. t \in Managed
  BY <1>1, FineNow, NowFields, AncestorPlace DEF IconifiedParent, Managed
<1>3. PICK m \in MarksAfterFocus :
          LET tree == DOMAIN MarkTransientSubtree([Now EXCEPT !.marks = m],
                                                  NoNumber, t, Managed, "all")
              st == [Now EXCEPT !.iconic = @ \ tree, !.byParent = @ \ tree, !.marks = NoMarks]
          IN  Commit(RaiseWindow(st, t), {layer[t]})
  BY DEF DeIconify
<1> DEFINE tree == DOMAIN MarkTransientSubtree([Now EXCEPT !.marks = m],
                                               NoNumber, t, Managed, "all")
           icons == iconic \ tree
           parents == byParent \ tree
           st == [Now EXCEPT !.iconic = icons, !.byParent = parents, !.marks = NoMarks]
<1>4. Commit(RaiseWindow(st, t), {layer[t]})
  BY <1>3 DEF Now
<1> HIDE DEF t
<1>5. m \in Marks /\ (marks = NoMarks => ~m.keep)
  BY FocusMarks
<1>6. /\ tree \in SUBSET Windows
      /\ ~m.keep => \A F : FamilySet(Now, F) /\ t \in F => tree \subseteq F
  <2>1. Managed \in SUBSET Windows
    BY FineNow
  <2> QED BY <1>2, <1>5, <2>1, TreeInFamily
<1> HIDE DEF tree
<1>7. icons \in SUBSET Windows /\ parents \in SUBSET Windows
  BY FineNow
<1>8. \A v \in Windows \ Managed : v \notin icons
  BY FineNow
<1>9. marks = NoMarks => \A F : FamilySet(Now, F) /\ t \in F => icons \ F = iconic \ F
  BY <1>5, <1>6
<1> HIDE DEF icons, parents
<1>10. st \in States /\ st.ring = ring /\ st.x = x /\ st.layer = layer /\ Prepared(st, t)
  BY <1>2, <1>7, <1>8, <1>9, IconicChanged
<1> HIDE DEF st
<1>11. ChainMoved(st, t, "raise", RaiseWindow(st, t))
  BY <1>2, <1>10, RaiseMoves DEF Managed
<1> QED BY <1>4, <1>10, <1>11, MovedNow DEF Modes

LEMMA DestroyHappens ==
    ASSUME TypeOK, NEW w, Destroy(w)
    PROVE  Happens
<1>1. w \in Managed
  BY DEF Destroy
<1> DEFINE gone == [Now EXCEPT !.ring = Without(@, {w}), !.x = Without(@, {w}),
                               !.view = Without(@, {w}),
                               !.layer = [@ EXCEPT ![w] = DefaultLayer],
                               !.hint = [@ EXCEPT ![w] = NoHint],
                               !.iconic = @ \ {w}, !.byParent = @ \ {w}]
<1>2. PICK tree \in {marks.tree, marks.tree \ {w}} :
          Commit([gone EXCEPT !.marks.tree = tree], {layer[w]})
  BY DEF Destroy
<1> DEFINE st == [gone EXCEPT !.marks.tree = tree]
           newMarks == [marks EXCEPT !.tree = tree]
<1>3. newMarks \in Marks /\ (marks = NoMarks => newMarks = NoMarks)
  <2>1. marks \in Marks
    BY FineNow
  <2>2. marks.tree \in SUBSET Windows
    BY <2>1 DEF Marks
  <2>3. tree \in SUBSET Windows
    BY <1>2, <2>2
  <2>4. newMarks \in Marks
    BY <2>1, <2>3 DEF Marks
  <2>5. NoMarks.tree = {}
    BY DEF NoMarks
  <2>6. marks = NoMarks => tree = marks.tree
    BY <1>2, <2>5
  <2>7. tree = marks.tree => newMarks = marks
    BY <2>1 DEF Marks
  <2> QED BY <2>4, <2>6, <2>7
<1> HIDE DEF newMarks
<1>4. /\ Without(ring, {w}) \in Lists /\ ToSet(Without(ring, {w})) = Managed \ {w}
      /\ \A u, v : Before(Without(ring, {w}), u, v) <=>
                     u \notin {w} /\ v \notin {w} /\ Before(ring, u, v)
  BY FineNow, WithoutOrder DEF Managed
<1>5. Without(x, {w}) \in Lists /\ ToSet(Without(x, {w})) = Managed \ {w}
  BY FineNow, WithoutOrder
<1>6. /\ w \in Windows /\ DefaultLayer \in Layers /\ NoHint \in Hints /\ NoHint \notin Windows
  BY <1>1, FineNow, Constants
<1> DEFINE newLayer == [layer EXCEPT ![w] = DefaultLayer]
           newHint == [hint EXCEPT ![w] = NoHint]
<1>7. /\ newLayer \in [Windows -> Layers]
      /\ \A v : newLayer[v] = IF v = w THEN DefaultLayer ELSE layer[v]
  BY <1>6, FineNow
<1>8. /\ newHint \in [Windows -> Hints]
      /\ \A v \in Windows : newHint[v] = IF v = w THEN NoHint ELSE hint[v]
  BY <1>6, FineNow
<1> HIDE DEF newLayer, newHint
<1>16. gone = [ring |-> Without(ring, {w}), x |-> Without(x, {w}), view |-> Without(ring, {w}),
               layer |-> newLayer, hint |-> newHint, iconic |-> iconic \ {w},
               byParent |-> byParent \ {w}, marks |-> marks]
  <2> DEFINE rest == Without(ring, {w})
             frames == Without(x, {w})
  <2>1. /\ rest = Without(Now.ring, {w}) /\ frames = Without(Now.x, {w})
        /\ rest = Without(Now.view, {w})
    BY NowFields DEF Now
  <2>2. /\ newLayer = [Now.layer EXCEPT ![w] = DefaultLayer]
        /\ newHint = [Now.hint EXCEPT ![w] = NoHint]
    BY NowFields DEF newLayer, newHint
  <2> HIDE DEF rest, frames
  <2>3. gone = [Now EXCEPT !.ring = rest, !.x = frames, !.view = rest, !.layer = newLayer,
                           !.hint = newHint, !.iconic = @ \ {w}, !.byParent = @ \ {w}]
    BY <2>1, <2>2
  <2> HIDE DEF gone
  <2>4. gone = [ring |-> rest, x |-> frames, view |-> rest, layer |-> newLayer,
                hint |-> newHint, iconic |-> iconic \ {w}, byParent |-> byParent \ {w},
                marks |-> marks]
    BY <2>3 DEF Now
  <2> QED BY <2>4 DEF rest, frames
<1> HIDE DEF gone
<1>17. st = [ring |-> Without(ring, {w}), x |-> Without(x, {w}), view |-> Without(ring, {w}),
             layer |-> newLayer, hint |-> newHint, iconic |-> iconic \ {w},
             byParent |-> byParent \ {w}, marks |-> newMarks]
  BY <1>16 DEF newMarks
<1> HIDE DEF st
<1>9. st.ring = Without(ring, {w}) /\ st.x = Without(x, {w}) /\ st.view = Without(ring, {w})
      /\ st.layer = newLayer /\ st.hint = newHint
      /\ st.iconic = iconic \ {w} /\ st.byParent = byParent \ {w} /\ st.marks = newMarks
  BY <1>17
<1>10. st \in States
  BY <1>3, <1>4, <1>5, <1>7, <1>8, <1>17, FineNow DEF States
<1> HIDE DEF st
<1>11. HintsMayBe(newHint)
  BY <1>6, <1>8, FineNow DEF HintsMayBe
<1>12. Fine(st)
  BY <1>4, <1>7, <1>9, <1>10, <1>11, FineNow DEF Fine
<1>13. Tidy => Sorted(st.ring, st.layer) /\ st.marks = NoMarks
  <2>1. Sorted(ring, layer) => Sorted(st.ring, st.layer)
    BY <1>4, <1>7, <1>9 DEF Sorted
  <2> QED BY <1>3, <1>9, <2>1 DEF Tidy
<1>14. ASSUME NEW F, w \in F PROVE Within(st, F)
  <2>1. ToSet(st.ring) \ F = Managed \ F /\ st.iconic \ F = iconic \ F
    BY <1>4, <1>9, <1>14
  <2>2. OthersStay(Now, st, F)
    BY <1>4, <1>9, <1>14, NowFields DEF OthersStay
  <2>3. \A v \in Windows \ F : st.layer[v] = layer[v]
    BY <1>7, <1>9, <1>14
  <2> QED BY <2>1, <2>2, <2>3 DEF Within
<1>15. Result(st, {layer[w]})
  BY <1>6, <1>12, <1>13, <1>14 DEF Result, Clears
<1> QED BY <1>2, <1>9, <1>15 DEF Happens, st

LEMMA SameResult ==
    ASSUME NEW st, NEW layers, Result(st, layers), NEW out \in States, out.ring = st.ring,
           out.layer = st.layer, out.hint = st.hint, out.iconic = st.iconic,
           out.marks = st.marks
    PROVE  Result(out, layers)
<1>1. Fine(out)
  BY DEF Result, Fine
<1>2. Clears(st, layers) => Clears(out, layers)
  BY DEF Clears, InLayer
<1>3. Across(out) = Across(st)
  BY DEF Across
<1>4. \A F : Within(st, F) => Within(out, F)
  BY DEF Within, OthersStay
<1> QED BY <1>1, <1>2, <1>3, <1>4 DEF Result

(* w is put above or below v. *)
Near(order, w, v, above) ==
    LET rest == Without(order, {w})
    IN  PutBefore(rest, <<w>>, IF above THEN v ELSE NextIn(rest, v))

LEMMA PutNear ==
    ASSUME NEW st \in States, NEW s \in Lists, NEW w \in ToSet(s), NEW v \in ToSet(s), w # v,
           NEW above
    PROVE  LET out == Near(s, w, v, above)
           IN  /\ out \in Lists /\ ToSet(out) = ToSet(s)
               /\ \A a, b : a # w /\ b # w /\ Before(s, a, b) => Before(out, a, b)
               /\ Sorted(s, st.layer) /\ st.layer[w] = st.layer[v] => Sorted(out, st.layer)
<1> DEFINE rest == Without(s, {w})
           one == <<w>>
           p == IF above THEN v ELSE NextIn(rest, v)
           out == PutBefore(rest, one, p)
<1>1. /\ rest \in Lists /\ ToSet(rest) = ToSet(s) \ {w}
      /\ \A a, b : Before(rest, a, b) <=> a \notin {w} /\ b \notin {w} /\ Before(s, a, b)
  BY WithoutOrder
<1> HIDE DEF rest
<1>2. v \in ToSet(rest) /\ v \in Windows /\ w \in Windows /\ v # Root
  BY <1>1, EmptyList, Constants
<1>3. one \in Lists /\ ToSet(one) = {w} /\ \A a, b : ~Before(one, a, b)
  BY <1>2, OneWindow
<1> HIDE DEF one
<1>4. /\ p \in ToSet(rest) \cup {Root}
      /\ \A u \in ToSet(rest) : Ahead(rest, u, p) => Before(rest, u, v) \/ u = v
      /\ \A u \in ToSet(rest) : ~Ahead(rest, u, p) => Before(rest, v, u) \/ u = v
  <2>1. CASE above
    BY <1>1, <1>2, <2>1, OrderFacts DEF Ahead
  <2>2. CASE ~above
    <3>1. /\ p \in ToSet(rest) \cup {Root}
          /\ \A u \in ToSet(rest) : Ahead(rest, u, p) <=> u = v \/ Before(rest, u, v)
      BY <1>1, <1>2, <2>2, NextOrder
    <3> HIDE DEF p
    <3>2. \A u \in ToSet(rest) : u = v \/ Before(rest, u, v) \/ Before(rest, v, u)
      BY <1>1, <1>2, OrderFacts
    <3> QED BY <3>1, <3>2
  <2> QED BY <2>1, <2>2
<1> HIDE DEF p
<1>5. ToSet(rest) \cap ToSet(one) = {}
  BY <1>1, <1>3
<1>6. /\ out \in Lists /\ ToSet(out) = ToSet(rest) \cup ToSet(one)
      /\ \A a, b : Before(rest, a, b) => Before(out, a, b)
  BY <1>1, <1>3, <1>4, <1>5, PutBeforeOrder
<1>7. ASSUME Sorted(s, st.layer), st.layer[w] = st.layer[v] PROVE Sorted(out, st.layer)
  <2> DEFINE l == st.layer[w]
             lay == st.layer
  <2>1. \A u \in ToSet(rest) : st.layer[u] \in Int
    BY <1>1, EmptyList, LayerType
  <2>2. l \in Int /\ l = st.layer[v]
    BY <1>2, <1>7, LayerType
  <2>3. Sorted(rest, lay)
    BY <1>1, <1>7 DEF Sorted
  <2> HIDE DEF l
  <2>4. ASSUME NEW u \in ToSet(rest)
        PROVE  IF Ahead(rest, u, p) THEN st.layer[u] >= l ELSE st.layer[u] <= l
    <3>1. CASE Ahead(rest, u, p)
      BY <1>4, <2>1, <2>2, <2>3, <3>1 DEF Sorted
    <3>2. CASE ~Ahead(rest, u, p)
      BY <1>4, <2>1, <2>2, <2>3, <3>2 DEF Sorted
    <3> QED BY <3>1, <3>2
  <2>5. Fits(st, rest, p, l)
    BY <2>4 DEF Fits
  <2>6. \A u \in ToSet(one) : lay[u] = l
    BY <1>3 DEF l
  <2> QED BY <1>1, <1>3, <1>4, <1>5, <2>2, <2>3, <2>5, <2>6, InsertSorted
<1>8. ToSet(out) = ToSet(s)
  BY <1>1, <1>3, <1>6
<1> HIDE DEF out
<1>9. \A a, b : a # w /\ b # w /\ Before(s, a, b) => Before(out, a, b)
  BY <1>1, <1>6
<1> QED BY <1>6, <1>7, <1>8, <1>9 DEF out, p, one, rest, Near

LEMMA ClientRestackHappens ==
    ASSUME TypeOK, NEW w, NEW v, NEW detail, ClientRestack(w, v, detail)
    PROVE  Happens
<1> DEFINE above == detail = "Above"
           put(order) == Near(order, w, v, above)
           st == [Now EXCEPT !.ring = put(@), !.x = put(@)]
           out == BroadcastRestack(st, PrevIn(st.ring, w), NextIn(st.ring, w))
<1>1. w \in Managed /\ v \in Managed /\ w # v /\ layer[w] = layer[v] /\ Commit(out, {})
  BY DEF ClientRestack, Near
<1> HIDE DEF above
<1>2. /\ Now \in States /\ ring \in Lists /\ x \in Lists /\ ToSet(x) = Managed
      /\ ToSet(ring) = Managed /\ w \in Windows
  BY <1>1, FineNow DEF Managed
<1>3. /\ put(ring) \in Lists /\ ToSet(put(ring)) = Managed
      /\ \A a, b : a # w /\ b # w /\ Before(ring, a, b) => Before(put(ring), a, b)
      /\ Sorted(ring, layer) => Sorted(put(ring), layer)
  BY <1>1, <1>2, NowFields, PutNear
<1>4. put(x) \in Lists /\ ToSet(put(x)) = Managed
  BY <1>1, <1>2, PutNear
<1> DEFINE r == put(ring)
           f == put(x)
<1>5. x = ring => f = r
  OBVIOUS
<1>6. st = [Now EXCEPT !.ring = r, !.x = f]
  <2>1. r = put(Now.ring) /\ f = put(Now.x)
    BY NowFields
  <2> HIDE DEF r, f, put
  <2> QED BY <2>1
<1> HIDE DEF r, f, put, out
<1>7. /\ st.ring = r /\ st.x = f /\ st.layer = layer /\ st.hint = hint
      /\ st.iconic = iconic /\ st.marks = marks
  <2> HIDE DEF st
  <2> QED BY <1>6 DEF Now
<1>8. st \in States
  <2> HIDE DEF st
  <2>1. r \in Lists /\ f \in Lists /\ ToSet(r) = Managed /\ ToSet(f) = Managed
    BY <1>3, <1>4 DEF r, f
  <2> QED BY <1>2, <1>6, <2>1 DEF States, Now
<1>9. out = BroadcastRestack(st, PrevIn(st.ring, w), NextIn(st.ring, w))
  BY DEF out
<1> HIDE DEF st
<1>10. ToSet(r) = Managed /\ (Sorted(ring, layer) => Sorted(r, layer))
  BY <1>3 DEF r
<1>11. Fine(st)
  BY <1>7, <1>8, <1>10, FineNow DEF Fine
<1>12. ASSUME NEW F, w \in F PROVE Within(st, F)
  <2>1. OthersStay(Now, st, F)
    BY <1>3, <1>7, <1>12, NowFields DEF OthersStay, r
  <2> QED BY <1>7, <1>10, <2>1 DEF Within
<1>13. Result(st, {})
  BY <1>2, <1>7, <1>10, <1>11, <1>12 DEF Result, Clears, Tidy
<1>14. ViewChanges(st, out)
  BY <1>1, <1>7, <1>8, <1>9, <1>10, AroundSpans, Told
<1>15. /\ out \in States /\ out.marks = st.marks /\ out.ring = st.ring /\ out.x = st.x
       /\ out.layer = st.layer /\ out.hint = st.hint /\ out.iconic = st.iconic
  BY <1>8, <1>14, ViewKept
<1>16. Result(out, {})
  BY <1>13, <1>15, SameResult
<1> QED BY <1>1, <1>5, <1>7, <1>15, <1>16 DEF Happens

LEMMA WithoutNone ==
    ASSUME NEW s \in Lists, NEW w, w \notin ToSet(s)
    PROVE  Without(s, {w}) = s
<1> DEFINE t == Without(s, {w})
<1>1. /\ t \in Lists /\ ToSet(t) = ToSet(s) \ {w}
      /\ \A u, v : Before(t, u, v) <=> u \notin {w} /\ v \notin {w} /\ Before(s, u, v)
  BY WithoutOrder
<1> HIDE DEF t
<1>2. ToSet(s) = ToSet(t)
  BY <1>1
<1>3. \A u, v \in ToSet(s) : Before(s, u, v) => Before(t, u, v)
  BY <1>1
<1>4. s = t
  BY <1>1, <1>2, <1>3, SameOrder
<1> QED BY <1>4 DEF t

LEMMA LayerHappens ==
    ASSUME TypeOK, NEW w, NEW l \in Layers, Layer(w, l)
    PROVE  Happens
<1> DEFINE t == TopLeader(Now, w)
           old == layer[t]
           lower == l < old
           scope == InLayer(Now, old)
           tree == DOMAIN MarkTransientSubtree(Now, NoNumber, t, scope,
                                               IF lower THEN "lower" ELSE "raise")
           list == Only(ring, tree)
           W == Without(ring, tree)
           k == IF lower THEN l - 1 ELSE l
           s == FirstAtMost(Now, W, t, k)
           newLayer == [v \in Windows |-> IF v \in ToSet(list) THEN l ELSE layer[v]]
           moved == [Now EXCEPT !.marks = NoMarks, !.layer = newLayer]
           out == RestackWindowList(moved, list, s, lower)
<1>1. w \in Managed /\ Commit(out, {l, old})
  BY NowFields DEF Layer
<1>2. /\ Now \in States /\ ring \in Lists /\ Managed \subseteq Windows /\ ToSet(ring) = Managed
  BY FineNow DEF Managed
<1>3. t \in Managed
  BY <1>1, <1>2, NowFields, AncestorPlace DEF TopLeader
<1> HIDE DEF t, out
<1>4. scope \in SUBSET Windows
  BY <1>2, NowFields DEF InLayer
<1> HIDE DEF scope, lower
<1>5. /\ tree \in SUBSET Windows /\ t \in tree
      /\ ~marks.keep => \A F : FamilySet(Now, F) /\ t \in F => tree \subseteq F
  BY <1>3, <1>4, FineNow, SameMarks, TreeInFamily
<1> HIDE DEF tree
<1>6. list \in Lists /\ ToSet(list) = Managed \cap tree
  BY <1>2, OnlyOrder
<1>7. /\ W \in Lists /\ ToSet(W) = Managed \ tree
      /\ \A u, v : Before(W, u, v) <=> u \notin tree /\ v \notin tree /\ Before(ring, u, v)
  BY <1>2, WithoutOrder
<1>8. W = Without(ring, ToSet(list))
  BY <1>2, <1>6 DEF Without
<1> HIDE DEF list, W
<1>9. list # <<>> /\ t \in ToSet(list)
  BY <1>3, <1>5, <1>6, EmptyList
<1>10. s \in ToSet(W) \cup {Root}
  BY <1>7, FirstOrder
<1>11. l \in Int /\ k \in {l, l - 1}
  BY Constants
<1>12. Sorted(ring, layer) => Fits(Now, W, s, l)
  <2> HIDE DEF k
  <2>1. t \notin ToSet(W)
    BY <1>5, <1>7
  <2>2. Without(W, {t}) = W
    BY <1>7, <2>1, WithoutNone
  <2>3. Sorted(ring, layer) => Sorted(W, Now.layer)
    BY <1>7, NowFields DEF Sorted
  <2> QED BY <1>2, <1>7, <1>11, <2>2, <2>3, FirstFits
<1> HIDE DEF s, k
<1>13. newLayer \in [Windows -> Layers] /\ ToSet(list) \subseteq Windows
  BY <1>6, FineNow
<1>14. /\ \A v \in ToSet(list) : newLayer[v] = l
       /\ \A v \in Windows \ ToSet(list) : newLayer[v] = layer[v]
  BY <1>13
<1> HIDE DEF newLayer
<1>15. /\ moved \in States /\ moved.ring = ring /\ moved.x = x /\ moved.layer = newLayer
       /\ moved.hint = hint /\ moved.iconic = iconic /\ moved.marks = NoMarks
  BY <1>2, <1>13, NoMarksType DEF States, Now
<1> HIDE DEF moved
<1>16. Movable(moved, list, s)
  BY <1>2, <1>6, <1>7, <1>9, <1>10, <1>15 DEF Movable
<1>17. ListMoved(moved, list, s, out)
  BY <1>6, <1>15, <1>16, ListRestacked DEF out
<1>18. /\ out \in States /\ out.ring = PutBefore(W, list, s) /\ ToSet(out.ring) = Managed
       /\ out.layer = newLayer /\ out.hint = hint /\ out.iconic = iconic
       /\ out.marks = NoMarks /\ (x = ring => out.x = out.ring)
  BY <1>2, <1>8, <1>15, <1>17 DEF ListMoved, States
<1>19. ToSet(W) \cap ToSet(list) = {}
  BY <1>6, <1>7
<1>20. Sorted(ring, layer) => Sorted(out.ring, out.layer)
  <2>1. Sorted(ring, layer) => Sorted(W, Now.layer)
    BY <1>7, NowFields DEF Sorted
  <2>2. \A v \in ToSet(W) : newLayer[v] = Now.layer[v]
    BY <1>7, <1>14, <1>19, NowFields, EmptyList
  <2>3. Sorted(ring, layer) => Sorted(PutBefore(W, list, s), newLayer)
    BY <1>2, <1>6, <1>7, <1>10, <1>11, <1>12, <1>14, <1>19, <2>1, <2>2, InsertSorted
  <2> QED BY <1>18, <2>3
<1>21. Fine(out)
  <2>1. \A v \in Windows \ ToSet(out.ring) : out.layer[v] = DefaultLayer /\ v \notin out.iconic
    BY <1>6, <1>14, <1>18, FineNow
  <2> QED BY <1>18, <2>1, FineNow DEF Fine
<1>22. ASSUME ~marks.keep, NEW F, FamilySet(Across(out), F), t \in F PROVE Within(out, F)
  <2>1. Across(out) = [ring |-> out.ring, hint |-> hint]
    BY <1>18 DEF Across
  <2>2. \A v : LeaderOf(Across(out), v) = LeaderOf(Now, v)
    BY <1>2, <1>18, <2>1, NowFields DEF LeaderOf
  <2>3. FamilySet(Now, F)
    BY <1>22, <2>2 DEF FamilySet
  <2>4. ToSet(list) \subseteq F
    BY <1>5, <1>6, <1>22, <2>3
  <2>5. ASSUME NEW u \in Windows \ F, NEW v \in Windows \ F, Before(Now.ring, u, v)
        PROVE  Before(out.ring, u, v)
    <3>1. Before(ring, u, v) /\ u \in Managed /\ v \in Managed
      BY <1>2, <2>5, NowFields, OrderFacts
    <3>2. Before(W, u, v)
      BY <1>6, <1>7, <2>4, <3>1
    <3> QED BY <1>6, <1>7, <1>10, <1>18, <1>19, <3>2, PutBeforeOrder
  <2>6. OthersStay(Now, out, F)
    BY <2>5 DEF OthersStay
  <2> QED BY <1>14, <1>18, <2>4, <2>6 DEF Within
<1>23. Result(out, {l, old})
  <2>1. marks = NoMarks => ~marks.keep
    BY DEF NoMarks
  <2> QED BY <1>2, <1>3, <1>18, <1>20, <1>21, <1>22, <2>1 DEF Result, Clears, Tidy
<1> QED BY <1>1, <1>18, <1>23 DEF Happens

(* AddWindow up to where the windows are restacked: the new window, the place
   for it, and the state with the window there. *)
NewOnTop(w, h) ==
    [Now EXCEPT !.ring = <<w>> \o @, !.x = <<w>> \o @, !.view = <<w>> \o @,
                !.layer[w] = LayerFor(w, h), !.hint[w] = ValidHint(h),
                !.marks = [marks EXCEPT !.tree = marks.tree \ {w},
                                        !.leader = [marks.leader EXCEPT ![w] = Root]]]

NewBefore(w, h, lower) ==
    LET st == NewOnTop(w, h)
        l == LayerFor(w, h)
    IN  FirstAtMost(st, st.ring, w, IF lower THEN l - 1 ELSE l)

NewPut(w, h, lower) ==
    [NewOnTop(w, h) EXCEPT !.ring = PutBefore(ring, <<w>>, NewBefore(w, h, lower))]

LEMMA NewLayer ==
    ASSUME TypeOK, NEW w \in Windows, NEW h
    PROVE  LayerFor(w, h) \in Layers
<1>1. layer \in [Windows -> Layers]
  BY FineNow
<1>2. CASE w \in DOMAIN LayerStyle
  BY <1>2, Constants DEF LayerFor
<1>3. CASE w \notin DOMAIN LayerStyle /\ ValidHint(h) \in Windows
  BY <1>1, <1>3 DEF LayerFor
<1>4. CASE w \notin DOMAIN LayerStyle /\ ValidHint(h) \notin Windows
  BY <1>4, Constants DEF LayerFor
<1> QED BY <1>2, <1>3, <1>4

LEMMA NewWindowPut ==
    ASSUME TypeOK, NEW w \in Windows \ Managed, NEW h, MayGet(w, h), NEW lower
    PROVE  LET st == NewOnTop(w, h)
               s == NewBefore(w, h, lower)
               put == NewPut(w, h, lower)
           IN  /\ st \in States /\ ToSet(st.ring) = Managed \cup {w}
               /\ x = ring => st.x = st.ring
               /\ s \in Managed \cup {Root} /\ Without(st.ring, {w}) = ring
               /\ put.ring = PutBefore(ring, <<w>>, s) /\ put.layer = st.layer
               /\ put.hint = st.hint /\ put.iconic = st.iconic /\ put.marks = st.marks
               /\ put.layer[w] = LayerFor(w, h) /\ w \in ToSet(put.ring) /\ Prepared(put, w)
<1> DEFINE st == NewOnTop(w, h)
           l == LayerFor(w, h)
           k == IF lower THEN l - 1 ELSE l
           s == NewBefore(w, h, lower)
           put == NewPut(w, h, lower)
           one == <<w>>
           r == one \o ring
           f == one \o x
           layers == [layer EXCEPT ![w] = l]
           hints == [hint EXCEPT ![w] = ValidHint(h)]
           newMarks == [marks EXCEPT !.tree = marks.tree \ {w},
                                     !.leader = [marks.leader EXCEPT ![w] = Root]]
<1>1. st = [ring |-> r, x |-> f, view |-> r, layer |-> layers, hint |-> hints,
            iconic |-> iconic, byParent |-> byParent, marks |-> newMarks]
  <2>1. r = <<w>> \o Now.ring /\ f = <<w>> \o Now.x /\ r = <<w>> \o Now.view
    BY NowFields DEF Now
  <2>2. /\ hints = [Now.hint EXCEPT ![w] = ValidHint(h)]
        /\ layers = [Now.layer EXCEPT ![w] = LayerFor(w, h)]
    BY NowFields
  <2>4. newMarks = [marks EXCEPT !.tree = marks.tree \ {w},
                                 !.leader = [marks.leader EXCEPT ![w] = Root]]
    OBVIOUS
  <2> HIDE DEF r, f, layers, hints, newMarks
  <2>3. st = [Now EXCEPT !.ring = r, !.x = f, !.view = r, !.layer = layers, !.hint = hints,
                         !.marks = newMarks]
    BY <2>1, <2>2, <2>4 DEF NewOnTop
  <2> HIDE DEF st
  <2> QED BY <2>3 DEF Now
<1> HIDE DEF st, r, f, layers, hints, newMarks
<1>2. /\ ring \in Lists /\ x \in Lists /\ ToSet(x) = Managed /\ ToSet(ring) = Managed
      /\ w \in Windows /\ w \notin Managed /\ layer \in [Windows -> Layers]
      /\ iconic \in SUBSET Windows /\ byParent \in SUBSET Windows /\ Managed \subseteq Windows
  BY FineNow DEF Managed
<1>3. one \in Lists /\ ToSet(one) = {w} /\ \A u, v : ~Before(one, u, v)
  BY <1>2, OneWindow
<1> HIDE DEF one
<1>4. /\ r \in Lists /\ ToSet(r) = Managed \cup {w}
      /\ \A u, v : u # w /\ v # w => (Before(r, u, v) <=> Before(ring, u, v))
  <2>1. /\ r \in Lists /\ ToSet(r) = ToSet(one) \cup ToSet(ring)
        /\ \A u, v : Before(r, u, v) <=> \/ Before(one, u, v) \/ Before(ring, u, v)
                                         \/ (u \in ToSet(one) /\ v \in ToSet(ring))
    BY <1>2, <1>3, ConcatOrder DEF r
  <2> QED BY <1>2, <1>3, <2>1
<1>5. f \in Lists /\ ToSet(f) = Managed \cup {w}
  <2>1. f \in Lists /\ ToSet(f) = ToSet(one) \cup ToSet(x)
    BY <1>2, <1>3, ConcatOrder DEF f
  <2> QED BY <1>2, <1>3, <2>1
<1>6. hints \in [Windows -> Hints] /\ HintsMayBe(hints)
  BY <1>2, HintMayBe DEF hints
<1>7. newMarks \in Marks /\ (marks = NoMarks => newMarks = NoMarks)
  <2>1. marks \in Marks
    BY FineNow
  <2>2. newMarks \in Marks
    BY <1>2, <2>1 DEF newMarks, Marks
  <2>3. marks = NoMarks => newMarks = NoMarks
    <3> DEFINE none == [v \in Windows |-> Root]
    <3>1. [none EXCEPT ![w] = Root] = none
      BY <1>2
    <3> HIDE DEF none
    <3>2. NoMarks = [keep |-> FALSE, tree |-> {}, leader |-> none]
      BY DEF NoMarks, none
    <3>3. NoMarks.tree = {} /\ NoMarks.leader = none
      BY <3>2
    <3>4. [NoMarks EXCEPT !.tree = {}, !.leader = none] = NoMarks
      BY <3>3, NoMarksType DEF Marks
    <3>5. ASSUME marks = NoMarks PROVE newMarks = NoMarks
      <4>1. marks.tree \ {w} = {} /\ [marks.leader EXCEPT ![w] = Root] = none
        BY <3>1, <3>3, <3>5
      <4>2. newMarks = [NoMarks EXCEPT !.tree = {}, !.leader = none]
        BY <3>5, <4>1 DEF newMarks
      <4> QED BY <3>4, <4>2
    <3> QED BY <3>5
  <2> QED BY <2>2, <2>3
<1>8. l \in Layers /\ l \in Int
  <2>1. w \in Windows
    OBVIOUS
  <2>2. LayerFor(w, h) \in Layers
    BY <2>1, NewLayer, Zenon
  <2>3. Layers \subseteq Int
    BY Constants
  <2> QED BY <2>2, <2>3
<1> HIDE DEF l
<1>9. /\ layers \in [Windows -> Layers] /\ layers[w] = l
       /\ \A v \in Windows \ {w} : layers[v] = layer[v]
  BY <1>2, <1>8 DEF layers
<1>10. st \in States
  BY <1>1, <1>2, <1>4, <1>5, <1>6, <1>7, <1>9 DEF States
<1>11. x = ring => f = r
  BY DEF r, f
<1>12. /\ st.ring = r /\ st.x = f /\ st.layer = layers /\ st.hint = hints
       /\ st.iconic = iconic /\ st.marks = newMarks
  BY <1>1
<1>13. Without(r, {w}) = ring
  <2> DEFINE q == Without(r, {w})
  <2>1. /\ q \in Lists /\ ToSet(q) = ToSet(r) \ {w}
        /\ \A u, v : Before(q, u, v) <=> u \notin {w} /\ v \notin {w} /\ Before(r, u, v)
    BY <1>4, WithoutOrder
  <2> HIDE DEF q
  <2>2. ToSet(q) = ToSet(ring)
    BY <1>2, <1>4, <2>1
  <2>3. \A u, v \in ToSet(q) : Before(q, u, v) => Before(ring, u, v)
    BY <1>4, <2>1
  <2>4. q = ring
    BY <1>2, <2>1, <2>2, <2>3, SameOrder
  <2> QED BY <2>4 DEF q
<1>14. s = FirstAtMost(st, st.ring, w, k)
  BY DEF NewBefore, st, l
<1> HIDE DEF s
<1>15. s \in Managed \cup {Root}
  BY <1>4, <1>12, <1>14, FirstOrder
<1>16. l \in Int /\ k \in {l, l - 1}
  BY <1>8
<1>17. Sorted(ring, layer) => Sorted(ring, layers)
  BY <1>2, <1>9, OrderFacts DEF Sorted
<1>18. Sorted(ring, layer) => Fits(st, ring, s, l)
  <2> HIDE DEF k
  <2> QED BY <1>4, <1>10, <1>12, <1>13, <1>16, <1>14, <1>17, FirstFits
<1> HIDE DEF k
<1> DEFINE p == PutBefore(ring, one, s)
<1>19. ToSet(ring) \cap ToSet(one) = {}
  BY <1>2, <1>3
<1>20. /\ p \in Lists /\ ToSet(p) = Managed \cup {w}
       /\ \A u, v : Before(ring, u, v) => Before(p, u, v)
  BY <1>2, <1>3, <1>15, <1>19, PutBeforeOrder
<1>21. Sorted(ring, layer) => Sorted(p, layers)
  <2>1. /\ \A v \in ToSet(one) : layers[v] = l
        /\ \A v \in ToSet(ring) : layers[v] = st.layer[v]
    BY <1>3, <1>12, <1>9
  <2> QED BY <1>2, <1>3, <1>10, <1>12, <1>15, <1>16, <1>18, <1>19, <1>17, <2>1, InsertSorted
<1> HIDE DEF p
<1>22. put = [ring |-> p, x |-> f, view |-> r, layer |-> layers, hint |-> hints,
              iconic |-> iconic, byParent |-> byParent, marks |-> newMarks]
  <2>1. put = [st EXCEPT !.ring = p]
    BY DEF NewPut, st, s, p, one
  <2> HIDE DEF put
  <2> QED BY <1>1, <2>1
<1>23. put \in States
  BY <1>2, <1>4, <1>5, <1>6, <1>7, <1>20, <1>22, <1>9 DEF States
<1> HIDE DEF put
<1>24. /\ put.ring = p /\ put.layer = layers /\ put.hint = hints /\ put.iconic = iconic
       /\ put.marks = newMarks
  BY <1>22
<1>25. Fine(put)
  BY <1>6, <1>20, <1>23, <1>24, <1>9, FineNow DEF Fine
<1>26. ASSUME NEW F, w \in F PROVE Within(put, F)
  <2>1. OthersStay(Now, put, F)
    BY <1>20, <1>24, NowFields DEF OthersStay
  <2> QED BY <1>20, <1>24, <1>26, <1>9, <2>1 DEF Within
<1>27. Prepared(put, w)
  BY <1>7, <1>20, <1>21, <1>24, <1>25, <1>26 DEF Prepared, Tidy
<1> QED BY <1>4, <1>10, <1>11, <1>12, <1>13, <1>15, <1>20, <1>24, <1>27, <1>9
           DEF put, st, s, p, one, l

LEMMA AddWindowHappens ==
    ASSUME TypeOK, NEW w \in Windows, NEW h, MayGet(w, h), NEW lower, AddWindow(w, h, lower)
    PROVE  Happens
<1> DEFINE mode == IF lower THEN "lower" ELSE "raise"
           l == LayerFor(w, h)
           st == NewOnTop(w, h)
           s == NewBefore(w, h, lower)
           put == NewPut(w, h, lower)
           done == RaiseOrLower(put, w, mode)
           framed == [done EXCEPT !.x = done.ring]
           told == BroadcastRestackAllWindows(framed)
           placed == RestackWindowList(st, <<w>>, s, lower)
<1>1. /\ w \notin Managed
      /\ Commit(told, {l}) \/ Commit(placed, {l})
  BY DEF AddWindow, NewOnTop, NewBefore, NewPut
<1>2. /\ st \in States /\ ToSet(st.ring) = Managed \cup {w}
      /\ x = ring => st.x = st.ring
      /\ s \in Managed \cup {Root} /\ Without(st.ring, {w}) = ring
      /\ put.ring = PutBefore(ring, <<w>>, s) /\ put.layer = st.layer
      /\ put.hint = st.hint /\ put.iconic = st.iconic /\ put.marks = st.marks
      /\ put.layer[w] = l /\ w \in ToSet(put.ring) /\ Prepared(put, w)
  BY <1>1, NewWindowPut
<1> HIDE DEF l, st, s, put
<1>3. CASE Commit(told, {l})
  <2>1. put \in States /\ mode \in Modes
    BY <1>2 DEF Prepared, Fine, Modes
  <2>2. ChainMoved(put, w, mode, done)
    BY <1>2, <2>1, RaiseOrLowerMoves
  <2> HIDE DEF mode, done
  <2>3. Result(done, {l})
    BY <1>2, <2>1, <2>2, ChainResult
  <2>4. done \in States /\ ToSet(done.ring) = ToSet(put.ring)
    BY <2>2 DEF ChainMoved, Kept
  <2>5. /\ framed \in States /\ framed.ring = done.ring /\ framed.x = done.ring
        /\ framed.layer = done.layer /\ framed.hint = done.hint
        /\ framed.iconic = done.iconic /\ framed.marks = done.marks
    BY <2>4 DEF States
  <2> HIDE DEF framed
  <2>6. Spans(framed, Head(framed.ring), Last(framed.ring))
    <3> DEFINE r == framed.ring
    <3>1. r \in Lists
      BY <2>5 DEF States
    <3>2. r # <<>>
      BY <1>2, <2>4, <2>5, <3>1, EmptyList
    <3>3. Head(r) \in ToSet(r) /\ \A v \in ToSet(r) : v = Head(r) \/ Before(r, Head(r), v)
      BY <3>1, <3>2, HeadOrder
    <3>4. Last(r) \in ToSet(r)
      <4>1. Len(r) \in Nat /\ DOMAIN r = 1 .. Len(r) /\ Len(r) # 0
        BY <3>1, <3>2, EmptyList
      <4>2. Len(r) \in DOMAIN r
        BY <4>1
      <4> QED BY <4>2 DEF Last, ToSet
    <3> HIDE DEF r
    <3> QED BY <3>2, <3>3, <3>4 DEF Spans, r
  <2>7. ViewChanges(framed, told)
    BY <2>5, <2>6, Told DEF BroadcastRestackAllWindows
  <2> HIDE DEF told
  <2>8. /\ told \in States /\ told.marks = framed.marks /\ told.ring = framed.ring
        /\ told.x = framed.x /\ told.layer = framed.layer /\ told.hint = framed.hint
        /\ told.iconic = framed.iconic
    BY <2>5, <2>7, ViewKept
  <2>9. Result(told, {l})
    BY <2>3, <2>5, <2>8, SameResult
  <2> QED BY <1>3, <2>5, <2>8, <2>9 DEF Happens
<1>4. CASE Commit(placed, {l})
  <2> DEFINE one == <<w>>
  <2>1. one \in Lists /\ ToSet(one) = {w} /\ one # <<>>
    BY OneWindow
  <2>2. placed = RestackWindowList(st, one, s, lower)
    OBVIOUS
  <2>3. put.ring = PutBefore(ring, one, s)
    BY <1>2
  <2> HIDE DEF one, placed
  <2>4. Movable(st, one, s)
    BY <1>1, <1>2, <2>1 DEF Movable
  <2>5. ListMoved(st, one, s, placed)
    BY <1>2, <2>1, <2>2, <2>4, ListRestacked
  <2>6. /\ placed \in States /\ placed.ring = put.ring
        /\ placed.layer = put.layer /\ placed.hint = put.hint
        /\ placed.iconic = put.iconic /\ placed.marks = put.marks
        /\ x = ring => placed.x = placed.ring
    BY <1>2, <2>1, <2>3, <2>5 DEF ListMoved, States
  <2>7. Result(put, {l})
    BY <1>2, PreparedResult
  <2>8. Result(placed, {l})
    BY <2>6, <2>7, SameResult
  <2> QED BY <1>4, <2>6, <2>8 DEF Happens
<1> QED BY <1>1, <1>3, <1>4

LEMMA NextHappens ==
    ASSUME TypeOK, Next
    PROVE  Happens
<1>1. PICK w \in Windows :
         \/ Raise(w)
         \/ Lower(w)
         \/ RestackTransients(w)
         \/ RaiseLower(w)
         \/ \E l \in Layers : Layer(w, l)
         \/ \E v \in Windows, detail \in {"Above", "Below"} : ClientRestack(w, v, detail)
         \/ \E h \in Hints, lower \in BOOLEAN :
               (h = NoHint \/ <<w, h>> \in MayHint) /\ AddWindow(w, h, lower)
         \/ Destroy(w)
         \/ \E h \in Hints : (h = NoHint \/ <<w, h>> \in MayHint) /\ HintChanges(w, h)
         \/ Iconify(w)
         \/ DeIconify(w)
  BY DEF Next
<1>2. CASE Raise(w)
  BY <1>2, RaiseHappens
<1>3. CASE Lower(w)
  BY <1>3, LowerHappens
<1>4. CASE RestackTransients(w)
  BY <1>4, RestackTransientsHappens
<1>5. CASE RaiseLower(w)
  BY <1>5, RaiseLowerHappens
<1>6. CASE \E l \in Layers : Layer(w, l)
  BY <1>6, LayerHappens
<1>7. CASE \E v \in Windows, detail \in {"Above", "Below"} : ClientRestack(w, v, detail)
  BY <1>7, ClientRestackHappens
<1>8. CASE \E h \in Hints, lower \in BOOLEAN :
              (h = NoHint \/ <<w, h>> \in MayHint) /\ AddWindow(w, h, lower)
  BY <1>8, AddWindowHappens DEF MayGet
<1>9. CASE Destroy(w)
  BY <1>9, DestroyHappens
<1>10. CASE \E h \in Hints : (h = NoHint \/ <<w, h>> \in MayHint) /\ HintChanges(w, h)
  BY <1>10, HintChangesHappens DEF MayGet
<1>11. CASE Iconify(w)
  BY <1>11, IconifyHappens
<1>12. CASE DeIconify(w)
  BY <1>12, DeIconifyHappens
<1> QED BY <1>1, <1>2, <1>3, <1>4, <1>5, <1>6, <1>7, <1>8, <1>9, <1>10, <1>11, <1>12

(* What Commit does to the state *)
LEMMA Committed ==
    ASSUME NEW st, NEW layers, Fine(st), Commit(st, layers)
    PROVE  /\ TypeOK'
           /\ ring' = st.ring /\ x' = st.x /\ layer' = st.layer /\ hint' = st.hint
           /\ iconic' = st.iconic
           /\ ChecksStack = {TRUE} /\ Clears(st, layers) => marks' = NoMarks
<1>1. /\ ring' = st.ring /\ x' = st.x /\ view' = st.view /\ layer' = st.layer
      /\ hint' = st.hint /\ iconic' = st.iconic /\ byParent' = st.byParent
      /\ \E checks \in ChecksStack :
            marks' = IF checks /\ \E l \in layers :
                                     (InLayer(st, l) \cap RaiseTransient) \ st.iconic # {}
                     THEN NoMarks ELSE st.marks
  BY DEF Commit
<1>2. st \in States /\ st.marks \in Marks
  BY DEF Fine, States
<1>3. marks' \in Marks
  BY <1>1, <1>2, NoMarksType
<1>4. ChecksStack = {TRUE} /\ Clears(st, layers) => marks' = NoMarks
  BY <1>1 DEF Clears
<1> DEFINE now == [ring |-> st.ring, x |-> st.x, view |-> st.ring, layer |-> st.layer,
                   hint |-> st.hint, iconic |-> st.iconic, byParent |-> st.byParent,
                   marks |-> marks']
<1>5. Now' = now
  BY <1>1 DEF Now
<1>6. now \in States
  BY <1>2, <1>3 DEF States
<1>7. Fine(now)
  BY <1>6 DEF Fine
<1> HIDE DEF now
<1>8. (Fine(Now))'
  BY <1>5, <1>7 DEF Fine
<1>9. view' \in Lists /\ ToSet(view') = ToSet(ring')
  BY <1>1, <1>2 DEF States
<1> QED BY <1>1, <1>4, <1>8, <1>9 DEF TypeOK, Managed

LEMMA TypeInit == Init => TypeOK /\ XMatchesRing /\ Tidy
<1> SUFFICES ASSUME Init PROVE TypeOK /\ XMatchesRing /\ Tidy
  OBVIOUS
<1> DEFINE ls == [w \in Windows |-> DefaultLayer]
           hs == [w \in Windows |-> NoHint]
<1>1. /\ ring = <<>> /\ x = <<>> /\ view = <<>> /\ layer = ls /\ hint = hs
      /\ iconic = {} /\ byParent = {} /\ marks = NoMarks
  BY DEF Init
<1>2. ls \in [Windows -> Layers] /\ hs \in [Windows -> Hints]
  BY Constants
<1>3. \A w \in Windows : ls[w] = DefaultLayer /\ hs[w] \notin Windows
  BY Constants
<1> HIDE DEF ls, hs
<1>4. Now = [ring |-> <<>>, x |-> <<>>, view |-> <<>>, layer |-> ls, hint |-> hs,
             iconic |-> {}, byParent |-> {}, marks |-> NoMarks]
  BY <1>1 DEF Now
<1>5. Now \in States
  BY <1>2, <1>4, NoWindow, NoMarksType DEF States
<1>6. HintsMayBe(hs)
  BY <1>3 DEF HintsMayBe
<1>7. Fine(Now)
  BY <1>3, <1>4, <1>5, <1>6 DEF Fine
<1>8. TypeOK
  BY <1>1, <1>7, NoWindow DEF TypeOK, Managed
<1>9. Sorted(ring, layer)
  BY <1>1, NoWindow DEF Sorted
<1> QED BY <1>1, <1>8, <1>9 DEF XMatchesRing, Tidy

(* The ring, the frames and the view are lists of the same windows, and all else
   has its type; windows that are not in the ring are as Destroy leaves them. *)
THEOREM TypeHolds == Spec => []TypeOK
<1>1. TypeOK /\ [Next]_vars => TypeOK'
  <2> SUFFICES ASSUME TypeOK, [Next]_vars PROVE TypeOK'
    OBVIOUS
  <2>1. CASE Next
    <3>1. Happens
      BY <2>1, NextHappens
    <3> QED BY <3>1, Committed DEF Happens, Result
  <2>2. CASE UNCHANGED vars
    <3>1. Now' = Now /\ view' = view /\ ring' = ring
      BY <2>2 DEF vars, Now
    <3>2. (Fine(Now))' <=> Fine(Now)
      BY <3>1 DEF Fine
    <3> QED BY <3>1, <3>2 DEF TypeOK, Managed
  <2> QED BY <2>1, <2>2
<1> QED BY <1>1, TypeInit, PTL DEF Spec

(* XMatchesRing: each operation leaves the frames on the X server in the order of
   the ring, whatever marks it finds: the frame of the first window it moved is
   placed next to the right sibling, and the others below it. *)
THEOREM XMatchesRingHolds == Spec => []XMatchesRing
<1>1. TypeOK /\ XMatchesRing /\ [Next]_vars => XMatchesRing'
  <2> SUFFICES ASSUME TypeOK, XMatchesRing, [Next]_vars PROVE XMatchesRing'
    OBVIOUS
  <2>1. CASE Next
    <3>1. Happens
      BY <2>1, NextHappens
    <3>2. PICK st, layers : /\ Result(st, layers) /\ (x = ring => st.x = st.ring)
                            /\ Commit(st, layers)
      BY <3>1 DEF Happens
    <3>3. ring' = st.ring /\ x' = st.x
      BY <3>2 DEF Commit
    <3> QED BY <3>2, <3>3 DEF XMatchesRing
  <2>2. CASE UNCHANGED vars
    BY <2>2 DEF vars, XMatchesRing
  <2> QED BY <2>1, <2>2
<1> QED BY <1>1, TypeInit, TypeHolds, PTL DEF Spec

LEMMA TidyNext ==
    ASSUME ChecksStack = {TRUE}, LowerTransient \subseteq RaiseTransient
    PROVE  TypeOK /\ Tidy /\ [Next]_vars => Tidy'
<1> SUFFICES ASSUME TypeOK, Tidy, [Next]_vars PROVE Tidy'
  OBVIOUS
<1>1. CASE Next
  <2>1. PICK st, layers : Result(st, layers) /\ Commit(st, layers)
    BY <1>1, NextHappens DEF Happens
  <2>2. Fine(st) /\ Sorted(st.ring, st.layer) /\ Clears(st, layers)
    BY <2>1 DEF Result
  <2>3. ring' = st.ring /\ layer' = st.layer /\ marks' = NoMarks
    BY <2>1, <2>2, Committed
  <2> QED BY <2>2, <2>3 DEF Tidy, Sorted
<1>2. CASE UNCHANGED vars
  BY <1>2 DEF vars, Tidy, Sorted
<1> QED BY <1>1, <1>2

(* LayersSorted: if a window that lowers its transients also raises them, and the
   buttons are grabbed after each operation, the ring is sorted by layers.  The
   marks have to be part of the invariant: an operation that finds them of an
   earlier one takes the windows of another layer along. *)
THEOREM LayersSortedHolds ==
    ASSUME ChecksStack = {TRUE}, LowerTransient \subseteq RaiseTransient
    PROVE  Spec => []LayersSorted
<1>1. TypeOK /\ Tidy => LayersSorted
  <2> SUFFICES ASSUME TypeOK, Tidy PROVE LayersSorted
    OBVIOUS
  <2>1. \A i, j \in DOMAIN ring : i < j => Before(ring, ring[i], ring[j])
    BY DEF Before
  <2> QED BY <2>1 DEF LayersSorted, Tidy, Sorted
<1>2. TypeOK /\ Tidy /\ [Next]_vars => Tidy'
  BY TidyNext
<1> QED BY <1>1, <1>2, TypeInit, TypeHolds, PTL DEF Spec

-----------------------------------------------------------------------------
(* Families *)

(* Leaders close no cycle, so that each window has a top one. *)
LEMMA TopExists ==
    ASSUME NEW st, ToSet(st.ring) \subseteq Windows, HintsMayBe(st.hint)
    PROVE  \E top : top = [v \in Windows |-> LET p == LeaderOf(st, v)
                                             IN  IF p = Root THEN v ELSE top[p]]
<1> DEFINE n == Cardinality(Windows)
           Next1(top, v) == IF LeaderOf(st, v) = Root THEN v ELSE top[LeaderOf(st, v)]
<1>1. n \in Nat
  BY Constants, FS_CardinalityType
<1>2. PICK rank \in [Windows -> 1 .. n] :
         \A e \in MayHint : e[2] \in Windows => rank[e[1]] > rank[e[2]]
  BY StackAssumption DEF StackAssumption, Acyclic
<1>3. ASSUME NEW v \in Windows, LeaderOf(st, v) # Root
      PROVE  LeaderOf(st, v) \in Windows /\ rank[v] > rank[LeaderOf(st, v)]
  <2> DEFINE p == LeaderOf(st, v)
  <2>1. p = st.hint[v] /\ p \in Windows
    BY <1>3 DEF LeaderOf
  <2>2. <<v, p>> \in MayHint
    BY <2>1 DEF HintsMayBe
  <2> QED BY <1>2, <2>1, <2>2
<1> HIDE DEF n
<1> DEFINE Upto(top, k) == /\ top \in [Windows -> Windows]
                           /\ \A v \in Windows : rank[v] <= k => top[v] = Next1(top, v)
           P == {k \in 0 .. n : \E top : Upto(top, k)}
<1>4. 0 \in P
  <2> DEFINE top == [v \in Windows |-> v]
  <2>1. Upto(top, 0)
    <3>1. \A v \in Windows : ~(rank[v] <= 0)
      BY <1>1, <1>2
    <3> QED BY <3>1
  <2> HIDE DEF top
  <2> QED BY <1>1, <2>1
<1>5. ASSUME NEW k \in 1 .. n, k - 1 \in P PROVE k \in P
  <2>1. PICK old : Upto(old, k - 1)
    BY <1>5
  <2> DEFINE top == [v \in Windows |-> IF rank[v] <= k - 1 THEN old[v] ELSE Next1(old, v)]
  <2>2. \A v \in Windows : Next1(old, v) \in Windows
    BY <1>3, <2>1
  <2>3. top \in [Windows -> Windows]
    BY <2>1, <2>2
  <2>4. \A v \in Windows : top[v] = IF rank[v] <= k - 1 THEN old[v] ELSE Next1(old, v)
    OBVIOUS
  <2>5. \A v \in Windows : rank[v] \in Nat
    BY <1>2
  <2> HIDE DEF top
  <2>6. ASSUME NEW v \in Windows, rank[v] <= k PROVE top[v] = Next1(top, v)
    <3>1. top[v] = Next1(old, v)
      BY <2>1, <2>4
    <3>2. CASE LeaderOf(st, v) = Root
      BY <3>1, <3>2
    <3>3. CASE LeaderOf(st, v) # Root
      <4> DEFINE p == LeaderOf(st, v)
      <4>1. p \in Windows /\ rank[v] > rank[p]
        BY <1>3, <3>3
      <4> HIDE DEF p
      <4>2. rank[p] <= k - 1
        BY <1>1, <2>5, <2>6, <4>1
      <4>3. top[p] = old[p]
        BY <2>4, <4>1, <4>2
      <4> QED BY <3>1, <3>3, <4>3 DEF p
    <3> QED BY <3>2, <3>3
  <2>7. Upto(top, k)
    BY <2>3, <2>6
  <2> QED BY <1>1, <2>7
<1>6. n \in P
  <2> HIDE DEF P
  <2>1. 0 .. n \subseteq P
    BY <1>1, <1>4, <1>5, UpTo
  <2> QED BY <1>1, <2>1
<1>7. PICK top : Upto(top, n)
  BY <1>6
<1>8. \A v \in Windows : rank[v] <= n
  BY <1>1, <1>2
<1>9. top = [v \in Windows |-> Next1(top, v)]
  <2>1. \A v \in Windows : top[v] = Next1(top, v)
    BY <1>7, <1>8
  <2>2. top \in [Windows -> Windows]
    BY <1>7
  <2> HIDE DEF Next1, Upto
  <2> QED BY <2>1, <2>2
<1> QED BY <1>9

LEMMA FamilyFacts ==
    ASSUME NEW st, ToSet(st.ring) \subseteq Windows, HintsMayBe(st.hint), NEW w \in Windows
    PROVE  FamilySet(st, Family(st, w)) /\ w \in Family(st, w)
<1> DEFINE Is(f) == f = [v \in Windows |-> LET p == LeaderOf(st, v)
                                           IN  IF p = Root THEN v ELSE f[p]]
           top == CHOOSE f : Is(f)
<1>1. Family(st, w) = {v \in Windows : top[v] = top[w]}
  BY DEF Family
<1>2. Is(top)
  <2>1. \E f : Is(f)
    BY TopExists
  <2> QED BY <2>1
<1> HIDE DEF top
<1>3. \A v \in Windows : LeaderOf(st, v) # Root => top[v] = top[LeaderOf(st, v)]
  BY <1>2
<1>4. \A v \in Windows : LeaderOf(st, v) # Root => LeaderOf(st, v) \in Windows
  BY DEF LeaderOf
<1> QED BY <1>1, <1>3, <1>4 DEF FamilySet

(* OneFamilyMoves *)
LEMMA OneFamilyNext ==
    TypeOK /\ marks = NoMarks /\ [Next]_vars =>
      [LET now  == [ring |-> IF Managed \subseteq Managed' THEN ring' ELSE ring,
                    hint |-> hint']
           holds(f) == /\ Without(ring', f) = Without(ring, f)
                       /\ \A v \in Windows \ f : layer'[v] = layer[v]
                       /\ iconic' \ f = iconic \ f
       IN  \E w \in Windows : holds(Family(now, w))]_<<ring, layer, iconic>>
<1> DEFINE now == [ring |-> IF Managed \subseteq Managed' THEN ring' ELSE ring, hint |-> hint']
           holds(f) == /\ Without(ring', f) = Without(ring, f)
                       /\ \A v \in Windows \ f : layer'[v] = layer[v]
                       /\ iconic' \ f = iconic \ f
<1> SUFFICES ASSUME TypeOK, marks = NoMarks, Next
             PROVE  \E w \in Windows : holds(Family(now, w))
  BY DEF vars
<1>1. PICK st, layers : Result(st, layers) /\ Commit(st, layers)
  BY NextHappens DEF Happens
<1>2. Fine(st) /\ st \in States
  BY <1>1 DEF Result, Fine
<1>3. ring' = st.ring /\ layer' = st.layer /\ hint' = st.hint /\ iconic' = st.iconic
  BY <1>1, <1>2, Committed
<1>4. PICK w \in Windows : \A F : FamilySet(Across(st), F) /\ w \in F => Within(st, F)
  BY <1>1 DEF Result
<1>5. now = Across(st)
  BY <1>3 DEF Across, Managed
<1>6. st.ring \in Lists /\ ring \in Lists /\ ToSet(ring) = Managed
  BY <1>2, FineNow DEF States, Managed
<1> DEFINE F == Family(now, w)
<1>7. FamilySet(now, F) /\ w \in F
  <2>1. now.ring \in {st.ring, ring} /\ now.hint = st.hint
    BY <1>3
  <2>2. ToSet(now.ring) \subseteq Windows
    BY <1>6, <2>1, EmptyList
  <2>3. HintsMayBe(now.hint)
    BY <1>2, <2>1 DEF Fine
  <2> HIDE DEF now
  <2> QED BY <2>2, <2>3, FamilyFacts
<1> HIDE DEF now, F
<1>8. Within(st, F) /\ F \subseteq Windows
  BY <1>4, <1>5, <1>7 DEF FamilySet
<1>9. Without(ring', F) = Without(ring, F)
  <2> DEFINE a == Without(ring, F)
             b == Without(st.ring, F)
  <2>1. /\ a \in Lists /\ ToSet(a) = ToSet(ring) \ F
        /\ \A u, v : Before(a, u, v) <=> u \notin F /\ v \notin F /\ Before(ring, u, v)
    BY <1>6, WithoutOrder
  <2>2. /\ b \in Lists /\ ToSet(b) = ToSet(st.ring) \ F
        /\ \A u, v : Before(b, u, v) <=> u \notin F /\ v \notin F /\ Before(st.ring, u, v)
    BY <1>6, WithoutOrder
  <2> HIDE DEF a, b
  <2>3. ToSet(a) = ToSet(b)
    BY <1>6, <1>8, <2>1, <2>2 DEF Within
  <2>4. ASSUME NEW u \in ToSet(a), NEW v \in ToSet(a), Before(a, u, v) PROVE Before(b, u, v)
    <3>1. u \in Windows \ F /\ v \in Windows \ F /\ Before(Now.ring, u, v)
      BY <1>6, <2>1, <2>4, NowFields, EmptyList
    <3>2. Before(st.ring, u, v)
      BY <1>8, <3>1 DEF Within, OthersStay
    <3> QED BY <2>2, <3>1, <3>2
  <2>5. a = b
    BY <2>1, <2>2, <2>3, <2>4, SameOrder
  <2> QED BY <1>3, <2>5 DEF a, b
<1>10. holds(F)
  BY <1>3, <1>8, <1>9 DEF Within
<1> QED BY <1>10 DEF F

(* OneFamilyMoves: under the same conditions each operation leaves all but the
   windows of one family in their order, layer and state.  Marks that an earlier
   operation left would join families. *)
THEOREM OneFamilyMovesHolds ==
    ASSUME ChecksStack = {TRUE}, LowerTransient \subseteq RaiseTransient
    PROVE  Spec => OneFamilyMoves
<1>1. TypeOK /\ Tidy => TypeOK /\ marks = NoMarks
  BY DEF Tidy
<1>2. TypeOK /\ Tidy /\ [Next]_vars => Tidy'
  BY TidyNext
<1> QED BY <1>1, <1>2, OneFamilyNext, TypeInit, TypeHolds, PTL DEF Spec, OneFamilyMoves

-----------------------------------------------------------------------------
(* The shape of a tree *)

(* w is marked with its leader. *)
Follows(st, scope, mode, w) ==
    /\ w \in scope /\ LeaderOf(st, w) # Root
    /\ MovesTransients(LeaderOf(st, w), mode)
    /\ mode = "all" \/ w \notin st.iconic

(* Each window but t has its leader in the tree, from which it has its number. *)
Grown(st, num, t, scope, mode, tree) ==
    /\ t \in DOMAIN tree /\ tree[t] = num[t]
    /\ \A w \in DOMAIN tree \ {t} : /\ Follows(st, scope, mode, w)
                                    /\ LeaderOf(st, w) \in DOMAIN tree
                                    /\ tree[w] = num[w] + tree[LeaderOf(st, w)] + 1

(* Each window that follows one of the tree is in it. *)
Closed(st, scope, mode, D) ==
    \A w \in scope : Follows(st, scope, mode, w) /\ LeaderOf(st, w) \in D => w \in D

(* Hints lead to windows of lower rank. *)
Ranked(st, rank) ==
    /\ rank \in [Windows -> 1 .. Cardinality(Windows)]
    /\ \A v \in Windows : LeaderOf(st, v) # Root => /\ LeaderOf(st, v) \in Windows
                                                    /\ rank[v] > rank[LeaderOf(st, v)]

LEMMA RankExists ==
    ASSUME NEW st \in States, HintsMayBe(st.hint)
    PROVE  \E rank : Ranked(st, rank)
<1> DEFINE n == Cardinality(Windows)
<1>1. PICK rank \in [Windows -> 1 .. n] :
         \A e \in MayHint : e[2] \in Windows => rank[e[1]] > rank[e[2]]
  BY StackAssumption DEF StackAssumption, Acyclic
<1>2. ToSet(st.ring) \subseteq Windows
  BY EmptyList DEF States
<1>3. ASSUME NEW v \in Windows, LeaderOf(st, v) # Root
      PROVE  LeaderOf(st, v) \in Windows /\ rank[v] > rank[LeaderOf(st, v)]
  <2> DEFINE p == LeaderOf(st, v)
  <2>1. p = st.hint[v] /\ p \in Windows
    BY <1>2, <1>3 DEF LeaderOf
  <2>2. <<v, p>> \in MayHint
    BY <2>1 DEF HintsMayBe
  <2> QED BY <1>1, <2>1, <2>2
<1> QED BY <1>1, <1>3 DEF Ranked

LEMMA TreeShape ==
    ASSUME NEW st \in States, ~st.marks.keep, HintsMayBe(st.hint),
           NEW num \in [Windows -> Int], NEW t \in Windows,
           NEW scope \in SUBSET Windows, NEW mode
    PROVE  LET tree == MarkTransientSubtree(st, num, t, scope, mode)
           IN  /\ Grown(st, num, t, scope, mode, tree)
               /\ Closed(st, scope, mode, DOMAIN tree)
<1> DEFINE n == Cardinality(Windows)
           Next1(tree) == OneRound(st, num, scope, mode, tree)
           Good(tree) == tree \in Trees /\ Grown(st, num, t, scope, mode, tree)
<1>1. n \in Nat /\ Root \notin Windows
  BY Constants, FS_CardinalityType
<1>2. PICK g : Rounds(st, num, t, scope, mode, g)
  BY TreeGrows
<1>3. /\ g[0] = [w \in Marked(st, t) |-> num[w]]
      /\ \A i \in 1 .. n : g[i] = Next1(g[i - 1])
      /\ MarkTransientSubtree(st, num, t, scope, mode) = g[n]
      /\ \A i \in 0 .. n : g[i] \in Trees
  BY <1>2 DEF Rounds
<1>4. PICK rank : Ranked(st, rank)
  BY RankExists
<1>5. /\ rank \in [Windows -> 1 .. n]
      /\ \A v \in Windows : LeaderOf(st, v) # Root => /\ LeaderOf(st, v) \in Windows
                                                      /\ rank[v] > rank[LeaderOf(st, v)]
  BY <1>4 DEF Ranked
<1> HIDE DEF n
<1>6. \A w \in scope : Leaders(st, scope)[w] = LeaderOf(st, w)
  BY DEF Leaders
<1>7. ASSUME NEW tree \in Trees
      PROVE  \A w : w \in Followers(st, scope, mode, tree) <=>
                       /\ w \in scope /\ w \notin DOMAIN tree
                       /\ Follows(st, scope, mode, w) /\ LeaderOf(st, w) \in DOMAIN tree
  <2>1. Root \notin DOMAIN tree
    BY <1>1 DEF Trees
  <2> QED BY <1>6, <2>1 DEF Followers, Follows
<1>8. ASSUME NEW tree, Good(tree) PROVE Good(Next1(tree)) \/ Next1(tree) \notin Trees
  <2> SUFFICES ASSUME Next1(tree) \in Trees PROVE Grown(st, num, t, scope, mode, Next1(tree))
    OBVIOUS
  <2> DEFINE more == Followers(st, scope, mode, tree)
             new == Next1(tree)
  <2>1. /\ DOMAIN new = DOMAIN tree \cup more
        /\ \A w \in DOMAIN tree : new[w] = tree[w]
        /\ \A w \in more : w \notin DOMAIN tree =>
              new[w] = num[w] + tree[Leaders(st, scope)[w]] + 1
    BY DEF OneRound
  <2>2. \A w \in more : /\ w \in scope /\ w \notin DOMAIN tree
                        /\ Follows(st, scope, mode, w) /\ LeaderOf(st, w) \in DOMAIN tree
    BY <1>7, <1>8
  <2> HIDE DEF new, more
  <2>3. t \in DOMAIN tree /\ t \in DOMAIN new /\ new[t] = num[t]
    BY <1>8, <2>1 DEF Grown
  <2>4. ASSUME NEW w \in DOMAIN new \ {t}
        PROVE  /\ Follows(st, scope, mode, w) /\ LeaderOf(st, w) \in DOMAIN new
               /\ new[w] = num[w] + new[LeaderOf(st, w)] + 1
    <3>1. CASE w \in DOMAIN tree
      BY <1>8, <2>1, <3>1 DEF Grown
    <3>2. CASE w \in more
      <4>1. /\ w \in scope /\ w \notin DOMAIN tree /\ Follows(st, scope, mode, w)
            /\ LeaderOf(st, w) \in DOMAIN tree
        BY <2>2, <3>2
      <4>2. new[w] = num[w] + tree[LeaderOf(st, w)] + 1
        BY <1>6, <2>1, <3>2, <4>1
      <4> QED BY <2>1, <4>1, <4>2
    <3> QED BY <2>1, <3>1, <3>2
  <2> QED BY <2>3, <2>4 DEF Grown, new
<1>9. Good(g[0])
  <2>1. g[0] = [w \in {t} |-> num[w]]
    BY <1>3 DEF Marked
  <2> QED BY <1>1, <1>3, <2>1 DEF Grown
<1> HIDE DEF Good, Next1
<1>10. \A i \in 0 .. n : Good(g[i])
  <2> DEFINE P == {i \in 0 .. n : Good(g[i])}
  <2>1. 0 \in P
    BY <1>1, <1>9
  <2>2. ASSUME NEW i \in 1 .. n, i - 1 \in P PROVE i \in P
    <3>1. Good(g[i - 1]) /\ g[i] = Next1(g[i - 1]) /\ g[i] \in Trees /\ i \in 0 .. n
      BY <1>1, <1>3, <2>2
    <3> QED BY <1>8, <3>1
  <2> HIDE DEF P
  <2>3. 0 .. n \subseteq P
    BY <1>1, <2>1, <2>2, UpTo
  <2> QED BY <2>3 DEF P
<1>11. \A i \in 0 .. n : g[i] \in Trees /\ Grown(st, num, t, scope, mode, g[i])
  BY <1>10 DEF Good
<1>12. n \in 0 .. n
  BY <1>1
<1>13. \A i \in 1 .. n : \A w : w \in DOMAIN g[i] <=>
          \/ w \in DOMAIN g[i - 1]
          \/ w \in scope /\ Follows(st, scope, mode, w) /\ LeaderOf(st, w) \in DOMAIN g[i - 1]
  <2> SUFFICES ASSUME NEW i \in 1 .. n
               PROVE  \A w : w \in DOMAIN g[i] <=>
                         \/ w \in DOMAIN g[i - 1]
                         \/ /\ w \in scope /\ Follows(st, scope, mode, w)
                            /\ LeaderOf(st, w) \in DOMAIN g[i - 1]
    OBVIOUS
  <2>1. i - 1 \in 0 .. n /\ g[i] = OneRound(st, num, scope, mode, g[i - 1])
    BY <1>1, <1>3 DEF Next1
  <2>2. DOMAIN g[i] = DOMAIN g[i - 1] \cup Followers(st, scope, mode, g[i - 1])
    BY <2>1 DEF OneRound
  <2> QED BY <1>7, <1>11, <2>1, <2>2
<1> DEFINE D == DOMAIN g[n]
           P == {k \in 0 .. n : \A w \in D : rank[w] <= k => w \in DOMAIN g[k]}
<1>14. D \subseteq Windows
  BY <1>11, <1>12 DEF Trees
<1>15. 0 \in P
  <2>1. \A w \in D : ~(rank[w] <= 0)
    BY <1>5, <1>14
  <2> QED BY <1>1, <2>1
<1>16. ASSUME NEW k \in 1 .. n, k - 1 \in P PROVE k \in P
  <2>1. k \in 0 .. n
    BY <1>1
  <2>2. ASSUME NEW w \in D, rank[w] <= k PROVE w \in DOMAIN g[k]
    <3>1. CASE w = t
      BY <1>11, <2>1, <3>1 DEF Grown
    <3>2. CASE w # t
      <4> DEFINE p == LeaderOf(st, w)
      <4>1. Follows(st, scope, mode, w) /\ p \in D
        BY <1>11, <1>12, <3>2 DEF Grown
      <4>2. w \in scope /\ p # Root
        BY <4>1 DEF Follows
      <4>3. rank[w] > rank[p] /\ rank[p] \in Int /\ rank[w] \in Int
        BY <1>5, <1>14, <4>1, <4>2
      <4>4. rank[p] <= k - 1
        BY <2>2, <4>3
      <4>5. p \in DOMAIN g[k - 1]
        BY <1>16, <4>1, <4>4
      <4> QED BY <1>13, <4>1, <4>2, <4>5
    <3> QED BY <3>1, <3>2
  <2> QED BY <2>1, <2>2
<1>17. 0 .. n \subseteq P
  <2> HIDE DEF P
  <2> QED BY <1>1, <1>15, <1>16, UpTo
<1>18. ASSUME NEW w \in scope, Follows(st, scope, mode, w), LeaderOf(st, w) \in D
       PROVE  w \in D
  <2> DEFINE p == LeaderOf(st, w)
  <2>1. p # Root /\ w \in Windows
    BY <1>18 DEF Follows
  <2>2. rank[w] > rank[p] /\ rank[p] \in 1 .. n /\ rank[w] \in 1 .. n
    BY <1>5, <2>1
  <2>3. rank[p] <= n - 1 /\ n \in 1 .. n /\ n - 1 \in 0 .. n
    BY <1>1, <2>2
  <2>4. n - 1 \in P
    BY <1>17, <2>3
  <2>5. p \in DOMAIN g[n - 1]
    BY <1>18, <2>3, <2>4
  <2> QED BY <1>13, <1>18, <2>3, <2>5
<1> QED BY <1>3, <1>11, <1>12, <1>18 DEF Closed

-----------------------------------------------------------------------------
(* Where a window and its tree end *)

LEMMA ReverseOrder ==
    ASSUME NEW s \in Lists
    PROVE  /\ Reverse(s) \in Lists /\ ToSet(Reverse(s)) = ToSet(s)
           /\ Len(Reverse(s)) = Len(s)
           /\ \A v, w : Before(Reverse(s), v, w) <=> Before(s, w, v)
<1> DEFINE r == Reverse(s)
           n == Len(s)
<1>1. n \in Nat /\ DOMAIN s = 1 .. n /\ s \in Seq(Windows)
  BY EmptyList DEF Lists
<1>2. r = [i \in 1 .. n |-> s[(n - i) + 1]]
  BY DEF Reverse
<1> HIDE DEF r, n
<1>3. \A i \in 1 .. n : (n - i) + 1 \in 1 .. n /\ (n - ((n - i) + 1)) + 1 = i
  BY <1>1
<1>4. DOMAIN r = 1 .. n /\ \A i \in 1 .. n : r[i] = s[(n - i) + 1] /\ r[(n - i) + 1] = s[i]
  BY <1>2, <1>3
<1>5. r \in Seq(Windows) /\ Len(r) = n
  <2>1. \A i \in 1 .. n : s[(n - i) + 1] \in Windows
    BY <1>1, <1>3
  <2> QED BY <1>1, <1>2, <2>1
<1>6. ASSUME NEW i \in 1 .. n, NEW j \in 1 .. n, r[i] = r[j] PROVE i = j
  <2>1. s[(n - i) + 1] = s[(n - j) + 1]
    BY <1>4, <1>6
  <2>2. (n - i) + 1 = (n - j) + 1
    BY <1>1, <1>3, <2>1 DEF Lists
  <2> QED BY <1>1, <2>2
<1>7. r \in Lists
  BY <1>4, <1>5, <1>6 DEF Lists
<1>8. ToSet(r) = ToSet(s)
  <2>1. \A i \in 1 .. n : r[i] \in ToSet(s) /\ s[i] \in ToSet(r)
    BY <1>1, <1>3, <1>4 DEF ToSet
  <2> QED BY <1>1, <1>4, <2>1 DEF ToSet
<1>9. ASSUME NEW v, NEW w PROVE Before(r, v, w) <=> Before(s, w, v)
  <2>1. ASSUME Before(r, v, w) PROVE Before(s, w, v)
    <3>1. PICK i \in 1 .. n, j \in 1 .. n : i < j /\ r[i] = v /\ r[j] = w
      BY <1>4, <2>1 DEF Before
    <3>2. (n - j) + 1 < (n - i) + 1
      BY <1>1, <3>1
    <3> QED BY <1>1, <1>3, <1>4, <3>1, <3>2 DEF Before
  <2>2. ASSUME Before(s, w, v) PROVE Before(r, v, w)
    <3>1. PICK i \in 1 .. n, j \in 1 .. n : i < j /\ s[i] = w /\ s[j] = v
      BY <1>1, <2>2 DEF Before
    <3>2. (n - j) + 1 < (n - i) + 1
      BY <1>1, <3>1
    <3> QED BY <1>3, <1>4, <3>1, <3>2 DEF Before
  <2> QED BY <2>1, <2>2
<1> QED BY <1>5, <1>7, <1>8, <1>9 DEF r, n

Tree(st, t, mode, num) == MarkTransientSubtree(From(st, mode), num, t, Scope(st, t), mode)

(* The windows that RestackWindow moves, or finds in their place *)
Group(st, t, mode, num) ==
    IF MustMoveTransients(st, t, mode) THEN DOMAIN Tree(st, t, mode, num) ELSE {t}

(* The group is together, at the end of the layer that mode says, with t at its
   bottom and the others by their numbers. *)
Gathered(st, t, mode, num, order) ==
    LET group == Group(st, t, mode, num)
        tree  == Tree(st, t, mode, num)
    IN  /\ group \subseteq Scope(st, t) /\ t \in group
        /\ \A v \in Scope(st, t) \ group : \A w \in group :
              IF mode = "raise" THEN Before(order, w, v) ELSE Before(order, v, w)
        /\ \A v \in group \ {t} : Before(order, v, t)
        /\ \A v, w \in group \ {t} : Before(order, v, w) => tree[v] >= tree[w]

(* A tree that is straight is where it should be. *)
LEMMA StraightGathered ==
    ASSUME NEW st \in States, NEW t \in ToSet(st.ring), NEW mode \in {"raise", "lower"},
           NEW tree \in Trees, t \in DOMAIN tree, DOMAIN tree \subseteq Scope(st, t),
           IsStraight(st, tree, t, mode)
    PROVE  /\ \A v \in Scope(st, t) \ DOMAIN tree : \A w \in DOMAIN tree :
                 IF mode = "raise" THEN Before(st.ring, w, v) ELSE Before(st.ring, v, w)
           /\ \A v \in DOMAIN tree \ {t} : Before(st.ring, v, t)
           /\ \A v, w \in DOMAIN tree \ {t} : Before(st.ring, v, w) => tree[v] >= tree[w]
<1> DEFINE only == Only(st.ring, Scope(st, t))
           l    == Reverse(only)
           p    == Place(l, t)
           size == Cardinality(DOMAIN tree)
           last == p + size - 1
           rest == SubSeq(l, p, last)
<1>1. st.ring \in Lists /\ Scope(st, t) \subseteq ToSet(st.ring) /\ t \in Scope(st, t)
  BY DEF States, Scope, InLayer
<1>2. /\ only \in Lists /\ ToSet(only) = Scope(st, t)
      /\ \A v, w : Before(only, v, w) <=> /\ v \in Scope(st, t) /\ w \in Scope(st, t)
                                          /\ Before(st.ring, v, w)
  <2> DEFINE T == Scope(st, t)
  <2>1. /\ Only(st.ring, T) \in Lists /\ ToSet(Only(st.ring, T)) = ToSet(st.ring) \cap T
        /\ \A v, w : Before(Only(st.ring, T), v, w) <=> v \in T /\ w \in T /\ Before(st.ring, v, w)
    BY <1>1, OnlyOrder
  <2>2. ToSet(st.ring) \cap T = T
    BY <1>1
  <2> QED BY <2>1, <2>2
<1> HIDE DEF only
<1>3. /\ l \in Lists /\ ToSet(l) = Scope(st, t)
      /\ \A v, w \in Scope(st, t) : Before(l, v, w) <=> Before(st.ring, w, v)
  BY <1>2, ReverseOrder
<1>4. /\ mode = "lower" => p = 1
      /\ last <= Len(l)
      /\ mode = "raise" => last = Len(l)
      /\ ToSet(rest) = DOMAIN tree
      /\ \A i, j \in 2 .. size : i < j => tree[rest[i]] <= tree[rest[j]]
  BY DEF IsStraight, only, Scope
<1> HIDE DEF l
<1>5. Len(l) \in Nat /\ DOMAIN l = 1 .. Len(l) /\ l \in Seq(Windows)
  BY <1>3, EmptyList DEF Lists
<1>6. p \in 1 .. Len(l) /\ l[p] = t
  BY <1>1, <1>3, PlaceFacts
<1> HIDE DEF p
<1>7. size \in Nat /\ size # 0
  <2>1. IsFiniteSet(DOMAIN tree)
    BY Constants, FS_Subset DEF Trees
  <2>2. DOMAIN tree # {}
    OBVIOUS
  <2> QED BY <2>1, <2>2, FS_CardinalityType, FS_EmptySet
<1> HIDE DEF size
<1>8. last \in 1 .. Len(l) /\ p <= last
  BY <1>4, <1>5, <1>6, <1>7
<1>9. ToSet(rest) = {l[k] : k \in p .. last} /\ Len(rest) = size /\ rest \in Lists
  <2> DEFINE q == last
  <2>1. q \in 1 .. Len(l) /\ p <= q /\ q - p + 1 = size
    BY <1>5, <1>6, <1>7, <1>8
  <2> HIDE DEF q
  <2>2. /\ SubSeq(l, p, q) \in Lists /\ Len(SubSeq(l, p, q)) = q - p + 1
        /\ ToSet(SubSeq(l, p, q)) = {l[k] : k \in p .. q}
    BY <1>3, <1>6, <2>1, PieceOrder
  <2> QED BY <2>1, <2>2 DEF q
<1>10. \A i \in 1 .. size : p + i - 1 \in p .. last /\ rest[i] = l[p + i - 1]
  <2> DEFINE q == last
  <2>1. rest = [k \in 1 .. (q - p + 1) |-> l[p + k - 1]]
    BY <1>5, <1>6, <1>8
  <2>2. q - p + 1 = size
    BY <1>5, <1>6, <1>7
  <2> HIDE DEF q, rest
  <2>3. \A i \in 1 .. size : rest[i] = l[p + i - 1]
    BY <2>1, <2>2
  <2> QED BY <1>5, <1>6, <1>7, <2>3
<1> HIDE DEF rest
<1>11. \A w \in DOMAIN tree : \E k \in p .. last : w = l[k]
  BY <1>4, <1>9
<1>12. \A k \in p .. last : l[k] \in DOMAIN tree
  BY <1>4, <1>9
<1>13. ASSUME NEW v \in Scope(st, t) \ DOMAIN tree, NEW w \in DOMAIN tree
       PROVE  IF mode = "raise" THEN Before(st.ring, w, v) ELSE Before(st.ring, v, w)
  <2>1. PICK k \in p .. last : w = l[k]
    BY <1>11
  <2>2. PICK i \in 1 .. Len(l) : v = l[i]
    BY <1>3, <1>5 DEF ToSet
  <2>3. i \notin p .. last
    BY <1>12, <2>2
  <2>4. k \in 1 .. Len(l)
    BY <1>5, <1>6, <1>8, <2>1
  <2>5. IF mode = "raise" THEN i < k ELSE k < i
    BY <1>4, <1>5, <1>6, <1>8, <2>1, <2>2, <2>3
  <2>6. IF mode = "raise" THEN Before(l, v, w) ELSE Before(l, w, v)
    BY <1>5, <2>1, <2>2, <2>4, <2>5 DEF Before
  <2> QED BY <1>3, <2>6
<1>14. ASSUME NEW v \in DOMAIN tree \ {t} PROVE Before(st.ring, v, t)
  <2>1. PICK k \in p .. last : v = l[k]
    BY <1>11
  <2>2. k # p /\ k \in 1 .. Len(l)
    BY <1>5, <1>6, <1>8, <2>1
  <2>3. p < k
    BY <1>6, <1>8, <2>1, <2>2
  <2>4. Before(l, t, v)
    BY <1>5, <1>6, <2>1, <2>2, <2>3 DEF Before
  <2> QED BY <1>1, <1>3, <2>4
<1>15. ASSUME NEW v \in DOMAIN tree \ {t}, NEW w \in DOMAIN tree \ {t}, Before(st.ring, v, w)
       PROVE  tree[v] >= tree[w]
  <2>1. PICK k \in p .. last : v = l[k]
    BY <1>11
  <2>2. PICK m \in p .. last : w = l[m]
    BY <1>11
  <2>3. Before(l, w, v)
    BY <1>3, <1>15
  <2>4. m # p /\ k # p /\ m \in 1 .. Len(l) /\ k \in 1 .. Len(l)
    BY <1>5, <1>6, <1>8, <2>1, <2>2
  <2>5. m < k
    <3>1. PICK i \in 1 .. Len(l), j \in 1 .. Len(l) : i < j /\ l[i] = w /\ l[j] = v
      BY <1>5, <2>3 DEF Before
    <3>2. i = m /\ j = k
      BY <1>3, <1>5, <2>1, <2>2, <2>4, <3>1 DEF Lists
    <3> QED BY <3>1, <3>2
  <2> DEFINE i == m - p + 1
             j == k - p + 1
  <2>6. /\ i \in 2 .. size /\ j \in 2 .. size /\ i < j
        /\ p + i - 1 = m /\ p + j - 1 = k
    BY <1>5, <1>6, <1>7, <1>8, <2>1, <2>2, <2>4, <2>5
  <2> HIDE DEF i, j
  <2>7. rest[i] = w /\ rest[j] = v
    <3>1. i \in 1 .. size /\ j \in 1 .. size
      BY <1>7, <2>6
    <3> QED BY <1>10, <2>1, <2>2, <2>6, <3>1
  <2>8. tree[w] <= tree[v]
    BY <1>4, <2>6, <2>7
  <2>9. tree[w] \in Int /\ tree[v] \in Int
    BY DEF Trees
  <2> QED BY <2>8, <2>9
<1> QED BY <1>13, <1>14, <1>15

(* A window that is placed has no other of its layer beyond it. *)
LEMMA PlacedEnds ==
    ASSUME NEW st \in States, NEW t \in ToSet(st.ring), NEW mode \in {"raise", "lower"},
           Sorted(st.ring, st.layer), IsPlaced(st, t, mode), NEW v \in Scope(st, t) \ {t}
    PROVE  IF mode = "raise" THEN Before(st.ring, t, v) ELSE Before(st.ring, v, t)
<1>1. /\ st.ring \in Lists /\ v \in ToSet(st.ring) /\ st.layer[v] = st.layer[t]
      /\ ToSet(st.ring) \subseteq Windows
  BY EmptyList DEF States, Scope, InLayer
<1>2. Before(st.ring, t, v) \/ Before(st.ring, v, t)
  BY <1>1, OrderFacts
<1>3. CASE mode = "raise"
  <2> SUFFICES ASSUME Before(st.ring, v, t) PROVE FALSE
    BY <1>2, <1>3
  <2> DEFINE p == PrevIn(st.ring, t)
  <2>1. p = Root \/ st.layer[p] # st.layer[t]
    BY <1>3 DEF IsPlaced
  <2>2. /\ p \in (ToSet(st.ring) \ {t}) \cup {Root} /\ p # Root
        /\ \A u : Before(st.ring, u, t) <=> u = p \/ Before(st.ring, u, p)
    BY <1>1, PrevOrder
  <2> HIDE DEF p
  <2>3. Before(st.ring, p, t) /\ (v = p \/ Before(st.ring, v, p))
    BY <2>2
  <2>4. st.layer[v] >= st.layer[p] /\ st.layer[p] >= st.layer[t]
    <3>1. st.layer[v] \in Int
      BY <1>1, LayerType
    <3> QED BY <2>3, <3>1 DEF Sorted
  <2> QED BY <1>1, <2>1, <2>2, <2>4, LayerType
<1>4. CASE mode = "lower"
  <2> SUFFICES ASSUME Before(st.ring, t, v) PROVE FALSE
    BY <1>2, <1>4
  <2> DEFINE p == NextIn(st.ring, t)
  <2>1. p = Root \/ st.layer[p] # st.layer[t]
    BY <1>4 DEF IsPlaced
  <2>2. /\ p \in (ToSet(st.ring) \ {t}) \cup {Root}
        /\ p # Root => Before(st.ring, t, p)
        /\ Ahead(st.ring, v, p) <=> v = t \/ Before(st.ring, v, t)
    BY <1>1, NextOrder
  <2> HIDE DEF p
  <2>3. ~Ahead(st.ring, v, p)
    BY <1>1, <2>2, OrderFacts
  <2>4. p # Root /\ (v = p \/ Before(st.ring, p, v)) /\ Before(st.ring, t, p)
    BY <1>1, <2>2, <2>3, OrderFacts DEF Ahead
  <2>5. st.layer[p] >= st.layer[v] /\ st.layer[t] >= st.layer[p]
    <3>1. st.layer[v] \in Int
      BY <1>1, LayerType
    <3> QED BY <2>4, <3>1 DEF Sorted
  <2> QED BY <1>1, <2>1, <2>2, <2>4, <2>5, LayerType
<1> QED BY <1>3, <1>4

LEMMA TreeInScope ==
    ASSUME NEW st \in States, NEW t \in ToSet(st.ring), NEW mode \in {"raise", "lower"},
           NEW num \in [Windows -> Int]
    PROVE  /\ Tree(st, t, mode, num) \in Trees /\ t \in DOMAIN Tree(st, t, mode, num)
           /\ DOMAIN Tree(st, t, mode, num) \subseteq Scope(st, t)
<1> DEFINE from == From(st, mode)
           scope == Scope(st, t)
<1>1. from \in States /\ ~from.marks.keep
  BY FromType
<1> HIDE DEF from
<1>2. scope \in SUBSET Windows /\ t \in scope /\ t \in Windows
  BY EmptyList DEF States, Scope, InLayer
<1> HIDE DEF scope
<1> DEFINE tree == MarkTransientSubtree(from, num, t, scope, mode)
<1>3. /\ tree \in Trees /\ t \in DOMAIN tree
      /\ \A F \in SUBSET Windows : Encloses(from, t, scope, F) => DOMAIN tree \subseteq F
  BY <1>1, <1>2, TreeFacts
<1> HIDE DEF tree
<1>4. Encloses(from, t, scope, scope)
  BY <1>1, <1>2 DEF Encloses
<1>5. DOMAIN tree \subseteq scope
  BY <1>2, <1>3, <1>4
<1> QED BY <1>3, <1>5 DEF tree, from, scope, Tree

LEMMA RestackGathers ==
    ASSUME NEW st \in States, NEW t \in ToSet(st.ring), NEW mode \in {"raise", "lower"},
           NEW num \in [Windows -> Int], Sorted(st.ring, st.layer)
    PROVE  Gathered(st, t, mode, num, RestackWindow(st, t, mode, num).ring)
<1> DEFINE scope == Scope(st, t)
           moves == MustMoveTransients(st, t, mode)
           from == From(st, mode)
           tree == Tree(st, t, mode, num)
           keep == [keep |-> TRUE, tree |-> DOMAIN tree, leader |-> Leaders(from, scope)]
           movers == IF moves THEN DOMAIN tree \ {t} ELSE {}
           rest == Without(st.ring, movers)
           sorted == SortTransientRing(Only(st.ring, movers), tree)
           list == Append(sorted, t)
           s == InsertBeforeWindow(st, rest, t, mode)
           marked == [st EXCEPT !.marks = keep]
           cleared == [st EXCEPT !.marks = IF moves THEN NoMarks ELSE st.marks]
           out == RestackWindow(st, t, mode, num)
           group == IF moves THEN DOMAIN tree ELSE {t}
           l == st.layer[t]
<1>1. /\ st.ring \in Lists /\ t \in Windows /\ ToSet(st.ring) \subseteq Windows
      /\ st.marks \in Marks /\ l \in Int
  BY EmptyList, LayerType DEF States
<1>2. scope \in SUBSET Windows /\ t \in scope /\ scope \subseteq ToSet(st.ring)
  BY <1>1 DEF Scope, InLayer
<1>3. out = IF ~moves /\ IsPlaced(st, t, mode) THEN st
            ELSE IF moves /\ IsStraight(st, tree, t, mode)
            THEN BroadcastRestack(marked, PrevIn(st.ring, t), NextIn(st.ring, t))
            ELSE RestackWindowList(cleared, list, s, mode = "lower")
  BY DEF RestackWindow, Scope, From, Tree
<1>4. tree \in Trees /\ t \in DOMAIN tree /\ DOMAIN tree \subseteq scope
  BY TreeInScope
<1>5. group \subseteq scope /\ t \in group
  BY <1>2, <1>4
<1>6. SUFFICES /\ \A v \in scope \ group : \A w \in group :
                     IF mode = "raise" THEN Before(out.ring, w, v) ELSE Before(out.ring, v, w)
               /\ \A v \in group \ {t} : Before(out.ring, v, t)
               /\ \A v, w \in group \ {t} : Before(out.ring, v, w) => tree[v] >= tree[w]
  BY <1>5 DEF Gathered, Group
<1>7. movers \subseteq DOMAIN tree /\ t \notin movers /\ movers = group \ {t}
  BY <1>4
<1>8. from \in States
  BY FromType
<1> HIDE DEF from, tree, out
<1>9. keep \in Marks
  <2>1. Leaders(from, scope) \in [Windows -> Windows \cup {Root}]
    BY <1>8, LeadersType
  <2>2. DOMAIN tree \subseteq Windows
    BY <1>2, <1>4
  <2> QED BY <2>1, <2>2 DEF Marks
<1> HIDE DEF keep, l
<1>10. CASE ~moves /\ IsPlaced(st, t, mode)
  <2>1. out = st /\ group = {t}
    BY <1>3, <1>10
  <2>2. \A v \in scope \ {t} : IF mode = "raise" THEN Before(st.ring, t, v)
                                                 ELSE Before(st.ring, v, t)
    BY <1>10, PlacedEnds
  <2> QED BY <2>1, <2>2
<1>11. CASE moves /\ IsStraight(st, tree, t, mode)
  <2>1. out = BroadcastRestack(marked, PrevIn(st.ring, t), NextIn(st.ring, t))
    BY <1>3, <1>11
  <2>2. marked \in States /\ marked.ring = st.ring
    BY <1>9, MarksKept
  <2> HIDE DEF marked
  <2>3. Spans(marked, PrevIn(st.ring, t), NextIn(st.ring, t))
    BY <2>2, AroundSpans
  <2>4. ViewChanges(marked, out)
    BY <2>1, <2>2, <2>3, Told
  <2>5. out.ring = st.ring
    BY <2>2, <2>4, ViewKept
  <2> HIDE DEF moves
  <2> QED BY <1>4, <1>11, <2>5, StraightGathered
<1>12. CASE ~(~moves /\ IsPlaced(st, t, mode)) /\ ~(moves /\ IsStraight(st, tree, t, mode))
  <2> DEFINE W == Without(st.ring, ToSet(list))
             only == Only(st.ring, movers)
  <2> HIDE DEF moves, movers, group
  <2>1. out = RestackWindowList(cleared, list, s, mode = "lower")
    BY <1>3, <1>12
  <2>2. cleared \in States /\ cleared.ring = st.ring
    <3>1. (IF moves THEN NoMarks ELSE st.marks) \in Marks
      BY <1>1, NoMarksType
    <3> QED BY <3>1, MarksKept
  <2> HIDE DEF cleared
  <2>6. only \in Lists /\ ToSet(only) = ToSet(st.ring) \cap movers
    BY <1>1, OnlyOrder
  <2>7. /\ sorted \in Lists /\ ToSet(sorted) = movers
        /\ \A v, w : Before(sorted, v, w) => tree[v] >= tree[w]
    <3>1. ToSet(only) \subseteq DOMAIN tree /\ ToSet(only) = movers
      BY <1>2, <1>4, <1>7, <2>6
    <3> QED BY <1>4, <2>6, <3>1, SortFacts
  <2> HIDE DEF sorted, only
  <2>3. /\ list \in Lists /\ ToSet(list) = movers \cup {t}
        /\ \A v, w : Before(list, v, w) <=> Before(sorted, v, w) \/ (v \in movers /\ w = t)
    BY <1>1, <1>7, <2>7, AppendOrder
  <2>4. ToSet(list) = group /\ list # <<>>
    <3>1. ToSet(list) # {}
      BY <2>3
    <3> QED BY <1>5, <1>7, <2>3, <3>1, EmptyList
  <2>5. s \in ToSet(Without(st.ring, movers \cup {t})) \cup {Root}
    BY <1>7, PlaceToInsert DEF Modes
  <2>9. /\ W \in Lists /\ ToSet(W) = ToSet(st.ring) \ ToSet(list)
        /\ \A v, w : Before(W, v, w) <=> /\ v \notin ToSet(list) /\ w \notin ToSet(list)
                                         /\ Before(st.ring, v, w)
    BY <1>1, WithoutOrder
  <2>10. W = Without(st.ring, movers \cup {t})
    BY <2>3 DEF Without
  <2>11. Movable(cleared, list, s)
    BY <1>2, <1>5, <2>2, <2>4, <2>5, <2>9, <2>10 DEF Movable
  <2> HIDE DEF list
  <2>12. s = CASE mode = "raise" -> FirstAtMost(st, rest, t, l)
               [] mode = "lower" -> FirstAtMost(st, rest, t, l - 1)
    BY DEF InsertBeforeWindow, l
  <2> HIDE DEF s
  <2>13. ListMoved(cleared, list, s, out)
    BY <2>1, <2>2, <2>3, <2>11, ListRestacked
  <2>14. out.ring = PutBefore(W, list, s)
    <3>1. out = [cleared EXCEPT !.ring = PutBefore(Without(cleared.ring, ToSet(list)), list, s),
                                !.x = out.x, !.view = out.view]
      BY <2>13 DEF ListMoved
    <3> HIDE DEF W
    <3>2. out.ring = PutBefore(Without(cleared.ring, ToSet(list)), list, s)
      BY <2>2, <3>1 DEF States
    <3> QED BY <2>2, <3>2 DEF W
  <2> HIDE DEF W
  <2>15. ToSet(W) \cap ToSet(list) = {} /\ s \in ToSet(W) \cup {Root}
    BY <2>5, <2>9, <2>10
  <2>16. \A v, w : Before(out.ring, v, w) <=>
                          \/ Before(W, v, w) \/ Before(list, v, w)
                          \/ (v \in ToSet(W) /\ w \in ToSet(list) /\ Ahead(W, v, s))
                          \/ (v \in ToSet(list) /\ w \in ToSet(W) /\ ~Ahead(W, w, s))
    BY <2>3, <2>9, <2>14, <2>15, PutBeforeOrder
  <2>17. /\ rest \in Lists /\ ToSet(rest) = ToSet(st.ring) \ movers
         /\ \A v, w : Before(rest, v, w) <=> /\ v \notin movers /\ w \notin movers
                                             /\ Before(st.ring, v, w)
    BY <1>1, WithoutOrder
  <2> HIDE DEF rest
  <2>18. ASSUME NEW v \in scope \ group, NEW w \in group
         PROVE  IF mode = "raise" THEN Before(out.ring, w, v) ELSE Before(out.ring, v, w)
    <3>1. v \in ToSet(W) /\ v \in ToSet(rest) \ {t} /\ v \notin group /\ st.layer[v] = l
      BY <1>2, <1>5, <1>7, <2>4, <2>9, <2>17 DEF scope, Scope, InLayer, l
    <3>2. Ahead(W, v, s) <=> Ahead(rest, v, s)
      BY <1>7, <2>4, <2>9, <2>15, <2>17, <3>1 DEF Ahead
    <3>3. CASE mode = "raise"
      <4>1. s = FirstAtMost(st, rest, t, l)
        BY <2>12, <3>3
      <4>2. Ahead(rest, v, s) => ~(st.layer[v] <= l)
        BY <2>17, <3>1, <4>1, FirstOrder
      <4>3. ~Ahead(W, v, s)
        BY <1>1, <3>1, <3>2, <4>2
      <4> QED BY <2>4, <2>16, <3>1, <3>3, <4>3
    <3>4. CASE mode = "lower"
      <4>1. s = FirstAtMost(st, rest, t, l - 1)
        BY <2>12, <3>4
      <4>2. s # Root => st.layer[s] <= l - 1
        BY <2>17, <4>1, FirstOrder
      <4>3. Ahead(W, v, s)
        <5> SUFFICES ASSUME ~Ahead(W, v, s) PROVE FALSE
          OBVIOUS
        <5>1. s # Root /\ s \in ToSet(W) /\ (v = s \/ Before(W, s, v))
          BY <2>9, <2>15, <3>1, OrderFacts DEF Ahead
        <5>2. st.layer[s] >= st.layer[v]
          <6>1. CASE v = s
            BY <1>1, <3>1, <6>1
          <6>2. CASE Before(W, s, v)
            BY <2>9, <6>2 DEF Sorted
          <6> QED BY <5>1, <6>1, <6>2
        <5>3. st.layer[s] \in Int
          BY <1>1, <2>9, <5>1, LayerType
        <5> QED BY <1>1, <3>1, <4>2, <5>1, <5>2, <5>3
      <4> QED BY <2>4, <2>16, <3>1, <3>4, <4>3
    <3> QED BY <3>3, <3>4
  <2>19. ASSUME NEW v \in group \ {t} PROVE Before(out.ring, v, t)
    BY <1>7, <2>3, <2>16
  <2>20. ASSUME NEW v \in group \ {t}, NEW w \in group \ {t}, Before(out.ring, v, w)
         PROVE  tree[v] >= tree[w]
    <3>1. ~Before(W, v, w) /\ v \notin ToSet(W) /\ w \notin ToSet(W)
      BY <2>4, <2>9
    <3>2. Before(list, v, w)
      BY <2>16, <2>20, <3>1
    <3>3. Before(sorted, v, w)
      BY <2>3, <3>2
    <3> QED BY <2>7, <3>3
  <2> QED BY <2>18, <2>19, <2>20
<1> QED BY <1>10, <1>11, <1>12

-----------------------------------------------------------------------------
(* The windows that RaiseOrLower may move before t *)

LEMMA ChainFacts ==
    ASSUME NEW st \in States, NEW t \in ToSet(st.ring)
    PROVE  LET up == StackParents(st, t)
           IN  /\ up \in Seq(Windows) /\ Len(up) \in Nat \ {0} /\ DOMAIN up = 1 .. Len(up)
               /\ up[1] = t
               /\ \A i \in 1 .. Len(up) : /\ up[i] \in Scope(st, t) /\ up[i] \in ToSet(st.ring)
                                          /\ up[i] \in ToSet(up)
               /\ \A i \in 1 .. Len(up) - 1 :
                     /\ up[i + 1] = LeaderOf(st, up[i]) /\ up[i + 1] # Root
                     /\ up[i] \notin st.iconic /\ up[i + 1] \notin st.iconic
                     /\ up[i] \in StackTransientParent /\ st.hint[up[i]] = up[i + 1]
<1> DEFINE up == StackParents(st, t)
<1>1. ToSet(st.ring) \subseteq Windows /\ t \in Windows
  BY EmptyList DEF States
<1>2. up \in Seq(Windows) /\ up # <<>> /\ Chain(st, t, up)
  BY <1>1, ParentsFacts DEF MovesWith, StackParent, LeaderOf
<1>3. \A w \in ToSet(up) : w \in Scope(st, t)
  BY ParentsPlace
<1> HIDE DEF up
<1>4. Len(up) \in Nat \ {0} /\ DOMAIN up = 1 .. Len(up)
  BY <1>2
<1>5. \A i \in 1 .. Len(up) : up[i] \in ToSet(up)
  BY <1>4 DEF ToSet
<1>6. \A i \in 1 .. Len(up) : up[i] \in Scope(st, t) /\ up[i] \in ToSet(st.ring)
  BY <1>3, <1>5 DEF Scope, InLayer
<1>7. ASSUME NEW i \in 1 .. Len(up) - 1
      PROVE  /\ up[i + 1] = LeaderOf(st, up[i]) /\ up[i + 1] # Root
             /\ up[i] \notin st.iconic /\ up[i + 1] \notin st.iconic
             /\ up[i] \in StackTransientParent /\ st.hint[up[i]] = up[i + 1]
  <2>1. up[i + 1] = StackParent(st, up[i]) /\ up[i + 1] # Root
    BY <1>2 DEF Chain
  <2>2. /\ StackParent(st, up[i]) = LeaderOf(st, up[i])
        /\ up[i] \in StackTransientParent \ st.iconic /\ LeaderOf(st, up[i]) \notin st.iconic
    BY <2>1 DEF StackParent
  <2> QED BY <2>1, <2>2 DEF LeaderOf
<1> QED BY <1>2, <1>4, <1>5, <1>6, <1>7 DEF Chain, up

(* The chain leads to windows of lower rank, and so meets none of them twice. *)
LEMMA ChainFalls ==
    ASSUME NEW st \in States, NEW t \in ToSet(st.ring), NEW rank, Ranked(st, rank)
    PROVE  LET up == StackParents(st, t)
           IN  /\ \A i, j \in 1 .. Len(up) : i < j => rank[up[i]] > rank[up[j]]
               /\ \A i, j \in 1 .. Len(up) : up[i] = up[j] => i = j
<1> DEFINE up == StackParents(st, t)
           n == Len(up)
<1>1. /\ up \in Seq(Windows) /\ n \in Nat \ {0} /\ DOMAIN up = 1 .. n
      /\ \A i \in 1 .. n - 1 : up[i + 1] = LeaderOf(st, up[i]) /\ up[i + 1] # Root
  BY ChainFacts
<1> HIDE DEF n, up
<1>2. /\ rank \in [Windows -> 1 .. Cardinality(Windows)] /\ Cardinality(Windows) \in Nat
      /\ \A v \in Windows : LeaderOf(st, v) # Root => rank[v] > rank[LeaderOf(st, v)]
  BY Constants, FS_CardinalityType DEF Ranked
<1>3. \A i \in 1 .. n : up[i] \in Windows /\ rank[up[i]] \in Int
  BY <1>1, <1>2
<1>4. \A i \in 1 .. n - 1 : rank[up[i]] > rank[up[i + 1]]
  <2> SUFFICES ASSUME NEW i \in 1 .. n - 1 PROVE rank[up[i]] > rank[up[i + 1]]
    OBVIOUS
  <2>1. i \in 1 .. n
    BY <1>1
  <2> QED BY <1>1, <1>2, <1>3, <2>1
<1>5. ASSUME NEW i \in 1 .. n, NEW j \in 1 .. n, i < j PROVE rank[up[i]] > rank[up[j]]
  <2> DEFINE P == {k \in 0 .. n : i < k => rank[up[i]] > rank[up[k]]}
  <2>1. 0 \in P
    BY <1>1
  <2>2. ASSUME NEW k \in 1 .. n, k - 1 \in P PROVE k \in P
    <3> SUFFICES ASSUME i < k PROVE rank[up[i]] > rank[up[k]]
      BY <1>1
    <3>1. k - 1 \in 1 .. n - 1 /\ k - 1 \in 1 .. n /\ (k - 1) + 1 = k
      BY <1>1
    <3>2. rank[up[k - 1]] > rank[up[k]]
      BY <1>4, <3>1
    <3>3. k - 1 = i \/ rank[up[i]] > rank[up[k - 1]]
      BY <2>2
    <3> QED BY <1>3, <3>1, <3>2, <3>3
  <2> HIDE DEF P
  <2>3. 0 .. n \subseteq P
    BY <1>1, <2>1, <2>2, UpTo
  <2>4. j \in P
    BY <1>1, <2>3
  <2> QED BY <1>5, <2>4 DEF P
<1>6. ASSUME NEW i \in 1 .. n, NEW j \in 1 .. n, up[i] = up[j] PROVE i = j
  <2> SUFFICES ASSUME i # j PROVE FALSE
    OBVIOUS
  <2>1. i < j \/ j < i
    BY <1>1
  <2> QED BY <1>3, <1>5, <1>6, <2>1
<1> QED BY <1>5, <1>6 DEF up, n

(* What each step does *)
LEMMA ChainSteps ==
    ASSUME NEW st \in States, HintsMayBe(st.hint), NEW t \in ToSet(st.ring), NEW mode
    PROVE  LET up == StackParents(st, t)
           IN  \A i \in 1 .. Len(up) : \A s :
                  OneStep(st, t, mode, up[i], s) =
                     IF i # Len(up) /\ MovesTransients(up[i + 1], mode) THEN s
                     ELSE RestackWindow(s, up[i], mode, Numbers(st, t, mode))
<1> DEFINE up == StackParents(st, t)
           n == Len(up)
<1>1. up \in Seq(Windows) /\ n \in Nat \ {0} /\ DOMAIN up = 1 .. n
  BY ChainFacts
<1>2. PICK rank : Ranked(st, rank)
  BY RankExists
<1>3. \A i, j \in 1 .. n : up[i] = up[j] => i = j
  BY <1>2, ChainFalls
<1> HIDE DEF up, n
<1>4. ASSUME NEW i \in 1 .. n
      PROVE  (up[i] # Last(up) <=> i # n) /\ Place(up, up[i]) = i
  <2>1. Last(up) = up[n] /\ n \in 1 .. n
    BY <1>1 DEF Last, n
  <2>2. Place(up, up[i]) = i
    BY <1>1, <1>3 DEF Place
  <2> QED BY <1>3, <2>1, <2>2
<1> QED BY <1>4 DEF OneStep, up, n

(* The last window that is moved itself; t is moved with it. *)
LastMoved(st, t, mode, j, s) ==
    LET up == StackParents(st, t)
    IN  /\ j \in 1 .. Len(up) /\ s \in States /\ ChainMoved(st, t, mode, s)
        /\ \A i \in 1 .. j - 1 : MovesTransients(up[i + 1], mode)
        /\ RaiseOrLower(st, t, mode) = RestackWindow(s, up[j], mode, Numbers(st, t, mode))

LEMMA LastMove ==
    ASSUME NEW st \in States, HintsMayBe(st.hint), NEW t \in ToSet(st.ring), NEW mode \in Modes
    PROVE  \E j, s : LastMoved(st, t, mode, j, s)
<1> DEFINE up == StackParents(st, t)
           n == Len(up)
           num == Numbers(st, t, mode)
<1>1. n \in Nat \ {0}
  BY ChainFacts
<1>2. PICK done : StepsTaken(st, t, mode, done)
  BY RaiseOrLowerSteps
<1>3. /\ \A i \in 1 .. n : done[i] = OneStep(st, t, mode, up[n - i + 1], done[i - 1])
      /\ \A i \in 0 .. n : done[i] \in States /\ ChainMoved(st, t, mode, done[i])
      /\ RaiseOrLower(st, t, mode) = done[n]
  BY <1>2 DEF StepsTaken
<1>4. \A i \in 1 .. n : \A s :
         OneStep(st, t, mode, up[i], s) = IF i # n /\ MovesTransients(up[i + 1], mode) THEN s
                                          ELSE RestackWindow(s, up[i], mode, num)
  BY ChainSteps
<1> HIDE DEF up, n, num
<1> DEFINE Found(i, j, s) ==
              /\ j \in n - i + 1 .. n /\ s \in States /\ ChainMoved(st, t, mode, s)
              /\ \A k \in n - i + 1 .. j - 1 : MovesTransients(up[k + 1], mode)
              /\ done[i] = RestackWindow(s, up[j], mode, num)
           P == {i \in 0 .. n : i = 0 \/ \E j, s : Found(i, j, s)}
<1>5. 0 \in P
  BY <1>1
<1>6. ASSUME NEW i \in 1 .. n, i - 1 \in P PROVE i \in P
  <2> DEFINE k == n - i + 1
  <2>1. k \in 1 .. n /\ i \in 0 .. n /\ i - 1 \in 0 .. n /\ (k = n <=> i = 1)
    BY <1>1
  <2>2. done[i] = OneStep(st, t, mode, up[k], done[i - 1])
    BY <1>3
  <2>3. CASE k # n /\ MovesTransients(up[k + 1], mode)
    <3>1. done[i] = done[i - 1]
      BY <1>4, <2>1, <2>2, <2>3
    <3>2. PICK j, s : Found(i - 1, j, s)
      BY <1>6, <2>1, <2>3
    <3>3. n - (i - 1) + 1 = k + 1
      BY <1>1
    <3>4. j \in k + 1 .. n /\ \A m \in k + 1 .. j - 1 : MovesTransients(up[m + 1], mode)
      BY <3>2, <3>3
    <3>5. j \in k .. n /\ \A m \in k .. j - 1 : MovesTransients(up[m + 1], mode)
      <4>1. \A m \in k .. j - 1 : m = k \/ m \in k + 1 .. j - 1
        BY <2>1, <3>4
      <4> QED BY <2>1, <2>3, <3>4, <4>1
    <3>6. Found(i, j, s)
      BY <3>1, <3>2, <3>5
    <3> QED BY <2>1, <3>6
  <2>4. CASE ~(k # n /\ MovesTransients(up[k + 1], mode))
    <3>1. done[i] = RestackWindow(done[i - 1], up[k], mode, num)
      BY <1>4, <2>1, <2>2, <2>4
    <3>2. k \in k .. n /\ \A m \in k .. k - 1 : FALSE
      BY <2>1
    <3>3. done[i - 1] \in States /\ ChainMoved(st, t, mode, done[i - 1])
      BY <1>3, <2>1
    <3>4. Found(i, k, done[i - 1])
      BY <3>1, <3>2, <3>3
    <3> QED BY <2>1, <3>4
  <2> QED BY <2>3, <2>4
<1>7. 0 .. n \subseteq P
  <2> HIDE DEF P
  <2> QED BY <1>1, <1>5, <1>6, UpTo
<1>8. PICK j, s : Found(n, j, s)
  <2> HIDE DEF Found
  <2>1. n \in P /\ n # 0
    BY <1>1, <1>7
  <2> QED BY <2>1
<1>9. n - n + 1 = 1
  BY <1>1
<1> QED BY <1>3, <1>8, <1>9 DEF LastMoved, up, n, num

-----------------------------------------------------------------------------
(* Where a window ends that is raised or lowered *)

LEMMA TreeIsGrown ==
    ASSUME NEW st \in States, HintsMayBe(st.hint), NEW t \in ToSet(st.ring),
           NEW mode \in {"raise", "lower"}, NEW num \in [Windows -> Int]
    PROVE  /\ Grown(st, num, t, Scope(st, t), mode, Tree(st, t, mode, num))
           /\ Closed(st, Scope(st, t), mode, DOMAIN Tree(st, t, mode, num))
<1> DEFINE from == From(st, mode)
           scope == Scope(st, t)
           tree == Tree(st, t, mode, num)
<1>1. /\ from \in States /\ ~from.marks.keep /\ from.ring = st.ring
      /\ from.hint = st.hint /\ from.iconic = st.iconic
  BY FromType
<1>2. scope \in SUBSET Windows /\ t \in Windows
  BY EmptyList DEF States, Scope, InLayer
<1>3. tree = MarkTransientSubtree(from, num, t, scope, mode)
  BY DEF Tree
<1> HIDE DEF from, scope, tree
<1>4. Grown(from, num, t, scope, mode, tree) /\ Closed(from, scope, mode, DOMAIN tree)
  BY <1>1, <1>2, <1>3, TreeShape
<1>5. /\ \A w : LeaderOf(from, w) = LeaderOf(st, w)
      /\ \A w : Follows(from, scope, mode, w) <=> Follows(st, scope, mode, w)
  BY <1>1 DEF LeaderOf, Follows
<1>6. Grown(st, num, t, scope, mode, tree)
  BY <1>4, <1>5 DEF Grown
<1>7. Closed(st, scope, mode, DOMAIN tree)
  BY <1>4, <1>5 DEF Closed
<1> QED BY <1>6, <1>7 DEF tree, scope

LEMMA NumbersFacts ==
    ASSUME NEW st \in States, NEW t \in ToSet(st.ring), NEW mode
    PROVE  LET up == StackParents(st, t)
               num == Numbers(st, t, mode)
           IN  /\ num \in [Windows -> Int]
               /\ mode = "raise" => \A i \in 1 .. Len(up) - 1 : num[up[i]] = BranchBonus
               /\ \A w \in Windows : (\A i \in 1 .. Len(up) - 1 : w # up[i]) => num[w] = 0
<1> DEFINE up == StackParents(st, t)
           num == Numbers(st, t, mode)
           n == Len(up)
<1>1. up \in Seq(Windows) /\ n \in Nat \ {0} /\ DOMAIN up = 1 .. n
  BY ChainFacts
<1> HIDE DEF up
<1>2. ToSet(Front(up)) = {up[i] : i \in 1 .. n - 1}
  <2>1. /\ DOMAIN SubSeq(up, 1, n - 1) = 1 .. n - 1
        /\ \A d \in 1 .. n - 1 : SubSeq(up, 1, n - 1)[d] = up[d]
    BY <1>1, FrontFacts
  <2> QED BY <2>1 DEF Front, ToSet
<1>3. \A w \in Windows : num[w] \in Int
  BY DEF Numbers, LowerPenalty, BranchBonus
<1>4. num \in [Windows -> Int]
  BY <1>3 DEF Numbers
<1>5. ASSUME mode = "raise", NEW i \in 1 .. n - 1 PROVE num[up[i]] = BranchBonus
  <2>1. up[i] \in Windows /\ up[i] \in ToSet(Front(up))
    BY <1>1, <1>2
  <2> QED BY <1>5, <2>1 DEF Numbers, up
<1>6. ASSUME NEW w \in Windows, \A i \in 1 .. n - 1 : w # up[i] PROVE num[w] = 0
  <2>1. w \notin ToSet(Front(up))
    BY <1>2, <1>6
  <2> QED BY <2>1 DEF Numbers, up
<1> QED BY <1>4, <1>5, <1>6 DEF up, n, num

(* The window that is raised or lowered is moved with the last that is moved itself. *)
LEMMA MovedAlong ==
    ASSUME NEW st \in States, HintsMayBe(st.hint), NEW t \in ToSet(st.ring),
           NEW mode \in {"raise", "lower"}, NEW j, NEW s, LastMoved(st, t, mode, j, s)
    PROVE  LET up == StackParents(st, t)
               num == Numbers(st, t, mode)
           IN  /\ up[j] \in ToSet(s.ring) /\ Scope(s, up[j]) = Scope(st, t)
               /\ \A i \in 1 .. j : up[i] \in Group(s, up[j], mode, num)
               /\ j # 1 => MustMoveTransients(s, up[j], mode)
<1> DEFINE up == StackParents(st, t)
           n == Len(up)
           num == Numbers(st, t, mode)
           a == up[j]
           scope == Scope(s, a)
           tree == Tree(s, a, mode, num)
<1>1. /\ j \in 1 .. n /\ s \in States /\ Kept(st, s)
      /\ \A i \in 1 .. j - 1 : MovesTransients(up[i + 1], mode)
  BY DEF LastMoved, ChainMoved
<1>2. /\ n \in Nat \ {0}
      /\ \A i \in 1 .. n : up[i] \in Scope(st, t) /\ up[i] \in ToSet(st.ring)
      /\ \A i \in 1 .. n - 1 :
            /\ up[i + 1] = LeaderOf(st, up[i]) /\ up[i + 1] # Root
            /\ up[i] \notin st.iconic /\ up[i + 1] \notin st.iconic
            /\ st.hint[up[i]] = up[i + 1]
  BY ChainFacts
<1>3. /\ s.layer = st.layer /\ s.hint = st.hint /\ s.iconic = st.iconic
      /\ ToSet(s.ring) = ToSet(st.ring)
  BY <1>1 DEF Kept
<1>4. num \in [Windows -> Int]
  BY NumbersFacts
<1> HIDE DEF up, n, num
<1>5. a \in ToSet(s.ring)
  BY <1>1, <1>2, <1>3
<1>6. scope = Scope(st, t)
  BY <1>1, <1>2, <1>3 DEF Scope, InLayer
<1>7. CASE j = 1
  <2>1. \A i \in 1 .. j : up[i] = a
    BY <1>7
  <2>2. a \in Group(s, a, mode, num)
    BY <1>3, <1>4, <1>5, <1>1, TreeInScope DEF Group
  <2> QED BY <1>5, <1>6, <1>7, <2>1, <2>2 DEF up, num
<1>8. CASE j # 1
  <2>1. j - 1 \in 1 .. n - 1 /\ j - 1 \in 1 .. j - 1 /\ (j - 1) + 1 = j /\ j - 1 \in 1 .. n
    BY <1>1, <1>2, <1>8
  <2>2. MustMoveTransients(s, a, mode)
    <3>1. a \notin s.iconic /\ MovesTransients(a, mode)
      BY <1>1, <1>2, <1>3, <2>1
    <3>2. up[j - 1] \in scope /\ s.hint[up[j - 1]] = a
      BY <1>2, <1>3, <1>6, <2>1
    <3> QED BY <3>1, <3>2 DEF MustMoveTransients, Scope
  <2>3. /\ Grown(s, num, a, scope, mode, tree) /\ Closed(s, scope, mode, DOMAIN tree)
    BY <1>1, <1>3, <1>4, <1>5, TreeIsGrown
  <2> HIDE DEF tree
  <2> DEFINE P == {i \in 0 .. j - 1 : up[j - i] \in DOMAIN tree}
  <2>4. 0 \in P
    <3>1. j - 0 = j /\ 0 \in 0 .. j - 1
      BY <1>1, <1>2
    <3> QED BY <2>3, <3>1 DEF Grown
  <2>5. ASSUME NEW i \in 1 .. j - 1, i - 1 \in P PROVE i \in P
    <3> DEFINE k == j - i
    <3>1. /\ k \in 1 .. j - 1 /\ k \in 1 .. n - 1 /\ k \in 1 .. n /\ i \in 0 .. j - 1
          /\ j - (i - 1) = k + 1
      BY <1>1, <1>2
    <3> HIDE DEF k
    <3>2. up[k + 1] \in DOMAIN tree
      BY <2>5, <3>1
    <3>3. /\ up[k] \in scope /\ up[k] \notin s.iconic /\ MovesTransients(up[k + 1], mode)
          /\ LeaderOf(st, up[k]) = up[k + 1] /\ up[k + 1] # Root
      BY <1>1, <1>2, <1>3, <1>6, <3>1
    <3>4. LeaderOf(s, up[k]) = up[k + 1]
      BY <1>1, <3>3, KeptFacts
    <3>5. up[k] \in DOMAIN tree
      BY <2>3, <3>2, <3>3, <3>4 DEF Closed, Follows
    <3> QED BY <3>1, <3>5 DEF k
  <2>6. 0 .. j - 1 \subseteq P
    <3> HIDE DEF P
    <3>1. j - 1 \in Nat
      BY <1>1, <1>2
    <3> QED BY <2>4, <2>5, <3>1, UpTo
  <2>7. ASSUME NEW i \in 1 .. j PROVE up[i] \in DOMAIN tree
    <3>1. j - i \in 0 .. j - 1 /\ j - (j - i) = i
      BY <1>1, <1>2
    <3>2. j - i \in P
      BY <2>6, <3>1
    <3> QED BY <3>1, <3>2
  <2> QED BY <1>5, <1>6, <2>2, <2>7 DEF Group, tree, up, num
<1> QED BY <1>7, <1>8

(* A window that is lowered is below all of its layer but its family. *)
LEMMA LowerReaches ==
    ASSUME NEW st \in States, HintsMayBe(st.hint), NEW t \in ToSet(st.ring),
           Sorted(st.ring, st.layer), NEW F, FamilySet(st, F), t \in F,
           NEW v \in Scope(st, t) \ F
    PROVE  Before(RaiseOrLower(st, t, "lower").ring, v, t)
<1> DEFINE up == StackParents(st, t)
           num == Numbers(st, t, "lower")
<1>1. PICK j, s : LastMoved(st, t, "lower", j, s)
  BY LastMove DEF Modes
<1> DEFINE a == up[j]
           group == Group(s, a, "lower", num)
           out == RaiseOrLower(st, t, "lower")
           from == From(s, "lower")
           tree == Tree(s, a, "lower", num)
<1>2. /\ j \in 1 .. Len(up) /\ s \in States /\ ChainMoved(st, t, "lower", s)
      /\ out = RestackWindow(s, a, "lower", num)
  BY <1>1 DEF LastMoved
<1>3. /\ a \in ToSet(s.ring) /\ Scope(s, a) = Scope(st, t)
      /\ \A i \in 1 .. j : up[i] \in group
  BY <1>1, MovedAlong
<1>4. num \in [Windows -> Int]
  BY NumbersFacts
<1>5. Len(up) \in Nat /\ up[1] = t /\ \A i \in 1 .. Len(up) : up[i] \in ToSet(up)
  BY ChainFacts
<1>6. SameFamily(st, t, a)
  BY <1>2, <1>5, ParentsPlace
<1> HIDE DEF up, num, a, out
<1>7. Kept(st, s) /\ Sorted(s.ring, s.layer)
  BY <1>2 DEF ChainMoved, Kept
<1>8. Gathered(s, a, "lower", num, out.ring)
  BY <1>2, <1>3, <1>4, <1>7, RestackGathers
<1>9. t \in group
  BY <1>2, <1>3, <1>5
<1>10. group \subseteq F
  <2>1. a \in F
    BY <1>6 DEF SameFamily
  <2>2. from \in States /\ ~from.marks.keep /\ from.ring = s.ring /\ from.hint = s.hint
    BY <1>2, FromType
  <2>3. \A w : LeaderOf(from, w) = LeaderOf(st, w)
    <3>1. \A w : LeaderOf(s, w) = LeaderOf(st, w)
      BY <1>7, KeptFacts
    <3> QED BY <2>2, <3>1 DEF LeaderOf
  <2>4. FamilySet(from, F)
    BY <2>3 DEF FamilySet
  <2>5. Scope(s, a) \in SUBSET Windows /\ F \in SUBSET Windows /\ a \in Windows
    BY <1>2, <1>3, EmptyList DEF Scope, InLayer, States, FamilySet
  <2> HIDE DEF from
  <2>6. Encloses(from, a, Scope(s, a), F)
    BY <2>1, <2>2, <2>4, <2>5, MarkedInFamily
  <2>7. DOMAIN MarkTransientSubtree(from, num, a, Scope(s, a), "lower") \subseteq F
    BY <1>4, <2>2, <2>5, <2>6, TreeFacts
  <2>8. DOMAIN tree \subseteq F
    BY <2>7 DEF Tree, from
  <2> QED BY <2>1, <2>8 DEF Group
<1>11. v \in Scope(s, a) \ group
  BY <1>3, <1>10
<1> QED BY <1>8, <1>9, <1>11 DEF Gathered, out

(* t has a greater number than any window of the tree that is not below it: its
   branch has the greatest. *)
LEMMA BranchNumbers ==
    ASSUME NEW st \in States, HintsMayBe(st.hint), NEW t \in ToSet(st.ring),
           Cardinality(Windows) <= BranchBonus,
           NEW j, NEW s, LastMoved(st, t, "raise", j, s), j # 1,
           NEW D \in SUBSET Windows, t \in D, Closed(st, Scope(st, t), "all", D),
           NEW v \in DOMAIN Tree(s, StackParents(st, t)[j], "raise", Numbers(st, t, "raise")) \ D
    PROVE  LET tree == Tree(s, StackParents(st, t)[j], "raise", Numbers(st, t, "raise"))
           IN  tree[v] \in Int /\ tree[t] \in Int /\ tree[v] < tree[t]
<1> DEFINE up == StackParents(st, t)
           n == Len(up)
           num == Numbers(st, t, "raise")
           a == up[j]
           scope == Scope(st, t)
           tree == Tree(s, a, "raise", num)
           c == Cardinality(Windows)
<1>1. /\ j \in 1 .. n /\ s \in States /\ Kept(st, s)
  BY DEF LastMoved, ChainMoved
<1>2. /\ n \in Nat \ {0} /\ up[1] = t /\ up \in Seq(Windows) /\ DOMAIN up = 1 .. n
      /\ \A i \in 1 .. n - 1 : up[i + 1] = LeaderOf(st, up[i]) /\ up[i + 1] # Root
  <2>1. up \in Seq(Windows) /\ n \in Nat \ {0} /\ DOMAIN up = 1 .. n
    BY ChainFacts
  <2>2. up[1] = t
    BY ChainFacts
  <2>3. \A i \in 1 .. n - 1 : up[i + 1] = LeaderOf(st, up[i]) /\ up[i + 1] # Root
    BY ChainFacts
  <2> QED BY <2>1, <2>2, <2>3
<1>3. s.layer = st.layer /\ s.hint = st.hint /\ s.iconic = st.iconic
  BY <1>1 DEF Kept
<1>4. /\ num \in [Windows -> Int]
      /\ \A i \in 1 .. n - 1 : num[up[i]] = BranchBonus
      /\ \A w \in Windows : (\A i \in 1 .. n - 1 : w # up[i]) => num[w] = 0
  BY NumbersFacts
<1>5. /\ a \in ToSet(s.ring) /\ Scope(s, a) = scope
      /\ \A i \in 1 .. j : up[i] \in Group(s, a, "raise", num)
      /\ MustMoveTransients(s, a, "raise")
  BY MovedAlong
<1>6. \A w : LeaderOf(s, w) = LeaderOf(st, w)
  BY <1>1, KeptFacts
<1>7. PICK rank : Ranked(st, rank)
  BY RankExists
<1>8. /\ rank \in [Windows -> 1 .. c] /\ c \in Nat
      /\ \A w \in Windows : LeaderOf(st, w) # Root => /\ LeaderOf(st, w) \in Windows
                                                      /\ rank[w] > rank[LeaderOf(st, w)]
  BY <1>7, Constants, FS_CardinalityType DEF Ranked
<1>9. /\ \A i, k \in 1 .. n : i < k => rank[up[i]] > rank[up[k]]
      /\ \A i, k \in 1 .. n : up[i] = up[k] => i = k
  BY <1>7, ChainFalls
<1>10. tree \in Trees
  BY <1>1, <1>4, <1>5, TreeInScope
<1>11. Grown(s, num, a, Scope(s, a), "raise", tree)
  BY <1>1, <1>3, <1>4, <1>5, TreeIsGrown
<1>12. \A i \in 1 .. j : up[i] \in DOMAIN tree
  BY <1>5 DEF Group
<1>13. DOMAIN tree \subseteq Windows /\ \A w \in DOMAIN tree : tree[w] \in Int
  BY <1>10 DEF Trees
<1>14. /\ a \in DOMAIN tree
       /\ \A w \in DOMAIN tree \ {a} : /\ w \in scope /\ LeaderOf(st, w) # Root
                                       /\ LeaderOf(st, w) \in DOMAIN tree
                                       /\ tree[w] = num[w] + tree[LeaderOf(st, w)] + 1
  BY <1>5, <1>6, <1>11 DEF Grown, Follows
<1>15. v \in DOMAIN tree \ D
  OBVIOUS
<1>16. c <= BranchBonus /\ BranchBonus \in Nat
  BY DEF BranchBonus
<1> HIDE DEF up, n, num, tree, scope, c
<1> SUFFICES tree[v] \in Int /\ tree[t] \in Int /\ tree[v] < tree[t]
  BY DEF tree, num, up
<1>17. \A i \in 1 .. j - 1 : tree[up[i]] = BranchBonus + tree[up[i + 1]] + 1
  <2> SUFFICES ASSUME NEW i \in 1 .. j - 1
               PROVE  tree[up[i]] = BranchBonus + tree[up[i + 1]] + 1
    OBVIOUS
  <2>1. i \in 1 .. n /\ i \in 1 .. j /\ i \in 1 .. n - 1 /\ i # j
    BY <1>1, <1>2
  <2>2. up[i] \in DOMAIN tree \ {a}
    BY <1>1, <1>9, <1>12, <2>1
  <2> QED BY <1>2, <1>4, <1>14, <2>1, <2>2
<1>18. 2 \in 1 .. j /\ up[2] \in DOMAIN tree /\ tree[up[2]] \in Int
  BY <1>1, <1>2, <1>12, <1>13
<1>19. ASSUME NEW i \in 2 .. j PROVE tree[up[i]] <= tree[up[2]]
  <2> DEFINE P == {k \in 0 .. j : k >= 2 => tree[up[k]] <= tree[up[2]]}
  <2>1. 0 \in P /\ j \in Nat
    BY <1>1, <1>2
  <2>2. ASSUME NEW k \in 1 .. j, k - 1 \in P PROVE k \in P
    <3> SUFFICES ASSUME k >= 2 PROVE tree[up[k]] <= tree[up[2]]
      BY <2>1
    <3>1. CASE k = 2
      BY <1>18, <3>1
    <3>2. CASE k # 2
      <4>1. k - 1 \in 1 .. j - 1 /\ k - 1 >= 2 /\ (k - 1) + 1 = k /\ k - 1 \in 1 .. j
        BY <2>1, <3>2
      <4>2. tree[up[k - 1]] = BranchBonus + tree[up[k]] + 1 /\ tree[up[k - 1]] <= tree[up[2]]
        BY <1>17, <2>2, <4>1
      <4>3. tree[up[k]] \in Int
        BY <1>12, <1>13
      <4> QED BY <1>16, <1>18, <4>2, <4>3
    <3> QED BY <3>1, <3>2
  <2> HIDE DEF P
  <2>3. 0 .. j \subseteq P
    BY <2>1, <2>2, UpTo
  <2>4. i \in P
    BY <2>1, <2>3
  <2> QED BY <2>4 DEF P
<1> DEFINE Fits1(w) == /\ rank[a] <= rank[w]
                       /\ w \notin D => tree[w] + rank[a] <= tree[up[2]] + rank[w]
           P == {k \in 0 .. c : \A w \in DOMAIN tree : rank[w] <= k => Fits1(w)}
<1>20. \A w \in DOMAIN tree : rank[w] \in 1 .. c
  BY <1>8, <1>13
<1>21. 0 \in P
  <2>1. \A w \in DOMAIN tree : ~(rank[w] <= 0)
    BY <1>20
  <2> QED BY <1>8, <2>1
<1>22. ASSUME NEW k \in 1 .. c, k - 1 \in P PROVE k \in P
  <2>1. ASSUME NEW w \in DOMAIN tree, rank[w] <= k PROVE Fits1(w)
    <3>1. CASE w = a
      <4>1. tree[a] <= tree[up[2]]
        <5>1. j \in 2 .. j
          BY <1>1, <1>2
        <5> QED BY <1>19, <5>1
      <4> QED BY <1>13, <1>14, <1>18, <1>20, <3>1, <4>1
    <3>2. CASE w # a
      <4> DEFINE p == LeaderOf(st, w)
      <4>1. /\ w \in scope /\ p # Root /\ p \in DOMAIN tree /\ tree[w] = num[w] + tree[p] + 1
        BY <1>14, <3>2
      <4>2. rank[w] > rank[p] /\ rank[p] \in 1 .. c /\ rank[w] \in 1 .. c /\ rank[a] \in 1 .. c
        BY <1>8, <1>13, <1>14, <1>20, <4>1
      <4>3. rank[p] <= k - 1
        BY <1>8, <2>1, <4>2
      <4>4. Fits1(p)
        BY <1>22, <4>1, <4>3
      <4>5. rank[a] < rank[w]
        BY <4>2, <4>4
      <4>6. ASSUME w \notin D PROVE tree[w] + rank[a] <= tree[up[2]] + rank[w]
        <5>1. CASE \E i \in 1 .. n - 1 : w = up[i]
          <6>1. PICK i \in 1 .. n - 1 : w = up[i]
            BY <5>1
          <6>2. i # 1 /\ i \in 1 .. n
            BY <1>2, <4>6, <6>1
          <6>3. ~(j < i)
            BY <1>1, <1>9, <4>2, <4>5, <6>1, <6>2
          <6>4. i \in 2 .. j
            BY <1>1, <1>2, <6>2, <6>3
          <6>5. tree[w] <= tree[up[2]]
            BY <1>19, <6>1, <6>4
          <6> QED BY <1>13, <1>18, <4>2, <4>5, <6>5
        <5>2. CASE \A i \in 1 .. n - 1 : w # up[i]
          <6>1. num[w] = 0
            BY <1>4, <1>13, <5>2
          <6>2. p \notin D
            BY <4>1, <4>6 DEF Closed, Follows, MovesTransients, scope
          <6>3. tree[p] + rank[a] <= tree[up[2]] + rank[p]
            BY <4>4, <6>2
          <6>4. tree[p] \in Int /\ tree[w] \in Int
            BY <1>13, <4>1
          <6> HIDE DEF p
          <6>5. tree[w] = tree[p] + 1
            BY <4>1, <6>1, <6>4
          <6> QED BY <1>18, <4>2, <6>3, <6>4, <6>5
        <5> QED BY <5>1, <5>2
      <4> QED BY <4>2, <4>5, <4>6
    <3> QED BY <3>1, <3>2
  <2> HIDE DEF Fits1
  <2> QED BY <1>8, <2>1
<1>23. c \in P
  <2> HIDE DEF P
  <2>1. 0 .. c \subseteq P
    BY <1>8, <1>21, <1>22, UpTo
  <2> QED BY <1>8, <2>1
<1>24. Fits1(v)
  BY <1>15, <1>20, <1>23
<1>25. tree[v] + rank[a] <= tree[up[2]] + rank[v] /\ rank[v] \in 1 .. c /\ rank[a] \in 1 .. c
  BY <1>14, <1>15, <1>20, <1>24
<1>26. tree[t] = BranchBonus + tree[up[2]] + 1
  <2>1. 1 \in 1 .. j - 1 /\ 1 + 1 = 2
    BY <1>1, <1>2
  <2> QED BY <1>2, <1>17, <2>1
<1>27. tree[v] \in Int /\ tree[t] \in Int
  BY <1>13, <1>15, <1>16, <1>18, <1>26
<1> QED BY <1>8, <1>16, <1>18, <1>25, <1>26, <1>27

(* A window that is raised has above it in its layer only those that follow it. *)
LEMMA RaiseReaches ==
    ASSUME NEW st \in States, HintsMayBe(st.hint), NEW t \in ToSet(st.ring),
           Sorted(st.ring, st.layer), Cardinality(Windows) <= BranchBonus,
           NEW D \in SUBSET Windows, t \in D, Closed(st, Scope(st, t), "all", D),
           NEW v \in Scope(st, t) \ D
    PROVE  Before(RaiseOrLower(st, t, "raise").ring, t, v)
<1> DEFINE up == StackParents(st, t)
           num == Numbers(st, t, "raise")
<1>1. PICK j, s : LastMoved(st, t, "raise", j, s)
  BY LastMove DEF Modes
<1> DEFINE a == up[j]
           group == Group(s, a, "raise", num)
           out == RaiseOrLower(st, t, "raise")
           tree == Tree(s, a, "raise", num)
<1>2. /\ j \in 1 .. Len(up) /\ s \in States /\ ChainMoved(st, t, "raise", s)
      /\ out = RestackWindow(s, a, "raise", num)
  BY <1>1 DEF LastMoved
<1>3. /\ a \in ToSet(s.ring) /\ Scope(s, a) = Scope(st, t)
      /\ \A i \in 1 .. j : up[i] \in group
      /\ j # 1 => MustMoveTransients(s, a, "raise")
  BY <1>1, MovedAlong
<1>4. num \in [Windows -> Int]
  BY NumbersFacts
<1>5. Len(up) \in Nat /\ up[1] = t
  BY ChainFacts
<1>6. ChainMoved(st, t, "raise", out)
  BY RaiseOrLowerMoves DEF Modes
<1>7. j # 1 /\ v \in DOMAIN tree =>
         tree[v] \in Int /\ tree[t] \in Int /\ tree[v] < tree[t]
  BY <1>1, BranchNumbers
<1> HIDE DEF up, num, a, out
<1>8. Kept(st, s) /\ Sorted(s.ring, s.layer)
  BY <1>2 DEF ChainMoved, Kept
<1>9. Gathered(s, a, "raise", num, out.ring)
  BY <1>2, <1>3, <1>4, <1>8, RestackGathers
<1>10. t \in group /\ v # t
  BY <1>2, <1>3, <1>5
<1>11. v \in group \/ Before(out.ring, t, v)
  BY <1>3, <1>9, <1>10 DEF Gathered
<1>12. CASE j = 1
  <2>1. a = t
    BY <1>5, <1>12 DEF a
  <2> DEFINE from == From(s, "raise")
             scope == Scope(s, a)
  <2>2. from \in States /\ ~from.marks.keep /\ from.ring = s.ring /\ from.hint = s.hint
    BY <1>2, FromType
  <2>3. \A w : LeaderOf(from, w) = LeaderOf(st, w)
    <3>1. \A w : LeaderOf(s, w) = LeaderOf(st, w)
      BY <1>8, KeptFacts
    <3> QED BY <2>2, <3>1 DEF LeaderOf
  <2>4. scope \in SUBSET Windows /\ a \in Windows
    BY <1>2, <1>3, EmptyList DEF Scope, InLayer, States
  <2> HIDE DEF from, scope
  <2>5. Encloses(from, a, scope, D)
    <3>1. \A w \in scope : Leaders(from, scope)[w] = LeaderOf(st, w)
      BY <2>2, <2>3, <2>4 DEF Leaders
    <3>2. Root \notin D
      BY Constants
    <3>3. \A w \in scope : LeaderOf(st, w) \in D => w \in D
      BY <1>3, <3>2 DEF Closed, Follows, MovesTransients, scope
    <3> QED BY <2>1, <2>2, <3>1, <3>3 DEF Encloses
  <2>6. DOMAIN MarkTransientSubtree(from, num, a, scope, "raise") \subseteq D
    BY <1>4, <2>2, <2>4, <2>5, TreeFacts
  <2>7. DOMAIN tree \subseteq D
    BY <2>6 DEF Tree, from, scope
  <2>8. v \notin group
    BY <1>10, <2>1, <2>7 DEF Group
  <2> QED BY <1>11, <2>8 DEF out
<1>13. CASE j # 1
  <2> SUFFICES ASSUME v \in group PROVE Before(out.ring, t, v)
    BY <1>11 DEF out
  <2>1. group = DOMAIN tree
    BY <1>3, <1>13 DEF Group
  <2>2. tree[v] \in Int /\ tree[t] \in Int /\ tree[v] < tree[t]
    BY <1>7, <1>13, <2>1
  <2>3. out.ring \in Lists /\ t \in ToSet(out.ring) /\ v \in ToSet(out.ring)
    <3>1. out \in States /\ ToSet(out.ring) = ToSet(st.ring)
      BY <1>6 DEF ChainMoved, Kept
    <3> QED BY <3>1 DEF States, Scope, InLayer
  <2>4. CASE v = a
    <3>1. t \in group \ {a}
      BY <1>10, <2>4
    <3> QED BY <1>9, <2>4, <3>1 DEF Gathered
  <2>5. CASE t = a
    <3>1. \A i, k \in 1 .. Len(up) : up[i] = up[k] => i = k
      <4>1. PICK rank : Ranked(st, rank)
        BY RankExists
      <4> QED BY <4>1, ChainFalls DEF up
    <3>2. 1 \in 1 .. Len(up) /\ up[1] = up[j]
      BY <1>2, <1>5, <2>5 DEF a
    <3> QED BY <1>2, <1>13, <3>1, <3>2
  <2>6. CASE v # a /\ t # a
    <3>1. ~Before(out.ring, v, t)
      <4>1. Before(out.ring, v, t) => tree[v] >= tree[t]
        BY <1>9, <1>10, <2>6 DEF Gathered
      <4> QED BY <2>2, <4>1
    <3> QED BY <1>10, <2>3, <3>1, OrderFacts
  <2> QED BY <2>4, <2>5, <2>6
<1> QED BY <1>12, <1>13

LEMMA EndsReached ==
    ASSUME Cardinality(Windows) <= BranchBonus, TypeOK, Tidy
    PROVE  ReachesEnd
<1> SUFFICES ASSUME NEW w \in Managed \ iconic
             PROVE  LET r == RaiseWindow(Now, w).ring
                        low == LowerWindow(Now, w).ring
                        tree == DOMAIN MarkTransientSubtree(Now, NoNumber, w,
                                                            InLayer(Now, layer[w]), "all")
                    IN  /\ \A v \in InLayer(Now, layer[w]) \ tree : IsAbove(r, w, v) \/ v = w
                        /\ \A v \in InLayer(Now, layer[w]) \ Family(Now, w) : IsAbove(low, v, w)
  BY DEF ReachesEnd
<1> DEFINE scope == InLayer(Now, layer[w])
           tree == DOMAIN MarkTransientSubtree(Now, NoNumber, w, scope, "all")
           r == RaiseWindow(Now, w)
           low == LowerWindow(Now, w)
<1>1. /\ Now \in States /\ HintsMayBe(hint) /\ Managed \subseteq Windows
      /\ ring \in Lists /\ Managed = ToSet(ring)
  BY FineNow DEF Managed
<1>2. /\ Now.ring = ring /\ Now.layer = layer /\ Now.hint = hint
      /\ Now.iconic = iconic /\ Now.marks = marks /\ Scope(Now, w) = scope
      /\ Now.view = ring
  BY NowFields DEF Now
<1>3. scope \in SUBSET Windows /\ w \in Windows /\ w \in ToSet(Now.ring)
      /\ scope \subseteq ToSet(ring)
  BY <1>1, <1>2 DEF InLayer
<1>4. ~Now.marks.keep /\ Sorted(Now.ring, Now.layer)
  BY <1>2 DEF Tidy, NoMarks
<1>5. NoNumber \in [Windows -> Int]
  BY DEF NoNumber
<1> HIDE DEF scope, r, low
<1>6. /\ tree \in SUBSET Windows /\ w \in tree
      /\ Closed(Now, scope, "all", tree)
  <2> DEFINE whole == MarkTransientSubtree(Now, NoNumber, w, scope, "all")
  <2>1. whole \in Trees /\ w \in DOMAIN whole
    BY <1>1, <1>3, <1>5, TreeFacts
  <2>2. Closed(Now, scope, "all", DOMAIN whole)
    BY <1>1, <1>2, <1>3, <1>4, <1>5, TreeShape
  <2> HIDE DEF whole
  <2>3. DOMAIN whole \in SUBSET Windows
    BY <2>1 DEF Trees
  <2> QED BY <2>1, <2>2, <2>3 DEF whole
<1>7. /\ r.ring \in Lists /\ ToSet(r.ring) = ToSet(ring)
      /\ low.ring \in Lists /\ ToSet(low.ring) = ToSet(ring)
  <2>1. Kept(Now, r) /\ Kept(Now, low)
    BY <1>1, <1>3, RaiseMoves, LowerMoves DEF ChainMoved, r, low
  <2> QED BY <1>2, <2>1 DEF Kept, States
<1> HIDE DEF tree
<1>8. ASSUME NEW v \in scope \ tree PROVE IsAbove(r.ring, w, v)
  <2> DEFINE top == OnTop(Now.view, w)
             st == [Now EXCEPT !.view = top]
  <2>1. r = RaiseOrLower(st, w, "raise")
    BY DEF RaiseWindow, r, Now
  <2>2. top \in Lists /\ ToSet(top) = ToSet(Now.ring)
    BY <1>1, <1>2, <1>3, TopOrder
  <2> HIDE DEF top
  <2>3. st \in States
    BY <1>1, <2>2, NewView
  <2>4. /\ st.ring = Now.ring /\ st.layer = Now.layer /\ st.hint = Now.hint
        /\ st.iconic = Now.iconic
    BY <1>1 DEF States
  <2> HIDE DEF st
  <2>5. Scope(st, w) = scope /\ \A u : LeaderOf(st, u) = LeaderOf(Now, u)
    BY <1>2, <2>4 DEF Scope, InLayer, LeaderOf, scope
  <2>6. Closed(st, Scope(st, w), "all", tree)
    BY <1>6, <2>4, <2>5 DEF Closed, Follows
  <2>7. Before(r.ring, w, v)
    BY <1>1, <1>2, <1>3, <1>4, <1>6, <1>8, <2>1, <2>3, <2>4, <2>5, <2>6, RaiseReaches
  <2> QED BY <1>3, <1>2, <1>7, <2>7, BeforePlace DEF IsAbove
<1>9. ASSUME NEW v \in scope \ Family(Now, w) PROVE IsAbove(low.ring, v, w)
  <2> DEFINE bottom == Append(Without(Now.view, {w}), w)
             st == [Now EXCEPT !.view = bottom]
  <2>1. low = RaiseOrLower(st, w, "lower")
    BY DEF LowerWindow, low, Now
  <2>2. bottom \in Lists /\ ToSet(bottom) = ToSet(Now.ring)
    BY <1>1, <1>2, <1>3, BottomOrder
  <2> HIDE DEF bottom
  <2>3. st \in States
    BY <1>1, <2>2, NewView
  <2>4. /\ st.ring = Now.ring /\ st.layer = Now.layer /\ st.hint = Now.hint
        /\ st.iconic = Now.iconic
    BY <1>1 DEF States
  <2> HIDE DEF st
  <2>5. Scope(st, w) = scope /\ \A u : LeaderOf(st, u) = LeaderOf(Now, u)
    BY <1>2, <2>4 DEF Scope, InLayer, LeaderOf, scope
  <2>6. FamilySet(Now, Family(Now, w)) /\ w \in Family(Now, w)
    BY <1>1, <1>2, <1>3, FamilyFacts
  <2>7. FamilySet(st, Family(Now, w))
    BY <2>5, <2>6 DEF FamilySet
  <2>8. Before(low.ring, v, w)
    BY <1>1, <1>2, <1>3, <1>4, <1>9, <2>1, <2>3, <2>4, <2>5, <2>6, <2>7, LowerReaches
  <2> QED BY <1>3, <1>2, <1>7, <2>8, BeforePlace DEF IsAbove
<1> QED BY <1>8, <1>9 DEF r, low, tree, scope

(* ReachesEnd: under the conditions of LayersSortedHolds, and if there are not more
   windows than the bonus for a branch, in any reachable state a window that is
   raised would end above all of its layer but its transients, and one that is
   lowered below all but its family, wherever the recursion through its leaders
   leaves it. *)
THEOREM ReachesEndHolds ==
    ASSUME ChecksStack = {TRUE}, LowerTransient \subseteq RaiseTransient,
           Cardinality(Windows) <= BranchBonus
    PROVE  Spec => []ReachesEnd
<1>1. TypeOK /\ Tidy => ReachesEnd
  BY EndsReached
<1>2. TypeOK /\ Tidy /\ [Next]_vars => Tidy'
  BY TidyNext
<1> QED BY <1>1, <1>2, TypeInit, TypeHolds, PTL DEF Spec

-----------------------------------------------------------------------------
(* What the modules show *)

(* How new comes from old if a module hears of u between its neighbours in order *)
Heard(order, old, u, new) ==
    LET r == PrevIn(order, u)
        around == {r, u, NextIn(order, u)} \ {Root}
    IN  /\ new \in Lists /\ ToSet(new) = ToSet(order)
        /\ r = Root => \A v, w : Before(new, v, w) <=>
                                   \/ (v # u /\ w # u /\ Before(old, v, w))
                                   \/ (v = u /\ w \in ToSet(order) \ {u})
        /\ r # Root =>
              /\ \A v, w \in ToSet(order) \ around : Before(new, v, w) <=> Before(old, v, w)
              /\ \A v, w \in around : Before(new, v, w) <=> Before(order, v, w)
              /\ \A v \in ToSet(order) \ around : \A w \in around :
                    Before(new, v, w) <=> Before(old, v, r)

LEMMA ToldAround ==
    ASSUME NEW st \in States, NEW u \in ToSet(st.ring)
    PROVE  Heard(st.ring, st.view, u,
                 BroadcastRestack(st, PrevIn(st.ring, u), NextIn(st.ring, u)).view)
<1> DEFINE s == st.ring
           r == PrevIn(s, u)
           q == NextIn(s, u)
           p == Place(s, u)
           first == IF r = Root THEN Head(s) ELSE r
           last  == IF q = Root THEN Last(s) ELSE q
           i == Place(s, first)
           j == Place(s, last)
           part == SubSeq(s, i, j)
           raised == IF r = Root THEN [st EXCEPT !.view = OnTop(@, first)] ELSE st
           out == BroadcastRestack(st, r, q)
<1>1. /\ s \in Lists /\ s \in Seq(Windows) /\ Len(s) \in Nat /\ DOMAIN s = 1 .. Len(s)
      /\ \A a, b \in 1 .. Len(s) : s[a] = s[b] => a = b
      /\ ToSet(s) \subseteq Windows /\ Root \notin Windows
      /\ st.view \in Lists /\ ToSet(st.view) = ToSet(s)
  BY Constants, EmptyList DEF States, Lists
<1>2. p \in 1 .. Len(s) /\ s[p] = u
  BY <1>1, PlaceFacts
<1>3. Head(s) = s[1] /\ Last(s) = s[Len(s)] /\ 1 \in 1 .. Len(s) /\ Len(s) \in 1 .. Len(s)
  BY <1>1, <1>2 DEF Last
<1>4. \A a \in 1 .. Len(s) : s[a] \in ToSet(s) /\ Place(s, s[a]) = a /\ s[a] # Root
  <2> TAKE a \in 1 .. Len(s)
  <2>1. s[a] \in ToSet(s)
    BY <1>1 DEF ToSet
  <2> QED BY <1>1, <2>1, PlaceFacts
<1>5. out = IF first = last \/ (r = Root /\ Len(part) = 2) THEN raised
            ELSE [raised EXCEPT !.view = XRestackWindows(@, part)]
  BY DEF BroadcastRestack
<1>6. IF p = 1 THEN r = Root ELSE r = s[p - 1] /\ p - 1 \in 1 .. Len(s)
  <2>1. u = Head(s) <=> p = 1
    BY <1>1, <1>2, <1>3
  <2>2. p # 1 => p - 1 \in 1 .. Len(s)
    BY <1>1, <1>2
  <2> QED BY <2>1, <2>2 DEF PrevIn
<1>7. IF p = Len(s) THEN q = Root ELSE q = s[p + 1] /\ p + 1 \in 1 .. Len(s)
  <2>1. u = Last(s) <=> p = Len(s)
    BY <1>1, <1>2, <1>3
  <2>2. p # Len(s) => p + 1 \in 1 .. Len(s)
    BY <1>1, <1>2
  <2> QED BY <2>1, <2>2 DEF NextIn
<1> HIDE DEF out, p, r, q
<1>8. r = Root <=> p = 1
  BY <1>4, <1>6
<1>9. q = Root <=> p = Len(s)
  BY <1>4, <1>7
<1>10. first = IF p = 1 THEN s[p] ELSE s[p - 1]
  BY <1>3, <1>6, <1>8
<1>11. last = IF p = Len(s) THEN s[p] ELSE s[p + 1]
  BY <1>3, <1>7, <1>9
<1> HIDE DEF first, last
<1>12. i = (IF p = 1 THEN p ELSE p - 1) /\ j = (IF p = Len(s) THEN p ELSE p + 1)
  BY <1>2, <1>4, <1>6, <1>7, <1>10, <1>11
<1> HIDE DEF i, j
<1>13. i \in 1 .. Len(s) /\ j \in 1 .. Len(s) /\ i <= j /\ i..j \subseteq 1..Len(s)
  BY <1>1, <1>2, <1>6, <1>7, <1>12
<1>14. /\ part \in Lists /\ part # <<>> /\ ToSet(part) \subseteq ToSet(s)
       /\ Len(part) = j - i + 1 /\ Head(part) = s[i]
       /\ ToSet(part) = {s[k] : k \in i .. j}
       /\ \A v, w \in ToSet(part) : Before(part, v, w) <=> Before(s, v, w)
  BY <1>1, <1>13, PieceOrder
<1> HIDE DEF part
<1> DEFINE around == {r, u, q} \ {Root}
<1>15. CASE r = Root
  <2>1. p = 1 /\ first = u
    BY <1>2, <1>8, <1>10, <1>15
  <2>2. first = last \/ Len(part) = 2
    BY <1>1, <1>2, <1>7, <1>11, <1>12, <1>14, <2>1
  <2>3. out = raised
    BY <1>5, <1>15, <2>2
  <2>4. raised.view = OnTop(st.view, u)
    BY <1>15, <2>1 DEF States
  <2> HIDE DEF raised
  <2>5. /\ out.view \in Lists /\ ToSet(out.view) = ToSet(s)
        /\ \A v, w : Before(out.view, v, w) <=> \/ (v # u /\ w # u /\ Before(st.view, v, w))
                                                \/ (v = u /\ w \in ToSet(s) \ {u})
    BY <1>1, <2>3, <2>4, TopOrder
  <2> QED BY <1>15, <2>5 DEF Heard, r, q, out
<1>16. CASE r # Root
  <2>1. p # 1 /\ p - 1 \in 1 .. Len(s) /\ i = p - 1 /\ r = s[i]
    BY <1>6, <1>8, <1>12, <1>16
  <2>2. first # last
    BY <1>1, <1>2, <1>7, <1>10, <1>11, <2>1
  <2>3. out = [st EXCEPT !.view = XRestackWindows(@, part)]
    BY <1>5, <1>16, <2>2
  <2>4. out.view = XRestackWindows(st.view, part)
    BY <2>3 DEF States
  <2>5. ToSet(part) = around
    <3>1. CASE p = Len(s)
      <4>1. i .. j = {i, p}
        BY <1>2, <1>12, <2>1, <3>1
      <4> QED BY <1>2, <1>4, <1>9, <1>14, <1>16, <2>1, <3>1, <4>1
    <3>2. CASE p # Len(s)
      <4>1. i .. j = {i, p, p + 1}
        BY <1>2, <1>12, <2>1, <3>2
      <4> QED BY <1>2, <1>4, <1>7, <1>9, <1>14, <1>16, <2>1, <3>2, <4>1
    <3> QED BY <3>1, <3>2
  <2>6. Head(part) = r
    BY <1>14, <2>1
  <2> HIDE DEF around
  <2>7. /\ out.view \in Lists /\ ToSet(out.view) = ToSet(s)
        /\ \A v, w \in ToSet(s) \ around : Before(out.view, v, w) <=> Before(st.view, v, w)
        /\ \A v, w \in around : Before(out.view, v, w) <=> Before(s, v, w)
        /\ \A v \in ToSet(s) \ around : \A w \in around :
              Before(out.view, v, w) <=> Before(st.view, v, r)
    BY <1>1, <1>14, <2>4, <2>5, <2>6, XRestackOrder
  <2> QED BY <1>16, <2>7 DEF Heard, around, r, q, out
<1> QED BY <1>15, <1>16

(* What is shown is right but for the windows of S; and within each layer. *)
Agree(order, shown, S) ==
    \A v, w : v \notin S /\ w \notin S /\ Before(order, v, w) => Before(shown, v, w)
AgreeIn(layers, order, shown, S) ==
    \A v, w : v \notin S /\ w \notin S /\ layers[v] = layers[w] /\ Before(order, v, w) =>
                 Before(shown, v, w)

LEMMA AroundFacts ==
    ASSUME NEW order \in Lists, NEW u \in ToSet(order)
    PROVE  LET r == PrevIn(order, u)
               q == NextIn(order, u)
           IN  /\ r \in (ToSet(order) \ {u}) \cup {Root} /\ q \in (ToSet(order) \ {u}) \cup {Root}
               /\ r = Root => \A v : ~Before(order, v, u)
               /\ r # Root => \A v : Before(order, v, u) <=> v = r \/ Before(order, v, r)
               /\ q = Root => \A v : ~Before(order, u, v)
               /\ q # Root => /\ \A v : Before(order, v, q) <=> v = u \/ Before(order, v, u)
                              /\ \A v : Before(order, u, v) <=> v = q \/ Before(order, q, v)
               /\ r # Root => q # r
<1> DEFINE r == PrevIn(order, u)
           q == NextIn(order, u)
<1>1. /\ r \in (ToSet(order) \ {u}) \cup {Root}
      /\ r = Root => \A v : ~Before(order, v, u)
      /\ r # Root => \A v : Before(order, v, u) <=> v = r \/ Before(order, v, r)
  BY PrevOrder
<1>2. /\ q \in (ToSet(order) \ {u}) \cup {Root}
      /\ q # Root => Before(order, u, q)
      /\ \A v \in ToSet(order) : Ahead(order, v, q) <=> v = u \/ Before(order, v, u)
  BY NextOrder
<1> HIDE DEF r, q
<1>3. /\ \A v, w : Before(order, v, w) => /\ v \in ToSet(order) /\ w \in ToSet(order)
                                         /\ v # w /\ ~Before(order, w, v)
      /\ \A v, w \in ToSet(order) : v = w \/ Before(order, v, w) \/ Before(order, w, v)
      /\ \A a, v, w : Before(order, a, v) /\ Before(order, v, w) => Before(order, a, w)
  BY OrderFacts
<1>4. ASSUME q = Root, NEW v PROVE ~Before(order, u, v)
  BY <1>2, <1>3, <1>4 DEF Ahead
<1>5. ASSUME q # Root, NEW v PROVE Before(order, v, q) <=> v = u \/ Before(order, v, u)
  BY <1>2, <1>3, <1>5 DEF Ahead
<1>6. ASSUME q # Root, NEW v PROVE Before(order, u, v) <=> v = q \/ Before(order, q, v)
  BY <1>2, <1>3, <1>5, <1>6
<1>7. r # Root => q # r
  BY <1>1, <1>2, <1>3
<1> QED BY <1>1, <1>2, <1>4, <1>5, <1>6, <1>7 DEF r, q

(* A module that hears of u right below a window that it shows at the right place
   puts it right. *)
LEMMA HeardRight ==
    ASSUME NEW order \in Lists, NEW old \in Lists, ToSet(old) = ToSet(order),
           NEW u \in ToSet(order), NEW new, Heard(order, old, u, new),
           NEW S, u \notin S, PrevIn(order, u) \notin S, Agree(order, old, S \cup {u})
    PROVE  Agree(order, new, S)
<1> DEFINE r == PrevIn(order, u)
           q == NextIn(order, u)
           around == {r, u, q} \ {Root}
<1>1. /\ r \in (ToSet(order) \ {u}) \cup {Root} /\ q \in (ToSet(order) \ {u}) \cup {Root}
      /\ r = Root => \A v : ~Before(order, v, u)
      /\ r # Root => \A v : Before(order, v, u) <=> v = r \/ Before(order, v, r)
      /\ q = Root => \A v : ~Before(order, u, v)
      /\ q # Root => /\ \A v : Before(order, v, q) <=> v = u \/ Before(order, v, u)
                     /\ \A v : Before(order, u, v) <=> v = q \/ Before(order, q, v)
  BY AroundFacts
<1>2. /\ r = Root => \A v, w : Before(new, v, w) <=>
                                   \/ (v # u /\ w # u /\ Before(old, v, w))
                                   \/ (v = u /\ w \in ToSet(order) \ {u})
      /\ r # Root =>
            /\ \A v, w \in ToSet(order) \ around : Before(new, v, w) <=> Before(old, v, w)
            /\ \A v, w \in around : Before(new, v, w) <=> Before(order, v, w)
            /\ \A v \in ToSet(order) \ around : \A w \in around :
                  Before(new, v, w) <=> Before(old, v, r)
  BY DEF Heard
<1>3. new \in Lists /\ ToSet(new) = ToSet(order)
  BY DEF Heard
<1>4. r \notin S
  OBVIOUS
<1> HIDE DEF r, q
<1>5. /\ \A v, w : Before(order, v, w) => /\ v \in ToSet(order) /\ w \in ToSet(order)
                                         /\ v # w /\ ~Before(order, w, v)
      /\ \A a, v, w : Before(order, a, v) /\ Before(order, v, w) => Before(order, a, w)
  BY OrderFacts
<1>6. /\ \A v, w : Before(old, v, w) => v # w /\ ~Before(old, w, v)
      /\ \A v, w : Before(new, v, w) => v # w /\ ~Before(new, w, v)
      /\ \A v, w \in ToSet(order) : v = w \/ Before(new, v, w) \/ Before(new, w, v)
  BY <1>3, OrderFacts
<1>7. ASSUME NEW v, NEW w, v \notin S, w \notin S, Before(order, v, w)
      PROVE  Before(new, v, w)
  <2>1. v \in ToSet(order) /\ w \in ToSet(order) /\ v # w
    BY <1>5, <1>7
  <2>2. v # u /\ w # u => Before(old, v, w)
    BY <1>7 DEF Agree
  <2>3. CASE r = Root
    BY <1>1, <1>2, <1>7, <2>1, <2>2, <2>3
  <2>4. CASE r # Root /\ v \notin around /\ w \notin around
    <3>1. v # u /\ w # u
      BY <2>1, <2>4, Constants, EmptyList
    <3> QED BY <1>2, <2>1, <2>2, <2>4, <3>1
  <2>5. CASE r # Root /\ v \in around /\ w \in around
    BY <1>2, <1>7, <2>5
  <2>6. CASE r # Root /\ v \notin around /\ w \in around
    <3>1. Before(order, v, r)
      <4>1. v # r /\ v # u
        BY <2>1, <2>6, Constants, EmptyList
      <4> QED BY <1>1, <1>7, <2>6, <4>1
    <3>2. Before(old, v, r)
      <4>1. v # u /\ r # u
        BY <1>1, <2>1, <2>6, Constants, EmptyList
      <4> QED BY <1>4, <1>7, <3>1, <4>1 DEF Agree
    <3> QED BY <1>2, <2>1, <2>6, <3>2
  <2>7. CASE r # Root /\ v \in around /\ w \notin around
    <3>1. w # r /\ w # u
      BY <2>1, <2>7, Constants, EmptyList
    <3>2. Before(order, r, w)
      BY <1>1, <1>5, <1>7, <2>7, <3>1
    <3>3. Before(old, r, w)
      <4>1. r # u
        BY <1>1, <2>7, Constants, EmptyList
      <4> QED BY <1>4, <1>7, <3>1, <3>2, <4>1 DEF Agree
    <3>4. ~Before(new, w, v)
      BY <1>2, <1>6, <2>1, <2>7, <3>3
    <3> QED BY <1>6, <2>1, <3>4
  <2> QED BY <2>3, <2>4, <2>5, <2>6, <2>7
<1> QED BY <1>7 DEF Agree

(* The same in a layer, for a window that is put at its bottom; q, the first of the
   next layer, is misplaced. *)
LEMMA HeardIn ==
    ASSUME NEW order \in Lists, NEW old \in Lists, ToSet(old) = ToSet(order),
           NEW u \in ToSet(order), NEW new, Heard(order, old, u, new), NEW layers,
           NEW S, u \notin S, PrevIn(order, u) \notin S \cup {Root},
           layers[PrevIn(order, u)] = layers[u], NextIn(order, u) \in S \cup {Root},
           AgreeIn(layers, order, old, S \cup {u})
    PROVE  AgreeIn(layers, order, new, S)
<1> DEFINE r == PrevIn(order, u)
           q == NextIn(order, u)
           around == {r, u, q} \ {Root}
<1>1. /\ r \in ToSet(order) \ {u}
      /\ \A v : Before(order, v, u) <=> v = r \/ Before(order, v, r)
  BY AroundFacts
<1>2. /\ new \in Lists /\ ToSet(new) = ToSet(order)
      /\ \A v, w \in ToSet(order) \ around : Before(new, v, w) <=> Before(old, v, w)
      /\ \A v, w \in around : Before(new, v, w) <=> Before(order, v, w)
      /\ \A v \in ToSet(order) \ around : \A w \in around :
            Before(new, v, w) <=> Before(old, v, r)
  BY DEF Heard
<1>3. r \notin S /\ r # Root /\ layers[r] = layers[u] /\ q \in S \cup {Root}
  OBVIOUS
<1> HIDE DEF r, q
<1>4. /\ \A v, w : Before(order, v, w) => /\ v \in ToSet(order) /\ w \in ToSet(order)
                                         /\ v # w /\ ~Before(order, w, v)
      /\ \A a, v, w : Before(order, a, v) /\ Before(order, v, w) => Before(order, a, w)
  BY OrderFacts
<1>5. /\ \A v, w : Before(old, v, w) => v # w /\ ~Before(old, w, v)
      /\ \A v, w \in ToSet(order) : v = w \/ Before(new, v, w) \/ Before(new, w, v)
      /\ Root \notin ToSet(order)
  BY <1>2, OrderFacts, Constants, EmptyList
<1>6. ASSUME NEW v, NEW w, v \notin S, w \notin S, layers[v] = layers[w], Before(order, v, w)
      PROVE  Before(new, v, w)
  <2>1. v \in ToSet(order) /\ w \in ToSet(order) /\ v # w
    BY <1>4, <1>6
  <2>2. \A a \in {v, w} : a \in around <=> a \in {r, u}
    BY <1>3, <1>5, <1>6, <2>1
  <2>3. CASE v \notin around /\ w \notin around
    <3>1. Before(old, v, w)
      BY <1>6, <2>2, <2>3 DEF AgreeIn
    <3> QED BY <1>2, <2>1, <2>3, <3>1
  <2>4. CASE v \in around /\ w \in around
    BY <1>2, <1>6, <2>4
  <2>5. CASE v \notin around /\ w \in around
    <3>1. Before(order, v, r) /\ layers[v] = layers[r]
      BY <1>1, <1>3, <1>6, <2>2, <2>5
    <3>2. Before(old, v, r)
      BY <1>1, <1>3, <1>6, <2>2, <2>5, <3>1 DEF AgreeIn
    <3> QED BY <1>2, <2>1, <2>5, <3>2
  <2>6. CASE v \in around /\ w \notin around
    <3>1. Before(order, r, w) /\ layers[w] = layers[r]
      BY <1>1, <1>3, <1>4, <1>6, <2>2, <2>6
    <3>2. Before(old, r, w)
      BY <1>1, <1>3, <1>6, <2>2, <2>6, <3>1 DEF AgreeIn
    <3>3. ~Before(new, w, v)
      BY <1>2, <1>5, <2>1, <2>6, <3>2
    <3> QED BY <1>5, <2>1, <3>3
  <2> QED BY <2>3, <2>4, <2>5, <2>6
<1> QED BY <1>6 DEF AgreeIn

(* u goes below t, which is shown below all: the window below u is misplaced. *)
LEMMA HeardBelowLast ==
    ASSUME NEW order \in Lists, NEW old \in Lists, ToSet(old) = ToSet(order),
           NEW u \in ToSet(order), NEW new, Heard(order, old, u, new), NEW layers,
           \A v \in ToSet(order) : layers[v] \in Int,
           NEW t \in ToSet(order), t = PrevIn(order, u), layers[t] = layers[u],
           Sorted(order, layers), \A v \in ToSet(order) \ {t} : Before(old, v, t),
           NextIn(order, u) # Root => layers[NextIn(order, u)] < layers[u],
           Agree(order, old, {t, u})
    PROVE  /\ AgreeIn(layers, order, new, {NextIn(order, u)})
           /\ NextIn(order, u) = Root => Agree(order, new, {})
<1> DEFINE q == NextIn(order, u)
           around == {t, u, q} \ {Root}
<1>1. t # Root /\ Root \notin ToSet(order)
  BY Constants, EmptyList
<1>2. /\ t # u /\ q \in (ToSet(order) \ {u}) \cup {Root}
      /\ \A v : Before(order, v, u) <=> v = t \/ Before(order, v, t)
      /\ q = Root => \A v : ~Before(order, u, v)
      /\ q # Root => \A v : Before(order, u, v) <=> v = q \/ Before(order, q, v)
  BY <1>1, AroundFacts
<1>3. /\ new \in Lists /\ ToSet(new) = ToSet(order)
      /\ \A v, w \in ToSet(order) \ around : Before(new, v, w) <=> Before(old, v, w)
      /\ \A v, w \in around : Before(new, v, w) <=> Before(order, v, w)
      /\ \A v \in ToSet(order) \ around : \A w \in around :
            Before(new, v, w) <=> Before(old, v, t)
  BY <1>1 DEF Heard
<1>4. q # Root => layers[q] < layers[u]
  OBVIOUS
<1> HIDE DEF q
<1>5. /\ \A v, w : Before(order, v, w) => /\ v \in ToSet(order) /\ w \in ToSet(order)
                                         /\ v # w /\ ~Before(order, w, v)
      /\ \A v, w \in ToSet(order) : v = w \/ Before(order, v, w) \/ Before(order, w, v)
      /\ \A a, v, w : Before(order, a, v) /\ Before(order, v, w) => Before(order, a, w)
  BY OrderFacts
<1>6. ASSUME NEW v, NEW w, v # q, w # q, Before(order, v, w),
             q = Root \/ layers[v] = layers[w]
      PROVE  Before(new, v, w)
  <2>1. v \in ToSet(order) /\ w \in ToSet(order) /\ v # w
    BY <1>5, <1>6
  <2>2. \A a \in {v, w} : a \in around <=> a \in {t, u}
    BY <1>1, <1>6, <2>1
  <2>3. CASE v \notin around /\ w \notin around
    <3>1. Before(old, v, w)
      BY <1>6, <2>2, <2>3 DEF Agree
    <3> QED BY <1>3, <2>1, <2>3, <3>1
  <2>4. CASE v \in around /\ w \in around
    BY <1>3, <1>6, <2>4
  <2>5. CASE v \notin around /\ w \in around
    BY <1>3, <2>1, <2>2, <2>5
  <2>6. CASE v \in around /\ w \notin around
    <3>1. Before(order, u, w)
      BY <1>2, <1>5, <1>6, <2>1, <2>2, <2>6
    <3>2. q # Root /\ Before(order, q, w)
      BY <1>2, <1>6, <3>1
    <3>3. layers[q] >= layers[w] /\ layers[q] < layers[u] /\ layers[v] = layers[u]
      BY <1>4, <2>2, <2>6, <3>2 DEF Sorted
    <3>4. layers[q] \in Int /\ layers[w] \in Int /\ layers[u] \in Int
      BY <1>2, <2>1, <3>2
    <3> QED BY <1>6, <3>2, <3>3, <3>4
  <2> QED BY <2>3, <2>4, <2>5, <2>6
<1>7. AgreeIn(layers, order, new, {q})
  BY <1>6 DEF AgreeIn
<1>8. ASSUME q = Root PROVE Agree(order, new, {})
  <2>1. \A v, w : Before(order, v, w) => v # q /\ w # q
    BY <1>1, <1>5, <1>8
  <2> QED BY <1>6, <1>8, <2>1 DEF Agree
<1> QED BY <1>7, <1>8 DEF q

(* u goes below t, which is shown above all and is the first of its layer. *)
LEMMA HeardBelowFirst ==
    ASSUME NEW order \in Lists, NEW old \in Lists, ToSet(old) = ToSet(order),
           NEW u \in ToSet(order), NEW new, Heard(order, old, u, new), NEW layers,
           \A v \in ToSet(order) : layers[v] \in Int,
           NEW t \in ToSet(order), t = PrevIn(order, u), layers[t] = layers[u],
           Sorted(order, layers), \A v \in ToSet(order) \ {t} : Before(old, t, v),
           \A v \in ToSet(order) \ {t} : layers[v] = layers[t] => Before(order, t, v),
           Agree(order, old, {t, u})
    PROVE  AgreeIn(layers, order, new, {})
<1> DEFINE q == NextIn(order, u)
           around == {t, u, q} \ {Root}
<1>1. t # Root /\ Root \notin ToSet(order)
  BY Constants, EmptyList
<1>2. /\ t # u /\ q \in (ToSet(order) \ {u}) \cup {Root}
      /\ \A v : Before(order, v, u) <=> v = t \/ Before(order, v, t)
      /\ q # Root => \A v : Before(order, v, q) <=> v = u \/ Before(order, v, u)
  BY <1>1, AroundFacts
<1>3. /\ new \in Lists /\ ToSet(new) = ToSet(order)
      /\ \A v, w \in ToSet(order) \ around : Before(new, v, w) <=> Before(old, v, w)
      /\ \A v, w \in around : Before(new, v, w) <=> Before(order, v, w)
      /\ \A v \in ToSet(order) \ around : \A w \in around :
            Before(new, v, w) <=> Before(old, v, t)
  BY <1>1 DEF Heard
<1> HIDE DEF q
<1>4. /\ \A v, w : Before(order, v, w) => /\ v \in ToSet(order) /\ w \in ToSet(order)
                                         /\ v # w /\ ~Before(order, w, v)
      /\ \A a, v, w : Before(order, a, v) /\ Before(order, v, w) => Before(order, a, w)
  BY OrderFacts
<1>5. /\ \A v, w : Before(old, v, w) => v # w /\ ~Before(old, w, v)
      /\ \A v, w \in ToSet(order) : v = w \/ Before(new, v, w) \/ Before(new, w, v)
  BY <1>3, OrderFacts
<1>6. ASSUME NEW v, NEW w, layers[v] = layers[w], Before(order, v, w)
      PROVE  Before(new, v, w)
  <2>1. v \in ToSet(order) /\ w \in ToSet(order) /\ v # w
    BY <1>4, <1>6
  <2>2. \A a \in {v, w} : a \in around <=> a \in {t, u} \/ (a = q /\ q # Root)
    BY <1>1, <2>1
  <2>3. CASE v \notin around /\ w \notin around
    <3>1. Before(old, v, w)
      BY <1>6, <2>2, <2>3 DEF Agree
    <3> QED BY <1>3, <2>1, <2>3, <3>1
  <2>4. CASE v \in around /\ w \in around
    BY <1>3, <1>6, <2>4
  <2>5. CASE v \notin around /\ w \in around
    <3>1. v # t /\ v # u
      BY <2>2, <2>5
    <3>2. Before(order, v, t)
      BY <1>2, <1>6, <2>2, <2>5, <3>1
    <3>3. w = t \/ Before(order, t, w)
      BY <1>2, <1>4, <2>2, <2>5
    <3>4. layers[v] >= layers[t] /\ (w = t \/ layers[t] >= layers[w])
      BY <3>2, <3>3 DEF Sorted
    <3>5. layers[v] = layers[t]
      <4>1. layers[v] \in Int /\ layers[t] \in Int /\ layers[w] \in Int
        BY <2>1
      <4> QED BY <1>6, <3>4, <4>1
    <3>6. Before(order, t, v)
      BY <2>1, <3>1, <3>5
    <3> QED BY <1>4, <3>2, <3>6
  <2>6. CASE v \in around /\ w \notin around
    <3>1. Before(old, t, w)
      BY <2>1, <2>2, <2>6
    <3>2. ~Before(new, w, v)
      BY <1>3, <1>5, <2>1, <2>6, <3>1
    <3> QED BY <1>5, <2>1, <3>2
  <2> QED BY <2>3, <2>4, <2>5, <2>6
<1> QED BY <1>6 DEF AgreeIn

LEMMA NextOfPut ==
    ASSUME NEW s \in Lists, NEW u \in Windows \ ToSet(s), NEW p \in ToSet(s) \cup {Root}
    PROVE  NextIn(PutBefore(s, <<u>>, p), u) = p
<1> DEFINE placed == PutBefore(s, <<u>>, p)
           q == NextIn(placed, u)
<1>1. /\ placed \in Lists /\ ToSet(placed) = ToSet(s) \cup {u}
      /\ \A v, w : Before(placed, v, w) <=> \/ Before(s, v, w)
                                            \/ (v \in ToSet(s) /\ w = u /\ Ahead(s, v, p))
                                            \/ (v = u /\ w \in ToSet(s) /\ ~Ahead(s, w, p))
  <2>1. <<u>> \in Lists /\ ToSet(<<u>>) = {u} /\ \A v, w : ~Before(<<u>>, v, w)
    BY OneWindow
  <2> QED BY <2>1, PutBeforeOrder
<1> HIDE DEF placed
<1>2. /\ q \in ToSet(s) \cup {Root} /\ Root \notin ToSet(s)
      /\ q = Root => \A v : ~Before(placed, u, v)
      /\ q # Root => \A v : Before(placed, u, v) <=> v = q \/ Before(placed, q, v)
  BY <1>1, AroundFacts, Constants, EmptyList
<1> HIDE DEF q
<1>3. \A v, w : Before(s, v, w) => v \in ToSet(s) /\ w \in ToSet(s) /\ ~Before(s, w, v)
  BY OrderFacts
<1>4. CASE p = Root
  <2>1. \A v : ~Before(placed, u, v)
    BY <1>1, <1>3, <1>4 DEF Ahead
  <2> QED BY <1>2, <1>4, <2>1 DEF q, placed
<1>5. CASE p # Root
  <2>1. Before(placed, u, p)
    BY <1>1, <1>3, <1>5 DEF Ahead
  <2>2. q # Root /\ (p = q \/ Before(placed, q, p))
    BY <1>2, <2>1
  <2>3. q \in ToSet(s) /\ ~Before(s, q, p)
    <3>1. Before(placed, u, q)
      BY <1>2, <2>2
    <3> QED BY <1>1, <1>2, <1>3, <2>2, <3>1 DEF Ahead
  <2>4. ~Before(placed, q, p)
    BY <1>1, <1>5, <2>3
  <2> QED BY <2>2, <2>4 DEF q, placed
<1> QED BY <1>4, <1>5

LEMMA AllTold ==
    ASSUME NEW st \in States, st.ring # <<>>
    PROVE  BroadcastRestackAllWindows(st).view = st.ring
<1> DEFINE s == st.ring
           h == Head(s)
           last == Last(s)
           part == SubSeq(s, Place(s, h), Place(s, last))
           out == BroadcastRestackAllWindows(st)
<1>1. /\ s \in Lists /\ s \in Seq(Windows) /\ Len(s) \in Nat /\ DOMAIN s = 1 .. Len(s)
      /\ \A a, b \in 1 .. Len(s) : s[a] = s[b] => a = b
      /\ ToSet(s) \subseteq Windows /\ Root \notin Windows
      /\ st.view \in Lists /\ ToSet(st.view) = ToSet(s)
  BY Constants, EmptyList DEF States, Lists
<1>2. /\ h = s[1] /\ last = s[Len(s)] /\ 1 \in 1 .. Len(s) /\ Len(s) \in 1 .. Len(s)
      /\ h \in ToSet(s) /\ last \in ToSet(s)
  BY <1>1, EmptyList DEF Last, ToSet
<1>3. h # Root /\ last # Root
  BY <1>1, <1>2
<1>4. Place(s, h) = 1 /\ Place(s, last) = Len(s)
  BY <1>1, <1>2, PlaceFacts
<1>5. out = IF h = last THEN st ELSE [st EXCEPT !.view = XRestackWindows(@, part)]
  BY <1>3 DEF BroadcastRestackAllWindows, BroadcastRestack
<1>6. part = SubSeq(s, 1, Len(s))
  BY <1>4
<1> HIDE DEF h, last, out, part
<1>7. /\ part \in Lists /\ part # <<>> /\ ToSet(part) = {s[k] : k \in 1 .. Len(s)}
      /\ \A v, w \in ToSet(part) : Before(part, v, w) <=> Before(s, v, w)
  BY <1>1, <1>2, <1>6, PieceOrder
<1>8. ToSet(part) = ToSet(s)
  BY <1>1, <1>7 DEF ToSet
<1>9. CASE h = last
  <2>1. Len(s) = 1
    BY <1>1, <1>2, <1>9
  <2>2. ToSet(s) = {h}
    BY <1>1, <1>2, <2>1 DEF ToSet
  <2>3. \A v, w : ~Before(s, v, w)
    BY <1>1, <2>2, OrderFacts
  <2>4. s = st.view
    BY <1>1, <2>3, SameOrder
  <2> QED BY <1>5, <1>9, <2>4 DEF out
<1>10. CASE h # last
  <2>1. out.view = XRestackWindows(st.view, part)
    BY <1>5, <1>10 DEF States
  <2>2. /\ out.view \in Lists /\ ToSet(out.view) = ToSet(s)
        /\ \A v, w \in ToSet(s) : Before(out.view, v, w) <=> Before(s, v, w)
    BY <1>1, <1>7, <1>8, <2>1, XRestackOrder
  <2>3. s = out.view
    BY <1>1, <2>2, SameOrder
  <2> QED BY <2>3 DEF out
<1> QED BY <1>9, <1>10

(* What the modules hear of a list that is moved: all, or of one window *)
LEMMA ListHeard ==
    ASSUME NEW st \in States, NEW l \in Lists, NEW s, NEW lower, Movable(st, l, s)
    PROVE  LET out == RestackWindowList(st, l, s, lower)
           IN  /\ Len(l) > 1 => out.view = out.ring
               /\ ~(Len(l) > 1) => Heard(out.ring, st.view, Head(l), out.view)
<1> DEFINE out == RestackWindowList(st, l, s, lower)
           W == Without(st.ring, ToSet(l))
<1>1. ListMoved(st, l, s, out) /\ ListTold(st, l, s, out)
  BY ListRestacked
<1> HIDE DEF out
<1>2. PICK m \in States :
         /\ m.ring = out.ring /\ m.view = st.view
         /\ out = IF Len(l) > 1 THEN BroadcastRestackAllWindows(m)
                  ELSE BroadcastRestack(m, PrevIn(out.ring, Head(l)), s)
  BY <1>1 DEF ListTold
<1>3. /\ out \in States /\ ToSet(out.ring) = ToSet(st.ring)
      /\ out = [st EXCEPT !.ring = PutBefore(W, l, s), !.x = out.x, !.view = out.view]
  BY <1>1 DEF ListMoved
<1>4. out.ring = PutBefore(W, l, s)
  <2>1. [st EXCEPT !.ring = PutBefore(W, l, s), !.x = out.x, !.view = out.view].ring
           = PutBefore(W, l, s)
    BY DEF States
  <2> QED BY <1>3, <2>1
<1>5. /\ W \in Lists /\ ToSet(W) = ToSet(st.ring) \ ToSet(l)
  BY WithoutOrder DEF States
<1>6. /\ l # <<>> /\ ToSet(l) \subseteq ToSet(st.ring) /\ s \in ToSet(W) \cup {Root}
      /\ Head(l) \in ToSet(l)
  BY <1>5, HeadOrder DEF Movable
<1> HIDE DEF W
<1>7. out.ring # <<>>
  BY <1>3, <1>6, EmptyList DEF States
<1>8. ASSUME Len(l) > 1 PROVE out.view = out.ring
  BY <1>2, <1>7, <1>8, AllTold
<1>9. ASSUME ~(Len(l) > 1) PROVE Heard(out.ring, st.view, Head(l), out.view)
  <2> DEFINE u == Head(l)
  <2>1. l = <<u>> /\ ToSet(l) = {u}
    <3>1. Len(l) \in Nat /\ Len(l) # 0 /\ l \in Seq(Windows)
      BY <1>6, EmptyList DEF Lists
    <3>2. Len(l) = 1
      BY <1>9, <3>1
    <3>3. l = <<u>>
      BY <3>1, <3>2
    <3> QED BY <1>6, <3>3, OneWindow, EmptyList
  <2>2. u \in Windows \ ToSet(W)
    BY <1>5, <1>6, EmptyList
  <2>3. NextIn(out.ring, u) = s
    BY <1>4, <1>5, <1>6, <2>1, <2>2, NextOfPut
  <2>4. out = BroadcastRestack(m, PrevIn(m.ring, u), NextIn(m.ring, u)) /\ u \in ToSet(m.ring)
    BY <1>2, <1>3, <1>6, <1>9, <2>3
  <2> HIDE DEF u
  <2>5. Heard(m.ring, m.view, u, out.view)
    BY <2>4, ToldAround
  <2> QED BY <1>2, <2>5 DEF u
<1> QED BY <1>8, <1>9 DEF out

(* What the modules hear of RestackWindow: nothing, all, or of the one window *)
Outcome(st, u, mode, num, out) ==
    \/ mode # "restack" /\ ~MustMoveTransients(st, u, mode) /\ IsPlaced(st, u, mode) /\ out = st
    \/ out.view = out.ring
    \/ /\ \A v, w : v # u /\ w # u /\ Before(st.ring, v, w) => Before(out.ring, v, w)
       /\ Heard(out.ring, st.view, u, out.view)
       /\ out.ring = st.ring \/ mode = "restack" \/ Group(st, u, mode, num) = {u}

LEMMA RestackHeard ==
    ASSUME NEW st \in States, NEW t \in ToSet(st.ring), NEW mode \in Modes,
           NEW num \in [Windows -> Int]
    PROVE  Outcome(st, t, mode, num, RestackWindow(st, t, mode, num))
<1> DEFINE scope == Scope(st, t)
           moves == MustMoveTransients(st, t, mode)
           from == From(st, mode)
           tree == MarkTransientSubtree(from, num, t, scope, mode)
           keep == [keep |-> TRUE, tree |-> DOMAIN tree, leader |-> Leaders(from, scope)]
           movers == IF moves THEN DOMAIN tree \ {t} ELSE {}
           first == SortTransientRing(Only(st.ring, movers), tree)
           list == Append(first, t)
           s == InsertBeforeWindow(st, Without(st.ring, movers), t, mode)
           marked == [st EXCEPT !.marks = keep]
           cleared == [st EXCEPT !.marks = IF moves THEN NoMarks ELSE st.marks]
           out == RestackWindow(st, t, mode, num)
<1>1. /\ st.ring \in Lists /\ t \in Windows /\ ToSet(st.ring) \subseteq Windows
      /\ st.marks \in Marks
  BY EmptyList DEF States
<1>2. scope \in SUBSET Windows /\ scope \subseteq ToSet(st.ring)
  BY <1>1 DEF Scope, InLayer
<1>3. from \in States
  BY FromType
<1>4. out = IF mode # "restack" /\ ~moves /\ IsPlaced(st, t, mode) THEN st
            ELSE IF mode # "restack" /\ moves /\ IsStraight(st, tree, t, mode)
            THEN BroadcastRestack(marked, PrevIn(st.ring, t), NextIn(st.ring, t))
            ELSE RestackWindowList(cleared, list, s, mode = "lower")
  BY DEF RestackWindow, Scope, From
<1>5. Group(st, t, mode, num) = {t} \cup movers
  <2>1. tree = Tree(st, t, mode, num)
    BY DEF Tree
  <2>2. t \in DOMAIN tree
    BY <1>1, <1>2, <1>3, TreeFacts
  <2> QED BY <2>1, <2>2 DEF Group
<1>6. mode # "restack" => movers \subseteq ToSet(st.ring)
  <2> SUFFICES ASSUME mode # "restack" PROVE movers \subseteq ToSet(st.ring)
    OBVIOUS
  <2>1. tree = Tree(st, t, mode, num)
    BY DEF Tree
  <2>2. DOMAIN tree \subseteq scope
    BY <2>1, TreeInScope DEF Modes
  <2> QED BY <1>2, <2>2
<1> HIDE DEF scope, from, out
<1>7. tree \in Trees /\ t \in DOMAIN tree
  BY <1>1, <1>2, <1>3, TreeFacts
<1> HIDE DEF tree
<1>8. keep \in Marks
  <2>1. Leaders(from, scope) \in [Windows -> Windows \cup {Root}]
    BY <1>3, LeadersType
  <2>2. DOMAIN tree \subseteq Windows
    BY <1>7 DEF Trees
  <2> QED BY <2>1, <2>2 DEF Marks
<1> HIDE DEF keep
<1>9. movers \subseteq DOMAIN tree /\ t \notin movers
  OBVIOUS
<1> HIDE DEF movers
<1>10. CASE mode # "restack" /\ ~moves /\ IsPlaced(st, t, mode)
  BY <1>4, <1>10 DEF Outcome, out
<1>11. CASE mode # "restack" /\ moves /\ IsStraight(st, tree, t, mode)
  <2>1. out = BroadcastRestack(marked, PrevIn(st.ring, t), NextIn(st.ring, t))
    BY <1>4, <1>11
  <2>2. marked \in States /\ marked.ring = st.ring
    BY <1>8, MarksKept
  <2>3. marked.view = st.view
    BY DEF States
  <2> HIDE DEF marked, moves
  <2>4. Heard(st.ring, st.view, t, out.view)
    BY <2>1, <2>2, <2>3, ToldAround
  <2>5. out.ring = st.ring
    <3>1. Spans(marked, PrevIn(st.ring, t), NextIn(st.ring, t))
      BY <2>2, AroundSpans
    <3>2. ViewChanges(marked, out)
      BY <2>1, <2>2, <3>1, Told
    <3> QED BY <2>2, <3>2, ViewKept
  <2> QED BY <2>4, <2>5 DEF Outcome, out
<1>12. CASE /\ ~(mode # "restack" /\ ~moves /\ IsPlaced(st, t, mode))
            /\ ~(mode # "restack" /\ moves /\ IsStraight(st, tree, t, mode))
  <2>1. out = RestackWindowList(cleared, list, s, mode = "lower")
    BY <1>4, <1>12
  <2>2. cleared \in States /\ cleared.ring = st.ring
    <3>1. (IF moves THEN NoMarks ELSE st.marks) \in Marks
      BY <1>1, NoMarksType
    <3> QED BY <3>1, MarksKept
  <2>3. cleared.view = st.view
    BY DEF States
  <2> HIDE DEF cleared, moves
  <2>4. /\ list \in Lists /\ list # <<>>
        /\ ToSet(list) = (ToSet(st.ring) \cap movers) \cup {t}
    BY <1>7, <1>9, MoversFacts
  <2>5. s \in ToSet(Without(st.ring, movers \cup {t})) \cup {Root}
    BY <1>9, PlaceToInsert
  <2>6. Without(st.ring, ToSet(list)) = Without(st.ring, movers \cup {t})
    <3>1. ToSet(st.ring) \ ToSet(list) = ToSet(st.ring) \ (movers \cup {t})
      BY <2>4
    <3> QED BY <3>1 DEF Without
  <2>7. first \in Lists
    <3>1. Only(st.ring, movers) \in Lists /\ ToSet(Only(st.ring, movers)) \subseteq DOMAIN tree
      BY <1>1, <1>9, OnlyOrder
    <3> QED BY <1>7, <3>1, SortFacts
  <2> HIDE DEF first, s
  <2>8. ToSet(Without(st.ring, ToSet(list))) = ToSet(st.ring) \ ToSet(list)
    BY <1>1, WithoutOrder
  <2>9. Movable(cleared, list, s)
    <3>1. ToSet(list) \subseteq ToSet(st.ring)
      BY <2>4
    <3> QED BY <2>2, <2>4, <2>5, <2>6, <2>8, <3>1 DEF Movable
  <2>10. /\ Len(list) > 1 => out.view = out.ring
         /\ ~(Len(list) > 1) => Heard(out.ring, st.view, Head(list), out.view)
         /\ ListMoved(cleared, list, s, out)
    <3> HIDE DEF list
    <3> QED BY <2>1, <2>2, <2>3, <2>4, <2>9, ListHeard, ListRestacked
  <2>11. CASE Len(list) > 1
    BY <2>10, <2>11 DEF Outcome, out
  <2>12. CASE ~(Len(list) > 1)
    <3>1. first = <<>>
      <4>1. Len(list) = Len(first) + 1 /\ Len(first) \in Nat
        BY <2>7, EmptyList DEF Lists
      <4>2. Len(first) = 0
        BY <2>12, <4>1
      <4> QED BY <2>7, <4>2, EmptyList
    <3>2. list = <<t>> /\ Head(list) = t
      BY <3>1
    <3> HIDE DEF list
    <3>3. ToSet(list) = {t}
      BY <1>1, <3>2, OneWindow
    <3>4. mode = "restack" \/ Group(st, t, mode, num) = {t}
      BY <1>5, <1>6, <2>4, <3>3
    <3> DEFINE W == Without(st.ring, {t})
    <3>5. out.ring = PutBefore(W, list, s)
      <4>1. out = [cleared EXCEPT !.ring = PutBefore(Without(cleared.ring, ToSet(list)), list, s),
                                  !.x = out.x, !.view = out.view]
        BY <2>10 DEF ListMoved
      <4>2. PutBefore(Without(cleared.ring, ToSet(list)), list, s) = PutBefore(W, list, s)
        BY <2>2, <3>3
      <4> HIDE DEF W
      <4> QED BY <2>2, <4>1, <4>2 DEF States
    <3>6. /\ W \in Lists /\ ToSet(W) = ToSet(st.ring) \ {t}
          /\ \A v, w : Before(W, v, w) <=> v # t /\ w # t /\ Before(st.ring, v, w)
      BY <1>1, WithoutOrder
    <3>7. s \in ToSet(W) \cup {Root}
      BY <2>5, <2>6, <3>3
    <3> HIDE DEF W
    <3>8. \A v, w : v # t /\ w # t /\ Before(st.ring, v, w) => Before(out.ring, v, w)
      BY <2>4, <3>3, <3>5, <3>6, <3>7, PutBeforeOrder
    <3> QED BY <2>10, <2>12, <3>2, <3>4, <3>8 DEF Outcome, out
  <2> QED BY <2>11, <2>12
<1> QED BY <1>10, <1>11, <1>12

(* An operation has left the modules right within each layer but for one window, the
   first of its layer. *)
RightButOne(st) ==
    \/ st.view = st.ring
    \/ \E s \in ToSet(st.ring) : /\ \E v : Before(st.ring, v, s)
                                 /\ IsPlaced(st, s, "raise")
                                 /\ AgreeIn(st.layer, st.ring, st.view, {s})

LEMMA SameView ==
    ASSUME NEW st \in States, Agree(st.ring, st.view, {})
    PROVE  st.view = st.ring
<1>1. /\ st.ring \in Lists /\ st.view \in Lists /\ ToSet(st.ring) = ToSet(st.view)
      /\ \A v, w \in ToSet(st.ring) : Before(st.ring, v, w) => Before(st.view, v, w)
  BY DEF States, Agree
<1> QED BY <1>1, SameOrder

(* What others show is right if only u has moved. *)
LEMMA MovedAgree ==
    ASSUME NEW before \in Lists, NEW after \in Lists, ToSet(after) = ToSet(before), NEW u,
           \A v, w : v # u /\ w # u /\ Before(before, v, w) => Before(after, v, w)
    PROVE  /\ \A shown, S : Agree(before, shown, S) => Agree(after, shown, S \cup {u})
           /\ \A layers, shown, S : AgreeIn(layers, before, shown, S) =>
                                       AgreeIn(layers, after, shown, S \cup {u})
<1>1. ASSUME NEW v, NEW w, v # u, w # u, Before(after, v, w) PROVE Before(before, v, w)
  <2>1. v \in ToSet(before) /\ w \in ToSet(before) /\ v # w /\ ~Before(after, w, v)
    BY <1>1, OrderFacts
  <2>2. Before(before, v, w) \/ Before(before, w, v)
    BY <2>1, OrderFacts
  <2> QED BY <1>1, <2>1, <2>2
<1>2. ASSUME NEW shown, NEW S, Agree(before, shown, S) PROVE Agree(after, shown, S \cup {u})
  BY <1>1, <1>2 DEF Agree
<1>3. ASSUME NEW layers, NEW shown, NEW S, AgreeIn(layers, before, shown, S)
      PROVE  AgreeIn(layers, after, shown, S \cup {u})
  BY <1>1, <1>3 DEF AgreeIn
<1> QED BY <1>2, <1>3

(* The window below u, if it is in another layer, is the first of it. *)
LEMMA NextPlaced ==
    ASSUME NEW st \in States, NEW u \in ToSet(st.ring), NextIn(st.ring, u) # Root,
           st.layer[NextIn(st.ring, u)] # st.layer[u]
    PROVE  LET q == NextIn(st.ring, u)
           IN  /\ q \in ToSet(st.ring) /\ Before(st.ring, u, q) /\ IsPlaced(st, q, "raise")
<1> DEFINE q == NextIn(st.ring, u)
           n == PrevIn(st.ring, q)
<1>1. st.ring \in Lists
  BY DEF States
<1>2. /\ q \in ToSet(st.ring) /\ q # Root /\ st.layer[q] # st.layer[u]
      /\ \A v : Before(st.ring, v, q) <=> v = u \/ Before(st.ring, v, u)
  BY <1>1, AroundFacts
<1> HIDE DEF q
<1>3. /\ n = Root => \A v : ~Before(st.ring, v, q)
      /\ n # Root => \A v : Before(st.ring, v, q) <=> v = n \/ Before(st.ring, v, n)
  BY <1>1, <1>2, AroundFacts
<1> HIDE DEF n
<1>4. n = u
  <2>1. Before(st.ring, u, q)
    BY <1>2
  <2>2. n # Root /\ (u = n \/ Before(st.ring, u, n))
    BY <1>3, <2>1
  <2>3. n = u \/ Before(st.ring, n, u)
    BY <1>2, <1>3, <2>2
  <2> QED BY <1>1, <2>2, <2>3, OrderFacts
<1> QED BY <1>2, <1>4 DEF IsPlaced, q, n

(* Around a window at the bottom of its layer *)
LEMMA BottomFacts ==
    ASSUME NEW order \in Lists, NEW layers, \A v \in ToSet(order) : layers[v] \in Int,
           Sorted(order, layers), NEW u \in ToSet(order),
           \A v \in ToSet(order) \ {u} : layers[v] = layers[u] => Before(order, v, u)
    PROVE  LET r == PrevIn(order, u)
               q == NextIn(order, u)
           IN  /\ q # Root => layers[q] < layers[u]
               /\ \A v \in ToSet(order) : layers[v] < layers[u] =>
                                             q # Root /\ (v = q \/ Before(order, q, v))
               /\ \A v \in ToSet(order) \ {u} : layers[v] = layers[u] =>
                     r # Root /\ layers[r] = layers[u] /\ (v = r \/ Before(order, v, r))
<1> DEFINE r == PrevIn(order, u)
           q == NextIn(order, u)
<1>1. /\ r \in (ToSet(order) \ {u}) \cup {Root} /\ q \in (ToSet(order) \ {u}) \cup {Root}
      /\ r = Root => \A v : ~Before(order, v, u)
      /\ r # Root => \A v : Before(order, v, u) <=> v = r \/ Before(order, v, r)
      /\ q = Root => \A v : ~Before(order, u, v)
      /\ q # Root => \A v : Before(order, u, v) <=> v = q \/ Before(order, q, v)
  BY AroundFacts
<1> HIDE DEF r, q
<1>2. /\ \A v, w : Before(order, v, w) => ~Before(order, w, v)
      /\ \A v, w \in ToSet(order) : v = w \/ Before(order, v, w) \/ Before(order, w, v)
      /\ \A v, w : Before(order, v, w) => layers[v] >= layers[w]
  BY OrderFacts DEF Sorted
<1>3. ASSUME q # Root PROVE layers[q] < layers[u]
  <2>1. Before(order, u, q) /\ q \in ToSet(order) \ {u}
    BY <1>1, <1>3
  <2>2. layers[u] >= layers[q] /\ layers[q] # layers[u]
    BY <1>2, <2>1
  <2>3. layers[u] \in Int /\ layers[q] \in Int
    BY <2>1
  <2> QED BY <2>2, <2>3
<1>4. ASSUME NEW v \in ToSet(order), layers[v] < layers[u]
      PROVE  q # Root /\ (v = q \/ Before(order, q, v))
  <2>1. layers[v] \in Int /\ layers[u] \in Int
    OBVIOUS
  <2>2. v # u /\ ~Before(order, v, u)
    BY <1>2, <1>4, <2>1
  <2> QED BY <1>1, <1>2, <2>2
<1>5. ASSUME NEW v \in ToSet(order) \ {u}, layers[v] = layers[u]
      PROVE  r # Root /\ layers[r] = layers[u] /\ (v = r \/ Before(order, v, r))
  <2>1. Before(order, v, u)
    BY <1>5
  <2>2. r # Root /\ (v = r \/ Before(order, v, r)) /\ Before(order, r, u) /\ r \in ToSet(order)
    BY <1>1, <2>1
  <2>3. layers[r] >= layers[u] /\ (v = r \/ layers[v] >= layers[r])
    BY <1>2, <2>2
  <2>4. layers[v] \in Int /\ layers[u] \in Int /\ layers[r] \in Int
    BY <2>2
  <2> QED BY <1>5, <2>2, <2>3, <2>4
<1> QED BY <1>3, <1>4, <1>5 DEF r, q

(* While the leaders of t are raised, t is shown on top, where it may not be. *)
RaisePhase(st, t) ==
    /\ Agree(st.ring, st.view, {t})
    /\ st.view = st.ring \/ \E v : Before(st.ring, v, t)

LEMMA RaiseStep ==
    ASSUME NEW st \in States, NEW t \in ToSet(st.ring), NEW u \in Scope(st, t) \ {t},
           NEW num \in [Windows -> Int], Sorted(st.ring, st.layer),
           t \notin Group(st, u, "raise", num), RaisePhase(st, t)
    PROVE  RaisePhase(RestackWindow(st, u, "raise", num), t)
<1> DEFINE out == RestackWindow(st, u, "raise", num)
<1>1. u \in ToSet(st.ring) /\ t \in Scope(st, u)
  BY DEF Scope, InLayer
<1>2. Gathered(st, u, "raise", num, out.ring) /\ Outcome(st, u, "raise", num, out) /\ Kept(st, out)
  BY <1>1, RestackGathers, RestackHeard, WindowRestacked DEF Modes, WindowMoved
<1>3. /\ st.ring \in Lists /\ st.view \in Lists /\ ToSet(st.view) = ToSet(st.ring)
      /\ out \in States /\ out.ring \in Lists /\ ToSet(out.ring) = ToSet(st.ring)
  BY <1>2 DEF Kept, States
<1> HIDE DEF out
<1>4. CASE out = st
  BY <1>4 DEF out
<1>5. CASE out.view = out.ring
  BY <1>5 DEF RaisePhase, Agree, out
<1>6. CASE /\ \A v, w : v # u /\ w # u /\ Before(st.ring, v, w) => Before(out.ring, v, w)
           /\ Heard(out.ring, st.view, u, out.view)
  <2>1. Before(out.ring, u, t)
    BY <1>1, <1>2 DEF Gathered
  <2>2. PrevIn(out.ring, u) # t
    <3>1. t # Root
      BY <1>3, Constants, EmptyList
    <3> QED BY <1>1, <1>3, <2>1, <3>1, AroundFacts, OrderFacts
  <2>3. Agree(out.ring, st.view, {t} \cup {u})
    BY <1>3, <1>6, MovedAgree DEF RaisePhase
  <2>4. Agree(out.ring, out.view, {t})
    BY <1>1, <1>3, <1>6, <2>2, <2>3, HeardRight
  <2> QED BY <2>1, <2>4 DEF RaisePhase, out
<1> QED BY <1>2, <1>4, <1>5, <1>6 DEF Outcome

(* t is moved itself. *)
LEMMA RaiseLast ==
    ASSUME NEW st \in States, NEW t \in ToSet(st.ring), NEW num \in [Windows -> Int],
           RaisePhase(st, t)
    PROVE  RightButOne(RestackWindow(st, t, "raise", num))
<1> DEFINE out == RestackWindow(st, t, "raise", num)
<1>1. Outcome(st, t, "raise", num, out) /\ Kept(st, out)
  BY RestackHeard, WindowRestacked DEF Modes, WindowMoved
<1>2. /\ st.ring \in Lists /\ st.view \in Lists /\ ToSet(st.view) = ToSet(st.ring)
      /\ out \in States /\ out.ring \in Lists /\ ToSet(out.ring) = ToSet(st.ring)
  BY <1>1 DEF Kept, States
<1> HIDE DEF out
<1>3. CASE out = st /\ IsPlaced(st, t, "raise")
  <2>1. AgreeIn(st.layer, st.ring, st.view, {t})
    BY DEF RaisePhase, Agree, AgreeIn
  <2> QED BY <1>3, <2>1 DEF RaisePhase, RightButOne, out
<1>4. CASE out.view = out.ring
  BY <1>4 DEF RightButOne, out
<1>5. CASE /\ \A v, w : v # t /\ w # t /\ Before(st.ring, v, w) => Before(out.ring, v, w)
           /\ Heard(out.ring, st.view, t, out.view)
  <2>1. Agree(out.ring, st.view, {t} \cup {t})
    BY <1>2, <1>5, MovedAgree DEF RaisePhase
  <2>2. Agree(out.ring, st.view, {} \cup {t})
    BY <2>1 DEF Agree
  <2>3. Agree(out.ring, out.view, {})
    BY <1>2, <1>5, <2>2, HeardRight
  <2> QED BY <1>2, <2>3, SameView DEF RightButOne, out
<1> QED BY <1>1, <1>3, <1>4, <1>5 DEF Outcome

(* t is moved with its leader, and is the first of its layer then. *)
LEMMA RaiseAlong ==
    ASSUME NEW st \in States, NEW t \in ToSet(st.ring), NEW u \in Scope(st, t) \ {t},
           NEW num \in [Windows -> Int], Sorted(st.ring, st.layer),
           t \in Group(st, u, "raise", num), RaisePhase(st, t),
           \A v \in ToSet(st.ring) \ {t} : Before(st.view, t, v),
           \A v \in Scope(st, t) \ {t} : Before(RestackWindow(st, u, "raise", num).ring, t, v)
    PROVE  RightButOne(RestackWindow(st, u, "raise", num))
<1> DEFINE out == RestackWindow(st, u, "raise", num)
           r == PrevIn(out.ring, u)
<1>1. u \in ToSet(st.ring) /\ st.layer[u] = st.layer[t]
  BY DEF Scope, InLayer
<1>2. Outcome(st, u, "raise", num, out) /\ Kept(st, out)
  BY <1>1, RestackHeard, WindowRestacked DEF Modes, WindowMoved
<1>3. /\ st.ring \in Lists /\ st.view \in Lists /\ ToSet(st.view) = ToSet(st.ring)
      /\ out \in States /\ out.ring \in Lists /\ ToSet(out.ring) = ToSet(st.ring)
      /\ out.layer = st.layer
  BY <1>2 DEF Kept, States
<1>4. \A v \in Scope(st, t) \ {t} : Before(out.ring, t, v)
  OBVIOUS
<1> HIDE DEF out
<1>5. CASE ~MustMoveTransients(st, u, "raise")
  BY <1>5 DEF Group
<1>6. CASE out.view = out.ring
  BY <1>6 DEF RightButOne, out
<1>7. CASE out.ring = st.ring /\ Heard(out.ring, st.view, u, out.view)
  <2>1. t # Root /\ Before(st.ring, t, u)
    BY <1>3, <1>4, <1>7, Constants, EmptyList
  <2>2. CASE \E v : Before(st.ring, v, t)
    <3>1. IsPlaced(out, t, "raise")
      <4> DEFINE n == PrevIn(out.ring, t)
      <4> SUFFICES ASSUME n # Root, out.layer[n] = out.layer[t] PROVE FALSE
        BY DEF IsPlaced
      <4>1. n \in ToSet(out.ring) \ {t} /\ Before(out.ring, n, t)
        BY <1>3, PrevOrder
      <4> HIDE DEF n
      <4>2. n \in Scope(st, t) \ {t}
        BY <1>3, <4>1 DEF Scope, InLayer
      <4> QED BY <1>3, <1>4, <4>1, <4>2, OrderFacts
    <3>2. AgreeIn(out.layer, out.ring, out.view, {t})
      <4>1. CASE r = t
        <5>1. \A v \in ToSet(st.ring) : st.layer[v] \in Int
          BY LayerType, EmptyList, <1>3
        <5>2. Agree(st.ring, st.view, {t, u})
          BY DEF RaisePhase, Agree
        <5>3. \A v \in ToSet(st.ring) \ {t} : st.layer[v] = st.layer[t] => Before(st.ring, t, v)
          BY <1>4, <1>7 DEF Scope, InLayer
        <5>4. AgreeIn(st.layer, st.ring, out.view, {})
          BY <1>1, <1>3, <1>7, <4>1, <5>1, <5>2, <5>3, HeardBelowFirst
        <5> QED BY <1>3, <1>7, <5>4 DEF AgreeIn
      <4>2. CASE r # t
        <5>1. Agree(st.ring, st.view, {t} \cup {u})
          BY DEF RaisePhase, Agree
        <5>2. Agree(st.ring, out.view, {t})
          BY <1>1, <1>3, <1>7, <4>2, <5>1, HeardRight
        <5> QED BY <1>7, <5>2 DEF Agree, AgreeIn
      <4> QED BY <4>1, <4>2
    <3> QED BY <1>3, <1>7, <2>2, <3>1, <3>2 DEF RightButOne, out
  <2>3. CASE ~\E v : Before(st.ring, v, t)
    <3>1. st.view = st.ring
      BY <2>3 DEF RaisePhase
    <3>2. Agree(out.ring, st.view, {} \cup {u})
      BY <1>7, <3>1 DEF Agree
    <3>3. Agree(out.ring, out.view, {})
      BY <1>1, <1>3, <1>7, <3>2, HeardRight
    <3> QED BY <1>3, <3>3, SameView DEF RightButOne, out
  <2> QED BY <2>2, <2>3
<1>8. Group(st, u, "raise", num) # {u}
  OBVIOUS
<1> QED BY <1>2, <1>5, <1>6, <1>7, <1>8 DEF Outcome

(* While the leaders of t are lowered, t is shown at the bottom, where it may not be;
   once one of them was put below it there, the first window of the next layers, s,
   is misplaced with it. *)
LowerStart(st, t) ==
    /\ Agree(st.ring, st.view, {t})
    /\ \A v \in ToSet(st.ring) \ {t} : Before(st.view, v, t)
FirstBelow(st, t, s) ==
    /\ s \in ToSet(st.ring) /\ st.layer[s] < st.layer[t]
    /\ \A v \in ToSet(st.ring) : st.layer[v] < st.layer[t] => v = s \/ Before(st.ring, s, v)
LowerOff(st, t) ==
    \E s : /\ FirstBelow(st, t, s) /\ AgreeIn(st.layer, st.ring, st.view, {t, s})
           /\ \E v \in Scope(st, t) : Before(st.ring, t, v)
LowerPhase(st, t) == st.view = st.ring \/ LowerStart(st, t) \/ LowerOff(st, t)

(* What lowering u comes to if the modules hear of u only *)
Lowered(st, u, out) ==
    /\ out \in States /\ Kept(st, out) /\ Sorted(out.ring, st.layer)
    /\ \A v \in Scope(st, u) \ {u} : Before(out.ring, v, u)
    /\ \A v, w : v # u /\ w # u /\ Before(st.ring, v, w) => Before(out.ring, v, w)
    /\ Heard(out.ring, st.view, u, out.view)

LEMMA LowerHeard ==
    ASSUME NEW st \in States, NEW u \in ToSet(st.ring), NEW num \in [Windows -> Int],
           Sorted(st.ring, st.layer)
    PROVE  LET out == RestackWindow(st, u, "lower", num)
           IN  \/ out = st /\ IsPlaced(st, u, "lower") /\ ~MustMoveTransients(st, u, "lower")
               \/ out.view = out.ring
               \/ /\ Lowered(st, u, out)
                  /\ out.ring = st.ring \/ Group(st, u, "lower", num) = {u}
                  /\ MustMoveTransients(st, u, "lower") \/ ~IsPlaced(st, u, "lower")
<1> DEFINE out == RestackWindow(st, u, "lower", num)
<1>1. /\ Gathered(st, u, "lower", num, out.ring) /\ Outcome(st, u, "lower", num, out)
      /\ Kept(st, out) /\ Sorted(out.ring, st.layer)
  BY RestackGathers, RestackHeard, WindowRestacked DEF Modes, WindowMoved
<1>2. IsPlaced(st, u, "lower") /\ ~MustMoveTransients(st, u, "lower") => out = st
  BY DEF RestackWindow
<1> HIDE DEF out
<1>3. ASSUME NEW v \in Scope(st, u) \ {u} PROVE Before(out.ring, v, u)
  BY <1>1, <1>3 DEF Gathered
<1> QED BY <1>1, <1>2, <1>3 DEF Outcome, Lowered, Kept, out

LEMMA LoweredFacts ==
    ASSUME NEW st \in States, NEW u \in ToSet(st.ring), NEW out, Lowered(st, u, out)
    PROVE  LET r == PrevIn(out.ring, u)
               q == NextIn(out.ring, u)
           IN  /\ st.ring \in Lists /\ st.view \in Lists /\ ToSet(st.view) = ToSet(st.ring)
               /\ out.ring \in Lists /\ out.view \in Lists
               /\ ToSet(out.ring) = ToSet(st.ring) /\ ToSet(out.view) = ToSet(st.ring)
               /\ out.layer = st.layer /\ Root \notin ToSet(st.ring)
               /\ \A v \in ToSet(st.ring) : st.layer[v] \in Int
               /\ q # Root => /\ q \in ToSet(st.ring) /\ FirstBelow(out, u, q)
                              /\ Before(out.ring, u, q) /\ IsPlaced(out, q, "raise")
               /\ \A s : FirstBelow(st, u, s) => s = q
               /\ \A v \in Scope(st, u) \ {u} :
                     r # Root /\ st.layer[r] = st.layer[u] /\ (v = r \/ Before(out.ring, v, r))
<1> DEFINE r == PrevIn(out.ring, u)
           q == NextIn(out.ring, u)
<1>1. /\ st.ring \in Lists /\ st.view \in Lists /\ ToSet(st.view) = ToSet(st.ring)
      /\ out.ring \in Lists /\ out.view \in Lists
      /\ ToSet(out.ring) = ToSet(st.ring) /\ ToSet(out.view) = ToSet(st.ring)
      /\ out.layer = st.layer /\ out \in States
  BY DEF Lowered, Kept, States
<1>2. Root \notin ToSet(st.ring) /\ \A v \in ToSet(st.ring) : st.layer[v] \in Int
  BY <1>1, Constants, EmptyList, LayerType
<1>3. \A v \in ToSet(out.ring) \ {u} : st.layer[v] = st.layer[u] => Before(out.ring, v, u)
  BY <1>1 DEF Lowered, Scope, InLayer
<1>4. /\ q # Root => st.layer[q] < st.layer[u]
      /\ \A v \in ToSet(out.ring) : st.layer[v] < st.layer[u] =>
                                        q # Root /\ (v = q \/ Before(out.ring, q, v))
      /\ \A v \in ToSet(out.ring) \ {u} : st.layer[v] = st.layer[u] =>
            r # Root /\ st.layer[r] = st.layer[u] /\ (v = r \/ Before(out.ring, v, r))
  BY <1>1, <1>2, <1>3, BottomFacts DEF Lowered
<1>5. q \in (ToSet(st.ring) \ {u}) \cup {Root}
  BY <1>1, AroundFacts
<1>6. q # Root => st.layer[q] # st.layer[u]
  BY <1>2, <1>4, <1>5
<1>7. q # Root => /\ q \in ToSet(st.ring) /\ FirstBelow(out, u, q)
                  /\ Before(out.ring, u, q) /\ IsPlaced(out, q, "raise")
  BY <1>1, <1>4, <1>5, <1>6, NextPlaced DEF FirstBelow
<1> HIDE DEF q, r
<1>8. ASSUME NEW s, FirstBelow(st, u, s) PROVE s = q
  <2>1. s \in ToSet(st.ring) /\ st.layer[s] < st.layer[u]
    BY <1>8 DEF FirstBelow
  <2>2. q # Root /\ (s = q \/ Before(out.ring, q, s))
    BY <1>1, <1>4, <2>1
  <2>3. q \in ToSet(st.ring) /\ st.layer[q] < st.layer[u]
    BY <1>4, <1>5, <2>2
  <2>4. q = s \/ Before(st.ring, s, q)
    BY <1>8, <2>3 DEF FirstBelow
  <2>5. q # u /\ s # u
    BY <1>2, <2>1, <2>3
  <2>6. Before(st.ring, s, q) => Before(out.ring, s, q)
    BY <2>5 DEF Lowered
  <2> QED BY <1>1, <2>2, <2>4, <2>6, OrderFacts
<1>9. \A v \in Scope(st, u) \ {u} : v \in ToSet(out.ring) \ {u} /\ st.layer[v] = st.layer[u]
  BY <1>1 DEF Scope, InLayer
<1> QED BY <1>1, <1>2, <1>4, <1>7, <1>8, <1>9 DEF q, r

LEMMA LowerStep ==
    ASSUME NEW st \in States, NEW t \in ToSet(st.ring), NEW u \in Scope(st, t) \ {t},
           NEW num \in [Windows -> Int], Sorted(st.ring, st.layer), LowerPhase(st, t),
           LowerStart(st, t) \/ ~MustMoveTransients(st, u, "lower")
    PROVE  LowerPhase(RestackWindow(st, u, "lower", num), t)
<1> DEFINE out == RestackWindow(st, u, "lower", num)
           r == PrevIn(out.ring, u)
           q == NextIn(out.ring, u)
<1>1. /\ u \in ToSet(st.ring) /\ st.layer[u] = st.layer[t]
      /\ \A v : v \in Scope(st, t) <=> v \in Scope(st, u)
  BY DEF Scope, InLayer
<1>2. \/ out = st /\ IsPlaced(st, u, "lower") /\ ~MustMoveTransients(st, u, "lower")
      \/ out.view = out.ring
      \/ /\ Lowered(st, u, out)
         /\ MustMoveTransients(st, u, "lower") \/ ~IsPlaced(st, u, "lower")
  BY <1>1, LowerHeard
<1> HIDE DEF out
<1>3. CASE out = st
  BY <1>3 DEF out
<1>4. CASE out.view = out.ring
  BY <1>4 DEF LowerPhase, out
<1>5. CASE /\ Lowered(st, u, out)
           /\ MustMoveTransients(st, u, "lower") \/ ~IsPlaced(st, u, "lower")
  <2>1. /\ st.ring \in Lists /\ st.view \in Lists /\ ToSet(st.view) = ToSet(st.ring)
        /\ out.ring \in Lists /\ out.view \in Lists
        /\ ToSet(out.ring) = ToSet(st.ring) /\ ToSet(out.view) = ToSet(st.ring)
        /\ out.layer = st.layer /\ Root \notin ToSet(st.ring)
        /\ \A v \in ToSet(st.ring) : st.layer[v] \in Int
        /\ q # Root => /\ q \in ToSet(st.ring) /\ FirstBelow(out, u, q)
        /\ \A s : FirstBelow(st, u, s) => s = q
        /\ \A v \in Scope(st, u) \ {u} :
              r # Root /\ st.layer[r] = st.layer[u] /\ (v = r \/ Before(out.ring, v, r))
    BY <1>1, <1>5, LoweredFacts
  <2>2. /\ out \in States /\ Sorted(out.ring, st.layer)
        /\ \A v \in Scope(st, u) \ {u} : Before(out.ring, v, u)
        /\ \A v, w : v # u /\ w # u /\ Before(st.ring, v, w) => Before(out.ring, v, w)
        /\ Heard(out.ring, st.view, u, out.view)
    BY <1>5 DEF Lowered
  <2>3. /\ \A S : Agree(st.ring, st.view, S) => Agree(out.ring, st.view, S \cup {u})
        /\ \A S : AgreeIn(st.layer, st.ring, st.view, S) =>
                     AgreeIn(st.layer, out.ring, st.view, S \cup {u})
    BY <2>1, <2>2, MovedAgree
  <2>4. /\ t \in Scope(st, u) /\ Before(out.ring, t, u)
        /\ r # Root /\ st.layer[r] = st.layer[u] /\ (t = r \/ Before(out.ring, t, r))
        /\ \A s : FirstBelow(st, t, s) => s = q
        /\ q # Root => FirstBelow(out, t, q) /\ st.layer[q] < st.layer[u]
    <3>1. t \in Scope(st, u) \ {u}
      BY <1>1 DEF Scope, InLayer
    <3>2. \A s : /\ FirstBelow(st, t, s) <=> FirstBelow(st, u, s)
                 /\ FirstBelow(out, t, s) <=> FirstBelow(out, u, s)
      BY <1>1, <2>1 DEF FirstBelow
    <3>3. q # Root => st.layer[q] < st.layer[u]
      BY <2>1 DEF FirstBelow
    <3> QED BY <2>1, <2>2, <3>1, <3>2, <3>3
  <2>5. u # t /\ q # t
    BY <1>1, <2>1, <2>4
  <2> HIDE DEF r, q
  <2>6. CASE st.view = st.ring
    <3>1. Agree(out.ring, st.view, {} \cup {u})
      BY <2>3, <2>6 DEF Agree
    <3>2. Agree(out.ring, out.view, {})
      BY <1>1, <2>1, <2>2, <3>1, HeardRight
    <3> QED BY <2>2, <3>2, SameView DEF LowerPhase, out
  <2>7. CASE LowerStart(st, t) /\ r # t
    <3>1. Agree(out.ring, st.view, {t} \cup {u})
      BY <2>3, <2>7 DEF LowerStart
    <3>2. Agree(out.ring, out.view, {t})
      BY <1>1, <2>1, <2>2, <2>5, <2>7, <3>1, HeardRight DEF r
    <3>3. ASSUME NEW v \in ToSet(out.ring) \ {t} PROVE Before(out.view, v, t)
      <4> DEFINE around == {r, u, q} \ {Root}
      <4>1. t \notin around /\ t \in ToSet(out.ring)
        BY <2>1, <2>5, <2>7
      <4>2. /\ \A a, b \in ToSet(out.ring) \ around :
                  Before(out.view, a, b) <=> Before(st.view, a, b)
            /\ \A a \in ToSet(out.ring) \ around : \A b \in around :
                  Before(out.view, a, b) <=> Before(st.view, a, r)
        BY <2>2, <2>4 DEF Heard, r, q
      <4>3. Before(st.view, v, t)
        BY <2>1, <2>7, <3>3 DEF LowerStart
      <4>4. CASE v \notin around
        BY <4>1, <4>2, <4>3, <4>4
      <4>5. CASE v \in around
        <5>1. r \in ToSet(out.ring) \ {t}
          BY <1>1, <2>1, <2>4, <2>7, AroundFacts DEF r
        <5>2. Before(st.view, r, t)
          BY <2>1, <2>7, <5>1 DEF LowerStart
        <5>3. ~Before(st.view, t, r)
          BY <2>1, <5>2, OrderFacts
        <5>4. ~Before(out.view, t, v)
          BY <4>1, <4>2, <4>5, <5>3
        <5> QED BY <2>1, <3>3, <5>4, OrderFacts
      <4> QED BY <4>4, <4>5
    <3> QED BY <3>2, <3>3 DEF LowerPhase, LowerStart, out
  <2>8. CASE LowerStart(st, t) /\ r = t
    <3>1. Agree(out.ring, st.view, {t, u})
      BY <2>3, <2>8 DEF LowerStart, Agree
    <3>2. \A v \in ToSet(out.ring) \ {t} : Before(st.view, v, t)
      BY <2>1, <2>8 DEF LowerStart
    <3>3. /\ AgreeIn(st.layer, out.ring, out.view, {q})
          /\ q = Root => Agree(out.ring, out.view, {})
      <4>1. q # Root => st.layer[q] < st.layer[u]
        BY <2>4
      <4> QED BY <1>1, <2>1, <2>2, <2>8, <3>1, <3>2, <4>1, HeardBelowLast DEF r, q
    <3>4. CASE q = Root
      BY <2>2, <3>3, <3>4, SameView DEF LowerPhase, out
    <3>5. CASE q # Root
      <4>1. AgreeIn(out.layer, out.ring, out.view, {t, q})
        BY <2>1, <3>3 DEF AgreeIn
      <4>2. u \in Scope(out, t) /\ Before(out.ring, t, u)
        BY <1>1, <2>1, <2>4 DEF Scope, InLayer
      <4> QED BY <2>4, <3>5, <4>1, <4>2 DEF LowerPhase, LowerOff, out
    <3> QED BY <3>4, <3>5
  <2>9. CASE LowerOff(st, t) /\ ~LowerStart(st, t)
    <3>1. AgreeIn(st.layer, st.ring, st.view, {t, q}) /\ q \in ToSet(st.ring)
          /\ FirstBelow(st, t, q)
      BY <2>4, <2>9 DEF LowerOff, FirstBelow
    <3>2. q # Root /\ FirstBelow(out, t, q)
      BY <2>1, <2>4, <3>1
    <3>3. r # t
      <4> SUFFICES ASSUME r = t PROVE FALSE
        OBVIOUS
      <4>1. \A v \in Scope(st, u) \ {u} : v = t \/ Before(out.ring, v, t)
        BY <2>1 DEF r
      <4>2. PICK v \in Scope(st, u) : Before(st.ring, t, v)
        BY <1>1, <2>9 DEF LowerOff
      <4>3. ASSUME NEW w \in Scope(st, u) \ {u}, Before(st.ring, t, w) PROVE FALSE
        <5>1. Before(out.ring, t, w)
          BY <2>2, <2>5, <4>3
        <5> QED BY <2>1, <4>1, <4>3, <5>1, OrderFacts
      <4>4. v = u
        BY <4>2, <4>3
      <4>5. ~IsPlaced(st, u, "lower")
        BY <1>5, <2>9
      <4> DEFINE n == NextIn(st.ring, u)
      <4>6. n # Root /\ st.layer[n] = st.layer[u]
        BY <4>5 DEF IsPlaced
      <4>7. n \in ToSet(st.ring) \ {u} /\ Before(st.ring, u, n)
        BY <1>1, <2>1, <4>6, NextOrder
      <4> HIDE DEF n
      <4>8. n \in Scope(st, u) \ {u} /\ Before(st.ring, t, n)
        BY <2>1, <4>2, <4>4, <4>6, <4>7, OrderFacts DEF Scope, InLayer
      <4> QED BY <4>3, <4>8
    <3>4. r # q
      BY <2>1, <2>4, <3>1, <3>2
    <3>5. AgreeIn(st.layer, out.ring, st.view, {t, q} \cup {u})
      BY <2>3, <3>1
    <3>6. AgreeIn(st.layer, out.ring, out.view, {t, q})
      <4>1. u \notin {t, q} /\ r \notin {t, q} \cup {Root} /\ q \in {t, q} \cup {Root}
        BY <1>1, <2>1, <2>4, <2>5, <3>2, <3>3, <3>4
      <4> DEFINE S == {t, q}
      <4>2. /\ u \notin S /\ r \notin S \cup {Root} /\ q \in S \cup {Root}
            /\ AgreeIn(st.layer, out.ring, st.view, S \cup {u})
        BY <3>5, <4>1
      <4> HIDE DEF S
      <4>3. AgreeIn(st.layer, out.ring, out.view, S)
        BY <1>1, <2>1, <2>2, <2>4, <4>2, HeardIn DEF r, q
      <4> QED BY <4>3 DEF S
    <3>7. u \in Scope(out, t) /\ Before(out.ring, t, u)
      BY <1>1, <2>1, <2>4 DEF Scope, InLayer
    <3> QED BY <2>1, <3>2, <3>6, <3>7 DEF LowerPhase, LowerOff, out
  <2> QED BY <2>6, <2>7, <2>8, <2>9 DEF LowerPhase
<1> QED BY <1>2, <1>3, <1>4, <1>5

LEMMA LowerLast ==
    ASSUME NEW st \in States, NEW t \in ToSet(st.ring), NEW num \in [Windows -> Int],
           Sorted(st.ring, st.layer), LowerPhase(st, t),
           LowerStart(st, t) \/ ~MustMoveTransients(st, t, "lower")
    PROVE  RightButOne(RestackWindow(st, t, "lower", num))
<1> DEFINE out == RestackWindow(st, t, "lower", num)
           r == PrevIn(out.ring, t)
           q == NextIn(out.ring, t)
<1>1. \/ out = st /\ IsPlaced(st, t, "lower") /\ ~MustMoveTransients(st, t, "lower")
      \/ out.view = out.ring
      \/ Lowered(st, t, out)
  BY LowerHeard
<1>2. /\ st.ring \in Lists /\ st.view \in Lists /\ ToSet(st.view) = ToSet(st.ring)
      /\ Root \notin ToSet(st.ring) /\ \A v \in ToSet(st.ring) : st.layer[v] \in Int
  BY Constants, EmptyList, LayerType DEF States
<1> HIDE DEF out
<1>3. CASE out.view = out.ring
  BY <1>3 DEF RightButOne, out
<1>4. CASE out = st /\ IsPlaced(st, t, "lower") /\ st.view # st.ring
  <2> DEFINE n == NextIn(st.ring, t)
  <2>1. /\ n \in (ToSet(st.ring) \ {t}) \cup {Root}
        /\ n = Root => \A v : ~Before(st.ring, t, v)
        /\ n # Root => /\ Before(st.ring, t, n)
                       /\ \A v : Before(st.ring, t, v) <=> v = n \/ Before(st.ring, n, v)
    BY <1>2, AroundFacts
  <2>2. n = Root \/ st.layer[n] # st.layer[t]
    BY <1>4 DEF IsPlaced
  <2>3. n # Root => IsPlaced(st, n, "raise")
    BY <2>2, NextPlaced
  <2> HIDE DEF n
  <2>4. ASSUME NEW v, Before(st.ring, t, v) PROVE st.layer[v] < st.layer[t]
    <3>1. n # Root /\ (v = n \/ Before(st.ring, n, v)) /\ v \in ToSet(st.ring)
          /\ n \in ToSet(st.ring)
      BY <1>2, <2>1, <2>4, OrderFacts
    <3>2. st.layer[t] >= st.layer[n] /\ st.layer[n] # st.layer[t]
          /\ (v = n \/ st.layer[n] >= st.layer[v])
      BY <2>1, <2>2, <3>1 DEF Sorted
    <3>3. st.layer[t] \in Int /\ st.layer[n] \in Int /\ st.layer[v] \in Int
      BY <1>2, <3>1
    <3> QED BY <3>2, <3>3
  <2>5. LowerStart(st, t)
    <3> SUFFICES ASSUME LowerOff(st, t) PROVE FALSE
      BY <1>4 DEF LowerPhase
    <3>1. PICK v \in Scope(st, t) : Before(st.ring, t, v)
      BY DEF LowerOff
    <3>2. st.layer[v] < st.layer[t] /\ st.layer[v] = st.layer[t] /\ st.layer[t] \in Int
      BY <1>2, <2>4, <3>1 DEF Scope, InLayer
    <3> QED BY <3>2
  <2>6. ASSUME NEW v, NEW w, Before(st.ring, v, w), v # t
        PROVE  Before(st.view, v, w)
    <3>1. v \in ToSet(st.ring)
      BY <1>2, <2>6, OrderFacts
    <3> QED BY <2>5, <2>6, <3>1 DEF LowerStart, Agree
  <2>7. n # Root
    <3> SUFFICES ASSUME n = Root PROVE FALSE
      OBVIOUS
    <3>1. Agree(st.ring, st.view, {})
      BY <2>1, <2>6 DEF Agree
    <3> QED BY <1>4, <3>1, SameView
  <2>8. AgreeIn(st.layer, st.ring, st.view, {n})
    <3> SUFFICES ASSUME NEW v, NEW w, st.layer[v] = st.layer[w], Before(st.ring, v, w)
                 PROVE  v # t
      BY <2>6 DEF AgreeIn
    <3> SUFFICES ASSUME v = t PROVE FALSE
      OBVIOUS
    <3>1. st.layer[w] < st.layer[t] /\ st.layer[t] \in Int
      BY <1>2, <2>4
    <3> QED BY <3>1
  <2> QED BY <1>4, <2>1, <2>3, <2>7, <2>8 DEF RightButOne, out
<1>5. CASE Lowered(st, t, out)
  <2>1. /\ out.ring \in Lists /\ out.view \in Lists
        /\ ToSet(out.ring) = ToSet(st.ring) /\ ToSet(out.view) = ToSet(st.ring)
        /\ out.layer = st.layer
        /\ q # Root => /\ q \in ToSet(st.ring) /\ Before(out.ring, t, q)
                       /\ IsPlaced(out, q, "raise")
        /\ \A s : FirstBelow(st, t, s) => s = q
        /\ \A v \in Scope(st, t) \ {t} : r # Root /\ st.layer[r] = st.layer[t]
    BY <1>5, LoweredFacts
  <2>2. /\ out \in States
        /\ \A v, w : v # t /\ w # t /\ Before(st.ring, v, w) => Before(out.ring, v, w)
        /\ Heard(out.ring, st.view, t, out.view)
    BY <1>5 DEF Lowered
  <2>3. /\ \A S : Agree(st.ring, st.view, S) => Agree(out.ring, st.view, S \cup {t})
        /\ \A S : AgreeIn(st.layer, st.ring, st.view, S) =>
                     AgreeIn(st.layer, out.ring, st.view, S \cup {t})
    BY <1>2, <2>1, <2>2, MovedAgree
  <2>4. CASE st.view = st.ring \/ LowerStart(st, t)
    <3>1. Agree(st.ring, st.view, {t})
      BY <2>4 DEF LowerStart, Agree
    <3>2. Agree(out.ring, st.view, {} \cup {t})
      BY <2>3, <3>1 DEF Agree
    <3>3. Agree(out.ring, out.view, {})
      BY <1>2, <2>1, <2>2, <3>2, HeardRight
    <3> QED BY <2>2, <3>3, SameView DEF RightButOne, out
  <2>5. CASE LowerOff(st, t)
    <3>1. AgreeIn(st.layer, st.ring, st.view, {t, q}) /\ FirstBelow(st, t, q)
      BY <2>1, <2>5 DEF LowerOff
    <3>2. q \in ToSet(st.ring) /\ q # Root /\ st.layer[q] < st.layer[t]
      BY <1>2, <3>1 DEF FirstBelow
    <3>3. PICK v \in Scope(st, t) : Before(st.ring, t, v)
      BY <2>5 DEF LowerOff
    <3>4. r # Root /\ st.layer[r] = st.layer[t]
      <4>1. v # t
        BY <1>2, <3>3, OrderFacts
      <4> QED BY <2>1, <3>3, <4>1
    <3>5. AgreeIn(st.layer, out.ring, st.view, {q} \cup {t})
      BY <2>3, <3>1 DEF AgreeIn
    <3>6. t # q /\ r # q
      BY <1>2, <3>2, <3>4
    <3> DEFINE S == {q}
    <3>7. /\ t \notin S /\ r \notin S \cup {Root} /\ q \in S \cup {Root}
          /\ AgreeIn(st.layer, out.ring, st.view, S \cup {t})
      BY <3>4, <3>5, <3>6
    <3> HIDE DEF S
    <3>8. AgreeIn(st.layer, out.ring, out.view, S)
      BY <1>2, <2>1, <2>2, <3>4, <3>7, HeardIn
    <3> HIDE DEF q
    <3>9. AgreeIn(out.layer, out.ring, out.view, {q})
      BY <2>1, <3>8 DEF S
    <3> QED BY <2>1, <3>2, <3>9 DEF RightButOne, out
  <2> QED BY <2>4, <2>5 DEF LowerPhase
<1>6. CASE out = st /\ st.view = st.ring
  BY <1>6 DEF RightButOne, out
<1> QED BY <1>1, <1>3, <1>4, <1>5, <1>6

(* t is moved with its leader and is right above it then. *)
LEMMA LowerAlong ==
    ASSUME NEW st \in States, NEW t \in ToSet(st.ring), NEW u \in Scope(st, t) \ {t},
           NEW num \in [Windows -> Int], Sorted(st.ring, st.layer),
           t \in Group(st, u, "lower", num), LowerStart(st, t),
           \A v \in Scope(st, t) \ {t, u} :
              Before(RestackWindow(st, u, "lower", num).ring, v, t)
    PROVE  RightButOne(RestackWindow(st, u, "lower", num))
<1> DEFINE out == RestackWindow(st, u, "lower", num)
           r == PrevIn(out.ring, u)
           q == NextIn(out.ring, u)
<1>1. /\ u \in ToSet(st.ring) /\ st.layer[u] = st.layer[t] /\ t \in Scope(st, u) \ {u}
      /\ \A v : v \in Scope(st, t) <=> v \in Scope(st, u)
  BY DEF Scope, InLayer
<1>2. \/ ~MustMoveTransients(st, u, "lower")
      \/ out.view = out.ring
      \/ /\ Lowered(st, u, out)
         /\ out.ring = st.ring \/ Group(st, u, "lower", num) = {u}
  BY <1>1, LowerHeard
<1>3. Group(st, u, "lower", num) # {u}
  OBVIOUS
<1>4. MustMoveTransients(st, u, "lower")
  BY DEF Group
<1>5. \A v \in Scope(st, t) \ {t, u} : Before(out.ring, v, t)
  OBVIOUS
<1> HIDE DEF out
<1>6. CASE out.view = out.ring
  BY <1>6 DEF RightButOne, out
<1>7. CASE Lowered(st, u, out) /\ out.ring = st.ring
  <2>1. /\ st.ring \in Lists /\ st.view \in Lists /\ ToSet(st.view) = ToSet(st.ring)
        /\ out.layer = st.layer /\ Root \notin ToSet(st.ring)
        /\ \A v \in ToSet(st.ring) : st.layer[v] \in Int
        /\ q # Root => /\ q \in ToSet(st.ring) /\ FirstBelow(out, u, q)
                       /\ Before(out.ring, u, q) /\ IsPlaced(out, q, "raise")
        /\ r # Root /\ st.layer[r] = st.layer[u] /\ (t = r \/ Before(out.ring, t, r))
    BY <1>1, <1>7, LoweredFacts
  <2>2. out \in States /\ Heard(st.ring, st.view, u, out.view)
    BY <1>7 DEF Lowered
  <2>3. r \in ToSet(st.ring) \ {u}
    BY <1>1, <1>7, <2>1, PrevOrder
  <2>4. q # Root => st.layer[q] < st.layer[u]
    BY <2>1 DEF FirstBelow
  <2> HIDE DEF r
  <2>5. r = t
    <3> SUFFICES ASSUME r # t PROVE FALSE
      OBVIOUS
    <3>1. r \in Scope(st, t) \ {t, u}
      BY <1>1, <2>1, <2>3 DEF Scope, InLayer
    <3> QED BY <1>5, <1>7, <2>1, <3>1, OrderFacts
  <2>6. Agree(st.ring, st.view, {t, u})
    BY DEF LowerStart, Agree
  <2>7. /\ AgreeIn(st.layer, st.ring, out.view, {q})
        /\ q = Root => Agree(st.ring, out.view, {})
    BY <1>1, <1>7, <2>1, <2>2, <2>4, <2>5, <2>6, HeardBelowLast DEF r, LowerStart
  <2> HIDE DEF q
  <2>8. CASE q = Root
    BY <1>7, <2>2, <2>7, <2>8, SameView DEF RightButOne, out
  <2>9. CASE q # Root
    BY <1>7, <2>1, <2>7, <2>9 DEF RightButOne, out
  <2> QED BY <2>8, <2>9
<1> QED BY <1>2, <1>3, <1>4, <1>6, <1>7

-----------------------------------------------------------------------------
(* What a raised or lowered window with its leaders looks like to the modules *)

(* A window whose leader does not move its transients is moved by itself only. *)
LEMMA NotAlong ==
    ASSUME NEW st \in States, HintsMayBe(st.hint), NEW t, NEW u \in ToSet(st.ring), u # t,
           NEW mode \in {"raise", "lower"}, NEW num \in [Windows -> Int],
           ~MovesTransients(LeaderOf(st, t), mode)
    PROVE  t \notin Group(st, u, mode, num)
<1>1. Grown(st, num, u, Scope(st, u), mode, Tree(st, u, mode, num))
  BY TreeIsGrown
<1>2. t \notin DOMAIN Tree(st, u, mode, num)
  BY <1>1 DEF Grown, Follows
<1> QED BY <1>2 DEF Group

(* The window that t is moved with if it is not moved itself *)
Carries(st, t, mode, u) ==
    /\ u = LeaderOf(st, t) /\ u \in Scope(st, t) \ {t} /\ u \in ToSet(st.ring)
    /\ t \in StackTransientParent /\ u \notin StackTransientParent
    /\ t \notin st.iconic /\ MustMoveTransients(st, u, mode)
    /\ t \in Group(st, u, mode, Numbers(st, t, mode))
    /\ StackParents(st, t)[1] = t /\ StackParents(st, t)[2] = u /\ Len(StackParents(st, t)) = 2

LEMMA CarriedNumbers ==
    ASSUME NEW st \in States, HintsMayBe(st.hint), NEW t \in ToSet(st.ring),
           NEW mode \in {"raise", "lower"}, NEW u, Carries(st, t, mode, u),
           RaiseTransient \cap StackTransientParent = {}, LowerTransient \subseteq RaiseTransient,
           Cardinality(Windows) <= BranchBonus
    PROVE  LET tree == Tree(st, u, mode, Numbers(st, t, mode))
           IN  \A v \in DOMAIN tree \ {t} : /\ tree[v] \in Int /\ tree[t] \in Int
                                            /\ mode = "raise" => tree[v] < tree[t]
                                            /\ mode = "lower" => tree[t] < tree[v]
<1> DEFINE up == StackParents(st, t)
           num == Numbers(st, t, mode)
           scope == Scope(st, u)
           tree == Tree(st, u, mode, num)
           c == Cardinality(Windows)
<1>1. /\ u = LeaderOf(st, t) /\ u # t /\ u \in ToSet(st.ring)
      /\ t \in StackTransientParent /\ u \notin StackTransientParent
      /\ MustMoveTransients(st, u, mode) /\ t \in Group(st, u, mode, num)
      /\ up[1] = t /\ up[2] = u /\ Len(up) = 2
  BY DEF Carries
<1>2. /\ num \in [Windows -> Int]
      /\ mode = "raise" => \A i \in 1 .. Len(up) - 1 : num[up[i]] = BranchBonus
      /\ \A w \in Windows : (\A i \in 1 .. Len(up) - 1 : w # up[i]) => num[w] = 0
  BY NumbersFacts
<1>3. up \in Seq(Windows) /\ DOMAIN up = 1 .. 2 /\ t \in Windows
  <2>1. t \in Windows
    BY EmptyList DEF States
  <2> QED BY <1>1, <2>1, ChainFacts
<1>4. mode = "raise" => num[t] = BranchBonus
  BY <1>1, <1>2
<1>5. \A w \in Windows \ {t} : num[w] = 0
  BY <1>1, <1>2
<1>6. mode = "lower" => num[t] = -LowerPenalty
  <2>1. t \in ToSet(Front(up))
    <3>1. /\ DOMAIN SubSeq(up, 1, 2 - 1) = 1 .. 2 - 1
          /\ \A d \in 1 .. 2 - 1 : SubSeq(up, 1, 2 - 1)[d] = up[d]
      BY <1>1, <1>3, FrontFacts
    <3>2. Front(up)[1] = t /\ 1 \in DOMAIN Front(up)
      BY <1>1, <3>1 DEF Front
    <3> QED BY <3>2 DEF ToSet
  <2>2. Place(up, t) = 1
    <3>1. \A i \in 1 .. 2 : up[i] = t <=> i = 1
      BY <1>1
    <3> HIDE DEF up
    <3> QED BY <1>3, <3>1 DEF Place
  <2>3. up[Place(up, t) + 1] = u
    BY <1>1, <2>2
  <2> QED BY <1>1, <1>3, <2>1, <2>3 DEF Numbers
<1>7. PICK rank : Ranked(st, rank)
  BY RankExists
<1>8. /\ rank \in [Windows -> 1 .. c] /\ c \in Nat
      /\ \A w \in Windows : LeaderOf(st, w) # Root => /\ LeaderOf(st, w) \in Windows
                                                      /\ rank[w] > rank[LeaderOf(st, w)]
  BY <1>7, Constants, FS_CardinalityType DEF Ranked
<1>9. tree \in Trees
  BY <1>1, <1>2, TreeInScope
<1>10. Grown(st, num, u, scope, mode, tree)
  BY <1>1, <1>2, TreeIsGrown
<1>11. DOMAIN tree \subseteq Windows /\ \A w \in DOMAIN tree : tree[w] \in Int
  BY <1>9 DEF Trees
<1>12. /\ u \in DOMAIN tree /\ tree[u] = num[u]
       /\ \A w \in DOMAIN tree \ {u} : /\ MovesTransients(LeaderOf(st, w), mode)
                                       /\ LeaderOf(st, w) # Root /\ LeaderOf(st, w) \in DOMAIN tree
                                       /\ tree[w] = num[w] + tree[LeaderOf(st, w)] + 1
  BY <1>10 DEF Grown, Follows
<1>13. t \in DOMAIN tree
  BY <1>1 DEF Group
<1>14. c <= BranchBonus /\ BranchBonus \in Nat /\ LowerPenalty \in Nat /\ LowerPenalty > 1
  BY DEF BranchBonus, LowerPenalty
<1>15. ~MovesTransients(t, mode)
  BY <1>1 DEF MovesTransients
<1> HIDE DEF up, num, tree, scope, c
<1>16. tree[u] = 0
  BY <1>1, <1>5, <1>11, <1>12
<1>17. tree[t] = num[t] + 1 /\ num[t] \in Int
  BY <1>1, <1>2, <1>3, <1>12, <1>13, <1>16
<1> DEFINE P == {k \in 0 .. c : \A w \in DOMAIN tree \ {t} : rank[w] <= k =>
                                    0 <= tree[w] /\ tree[w] <= rank[w]}
<1>18. \A w \in DOMAIN tree : rank[w] \in 1 .. c
  BY <1>8, <1>11
<1>19. 0 \in P
  <2>1. \A w \in DOMAIN tree : ~(rank[w] <= 0)
    BY <1>18
  <2> QED BY <1>8, <2>1
<1>20. ASSUME NEW k \in 1 .. c, k - 1 \in P PROVE k \in P
  <2>1. ASSUME NEW w \in DOMAIN tree \ {t}, rank[w] <= k
        PROVE  0 <= tree[w] /\ tree[w] <= rank[w]
    <3>1. CASE w = u
      BY <1>16, <1>18, <3>1
    <3>2. CASE w # u
      <4> DEFINE p == LeaderOf(st, w)
      <4>1. p # Root /\ p \in DOMAIN tree \ {t} /\ tree[w] = num[w] + tree[p] + 1
        BY <1>12, <1>15, <3>2
      <4>2. rank[w] > rank[p] /\ rank[p] \in 1 .. c /\ rank[w] \in 1 .. c
        BY <1>8, <1>11, <1>18, <4>1
      <4>3. num[w] = 0 /\ tree[p] \in Int
        BY <1>5, <1>11, <4>1
      <4> HIDE DEF p
      <4>4. rank[p] <= k - 1
        BY <1>8, <2>1, <4>2
      <4>5. 0 <= tree[p] /\ tree[p] <= rank[p]
        BY <1>20, <4>1, <4>4
      <4> QED BY <4>1, <4>2, <4>3, <4>5
    <3> QED BY <3>1, <3>2
  <2> QED BY <1>8, <2>1
<1>21. c \in P
  <2> HIDE DEF P
  <2>1. 0 .. c \subseteq P
    BY <1>8, <1>19, <1>20, UpTo
  <2> QED BY <1>8, <2>1
<1> SUFFICES ASSUME NEW v \in DOMAIN tree \ {t}
             PROVE  /\ tree[v] \in Int /\ tree[t] \in Int
                    /\ mode = "raise" => tree[v] < tree[t]
                    /\ mode = "lower" => tree[t] < tree[v]
  BY DEF tree, num
<1>22. 0 <= tree[v] /\ tree[v] <= c /\ tree[v] \in Int
  BY <1>8, <1>11, <1>18, <1>21
<1> QED BY <1>4, <1>6, <1>8, <1>14, <1>17, <1>22

(* With it t is raised above all of its layer, or lowered below all but its leader. *)
LEMMA CarriedEnds ==
    ASSUME NEW st \in States, HintsMayBe(st.hint), NEW t \in ToSet(st.ring),
           Sorted(st.ring, st.layer),
           NEW mode \in {"raise", "lower"}, NEW u, Carries(st, t, mode, u),
           RaiseTransient \cap StackTransientParent = {}, LowerTransient \subseteq RaiseTransient,
           Cardinality(Windows) <= BranchBonus
    PROVE  LET order == RestackWindow(st, u, mode, Numbers(st, t, mode)).ring
           IN  \A v \in Scope(st, t) \ {t} :
                  /\ mode = "raise" => Before(order, t, v)
                  /\ mode = "lower" /\ v # u => Before(order, v, t)
<1> DEFINE num == Numbers(st, t, mode)
           tree == Tree(st, u, mode, num)
           group == Group(st, u, mode, num)
           out == RestackWindow(st, u, mode, num)
<1>1. /\ u \in Scope(st, t) \ {t} /\ u \in ToSet(st.ring) /\ t \in group
      /\ MustMoveTransients(st, u, mode)
  BY DEF Carries
<1>2. num \in [Windows -> Int]
  BY NumbersFacts
<1>3. Scope(st, u) = Scope(st, t)
  BY <1>1 DEF Scope, InLayer
<1>4. Gathered(st, u, mode, num, out.ring)
  BY <1>1, <1>2, RestackGathers
<1>5. \A v \in DOMAIN tree \ {t} : /\ tree[v] \in Int /\ tree[t] \in Int
                                   /\ mode = "raise" => tree[v] < tree[t]
                                   /\ mode = "lower" => tree[t] < tree[v]
  BY CarriedNumbers
<1>6. out.ring \in Lists /\ ToSet(out.ring) = ToSet(st.ring)
  <2>1. WindowMoved(st, u, mode, out)
    BY <1>1, <1>2, WindowRestacked DEF Modes
  <2> QED BY <2>1 DEF WindowMoved, Kept, States
<1>7. group = DOMAIN tree
  BY <1>1 DEF Group
<1> HIDE DEF num, tree, group, out
<1> SUFFICES ASSUME NEW v \in Scope(st, t) \ {t}
             PROVE  /\ mode = "raise" => Before(out.ring, t, v)
                    /\ mode = "lower" /\ v # u => Before(out.ring, v, t)
  BY DEF out, num
<1>8. CASE v \notin group
  BY <1>1, <1>3, <1>4, <1>8 DEF Gathered, group, num
<1>9. CASE v = u
  BY <1>1, <1>4, <1>9 DEF Gathered, group, num
<1>10. CASE v \in group \ {u}
  <2>1. /\ Before(out.ring, v, t) => tree[v] >= tree[t]
        /\ Before(out.ring, t, v) => tree[t] >= tree[v]
    BY <1>1, <1>4, <1>10 DEF Gathered, group, tree, num
  <2>2. v \in ToSet(out.ring) /\ t \in ToSet(out.ring)
    BY <1>6 DEF Scope, InLayer
  <2>3. Before(out.ring, v, t) \/ Before(out.ring, t, v)
    BY <1>6, <2>2, OrderFacts
  <2>4. /\ tree[v] \in Int /\ tree[t] \in Int
        /\ mode = "raise" => tree[v] < tree[t]
        /\ mode = "lower" => tree[t] < tree[v]
    BY <1>5, <1>7, <1>10
  <2>5. mode = "raise" => ~(tree[v] >= tree[t])
    BY <2>4
  <2>6. mode = "lower" => ~(tree[t] >= tree[v])
    BY <2>4
  <2> QED BY <2>1, <2>3, <2>5, <2>6
<1> QED BY <1>8, <1>9, <1>10

LEMMA LeaderCarries ==
    ASSUME NEW st \in States, HintsMayBe(st.hint), NEW t \in ToSet(st.ring),
           NEW mode \in {"raise", "lower"},
           RaiseTransient \cap StackTransientParent = {}, LowerTransient \subseteq RaiseTransient,
           Len(StackParents(st, t)) # 1, MovesTransients(StackParents(st, t)[2], mode)
    PROVE  LET u == StackParents(st, t)[2]
           IN  /\ Carries(st, t, mode, u)
               /\ RaiseOrLower(st, t, mode) = RestackWindow(st, u, mode, Numbers(st, t, mode))
<1> DEFINE up == StackParents(st, t)
           n == Len(up)
           u == up[2]
           num == Numbers(st, t, mode)
<1>1. /\ n \in Nat \ {0} /\ up[1] = t
      /\ \A i \in 1 .. n : up[i] \in Scope(st, t) /\ up[i] \in ToSet(st.ring)
      /\ \A i \in 1 .. n - 1 : /\ up[i + 1] = LeaderOf(st, up[i]) /\ up[i + 1] # Root
                               /\ up[i] \notin st.iconic /\ up[i + 1] \notin st.iconic
                               /\ up[i] \in StackTransientParent /\ st.hint[up[i]] = up[i + 1]
  BY ChainFacts
<1>2. PICK rank : Ranked(st, rank)
  BY RankExists
<1>3. \A i, k \in 1 .. n : up[i] = up[k] => i = k
  BY <1>2, ChainFalls
<1>4. num \in [Windows -> Int]
  BY NumbersFacts
<1>5. PICK done : StepsTaken(st, t, mode, done)
  BY RaiseOrLowerSteps DEF Modes
<1>6. /\ done[0] = st
      /\ \A i \in 1 .. n : done[i] = OneStep(st, t, mode, up[n - i + 1], done[i - 1])
      /\ RaiseOrLower(st, t, mode) = done[n]
  BY <1>5 DEF StepsTaken
<1>7. \A i \in 1 .. n : \A s :
         OneStep(st, t, mode, up[i], s) = IF i # n /\ MovesTransients(up[i + 1], mode) THEN s
                                          ELSE RestackWindow(s, up[i], mode, num)
  BY ChainSteps
<1>8. n # 1 /\ MovesTransients(u, mode)
  OBVIOUS
<1> HIDE DEF up, n, num
<1>9. u \notin StackTransientParent
  BY <1>8 DEF MovesTransients
<1>10. n = 2
  <2> SUFFICES ASSUME n # 2 PROVE FALSE
    OBVIOUS
  <2>1. 2 \in 1 .. n - 1
    BY <1>1, <1>8
  <2> QED BY <1>1, <1>9, <2>1
<1>11. 1 \in 1 .. n /\ 2 \in 1 .. n /\ 1 \in 1 .. n - 1
  BY <1>10
<1>12. /\ u = LeaderOf(st, t) /\ u # Root /\ t \notin st.iconic /\ u \notin st.iconic
       /\ t \in StackTransientParent /\ st.hint[t] = u
       /\ u \in Scope(st, t) /\ u \in ToSet(st.ring) /\ t \in Scope(st, t) /\ u # t
  BY <1>1, <1>3, <1>11
<1>13. Scope(st, u) = Scope(st, t)
  BY <1>12 DEF Scope, InLayer
<1>14. MustMoveTransients(st, u, mode)
  BY <1>8, <1>12, <1>13 DEF MustMoveTransients, Scope
<1>15. t \in Group(st, u, mode, num)
  <2> DEFINE tree == Tree(st, u, mode, num)
  <2>1. Grown(st, num, u, Scope(st, u), mode, tree) /\ Closed(st, Scope(st, u), mode, DOMAIN tree)
    BY <1>4, <1>12, TreeIsGrown
  <2> HIDE DEF tree, u
  <2>2. t \in DOMAIN tree
    BY <1>8, <1>12, <1>13, <2>1 DEF Grown, Closed, Follows
  <2> QED BY <1>14, <2>2 DEF Group, tree
<1>16. Carries(st, t, mode, u)
  BY <1>1, <1>9, <1>10, <1>12, <1>14, <1>15 DEF Carries, up, num, n
<1>17. done[1] = RestackWindow(st, u, mode, num)
  <2>1. n - 1 + 1 = 2 /\ 1 - 1 = 0
    BY <1>10
  <2>2. done[1] = OneStep(st, t, mode, u, st)
    BY <1>6, <1>11, <2>1
  <2> QED BY <1>7, <1>10, <1>11, <2>2
<1>18. done[2] = done[1]
  <2>1. n - 2 + 1 = 1 /\ 2 - 1 = 1 /\ 1 + 1 = 2
    BY <1>10
  <2>2. done[2] = OneStep(st, t, mode, up[1], done[1])
    BY <1>6, <1>11, <2>1
  <2> QED BY <1>7, <1>8, <1>10, <1>11, <2>1, <2>2
<1> QED BY <1>6, <1>10, <1>16, <1>17, <1>18 DEF up, num

(* Otherwise the windows of the chain are moved in turn, and t last. *)
OneByOne(st, t, mode, done) ==
    LET up == StackParents(st, t)
        n == Len(up)
        num == Numbers(st, t, mode)
    IN  /\ done[0] = st /\ n \in Nat \ {0} /\ num \in [Windows -> Int]
        /\ \A i \in 0 .. n : /\ done[i] \in States /\ t \in ToSet(done[i].ring)
                             /\ Sorted(done[i].ring, done[i].layer)
        /\ \A i \in 1 .. n - 1 :
              LET u == up[n - i + 1]
                  s == done[i - 1]
              IN  /\ u \in Scope(s, t) \ {t} /\ t \notin Group(s, u, mode, num)
                  /\ done[i] \in {s, RestackWindow(s, u, mode, num)}
                  /\ i # 1 => ~MustMoveTransients(s, u, mode)
        /\ RaiseOrLower(st, t, mode) = RestackWindow(done[n - 1], t, mode, num)
        /\ n # 1 => ~MustMoveTransients(done[n - 1], t, mode)

LEMMA ChainOneByOne ==
    ASSUME NEW st \in States, HintsMayBe(st.hint), NEW t \in ToSet(st.ring),
           Sorted(st.ring, st.layer), NEW mode \in {"raise", "lower"},
           RaiseTransient \cap StackTransientParent = {}, LowerTransient \subseteq RaiseTransient,
           ~(Len(StackParents(st, t)) # 1 /\ MovesTransients(StackParents(st, t)[2], mode))
    PROVE  \E done : OneByOne(st, t, mode, done)
<1> DEFINE up == StackParents(st, t)
           n == Len(up)
           num == Numbers(st, t, mode)
<1>1. /\ n \in Nat \ {0} /\ up[1] = t
      /\ \A i \in 1 .. n : up[i] \in Scope(st, t) /\ up[i] \in ToSet(st.ring)
      /\ \A i \in 1 .. n - 1 : /\ up[i + 1] = LeaderOf(st, up[i])
                               /\ up[i] \in StackTransientParent
  BY ChainFacts
<1>2. PICK rank : Ranked(st, rank)
  BY RankExists
<1>3. \A i, k \in 1 .. n : up[i] = up[k] => i = k
  BY <1>2, ChainFalls
<1>4. num \in [Windows -> Int]
  BY NumbersFacts
<1>5. PICK done : StepsTaken(st, t, mode, done)
  BY RaiseOrLowerSteps DEF Modes
<1>6. /\ done[0] = st
      /\ \A i \in 1 .. n : done[i] = OneStep(st, t, mode, up[n - i + 1], done[i - 1])
      /\ \A i \in 0 .. n : done[i] \in States /\ ChainMoved(st, t, mode, done[i])
      /\ RaiseOrLower(st, t, mode) = done[n]
  BY <1>5 DEF StepsTaken
<1>7. \A i \in 1 .. n : \A s :
         OneStep(st, t, mode, up[i], s) = IF i # n /\ MovesTransients(up[i + 1], mode) THEN s
                                          ELSE RestackWindow(s, up[i], mode, num)
  BY ChainSteps
<1>8. ~(n # 1 /\ MovesTransients(up[2], mode))
  OBVIOUS
<1> HIDE DEF up, n, num
<1>9. \A w \in StackTransientParent : ~MovesTransients(w, mode)
  BY DEF MovesTransients
<1>10. ASSUME NEW i \in 0 .. n
       PROVE  /\ done[i] \in States /\ Kept(st, done[i]) /\ t \in ToSet(done[i].ring)
              /\ ToSet(done[i].ring) = ToSet(st.ring) /\ done[i].layer = st.layer
              /\ done[i].hint = st.hint /\ Sorted(done[i].ring, done[i].layer)
              /\ Scope(done[i], t) = Scope(st, t)
  <2>1. done[i] \in States /\ ChainMoved(st, t, mode, done[i])
    BY <1>6
  <2>2. Kept(st, done[i]) /\ Sorted(done[i].ring, st.layer)
    BY <2>1 DEF ChainMoved
  <2>3. ToSet(done[i].ring) = ToSet(st.ring) /\ done[i].layer = st.layer /\ done[i].hint = st.hint
    BY <2>2 DEF Kept
  <2>4. Scope(done[i], t) = Scope(st, t)
    BY <2>2, KeptFacts
  <2> QED BY <2>1, <2>2, <2>3, <2>4
<1>11. ASSUME NEW i \in 1 .. n - 1
       PROVE  LET u == up[n - i + 1]
                  s == done[i - 1]
              IN  /\ u \in Scope(s, t) \ {t} /\ t \notin Group(s, u, mode, num)
                  /\ done[i] \in {s, RestackWindow(s, u, mode, num)}
                  /\ i # 1 => ~MustMoveTransients(s, u, mode)
  <2> DEFINE k == n - i + 1
             s == done[i - 1]
  <2>1. k \in 2 .. n /\ k \in 1 .. n /\ i - 1 \in 0 .. n /\ i \in 1 .. n /\ n # 1
        /\ (i # 1 => k \in 1 .. n - 1) /\ 1 \in 1 .. n /\ 1 \in 1 .. n - 1 /\ k # 1
    BY <1>1
  <2>2. done[i] = OneStep(st, t, mode, up[k], s)
    BY <1>6, <2>1
  <2>3. /\ s \in States /\ Kept(st, s) /\ HintsMayBe(s.hint)
        /\ ToSet(s.ring) = ToSet(st.ring) /\ Scope(s, t) = Scope(st, t)
    BY <1>10, <2>1
  <2> HIDE DEF k, s
  <2>4. done[i] \in {s, RestackWindow(s, up[k], mode, num)}
    BY <1>7, <2>1, <2>2
  <2>5. up[k] \in Scope(s, t) \ {t} /\ up[k] \in ToSet(s.ring)
    BY <1>1, <1>3, <2>1, <2>3
  <2>6. LeaderOf(s, t) = up[2]
    <3>1. LeaderOf(s, t) = LeaderOf(st, t)
      BY <2>3, KeptFacts
    <3>2. up[1 + 1] = LeaderOf(st, up[1])
      BY <1>1, <2>1
    <3> QED BY <1>1, <3>1, <3>2
  <2>7. t \notin Group(s, up[k], mode, num)
    BY <1>4, <1>8, <2>1, <2>3, <2>5, <2>6, NotAlong
  <2>8. i # 1 => ~MustMoveTransients(s, up[k], mode)
    BY <1>1, <1>9, <2>1 DEF MustMoveTransients
  <2> QED BY <2>4, <2>5, <2>7, <2>8 DEF k, s
<1>12. RaiseOrLower(st, t, mode) = RestackWindow(done[n - 1], t, mode, num)
  <2>1. n \in 1 .. n /\ n - n + 1 = 1 /\ 1 \in 1 .. n /\ 1 + 1 = 2
    BY <1>1
  <2>2. done[n] = OneStep(st, t, mode, up[1], done[n - 1])
    BY <1>6, <2>1
  <2> QED BY <1>1, <1>6, <1>7, <1>8, <2>1, <2>2
<1>13. n # 1 => ~MustMoveTransients(done[n - 1], t, mode)
  <2>1. n # 1 => 1 \in 1 .. n - 1
    BY <1>1
  <2> QED BY <1>1, <1>9, <2>1 DEF MustMoveTransients
<1>14. OneByOne(st, t, mode, done)
  BY <1>1, <1>4, <1>6, <1>10, <1>11, <1>12, <1>13 DEF OneByOne, up, n, num
<1> QED BY <1>14

(* RaiseWindow and LowerWindow leave a module that showed the ring off by one at most. *)
LEMMA RaiseRight ==
    ASSUME NEW st \in States, HintsMayBe(st.hint), NEW t \in ToSet(st.ring),
           Sorted(st.ring, st.layer), st.view = st.ring,
           RaiseTransient \cap StackTransientParent = {}, LowerTransient \subseteq RaiseTransient,
           Cardinality(Windows) <= BranchBonus
    PROVE  RightButOne(RaiseWindow(st, t))
<1> DEFINE top == OnTop(st.view, t)
           s == [st EXCEPT !.view = top]
           out == RaiseOrLower(s, t, "raise")
<1>1. st.ring \in Lists /\ st.view \in Lists /\ ToSet(st.view) = ToSet(st.ring)
  BY DEF States
<1>2. /\ top \in Lists /\ ToSet(top) = ToSet(st.ring)
      /\ \A u, v : Before(top, u, v) <=> \/ (u # t /\ v # t /\ Before(st.ring, u, v))
                                         \/ (u = t /\ v \in ToSet(st.ring) \ {t})
  BY <1>1, TopOrder
<1> HIDE DEF top
<1>3. s \in States
  BY <1>2, NewView
<1>4. s.ring = st.ring /\ s.layer = st.layer /\ s.hint = st.hint /\ s.view = top
  BY DEF States
<1>5. RaiseWindow(st, t) = out
  BY DEF RaiseWindow, top
<1> HIDE DEF s, out
<1>6. RaisePhase(s, t)
  <2>1. Agree(s.ring, s.view, {t})
    BY <1>2, <1>4 DEF Agree
  <2>2. ASSUME \A v : ~Before(s.ring, v, t) PROVE s.view = s.ring
    <3>1. \A v, w : Before(s.ring, v, w) => Before(s.view, v, w)
      BY <1>1, <1>2, <1>4, <2>2, OrderFacts
    <3> QED BY <1>3, <3>1, SameView DEF Agree
  <2> QED BY <2>1, <2>2 DEF RaisePhase
<1>7. CASE Len(StackParents(s, t)) # 1 /\ MovesTransients(StackParents(s, t)[2], "raise")
  <2> DEFINE u == StackParents(s, t)[2]
             num == Numbers(s, t, "raise")
  <2>1. Carries(s, t, "raise", u) /\ out = RestackWindow(s, u, "raise", num)
    BY <1>3, <1>4, <1>7, LeaderCarries DEF out
  <2> HIDE DEF u
  <2>2. u \in Scope(s, t) \ {t} /\ t \in Group(s, u, "raise", num)
    BY <2>1 DEF Carries
  <2>3. num \in [Windows -> Int]
    BY <1>3, <1>4, NumbersFacts
  <2>4. \A v \in Scope(s, t) \ {t} : Before(RestackWindow(s, u, "raise", num).ring, t, v)
    BY <1>3, <1>4, <2>1, CarriedEnds
  <2>5. \A v \in ToSet(s.ring) \ {t} : Before(s.view, t, v)
    BY <1>2, <1>4
  <2> HIDE DEF num
  <2>6. RightButOne(RestackWindow(s, u, "raise", num))
    BY <1>3, <1>4, <1>6, <2>2, <2>3, <2>4, <2>5, RaiseAlong
  <2> QED BY <1>5, <2>1, <2>6
<1>8. CASE ~(Len(StackParents(s, t)) # 1 /\ MovesTransients(StackParents(s, t)[2], "raise"))
  <2> DEFINE up == StackParents(s, t)
             n == Len(up)
             num == Numbers(s, t, "raise")
  <2>1. PICK done : OneByOne(s, t, "raise", done)
    BY <1>3, <1>4, <1>8, ChainOneByOne
  <2>2. /\ done[0] = s /\ n \in Nat \ {0} /\ num \in [Windows -> Int]
        /\ \A i \in 0 .. n : /\ done[i] \in States /\ t \in ToSet(done[i].ring)
                             /\ Sorted(done[i].ring, done[i].layer)
        /\ \A i \in 1 .. n - 1 :
              /\ up[n - i + 1] \in Scope(done[i - 1], t) \ {t}
              /\ t \notin Group(done[i - 1], up[n - i + 1], "raise", num)
              /\ done[i] \in {done[i - 1], RestackWindow(done[i - 1], up[n - i + 1], "raise", num)}
        /\ out = RestackWindow(done[n - 1], t, "raise", num)
    BY <2>1 DEF OneByOne, out
  <2> HIDE DEF up, n, num
  <2> DEFINE P == {i \in 0 .. n - 1 : RaisePhase(done[i], t)}
  <2>3. 0 \in P
    BY <1>6, <2>2
  <2>4. ASSUME NEW i \in 1 .. n - 1, i - 1 \in P PROVE i \in P
    <3>1. i - 1 \in 0 .. n /\ i \in 0 .. n - 1
      BY <2>2
    <3>2. RaisePhase(done[i - 1], t)
      BY <2>4
    <3>3. RaisePhase(RestackWindow(done[i - 1], up[n - i + 1], "raise", num), t)
      BY <2>2, <3>1, <3>2, RaiseStep
    <3> QED BY <2>2, <3>1, <3>2, <3>3
  <2>5. n - 1 \in P
    <3> HIDE DEF P
    <3>1. n - 1 \in Nat
      BY <2>2
    <3>2. 0 .. n - 1 \subseteq P
      BY <2>3, <2>4, <3>1, UpTo
    <3> QED BY <3>1, <3>2
  <2>6. n - 1 \in 0 .. n
    BY <2>2
  <2> QED BY <1>5, <2>2, <2>5, <2>6, RaiseLast
<1> QED BY <1>7, <1>8

LEMMA LowerRight ==
    ASSUME NEW st \in States, HintsMayBe(st.hint), NEW t \in ToSet(st.ring),
           Sorted(st.ring, st.layer), st.view = st.ring,
           RaiseTransient \cap StackTransientParent = {}, LowerTransient \subseteq RaiseTransient,
           Cardinality(Windows) <= BranchBonus
    PROVE  RightButOne(LowerWindow(st, t))
<1> DEFINE bottom == Append(Without(st.view, {t}), t)
           s == [st EXCEPT !.view = bottom]
           out == RaiseOrLower(s, t, "lower")
<1>1. st.ring \in Lists /\ st.view \in Lists /\ ToSet(st.view) = ToSet(st.ring)
  BY DEF States
<1>2. /\ bottom \in Lists /\ ToSet(bottom) = ToSet(st.ring)
      /\ \A u, v : Before(bottom, u, v) <=> \/ (u # t /\ v # t /\ Before(st.ring, u, v))
                                            \/ (u \in ToSet(st.ring) \ {t} /\ v = t)
  BY <1>1, BottomOrder
<1> HIDE DEF bottom
<1>3. s \in States
  BY <1>2, NewView
<1>4. s.ring = st.ring /\ s.layer = st.layer /\ s.hint = st.hint /\ s.view = bottom
  BY DEF States
<1>5. LowerWindow(st, t) = out
  BY DEF LowerWindow, bottom
<1> HIDE DEF s, out
<1>6. LowerStart(s, t)
  BY <1>2, <1>4 DEF LowerStart, Agree
<1>7. CASE Len(StackParents(s, t)) # 1 /\ MovesTransients(StackParents(s, t)[2], "lower")
  <2> DEFINE u == StackParents(s, t)[2]
             num == Numbers(s, t, "lower")
  <2>1. Carries(s, t, "lower", u) /\ out = RestackWindow(s, u, "lower", num)
    BY <1>3, <1>4, <1>7, LeaderCarries DEF out
  <2> HIDE DEF u
  <2>2. u \in Scope(s, t) \ {t} /\ t \in Group(s, u, "lower", num)
    BY <2>1 DEF Carries
  <2>3. num \in [Windows -> Int]
    BY <1>3, <1>4, NumbersFacts
  <2>4. \A v \in Scope(s, t) \ {t, u} : Before(RestackWindow(s, u, "lower", num).ring, v, t)
    BY <1>3, <1>4, <2>1, CarriedEnds
  <2> HIDE DEF num
  <2>5. RightButOne(RestackWindow(s, u, "lower", num))
    BY <1>3, <1>4, <1>6, <2>2, <2>3, <2>4, LowerAlong
  <2> QED BY <1>5, <2>1, <2>5
<1>8. CASE ~(Len(StackParents(s, t)) # 1 /\ MovesTransients(StackParents(s, t)[2], "lower"))
  <2> DEFINE up == StackParents(s, t)
             n == Len(up)
             num == Numbers(s, t, "lower")
  <2>1. PICK done : OneByOne(s, t, "lower", done)
    BY <1>3, <1>4, <1>8, ChainOneByOne
  <2>2. /\ done[0] = s /\ n \in Nat \ {0} /\ num \in [Windows -> Int]
        /\ \A i \in 0 .. n : /\ done[i] \in States /\ t \in ToSet(done[i].ring)
                             /\ Sorted(done[i].ring, done[i].layer)
        /\ \A i \in 1 .. n - 1 :
              /\ up[n - i + 1] \in Scope(done[i - 1], t) \ {t}
              /\ done[i] \in {done[i - 1], RestackWindow(done[i - 1], up[n - i + 1], "lower", num)}
              /\ i # 1 => ~MustMoveTransients(done[i - 1], up[n - i + 1], "lower")
        /\ out = RestackWindow(done[n - 1], t, "lower", num)
        /\ n # 1 => ~MustMoveTransients(done[n - 1], t, "lower")
    BY <2>1 DEF OneByOne, out
  <2> HIDE DEF up, n, num
  <2> DEFINE P == {i \in 0 .. n - 1 : LowerPhase(done[i], t)}
  <2>3. 0 \in P
    BY <1>6, <2>2 DEF LowerPhase
  <2>4. ASSUME NEW i \in 1 .. n - 1, i - 1 \in P PROVE i \in P
    <3>1. i - 1 \in 0 .. n /\ i \in 0 .. n - 1
      BY <2>2
    <3>2. LowerPhase(done[i - 1], t)
      BY <2>4
    <3>3. \/ LowerStart(done[i - 1], t)
          \/ ~MustMoveTransients(done[i - 1], up[n - i + 1], "lower")
      BY <1>6, <2>2
    <3>4. LowerPhase(RestackWindow(done[i - 1], up[n - i + 1], "lower", num), t)
      BY <2>2, <3>1, <3>2, <3>3, LowerStep
    <3> QED BY <2>2, <3>1, <3>2, <3>4
  <2>5. n - 1 \in P
    <3> HIDE DEF P
    <3>1. n - 1 \in Nat
      BY <2>2
    <3>2. 0 .. n - 1 \subseteq P
      BY <2>3, <2>4, <3>1, UpTo
    <3> QED BY <3>1, <3>2
  <2>6. n - 1 \in 0 .. n
    BY <2>2
  <2>7. LowerStart(done[n - 1], t) \/ ~MustMoveTransients(done[n - 1], t, "lower")
    <3>1. n = 1 => n - 1 = 0
      BY <2>2
    <3> QED BY <1>6, <2>2, <3>1
  <2> QED BY <1>5, <2>2, <2>5, <2>6, <2>7, LowerLast
<1> QED BY <1>7, <1>8

(* If a module shows the ring, u is moved and the module hears of u, it shows the new
   ring. *)
LEMMA SlideRight ==
    ASSUME NEW st \in States, NEW u \in ToSet(st.ring), NEW out \in States,
           ToSet(out.ring) = ToSet(st.ring), st.view = st.ring,
           \A v, w : v # u /\ w # u /\ Before(st.ring, v, w) => Before(out.ring, v, w),
           Heard(out.ring, st.view, u, out.view)
    PROVE  out.view = out.ring
<1>1. /\ st.ring \in Lists /\ out.ring \in Lists /\ ToSet(st.view) = ToSet(st.ring)
      /\ Root \notin ToSet(st.ring)
  BY Constants, EmptyList DEF States
<1>2. Agree(st.ring, st.view, {})
  BY DEF Agree
<1>3. Agree(out.ring, st.view, {} \cup {u})
  BY <1>1, <1>2, MovedAgree
<1>4. Agree(out.ring, out.view, {})
  BY <1>1, <1>3, HeardRight
<1> QED BY <1>4, SameView

LEMMA RestackRight ==
    ASSUME NEW st \in States, HintsMayBe(st.hint), NEW t \in ToSet(st.ring), st.view = st.ring
    PROVE  LET out == RaiseOrLower(st, t, "restack") IN out.view = out.ring
<1> DEFINE up == StackParents(st, t)
           n == Len(up)
           num == Numbers(st, t, "restack")
           out == RaiseOrLower(st, t, "restack")
<1>1. n \in Nat \ {0} /\ \A i \in 1 .. n : up[i] \in ToSet(st.ring)
  BY ChainFacts
<1>2. num \in [Windows -> Int]
  BY NumbersFacts
<1>3. PICK done : StepsTaken(st, t, "restack", done)
  BY RaiseOrLowerSteps DEF Modes
<1>4. /\ done[0] = st
      /\ \A i \in 1 .. n : done[i] = OneStep(st, t, "restack", up[n - i + 1], done[i - 1])
      /\ \A i \in 0 .. n : done[i] \in States /\ ChainMoved(st, t, "restack", done[i])
      /\ out = done[n]
  BY <1>3 DEF StepsTaken
<1>5. \A i \in 1 .. n : \A s :
         OneStep(st, t, "restack", up[i], s) \in {s, RestackWindow(s, up[i], "restack", num)}
  BY ChainSteps
<1> HIDE DEF up, n, num, out
<1> DEFINE P == {i \in 0 .. n : done[i].view = done[i].ring}
<1>6. 0 \in P
  BY <1>1, <1>4
<1>7. ASSUME NEW i \in 1 .. n, i - 1 \in P PROVE i \in P
  <2> DEFINE s == done[i - 1]
             u == up[n - i + 1]
  <2>1. n - i + 1 \in 1 .. n /\ i - 1 \in 0 .. n /\ i \in 0 .. n
    BY <1>1
  <2>2. done[i] \in {s, RestackWindow(s, u, "restack", num)}
    BY <1>4, <1>5, <2>1
  <2>3. s \in States /\ ToSet(s.ring) = ToSet(st.ring) /\ s.view = s.ring
    BY <1>4, <1>7, <2>1 DEF ChainMoved, Kept
  <2>4. /\ done[i] \in States /\ ToSet(done[i].ring) = ToSet(st.ring)
    BY <1>4, <2>1 DEF ChainMoved, Kept
  <2>5. u \in ToSet(s.ring)
    BY <1>1, <2>1, <2>3
  <2> HIDE DEF s, u
  <2>6. Outcome(s, u, "restack", num, RestackWindow(s, u, "restack", num))
    BY <1>2, <2>3, <2>5, RestackHeard DEF Modes
  <2>7. CASE done[i] = s
    BY <2>1, <2>3, <2>7
  <2>8. CASE done[i] = RestackWindow(s, u, "restack", num)
    <3>1. \/ done[i].view = done[i].ring
          \/ /\ \A v, w : v # u /\ w # u /\ Before(s.ring, v, w) => Before(done[i].ring, v, w)
             /\ Heard(done[i].ring, s.view, u, done[i].view)
      BY <2>6, <2>8 DEF Outcome
    <3>2. done[i].view = done[i].ring
      BY <2>3, <2>4, <2>5, <3>1, SlideRight
    <3> QED BY <2>1, <3>2
  <2> QED BY <2>2, <2>7, <2>8
<1>8. n \in P
  <2> HIDE DEF P
  <2>1. 0 .. n \subseteq P
    BY <1>1, <1>6, <1>7, UpTo
  <2> QED BY <1>1, <2>1
<1> QED BY <1>4, <1>8 DEF out

(* A list that is moved, too *)
LEMMA ListRight ==
    ASSUME NEW st \in States, NEW l \in Lists, NEW s, NEW lower, Movable(st, l, s),
           st.view = st.ring
    PROVE  LET out == RestackWindowList(st, l, s, lower)
           IN  out \in States /\ out.view = out.ring
<1> DEFINE out == RestackWindowList(st, l, s, lower)
           rest == Without(st.ring, ToSet(l))
           u == Head(l)
<1>1. /\ Len(l) > 1 => out.view = out.ring
      /\ ~(Len(l) > 1) => Heard(out.ring, st.view, u, out.view)
  BY ListHeard
<1>2. ListMoved(st, l, s, out)
  BY ListRestacked
<1> HIDE DEF out
<1>3. out \in States /\ out.ring = PutBefore(rest, l, s) /\ ToSet(out.ring) = ToSet(st.ring)
  BY <1>2 DEF ListMoved, States
<1>4. CASE Len(l) > 1
  BY <1>1, <1>3, <1>4 DEF out
<1>5. CASE ~(Len(l) > 1)
  <2>1. l # <<>> /\ Len(l) \in Nat /\ Len(l) # 0 /\ DOMAIN l = 1 .. Len(l)
    BY EmptyList DEF Movable
  <2>2. DOMAIN l = 1 .. 1
    BY <1>5, <2>1
  <2>3. ToSet(l) = {u}
    <3>1. u = l[1]
      BY <2>1
    <3> QED BY <2>2, <3>1 DEF ToSet
  <2>4. /\ st.ring \in Lists /\ u \in ToSet(st.ring) /\ s \in (ToSet(st.ring) \ {u}) \cup {Root}
    BY <2>3 DEF Movable, States
  <2> HIDE DEF u
  <2>5. /\ rest \in Lists /\ ToSet(rest) = ToSet(st.ring) \ {u}
        /\ \A v, w : Before(rest, v, w) <=> v # u /\ w # u /\ Before(st.ring, v, w)
    BY <2>3, <2>4, WithoutOrder
  <2> HIDE DEF rest
  <2>6. \A v, w : Before(rest, v, w) => Before(PutBefore(rest, l, s), v, w)
    BY <2>3, <2>4, <2>5, PutBeforeOrder
  <2>7. \A v, w : v # u /\ w # u /\ Before(st.ring, v, w) => Before(out.ring, v, w)
    BY <1>3, <2>5, <2>6
  <2>8. out.view = out.ring
    BY <1>1, <1>3, <1>5, <2>4, <2>7, SlideRight
  <2> QED BY <1>3, <2>8 DEF out
<1> QED BY <1>4, <1>5

-----------------------------------------------------------------------------
(* What each operation leaves a module with *)

Apart == /\ RaiseTransient \cap StackTransientParent = {} /\ LowerTransient \subseteq RaiseTransient
         /\ Cardinality(Windows) <= BranchBonus

Shown == \E st, layers : st \in States /\ Commit(st, layers) /\ RightButOne(st)

LEMMA PreparedShown ==
    ASSUME Apart, Tidy, NEW st, NEW t, Prepared(st, t), st.view = st.ring, NEW layers,
           \/ Commit(RaiseWindow(st, t), layers) \/ Commit(LowerWindow(st, t), layers)
    PROVE  Shown
<1>1. /\ st \in States /\ HintsMayBe(st.hint) /\ t \in ToSet(st.ring)
      /\ Sorted(st.ring, st.layer)
  BY DEF Prepared, Fine
<1>2. RightButOne(RaiseWindow(st, t)) /\ RightButOne(LowerWindow(st, t))
  BY <1>1, RaiseRight, LowerRight DEF Apart
<1>3. RaiseWindow(st, t) \in States /\ LowerWindow(st, t) \in States
  BY <1>1, RaiseMoves, LowerMoves DEF ChainMoved, Kept
<1> QED BY <1>2, <1>3 DEF Shown

LEMMA RaisedShown ==
    ASSUME Apart, TypeOK, Tidy, NEW w, Raise(w) \/ Lower(w)
    PROVE  Shown
<1>1. w \in Managed /\ Now.view = Now.ring
  BY DEF Raise, Lower, Now
<1>2. Prepared(Now, w)
  BY <1>1, FineNow, PreparedNow, SameMarks
<1> QED BY <1>1, <1>2, PreparedShown DEF Raise, Lower

LEMMA RestackedShown ==
    ASSUME TypeOK, NEW w, RestackTransients(w)
    PROVE  Shown
<1> DEFINE out == RaiseOrLower(Now, w, "restack")
<1>1. w \in Managed /\ Commit(out, {layer[w]})
  BY DEF RestackTransients
<1>2. Now \in States /\ HintsMayBe(Now.hint) /\ w \in ToSet(Now.ring) /\ Now.view = Now.ring
  BY <1>1, FineNow, NowFields DEF Managed, Now
<1>3. out.view = out.ring
  BY <1>2, RestackRight
<1>4. out \in States
  BY <1>2, RaiseOrLowerMoves DEF ChainMoved, Kept, Modes
<1> HIDE DEF out
<1> QED BY <1>1, <1>3, <1>4 DEF Shown, RightButOne

LEMMA RaiseLowerShown ==
    ASSUME Apart, TypeOK, Tidy, NEW w, RaiseLower(w)
    PROVE  Shown
<1> DEFINE m == IF w \in RaiseTransient THEN NoMarks ELSE marks
           st == [Now EXCEPT !.marks = m]
<1>1. /\ w \in Managed
      /\ \/ Commit(RaiseWindow(st, w), {layer[w]})
         \/ Commit(LowerWindow(st, w), {layer[w]})
  BY NowFields DEF RaiseLower
<1>2. m \in Marks /\ (marks = NoMarks => m = NoMarks)
  BY FineNow, NoMarksType
<1>3. st.view = st.ring
  BY DEF Now
<1> HIDE DEF m
<1>4. Prepared(st, w)
  BY <1>1, <1>2, PreparedNow
<1> HIDE DEF st
<1> QED BY <1>1, <1>3, <1>4, PreparedShown

LEMMA LayerShown ==
    ASSUME TypeOK, NEW w, NEW l \in Layers, Layer(w, l)
    PROVE  Shown
<1> DEFINE t == TopLeader(Now, w)
           old == layer[t]
           lower == l < old
           scope == InLayer(Now, old)
           tree == DOMAIN MarkTransientSubtree(Now, NoNumber, t, scope,
                                               IF lower THEN "lower" ELSE "raise")
           list == Only(ring, tree)
           W == Without(ring, tree)
           k == IF lower THEN l - 1 ELSE l
           s == FirstAtMost(Now, W, t, k)
           newLayer == [v \in Windows |-> IF v \in ToSet(list) THEN l ELSE layer[v]]
           moved == [Now EXCEPT !.marks = NoMarks, !.layer = newLayer]
           out == RestackWindowList(moved, list, s, lower)
<1>1. w \in Managed /\ Commit(out, {l, old})
  BY NowFields DEF Layer
<1>2. /\ Now \in States /\ ring \in Lists /\ ToSet(ring) = Managed
  BY FineNow DEF Managed
<1>3. t \in Managed
  BY <1>1, <1>2, NowFields, AncestorPlace DEF TopLeader
<1> HIDE DEF t, out
<1>4. scope \in SUBSET Windows
  BY <1>2, FineNow, NowFields DEF InLayer
<1> HIDE DEF scope, lower
<1> DEFINE mode == IF lower THEN "lower" ELSE "raise"
<1>5. tree \in SUBSET Windows /\ t \in tree
  <2> HIDE DEF mode
  <2>1. marks \in Marks
    BY FineNow
  <2> DEFINE now == [Now EXCEPT !.marks = marks]
             all == DOMAIN MarkTransientSubtree(now, NoNumber, t, scope, mode)
  <2>2. all \in SUBSET Windows /\ t \in all
    BY <1>3, <1>4, <2>1, TreeInFamily
  <2> HIDE DEF now
  <2>3. now = Now
    BY SameMarks DEF now
  <2> QED BY <2>2, <2>3 DEF mode
<1> HIDE DEF tree
<1>6. list \in Lists /\ ToSet(list) = Managed \cap tree
  BY <1>2, OnlyOrder
<1>7. W \in Lists /\ ToSet(W) = Managed \ tree
  BY <1>2, WithoutOrder
<1> HIDE DEF list, W
<1>8. list # <<>>
  BY <1>3, <1>5, <1>6, EmptyList
<1>9. s \in ToSet(W) \cup {Root}
  BY <1>7, FirstOrder
<1> HIDE DEF s
<1>10. newLayer \in [Windows -> Layers]
  BY FineNow
<1> HIDE DEF newLayer
<1>11. moved \in States /\ moved.ring = ring /\ moved.view = ring
  BY <1>2, <1>10, NoMarksType DEF States, Now
<1> HIDE DEF moved
<1>12. Movable(moved, list, s)
  BY <1>2, <1>6, <1>7, <1>8, <1>9, <1>11 DEF Movable
<1>13. out \in States /\ out.view = out.ring
  BY <1>6, <1>11, <1>12, ListRight DEF out
<1> QED BY <1>1, <1>13 DEF Shown, RightButOne

LEMMA ClientRestackShown ==
    ASSUME TypeOK, NEW w, NEW v, NEW detail, ClientRestack(w, v, detail)
    PROVE  Shown
<1> DEFINE above == detail = "Above"
           put(order) == Near(order, w, v, above)
           st == [Now EXCEPT !.ring = put(@), !.x = put(@)]
           out == BroadcastRestack(st, PrevIn(st.ring, w), NextIn(st.ring, w))
<1>1. w \in Managed /\ v \in Managed /\ w # v /\ Commit(out, {})
  BY DEF ClientRestack, Near
<1> HIDE DEF above
<1>2. /\ Now \in States /\ ring \in Lists /\ x \in Lists /\ ToSet(x) = Managed
      /\ ToSet(ring) = Managed
  BY <1>1, FineNow DEF Managed
<1>3. /\ put(ring) \in Lists /\ ToSet(put(ring)) = Managed
      /\ \A a, b : a # w /\ b # w /\ Before(ring, a, b) => Before(put(ring), a, b)
  BY <1>1, <1>2, NowFields, PutNear
<1>4. put(x) \in Lists /\ ToSet(put(x)) = Managed
  BY <1>1, <1>2, PutNear
<1> DEFINE r == put(ring)
           f == put(x)
<1>5. st = [Now EXCEPT !.ring = r, !.x = f]
  <2>1. r = put(Now.ring) /\ f = put(Now.x)
    BY NowFields
  <2> HIDE DEF r, f, put
  <2> QED BY <2>1
<1> HIDE DEF r, f, put, out
<1>6. st.ring = r /\ st.view = ring
  <2> HIDE DEF st
  <2> QED BY <1>5 DEF Now
<1>7. r \in Lists /\ f \in Lists /\ ToSet(r) = Managed /\ ToSet(f) = Managed
  BY <1>3, <1>4 DEF r, f
<1>8. st \in States
  <2> HIDE DEF st
  <2> QED BY <1>2, <1>5, <1>7 DEF States, Now
<1>9. out = BroadcastRestack(st, PrevIn(st.ring, w), NextIn(st.ring, w))
  BY DEF out
<1> HIDE DEF st
<1>10. ViewChanges(st, out)
  BY <1>1, <1>6, <1>7, <1>8, <1>9, AroundSpans, Told
<1>11. out \in States /\ out.ring = r
  BY <1>6, <1>8, <1>10, ViewKept
<1>12. Heard(r, ring, w, out.view)
  BY <1>1, <1>6, <1>7, <1>8, <1>9, ToldAround
<1>13. /\ Now.view = ring /\ Now.ring = ring /\ w \in ToSet(Now.ring)
       /\ \A a, b : a # w /\ b # w /\ Before(ring, a, b) => Before(r, a, b)
  BY <1>1, <1>2, <1>3 DEF Now, r
<1>14. out.view = out.ring
  BY <1>2, <1>7, <1>11, <1>12, <1>13, SlideRight
<1> QED BY <1>1, <1>11, <1>14 DEF Shown, RightButOne

LEMMA HintChangesShown ==
    ASSUME Apart, TypeOK, Tidy, NEW w, NEW h, MayGet(w, h), HintChanges(w, h)
    PROVE  Shown
<1> DEFINE st == [Now EXCEPT !.hint[w] = ValidHint(h)]
           hints == [hint EXCEPT ![w] = ValidHint(h)]
<1>1. /\ w \in Managed
      /\ Commit(IF h = NoHint THEN st ELSE RaiseWindow(st, w),
                IF h = NoHint THEN {} ELSE {layer[w]})
  BY DEF HintChanges
<1>2. w \in Windows /\ hints \in [Windows -> Hints] /\ HintsMayBe(hints)
  BY <1>1, FineNow, HintMayBe
<1>3. st = [Now EXCEPT !.hint = hints]
  BY DEF Now
<1>4. /\ st.ring = ring /\ st.x = x /\ st.view = ring /\ st.layer = layer /\ st.hint = hints
      /\ st.iconic = iconic /\ st.marks = marks
  BY DEF Now
<1> HIDE DEF hints
<1>5. st \in States
  BY <1>2, <1>3, FineNow DEF States
<1> HIDE DEF st
<1>6. Changed(st, w)
  BY <1>2, <1>4, <1>5, FineNow DEF Changed
<1>7. Prepared(st, w)
  BY <1>1, <1>6, PreparedChanged
<1>8. CASE h = NoHint
  BY <1>1, <1>4, <1>5, <1>8 DEF Shown, RightButOne
<1>9. CASE h # NoHint
  <2>1. Commit(RaiseWindow(st, w), {layer[w]})
    BY <1>1, <1>9
  <2> QED BY <1>4, <1>7, <2>1, PreparedShown
<1> QED BY <1>8, <1>9

LEMMA IconifyShown ==
    ASSUME Apart, TypeOK, Tidy, NEW w, Iconify(w)
    PROVE  Shown
<1>1. w \in Managed \ iconic
  BY DEF Iconify
<1>2. PICK m \in MarksAfterFocus :
          LET tree == Managed \cap DOMAIN MarkTransientSubtree([Now EXCEPT !.marks = m],
                                                              NoNumber, w, Managed, "all")
              st == [Now EXCEPT !.iconic = @ \cup tree, !.byParent = @ \cup (tree \ {w}),
                                !.marks = NoMarks]
          IN  Commit(LowerWindow(st, w), {layer[w]})
  BY DEF Iconify
<1> DEFINE all == DOMAIN MarkTransientSubtree([Now EXCEPT !.marks = m],
                                              NoNumber, w, Managed, "all")
           tree == Managed \cap all
           icons == iconic \cup tree
           parents == byParent \cup (tree \ {w})
           st == [Now EXCEPT !.iconic = icons, !.byParent = parents, !.marks = NoMarks]
<1>3. Commit(LowerWindow(st, w), {layer[w]})
  BY <1>2 DEF Now
<1>4. m \in Marks /\ (marks = NoMarks => ~m.keep)
  BY FocusMarks
<1>5. /\ all \in SUBSET Windows
      /\ ~m.keep => \A F : FamilySet(Now, F) /\ w \in F => all \subseteq F
  <2>1. Managed \in SUBSET Windows
    BY FineNow
  <2> QED BY <1>1, <1>4, <2>1, TreeInFamily
<1> HIDE DEF all
<1>6. icons \in SUBSET Windows /\ parents \in SUBSET Windows
  BY <1>5, FineNow
<1>7. \A v \in Windows \ Managed : v \notin icons
  BY FineNow
<1>8. marks = NoMarks => \A F : FamilySet(Now, F) /\ w \in F => icons \ F = iconic \ F
  BY <1>4, <1>5
<1> HIDE DEF icons, parents
<1>9. st \in States /\ st.ring = ring /\ st.x = x /\ st.layer = layer /\ Prepared(st, w)
  BY <1>1, <1>6, <1>7, <1>8, IconicChanged
<1>10. st.view = ring
  BY DEF Now
<1> HIDE DEF st
<1> QED BY <1>3, <1>9, <1>10, PreparedShown

LEMMA DeIconifyShown ==
    ASSUME Apart, TypeOK, Tidy, NEW w \in Windows, DeIconify(w)
    PROVE  Shown
<1>1. w \in Managed
  BY FineNow DEF DeIconify
<1> DEFINE t == IconifiedParent(w)
<1>2. t \in Managed
  BY <1>1, FineNow, NowFields, AncestorPlace DEF IconifiedParent, Managed
<1>3. PICK m \in MarksAfterFocus :
          LET tree == DOMAIN MarkTransientSubtree([Now EXCEPT !.marks = m],
                                                  NoNumber, t, Managed, "all")
              st == [Now EXCEPT !.iconic = @ \ tree, !.byParent = @ \ tree, !.marks = NoMarks]
          IN  Commit(RaiseWindow(st, t), {layer[t]})
  BY DEF DeIconify
<1> DEFINE tree == DOMAIN MarkTransientSubtree([Now EXCEPT !.marks = m],
                                               NoNumber, t, Managed, "all")
           icons == iconic \ tree
           parents == byParent \ tree
           st == [Now EXCEPT !.iconic = icons, !.byParent = parents, !.marks = NoMarks]
<1>4. Commit(RaiseWindow(st, t), {layer[t]})
  BY <1>3 DEF Now
<1> HIDE DEF t
<1>5. m \in Marks /\ (marks = NoMarks => ~m.keep)
  BY FocusMarks
<1>6. /\ tree \in SUBSET Windows
      /\ ~m.keep => \A F : FamilySet(Now, F) /\ t \in F => tree \subseteq F
  <2>1. Managed \in SUBSET Windows
    BY FineNow
  <2> QED BY <1>2, <1>5, <2>1, TreeInFamily
<1> HIDE DEF tree
<1>7. icons \in SUBSET Windows /\ parents \in SUBSET Windows
  BY FineNow
<1>8. \A v \in Windows \ Managed : v \notin icons
  BY FineNow
<1>9. marks = NoMarks => \A F : FamilySet(Now, F) /\ t \in F => icons \ F = iconic \ F
  BY <1>5, <1>6
<1> HIDE DEF icons, parents
<1>10. st \in States /\ st.ring = ring /\ st.x = x /\ st.layer = layer /\ Prepared(st, t)
  BY <1>2, <1>7, <1>8, <1>9, IconicChanged
<1>11. st.view = ring
  BY DEF Now
<1> HIDE DEF st
<1> QED BY <1>4, <1>10, <1>11, PreparedShown

LEMMA DestroyShown ==
    ASSUME TypeOK, NEW w, Destroy(w)
    PROVE  view' = ring'
<1> DEFINE gone == [Now EXCEPT !.ring = Without(@, {w}), !.x = Without(@, {w}),
                               !.view = Without(@, {w}),
                               !.layer = [@ EXCEPT ![w] = DefaultLayer],
                               !.hint = [@ EXCEPT ![w] = NoHint],
                               !.iconic = @ \ {w}, !.byParent = @ \ {w}]
<1>1. PICK tree \in {marks.tree, marks.tree \ {w}} :
          Commit([gone EXCEPT !.marks.tree = tree], {layer[w]})
  BY DEF Destroy
<1>2. gone.view = gone.ring
  BY DEF Now
<1>3. \A m : [gone EXCEPT !.marks.tree = m].ring = gone.ring
             /\ [gone EXCEPT !.marks.tree = m].view = gone.view
  BY DEF Now
<1> HIDE DEF gone
<1> QED BY <1>1, <1>2, <1>3 DEF Commit

LEMMA AddWindowShown ==
    ASSUME TypeOK, NEW w \in Windows, NEW h, MayGet(w, h), NEW lower, AddWindow(w, h, lower)
    PROVE  Shown
<1> DEFINE mode == IF lower THEN "lower" ELSE "raise"
           l == LayerFor(w, h)
           st == NewOnTop(w, h)
           s == NewBefore(w, h, lower)
           put == NewPut(w, h, lower)
           done == RaiseOrLower(put, w, mode)
           framed == [done EXCEPT !.x = done.ring]
           told == BroadcastRestackAllWindows(framed)
           placed == RestackWindowList(st, <<w>>, s, lower)
<1>1. /\ w \notin Managed
      /\ Commit(told, {l}) \/ Commit(placed, {l})
  BY DEF AddWindow, NewOnTop, NewBefore, NewPut
<1>2. /\ st \in States /\ ToSet(st.ring) = Managed \cup {w}
      /\ s \in Managed \cup {Root} /\ w \in ToSet(put.ring) /\ Prepared(put, w)
  BY <1>1, NewWindowPut
<1>3. st.view = st.ring
  BY DEF NewOnTop, Now
<1> HIDE DEF l, st, s, put
<1>4. CASE Commit(told, {l})
  <2>1. put \in States /\ mode \in Modes
    BY <1>2 DEF Prepared, Fine, Modes
  <2>2. ChainMoved(put, w, mode, done)
    BY <1>2, <2>1, RaiseOrLowerMoves
  <2> HIDE DEF mode, done
  <2>3. done \in States /\ ToSet(done.ring) = ToSet(put.ring)
    BY <2>2 DEF ChainMoved, Kept
  <2>4. framed \in States /\ framed.ring = done.ring
    BY <2>3 DEF States
  <2>5. framed.ring \in Lists /\ framed.ring # <<>>
    <3>1. done.ring \in Lists
      BY <2>3 DEF States
    <3>2. done.ring # <<>>
      BY <1>2, <2>3, <3>1, EmptyList
    <3> QED BY <2>4, <3>1, <3>2
  <2> HIDE DEF framed
  <2>6. told.view = framed.ring
    BY <2>4, <2>5, AllTold
  <2>7. Spans(framed, Head(framed.ring), Last(framed.ring))
    <3> DEFINE r == framed.ring
    <3>1. r \in Lists /\ r # <<>>
      BY <2>5
    <3>2. Head(r) \in ToSet(r) /\ \A v \in ToSet(r) : v = Head(r) \/ Before(r, Head(r), v)
      BY <3>1, HeadOrder
    <3>3. Last(r) \in ToSet(r)
      <4>1. Len(r) \in Nat /\ DOMAIN r = 1 .. Len(r) /\ Len(r) # 0
        BY <3>1, EmptyList
      <4>2. Len(r) \in DOMAIN r
        BY <4>1
      <4> QED BY <4>2 DEF Last, ToSet
    <3> HIDE DEF r
    <3> QED BY <3>1, <3>2, <3>3 DEF Spans, r
  <2>8. ViewChanges(framed, told)
    BY <2>4, <2>7, Told DEF BroadcastRestackAllWindows
  <2> HIDE DEF told
  <2>9. told \in States /\ told.ring = framed.ring
    BY <2>4, <2>8, ViewKept
  <2> QED BY <1>4, <2>6, <2>9 DEF Shown, RightButOne
<1>5. CASE Commit(placed, {l})
  <2> DEFINE one == <<w>>
  <2>1. one \in Lists /\ ToSet(one) = {w} /\ one # <<>>
    BY OneWindow
  <2>2. placed = RestackWindowList(st, one, s, lower)
    OBVIOUS
  <2> HIDE DEF one, placed
  <2>3. Movable(st, one, s)
    BY <1>1, <1>2, <2>1 DEF Movable
  <2>4. placed \in States /\ placed.view = placed.ring
    BY <1>2, <1>3, <2>1, <2>2, <2>3, ListRight
  <2> QED BY <1>5, <2>4 DEF Shown, RightButOne
<1> QED BY <1>1, <1>4, <1>5

LEMMA NextShown ==
    ASSUME Apart, TypeOK, Tidy, Next
    PROVE  Shown \/ view' = ring'
<1>1. PICK w \in Windows :
         \/ Raise(w)
         \/ Lower(w)
         \/ RestackTransients(w)
         \/ RaiseLower(w)
         \/ \E l \in Layers : Layer(w, l)
         \/ \E v \in Windows, detail \in {"Above", "Below"} : ClientRestack(w, v, detail)
         \/ \E h \in Hints, lower \in BOOLEAN :
               (h = NoHint \/ <<w, h>> \in MayHint) /\ AddWindow(w, h, lower)
         \/ Destroy(w)
         \/ \E h \in Hints : (h = NoHint \/ <<w, h>> \in MayHint) /\ HintChanges(w, h)
         \/ Iconify(w)
         \/ DeIconify(w)
  BY DEF Next
<1>2. CASE Raise(w) \/ Lower(w)
  BY <1>2, RaisedShown
<1>3. CASE RestackTransients(w)
  BY <1>3, RestackedShown
<1>4. CASE RaiseLower(w)
  BY <1>4, RaiseLowerShown
<1>5. CASE \E l \in Layers : Layer(w, l)
  BY <1>5, LayerShown
<1>6. CASE \E v \in Windows, detail \in {"Above", "Below"} : ClientRestack(w, v, detail)
  BY <1>6, ClientRestackShown
<1>7. CASE \E h \in Hints, lower \in BOOLEAN :
              (h = NoHint \/ <<w, h>> \in MayHint) /\ AddWindow(w, h, lower)
  BY <1>7, AddWindowShown DEF MayGet
<1>8. CASE Destroy(w)
  BY <1>8, DestroyShown
<1>9. CASE \E h \in Hints : (h = NoHint \/ <<w, h>> \in MayHint) /\ HintChanges(w, h)
  BY <1>9, HintChangesShown DEF MayGet
<1>10. CASE Iconify(w)
  BY <1>10, IconifyShown
<1>11. CASE DeIconify(w)
  BY <1>11, DeIconifyShown
<1> QED BY <1>1, <1>2, <1>3, <1>4, <1>5, <1>6, <1>7, <1>8, <1>9, <1>10, <1>11

LEMMA OffByOne ==
    ASSUME NEW st \in States, RightButOne(st), st.view # st.ring
    PROVE  \E s \in ToSet(st.ring) \ {Head(st.ring)} :
              /\ IsPlaced(st, s, "raise")
              /\ \A l \in Layers : LET others == InLayer(st, l) \ {s}
                                   IN  Only(st.view, others) = Only(st.ring, others)
<1>1. PICK s \in ToSet(st.ring) : /\ \E v : Before(st.ring, v, s)
                                  /\ IsPlaced(st, s, "raise")
                                  /\ AgreeIn(st.layer, st.ring, st.view, {s})
  BY DEF RightButOne
<1>2. st.ring \in Lists /\ st.view \in Lists /\ ToSet(st.view) = ToSet(st.ring)
  BY DEF States
<1>3. s # Head(st.ring)
  <2>1. st.ring # <<>>
    BY <1>2, EmptyList
  <2>2. \A v : ~Before(st.ring, v, Head(st.ring))
    BY <1>2, <2>1, HeadOrder
  <2> QED BY <1>1, <2>2
<1>4. ASSUME NEW l \in Layers
      PROVE  LET others == InLayer(st, l) \ {s}
             IN  Only(st.view, others) = Only(st.ring, others)
  <2> DEFINE others == InLayer(st, l) \ {s}
             a == Only(st.ring, others)
             b == Only(st.view, others)
  <2>1. /\ a \in Lists /\ ToSet(a) = ToSet(st.ring) \cap others
        /\ b \in Lists /\ ToSet(b) = ToSet(st.view) \cap others
        /\ \A v, w : Before(a, v, w) <=> v \in others /\ w \in others /\ Before(st.ring, v, w)
        /\ \A v, w : Before(b, v, w) <=> v \in others /\ w \in others /\ Before(st.view, v, w)
    BY <1>2, OnlyOrder
  <2>2. \A v \in others : v # s /\ st.layer[v] = l
    BY DEF InLayer
  <2> HIDE DEF others, a, b
  <2>3. \A v, w \in ToSet(a) : Before(a, v, w) => Before(b, v, w)
    BY <1>1, <2>1, <2>2 DEF AgreeIn
  <2>4. a = b
    BY <1>2, <2>1, <2>3, SameOrder
  <2> QED BY <2>4 DEF a, b, others
<1> QED BY <1>1, <1>3, <1>4

(* PagerOffByOne: under the conditions of ReachesEndHolds, and if no window that moves
   its transients moves its leader, an operation leaves a module that showed the ring
   with one window misplaced at most, at the top of a layer that is not the first.
   What RaiseWindow and LowerWindow tell before they look is made good by the last
   move of the chain of leaders; on the way there a module has t wrong (RaisePhase),
   or t and the first window of the next layers (LowerPhase). *)
THEOREM PagerOffByOneHolds ==
    ASSUME ChecksStack = {TRUE}, LowerTransient \subseteq RaiseTransient,
           RaiseTransient \cap StackTransientParent = {},
           Cardinality(Windows) <= BranchBonus
    PROVE  Spec => []PagerOffByOne
<1>1. Apart
  BY DEF Apart
<1>2. TypeOK /\ Tidy /\ PagerOffByOne /\ [Next]_vars => PagerOffByOne'
  <2> SUFFICES ASSUME TypeOK, Tidy, PagerOffByOne, [Next]_vars PROVE PagerOffByOne'
    OBVIOUS
  <2>1. CASE UNCHANGED vars
    BY <2>1 DEF vars, PagerOffByOne, Managed, Now, IsPlaced, InLayer
  <2>2. CASE Next /\ view' = ring'
    BY <2>2 DEF PagerOffByOne
  <2>3. CASE Next /\ view' # ring'
    <3>1. PICK st, layers : st \in States /\ Commit(st, layers) /\ RightButOne(st)
      BY <1>1, <2>3, NextShown DEF Shown
    <3>2. ring' = st.ring /\ view' = st.view /\ layer' = st.layer
      BY <3>1 DEF Commit
    <3>3. PICK s \in ToSet(st.ring) \ {Head(st.ring)} :
              /\ IsPlaced(st, s, "raise")
              /\ \A l \in Layers : LET others == InLayer(st, l) \ {s}
                                   IN  Only(st.view, others) = Only(st.ring, others)
      BY <2>3, <3>1, <3>2, OffByOne
    <3>4. \A l : (InLayer(Now, l))' = InLayer(st, l)
      BY <3>2 DEF InLayer, Now
    <3>5. (IsPlaced(Now, s, "raise"))' <=> IsPlaced(st, s, "raise")
      BY <3>2 DEF IsPlaced, Now
    <3>6. s \in (Managed \ {Head(ring)})'
      BY <3>2, <3>3 DEF Managed
    <3> QED BY <3>2, <3>3, <3>4, <3>5, <3>6 DEF PagerOffByOne
  <2> QED BY <2>1, <2>2, <2>3
<1>3. TypeOK /\ Tidy /\ [Next]_vars => Tidy'
  BY TidyNext
<1>4. Init => PagerOffByOne
  BY DEF Init, PagerOffByOne
<1> QED BY <1>2, <1>3, <1>4, TypeInit, TypeHolds, PTL DEF Spec

=============================================================================
