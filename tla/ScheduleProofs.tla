--------------------------- MODULE ScheduleProofs ---------------------------
(***************************************************************************)
(* Proofs about Schedule, for queues of any length and scans that nest to  *)
(* any depth: no record that a scan stands on is freed, and the lock       *)
(* counts the scans; the queue stays sorted; no job is lost; and, as far   *)
(* as Wait and Deschedule allow it, a job runs once and one that is        *)
(* descheduled is not started.  First comes what the operations of FQueue  *)
(* return.                                                                 *)
(***************************************************************************)
EXTENDS Schedule, FiniteSetTheorems, ListLemmas

-----------------------------------------------------------------------------
(* The queue: what the operations of FQueue return, for queues of any length *)

(* Rank counts up by one at each record that is kept. *)
LEMMA RankStep ==
    ASSUME NEW Obj, NEW q \in Seq(RecOf(Obj)), NEW i \in 0 .. Len(q)
    PROVE  /\ Rank(q, i) \in Nat
           /\ Rank(q, 0) = 0
           /\ i > 0 => Rank(q, i) = IF q[i].del THEN Rank(q, i - 1)
                                    ELSE Rank(q, i - 1) + 1
<1> DEFINE S(n) == {j \in 1 .. n : ~q[j].del}
<1>1. ASSUME NEW n \in Nat PROVE IsFiniteSet(S(n)) /\ Cardinality(S(n)) \in Nat
  <2>1. IsFiniteSet(1 .. n)
    BY FS_Interval
  <2>2. S(n) \subseteq 1 .. n
    OBVIOUS
  <2> QED BY <2>1, <2>2, FS_Subset, FS_CardinalityType
<1>2. Rank(q, 0) = 0
  <2>1. S(0) = {}
    OBVIOUS
  <2> QED BY <2>1, FS_EmptySet DEF Rank
<1>3. ASSUME i > 0 PROVE Rank(q, i) = IF q[i].del THEN Rank(q, i - 1)
                                      ELSE Rank(q, i - 1) + 1
  <2>1. i \in Nat /\ i - 1 \in Nat /\ i \in 1 .. i /\ i \in 1 .. Len(q)
    BY <1>3
  <2>2. 1 .. i = (1 .. (i - 1)) \cup {i} /\ i \notin 1 .. (i - 1)
    BY <2>1
  <2>3. CASE q[i].del
    <3>1. S(i) = S(i - 1)
      BY <2>2, <2>3
    <3> QED BY <3>1, <2>3 DEF Rank
  <2>4. CASE ~q[i].del
    <3>1. S(i) = S(i - 1) \cup {i} /\ i \notin S(i - 1)
      BY <2>2, <2>4
    <3>2. IsFiniteSet(S(i - 1))
      BY <1>1, <2>1
    <3>3. Cardinality(S(i - 1) \cup {i}) = Cardinality(S(i - 1)) + 1
      <4> HIDE DEF S
      <4> QED BY <3>1, <3>2, FS_AddElement
    <3> QED BY <3>1, <3>3, <2>4 DEF Rank
  <2> QED BY <2>3, <2>4
<1>4. Rank(q, i) \in Nat
  <2>1. i \in Nat
    OBVIOUS
  <2>2. Cardinality(S(i)) \in Nat
    <3> HIDE DEF S
    <3> QED BY <2>1, <1>1
  <2> QED BY <2>2 DEF Rank
<1> QED BY <1>2, <1>3, <1>4

(* Every rank up to the last one is taken by a record that is kept. *)
LEMMA RankTaken ==
    ASSUME NEW Obj, NEW q \in Seq(RecOf(Obj)), NEW k \in 1 .. Rank(q, Len(q))
    PROVE  \E i \in DOMAIN q : ~q[i].del /\ Rank(q, i) = k
<1> DEFINE T == {n \in 0 .. Len(q) : Rank(q, n) >= k}
<1>0. \A n \in 0 .. Len(q) : Rank(q, n) \in Nat
  BY RankStep
<1>1. Len(q) \in T /\ T \subseteq Nat
  BY <1>0
<1>2. PICK i \in T : \A m \in T : i <= m
  BY <1>1, LeastNat
<1>3. i > 0
  BY <1>0, <1>2, RankStep
<1>4. i - 1 \in 0 .. Len(q) /\ Rank(q, i - 1) < k
  <2>1. i - 1 \in 0 .. Len(q) /\ ~(i <= i - 1)
    BY <1>3
  <2>2. i - 1 \notin T
    BY <1>2, <2>1
  <2> QED BY <2>1, <2>2, <1>0
<1>5. Rank(q, i) = IF q[i].del THEN Rank(q, i - 1) ELSE Rank(q, i - 1) + 1
  BY <1>3, RankStep
<1>6. ~q[i].del /\ Rank(q, i) = k
  BY <1>0, <1>4, <1>5
<1> QED BY <1>3, <1>6

(* fqueue_cleanup_queue keeps records of the queue and none that is marked. *)
LEMMA KeptType ==
    ASSUME NEW Obj, NEW q \in Seq(RecOf(Obj))
    PROVE  /\ Kept(q) \in Seq(RecOf(Obj))
           /\ \A k \in DOMAIN Kept(q) :
                 \E i \in DOMAIN q : Kept(q)[k] = q[i] /\ ~q[i].del
<1> DEFINE n == Rank(q, Len(q))
           At(k) == CHOOSE i \in DOMAIN q : ~q[i].del /\ Rank(q, i) = k
<1>1. n \in Nat
  BY RankStep
<1>2. ASSUME NEW k \in 1 .. n PROVE At(k) \in DOMAIN q /\ ~q[At(k)].del
  BY RankTaken
<1>3. Kept(q) = [k \in 1 .. n |-> q[At(k)]]
  BY DEF Kept
<1>4. \A k \in 1 .. n : q[At(k)] \in RecOf(Obj)
  BY <1>2
<1>5. Kept(q) \in Seq(RecOf(Obj)) /\ DOMAIN Kept(q) = 1 .. n
  <2> HIDE DEF n, At
  <2> QED BY <1>1, <1>3, <1>4
<1> QED BY <1>2, <1>3, <1>5

(* The flags of a record are set only while the queue is dirty or locked. *)
NoFlags(fq) == \A i \in DOMAIN fq.recs : ~fq.recs[i].del /\ ~fq.recs[i].new
FlagsNeedDirty(fq) == fq.dirty \/ NoFlags(fq)

(* Cleanup leaves a queue of objects that were in it, none of them flagged. *)
LEMMA CleanupType ==
    ASSUME NEW Obj, NEW fq \in QueueOf(Obj)
    PROVE  /\ CleanupQueue(fq) \in QueueOf(Obj)
           /\ NoFlags(CleanupQueue(fq))
           /\ CleanupQueue(fq).lock = fq.lock
           /\ CleanupQueue(fq).dirty = fq.dirty
<1> DEFINE q == fq.recs
           r == [k \in DOMAIN Kept(q) |-> [Kept(q)[k] EXCEPT !.new = FALSE]]
<1>1. q \in Seq(RecOf(Obj)) /\ fq.lock \in Nat /\ fq.dirty \in BOOLEAN
  BY DEF QueueOf
<1>2. /\ Kept(q) \in Seq(RecOf(Obj))
      /\ \A k \in DOMAIN Kept(q) : ~Kept(q)[k].del
  BY <1>1, KeptType
<1>3. \A k \in DOMAIN Kept(q) : Kept(q)[k] \in RecOf(Obj)
  <2> HIDE DEF q
  <2> QED BY <1>2
<1>4. \A k \in DOMAIN Kept(q) : r[k] \in RecOf(Obj) /\ ~r[k].del /\ ~r[k].new
  <2> HIDE DEF q
  <2> QED BY <1>2, <1>3 DEF RecOf
<1>5. r \in Seq(RecOf(Obj)) /\ DOMAIN r = DOMAIN Kept(q)
  <2>1. \E m \in Nat : DOMAIN Kept(q) = 1 .. m
    <3> HIDE DEF q
    <3> QED BY <1>2
  <2> HIDE DEF q
  <2> QED BY <1>4, <2>1
<1>6. CleanupQueue(fq) = [fq EXCEPT !.recs = r]
  BY DEF CleanupQueue
<1>7. CleanupQueue(fq) = [recs |-> r, lock |-> fq.lock, dirty |-> fq.dirty]
  <2> HIDE DEF r
  <2> QED BY <1>6 DEF QueueOf
<1> HIDE DEF r
<1> QED BY <1>1, <1>4, <1>5, <1>7 DEF QueueOf, NoFlags

(* fqueue_unlock_queue at level 1 cleans up; at a higher level no record goes. *)
LEMMA UnlockType ==
    ASSUME NEW Obj, NEW fq \in QueueOf(Obj), fq.lock > 0, FlagsNeedDirty(fq)
    PROVE  /\ UnlockQueue(fq) \in QueueOf(Obj)
           /\ UnlockQueue(fq).lock = fq.lock - 1
           /\ FlagsNeedDirty(UnlockQueue(fq))
           /\ fq.lock = 1 => NoFlags(UnlockQueue(fq))
           /\ fq.lock > 1 => UnlockQueue(fq).recs = fq.recs
<1>1. fq.lock \in Nat /\ fq.dirty \in BOOLEAN
  BY DEF QueueOf
<1>2. CASE fq.lock = 1 /\ fq.dirty
  <2> DEFINE c == CleanupQueue(fq)
  <2>1. c \in QueueOf(Obj) /\ NoFlags(c) /\ c.lock = 1
    BY <1>2, CleanupType
  <2>2. UnlockQueue(fq) = [c EXCEPT !.lock = @ - 1]
    BY <1>2 DEF UnlockQueue
  <2> HIDE DEF c
  <2> QED BY <1>1, <1>2, <2>1, <2>2 DEF QueueOf, NoFlags, FlagsNeedDirty
<1>3. CASE ~(fq.lock = 1 /\ fq.dirty)
  <2>1. UnlockQueue(fq) = [fq EXCEPT !.lock = @ - 1]
    BY <1>1, <1>3 DEF UnlockQueue
  <2> QED BY <1>1, <1>3, <2>1 DEF QueueOf, NoFlags, FlagsNeedDirty
<1> QED BY <1>2, <1>3

(* Where the elements of a sequence are after one more was put in *)
LEMMA PutInType ==
    ASSUME NEW R, NEW q \in Seq(R), NEW n \in R, NEW p \in 0 .. Len(q)
    PROVE  /\ PutIn(q, p, n) \in Seq(R)
           /\ Len(PutIn(q, p, n)) = Len(q) + 1
           /\ \A i \in 1 .. Len(q) + 1 :
                 PutIn(q, p, n)[i] = IF i <= p THEN q[i]
                                     ELSE IF i = p + 1 THEN n ELSE q[i - 1]
<1> DEFINE r == PutIn(q, p, n)
           a == SubSeq(q, 1, p)
           c == SubSeq(q, p + 1, Len(q))
           ab == a \o <<n>>
<1>0. Len(q) \in Nat /\ p \in Nat
  OBVIOUS
<1>1. a \in Seq(R) /\ Len(a) = p /\ \A i \in 1 .. p : a[i] = q[i]
  OBVIOUS
<1>2. /\ c \in Seq(R) /\ Len(c) = Len(q) - p
      /\ \A i \in 1 .. Len(q) - p : c[i] = q[p + i]
  OBVIOUS
<1>3. /\ ab \in Seq(R) /\ Len(ab) = p + 1
      /\ \A i \in 1 .. p : ab[i] = q[i]
      /\ ab[p + 1] = n
  <2> HIDE DEF a
  <2>1. <<n>> \in Seq(R) /\ Len(<<n>>) = 1 /\ <<n>>[1] = n
    OBVIOUS
  <2> QED BY <1>0, <1>1, <2>1
<1>4. /\ r \in Seq(R) /\ Len(r) = Len(q) + 1
      /\ \A i \in 1 .. Len(r) : r[i] = IF i <= p + 1 THEN ab[i] ELSE c[i - (p + 1)]
  <2>1. r = ab \o c
    BY DEF PutIn
  <2> HIDE DEF ab, c, r
  <2>4. ab \in Seq(R) /\ c \in Seq(R)
    BY <1>2, <1>3
  <2>5. /\ r \in Seq(R) /\ Len(r) = Len(ab) + Len(c)
        /\ \A i \in 1 .. Len(ab) + Len(c) :
              r[i] = IF i <= Len(ab) THEN ab[i] ELSE c[i - Len(ab)]
    BY <2>1, <2>4, ConcatProperties, Zenon
  <2>2. /\ r \in Seq(R) /\ Len(r) = (p + 1) + (Len(q) - p)
        /\ \A i \in 1 .. (p + 1) + (Len(q) - p) :
              r[i] = IF i <= p + 1 THEN ab[i] ELSE c[i - (p + 1)]
    BY <1>2, <1>3, <2>5
  <2>3. (p + 1) + (Len(q) - p) = Len(q) + 1
    BY <1>0
  <2> QED BY <2>2, <2>3
<1>5. ASSUME NEW i \in 1 .. Len(q) + 1
      PROVE  r[i] = IF i <= p THEN q[i] ELSE IF i = p + 1 THEN n ELSE q[i - 1]
  <2> HIDE DEF a, ab, c, r
  <2>0. i \in 1 .. Len(r)
    BY <1>4
  <2>1. CASE i <= p + 1
    <3>1. r[i] = ab[i]
      BY <1>4, <2>1
    <3>2. i \in 1 .. p \/ i = p + 1
      BY <1>0, <2>0, <2>1
    <3> QED BY <1>0, <1>3, <3>1, <3>2
  <2>2. CASE ~(i <= p + 1)
    <3>1. i - (p + 1) \in 1 .. Len(q) - p /\ ~(i <= p) /\ i # p + 1
      BY <1>0, <2>0, <2>2
    <3>2. r[i] = q[p + (i - (p + 1))]
      BY <1>2, <1>4, <2>2, <3>1
    <3>3. p + (i - (p + 1)) = i - 1
      BY <1>0, <2>0
    <3> QED BY <3>1, <3>2, <3>3
  <2> QED BY <2>1, <2>2
<1> QED BY <1>4, <1>5

(* An insertion at any place adds the object and keeps every other record. *)
LEMMA InsertType ==
    ASSUME NEW Obj, NEW fq \in QueueOf(Obj), NEW obj \in Obj,
           NEW p \in 0 .. Len(fq.recs), FlagsNeedDirty(fq)
    PROVE  /\ InsertAfter(fq, p, obj) \in QueueOf(Obj)
           /\ InsertAfter(fq, p, obj).lock = fq.lock
           /\ FlagsNeedDirty(InsertAfter(fq, p, obj))
           /\ fq.lock = 0 /\ NoFlags(fq) => NoFlags(InsertAfter(fq, p, obj))
           /\ \A i \in DOMAIN fq.recs :
                \E j \in DOMAIN InsertAfter(fq, p, obj).recs :
                    InsertAfter(fq, p, obj).recs[j] = fq.recs[i]
<1> DEFINE q == fq.recs
           n == NewRecord(fq, obj)
           r == PutIn(q, p, n)
           f == InsertAfter(fq, p, obj)
<1>1. q \in Seq(RecOf(Obj)) /\ fq.lock \in Nat /\ fq.dirty \in BOOLEAN
  BY DEF QueueOf
<1>2. n \in RecOf(Obj) /\ ~n.del /\ (fq.lock = 0 => ~n.new)
  <2>1. CASE fq.lock > 0
    <3>1. n = [obj |-> obj, del |-> FALSE, new |-> TRUE]
      BY <2>1, Zenon DEF NewRecord
    <3> QED BY <2>1, <3>1 DEF RecOf
  <2>2. CASE ~(fq.lock > 0)
    <3>1. (fq.lock > 0) = FALSE
      BY <2>2
    <3>2. n = [obj |-> obj, del |-> FALSE, new |-> FALSE]
      BY <3>1, Zenon DEF NewRecord
    <3> QED BY <2>2, <3>2 DEF RecOf
  <2> QED BY <2>1, <2>2
<1>3. /\ f.recs = r /\ f.lock = fq.lock /\ f.dirty \in BOOLEAN
      /\ f.dirty <=> (fq.dirty \/ fq.lock > 0)
      /\ f = [recs |-> r, lock |-> fq.lock, dirty |-> f.dirty]
  <2> DEFINE d == fq.dirty \/ fq.lock > 0
  <2>1. f = [fq EXCEPT !.recs = r, !.dirty = d]
    BY Zenon DEF InsertAfter
  <2>2. d \in BOOLEAN /\ (d <=> (fq.dirty \/ fq.lock > 0))
    OBVIOUS
  <2> HIDE DEF f, r, d
  <2> QED BY <2>1, <2>2 DEF QueueOf
<1>4. /\ r \in Seq(RecOf(Obj)) /\ Len(r) = Len(q) + 1
      /\ \A i \in 1 .. Len(q) + 1 : r[i] = IF i <= p THEN q[i]
                                       ELSE IF i = p + 1 THEN n ELSE q[i - 1]
  <2>1. q \in Seq(RecOf(Obj)) /\ n \in RecOf(Obj) /\ p \in 0 .. Len(q)
    BY <1>1, <1>2
  <2> HIDE DEF q, n, f
  <2>2. /\ PutIn(q, p, n) \in Seq(RecOf(Obj))
        /\ Len(PutIn(q, p, n)) = Len(q) + 1
    BY <2>1, PutInType
  <2>3. \A i \in 1 .. Len(q) + 1 :
           PutIn(q, p, n)[i] = IF i <= p THEN q[i]
                                     ELSE IF i = p + 1 THEN n ELSE q[i - 1]
    BY <2>1, PutInType
  <2> QED BY <2>2, <2>3
<1>5. \A i \in DOMAIN q : \E j \in DOMAIN r : r[j] = q[i]
  <2> HIDE DEF n, q, r
  <2> SUFFICES ASSUME NEW i \in DOMAIN q PROVE \E j \in DOMAIN r : r[j] = q[i]
    OBVIOUS
  <2>1. i \in 1 .. Len(q) /\ DOMAIN r = 1 .. Len(r) /\ Len(q) \in Nat /\ p \in Nat
    BY <1>1, <1>4
  <2>2. CASE i <= p
    BY <2>1, <2>2, <1>4
  <2>3. CASE i > p
    <3>1. i + 1 \in 1 .. Len(r) /\ r[i + 1] = q[i]
      BY <2>1, <2>3, <1>4
    <3> QED BY <2>1, <3>1
  <2> QED BY <2>1, <2>2, <2>3
<1>6. f \in QueueOf(Obj)
  <2> HIDE DEF f, r
  <2> QED BY <1>1, <1>3, <1>4 DEF QueueOf
<1>7. \A j \in DOMAIN r : r[j] = n \/ \E i \in DOMAIN q : r[j] = q[i]
  <2> HIDE DEF n, q, r
  <2> SUFFICES ASSUME NEW j \in DOMAIN r, r[j] # n
               PROVE  \E i \in DOMAIN q : r[j] = q[i]
    OBVIOUS
  <2>1. j \in 1 .. Len(r) /\ Len(q) \in Nat /\ p \in 0 .. Len(q) /\ DOMAIN q = 1 .. Len(q)
    BY <1>1, <1>4 DEF q
  <2>2. CASE j <= p
    BY <2>1, <2>2, <1>4
  <2>3. CASE j > p
    <3>1. j - 1 \in 1 .. Len(q) /\ r[j] = q[j - 1]
      BY <2>1, <2>3, <1>4
    <3> QED BY <2>1, <3>1
  <2> QED BY <2>1, <2>2, <2>3
<1>8. /\ FlagsNeedDirty(f)
      /\ fq.lock = 0 /\ NoFlags(fq) => NoFlags(f)
  <2>1. fq.lock = 0 /\ NoFlags(fq) => NoFlags(f)
    <3> HIDE DEF f, r, n
    <3> QED BY <1>2, <1>3, <1>7 DEF NoFlags
  <2> HIDE DEF f
  <2>2. CASE fq.dirty \/ fq.lock > 0
    <3>1. f.dirty
      BY <1>3, <2>2, Zenon
    <3>2. FlagsNeedDirty(f)
      BY <3>1, Zenon DEF FlagsNeedDirty
    <3> QED BY <2>1, <3>2
  <2>3. CASE ~(fq.dirty \/ fq.lock > 0)
    <3>1. fq.lock = 0
      BY <1>1, <2>3
    <3>2. NoFlags(fq)
      BY <2>3, Zenon DEF FlagsNeedDirty
    <3> QED BY <2>1, <3>1, <3>2 DEF FlagsNeedDirty
  <2> QED BY <2>2, <2>3
<1> QED BY <1>3, <1>5, <1>6, <1>8

(* fqueue_lock_queue changes nothing but the lock. *)
LEMMA LockType ==
    ASSUME NEW Obj, NEW fq \in QueueOf(Obj), FlagsNeedDirty(fq)
    PROVE  /\ LockQueue(fq) \in QueueOf(Obj)
           /\ LockQueue(fq).lock = fq.lock + 1
           /\ LockQueue(fq).recs = fq.recs
           /\ FlagsNeedDirty(LockQueue(fq))
BY DEF LockQueue, QueueOf, FlagsNeedDirty, NoFlags

(* Marking a record makes the queue dirty and moves no record. *)
LEMMA MarkType ==
    ASSUME NEW Obj, NEW fq \in QueueOf(Obj), NEW i \in DOMAIN fq.recs
    PROVE  /\ MarkDeleted(fq, i) \in QueueOf(Obj)
           /\ MarkDeleted(fq, i).lock = fq.lock
           /\ FlagsNeedDirty(MarkDeleted(fq, i))
           /\ DOMAIN MarkDeleted(fq, i).recs = DOMAIN fq.recs
           /\ \A j \in DOMAIN fq.recs : MarkDeleted(fq, i).recs[j].obj = fq.recs[j].obj
<1>1. fq.recs \in Seq(RecOf(Obj)) /\ fq.recs[i] \in RecOf(Obj)
  BY DEF QueueOf
<1> DEFINE n == [fq.recs[i] EXCEPT !.del = TRUE]
           r == [fq.recs EXCEPT ![i] = n]
<1>2. n \in RecOf(Obj) /\ n.obj = fq.recs[i].obj
  BY <1>1 DEF RecOf
<1>3. r \in Seq(RecOf(Obj)) /\ DOMAIN r = DOMAIN fq.recs
  <2> HIDE DEF n
  <2> QED BY <1>1, <1>2
<1>4. \A j \in DOMAIN fq.recs : r[j].obj = fq.recs[j].obj
  <2> HIDE DEF n
  <2> QED BY <1>1, <1>2
<1>5. MarkDeleted(fq, i) = [fq EXCEPT !.recs = r, !.dirty = TRUE]
  BY DEF MarkDeleted, QueueOf
<1> HIDE DEF r
<1> QED BY <1>3, <1>4, <1>5 DEF QueueOf, FlagsNeedDirty

(* fqueue_remove_or_operate_all: in a queue that is locked no record goes. *)
LEMMA RemoveAllType ==
    ASSUME NEW Obj, NEW fq \in QueueOf(Obj), FlagsNeedDirty(fq), NEW objs
    PROVE  /\ RemoveAll(fq, objs) \in QueueOf(Obj)
           /\ RemoveAll(fq, objs).lock = fq.lock
           /\ FlagsNeedDirty(RemoveAll(fq, objs))
           /\ fq.lock = 0 => NoFlags(RemoveAll(fq, objs))
                             \/ IsEmpty(RemoveAll(fq, objs))
           /\ fq.lock > 0 =>
                /\ DOMAIN RemoveAll(fq, objs).recs = DOMAIN fq.recs
                /\ \A j \in DOMAIN fq.recs :
                      RemoveAll(fq, objs).recs[j].obj = fq.recs[j].obj
<1> DEFINE hits == {i \in DOMAIN fq.recs : /\ ~Skipped(fq.recs[i])
                                           /\ fq.recs[i].obj \in objs}
           rs == [i \in DOMAIN fq.recs |->
                    IF i \in hits THEN [fq.recs[i] EXCEPT !.del = TRUE]
                    ELSE fq.recs[i]]
           marked == [recs |-> rs, lock |-> fq.lock + 1,
                      dirty |-> fq.dirty \/ hits # {}]
<1>0. fq.recs \in Seq(RecOf(Obj)) /\ fq.lock \in Nat /\ fq.dirty \in BOOLEAN
  BY DEF QueueOf
<1>1. CASE IsEmpty(fq)
  <2>1. RemoveAll(fq, objs) = fq
    BY <1>1, Zenon DEF RemoveAll
  <2> QED BY <1>1, <2>1
<1>2. CASE ~IsEmpty(fq)
  <2>1. RemoveAll(fq, objs) = UnlockQueue(marked)
    BY <1>2, Zenon DEF RemoveAll
  <2>2. \A i \in DOMAIN fq.recs : /\ rs[i] \in RecOf(Obj)
                                  /\ rs[i].obj = fq.recs[i].obj
                                  /\ hits = {} => rs[i] = fq.recs[i]
    <3> SUFFICES ASSUME NEW i \in DOMAIN fq.recs
                 PROVE  /\ rs[i] \in RecOf(Obj)
                        /\ rs[i].obj = fq.recs[i].obj
                        /\ hits = {} => rs[i] = fq.recs[i]
      OBVIOUS
    <3>1. fq.recs[i] \in RecOf(Obj)
      BY <1>0
    <3>2. rs[i] = fq.recs[i] \/ (i \in hits /\ rs[i] = [fq.recs[i] EXCEPT !.del = TRUE])
      BY Zenon
    <3> HIDE DEF rs, hits
    <3> QED BY <3>1, <3>2 DEF RecOf
  <2>3. rs \in Seq(RecOf(Obj)) /\ DOMAIN rs = DOMAIN fq.recs
    <3>1. \E m \in Nat : DOMAIN fq.recs = 1 .. m
      BY <1>0
    <3>2. DOMAIN rs = DOMAIN fq.recs
      OBVIOUS
    <3> HIDE DEF hits, rs
    <3>3. \A i \in DOMAIN fq.recs : rs[i] \in RecOf(Obj)
      BY <2>2
    <3>4. rs = [i \in DOMAIN fq.recs |-> rs[i]]
      BY DEF rs
    <3> QED BY <3>1, <3>2, <3>3, <3>4
  <2>4. /\ marked \in QueueOf(Obj) /\ marked.lock = fq.lock + 1
        /\ marked.recs = rs /\ (marked.dirty <=> (fq.dirty \/ hits # {}))
    <3> DEFINE d == fq.dirty \/ hits # {}
    <3>1. d \in BOOLEAN
      BY Zenon
    <3>2. marked = [recs |-> rs, lock |-> fq.lock + 1, dirty |-> d]
      BY Zenon
    <3>3. marked.dirty = d /\ marked.recs = rs
      BY Zenon
    <3>4. marked.dirty <=> (fq.dirty \/ hits # {})
      BY <3>3, Zenon
    <3> HIDE DEF rs, d, marked
    <3> QED BY <1>0, <2>3, <3>1, <3>2, <3>3, <3>4 DEF QueueOf
  <2>5. FlagsNeedDirty(marked)
    <3> HIDE DEF rs, hits, marked
    <3> QED BY <2>2, <2>3, <2>4 DEF FlagsNeedDirty, NoFlags
  <2> HIDE DEF marked
  <2>6. /\ UnlockQueue(marked) \in QueueOf(Obj)
        /\ UnlockQueue(marked).lock = marked.lock - 1
        /\ FlagsNeedDirty(UnlockQueue(marked))
        /\ marked.lock = 1 => NoFlags(UnlockQueue(marked))
        /\ marked.lock > 1 => UnlockQueue(marked).recs = marked.recs
    <3>1. marked.lock > 0
      BY <1>0, <2>4
    <3> QED BY <2>4, <2>5, <3>1, UnlockType, Zenon
  <2> HIDE DEF rs
  <2> QED BY <1>0, <2>1, <2>2, <2>3, <2>4, <2>6
<1> QED BY <1>1, <1>2

-----------------------------------------------------------------------------
(* The invariant *)
(* The indices of the scans on a stack *)
Execs(fr) == {d \in DOMAIN fr : fr[d].kind = "exec"}

(* A stack over a queue: its bottom is the event loop, a command that runs
   belongs to a record, and the record a scan stands on is in the queue. *)
StackOK(fr, q) ==
    /\ fr \in Seq(Frame) /\ fr # <<>> /\ fr[1].kind = "loop"
    /\ \A d \in Execs(fr) : /\ fr[d].pc = "run" => fr[d].cur # 0
                            /\ fr[d].cur # 0 => fr[d].cur \in TokensOf(q)

(* A queue that is locked once for each of n scans *)
QueueOK(q, n) == /\ q \in QueueOf(Job) /\ q.lock = n
                 /\ FlagsNeedDirty(q)
                 /\ q.lock = 0 => NoFlags(q)

NumbersOK == /\ lastId \in Int /\ nextId \in MinId .. -1
             /\ evtime \in 0 .. ServerMod /\ clock \in 0 .. ServerMod
             /\ events \in Nat

IInv == /\ NumbersOK
        /\ StackOK(frames, sq)
        /\ QueueOK(sq, Cardinality(Execs(frames)))

-----------------------------------------------------------------------------
(* The stack *)

LEMMA ExecsFinite ==
    ASSUME NEW fr \in Seq(Frame)
    PROVE  IsFiniteSet(Execs(fr)) /\ Cardinality(Execs(fr)) \in Nat
<1>1. Execs(fr) \subseteq 1 .. Len(fr) /\ Len(fr) \in Nat
  BY DEF Execs
<1>2. IsFiniteSet(1 .. Len(fr))
  BY <1>1, FS_Interval
<1> QED BY <1>1, <1>2, FS_Subset, FS_CardinalityType

LEMMA ReplaceTop ==
    ASSUME NEW fr \in Seq(Frame), fr # <<>>, NEW f \in Frame,
           f.kind = fr[Len(fr)].kind,
           NEW g, g = [fr EXCEPT ![Len(fr)] = f]
    PROVE  /\ g \in Seq(Frame) /\ g # <<>> /\ Len(g) = Len(fr)
           /\ \A d \in DOMAIN fr : g[d] = IF d = Len(fr) THEN f ELSE fr[d]
           /\ DOMAIN g = DOMAIN fr
           /\ Execs(g) = Execs(fr)
BY DEF Execs

LEMMA NotEmpty ==
    ASSUME NEW fr \in Seq(Frame), Len(fr) > 0
    PROVE  fr # <<>> /\ DOMAIN fr = 1 .. Len(fr)
OBVIOUS

(* What the stack g is when the last frame of fr has returned. *)
Popped(g, fr) ==
    /\ g \in Seq(Frame) /\ g # <<>> /\ Len(g) = Len(fr) - 1
    /\ \A d \in DOMAIN g : d \in DOMAIN fr /\ g[d] = fr[d]
    /\ fr[Len(fr)].kind = "exec" =>
         /\ Execs(g) = Execs(fr) \ {Len(fr)}
         /\ Cardinality(Execs(g)) = Cardinality(Execs(fr)) - 1
    /\ fr[Len(fr)].kind # "exec" => Execs(g) = Execs(fr)

LEMMA Pop ==
    ASSUME NEW fr \in Seq(Frame), Len(fr) > 1,
           NEW g, g = SubSeq(fr, 1, Len(fr) - 1)
    PROVE  Popped(g, fr)
<1>1. /\ g \in Seq(Frame) /\ g # <<>> /\ Len(g) = Len(fr) - 1
      /\ \A d \in DOMAIN g : d \in DOMAIN fr /\ g[d] = fr[d]
  <2>1. /\ SubSeq(fr, 1, Len(fr) - 1) \in Seq(Frame)
        /\ Len(SubSeq(fr, 1, Len(fr) - 1)) = Len(fr) - 1
        /\ \A d \in 1 .. Len(fr) - 1 : SubSeq(fr, 1, Len(fr) - 1)[d] = fr[d]
    OBVIOUS
  <2>2. /\ g \in Seq(Frame) /\ Len(g) = Len(fr) - 1
        /\ \A d \in 1 .. Len(fr) - 1 : g[d] = fr[d]
    BY <2>1, Zenon
  <2>3. g # <<>> /\ DOMAIN g = 1 .. Len(fr) - 1
    <3>1. g \in Seq(Frame) /\ Len(g) > 0
      BY <2>2
    <3> QED BY <2>2, <3>1, NotEmpty, Zenon
  <2>4. \A d \in DOMAIN g : d \in DOMAIN fr
    BY <2>2, <2>3
  <2> QED BY <2>2, <2>3, <2>4
<1>2. DOMAIN g = DOMAIN fr \ {Len(fr)} /\ Len(fr) \in DOMAIN fr
  BY <1>1
<1>3. ASSUME fr[Len(fr)].kind = "exec"
      PROVE  /\ Execs(g) = Execs(fr) \ {Len(fr)}
             /\ Cardinality(Execs(g)) = Cardinality(Execs(fr)) - 1
  <2>1. Execs(g) = Execs(fr) \ {Len(fr)} /\ Len(fr) \in Execs(fr)
    BY <1>1, <1>2, <1>3 DEF Execs
  <2>2. Cardinality(Execs(fr) \ {Len(fr)}) = Cardinality(Execs(fr)) - 1
    BY <2>1, ExecsFinite, FS_RemoveElement
  <2> QED BY <2>1, <2>2
<1>4. ASSUME fr[Len(fr)].kind # "exec" PROVE Execs(g) = Execs(fr)
  BY <1>1, <1>2, <1>4 DEF Execs
<1> QED BY <1>1, <1>3, <1>4, Zenon DEF Popped

LEMMA ReplaceOK ==
    ASSUME NEW fr, NEW q, StackOK(fr, q), NEW f \in Frame,
           f.kind = fr[Len(fr)].kind,
           f.kind = "exec" => /\ f.pc = "run" => f.cur # 0
                              /\ f.cur # 0 => f.cur \in TokensOf(q)
    PROVE  /\ StackOK([fr EXCEPT ![Len(fr)] = f], q)
           /\ Execs([fr EXCEPT ![Len(fr)] = f]) = Execs(fr)
<1> DEFINE g == [fr EXCEPT ![Len(fr)] = f]
<1>1. fr \in Seq(Frame) /\ fr # <<>>
  BY DEF StackOK
<1>2. /\ g \in Seq(Frame) /\ g # <<>>
      /\ \A d \in DOMAIN fr : g[d] = IF d = Len(fr) THEN f ELSE fr[d]
      /\ DOMAIN g = DOMAIN fr
      /\ Execs(g) = Execs(fr)
  BY <1>1, ReplaceTop
<1>3. 1 \in DOMAIN fr /\ Len(fr) \in DOMAIN fr /\ Execs(fr) \subseteq DOMAIN fr
  BY <1>1 DEF Execs
<1>4. ASSUME Len(fr) \in Execs(fr) PROVE f.kind = "exec"
  BY <1>4 DEF Execs
<1> HIDE DEF g
<1> QED BY <1>2, <1>3, <1>4 DEF StackOK

LEMMA PushOK ==
    ASSUME NEW fr, NEW q, StackOK(fr, q), NEW f \in Frame, f.pc # "run", f.cur = 0,
           NEW g, g = Append(fr, f)
    PROVE  /\ StackOK(g, q)
           /\ f.kind = "exec" => Cardinality(Execs(g)) = Cardinality(Execs(fr)) + 1
           /\ f.kind # "exec" => Execs(g) = Execs(fr)
<1> DEFINE n == Len(fr) + 1
<1>1. fr \in Seq(Frame) /\ fr # <<>>
  BY DEF StackOK
<1>2. /\ g \in Seq(Frame) /\ g # <<>>
      /\ \A d \in DOMAIN fr : g[d] = fr[d]
      /\ g[n] = f
      /\ DOMAIN g = DOMAIN fr \cup {n} /\ n \notin DOMAIN fr
  BY <1>1
<1>3. 1 \in DOMAIN fr
  BY <1>1
<1> HIDE DEF n
<1>4. Execs(g) = IF f.kind = "exec" THEN Execs(fr) \cup {n} ELSE Execs(fr)
  BY <1>2 DEF Execs
<1>5. n \notin Execs(fr)
  BY <1>2 DEF Execs
<1>6. \A d \in Execs(g) :
         \/ g[d].cur = 0 /\ g[d].pc # "run"
         \/ d \in Execs(fr) /\ g[d] = fr[d]
  BY <1>2, <1>4 DEF Execs
<1>7. StackOK(g, q)
  <2>1. g[1].kind = "loop"
    BY <1>2, <1>3 DEF StackOK
  <2>2. \A d \in Execs(g) : /\ g[d].pc = "run" => g[d].cur # 0
                            /\ g[d].cur # 0 => g[d].cur \in TokensOf(q)
    BY <1>6, Zenon DEF StackOK
  <2> QED BY <1>2, <2>1, <2>2, Zenon DEF StackOK
<1>8. Cardinality(Execs(fr) \cup {n}) = Cardinality(Execs(fr)) + 1
  BY <1>1, <1>5, ExecsFinite, FS_AddElement
<1> QED BY <1>4, <1>7, <1>8

LEMMA PopOK ==
    ASSUME NEW fr, NEW q, StackOK(fr, q), NEW g, g = SubSeq(fr, 1, Len(fr) - 1),
           Len(fr) > 1
    PROVE  /\ StackOK(g, q)
           /\ fr[Len(fr)].kind = "exec" =>
                Cardinality(Execs(g)) = Cardinality(Execs(fr)) - 1
           /\ fr[Len(fr)].kind # "exec" => Execs(g) = Execs(fr)
<1>1. fr \in Seq(Frame)
  BY DEF StackOK
<1>2. Popped(g, fr)
  BY <1>1, Pop
<1>3. 1 \in DOMAIN g /\ Execs(g) \subseteq DOMAIN g
  <2>1. g \in Seq(Frame) /\ Len(g) > 0
    BY <1>1, <1>2 DEF Popped
  <2>2. DOMAIN g = 1 .. Len(g)
    BY <2>1, NotEmpty
  <2> QED BY <1>2, <2>1, <2>2 DEF Execs
<1>4. Execs(g) \subseteq Execs(fr)
  BY <1>2 DEF Popped
<1>5. /\ g[1].kind = "loop"
      /\ \A d \in Execs(g) : /\ g[d].pc = "run" => g[d].cur # 0
                             /\ g[d].cur # 0 => g[d].cur \in TokensOf(q)
  BY <1>2, <1>3, <1>4, Zenon DEF StackOK, Popped
<1> QED BY <1>2, <1>5, Zenon DEF StackOK, Popped

-----------------------------------------------------------------------------
(* The queue *)

LEMMA TokensKept ==
    ASSUME NEW p, NEW q,
           \A i \in DOMAIN p.recs : \E j \in DOMAIN q.recs :
               q.recs[j].obj.tok = p.recs[i].obj.tok
    PROVE  TokensOf(p) \subseteq TokensOf(q)
BY DEF TokensOf, JobsOf

(* malloc finds an address that is not in use. *)
LEMMA FreshTokenType ==
    ASSUME NEW fq \in QueueOf(Job)
    PROVE  FreshToken(fq) \in Nat \ {0} /\ FreshToken(fq) \notin TokensOf(fq)
<1> DEFINE n == Len(fq.recs)
<1>1. n \in Nat /\ DOMAIN fq.recs = 1 .. n
  BY DEF QueueOf
<1>2. \E t \in 1 .. n + 1 : t \notin TokensOf(fq)
  <2> SUFFICES ASSUME \A t \in 1 .. n + 1 : t \in TokensOf(fq) PROVE FALSE
    OBVIOUS
  <2> DEFINE f == [t \in 1 .. n + 1 |-> CHOOSE i \in 1 .. n : fq.recs[i].obj.tok = t]
  <2>1. \A t \in 1 .. n + 1 : \E i \in 1 .. n : fq.recs[i].obj.tok = t
    <3> HIDE DEF n
    <3> QED BY <1>1 DEF TokensOf, JobsOf
  <2>2. \A t \in 1 .. n + 1 : f[t] \in 1 .. n /\ fq.recs[f[t]].obj.tok = t
    <3> HIDE DEF n
    <3> QED BY <2>1
  <2>3. f \in [1 .. n + 1 -> 1 .. n]
    BY <2>2
  <2>4. /\ IsFiniteSet(1 .. n) /\ IsFiniteSet(1 .. n + 1)
        /\ Cardinality(1 .. n) < Cardinality(1 .. n + 1)
    <3> HIDE DEF n
    <3> QED BY <1>1, FS_Interval
  <2>5. \E x, y \in 1 .. n + 1 : x # y /\ f[x] = f[y]
    <3> HIDE DEF n, f
    <3> QED BY <2>3, <2>4, FS_PigeonHole
  <2> HIDE DEF n, f
  <2> QED BY <2>2, <2>5
<1>3. FreshToken(fq) \in 1 .. n + 1 /\ FreshToken(fq) \notin TokensOf(fq)
  BY <1>2 DEF FreshToken
<1> QED BY <1>1, <1>3

(* What schedule() and execute_obj_func do to the queue: every record stays. *)
LEMMA InsertJob ==
    ASSUME NEW fq \in QueueOf(Job), FlagsNeedDirty(fq), NEW job \in Job
    PROVE  /\ Insert(fq, job) \in QueueOf(Job)
           /\ FlagsNeedDirty(Insert(fq, job))
           /\ Insert(fq, job).lock = fq.lock
           /\ fq.lock = 0 /\ NoFlags(fq) => NoFlags(Insert(fq, job))
           /\ TokensOf(fq) \subseteq TokensOf(Insert(fq, job))
<1> DEFINE later == {i \in DOMAIN fq.recs : EarlierJob(job, fq.recs[i].obj)}
           least == CHOOSE i \in later : \A j \in later : i <= j
           p == IF later = {} THEN Len(fq.recs) ELSE least - 1
<1>1. Len(fq.recs) \in Nat /\ DOMAIN fq.recs = 1 .. Len(fq.recs)
  BY DEF QueueOf
<1>2. later \subseteq Nat
  BY <1>1
<1>3. p \in 0 .. Len(fq.recs)
  <2>1. CASE later = {}
    BY <1>1, <2>1
  <2>2. CASE later # {}
    <3>1. \E i \in later : \A j \in later : i <= j
      <4> HIDE DEF later
      <4> QED BY <1>2, <2>2, LeastNat
    <3>2. least \in 1 .. Len(fq.recs)
      BY <1>1, <3>1
    <3> HIDE DEF least, later
    <3> QED BY <1>1, <2>2, <3>2
  <2> QED BY <2>1, <2>2
<1>4. Insert(fq, job) = InsertAfter(fq, p, job)
  BY DEF Insert, AddInside
<1> HIDE DEF p
<1>5. /\ InsertAfter(fq, p, job) \in QueueOf(Job)
      /\ InsertAfter(fq, p, job).lock = fq.lock
      /\ FlagsNeedDirty(InsertAfter(fq, p, job))
      /\ fq.lock = 0 /\ NoFlags(fq) => NoFlags(InsertAfter(fq, p, job))
      /\ \A i \in DOMAIN fq.recs :
            \E j \in DOMAIN InsertAfter(fq, p, job).recs :
                InsertAfter(fq, p, job).recs[j] = fq.recs[i]
  BY <1>3, InsertType
<1>6. TokensOf(fq) \subseteq TokensOf(InsertAfter(fq, p, job))
  BY <1>5, TokensKept
<1> QED BY <1>4, <1>5, <1>6

(* A stack may be put over another queue that holds its records, and over any
   queue if no scan is on the stack. *)
LEMMA StackMoves ==
    ASSUME NEW fr, NEW q, NEW r, StackOK(fr, q),
           TokensOf(q) \subseteq TokensOf(r) \/ Cardinality(Execs(fr)) = 0
    PROVE  StackOK(fr, r)
<1>1. CASE TokensOf(q) \subseteq TokensOf(r)
  BY <1>1 DEF StackOK
<1>2. CASE Cardinality(Execs(fr)) = 0
  <2>1. fr \in Seq(Frame)
    BY DEF StackOK
  <2>2. Execs(fr) = {}
    BY <1>2, <2>1, ExecsFinite, FS_EmptySet
  <2> QED BY <2>2 DEF StackOK
<1> QED BY <1>1, <1>2

(* What happens to objects only: the same records with other objects *)
LEMMA SameFlags ==
    ASSUME NEW q, NEW n, QueueOK(q, n), NEW rs, DOMAIN rs = DOMAIN q.recs,
           \A i \in DOMAIN rs : /\ rs[i] \in RecOf(Job)
                                /\ rs[i].del = q.recs[i].del
                                /\ rs[i].new = q.recs[i].new
                                /\ rs[i].obj.tok = q.recs[i].obj.tok,
           rs = [i \in DOMAIN rs |-> rs[i]]
    PROVE  /\ QueueOK([q EXCEPT !.recs = rs], n)
           /\ TokensOf(q) \subseteq TokensOf([q EXCEPT !.recs = rs])
<1> DEFINE p == [q EXCEPT !.recs = rs]
<1>1. q \in QueueOf(Job) /\ q.recs \in Seq(RecOf(Job))
  BY DEF QueueOK, QueueOf
<1>2. rs \in Seq(RecOf(Job))
  <2>1. \E m \in Nat : DOMAIN rs = 1 .. m
    BY <1>1
  <2> QED BY <2>1
<1>3. /\ p \in QueueOf(Job) /\ p.lock = q.lock /\ p.dirty = q.dirty
      /\ p.recs = rs
  BY <1>1, <1>2 DEF QueueOf
<1> HIDE DEF p
<1>4. NoFlags(q) => NoFlags(p)
  BY <1>3 DEF NoFlags
<1>5. QueueOK(p, n)
  BY <1>3, <1>4 DEF QueueOK, FlagsNeedDirty
<1>6. \A i \in DOMAIN q.recs : \E j \in DOMAIN p.recs :
          p.recs[j].obj.tok = q.recs[i].obj.tok
  BY <1>3
<1>7. TokensOf(q) \subseteq TokensOf(p)
  BY <1>6, TokensKept
<1> QED BY <1>5, <1>7 DEF p

LEMMA NoteStoppedType ==
    ASSUME NEW q, NEW n, QueueOK(q, n), NEW id
    PROVE  /\ QueueOK(NoteStopped(q, id), n)
           /\ TokensOf(q) \subseteq TokensOf(NoteStopped(q, id))
<1> DEFINE rs == [i \in DOMAIN q.recs |->
                    IF q.recs[i].obj.id = id
                    THEN [q.recs[i] EXCEPT !.obj.stopped = TRUE]
                    ELSE q.recs[i]]
<1>1. q.recs \in Seq(RecOf(Job))
  BY DEF QueueOK, QueueOf
<1>2. ASSUME NEW i \in DOMAIN q.recs
      PROVE  /\ rs[i] \in RecOf(Job)
             /\ rs[i].del = q.recs[i].del
             /\ rs[i].new = q.recs[i].new
             /\ rs[i].obj.tok = q.recs[i].obj.tok
  <2>1. q.recs[i] \in RecOf(Job) /\ q.recs[i].obj \in Job
    <3>1. q.recs[i] \in RecOf(Job)
      BY <1>1
    <3> QED BY <3>1 DEF RecOf
  <2> DEFINE job == [q.recs[i].obj EXCEPT !.stopped = TRUE]
  <2>2. job \in Job /\ job.tok = q.recs[i].obj.tok
    BY <2>1 DEF Job
  <2>3. [q.recs[i] EXCEPT !.obj.stopped = TRUE] = [q.recs[i] EXCEPT !.obj = job]
    BY <2>1 DEF RecOf
  <2>4. rs[i] = q.recs[i] \/ rs[i] = [q.recs[i] EXCEPT !.obj = job]
    BY <2>3, Zenon
  <2> HIDE DEF job, rs
  <2> QED BY <2>1, <2>2, <2>4 DEF RecOf
<1>3. NoteStopped(q, id) = [q EXCEPT !.recs = rs]
  BY Zenon DEF NoteStopped
<1>4. DOMAIN rs = DOMAIN q.recs /\ rs = [i \in DOMAIN rs |-> rs[i]]
  BY Zenon
<1> HIDE DEF rs
<1>5. \A i \in DOMAIN rs : /\ rs[i] \in RecOf(Job)
                           /\ rs[i].del = q.recs[i].del
                           /\ rs[i].new = q.recs[i].new
                           /\ rs[i].obj.tok = q.recs[i].obj.tok
  BY <1>2, <1>4
<1> QED BY <1>3, <1>4, <1>5, SameFlags

(* deschedule(): while a scan is active no record goes. *)
LEMMA RemoveJobs ==
    ASSUME NEW q, NEW n, QueueOK(q, n), NEW jobs
    PROVE  /\ QueueOK(RemoveAll(q, jobs), n)
           /\ TokensOf(q) \subseteq TokensOf(RemoveAll(q, jobs)) \/ n = 0
<1> DEFINE r == RemoveAll(q, jobs)
<1>1. q \in QueueOf(Job) /\ FlagsNeedDirty(q) /\ q.lock = n /\ n \in Nat
  BY DEF QueueOK, QueueOf
<1>2. /\ r \in QueueOf(Job) /\ r.lock = q.lock /\ FlagsNeedDirty(r)
      /\ q.lock = 0 => NoFlags(r) \/ IsEmpty(r)
      /\ q.lock > 0 => /\ DOMAIN r.recs = DOMAIN q.recs
                       /\ \A j \in DOMAIN q.recs : r.recs[j].obj = q.recs[j].obj
  BY <1>1, RemoveAllType, Zenon
<1> HIDE DEF r
<1>3. IsEmpty(r) => NoFlags(r)
  BY DEF IsEmpty, NoFlags
<1>4. QueueOK(r, n)
  BY <1>1, <1>2, <1>3 DEF QueueOK
<1>5. CASE n > 0
  <2>1. \A i \in DOMAIN q.recs : \E j \in DOMAIN r.recs :
            r.recs[j].obj.tok = q.recs[i].obj.tok
    BY <1>1, <1>2, <1>5
  <2>2. TokensOf(q) \subseteq TokensOf(r)
    BY <2>1, TokensKept
  <2> QED BY <1>4, <2>2 DEF r
<1>6. CASE n = 0
  BY <1>4, <1>6 DEF r
<1> QED BY <1>1, <1>5, <1>6

(* Taking and giving back the lock of a scan *)
LEMMA LockJobs ==
    ASSUME NEW q, NEW n \in Nat, QueueOK(q, n)
    PROVE  /\ QueueOK(LockQueue(q), n + 1)
           /\ TokensOf(q) \subseteq TokensOf(LockQueue(q))
<1> DEFINE r == LockQueue(q)
<1>1. q \in QueueOf(Job) /\ FlagsNeedDirty(q) /\ q.lock = n
  BY DEF QueueOK
<1>2. /\ r \in QueueOf(Job) /\ r.lock = q.lock + 1 /\ r.recs = q.recs
      /\ FlagsNeedDirty(r)
  BY <1>1, LockType, Zenon
<1> HIDE DEF r
<1>3. QueueOK(r, n + 1)
  BY <1>1, <1>2 DEF QueueOK
<1>4. TokensOf(r) = TokensOf(q)
  BY <1>2 DEF TokensOf, JobsOf
<1> QED BY <1>3, <1>4 DEF r

LEMMA UnlockJobs ==
    ASSUME NEW q, NEW n \in Nat, n > 0, QueueOK(q, n)
    PROVE  /\ QueueOK(UnlockQueue(q), n - 1)
           /\ TokensOf(q) \subseteq TokensOf(UnlockQueue(q)) \/ n = 1
<1> DEFINE r == UnlockQueue(q)
<1>1. q \in QueueOf(Job) /\ FlagsNeedDirty(q) /\ q.lock = n /\ q.lock > 0
  BY DEF QueueOK
<1>2. /\ r \in QueueOf(Job) /\ r.lock = q.lock - 1
      /\ FlagsNeedDirty(r)
      /\ q.lock = 1 => NoFlags(r)
      /\ q.lock > 1 => r.recs = q.recs
  BY <1>1, UnlockType, Zenon
<1> HIDE DEF r
<1>3. QueueOK(r, n - 1)
  BY <1>1, <1>2 DEF QueueOK
<1>4. n > 1 => TokensOf(r) = TokensOf(q)
  BY <1>1, <1>2 DEF TokensOf, JobsOf
<1> QED BY <1>3, <1>4 DEF r

LEMMA MarkJob ==
    ASSUME NEW q, NEW n \in Nat, n > 0, QueueOK(q, n), NEW i \in DOMAIN q.recs
    PROVE  /\ QueueOK(MarkDeleted(q, i), n)
           /\ TokensOf(q) \subseteq TokensOf(MarkDeleted(q, i))
           /\ DOMAIN MarkDeleted(q, i).recs = DOMAIN q.recs
<1> DEFINE r == MarkDeleted(q, i)
<1>1. q \in QueueOf(Job) /\ q.lock = n
  BY DEF QueueOK
<1>2. /\ r \in QueueOf(Job) /\ r.lock = q.lock /\ FlagsNeedDirty(r)
      /\ DOMAIN r.recs = DOMAIN q.recs
      /\ \A j \in DOMAIN q.recs : r.recs[j].obj = q.recs[j].obj
  BY <1>1, MarkType, Zenon
<1> HIDE DEF r
<1>3. QueueOK(r, n)
  BY <1>1, <1>2 DEF QueueOK
<1>4. \A j \in DOMAIN q.recs : \E k \in DOMAIN r.recs :
          r.recs[k].obj.tok = q.recs[j].obj.tok
  BY <1>2
<1>5. TokensOf(q) \subseteq TokensOf(r)
  BY <1>4, TokensKept
<1> QED BY <1>2, <1>3, <1>5 DEF r

-----------------------------------------------------------------------------
(* The inductive invariant *)

LEMMA InvImplies == IInv => TypeOK /\ LockCountsScans /\ CursorAlive
<1> SUFFICES ASSUME IInv PROVE TypeOK /\ LockCountsScans /\ CursorAlive
  OBVIOUS
<1>1. ExecFrames = Execs(frames)
  BY DEF ExecFrames, Execs
<1>2. TypeOK
  BY DEF IInv, NumbersOK, StackOK, QueueOK, TypeOK
<1>3. LockCountsScans
  BY <1>1 DEF IInv, QueueOK, LockCountsScans, NoFlags
<1>4. CursorAlive
  BY <1>1 DEF IInv, StackOK, CursorAlive
<1> QED BY <1>2, <1>3, <1>4

LEMMA InitInv == Init => IInv
<1> SUFFICES ASSUME Init PROVE IInv
  OBVIOUS
<1>1. LoopFrame("poll", Forever) \in Frame /\ LoopFrame("poll", Forever).kind = "loop"
  BY ScheduleAssumption DEF LoopFrame, Frame, Pcs, Forever
<1>2. Execs(frames) = {} /\ StackOK(frames, sq)
  <2>1. frames = <<LoopFrame("poll", Forever)>>
    BY DEF Init
  <2>2. frames \in Seq(Frame) /\ Len(frames) = 1 /\ frames[1].kind = "loop"
    BY <1>1, <2>1
  <2>3. Execs(frames) = {} /\ frames # <<>>
    <3>0. Len(frames) > 0
      BY <2>2
    <3>1. DOMAIN frames = 1 .. 1 /\ frames # <<>>
      BY <2>2, <3>0, NotEmpty, Zenon
    <3> QED BY <2>2, <3>1 DEF Execs
  <2> QED BY <2>2, <2>3 DEF StackOK
<1>3. sq \in QueueOf(Job) /\ sq.lock = 0 /\ NoFlags(sq)
  BY DEF Init, FQueueInit, QueueOf, NoFlags
<1>4. QueueOK(sq, Cardinality(Execs(frames)))
  BY <1>2, <1>3, FS_EmptySet DEF QueueOK, FlagsNeedDirty
<1>5. NumbersOK
  BY ScheduleAssumption DEF Init, NumbersOK
<1> QED BY <1>2, <1>4, <1>5 DEF IInv

(* Facts about the activation that runs *)
LEMMA TopFacts ==
    ASSUME IInv
    PROVE  /\ frames \in Seq(Frame) /\ Depth \in DOMAIN frames /\ Depth \in Nat
           /\ Top \in Frame
           /\ Top.kind = "exec" => Depth > 1 /\ Cardinality(Execs(frames)) > 0
           /\ Cardinality(Execs(frames)) \in Nat
           /\ InExec("run") => Top.cur \in TokensOf(sq)
           /\ InExec("scan") /\ Top.cur # 0 => Top.cur \in TokensOf(sq)
<1>1. frames \in Seq(Frame) /\ frames # <<>> /\ frames[1].kind = "loop"
  BY DEF IInv, StackOK
<1>2. Depth \in DOMAIN frames /\ Depth \in Nat /\ Depth >= 1 /\ Top \in Frame
  BY <1>1 DEF Depth, Top
<1>3. IsFiniteSet(Execs(frames)) /\ Cardinality(Execs(frames)) \in Nat
  BY <1>1, ExecsFinite
<1>4. Top.kind = "exec" => Depth \in Execs(frames)
  BY <1>2 DEF Execs, Top
<1>5. Execs(frames) # {} => Cardinality(Execs(frames)) > 0
  BY <1>3, FS_EmptySet
<1>6. Top.kind = "exec" => Depth # 1
  BY <1>1 DEF Top
<1>7. /\ InExec("run") => Top.cur \in TokensOf(sq)
      /\ InExec("scan") /\ Top.cur # 0 => Top.cur \in TokensOf(sq)
  BY <1>4 DEF IInv, StackOK, InExec, Top
<1> QED BY <1>1, <1>2, <1>3, <1>4, <1>5, <1>6, <1>7

(* A token of the queue is at a position. *)
LEMMA IndexOfType ==
    ASSUME NEW tok \in TokensOf(sq)
    PROVE  IndexOf(tok) \in DOMAIN sq.recs
BY DEF IndexOf, TokensOf, JobsOf

(* The activation that runs goes on as f, over a queue that holds at least the
   records it held. *)
LEMMA ReplaceStep ==
    ASSUME IInv, NEW f \in Frame, f.kind = Top.kind,
           f.kind = "exec" => /\ f.pc = "run" => f.cur # 0
                              /\ f.cur # 0 => f.cur \in TokensOf(sq),
           frames' = [frames EXCEPT ![Depth] = f],
           TokensOf(sq) \subseteq TokensOf(sq'),
           QueueOK(sq', Cardinality(Execs(frames))), NumbersOK'
    PROVE  IInv'
<1>1. /\ StackOK([frames EXCEPT ![Len(frames)] = f], sq)
      /\ Execs([frames EXCEPT ![Len(frames)] = f]) = Execs(frames)
  BY ReplaceOK DEF IInv, Top, Depth
<1>2. StackOK(frames', sq) /\ Execs(frames') = Execs(frames)
  BY <1>1 DEF Depth
<1>3. StackOK(frames', sq')
  BY <1>2, StackMoves
<1> QED BY <1>2, <1>3 DEF IInv

(* The stack stays as it is. *)
LEMMA SameStackStep ==
    ASSUME IInv, frames' = frames,
           TokensOf(sq) \subseteq TokensOf(sq') \/ Cardinality(Execs(frames)) = 0,
           QueueOK(sq', Cardinality(Execs(frames))), NumbersOK'
    PROVE  IInv'
<1>1. StackOK(frames, sq')
  BY StackMoves DEF IInv
<1> QED BY <1>1 DEF IInv

(* Numbers *)
LEMMA StampedType ==
    ASSUME NumbersOK PROVE Stamped(clock) \in 0 .. ServerMod
BY DEF NumbersOK, Stamped

LEMMA TimeType ==
    ASSUME NumbersOK, NEW ms \in Nat PROVE TimePlus(evtime, ms) \in 0 .. TimeMod - 1
<1>1. evtime + ms \in Nat /\ TimeMod \in Nat /\ TimeMod > 0
  BY ScheduleAssumption DEF NumbersOK
<1>2. (evtime + ms) % TimeMod \in 0 .. TimeMod - 1
  BY <1>1
<1> QED BY <1>2 DEF TimePlus

LEMMA NextIdType ==
    ASSUME NumbersOK PROVE NextIdAfter(nextId) \in MinId .. -1
BY ScheduleAssumption DEF NumbersOK, NextIdAfter

LEMMA GivenType ==
    ASSUME NEW given \in GivenIdArgs, NEW default \in Int
    PROVE  GivenOr(given, default) \in Int
BY ScheduleAssumption DEF GivenIdArgs, GivenOr

LEMMA NextMsType ==
    ASSUME IInv PROVE NextMs(sq, evtime) \in Int
<1>1. sq.recs \in Seq(RecOf(Job)) /\ evtime \in Nat
  BY DEF IInv, QueueOK, QueueOf, NumbersOK
<1>2. ASSUME NEW n \in Int PROVE AsInt(n) \in Int
  BY ScheduleAssumption DEF AsInt
<1>3. CASE FirstIndex(sq) = 0
  BY <1>3 DEF NextMs
<1>4. CASE FirstIndex(sq) # 0
  <2> DEFINE live == {i \in DOMAIN sq.recs : ~sq.recs[i].del}
  <2>1. live # {} /\ live \subseteq Nat
    BY <1>1, <1>4 DEF FirstIndex
  <2>2. \E i \in live : \A j \in live : i <= j
    <3> HIDE DEF live
    <3> QED BY <2>1, LeastNat
  <2>3. FirstIndex(sq) = CHOOSE i \in live : \A j \in live : i <= j
    BY <2>1 DEF FirstIndex
  <2>4. FirstIndex(sq) \in live
    <3> HIDE DEF live
    <3> QED BY <2>2, <2>3
  <2>5. sq.recs[FirstIndex(sq)] \in RecOf(Job)
    BY <1>1, <2>4
  <2>6. sq.recs[FirstIndex(sq)].obj.time - evtime \in Int
    BY <1>1, <2>5 DEF RecOf, Job
  <2> DEFINE ms == sq.recs[FirstIndex(sq)].obj.time - evtime
  <2>7. AsInt(ms) \in Int
    BY <1>2, <2>6
  <2>8. NextMs(sq, evtime) = 0 \/ NextMs(sq, evtime) = AsInt(ms)
    BY <1>4, Zenon DEF NextMs
  <2> QED BY <2>7, <2>8
<1> QED BY <1>3, <1>4

LEMMA SelectFrame ==
    ASSUME NEW ms \in Int
    PROVE  /\ LoopFrame("select", IF ms < 0 THEN Forever ELSE ms) \in Frame
           /\ LoopFrame("select", IF ms < 0 THEN Forever ELSE ms).kind = "loop"
BY ScheduleAssumption DEF LoopFrame, Frame, Pcs, Forever

LEMMA LoopFrameType ==
    ASSUME NEW pc \in Pcs
    PROVE  /\ LoopFrame(pc, Forever) \in Frame
           /\ LoopFrame(pc, Forever).kind = "loop"
           /\ LoopFrame(pc, Forever).pc = pc
           /\ LoopFrame(pc, Forever).cur = 0
BY ScheduleAssumption DEF LoopFrame, Frame, Forever

-----------------------------------------------------------------------------
(* One lemma per action that does more than move the top of the stack *)

LEMMA ScheduleInv ==
    ASSUME IInv, UserSchedules PROVE IInv'
<1>1. PICK cmd \in Commands, ms \in Delays, periodic \in Periodic,
           given \in GivenIdArgs : ScheduleCmd(cmd, ms, periodic, given)
  BY DEF UserSchedules
<1>2. NumbersOK /\ QueueOK(sq, Cardinality(Execs(frames)))
  BY DEF IInv
<1> DEFINE id == GivenOr(given, nextId)
           per == IF periodic THEN ms ELSE 0
           job == [tok |-> FreshToken(sq), id |-> id, cmd |-> cmd,
                   time |-> TimePlus(evtime, ms), period |-> per,
                   ran |-> 0, stopped |-> FALSE]
<1>3. ms \in Nat /\ nextId \in Int /\ lastId \in Int
  BY <1>2, ScheduleAssumption DEF NumbersOK
<1>4. id \in Int /\ per \in Nat
  BY <1>3, GivenType
<1>5. FreshToken(sq) \in Nat \ {0}
  BY <1>2, FreshTokenType DEF QueueOK
<1>6. TimePlus(evtime, ms) \in 0 .. TimeMod - 1
  BY <1>2, <1>3, TimeType
<1>7. job \in Job
  <2> HIDE DEF id, per
  <2> QED BY <1>4, <1>5, <1>6 DEF Job
<1>8. /\ sq' = Insert(sq, job)
      /\ lastId' = id
      /\ nextId' = IF given = {} THEN NextIdAfter(nextId) ELSE nextId
      /\ UNCHANGED <<frames, evtime, clock, events>>
  BY <1>1, Zenon DEF ScheduleCmd
<1> HIDE DEF job, id
<1>9. NumbersOK'
  BY <1>2, <1>4, <1>8, NextIdType DEF NumbersOK
<1>10. /\ QueueOK(sq', Cardinality(Execs(frames)))
       /\ TokensOf(sq) \subseteq TokensOf(sq')
  BY <1>2, <1>7, <1>8, InsertJob DEF QueueOK
<1> QED BY <1>8, <1>9, <1>10, SameStackStep

LEMMA DescheduleInv ==
    ASSUME IInv, UserDeschedules PROVE IInv'
<1>1. PICK given \in GivenIdArgs : DescheduleCmd(given)
  BY DEF UserDeschedules
<1> DEFINE id == GivenOr(given, lastId)
           noted == NoteStopped(sq, id)
           jobs == {job \in JobsOf(noted) : job.id = id}
           n == Cardinality(Execs(frames))
<1>2. /\ sq' = RemoveAll(noted, jobs)
      /\ UNCHANGED <<frames, lastId, nextId, evtime, clock, events>>
  BY <1>1, Zenon DEF DescheduleCmd
<1> HIDE DEF id, jobs, n
<1>3. QueueOK(noted, n) /\ TokensOf(sq) \subseteq TokensOf(noted)
  BY NoteStoppedType DEF IInv, n
<1> HIDE DEF noted
<1>4. QueueOK(sq', n) /\ (TokensOf(sq) \subseteq TokensOf(sq') \/ n = 0)
  BY <1>2, <1>3, RemoveJobs
<1>5. NumbersOK'
  BY <1>2 DEF IInv, NumbersOK
<1> QED BY <1>2, <1>4, <1>5, SameStackStep DEF n

LEMMA ReturnInv ==
    ASSUME IInv, ReturnFromExecute PROVE IInv'
<1> DEFINE n == Cardinality(Execs(frames))
<1>1. /\ frames' = SubSeq(frames, 1, Len(frames) - 1)
      /\ sq' = UnlockQueue(sq)
      /\ UNCHANGED <<lastId, nextId, evtime, clock, events>>
      /\ frames[Len(frames)].kind = "exec"
  BY DEF ReturnFromExecute, InExec, Callers, Depth, Top
<1>2. Len(frames) > 1 /\ n > 0 /\ n \in Nat
  BY <1>1, TopFacts DEF Top, Depth
<1>3. StackOK(frames', sq) /\ Cardinality(Execs(frames')) = n - 1
  BY <1>1, <1>2, PopOK DEF IInv
<1> HIDE DEF n
<1>4. QueueOK(sq', n - 1) /\ (TokensOf(sq) \subseteq TokensOf(sq') \/ n = 1)
  BY <1>1, <1>2, UnlockJobs DEF IInv, n
<1>5. StackOK(frames', sq')
  BY <1>2, <1>3, <1>4, StackMoves
<1>6. NumbersOK'
  BY <1>1 DEF IInv, NumbersOK
<1> QED BY <1>3, <1>4, <1>5, <1>6 DEF IInv

LEMMA FinishInv ==
    ASSUME IInv, FinishJob PROVE IInv'
<1> DEFINE n == Cardinality(Execs(frames))
           i == IndexOf(Top.cur)
           done == MarkDeleted(sq, i)
           moved == [done EXCEPT !.recs[i].obj.cmd = NoCommand]
           f == [Top EXCEPT !.pc = "scan"]
<1>1. /\ InExec("run") /\ Top.cur \in TokensOf(sq) /\ Top \in Frame
      /\ n \in Nat /\ n > 0 /\ Top.kind = "exec"
      /\ frames \in Seq(Frame) /\ Depth \in DOMAIN frames
  BY TopFacts DEF FinishJob, InExec
<1>2. /\ sq' = IF RunningJob.period > 0 THEN Insert(moved, CopyOf(RunningJob))
              ELSE done
      /\ frames' = [frames EXCEPT ![Depth].pc = "scan"]
      /\ UNCHANGED <<lastId, nextId, evtime, clock, events>>
  BY DEF FinishJob, GoTo
<1>3. NumbersOK' /\ NumbersOK /\ QueueOK(sq, n)
  BY <1>2 DEF IInv, NumbersOK
<1>4. i \in DOMAIN sq.recs
  BY <1>1, IndexOfType
<1>5. sq.recs[i] \in RecOf(Job) /\ RunningJob \in Job
  <2>1. sq.recs \in Seq(RecOf(Job))
    BY <1>3 DEF QueueOK, QueueOf
  <2>2. sq.recs[i] \in RecOf(Job)
    BY <1>4, <2>1
  <2> QED BY <2>2 DEF RecOf, RunningJob
<1> HIDE DEF n, i
<1>6. /\ QueueOK(done, n) /\ TokensOf(sq) \subseteq TokensOf(done)
      /\ DOMAIN done.recs = DOMAIN sq.recs
  BY <1>1, <1>3, <1>4, MarkJob
<1> HIDE DEF done
<1>7. QueueOK(moved, n) /\ TokensOf(done) \subseteq TokensOf(moved)
  <2> DEFINE job == [done.recs[i].obj EXCEPT !.cmd = NoCommand]
             rec == [done.recs[i] EXCEPT !.obj = job]
             rs == [done.recs EXCEPT ![i] = rec]
  <2>1. done.recs \in Seq(RecOf(Job)) /\ done \in QueueOf(Job)
    BY <1>6 DEF QueueOK, QueueOf
  <2>2. done.recs[i] \in RecOf(Job)
    BY <1>4, <1>6, <2>1
  <2>3. job \in Job /\ job.tok = done.recs[i].obj.tok
    BY <2>2 DEF RecOf, Job
  <2>4. moved = [done EXCEPT !.recs = rs]
    BY <2>1, <2>2 DEF QueueOf, RecOf
  <2> HIDE DEF job
  <2>5. /\ rec \in RecOf(Job) /\ rec.del = done.recs[i].del
        /\ rec.new = done.recs[i].new /\ rec.obj.tok = done.recs[i].obj.tok
    BY <2>2, <2>3 DEF RecOf
  <2> HIDE DEF rec
  <2>6. DOMAIN rs = DOMAIN done.recs /\ rs = [j \in DOMAIN rs |-> rs[j]]
    BY <2>1
  <2>7. \A j \in DOMAIN rs : /\ rs[j] \in RecOf(Job)
                             /\ rs[j].del = done.recs[j].del
                             /\ rs[j].new = done.recs[j].new
                             /\ rs[j].obj.tok = done.recs[j].obj.tok
    BY <2>1, <2>5
  <2> HIDE DEF rs, moved
  <2> QED BY <1>6, <2>4, <2>6, <2>7, SameFlags
<1> HIDE DEF moved
<1>8. CopyOf(RunningJob) \in Job
  <2>1. FreshToken(sq) \in Nat \ {0}
    BY <1>3, FreshTokenType DEF QueueOK
  <2>2. TimePlus(evtime, RunningJob.period) \in 0 .. TimeMod - 1
    <3>1. RunningJob.period \in Nat
      BY <1>5 DEF Job
    <3> QED BY <1>3, <3>1, TimeType
  <2>3. ASSUME NEW job \in Job, NEW tok \in Nat \ {0}, NEW t \in 0 .. TimeMod - 1
        PROVE  [job EXCEPT !.tok = tok, !.ran = 0, !.time = t] \in Job
    <3> DEFINE a == [job EXCEPT !.tok = tok]
               b == [a EXCEPT !.ran = 0]
    <3>1. a \in Job
      BY DEF Job
    <3>2. b \in Job
      <4> HIDE DEF a
      <4> QED BY <3>1 DEF Job
    <3>3. [b EXCEPT !.time = t] \in Job
      <4> HIDE DEF b
      <4> QED BY <3>2 DEF Job
    <3> QED BY <3>3
  <2> QED BY <1>5, <2>1, <2>2, <2>3, Zenon DEF CopyOf
<1>9. /\ QueueOK(Insert(moved, CopyOf(RunningJob)), n)
      /\ TokensOf(moved) \subseteq TokensOf(Insert(moved, CopyOf(RunningJob)))
  BY <1>7, <1>8, InsertJob DEF QueueOK
<1>10. QueueOK(sq', n) /\ TokensOf(sq) \subseteq TokensOf(sq')
  BY <1>2, <1>6, <1>7, <1>9
<1>11. f \in Frame /\ f.kind = Top.kind /\ f.cur = Top.cur /\ f.pc = "scan"
  BY <1>1 DEF Frame, Pcs
<1>12. frames' = [frames EXCEPT ![Depth] = f]
  BY <1>1, <1>2 DEF Top
<1> HIDE DEF f
<1> QED BY <1>1, <1>3, <1>10, <1>11, <1>12, ReplaceStep DEF n

LEMMA StartInv ==
    ASSUME IInv, StartJob PROVE IInv'
<1> DEFINE n == Cardinality(Execs(frames))
           i == NextDue
           q == sq.recs
           tok == q[i].obj.tok
           f == [Top EXCEPT !.cur = tok, !.cmd = q[i].obj.cmd, !.pc = "run"]
           job == [q[i].obj EXCEPT !.ran = IF @ < 2 THEN @ + 1 ELSE @]
           rec == [q[i] EXCEPT !.obj = job]
           rs == [q EXCEPT ![i] = rec]
<1>1. /\ InExec("scan") /\ DueFrom(Top.cur) # {} /\ Top \in Frame
      /\ Top.kind = "exec"
      /\ frames \in Seq(Frame) /\ Depth \in DOMAIN frames
  BY TopFacts DEF StartJob, InExec
<1>2. /\ frames' = [frames EXCEPT ![Depth].cur = tok,
                                 ![Depth].cmd = q[i].obj.cmd,
                                 ![Depth].pc  = "run"]
      /\ sq' = [sq EXCEPT !.recs[i].obj.ran = IF @ < 2 THEN @ + 1 ELSE @]
      /\ UNCHANGED <<lastId, nextId, evtime, clock, events>>
  BY Zenon DEF StartJob
<1>3. NumbersOK' /\ NumbersOK /\ QueueOK(sq, n)
  BY <1>2 DEF IInv, NumbersOK
<1>4. q \in Seq(RecOf(Job)) /\ sq \in QueueOf(Job)
  BY <1>3 DEF QueueOK, QueueOf
<1>5. i \in DOMAIN q
  <2> DEFINE due == DueFrom(Top.cur)
  <2>1. due \subseteq DOMAIN q /\ DOMAIN q \subseteq Nat
    BY <1>4 DEF DueFrom
  <2>2. \E j \in due : \A k \in due : j <= k
    <3> HIDE DEF due
    <3> QED BY <1>1, <2>1, LeastNat DEF due
  <2>3. NextDue \in due
    <3>1. NextDue = CHOOSE j \in due : \A k \in due : j <= k
      BY Zenon DEF NextDue
    <3> HIDE DEF due
    <3> QED BY <2>2, <3>1
  <2> QED BY <2>1, <2>3
<1> HIDE DEF i, n
<1>6. q[i] \in RecOf(Job) /\ q[i].obj \in Job
  <2>1. q[i] \in RecOf(Job)
    BY <1>4, <1>5
  <2> QED BY <2>1 DEF RecOf
<1>7. job \in Job /\ job.tok = tok
  BY <1>6 DEF Job
<1>8. sq' = [sq EXCEPT !.recs = rs]
  BY <1>2, <1>4, <1>6 DEF QueueOf, RecOf, Job
<1>9. tok \in TokensOf(sq) /\ tok \in Nat \ {0}
  BY <1>5, <1>6 DEF TokensOf, JobsOf, Job
<1>10. f \in Frame /\ f.kind = Top.kind /\ f.cur = tok
  <2>1. q[i].obj.cmd \in Commands \cup {NoCommand}
    BY <1>6 DEF Job
  <2> HIDE DEF tok, q
  <2> QED BY <1>1, <1>9, <2>1 DEF Frame, Pcs
<1>11. frames' = [frames EXCEPT ![Depth] = f]
  BY <1>1, <1>2 DEF Top, Frame
<1> HIDE DEF job
<1>12. /\ rec \in RecOf(Job) /\ rec.del = q[i].del /\ rec.new = q[i].new
       /\ rec.obj.tok = q[i].obj.tok
  BY <1>6, <1>7 DEF RecOf
<1> HIDE DEF rec
<1>13. DOMAIN rs = DOMAIN q /\ rs = [j \in DOMAIN rs |-> rs[j]]
  BY <1>4
<1>14. \A j \in DOMAIN rs : /\ rs[j] \in RecOf(Job)
                            /\ rs[j].del = q[j].del
                            /\ rs[j].new = q[j].new
                            /\ rs[j].obj.tok = q[j].obj.tok
  BY <1>4, <1>12
<1>15. QueueOK(sq', n) /\ TokensOf(sq) \subseteq TokensOf(sq')
  <2> HIDE DEF rs
  <2> QED BY <1>3, <1>8, <1>13, <1>14, SameFlags
<1> HIDE DEF f, tok
<1> QED BY <1>1, <1>3, <1>9, <1>10, <1>11, <1>15, ReplaceStep DEF n

(* The call of squeue_execute, and what its caller goes on with *)
LEMMA CallInv ==
    ASSUME IInv, Top.kind = "loop", NEW pc \in Pcs, CallExecute(pc),
           UNCHANGED <<lastId, nextId, clock, events>>
    PROVE  IInv'
<1> DEFINE n == Cardinality(Execs(frames))
           f == [Top EXCEPT !.pc = pc]
           g == [frames EXCEPT ![Depth] = f]
           e == ExecFrame(clock)
<1>1. /\ Top \in Frame /\ n \in Nat
      /\ frames \in Seq(Frame) /\ Depth \in DOMAIN frames
      /\ NumbersOK /\ QueueOK(sq, n) /\ StackOK(frames, sq)
  BY TopFacts DEF IInv
<1>2. f \in Frame /\ f.kind = "loop" /\ f.kind = Top.kind
  BY <1>1 DEF Frame
<1>3. [frames EXCEPT ![Depth].pc = pc] = g
  BY <1>1 DEF Top
<1> HIDE DEF f
<1>4. CASE IsEmpty(sq)
  <2>1. frames' = g /\ UNCHANGED <<sq, evtime>>
    BY <1>3, <1>4 DEF CallExecute, GoTo
  <2>2. NumbersOK' /\ QueueOK(sq', n) /\ TokensOf(sq) \subseteq TokensOf(sq')
    BY <1>1, <2>1 DEF NumbersOK
  <2> QED BY <1>2, <2>1, <2>2, ReplaceStep
<1>5. CASE ~IsEmpty(sq)
  <2>1. /\ frames' = Append(g, e)
        /\ sq' = LockQueue(sq) /\ evtime' = Stamped(clock)
    BY <1>3, <1>5 DEF CallExecute
  <2>2. NumbersOK'
    BY <1>1, <2>1, StampedType DEF NumbersOK
  <2>3. StackOK(g, sq) /\ Execs(g) = Execs(frames)
    BY <1>1, <1>2, ReplaceOK DEF Top, Depth
  <2>4. e \in Frame /\ e.kind = "exec" /\ e.pc # "run" /\ e.cur = 0
    BY <1>1 DEF NumbersOK, ExecFrame, Frame, Pcs, Forever
  <2> HIDE DEF g, e
  <2>5. StackOK(frames', sq) /\ Cardinality(Execs(frames')) = n + 1
    <3>1. /\ StackOK(frames', sq)
          /\ e.kind = "exec" =>
                Cardinality(Execs(frames')) = Cardinality(Execs(g)) + 1
      BY <2>1, <2>3, <2>4, PushOK, Zenon
    <3> QED BY <2>3, <2>4, <3>1
  <2> HIDE DEF n
  <2>6. QueueOK(sq', n + 1) /\ TokensOf(sq) \subseteq TokensOf(sq')
    BY <1>1, <2>1, LockJobs
  <2>7. StackOK(frames', sq')
    BY <2>5, <2>6, StackMoves
  <2> QED BY <2>2, <2>5, <2>6, <2>7 DEF IInv
<1> QED BY <1>4, <1>5

(* An activation of the event loop goes on as f. *)
LEMMA LoopStep ==
    ASSUME IInv, Top.kind = "loop", NEW f \in Frame, f.kind = "loop",
           frames' = [frames EXCEPT ![Depth] = f], sq' = sq, NumbersOK'
    PROVE  IInv'
<1>1. /\ QueueOK(sq', Cardinality(Execs(frames)))
      /\ TokensOf(sq) \subseteq TokensOf(sq')
  BY DEF IInv
<1> QED BY <1>1, ReplaceStep

LEMMA PollInv == ASSUME IInv, Poll PROVE IInv'
<1>1. Top.kind = "loop" /\ UNCHANGED <<lastId, nextId, clock, events>>
  BY DEF Poll, InLoop
<1>2. CASE NextMs(sq, evtime) = 0
  BY <1>1, <1>2, CallInv DEF Poll, Pcs
<1>3. CASE NextMs(sq, evtime) # 0
  <2> DEFINE ms == NextMs(sq, evtime)
             f == LoopFrame("select", IF ms < 0 THEN Forever ELSE ms)
  <2>1. frames' = [frames EXCEPT ![Depth] = f] /\ UNCHANGED <<sq, evtime>>
    BY <1>3, Zenon DEF Poll, Select
  <2>2. NumbersOK'
    BY <1>1, <2>1 DEF IInv, NumbersOK
  <2>3. f \in Frame /\ f.kind = "loop"
    BY NextMsType, SelectFrame
  <2> HIDE DEF f
  <2> QED BY <1>1, <2>1, <2>2, <2>3, LoopStep
<1> QED BY <1>2, <1>3

LEMMA RecheckInv == ASSUME IInv, Recheck PROVE IInv'
<1> DEFINE ms == IF NextMs(sq, evtime) = 0 THEN 1 ELSE NextMs(sq, evtime)
           f == LoopFrame("select", IF ms < 0 THEN Forever ELSE ms)
<1>1. /\ Top.kind = "loop" /\ UNCHANGED <<sq, lastId, nextId, evtime, clock, events>>
      /\ frames' = [frames EXCEPT ![Depth] = f]
  BY Zenon DEF Recheck, InLoop, Select
<1>2. NumbersOK'
  BY <1>1 DEF IInv, NumbersOK
<1>3. ms \in Int
  BY NextMsType
<1>4. f \in Frame /\ f.kind = "loop"
  <2> HIDE DEF ms
  <2> QED BY <1>3, SelectFrame
<1> HIDE DEF f
<1> QED BY <1>1, <1>2, <1>4, LoopStep

LEMMA EventInv == ASSUME IInv, EventArrives PROVE IInv'
<1> DEFINE f == LoopFrame("dispatch", Forever)
<1>1. /\ Top.kind = "loop" /\ UNCHANGED <<sq, lastId, nextId, clock>>
      /\ frames' = [frames EXCEPT ![Depth] = f]
      /\ evtime' \in {evtime, Stamped(clock)} /\ events' = events + 1
  BY DEF EventArrives, InLoop
<1>2. NumbersOK'
  BY <1>1, StampedType DEF IInv, NumbersOK
<1>3. f \in Frame /\ f.kind = "loop"
  BY LoopFrameType DEF Pcs
<1> HIDE DEF f
<1> QED BY <1>1, <1>2, <1>3, LoopStep

LEMMA DispatchDoneInv == ASSUME IInv, DispatchDone PROVE IInv'
<1> DEFINE f == [Top EXCEPT !.pc = "poll"]
<1>1. /\ Top.kind = "loop" /\ UNCHANGED <<sq, lastId, nextId, evtime, clock, events>>
      /\ frames' = [frames EXCEPT ![Depth].pc = "poll"]
  BY DEF DispatchDone, InLoop, GoTo
<1>2. NumbersOK'
  BY <1>1 DEF IInv, NumbersOK
<1>3. /\ Top \in Frame /\ frames \in Seq(Frame) /\ Depth \in DOMAIN frames
  BY TopFacts
<1>4. f \in Frame /\ f.kind = "loop"
  BY <1>1, <1>3 DEF Frame, Pcs
<1>5. frames' = [frames EXCEPT ![Depth] = f]
  BY <1>1, <1>3 DEF Top
<1> HIDE DEF f
<1> QED BY <1>1, <1>2, <1>4, <1>5, LoopStep

LEMMA WaitEndsInv == ASSUME IInv, WaitEnds PROVE IInv'
<1>1. /\ UNCHANGED <<sq, lastId, nextId, evtime, clock, events>>
      /\ frames' = SubSeq(frames, 1, Len(frames) - 1) /\ Len(frames) > 1
      /\ frames[Len(frames)].kind # "exec"
  BY DEF WaitEnds, InLoop, Callers, Depth, Top
<1>2. StackOK(frames', sq) /\ Execs(frames') = Execs(frames)
  BY <1>1, PopOK DEF IInv
<1>3. NumbersOK'
  BY <1>1 DEF IInv, NumbersOK
<1> QED BY <1>1, <1>2, <1>3 DEF IInv

LEMMA WaitBeginsInv == ASSUME IInv, WaitBegins PROVE IInv'
<1> DEFINE f == LoopFrame("poll", Forever)
<1>1. /\ UNCHANGED <<sq, lastId, nextId, evtime, clock, events>>
      /\ frames' = Append(frames, f)
  BY DEF WaitBegins
<1>2. f \in Frame /\ f.kind # "exec" /\ f.pc # "run" /\ f.cur = 0
  BY LoopFrameType DEF Pcs
<1> HIDE DEF f
<1>3. StackOK(frames', sq) /\ Execs(frames') = Execs(frames)
  BY <1>1, <1>2, PushOK DEF IInv
<1>4. NumbersOK'
  BY <1>1 DEF IInv, NumbersOK
<1> QED BY <1>1, <1>3, <1>4 DEF IInv

LEMMA TickInv == ASSUME IInv, Tick PROVE IInv'
<1>1. /\ UNCHANGED <<sq, lastId, nextId, evtime, events>>
      /\ clock' = (clock + 1) % ServerMod
  BY DEF Tick
<1>2. NumbersOK'
  <2>1. clock + 1 \in Nat /\ ServerMod \in Nat /\ ServerMod > 0
    BY ScheduleAssumption DEF IInv, NumbersOK
  <2>2. (clock + 1) % ServerMod \in 0 .. ServerMod
    BY <2>1
  <2> QED BY <1>1, <2>2 DEF IInv, NumbersOK
<1>3. /\ Top \in Frame /\ frames \in Seq(Frame) /\ Depth \in DOMAIN frames
  BY TopFacts
<1>4. CASE InLoop("select") /\ Top.timer > 0
  <2> DEFINE f == [Top EXCEPT !.timer = Top.timer - 1]
  <2>1. frames' = [frames EXCEPT ![Depth].timer = @ - 1] /\ Top.kind = "loop"
    BY <1>4 DEF Tick, InLoop
  <2>2. f \in Frame /\ f.kind = "loop"
    <3>1. Top.timer \in Nat \cup {-1}
      BY <1>3 DEF Frame, Forever
    <3>2. Top.timer - 1 \in Nat
      BY <1>4, <3>1
    <3> QED BY <1>3, <2>1, <3>2 DEF Frame
  <2>3. frames' = [frames EXCEPT ![Depth] = f]
    BY <1>3, <2>1 DEF Top
  <2> HIDE DEF f
  <2> QED BY <1>1, <1>2, <2>1, <2>2, <2>3, LoopStep
<1>5. CASE ~(InLoop("select") /\ Top.timer > 0)
  <2>1. frames' = frames
    BY <1>5 DEF Tick
  <2>2. QueueOK(sq', Cardinality(Execs(frames)))
    BY <1>1 DEF IInv
  <2> QED BY <1>1, <1>2, <2>1, <2>2, SameStackStep
<1> QED BY <1>4, <1>5

LEMMA NextInv == IInv /\ [Next]_vars => IInv'
<1> SUFFICES ASSUME IInv, [Next]_vars PROVE IInv'
  OBVIOUS
<1>1. CASE UNCHANGED vars
  BY <1>1 DEF vars, IInv, NumbersOK
<1>2. CASE Timeout
  BY <1>2, CallInv DEF Timeout, InLoop, Pcs
<1>3. CASE Next
  BY <1>2, <1>3, ScheduleInv, DescheduleInv, StartInv, FinishInv, ReturnInv,
     PollInv, RecheckInv, EventInv, DispatchDoneInv, WaitEndsInv, WaitBeginsInv,
     TickInv DEF Next
<1> QED BY <1>1, <1>3

-----------------------------------------------------------------------------
(* Where the records are after an operation of the queue *)

(* r is what q becomes when records leave: e tells where each came from. *)
Embeds(e, r, q) == /\ e \in [DOMAIN r -> DOMAIN q]
                   /\ \A k, l \in DOMAIN r : k < l => e[k] < e[l]

(* ... and exactly the records that are not marked are left. *)
Cleaned(e, r, q) == /\ Embeds(e, r, q)
                    /\ \A k \in DOMAIN r : r[k].obj = q[e[k]].obj /\ ~q[e[k]].del
                    /\ \A i \in DOMAIN q : ~q[i].del => \E k \in DOMAIN r : e[k] = i

(* Further on in the queue the rank is at least as high. *)
LEMMA RankGrows ==
    ASSUME NEW Obj, NEW q \in Seq(RecOf(Obj)),
           NEW j \in 0 .. Len(q), NEW i \in 0 .. j
    PROVE  Rank(q, i) <= Rank(q, j)
<1> DEFINE S(n) == {k \in 1 .. n : ~q[k].del}
<1>1. S(i) \subseteq S(j) /\ S(j) \subseteq 1 .. j /\ i \in Nat /\ j \in Nat
  OBVIOUS
<1>2. IsFiniteSet(1 .. j)
  BY <1>1, FS_Interval
<1>3. Rank(q, i) = Cardinality(S(i)) /\ Rank(q, j) = Cardinality(S(j))
  BY DEF Rank
<1> HIDE DEF S
<1>4. Cardinality(S(i)) <= Cardinality(S(j))
  BY <1>1, <1>2, FS_Subset
<1> QED BY <1>3, <1>4

(* Two records that are kept have different ranks. *)
LEMMA RankTells ==
    ASSUME NEW Obj, NEW q \in Seq(RecOf(Obj)),
           NEW j \in DOMAIN q, NEW i \in DOMAIN q, i < j, ~q[j].del
    PROVE  Rank(q, i) < Rank(q, j) /\ Rank(q, i) \in Nat /\ Rank(q, j) \in Nat
<1>1. /\ i \in 0 .. j - 1 /\ j - 1 \in 0 .. Len(q) /\ j \in 0 .. Len(q) /\ j > 0
      /\ i \in 0 .. Len(q)
  OBVIOUS
<1>2. Rank(q, i) <= Rank(q, j - 1)
  BY <1>1, RankGrows
<1>3. Rank(q, j) = Rank(q, j - 1) + 1
  BY <1>1, RankStep
<1>4. Rank(q, i) \in Nat /\ Rank(q, j - 1) \in Nat
  BY <1>1, RankStep
<1> QED BY <1>2, <1>3, <1>4

LEMMA KeptPlaces ==
    ASSUME NEW Obj, NEW q \in Seq(RecOf(Obj)), NEW r, r = Kept(q)
    PROVE  \E e : Cleaned(e, r, q)
<1> DEFINE n == Rank(q, Len(q))
           At(k) == CHOOSE i \in DOMAIN q : ~q[i].del /\ Rank(q, i) = k
           e == [k \in 1 .. n |-> At(k)]
<1>1. n \in Nat /\ r = [k \in 1 .. n |-> q[At(k)]]
  BY RankStep DEF Kept
<1>2. ASSUME NEW k \in 1 .. n
      PROVE  At(k) \in DOMAIN q /\ ~q[At(k)].del /\ Rank(q, At(k)) = k
  BY RankTaken
<1>3. ASSUME NEW k \in 1 .. n, NEW l \in 1 .. n, k < l PROVE At(k) < At(l)
  <2>1. ~(At(k) = At(l))
    BY <1>2, <1>3
  <2>2. ~(At(l) < At(k))
    <3> SUFFICES ASSUME At(l) < At(k) PROVE FALSE
      OBVIOUS
    <3>1. Rank(q, At(l)) < Rank(q, At(k))
      <4> HIDE DEF At, n
      <4> QED BY <1>2, RankTells
    <3> QED BY <1>2, <1>3, <3>1
  <2>3. At(k) \in Nat /\ At(l) \in Nat
    <3>1. DOMAIN q \subseteq Nat
      OBVIOUS
    <3> HIDE DEF At, n
    <3> QED BY <1>2, <3>1
  <2> HIDE DEF At
  <2> QED BY <2>1, <2>2, <2>3
<1>4. ASSUME NEW i \in DOMAIN q, ~q[i].del PROVE \E k \in 1 .. n : At(k) = i
  <2> DEFINE k == Rank(q, i)
  <2>1. k \in 1 .. n
    <3>1. i \in 1 .. Len(q) /\ i \in 0 .. Len(q) /\ i - 1 \in 0 .. Len(q)
      OBVIOUS
    <3>2. k = Rank(q, i - 1) + 1 /\ Rank(q, i - 1) \in Nat
      BY <1>4, <3>1, RankStep
    <3>3. k <= n
      BY <3>1, RankGrows
    <3> QED BY <1>1, <3>2, <3>3
  <2>2. /\ At(k) \in DOMAIN q /\ ~q[At(k)].del /\ Rank(q, At(k)) = k
    BY <1>2, <2>1
  <2>3. ~(At(k) < i) /\ ~(i < At(k))
    <3> HIDE DEF At
    <3>1. ASSUME At(k) < i PROVE FALSE
      <4>1. Rank(q, At(k)) < Rank(q, i)
        BY <1>4, <2>2, <3>1, RankTells
      <4> QED BY <2>1, <2>2, <4>1
    <3>2. ASSUME i < At(k) PROVE FALSE
      <4>1. Rank(q, i) < Rank(q, At(k))
        BY <2>2, <3>2, RankTells
      <4> QED BY <2>1, <2>2, <4>1
    <3> QED BY <3>1, <3>2
  <2>4. At(k) \in Nat /\ i \in Nat
    BY <2>2
  <2> HIDE DEF At, k
  <2> QED BY <2>1, <2>3, <2>4
<1> HIDE DEF n, At
<1>5. DOMAIN r = 1 .. n /\ \A k \in 1 .. n : e[k] = At(k) /\ r[k] = q[At(k)]
  BY <1>1
<1>6. e \in [1 .. n -> DOMAIN q]
  BY <1>2
<1> HIDE DEF e
<1>7. Cleaned(e, r, q)
  BY <1>2, <1>3, <1>4, <1>5, <1>6 DEF Cleaned, Embeds
<1> QED BY <1>7

(* fqueue_unlock_queue *)
LEMMA UnlockPlaces ==
    ASSUME NEW Obj, NEW fq \in QueueOf(Obj), fq.lock > 0, FlagsNeedDirty(fq)
    PROVE  /\ fq.lock > 1 => UnlockQueue(fq).recs = fq.recs
           /\ fq.lock = 1 => \E e : Cleaned(e, UnlockQueue(fq).recs, fq.recs)
<1> DEFINE q == fq.recs
           r == UnlockQueue(fq).recs
<1>1. fq.lock \in Nat /\ fq.dirty \in BOOLEAN /\ q \in Seq(RecOf(Obj))
  BY DEF QueueOf
<1>2. CASE fq.lock = 1 /\ fq.dirty
  <2> DEFINE kept == Kept(q)
             new == [k \in DOMAIN kept |-> [kept[k] EXCEPT !.new = FALSE]]
             c == CleanupQueue(fq)
  <2>1. UnlockQueue(fq) = [c EXCEPT !.lock = @ - 1]
    BY <1>2 DEF UnlockQueue
  <2>2. c = [fq EXCEPT !.recs = new]
    BY Zenon DEF CleanupQueue
  <2>3. r = new
    <3> HIDE DEF new
    <3> QED BY <2>1, <2>2 DEF QueueOf
  <2>4. PICK e : Cleaned(e, kept, q)
    <3> HIDE DEF q
    <3> QED BY <1>1, KeptPlaces
  <2>5. kept \in Seq(RecOf(Obj))
    <3> HIDE DEF q
    <3> QED BY <1>1, KeptType
  <2> HIDE DEF kept
  <2>6. DOMAIN r = DOMAIN kept /\ \A k \in DOMAIN kept : r[k].obj = kept[k].obj
    <3>1. ASSUME NEW k \in DOMAIN kept PROVE new[k].obj = kept[k].obj
      <4>1. kept[k] \in RecOf(Obj)
        BY <2>5
      <4>2. [kept[k] EXCEPT !.new = FALSE].obj = kept[k].obj
        BY <4>1 DEF RecOf
      <4> QED BY <4>2
    <3>2. DOMAIN new = DOMAIN kept
      OBVIOUS
    <3> HIDE DEF new, r
    <3> QED BY <2>3, <3>1, <3>2
  <2> HIDE DEF r, q
  <2>7. Cleaned(e, r, q)
    BY <2>4, <2>6 DEF Cleaned, Embeds
  <2> QED BY <1>2, <2>7 DEF r, q
<1>3. CASE ~(fq.lock = 1 /\ fq.dirty)
  <2>1. UnlockQueue(fq) = [fq EXCEPT !.lock = @ - 1]
    BY <1>1, <1>3 DEF UnlockQueue
  <2>2. r = q
    BY <2>1 DEF QueueOf
  <2>3. ASSUME fq.lock = 1 PROVE \E e : Cleaned(e, r, q)
    <3> DEFINE e == [k \in DOMAIN q |-> k]
    <3>1. \A k \in DOMAIN q : ~q[k].del
      BY <1>3, <2>3 DEF FlagsNeedDirty, NoFlags
    <3>2. e \in [DOMAIN q -> DOMAIN q] /\ \A k \in DOMAIN q : e[k] = k
      OBVIOUS
    <3> HIDE DEF e, r, q
    <3>3. Cleaned(e, r, q)
      BY <2>2, <3>1, <3>2 DEF Cleaned, Embeds
    <3> QED BY <3>3
  <2> QED BY <2>2, <2>3
<1> QED BY <1>2, <1>3

(* fqueue_remove_or_operate_all: of a queue that is not locked all hits are
   gone; in a locked one they are marked. *)
Hit(rec, objs) == ~Skipped(rec) /\ rec.obj \in objs

Removed(lock, objs, r, q) ==
    /\ lock > 0 => /\ DOMAIN r = DOMAIN q
                   /\ \A i \in DOMAIN q :
                         /\ r[i].obj = q[i].obj
                         /\ r[i].new = q[i].new
                         /\ r[i].del <=> q[i].del \/ Hit(q[i], objs)
    /\ lock = 0 => \E e : /\ Embeds(e, r, q)
                          /\ \A k \in DOMAIN r : /\ r[k].obj = q[e[k]].obj
                                                 /\ r[k].obj \notin objs
                          /\ \A i \in DOMAIN q : q[i].obj \notin objs =>
                                 \E k \in DOMAIN r : e[k] = i

LEMMA RemovePlaces ==
    ASSUME NEW Obj, NEW fq \in QueueOf(Obj), FlagsNeedDirty(fq), NEW objs,
           fq.lock = 0 => NoFlags(fq)
    PROVE  Removed(fq.lock, objs, RemoveAll(fq, objs).recs, fq.recs)
<1> DEFINE q == fq.recs
           r == RemoveAll(fq, objs).recs
<1> SUFFICES Removed(fq.lock, objs, r, q)
  OBVIOUS
<1> DEFINE hits == {i \in DOMAIN q : ~Skipped(q[i]) /\ q[i].obj \in objs}
           rs == [i \in DOMAIN q |-> IF i \in hits THEN [q[i] EXCEPT !.del = TRUE]
                                     ELSE q[i]]
           marked == [recs |-> rs, lock |-> fq.lock + 1,
                      dirty |-> fq.dirty \/ hits # {}]
<1>0. q \in Seq(RecOf(Obj)) /\ fq.lock \in Nat /\ fq.dirty \in BOOLEAN
  BY DEF QueueOf
<1>1. CASE IsEmpty(fq)
  <2>1. RemoveAll(fq, objs) = fq
    BY <1>1, Zenon DEF RemoveAll
  <2>2. r = <<>> /\ q = <<>>
    BY <1>1, <2>1 DEF IsEmpty
  <2>3. Embeds(<<>>, r, q)
    BY <2>2 DEF Embeds
  <2>4. DOMAIN q = {} /\ DOMAIN r = {}
    BY <2>2
  <2> HIDE DEF r, q
  <2> QED BY <2>3, <2>4 DEF Removed
<1>2. CASE ~IsEmpty(fq)
  <2>1. RemoveAll(fq, objs) = UnlockQueue(marked)
    BY <1>2, Zenon DEF RemoveAll
  <2>2. \A i \in DOMAIN q : /\ rs[i] \in RecOf(Obj)
                            /\ rs[i].obj = q[i].obj
                            /\ rs[i].new = q[i].new
                            /\ rs[i].del <=> q[i].del \/ Hit(q[i], objs)
                            /\ hits = {} => rs[i] = q[i]
    <3> SUFFICES ASSUME NEW i \in DOMAIN q
                 PROVE  /\ rs[i] \in RecOf(Obj)
                        /\ rs[i].obj = q[i].obj
                        /\ rs[i].new = q[i].new
                        /\ rs[i].del <=> q[i].del \/ Hit(q[i], objs)
                        /\ hits = {} => rs[i] = q[i]
      OBVIOUS
    <3>1. q[i] \in RecOf(Obj) /\ q[i].del \in BOOLEAN
      <4>1. q[i] \in RecOf(Obj)
        BY <1>0
      <4> QED BY <4>1 DEF RecOf
    <3>2. i \in hits <=> Hit(q[i], objs)
      BY Zenon DEF Hit
    <3>3. CASE i \in hits
      <4>1. rs[i] = [q[i] EXCEPT !.del = TRUE] /\ Hit(q[i], objs) /\ hits # {}
        BY <3>2, <3>3, Zenon
      <4> HIDE DEF rs, hits
      <4> QED BY <3>1, <4>1 DEF RecOf
    <3>4. CASE i \notin hits
      <4>1. rs[i] = q[i] /\ ~Hit(q[i], objs)
        BY <3>2, <3>4, Zenon
      <4> HIDE DEF rs, hits
      <4> QED BY <3>1, <4>1 DEF RecOf
    <3> QED BY <3>3, <3>4
  <2>3. rs \in Seq(RecOf(Obj)) /\ DOMAIN rs = DOMAIN q
    <3>1. \E m \in Nat : DOMAIN q = 1 .. m
      BY <1>0
    <3>2. DOMAIN rs = DOMAIN q /\ rs = [i \in DOMAIN q |-> rs[i]]
      BY Zenon
    <3> HIDE DEF hits, rs
    <3>3. \A i \in DOMAIN q : rs[i] \in RecOf(Obj)
      BY <2>2
    <3> QED BY <3>1, <3>2, <3>3
  <2>4. /\ marked \in QueueOf(Obj) /\ marked.lock = fq.lock + 1
        /\ marked.recs = rs /\ (marked.dirty <=> (fq.dirty \/ hits # {}))
    <3> DEFINE d == fq.dirty \/ hits # {}
    <3>1. d \in BOOLEAN
      BY Zenon
    <3>2. marked = [recs |-> rs, lock |-> fq.lock + 1, dirty |-> d]
      BY Zenon
    <3>3. marked.dirty = d /\ marked.recs = rs
      BY Zenon
    <3>4. marked.dirty <=> (fq.dirty \/ hits # {})
      BY <3>3, Zenon
    <3> HIDE DEF rs, d, marked
    <3> QED BY <1>0, <2>3, <3>1, <3>2, <3>3, <3>4 DEF QueueOf
  <2>5. FlagsNeedDirty(marked) /\ marked.lock > 0
    <3> HIDE DEF rs, hits, marked
    <3> QED BY <1>0, <2>2, <2>3, <2>4 DEF FlagsNeedDirty, NoFlags
  <2> HIDE DEF marked, rs, hits
  <2>6. /\ marked.lock > 1 => r = rs
        /\ marked.lock = 1 => \E e : Cleaned(e, r, rs)
    <3>1. /\ marked.lock > 1 => UnlockQueue(marked).recs = marked.recs
          /\ marked.lock = 1 => \E e : Cleaned(e, UnlockQueue(marked).recs, marked.recs)
      BY <2>4, <2>5, UnlockPlaces, Zenon
    <3> QED BY <2>1, <2>4, <3>1
  <2>7. CASE fq.lock > 0
    <3>1. r = rs
      BY <1>0, <2>4, <2>6, <2>7
    <3> HIDE DEF r, q
    <3> QED BY <1>0, <2>2, <2>3, <2>7, <3>1 DEF Removed
  <2>8. CASE fq.lock = 0
    <3>1. PICK e : Cleaned(e, r, rs)
      BY <2>4, <2>6, <2>8
    <3>2. /\ Embeds(e, r, q)
          /\ \A k \in DOMAIN r : e[k] \in DOMAIN q /\ r[k].obj = q[e[k]].obj
      BY <2>2, <2>3, <3>1 DEF Cleaned, Embeds
    <3>3. \A i \in DOMAIN q : ~q[i].del /\ ~q[i].new
      BY <2>8 DEF NoFlags
    <3>4. \A i \in DOMAIN q : Hit(q[i], objs) <=> q[i].obj \in objs
      BY <3>3 DEF Hit, Skipped
    <3>5. \A k \in DOMAIN r : r[k].obj \notin objs
      BY <2>2, <3>1, <3>2, <3>4 DEF Cleaned
    <3>6. ASSUME NEW i \in DOMAIN q, q[i].obj \notin objs
          PROVE  \E k \in DOMAIN r : e[k] = i
      BY <2>2, <2>3, <3>1, <3>3, <3>4, <3>6 DEF Cleaned
    <3> HIDE DEF r, q
    <3> QED BY <2>8, <3>2, <3>5, <3>6 DEF Removed
  <2> HIDE DEF r, q
  <2> QED BY <1>0, <2>7, <2>8
<1> QED BY <1>1, <1>2

-----------------------------------------------------------------------------
(* What the actions do to the records *)

(* The fields of a job that nothing changes *)
SameJob(a, b) == a.tok = b.tok /\ a.id = b.id /\ a.time = b.time /\ a.period = b.period

(* r holds records of q in their order, the same jobs. *)
Follows(e, r, q) == /\ Embeds(e, r, q)
                    /\ \A k \in DOMAIN r : SameJob(r[k].obj, q[e[k]].obj)

(* Only record i has changed, and of its job neither what it is nor whether it
   was descheduled. *)
Touched(r, q, i) == /\ DOMAIN r = DOMAIN q /\ i \in DOMAIN q
                    /\ \A j \in DOMAIN q : j # i => r[j] = q[j]
                    /\ SameJob(r[i].obj, q[i].obj)
                    /\ r[i].obj.stopped = q[i].obj.stopped

(* r is q with a new record of job behind the first p records. *)
Inserted(r, q, p, job) ==
    /\ p \in 0 .. Len(q) /\ DOMAIN r = 1 .. Len(q) + 1
    /\ \A i \in 1 .. p : r[i] = q[i]
    /\ r[p + 1].obj = job /\ ~r[p + 1].del
    /\ \A i \in p + 2 .. Len(q) + 1 : i - 1 \in DOMAIN q /\ r[i] = q[i - 1]

LEMMA QueueDomain ==
    ASSUME NEW fq \in QueueOf(Job)
    PROVE  /\ fq.recs \in Seq(RecOf(Job)) /\ DOMAIN fq.recs = 1 .. Len(fq.recs)
           /\ Len(fq.recs) \in Nat /\ DOMAIN fq.recs \subseteq Nat
           /\ \A i \in DOMAIN fq.recs : /\ fq.recs[i] \in RecOf(Job)
                                        /\ fq.recs[i].obj \in Job
<1>1. fq.recs \in Seq(RecOf(Job))
  BY DEF QueueOf
<1>2. \A i \in DOMAIN fq.recs : fq.recs[i] \in RecOf(Job)
  BY <1>1
<1>3. \A i \in DOMAIN fq.recs : fq.recs[i].obj \in Job
  BY <1>2 DEF RecOf
<1> QED BY <1>1, <1>2, <1>3

(* Records with the same jobs at the same places *)
LEMMA StayFollows ==
    ASSUME NEW q, NEW r, DOMAIN r = DOMAIN q,
           \A i \in DOMAIN q : SameJob(r[i].obj, q[i].obj)
    PROVE  \E e : Follows(e, r, q)
<1> DEFINE e == [k \in DOMAIN q |-> k]
<1>1. e \in [DOMAIN r -> DOMAIN q] /\ \A k \in DOMAIN q : e[k] = k
  OBVIOUS
<1> HIDE DEF e
<1>2. Follows(e, r, q)
  BY <1>1 DEF Follows, Embeds
<1> QED BY <1>2

LEMMA TouchedFollows ==
    ASSUME NEW q, NEW r, NEW i, Touched(r, q, i)
    PROVE  \E e : Follows(e, r, q)
<1>1. \A j \in DOMAIN q : SameJob(r[j].obj, q[j].obj)
  BY DEF Touched, SameJob
<1> QED BY <1>1, StayFollows DEF Touched

LEMMA CleanedFollows ==
    ASSUME NEW q, NEW r, NEW e, Cleaned(e, r, q)
    PROVE  Follows(e, r, q)
BY DEF Cleaned, Follows, SameJob

LEMMA PutInInserted ==
    ASSUME NEW q \in Seq(RecOf(Job)), NEW n \in RecOf(Job), ~n.del,
           NEW p \in 0 .. Len(q)
    PROVE  Inserted(PutIn(q, p, n), q, p, n.obj)
<1> DEFINE r == PutIn(q, p, n)
<1>1. /\ r \in Seq(RecOf(Job)) /\ Len(r) = Len(q) + 1
      /\ \A i \in 1 .. Len(q) + 1 :
            r[i] = IF i <= p THEN q[i] ELSE IF i = p + 1 THEN n ELSE q[i - 1]
  BY PutInType
<1>2. Len(q) \in Nat /\ DOMAIN q = 1 .. Len(q) /\ p \in Nat /\ p <= Len(q)
  OBVIOUS
<1> HIDE DEF r
<1>3. DOMAIN r = 1 .. Len(q) + 1
  BY <1>1, <1>2
<1>4. r[p + 1] = n
  BY <1>1, <1>2
<1>5. \A i \in 1 .. p : r[i] = q[i]
  BY <1>1, <1>2
<1>6. \A i \in p + 2 .. Len(q) + 1 : i - 1 \in DOMAIN q /\ r[i] = q[i - 1]
  BY <1>1, <1>2
<1>7. Inserted(r, q, p, n.obj)
  BY <1>2, <1>3, <1>4, <1>5, <1>6 DEF Inserted
<1> QED BY <1>7 DEF r

(* schedule() and execute_obj_func: fqueue_add_inside *)
LEMMA InsertRecs ==
    ASSUME NEW fq \in QueueOf(Job), NEW job \in Job,
           NEW q, q = fq.recs, NEW r, r = Insert(fq, job).recs
    PROVE  \E p : /\ Inserted(r, q, p, job)
                  /\ \A i \in 1 .. p : ~EarlierJob(job, q[i].obj)
                  /\ p < Len(q) => EarlierJob(job, q[p + 1].obj)
<1> DEFINE later == {i \in DOMAIN q : EarlierJob(job, q[i].obj)}
           least == CHOOSE i \in later : \A j \in later : i <= j
           p == IF later = {} THEN Len(q) ELSE least - 1
           n == NewRecord(fq, job)
<1>0. fq.recs \in Seq(RecOf(Job)) /\ fq.lock \in Nat /\ fq.dirty \in BOOLEAN
  BY DEF QueueOf
<1>1. q \in Seq(RecOf(Job)) /\ Len(q) \in Nat /\ DOMAIN q = 1 .. Len(q)
  BY <1>0
<1>2. later \subseteq DOMAIN q /\ later \subseteq Nat
  BY <1>1
<1>3. later # {} => least \in later /\ \A j \in later : least <= j
  <2>1. later # {} => \E i \in later : \A j \in later : i <= j
    <3> HIDE DEF later
    <3> QED BY <1>2, LeastNat
  <2> HIDE DEF later
  <2> QED BY <2>1
<1>4. /\ p \in 0 .. Len(q)
      /\ \A i \in 1 .. p : i \notin later
      /\ p < Len(q) => p + 1 \in later
  <2> HIDE DEF later, least
  <2>1. CASE later = {}
    BY <1>1, <2>1
  <2>2. CASE later # {}
    <3>1. least \in 1 .. Len(q) /\ p = least - 1 /\ p + 1 = least
      BY <1>1, <1>2, <1>3, <2>2
    <3> HIDE DEF p
    <3> QED BY <1>1, <1>2, <1>3, <2>2, <3>1
  <2> QED BY <2>1, <2>2
<1>5. r = PutIn(q, p, n)
  <2>1. Insert(fq, job) = InsertAfter(fq, p, job)
    BY DEF Insert, AddInside
  <2> HIDE DEF p
  <2> QED BY <2>1, <1>0 DEF InsertAfter, QueueOf
<1>6. n \in RecOf(Job) /\ n.obj = job /\ ~n.del
  <2>1. n.obj = job /\ n.del = FALSE /\ n.new \in BOOLEAN
    BY <1>0 DEF NewRecord
  <2>2. n = [obj |-> n.obj, del |-> n.del, new |-> n.new]
    BY DEF NewRecord
  <2> HIDE DEF n
  <2> QED BY <2>1, <2>2 DEF RecOf
<1>7. \A i \in 1 .. p : ~EarlierJob(job, q[i].obj)
  <2> HIDE DEF p, least
  <2> QED BY <1>1, <1>4
<1>8. p < Len(q) => EarlierJob(job, q[p + 1].obj)
  <2> HIDE DEF p, least
  <2> QED BY <1>4
<1> HIDE DEF p, n, later, least
<1>9. Inserted(r, q, p, job)
  BY <1>1, <1>4, <1>5, <1>6, PutInInserted
<1> QED BY <1>7, <1>8, <1>9

(* The due job that a scan goes on to *)
LEMMA NextDueType ==
    ASSUME IInv, DueFrom(Top.cur) # {}
    PROVE  NextDue \in DOMAIN sq.recs /\ ~Skipped(sq.recs[NextDue])
<1> DEFINE due == DueFrom(Top.cur)
<1>1. due \subseteq DOMAIN sq.recs /\ DOMAIN sq.recs \subseteq Nat
  BY QueueDomain DEF DueFrom, IInv, QueueOK
<1>2. \E j \in due : \A k \in due : j <= k
  <2> HIDE DEF due
  <2> QED BY <1>1, LeastNat DEF due
<1>3. NextDue \in due
  <2>1. NextDue = CHOOSE j \in due : \A k \in due : j <= k
    BY Zenon DEF NextDue
  <2> HIDE DEF due
  <2> QED BY <1>2, <2>1
<1> QED BY <1>1, <1>3 DEF DueFrom

LEMMA StartRecs ==
    ASSUME IInv, StartJob, NEW q, q = sq.recs, NEW i, i = NextDue
    PROVE  /\ i \in DOMAIN q /\ ~Skipped(q[i])
           /\ Touched(sq'.recs, q, i)
           /\ sq'.recs[i].del = q[i].del
           /\ sq'.recs[i].obj.ran = IF q[i].obj.ran < 2 THEN q[i].obj.ran + 1
                                    ELSE q[i].obj.ran
           /\ InExec("scan")
           /\ Len(frames') = Len(frames) /\ Execs(frames') = Execs(frames)
           /\ \A d \in DOMAIN frames : d # Depth => frames'[d] = frames[d]
           /\ frames'[Depth].kind = "exec"
           /\ frames'[Depth].pc = "run" /\ frames'[Depth].cur = q[i].obj.tok
           /\ UNCHANGED evtime
<1> DEFINE f == [Top EXCEPT !.cur = q[i].obj.tok, !.cmd = q[i].obj.cmd, !.pc = "run"]
           job == [q[i].obj EXCEPT !.ran = IF @ < 2 THEN @ + 1 ELSE @]
           rec == [q[i] EXCEPT !.obj = job]
           rs == [q EXCEPT ![i] = rec]
<1>1. /\ InExec("scan") /\ DueFrom(Top.cur) # {} /\ Top \in Frame
      /\ Top.kind = "exec"
      /\ frames \in Seq(Frame) /\ Depth \in DOMAIN frames
  BY TopFacts DEF StartJob, InExec
<1>2. /\ frames' = [frames EXCEPT ![Depth].cur = q[i].obj.tok,
                                 ![Depth].cmd = q[i].obj.cmd,
                                 ![Depth].pc  = "run"]
      /\ sq' = [sq EXCEPT !.recs[i].obj.ran = IF @ < 2 THEN @ + 1 ELSE @]
      /\ UNCHANGED evtime
  BY Zenon DEF StartJob
<1>3. i \in DOMAIN q /\ ~Skipped(q[i])
  BY <1>1, NextDueType
<1>4. sq \in QueueOf(Job) /\ q[i] \in RecOf(Job) /\ q[i].obj \in Job /\ q \in Seq(RecOf(Job))
  BY <1>3, QueueDomain DEF IInv, QueueOK
<1>5. sq' = [sq EXCEPT !.recs = rs]
  BY <1>2, <1>4 DEF QueueOf, RecOf, Job
<1>6. sq'.recs = rs
  <2> HIDE DEF rs
  <2> QED BY <1>4, <1>5 DEF QueueOf
<1>7. /\ SameJob(job, q[i].obj) /\ job.stopped = q[i].obj.stopped
      /\ job.ran = IF q[i].obj.ran < 2 THEN q[i].obj.ran + 1 ELSE q[i].obj.ran
  BY <1>4 DEF SameJob, Job
<1> HIDE DEF job
<1>8. rec.obj = job /\ rec.del = q[i].del
  BY <1>4 DEF RecOf
<1> HIDE DEF rec
<1>9. DOMAIN rs = DOMAIN q /\ rs[i] = rec /\ \A j \in DOMAIN q : j # i => rs[j] = q[j]
  BY <1>3, <1>4
<1> HIDE DEF rs
<1>10. Touched(sq'.recs, q, i) /\ sq'.recs[i].obj = job /\ sq'.recs[i].del = q[i].del
  BY <1>3, <1>6, <1>7, <1>8, <1>9 DEF Touched
<1>11. f.kind = "exec" /\ f.pc = "run" /\ f.cur = q[i].obj.tok
  BY <1>1 DEF Frame
<1>12. frames' = [frames EXCEPT ![Depth] = f]
  BY <1>1, <1>2 DEF Top, Frame
<1> HIDE DEF f
<1>13. /\ Len(frames') = Len(frames) /\ DOMAIN frames' = DOMAIN frames
       /\ frames'[Depth] = f
       /\ \A d \in DOMAIN frames : d # Depth => frames'[d] = frames[d]
  BY <1>1, <1>12
<1>14. Execs(frames') = Execs(frames)
  BY <1>1, <1>11, <1>13 DEF Execs, Top
<1> QED BY <1>1, <1>2, <1>3, <1>7, <1>10, <1>11, <1>13, <1>14

(* Of a job that has run the record is marked; a periodic one leaves a copy. *)
LEMMA FinishRecs ==
    ASSUME IInv, FinishJob, NEW i, i = IndexOf(Top.cur), NEW q, q = sq.recs
    PROVE  /\ i \in DOMAIN q /\ q[i].obj.tok = Top.cur
           /\ RunningJob = q[i].obj /\ CopyOf(RunningJob) \in Job
           /\ \E m \in QueueOf(Job) :
                /\ Touched(m.recs, q, i) /\ m.recs[i].del
                /\ m.recs[i].obj.ran = q[i].obj.ran
                /\ sq' = IF q[i].obj.period > 0 THEN Insert(m, CopyOf(q[i].obj))
                         ELSE m
           /\ InExec("run")
           /\ Len(frames') = Len(frames) /\ Execs(frames') = Execs(frames)
           /\ \A d \in DOMAIN frames : d # Depth => frames'[d] = frames[d]
           /\ frames'[Depth].pc = "scan" /\ frames'[Depth].cur = Top.cur
           /\ UNCHANGED evtime
<1> DEFINE n == Cardinality(Execs(frames))
           done == MarkDeleted(sq, i)
           moved == [done EXCEPT !.recs[i].obj.cmd = NoCommand]
           f == [Top EXCEPT !.pc = "scan"]
<1>1. /\ InExec("run") /\ Top.cur \in TokensOf(sq) /\ Top \in Frame
      /\ n \in Nat /\ n > 0 /\ Top.kind = "exec"
      /\ frames \in Seq(Frame) /\ Depth \in DOMAIN frames
  BY TopFacts DEF FinishJob, InExec
<1>2. /\ sq' = IF RunningJob.period > 0 THEN Insert(moved, CopyOf(RunningJob))
              ELSE done
      /\ frames' = [frames EXCEPT ![Depth].pc = "scan"]
      /\ UNCHANGED evtime
  BY DEF FinishJob, GoTo
<1>3. NumbersOK /\ QueueOK(sq, n) /\ sq \in QueueOf(Job)
  BY DEF IInv, QueueOK
<1>4. i \in DOMAIN q /\ q[i].obj.tok = Top.cur
  BY <1>1 DEF IndexOf, TokensOf, JobsOf
<1>5. q \in Seq(RecOf(Job)) /\ q[i] \in RecOf(Job) /\ q[i].obj \in Job
  BY <1>3, <1>4, QueueDomain
<1>6. RunningJob = q[i].obj
  BY DEF RunningJob
<1>7. CopyOf(RunningJob) \in Job
  <2>1. FreshToken(sq) \in Nat \ {0}
    BY <1>3, FreshTokenType
  <2>2. TimePlus(evtime, RunningJob.period) \in 0 .. TimeMod - 1
    <3>1. RunningJob.period \in Nat
      BY <1>5, <1>6 DEF Job
    <3> QED BY <1>3, <3>1, TimeType
  <2>3. ASSUME NEW job \in Job, NEW tok \in Nat \ {0}, NEW t \in 0 .. TimeMod - 1
        PROVE  [job EXCEPT !.tok = tok, !.ran = 0, !.time = t] \in Job
    <3> DEFINE a == [job EXCEPT !.tok = tok]
               b == [a EXCEPT !.ran = 0]
    <3>1. a \in Job
      BY DEF Job
    <3>2. b \in Job
      <4> HIDE DEF a
      <4> QED BY <3>1 DEF Job
    <3>3. [b EXCEPT !.time = t] \in Job
      <4> HIDE DEF b
      <4> QED BY <3>2 DEF Job
    <3> QED BY <3>3
  <2> QED BY <1>5, <1>6, <2>1, <2>2, <2>3, Zenon DEF CopyOf
<1> HIDE DEF n
<1>8. /\ QueueOK(done, n) /\ done \in QueueOf(Job)
  BY <1>1, <1>3, <1>4, MarkJob DEF QueueOK
<1>9. /\ Touched(done.recs, q, i) /\ done.recs[i].del
      /\ done.recs[i].obj = q[i].obj
  <2> DEFINE rec == [q[i] EXCEPT !.del = TRUE]
             rs == [q EXCEPT ![i] = rec]
  <2>1. rec.del /\ rec.obj = q[i].obj
    BY <1>5 DEF RecOf
  <2>2. done.recs = rs
    BY <1>3, <1>5 DEF MarkDeleted, QueueOf
  <2> HIDE DEF rec, done
  <2>3. DOMAIN rs = DOMAIN q /\ rs[i] = rec /\ \A j \in DOMAIN q : j # i => rs[j] = q[j]
    BY <1>4, <1>5
  <2> HIDE DEF rs
  <2> QED BY <1>4, <2>1, <2>2, <2>3 DEF Touched, SameJob
<1> HIDE DEF done
<1>10. /\ moved \in QueueOf(Job) /\ Touched(moved.recs, q, i) /\ moved.recs[i].del
       /\ moved.recs[i].obj.ran = q[i].obj.ran
  <2> DEFINE job == [done.recs[i].obj EXCEPT !.cmd = NoCommand]
             rec == [done.recs[i] EXCEPT !.obj = job]
             rs == [done.recs EXCEPT ![i] = rec]
  <2>1. done.recs \in Seq(RecOf(Job)) /\ i \in DOMAIN done.recs
    BY <1>4, <1>8, <1>9 DEF QueueOf, Touched
  <2>2. done.recs[i] \in RecOf(Job)
    BY <2>1
  <2>3. /\ job \in Job /\ SameJob(job, q[i].obj) /\ job.stopped = q[i].obj.stopped
        /\ job.ran = q[i].obj.ran
    BY <1>9, <2>2 DEF RecOf, Job, SameJob
  <2>4. moved = [done EXCEPT !.recs = rs]
    BY <1>8, <2>1, <2>2 DEF QueueOf, RecOf
  <2> HIDE DEF job
  <2>5. rec \in RecOf(Job) /\ rec.del /\ rec.obj = job
    BY <1>9, <2>2, <2>3 DEF RecOf
  <2> HIDE DEF rec
  <2>6. /\ rs \in Seq(RecOf(Job)) /\ DOMAIN rs = DOMAIN q /\ rs[i] = rec
        /\ \A j \in DOMAIN q : j # i => rs[j] = q[j]
    BY <1>9, <2>1, <2>5 DEF Touched
  <2> HIDE DEF rs, moved
  <2>7. moved \in QueueOf(Job) /\ moved.recs = rs
    BY <1>8, <2>4, <2>6 DEF QueueOf
  <2> QED BY <1>4, <2>3, <2>5, <2>6, <2>7 DEF Touched
<1> HIDE DEF moved
<1>11. \E m \in QueueOf(Job) :
          /\ Touched(m.recs, q, i) /\ m.recs[i].del
          /\ m.recs[i].obj.ran = q[i].obj.ran
          /\ sq' = IF q[i].obj.period > 0 THEN Insert(m, CopyOf(q[i].obj)) ELSE m
  <2>1. CASE q[i].obj.period > 0
    BY <1>2, <1>6, <1>10, <2>1
  <2>2. CASE ~(q[i].obj.period > 0)
    BY <1>2, <1>6, <1>8, <1>9, <2>2
  <2> QED BY <2>1, <2>2
<1>12. f.kind = Top.kind /\ f.pc = "scan" /\ f.cur = Top.cur
  BY <1>1 DEF Frame
<1>13. frames' = [frames EXCEPT ![Depth] = f]
  BY <1>1, <1>2 DEF Top
<1> HIDE DEF f
<1>14. /\ Len(frames') = Len(frames) /\ DOMAIN frames' = DOMAIN frames
       /\ frames'[Depth] = f
       /\ \A d \in DOMAIN frames : d # Depth => frames'[d] = frames[d]
  BY <1>1, <1>13
<1>15. Execs(frames') = Execs(frames)
  BY <1>1, <1>12, <1>14 DEF Execs, Top
<1> QED BY <1>1, <1>2, <1>4, <1>6, <1>7, <1>11, <1>12, <1>14, <1>15

(* deschedule(): in a locked queue the jobs it names are marked unless they are
   new, and the history notes them; of a queue that is not locked they go. *)
LEMMA DescheduleRecs ==
    ASSUME IInv, NEW given \in GivenIdArgs, DescheduleCmd(given),
           NEW id, id = GivenOr(given, lastId),
           NEW q, q = sq.recs, NEW r, r = sq'.recs
    PROVE  /\ sq.lock > 0 =>
                /\ DOMAIN r = DOMAIN q
                /\ \A i \in DOMAIN q :
                      /\ SameJob(r[i].obj, q[i].obj)
                      /\ r[i].obj.ran = q[i].obj.ran
                      /\ r[i].obj.stopped <=> q[i].obj.stopped \/ q[i].obj.id = id
                      /\ r[i].del => q[i].del \/ q[i].obj.id = id
                      /\ q[i].del => r[i].del
           /\ sq.lock = 0 =>
                \E e : /\ Follows(e, r, q)
                       /\ \A k \in DOMAIN r : r[k].obj = q[e[k]].obj
                       /\ \A i \in DOMAIN q : q[i].obj.id # id =>
                              \E k \in DOMAIN r : e[k] = i
<1> DEFINE noted == NoteStopped(sq, id)
           jobs == {job \in JobsOf(noted) : job.id = id}
           n == Cardinality(Execs(frames))
           rs == [i \in DOMAIN q |->
                    IF q[i].obj.id = id THEN [q[i] EXCEPT !.obj.stopped = TRUE]
                    ELSE q[i]]
<1>1. sq' = RemoveAll(noted, jobs)
  BY Zenon DEF DescheduleCmd
<1>2. /\ QueueOK(sq, n) /\ QueueOK(noted, n)
      /\ sq \in QueueOf(Job) /\ noted \in QueueOf(Job) /\ sq.lock = n
      /\ noted.lock = n /\ FlagsNeedDirty(noted) /\ (noted.lock = 0 => NoFlags(noted))
      /\ n \in Nat
  BY NoteStoppedType DEF IInv, QueueOK, QueueOf
<1>3. noted.recs = rs
  <2>1. noted = [sq EXCEPT !.recs = rs]
    BY Zenon DEF NoteStopped
  <2> HIDE DEF rs, noted
  <2> QED BY <1>2, <2>1 DEF QueueOf
<1>4. ASSUME NEW i \in DOMAIN q
      PROVE  /\ SameJob(rs[i].obj, q[i].obj) /\ rs[i].obj.ran = q[i].obj.ran
             /\ rs[i].obj.stopped <=> q[i].obj.stopped \/ q[i].obj.id = id
             /\ rs[i].del = q[i].del /\ rs[i].new = q[i].new
             /\ q[i].obj.id # id => rs[i] = q[i]
  <2>1. q[i] \in RecOf(Job) /\ q[i].obj \in Job /\ q[i].obj.stopped \in BOOLEAN
    <3>1. q[i] \in RecOf(Job) /\ q[i].obj \in Job
      BY <1>2, QueueDomain
    <3> QED BY <3>1 DEF Job
  <2>2. CASE q[i].obj.id = id
    <3> DEFINE job == [q[i].obj EXCEPT !.stopped = TRUE]
    <3>1. /\ SameJob(job, q[i].obj) /\ job.ran = q[i].obj.ran /\ job.stopped
      BY <2>1 DEF Job, SameJob
    <3>2. rs[i] = [q[i] EXCEPT !.obj = job]
      <4>1. [q[i] EXCEPT !.obj.stopped = TRUE] = [q[i] EXCEPT !.obj = job]
        BY <2>1 DEF RecOf
      <4> QED BY <2>2, <4>1, Zenon
    <3> HIDE DEF job, rs
    <3>3. rs[i].obj = job /\ rs[i].del = q[i].del /\ rs[i].new = q[i].new
      BY <2>1, <3>2 DEF RecOf
    <3> QED BY <2>2, <3>1, <3>3
  <2>3. CASE q[i].obj.id # id
    <3>1. rs[i] = q[i]
      BY <2>3, Zenon
    <3> HIDE DEF rs
    <3> QED BY <2>3, <3>1 DEF SameJob
  <2> QED BY <2>2, <2>3
<1>5. DOMAIN rs = DOMAIN q
  BY Zenon
<1> HIDE DEF rs
<1>6. \A i \in DOMAIN q : rs[i].obj \in jobs <=> q[i].obj.id = id
  <2>1. \A i \in DOMAIN q : rs[i].obj \in JobsOf(noted)
    <3> HIDE DEF noted
    <3> QED BY <1>3, <1>5 DEF JobsOf
  <2>2. \A i \in DOMAIN q : rs[i].obj.id = q[i].obj.id
    BY <1>4 DEF SameJob
  <2> HIDE DEF noted
  <2> QED BY <2>1, <2>2
<1> HIDE DEF noted, jobs, n
<1>7. Removed(noted.lock, jobs, r, rs)
  <2>1. Removed(noted.lock, jobs, RemoveAll(noted, jobs).recs, noted.recs)
    BY <1>2, RemovePlaces, Zenon
  <2> QED BY <1>1, <1>3, <2>1
<1>8. CASE sq.lock > 0
  <2>1. /\ DOMAIN r = DOMAIN q
        /\ \A i \in DOMAIN q : /\ r[i].obj = rs[i].obj
                               /\ r[i].del <=> rs[i].del \/ Hit(rs[i], jobs)
    BY <1>2, <1>5, <1>7, <1>8 DEF Removed
  <2>2. \A i \in DOMAIN q : Hit(rs[i], jobs) => q[i].obj.id = id
    BY <1>6 DEF Hit
  <2> QED BY <1>2, <1>4, <1>8, <2>1, <2>2
<1>9. CASE sq.lock = 0
  <2>1. PICK e : /\ Embeds(e, r, rs)
                 /\ \A k \in DOMAIN r : /\ r[k].obj = rs[e[k]].obj
                                        /\ r[k].obj \notin jobs
                 /\ \A i \in DOMAIN rs : rs[i].obj \notin jobs =>
                        \E k \in DOMAIN r : e[k] = i
    BY <1>2, <1>7, <1>9 DEF Removed
  <2>2. Embeds(e, r, q) /\ \A k \in DOMAIN r : e[k] \in DOMAIN q
    BY <1>5, <2>1 DEF Embeds
  <2>3. \A k \in DOMAIN r : r[k].obj = q[e[k]].obj
    BY <1>4, <1>6, <2>1, <2>2
  <2>4. Follows(e, r, q)
    BY <2>2, <2>3 DEF Follows, SameJob
  <2>5. \A i \in DOMAIN q : q[i].obj.id # id => \E k \in DOMAIN r : e[k] = i
    BY <1>5, <1>6, <2>1
  <2> QED BY <1>9, <2>3, <2>4, <2>5
<1> QED BY <1>2, <1>8, <1>9

(* The end of a scan: only the one that gives back the last lock drops records. *)
LEMMA ReturnRecs ==
    ASSUME IInv, ReturnFromExecute
    PROVE  /\ sq.lock > 0 /\ sq.lock \in Nat
           /\ sq.lock > 1 => sq'.recs = sq.recs
           /\ sq.lock = 1 => \E e : Cleaned(e, sq'.recs, sq.recs)
<1>1. /\ sq' = UnlockQueue(sq) /\ sq \in QueueOf(Job) /\ FlagsNeedDirty(sq)
      /\ sq.lock = Cardinality(Execs(frames))
  BY DEF ReturnFromExecute, IInv, QueueOK
<1>2. sq.lock > 0 /\ sq.lock \in Nat
  BY <1>1, TopFacts DEF ReturnFromExecute, InExec
<1> QED BY <1>1, <1>2, UnlockPlaces

(* The other actions lock the queue at most. *)
QuietAction == \/ Poll \/ Recheck \/ Timeout \/ EventArrives
               \/ DispatchDone \/ WaitEnds \/ WaitBegins \/ Tick \/ UNCHANGED vars

LEMMA QuietRecs ==
    ASSUME IInv, QuietAction PROVE sq'.recs = sq.recs
<1>1. sq \in QueueOf(Job)
  BY DEF IInv, QueueOK
<1>2. ASSUME NEW pc, CallExecute(pc) PROVE sq'.recs = sq.recs
  BY <1>1, <1>2 DEF CallExecute, LockQueue, QueueOf
<1>3. CASE Poll
  BY <1>2, <1>3 DEF Poll
<1>4. CASE Timeout
  BY <1>2, <1>4 DEF Timeout
<1> QED BY <1>3, <1>4 DEF QuietAction, Recheck, EventArrives, DispatchDone,
        WaitEnds, WaitBegins, Tick, vars

(* A step that changes the queue, or none: records leave, or one comes. *)
JobTimed(job, d) == job.time = TimePlus(evtime, d) /\ job.period \in {0, d}
DelayKnown(d) == \/ d \in Delays
                 \/ \E i \in DOMAIN sq.recs : d = sq.recs[i].obj.period /\ d > 0
Comes(job) == /\ job \in Job /\ job.tok \notin TokensOf(sq)
              /\ \E d : JobTimed(job, d) /\ DelayKnown(d)

QueueChange ==
    \/ \E e : Follows(e, sq'.recs, sq.recs)
    \/ \E m \in QueueOf(Job), job \in Job : /\ \E e : Follows(e, m.recs, sq.recs)
                                           /\ Comes(job)
                                           /\ sq' = Insert(m, job)

LEMMA ScheduleAdds ==
    ASSUME IInv, UserSchedules
    PROVE  \E job : Comes(job) /\ sq' = Insert(sq, job)
                    /\ job.ran = 0 /\ job.stopped = FALSE
                    /\ UNCHANGED frames
<1>1. PICK cmd \in Commands, ms \in Delays, periodic \in Periodic,
           given \in GivenIdArgs : ScheduleCmd(cmd, ms, periodic, given)
  BY DEF UserSchedules
<1> DEFINE id == GivenOr(given, nextId)
           per == IF periodic THEN ms ELSE 0
           job == [tok |-> FreshToken(sq), id |-> id, cmd |-> cmd,
                   time |-> TimePlus(evtime, ms), period |-> per,
                   ran |-> 0, stopped |-> FALSE]
<1>2. sq' = Insert(sq, job) /\ UNCHANGED frames
  BY <1>1, Zenon DEF ScheduleCmd
<1>3. NumbersOK /\ sq \in QueueOf(Job)
  BY DEF IInv, QueueOK
<1>4. ms \in Nat /\ nextId \in Int
  BY <1>3, ScheduleAssumption DEF NumbersOK
<1>5. id \in Int /\ per \in Nat /\ per \in {0, ms}
  BY <1>4, GivenType
<1>6. FreshToken(sq) \in Nat \ {0} /\ FreshToken(sq) \notin TokensOf(sq)
  BY <1>3, FreshTokenType
<1>7. TimePlus(evtime, ms) \in 0 .. TimeMod - 1
  BY <1>3, <1>4, TimeType
<1> HIDE DEF id, per
<1>8. job \in Job
  BY <1>5, <1>6, <1>7 DEF Job
<1>9. JobTimed(job, ms) /\ DelayKnown(ms)
  BY <1>5 DEF JobTimed, DelayKnown
<1>10. Comes(job) /\ job.ran = 0 /\ job.stopped = FALSE
  BY <1>6, <1>8, <1>9 DEF Comes
<1> HIDE DEF job
<1> QED BY <1>2, <1>10

LEMMA CopyComes ==
    ASSUME IInv, NEW i \in DOMAIN sq.recs, sq.recs[i].obj.period > 0,
           NEW job, job = CopyOf(sq.recs[i].obj), job \in Job
    PROVE  /\ Comes(job) /\ job.ran = 0
           /\ job.stopped = sq.recs[i].obj.stopped
<1>1. sq \in QueueOf(Job) /\ sq.recs[i].obj \in Job
  BY QueueDomain DEF IInv, QueueOK
<1>2. FreshToken(sq) \notin TokensOf(sq)
  BY <1>1, FreshTokenType
<1>3. /\ job.tok = FreshToken(sq) /\ job.ran = 0
      /\ job.stopped = sq.recs[i].obj.stopped
      /\ job.time = TimePlus(evtime, sq.recs[i].obj.period)
      /\ job.period = sq.recs[i].obj.period
  BY <1>1 DEF CopyOf, Job
<1>4. DelayKnown(sq.recs[i].obj.period) /\ JobTimed(job, sq.recs[i].obj.period)
  BY <1>3 DEF DelayKnown, JobTimed
<1> QED BY <1>2, <1>3, <1>4 DEF Comes

LEMMA QueueChanges ==
    ASSUME IInv, [Next]_vars PROVE QueueChange
<1>0. sq \in QueueOf(Job)
  BY DEF IInv, QueueOK
<1>1. CASE UserSchedules
  <2>1. PICK job : Comes(job) /\ sq' = Insert(sq, job)
    BY <1>1, ScheduleAdds
  <2>2. \E e : Follows(e, sq.recs, sq.recs)
    BY StayFollows DEF SameJob
  <2>3. job \in Job
    BY <2>1 DEF Comes
  <2> QED BY <1>0, <2>1, <2>2, <2>3 DEF QueueChange
<1>2. CASE UserDeschedules
  <2>1. PICK given \in GivenIdArgs : DescheduleCmd(given)
    BY <1>2 DEF UserDeschedules
  <2>2. sq.lock > 0 \/ sq.lock = 0
    BY <1>0 DEF QueueOf
  <2>3. CASE sq.lock > 0
    <3>1. /\ DOMAIN sq'.recs = DOMAIN sq.recs
          /\ \A i \in DOMAIN sq.recs : SameJob(sq'.recs[i].obj, sq.recs[i].obj)
      BY <2>1, <2>3, DescheduleRecs
    <3> QED BY <3>1, StayFollows DEF QueueChange
  <2>4. CASE sq.lock = 0
    <3>1. \E e : Follows(e, sq'.recs, sq.recs)
      BY <2>1, <2>4, DescheduleRecs
    <3> QED BY <3>1 DEF QueueChange
  <2> QED BY <2>2, <2>3, <2>4
<1>3. CASE StartJob
  <2>1. Touched(sq'.recs, sq.recs, NextDue)
    BY <1>3, StartRecs
  <2> QED BY <2>1, TouchedFollows DEF QueueChange
<1>4. CASE FinishJob
  <2> DEFINE i == IndexOf(Top.cur)
             copy == CopyOf(sq.recs[i].obj)
  <2>1. /\ i \in DOMAIN sq.recs /\ RunningJob = sq.recs[i].obj
        /\ CopyOf(RunningJob) \in Job
        /\ \E m \in QueueOf(Job) :
              /\ Touched(m.recs, sq.recs, i)
              /\ sq' = IF sq.recs[i].obj.period > 0 THEN Insert(m, copy) ELSE m
    BY <1>4, FinishRecs
  <2>2. PICK m \in QueueOf(Job) :
              /\ Touched(m.recs, sq.recs, i)
              /\ sq' = IF sq.recs[i].obj.period > 0 THEN Insert(m, copy) ELSE m
    BY <2>1
  <2>3. \E e : Follows(e, m.recs, sq.recs)
    BY <2>2, TouchedFollows
  <2>4. CASE sq.recs[i].obj.period > 0
    <3>1. Comes(copy) /\ copy \in Job
      BY <2>1, <2>4, CopyComes
    <3> HIDE DEF copy
    <3> QED BY <2>2, <2>3, <2>4, <3>1 DEF QueueChange
  <2>5. CASE ~(sq.recs[i].obj.period > 0)
    BY <2>2, <2>3, <2>5 DEF QueueChange
  <2> QED BY <2>4, <2>5
<1>5. CASE ReturnFromExecute
  <2>1. /\ sq.lock > 0 /\ sq.lock \in Nat
        /\ sq.lock > 1 => sq'.recs = sq.recs
        /\ sq.lock = 1 => \E e : Cleaned(e, sq'.recs, sq.recs)
    BY <1>5, ReturnRecs
  <2>2. CASE sq.lock = 1
    BY <2>1, <2>2, CleanedFollows DEF QueueChange
  <2>3. CASE sq.lock > 1
    <3>1. \E e : Follows(e, sq'.recs, sq.recs)
      BY <2>1, <2>3, StayFollows DEF SameJob
    <3> QED BY <3>1 DEF QueueChange
  <2> QED BY <2>1, <2>2, <2>3
<1>6. CASE QuietAction
  <2>1. sq'.recs = sq.recs
    BY <1>6, QuietRecs
  <2>2. \E e : Follows(e, sq'.recs, sq.recs)
    BY <2>1, StayFollows DEF SameJob
  <2> QED BY <2>2 DEF QueueChange
<1> QED BY <1>1, <1>2, <1>3, <1>4, <1>5, <1>6 DEF Next, QuietAction

(* No two records have the same address. *)
Distinct(q) == \A i, j \in DOMAIN q : q[i].obj.tok = q[j].obj.tok => i = j

(* The jobs are sorted by their numbers, and these are far from a wrap around. *)
InOrder(q) ==
    /\ \A i \in DOMAIN q : /\ q[i].obj.time < TimeMod \div 2
                           /\ q[i].obj.period \in Delays \cup {0}
    /\ \A i, j \in DOMAIN q : i < j => q[i].obj.time <= q[j].obj.time

LEMMA FollowsKeeps ==
    ASSUME NEW q, NEW r, NEW e, Follows(e, r, q),
           DOMAIN q \subseteq Nat, DOMAIN r \subseteq Nat
    PROVE  /\ Distinct(q) => Distinct(r)
           /\ InOrder(q) => InOrder(r)
<1>1. /\ \A k \in DOMAIN r : e[k] \in DOMAIN q /\ SameJob(r[k].obj, q[e[k]].obj)
      /\ \A k, l \in DOMAIN r : k < l => e[k] < e[l]
  BY DEF Follows, Embeds
<1>2. ASSUME Distinct(q) PROVE Distinct(r)
  <2> SUFFICES ASSUME NEW k \in DOMAIN r, NEW l \in DOMAIN r,
                      r[k].obj.tok = r[l].obj.tok, k # l
               PROVE  FALSE
    BY DEF Distinct
  <2>1. q[e[k]].obj.tok = q[e[l]].obj.tok
    BY <1>1 DEF SameJob
  <2>2. e[k] = e[l]
    BY <1>1, <1>2, <2>1 DEF Distinct
  <2>3. k < l \/ l < k
    OBVIOUS
  <2> QED BY <1>1, <2>2, <2>3
<1>3. ASSUME InOrder(q) PROVE InOrder(r)
  <2>1. \A k \in DOMAIN r : /\ r[k].obj.time < TimeMod \div 2
                            /\ r[k].obj.period \in Delays \cup {0}
    BY <1>1, <1>3 DEF InOrder, SameJob
  <2>2. \A k, l \in DOMAIN r : k < l => r[k].obj.time <= r[l].obj.time
    BY <1>1, <1>3 DEF InOrder, SameJob
  <2> QED BY <2>1, <2>2 DEF InOrder
<1> QED BY <1>2, <1>3

(* A record of r is the new one or one of q. *)
LEMMA InsertedFrom ==
    ASSUME NEW q \in Seq(RecOf(Job)), NEW r, NEW p, NEW job, Inserted(r, q, p, job),
           NEW k \in DOMAIN r
    PROVE  \/ k = p + 1 /\ r[k].obj = job /\ ~r[k].del
           \/ k \in 1 .. p /\ k \in DOMAIN q /\ r[k] = q[k]
           \/ k > p + 1 /\ k - 1 \in DOMAIN q /\ r[k] = q[k - 1]
<1>1. /\ Len(q) \in Nat /\ DOMAIN q = 1 .. Len(q) /\ p \in Nat /\ p <= Len(q)
      /\ k \in 1 .. Len(q) + 1
  BY DEF Inserted
<1>2. CASE k = p + 1
  BY <1>2 DEF Inserted
<1>3. CASE k <= p
  <2>1. k \in 1 .. p /\ k \in DOMAIN q
    BY <1>1, <1>3
  <2> QED BY <2>1 DEF Inserted
<1>4. CASE k > p + 1
  <2>1. k \in p + 2 .. Len(q) + 1
    BY <1>1, <1>4
  <2> QED BY <1>4, <2>1 DEF Inserted
<1> QED BY <1>1, <1>2, <1>3, <1>4

LEMMA FollowsTokens ==
    ASSUME NEW m, NEW fq, NEW e, Follows(e, m.recs, fq.recs)
    PROVE  TokensOf(m) \subseteq TokensOf(fq)
<1>1. \A i \in DOMAIN m.recs : \E j \in DOMAIN fq.recs :
          fq.recs[j].obj.tok = m.recs[i].obj.tok
  BY DEF Follows, Embeds, SameJob
<1> QED BY <1>1, TokensKept

LEMMA InsertDistinct ==
    ASSUME NEW m \in QueueOf(Job), NEW job \in Job, Distinct(m.recs),
           job.tok \notin TokensOf(m)
    PROVE  Distinct(Insert(m, job).recs)
<1> DEFINE q == m.recs
           r == Insert(m, job).recs
<1>1. PICK p : Inserted(r, q, p, job)
  BY InsertRecs
<1>2. q \in Seq(RecOf(Job)) /\ DOMAIN q \subseteq Nat
  BY QueueDomain
<1>3. \A j \in DOMAIN q : q[j].obj.tok # job.tok
  BY DEF TokensOf, JobsOf
<1>4. Distinct(q)
  OBVIOUS
<1> HIDE DEF q, r
<1>5. p \in Nat /\ DOMAIN r \subseteq Nat
  BY <1>1, <1>2 DEF Inserted
<1>6. ASSUME NEW k \in DOMAIN r, NEW l \in DOMAIN r, r[k].obj.tok = r[l].obj.tok
      PROVE  k = l
  <2>1. \/ k = p + 1 /\ r[k].obj = job
        \/ k \in 1 .. p /\ k \in DOMAIN q /\ r[k] = q[k]
        \/ k > p + 1 /\ k - 1 \in DOMAIN q /\ r[k] = q[k - 1]
    BY <1>1, <1>2, InsertedFrom
  <2>2. \/ l = p + 1 /\ r[l].obj = job
        \/ l \in 1 .. p /\ l \in DOMAIN q /\ r[l] = q[l]
        \/ l > p + 1 /\ l - 1 \in DOMAIN q /\ r[l] = q[l - 1]
    BY <1>1, <1>2, InsertedFrom
  <2> QED BY <1>3, <1>4, <1>5, <1>6, <2>1, <2>2 DEF Distinct
<1>7. Distinct(r)
  BY <1>6 DEF Distinct
<1> QED BY <1>7 DEF r

(* Times that are close to each other compare like numbers. *)
LEMMA NotBeforeOrder ==
    ASSUME NEW s \in Nat, NEW t \in Nat, s < TimeMod \div 2, t < TimeMod \div 2
    PROVE  NotBefore(t, s) <=> s <= t
<1>1. TimeMod \in Nat /\ TimeMod > 0
  BY ScheduleAssumption
<1> DEFINE H == TimeMod \div 2
<1>2. H \in Nat /\ 2 * H <= TimeMod
  BY <1>1
<1>3. s < H /\ t < H
  OBVIOUS
<1>4. NotBefore(t, s) <=> (t - s) % TimeMod < H
  BY DEF NotBefore
<1> HIDE DEF H
<1>5. CASE s <= t
  <2>1. t - s \in 0 .. TimeMod - 1
    BY <1>1, <1>2, <1>3, <1>5
  <2>2. (t - s) % TimeMod = t - s
    BY <1>1, <2>1
  <2> QED BY <1>2, <1>3, <1>4, <1>5, <2>2
<1>6. CASE t < s
  <2>1. t - s \in Int /\ t - s < 0 /\ -TimeMod < t - s
    BY <1>1, <1>2, <1>3, <1>6
  <2>2. (t - s) % TimeMod = (t - s) + TimeMod
    BY <1>1, <2>1
  <2>3. ~((t - s) + TimeMod < H)
    BY <1>1, <1>2, <1>3, <1>6
  <2> QED BY <1>4, <1>6, <2>2, <2>3
<1> QED BY <1>5, <1>6

(* fqueue_add_inside with cmp_object_time *)
LEMMA InsertOrder ==
    ASSUME NEW m \in QueueOf(Job), NEW job \in Job, InOrder(m.recs),
           job.time < TimeMod \div 2, job.period \in Delays \cup {0}
    PROVE  InOrder(Insert(m, job).recs)
<1> DEFINE q == m.recs
           r == Insert(m, job).recs
<1>1. PICK p : /\ Inserted(r, q, p, job)
               /\ \A i \in 1 .. p : ~EarlierJob(job, q[i].obj)
               /\ p < Len(q) => EarlierJob(job, q[p + 1].obj)
  BY InsertRecs
<1>2. /\ q \in Seq(RecOf(Job)) /\ DOMAIN q = 1 .. Len(q) /\ Len(q) \in Nat
      /\ \A i \in DOMAIN q : q[i].obj \in Job
  BY QueueDomain
<1>3. /\ \A i \in DOMAIN q : q[i].obj.time \in Nat /\ q[i].obj.time < TimeMod \div 2
      /\ job.time \in Nat
  BY <1>2 DEF Job, InOrder
<1>4. InOrder(q)
  OBVIOUS
<1> HIDE DEF q, r
<1>5. \A i \in DOMAIN q : EarlierJob(job, q[i].obj) <=> job.time < q[i].obj.time
  <2> SUFFICES ASSUME NEW i \in DOMAIN q
               PROVE  EarlierJob(job, q[i].obj) <=> job.time < q[i].obj.time
    OBVIOUS
  <2>1. NotBefore(job.time, q[i].obj.time) <=> q[i].obj.time <= job.time
    BY <1>3, NotBeforeOrder
  <2> QED BY <1>3, <2>1 DEF EarlierJob
<1>6. p \in Nat /\ p <= Len(q) /\ DOMAIN r \subseteq Nat
  BY <1>1, <1>2 DEF Inserted
<1>7. ASSUME NEW i \in DOMAIN q, i <= p PROVE q[i].obj.time <= job.time
  BY <1>1, <1>2, <1>3, <1>5, <1>6, <1>7
<1>8. ASSUME NEW i \in DOMAIN q, i > p PROVE job.time <= q[i].obj.time
  <2>1. p + 1 \in DOMAIN q /\ p < Len(q)
    BY <1>2, <1>6, <1>8
  <2>2. job.time < q[p + 1].obj.time
    BY <1>1, <1>5, <2>1
  <2>3. q[p + 1].obj.time <= q[i].obj.time
    <3>1. p + 1 < i \/ p + 1 = i
      BY <1>2, <1>6, <1>8
    <3> QED BY <1>3, <1>4, <2>1, <3>1 DEF InOrder
  <2> QED BY <1>3, <2>1, <2>2, <2>3
<1>9. ASSUME NEW k \in DOMAIN r
      PROVE  \/ k = p + 1 /\ r[k].obj = job
             \/ k \in 1 .. p /\ k \in DOMAIN q /\ r[k] = q[k]
             \/ k > p + 1 /\ k - 1 \in DOMAIN q /\ r[k] = q[k - 1]
  BY <1>1, <1>2, InsertedFrom
<1>10. ASSUME NEW k \in DOMAIN r
       PROVE  /\ r[k].obj.time < TimeMod \div 2
              /\ r[k].obj.period \in Delays \cup {0}
  BY <1>4, <1>9 DEF InOrder
<1>11. ASSUME NEW k \in DOMAIN r, NEW l \in DOMAIN r, k < l
       PROVE  r[k].obj.time <= r[l].obj.time
  <2>1. CASE k = p + 1 /\ r[k].obj = job
    <3>1. l > p + 1 /\ l - 1 \in DOMAIN q /\ r[l] = q[l - 1]
      BY <1>6, <1>9, <1>11, <2>1
    <3>2. l - 1 > p
      BY <1>6, <3>1
    <3> QED BY <1>8, <2>1, <3>1, <3>2
  <2>2. CASE k \in 1 .. p /\ k \in DOMAIN q /\ r[k] = q[k]
    <3>1. CASE l = p + 1 /\ r[l].obj = job
      BY <1>7, <2>2, <3>1
    <3>2. CASE l \in 1 .. p /\ l \in DOMAIN q /\ r[l] = q[l]
      BY <1>4, <1>11, <2>2, <3>2 DEF InOrder
    <3>3. CASE l > p + 1 /\ l - 1 \in DOMAIN q /\ r[l] = q[l - 1]
      <4>1. k < l - 1
        BY <1>6, <2>2, <3>3
      <4> QED BY <1>4, <2>2, <3>3, <4>1 DEF InOrder
    <3> QED BY <1>9, <3>1, <3>2, <3>3
  <2>3. CASE k > p + 1 /\ k - 1 \in DOMAIN q /\ r[k] = q[k - 1]
    <3>1. l > p + 1 /\ l - 1 \in DOMAIN q /\ r[l] = q[l - 1]
      BY <1>6, <1>9, <1>11, <2>3
    <3>2. k - 1 < l - 1
      BY <1>6, <1>11
    <3> QED BY <1>4, <2>3, <3>1, <3>2 DEF InOrder
  <2> QED BY <1>9, <2>1, <2>2, <2>3
<1>12. InOrder(r)
  BY <1>10, <1>11 DEF InOrder
<1> QED BY <1>12 DEF r

(* No delay brings the time of a job near the wrap around: the server's time
   stamps have 32 bits, the type Time has 64. *)
TimesFit == \A d \in Delays : ServerMod + d < TimeMod \div 2

LEMMA JobFits ==
    ASSUME IInv, TimesFit, InOrder(sq.recs), NEW job, Comes(job)
    PROVE  job.time < TimeMod \div 2 /\ job.period \in Delays \cup {0}
<1>1. PICK d : JobTimed(job, d) /\ DelayKnown(d)
  BY DEF Comes
<1>2. d \in Delays
  <2>1. sq \in QueueOf(Job)
    BY DEF IInv, QueueOK
  <2>2. \A i \in DOMAIN sq.recs : sq.recs[i].obj.period \in Delays \cup {0}
    BY DEF InOrder
  <2> QED BY <1>1, <2>2 DEF DelayKnown
<1>3. /\ d \in Nat /\ evtime \in Nat /\ evtime <= ServerMod /\ ServerMod \in Nat
      /\ TimeMod \in Nat /\ TimeMod > 0
  BY <1>2, ScheduleAssumption DEF IInv, NumbersOK
<1> DEFINE H == TimeMod \div 2
<1>4. H \in Nat /\ 2 * H <= TimeMod /\ ServerMod + d < H
  BY <1>2, <1>3 DEF TimesFit
<1> HIDE DEF H
<1>5. evtime + d \in 0 .. TimeMod - 1 /\ evtime + d < H
  BY <1>3, <1>4
<1>6. job.time = evtime + d
  <2>1. (evtime + d) % TimeMod = evtime + d
    BY <1>3, <1>5
  <2> QED BY <1>1, <2>1 DEF JobTimed, TimePlus
<1> QED BY <1>1, <1>2, <1>5, <1>6 DEF H, JobTimed

(* What the proofs about the records need of all of them. *)
Ordered == InOrder(sq.recs)
Addressed == Distinct(sq.recs)

LEMMA OrderedStep ==
    ASSUME IInv, IInv', TimesFit, Ordered, [Next]_vars PROVE Ordered'
<1>1. QueueChange
  BY QueueChanges
<1>2. sq \in QueueOf(Job) /\ sq' \in QueueOf(Job)
  BY DEF IInv, QueueOK
<1>3. DOMAIN sq.recs \subseteq Nat /\ DOMAIN sq'.recs \subseteq Nat
  BY <1>2, QueueDomain
<1>4. CASE \E e : Follows(e, sq'.recs, sq.recs)
  BY <1>3, <1>4, FollowsKeeps DEF Ordered
<1>5. CASE \E m \in QueueOf(Job), job \in Job : /\ \E e : Follows(e, m.recs, sq.recs)
                                                /\ Comes(job) /\ sq' = Insert(m, job)
  <2>1. PICK m \in QueueOf(Job), job \in Job : /\ \E e : Follows(e, m.recs, sq.recs)
                                               /\ Comes(job) /\ sq' = Insert(m, job)
    BY <1>5
  <2>2. InOrder(m.recs)
    <3>1. DOMAIN m.recs \subseteq Nat
      BY QueueDomain
    <3> QED BY <1>3, <2>1, <3>1, FollowsKeeps DEF Ordered
  <2>3. /\ job \in Job /\ job.time < TimeMod \div 2
        /\ job.period \in Delays \cup {0}
    BY <2>1, JobFits DEF Ordered, Comes
  <2> QED BY <2>1, <2>2, <2>3, InsertOrder DEF Ordered
<1> QED BY <1>1, <1>4, <1>5 DEF QueueChange

LEMMA AddressedStep ==
    ASSUME IInv, IInv', Addressed, [Next]_vars PROVE Addressed'
<1>1. QueueChange
  BY QueueChanges
<1>2. sq \in QueueOf(Job) /\ sq' \in QueueOf(Job)
  BY DEF IInv, QueueOK
<1>3. DOMAIN sq.recs \subseteq Nat /\ DOMAIN sq'.recs \subseteq Nat
  BY <1>2, QueueDomain
<1>4. CASE \E e : Follows(e, sq'.recs, sq.recs)
  BY <1>3, <1>4, FollowsKeeps DEF Addressed
<1>5. CASE \E m \in QueueOf(Job), job \in Job : /\ \E e : Follows(e, m.recs, sq.recs)
                                                /\ Comes(job) /\ sq' = Insert(m, job)
  <2>1. PICK m \in QueueOf(Job), job \in Job : /\ \E e : Follows(e, m.recs, sq.recs)
                                               /\ Comes(job) /\ sq' = Insert(m, job)
    BY <1>5
  <2>2. Distinct(m.recs) /\ job.tok \notin TokensOf(m)
    <3>1. DOMAIN m.recs \subseteq Nat
      BY QueueDomain
    <3>2. TokensOf(m) \subseteq TokensOf(sq)
      BY <2>1, FollowsTokens
    <3> QED BY <1>3, <2>1, <3>1, <3>2, FollowsKeeps DEF Addressed, Comes
  <2>3. job \in Job
    BY <2>1 DEF Comes
  <2> QED BY <2>1, <2>2, <2>3, InsertDistinct DEF Addressed
<1> QED BY <1>1, <1>4, <1>5 DEF QueueChange

LEMMA RecordsInit == Init => Ordered /\ Addressed
BY DEF Init, FQueueInit, Ordered, Addressed, InOrder, Distinct

-----------------------------------------------------------------------------
(* The scans on the stack *)

(* A scan on the new stack is one on the old stack, or has just been called. *)
ScansStay ==
    \A d \in Execs(frames') : \/ d \in Execs(frames) /\ frames'[d] = frames[d]
                              \/ d = Len(frames') /\ frames'[d].pc # "run"

LEMMA LoopScans ==
    ASSUME IInv, Top.kind = "loop", NEW f, f.kind = "loop",
           frames' = [frames EXCEPT ![Depth] = f]
    PROVE  ScansStay
<1>1. frames \in Seq(Frame) /\ Depth \in DOMAIN frames /\ Depth = Len(frames)
  BY TopFacts DEF Depth
<1>2. DOMAIN frames' = DOMAIN frames /\ frames'[Depth] = f
      /\ \A d \in DOMAIN frames : d # Depth => frames'[d] = frames[d]
  BY <1>1
<1>3. Execs(frames') \subseteq DOMAIN frames /\ Depth \notin Execs(frames')
  BY <1>2 DEF Execs
<1> QED BY <1>2, <1>3 DEF Execs, ScansStay

LEMMA CallScans ==
    ASSUME IInv, Top.kind = "loop", NEW pc \in Pcs, CallExecute(pc)
    PROVE  ScansStay
<1> DEFINE f == [Top EXCEPT !.pc = pc]
           g == [frames EXCEPT ![Depth] = f]
           e == ExecFrame(clock)
<1>1. /\ Top \in Frame /\ frames \in Seq(Frame) /\ Depth \in DOMAIN frames
      /\ Depth = Len(frames)
  BY TopFacts DEF Depth
<1>2. f \in Frame /\ f.kind = "loop"
  BY <1>1 DEF Frame
<1>3. [frames EXCEPT ![Depth].pc = pc] = g
  BY <1>1 DEF Top
<1> HIDE DEF f
<1>4. CASE IsEmpty(sq)
  <2>1. frames' = g
    BY <1>3, <1>4 DEF CallExecute, GoTo
  <2> QED BY <1>2, <2>1, LoopScans
<1>5. CASE ~IsEmpty(sq)
  <2>1. frames' = Append(g, e)
    BY <1>3, <1>5 DEF CallExecute
  <2>2. /\ g \in Seq(Frame) /\ Len(g) = Len(frames) /\ g[Depth] = f
        /\ \A d \in DOMAIN frames : d # Depth => g[d] = frames[d]
    BY <1>1, <1>2
  <2>3. e.pc = "scan" /\ e \in Frame
    BY DEF ExecFrame, Frame, Pcs, Forever, IInv, NumbersOK
  <2> HIDE DEF g, e
  <2>4. /\ Len(frames') = Len(frames) + 1
        /\ DOMAIN frames' = DOMAIN frames \cup {Len(frames')}
        /\ frames'[Len(frames')] = e
        /\ \A d \in DOMAIN frames : frames'[d] = g[d]
    BY <1>1, <2>1, <2>2, <2>3
  <2>5. ASSUME NEW d \in Execs(frames'), d # Len(frames')
        PROVE  d \in Execs(frames) /\ frames'[d] = frames[d]
    <3>1. d \in DOMAIN frames /\ frames'[d].kind = "exec"
      BY <2>4, <2>5 DEF Execs
    <3>2. d # Depth
      BY <1>2, <2>2, <2>4, <3>1
    <3> QED BY <2>2, <2>4, <3>1, <3>2 DEF Execs
  <2> QED BY <2>3, <2>4, <2>5 DEF ScansStay
<1> QED BY <1>4, <1>5

LEMMA SameScans ==
    ASSUME frames' = frames PROVE ScansStay
BY DEF ScansStay

LEMMA PoppedScans ==
    ASSUME IInv, frames' = Callers, Depth > 1
    PROVE  ScansStay /\ Popped(frames', frames)
<1>1. frames \in Seq(Frame)
  BY TopFacts
<1>2. Popped(frames', frames)
  BY <1>1, Pop DEF Callers, Depth
<1>3. Execs(frames') \subseteq DOMAIN frames'
  BY DEF Execs
<1> QED BY <1>2, <1>3 DEF Popped, ScansStay, Execs

LEMMA QuietScans ==
    ASSUME IInv, QuietAction
    PROVE  /\ ScansStay
           /\ \/ Top.kind = "loop" \/ frames' = frames
              \/ InExec("run") /\ Top.cmd \in Commands /\ "wait" \in Does[Top.cmd]
<1>0. Top \in Frame /\ frames \in Seq(Frame) /\ Depth \in DOMAIN frames
  BY TopFacts
<1>1. CASE Poll
  <2>1. Top.kind = "loop"
    BY <1>1 DEF Poll, InLoop
  <2>2. CASE NextMs(sq, evtime) = 0
    BY <1>1, <2>1, <2>2, CallScans DEF Poll, Pcs
  <2>3. CASE NextMs(sq, evtime) # 0
    <3> DEFINE f == LoopFrame("select", IF NextMs(sq, evtime) < 0 THEN Forever
                                        ELSE NextMs(sq, evtime))
    <3>1. frames' = [frames EXCEPT ![Depth] = f]
      BY <1>1, <2>3, Zenon DEF Poll, Select
    <3>2. f.kind = "loop"
      BY DEF LoopFrame
    <3> HIDE DEF f
    <3> QED BY <2>1, <3>1, <3>2, LoopScans
  <2> QED BY <2>1, <2>2, <2>3
<1>2. CASE Recheck
  <2> DEFINE ms == IF NextMs(sq, evtime) = 0 THEN 1 ELSE NextMs(sq, evtime)
             f == LoopFrame("select", IF ms < 0 THEN Forever ELSE ms)
  <2>1. Top.kind = "loop" /\ frames' = [frames EXCEPT ![Depth] = f]
    BY <1>2, Zenon DEF Recheck, InLoop, Select
  <2>2. f.kind = "loop"
    BY DEF LoopFrame
  <2> HIDE DEF f
  <2> QED BY <2>1, <2>2, LoopScans
<1>3. CASE Timeout
  <2>1. Top.kind = "loop" /\ CallExecute("poll")
    BY <1>3 DEF Timeout, InLoop
  <2> QED BY <2>1, CallScans DEF Pcs
<1>4. CASE EventArrives
  <2> DEFINE f == LoopFrame("dispatch", Forever)
  <2>1. Top.kind = "loop" /\ frames' = [frames EXCEPT ![Depth] = f]
    BY <1>4 DEF EventArrives, InLoop
  <2>2. f.kind = "loop"
    BY DEF LoopFrame
  <2> HIDE DEF f
  <2> QED BY <2>1, <2>2, LoopScans
<1>5. CASE DispatchDone
  <2> DEFINE f == [Top EXCEPT !.pc = "poll"]
  <2>1. Top.kind = "loop" /\ frames' = [frames EXCEPT ![Depth].pc = "poll"]
    BY <1>5 DEF DispatchDone, InLoop, GoTo
  <2>2. f.kind = "loop" /\ frames' = [frames EXCEPT ![Depth] = f]
    BY <1>0, <2>1 DEF Frame, Top
  <2> HIDE DEF f
  <2> QED BY <2>1, <2>2, LoopScans
<1>6. CASE WaitEnds
  BY <1>6, PoppedScans DEF WaitEnds, InLoop
<1>7. CASE WaitBegins
  <2> DEFINE f == LoopFrame("poll", Forever)
  <2>1. frames' = Append(frames, f) /\ f.kind = "loop" /\ f \in Frame
    BY <1>7, LoopFrameType DEF WaitBegins, Pcs
  <2> HIDE DEF f
  <2>2. /\ DOMAIN frames' = DOMAIN frames \cup {Len(frames')}
        /\ frames'[Len(frames')] = f
        /\ \A d \in DOMAIN frames : frames'[d] = frames[d]
    BY <1>0, <2>1
  <2>3. ScansStay
    BY <2>1, <2>2 DEF ScansStay, Execs
  <2>4. Top.cmd \in Commands \cup {NoCommand}
    BY <1>0 DEF Frame
  <2>5. CanDo("wait")
    BY <1>7 DEF WaitBegins
  <2> QED BY <2>3, <2>4, <2>5 DEF CanDo, InLoop
<1>8. CASE Tick
  <2>1. CASE InLoop("select") /\ Top.timer > 0
    <3> DEFINE f == [Top EXCEPT !.timer = Top.timer - 1]
    <3>1. frames' = [frames EXCEPT ![Depth].timer = @ - 1] /\ Top.kind = "loop"
      BY <1>8, <2>1 DEF Tick, InLoop
    <3>2. f.kind = "loop" /\ frames' = [frames EXCEPT ![Depth] = f]
      BY <1>0, <3>1 DEF Frame, Top
    <3> HIDE DEF f
    <3> QED BY <3>1, <3>2, LoopScans
  <2>2. CASE ~(InLoop("select") /\ Top.timer > 0)
    <3>1. frames' = frames
      BY <1>8, <2>2 DEF Tick
    <3> QED BY <3>1, SameScans
  <2> QED BY <2>1, <2>2
<1>9. CASE UNCHANGED vars
  BY <1>9, SameScans DEF vars
<1> QED BY <1>1, <1>2, <1>3, <1>4, <1>5, <1>6, <1>7, <1>8, <1>9 DEF QuietAction

-----------------------------------------------------------------------------
(* No job is lost *)

(* A record is marked only when its job has run or was descheduled, and the job
   of a command that runs was started. *)
Marked == \A i \in DOMAIN sq.recs :
              sq.recs[i].del => sq.recs[i].obj.ran > 0 \/ sq.recs[i].obj.stopped
Started == \A d \in Execs(frames) : frames[d].pc = "run" =>
               \A i \in DOMAIN sq.recs :
                   sq.recs[i].obj.tok = frames[d].cur => sq.recs[i].obj.ran > 0

HistoryOK == Addressed /\ Marked /\ Started

(* Without a scan there is nothing to say about marks. *)
LEMMA IdleHistory ==
    ASSUME IInv, sq.lock = 0 PROVE Marked /\ Started /\ Execs(frames) = {}
<1>1. NoFlags(sq) /\ Cardinality(Execs(frames)) = 0 /\ frames \in Seq(Frame)
  BY DEF IInv, QueueOK, StackOK
<1>2. Execs(frames) = {}
  BY <1>1, ExecsFinite, FS_EmptySet
<1> QED BY <1>1, <1>2 DEF Marked, Started, NoFlags

LEMMA IdleStep ==
    IInv => (sq.lock = 0 => Marked /\ Started /\ Execs(frames) = {})
BY IdleHistory

LEMMA CursorKnown ==
    ASSUME IInv, NEW d \in Execs(frames), frames[d].pc = "run"
    PROVE  frames[d].cur \in TokensOf(sq)
BY DEF IInv, StackOK

(* A new record comes to a queue with the records of sq, marks for deletion on
   started jobs only. *)
LEMMA HistoryInsert ==
    ASSUME IInv, IInv', NEW m \in QueueOf(Job), NEW job, Comes(job),
           sq' = Insert(m, job), DOMAIN m.recs = DOMAIN sq.recs,
           \A i \in DOMAIN sq.recs :
              m.recs[i].del => m.recs[i].obj.ran > 0 \/ m.recs[i].obj.stopped,
           NEW S, S \subseteq TokensOf(sq),
           \A d \in Execs(frames') : frames'[d].pc = "run" => frames'[d].cur \in S,
           \A i \in DOMAIN sq.recs :
              m.recs[i].obj.tok \in S => m.recs[i].obj.ran > 0
    PROVE  Marked' /\ Started'
<1>1. m.recs \in Seq(RecOf(Job)) /\ job \in Job
  BY QueueDomain DEF Comes
<1>2. PICK p : Inserted(sq'.recs, m.recs, p, job)
  BY <1>1, InsertRecs
<1>3. ASSUME NEW k \in DOMAIN sq'.recs
      PROVE  \/ sq'.recs[k].obj = job /\ ~sq'.recs[k].del
             \/ \E i \in DOMAIN sq.recs : sq'.recs[k] = m.recs[i]
  BY <1>1, <1>2, InsertedFrom
<1>4. Marked'
  BY <1>3 DEF Marked
<1>5. job.tok \notin S
  BY DEF Comes
<1>6. Started'
  BY <1>3, <1>5 DEF Started
<1> QED BY <1>4, <1>6

LEMMA HistoryStep ==
    ASSUME IInv, IInv', Addressed', HistoryOK, [Next]_vars PROVE HistoryOK'
<1> DEFINE q == sq.recs
           S(fr) == {fr[d].cur : d \in {c \in Execs(fr) : fr[c].pc = "run"}}
<1>0. /\ sq \in QueueOf(Job) /\ sq.lock \in Nat /\ sq.lock = Cardinality(Execs(frames))
      /\ sq'.lock = Cardinality(Execs(frames'))
  BY DEF IInv, QueueOK, QueueOf
<1>00. S(frames) \subseteq TokensOf(sq)
  BY CursorKnown
<1>1. CASE UserSchedules
  <2>1. PICK job : Comes(job) /\ sq' = Insert(sq, job) /\ UNCHANGED frames
    BY <1>1, ScheduleAdds
  <2>2. \A d \in Execs(frames') : frames'[d].pc = "run" => frames'[d].cur \in S(frames)
    BY <2>1
  <2>3. \A i \in DOMAIN q : q[i].obj.tok \in S(frames) => q[i].obj.ran > 0
    BY DEF HistoryOK, Started
  <2> HIDE DEF S
  <2>4. Marked' /\ Started'
    BY <1>0, <1>00, <2>1, <2>2, <2>3, HistoryInsert DEF HistoryOK, Marked
  <2> QED BY <2>4 DEF HistoryOK
<1>2. CASE UserDeschedules
  <2>1. PICK given \in GivenIdArgs : DescheduleCmd(given)
    BY <1>2 DEF UserDeschedules
  <2>2. frames' = frames
    BY <2>1 DEF DescheduleCmd
  <2>3. CASE sq.lock > 0
    <3> DEFINE id == GivenOr(given, lastId)
    <3>1. /\ DOMAIN sq'.recs = DOMAIN q
          /\ \A i \in DOMAIN q :
                /\ SameJob(sq'.recs[i].obj, q[i].obj)
                /\ sq'.recs[i].obj.ran = q[i].obj.ran
                /\ sq'.recs[i].obj.stopped <=> q[i].obj.stopped \/ q[i].obj.id = id
                /\ sq'.recs[i].del => q[i].del \/ q[i].obj.id = id
      BY <2>1, <2>3, DescheduleRecs
    <3> HIDE DEF id
    <3>2. Marked'
      BY <3>1 DEF HistoryOK, Marked
    <3>3. Started'
      BY <2>2, <3>1 DEF HistoryOK, Started, SameJob
    <3> QED BY <3>2, <3>3 DEF HistoryOK
  <2>4. CASE sq.lock = 0
    <3>1. sq'.lock = 0
      BY <1>0, <2>2, <2>4
    <3>2. (sq.lock = 0 => Marked /\ Started /\ Execs(frames) = {})'
      BY IdleStep, PTL
    <3> QED BY <3>1, <3>2 DEF HistoryOK
  <2> QED BY <1>0, <2>3, <2>4
<1>3. CASE StartJob
  <2> DEFINE i == NextDue
             r == sq'.recs
  <2>1. /\ i \in DOMAIN q /\ ~Skipped(q[i]) /\ Touched(r, q, i)
        /\ r[i].del = q[i].del
        /\ r[i].obj.ran = IF q[i].obj.ran < 2 THEN q[i].obj.ran + 1
                          ELSE q[i].obj.ran
        /\ Execs(frames') = Execs(frames)
        /\ \A d \in DOMAIN frames : d # Depth => frames'[d] = frames[d]
        /\ frames'[Depth].cur = q[i].obj.tok
    BY <1>3, StartRecs
  <2>2. q[i].obj.ran \in 0 .. 2
    <3>1. q[i].obj \in Job
      BY <1>0, <2>1, QueueDomain
    <3> QED BY <3>1 DEF Job
  <2>3. r[i].obj.ran > 0 /\ ~r[i].del
    BY <2>1, <2>2 DEF Skipped
  <2> HIDE DEF i, r
  <2>4. Marked'
    BY <2>1, <2>3 DEF HistoryOK, Marked, Touched, r
  <2>5. Started'
    <3> SUFFICES ASSUME NEW d \in Execs(frames'), frames'[d].pc = "run",
                        NEW j \in DOMAIN r, r[j].obj.tok = frames'[d].cur
                 PROVE  r[j].obj.ran > 0
      BY DEF Started, r
    <3>1. CASE j = i
      BY <2>3, <3>1
    <3>2. CASE j # i
      <4>1. r[j] = q[j] /\ j \in DOMAIN q
        BY <2>1, <3>2 DEF Touched
      <4>2. d # Depth
        BY <2>1, <3>2, <4>1 DEF HistoryOK, Addressed, Distinct
      <4>3. d \in Execs(frames) /\ frames'[d] = frames[d]
        BY <2>1, <4>2 DEF Execs
      <4> QED BY <4>1, <4>3 DEF HistoryOK, Started
    <3> QED BY <3>1, <3>2
  <2> QED BY <2>4, <2>5 DEF HistoryOK
<1>4. CASE FinishJob
  <2> DEFINE i == IndexOf(Top.cur)
             copy == CopyOf(q[i].obj)
  <2>1. /\ i \in DOMAIN q /\ q[i].obj.tok = Top.cur /\ RunningJob = q[i].obj
        /\ CopyOf(RunningJob) \in Job
        /\ \E m \in QueueOf(Job) :
              /\ Touched(m.recs, q, i) /\ m.recs[i].del
              /\ m.recs[i].obj.ran = q[i].obj.ran
              /\ sq' = IF q[i].obj.period > 0 THEN Insert(m, copy) ELSE m
        /\ InExec("run") /\ Execs(frames') = Execs(frames)
        /\ \A d \in DOMAIN frames : d # Depth => frames'[d] = frames[d]
        /\ frames'[Depth].pc = "scan"
    BY <1>4, FinishRecs
  <2>2. PICK m \in QueueOf(Job) :
              /\ Touched(m.recs, q, i) /\ m.recs[i].del
              /\ m.recs[i].obj.ran = q[i].obj.ran
              /\ sq' = IF q[i].obj.period > 0 THEN Insert(m, copy) ELSE m
    BY <2>1
  <2>3. q[i].obj.ran > 0
    <3>1. Depth \in Execs(frames) /\ frames[Depth].pc = "run"
      BY <2>1, TopFacts DEF InExec, Top, Execs
    <3> QED BY <2>1, <3>1 DEF HistoryOK, Started, Top
  <2>4. \A j \in DOMAIN q :
           m.recs[j].del => m.recs[j].obj.ran > 0 \/ m.recs[j].obj.stopped
    BY <2>2, <2>3 DEF HistoryOK, Marked, Touched
  <2>5. \A d \in Execs(frames') : frames'[d].pc = "run" =>
            d \in Execs(frames) /\ frames'[d] = frames[d]
    BY <2>1 DEF Execs
  <2>6. \A d \in Execs(frames') : frames'[d].pc = "run" => frames'[d].cur \in S(frames)
    BY <2>5
  <2>7. \A j \in DOMAIN q : m.recs[j].obj.tok \in S(frames) => m.recs[j].obj.ran > 0
    <3>1. \A j \in DOMAIN q : q[j].obj.tok \in S(frames) => q[j].obj.ran > 0
      BY DEF HistoryOK, Started
    <3> HIDE DEF S, copy
    <3> QED BY <2>2, <2>3, <3>1 DEF Touched
  <2>8. DOMAIN m.recs = DOMAIN q
    BY <2>2 DEF Touched
  <2> HIDE DEF S, i
  <2>9. CASE q[i].obj.period > 0
    <3>1. Comes(copy)
      BY <2>1, <2>9, CopyComes
    <3> HIDE DEF copy
    <3>2. sq' = Insert(m, copy)
      BY <2>2, <2>9
    <3>3. Marked' /\ Started'
      BY <1>00, <2>4, <2>6, <2>7, <2>8, <3>1, <3>2, HistoryInsert
    <3> QED BY <3>3 DEF HistoryOK
  <2>10. CASE ~(q[i].obj.period > 0)
    <3>1. sq' = m
      BY <2>2, <2>10
    <3>2. Marked' /\ Started'
      BY <2>4, <2>6, <2>7, <2>8, <3>1 DEF Marked, Started
    <3> QED BY <3>2 DEF HistoryOK
  <2> QED BY <2>9, <2>10
<1>5. CASE ReturnFromExecute
  <2>1. /\ sq.lock > 0
        /\ frames' = Callers /\ Depth > 1 /\ Top.kind = "exec"
    BY <1>5, ReturnRecs, TopFacts DEF ReturnFromExecute, InExec
  <2>2. ScansStay /\ Popped(frames', frames)
    BY <2>1, PoppedScans
  <2>3. CASE sq.lock = 1
    <3>1. sq'.lock = 0
      BY <1>0, <2>1, <2>2, <2>3 DEF Popped, Top, Depth
    <3>2. (sq.lock = 0 => Marked /\ Started /\ Execs(frames) = {})'
      BY IdleStep, PTL
    <3> QED BY <3>1, <3>2 DEF HistoryOK
  <2>4. CASE sq.lock > 1
    <3>1. sq'.recs = q
      BY <1>5, <2>4, ReturnRecs
    <3> QED BY <2>2, <3>1 DEF HistoryOK, Marked, Started, ScansStay
  <2> QED BY <1>0, <2>1, <2>3, <2>4
<1>6. CASE QuietAction
  <2>1. sq'.recs = q /\ ScansStay
    BY <1>6, QuietRecs, QuietScans
  <2> QED BY <2>1 DEF HistoryOK, Marked, Started, ScansStay
<1> QED BY <1>1, <1>2, <1>3, <1>4, <1>5, <1>6 DEF Next, QuietAction

LEMMA HistoryInit == Init => HistoryOK
<1> SUFFICES ASSUME Init PROVE HistoryOK
  OBVIOUS
<1>1. IInv /\ sq.lock = 0
  BY InitInv DEF Init, FQueueInit
<1> QED BY <1>1, RecordsInit, IdleHistory DEF HistoryOK

(* A job is gone: its scan ended or it was descheduled. *)
Lost(tok) == \/ Held(tok).obj.ran > 0 \/ Held(tok).obj.stopped
             \/ \E given \in GivenIdArgs :
                   DescheduleCmd(given) /\ Held(tok).obj.id = GivenOr(given, lastId)

LEMMA HeldType ==
    ASSUME NEW tok \in TokensOf(sq)
    PROVE  \E i \in DOMAIN sq.recs : Held(tok) = sq.recs[i] /\ sq.recs[i].obj.tok = tok
<1>1. IndexOf(tok) \in DOMAIN sq.recs /\ sq.recs[IndexOf(tok)].obj.tok = tok
  BY DEF IndexOf, TokensOf, JobsOf
<1> QED BY <1>1 DEF Held

(* The tokens of records that stay *)
LEMMA StaysHeld ==
    ASSUME NEW r, r = sq'.recs, NEW i \in DOMAIN sq.recs,
           \E k \in DOMAIN r : r[k].obj.tok = sq.recs[i].obj.tok
    PROVE  sq.recs[i].obj.tok \in TokensOf(sq')
BY DEF TokensOf, JobsOf

LEMMA LostStep ==
    ASSUME IInv, IInv', HistoryOK, [Next]_vars,
           NEW tok \in TokensOf(sq), tok \notin TokensOf(sq')
    PROVE  Lost(tok)
<1> DEFINE q == sq.recs
           r == sq'.recs
<1>1. PICK i \in DOMAIN q : Held(tok) = q[i] /\ q[i].obj.tok = tok
  BY HeldType
<1>2. ~\E k \in DOMAIN r : r[k].obj.tok = tok
  BY DEF TokensOf, JobsOf
<1>3. sq \in QueueOf(Job) /\ sq.lock \in Nat
  BY DEF IInv, QueueOK, QueueOf
<1>4. CASE UserSchedules
  <2>1. PICK job : Comes(job) /\ sq' = Insert(sq, job)
    BY <1>4, ScheduleAdds
  <2>2. TokensOf(sq) \subseteq TokensOf(sq')
    BY <2>1, InsertJob DEF Comes, IInv, QueueOK
  <2> QED BY <2>2
<1>5. CASE UserDeschedules
  <2>1. PICK given \in GivenIdArgs : DescheduleCmd(given)
    BY <1>5 DEF UserDeschedules
  <2> DEFINE id == GivenOr(given, lastId)
  <2>2. CASE sq.lock > 0
    <3>1. DOMAIN r = DOMAIN q /\ SameJob(r[i].obj, q[i].obj)
      BY <2>1, <2>2, DescheduleRecs
    <3> QED BY <1>1, <1>2, <3>1 DEF SameJob
  <2>3. CASE sq.lock = 0
    <3>1. PICK e : /\ Follows(e, r, q)
                   /\ \A j \in DOMAIN q : q[j].obj.id # id =>
                          \E k \in DOMAIN r : e[k] = j
      BY <2>1, <2>3, DescheduleRecs
    <3>2. q[i].obj.id = id
      <4> SUFFICES ASSUME q[i].obj.id # id PROVE FALSE
        OBVIOUS
      <4>1. PICK k \in DOMAIN r : e[k] = i
        BY <3>1
      <4>2. r[k].obj.tok = q[i].obj.tok
        BY <3>1, <4>1 DEF Follows, SameJob
      <4> QED BY <1>1, <1>2, <4>2
    <3> QED BY <1>1, <2>1, <3>2 DEF Lost
  <2> QED BY <1>3, <2>2, <2>3
<1>6. CASE StartJob
  <2>1. Touched(r, q, NextDue)
    BY <1>6, StartRecs
  <2> HIDE DEF r
  <2> QED BY <1>1, <1>2, <2>1 DEF Touched, SameJob
<1>7. CASE FinishJob
  <2> DEFINE j == IndexOf(Top.cur)
             copy == CopyOf(q[j].obj)
  <2>1. /\ j \in DOMAIN q /\ RunningJob = q[j].obj /\ CopyOf(RunningJob) \in Job
        /\ \E m \in QueueOf(Job) :
              /\ Touched(m.recs, q, j)
              /\ sq' = IF q[j].obj.period > 0 THEN Insert(m, copy) ELSE m
    BY <1>7, FinishRecs
  <2>2. PICK m \in QueueOf(Job) :
              /\ Touched(m.recs, q, j)
              /\ sq' = IF q[j].obj.period > 0 THEN Insert(m, copy) ELSE m
    BY <2>1
  <2> HIDE DEF j
  <2>3. i \in DOMAIN m.recs /\ m.recs[i].obj.tok = tok
    BY <1>1, <2>2 DEF Touched, SameJob
  <2>4. CASE q[j].obj.period > 0
    <3>1. copy \in Job
      BY <2>1
    <3> HIDE DEF copy
    <3>2. PICK p : Inserted(r, m.recs, p, copy)
      BY <2>2, <2>4, <3>1, InsertRecs
    <3>3. m.recs \in Seq(RecOf(Job)) /\ DOMAIN m.recs = 1 .. Len(m.recs)
          /\ Len(m.recs) \in Nat
      BY QueueDomain
    <3> DEFINE k == IF i <= p THEN i ELSE i + 1
    <3>4. k \in DOMAIN r /\ r[k] = m.recs[i]
      <4>1. p \in Nat /\ i \in Nat /\ i >= 1 /\ i <= Len(m.recs)
        BY <2>3, <3>2, <3>3 DEF Inserted
      <4>2. CASE i <= p
        BY <3>2, <4>1, <4>2 DEF Inserted
      <4>3. CASE ~(i <= p)
        <5>1. i + 1 \in p + 2 .. Len(m.recs) + 1 /\ (i + 1) - 1 = i /\ k = i + 1
          BY <3>3, <4>1, <4>3
        <5>2. r[i + 1] = m.recs[i] /\ i + 1 \in DOMAIN r
          BY <3>2, <4>1, <5>1 DEF Inserted
        <5> QED BY <5>1, <5>2
      <4> QED BY <4>2, <4>3
    <3> QED BY <1>2, <2>3, <3>4
  <2>5. CASE ~(q[j].obj.period > 0)
    BY <1>2, <2>2, <2>3, <2>5
  <2> QED BY <2>4, <2>5
<1>8. CASE ReturnFromExecute
  <2>1. /\ sq.lock > 0
        /\ sq.lock > 1 => r = q
        /\ sq.lock = 1 => \E e : Cleaned(e, r, q)
    BY <1>8, ReturnRecs
  <2>2. CASE sq.lock = 1
    <3>1. PICK e : Cleaned(e, r, q)
      BY <2>1, <2>2
    <3>2. q[i].del
      <4> SUFFICES ASSUME ~q[i].del PROVE FALSE
        OBVIOUS
      <4>1. PICK k \in DOMAIN r : e[k] = i
        BY <3>1 DEF Cleaned
      <4>2. r[k].obj = q[i].obj
        BY <3>1, <4>1 DEF Cleaned
      <4> QED BY <1>1, <1>2, <4>2
    <3> QED BY <1>1, <3>2 DEF HistoryOK, Marked, Lost
  <2>3. CASE sq.lock > 1
    BY <1>1, <1>2, <2>1, <2>3
  <2> QED BY <1>3, <2>1, <2>2, <2>3
<1>9. CASE QuietAction
  <2>1. r = q
    BY <1>9, QuietRecs
  <2> QED BY <1>1, <1>2, <2>1
<1> QED BY <1>4, <1>5, <1>6, <1>7, <1>8, <1>9 DEF Next, QuietAction

-----------------------------------------------------------------------------
(* When no command waits *)

NoWaits == \A cmd \in Commands : "wait" \notin Does[cmd]

(* Scans do not nest: a scan is the activation that runs. *)
OneScan == \A d \in Execs(frames) : d = Len(frames)

(* A job that was started is marked, or its command runs now. *)
Runs(tok) == InExec("run") /\ Top.cur = tok
OnceOK == \A i \in DOMAIN sq.recs :
              sq.recs[i].obj.ran > 0 =>
                  /\ sq.recs[i].obj.ran = 1
                  /\ sq.recs[i].del \/ Runs(sq.recs[i].obj.tok)

LEMMA LoopIsIdle ==
    ASSUME IInv, OneScan, Top.kind = "loop"
    PROVE  Execs(frames) = {} /\ sq.lock = 0 /\ NoFlags(sq)
<1>1. frames \in Seq(Frame)
  BY TopFacts
<1>2. Execs(frames) = {}
  BY DEF OneScan, Execs, Top, Depth
<1> QED BY <1>2, FS_EmptySet DEF IInv, QueueOK

LEMMA ScanIsOnly ==
    ASSUME IInv, OneScan, Top.kind = "exec"
    PROVE  Execs(frames) = {Len(frames)} /\ sq.lock = 1
<1>1. frames \in Seq(Frame) /\ Depth \in DOMAIN frames
  BY TopFacts
<1>2. Execs(frames) = {Len(frames)}
  BY <1>1 DEF OneScan, Execs, Top, Depth
<1>3. Cardinality({Len(frames)}) = 1
  BY FS_Singleton
<1> QED BY <1>2, <1>3 DEF IInv, QueueOK

LEMMA QuietNoWait ==
    ASSUME IInv, NoWaits, QuietAction
    PROVE  ScansStay /\ (Top.kind = "loop" \/ frames' = frames)
BY QuietScans DEF NoWaits

LEMMA OneScanStep ==
    ASSUME IInv, NoWaits, OneScan, [Next]_vars PROVE OneScan'
<1>1. CASE UserSchedules
  BY <1>1, ScheduleAdds DEF OneScan
<1>2. CASE UserDeschedules
  BY <1>2 DEF UserDeschedules, DescheduleCmd, OneScan
<1>3. CASE StartJob
  <2>1. Execs(frames') = Execs(frames) /\ Len(frames') = Len(frames)
    BY <1>3, StartRecs
  <2> QED BY <2>1 DEF OneScan
<1>4. CASE FinishJob
  <2>1. Execs(frames') = Execs(frames) /\ Len(frames') = Len(frames)
    BY <1>4, FinishRecs
  <2> QED BY <2>1 DEF OneScan
<1>5. CASE ReturnFromExecute
  <2>1. frames' = Callers /\ Depth > 1 /\ Top.kind = "exec"
    BY <1>5, TopFacts DEF ReturnFromExecute, InExec
  <2>2. Popped(frames', frames) /\ Execs(frames) = {Len(frames)}
    BY <2>1, PoppedScans, ScanIsOnly
  <2> QED BY <2>1, <2>2 DEF Popped, OneScan, Top, Depth
<1>6. CASE QuietAction
  <2>1. ScansStay /\ (Top.kind = "loop" \/ frames' = frames)
    BY <1>6, QuietNoWait
  <2>2. CASE Top.kind = "loop"
    BY <2>1, <2>2, LoopIsIdle DEF ScansStay, OneScan
  <2>3. CASE frames' = frames
    BY <2>3 DEF OneScan
  <2> QED BY <2>1, <2>2, <2>3
<1> QED BY <1>1, <1>2, <1>3, <1>4, <1>5, <1>6 DEF Next, QuietAction

LEMMA OneScanInit == Init => OneScan
<1> SUFFICES ASSUME Init PROVE OneScan
  OBVIOUS
<1>1. IInv /\ sq.lock = 0
  BY InitInv DEF Init, FQueueInit
<1> QED BY <1>1, IdleHistory DEF OneScan

LEMMA OnceStep ==
    ASSUME IInv, IInv', NoWaits, OneScan, Addressed, OnceOK, [Next]_vars
    PROVE  OnceOK'
<1> DEFINE q == sq.recs
           r == sq'.recs
<1>0. /\ sq \in QueueOf(Job) /\ sq.lock \in Nat /\ sq' \in QueueOf(Job)
      /\ \A i \in DOMAIN q : q[i].obj \in Job
  <2>1. sq \in QueueOf(Job) /\ sq.lock \in Nat /\ sq' \in QueueOf(Job)
    BY DEF IInv, QueueOK, QueueOf
  <2> QED BY <2>1, QueueDomain
<1>1. CASE UserSchedules
  <2>1. PICK job : Comes(job) /\ sq' = Insert(sq, job) /\ job.ran = 0
                   /\ UNCHANGED frames
    BY <1>1, ScheduleAdds
  <2>2. job \in Job /\ q \in Seq(RecOf(Job))
    BY <1>0, <2>1, QueueDomain DEF Comes
  <2>3. PICK p : Inserted(r, q, p, job)
    BY <1>0, <2>1, <2>2, InsertRecs
  <2>4. \A k \in DOMAIN r : r[k].obj = job \/ \E i \in DOMAIN q : r[k] = q[i]
    BY <2>2, <2>3, InsertedFrom
  <2>5. \A tok : Runs(tok)' <=> Runs(tok)
    BY <2>1 DEF Runs, InExec, Top, Depth
  <2> QED BY <2>1, <2>4, <2>5 DEF OnceOK
<1>2. CASE UserDeschedules
  <2>1. PICK given \in GivenIdArgs : DescheduleCmd(given)
    BY <1>2 DEF UserDeschedules
  <2>2. \A tok : Runs(tok)' <=> Runs(tok)
    BY <2>1 DEF DescheduleCmd, Runs, InExec, Top, Depth
  <2>3. CASE sq.lock > 0
    <3>1. /\ DOMAIN r = DOMAIN q
          /\ \A i \in DOMAIN q : /\ SameJob(r[i].obj, q[i].obj)
                                 /\ r[i].obj.ran = q[i].obj.ran
                                 /\ q[i].del => r[i].del
      BY <2>1, <2>3, DescheduleRecs
    <3> QED BY <2>2, <3>1 DEF OnceOK, SameJob
  <2>4. CASE sq.lock = 0
    <3>1. PICK e : Follows(e, r, q) /\ \A k \in DOMAIN r : r[k].obj = q[e[k]].obj
      BY <2>1, <2>4, DescheduleRecs
    <3>2. \A k \in DOMAIN r : e[k] \in DOMAIN q /\ ~q[e[k]].del
      BY <2>4, <3>1 DEF Follows, Embeds, IInv, QueueOK, NoFlags
    <3> QED BY <2>2, <3>1, <3>2 DEF OnceOK
  <2> QED BY <1>0, <2>3, <2>4
<1>3. CASE StartJob
  <2> DEFINE i == NextDue
  <2>1. /\ i \in DOMAIN q /\ ~Skipped(q[i]) /\ Touched(r, q, i)
        /\ r[i].obj.ran = IF q[i].obj.ran < 2 THEN q[i].obj.ran + 1
                          ELSE q[i].obj.ran
        /\ InExec("scan") /\ Len(frames') = Len(frames)
        /\ frames'[Depth].kind = "exec"
        /\ frames'[Depth].pc = "run" /\ frames'[Depth].cur = q[i].obj.tok
    BY <1>3, StartRecs
  <2> HIDE DEF i
  <2>2. \A j \in DOMAIN q : q[j].obj.ran > 0 => q[j].del
    BY <2>1 DEF OnceOK, Runs, InExec
  <2>3. q[i].obj.ran \in 0 .. 2
    BY <1>0, <2>1 DEF Job
  <2>4. r[i].obj.ran = 1
    BY <2>1, <2>2, <2>3 DEF Skipped
  <2>5. ASSUME NEW tok, tok = q[i].obj.tok PROVE Runs(tok)'
    BY <2>1, <2>5 DEF Runs, InExec, Top, Depth
  <2>8. i \in DOMAIN r /\ sq'.recs[i].obj.tok = q[i].obj.tok /\ sq'.recs[i].obj.ran = 1
    BY <2>1, <2>4 DEF Touched, SameJob
  <2>6. ASSUME NEW j \in DOMAIN r, j # i, r[j].obj.ran > 0
        PROVE  r[j].obj.ran = 1 /\ r[j].del
    <3>1. j \in DOMAIN q /\ r[j] = q[j]
      BY <2>1, <2>6 DEF Touched
    <3> QED BY <2>2, <2>6, <3>1 DEF OnceOK
  <2>7. ASSUME NEW j \in DOMAIN sq'.recs, sq'.recs[j].obj.ran > 0
        PROVE  /\ sq'.recs[j].obj.ran = 1
               /\ \/ sq'.recs[j].del
                  \/ \A tok : tok = sq'.recs[j].obj.tok => Runs(tok)'
    BY <2>5, <2>8, <2>6, <2>7
  <2> QED BY <2>7 DEF OnceOK
<1>4. CASE FinishJob
  <2> DEFINE i == IndexOf(Top.cur)
             copy == CopyOf(q[i].obj)
  <2>1. /\ i \in DOMAIN q /\ q[i].obj.tok = Top.cur
        /\ RunningJob = q[i].obj /\ CopyOf(RunningJob) \in Job
        /\ \E m \in QueueOf(Job) :
              /\ Touched(m.recs, q, i) /\ m.recs[i].del
              /\ m.recs[i].obj.ran = q[i].obj.ran
              /\ sq' = IF q[i].obj.period > 0 THEN Insert(m, copy) ELSE m
    BY <1>4, FinishRecs
  <2>2. PICK m \in QueueOf(Job) :
              /\ Touched(m.recs, q, i) /\ m.recs[i].del
              /\ m.recs[i].obj.ran = q[i].obj.ran
              /\ sq' = IF q[i].obj.period > 0 THEN Insert(m, copy) ELSE m
    BY <2>1
  <2> HIDE DEF i
  <2>3. ASSUME NEW j \in DOMAIN m.recs, m.recs[j].obj.ran > 0
        PROVE  m.recs[j].obj.ran = 1 /\ m.recs[j].del
    <3>1. CASE j = i
      BY <2>1, <2>2, <2>3, <3>1 DEF OnceOK
    <3>2. CASE j # i
      <4>1. j \in DOMAIN q /\ m.recs[j] = q[j]
        BY <2>2, <3>2 DEF Touched
      <4>2. q[j].obj.tok # Top.cur
        BY <2>1, <3>2, <4>1 DEF Addressed, Distinct
      <4> QED BY <2>3, <4>1, <4>2 DEF OnceOK, Runs
    <3> QED BY <3>1, <3>2
  <2>4. CASE q[i].obj.period > 0
    <3>1. copy \in Job /\ copy.ran = 0
      BY <2>1, <2>4, CopyComes
    <3> HIDE DEF copy
    <3>2. m.recs \in Seq(RecOf(Job)) /\ sq' = Insert(m, copy)
      BY <2>2, <2>4, QueueDomain
    <3>3. PICK p : Inserted(r, m.recs, p, copy)
      BY <3>1, <3>2, InsertRecs
    <3>4. \A k \in DOMAIN r : r[k].obj = copy \/ \E j \in DOMAIN m.recs : r[k] = m.recs[j]
      BY <3>2, <3>3, InsertedFrom
    <3> QED BY <2>3, <3>1, <3>4 DEF OnceOK
  <2>5. CASE ~(q[i].obj.period > 0)
    BY <2>2, <2>3, <2>5 DEF OnceOK
  <2> QED BY <2>4, <2>5
<1>5. CASE ReturnFromExecute
  <2>1. InExec("scan") /\ sq.lock = 1
    BY <1>5, ScanIsOnly DEF ReturnFromExecute, InExec
  <2>2. PICK e : Cleaned(e, r, q)
    BY <1>5, <2>1, ReturnRecs
  <2>3. ASSUME NEW k \in DOMAIN r PROVE ~(r[k].obj.ran > 0)
    <3>1. e[k] \in DOMAIN q /\ r[k].obj = q[e[k]].obj /\ ~q[e[k]].del
      BY <2>2 DEF Cleaned, Embeds
    <3> QED BY <2>1, <3>1 DEF OnceOK, Runs, InExec
  <2> QED BY <2>3 DEF OnceOK
<1>6. CASE QuietAction
  <2>1. r = q /\ (Top.kind = "loop" \/ frames' = frames)
    BY <1>6, QuietRecs, QuietNoWait
  <2>2. CASE Top.kind = "loop"
    <3>1. \A i \in DOMAIN q : ~(q[i].obj.ran > 0)
      BY <2>2, LoopIsIdle DEF NoFlags, OnceOK, Runs, InExec
    <3> QED BY <2>1, <3>1 DEF OnceOK
  <2>3. CASE frames' = frames
    <3>1. \A tok : Runs(tok)' <=> Runs(tok)
      BY <2>3 DEF Runs, InExec, Top, Depth
    <3> QED BY <2>1, <3>1 DEF OnceOK
  <2> QED BY <2>1, <2>2, <2>3
<1> QED BY <1>1, <1>2, <1>3, <1>4, <1>5, <1>6 DEF Next, QuietAction

(* When no command deschedules either: what Deschedule names goes at once. *)
CommandsOnlySchedule == \A cmd \in Commands : Does[cmd] \subseteq {"schedule"}

NoneStopped == \A i \in DOMAIN sq.recs : ~sq.recs[i].obj.stopped

LEMMA StoppedStep ==
    ASSUME IInv, IInv', CommandsOnlySchedule, OneScan, NoneStopped, [Next]_vars
    PROVE  NoneStopped'
<1> DEFINE q == sq.recs
           r == sq'.recs
<1>0. sq \in QueueOf(Job) /\ q \in Seq(RecOf(Job)) /\ sq' \in QueueOf(Job)
  <2>1. sq \in QueueOf(Job) /\ sq' \in QueueOf(Job)
    BY DEF IInv, QueueOK
  <2> QED BY <2>1, QueueDomain
<1>1. CASE UserSchedules
  <2>1. PICK job : Comes(job) /\ sq' = Insert(sq, job) /\ job.stopped = FALSE
    BY <1>1, ScheduleAdds
  <2>2. PICK p : Inserted(r, q, p, job)
    BY <1>0, <2>1, InsertRecs DEF Comes
  <2>3. \A k \in DOMAIN r : r[k].obj = job \/ \E i \in DOMAIN q : r[k] = q[i]
    BY <1>0, <2>2, InsertedFrom
  <2> QED BY <2>1, <2>3 DEF NoneStopped
<1>2. CASE UserDeschedules
  <2>1. PICK given \in GivenIdArgs : DescheduleCmd(given)
    BY <1>2 DEF UserDeschedules
  <2>2. InLoop("dispatch")
    <3>1. CanDo("deschedule")
      BY <2>1 DEF DescheduleCmd
    <3>2. Top.cmd \in Commands \cup {NoCommand}
      BY TopFacts DEF Frame
    <3> QED BY <3>1, <3>2 DEF CanDo, CommandsOnlySchedule
  <2>3. sq.lock = 0
    BY <2>2, LoopIsIdle DEF InLoop
  <2>4. PICK e : Follows(e, r, q) /\ \A k \in DOMAIN r : r[k].obj = q[e[k]].obj
    BY <2>1, <2>3, DescheduleRecs
  <2> QED BY <2>4 DEF NoneStopped, Follows, Embeds
<1>3. CASE StartJob
  <2>1. Touched(r, q, NextDue)
    BY <1>3, StartRecs
  <2> HIDE DEF r
  <2>2. \A i \in DOMAIN r : i \in DOMAIN q /\ (r[i].obj.stopped <=> q[i].obj.stopped)
    BY <2>1 DEF Touched
  <2> QED BY <2>2 DEF NoneStopped, r
<1>4. CASE FinishJob
  <2> DEFINE i == IndexOf(Top.cur)
             copy == CopyOf(q[i].obj)
  <2>1. /\ i \in DOMAIN q /\ RunningJob = q[i].obj /\ CopyOf(RunningJob) \in Job
        /\ \E m \in QueueOf(Job) :
              /\ Touched(m.recs, q, i)
              /\ sq' = IF q[i].obj.period > 0 THEN Insert(m, copy) ELSE m
    BY <1>4, FinishRecs
  <2>2. PICK m \in QueueOf(Job) :
              /\ Touched(m.recs, q, i)
              /\ sq' = IF q[i].obj.period > 0 THEN Insert(m, copy) ELSE m
    BY <2>1
  <2> HIDE DEF i
  <2>3. \A j \in DOMAIN m.recs : ~m.recs[j].obj.stopped
    BY <2>2 DEF NoneStopped, Touched
  <2>4. CASE q[i].obj.period > 0
    <3>1. copy \in Job /\ ~copy.stopped
      BY <2>1, <2>4, CopyComes DEF NoneStopped
    <3> HIDE DEF copy
    <3>2. m.recs \in Seq(RecOf(Job)) /\ sq' = Insert(m, copy)
      BY <2>2, <2>4, QueueDomain
    <3>3. PICK p : Inserted(r, m.recs, p, copy)
      BY <3>1, <3>2, InsertRecs
    <3>4. \A k \in DOMAIN r : r[k].obj = copy \/ \E j \in DOMAIN m.recs : r[k] = m.recs[j]
      BY <3>2, <3>3, InsertedFrom
    <3> QED BY <2>3, <3>1, <3>4 DEF NoneStopped
  <2>5. CASE ~(q[i].obj.period > 0)
    BY <2>2, <2>3, <2>5 DEF NoneStopped
  <2> QED BY <2>4, <2>5
<1>5. CASE ReturnFromExecute
  <2>1. sq.lock = 1
    BY <1>5, ScanIsOnly DEF ReturnFromExecute, InExec
  <2>2. PICK e : Cleaned(e, r, q)
    BY <1>5, <2>1, ReturnRecs
  <2> QED BY <2>2 DEF Cleaned, Embeds, NoneStopped
<1>6. CASE QuietAction
  BY <1>6, QuietRecs DEF NoneStopped
<1> QED BY <1>1, <1>2, <1>3, <1>4, <1>5, <1>6 DEF Next, QuietAction

-----------------------------------------------------------------------------
(* Theorems *)

(* The variables of the schedule queue and the event loop keep their types, for
   queues and stacks of any size. *)
THEOREM TypesHold == Spec => []TypeOK
<1>1. IInv => TypeOK
  BY InvImplies
<1> QED BY <1>1, InitInv, NextInv, PTL DEF Spec

(* However deep Wait nests scans of the schedule queue in one another, no record
   that fqueue_remove_or_operate_all stands on is freed under it. *)
THEOREM CursorSafe == Spec => []CursorAlive
<1>1. IInv => CursorAlive
  BY InvImplies
<1> QED BY <1>1, InitInv, NextInv, PTL DEF Spec

(* The lock of the queue is the number of scans that are active, and outside all
   scans the queue is clean. *)
THEOREM LockIsScans == Spec => []LockCountsScans
<1>1. IInv => LockCountsScans
  BY InvImplies
<1> QED BY <1>1, InitInv, NextInv, PTL DEF Spec

(* If delays are small against the range of the type Time, as the server's time
   stamps of 32 bits are against its 64, the schedule queue stays sorted by the
   time of execution: fqueue_add_inside puts every job, and every copy of a
   periodic one, in its place, and nothing else moves a record. *)
THEOREM SortedHolds == ASSUME TimesFit PROVE Spec => []Sorted
<1>1. Init => IInv /\ Ordered
  BY InitInv, RecordsInit
<1>2. IInv /\ Ordered /\ [Next]_vars => (IInv /\ Ordered)'
  BY NextInv, OrderedStep
<1>3. IInv /\ Ordered => Sorted
  <2> SUFFICES ASSUME IInv, Ordered PROVE Sorted
    OBVIOUS
  <2>1. sq \in QueueOf(Job)
    BY DEF IInv, QueueOK
  <2>2. \A i \in DOMAIN sq.recs : /\ sq.recs[i].obj.time \in Nat
                                 /\ sq.recs[i].obj.time < TimeMod \div 2
    <3>1. \A i \in DOMAIN sq.recs : sq.recs[i].obj \in Job
      BY <2>1, QueueDomain
    <3> QED BY <3>1 DEF Ordered, InOrder, Job
  <2> SUFFICES ASSUME NEW i \in DOMAIN sq.recs, NEW j \in DOMAIN sq.recs, i < j
               PROVE  NotBefore(sq.recs[j].obj.time, sq.recs[i].obj.time)
    BY DEF Sorted
  <2>3. sq.recs[i].obj.time <= sq.recs[j].obj.time
    BY DEF Ordered, InOrder
  <2> QED BY <2>2, <2>3, NotBeforeOrder
<1> QED BY <1>1, <1>2, <1>3, PTL DEF Spec

(* A job leaves the schedule queue only after its command was started or after
   a Deschedule named it, whatever the commands do in the middle of a scan. *)
THEOREM NoJobLostHolds == Spec => NoJobLost
<1> DEFINE Gone == \A tok \in TokensOf(sq) \ TokensOf(sq') :
                       \/ Held(tok).obj.ran > 0 \/ Held(tok).obj.stopped
                       \/ \E given \in GivenIdArgs :
                             /\ DescheduleCmd(given)
                             /\ Held(tok).obj.id = GivenOr(given, lastId)
<1>1. Init => IInv /\ HistoryOK
  BY InitInv, HistoryInit
<1>2. IInv /\ HistoryOK /\ [Next]_vars => (IInv /\ HistoryOK)'
  BY NextInv, AddressedStep, HistoryStep DEF HistoryOK
<1>3. IInv /\ IInv' /\ HistoryOK /\ [Next]_vars => [Gone]_vars
  BY LostStep DEF Lost
<1> QED BY <1>1, <1>2, <1>3, PTL DEF Spec, NoJobLost

(* If no scheduled command runs Wait, a job is executed once: the marks that
   fqueue_operate leaves keep the scan from coming back to a record. *)
THEOREM RunsOnceHolds == ASSUME NoWaits PROVE Spec => []RunsOnce
<1>1. Init => IInv /\ Addressed /\ OneScan /\ OnceOK
  BY InitInv, RecordsInit, OneScanInit DEF Init, FQueueInit, OnceOK
<1>2. IInv /\ Addressed /\ OneScan /\ OnceOK /\ [Next]_vars
          => (IInv /\ Addressed /\ OneScan /\ OnceOK)'
  BY NextInv, AddressedStep, OneScanStep, OnceStep
<1>3. IInv /\ OnceOK => RunsOnce
  <2> SUFFICES ASSUME IInv, OnceOK, NEW i \in DOMAIN sq.recs
               PROVE  sq.recs[i].obj.ran <= 1
    BY DEF RunsOnce, JobsOf
  <2>1. sq.recs[i].obj \in Job
    BY QueueDomain DEF IInv, QueueOK
  <2> QED BY <2>1 DEF OnceOK, Job
<1> QED BY <1>1, <1>2, <1>3, PTL DEF Spec

(* If scheduled commands neither wait nor deschedule, what a Deschedule names
   is out of the queue at once, periodic jobs too, and is not started again. *)
THEOREM DescheduledStopsHolds ==
    ASSUME CommandsOnlySchedule PROVE Spec => DescheduledStops
<1> DEFINE Stops == \A tok \in TokensOf(sq) :
                        Starts(tok) /\ Held(tok).obj.stopped
                            => Held(tok).obj.ran > 0 /\ Held(tok).obj.period = 0
<1>0. NoWaits
  BY DEF NoWaits, CommandsOnlySchedule
<1>1. Init => IInv /\ OneScan /\ NoneStopped
  BY InitInv, OneScanInit DEF Init, FQueueInit, NoneStopped
<1>2. IInv /\ OneScan /\ NoneStopped /\ [Next]_vars
          => (IInv /\ OneScan /\ NoneStopped)'
  BY <1>0, NextInv, OneScanStep, StoppedStep
<1>3. NoneStopped => Stops
  BY HeldType DEF NoneStopped
<1> QED BY <1>1, <1>2, <1>3, PTL DEF Spec, DescheduledStops
=============================================================================
