------------------------------- MODULE FQueue -------------------------------
(***************************************************************************)
(* The lockable queue of libs/fqueue.c, as operators on one queue value:   *)
(* what schedule.c uses of it.  The functions that add or remove at one    *)
(* end and count the records are left out; only modules' messages and      *)
(* commands use them, and these queues are sequences in ModuleLink.        *)
(*                                                                         *)
(* A queue is [recs |-> sequence of records, lock |-> lock_level,          *)
(* dirty |-> flags.is_dirty].  A record is [obj |-> payload,               *)
(* del |-> is_scheduled_for_deletion, new |-> is_just_created].  While the *)
(* queue is locked, because a callback runs on one of its records, records *)
(* are only marked for deletion, and new ones are marked as just created;  *)
(* the unlock that ends the outermost operation cleans up.                 *)
(***************************************************************************)
EXTENDS Naturals, Sequences, FiniteSets

RecOf(Obj)   == [obj : Obj, del : BOOLEAN, new : BOOLEAN]
QueueOf(Obj) == [recs : Seq(RecOf(Obj)), lock : Nat, dirty : BOOLEAN]

(* FQUEUE_INIT, fqueue_init *)
FQueueInit == [recs |-> <<>>, lock |-> 0, dirty |-> FALSE]

IsEmpty(fq) == fq.recs = <<>>

(* the records of a queue that are not marked for deletion, in their order:
   the k-th of them is the one that has k of them up to and with itself *)
Rank(q, i) == Cardinality({j \in 1 .. i : ~q[j].del})
Kept(q) == [k \in 1 .. Rank(q, Len(q)) |->
               q[CHOOSE i \in DOMAIN q : ~q[i].del /\ Rank(q, i) = k]]

(* slips: cleanup drops the new records too, or does not make them permanent *)
CleanupAll(fq) == [fq EXCEPT !.recs = SelectSeq(@, LAMBDA r : ~r.del /\ ~r.new)]
CleanupNoReset(fq) == [fq EXCEPT !.recs = Kept(@)]

(* fqueue_cleanup_queue: drop the marked records, make the others permanent *)
CleanupQueue(fq) ==
    [fq EXCEPT !.recs = [k \in DOMAIN Kept(@) |-> [Kept(@)[k] EXCEPT !.new = FALSE]]]

(* fqueue_lock_queue *)
LockQueue(fq) == [fq EXCEPT !.lock = @ + 1]

(* a slip: clean up at every unlock *)
UnlockEager(fq) == LET clean == CleanupQueue(fq)
                   IN  IF fq.lock = 0 THEN fq ELSE [clean EXCEPT !.lock = @ - 1]

(* fqueue_unlock_queue: level 0 is left alone, the step 1 -> 0 cleans up *)
UnlockQueue(fq) ==
    LET clean == IF fq.lock = 1 /\ fq.dirty THEN CleanupQueue(fq) ELSE fq
    IN  IF fq.lock = 0 THEN fq ELSE [clean EXCEPT !.lock = @ - 1]

(* A record as the fqueue_add functions create it *)
NewRecord(fq, obj) == [obj |-> obj, del |-> FALSE, new |-> fq.lock > 0]

(* the sequence q with n put in behind its first p elements *)
PutIn(q, p, n) == SubSeq(q, 1, p) \o <<n>> \o SubSeq(q, p + 1, Len(q))

InsertAfter(fq, p, obj) ==
    [fq EXCEPT !.recs = PutIn(@, p, NewRecord(fq, obj)),
               !.dirty = @ \/ fq.lock > 0]

(* fqueue_add_inside: in front of the first of the later records, which are
   those the object sorts before.  Records marked for deletion take part. *)
AddInside(fq, obj, later) ==
    InsertAfter(fq, IF later = {} THEN Len(fq.recs)
                    ELSE (CHOOSE i \in later : \A j \in later : i <= j) - 1, obj)

(* fqueue_get_first: the position of the first record not marked for
   deletion, 0 if there is none.  A just created record is returned. *)
FirstIndex(fq) ==
    LET live == {i \in DOMAIN fq.recs : ~fq.recs[i].del}
    IN  IF live = {} THEN 0 ELSE CHOOSE i \in live : \A j \in live : i <= j

ForgetDelete(fq, i) == [fq EXCEPT !.dirty = TRUE]   \* the slip of not marking

(* The tail of fqueue_operate, after operate_func has returned *)
MarkDeleted(fq, i) == [fq EXCEPT !.recs[i].del = TRUE, !.dirty = TRUE]

(* The test by which fqueue_remove_or_operate_all skips a record *)
Skipped(rec) == rec.new \/ rec.del

(* the slip of stopping at the first hit *)
RemoveFirst(fq, objs) ==
    LET hits == {i \in DOMAIN fq.recs : ~Skipped(fq.recs[i]) /\ fq.recs[i].obj \in objs}
    IN  IF hits = {} THEN fq
        ELSE UnlockQueue(MarkDeleted(LockQueue(fq),
                                     CHOOSE i \in hits : \A j \in hits : i <= j))

(* fqueue_remove_or_operate_all without operate_func; objs are the objects
   that check_func accepts.  No callback runs, so the lock, the scan and the
   unlock are one step. *)
RemoveAll(fq, objs) ==
    LET hits   == {i \in DOMAIN fq.recs : /\ ~Skipped(fq.recs[i])
                                          /\ fq.recs[i].obj \in objs}
        marked == [recs  |-> [i \in DOMAIN fq.recs |->
                                IF i \in hits THEN [fq.recs[i] EXCEPT !.del = TRUE]
                                ELSE fq.recs[i]],
                   lock  |-> fq.lock + 1,
                   dirty |-> fq.dirty \/ hits # {}]
    IN  IF IsEmpty(fq) THEN fq ELSE UnlockQueue(marked)
=============================================================================
