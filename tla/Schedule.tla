------------------------------ MODULE Schedule ------------------------------
(***************************************************************************)
(* The scheduled commands of fvwm/schedule.c (Schedule, Deschedule) and    *)
(* the event loop that runs them, My_XNextEvent of fvwm/events.c.          *)
(*                                                                         *)
(* fvwm has one thread.  What interleaves here is re-entrancy: a scheduled *)
(* command runs in the middle of a scan of the schedule queue, and may     *)
(* itself schedule and deschedule jobs or run the Wait command, which      *)
(* calls the event loop again, which may scan the queue again.  The C      *)
(* stack of these activations is the variable frames, oldest first:        *)
(*   - a "loop" frame is an activation of My_XNextEvent and of its caller  *)
(*     (HandleEvents at the bottom, CMD_Wait above),                       *)
(*   - an "exec" frame is an activation of squeue_execute.                 *)
(***************************************************************************)
EXTENDS Integers, Sequences, FiniteSets, FQueue

CONSTANTS
    Commands,    \* what can be scheduled
    Does,        \* [Commands -> SUBSET {"schedule", "deschedule", "wait"}]
    NoCommand,   \* obj->command == NULL
    Delays,      \* delays of Schedule, in milliseconds
    Periodic,    \* subset of BOOLEAN: may Schedule be given "Periodic"?
    GivenIds,    \* command ids given explicitly to Schedule and Deschedule
    MinId,       \* the least value of an int
    ServerMod,   \* 2^32: a server time stamp wraps around there
    TimeMod,     \* 2^64: the range of the type Time, an unsigned long
    Skew,        \* CLOCK_SKEW_MS
    MaxTime,     \* bound: the clock stops here
    MaxEvents,   \* bound: events that arrive
    MaxJobs,     \* bound: jobs in the queue when one more is scheduled
    MaxDepth     \* bound: activations on the stack

ASSUME ScheduleAssumption ==
    /\ NoCommand \notin Commands
    /\ Does \in [Commands -> SUBSET {"schedule", "deschedule", "wait"}]
    /\ Delays \subseteq Nat /\ Periodic \subseteq BOOLEAN
    /\ GivenIds \subseteq Int /\ MinId \in Int /\ MinId < 0
    /\ ServerMod \in Nat /\ TimeMod \in Nat
    /\ 0 < ServerMod /\ ServerMod <= TimeMod /\ MaxTime <= ServerMod

VARIABLES
    sq,        \* the schedule queue
    frames,    \* the C stack of activations
    lastId,    \* last_schedule_id
    nextId,    \* next_schedule_id
    evtime,    \* fev_last_timestamp
    clock,     \* the time stamp the server would issue now
    events     \* number of events that arrived (bounded)

vars == <<sq, frames, lastId, nextId, evtime, clock, events>>

-----------------------------------------------------------------------------
(* Time *)

(* cmp_times(t1, t2) >= 0: the sign of the difference as a signed long *)
NotBefore(t1, t2) == (t1 - t2) % TimeMod < TimeMod \div 2

TimePlus(t, ms) == (t + ms) % TimeMod

(* the conversion of an unsigned long to an int *)
AsInt(n) == LET low == n % ServerMod
            IN  IF low < ServerMod \div 2 THEN low ELSE low - ServerMod

(* fev_update_last_timestamp: time stamps that run backwards by less than
   the skew are ignored *)
Stamped(t) == IF t > evtime \/ (evtime - t) > Skew THEN t ELSE evtime

-----------------------------------------------------------------------------
(* Jobs.  ran counts the starts of the command, stopped records that a
   Deschedule named the job while it was in the queue: both are history and
   no guard reads them. *)

JobsOf(fq)  == {fq.recs[i].obj : i \in DOMAIN fq.recs}
TokensOf(fq) == {job.tok : job \in JobsOf(fq)}

(* what malloc returns: an address that is not in use *)
FreshToken(fq) == CHOOSE t \in 1 .. Len(fq.recs) + 1 : t \notin TokensOf(fq)

IndexOf(tok) == CHOOSE i \in DOMAIN sq.recs : sq.recs[i].obj.tok = tok

EarlierJob(a, b) == ~NotBefore(a.time, b.time)
AppendOnly(fq, job) == InsertAfter(fq, Len(fq.recs), job)  \* slip: no sorting
Insert(fq, job)  ==
    AddInside(fq, job, {i \in DOMAIN fq.recs : EarlierJob(job, fq.recs[i].obj)})

(* squeue_get_next_ms *)
NextMs(fq, now) ==
    LET i == FirstIndex(fq)
    IN  IF i = 0 THEN -1
        ELSE IF NotBefore(now, fq.recs[i].obj.time) THEN 0
        ELSE AsInt(fq.recs[i].obj.time - now)

-----------------------------------------------------------------------------
(* The stack *)

Depth   == Len(frames)
Top     == frames[Depth]
Callers == SubSeq(frames, 1, Depth - 1)

Forever  == -1
LoopFrame(pc, timer) == [kind |-> "loop", pc |-> pc, timer |-> timer,
                         now |-> 0, cur |-> 0, cmd |-> NoCommand]
ExecFrame(now)       == [kind |-> "exec", pc |-> "scan", timer |-> Forever,
                         now |-> now, cur |-> 0, cmd |-> NoCommand]

InLoop(pc) == Top.kind = "loop" /\ Top.pc = pc
InExec(pc) == Top.kind = "exec" /\ Top.pc = pc
GoTo(pc)   == frames' = [frames EXCEPT ![Depth].pc = pc]

RunningJob == sq.recs[IndexOf(Top.cur)].obj

(* A command can be executed by the dispatch of an event, or by the running
   job if its command does such a thing. *)
CanDo(what) == \/ InLoop("dispatch")
               \/ /\ InExec("run")
                  /\ Top.cmd # NoCommand
                  /\ what \in Does[Top.cmd]

(* bound: in the second half of the time no events arrive and commands take no
   time, so that what is waited for happens before the clock stops.  A clock
   that wraps around never stops. *)
Late == MaxTime < ServerMod /\ clock >= MaxTime \div 2

Init == /\ sq = FQueueInit
        /\ frames = <<LoopFrame("poll", Forever)>>
        /\ lastId = 0 /\ nextId = -1
        /\ evtime = 0 /\ clock = 0 /\ events = 0

-----------------------------------------------------------------------------
(* Schedule and Deschedule *)

(* the optional command id of both commands, a set of at most one id *)
GivenIdArgs == {{}} \cup {{i} : i \in GivenIds}
GivenOr(given, default) == IF given = {} THEN default
                           ELSE CHOOSE i \in given : TRUE

(* the slip of forgetting the wrap around *)
NoWrap(id) == id - 1
NextIdAfter(id) == IF id = MinId THEN -1 ELSE id - 1

(* CMD_Schedule and schedule().  An id that is not given is taken from
   next_schedule_id, which counts down and restarts at -1. *)
ScheduleCmd(cmd, ms, periodic, given) ==
    LET id  == GivenOr(given, nextId)
        job == [tok |-> FreshToken(sq), id |-> id, cmd |-> cmd,
                time |-> TimePlus(evtime, ms),
                period |-> IF periodic THEN ms ELSE 0,
                ran |-> 0, stopped |-> FALSE]
    IN  /\ CanDo("schedule")
        /\ Len(sq.recs) < MaxJobs
        /\ sq' = Insert(sq, job)
        /\ lastId' = id
        /\ nextId' = IF given = {} THEN NextIdAfter(nextId) ELSE nextId
        /\ UNCHANGED <<frames, evtime, clock, events>>

(* the history of a Deschedule: the jobs it names that have not ended *)
NoteStopped(fq, id) ==
    [fq EXCEPT !.recs = [i \in DOMAIN fq.recs |->
        IF fq.recs[i].obj.id = id THEN [fq.recs[i] EXCEPT !.obj.stopped = TRUE]
        ELSE fq.recs[i]]]

(* CMD_Deschedule and deschedule() *)
DescheduleCmd(given) ==
    LET id == GivenOr(given, lastId)
        noted == NoteStopped(sq, id)
    IN  /\ CanDo("deschedule")
        /\ sq' = RemoveAll(noted, {job \in JobsOf(noted) : job.id = id})
        /\ UNCHANGED <<frames, lastId, nextId, evtime, clock, events>>

-----------------------------------------------------------------------------
(* squeue_execute *)

(* The call, from a loop frame that goes on at pc afterwards.  It reads the
   server's time, which is an event with a time stamp. *)
CallExecute(pc) ==
    IF IsEmpty(sq)
    THEN GoTo(pc) /\ UNCHANGED <<sq, evtime>>
    ELSE /\ frames' = Append([frames EXCEPT ![Depth].pc = pc], ExecFrame(clock))
         /\ sq' = LockQueue(sq)
         /\ evtime' = Stamped(clock)

(* the records of the scan from the cursor on that are operated on *)
DueFrom(cur) ==
    LET p == IF cur = 0 THEN 0 ELSE IndexOf(cur)
    IN  {i \in DOMAIN sq.recs : /\ i > p
                                /\ ~Skipped(sq.recs[i])
                                /\ NotBefore(Top.now, sq.recs[i].obj.time)}

NextDue == CHOOSE i \in DueFrom(Top.cur) : \A j \in DueFrom(Top.cur) : i <= j

(* The scan goes on to the next due job and calls execute_obj_func, which
   starts the command. *)
StartJob ==
    /\ InExec("scan") /\ DueFrom(Top.cur) # {}
    /\ frames' = [frames EXCEPT ![Depth].cur = sq.recs[NextDue].obj.tok,
                                ![Depth].cmd = sq.recs[NextDue].obj.cmd,
                                ![Depth].pc  = "run"]
    /\ sq' = [sq EXCEPT !.recs[NextDue].obj.ran = IF @ < 2 THEN @ + 1 ELSE @]
    /\ UNCHANGED <<lastId, nextId, evtime, clock, events>>

CopyOf(job) == [job EXCEPT !.tok = FreshToken(sq), !.ran = 0,
                           !.time = TimePlus(evtime, job.period)]

(* The command has returned.  A periodic job puts a copy of itself into the
   queue that takes the command along; fqueue_operate then marks the record
   for deletion. *)
FinishJob ==
    LET i     == IndexOf(Top.cur)
        copy  == CopyOf(RunningJob)
        done  == MarkDeleted(sq, i)
        moved == [done EXCEPT !.recs[i].obj.cmd = NoCommand]
    IN  /\ InExec("run")
        /\ sq' = IF RunningJob.period > 0 THEN Insert(moved, copy) ELSE done
        /\ GoTo("scan")
        /\ UNCHANGED <<lastId, nextId, evtime, clock, events>>

(* The scan has reached the end of the queue. *)
ReturnFromExecute ==
    /\ InExec("scan") /\ DueFrom(Top.cur) = {}
    /\ frames' = Callers
    /\ sq' = UnlockQueue(sq)
    /\ UNCHANGED <<lastId, nextId, evtime, clock, events>>

-----------------------------------------------------------------------------
(* The event loop *)

Select(ms) == frames' = [frames EXCEPT
                 ![Depth] = LoopFrame("select", IF ms < 0 THEN Forever ELSE ms)]

(* No X event is pending: look at the queue before select() *)
Poll ==
    /\ InLoop("poll")
    /\ IF NextMs(sq, evtime) = 0
       THEN CallExecute("recheck")
       ELSE Select(NextMs(sq, evtime)) /\ UNCHANGED <<sq, evtime>>
    /\ UNCHANGED <<lastId, nextId, clock, events>>

(* A job that is due now makes select() wait for one millisecond. *)
Recheck ==
    /\ InLoop("recheck")
    /\ Select(IF NextMs(sq, evtime) = 0 THEN 1 ELSE NextMs(sq, evtime))
    /\ UNCHANGED <<sq, lastId, nextId, evtime, clock, events>>

(* select() times out *)
Timeout ==
    /\ InLoop("select") /\ Top.timer = 0
    /\ CallExecute("poll")
    /\ UNCHANGED <<lastId, nextId, clock, events>>

(* An X event is pending before select(), or it or module input ends the
   select().  Some events carry a time stamp. *)
EventArrives ==
    /\ InLoop("poll") \/ InLoop("select")
    /\ events < MaxEvents /\ ~Late
    /\ events' = events + 1
    /\ evtime' \in {evtime, Stamped(clock)}
    /\ frames' = [frames EXCEPT ![Depth] = LoopFrame("dispatch", Forever)]
    /\ UNCHANGED <<sq, lastId, nextId, clock>>

(* The event has been dispatched; the loop goes on ... *)
DispatchDone ==
    /\ InLoop("dispatch")
    /\ GoTo("poll")
    /\ UNCHANGED <<sq, lastId, nextId, evtime, clock, events>>

(* ... or, if it belongs to CMD_Wait, ends because the event was waited for *)
WaitEnds ==
    /\ InLoop("dispatch") /\ Depth > 1
    /\ frames' = Callers
    /\ UNCHANGED <<sq, lastId, nextId, evtime, clock, events>>

(* CMD_Wait enters the event loop again *)
WaitBegins ==
    /\ CanDo("wait")
    /\ Depth + 2 <= MaxDepth
    /\ frames' = Append(frames, LoopFrame("poll", Forever))
    /\ UNCHANGED <<sq, lastId, nextId, evtime, clock, events>>

(* Time passes in select(), which returns in time, and while a command runs. *)
Tick ==
    /\ \/ InLoop("select") /\ Top.timer # 0
       \/ InExec("run") /\ Top.cmd # NoCommand /\ ~Late
    /\ clock < MaxTime
    /\ clock' = (clock + 1) % ServerMod
    /\ frames' = IF InLoop("select") /\ Top.timer > 0
                 THEN [frames EXCEPT ![Depth].timer = @ - 1] ELSE frames
    /\ UNCHANGED <<sq, lastId, nextId, evtime, events>>

UserSchedules ==
    \E cmd \in Commands, ms \in Delays, periodic \in Periodic,
       given \in GivenIdArgs :
        ScheduleCmd(cmd, ms, periodic, given)

UserDeschedules == \E given \in GivenIdArgs : DescheduleCmd(given)

Next == \/ UserSchedules \/ UserDeschedules
        \/ StartJob \/ FinishJob \/ ReturnFromExecute
        \/ Poll \/ Recheck \/ Timeout \/ EventArrives
        \/ DispatchDone \/ WaitEnds \/ WaitBegins
        \/ Tick

Spec == Init /\ [][Next]_vars
(* Commands end, scans go on, the loop goes round and time passes.  Events are
   not fair: My_XNextEvent looks at the schedule queue only when no X event is
   pending, and it is MaxEvents that lets them run out. *)
Fairness == /\ WF_vars(StartJob \/ FinishJob \/ ReturnFromExecute)
            /\ WF_vars(Poll \/ Recheck \/ Timeout \/ DispatchDone)
            /\ WF_vars(Tick)

FairSpec == Spec /\ Fairness

-----------------------------------------------------------------------------
(* Properties *)

Pcs == {"poll", "recheck", "select", "dispatch", "scan", "run"}
ExecFrames == {d \in DOMAIN frames : frames[d].kind = "exec"}

Job == [tok : Nat \ {0}, id : Int, cmd : Commands \cup {NoCommand},
        time : 0 .. TimeMod - 1, period : Nat, ran : 0 .. 2, stopped : BOOLEAN]
Frame == [kind : {"loop", "exec"}, pc : Pcs, timer : Nat \cup {Forever},
          now : 0 .. ServerMod, cur : Nat, cmd : Commands \cup {NoCommand}]

(* The types of the variables. *)
TypeOK ==
    /\ sq \in QueueOf(Job)
    /\ frames \in Seq(Frame)
    /\ lastId \in Int /\ nextId \in MinId .. -1
    /\ evtime \in 0 .. ServerMod /\ clock \in 0 .. ServerMod /\ events \in Nat

(* The record a scan stands on is still in the queue, however deep the scans
   that run inside its command: fqueue_remove_or_operate_all reads t->next of
   that record when the command has returned. *)
CursorAlive == \A d \in ExecFrames :
                   frames[d].cur # 0 => frames[d].cur \in TokensOf(sq)

(* Every activation of a scan holds one lock level, so cleanup waits for the
   outermost one, and outside all scans no record carries a flag. *)
LockCountsScans == /\ sq.lock = Cardinality(ExecFrames)
                   /\ sq.lock = 0 => \A i \in DOMAIN sq.recs :
                                        ~sq.recs[i].del /\ ~sq.recs[i].new

(* The queue is sorted by the time of execution, which squeue_get_next_ms
   relies on when it looks at the first job only. *)
Sorted == \A i, j \in DOMAIN sq.recs :
              i < j => NotBefore(sq.recs[j].obj.time, sq.recs[i].obj.time)

Starts(tok) == \E i \in DOMAIN sq'.recs :
                   /\ sq'.recs[i].obj.tok = tok
                   /\ \E j \in DOMAIN sq.recs :
                        /\ sq.recs[j].obj.tok = tok
                        /\ sq.recs[j].obj.ran < sq'.recs[i].obj.ran

Held(tok) == sq.recs[IndexOf(tok)]

(* A job leaves the queue only after its command was started or after a
   Deschedule named its id. *)
NoJobLost == [][\A tok \in TokensOf(sq) \ TokensOf(sq') :
                    \/ Held(tok).obj.ran > 0 \/ Held(tok).obj.stopped
                    \/ \E given \in GivenIdArgs :
                          /\ DescheduleCmd(given)
                          /\ Held(tok).obj.id = GivenOr(given, lastId)]_vars

(* fvwm3_manpage_source.adoc:3208, Deschedule: "Removes all commands that were
   scheduled with the id ... unless they were already executed."; line 3487:
   "Use the Deschedule command to stop periodic commands."  A job that a
   Deschedule named before its command was started is never started, and no
   periodic job is started again once it, or the job it is the copy of, was
   descheduled. *)
DescheduledStops ==
    [][\A tok \in TokensOf(sq) :
           Starts(tok) /\ Held(tok).obj.stopped
               => Held(tok).obj.ran > 0 /\ Held(tok).obj.period = 0]_vars

(* fvwm3_manpage_source.adoc:3454, Schedule: "The command is executed after
   about delay_ms milliseconds."  One job is one execution. *)
RunsOnce == \A job \in JobsOf(sq) : job.ran <= 1

(* Every job whose time comes before the clock stops is started or descheduled:
   scans, nested locks and the stale time stamp that select() is given delay it
   but no job is forgotten. *)
Waits(tok) == tok \in TokensOf(sq) /\ Held(tok).obj.ran = 0 /\ ~Held(tok).obj.stopped
DueJobEnds == \A tok \in 1 .. MaxJobs * MaxDepth :
    [](Waits(tok) /\ Held(tok).obj.time <= MaxTime \div 2 => <>~Waits(tok))
=============================================================================
