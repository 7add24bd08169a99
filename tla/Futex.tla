-------------------------------- MODULE Futex --------------------------------
(* Plain futexes (ipc/futex.rs) in one address space, on the timed wait queues
   of ipc/sync.rs: FUTEX_WAIT with and without a timeout, FUTEX_WAKE and
   FUTEX_CMP_REQUEUE.

   A bucket holds the records of the tasks waiting for an address; a task sleeps
   on the queue of the bucket it called FUTEX_WAIT on, its origin, and a requeue
   moves its record but not the task.  Buckets are reference counted: one that
   was unlinked from the table can still be in the hands of a task that looked
   it up, so a bucket has an identity besides its address.

   One action is one critical section: of FUTEX_TABLE, of a bucket's lock with
   the queue locks taken inside it, of a queue's lock, of a PCB or of the timer
   list.  Looking up or creating a bucket is one step, because the preparation
   gate keeps other creators out.

   Left out: PI futexes and requeues to them, bitsets (every wake matches),
   faults of the user word, the growth of backing stores (its failure is an
   outcome), the retry bound of a wait (16, more than there are calls to collide
   with here), the death of a task inside a wait, and the limits on the
   number of buckets.                                                         *)
EXTENDS WaitQueue, Functions

CONSTANTS
    Waiters, Wakers,      \* the tasks that wait and the tasks that wake
    Addrs,                \* the futex words
    WaitsOn,              \* for each waiter, the words it waits on
    Ops,                  \* what each waker does: <<"one" or "all" or "requeue", from, to>>
    Buckets,              \* identities of bucket objects, a set of numbers above 0
    Timed,                \* waiters that pass a timeout
    Signalled,            \* waiters a signal, a kill or a failed allocation may hit
    MaxWaiters,           \* MAX_FUTEX_WAITERS_PER_BUCKET
    NrWake,               \* waiters a requeue wakes before it moves the others
    Retries,              \* FUTEX_REVALIDATE_RETRIES
    MaxCalls,             \* bound: for each waiter, its waits
    MaxOps,               \* bound: operations of each waker
    MaxIrq                \* bound: ticks being dealt with at a time

ASSUME BucketAssumption ==
    /\ Buckets \subseteq Nat \ {0} /\ IsFiniteSet(Buckets)
    /\ Cardinality(Buckets) >= Cardinality(Addrs) + 2 * Cardinality(Waiters \union Wakers)
ASSUME FutexAssumption == /\ WaitsOn \in [Waiters -> SUBSET Addrs]
                          /\ \A k \in Wakers : \A op \in Ops[k] :
                                 /\ op \in {"one", "all", "requeue"} \X Addrs \X Addrs
                                 /\ op[1] = "requeue" <=> op[2] # op[3]
                          /\ Waiters \cap Wakers = {} /\ Timed \union Signalled \subseteq Waiters
                          /\ MaxWaiters \in Nat \ {0}
                          /\ MaxCalls \in [Waiters -> Nat]
                          /\ {NrWake, Retries, MaxOps, MaxIrq} \subseteq Nat

VARIABLES
    word,                 \* the user words
    table,                \* FUTEX_TABLE: the bucket of an address, 0 if there is none
    bucket,               \* the bucket objects
    wq,                   \* the buckets' wait queues and the Blocked tasks
    gate,                 \* FutexPreparePermit: who holds the gate of the space
    marks,                \* FUTEX_WAKE_MARKS
    timers,               \* TIMED_WAITERS
    irq,                  \* timer entries a tick has copied and is dealing with
    active, marker,       \* active_wait_seq and wq_timeout_marker of each PCB
    intr,                 \* waiters with a signal or kill pending
    task, waker,          \* the calls in progress
    taken, fired          \* history: records a waker took, timers that ended a wait

shared == <<word, table, bucket, wq, gate, marks>>
timing == <<timers, irq, active, marker>>
vars == <<word, table, bucket, wq, gate, marks, timers, irq, active, marker, intr, task,
          waker, taken, fired>>

Nobody == "nobody"
NewBucket == [records |-> << >>, count |-> 0, unlinked |-> FALSE]
Garbage == [NewBucket EXCEPT !.unlinked = TRUE]
IdleTask == [pc |-> "user", addr |-> 0, expected |-> 0, seq |-> 0, bucket |-> 0, moved |-> 0,
             result |-> "none"]
IdleWaker == [pc |-> "user", op |-> "none", addr |-> 0, target |-> 0, compare |-> 0, src |-> 0,
              tgt |-> 0, wanted |-> 0, deferred |-> << >>, tries |-> 0,
              failed |-> FALSE, ops |-> 0]

Init ==
    /\ word = [a \in Addrs |-> 0]
    /\ table = [a \in Addrs |-> 0]
    /\ bucket = [b \in Buckets |-> Garbage]
    /\ wq = [queue |-> [b \in Buckets |-> << >>], blocked |-> {}]
    /\ gate = Nobody /\ marks = {} /\ timers = {} /\ irq = {} /\ intr = {}
    /\ active = [t \in Waiters |-> 0] /\ marker = [t \in Waiters |-> 0]
    /\ task = [t \in Waiters |-> IdleTask] /\ waker = [k \in Wakers |-> IdleWaker]
    /\ taken = {} /\ fired = [t \in Waiters |-> 0]

------------------------------------------------------------------------------
\* Buckets.
Held == {task[t].bucket : t \in Waiters} \union {task[t].moved : t \in Waiters}
        \union {waker[k].src : k \in Wakers} \union {waker[k].tgt : k \in Wakers}
Fresh == LET free == Buckets \ (Range(table) \union Held) IN First(free)

\* get_or_create_live_bucket: b is the bucket of a.
GetOrCreate(a, b) ==
    IF table[a] # 0
    THEN b = table[a] /\ UNCHANGED <<table, bucket>>
    ELSE /\ b = Fresh
         /\ table' = [table EXCEPT ![a] = b]
         /\ bucket' = [bucket EXCEPT ![b] = NewBucket]

\* Mutant: a bucket without records is taken for unused.
ReapUnrecorded(a, b) ==
    IF b # 0 /\ table[a] = b /\ bucket[b].records = << >> /\ wq.queue[b] = << >>
    THEN table' = [table EXCEPT ![a] = 0] /\ bucket' = [bucket EXCEPT ![b] = Garbage]
    ELSE UNCHANGED <<table, bucket>>

\* cleanup_empty_bucket: the tombstone and the removal are one step.
Reap(a, b) ==
    IF /\ b # 0 /\ table[a] = b
       /\ bucket[b].count = 0 /\ bucket[b].records = << >> /\ wq.queue[b] = << >>
    THEN table' = [table EXCEPT ![a] = 0] /\ bucket' = [bucket EXCEPT ![b] = Garbage]
    ELSE UNCHANGED <<table, bucket>>

Record(t) == [origin |-> task[t].addr, pid |-> t]
Pids(records) == {records[i].pid : i \in DOMAIN records}
Without(records, t) == SelectSeq(records, LAMBDA r : r.pid # t)

\* dequeue_record_locked for the records rs of the bucket b at a: those whose
\* origin is a are readied now, the others when the locks are dropped.
DequeueRecords(a, b, rs, queues) ==
    LET here == {rs[i].pid : i \in {j \in DOMAIN rs : rs[j].origin = a}}
    IN /\ marks' = marks \union Pids(rs)
       /\ taken' = taken \union Pids(rs)
       /\ wq' = WakeSpecific(queues, b, here)
Deferrable(a, rs) == SelectSeq(rs, LAMBDA r : r.origin # a)

------------------------------------------------------------------------------
\* FUTEX_WAIT.
Step(t, at, to) == task[t].pc = at /\ task' = [task EXCEPT ![t].pc = to]

Return(t) ==
    /\ task' = [task EXCEPT ![t] = [IdleTask EXCEPT !.seq = task[t].seq]]
    /\ intr' = intr \ {t} /\ taken' = taken \ {t} /\ fired' = [fired EXCEPT ![t] = 0]

\* The syscall reads the word, which has the value the caller expects or the call
\* returns at once, and claims the gate, or fails after 100 ticks if siblings
\* keep it busy.  A mark left by an earlier wait is cleared.
Call(t) ==
    /\ task[t].pc = "user" /\ task[t].seq < MaxCalls[t] /\ gate = Nobody
    /\ gate' = t /\ marks' = marks \ {t}
    /\ \E a \in WaitsOn[t] :
           task' = [task EXCEPT ![t].pc = "bucket", ![t].addr = a, ![t].expected = word[a],
                                ![t].seq = @ + 1]
    /\ UNCHANGED <<word, table, bucket, wq, timing, intr, waker, taken, fired>>

FindBucket(t) ==
    /\ task[t].pc = "bucket"
    /\ \E b \in Buckets :
           GetOrCreate(task[t].addr, b)
           /\ task' = [task EXCEPT ![t].pc = "publish", ![t].bucket = b]
    /\ UNCHANGED <<word, wq, gate, marks, timing, intr, waker, taken, fired>>

\* Mutant: the word is read once, before the wait is queued.
UnchangedBefore(t) == TRUE

\* The word as read again under the bucket's lock.
Unchanged(t) == word[task[t].addr] = task[t].expected

\* publish_plain_waiter
Publish(t) ==
    LET b == task[t].bucket
        fits == bucket[b].count < MaxWaiters /\ Len(bucket[b].records) < 2 * MaxWaiters
        same == Unchanged(t)
        to == IF bucket[b].unlinked THEN "bucket" ELSE IF fits /\ same THEN "arm" ELSE "refused"
    IN /\ Step(t, "publish", to)
       /\ bucket' = IF to # "arm" THEN bucket
                    ELSE [bucket EXCEPT ![b].count = @ + 1, ![b].records = Append(@, Record(t))]
       /\ UNCHANGED <<word, table, wq, gate, marks, timing, intr, waker, taken, fired>>

\* A wait that is not published cleans up, drops the gate and fails.
Refused(t) ==
    /\ task[t].pc = "refused"
    /\ Reap(task[t].addr, task[t].bucket)
    /\ gate' = Nobody
    /\ Return(t)
    /\ UNCHANGED <<word, wq, marks, timing, waker>>

\* Mutant: an untimed wait is given a timer as well.
ArmTimerAlways(t) ==
    /\ active' = [active EXCEPT ![t] = task[t].seq]
    /\ timers' = {e \in timers : e.pid # t} \union {[pid |-> t, seq |-> task[t].seq]}

\* A timer of this task that is still listed is replaced.
ArmTimer(t) ==
    IF t \in Timed
    THEN /\ active' = [active EXCEPT ![t] = task[t].seq]
         /\ timers' = {e \in timers : e.pid # t} \union {[pid |-> t, seq |-> task[t].seq]}
    ELSE UNCHANGED <<active, timers>>

\* Mutant: the task goes to sleep although a waker took its record.
WokenUnseen(t) == FALSE

WokenAlready(t) == t \in marks

\* try_prepare_inner, whose check reads the wake mark, then the gate is dropped.
\* A wait that may not sleep, or cannot for want of memory, fails; one with a
\* timeout of zero has expired, and times out before it looks at anything.
ArmWait(t) ==
    LET b == task[t].bucket
        woken == WokenAlready(t)
        abort == ~woken /\ t \in intr
    IN /\ task[t].pc = "arm"
       /\ gate' = Nobody
       /\ \/ /\ woken \/ abort
             /\ task' = [task EXCEPT ![t].pc = "leave",
                                     ![t].result = IF woken THEN "woken" ELSE "failed"]
             /\ UNCHANGED <<wq, timers, active, marker, fired>>
          \/ /\ t \in Timed
             /\ task' = [task EXCEPT ![t].pc = "leave", ![t].result = "timedout"]
             /\ fired' = [fired EXCEPT ![t] = task[t].seq]
             /\ UNCHANGED <<wq, timers, active, marker>>
          \/ /\ ~woken /\ ~abort
             /\ Step(t, "arm", "asleep")
             /\ wq' = Arm(wq, b, t)
             /\ marker' = [marker EXCEPT ![t] = 0]
             /\ ArmTimer(t)
             /\ UNCHANGED fired
       /\ UNCHANGED <<word, table, bucket, marks, irq, intr, waker, taken>>

\* finish_prepared, once block_until_resolved returns.
FinishPrepared(t) ==
    LET b == task[t].bucket
        outcome == CASE t \in intr -> "failed"
                     [] t \notin intr /\ marker[t] = task[t].seq -> "timedout"
                     [] t \notin intr /\ marker[t] # task[t].seq -> "woken"
    IN /\ task[t].pc = "asleep" /\ Resolved(wq, t, t \in intr)
       /\ timers' = timers \ {[pid |-> t, seq |-> task[t].seq]}
       /\ active' = [active EXCEPT ![t] = 0]
       /\ marker' = [marker EXCEPT ![t] = 0]
       /\ wq' = IF outcome = "woken" THEN wq
                ELSE [wq EXCEPT !.queue[b] = SelectSeq(@, LAMBDA x : x # t)]
       /\ task' = [task EXCEPT ![t].pc = "leave", ![t].result = outcome]
       /\ UNCHANGED <<word, table, bucket, gate, marks, irq, intr, waker, taken, fired>>

\* finish_plain_wait: the task leaves its queue, where no entry of its own can be
\* in anybody's way while it is attached to the bucket, and then the bucket.
LeaveBucket(t) ==
    LET b == task[t].bucket
        here == t \notin marks /\ t \in Pids(bucket[b].records)
    IN /\ task[t].pc = "leave"
       /\ wq' = CancelWait(wq, b, t)
       /\ bucket' = [bucket EXCEPT ![b].count = IF @ = 0 THEN 0 ELSE @ - 1,
                                   ![b].records = IF here THEN Without(@, t) ELSE @]
       /\ task' = [task EXCEPT ![t].pc = IF t \in marks \/ here THEN "reap" ELSE "search",
                               ![t].result = IF t \in marks THEN "taken" ELSE @]
       /\ UNCHANGED <<word, table, gate, marks, timing, intr, waker, taken, fired>>

\* The record is in another bucket, where a waker may be about to take it.
TakeMoved(t) ==
    LET at == {a \in Addrs : table[a] # 0 /\ t \in Pids(bucket[table[a]].records)}
    IN /\ task[t].pc = "search"
       /\ IF t \in marks \/ at = {}
          THEN /\ task' = [task EXCEPT ![t].pc = "reap", ![t].result = "taken"]
               /\ UNCHANGED bucket
          ELSE \E a \in at :
                  /\ bucket' = [bucket EXCEPT ![table[a]].records = Without(@, t)]
                  /\ task' = [task EXCEPT ![t].pc = "reap", ![t].moved = table[a]]
       /\ UNCHANGED <<word, table, wq, gate, marks, timing, intr, waker, taken, fired>>

\* cleanup_empty_bucket of the origin, then of the bucket the record was found in.
ReapOrigin(t) ==
    /\ task[t].pc = "reap"
    /\ Reap(task[t].addr, task[t].bucket)
    /\ IF task[t].moved = 0 THEN Return(t)
       ELSE /\ task' = [task EXCEPT ![t].pc = "reapmoved", ![t].bucket = 0]
            /\ UNCHANGED <<intr, taken, fired>>
    /\ UNCHANGED <<word, wq, gate, marks, timing, waker>>

ReapMoved(t) ==
    LET b == task[t].moved
        home == {a \in Addrs : table[a] = b}
    IN /\ task[t].pc = "reapmoved"
       /\ IF home = {} THEN UNCHANGED <<table, bucket>> ELSE \E a \in home : Reap(a, b)
       /\ Return(t)
       /\ UNCHANGED <<word, wq, gate, marks, timing, waker>>

WaitStep(t) ==
    \/ FindBucket(t) \/ Publish(t) \/ Refused(t) \/ ArmWait(t)
    \/ FinishPrepared(t) \/ LeaveBucket(t) \/ TakeMoved(t) \/ ReapOrigin(t)
    \/ ReapMoved(t)

------------------------------------------------------------------------------
\* Wakers.  A waker stores a new value before it wakes all waiters of a word or
\* requeues them to another one; one that wakes a single waiter, as an unlock
\* does of the waiters requeued to a lock, stores nothing the waiters check.
Scans(k) == IF waker[k].op = "one" THEN 1 ELSE Cardinality(Waiters)

Begin(k) ==
    /\ waker[k].pc = "user" /\ waker[k].ops < MaxOps
    /\ \E op \in Ops[k] :
           /\ word' = IF op[1] = "one" THEN word ELSE [word EXCEPT ![op[2]] = @ + 1]
           /\ waker' = [waker EXCEPT ![k] =
                  [IdleWaker EXCEPT !.pc = IF op[1] = "requeue" THEN "plan" ELSE "lookup",
                                    !.op = op[1], !.addr = op[2], !.target = op[3],
                                    !.compare = word'[op[2]], !.ops = waker[k].ops + 1]]
    /\ UNCHANGED <<table, bucket, wq, gate, marks, timing, intr, task, taken, fired>>

Idle(k) == [IdleWaker EXCEPT !.ops = waker[k].ops, !.failed = waker[k].failed]

\* wake_key
Lookup(k) ==
    LET b == table[waker[k].addr]
    IN /\ waker[k].pc = "lookup"
       /\ waker' = [waker EXCEPT ![k] = IF b = 0 THEN Idle(k)
                                        ELSE [@ EXCEPT !.pc = "scan", !.src = b]]
       /\ UNCHANGED <<shared, timing, intr, task, taken, fired>>

\* The waiters are dealt with, except for those still to be readied.
Settled(k, src, tgt, deferred) ==
    [waker[k] EXCEPT !.pc = "ready", !.src = src, !.tgt = tgt, !.deferred = deferred,
                     !.wanted = 0, !.compare = 0, !.tries = 0]

Least(m, n) == IF m < n THEN m ELSE n

Scan(k) ==
    LET a == waker[k].addr
        b == waker[k].src
        n == Least(Scans(k), Len(bucket[b].records))
        rs == SubSeq(bucket[b].records, 1, n)
    IN /\ waker[k].pc = "scan"
       /\ DequeueRecords(a, b, rs, wq)
       /\ bucket' = [bucket EXCEPT ![b].records = SubSeq(@, n + 1, Len(@))]
       /\ waker' = [waker EXCEPT ![k] = Settled(k, b, 0, Deferrable(a, rs))]
       /\ UNCHANGED <<word, table, gate, timing, intr, task, fired>>

\* Mutant: a late wake is delivered whatever the task is doing now.
WantedAlways(t) == TRUE

\* The check of wake_specific_if, under the queue's lock.
StillWanted(t) == t \in marks

\* FutexDeferredWakes::run
ReadyDeferred(k) ==
    LET r == Head(waker[k].deferred)
        b == table[r.origin]
    IN /\ waker[k].pc = "ready" /\ waker[k].deferred # << >>
       /\ wq' = IF b # 0 /\ StillWanted(r.pid) THEN WakeSpecific(wq, b, {r.pid}) ELSE wq
       /\ waker' = [waker EXCEPT ![k].deferred = Tail(@)]
       /\ UNCHANGED <<word, table, bucket, gate, marks, timing, intr, task, taken, fired>>

ReapSource(k) ==
    /\ waker[k].pc = "ready" /\ waker[k].deferred = << >>
    /\ Reap(waker[k].addr, waker[k].src)
    /\ waker' = [waker EXCEPT ![k] = IF @.op = "requeue" THEN [@ EXCEPT !.pc = "reap", !.src = 0]
                                     ELSE Idle(k)]
    /\ UNCHANGED <<word, wq, gate, marks, timing, intr, task, taken, fired>>

\* futex_requeue, which wakes NrWake waiters and moves the others.
Movers(n) == IF n > NrWake THEN n - NrWake ELSE 0

Snapshot(k) ==
    LET b == table[waker[k].addr]
        wanted == IF b = 0 THEN 0 ELSE Least(Movers(Len(bucket[b].records)), MaxWaiters)
    IN /\ waker[k].pc = "plan"
       /\ waker' = [waker EXCEPT ![k].pc = IF wanted = 0 THEN "pass" ELSE "target",
                                 ![k].wanted = wanted, ![k].tgt = 0]
       /\ UNCHANGED <<shared, timing, intr, task, taken, fired>>

\* prepare_requeue_target: without the gate or without memory there is no target.
PrepareTarget(k) ==
    /\ waker[k].pc = "target"
    /\ \/ /\ gate = Nobody
          /\ \E b \in Buckets : GetOrCreate(waker[k].target, b)
                 /\ waker' = [waker EXCEPT ![k].pc = "pass", ![k].tgt = b]
       \/ waker' = [waker EXCEPT ![k].pc = "pass"] /\ UNCHANGED <<table, bucket>>
    /\ UNCHANGED <<word, wq, gate, marks, timing, intr, task, taken, fired>>

\* requeue_locked: the oldest of the source's records are woken, the next m are
\* moved, and the rest are woken because the target has no room for them.
Move(k, src, tgt, m) ==
    LET a == waker[k].addr
        all == bucket[src].records
        w == Least(NrWake, Len(all))
        moved == SubSeq(all, w + 1, w + m)
        woken == SubSeq(all, 1, w) \o SubSeq(all, w + m + 1, Len(all))
    IN /\ DequeueRecords(a, src, woken, wq)
       /\ bucket' = [b \in Buckets |->
                        CASE b = src -> [bucket[b] EXCEPT !.records = << >>]
                          [] b = tgt -> [bucket[b] EXCEPT !.records = @ \o moved]
                          [] b \notin {src, tgt} -> bucket[b]]
       /\ waker' = [waker EXCEPT ![k] = Settled(k, src, tgt, Deferrable(a, woken))]

\* The second phase, under FUTEX_TABLE and the bucket locks.
RequeuePass(k) ==
    LET src == table[waker[k].addr]
        tgt == table[waker[k].target]
        n == IF src = 0 THEN 0 ELSE Movers(Len(bucket[src].records))
        room == IF tgt = 0 THEN 0
                ELSE MaxWaiters - Least(MaxWaiters, Len(bucket[tgt].records))
        lost == waker[k].tgt # 0 /\ tgt = 0
        changed == word[waker[k].addr] # waker[k].compare
    IN /\ waker[k].pc = "pass"
       /\ \/ /\ src = 0 \/ (~lost /\ changed)
             /\ waker' = [waker EXCEPT ![k] = Settled(k, src, tgt, << >>)]
             /\ UNCHANGED <<bucket, wq, marks, taken>>
          \/ /\ src # 0 /\ (lost \/ (~changed /\ n > waker[k].wanted))
             /\ waker' = [waker EXCEPT ![k] =
                    IF @.tries = Retries
                    THEN [Settled(k, src, tgt, << >>) EXCEPT !.failed = TRUE]
                    ELSE [@ EXCEPT !.pc = "plan", !.tgt = 0, !.tries = @ + 1]]
             /\ UNCHANGED <<bucket, wq, marks, taken>>
          \/ /\ src # 0 /\ ~lost /\ ~changed /\ n <= waker[k].wanted
             /\ \E m \in 0 .. Least(n, room) : Move(k, src, tgt, m)
       /\ UNCHANGED <<word, table, gate, timing, intr, task, fired>>

\* Mutant: the target is not cleaned up.
ReapTargetNot(k) ==
    /\ waker[k].pc = "reap"
    /\ waker' = [waker EXCEPT ![k] = Idle(k)]
    /\ UNCHANGED <<shared, timing, intr, task, taken, fired>>

ReapTarget(k) ==
    /\ waker[k].pc = "reap"
    /\ Reap(waker[k].target, waker[k].tgt)
    /\ waker' = [waker EXCEPT ![k] = Idle(k)]
    /\ UNCHANGED <<word, wq, gate, marks, timing, intr, task, taken, fired>>

WakeStep(k) ==
    \/ Lookup(k) \/ Scan(k) \/ ReadyDeferred(k) \/ ReapSource(k) \/ Snapshot(k)
    \/ PrepareTarget(k) \/ RequeuePass(k) \/ ReapTarget(k)

------------------------------------------------------------------------------
\* drain_expired_timeouts: an expired entry is copied, its task is readied with
\* the list unlocked, and the entry is removed; ticks of several CPUs overlap.
CopyExpired(t) ==
    /\ Cardinality(irq) < MaxIrq
    /\ \E e \in timers : e.pid = t /\ irq' = irq \union {[entry |-> e, woke |-> FALSE]}
    /\ irq' # irq
    /\ UNCHANGED <<shared, timers, active, marker, intr, task, waker, taken, fired>>

\* wq_timeout_wake_by_seq.  A tick that finds the PCB locked leaves the entry to
\* the next one: here it deals with the copy later.
DecideTimeout(t, seq) == active[t] = seq /\ t \in wq.blocked

TimeoutWake(t) ==
    \E x \in irq :
        /\ x.entry.pid = t /\ ~x.woke
        /\ irq' = (irq \ {x}) \union {[x EXCEPT !.woke = TRUE]}
        /\ IF DecideTimeout(t, x.entry.seq)
           THEN /\ marker' = [marker EXCEPT ![t] = x.entry.seq]
                /\ active' = [active EXCEPT ![t] = 0]
                /\ wq' = Interrupt(wq, t)
                /\ fired' = [fired EXCEPT ![t] = x.entry.seq]
           ELSE UNCHANGED <<marker, active, wq, fired>>
        /\ UNCHANGED <<word, table, bucket, gate, marks, timers, intr, task, waker, taken>>

\* Mutant: whatever timer the task has is removed.
RetireByPid(t) ==
    /\ \E x \in irq : x.entry.pid = t /\ x.woke /\ irq' = irq \ {x}
    /\ timers' = {e \in timers : e.pid # t}
    /\ UNCHANGED <<shared, active, marker, intr, task, waker, taken, fired>>

RetireTimer(t) ==
    /\ \E x \in irq : /\ x.entry.pid = t /\ x.woke
                      /\ irq' = irq \ {x} /\ timers' = timers \ {x.entry}
    /\ UNCHANGED <<shared, active, marker, intr, task, waker, taken, fired>>

TimerStep(t) == CopyExpired(t) \/ TimeoutWake(t) \/ RetireTimer(t)

\* A signal or a kill arrives before the wait looks for one: one that comes
\* earlier is not seen before, and one that comes later is not seen.
Signal(t) ==
    /\ t \in Signalled /\ task[t].pc \in {"arm", "asleep"} /\ t \notin intr
    /\ intr' = intr \union {t}
    /\ wq' = Interrupt(wq, t)
    /\ UNCHANGED <<word, table, bucket, gate, marks, timing, task, waker, taken, fired>>

Next ==
    \/ \E t \in Waiters : Call(t) \/ WaitStep(t) \/ TimerStep(t) \/ Signal(t)
    \/ \E k \in Wakers : Begin(k) \/ WakeStep(k)

Spec == Init /\ [][Next]_vars

\* As long as a call in progress can take its next step, or a timer is armed,
\* some such step is taken: no CPU stops and ticks keep coming.
Progress == (\E t \in Waiters : WaitStep(t) \/ TimerStep(t)) \/ (\E k \in Wakers : WakeStep(k))
FairSpec == Spec /\ WF_vars(Progress)

------------------------------------------------------------------------------
\* Properties.
Attached(t) == task[t].pc \in {"arm", "asleep", "leave"}
Published(t) == Attached(t) \/ task[t].pc = "search"
Homes(t) == {a \in Addrs : table[a] # 0 /\ t \in Pids(bucket[table[a]].records)}

(* The types of the state.  A bucket never holds more records than
   MAX_FUTEX_RECORDS_PER_BUCKET nor more tasks than MAX_FUTEX_WAITERS_PER_BUCKET. *)
TypeOK ==
    /\ word \in [Addrs -> 0 .. MaxOps * Cardinality(Wakers)]
    /\ table \in [Addrs -> Buckets \union {0}]
    /\ \A b \in Buckets : /\ bucket[b].count \in 0 .. MaxWaiters
                          /\ Len(bucket[b].records) <= 2 * MaxWaiters
    /\ DOMAIN wq.queue = Buckets /\ wq.blocked \subseteq Waiters
    /\ gate \in Waiters \union {Nobody}
    /\ marks \subseteq Waiters /\ intr \subseteq Waiters /\ taken \subseteq Waiters
    /\ timers \subseteq [pid : Timed, seq : Nat]
    /\ irq \subseteq [entry : [pid : Timed, seq : Nat], woke : BOOLEAN]
    /\ {active, marker, fired} \subseteq [Waiters -> Nat]
    /\ \A k \in Wakers : waker[k].tries \in 0 .. Retries /\ waker[k].ops \in 0 .. MaxOps

(* A waiting task can be found.  The bucket it sleeps on is in the table for as
   long as it is attached to it, and from the publication of its record to its
   epilogue the record is in exactly one bucket of the table, wherever requeues
   moved it, unless a waker took it and left its mark; no record outlives its
   wait (finish_plain_wait's debug_assert is the last point of this).         *)
RecordFound ==
    /\ \A t \in Waiters :
           /\ Attached(t) => table[task[t].addr] = task[t].bucket
           /\ Published(t) => IF t \in taken THEN t \in marks /\ Homes(t) = {}
                              ELSE t \notin marks /\ Cardinality(Homes(t)) = 1
           /\ ~Published(t) => Homes(t) = {}
    /\ \A b \in Buckets :
           bucket[b].count = Cardinality({t \in Waiters : Attached(t) /\ task[t].bucket = b})

(* No lost wake.  A task that still waits for a word that no longer has the value
   it was waiting for will be seen by a waker that changed the word and has yet
   to scan its bucket, although the waiter read the word before it queued, and
   the waker may hold a bucket that was unlinked since.                       *)
NoLostWake ==
    \A t \in Waiters :
        LET a == task[t].addr
        IN Published(t) /\ Homes(t) = {a} /\ word[a] # task[t].expected /\ t \in wq.blocked =>
               \E k \in Wakers : /\ waker[k].op \in {"all", "requeue"} /\ waker[k].addr = a
                                 /\ waker[k].pc \in {"lookup", "scan", "plan", "target", "pass"}

(* A task whose record was taken is not left asleep: it is Blocked only as long
   as the waker that took the record has still to ready it on its origin queue. *)
NoStrandedWaiter ==
    \A t \in wq.blocked \intersect marks :
        \E k \in Wakers : \E i \in DOMAIN waker[k].deferred :
            waker[k].deferred[i] = [origin |-> task[t].addr, pid |-> t]

(* A wait has one outcome.  It reports a wake if and only if a waker took, and
   counted, its record, although its timer, a signal and the waker race; it
   reports a timeout only if its own timer ended it; and no wake or timer meant
   for an earlier wait of the task ends a later one.                          *)
OneOutcome ==
    \A t \in Waiters :
        task[t].pc = "reap" =>
            /\ task[t].result = "taken" <=> t \in taken
            /\ task[t].result # "woken"
            /\ task[t].result = "timedout" => fired[t] = task[t].seq

(* Nothing is left behind: when no call is in progress, no bucket is in the
   table, no task is queued or Blocked and no timer is armed.                 *)
NoLeak ==
    (\A t \in Waiters : task[t].pc = "user") /\ (\A k \in Wakers : waker[k].pc = "user") =>
        /\ table = [a \in Addrs |-> 0] /\ timers = {} /\ wq.blocked = {}
        /\ \A b \in Buckets : bucket[b] = Garbage /\ wq.queue[b] = << >>
        /\ gate = Nobody

(* A requeue never fails for want of room in the target: a waiter that cannot be
   moved is woken instead.                                                    *)
RequeueAlwaysServes == \A k \in Wakers : ~waker[k].failed

(* A wait ends once it has a timeout, was woken or was signalled: no wake goes to
   an empty queue, and no timer is dropped before it has ended its wait.      *)
WaitEnds ==
    \A t \in Waiters :
        (task[t].pc # "user" /\ (t \in Timed \/ t \in taken \/ t \in intr)) ~> task[t].pc = "user"
=============================================================================
