----------------------------- MODULE WaitQueue -----------------------------
(* The wait queues of ipc/sync.rs as functions on one record
     w.queue   : for every queue, its waiters in order of arrival
     w.blocked : the tasks whose state is Blocked
   Each operator is one critical section: the code runs it with interrupts off
   under the queue's `waiters` lock, so a user of the queues takes it in one
   step.  A task that waits is Blocked from the moment it arms, while it still
   runs on its CPU; the scheduler only decides when it next looks at its state.

   Left out: the growth of the queue's backing store (its failure is an outcome
   of the callers' actions), `close`, which no queue modelled here calls, and
   the process generation stamped on an entry, which tells two owners of one
   PID apart: tasks are not reused here, so the stamp always matches.          *)
EXTENDS Integers, Sequences, FiniteSets

Entries(w, q) == {w.queue[q][i] : i \in DOMAIN w.queue[q]}

\* Positions of the entries a waker may ready: it skips, and drops, the others.
Wakeable(w, q) == {i \in DOMAIN w.queue[q] : w.queue[q][i] \in w.blocked}

First(S) == CHOOSE i \in S : \A j \in S : i <= j

\* try_prepare_to_wait_with_capacity, for a task that is not to be interrupted
Arm(w, q, p) ==
    [queue   |-> IF p \in Entries(w, q) THEN w.queue
                 ELSE [w.queue EXCEPT ![q] = Append(@, p)],
     blocked |-> w.blocked \union {p}]

WakeOne(w, q) ==
    IF Wakeable(w, q) = {}
    THEN [queue |-> [w.queue EXCEPT ![q] = << >>], blocked |-> w.blocked]
    ELSE LET i == First(Wakeable(w, q))
         IN [queue   |-> [w.queue EXCEPT ![q] = SubSeq(@, i + 1, Len(@))],
             blocked |-> w.blocked \ {w.queue[q][i]}]

\* Mutant: the queue is emptied, but a waker readies the first entry only.
WakeAllFirst(w, q) ==
    [queue   |-> [w.queue EXCEPT ![q] = << >>],
     blocked |-> w.blocked \ {w.queue[q][i] : i \in DOMAIN w.queue[q] \cap {1}}]

WakeAll(w, q) == [queue   |-> [w.queue EXCEPT ![q] = << >>],
                  blocked |-> w.blocked \ Entries(w, q)]

\* wake_specific for each of the tasks P: one that is queued leaves the queue.
WakeSpecific(w, q, P) ==
    [queue   |-> [w.queue EXCEPT ![q] = SelectSeq(@, LAMBDA x : x \notin P)],
     blocked |-> w.blocked \ (P \intersect Entries(w, q))]

\* cancel_wait: the task leaves the queue, and is runnable if it was queued
CancelWait(w, q, p) ==
    IF p \in Entries(w, q)
    THEN LET i == First({j \in DOMAIN w.queue[q] : w.queue[q][j] = p})
         IN [queue   |-> [w.queue EXCEPT ![q] =
                             SubSeq(@, 1, i - 1) \o SubSeq(@, i + 1, Len(@))],
             blocked |-> w.blocked \ {p}]
    ELSE w

\* A signal or a kill readies its target and leaves its queue entry behind.
Interrupt(w, p) == [w EXCEPT !.blocked = @ \ {p}]

\* block_until_resolved returns when the task was readied or must abort.
Resolved(w, p, aborts) == p \notin w.blocked \/ aborts

\* The epilogue of finish_wait.
FinishWait(w, q, p, aborts) == IF aborts THEN CancelWait(w, q, p) ELSE w
=============================================================================
