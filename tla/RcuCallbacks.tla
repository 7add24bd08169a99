----------------------------- MODULE RcuCallbacks ---------------------------
(***************************************************************************)
(* The callback pool of kernel_core/rcu.rs: permits, the ring of queued    *)
(* callbacks and the drain by poll() and synchronize_rcu().  What makes    *)
(* COMPLETED_EPOCH rise is module RcuEpoch; here it rises by itself to any *)
(* allocated epoch.                                                        *)
(*                                                                         *)
(* An object is what a permit was reserved for: the kernel stack of PID o  *)
(* for o \in 1 .. NStack, anything else for o \in General.  A CPU is a     *)
(* process-level context; every step is one critical section of CALLBACKS  *)
(* or one access to an atomic.                                             *)
(***************************************************************************)
EXTENDS Integers, Sequences, FiniteSets

CONSTANTS
    Cpus,        \* contexts that queue and drain
    NStack,      \* RCU_STACK_CALLBACK_CAPACITY, one slot per PID
    NGeneral,    \* RCU_CALLBACK_CAPACITY - RCU_STACK_CALLBACK_CAPACITY
    General,     \* objects reclaimed through general callbacks
    MaxEpoch,    \* bound on GLOBAL_EPOCH
    BacklogMedium, BacklogHigh,             \* CALLBACK_BACKLOG_*
    BudgetLow, BudgetMedium, BudgetHigh     \* CALLBACK_DRAIN_BUDGET_*

ASSUME CapacityAssumption == NStack \in Nat /\ NGeneral \in Nat \ {0}
ASSUME ObjectAssumption == General \cap Nat = {}
ASSUME BoundAssumption ==
    /\ MaxEpoch \in Nat \ {0} /\ BacklogMedium \in Nat /\ BacklogHigh \in Nat
    /\ {BudgetLow, BudgetMedium, BudgetHigh} \subseteq Nat \ {0}

Stacks == 1 .. NStack
Objects == Stacks \cup General
GeneralSlots == (NStack + 1) .. (NStack + NGeneral)
Slots == Stacks \cup GeneralSlots
NoSlot == 0

VARIABLES
    globalEpoch,     \* GLOBAL_EPOCH
    completedEpoch,  \* COMPLETED_EPOCH
    slots,           \* CallbackPool.slots
    queue,           \* the ring: slot indices in FIFO order
    reserveCursor,   \* CallbackPool.reserve_cursor
    stackSlots,      \* CallbackPool.stack_slots
    callbackCount,   \* CALLBACK_COUNT
    drainOwner,      \* DRAIN_OWNER
    permit,          \* object -> slot its armed RcuCallbackPermit names
    pc, op,          \* CPU -> control point, operation
    done,            \* CPU -> synchronize_rcu's target, then done_epoch
    budget,          \* CPU -> callbacks poll() may still run
    cur,             \* CPU -> slot of the callback it has dequeued
    curTarget,       \* CPU -> epoch that callback waited for
    lastRun          \* epoch of the callback that ran last

pool == <<slots, queue, reserveCursor, stackSlots>>
epochs == <<globalEpoch, completedEpoch>>
ctx == <<pc, op, done, budget, cur, curTarget>>
vars == <<epochs, pool, callbackCount, drainOwner, permit, ctx, lastRun>>

States == {"Free", "Reserved", "Queued", "Running", "Quarantined"}
EmptySlot == [state |-> "Free", class |-> "General", target |-> 0]
Class(o) == IF o \in Stacks THEN "KernelStack" ELSE "General"
Delta(class) == IF class = "KernelStack" THEN 1 ELSE 0

At(c, l) == pc[c] = l
Goto(c, l) == pc' = [pc EXCEPT ![c] = l]

\* The types of the pool, of the epochs and of the drainers' registers; the
\* counters never underflow and no epoch passes GLOBAL_EPOCH.
TypeOK ==
    /\ globalEpoch \in Nat /\ completedEpoch \in 0 .. globalEpoch
    /\ slots \in [Slots -> [state : States, class : {"General", "KernelStack"},
                            target : 0 .. globalEpoch]]
    /\ queue \in Seq(Slots)
    /\ reserveCursor \in Nat /\ stackSlots \in Nat /\ callbackCount \in Nat
    /\ drainOwner \in BOOLEAN
    /\ permit \in [Objects -> Slots \cup {NoSlot}]
    /\ pc \in [Cpus -> {"idle", "grace", "sampled", "drain", "run", "finish",
                        "count", "release"}]
    /\ op \in [Cpus -> {"poll", "sync"}]
    /\ done \in [Cpus -> 0 .. globalEpoch]
    /\ budget \in [Cpus -> Nat]
    /\ cur \in [Cpus -> Slots \cup {NoSlot}]
    /\ curTarget \in [Cpus -> 0 .. globalEpoch] /\ lastRun \in 0 .. globalEpoch

Init ==
    /\ globalEpoch = 1 /\ completedEpoch = 1
    /\ slots = [s \in Slots |-> EmptySlot]
    /\ queue = <<>> /\ reserveCursor = 0 /\ stackSlots = 0
    /\ callbackCount = 0 /\ drainOwner = FALSE
    /\ permit = [o \in Objects |-> NoSlot]
    /\ pc = [c \in Cpus |-> "idle"] /\ op = [c \in Cpus |-> "poll"]
    /\ done = [c \in Cpus |-> 0] /\ budget = [c \in Cpus |-> 0]
    /\ cur = [c \in Cpus |-> NoSlot] /\ curTarget = [c \in Cpus |-> 0]
    /\ lastRun = 0

-----------------------------------------------------------------------------
(* Permits.                                                                *)

Mark(s, class) ==
    /\ slots' = [slots EXCEPT ![s].state = "Reserved", ![s].class = class]
    /\ stackSlots' = stackSlots + Delta(class)

\* try_reserve_stack_callback: the slot of the PID, if it is free.
ReserveExact(o) ==
    /\ o \in Stacks /\ permit[o] = NoSlot
    /\ slots[o].state = "Free"
    /\ Mark(o, "KernelStack")
    /\ permit' = [permit EXCEPT ![o] = o]
    /\ UNCHANGED <<epochs, queue, reserveCursor, callbackCount, drainOwner, ctx, lastRun>>

\* try_reserve_callback: the first free general slot from the cursor on.
FreeGeneral == {s \in GeneralSlots : slots[s].state = "Free"}
Cursor == IF reserveCursor \in GeneralSlots THEN reserveCursor ELSE NStack + 1
FromCursor(s) == (s - Cursor) % NGeneral
ReserveInRange(o) ==
    /\ o \in General /\ permit[o] = NoSlot
    /\ \E s \in FreeGeneral :
         /\ \A t \in FreeGeneral : FromCursor(s) <= FromCursor(t)
         /\ Mark(s, "General")
         /\ permit' = [permit EXCEPT ![o] = s]
         /\ reserveCursor' = NStack + 1 + ((s - NStack) % NGeneral)
    /\ UNCHANGED <<epochs, queue, callbackCount, drainOwner, ctx, lastRun>>

\* Mutant: the stack class is not taken off the count on release.
DropPermitKeepsCount(o) ==
    /\ permit[o] # NoSlot /\ slots[permit[o]].state = "Reserved"
    /\ slots' = [slots EXCEPT ![permit[o]] = EmptySlot]
    /\ permit' = [permit EXCEPT ![o] = NoSlot]
    /\ UNCHANGED <<epochs, queue, reserveCursor, stackSlots, callbackCount, drainOwner,
                   ctx, lastRun>>

\* Dropping an armed permit gives back its slot (release_reserved).
DropPermit(o) ==
    /\ permit[o] # NoSlot /\ slots[permit[o]].state = "Reserved"
    /\ slots' = [slots EXCEPT ![permit[o]] = EmptySlot]
    /\ stackSlots' = stackSlots - Delta(slots[permit[o]].class)
    /\ permit' = [permit EXCEPT ![o] = NoSlot]
    /\ UNCHANGED <<epochs, queue, reserveCursor, callbackCount, drainOwner, ctx, lastRun>>

\* Mutant: the permit stays armed after its slot is queued.
CallRcuArmed(c, o) ==
    LET s == permit[o] IN
    /\ At(c, "idle")
    /\ s # NoSlot /\ slots[s].state = "Reserved" /\ slots[s].class = Class(o)
    /\ globalEpoch < MaxEpoch
    /\ globalEpoch' = globalEpoch + 1
    /\ slots' = [slots EXCEPT ![s].state = "Queued", ![s].target = globalEpoch + 1]
    /\ queue' = Append(queue, s)
    /\ callbackCount' = callbackCount + 1
    /\ UNCHANGED <<completedEpoch, permit, reserveCursor, stackSlots, drainOwner, ctx,
                   lastRun>>

\* Mutant: the newest callback goes to the front of the ring.
CallRcuFront(c, o) ==
    LET s == permit[o] IN
    /\ At(c, "idle")
    /\ s # NoSlot /\ slots[s].state = "Reserved" /\ slots[s].class = Class(o)
    /\ globalEpoch < MaxEpoch
    /\ globalEpoch' = globalEpoch + 1
    /\ slots' = [slots EXCEPT ![s].state = "Queued", ![s].target = globalEpoch + 1]
    /\ queue' = <<s>> \o queue
    /\ callbackCount' = callbackCount + 1
    /\ permit' = [permit EXCEPT ![o] = NoSlot]
    /\ UNCHANGED <<completedEpoch, reserveCursor, stackSlots, drainOwner, ctx, lastRun>>

\* call_rcu_class: under one hold of CALLBACKS the target epoch is allocated,
\* the callback queued and counted, and the permit disarmed.
CallRcu(c, o) ==
    LET s == permit[o] IN
    /\ At(c, "idle")
    /\ s # NoSlot /\ slots[s].state = "Reserved" /\ slots[s].class = Class(o)
    /\ globalEpoch < MaxEpoch
    /\ globalEpoch' = globalEpoch + 1
    /\ slots' = [slots EXCEPT ![s].state = "Queued", ![s].target = globalEpoch + 1]
    /\ queue' = Append(queue, s)
    /\ callbackCount' = callbackCount + 1
    /\ permit' = [permit EXCEPT ![o] = NoSlot]
    /\ UNCHANGED <<completedEpoch, reserveCursor, stackSlots, drainOwner, ctx, lastRun>>

-----------------------------------------------------------------------------
(* Completion, poll() and synchronize_rcu() up to the drain.               *)

\* Every CPU has passed epoch e: a tick, a poll or a synchronizer raises
\* COMPLETED_EPOCH with fetch_max.
GracePeriod(e) ==
    /\ completedEpoch < e /\ e <= globalEpoch
    /\ completedEpoch' = e
    /\ UNCHANGED <<globalEpoch, pool, callbackCount, drainOwner, permit, ctx, lastRun>>

DrainBudget ==
    IF callbackCount >= BacklogHigh THEN BudgetHigh
    ELSE IF callbackCount >= BacklogMedium THEN BudgetMedium ELSE BudgetLow

\* poll() samples COMPLETED_EPOCH and the backlog before it tries for the
\* drain ownership.
Poll(c) ==
    /\ At(c, "idle")
    /\ op' = [op EXCEPT ![c] = "poll"]
    /\ done' = [done EXCEPT ![c] = completedEpoch]
    /\ budget' = [budget EXCEPT ![c] = DrainBudget]
    /\ Goto(c, "sampled")
    /\ UNCHANGED <<epochs, pool, callbackCount, drainOwner, permit, cur, curTarget, lastRun>>

Synchronize(c) ==
    /\ At(c, "idle") /\ globalEpoch < MaxEpoch
    /\ globalEpoch' = globalEpoch + 1
    /\ op' = [op EXCEPT ![c] = "sync"]
    /\ done' = [done EXCEPT ![c] = globalEpoch + 1]
    /\ Goto(c, "grace")
    /\ UNCHANGED <<completedEpoch, pool, callbackCount, drainOwner, permit, budget, cur,
                   curTarget, lastRun>>

\* all_cpus_quiescent(target) holds: publish, and drain all that is complete.
Synchronized(c) ==
    /\ At(c, "grace")
    /\ LET e == IF completedEpoch > done[c] THEN completedEpoch ELSE done[c] IN
         /\ completedEpoch' = e
         /\ done' = [done EXCEPT ![c] = e]
    /\ Goto(c, "sampled")
    /\ UNCHANGED <<globalEpoch, pool, callbackCount, drainOwner, permit, op, budget, cur,
                   curTarget, lastRun>>

-----------------------------------------------------------------------------
(* The drain.                                                              *)

\* Mutant: no drain ownership.
AcquireAlways(c) ==
    /\ At(c, "sampled")
    /\ drainOwner' = TRUE
    /\ Goto(c, "drain")
    /\ UNCHANGED <<epochs, pool, callbackCount, permit, op, done, budget, cur, curTarget,
                   lastRun>>

\* DrainOwnerGuard: synchronize_rcu spins for it, poll gives up at once.
Acquire(c) ==
    /\ At(c, "sampled") /\ ~drainOwner
    /\ drainOwner' = TRUE
    /\ Goto(c, "drain")
    /\ UNCHANGED <<epochs, pool, callbackCount, permit, op, done, budget, cur, curTarget,
                   lastRun>>

AcquireFails(c) ==
    /\ At(c, "sampled") /\ drainOwner /\ op[c] = "poll"
    /\ done' = [done EXCEPT ![c] = 0] /\ budget' = [budget EXCEPT ![c] = 0]
    /\ Goto(c, "idle")
    /\ UNCHANGED <<epochs, pool, callbackCount, drainOwner, permit, op, cur, curTarget,
                   lastRun>>

\* Mutant: synchronize_rcu drains with poll's budget.
HasPollBudget(c) == budget[c] > 0
\* Mutant: readiness is judged by the allocated epoch.
ReadyEarly(c) == queue # <<>> /\ slots[Head(queue)].target <= globalEpoch
HasBudget(c) == op[c] = "sync" \/ budget[c] > 0
Ready(c) == queue # <<>> /\ slots[Head(queue)].target <= done[c]

\* pop_ready looks at the head of the ring only.
PopReady(c) ==
    /\ At(c, "drain") /\ HasBudget(c) /\ Ready(c)
    /\ queue' = Tail(queue)
    /\ slots' = [slots EXCEPT ![Head(queue)].state = "Running", ![Head(queue)].target = 0]
    /\ cur' = [cur EXCEPT ![c] = Head(queue)]
    /\ curTarget' = [curTarget EXCEPT ![c] = slots[Head(queue)].target]
    /\ Goto(c, "run")
    /\ UNCHANGED <<epochs, reserveCursor, stackSlots, callbackCount, drainOwner, permit,
                   op, done, budget, lastRun>>

\* The callback itself, outside CALLBACKS: it reclaims its object ...
RunCallback(c) ==
    /\ At(c, "run")
    /\ lastRun' = curTarget[c]
    /\ Goto(c, "finish")
    /\ UNCHANGED <<epochs, pool, callbackCount, drainOwner, permit, op, done, budget, cur,
                   curTarget>>

\* ... or, a kernel stack it cannot verify, pins the slot
\* (quarantine_running_stack).
Quarantine(c) ==
    /\ At(c, "run") /\ slots[cur[c]].class = "KernelStack"
    /\ slots[cur[c]].state = "Running"
    /\ slots' = [slots EXCEPT ![cur[c]].state = "Quarantined"]
    /\ lastRun' = curTarget[c]
    /\ Goto(c, "finish")
    /\ UNCHANGED <<epochs, queue, reserveCursor, stackSlots, callbackCount, drainOwner,
                   permit, op, done, budget, cur, curTarget>>

\* Mutant: a quarantined slot is recycled like any other.
FinishAnyway(c) ==
    /\ At(c, "finish")
    /\ slots' = [slots EXCEPT ![cur[c]] = EmptySlot]
    /\ stackSlots' = stackSlots - Delta(slots[cur[c]].class)
    /\ cur' = [cur EXCEPT ![c] = NoSlot] /\ curTarget' = [curTarget EXCEPT ![c] = 0]
    /\ Goto(c, "count")
    /\ UNCHANGED <<epochs, queue, reserveCursor, callbackCount, drainOwner, permit, op,
                   done, budget, lastRun>>

\* Mutant: every class of slot is taken off the stack count.
FinishUncounts(c) ==
    /\ At(c, "finish")
    /\ slots' = [slots EXCEPT ![cur[c]] = EmptySlot]
    /\ stackSlots' = stackSlots - 1
    /\ cur' = [cur EXCEPT ![c] = NoSlot] /\ curTarget' = [curTarget EXCEPT ![c] = 0]
    /\ Goto(c, "count")
    /\ UNCHANGED <<epochs, queue, reserveCursor, callbackCount, drainOwner, permit, op,
                   done, budget, lastRun>>

FinishRunning(c) ==
    /\ At(c, "finish")
    /\ IF slots[cur[c]].state = "Quarantined"
         THEN UNCHANGED <<slots, stackSlots>>
         ELSE /\ slots' = [slots EXCEPT ![cur[c]] = EmptySlot]
              /\ stackSlots' = stackSlots - Delta(slots[cur[c]].class)
    /\ cur' = [cur EXCEPT ![c] = NoSlot] /\ curTarget' = [curTarget EXCEPT ![c] = 0]
    /\ Goto(c, "count")
    /\ UNCHANGED <<epochs, queue, reserveCursor, callbackCount, drainOwner, permit, op,
                   done, budget, lastRun>>

CountDown(c) ==
    /\ At(c, "count")
    /\ callbackCount' = callbackCount - 1
    /\ budget' = [budget EXCEPT ![c] = IF op[c] = "poll" THEN @ - 1 ELSE @]
    /\ Goto(c, "drain")
    /\ UNCHANGED <<epochs, pool, drainOwner, permit, op, done, cur, curTarget, lastRun>>

\* Mutant: the ownership is not released when nothing ran.
DrainEndsEarly(c) ==
    /\ At(c, "drain") /\ ~(HasBudget(c) /\ Ready(c))
    /\ Goto(c, "idle")
    /\ UNCHANGED <<epochs, pool, callbackCount, drainOwner, permit, op, done, budget, cur,
                   curTarget, lastRun>>

DrainEnds(c) ==
    /\ At(c, "drain") /\ ~(HasBudget(c) /\ Ready(c))
    /\ Goto(c, "release")
    /\ UNCHANGED <<epochs, pool, callbackCount, drainOwner, permit, op, done, budget, cur,
                   curTarget, lastRun>>

ReleaseOwner(c) ==
    /\ At(c, "release")
    /\ drainOwner' = FALSE
    /\ done' = [done EXCEPT ![c] = 0] /\ budget' = [budget EXCEPT ![c] = 0]
    /\ op' = [op EXCEPT ![c] = "poll"]
    /\ Goto(c, "idle")
    /\ UNCHANGED <<epochs, pool, callbackCount, permit, cur, curTarget, lastRun>>

-----------------------------------------------------------------------------
Drain(c) ==
    \/ Synchronized(c) \/ Acquire(c) \/ AcquireFails(c) \/ PopReady(c)
    \/ RunCallback(c) \/ Quarantine(c) \/ FinishRunning(c) \/ CountDown(c)
    \/ DrainEnds(c) \/ ReleaseOwner(c)

Next ==
    \/ \E o \in Objects : ReserveExact(o) \/ ReserveInRange(o) \/ DropPermit(o)
    \/ \E e \in 1 .. MaxEpoch : GracePeriod(e)
    \/ \E c \in Cpus : \/ \E o \in Objects : CallRcu(c, o)
                       \/ Poll(c) \/ Synchronize(c) \/ Drain(c)

Spec == Init /\ [][Next]_vars

\* A drain that was entered goes on, every CPU comes back to poll() on its
\* return to user mode, and grace periods end (module RcuEpoch).
Fairness ==
    /\ WF_vars(\E e \in 1 .. MaxEpoch : GracePeriod(e))
    /\ \A c \in Cpus : WF_vars(Drain(c)) /\ WF_vars(Poll(c))
FairSpec == Spec /\ Fairness

-----------------------------------------------------------------------------
Held(o) == permit[o] # NoSlot
InState(st) == {s \in Slots : slots[s].state = st}

\* The ring holds every Queued slot once and in the order of the targets, so
\* pop_ready may judge it by its head ("keeps target epochs monotonic in ring
\* order and makes a ready prefix sufficient").
QueueOrdered ==
    /\ {queue[i] : i \in 1 .. Len(queue)} = InState("Queued")
    /\ \A i, j \in 1 .. Len(queue) : i < j => slots[queue[i]].target < slots[queue[j]].target

\* No callback that runs or has run waited for an epoch that is not complete.
NeverEarly ==
    /\ lastRun <= completedEpoch
    /\ \A c \in Cpus : curTarget[c] <= completedEpoch

\* At most one drainer is between Acquire and ReleaseOwner, so every Running
\* slot belongs to the CPU that dequeued it.
SingleDrainer ==
    /\ \A c, d \in Cpus : {pc[c], pc[d]} \cap {"idle", "grace", "sampled"} = {} => c = d
    /\ InState("Running") \subseteq {cur[c] : c \in Cpus}

\* The counters the asserts of the pool rely on: stack_slots counts the used
\* stack slots, and CALLBACK_COUNT covers every callback not yet counted down.
PoolConsistent ==
    /\ stackSlots = Cardinality({s \in Slots : /\ slots[s].state # "Free"
                                               /\ slots[s].class = "KernelStack"})
    /\ callbackCount = Len(queue) + Cardinality({c \in Cpus : pc[c] \in {"run", "finish", "count"}})

\* An armed permit owns a Reserved slot of its class that no other permit
\* names: the asserts of call_rcu_class and of the permit's Drop.
PermitOwnsSlot ==
    \A o \in Objects : Held(o) =>
        /\ slots[permit[o]].state = "Reserved" /\ slots[permit[o]].class = Class(o)
        /\ o \in Stacks => permit[o] = o
        /\ \A q \in Objects : Held(q) /\ permit[q] = permit[o] => q = o

\* synchronize_rcu leaves no callback behind that was complete when it drained
\* ("Writers expect synchronize_rcu() to leave no completed callbacks behind").
SyncDrained ==
    \A c \in Cpus : pc[c] = "release" /\ op[c] = "sync" =>
        \A s \in InState("Queued") : slots[s].target > done[c]

\* Callbacks run in the order they were queued, and a quarantined slot is
\* never given out again.
Monotonic ==
    [][/\ lastRun <= lastRun'
       /\ InState("Quarantined") \subseteq InState("Quarantined")']_vars

\* Every queued callback is eventually dequeued by some poll().
CallbackRuns == \A s \in Slots : slots[s].state = "Queued" ~> slots[s].state # "Queued"

=============================================================================
