------------------------ MODULE RcuCallbacksProofs ------------------------
(* The safety of the callback pool for any number of CPUs, slots, objects and
   epochs.                                                                    *)
EXTENDS RcuCallbacks, FiniteSetTheorems, TLAPS

\* The leaves are for Zenon, but for those that name SMT.
USE Zenon

Points == {"idle", "grace", "sampled", "drain", "run", "finish", "count", "release"}
Draining(c) == pc[c] \notin {"idle", "grace", "sampled"}
Queued(s) == slots[s].state = "Queued"

Types ==
    /\ globalEpoch \in Nat /\ completedEpoch \in Nat /\ lastRun \in Nat
    /\ slots \in [Slots -> [state : States, class : {"General", "KernelStack"}, target : Nat]]
    /\ queue \in Seq(Slots)
    /\ permit \in [Objects -> Slots \cup {NoSlot}]
    /\ pc \in [Cpus -> Points]
    /\ op \in [Cpus -> {"poll", "sync"}]
    /\ done \in [Cpus -> Nat]
    /\ cur \in [Cpus -> Slots \cup {NoSlot}]
    /\ curTarget \in [Cpus -> Nat]

\* No epoch in circulation passes GLOBAL_EPOCH, and what a drainer has sampled
\* is complete.
EpochsBounded ==
    /\ completedEpoch <= globalEpoch
    /\ \A s \in Slots : slots[s].target <= globalEpoch
    /\ \A c \in Cpus : /\ done[c] <= globalEpoch
                       /\ pc[c] # "grace" => done[c] <= completedEpoch

\* One drainer, which owns the slot it runs.
DrainOwned ==
    /\ \A c \in Cpus : Draining(c) => drainOwner
    /\ \A c, d \in Cpus : Draining(c) /\ Draining(d) => c = d
    /\ \A c \in Cpus : pc[c] \in {"run", "finish"} => cur[c] \in Slots
    /\ \A c \in Cpus : pc[c] = "run" => slots[cur[c]].state = "Running"
    /\ \A c \in Cpus : pc[c] = "finish" => slots[cur[c]].state \in {"Running", "Quarantined"}
    /\ \A s \in Slots : slots[s].state = "Running" =>
           \E c \in Cpus : pc[c] \in {"run", "finish"} /\ cur[c] = s

\* The ring: QueueOrdered, slot by slot.
RingOrdered ==
    /\ \A i \in 1 .. Len(queue) : slots[queue[i]].state = "Queued"
    /\ \A s \in Slots : Queued(s) => \E i \in 1 .. Len(queue) : queue[i] = s
    /\ \A i, j \in 1 .. Len(queue) : i < j => slots[queue[i]].target < slots[queue[j]].target

\* What has run and what runs waited for earlier epochs than what is queued.
RunsInOrder ==
    /\ \A s \in Slots : Queued(s) => lastRun <= slots[s].target
    /\ \A c \in Cpus : pc[c] = "run" =>
           /\ lastRun <= curTarget[c]
           /\ \A s \in Slots : Queued(s) => curTarget[c] <= slots[s].target

IInv ==
    /\ Types /\ EpochsBounded /\ NeverEarly /\ DrainOwned /\ RingOrdered /\ RunsInOrder
    /\ PermitOwnsSlot /\ SyncDrained

-----------------------------------------------------------------------------
\* The places of the ring, the stack slots and the value for none are distinct.
LEMMA SlotFacts ==
    /\ NoSlot \notin Slots
    /\ \A o \in Stacks : o \in Slots /\ o \in Objects /\ o # NoSlot
    /\ \A o \in General : o \in Objects /\ o \notin Stacks
    /\ GeneralSlots \subseteq Slots
BY CapacityAssumption, ObjectAssumption, SMTT(30) DEF Slots, Stacks, GeneralSlots, NoSlot, Objects

\* The invariant holds of the empty pool.
LEMMA InitInv == Init => IInv
<1> SUFFICES ASSUME Init PROVE IInv
  OBVIOUS
<1>1. Types
  <2>1. slots \in [Slots -> [state : States, class : {"General", "KernelStack"}, target : Nat]]
    BY DEF Init, EmptySlot, States
  <2> QED BY <2>1, SMTT(30) DEF Init, Types, Points
<1>2. \A s \in Slots : slots[s].state = "Free" /\ slots[s].target = 0
  BY DEF Init, EmptySlot
<1>3. \A c \in Cpus : pc[c] = "idle" /\ done[c] = 0 /\ curTarget[c] = 0
  BY DEF Init
<1>4. queue = << >> /\ Len(queue) = 0 /\ \A o \in Objects : permit[o] = NoSlot
  BY DEF Init
<1>5. globalEpoch = 1 /\ completedEpoch = 1 /\ lastRun = 0
  BY DEF Init
<1>6. EpochsBounded /\ NeverEarly /\ RunsInOrder
  BY <1>2, <1>3, <1>5, SMTT(30) DEF EpochsBounded, NeverEarly, RunsInOrder, Queued
<1>7. DrainOwned
  BY <1>2, <1>3 DEF DrainOwned, Draining
<1>8. RingOrdered
  BY <1>2, <1>4, SMTT(30) DEF RingOrdered, Queued
<1>9. PermitOwnsSlot /\ SyncDrained
  BY <1>2, <1>3, <1>4 DEF PermitOwnsSlot, Held, SyncDrained, InState
<1> QED BY <1>1, <1>6, <1>7, <1>8, <1>9 DEF IInv

-----------------------------------------------------------------------------
(* Permits: a slot that is Free or Reserved is neither in the ring nor run.  *)

PoolFrame == UNCHANGED <<epochs, queue, drainOwner, ctx, lastRun>>

\* A free or reserved slot may become another such slot; its permit is judged apart.
LEMMA IdleSlot ==
    ASSUME IInv, PoolFrame, NEW s \in Slots, slots[s].state \in {"Free", "Reserved"},
           NEW v \in [state : {"Free", "Reserved"}, class : {"General", "KernelStack"},
                      target : Nat],
           v.target <= globalEpoch,
           slots' = [slots EXCEPT ![s] = v],
           permit' \in [Objects -> Slots \cup {NoSlot}]
    PROVE  /\ Types' /\ EpochsBounded' /\ NeverEarly' /\ DrainOwned' /\ RingOrdered'
           /\ RunsInOrder' /\ SyncDrained'
<1>1. /\ slots'[s] = v
      /\ \A t \in Slots : t # s => slots'[t] = slots[t]
      /\ slots' \in [Slots -> [state : States, class : {"General", "KernelStack"}, target : Nat]]
  BY DEF IInv, Types, States
<1>2. v.state # "Queued" /\ v.state # "Running" /\ ~Queued(s) /\ slots[s].state # "Running"
      /\ slots[s].state # "Quarantined" /\ v.state # "Quarantined"
  BY DEF Queued
<1>3. \A t \in Slots : /\ slots'[t].state = "Queued" <=> slots[t].state = "Queued"
                       /\ slots'[t].state = "Running" <=> slots[t].state = "Running"
                       /\ slots[t].state \notin {"Free", "Reserved"} => slots'[t] = slots[t]
  <2> SUFFICES ASSUME NEW t \in Slots
               PROVE  /\ slots'[t].state = "Queued" <=> slots[t].state = "Queued"
                      /\ slots'[t].state = "Running" <=> slots[t].state = "Running"
                      /\ slots[t].state \notin {"Free", "Reserved"} => slots'[t] = slots[t]
    OBVIOUS
  <2>1. CASE t = s
    BY <2>1, <1>1, <1>2 DEF Queued
  <2>2. CASE t # s
    BY <2>2, <1>1
  <2> QED BY <2>1, <2>2
<1>4. Types'
  BY <1>1 DEF IInv, Types, PoolFrame, epochs, ctx
<1>5. EpochsBounded' /\ NeverEarly'
  BY <1>1 DEF IInv, Types, EpochsBounded, NeverEarly, PoolFrame, epochs, ctx
<1>6. DrainOwned'
  BY <1>3, SMTT(30) DEF IInv, DrainOwned, Draining, PoolFrame, ctx
<1>7. RingOrdered'
  <2>1. \A i \in 1 .. Len(queue) : queue[i] \in Slots
    BY SMTT(30) DEF IInv, Types
  <2> QED BY <1>3, <2>1, SMTT(30) DEF IInv, RingOrdered, Queued, PoolFrame
<1>8. RunsInOrder'
  BY <1>3 DEF IInv, RunsInOrder, Queued, PoolFrame, ctx
<1>9. SyncDrained'
  BY <1>3 DEF IInv, SyncDrained, InState, PoolFrame, ctx
<1> QED BY <1>4, <1>5, <1>6, <1>7, <1>8, <1>9

\* Mark makes a free slot a reserved one of the class.
LEMMA MarkIdle ==
    ASSUME IInv, NEW s \in Slots, slots[s].state = "Free",
           NEW class \in {"General", "KernelStack"}, Mark(s, class)
    PROVE  \E v \in [state : {"Free", "Reserved"}, class : {"General", "KernelStack"},
                      target : Nat] :
              /\ v.target <= globalEpoch /\ v.state = "Reserved" /\ v.class = class
              /\ slots' = [slots EXCEPT ![s] = v]
<1> DEFINE v == [slots[s] EXCEPT !.state = "Reserved", !.class = class]
<1>1. slots[s] \in [state : States, class : {"General", "KernelStack"}, target : Nat]
      /\ slots[s].target <= globalEpoch
  BY DEF IInv, Types, EpochsBounded
<1>2. v \in [state : {"Free", "Reserved"}, class : {"General", "KernelStack"}, target : Nat]
  BY <1>1, Zenon
<1>3. slots' = [slots EXCEPT ![s] = v]
  BY <1>1, Zenon DEF Mark, IInv, Types
<1> QED BY <1>1, <1>2, <1>3, Zenon

\* A permit takes a free slot, that of a stack the slot of its stack.
LEMMA ReserveKeeps ==
    ASSUME IInv, PoolFrame, NEW o \in Objects, permit[o] = NoSlot,
           NEW s \in Slots, slots[s].state = "Free", o \in Stacks => s = o,
           Mark(s, Class(o)), permit' = [permit EXCEPT ![o] = s]
    PROVE  IInv'
<1>1. Class(o) \in {"General", "KernelStack"}
  BY DEF Class
<1>2. PICK v \in [state : {"Free", "Reserved"}, class : {"General", "KernelStack"},
                  target : Nat] :
              /\ v.target <= globalEpoch /\ v.state = "Reserved" /\ v.class = Class(o)
              /\ slots' = [slots EXCEPT ![s] = v]
  BY <1>1, MarkIdle
<1>3. permit' \in [Objects -> Slots \cup {NoSlot}]
  BY DEF IInv, Types
<1>4. /\ Types' /\ EpochsBounded' /\ NeverEarly' /\ DrainOwned' /\ RingOrdered'
      /\ RunsInOrder' /\ SyncDrained'
  BY <1>2, <1>3, IdleSlot, Zenon
<1>5. /\ slots'[s] = v /\ permit'[o] = s
      /\ \A t \in Slots : t # s => slots'[t] = slots[t]
      /\ \A q \in Objects : q # o => permit'[q] = permit[q]
      /\ \A q \in Objects : permit[q] # NoSlot => permit[q] \in Slots
  BY <1>2 DEF IInv, Types
<1>6. \A q \in Objects : Held(q) => permit[q] # s
  BY DEF IInv, PermitOwnsSlot
<1>7. PermitOwnsSlot'
  BY <1>2, <1>5, <1>6, SMTT(30) DEF IInv, PermitOwnsSlot, Held
<1> QED BY <1>4, <1>7 DEF IInv

\* reserve_exact, for one stack.
LEMMA ReserveExactKeeps ==
    ASSUME IInv, NEW o \in Objects, ReserveExact(o)
    PROVE  IInv'
<1>1. PoolFrame /\ o \in Slots /\ Class(o) = "KernelStack"
  BY SlotFacts DEF ReserveExact, PoolFrame, Class
<1> QED BY <1>1, ReserveKeeps, Zenon DEF ReserveExact

\* reserve_in_range, for a free slot of the general range.
LEMMA ReserveInRangeKeeps ==
    ASSUME IInv, NEW o \in Objects, ReserveInRange(o)
    PROVE  IInv'
<1>1. PoolFrame /\ o \notin Stacks /\ Class(o) = "General"
  BY SlotFacts DEF ReserveInRange, PoolFrame, Class
<1>2. PICK s \in FreeGeneral : Mark(s, "General") /\ permit' = [permit EXCEPT ![o] = s]
  BY Zenon DEF ReserveInRange
<1>3. s \in Slots /\ slots[s].state = "Free"
  BY <1>2, SlotFacts DEF FreeGeneral
<1> QED BY <1>1, <1>2, <1>3, ReserveKeeps, Zenon DEF ReserveInRange

\* A dropped permit frees the slot it owned.
LEMMA DropPermitKeeps ==
    ASSUME IInv, NEW o \in Objects, DropPermit(o)
    PROVE  IInv'
<1> DEFINE s == permit[o]
<1>1. s \in Slots /\ slots[s].state = "Reserved" /\ PoolFrame
      /\ slots' = [slots EXCEPT ![s] = EmptySlot]
  BY DEF DropPermit, PoolFrame, IInv, Types
<1>2. /\ EmptySlot \in [state : {"Free", "Reserved"}, class : {"General", "KernelStack"},
                         target : Nat]
      /\ EmptySlot.target <= globalEpoch
  BY SMTT(30) DEF EmptySlot, IInv, Types
<1>3. permit' \in [Objects -> Slots \cup {NoSlot}]
  BY DEF DropPermit, IInv, Types
<1>4. /\ Types' /\ EpochsBounded' /\ NeverEarly' /\ DrainOwned' /\ RingOrdered'
      /\ RunsInOrder' /\ SyncDrained'
  BY <1>1, <1>2, <1>3, IdleSlot, Zenon
<1>5. /\ permit'[o] = NoSlot
      /\ \A t \in Slots : t # s => slots'[t] = slots[t]
      /\ \A q \in Objects : q # o => permit'[q] = permit[q]
      /\ \A q \in Objects : permit[q] # NoSlot => permit[q] \in Slots
  BY <1>1 DEF DropPermit, IInv, Types
<1>6. \A q \in Objects : q # o /\ Held(q) => permit[q] # s
  BY <1>1, SlotFacts DEF IInv, PermitOwnsSlot, Held
<1>7. PermitOwnsSlot'
  BY <1>5, <1>6, SMTT(30) DEF IInv, PermitOwnsSlot, Held
<1> QED BY <1>4, <1>7 DEF IInv

-----------------------------------------------------------------------------
(* Steps that leave the pool alone.                                          *)

LEMMA PoolUnchanged ==
    ASSUME IInv, UNCHANGED <<slots, queue, permit>>
    PROVE  RingOrdered' /\ PermitOwnsSlot'
BY SMTT(30) DEF IInv, RingOrdered, Queued, PermitOwnsSlot, Held

\* While one CPU drains, no other is past the attempt to become the drainer.
LEMMA DrainerAlone ==
    ASSUME IInv, NEW c \in Cpus, Draining(c)
    PROVE  \A d \in Cpus : d # c => pc[d] \in {"idle", "grace", "sampled"}
BY DEF IInv, DrainOwned, Draining

\* The drainer moves while it has no callback dequeued.
LEMMA DrainerMoves ==
    ASSUME IInv, NEW c \in Cpus, pc[c] \in {"drain", "count", "release"},
           NEW l \in {"drain", "release", "idle"}, pc' = [pc EXCEPT ![c] = l],
           l # "idle" => drainOwner' = drainOwner, UNCHANGED <<slots, cur>>
    PROVE  DrainOwned'
<1>1. \A d \in Cpus : d # c => pc[d] \in {"idle", "grace", "sampled"}
  BY DrainerAlone DEF Draining
<1>2. drainOwner
  BY DEF IInv, DrainOwned, Draining
<1>3. pc'[c] = l /\ \A d \in Cpus : d # c => pc'[d] = pc[d]
  BY DEF IInv, Types
<1>4. \A d \in Cpus : /\ pc[d] \notin {"run", "finish"} /\ pc'[d] \notin {"run", "finish"}
                      /\ pc'[d] \notin {"idle", "grace", "sampled"} => d = c /\ drainOwner'
  BY <1>1, <1>2, <1>3, Zenon
<1>5. \A s \in Slots : slots'[s].state # "Running"
  BY <1>4 DEF IInv, DrainOwned
<1> QED BY <1>4, <1>5 DEF DrainOwned, Draining

\* A CPU that does not drain moves between points where it does not.
LEMMA DrainUnchanged ==
    ASSUME IInv, NEW c \in Cpus, ~Draining(c), NEW l \in {"idle", "grace", "sampled"},
           pc' = [pc EXCEPT ![c] = l], UNCHANGED <<slots, cur, drainOwner>>
    PROVE  DrainOwned'
<1>1. \A d \in Cpus : IF d = c THEN pc'[d] = l ELSE pc'[d] = pc[d]
  BY DEF IInv, Types
<1>2. pc[c] \in {"idle", "grace", "sampled"}
  BY DEF Draining
<1>3. \A d \in Cpus : /\ pc[d] \notin {"idle", "grace", "sampled"} => pc'[d] = pc[d]
                      /\ pc'[d] \notin {"idle", "grace", "sampled"} => pc'[d] = pc[d]
  BY <1>1, <1>2
<1>4. /\ \A d \in Cpus : Draining(d)' => drainOwner'
      /\ \A d, e \in Cpus : Draining(d)' /\ Draining(e)' => d = e
  BY <1>3 DEF IInv, DrainOwned, Draining
<1>5. /\ \A d \in Cpus : pc'[d] \in {"run", "finish"} => cur'[d] \in Slots
      /\ \A d \in Cpus : pc'[d] = "run" => slots'[cur'[d]].state = "Running"
      /\ \A d \in Cpus : pc'[d] = "finish" =>
             slots'[cur'[d]].state \in {"Running", "Quarantined"}
  BY <1>3, SMTT(30) DEF IInv, DrainOwned
<1>6. ASSUME NEW s \in Slots, slots'[s].state = "Running"
      PROVE  \E d \in Cpus : pc'[d] \in {"run", "finish"} /\ cur'[d] = s
  <2>1. PICK d \in Cpus : pc[d] \in {"run", "finish"} /\ cur[d] = s
    BY <1>6 DEF IInv, DrainOwned
  <2>2. pc'[d] = pc[d]
    BY <2>1, <1>1, <1>2
  <2> QED BY <2>1, <2>2
<1> QED BY <1>4, <1>5, <1>6 DEF DrainOwned

\* A grace period ends: completedEpoch rises.
LEMMA GracePeriodKeeps ==
    ASSUME IInv, NEW e \in 1 .. MaxEpoch, GracePeriod(e)
    PROVE  IInv'
<1>1. UNCHANGED <<slots, queue, permit>>
  BY DEF GracePeriod, pool
<1>2. Types'
  BY BoundAssumption, SMTT(30) DEF GracePeriod, At, Goto, Points, IInv, Types, epochs, pool, ctx
<1>3. EpochsBounded' /\ NeverEarly'
  BY SMTT(30) DEF GracePeriod, At, Goto, Points, IInv, Types, epochs, pool, ctx, EpochsBounded, NeverEarly
<1>4. DrainOwned'
  BY DEF GracePeriod, At, Goto, Points, IInv, Types, epochs, pool, ctx, DrainOwned, Draining
<1>5. RunsInOrder'
  BY DEF GracePeriod, At, Goto, Points, IInv, Types, epochs, pool, ctx, RunsInOrder, Queued, EpochsBounded
<1>6. SyncDrained'
  BY DEF GracePeriod, At, Goto, Points, IInv, Types, epochs, pool, ctx, SyncDrained, InState, EpochsBounded
<1> QED BY <1>1, <1>2, <1>3, <1>4, <1>5, <1>6, PoolUnchanged DEF IInv

\* poll samples the completed epoch and its budget.
LEMMA PollKeeps ==
    ASSUME IInv, NEW c \in Cpus, Poll(c)
    PROVE  IInv'
<1>1. UNCHANGED <<slots, queue, permit>>
  BY DEF Poll, pool
<1>2. Types'
  BY BoundAssumption DEF Poll, At, Goto, Points, IInv, Types, epochs, pool, ctx
<1>3. EpochsBounded' /\ NeverEarly'
  BY SMTT(30) DEF Poll, At, Goto, Points, IInv, Types, epochs, pool, ctx, EpochsBounded, NeverEarly
<1>4. DrainOwned'
  BY DrainUnchanged, Zenon DEF Poll, At, Goto, Draining, pool
<1>5. RunsInOrder'
  BY DEF Poll, At, Goto, Points, IInv, Types, epochs, pool, ctx, RunsInOrder, Queued, EpochsBounded
<1>6. SyncDrained'
  BY DEF Poll, At, Goto, Points, IInv, Types, epochs, pool, ctx, SyncDrained, InState, EpochsBounded
<1> QED BY <1>1, <1>2, <1>3, <1>4, <1>5, <1>6, PoolUnchanged DEF IInv

\* synchronize_rcu notes its target.
LEMMA SynchronizeKeeps ==
    ASSUME IInv, NEW c \in Cpus, Synchronize(c)
    PROVE  IInv'
<1>1. UNCHANGED <<slots, queue, permit>>
  BY DEF Synchronize, pool
<1>2. Types'
  BY BoundAssumption, SMTT(30) DEF Synchronize, At, Goto, Points, IInv, Types, epochs, pool, ctx
<1>3. EpochsBounded' /\ NeverEarly'
  BY SMTT(30) DEF Synchronize, At, Goto, Points, IInv, Types, epochs, pool, ctx, EpochsBounded, NeverEarly
<1>4. DrainOwned'
  BY DrainUnchanged, Zenon DEF Synchronize, At, Goto, Draining, pool
<1>5. RunsInOrder'
  BY DEF Synchronize, At, Goto, Points, IInv, Types, epochs, pool, ctx, RunsInOrder, Queued, EpochsBounded
<1>6. SyncDrained'
  BY DEF Synchronize, At, Goto, Points, IInv, Types, epochs, pool, ctx, SyncDrained, InState, EpochsBounded
<1> QED BY <1>1, <1>2, <1>3, <1>4, <1>5, <1>6, PoolUnchanged DEF IInv

\* synchronize_rcu returns.
LEMMA SynchronizedKeeps ==
    ASSUME IInv, NEW c \in Cpus, Synchronized(c)
    PROVE  IInv'
<1>1. UNCHANGED <<slots, queue, permit>>
  BY DEF Synchronized, pool
<1>2. Types'
  BY BoundAssumption DEF Synchronized, At, Goto, Points, IInv, Types, epochs, pool, ctx
<1>3. EpochsBounded' /\ NeverEarly'
  BY SMTT(30) DEF Synchronized, At, Goto, Points, IInv, Types, epochs, pool, ctx, EpochsBounded, NeverEarly
<1>4. DrainOwned'
  BY SMTT(30) DEF Synchronized, At, Goto, Points, IInv, Types, epochs, pool, ctx, DrainOwned, Draining
<1>5. RunsInOrder'
  BY DEF Synchronized, At, Goto, Points, IInv, Types, epochs, pool, ctx, RunsInOrder, Queued, EpochsBounded
<1>6. SyncDrained'
  BY DEF Synchronized, At, Goto, Points, IInv, Types, epochs, pool, ctx, SyncDrained, InState, EpochsBounded
<1> QED BY <1>1, <1>2, <1>3, <1>4, <1>5, <1>6, PoolUnchanged DEF IInv

\* A CPU becomes the drainer.
LEMMA AcquireKeeps ==
    ASSUME IInv, NEW c \in Cpus, Acquire(c)
    PROVE  IInv'
<1>1. UNCHANGED <<slots, queue, permit>>
  BY DEF Acquire, pool
<1>2. Types'
  BY BoundAssumption DEF Acquire, At, Goto, Points, IInv, Types, epochs, pool, ctx
<1>3. EpochsBounded' /\ NeverEarly'
  BY DEF Acquire, At, Goto, Points, IInv, Types, epochs, pool, ctx, EpochsBounded, NeverEarly
<1>4. DrainOwned'
  <2>1. \A d \in Cpus : pc[d] \in {"idle", "grace", "sampled"}
    BY DEF Acquire, IInv, DrainOwned, Draining
  <2>2. /\ drainOwner' = TRUE /\ slots' = slots /\ pc'[c] = "drain"
        /\ \A d \in Cpus : d # c => pc'[d] = pc[d]
    BY DEF Acquire, Goto, pool, IInv, Types
  <2>3. \A d \in Cpus : /\ pc[d] \notin {"run", "finish"} /\ pc'[d] \notin {"run", "finish"}
                        /\ pc'[d] \notin {"idle", "grace", "sampled"} => d = c
    BY <2>1, <2>2
  <2>4. \A s \in Slots : slots'[s].state # "Running"
    BY <2>2, <2>3 DEF IInv, DrainOwned
  <2> QED BY <2>2, <2>3, <2>4 DEF DrainOwned, Draining
<1>5. RunsInOrder'
  BY DEF Acquire, At, Goto, Points, IInv, Types, epochs, pool, ctx, RunsInOrder, Queued, EpochsBounded
<1>6. SyncDrained'
  BY DEF Acquire, At, Goto, Points, IInv, Types, epochs, pool, ctx, SyncDrained, InState, EpochsBounded
<1> QED BY <1>1, <1>2, <1>3, <1>4, <1>5, <1>6, PoolUnchanged DEF IInv

\* A poll that finds another drainer gives up.
LEMMA AcquireFailsKeeps ==
    ASSUME IInv, NEW c \in Cpus, AcquireFails(c)
    PROVE  IInv'
<1>1. UNCHANGED <<slots, queue, permit>>
  BY DEF AcquireFails, pool
<1>2. Types'
  BY BoundAssumption DEF AcquireFails, At, Goto, Points, IInv, Types, epochs, pool, ctx
<1>3. EpochsBounded' /\ NeverEarly'
  BY SMTT(30) DEF AcquireFails, At, Goto, Points, IInv, Types, epochs, pool, ctx, EpochsBounded, NeverEarly
<1>4. DrainOwned'
  BY DrainUnchanged, Zenon DEF AcquireFails, At, Goto, Draining, pool
<1>5. RunsInOrder'
  BY DEF AcquireFails, At, Goto, Points, IInv, Types, epochs, pool, ctx, RunsInOrder, Queued, EpochsBounded
<1>6. SyncDrained'
  BY DEF AcquireFails, At, Goto, Points, IInv, Types, epochs, pool, ctx, SyncDrained, InState, EpochsBounded
<1> QED BY <1>1, <1>2, <1>3, <1>4, <1>5, <1>6, PoolUnchanged DEF IInv

\* The callback popped runs, outside the lock.
LEMMA RunCallbackKeeps ==
    ASSUME IInv, NEW c \in Cpus, RunCallback(c)
    PROVE  IInv'
<1>1. UNCHANGED <<slots, queue, permit>>
  BY DEF RunCallback, pool
<1>2. Types'
  BY BoundAssumption DEF RunCallback, At, Goto, Points, IInv, Types, epochs, pool, ctx
<1>3. EpochsBounded' /\ NeverEarly'
  BY DEF RunCallback, At, Goto, Points, IInv, Types, epochs, pool, ctx, EpochsBounded, NeverEarly
<1>4. DrainOwned'
  BY SMTT(30) DEF RunCallback, At, Goto, Points, IInv, Types, epochs, pool, ctx, DrainOwned, Draining
<1>5. RunsInOrder'
  <2>1. pc[c] = "run" /\ pc'[c] = "finish" /\ lastRun' = curTarget[c] /\ slots' = slots
    BY DEF RunCallback, At, Goto, pool, IInv, Types
  <2>2. \A d \in Cpus : pc'[d] # "run"
    <3>1. \A d \in Cpus : d # c => pc[d] \in {"idle", "grace", "sampled"}
      BY <2>1, DrainerAlone DEF Draining
    <3>2. \A d \in Cpus : d # c => pc'[d] = pc[d]
      BY DEF RunCallback, Goto, IInv, Types
    <3> QED BY <2>1, <3>1, <3>2
  <2> QED BY <2>1, <2>2 DEF IInv, RunsInOrder, Queued
<1>6. SyncDrained'
  BY DEF RunCallback, At, Goto, Points, IInv, Types, epochs, pool, ctx, SyncDrained, InState, EpochsBounded
<1> QED BY <1>1, <1>2, <1>3, <1>4, <1>5, <1>6, PoolUnchanged DEF IInv

\* The pending counter falls after the callback.
LEMMA CountDownKeeps ==
    ASSUME IInv, NEW c \in Cpus, CountDown(c)
    PROVE  IInv'
<1>1. UNCHANGED <<slots, queue, permit>>
  BY DEF CountDown, pool
<1>2. Types'
  BY BoundAssumption DEF CountDown, At, Goto, Points, IInv, Types, epochs, pool, ctx
<1>3. EpochsBounded' /\ NeverEarly'
  BY DEF CountDown, At, Goto, Points, IInv, Types, epochs, pool, ctx, EpochsBounded, NeverEarly
<1>4. DrainOwned'
  BY DrainerMoves, Zenon DEF CountDown, At, Goto, pool
<1>5. RunsInOrder'
  BY DEF CountDown, At, Goto, Points, IInv, Types, epochs, pool, ctx, RunsInOrder, Queued, EpochsBounded
<1>6. SyncDrained'
  BY DEF CountDown, At, Goto, Points, IInv, Types, epochs, pool, ctx, SyncDrained, InState, EpochsBounded
<1> QED BY <1>1, <1>2, <1>3, <1>4, <1>5, <1>6, PoolUnchanged DEF IInv

\* If the head of the ring is not ready, nothing in the ring is.
LEMMA NothingReady ==
    ASSUME IInv, NEW c \in Cpus, ~Ready(c), NEW s \in Slots, Queued(s)
    PROVE  slots[s].target > done[c]
<1>1. PICK i \in 1 .. Len(queue) : queue[i] = s
  BY DEF IInv, RingOrdered
<1>2. /\ Len(queue) \in Nat /\ queue # << >> /\ Head(queue) = queue[1] /\ 1 \in 1 .. Len(queue)
      /\ queue[1] \in Slots
  BY <1>1, SMTT(30) DEF IInv, Types
<1>3. slots[queue[1]].target > done[c] /\ slots[queue[1]].target \in Nat
      /\ slots[s].target \in Nat /\ done[c] \in Nat
  BY <1>2, SMTT(30) DEF Ready, IInv, Types
<1>4. slots[queue[1]].target <= slots[s].target
  BY <1>1, <1>2, <1>3, SMTT(30) DEF IInv, RingOrdered
<1> QED BY <1>3, <1>4, SMTT(30)

\* The drain finds nothing ready, or its budget is spent.
LEMMA DrainEndsKeeps ==
    ASSUME IInv, NEW c \in Cpus, DrainEnds(c)
    PROVE  IInv'
<1>1. UNCHANGED <<slots, queue, permit>>
  BY DEF DrainEnds, pool
<1>2. Types'
  BY BoundAssumption DEF DrainEnds, At, Goto, Points, IInv, Types, epochs, pool, ctx
<1>3. EpochsBounded' /\ NeverEarly'
  BY DEF DrainEnds, At, Goto, Points, IInv, Types, epochs, pool, ctx, EpochsBounded, NeverEarly
<1>4. DrainOwned'
  BY DrainerMoves, Zenon DEF DrainEnds, At, Goto, pool
<1>5. RunsInOrder'
  BY DEF DrainEnds, At, Goto, Points, IInv, Types, epochs, pool, ctx, RunsInOrder, Queued, EpochsBounded
<1>6. SyncDrained'
  <2>1. /\ UNCHANGED <<slots, op, done>> /\ pc[c] = "drain"
        /\ \A d \in Cpus : d # c => pc'[d] = pc[d]
    BY DEF DrainEnds, At, Goto, pool, IInv, Types
  <2>2. ASSUME op[c] = "sync", NEW s \in Slots, Queued(s)
        PROVE  slots[s].target > done[c]
    BY <2>1, <2>2, NothingReady DEF DrainEnds, HasBudget
  <2>3. ASSUME NEW d \in Cpus, d # c, pc'[d] = "release", op'[d] = "sync",
               NEW s \in InState("Queued")'
        PROVE  slots'[s].target > done'[d]
    BY <2>1, <2>3 DEF IInv, SyncDrained, InState
  <2> QED BY <2>1, <2>2, <2>3 DEF SyncDrained, InState, Queued
<1> QED BY <1>1, <1>2, <1>3, <1>4, <1>5, <1>6, PoolUnchanged DEF IInv

\* The drainer gives up ownership.
LEMMA ReleaseOwnerKeeps ==
    ASSUME IInv, NEW c \in Cpus, ReleaseOwner(c)
    PROVE  IInv'
<1>1. UNCHANGED <<slots, queue, permit>>
  BY DEF ReleaseOwner, pool
<1>2. Types'
  BY BoundAssumption DEF ReleaseOwner, At, Goto, Points, IInv, Types, epochs, pool, ctx
<1>3. EpochsBounded' /\ NeverEarly'
  BY SMTT(30) DEF ReleaseOwner, At, Goto, Points, IInv, Types, epochs, pool, ctx, EpochsBounded, NeverEarly
<1>4. DrainOwned'
  BY DrainerMoves, Zenon DEF ReleaseOwner, At, Goto, pool
<1>5. RunsInOrder'
  BY DEF ReleaseOwner, At, Goto, Points, IInv, Types, epochs, pool, ctx, RunsInOrder, Queued, EpochsBounded
<1>6. SyncDrained'
  BY DEF ReleaseOwner, At, Goto, Points, IInv, Types, epochs, pool, ctx, SyncDrained, InState, EpochsBounded
<1> QED BY <1>1, <1>2, <1>3, <1>4, <1>5, <1>6, PoolUnchanged DEF IInv

-----------------------------------------------------------------------------
(* Steps that move a slot into the ring, out of it and back to the pool.      *)

SlotType == [state : States, class : {"General", "KernelStack"}, target : Nat]

\* What an update of one slot leaves.
LEMMA SlotUpdate ==
    ASSUME NEW r \in SlotType, NEW st \in States, NEW e \in Nat
    PROVE  LET v == [r EXCEPT !.state = st, !.target = e]
           IN v \in SlotType /\ v.state = st /\ v.target = e /\ v.class = r.class
BY Zenon DEF SlotType

\* call_rcu queues the slot of its permit with a target above every queued one.
LEMMA CallRcuKeeps ==
    ASSUME IInv, NEW c \in Cpus, NEW o \in Objects, CallRcu(c, o)
    PROVE  IInv'
<1> DEFINE s == permit[o]
           e == globalEpoch + 1
           v == [slots[s] EXCEPT !.state = "Queued", !.target = e]
<1>1. /\ s \in Slots /\ slots[s].state = "Reserved" /\ slots[s] \in SlotType
      /\ globalEpoch \in Nat /\ globalEpoch' = globalEpoch + 1
      /\ slots' = [slots EXCEPT ![s] = v] /\ queue' = Append(queue, s)
      /\ permit' = [permit EXCEPT ![o] = NoSlot]
      /\ UNCHANGED <<completedEpoch, drainOwner, pc, op, done, cur, curTarget, lastRun>>
  BY Zenon DEF CallRcu, ctx, IInv, Types, SlotType
<1>2. v \in SlotType /\ v.state = "Queued" /\ v.target = globalEpoch + 1
  <2>1. "Queued" \in States /\ e \in Nat
    BY <1>1, SMTT(30) DEF States
  <2>2. e = globalEpoch + 1 /\ slots[s] \in SlotType
    BY <1>1
  <2> HIDE DEF e, s
  <2>3. v \in SlotType /\ v.state = "Queued" /\ v.target = e
    BY <2>1, <2>2, Zenon DEF SlotType
  <2> QED BY <2>2, <2>3
<1>3. /\ slots'[s] = v /\ slots' \in [Slots -> SlotType]
      /\ \A t \in Slots : t # s => slots'[t] = slots[t]
  BY <1>1, <1>2 DEF IInv, Types, SlotType
<1>4. /\ Len(queue) \in Nat /\ queue' \in Seq(Slots) /\ Len(queue') = Len(queue) + 1
      /\ \A i \in 1 .. Len(queue) : queue'[i] = queue[i] /\ queue[i] \in Slots
      /\ queue'[Len(queue) + 1] = s
  BY <1>1, SMTT(30) DEF IInv, Types
<1> HIDE DEF s, v
<1>5. Types'
  BY <1>1, <1>3, <1>4, SMTT(30) DEF IInv, Types, SlotType
<1>6. EpochsBounded' /\ NeverEarly'
  BY <1>1, <1>2, <1>3, SMTT(30) DEF IInv, Types, EpochsBounded, NeverEarly
<1>7. DrainOwned'
  <2>1. \A t \in Slots : slots[t].state # "Reserved" => slots'[t] = slots[t]
    BY <1>1, <1>3
  <2>2. \A t \in Slots : slots'[t].state = "Running" => slots[t].state = "Running"
    BY <1>2, <1>3
  <2>3. /\ \A d \in Cpus : Draining(d)' => drainOwner'
        /\ \A d, f \in Cpus : Draining(d)' /\ Draining(f)' => d = f
        /\ \A d \in Cpus : pc'[d] \in {"run", "finish"} => cur'[d] \in Slots
    BY <1>1 DEF IInv, DrainOwned, Draining
  <2>4. /\ \A d \in Cpus : pc'[d] = "run" => slots'[cur'[d]].state = "Running"
        /\ \A d \in Cpus : pc'[d] = "finish" =>
               slots'[cur'[d]].state \in {"Running", "Quarantined"}
    BY <1>1, <2>1, SMTT(30) DEF IInv, DrainOwned
  <2>5. \A t \in Slots : slots'[t].state = "Running" =>
            \E d \in Cpus : pc'[d] \in {"run", "finish"} /\ cur'[d] = t
    BY <1>1, <2>2, SMTT(30) DEF IInv, DrainOwned
  <2> QED BY <2>3, <2>4, <2>5 DEF DrainOwned
<1>8. RingOrdered'
  <2>1. \A i \in 1 .. Len(queue) : queue[i] # s
    BY <1>1 DEF IInv, RingOrdered
  <2>2. \A i \in 1 .. Len(queue') : slots'[queue'[i]].state = "Queued"
    <3> SUFFICES ASSUME NEW i \in 1 .. Len(queue') PROVE slots'[queue'[i]].state = "Queued"
      OBVIOUS
    <3>1. CASE i \in 1 .. Len(queue)
      BY <3>1, <2>1, <1>3, <1>4, SMTT(30) DEF IInv, RingOrdered
    <3>2. CASE i = Len(queue) + 1
      BY <3>2, <1>2, <1>3, <1>4
    <3> QED BY <3>1, <3>2, <1>4, SMTT(30)
  <2>3. ASSUME NEW t \in Slots, slots'[t].state = "Queued"
        PROVE  \E i \in 1 .. Len(queue') : queue'[i] = t
    <3>1. CASE t = s
      BY <3>1, <1>4, SMTT(30)
    <3>2. CASE t # s
      <4>1. PICK i \in 1 .. Len(queue) : queue[i] = t
        BY <3>2, <2>3, <1>3 DEF IInv, RingOrdered, Queued
      <4> QED BY <4>1, <1>4, SMTT(30)
    <3> QED BY <3>1, <3>2
  <2>4. ASSUME NEW i \in 1 .. Len(queue'), NEW j \in 1 .. Len(queue'), i < j
        PROVE  slots'[queue'[i]].target < slots'[queue'[j]].target
    <3>1. i \in 1 .. Len(queue) /\ slots'[queue'[i]] = slots[queue[i]]
      BY <2>1, <2>4, <1>3, <1>4, SMTT(30)
    <3>2. CASE j \in 1 .. Len(queue)
      BY <3>1, <3>2, <2>1, <2>4, <1>3, <1>4, SMTT(30) DEF IInv, RingOrdered
    <3>3. CASE j = Len(queue) + 1
      <4>1. slots[queue[i]].target <= globalEpoch /\ slots[queue[i]].target \in Nat
        BY <3>1, <1>4 DEF IInv, Types, EpochsBounded
      <4> QED BY <4>1, <3>1, <3>3, <1>1, <1>2, <1>3, <1>4, SMTT(30)
    <3> QED BY <3>2, <3>3, <1>4, SMTT(30)
  <2> QED BY <2>2, <2>3, <2>4 DEF RingOrdered, Queued
<1>9. RunsInOrder'
  <2>1. lastRun <= globalEpoch /\ \A d \in Cpus : curTarget[d] <= globalEpoch
    BY SMTT(30) DEF IInv, Types, NeverEarly, EpochsBounded
  <2>2. ASSUME NEW t \in Slots, slots'[t].state = "Queued"
        PROVE  /\ lastRun' <= slots'[t].target
               /\ \A d \in Cpus : pc'[d] = "run" => curTarget'[d] <= slots'[t].target
    <3>1. CASE t = s
      BY <3>1, <1>1, <1>2, <1>3, <2>1, SMTT(30) DEF IInv, Types
    <3>2. CASE t # s
      BY <3>2, <2>2, <1>1, <1>3 DEF IInv, RunsInOrder, Queued
    <3> QED BY <3>1, <3>2
  <2> QED BY <1>1, <2>2 DEF IInv, RunsInOrder, Queued
<1>10. PermitOwnsSlot'
  <2>1. /\ permit'[o] = NoSlot
        /\ \A q \in Objects : q # o => permit'[q] = permit[q]
        /\ \A q \in Objects : permit[q] # NoSlot => permit[q] \in Slots
    BY <1>1 DEF IInv, Types
  <2>2. \A q \in Objects : q # o /\ Held(q) => permit[q] # s
    BY <1>1, SlotFacts DEF IInv, PermitOwnsSlot, Held, s
  <2> QED BY <2>1, <2>2, <1>3, SMTT(30) DEF IInv, PermitOwnsSlot, Held
<1>11. SyncDrained'
  <2>1. ASSUME NEW d \in Cpus, pc[d] = "release", op[d] = "sync",
               NEW t \in Slots, slots'[t].state = "Queued"
        PROVE  slots'[t].target > done[d]
    <3>1. CASE t = s
      BY <3>1, <1>1, <1>2, <1>3, SMTT(30) DEF IInv, Types, EpochsBounded
    <3>2. CASE t # s
      BY <3>2, <2>1, <1>3 DEF IInv, SyncDrained, InState
    <3> QED BY <3>1, <3>2
  <2> QED BY <1>1, <2>1 DEF SyncDrained, InState
<1> QED BY <1>5, <1>6, <1>7, <1>8, <1>9, <1>10, <1>11 DEF IInv

\* The head of a nonempty ring is its first entry.
LEMMA HeadFacts ==
    ASSUME IInv, queue # << >>
    PROVE  /\ Len(queue) \in Nat \ {0} /\ Head(queue) = queue[1] /\ Head(queue) \in Slots
           /\ slots[Head(queue)].state = "Queued" /\ slots[Head(queue)] \in SlotType
<1>1. Len(queue) \in Nat \ {0} /\ Head(queue) = queue[1] /\ Head(queue) \in Slots
  BY SMTT(30) DEF IInv, Types
<1> QED BY <1>1, SMTT(30) DEF IInv, RingOrdered, Types, SlotType

\* pop_ready takes the head of the ring if its target is complete.
LEMMA PopReadyKeeps ==
    ASSUME IInv, NEW c \in Cpus, PopReady(c)
    PROVE  IInv'
<1> DEFINE s == Head(queue)
           v == [slots[s] EXCEPT !.state = "Running", !.target = 0]
<1>1. /\ Len(queue) \in Nat \ {0} /\ s = queue[1] /\ s \in Slots
      /\ queue' \in Seq(Slots) /\ Len(queue') = Len(queue) - 1
      /\ \A i \in 1 .. Len(queue) : queue[i] \in Slots
      /\ \A i \in 1 .. Len(queue) - 1 : queue'[i] = queue[i + 1]
  BY SMTT(30) DEF PopReady, Ready, IInv, Types
<1>2. slots[s].state = "Queued" /\ slots[s] \in SlotType
  BY HeadFacts DEF PopReady, Ready
<1>3. v \in SlotType /\ v.state = "Running" /\ v.target = 0 /\ v.class = slots[s].class
  <2>1. "Running" \in States
    BY DEF States
  <2> QED BY <1>2, <2>1, SlotUpdate, Zenon
<1>4. /\ pc[c] = "drain" /\ slots[s].target <= done[c]
      /\ slots' = [slots EXCEPT ![s] = v]
      /\ pc' = [pc EXCEPT ![c] = "run"] /\ cur' = [cur EXCEPT ![c] = s]
      /\ curTarget' = [curTarget EXCEPT ![c] = slots[s].target]
      /\ UNCHANGED <<globalEpoch, completedEpoch, drainOwner, permit, op, done, lastRun>>
  BY Zenon DEF PopReady, Ready, At, Goto, epochs
<1> HIDE DEF s, v
<1>5. /\ slots'[s] = v /\ slots' \in [Slots -> SlotType]
      /\ \A t \in Slots : t # s => slots'[t] = slots[t]
      /\ pc'[c] = "run" /\ cur'[c] = s /\ curTarget'[c] = slots[s].target
      /\ \A d \in Cpus : d # c =>
             pc'[d] = pc[d] /\ cur'[d] = cur[d] /\ curTarget'[d] = curTarget[d]
  BY <1>1, <1>3, <1>4 DEF IInv, Types, SlotType
<1>6. \A d \in Cpus : d # c => pc'[d] \in {"idle", "grace", "sampled"}
  BY <1>4, <1>5 DEF IInv, DrainOwned, Draining
<1>7. \A i \in 2 .. Len(queue) : queue[i] # s /\ slots[s].target < slots[queue[i]].target
  <2> SUFFICES ASSUME NEW i \in 2 .. Len(queue)
               PROVE  queue[i] # s /\ slots[s].target < slots[queue[i]].target
    OBVIOUS
  <2>1. slots[s].target < slots[queue[i]].target
    <3>1. 1 \in 1 .. Len(queue) /\ i \in 1 .. Len(queue) /\ 1 < i
      BY <1>1, SMTT(30)
    <3>2. slots[queue[1]].target < slots[queue[i]].target
      BY <3>1 DEF IInv, RingOrdered
    <3> QED BY <3>2, <1>1
  <2>2. slots[s].target \in Nat
    BY <1>2 DEF SlotType
  <2> QED BY <2>1, <2>2, SMTT(30)
<1>8. Types'
  <2>1. slots[s].target \in Nat
    BY <1>2 DEF SlotType
  <2> QED BY <2>1, <1>1, <1>4, <1>5 DEF IInv, Types, SlotType, Points
<1>9. EpochsBounded' /\ NeverEarly'
  <2>1. slots[s].target \in Nat /\ slots[s].target <= completedEpoch
    <3>1. slots[s].target \in Nat
      BY <1>2 DEF SlotType
    <3>2. done[c] <= completedEpoch /\ done[c] \in Nat /\ completedEpoch \in Nat
      BY <1>4 DEF IInv, Types, EpochsBounded
    <3> QED BY <3>1, <3>2, <1>4, SMTT(30)
  <2>2. EpochsBounded'
    BY <1>3, <1>4, <1>5, SMTT(30) DEF IInv, Types, EpochsBounded
  <2>3. NeverEarly'
    BY <2>1, <1>4, <1>5 DEF IInv, NeverEarly
  <2> QED BY <2>2, <2>3
<1>10. DrainOwned'
  <2>1. \A t \in Slots : slots[t].state # "Running"
    BY <1>4 DEF IInv, DrainOwned, Draining
  <2>2. \A t \in Slots : slots'[t].state = "Running" => t = s
    BY <2>1, <1>5
  <2>3. drainOwner'
    BY <1>4 DEF IInv, DrainOwned, Draining
  <2>4. \A d \in Cpus : pc'[d] \notin {"idle", "grace", "sampled"} => d = c
    BY <1>6
  <2>5. cur'[c] \in Slots /\ slots'[cur'[c]].state = "Running" /\ pc'[c] = "run"
    BY <1>1, <1>3, <1>5
  <2>6. /\ \A d \in Cpus : Draining(d)' => drainOwner'
        /\ \A d, e \in Cpus : Draining(d)' /\ Draining(e)' => d = e
    BY <2>3, <2>4 DEF Draining
  <2>7. \A d \in Cpus : pc'[d] \in {"run", "finish"} => d = c
    BY <2>4
  <2>8. \A t \in Slots : slots'[t].state = "Running" =>
            \E d \in Cpus : pc'[d] \in {"run", "finish"} /\ cur'[d] = t
    BY <2>2, <1>5
  <2> QED BY <2>5, <2>6, <2>7, <2>8 DEF DrainOwned
<1>11. RingOrdered'
  <2>1. \A i \in 1 .. Len(queue') : /\ i + 1 \in 2 .. Len(queue) /\ i + 1 \in 1 .. Len(queue)
                                    /\ queue'[i] = queue[i + 1]
                                    /\ slots'[queue'[i]] = slots[queue[i + 1]]
    BY <1>1, <1>5, <1>7, SMTT(30)
  <2>2. \A i \in 1 .. Len(queue') : slots'[queue'[i]].state = "Queued"
    BY <2>1, SMTT(30) DEF IInv, RingOrdered
  <2>3. ASSUME NEW t \in Slots, slots'[t].state = "Queued"
        PROVE  \E i \in 1 .. Len(queue') : queue'[i] = t
    <3>1. t # s
      BY <2>3, <1>3, <1>5
    <3>2. PICK i \in 1 .. Len(queue) : queue[i] = t
      BY <2>3, <3>1, <1>5 DEF IInv, RingOrdered, Queued
    <3>3. i - 1 \in 1 .. Len(queue') /\ (i - 1) + 1 = i
      BY <3>1, <3>2, <1>1, SMTT(30)
    <3> QED BY <3>2, <3>3, <2>1, Zenon
  <2>4. ASSUME NEW i \in 1 .. Len(queue'), NEW j \in 1 .. Len(queue'), i < j
        PROVE  slots'[queue'[i]].target < slots'[queue'[j]].target
    BY <2>1, <2>4, <1>1, SMTT(30) DEF IInv, RingOrdered
  <2> QED BY <2>2, <2>3, <2>4 DEF RingOrdered, Queued
<1>12. RunsInOrder'
  <2>1. ASSUME NEW t \in Slots, slots'[t].state = "Queued"
        PROVE  lastRun <= slots'[t].target /\ slots[s].target <= slots'[t].target
    <3>1. t # s /\ slots'[t] = slots[t]
      BY <2>1, <1>3, <1>5
    <3>2. PICK i \in 1 .. Len(queue) : queue[i] = t
      BY <2>1, <3>1 DEF IInv, RingOrdered, Queued
    <3>3. i \in 2 .. Len(queue)
      BY <3>1, <3>2, <1>1, SMTT(30)
    <3>4. slots[s].target < slots[t].target /\ slots[s].target \in Nat /\ slots[t].target \in Nat
      BY <3>2, <3>3, <1>1, <1>7 DEF IInv, Types
    <3> QED BY <2>1, <3>1, <3>4, SMTT(30) DEF IInv, RunsInOrder, Queued
  <2>2. lastRun <= slots[s].target
    BY <1>1, <1>2 DEF IInv, RunsInOrder, Queued
  <2> QED BY <2>1, <2>2, <1>4, <1>5, <1>6 DEF RunsInOrder, Queued
<1>13. PermitOwnsSlot'
  <2>1. \A q \in Objects : Held(q) => permit[q] \in Slots /\ permit[q] # s
    BY <1>2, SMTT(30) DEF IInv, Types, PermitOwnsSlot, Held
  <2> QED BY <2>1, <1>4, <1>5, SMTT(30) DEF IInv, PermitOwnsSlot, Held
<1>14. SyncDrained'
  BY <1>5, <1>6 DEF SyncDrained
<1> QED BY <1>8, <1>9, <1>10, <1>11, <1>12, <1>13, <1>14 DEF IInv

\* The drainer's slot changes to one that is not queued, run or reserved.
LEMMA RunnerSlot ==
    ASSUME IInv, NEW c \in Cpus, pc[c] \in {"run", "finish"},
           NEW v \in SlotType, v.state \in {"Free", "Quarantined"}, v.target <= globalEpoch,
           slots' = [slots EXCEPT ![cur[c]] = v],
           UNCHANGED <<globalEpoch, completedEpoch, queue, permit>>
    PROVE  /\ slots' \in [Slots -> SlotType]
           /\ cur[c] \in Slots /\ slots'[cur[c]] = v
           /\ \A t \in Slots : t # cur[c] => slots'[t] = slots[t]
           /\ \A t \in Slots : slots'[t].state # "Running"
           /\ \A t \in Slots : slots'[t].state = "Queued" <=> slots[t].state = "Queued"
           /\ \A t \in Slots : slots'[t].state = "Queued" => slots'[t] = slots[t]
           /\ \A t \in Slots : slots'[t].target <= globalEpoch
           /\ RingOrdered' /\ PermitOwnsSlot'
<1> DEFINE s == cur[c]
<1>1. s \in Slots /\ slots[s].state \in {"Running", "Quarantined"}
  BY DEF IInv, DrainOwned
<1>2. \A t \in Slots : slots[t].state = "Running" => t = s
  BY DEF IInv, DrainOwned, Draining
<1>3. /\ slots' \in [Slots -> SlotType] /\ slots'[s] = v
      /\ \A t \in Slots : t # s => slots'[t] = slots[t]
  BY <1>1 DEF IInv, Types, SlotType
<1> HIDE DEF s
<1>4. /\ \A t \in Slots : slots'[t].state # "Running"
      /\ \A t \in Slots : slots'[t].state = "Queued" => slots'[t] = slots[t]
      /\ \A t \in Slots : slots[t].state = "Queued" => slots'[t] = slots[t]
      /\ \A t \in Slots : slots[t].state = "Reserved" => slots'[t] = slots[t]
  <2> SUFFICES ASSUME NEW t \in Slots
               PROVE  /\ slots'[t].state # "Running"
                      /\ slots'[t].state = "Queued" => slots'[t] = slots[t]
                      /\ slots[t].state = "Queued" => slots'[t] = slots[t]
                      /\ slots[t].state = "Reserved" => slots'[t] = slots[t]
    OBVIOUS
  <2>1. CASE t = s
    BY <2>1, <1>1, <1>3
  <2>2. CASE t # s
    BY <2>2, <1>2, <1>3
  <2> QED BY <2>1, <2>2
<1>5. \A t \in Slots : slots'[t].target <= globalEpoch
  BY <1>3 DEF IInv, EpochsBounded
<1>6. RingOrdered'
  <2>1. \A i \in 1 .. Len(queue) : queue[i] \in Slots
    BY SMTT(30) DEF IInv, Types
  <2> QED BY <1>4, <2>1, SMTT(30) DEF IInv, RingOrdered, Queued
<1>7. PermitOwnsSlot'
  <2>1. \A q \in Objects : Held(q) => permit[q] \in Slots /\ slots[permit[q]].state = "Reserved"
    BY SMTT(30) DEF IInv, Types, PermitOwnsSlot, Held
  <2>2. \A q \in Objects : Held(q) => slots'[permit[q]] = slots[permit[q]]
    BY <1>4, <2>1
  <2> QED BY <2>2, SMTT(30) DEF IInv, PermitOwnsSlot, Held
<1> QED BY <1>1, <1>3, <1>4, <1>5, <1>6, <1>7 DEF s

\* A stack slot whose callback ran stays out of use.
LEMMA QuarantineKeeps ==
    ASSUME IInv, NEW c \in Cpus, Quarantine(c)
    PROVE  IInv'
<1> DEFINE v == [slots[cur[c]] EXCEPT !.state = "Quarantined"]
<1>1. pc[c] = "run" /\ pc' = [pc EXCEPT ![c] = "finish"] /\ lastRun' = curTarget[c]
      /\ slots' = [slots EXCEPT ![cur[c]] = v]
      /\ UNCHANGED <<globalEpoch, completedEpoch, queue, permit, drainOwner, op, done, cur, curTarget>>
  BY DEF Quarantine, At, Goto, epochs
<1>2. v \in SlotType /\ v.state = "Quarantined" /\ v.target <= globalEpoch
  <2>1. slots[cur[c]] \in SlotType /\ slots[cur[c]].target <= globalEpoch
    BY <1>1 DEF IInv, DrainOwned, Types, EpochsBounded, SlotType
  <2> QED BY <2>1 DEF SlotType, States
<1> HIDE DEF v
<1>3. /\ slots' \in [Slots -> SlotType] /\ cur[c] \in Slots /\ slots'[cur[c]] = v
      /\ \A t \in Slots : slots'[t].state # "Running"
      /\ \A t \in Slots : slots'[t].state = "Queued" => slots'[t] = slots[t]
      /\ \A t \in Slots : slots'[t].target <= globalEpoch
      /\ RingOrdered' /\ PermitOwnsSlot'
  BY <1>1, <1>2, RunnerSlot, Zenon
<1>4. /\ pc'[c] = "finish"
      /\ \A d \in Cpus : d # c => pc'[d] = pc[d] /\ pc[d] \in {"idle", "grace", "sampled"}
  <2>1. \A d \in Cpus : d # c => pc[d] \in {"idle", "grace", "sampled"}
    BY <1>1, DrainerAlone DEF Draining
  <2>2. pc'[c] = "finish" /\ \A d \in Cpus : d # c => pc'[d] = pc[d]
    BY <1>1 DEF IInv, Types
  <2> QED BY <2>1, <2>2
<1>5. Types'
  BY <1>1, <1>3 DEF IInv, Types, SlotType, Points
<1>6. EpochsBounded' /\ NeverEarly'
  BY <1>1, <1>3, <1>4 DEF IInv, Types, EpochsBounded, NeverEarly
<1>7. DrainOwned'
  <2>1. drainOwner'
    BY <1>1 DEF IInv, DrainOwned, Draining
  <2>2. \A d \in Cpus : pc'[d] \notin {"idle", "grace", "sampled"} => d = c
    BY <1>4
  <2>3. /\ \A d \in Cpus : Draining(d)' => drainOwner'
        /\ \A d, e \in Cpus : Draining(d)' /\ Draining(e)' => d = e
    BY <2>1, <2>2 DEF Draining
  <2>4. \A d \in Cpus : pc'[d] \in {"run", "finish"} => d = c /\ pc'[d] = "finish"
    BY <2>2, <1>4
  <2> QED BY <2>3, <2>4, <1>1, <1>2, <1>3 DEF DrainOwned
<1>8. RunsInOrder'
  <2>1. \A d \in Cpus : pc'[d] # "run"
    BY <1>4
  <2> QED BY <2>1, <1>1, <1>3 DEF IInv, RunsInOrder, Queued
<1>9. SyncDrained'
  BY <1>4 DEF SyncDrained
<1> QED BY <1>3, <1>5, <1>6, <1>7, <1>8, <1>9 DEF IInv

\* finish_running frees the slot.
LEMMA FinishRunningKeeps ==
    ASSUME IInv, NEW c \in Cpus, FinishRunning(c)
    PROVE  IInv'
<1> DEFINE v == IF slots[cur[c]].state = "Quarantined" THEN slots[cur[c]] ELSE EmptySlot
<1>1. /\ pc[c] = "finish" /\ pc' = [pc EXCEPT ![c] = "count"]
      /\ cur' = [cur EXCEPT ![c] = NoSlot] /\ curTarget' = [curTarget EXCEPT ![c] = 0]
      /\ UNCHANGED <<globalEpoch, completedEpoch, queue, permit, drainOwner, op, done, lastRun>>
  BY DEF FinishRunning, At, Goto, epochs
<1>2. slots[cur[c]] \in SlotType /\ slots[cur[c]].target <= globalEpoch /\ cur[c] \in Slots
  BY <1>1 DEF IInv, DrainOwned, Types, EpochsBounded, SlotType
<1>3. v \in SlotType /\ v.state \in {"Free", "Quarantined"} /\ v.target <= globalEpoch
  <2>1. EmptySlot \in SlotType /\ EmptySlot.target <= globalEpoch /\ EmptySlot.state = "Free"
    BY SMTT(30) DEF EmptySlot, SlotType, States, IInv, Types
  <2> QED BY <1>2, <2>1
<1>4. slots' = [slots EXCEPT ![cur[c]] = v]
  BY <1>2 DEF FinishRunning, IInv, Types
<1> HIDE DEF v
<1>5. /\ slots' \in [Slots -> SlotType]
      /\ \A t \in Slots : slots'[t].state # "Running"
      /\ \A t \in Slots : slots'[t].state = "Queued" => slots'[t] = slots[t]
      /\ \A t \in Slots : slots'[t].target <= globalEpoch
      /\ RingOrdered' /\ PermitOwnsSlot'
  BY <1>1, <1>3, <1>4, RunnerSlot, Zenon
<1>6. /\ pc'[c] = "count" /\ curTarget'[c] = 0
      /\ \A d \in Cpus : d # c =>
             pc'[d] = pc[d] /\ pc[d] \in {"idle", "grace", "sampled"} /\ curTarget'[d] = curTarget[d]
  <2>1. /\ pc'[c] = "count" /\ curTarget'[c] = 0
        /\ \A d \in Cpus : d # c => pc'[d] = pc[d] /\ curTarget'[d] = curTarget[d]
    BY <1>1 DEF IInv, Types
  <2>2. \A d \in Cpus : d # c => pc[d] \in {"idle", "grace", "sampled"}
    BY <1>1, DrainerAlone DEF Draining
  <2> QED BY <2>1, <2>2
<1>7. Types'
  BY <1>1, <1>5 DEF IInv, Types, SlotType, Points
<1>8. EpochsBounded' /\ NeverEarly'
  <2>1. \A d \in Cpus : pc'[d] # "grace" => pc[d] # "grace"
    BY <1>1, <1>6
  <2>2. EpochsBounded'
    BY <2>1, <1>1, <1>5 DEF IInv, EpochsBounded
  <2>3. \A d \in Cpus : curTarget'[d] <= completedEpoch
    <3>1. completedEpoch \in Nat /\ \A d \in Cpus : curTarget[d] <= completedEpoch
      BY DEF IInv, Types, NeverEarly
    <3>2. 0 <= completedEpoch
      BY <3>1, SMTT(30)
    <3>3. ASSUME NEW d \in Cpus PROVE curTarget'[d] <= completedEpoch
      <4>1. CASE d = c
        BY <4>1, <3>2, <1>6, Zenon
      <4>2. CASE d # c
        BY <4>2, <3>1, <1>6, Zenon
      <4> QED BY <4>1, <4>2, Zenon
    <3> QED BY <3>3, Zenon
  <2>4. NeverEarly'
    BY <2>3, <1>1 DEF IInv, NeverEarly
  <2> QED BY <2>2, <2>4
<1>9. DrainOwned'
  <2>1. drainOwner'
    BY <1>1 DEF IInv, DrainOwned, Draining
  <2>2. \A d \in Cpus : pc'[d] \notin {"idle", "grace", "sampled"} => d = c
    BY <1>6
  <2>3. \A d \in Cpus : pc'[d] \notin {"run", "finish"}
    BY <1>6
  <2>4. /\ \A d \in Cpus : Draining(d)' => drainOwner'
        /\ \A d, e \in Cpus : Draining(d)' /\ Draining(e)' => d = e
    BY <2>1, <2>2 DEF Draining
  <2> QED BY <2>3, <2>4, <1>5 DEF DrainOwned
<1>10. RunsInOrder'
  <2>1. \A d \in Cpus : pc'[d] # "run"
    BY <1>6
  <2> QED BY <2>1, <1>1, <1>5 DEF IInv, RunsInOrder, Queued
<1>11. SyncDrained'
  BY <1>6 DEF SyncDrained
<1> QED BY <1>5, <1>7, <1>8, <1>9, <1>10, <1>11 DEF IInv

-----------------------------------------------------------------------------
\* Every step keeps the invariant.
LEMMA NextKeeps == IInv /\ [Next]_vars => IInv'
<1> SUFFICES ASSUME IInv, [Next]_vars PROVE IInv'
  OBVIOUS
<1>1. ASSUME NEW o \in Objects, ReserveExact(o) \/ ReserveInRange(o) \/ DropPermit(o)
      PROVE  IInv'
  BY <1>1, ReserveExactKeeps, ReserveInRangeKeeps, DropPermitKeeps
<1>2. ASSUME NEW e \in 1 .. MaxEpoch, GracePeriod(e) PROVE IInv'
  BY <1>2, GracePeriodKeeps
<1>3. ASSUME NEW c \in Cpus, NEW o \in Objects, CallRcu(c, o) PROVE IInv'
  BY <1>3, CallRcuKeeps
<1>4. ASSUME NEW c \in Cpus, Poll(c) \/ Synchronize(c) PROVE IInv'
  BY <1>4, PollKeeps, SynchronizeKeeps
<1>5. ASSUME NEW c \in Cpus, Drain(c) PROVE IInv'
  BY <1>5, SynchronizedKeeps, AcquireKeeps, AcquireFailsKeeps, PopReadyKeeps,
     RunCallbackKeeps, QuarantineKeeps, FinishRunningKeeps, CountDownKeeps, DrainEndsKeeps,
     ReleaseOwnerKeeps DEF Drain
<1>6. CASE UNCHANGED vars
  <2>1. Types' /\ EpochsBounded' /\ NeverEarly'
    BY <1>6 DEF vars, epochs, pool, ctx, IInv, Types, EpochsBounded, NeverEarly
  <2>2. DrainOwned' /\ RunsInOrder'
    BY <1>6 DEF vars, pool, ctx, IInv, DrainOwned, Draining, RunsInOrder, Queued
  <2>3. SyncDrained'
    BY <1>6 DEF vars, pool, ctx, IInv, SyncDrained, InState
  <2> QED BY <1>6, <2>1, <2>2, <2>3, PoolUnchanged DEF vars, pool, IInv
<1> QED BY <1>1, <1>2, <1>3, <1>4, <1>5, <1>6 DEF Next

(* The invariant above is one: it holds initially and every step keeps it.    *)
THEOREM Inductive == Spec => []IInv
BY InitInv, NextKeeps, PTL DEF Spec

(* The ring holds the Queued slots once and in the order of their targets, so
   pop_ready may judge it by its head.                                        *)
THEOREM RingSorted == Spec => []QueueOrdered
<1>1. IInv => QueueOrdered
  <2> SUFFICES ASSUME IInv PROVE QueueOrdered
    OBVIOUS
  <2>1. \A i \in 1 .. Len(queue) : queue[i] \in Slots
    BY SMTT(30) DEF IInv, Types
  <2> QED BY <2>1, SMTT(30) DEF IInv, RingOrdered, Queued, QueueOrdered, InState
<1> QED BY Inductive, <1>1, PTL

(* No callback of call_rcu runs before the epoch it waits for is complete.    *)
THEOREM RunsLate == Spec => []NeverEarly
<1>1. IInv => NeverEarly
  BY DEF IInv
<1> QED BY Inductive, <1>1, PTL

(* One CPU drains at a time, and every Running slot is the one it runs.       *)
THEOREM OneDrainer == Spec => []SingleDrainer
<1>1. IInv => SingleDrainer
  <2> SUFFICES ASSUME IInv PROVE SingleDrainer
    OBVIOUS
  <2>1. ASSUME NEW c \in Cpus, NEW d \in Cpus,
               {pc[c], pc[d]} \cap {"idle", "grace", "sampled"} = {}
        PROVE  c = d
    <3>1. pc[c] \notin {"idle", "grace", "sampled"} /\ pc[d] \notin {"idle", "grace", "sampled"}
      BY <2>1, Zenon
    <3> QED BY <3>1 DEF IInv, DrainOwned, Draining
  <2>2. InState("Running") \subseteq {cur[c] : c \in Cpus}
    BY SMTT(30) DEF IInv, DrainOwned, InState
  <2> QED BY <2>1, <2>2 DEF SingleDrainer
<1> QED BY Inductive, <1>1, PTL

(* An armed permit owns a Reserved slot of its class that no other one names,
   as the asserts of call_rcu_class and of the permit's Drop require.         *)
THEOREM PermitsOwn == Spec => []PermitOwnsSlot
<1>1. IInv => PermitOwnsSlot
  BY DEF IInv
<1> QED BY Inductive, <1>1, PTL

(* synchronize_rcu leaves no callback behind that was complete when it drained. *)
THEOREM SyncLeavesNone == Spec => []SyncDrained
<1>1. IInv => SyncDrained
  BY DEF IInv
<1> QED BY Inductive, <1>1, PTL

(* Callbacks run in the order in which they were queued, and a slot that
   quarantine_running_stack has pinned is never given out again.              *)
THEOREM RunsMonotonic == Spec => Monotonic
<1> DEFINE M == /\ lastRun <= lastRun'
                /\ InState("Quarantined") \subseteq InState("Quarantined")'
<1>1. IInv /\ [Next]_vars => [M]_vars
  <2> SUFFICES ASSUME IInv, Next PROVE M
    OBVIOUS
  <2>1. lastRun \in Nat
        /\ (slots' = slots => InState("Quarantined") \subseteq InState("Quarantined")')
    BY DEF IInv, Types, InState
  <2>2. ASSUME NEW s, slots[s].state # "Quarantined",
               \A t \in Slots : t # s => slots'[t] = slots[t]
        PROVE  InState("Quarantined") \subseteq InState("Quarantined")'
    BY <2>2 DEF InState
  <2>3. ASSUME NEW o \in Objects, ReserveExact(o) \/ ReserveInRange(o) \/ DropPermit(o)
        PROVE  M
    <3>1. lastRun' = lastRun
      BY <2>3 DEF ReserveExact, ReserveInRange, DropPermit
    <3>2. PICK s : slots[s].state # "Quarantined" /\ \A t \in Slots : t # s => slots'[t] = slots[t]
      <4>1. CASE ReserveExact(o)
        BY <4>1, Zenon DEF ReserveExact, Mark, IInv, Types
      <4>2. CASE ReserveInRange(o)
        BY <4>2 DEF ReserveInRange, FreeGeneral, Mark, IInv, Types
      <4>3. CASE DropPermit(o)
        BY <4>3 DEF DropPermit, IInv, Types
      <4> QED BY <2>3, <4>1, <4>2, <4>3
    <3> QED BY <3>1, <3>2, <2>1, <2>2, SMTT(30)
  <2>4. ASSUME NEW c \in Cpus, NEW o \in Objects, CallRcu(c, o) PROVE M
    <3>1. /\ lastRun' = lastRun /\ slots[permit[o]].state # "Quarantined"
          /\ \A t \in Slots : t # permit[o] => slots'[t] = slots[t]
      BY <2>4 DEF CallRcu, IInv, Types
    <3>2. InState("Quarantined") \subseteq InState("Quarantined")'
      BY <3>1, <2>2
    <3> QED BY <3>1, <3>2, <2>1, SMTT(30)
  <2>5. ASSUME NEW e \in 1 .. MaxEpoch, GracePeriod(e) PROVE M
    BY <2>5, <2>1, SMTT(30) DEF GracePeriod, pool
  <2>6. ASSUME NEW c \in Cpus, Poll(c) \/ Synchronize(c) PROVE M
    BY <2>6, <2>1, SMTT(30) DEF Poll, Synchronize, pool
  <2>7. ASSUME NEW c \in Cpus, Drain(c) PROVE M
    <3>1. CASE PopReady(c)
      <4>1. slots[Head(queue)].state # "Quarantined"
        BY <3>1, HeadFacts DEF PopReady, Ready
      <4>2. lastRun' = lastRun /\ \A t \in Slots : t # Head(queue) => slots'[t] = slots[t]
        BY <3>1 DEF PopReady, IInv, Types
      <4> QED BY <4>1, <4>2, <2>1, <2>2, SMTT(30)
    <3>2. CASE RunCallback(c)
      BY <3>2, <2>1 DEF RunCallback, At, pool, IInv, RunsInOrder
    <3>3. CASE Quarantine(c)
      <4>1. slots[cur[c]].state = "Running" /\ lastRun <= lastRun'
        BY <3>3 DEF Quarantine, At, IInv, RunsInOrder
      <4>2. \A t \in Slots : t # cur[c] => slots'[t] = slots[t]
        BY <3>3 DEF Quarantine, IInv, Types
      <4> QED BY <4>1, <4>2, <2>2
    <3>4. CASE FinishRunning(c)
      <4>1. CASE slots[cur[c]].state = "Quarantined"
        <5>1. slots' = slots /\ lastRun' = lastRun
          BY <3>4, <4>1 DEF FinishRunning
        <5> QED BY <5>1, <2>1, SMTT(30)
      <4>2. CASE slots[cur[c]].state # "Quarantined"
        <5>1. lastRun' = lastRun /\ \A t \in Slots : t # cur[c] => slots'[t] = slots[t]
          BY <3>4, <4>2 DEF FinishRunning, IInv, Types
        <5> QED BY <5>1, <4>2, <2>1, <2>2, SMTT(30)
      <4> QED BY <4>1, <4>2
    <3>5. CASE Synchronized(c) \/ Acquire(c) \/ AcquireFails(c) \/ CountDown(c) \/ DrainEnds(c)
               \/ ReleaseOwner(c)
      <4>1. slots' = slots /\ lastRun' = lastRun
        BY <3>5 DEF Synchronized, Acquire, AcquireFails, CountDown, DrainEnds, ReleaseOwner, pool
      <4> QED BY <4>1, <2>1, SMTT(30)
    <3> QED BY <2>7, <3>1, <3>2, <3>3, <3>4, <3>5 DEF Drain
  <2> QED BY <2>3, <2>4, <2>5, <2>6, <2>7 DEF Next
<1> QED BY Inductive, <1>1, PTL DEF Spec, Monotonic

------------------------------------------------------------------------------
(* The counters of the pool, on top of the invariant above.                  *)

UsesStack(r) == r.state # "Free" /\ r.class = "KernelStack"
UsedStacks == {s \in Slots : slots[s].state # "Free" /\ slots[s].class = "KernelStack"}
Busy == {c \in Cpus : pc[c] \in {"run", "finish", "count"}}

\* The used stack slots can be counted.
LEMMA UsedFinite == IsFiniteSet(UsedStacks) /\ Cardinality(UsedStacks) \in Nat
<1>1. IsFiniteSet(Stacks) /\ IsFiniteSet(GeneralSlots)
  BY FS_Interval, CapacityAssumption, SMTT(30) DEF Stacks, GeneralSlots
<1>2. IsFiniteSet(Slots)
  BY <1>1, FS_Union, Zenon DEF Slots
<1>3. UsedStacks \in SUBSET Slots
  BY DEF UsedStacks
<1>4. IsFiniteSet(UsedStacks)
  BY <1>2, <1>3, FS_Subset
<1> QED BY <1>4, FS_CardinalityType

\* One slot changes, and stack_slots with it.
LEMMA OneStack ==
    ASSUME stackSlots = Cardinality(UsedStacks), NEW s \in Slots,
           \A t \in Slots : t # s => slots'[t] = slots[t],
           \/ UsesStack(slots[s]) /\ UsesStack(slots'[s]) /\ stackSlots' = stackSlots
           \/ ~UsesStack(slots[s]) /\ ~UsesStack(slots'[s]) /\ stackSlots' = stackSlots
           \/ ~UsesStack(slots[s]) /\ UsesStack(slots'[s]) /\ stackSlots' = stackSlots + 1
           \/ UsesStack(slots[s]) /\ ~UsesStack(slots'[s]) /\ stackSlots' = stackSlots - 1
    PROVE  stackSlots' = Cardinality(UsedStacks')
<1>1. IsFiniteSet(UsedStacks)
  BY UsedFinite
<1>2. CASE UsesStack(slots[s]) /\ UsesStack(slots'[s]) /\ stackSlots' = stackSlots
  <2>1. UsedStacks' = UsedStacks
    BY <1>2 DEF UsedStacks, UsesStack
  <2> QED BY <1>2, <2>1
<1>3. CASE ~UsesStack(slots[s]) /\ ~UsesStack(slots'[s]) /\ stackSlots' = stackSlots
  <2>1. UsedStacks' = UsedStacks
    BY <1>3, SMTT(30) DEF UsedStacks, UsesStack
  <2> QED BY <1>3, <2>1
<1>4. CASE ~UsesStack(slots[s]) /\ UsesStack(slots'[s]) /\ stackSlots' = stackSlots + 1
  <2>1. UsedStacks' = UsedStacks \cup {s} /\ s \notin UsedStacks
    BY <1>4, SMTT(30) DEF UsedStacks, UsesStack
  <2> QED BY <1>1, <1>4, <2>1, FS_AddElement, Zenon
<1>5. CASE UsesStack(slots[s]) /\ ~UsesStack(slots'[s]) /\ stackSlots' = stackSlots - 1
  <2>1. UsedStacks' = UsedStacks \ {s} /\ s \in UsedStacks
    BY <1>5 DEF UsedStacks, UsesStack
  <2> QED BY <1>1, <1>5, <2>1, FS_RemoveElement, Zenon
<1> QED BY <1>2, <1>3, <1>4, <1>5

\* Every step keeps the count of used stack slots.
LEMMA StackCountKeeps ==
    ASSUME IInv, stackSlots = Cardinality(UsedStacks), Next
    PROVE  stackSlots' = Cardinality(UsedStacks')
<1>1. stackSlots \in Nat /\ (slots' = slots => UsedStacks' = UsedStacks)
  BY UsedFinite DEF UsedStacks
<1>2. ASSUME NEW s \in Slots, NEW class \in {"General", "KernelStack"},
             slots[s].state = "Free", Mark(s, class)
      PROVE  stackSlots' = Cardinality(UsedStacks')
  <2>1. /\ slots'[s].state = "Reserved" /\ slots'[s].class = class
        /\ \A t \in Slots : t # s => slots'[t] = slots[t]
    BY <1>2 DEF Mark, IInv, Types
  <2>2. stackSlots' = IF class = "KernelStack" THEN stackSlots + 1 ELSE stackSlots
    BY <1>1, <1>2, SMTT(30) DEF Mark, Delta
  <2> QED BY <1>2, <2>1, <2>2, OneStack DEF UsesStack
<1>3. ASSUME NEW o \in Objects, ReserveExact(o) PROVE stackSlots' = Cardinality(UsedStacks')
  BY <1>2, <1>3, SlotFacts DEF ReserveExact
<1>4. ASSUME NEW o \in Objects, ReserveInRange(o) PROVE stackSlots' = Cardinality(UsedStacks')
  BY <1>2, <1>4, SlotFacts DEF ReserveInRange, FreeGeneral
<1>5. ASSUME NEW s \in Slots, slots[s].state # "Free", slots' = [slots EXCEPT ![s] = EmptySlot],
             stackSlots' = stackSlots - Delta(slots[s].class)
      PROVE  stackSlots' = Cardinality(UsedStacks')
  <2>1. /\ slots'[s].state = "Free" /\ \A t \in Slots : t # s => slots'[t] = slots[t]
    BY <1>5 DEF EmptySlot, IInv, Types
  <2>2. stackSlots' = IF slots[s].class = "KernelStack" THEN stackSlots - 1 ELSE stackSlots
    BY <1>1, <1>5, SMTT(30) DEF Delta
  <2> QED BY <1>5, <2>1, <2>2, OneStack DEF UsesStack
<1>6. ASSUME NEW o \in Objects, DropPermit(o) PROVE stackSlots' = Cardinality(UsedStacks')
  <2>1. permit[o] \in Slots
    BY <1>6 DEF DropPermit, IInv, Types
  <2> QED BY <1>5, <1>6, <2>1, Zenon DEF DropPermit
<1>7. ASSUME NEW s \in Slots, slots[s].state # "Free", slots'[s].state # "Free",
             slots'[s].class = slots[s].class, stackSlots' = stackSlots,
             \A t \in Slots : t # s => slots'[t] = slots[t]
      PROVE  stackSlots' = Cardinality(UsedStacks')
  BY <1>7, OneStack DEF UsesStack
<1>8. ASSUME NEW c \in Cpus, NEW o \in Objects, CallRcu(c, o)
      PROVE  stackSlots' = Cardinality(UsedStacks')
  <2>1. permit[o] \in Slots
    BY <1>8 DEF CallRcu, IInv, Types
  <2>2. /\ slots[permit[o]].state # "Free" /\ slots'[permit[o]].state # "Free"
        /\ slots'[permit[o]].class = slots[permit[o]].class /\ stackSlots' = stackSlots
        /\ \A t \in Slots : t # permit[o] => slots'[t] = slots[t]
    BY <1>8, <2>1 DEF CallRcu, IInv, Types
  <2> QED BY <1>7, <2>1, <2>2
<1>9. ASSUME NEW c \in Cpus, PopReady(c) PROVE stackSlots' = Cardinality(UsedStacks')
  <2>1. Head(queue) \in Slots /\ slots[Head(queue)].state = "Queued"
    BY <1>9, HeadFacts DEF PopReady, Ready
  <2>2. /\ slots'[Head(queue)].state # "Free"
        /\ slots'[Head(queue)].class = slots[Head(queue)].class /\ stackSlots' = stackSlots
        /\ \A t \in Slots : t # Head(queue) => slots'[t] = slots[t]
    BY <1>9, <2>1 DEF PopReady, IInv, Types
  <2> QED BY <1>7, <2>1, <2>2
<1>10. ASSUME NEW c \in Cpus, Quarantine(c) PROVE stackSlots' = Cardinality(UsedStacks')
  <2>1. cur[c] \in Slots /\ slots[cur[c]].state = "Running"
    BY <1>10 DEF Quarantine, At, IInv, DrainOwned
  <2>2. /\ slots'[cur[c]].state # "Free"
        /\ slots'[cur[c]].class = slots[cur[c]].class /\ stackSlots' = stackSlots
        /\ \A t \in Slots : t # cur[c] => slots'[t] = slots[t]
    BY <1>10, <2>1 DEF Quarantine, IInv, Types
  <2> QED BY <1>7, <2>1, <2>2
<1>11. ASSUME NEW c \in Cpus, FinishRunning(c) PROVE stackSlots' = Cardinality(UsedStacks')
  <2>1. cur[c] \in Slots /\ slots[cur[c]].state # "Free"
    BY <1>11 DEF FinishRunning, At, IInv, DrainOwned
  <2>2. CASE slots[cur[c]].state = "Quarantined"
    BY <1>1, <1>11, <2>2 DEF FinishRunning
  <2>3. CASE slots[cur[c]].state # "Quarantined"
    BY <1>5, <1>11, <2>1, <2>3 DEF FinishRunning
  <2> QED BY <2>2, <2>3
<1>12. CASE slots' = slots /\ stackSlots' = stackSlots
  BY <1>1, <1>12
<1>13. ASSUME NEW c \in Cpus, Drain(c) PROVE stackSlots' = Cardinality(UsedStacks')
  BY <1>9, <1>10, <1>11, <1>12, <1>13 DEF Drain, Synchronized, Acquire, AcquireFails,
     RunCallback, CountDown, DrainEnds, ReleaseOwner, pool
<1>14. ASSUME NEW c \in Cpus, Poll(c) \/ Synchronize(c)
       PROVE  stackSlots' = Cardinality(UsedStacks')
  BY <1>12, <1>14 DEF Poll, Synchronize, pool
<1>15. ASSUME NEW e \in 1 .. MaxEpoch, GracePeriod(e) PROVE stackSlots' = Cardinality(UsedStacks')
  BY <1>12, <1>15 DEF GracePeriod, pool
<1> QED BY <1>3, <1>4, <1>6, <1>8, <1>13, <1>14, <1>15 DEF Next

\* At most one CPU is between a dequeue and its count down.
LEMMA BusyAlone ==
    ASSUME IInv
    PROVE  Cardinality(Busy) \in Nat
<1>1. Busy = {} \/ \E c \in Cpus : Busy = {c}
  <2>1. \A c, d \in Busy : c = d
    BY DEF IInv, DrainOwned, Draining, Busy
  <2>2. Busy \subseteq Cpus
    BY DEF Busy
  <2> QED BY <2>1, <2>2
<1>2. IsFiniteSet(Busy)
  BY <1>1, FS_EmptySet, FS_Singleton
<1> QED BY <1>2, FS_CardinalityType

\* CALLBACK_COUNT: at most one CPU is between a dequeue and its count down.
LEMMA BacklogKeeps ==
    ASSUME IInv, callbackCount = Len(queue) + Cardinality(Busy), Next
    PROVE  callbackCount' = Len(queue') + Cardinality(Busy')
<1>1. Len(queue) \in Nat /\ Cardinality(Busy) \in Nat
  BY BusyAlone, SMTT(30) DEF IInv, Types
<1>2. ASSUME queue' = queue, callbackCount' = callbackCount, Busy' = Busy
      PROVE  callbackCount' = Len(queue') + Cardinality(Busy')
  BY <1>2
<1>3. ASSUME NEW o \in Objects, ReserveExact(o) \/ ReserveInRange(o) \/ DropPermit(o)
      PROVE  queue' = queue /\ callbackCount' = callbackCount /\ Busy' = Busy
  BY <1>3 DEF ReserveExact, ReserveInRange, DropPermit, ctx, Busy
<1>4. ASSUME NEW e \in 1 .. MaxEpoch, GracePeriod(e)
      PROVE  queue' = queue /\ callbackCount' = callbackCount /\ Busy' = Busy
  BY <1>4 DEF GracePeriod, pool, ctx, Busy
<1>5. ASSUME NEW c \in Cpus, NEW o \in Objects, CallRcu(c, o)
      PROVE  callbackCount' = Len(queue') + Cardinality(Busy')
  <2>1. permit[o] \in Slots /\ queue' = Append(queue, permit[o]) /\ callbackCount' = callbackCount + 1
    BY <1>5 DEF CallRcu, IInv, Types
  <2>2. Len(queue') = Len(queue) + 1
    BY <2>1, SMTT(30) DEF IInv, Types
  <2>3. Busy' = Busy
    BY <1>5 DEF CallRcu, ctx, Busy
  <2> QED BY <1>1, <2>1, <2>2, <2>3, SMTT(30)
<1>6. ASSUME NEW c \in Cpus, NEW l \in Points, pc' = [pc EXCEPT ![c] = l],
             pc[c] \in {"run", "finish", "count"} <=> l \in {"run", "finish", "count"}
      PROVE  Busy' = Busy
  BY <1>6 DEF Busy, IInv, Types
<1>7. ASSUME NEW c \in Cpus, \/ Poll(c) \/ Synchronize(c) \/ Synchronized(c) \/ Acquire(c)
                             \/ AcquireFails(c) \/ RunCallback(c) \/ Quarantine(c)
                             \/ FinishRunning(c) \/ DrainEnds(c) \/ ReleaseOwner(c)
      PROVE  queue' = queue /\ callbackCount' = callbackCount /\ Busy' = Busy
  <2>1. queue' = queue /\ callbackCount' = callbackCount
    BY <1>7 DEF Poll, Synchronize, Synchronized, Acquire, AcquireFails, RunCallback, Quarantine,
       FinishRunning, DrainEnds, ReleaseOwner, pool
  <2>2. PICK l \in Points : /\ pc' = [pc EXCEPT ![c] = l]
                            /\ pc[c] \in {"run", "finish", "count"} <=> l \in {"run", "finish", "count"}
    BY <1>7 DEF Poll, Synchronize, Synchronized, Acquire, AcquireFails, RunCallback, Quarantine,
       FinishRunning, DrainEnds, ReleaseOwner, At, Goto, Points
  <2> QED BY <2>1, <2>2, <1>6, Zenon
<1>8. ASSUME NEW c \in Cpus, PopReady(c) PROVE callbackCount' = Len(queue') + Cardinality(Busy')
  <2>1. /\ Len(queue') = Len(queue) - 1 /\ callbackCount' = callbackCount
        /\ pc[c] = "drain" /\ pc'[c] = "run" /\ \A d \in Cpus : d # c => pc'[d] = pc[d]
    BY <1>8, SMTT(30) DEF PopReady, Ready, At, Goto, IInv, Types
  <2>2. Busy = {} /\ Busy' = {c}
    <3>1. \A d \in Cpus : d # c => pc[d] \in {"idle", "grace", "sampled"}
      BY <2>1, DrainerAlone DEF Draining
    <3> QED BY <2>1, <3>1 DEF Busy
  <2>3. Cardinality(Busy) = 0 /\ Cardinality(Busy') = 1
    BY <2>2, FS_EmptySet, FS_Singleton, Zenon
  <2> QED BY <1>1, <2>1, <2>3, SMTT(30)
<1>9. ASSUME NEW c \in Cpus, CountDown(c) PROVE callbackCount' = Len(queue') + Cardinality(Busy')
  <2>1. /\ queue' = queue /\ callbackCount' = callbackCount - 1
        /\ pc[c] = "count" /\ pc'[c] = "drain" /\ \A d \in Cpus : d # c => pc'[d] = pc[d]
    BY <1>9 DEF CountDown, At, Goto, pool, IInv, Types
  <2>2. Busy = {c} /\ Busy' = {}
    <3>1. \A d \in Cpus : d # c => pc[d] \in {"idle", "grace", "sampled"}
      BY <2>1, DrainerAlone DEF Draining
    <3> QED BY <2>1, <3>1 DEF Busy
  <2>3. Cardinality(Busy) = 1 /\ Cardinality(Busy') = 0
    BY <2>2, FS_EmptySet, FS_Singleton, Zenon
  <2> QED BY <1>1, <2>1, <2>3, SMTT(30)
<1> QED BY <1>2, <1>3, <1>4, <1>5, <1>7, <1>8, <1>9 DEF Next, Drain

\* The rest of TypeOK; a poll() that has dequeued a callback has budget for it.
Registers ==
    /\ reserveCursor \in Nat /\ drainOwner \in BOOLEAN
    /\ budget \in [Cpus -> Nat]
    /\ \A c \in Cpus : op[c] = "poll" /\ pc[c] \in {"run", "finish", "count"} => budget[c] > 0

\* Every step keeps the types of the registers.
LEMMA RegistersKeep ==
    ASSUME IInv, Registers, Next
    PROVE  Registers'
<1>1. reserveCursor' \in Nat
  <2>1. ASSUME NEW o \in Objects, ReserveInRange(o) PROVE reserveCursor' \in Nat
    <3>1. PICK s \in FreeGeneral : reserveCursor' = NStack + 1 + ((s - NStack) % NGeneral)
      BY <2>1 DEF ReserveInRange
    <3>2. s - NStack \in Int /\ NGeneral \in Nat \ {0} /\ NStack \in Nat
      BY <3>1, CapacityAssumption, SMTT(30) DEF FreeGeneral, GeneralSlots
    <3>3. (s - NStack) % NGeneral \in Nat
      BY <3>2, SMTT(30)
    <3> QED BY <3>1, <3>2, <3>3, SMTT(30)
  <2>2. ASSUME NEW c \in Cpus, Drain(c) PROVE reserveCursor' = reserveCursor
    BY <2>2 DEF Drain, Synchronized, Acquire, AcquireFails, PopReady, RunCallback, Quarantine,
       FinishRunning, CountDown, DrainEnds, ReleaseOwner, pool
  <2>3. (\E o \in Objects : ReserveInRange(o)) \/ reserveCursor' = reserveCursor
    BY <2>2 DEF Next, ReserveExact, DropPermit, GracePeriod, CallRcu, Poll, Synchronize, pool
  <2> QED BY <2>1, <2>3 DEF Registers
<1>2. drainOwner' \in BOOLEAN
  <2>1. ASSUME NEW c \in Cpus, Drain(c) PROVE drainOwner' \in {drainOwner, TRUE, FALSE}
    BY <2>1, Zenon DEF Drain, Synchronized, Acquire, AcquireFails, PopReady, RunCallback, Quarantine,
       FinishRunning, CountDown, DrainEnds, ReleaseOwner
  <2>2. drainOwner' \in {drainOwner, TRUE, FALSE}
    BY <2>1, Zenon DEF Next, ReserveExact, ReserveInRange, DropPermit, GracePeriod, CallRcu, Poll,
       Synchronize
  <2> QED BY <2>2, Zenon DEF Registers
<1> DEFINE B == /\ budget' \in [Cpus -> Nat]
                /\ \A d \in Cpus : op'[d] = "poll" /\ pc'[d] \in {"run", "finish", "count"} => budget'[d] > 0
<1>3. ASSUME NEW o \in Objects, ReserveExact(o) \/ ReserveInRange(o) \/ DropPermit(o) PROVE B
  BY <1>3 DEF ReserveExact, ReserveInRange, DropPermit, ctx, Registers
<1>4. ASSUME NEW e \in 1 .. MaxEpoch, GracePeriod(e) PROVE B
  BY <1>4 DEF GracePeriod, ctx, Registers
<1>5. ASSUME NEW c \in Cpus, NEW o \in Objects, CallRcu(c, o) PROVE B
  BY <1>5 DEF CallRcu, ctx, Registers
<1>6. ASSUME NEW c \in Cpus, Poll(c) PROVE B
  <2>1. DrainBudget \in Nat
    BY BoundAssumption DEF DrainBudget
  <2> QED BY <1>6, <2>1 DEF Poll, Goto, IInv, Types, Registers
<1>7. ASSUME NEW c \in Cpus, Synchronize(c) \/ Synchronized(c) \/ Acquire(c) \/ DrainEnds(c) PROVE B
  <2>1. budget' = budget
    BY <1>7 DEF Synchronize, Synchronized, Acquire, DrainEnds
  <2>2. \A d \in Cpus : pc'[d] \in {"run", "finish", "count"} => pc'[d] = pc[d] /\ op'[d] = op[d]
    BY <1>7 DEF Synchronize, Synchronized, Acquire, DrainEnds, Goto, IInv, Types
  <2> QED BY <2>1, <2>2 DEF Registers
<1>8. ASSUME NEW c \in Cpus, AcquireFails(c) \/ ReleaseOwner(c) PROVE B
  <2>1. /\ budget' = [budget EXCEPT ![c] = 0] /\ pc' = [pc EXCEPT ![c] = "idle"]
        /\ \A d \in Cpus : d # c => op'[d] = op[d]
    BY <1>8 DEF AcquireFails, ReleaseOwner, Goto, IInv, Types
  <2> QED BY <2>1 DEF IInv, Types, Registers
<1>9. ASSUME NEW c \in Cpus, PopReady(c) PROVE B
  BY <1>9 DEF PopReady, HasBudget, Goto, IInv, Types, Registers
<1>10. ASSUME NEW c \in Cpus, RunCallback(c) \/ Quarantine(c) \/ FinishRunning(c) PROVE B
  BY <1>10 DEF RunCallback, Quarantine, FinishRunning, At, Goto, IInv, Types, Registers
<1>11. ASSUME NEW c \in Cpus, CountDown(c) PROVE B
  BY <1>11, SMTT(30) DEF CountDown, At, Goto, IInv, Types, Registers
<1>12. B
  BY <1>3, <1>4, <1>5, <1>6, <1>7, <1>8, <1>9, <1>10, <1>11, Zenon DEF Next, Drain
<1> QED BY <1>1, <1>2, <1>12 DEF Registers

\* The counters count what they stand for, besides what IInv says of the pool.
CountsInv ==
    /\ IInv /\ Registers
    /\ stackSlots = Cardinality(UsedStacks)
    /\ callbackCount = Len(queue) + Cardinality(Busy)

\* The counters are always right.
LEMMA CountsInductive == Spec => []CountsInv
<1>1. Init => CountsInv
  <2> SUFFICES ASSUME Init PROVE CountsInv
    OBVIOUS
  <2>1. UsedStacks = {} /\ Busy = {} /\ queue = << >> /\ stackSlots = 0 /\ callbackCount = 0
    BY DEF Init, UsedStacks, Busy, EmptySlot
  <2>2. Registers
    BY Zenon DEF Init, Registers
  <2> QED BY <2>1, <2>2, InitInv, FS_EmptySet, SMTT(30) DEF CountsInv
<1>2. CountsInv /\ [Next]_vars => CountsInv'
  <2> SUFFICES ASSUME CountsInv, [Next]_vars PROVE CountsInv'
    OBVIOUS
  <2>1. IInv'
    BY NextKeeps DEF CountsInv
  <2>2. CASE Next
    BY <2>1, <2>2, StackCountKeeps, BacklogKeeps, RegistersKeep DEF CountsInv
  <2>3. CASE UNCHANGED vars
    BY <2>1, <2>3 DEF vars, epochs, pool, ctx, UsedStacks, Busy, Registers, CountsInv
  <2> QED BY <2>2, <2>3
<1> QED BY <1>1, <1>2, PTL DEF Spec

(* stack_slots and CALLBACK_COUNT count what the pool's asserts and poll's budget
   take them to count.                                                        *)
THEOREM CountersRight == Spec => []PoolConsistent
<1>1. CountsInv => PoolConsistent
  BY DEF CountsInv, PoolConsistent, UsedStacks, Busy
<1> QED BY CountsInductive, <1>1, PTL

(* The pool keeps its types; no counter underflows and no epoch in it passes
   GLOBAL_EPOCH.                                                              *)
THEOREM PoolTyped == Spec => []TypeOK
<1>1. CountsInv => TypeOK
  <2> SUFFICES ASSUME CountsInv PROVE TypeOK
    OBVIOUS
  <2>1. stackSlots \in Nat
    BY UsedFinite DEF CountsInv
  <2>2. Cardinality(Busy) \in Nat /\ Len(queue) \in Nat
    BY BusyAlone, SMTT(30) DEF CountsInv, IInv, Types
  <2>3. callbackCount \in Nat
    BY <2>2, SMTT(30) DEF CountsInv
  <2>4. slots \in [Slots -> [state : States, class : {"General", "KernelStack"},
                             target : 0 .. globalEpoch]]
    BY SMTT(30) DEF CountsInv, IInv, Types, EpochsBounded
  <2>5. /\ completedEpoch \in 0 .. globalEpoch /\ done \in [Cpus -> 0 .. globalEpoch]
        /\ curTarget \in [Cpus -> 0 .. globalEpoch] /\ lastRun \in 0 .. globalEpoch
    BY SMTT(30) DEF CountsInv, IInv, Types, EpochsBounded, NeverEarly
  <2> QED BY <2>1, <2>3, <2>4, <2>5 DEF CountsInv, TypeOK, IInv, Types, Registers, Points
<1> QED BY CountsInductive, <1>1, PTL
=============================================================================
