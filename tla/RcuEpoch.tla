------------------------------ MODULE RcuEpoch ------------------------------
(***************************************************************************)
(* Grace periods of the epoch based RCU in kernel_core/rcu.rs.             *)
(*                                                                         *)
(* Kernel code is not preempted (the timer reschedules only on a return to *)
(* user mode), so a CPU runs one process-level context, which its timer    *)
(* interrupt may suspend between any two steps.  A context <<c, "proc">>   *)
(* or <<c, "irq">> takes one atomic load, store or read-modify-write of    *)
(* shared state per step.                                                  *)
(*                                                                         *)
(* Objects are what readers reach and updaters reclaim.  The callback pool *)
(* that sits between call_rcu and the reclaim is module RcuCallbacks; here *)
(* a drain may reclaim any object whose target epoch it found complete.    *)
(***************************************************************************)
EXTENDS Integers

CONSTANTS
    NCpu,          \* CPU ids are 0 .. NCpu-1; CPU 0 boots
    Objects,
    MaxEpoch,      \* bound on GLOBAL_EPOCH (u64 in the code)
    MaxNest        \* bound on read-side nesting

ASSUME CpuAssumption == NCpu \in Nat \ {0}
ASSUME BoundAssumption == MaxEpoch \in Nat /\ MaxNest \in Nat

CONSTANT NoObject
ASSUME NoObjectAssumption == NoObject \notin Objects

Cpus == 0 .. (NCpu - 1)
Ctx == Cpus \X {"proc", "irq"}

VARIABLES
    globalEpoch,     \* GLOBAL_EPOCH
    completedEpoch,  \* COMPLETED_EPOCH
    online,          \* the online CPU mask
    readers,         \* RCU_READERS, per CPU
    rcuEpoch,        \* PerCpu.rcu_epoch
    objState,        \* life of every object
    retiredAt,       \* target epoch of a retired object
    held,            \* per CPU: objects its read-side section reached
    pc, op,          \* per context: where it is, in which operation
    val,             \* per context: epoch, then safe, then done_epoch
    todo,            \* per context: CPUs still to be scanned
    waitObj          \* per context: what its synchronize_rcu protects

sharedVars == <<globalEpoch, completedEpoch, online, readers, rcuEpoch>>
objVars == <<objState, retiredAt, held>>
ctxVars == <<pc, op, val, todo, waitObj>>
vars == <<sharedVars, objVars, ctxVars>>

Init ==
    /\ globalEpoch = 1
    /\ completedEpoch = 1
    /\ online = {0}
    /\ readers = [c \in Cpus |-> 0]
    /\ rcuEpoch = [c \in Cpus |-> 0]
    /\ objState = [o \in Objects |-> "live"]
    /\ retiredAt = [o \in Objects |-> 0]
    /\ held = [c \in Cpus |-> {}]
    /\ pc = [k \in Ctx |-> "idle"]
    /\ op = [k \in Ctx |-> "none"]
    /\ val = [k \in Ctx |-> 0]
    /\ todo = [k \in Ctx |-> {}]
    /\ waitObj = [k \in Ctx |-> NoObject]

Proc(c) == <<c, "proc">>
Irq(c) == <<c, "irq">>

\* A context runs on an online CPU; an interrupt suspends the process level.
Runs(k) == k[1] \in online /\ (k[2] = "proc" => pc[Irq(k[1])] = "idle")
At(k, label) == Runs(k) /\ pc[k] = label
Goto(k, label) == pc' = [pc EXCEPT ![k] = label]
Begin(k, name, label) == Goto(k, label) /\ op' = [op EXCEPT ![k] = name]
Finish(k) == Begin(k, "none", "idle")

-----------------------------------------------------------------------------
(* CPU bring-up                                                            *)

CpuOnline(c) ==
    /\ c \notin online
    /\ online' = online \cup {c}
    /\ UNCHANGED <<globalEpoch, completedEpoch, readers, rcuEpoch>>
    /\ UNCHANGED <<objVars, ctxVars>>

-----------------------------------------------------------------------------
(* Read side                                                               *)

ReadLock(c) ==
    /\ At(Proc(c), "idle")
    /\ readers[c] < MaxNest
    /\ readers' = [readers EXCEPT ![c] = @ + 1]
    /\ UNCHANGED <<globalEpoch, completedEpoch, online, rcuEpoch>>
    /\ UNCHANGED <<objVars, ctxVars>>

\* The reader follows a published pointer.
Reach(c, o) ==
    /\ At(Proc(c), "idle")
    /\ readers[c] > 0
    /\ objState[o] = "live"
    /\ o \notin held[c]
    /\ held' = [held EXCEPT ![c] = @ \cup {o}]
    /\ UNCHANGED <<objState, retiredAt, sharedVars, ctxVars>>

\* Mutant: the unlock drops a nesting level it does not own.
ReadUnlockTwice(c) ==
    /\ At(Proc(c), "idle")
    /\ readers[c] > 0
    /\ readers' = [readers EXCEPT ![c] = @ - 2]
    /\ UNCHANGED <<globalEpoch, completedEpoch, online, rcuEpoch>>
    /\ UNCHANGED <<objVars, ctxVars>>

\* The counter drops; the outermost unlock goes on to publish an epoch.
ReadUnlock(c) ==
    /\ At(Proc(c), "idle")
    /\ readers[c] > 0
    /\ readers' = [readers EXCEPT ![c] = @ - 1]
    /\ IF readers[c] = 1
       THEN /\ held' = [held EXCEPT ![c] = {}]
            /\ Begin(Proc(c), "unlock", "qsLoad")
       ELSE UNCHANGED <<held, pc, op>>
    /\ UNCHANGED <<globalEpoch, completedEpoch, online, rcuEpoch>>
    /\ UNCHANGED <<objState, retiredAt, val, todo, waitObj>>

-----------------------------------------------------------------------------
(* Quiescent states: rcu_quiescent_state() and the tail of the unlock      *)

\* Mutant: rcu_quiescent_state() without the reader check.
LoadAlways(k) ==
    Goto(k, "qsStore") /\ val' = [val EXCEPT ![k] = globalEpoch]

\* The reader count is this CPU's own and cannot change under an interrupt
\* handler or a non-preemptible caller, so its check and the load of
\* GLOBAL_EPOCH are one step; unlock has just seen the count reach zero.
LoadIfQuiescent(k) ==
    IF readers[k[1]] = 0
    THEN Goto(k, "qsStore") /\ val' = [val EXCEPT ![k] = globalEpoch]
    ELSE Goto(k, "scanGlobal") /\ UNCHANGED val

TimerTick(c) ==
    /\ At(Irq(c), "idle")
    /\ LoadIfQuiescent(Irq(c))
    /\ op' = [op EXCEPT ![Irq(c)] = "tick"]
    /\ UNCHANGED <<sharedVars, objVars, todo, waitObj>>

QsLoad(k) ==
    /\ At(k, "qsLoad")
    /\ LoadIfQuiescent(k)
    /\ UNCHANGED <<sharedVars, objVars, op, todo, waitObj>>

QsStore(k) ==
    /\ At(k, "qsStore")
    /\ rcuEpoch' = [rcuEpoch EXCEPT ![k[1]] = val[k]]
    /\ val' = [val EXCEPT ![k] = 0]
    /\ IF op[k] = "unlock" THEN Finish(k)
                           ELSE Goto(k, "scanGlobal") /\ UNCHANGED op
    /\ UNCHANGED <<globalEpoch, completedEpoch, online, readers>>
    /\ UNCHANGED <<objVars, todo, waitObj>>

-----------------------------------------------------------------------------
(* Scan of the published epochs: try_advance_completed_epoch() for a tick  *)
(* and a poll, all_cpus_quiescent() for synchronize_rcu()                  *)

ScanGlobal(k) ==
    /\ At(k, "scanGlobal")
    /\ val' = [val EXCEPT ![k] = globalEpoch]
    /\ Goto(k, "scanMask")
    /\ UNCHANGED <<sharedVars, objVars, op, todo, waitObj>>

\* poll() begins with the same load.
Poll(c) ==
    /\ At(Proc(c), "idle")
    /\ val' = [val EXCEPT ![Proc(c)] = globalEpoch]
    /\ Begin(Proc(c), "poll", "scanMask")
    /\ UNCHANGED <<sharedVars, objVars, todo, waitObj>>

ScanMask(k) ==
    /\ At(k, "scanMask")
    /\ todo' = [todo EXCEPT ![k] = online]
    /\ Goto(k, "scan")
    /\ UNCHANGED <<sharedVars, objVars, op, val, waitObj>>

Lower(a, b) == IF a < b THEN a ELSE b
Higher(a, b) == IF a < b THEN b ELSE a

\* Mutant: the highest published epoch instead of the lowest.
ScanCpuHighest(k, c) ==
    /\ At(k, "scan")
    /\ c \in todo[k]
    /\ \A d \in todo[k] : c <= d
    /\ val' = [val EXCEPT ![k] = IF c = 0 THEN rcuEpoch[c] ELSE Higher(@, rcuEpoch[c])]
    /\ todo' = [todo EXCEPT ![k] = @ \ {c}]
    /\ UNCHANGED <<sharedVars, objVars, pc, op, waitObj>>

\* CPUs are taken in ascending order: trailing_zeros() of the mask.
ScanCpu(k, c) ==
    /\ At(k, "scan")
    /\ c \in todo[k]
    /\ \A d \in todo[k] : c <= d
    /\ val' = [val EXCEPT ![k] = Lower(@, rcuEpoch[c])]
    /\ todo' = [todo EXCEPT ![k] = @ \ {c}]
    /\ UNCHANGED <<sharedVars, objVars, pc, op, waitObj>>

\* A tick or a poll raises COMPLETED_EPOCH to what the scan found.
Advance(k) ==
    /\ At(k, "scan")
    /\ todo[k] = {}
    /\ op[k] # "sync"
    /\ completedEpoch' = Higher(completedEpoch, val[k])
    /\ val' = [val EXCEPT ![k] = 0]
    /\ IF op[k] = "tick" THEN Finish(k)
                         ELSE Goto(k, "pollDone") /\ UNCHANGED op
    /\ UNCHANGED <<globalEpoch, online, readers, rcuEpoch>>
    /\ UNCHANGED <<objVars, todo, waitObj>>

\* synchronize_rcu() spins until the scan reaches its target.
SyncAdvance(k) ==
    LET target == retiredAt[waitObj[k]] IN
    /\ At(k, "scan")
    /\ todo[k] = {}
    /\ op[k] = "sync"
    /\ IF val[k] >= target
       THEN /\ completedEpoch' = Higher(completedEpoch, target)
            /\ val' = [val EXCEPT ![k] = Higher(completedEpoch, target)]
            /\ Goto(k, "drain")
       ELSE /\ val' = [val EXCEPT ![k] = 0]
            /\ Goto(k, "scanGlobal")
            /\ UNCHANGED completedEpoch
    /\ UNCHANGED <<globalEpoch, online, readers, rcuEpoch>>
    /\ UNCHANGED <<objVars, op, todo, waitObj>>

-----------------------------------------------------------------------------
(* Updaters                                                                *)

\* The updater removes the last published pointer to the object.
Unlink(o) ==
    /\ objState[o] = "live"
    /\ objState' = [objState EXCEPT ![o] = "unlinked"]
    /\ UNCHANGED <<retiredAt, held, sharedVars, ctxVars>>

\* try_allocate_epoch() gives the object its target.
AllocateEpoch(o, state) ==
    /\ objState[o] = "unlinked"
    /\ globalEpoch < MaxEpoch
    /\ globalEpoch' = globalEpoch + 1
    /\ retiredAt' = [retiredAt EXCEPT ![o] = globalEpoch + 1]
    /\ objState' = [objState EXCEPT ![o] = state]
    /\ UNCHANGED <<completedEpoch, online, readers, rcuEpoch, held>>

CallRcu(c, o) ==
    /\ At(Proc(c), "idle")
    /\ AllocateEpoch(o, "queued")
    /\ UNCHANGED ctxVars

\* synchronize_rcu() is not called from inside a read-side section.
Synchronize(c, o) ==
    /\ At(Proc(c), "idle")
    /\ readers[c] = 0
    /\ AllocateEpoch(o, "waited")
    /\ waitObj' = [waitObj EXCEPT ![Proc(c)] = o]
    /\ Begin(Proc(c), "sync", "qsLoad")
    /\ UNCHANGED <<val, todo>>

\* poll() samples COMPLETED_EPOCH before it drains.
PollDone(k) ==
    /\ At(k, "pollDone")
    /\ val' = [val EXCEPT ![k] = completedEpoch]
    /\ Goto(k, "drain")
    /\ UNCHANGED <<sharedVars, objVars, op, todo, waitObj>>

\* A callback whose target is complete runs and reclaims its object; the
\* object may then be made anew.
Reclaim(k, o) ==
    /\ At(k, "drain")
    /\ objState[o] = "queued"
    /\ retiredAt[o] <= val[k]
    /\ objState' = [objState EXCEPT ![o] = "free"]
    /\ retiredAt' = [retiredAt EXCEPT ![o] = 0]
    /\ UNCHANGED <<held, sharedVars, ctxVars>>

\* The drain ends; the caller of synchronize_rcu() frees what it waited for.
DrainEnds(k) ==
    /\ At(k, "drain")
    /\ IF op[k] = "sync"
       THEN /\ objState' = [objState EXCEPT ![waitObj[k]] = "free"]
            /\ retiredAt' = [retiredAt EXCEPT ![waitObj[k]] = 0]
       ELSE UNCHANGED <<objState, retiredAt>>
    /\ waitObj' = [waitObj EXCEPT ![k] = NoObject]
    /\ val' = [val EXCEPT ![k] = 0]
    /\ Finish(k)
    /\ UNCHANGED <<sharedVars, held, todo>>

Publish(o) ==
    /\ objState[o] = "free"
    /\ objState' = [objState EXCEPT ![o] = "live"]
    /\ UNCHANGED <<retiredAt, held, sharedVars, ctxVars>>

-----------------------------------------------------------------------------
\* The steps a context takes once its operation has begun.
Step(k) ==
    \/ QsLoad(k) \/ QsStore(k) \/ ScanGlobal(k) \/ ScanMask(k)
    \/ \E c \in Cpus : ScanCpu(k, c)
    \/ Advance(k) \/ SyncAdvance(k) \/ PollDone(k)
    \/ \E o \in Objects : Reclaim(k, o)
    \/ DrainEnds(k)

Next ==
    \/ \E c \in Cpus : \/ CpuOnline(c) \/ ReadLock(c) \/ ReadUnlock(c)
                       \/ TimerTick(c) \/ Poll(c)
    \/ \E c \in Cpus, o \in Objects : \/ Reach(c, o) \/ CallRcu(c, o)
                                      \/ Synchronize(c, o)
    \/ \E o \in Objects : Unlink(o) \/ Publish(o)
    \/ \E k \in Ctx : Step(k)

Spec == Init /\ [][Next]_vars

-----------------------------------------------------------------------------
(* Properties                                                              *)

Labels == {"idle", "qsLoad", "qsStore", "scanGlobal", "scanMask", "scan",
           "pollDone", "drain"}

\* Types of the grace-period state.
TypeOK ==
    /\ globalEpoch \in Nat /\ completedEpoch \in Nat
    /\ online \subseteq Cpus
    /\ readers \in [Cpus -> Nat] /\ rcuEpoch \in [Cpus -> Nat]
    /\ objState \in [Objects -> {"live", "unlinked", "queued", "waited", "free"}]
    /\ retiredAt \in [Objects -> Nat]
    /\ held \in [Cpus -> SUBSET Objects]
    /\ pc \in [Ctx -> Labels]
    /\ op \in [Ctx -> {"none", "unlock", "tick", "poll", "sync"}]
    /\ val \in [Ctx -> Nat]
    /\ todo \in [Ctx -> SUBSET Cpus]
    /\ waitObj \in [Ctx -> Objects \cup {NoObject}]

\* "any reader that was in an RCU read-side critical section ... has now
\* exited": no reader still holds an object that a callback, or the caller
\* of synchronize_rcu(), has reclaimed.
NoReaderHoldsReclaimed ==
    \A c \in Cpus : \A o \in held[c] : objState[o] # "free"

\* COMPLETED_EPOCH never covers a retirement while a reader that reached the
\* object before it was unlinked is still inside its section.
CompletedExcludesReaders ==
    \A c \in Cpus : \A o \in held[c] :
        objState[o] \in {"queued", "waited"} => completedEpoch < retiredAt[o]
=============================================================================
