--------------------------- MODULE RcuEpochProofs ---------------------------
(***************************************************************************)
(* Grace-period safety of RcuEpoch for every number of CPUs, objects and   *)
(* epochs: no reader holds an object that has been reclaimed.              *)
(***************************************************************************)
EXTENDS RcuEpoch, TLAPS

\* The leaves are for Zenon, but for those that name SMT.
USE Zenon

\* Every epoch in circulation was read from GLOBAL_EPOCH, which only grows.
EpochsBounded ==
    /\ completedEpoch <= globalEpoch
    /\ \A c \in Cpus : rcuEpoch[c] <= globalEpoch
    /\ \A k \in Ctx : val[k] <= globalEpoch

\* Only a CPU that is online and inside a read-side section holds objects,
\* and an epoch about to be published was loaded outside such a section.
HeldInSection ==
    /\ \A c \in Cpus : held[c] # {} => c \in online /\ readers[c] > 0
    /\ \A k \in Ctx : pc[k] = "qsStore" => readers[k[1]] = 0

Retired(o) == objState[o] \in {"queued", "waited"}

\* A held object is not reclaimed; once it is retired, its target epoch is
\* above what its reader's CPU has published, above COMPLETED_EPOCH, above
\* the minimum of any scan that is done with that CPU, and above the
\* done_epoch of any drain.
HeldNotComplete ==
    \A c \in Cpus : \A o \in held[c] :
        /\ objState[o] # "free"
        /\ Retired(o) =>
            /\ rcuEpoch[c] < retiredAt[o]
            /\ completedEpoch < retiredAt[o]
            /\ \A k \in Ctx :
                /\ pc[k] = "scan" /\ c \notin todo[k] => val[k] < retiredAt[o]
                /\ pc[k] = "drain" => val[k] < retiredAt[o]

\* synchronize_rcu() owns the object it waits for, and drains only after its
\* target is complete.
WaitersOwn ==
    \A k \in Ctx : op[k] = "sync" =>
        /\ waitObj[k] \in Objects
        /\ objState[waitObj[k]] = "waited"
        /\ \A j \in Ctx : op[j] = "sync" /\ waitObj[j] = waitObj[k] => j = k
        /\ pc[k] # "pollDone"
        /\ pc[k] = "drain" => retiredAt[waitObj[k]] <= val[k]

IInv == TypeOK /\ EpochsBounded /\ HeldInSection /\ HeldNotComplete /\ WaitersOwn

\* A context is a CPU and a level; the process level and the interrupt level
\* of a CPU are contexts.
LEMMA CtxFacts ==
    /\ \A k \in Ctx : k[1] \in Cpus /\ k[2] \in {"proc", "irq"} /\ k = <<k[1], k[2]>>
    /\ \A c \in Cpus : /\ Proc(c) \in Ctx /\ Proc(c)[1] = c /\ Proc(c)[2] = "proc"
                      /\ Irq(c) \in Ctx /\ Irq(c)[1] = c /\ Irq(c)[2] = "irq"
    /\ Cpus \subseteq Int
BY SMTT(30) DEF Ctx, Cpus, Proc, Irq

\* The two contexts of a CPU.
LEMMA OnCpu ==
    \A k \in Ctx, c \in Cpus : k[1] = c => k = Proc(c) \/ k = Irq(c)
BY CtxFacts, SMTT(30) DEF Proc, Irq

\* A CPU about to begin an operation has no operation in flight.
LEMMA IdleCpu ==
    ASSUME NEW c \in Cpus, At(Proc(c), "idle")
    PROVE  c \in online /\ \A k \in Ctx : k[1] = c => pc[k] = "idle"
BY OnCpu, CtxFacts, SMTT(30) DEF At, Runs

\* Every step keeps the types.
LEMMA TypeStep == IInv /\ [Next]_vars => TypeOK'
<1> SUFFICES ASSUME IInv, [Next]_vars PROVE TypeOK'
  OBVIOUS
<1> USE DEF IInv, TypeOK, Labels, WaitersOwn, At, Runs, Goto, Begin, Finish,
           sharedVars, objVars, ctxVars
<1>1. ASSUME NEW c \in Cpus, CpuOnline(c) PROVE TypeOK'
  BY <1>1 DEF CpuOnline
<1>2. ASSUME NEW c \in Cpus, ReadLock(c) PROVE TypeOK'
  BY <1>2, SMTT(30) DEF ReadLock
<1>3. ASSUME NEW c \in Cpus, ReadUnlock(c) PROVE TypeOK'
  <2>1. CASE readers[c] = 1
    BY <1>3, <2>1, SMTT(30) DEF ReadUnlock
  <2>2. CASE ~(readers[c] = 1)
    BY <1>3, <2>2, SMTT(30) DEF ReadUnlock
  <2> QED BY <2>1, <2>2
<1>4. ASSUME NEW c \in Cpus, TimerTick(c) PROVE TypeOK'
  <2>1. CASE readers[c] = 0
    BY <1>4, <2>1 DEF TimerTick, LoadIfQuiescent
  <2>2. CASE ~(readers[c] = 0)
    BY <1>4, <2>2 DEF TimerTick, LoadIfQuiescent
  <2> QED BY <2>1, <2>2
<1>5. ASSUME NEW c \in Cpus, Poll(c) PROVE TypeOK'
  BY <1>5 DEF Poll
<1>6. ASSUME NEW c \in Cpus, NEW o \in Objects, Reach(c, o) PROVE TypeOK'
  BY <1>6 DEF Reach
<1>7. ASSUME NEW c \in Cpus, NEW o \in Objects, CallRcu(c, o) PROVE TypeOK'
  BY <1>7, SMTT(30) DEF CallRcu, AllocateEpoch
<1>8. ASSUME NEW c \in Cpus, NEW o \in Objects, Synchronize(c, o) PROVE TypeOK'
  <2>0. Proc(c) \in Ctx /\ Proc(c)[1] = c /\ c \in Int
    BY CtxFacts
  <2> QED
    BY <1>8, <2>0, SMTT(30) DEF Synchronize, AllocateEpoch
<1>9. ASSUME NEW o \in Objects, Unlink(o) PROVE TypeOK'
  BY <1>9 DEF Unlink
<1>10. ASSUME NEW o \in Objects, Publish(o) PROVE TypeOK'
  BY <1>10 DEF Publish
<1>11. ASSUME NEW k \in Ctx, QsLoad(k) PROVE TypeOK'
  <2>1. CASE readers[k[1]] = 0
    BY <1>11, <2>1, SMTT(30) DEF QsLoad, LoadIfQuiescent
  <2>2. CASE ~(readers[k[1]] = 0)
    BY <1>11, <2>2 DEF QsLoad, LoadIfQuiescent
  <2> QED BY <2>1, <2>2
<1>12. ASSUME NEW k \in Ctx, QsStore(k) PROVE TypeOK'
  <2>1. CASE op[k] = "unlock"
    BY <1>12, <2>1 DEF QsStore
  <2>2. CASE ~(op[k] = "unlock")
    BY <1>12, <2>2 DEF QsStore
  <2> QED BY <2>1, <2>2
<1>13. ASSUME NEW k \in Ctx, ScanGlobal(k) PROVE TypeOK'
  BY <1>13 DEF ScanGlobal
<1>14. ASSUME NEW k \in Ctx, ScanMask(k) PROVE TypeOK'
  BY <1>14 DEF ScanMask
<1>15. ASSUME NEW k \in Ctx, NEW c \in Cpus, ScanCpu(k, c) PROVE TypeOK'
  BY <1>15 DEF ScanCpu, Lower
<1>16. ASSUME NEW k \in Ctx, Advance(k) PROVE TypeOK'
  <2>1. CASE op[k] = "tick"
    BY <1>16, <2>1 DEF Advance, Higher
  <2>2. CASE ~(op[k] = "tick")
    BY <1>16, <2>2 DEF Advance, Higher
  <2> QED BY <2>1, <2>2
<1>17. ASSUME NEW k \in Ctx, SyncAdvance(k) PROVE TypeOK'
  <2>1. CASE val[k] >= retiredAt[waitObj[k]]
    BY <1>17, <2>1, SMTT(30) DEF SyncAdvance, Higher
  <2>2. CASE ~(val[k] >= retiredAt[waitObj[k]])
    BY <1>17, <2>2, SMTT(30) DEF SyncAdvance, Higher
  <2> QED BY <2>1, <2>2
<1>18. ASSUME NEW k \in Ctx, PollDone(k) PROVE TypeOK'
  BY <1>18 DEF PollDone
<1>19. ASSUME NEW k \in Ctx, NEW o \in Objects, Reclaim(k, o) PROVE TypeOK'
  BY <1>19 DEF Reclaim
<1>20. ASSUME NEW k \in Ctx, DrainEnds(k) PROVE TypeOK'
  <2>1. CASE op[k] = "sync"
    BY <1>20, <2>1, SMTT(30) DEF DrainEnds
  <2>2. CASE ~(op[k] = "sync")
    BY <1>20, <2>2 DEF DrainEnds
  <2> QED BY <2>1, <2>2
<1>21. CASE UNCHANGED vars
  BY <1>21 DEF vars
<1> QED
  BY <1>1, <1>2, <1>3, <1>4, <1>5, <1>6, <1>7, <1>8, <1>9, <1>10, <1>11, <1>12, <1>13, <1>14, <1>15, <1>16, <1>17, <1>18, <1>19, <1>20, <1>21 DEF Next, Step

\* No step makes an epoch that GLOBAL_EPOCH has not reached.
LEMMA BoundStep == IInv /\ [Next]_vars => EpochsBounded'
<1> SUFFICES ASSUME IInv, [Next]_vars PROVE EpochsBounded'
  OBVIOUS
<1> USE DEF IInv, EpochsBounded, TypeOK, WaitersOwn, At, Runs, Goto, Begin, Finish,
           sharedVars, objVars, ctxVars
<1>1. ASSUME NEW c \in Cpus, CpuOnline(c) PROVE EpochsBounded'
  BY <1>1 DEF CpuOnline
<1>2. ASSUME NEW c \in Cpus, ReadLock(c) PROVE EpochsBounded'
  BY <1>2 DEF ReadLock
<1>3. ASSUME NEW c \in Cpus, ReadUnlock(c) PROVE EpochsBounded'
  <2>1. CASE readers[c] = 1
    BY <1>3, <2>1 DEF ReadUnlock
  <2>2. CASE ~(readers[c] = 1)
    BY <1>3, <2>2 DEF ReadUnlock
  <2> QED BY <2>1, <2>2
<1>4. ASSUME NEW c \in Cpus, TimerTick(c) PROVE EpochsBounded'
  <2>1. CASE readers[c] = 0
    BY <1>4, <2>1, SMTT(30) DEF TimerTick, LoadIfQuiescent
  <2>2. CASE ~(readers[c] = 0)
    BY <1>4, <2>2, SMTT(30) DEF TimerTick, LoadIfQuiescent
  <2> QED BY <2>1, <2>2
<1>5. ASSUME NEW c \in Cpus, Poll(c) PROVE EpochsBounded'
  BY <1>5, SMTT(30) DEF Poll
<1>6. ASSUME NEW c \in Cpus, NEW o \in Objects, Reach(c, o) PROVE EpochsBounded'
  BY <1>6 DEF Reach
<1>7. ASSUME NEW c \in Cpus, NEW o \in Objects, CallRcu(c, o) PROVE EpochsBounded'
  BY <1>7, SMTT(30) DEF CallRcu, AllocateEpoch
<1>8. ASSUME NEW c \in Cpus, NEW o \in Objects, Synchronize(c, o) PROVE EpochsBounded'
  BY <1>8, SMTT(30) DEF Synchronize, AllocateEpoch
<1>9. ASSUME NEW o \in Objects, Unlink(o) PROVE EpochsBounded'
  BY <1>9 DEF Unlink
<1>10. ASSUME NEW o \in Objects, Publish(o) PROVE EpochsBounded'
  BY <1>10 DEF Publish
<1>11. ASSUME NEW k \in Ctx, QsLoad(k) PROVE EpochsBounded'
  <2>1. CASE readers[k[1]] = 0
    BY <1>11, <2>1, SMTT(30) DEF QsLoad, LoadIfQuiescent
  <2>2. CASE ~(readers[k[1]] = 0)
    BY <1>11, <2>2 DEF QsLoad, LoadIfQuiescent
  <2> QED BY <2>1, <2>2
<1>12. ASSUME NEW k \in Ctx, QsStore(k) PROVE EpochsBounded'
  <2>1. CASE op[k] = "unlock"
    BY <1>12, <2>1, SMTT(30) DEF QsStore
  <2>2. CASE ~(op[k] = "unlock")
    BY <1>12, <2>2, SMTT(30) DEF QsStore
  <2> QED BY <2>1, <2>2
<1>13. ASSUME NEW k \in Ctx, ScanGlobal(k) PROVE EpochsBounded'
  BY <1>13, SMTT(30) DEF ScanGlobal
<1>14. ASSUME NEW k \in Ctx, ScanMask(k) PROVE EpochsBounded'
  BY <1>14 DEF ScanMask
<1>15. ASSUME NEW k \in Ctx, NEW c \in Cpus, ScanCpu(k, c) PROVE EpochsBounded'
  BY <1>15 DEF ScanCpu, Lower
<1>16. ASSUME NEW k \in Ctx, Advance(k) PROVE EpochsBounded'
  <2>1. CASE op[k] = "tick"
    BY <1>16, <2>1, SMTT(30) DEF Advance, Higher
  <2>2. CASE ~(op[k] = "tick")
    BY <1>16, <2>2, SMTT(30) DEF Advance, Higher
  <2> QED BY <2>1, <2>2
<1>17. ASSUME NEW k \in Ctx, SyncAdvance(k) PROVE EpochsBounded'
  <2>1. CASE val[k] >= retiredAt[waitObj[k]]
    BY <1>17, <2>1, SMTT(30) DEF SyncAdvance, Higher
  <2>2. CASE ~(val[k] >= retiredAt[waitObj[k]])
    BY <1>17, <2>2, SMTT(30) DEF SyncAdvance, Higher
  <2> QED BY <2>1, <2>2
<1>18. ASSUME NEW k \in Ctx, PollDone(k) PROVE EpochsBounded'
  BY <1>18 DEF PollDone
<1>19. ASSUME NEW k \in Ctx, NEW o \in Objects, Reclaim(k, o) PROVE EpochsBounded'
  BY <1>19 DEF Reclaim
<1>20. ASSUME NEW k \in Ctx, DrainEnds(k) PROVE EpochsBounded'
  <2>1. CASE op[k] = "sync"
    BY <1>20, <2>1, SMTT(30) DEF DrainEnds
  <2>2. CASE ~(op[k] = "sync")
    BY <1>20, <2>2, SMTT(30) DEF DrainEnds
  <2> QED BY <2>1, <2>2
<1>21. CASE UNCHANGED vars
  BY <1>21 DEF vars
<1> QED
  BY <1>1, <1>2, <1>3, <1>4, <1>5, <1>6, <1>7, <1>8, <1>9, <1>10, <1>11, <1>12, <1>13, <1>14, <1>15, <1>16, <1>17, <1>18, <1>19, <1>20, <1>21 DEF Next, Step

\* No step lets a CPU hold objects outside a section.
LEMMA SectionStep == IInv /\ [Next]_vars => HeldInSection'
<1> SUFFICES ASSUME IInv, [Next]_vars PROVE HeldInSection'
  OBVIOUS
<1> USE DEF IInv, HeldInSection, TypeOK, At, Runs, Goto, Begin, Finish,
           sharedVars, objVars, ctxVars
<1>1. ASSUME NEW c \in Cpus, CpuOnline(c) PROVE HeldInSection'
  BY <1>1 DEF CpuOnline
<1>2. ASSUME NEW c \in Cpus, ReadLock(c) PROVE HeldInSection'
  <2>1. \A k \in Ctx : k[1] = c => pc[k] = "idle"
    BY <1>2, IdleCpu DEF ReadLock
  <2> QED
    BY <1>2, <2>1, CtxFacts, SMTT(30) DEF ReadLock
<1>3. ASSUME NEW c \in Cpus, ReadUnlock(c) PROVE HeldInSection'
  <2>1. CASE readers[c] = 1
    BY <1>3, <2>1, SMTT(30) DEF ReadUnlock
  <2>2. CASE ~(readers[c] = 1)
    BY <1>3, <2>2, SMTT(30) DEF ReadUnlock
  <2> QED BY <2>1, <2>2
<1>4. ASSUME NEW c \in Cpus, TimerTick(c) PROVE HeldInSection'
  <2>1. CASE readers[c] = 0
    BY <1>4, <2>1 DEF TimerTick, LoadIfQuiescent
  <2>2. CASE ~(readers[c] = 0)
    BY <1>4, <2>2 DEF TimerTick, LoadIfQuiescent
  <2> QED BY <2>1, <2>2
<1>5. ASSUME NEW c \in Cpus, Poll(c) PROVE HeldInSection'
  BY <1>5 DEF Poll
<1>6. ASSUME NEW c \in Cpus, NEW o \in Objects, Reach(c, o) PROVE HeldInSection'
  <2>1. c \in online
    BY <1>6, IdleCpu DEF Reach
  <2> QED
    BY <1>6, <2>1 DEF Reach
<1>7. ASSUME NEW c \in Cpus, NEW o \in Objects, CallRcu(c, o) PROVE HeldInSection'
  BY <1>7 DEF CallRcu, AllocateEpoch
<1>8. ASSUME NEW c \in Cpus, NEW o \in Objects, Synchronize(c, o) PROVE HeldInSection'
  BY <1>8 DEF Synchronize, AllocateEpoch
<1>9. ASSUME NEW o \in Objects, Unlink(o) PROVE HeldInSection'
  BY <1>9 DEF Unlink
<1>10. ASSUME NEW o \in Objects, Publish(o) PROVE HeldInSection'
  BY <1>10 DEF Publish
<1>11. ASSUME NEW k \in Ctx, QsLoad(k) PROVE HeldInSection'
  <2>1. CASE readers[k[1]] = 0
    BY <1>11, <2>1 DEF QsLoad, LoadIfQuiescent
  <2>2. CASE ~(readers[k[1]] = 0)
    BY <1>11, <2>2 DEF QsLoad, LoadIfQuiescent
  <2> QED BY <2>1, <2>2
<1>12. ASSUME NEW k \in Ctx, QsStore(k) PROVE HeldInSection'
  <2>1. CASE op[k] = "unlock"
    BY <1>12, <2>1 DEF QsStore
  <2>2. CASE ~(op[k] = "unlock")
    BY <1>12, <2>2 DEF QsStore
  <2> QED BY <2>1, <2>2
<1>13. ASSUME NEW k \in Ctx, ScanGlobal(k) PROVE HeldInSection'
  BY <1>13 DEF ScanGlobal
<1>14. ASSUME NEW k \in Ctx, ScanMask(k) PROVE HeldInSection'
  BY <1>14 DEF ScanMask
<1>15. ASSUME NEW k \in Ctx, NEW c \in Cpus, ScanCpu(k, c) PROVE HeldInSection'
  BY <1>15 DEF ScanCpu, Lower
<1>16. ASSUME NEW k \in Ctx, Advance(k) PROVE HeldInSection'
  <2>1. CASE op[k] = "tick"
    BY <1>16, <2>1 DEF Advance, Higher
  <2>2. CASE ~(op[k] = "tick")
    BY <1>16, <2>2 DEF Advance, Higher
  <2> QED BY <2>1, <2>2
<1>17. ASSUME NEW k \in Ctx, SyncAdvance(k) PROVE HeldInSection'
  <2>1. CASE val[k] >= retiredAt[waitObj[k]]
    BY <1>17, <2>1 DEF SyncAdvance, Higher
  <2>2. CASE ~(val[k] >= retiredAt[waitObj[k]])
    BY <1>17, <2>2 DEF SyncAdvance, Higher
  <2> QED BY <2>1, <2>2
<1>18. ASSUME NEW k \in Ctx, PollDone(k) PROVE HeldInSection'
  BY <1>18 DEF PollDone
<1>19. ASSUME NEW k \in Ctx, NEW o \in Objects, Reclaim(k, o) PROVE HeldInSection'
  BY <1>19 DEF Reclaim
<1>20. ASSUME NEW k \in Ctx, DrainEnds(k) PROVE HeldInSection'
  <2>1. CASE op[k] = "sync"
    BY <1>20, <2>1 DEF DrainEnds
  <2>2. CASE ~(op[k] = "sync")
    BY <1>20, <2>2 DEF DrainEnds
  <2> QED BY <2>1, <2>2
<1>21. CASE UNCHANGED vars
  BY <1>21 DEF vars
<1> QED
  BY <1>1, <1>2, <1>3, <1>4, <1>5, <1>6, <1>7, <1>8, <1>9, <1>10, <1>11, <1>12, <1>13, <1>14, <1>15, <1>16, <1>17, <1>18, <1>19, <1>20, <1>21 DEF Next, Step

\* No step takes a waiter's object away.
LEMMA WaiterStep == IInv /\ [Next]_vars => WaitersOwn'
<1> SUFFICES ASSUME IInv, [Next]_vars PROVE WaitersOwn'
  OBVIOUS
<1> USE DEF IInv, WaitersOwn, TypeOK, EpochsBounded, At, Runs, Goto, Begin, Finish,
           sharedVars, objVars, ctxVars
<1>1. ASSUME NEW c \in Cpus, CpuOnline(c) PROVE WaitersOwn'
  BY <1>1 DEF CpuOnline
<1>2. ASSUME NEW c \in Cpus, ReadLock(c) PROVE WaitersOwn'
  BY <1>2 DEF ReadLock
<1>3. ASSUME NEW c \in Cpus, ReadUnlock(c) PROVE WaitersOwn'
  <2>1. CASE readers[c] = 1
    BY <1>3, <2>1, SMTT(30) DEF ReadUnlock
  <2>2. CASE ~(readers[c] = 1)
    BY <1>3, <2>2, SMTT(30) DEF ReadUnlock
  <2> QED BY <2>1, <2>2
<1>4. ASSUME NEW c \in Cpus, TimerTick(c) PROVE WaitersOwn'
  <2>1. CASE readers[c] = 0
    BY <1>4, <2>1, SMTT(30) DEF TimerTick, LoadIfQuiescent
  <2>2. CASE ~(readers[c] = 0)
    BY <1>4, <2>2 DEF TimerTick, LoadIfQuiescent
  <2> QED BY <2>1, <2>2
<1>5. ASSUME NEW c \in Cpus, Poll(c) PROVE WaitersOwn'
  BY <1>5 DEF Poll
<1>6. ASSUME NEW c \in Cpus, NEW o \in Objects, Reach(c, o) PROVE WaitersOwn'
  BY <1>6 DEF Reach
<1>7. ASSUME NEW c \in Cpus, NEW o \in Objects, CallRcu(c, o) PROVE WaitersOwn'
  BY <1>7 DEF CallRcu, AllocateEpoch
<1>8. ASSUME NEW c \in Cpus, NEW o \in Objects, Synchronize(c, o) PROVE WaitersOwn'
  BY <1>8 DEF Synchronize, AllocateEpoch
<1>9. ASSUME NEW o \in Objects, Unlink(o) PROVE WaitersOwn'
  BY <1>9 DEF Unlink
<1>10. ASSUME NEW o \in Objects, Publish(o) PROVE WaitersOwn'
  BY <1>10 DEF Publish
<1>11. ASSUME NEW k \in Ctx, QsLoad(k) PROVE WaitersOwn'
  <2>1. CASE readers[k[1]] = 0
    BY <1>11, <2>1, SMTT(30) DEF QsLoad, LoadIfQuiescent
  <2>2. CASE ~(readers[k[1]] = 0)
    BY <1>11, <2>2 DEF QsLoad, LoadIfQuiescent
  <2> QED BY <2>1, <2>2
<1>12. ASSUME NEW k \in Ctx, QsStore(k) PROVE WaitersOwn'
  <2>1. CASE op[k] = "unlock"
    BY <1>12, <2>1, SMTT(30) DEF QsStore
  <2>2. CASE ~(op[k] = "unlock")
    BY <1>12, <2>2, SMTT(30) DEF QsStore
  <2> QED BY <2>1, <2>2
<1>13. ASSUME NEW k \in Ctx, ScanGlobal(k) PROVE WaitersOwn'
  BY <1>13 DEF ScanGlobal
<1>14. ASSUME NEW k \in Ctx, ScanMask(k) PROVE WaitersOwn'
  BY <1>14 DEF ScanMask
<1>15. ASSUME NEW k \in Ctx, NEW c \in Cpus, ScanCpu(k, c) PROVE WaitersOwn'
  BY <1>15 DEF ScanCpu, Lower
<1>16. ASSUME NEW k \in Ctx, Advance(k) PROVE WaitersOwn'
  <2>1. CASE op[k] = "tick"
    BY <1>16, <2>1, SMTT(30) DEF Advance, Higher
  <2>2. CASE ~(op[k] = "tick")
    BY <1>16, <2>2, SMTT(30) DEF Advance, Higher
  <2> QED BY <2>1, <2>2
<1>17. ASSUME NEW k \in Ctx, SyncAdvance(k) PROVE WaitersOwn'
  <2>1. CASE val[k] >= retiredAt[waitObj[k]]
    BY <1>17, <2>1, SMTT(30) DEF SyncAdvance, Higher
  <2>2. CASE ~(val[k] >= retiredAt[waitObj[k]])
    BY <1>17, <2>2, SMTT(30) DEF SyncAdvance, Higher
  <2> QED BY <2>1, <2>2
<1>18. ASSUME NEW k \in Ctx, PollDone(k) PROVE WaitersOwn'
  BY <1>18 DEF PollDone
<1>19. ASSUME NEW k \in Ctx, NEW o \in Objects, Reclaim(k, o) PROVE WaitersOwn'
  BY <1>19 DEF Reclaim
<1>20. ASSUME NEW k \in Ctx, DrainEnds(k) PROVE WaitersOwn'
  <2>1. CASE op[k] = "sync"
    BY <1>20, <2>1, SMTT(30) DEF DrainEnds
  <2>2. CASE ~(op[k] = "sync")
    BY <1>20, <2>2 DEF DrainEnds
  <2> QED BY <2>1, <2>2
<1>21. CASE UNCHANGED vars
  BY <1>21 DEF vars
<1> QED
  BY <1>1, <1>2, <1>3, <1>4, <1>5, <1>6, <1>7, <1>8, <1>9, <1>10, <1>11, <1>12, <1>13, <1>14, <1>15, <1>16, <1>17, <1>18, <1>19, <1>20, <1>21 DEF Next, Step

\* No step completes a grace period that a reader pins.
LEMMA HeldStep == IInv /\ [Next]_vars => HeldNotComplete'
<1> SUFFICES ASSUME IInv, [Next]_vars PROVE HeldNotComplete'
  OBVIOUS
<1> USE DEF IInv, HeldNotComplete, Retired, HeldInSection, EpochsBounded, WaitersOwn, TypeOK, At, Runs, Goto, Begin, Finish,
           sharedVars, objVars, ctxVars
<1>1. ASSUME NEW c \in Cpus, CpuOnline(c) PROVE HeldNotComplete'
  BY <1>1 DEF CpuOnline
<1>2. ASSUME NEW c \in Cpus, ReadLock(c) PROVE HeldNotComplete'
  BY <1>2 DEF ReadLock
<1>3. ASSUME NEW c \in Cpus, ReadUnlock(c) PROVE HeldNotComplete'
  <2>1. CASE readers[c] = 1
    BY <1>3, <2>1, SMTT(30) DEF ReadUnlock
  <2>2. CASE ~(readers[c] = 1)
    BY <1>3, <2>2 DEF ReadUnlock
  <2> QED BY <2>1, <2>2
<1>4. ASSUME NEW c \in Cpus, TimerTick(c) PROVE HeldNotComplete'
  <2>1. CASE readers[c] = 0
    BY <1>4, <2>1, SMTT(30) DEF TimerTick, LoadIfQuiescent
  <2>2. CASE ~(readers[c] = 0)
    BY <1>4, <2>2, SMTT(30) DEF TimerTick, LoadIfQuiescent
  <2> QED BY <2>1, <2>2
<1>5. ASSUME NEW c \in Cpus, Poll(c) PROVE HeldNotComplete'
  BY <1>5 DEF Poll
<1>6. ASSUME NEW c \in Cpus, NEW o \in Objects, Reach(c, o) PROVE HeldNotComplete'
  <2>1. \A d \in Cpus : held'[d] \subseteq held[d] \cup {o}
    BY <1>6 DEF Reach
  <2>2. ~Retired(o) /\ objState[o] # "free"
    BY <1>6 DEF Reach
  <2> QED
    BY <1>6, <2>1, <2>2, SMTT(30) DEF Reach
<1>7. ASSUME NEW c \in Cpus, NEW o \in Objects, CallRcu(c, o) PROVE HeldNotComplete'
  BY <1>7, SMTT(30) DEF CallRcu, AllocateEpoch
<1>8. ASSUME NEW c \in Cpus, NEW o \in Objects, Synchronize(c, o) PROVE HeldNotComplete'
  BY <1>8, SMTT(30) DEF Synchronize, AllocateEpoch
<1>9. ASSUME NEW o \in Objects, Unlink(o) PROVE HeldNotComplete'
  BY <1>9 DEF Unlink
<1>10. ASSUME NEW o \in Objects, Publish(o) PROVE HeldNotComplete'
  BY <1>10 DEF Publish
<1>11. ASSUME NEW k \in Ctx, QsLoad(k) PROVE HeldNotComplete'
  <2>1. CASE readers[k[1]] = 0
    BY <1>11, <2>1, SMTT(30) DEF QsLoad, LoadIfQuiescent
  <2>2. CASE ~(readers[k[1]] = 0)
    BY <1>11, <2>2, SMTT(30) DEF QsLoad, LoadIfQuiescent
  <2> QED BY <2>1, <2>2
<1>12. ASSUME NEW k \in Ctx, QsStore(k) PROVE HeldNotComplete'
  <2>1. CASE op[k] = "unlock"
    BY <1>12, <2>1, SMTT(30) DEF QsStore
  <2>2. CASE ~(op[k] = "unlock")
    BY <1>12, <2>2, SMTT(30) DEF QsStore
  <2> QED BY <2>1, <2>2
<1>13. ASSUME NEW k \in Ctx, ScanGlobal(k) PROVE HeldNotComplete'
  BY <1>13 DEF ScanGlobal
<1>14. ASSUME NEW k \in Ctx, ScanMask(k) PROVE HeldNotComplete'
  BY <1>14 DEF ScanMask
<1>15. ASSUME NEW k \in Ctx, NEW c \in Cpus, ScanCpu(k, c) PROVE HeldNotComplete'
  BY <1>15, SMTT(30) DEF ScanCpu, Lower
<1>16. ASSUME NEW k \in Ctx, Advance(k) PROVE HeldNotComplete'
  <2>1. CASE op[k] = "tick"
    BY <1>16, <2>1, SMTT(30) DEF Advance, Higher
  <2>2. CASE ~(op[k] = "tick")
    BY <1>16, <2>2, SMTT(30) DEF Advance, Higher
  <2> QED BY <2>1, <2>2
<1>17. ASSUME NEW k \in Ctx, SyncAdvance(k) PROVE HeldNotComplete'
  <2>1. CASE val[k] >= retiredAt[waitObj[k]]
    BY <1>17, <2>1, SMTT(30) DEF SyncAdvance, Higher
  <2>2. CASE ~(val[k] >= retiredAt[waitObj[k]])
    BY <1>17, <2>2, SMTT(30) DEF SyncAdvance, Higher
  <2> QED BY <2>1, <2>2
<1>18. ASSUME NEW k \in Ctx, PollDone(k) PROVE HeldNotComplete'
  BY <1>18 DEF PollDone
<1>19. ASSUME NEW k \in Ctx, NEW o \in Objects, Reclaim(k, o) PROVE HeldNotComplete'
  <2>1. \A d \in Cpus : o \notin held[d]
    BY <1>19, SMTT(30) DEF Reclaim
  <2> QED
    BY <1>19, <2>1 DEF Reclaim
<1>20. ASSUME NEW k \in Ctx, DrainEnds(k) PROVE HeldNotComplete'
  <2>1. CASE op[k] = "sync"
    <3>1. \A d \in Cpus : waitObj[k] \notin held[d]
      BY <1>20, <2>1, SMTT(30) DEF DrainEnds
    <3> QED
      BY <1>20, <2>1, <3>1, SMTT(30) DEF DrainEnds
  <2>2. CASE op[k] # "sync"
    BY <1>20, <2>2 DEF DrainEnds
  <2> QED BY <2>1, <2>2
<1>21. CASE UNCHANGED vars
  BY <1>21 DEF vars
<1> QED
  BY <1>1, <1>2, <1>3, <1>4, <1>5, <1>6, <1>7, <1>8, <1>9, <1>10, <1>11, <1>12, <1>13, <1>14, <1>15, <1>16, <1>17, <1>18, <1>19, <1>20, <1>21 DEF Next, Step

\* The invariant holds initially.
LEMMA InitIInv == Init => IInv
BY NoObjectAssumption, CpuAssumption, CtxFacts, SMTT(30) DEF Init, IInv, TypeOK, Labels,
   EpochsBounded, HeldInSection, HeldNotComplete, WaitersOwn, Cpus

\* The invariant is inductive.
THEOREM Inductive == Spec => []IInv
<1>1. IInv /\ [Next]_vars => IInv'
  BY TypeStep, BoundStep, SectionStep, WaiterStep, HeldStep DEF IInv
<1> QED
  BY InitIInv, <1>1, PTL DEF Spec

\* Types of the grace-period state, for every instance.
THEOREM TypeCorrect == Spec => []TypeOK
BY Inductive, PTL DEF IInv

\* For every number of CPUs and objects, however ticks, polls, waiters,
\* callbacks and CPU bring-up interleave, no reader holds a reclaimed object.
THEOREM GracePeriodSafe == Spec => []NoReaderHoldsReclaimed
<1>1. IInv => NoReaderHoldsReclaimed
  BY DEF IInv, HeldNotComplete, NoReaderHoldsReclaimed
<1> QED
  BY Inductive, <1>1, PTL

\* COMPLETED_EPOCH stays below the target of whatever a reader still holds.
THEOREM CompletionSafe == Spec => []CompletedExcludesReaders
<1>1. IInv => CompletedExcludesReaders
  BY DEF IInv, HeldNotComplete, CompletedExcludesReaders, Retired
<1> QED
  BY Inductive, <1>1, PTL
=============================================================================
