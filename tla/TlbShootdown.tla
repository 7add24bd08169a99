---------------------------- MODULE TlbShootdown ----------------------------
(***************************************************************************)
(* Cross-CPU TLB shootdown (mm/tlb_shootdown.rs) as its memory-management  *)
(* callers use it: munmap edits the page table and flushes under PT_LOCK   *)
(* with interrupts off, fork write-protects and flushes under PT_LOCK with *)
(* interrupts on, and mprotect edits under PT_LOCK but flushes after it    *)
(* released the lock.                                                      *)
(*                                                                         *)
(* Every CPU runs one process-level context and one interrupt context that *)
(* suspends it.  Several CPUs run threads of one user address space; the   *)
(* other root stands for every other address space.  Translations are the  *)
(* ones of the user root: hardware may load one whenever the root is in    *)
(* CR3 and the page-table entry is present.                                *)
(***************************************************************************)
EXTENDS Integers, FiniteSets

CONSTANTS
    NCpu,       \* CPUs 0 .. NCpu-1, all online
    Pages,      \* mapped pages of the user address space
    Calls,      \* bound: which call is made on which CPU
    Movers,     \* bound: CPUs that switch address spaces
    Walkers,    \* bound: CPUs that cache translations
    QueueLen,   \* TLB_SHOOTDOWN_QUEUE_LEN
    Retries,    \* ACK_TIMEOUT_RETRIES
    MaxCalls    \* bound: calls made

ASSUME CpuAssumption == NCpu \in Nat \ {0}
ASSUME QueueAssumption == QueueLen \in Nat \ {0}
ASSUME BoundAssumption == Retries \in Nat /\ MaxCalls \in Nat

Cpus == 0 .. NCpu - 1
Roots == {"user", "other"}
Rights == {"none", "ro", "rw"}
NoCpu == NCpu
NoGen == 0

VARIABLES
    pte,        \* page -> rights in the page table of the user root
    freed,      \* pages whose frame went back to the allocator
    sealed,     \* pages whose write protection a completed call promised
    busy,       \* pages under a transient VMA flag or a fork reservation
    ptLock,     \* PT_LOCK owner
    tlb,        \* CPU -> page -> cached rights
    cr3,        \* CPU -> root loaded in the hardware register
    activeCr3,  \* CPU_ACTIVE_CR3
    nextGen,    \* NEXT_SHOOTDOWN_GEN
    requestGen, ackGen, head, tail, entry,   \* the mailboxes
    ipi,        \* CPU -> shootdown interrupt pending in its local APIC
    pc, op, page, todo, targets, gen, slot, attempt, fallback,  \* process contexts
    ipc, ival,  \* interrupt contexts: control point, generation in a register
    panicked,   \* a shootdown ran out of retries
    calls       \* calls made so far

tables  == <<pte, freed, sealed, busy, ptLock>>
hw      == <<tlb, cr3, activeCr3>>
mailbox == <<requestGen, ackGen, head, tail, entry>>
proc    == <<pc, op, page, todo, targets, gen, slot, attempt, fallback>>
irq     == <<ipc, ival>>
vars    == <<tables, hw, nextGen, mailbox, ipi, proc, irq, panicked, calls>>

Slots == 0 .. QueueLen - 1
Empty == [g |-> NoGen, range |-> {}]
Lower(S) == CHOOSE k \in S : \A j \in S : k <= j
Max2(a, b) == IF a >= b THEN a ELSE b

\* Mutant: every flush, with or without the lock, waits with interrupts off.
MaskedFlush(c) == pc[c] # "idle"
\* munmap runs in with_current_manager (IF=0), fork in with_pt_lock (IF=1).
HoldsLock(c) == ptLock = c
Masked(c) == pc[c] = "switch" \/ (HoldsLock(c) /\ op[c] = "munmap")
\* A CPU that published a new root touches no user address before the load.
Usable(c, p) == IF pc[c] = "switch" THEN "none" ELSE tlb[c][p]

\* The process context moves only while no handler runs on top of it.
At(c, l) == pc[c] = l /\ ipc[c] = "off" /\ ~panicked
InIrq(c, l) == ipc[c] = l /\ ~panicked
Goto(c, l) == pc' = [pc EXCEPT ![c] = l]

Drop(c, S) == tlb' = [tlb EXCEPT ![c] = [p \in Pages |-> IF p \in S THEN "none" ELSE @[p]]]

\* The types of the page table, the mailboxes and the contexts; no mailbox ever
\* holds more claimed slots than it has (enqueue_mailbox checks before it claims).
TypeOK ==
    /\ pte \in [Pages -> Rights] /\ freed \subseteq Pages
    /\ sealed \subseteq Pages /\ busy \subseteq Pages
    /\ ptLock \in Cpus \cup {NoCpu}
    /\ tlb \in [Cpus -> [Pages -> Rights]]
    /\ cr3 \in [Cpus -> Roots] /\ activeCr3 \in [Cpus -> Roots]
    /\ nextGen \in Nat \ {0} /\ calls \in Nat
    /\ requestGen \in [Cpus -> Nat] /\ ackGen \in [Cpus -> Nat]
    /\ head \in [Cpus -> Nat] /\ tail \in [Cpus -> Nat]
    /\ entry \in [Cpus -> [Slots -> [g : Nat, range : SUBSET Pages]]]
    /\ \A c \in Cpus : head[c] <= tail[c] /\ tail[c] <= head[c] + QueueLen
    /\ ipi \in [Cpus -> BOOLEAN]
    /\ pc \in [Cpus -> {"idle", "switch", "collect", "post", "claimed",
                        "published", "send", "local", "wait"}]
    /\ op \in [Cpus -> {"munmap", "mprotect", "fork"}]
    /\ page \in [Cpus -> SUBSET Pages]
    /\ todo \in [Cpus -> SUBSET Cpus] /\ targets \in [Cpus -> SUBSET Cpus]
    /\ gen \in [Cpus -> Nat] /\ slot \in [Cpus -> Slots]
    /\ attempt \in [Cpus -> 0 .. Retries] /\ fallback \in [Cpus -> BOOLEAN]
    /\ ipc \in [Cpus -> {"off", "drain", "ack", "clear", "gap"}]
    /\ ival \in [Cpus -> Nat]
    /\ panicked \in BOOLEAN

Init ==
    /\ pte = [p \in Pages |-> "rw"] /\ freed = {} /\ sealed = {} /\ busy = {}
    /\ ptLock = NoCpu
    /\ tlb = [c \in Cpus |-> [p \in Pages |-> "none"]]
    /\ cr3 = [c \in Cpus |-> "user"] /\ activeCr3 = [c \in Cpus |-> "user"]
    /\ nextGen = 1
    /\ requestGen = [c \in Cpus |-> 0] /\ ackGen = [c \in Cpus |-> 0]
    /\ head = [c \in Cpus |-> 0] /\ tail = [c \in Cpus |-> 0]
    /\ entry = [c \in Cpus |-> [s \in Slots |-> Empty]]
    /\ ipi = [c \in Cpus |-> FALSE]
    /\ pc = [c \in Cpus |-> "idle"] /\ op = [c \in Cpus |-> "munmap"]
    /\ page = [c \in Cpus |-> {}]
    /\ todo = [c \in Cpus |-> {}] /\ targets = [c \in Cpus |-> {}]
    /\ gen = [c \in Cpus |-> 0] /\ slot = [c \in Cpus |-> 0] /\ attempt = [c \in Cpus |-> 0]
    /\ fallback = [c \in Cpus |-> FALSE]
    /\ ipc = [c \in Cpus |-> "off"] /\ ival = [c \in Cpus |-> 0]
    /\ panicked = FALSE /\ calls = 0

-----------------------------------------------------------------------------
(* Hardware and the scheduler.                                             *)

\* A page walk, speculative or not, under the user root.
Fill(c, p) ==
    /\ ~panicked /\ c \in Walkers /\ cr3[c] = "user" /\ pte[p] # "none" /\ tlb[c][p] = "none"
    /\ tlb' = [tlb EXCEPT ![c][p] = pte[p]]
    /\ UNCHANGED <<tables, cr3, activeCr3, nextGen, mailbox, ipi, proc, irq, panicked, calls>>

\* activate_memory_space: with interrupts off, track_cr3_switch and then ...
SwitchPublish(c, r) ==
    /\ At(c, "idle") /\ c \in Movers /\ cr3[c] # r
    /\ activeCr3' = [activeCr3 EXCEPT ![c] = r]
    /\ Goto(c, "switch")
    /\ UNCHANGED <<tables, tlb, cr3, nextGen, mailbox, ipi, op, page, todo, targets,
                   gen, slot, attempt, fallback, irq, panicked, calls>>

\* ... Cr3::write, which drops every cached translation.
SwitchLoad(c) ==
    /\ At(c, "switch")
    /\ cr3' = [cr3 EXCEPT ![c] = activeCr3[c]]
    /\ Drop(c, Pages)
    /\ Goto(c, "idle")
    /\ UNCHANGED <<tables, activeCr3, nextGen, mailbox, ipi, op, page, todo, targets,
                   gen, slot, attempt, fallback, irq, panicked, calls>>

-----------------------------------------------------------------------------
(* The callers up to their flush.                                          *)

\* The call o on pages S: claim them, take PT_LOCK, edit, enter the flush.
Call(c, o, S, rights, lock) ==
    /\ At(c, "idle") /\ cr3[c] = "user" /\ <<o, c>> \in Calls
    /\ calls < MaxCalls /\ calls' = calls + 1
    /\ ptLock = NoCpu /\ busy \cap S = {}
    /\ busy' = busy \cup S
    /\ pte' = [p \in Pages |-> IF p \in S /\ pte[p] # "none" THEN rights ELSE pte[p]]
    /\ ptLock' = lock
    /\ op' = [op EXCEPT ![c] = o] /\ page' = [page EXCEPT ![c] = S]
    /\ todo' = [todo EXCEPT ![c] = Cpus \ {c}]
    /\ Goto(c, "collect")
    /\ UNCHANGED <<freed, sealed, hw, nextGen, mailbox, ipi, targets, gen, slot, attempt,
                   fallback, irq, panicked>>

\* sys_munmap, phases 1 and 2: the lock is kept until the flush has returned.
Munmap(c, p) == pte[p] # "none" /\ Call(c, "munmap", {p}, "none", c)

\* sys_mprotect: the manager's hold ends before flush_current_as_range.
Mprotect(c, p) == pte[p] = "rw" /\ Call(c, "mprotect", {p}, "ro", NoCpu)

\* copy_page_table_cow_with_shared: every writable leaf, lock kept.
Fork(c) == busy = {} /\ Call(c, "fork", Pages, "ro", c)

-----------------------------------------------------------------------------
(* dispatch_shootdown_for_cr3.                                             *)

\* collect_target_cpus reads the tracked roots one CPU at a time.
CollectCpu(c) ==
    /\ At(c, "collect") /\ todo[c] # {}
    /\ LET k == Lower(todo[c]) IN
         /\ todo' = [todo EXCEPT ![c] = @ \ {k}]
         /\ targets' = [targets EXCEPT ![c] =
                          IF activeCr3[k] = "user" THEN @ \cup {k} ELSE @]
    /\ UNCHANGED <<tables, hw, nextGen, mailbox, ipi, pc, op, page, gen, slot,
                   attempt, fallback, irq, panicked, calls>>

\* An empty scan falls back to every online CPU; then the generation is taken.
Generation(c) ==
    /\ At(c, "collect") /\ todo[c] = {}
    /\ LET T == IF targets[c] = {} THEN Cpus \ {c} ELSE targets[c] IN
         /\ targets' = [targets EXCEPT ![c] = T]
         /\ todo' = [todo EXCEPT ![c] = T]
         /\ IF T = {}
              THEN Goto(c, "local") /\ gen' = [gen EXCEPT ![c] = NoGen]
                   /\ UNCHANGED nextGen
              ELSE Goto(c, "post") /\ gen' = [gen EXCEPT ![c] = nextGen]
                   /\ nextGen' = nextGen + 1
    /\ UNCHANGED <<tables, hw, mailbox, ipi, op, page, slot, attempt, fallback, irq,
                   panicked, calls>>

\* Mutant: a slot is claimed without checking for space.
ClaimBlindly(c) ==
    /\ At(c, "post") /\ todo[c] # {}
    /\ LET k == Lower(todo[c]) IN
         /\ tail' = [tail EXCEPT ![k] = @ + 1]
         /\ slot' = [slot EXCEPT ![c] = tail[k] % QueueLen]
    /\ Goto(c, "claimed")
    /\ UNCHANGED <<tables, hw, nextGen, requestGen, ackGen, head, entry, ipi, op, page,
                   todo, targets, gen, attempt, fallback, irq, panicked, calls>>

\* enqueue_mailbox: the compare-exchange on tail claims a slot of the target.
Claim(c) ==
    /\ At(c, "post") /\ todo[c] # {}
    /\ LET k == Lower(todo[c]) IN
         /\ tail[k] - head[k] < QueueLen
         /\ tail' = [tail EXCEPT ![k] = @ + 1]
         /\ slot' = [slot EXCEPT ![c] = tail[k] % QueueLen]
    /\ Goto(c, "claimed")
    /\ UNCHANGED <<tables, hw, nextGen, requestGen, ackGen, head, entry, ipi, op, page,
                   todo, targets, gen, attempt, fallback, irq, panicked, calls>>

\* The fields and, with Release, the generation that makes them visible; an
\* empty range is len = 0, a full flush.
Publish(c) ==
    /\ At(c, "claimed")
    /\ entry' = [entry EXCEPT ![Lower(todo[c])][slot[c]] =
                   [g |-> gen[c], range |-> IF op[c] = "fork" THEN {} ELSE page[c]]]
    /\ Goto(c, "published")
    /\ UNCHANGED <<tables, hw, nextGen, requestGen, ackGen, head, tail, ipi, op, page,
                   todo, targets, gen, slot, attempt, fallback, irq, panicked, calls>>

\* request_gen.fetch_max, after an entry or (saturated) in place of one.
Request(c, k) ==
    /\ requestGen' = [requestGen EXCEPT ![k] = Max2(@, gen[c])]
    /\ todo' = [todo EXCEPT ![c] = @ \ {k}]

Requested(c) ==
    /\ At(c, "published")
    /\ Request(c, Lower(todo[c]))
    /\ Goto(c, "post")
    /\ UNCHANGED <<tables, hw, nextGen, ackGen, head, tail, entry, ipi, op, page,
                   targets, gen, slot, attempt, fallback, irq, panicked, calls>>

\* The queue stayed full for MAILBOX_WAIT_SPINS.
Saturated(c) ==
    /\ At(c, "post") /\ todo[c] # {}
    /\ LET k == Lower(todo[c]) IN tail[k] - head[k] >= QueueLen /\ Request(c, k)
    /\ fallback' = [fallback EXCEPT ![c] = TRUE]
    /\ UNCHANGED <<tables, hw, nextGen, ackGen, head, tail, entry, ipi, pc, op, page,
                   targets, gen, slot, attempt, irq, panicked, calls>>

SendIpis(c) ==
    /\ At(c, "post") /\ todo[c] = {}
    /\ ipi' = [k \in Cpus |-> ipi[k] \/ k \in targets[c]]
    /\ Goto(c, "local")
    /\ UNCHANGED <<tables, hw, nextGen, mailbox, op, page, todo, targets, gen, slot,
                   attempt, fallback, irq, panicked, calls>>

-----------------------------------------------------------------------------
(* flush_all_impl and flush_current_as_range after the dispatch.           *)

\* The local flush, full if a mailbox was saturated, and the guarded self-ACK.
LocalFlush(c) ==
    /\ At(c, "local")
    /\ Drop(c, IF fallback[c] THEN Pages ELSE page[c])
    /\ ackGen' = [ackGen EXCEPT ![c] =
                    IF targets[c] # {} /\ requestGen[c] = gen[c] THEN gen[c] ELSE @]
    /\ Goto(c, "wait")
    /\ UNCHANGED <<tables, cr3, activeCr3, nextGen, requestGen, head, tail, entry, ipi,
                   op, page, todo, targets, gen, slot, attempt, fallback, irq, panicked, calls>>

\* Mutant: an acknowledgement of the previous generation is enough.
UnackedStale(c) == {k \in targets[c] : ackGen[k] + 1 < gen[c]}

Unacked(c) == {k \in targets[c] : ackGen[k] < gen[c]}

\* wait_for_acks_with_retry gave up once: interrupt the late CPUs again.
Resend(c) ==
    /\ At(c, "wait") /\ Unacked(c) # {} /\ attempt[c] < Retries
    /\ ipi' = [k \in Cpus |-> ipi[k] \/ k \in Unacked(c)]
    /\ attempt' = [attempt EXCEPT ![c] = @ + 1]
    /\ UNCHANGED <<tables, hw, nextGen, mailbox, pc, op, page, todo, targets, gen, slot,
                   fallback, irq, panicked, calls>>

\* The last attempt timed out: both builds end in a panic.
Panic(c) ==
    /\ At(c, "wait") /\ Unacked(c) # {} /\ attempt[c] = Retries
    /\ panicked' = TRUE
    /\ UNCHANGED <<tables, hw, nextGen, mailbox, ipi, proc, irq, calls>>

\* Every target has acknowledged: the caller releases its claim and PT_LOCK;
\* munmap frees the frames, the others have made the pages read-only.
Return(c) ==
    /\ At(c, "wait") /\ Unacked(c) = {}
    /\ freed' = IF op[c] = "munmap" THEN freed \cup page[c] ELSE freed
    /\ sealed' = IF op[c] = "munmap" THEN sealed ELSE sealed \cup page[c]
    /\ busy' = busy \ page[c]
    /\ ptLock' = IF HoldsLock(c) THEN NoCpu ELSE ptLock
    /\ Goto(c, "idle") /\ op' = [op EXCEPT ![c] = "munmap"]
    /\ page' = [page EXCEPT ![c] = {}] /\ targets' = [targets EXCEPT ![c] = {}]
    /\ gen' = [gen EXCEPT ![c] = NoGen] /\ slot' = [slot EXCEPT ![c] = 0]
    /\ attempt' = [attempt EXCEPT ![c] = 0]
    /\ fallback' = [fallback EXCEPT ![c] = FALSE]
    /\ UNCHANGED <<pte, hw, nextGen, mailbox, ipi, todo, irq, panicked, calls>>

-----------------------------------------------------------------------------
(* handle_shootdown_ipi.                                                   *)

TakeIpi(c) ==
    /\ InIrq(c, "off") /\ ipi[c] /\ ~Masked(c)
    /\ ipi' = [ipi EXCEPT ![c] = FALSE]
    /\ ipc' = [ipc EXCEPT ![c] = "drain"]
    /\ UNCHANGED <<tables, hw, nextGen, mailbox, proc, ival, panicked, calls>>

\* A published entry at the head: flush its range, or everything when it asks
\* for that or names a root that is not loaded here.  The handler spins while
\* the entry is claimed but unpublished.
DrainEntry(c) ==
    /\ InIrq(c, "drain") /\ head[c] < tail[c]
    /\ LET e == entry[c][head[c] % QueueLen] IN
         /\ e.g # NoGen
         /\ Drop(c, IF e.range = {} \/ cr3[c] # "user" THEN Pages ELSE e.range)
         /\ ival' = [ival EXCEPT ![c] = e.g]
    /\ ipc' = [ipc EXCEPT ![c] = "ack"]
    /\ UNCHANGED <<tables, cr3, activeCr3, nextGen, mailbox, ipi, proc, panicked, calls>>

AckEntry(c) ==
    /\ InIrq(c, "ack")
    /\ ackGen' = [ackGen EXCEPT ![c] = Max2(@, ival[c])]
    /\ ipc' = [ipc EXCEPT ![c] = "clear"]
    /\ UNCHANGED <<tables, hw, nextGen, requestGen, head, tail, entry, ipi, proc, ival,
                   panicked, calls>>

ClearEntry(c) ==
    /\ InIrq(c, "clear")
    /\ entry' = [entry EXCEPT ![c][head[c] % QueueLen].g = NoGen]
    /\ head' = [head EXCEPT ![c] = @ + 1]
    /\ ipc' = [ipc EXCEPT ![c] = "drain"]
    /\ UNCHANGED <<tables, hw, nextGen, requestGen, ackGen, tail, ipi, proc, ival,
                   panicked, calls>>

\* The queue is drained: load request_gen ...
Drained(c) ==
    /\ InIrq(c, "drain") /\ head[c] >= tail[c]
    /\ ival' = [ival EXCEPT ![c] = requestGen[c]]
    /\ ipc' = [ipc EXCEPT ![c] = "gap"]
    /\ UNCHANGED <<tables, hw, nextGen, mailbox, ipi, proc, panicked, calls>>

\* Mutant: a generation without an entry is acknowledged and not flushed.
GapAck(c) ==
    /\ InIrq(c, "gap")
    /\ ackGen' = [ackGen EXCEPT ![c] = Max2(@, ival[c])]
    /\ ipc' = [ipc EXCEPT ![c] = "off"] /\ ival' = [ival EXCEPT ![c] = NoGen]
    /\ UNCHANGED <<tables, hw, nextGen, requestGen, head, tail, entry, ipi, proc,
                   panicked, calls>>

\* ... and a generation without an entry asks for a full flush.
GapFlush(c) ==
    /\ InIrq(c, "gap")
    /\ IF ival[c] > ackGen[c]
         THEN Drop(c, Pages) /\ ackGen' = [ackGen EXCEPT ![c] = ival[c]]
         ELSE UNCHANGED <<tlb, ackGen>>
    /\ ipc' = [ipc EXCEPT ![c] = "off"] /\ ival' = [ival EXCEPT ![c] = NoGen]
    /\ UNCHANGED <<tables, cr3, activeCr3, nextGen, requestGen, head, tail, entry, ipi,
                   proc, panicked, calls>>

-----------------------------------------------------------------------------
Hardware(c) ==
    \/ \E p \in Pages : Fill(c, p)
    \/ \E r \in Roots : SwitchPublish(c, r)
    \/ SwitchLoad(c)

Caller(c) ==
    \/ \E p \in Pages : Munmap(c, p) \/ Mprotect(c, p)
    \/ Fork(c)
    \/ CollectCpu(c) \/ Generation(c)
    \/ Claim(c) \/ Publish(c) \/ Requested(c) \/ Saturated(c) \/ SendIpis(c)
    \/ LocalFlush(c) \/ Resend(c) \/ Panic(c) \/ Return(c)

Handler(c) ==
    \/ TakeIpi(c) \/ DrainEntry(c) \/ AckEntry(c) \/ ClearEntry(c)
    \/ Drained(c) \/ GapFlush(c)

Next == \E c \in Cpus : Hardware(c) \/ Caller(c) \/ Handler(c)

Spec == Init /\ [][Next]_vars

\* Kernel code that a CPU has entered keeps running on it: a call in progress,
\* a root switch and a handler advance.  A pending interrupt is delivered as
\* soon as interrupts are on, which is strong fairness when they come and go.
\* Nothing is assumed of new calls, page walks, new switches and time-outs.
Advance(c) ==
    \/ CollectCpu(c) \/ Generation(c) \/ Claim(c) \/ Publish(c) \/ Requested(c)
    \/ Saturated(c) \/ SendIpis(c) \/ LocalFlush(c) \/ Return(c)
Fairness ==
    \A c \in Cpus : /\ WF_vars(Advance(c)) /\ WF_vars(SwitchLoad(c))
                    /\ WF_vars(Handler(c)) /\ SF_vars(TakeIpi(c))
FairSpec == Spec /\ Fairness

-----------------------------------------------------------------------------
\* When munmap has given a frame back, no CPU can still use a translation of
\* its page (flush_current_as_range: "Ensures no CPU (in SMP) retains stale
\* TLB entries pointing to freed frames").
NoStaleFrame ==
    \A c \in Cpus, p \in freed : Usable(c, p) = "none"

\* Once mprotect or fork has returned, no CPU can still write the page through
\* an older translation (flush_current_as_all after commit_parent_cow).
WriteProtected ==
    \A c \in Cpus, p \in sealed : Usable(c, p) # "rw"

\* A call that has entered its flush returns, unless a time-out panics first:
\* munmap and fork wait with PT_LOCK held, munmap with interrupts off as well.
CallReturns == \A c \in Cpus : pc[c] = "collect" ~> (pc[c] = "idle" \/ panicked)

\* The handler waits for a claimed slot only while its claimer can run: two
\* CPUs never spin in their handlers on slots the other one has claimed
\* ("Entry not yet published, spin briefly and retry").
SpinsOn(c) ==
    {k \in Cpus : /\ InIrq(c, "drain") /\ head[c] < tail[c]
                  /\ entry[c][head[c] % QueueLen].g = NoGen
                  /\ pc[k] = "claimed" /\ Lower(todo[k]) = c
                  /\ slot[k] = head[c] % QueueLen}
NoMutualSpin == \A c, k \in Cpus : ~(k \in SpinsOn(c) /\ c \in SpinsOn(k))

=============================================================================
