# Nilix: TLA+ models and proofs

This directory holds a formal model of parts of the Nilix kernel (`src/kernel`):
TLA+ modules, the TLC configurations that check them on small instances, and
machine-checked TLAPS proofs. `PROJECT.json` is the index: components, runs,
mutants, the map from definitions to source lines, findings, hazards, theorems.

Run a check with `tlc -workers 2 -config <cfg> <module>`, a proof with
`tlapm <module>.tla`.

## 1. The system

Nilix is a monolithic x86_64 kernel for SMP machines. Two facts about how its
code runs shape every model here:

* **Kernel code is not preempted.** The timer reschedules only on the way back
  to user mode (`arch/interrupts.rs`, `kernel_core/process.rs`). A CPU runs one
  process-level context at a time, which gives up the CPU only where it blocks.
* **System calls run with interrupts on.** An interrupt handler can run on top of
  the process-level context between any two of its instructions, unless the code
  has interrupts off. The handler runs to its end before the context resumes.

So the actors are: one process-level context per CPU, one interrupt context per
CPU that suspends it, the hardware (page walks, IPIs), and, above the scheduler,
tasks that block and are woken.

### Inventory

| Component | State | Operations | Interacts with | What is hard |
| --- | --- | --- | --- | --- |
| RCU grace periods (`kernel_core/rcu.rs`) | GLOBAL_EPOCH, COMPLETED_EPOCH, per-CPU nesting and epoch, online mask | read lock/unlock, tick, poll, call_rcu, synchronize_rcu, CPU online | process teardown, timer | reports racing a tick, a scan over changing CPUs |
| RCU callback pool (same file) | slots, ring, counters, drain owner | reserve, drop, queue, drain, quarantine | kernel-stack reclaim | callbacks outside the lock, one drainer |
| TLB shootdown (`mm/tlb_shootdown.rs`) | mailboxes, generations, tracked CR3s | flush, IPI handler, retry | page tables, PT_LOCK, munmap, mprotect, fork | acknowledgement races, full mailbox, waiting with interrupts off |
| Wait queues (`ipc/sync.rs`) | waiter deque, task state, timers | prepare, finish, cancel, wake, time-out | everything that blocks | lost wakes, stale entries, timer races, PID reuse |
| Pipes (`ipc/pipe.rs`) | ring, transaction flag, end counts | read, write, close, dup, poll | wait queues, fd table, signals | one-reader wakes, unlocked copyout |
| Futexes (`ipc/futex.rs`) | buckets, PI owners, robust lists | wait, wake, requeue, lock_pi | wait queues, exit, usercopy | value check vs. wake, requeue, owner death |
| Message endpoints (`ipc/ipc.rs`) | bounded queues | send, receive, destroy | wait queues, capabilities | destroy while blocked |
| Signals (`kernel_core/signal.rs`) | pending sets, masks, dispositions | send, deliver, stop, continue | wait queues, scheduler | group-wide claims, stop vs. continue |
| Processes (`process.rs`, `fork.rs`) | process table, thread groups | fork, exec, exit, wait, reap | everything | zombie/reap, PID reuse, exec from a thread |
| Scheduler (`sched/`) | per-CPU queues, levels | tick, wake, block, steal, migrate | wait queues, cpusets | wake vs. block, task on two queues |
| Page tables, memory (`mm/page_table.rs`, `mm/memory.rs`) | four-level tables, VMAs | map, unmap, protect, fault | TLB, allocator | two-phase munmap |
| Buddy allocator (`mm/buddy_allocator.rs`) | free lists, orders | allocate, free | everything | splitting, coalescing, double free |
| Page cache (`mm/page_cache.rs`) | pages, references, dirty flags | get, write back, evict | file systems, block | evict vs. use |
| Cgroups (`kernel_core/cgroup.rs`) | tree of counters | charge, uncharge, attach, delete | fork, memory | hierarchical limits, roll-back |
| Namespaces | PID maps, user maps | create, translate, tear down | fork, exit | init's death |
| Capabilities (`cap/lib.rs`) | generation-tagged slots | allocate, lookup, revoke, delegate | IPC, LSM | stale handles, generation exhaustion |
| Audit (`audit/lib.rs`) | ring, hash chain | emit, drain | security modules | overflow, chain continuity |
| VFS, ext2, JBD2 (`vfs/`) | inodes, mounts, journal | create, rename, commit, recover | page cache, block | crash between two writes, rename cycles |
| Block, virtio (`block/`, `virtio/`) | rings, completion slots | submit, complete, time out | DMA, interrupts | late completion after a time-out |
| TCP, sockets (`net/`) | connection state, queues | connect, accept, send, retransmit, close | timers, wait queues | loss, duplication, reordering |
| Conntrack, firewall, fragments, ARP | flow tables, caches | packet, expiry | network stack | table limits, expiry races |
| IOMMU (`iommu/`) | domains, init state | attach, map, fault | DMA | partial initialisation |
| Live patching (`livepatch/`) | patch states | load, enable, disable | SMP | patching code other CPUs run |

Components that are device input/output, formatting, boot code or arithmetic are
listed in `PROJECT.json` with the reason they are not modelled.

### What must hold

* RCU: nothing is reclaimed while a reader that could have reached it is inside
  its section; callbacks run in order, once, never early, and eventually.
* TLB: a frame is reused, and a page counts as write-protected, only when no CPU
  can use an older translation; a flush ends.
* Wait queues and pipes: no wake is lost; bytes are delivered once and in order;
  small writes are whole; end of file is told only at the end.
* Futexes: a waiter can always be found by a waker; a wake, a time-out and a
  signal that race give one outcome, and the wait ends; nothing is left behind.
* ext2 journal: a transaction takes place as a whole or not at all, its caller is
  told the truth, and a mount accepts what a crash leaves and comes back in the end
  (the last with an exception, finding 5).

## 2. Plan

Order: what the rest of the kernel rests on first. Modules that are to be proved
about use no recursion; each component's theorems go to a module of their own.

1. **Done**: `RcuEpoch` with `RcuEpochProofs`, `RcuCallbacks` with
   `RcuCallbacksProofs`, `TlbShootdown` with `TlbShootdownProofs`, `WaitQueue` with
   `WaitQueueProofs`, `Pipe` with `PipeProofs`, `Futex` with timed
   waits, `AtomicStore` with `AtomicStoreProofs`, `Ext2Journal` as its implementation
   with `Ext2WriterProofs` and `Ext2JournalProofs`.
2. **Next to model**: PI futexes and robust lists; signals and job control; exit,
   zombie and wait4 with PID reuse; the scheduler's run queues and wake-ups.
3. **Then**: buddy allocator (algorithm against a set of free frames), capability
   table, page cache, cgroup charging, the audit ring, message endpoints.
4. **Then**: virtio ring and block completion, TCP connection state over a lossy
   channel, connection tracking, fragment reassembly, IOMMU initialisation.
5. **Abstract specifications**: a wait queue as a set of sleepers (implemented by
   `WaitQueue`'s deque), a pipe as a byte stream (implemented by `Pipe`), RCU as
   "retire, then wait for the readers of that moment" (implemented by `RcuEpoch`).
6. **To prove**: `RecordFound` and `NoLeak` of `Futex`, with lemmas about its buckets in
   the manner of `WaitQueueProofs`.

## 3. Modules

### RcuEpoch

One step is one atomic access to shared memory. A context is `<<cpu, "proc">>` or
`<<cpu, "irq">>`; `Runs` lets the process level move only while no interrupt runs
on it. `readers`, `rcuEpoch` and `online` are the per-CPU data, `globalEpoch` and
`completedEpoch` the globals. `pc`, `op`, `val`, `todo` are a context's registers.
`TimerTick`, `QsLoad` and `QsStore` are the tick's report (check, load, store);
`ScanGlobal`, `ScanMask`, `ScanCpu` and `Advance` are
`try_advance_completed_epoch`; `Poll`, `PollDone`, `Reclaim` and `DrainEnds` are
`poll`; `CallRcu`, `Synchronize` and `SyncAdvance` the updaters. `Reach`, `Unlink`
and `Publish` are the user of RCU: a reader reaches only published objects, an
updater unpublishes before it retires.

### RcuCallbacks

The pool behind `call_rcu`: a slot is Free, Reserved (a permit owns it), Queued,
Running or Quarantined. A step is one critical section of `CALLBACKS` or one
atomic access. Completion of an epoch is an input here (`GracePeriod`); what makes
it sound is `RcuEpoch`. Stack callbacks use the slot of their PID, general ones
the first free slot from the cursor.

### TlbShootdown

Each CPU has a process context (`pc`) and a handler (`ipc`). A call claims its
pages (`busy`, the transient VMA flags and the fork reservation), edits the page
table under PT_LOCK and enters the flush: scan of the tracked roots, generation,
one mailbox per target (claim, publish, request), IPIs, local flush, wait with
retries. munmap holds PT_LOCK with interrupts off to the end, fork with interrupts
on, mprotect has released it. `Fill` is the processor's page walk, at any time.

### WaitQueue and Pipe

`WaitQueue` gives the queue operations as functions on `[queue, blocked]`; each is
one critical section under the `waiters` lock. `Pipe` uses them. An action is one
critical section of the pipe's `inner` lock, or one wake made outside it. Readers
run `read_with_commit`: look, reserve queue capacity, look again and arm, sleep,
copy out unlocked, commit, wake, pass the wake on. Writers run `write` and
`write_atomic`. A call holds a clone of the handle, whose drop on return counts
the end down and wakes the other side. A byte is `<<call, index, size>>`, so its
origin can be told. `Signal` stands for a deliverable signal or a kill.

### Futex

Plain futexes on the wait queues of `WaitQueue`, in one address space. A bucket has
an identity besides its address, because a task can hold one that was unlinked since
it was looked up (`unlinked` is the tombstone). It keeps the records of the tasks
waiting for its address; a task sleeps on the queue of its origin bucket, and a
requeue moves its record but not the task. An action is one critical section of the
table, of a bucket, of a queue, of a PCB or of the timer list.

A waiter gets its bucket under the preparation gate, checks the word and publishes
its record, arms its sleep (and its timer), sleeps, leaves the queue, takes its record
back or finds the waker's mark, and reaps the bucket. A waker changes the word, looks
the bucket up and scans it; wakes of requeued tasks go to other buckets' queues and are
`deferred` until no lock is held. A requeue plans, prepares the target and makes one
pass over both buckets. `CopyExpired`, `TimeoutWake` and `RetireTimer` are the tick's
work on one timer, in which the list is unlocked twice. `taken` and `fired` are history.

### AtomicStore and Ext2Journal

`AtomicStore` is the promise: a transaction replaces its blocks in one step
(`Apply`) or not at all; the caller is told "ok" only after it, "aborted" only without
it; an error of unknown effect and a crash leave it open or settle it as it stands.

`Ext2Journal` is the writer (`Begin` to `ClearFlush`, with `Abort` and the poisoned
mount), the recovery of a mount (`Mount` to `Publish`) and the device. `live` is what a
read returns, `media` what survives power loss; `Persist` writes any block back at
any time, whole or torn, a flush writes all. An action is one device operation with its
success and its failure. Blocks are tuples of the parts a torn write can separate;
the sequence number in the journal superblock is two such parts. A digest is the
tuple of what it covers, so equal digests mean equal contents (the hash is taken to be
collision-free). The contents of a metadata block are the number of the transaction that wrote it.

A mount looks at the metadata twice. `read_super` and `load_group_descs` check the home blocks
as they are on the device, before the journal is read: `Legible`, in which each home has one
two-byte count `Count[h][t]` and a bound `Limit[h]` on it (a tear splits at most one field, so
one per home is enough). Then `initialize_journal` checks the journal and the metadata under
the images of the transaction, before and after it: `RecoveryAccepts`. Its field-by-field
rules are abstracted strictly: a home that is torn under either set of images is refused, though
the code may overlook it. `Accepts` is both; the first is checked again after the replay, by
`reload_recovered_metadata`, in `ReplayFlush`.

The refinement mapping is `store <- Recovered(media)`: the abstract store is what
recovery would rebuild if power failed now. `Apply` therefore happens at the step, of the
writer or of the device's cache, in which the commit block first becomes durable, and
checkpoints, replay, resets and crashes must be stuttering steps.

## 4. Runs

Every property of a passing run has a mutant in `PROJECT.json`: a variant of a
mapped definition with a plausible bug, for which TLC finds the property violated.

| Run | Instance | Shows |
| --- | --- | --- |
| `rcu_epoch` | 2 CPUs (one online at first), 1 object, 2 epochs, no nesting | no reader holds a reclaimed object; completed epochs exclude readers |
| `rcu_callbacks` | 2 CPUs, 1 stack slot, 2 general slots, 4 epochs | order, single drainer, counters, permits, full drain by synchronize_rcu; every queued callback is dequeued |
| `tlb_two_cpus` | 2 CPUs, the page walks of one, all calls, one-slot mailbox | no stale frame, write protection, saturation included; a flush returns or panics |
| `tlb_masked` (violation) | 3 CPUs, mprotect beside munmap | finding 1 |
| `tlb_spin` (violation) | 3 CPUs, two mprotect flushes with interrupts on, one munmap | finding 2 |
| `pipe_readers` | 2 readers, 1 writer with two writes, 2-byte ring, a faulting and interrupted reader | no lost wake, order and single delivery of bytes; sleeping readers and the sleeping writer are served |
| `pipe_writers` | 1 reader, 2 writers, sizes 2 (atomic) and 3 (pieces), dup and close during calls | no lost wake, atomic small writes, end counts |
| `pipe_eof` (violation) | 2 readers, 1 writer, 2 bytes | finding 3 |
| `futex` | 2 waiters (one timed, with two waits; one signalled), a waker that wakes all or requeues word 1 to 2, a waker of word 2 | records are found, no lost wake, one outcome, no leak; a wait with a timeout, a wake or a signal ends |
| `futex_full` (violation) | 2 waiters, bucket capacity 1, requeues in both directions | finding 4 |
| `ext2_journal` | 2 home blocks, transactions of one and two, 3 transactions, one device error, one crash besides restarts after a failure, a group of 512 blocks | implements `AtomicStore`; mounts accept every crash image, no stale replay, memory never ahead of the media; the system is mounted again |
| `ext2_torn_count` (violation) | the same with one transaction and a group of 300 blocks | finding 5 |

**Bounds.** Two CPUs are enough for every pairwise race; the acknowledgement race
needs a third, so the runs about it have three. Epochs and calls are bounded
because they only count up; the interesting cases (a second grace period behind
the first, a second transaction behind the first) need two or three. A ring of two
bytes fills, empties and splits a write of three. A one-slot mailbox saturates. The
constants named "bound" in the modules are these bounds. The pipe runs do
not check deadlock: when all calls the bound allows are made, a reader may sleep
for ever, as on a real idle pipe. `rcu_epoch` has no nested sections and one object;
nested sections and successive grace periods are covered by the proofs of section 6,
which hold for every bound. In `pipe_readers` a write fills the ring, so the second write
sleeps until a reader has committed; in `pipe_writers` writers sleep too.
`tlb_two_cpus` lets one CPU's page walker fill its TLB. The TLB runs do not check deadlock
either: a flush that runs out of retries panics, and nothing runs after a panic.
In `ext2_journal` the sequence number starts at 3, its last value, so the second
transaction has wrapped to 0 and a torn write of the number yields one that is
neither the old nor the new;
three transactions are what it takes for a slot to hold a commit block of an earlier
number while another is written. A restart after a failed mount or a poisoned one is not
counted, so recovery is interrupted again after a device error during recovery. The run
does not check deadlock: all transactions may be used up. In `futex` a waiter has two waits because a late wake or timer can
only hit the second; a bucket holds two waiters, more than ever wait on one word here,
and `futex_full` shrinks that to one so that two records exceed what a requeue prepares
for. A waiter without a timeout that nobody wakes sleeps for ever, so deadlock is not
checked there either.
In `tlb_two_cpus`, `CallReturns` excludes any other way for a flush to stop. Several
targets of one flush, without mprotect, are covered by the proofs of section 6.
The free count in home 1 alternates between 256 and 255, the pair whose torn form is
farthest from both, 511; the group of `ext2_journal` has room for it, that of
`ext2_torn_count` has not.

**Fairness.** `RcuCallbacks`: a drain that was entered goes on (kernel code is not
preempted), every CPU polls again (poll runs on each return to user mode), grace
periods end. `TlbShootdown`: code a CPU has entered keeps running; a pending IPI is
delivered if interrupts are on again and again (strong fairness: the local APIC
keeps it pending). Nothing is assumed of new calls or time-outs. `Pipe`: a task
inside a call that can run is run (the scheduler picks every ready task). Nothing
is assumed of new calls, signals or closes. `Futex`: while some call in progress or some
armed timer can take a step, some such step is taken (no CPU stops, ticks keep coming);
this is one weak fairness condition over all of them, less than the scheduler gives.
`Ext2Journal`: a transaction or a mount that was begun goes on, and a system whose mount
failed or was poisoned is restarted; nothing is assumed of the device's cache,
and that errors stop is the bound on them.

## 5. Findings

1. `tlb_masked`: an acknowledgement is a maximum. CPU A (munmap) takes generation
   1; CPU B (mprotect, not under PT_LOCK) takes 2, posts to CPU C and is
   acknowledged; A's wait sees C's `ack_gen` 2 and returns before C flushed A's
   page. The frame is freed while C can still use it.
2. `tlb_spin`: the handler spins on a claimed, unpublished slot. With interrupts
   on, two claimers that have each claimed a slot in the other's mailbox can be
   interrupted by a third CPU's IPI; their handlers then wait for each other.
3. `pipe_eof`: with no writer left and a transaction in flight, a second reader is
   told end of file though bytes remain behind the transaction.
4. `futex_full`: a bucket may hold its own waiters and as many requeued to it, twice
   MAX_FUTEX_WAITERS_PER_BUCKET. `futex_requeue` prepares room for at most that constant,
   so with more movers every pass asks for a retry; after the last one the call fails
   and no waiter is moved or woken, although the code says they are woken instead.
5. `ext2_torn_count`: `mount` reads the superblock and the group descriptors from the
   device as they are, and checks their counts against the size of the group, before it
   looks at the journal. A checkpoint write torn between the two bytes of a count shows
   a value that is neither the old one nor the new one: 256 to 255 reads 511. In a group
   of 300 blocks every mount refuses it, and the sealed transaction that would repair it
   is never replayed. The tests tear this very field, with counts below 256.

## 6. Proofs

`RcuEpochProofs` proves, for every number of CPUs, objects, epochs and nesting
levels, under the assumptions the module names (`CpuAssumption`,
`BoundAssumption`, `NoObjectAssumption`):

* `TypeCorrect`: `Spec => []TypeOK`
* `GracePeriodSafe`: `Spec => []NoReaderHoldsReclaimed`
* `CompletionSafe`: `Spec => []CompletedExcludesReaders`

Neither safety property is inductive: a step that publishes a value read earlier
breaks it unless that value is known to be harmless. The inductive invariant `IInv`
says so of every value in circulation. When an object is retired its target is
`globalEpoch + 1`, above every epoch any CPU has reported, any context has loaded
and any scan has computed. `EpochsBounded` keeps all of those at or below
`globalEpoch`; `HeldNotComplete` says that while a CPU holds a retired object, its
reported epoch, every scan that is done with that CPU, every drain and
`completedEpoch` stay below the object's target; `HeldInSection` says that an
epoch about to be stored was loaded outside a section; `WaitersOwn` ties each
synchronize_rcu to the one object it waits for. A CPU inside a section does not report, so the values
stay low until it leaves. The proof has one lemma per action and conjunct.

`RcuCallbacksProofs` proves, for every number of CPUs, slots
and epochs and for all budgets, under `CapacityAssumption`, `ObjectAssumption` and
`BoundAssumption` of `RcuCallbacks`:

* `RingSorted`, `RunsLate`, `OneDrainer`, `PermitsOwn`, `SyncLeavesNone`:
  `Spec => []P` for `P` = `QueueOrdered`, `NeverEarly`, `SingleDrainer`,
  `PermitOwnsSlot`, `SyncDrained`
* `RunsMonotonic`: `Spec => Monotonic`
* `CountersRight`: `Spec => []PoolConsistent`; `PoolTyped`: `Spec => []TypeOK`

The properties need each other. `pop_ready` looks at the head of the ring only, so
that nothing runs early, and that `synchronize_rcu` leaves nothing behind that was
complete when it sampled, both rest on the targets rising strictly along the ring
(`RingOrdered`). The drainer compares the head with the epoch it sampled, so
`EpochsBounded` keeps each sample at or below `completedEpoch`. `DrainOwned` ties the
Running slot to the one drainer, so that no other step touches it; `RunsInOrder` keeps
what has run and what runs at or below every queued target, which gives the order of
callbacks. There is one lemma per action. The counters are compared with the
cardinalities of the used stack slots and of the CPUs with a callback in flight; a
step changes each of these sets by at most one element. That the budget keeps its type
needs it to be positive while `poll` has a callback in flight.

`WaitQueueProofs` has no theorem about a specification: it states what each operation of
a wait queue keeps, for whoever uses it. `QueuesOK` says that every blocked task is in
one of the queues, that a queue has each task once, that it holds only tasks that may
stand there, and that a queued task which is no longer blocked was interrupted. `ArmOK`,
`CancelOK`, `InterruptOK`, `WakeOneOK` and `WakeAllOK` show that each operation keeps it
and whom it unblocks; `WakeOne` needs the first entry that is still blocked, which is found
by well-founded minimality rather than by recursion over the deque.

`PipeProofs` proves, for any readers, writers, capacity, sizes and
numbers of descriptors, under the assumptions `Pipe` names (the capacity is at least
PIPE_BUF, which `create_pipe_with_capacity` checks):

* `PipeTyped`: `Spec => []TypeOK`
* `SleepersFound`: `Spec => []SleepersQueued`
* `WakesArrive`: `Spec => []NoLostWakeup`
* `EndsRight`: `Spec => []EndsCounted`
* `OrderKept`: `Spec => []BytesInOrder`
* `WritesWhole`: `Spec => []AtomicWrites`

`NoLostWakeup` speaks only of states in which nobody moves, so it is far from inductive.
The invariant says who owes the wake in the meantime: `ReadersOwed`, that readers asleep
beside available bytes have some task on its way to waking one (a writer that has written,
a reader that must pass the wake on, a reader already woken); `WritersOwed`, that a writer
asleep beside room has a reader that has committed and not yet woken the writers.
`Places` ties a task's control point to its registers and `Queued` is `QueuesOK`. For the
bytes, `Delivered` is what was read followed by what is in the ring. A commit moves its
border and leaves it alone, provided the bytes a reader copied out are still the front of
the ring: `Reserved`, which rests on one transaction at a time. A write appends a piece.
`CallsInOrder` says that the bytes of a call in progress are those it has counted, the last
one being its latest. An atomic write is one piece, so it is contiguous when it arrives and
nothing later moves it.

`TlbShootdownProofs` proves, for any number of CPUs and pages, any mailbox size, any number
of retries, and whichever CPUs switch roots or walk pages:

* `ShootdownTyped`: `Spec => []TypeOK`, for all calls
* `FramesUnreachable`: `Locked` implies `Spec => []NoStaleFrame`
* `WritesStopped`: `Locked` implies `Spec => []WriteProtected`

`Locked` says that no call flushes outside PT_LOCK, that is, that mprotect is not called.
It is not a convenience: finding 1 is the counterexample without it on three CPUs, and
it holds for the calls munmap and fork in any number on any CPUs. On two CPUs, `tlb_two_cpus` checks both
properties with mprotect too. The invariant follows a call through its phases. `Fresh(k, p)`
says that CPU k has no translation of p the page table does not have (or is about to drop
them all in a root switch); what is fresh stays fresh until a call edits the table, because
a page walk loads what is there now. `Edited`: the call has edited its pages before it scans.
`Scanned`: a CPU the scan passed over is fresh, as its tracked root was another
(`RootsTracked`) and it can only come back through a load that drops everything. `Acked`: a
target whose `ack_gen` has reached the call's generation is fresh, an acknowledgement about
to be made has been flushed for, and an entry of that generation covers the call's pages.
`Generations` makes the new generation larger than any in circulation, so that no older
acknowledgement counts; `Exclusive`, the lock, is what keeps a later generation from being
handed out while this one waits.

`AtomicStoreProofs` proves `StoreSafe` of the abstract store: for any blocks, plans and
number of transactions, if plans name existing blocks (`PlansFit`), every transaction
takes place as a whole or not at all, one reported as done stays in its blocks until a
later one replaces it, and one reported as aborted is in none, crashes included. The
invariant is `TypeOK`, `AllOrNothing` and `CallersRight`.

`Ext2JournalProofs` proves, on the invariant and the writer's steps of `Ext2WriterProofs`, for any homes and plans, any base of the sequence number, any
number of transactions, device errors and crashes:

* `TypeSafe`, `ReplaySafe`, `MemorySafe`: `Spec => []P` for `P` = `TypeOK`,
  `NoStaleReplay`, `MemoryRecoverable`
* `RecoverySafe`: `Spec => []RecoveryReady`, the checks of `initialize_journal` pass on
  whatever is on the media, and a mount that refused met a count out of bounds
* `MountSafe`: `RoomForTears` implies `Spec => []MountAccepts`
* `Refinement`: `Spec => ImplementsStore`
* `CallersSafe`: `AllOrNothing` and `CallersRight` of what recovery would rebuild from the
  media, from `Refinement` and `StoreSafe`

`RoomForTears` says that the size of a group is at least any count in it with the low byte
replaced by its largest value. Without it the counts a mount reads from a torn home may be
out of bounds, which is finding 5; the other theorems do not need it, because they speak of
what recovery rebuilds and not of whether the mount gets that far.

The assumptions are that a plan names between one and MaxHomes distinct homes (its images
are blocks of different roles, and `collect_linear_overlay` refuses a descriptor that repeats
a home), that the base is at least 2, that the numbers of the first image are in range and
that a whole block's count is within its group (`CountAssumption`).
That a digest determines what it covers is part of the model.

The invariant `IInv` divides writer and mount into phases (`Phases`). In a phase the program
writes certain blocks (`To`) with certain contents (`Val`) and no others; so `media` and
`live` agree except there, where `live` is what some prefix of the new contents leaves of
the block on the media (`Ahead`). `Ok` says what both hold in the phase, and it is closed
under a cut write of any of these blocks (`Closure`). That one fact covers every write,
failed write and write-back of the phase, in any order; the lemmas on `Cut` show that a
write cut short over one cut short is again one. `Ok` comes in three forms. `Quiet`: the
homes hold what they should, and a commit block whose first covered image is the one now in
the log covers another sequence number, so that none can be taken for the present one.
`Full`: the log holds the transaction, and each home holds the old image, the new one or a
prefix of it. `InClear`: the homes hold the new images and the superblock is being
rewritten; while it is torn it has either the old number, and the transaction is replayed
once more, or another number, and its only digest does not match (`ClearShape`). This is
where a wrapped or mixed number could have revived a stale commit block: every digest is
that of a transaction already begun (`Digests`), and that of the newest occurs with one
number only. `QuietFinds` and `FullFinds` compute what recovery does with such a device,
`OkFinds` sums it up as `Value`, and each safety property is read off from it.
`Located` names the phase of each control point, how much of it is written and what memory
holds; one lemma per action shows that it is kept. For the refinement, `Value` depends on
the media in the phase "commit" only: there `StoreApply` shows that the arrival of the
commit block, by flush or by write-back, is `Apply`, and every other step answers a caller
or stutters.

TLC checks the same properties on the instances above. Only model-checked: the properties
of `Futex`, whose buckets are filtered with SelectSeq and counted against the waiters, which
needs induction over sequences; and all liveness properties (`CallbackRuns`, `CallReturns`,
`SleepersServed`, `EventuallyMounted` and those of `Futex`), because fairness and ENABLED are
outside the prover's reach. The violated properties of section 5 have no theorem.

## 7. Limits

* Memory is sequentially consistent in the models; the code's Acquire/Release
  pairs are taken to order what they name. Relaxed accesses are modelled only
  where their staleness matters (a sampled value is a register).
* `TlbShootdown` leaves out temporary address spaces, the flush of one COW fault,
  the broadcast over all address spaces, and CPUs that come online in a flush. Of
  mprotect it has the revocation of write access: not the roll-back when an entry cannot
  be changed, nor granting access or PROT_NONE. Of munmap it leaves out the path without
  memory for the list of frames, which flushes and frees page by page, and the flush after
  empty tables are pruned.
* `RcuEpoch` leaves out the fallbacks of a scan that cannot read a CPU's data, which only keep
  the completed epoch lower. In `RcuCallbacks`, `poll` reads COMPLETED_EPOCH and the number of
  callbacks in one step, and a callback does not itself queue callbacks.
* `WaitQueue` leaves out `close`, `wake_n` and PID reuse; `Pipe` leaves out
  creation and poll, and all tasks share one pipe.
* `Futex` leaves out PI futexes, bitsets (every wake matches), FUTEX_WAKE_OP, faults of
  the user word, the limits on the number of buckets, failed allocations of a bucket or a
  record, a task that dies in a wait and the cleanup at exit and exec.
* `Ext2Journal`: a restart loses the device's cache. A kernel that restarts without
  loss of power may read blocks that are in the cache only; recovery flushes only
  after it has replayed, and this case is not covered. Reads do not fail. The
  publication of a committed transaction is one step, though the allocation at
  `vfs/ext2.rs:14425` can fail in it before `io_faulted` is set; the next transaction
  then meets the marked journal. Read-only mounts, images without a journal, escaped
  images and malformed ones are left out, and so is what a transaction contains. The four
  bytes of the sequence number are two digits of any base in the model, and a tear splits it
  between them only.
  On a journal without the intent feature the code sets the feature before it checks the
  metadata, and the model after; the order shows only on an image the checks refuse. The
  inodes of the journal and of the resize area are read raw as well, but no transaction
  changes them.
* GLOBAL_EPOCH and the generations are unbounded integers; the code panics
  before a wrap.
* `PROJECT.json` lists every other part of the kernel and why it is not modelled.
