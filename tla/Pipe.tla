-------------------------------- MODULE Pipe --------------------------------
(* A pipe (ipc/pipe.rs) with its two wait queues, between the descriptors of
   ipc/lib.rs: readers use the two-phase read_with_commit, which copies a prefix
   out with the pipe unlocked, writers write at most PIPE_BUF bytes atomically
   and more in pieces.  One action is one critical section of the pipe's
   `inner` lock or one call of a wait queue made outside it.  The tasks are
   threads of processes that share the descriptors, so an end can be closed
   while another thread is inside a call; the call holds a clone of the handle
   and drops it when it returns.                                              *)
EXTENDS WaitQueue

CONSTANTS
    Readers, Writers,     \* the tasks
    Capacity,             \* bytes the ring holds
    PipeBuf,              \* PIPE_BUF
    ReadSizes, WriteSizes,
    Signalled,            \* tasks a signal or a kill may hit
    Faulty,               \* tasks whose copyout or allocation may fail
    NonBlocking,          \* tasks that set O_NONBLOCK
    MaxReads, MaxWrites,  \* bound: calls of each kind
    MaxEnds               \* bound: descriptors of one end

ASSUME TaskAssumption == Readers \cap Writers = {}
ASSUME SizeAssumption == /\ PipeBuf \in Nat \ {0}
                         /\ Capacity \in Nat /\ Capacity >= PipeBuf
                         /\ ReadSizes \subseteq Nat \ {0}
                         /\ WriteSizes \subseteq Nat \ {0}
ASSUME BoundAssumption == {MaxReads, MaxWrites} \subseteq Nat
ASSUME EndsAssumption == MaxEnds \in Nat \ {0}

VARIABLES
    wq,                   \* the wait queues "read" and "write"
    intr,                 \* tasks with a kill or a deliverable signal pending
    buf,                  \* the ring's contents: bytes <<call, index, size>>
    inflight,             \* read_inflight
    readers, writers,     \* end counts, the clones of running calls included
    rfd, wfd,             \* descriptors of either end
    pc,
    size,                 \* bytes asked for
    total,                \* bytes written so far
    call,                 \* number of the write call
    dst,                  \* bytes a reader has copied out, not yet consumed
    waited,
    stream,               \* bytes handed to readers
    reads, writes         \* calls so far

vars == <<wq, intr, buf, inflight, readers, writers, rfd, wfd, pc, size, total,
          call, dst, waited, stream, reads, writes>>
ends == <<readers, writers, rfd, wfd>>
counts == <<reads, writes>>

Tasks == Readers \union Writers
Locations == {"idle", "rtop", "rprep", "rsleep", "commit", "rwake", "rfail", "pass",
              "passwake", "eof", "rdrop", "wtop", "wprep", "wsleep", "wwake", "wdrop"}
Min2(a, b) == IF a < b THEN a ELSE b

Byte == (1 .. MaxWrites) \X Nat \X WriteSizes

(* The types of the pipe's state and of the calls' locals; the ring never holds
   more than its capacity (PipeInner::write is bounded by space()).            *)
TypeOK ==
    /\ wq \in [queue : [{"read", "write"} -> Seq(Tasks)], blocked : SUBSET Tasks]
    /\ intr \subseteq Tasks
    /\ buf \in Seq(Byte) /\ Len(buf) <= Capacity
    /\ inflight \in BOOLEAN
    /\ readers \in Nat /\ writers \in Nat
    /\ rfd \in 0 .. MaxEnds /\ wfd \in 0 .. MaxEnds
    /\ pc \in [Tasks -> Locations]
    /\ size \in [Tasks -> Nat] /\ total \in [Tasks -> Nat]
    /\ call \in [Tasks -> 0 .. MaxWrites]
    /\ dst \in [Tasks -> Seq(Byte)]
    /\ waited \in [Tasks -> BOOLEAN]
    /\ stream \in Seq(Byte)
    /\ reads \in 0 .. MaxReads /\ writes \in 0 .. MaxWrites

Init ==
    /\ wq = [queue |-> [q \in {"read", "write"} |-> << >>], blocked |-> {}]
    /\ intr = {} /\ buf = << >> /\ inflight = FALSE
    /\ readers = 1 /\ writers = 1 /\ rfd = 1 /\ wfd = 1
    /\ pc = [p \in Tasks |-> "idle"]
    /\ size = [p \in Tasks |-> 0] /\ total = [p \in Tasks |-> 0]
    /\ call = [p \in Tasks |-> 0] /\ dst = [p \in Tasks |-> << >>]
    /\ waited = [p \in Tasks |-> FALSE]
    /\ stream = << >> /\ reads = 0 /\ writes = 0

At(p, l) == pc[p] = l
Goto(p, l) == pc' = [pc EXCEPT ![p] = l]
\* saturating_step, downwards
Less(n) == IF n = 0 THEN 0 ELSE n - 1
Aborts(p) == p \in intr

------------------------------------------------------------------------------
\* Readers.
Available == Len(buf) > 0 /\ ~inflight
\* The loop of read_with_commit looks at the pipe twice, before and after it
\* reserves queue capacity; only the first look is preceded by a signal check.
Looks(p) == (At(p, "rtop") /\ ~Aborts(p)) \/ At(p, "rprep")
Starved(p) == Looks(p) /\ ~Available /\ writers > 0
\* What a read that gives up does: a wake it may have taken goes to the next.
GivesUp(p) == IF waited[p] THEN "pass" ELSE "rdrop"

\* fd_read_callback clones the handle, then calls read_with_commit.
Read(p, n) ==
    /\ At(p, "idle") /\ rfd > 0 /\ reads < MaxReads
    /\ Goto(p, "rtop")
    /\ size' = [size EXCEPT ![p] = n]
    /\ readers' = readers + 1 /\ reads' = reads + 1
    /\ UNCHANGED <<wq, intr, buf, inflight, writers, rfd, wfd, total, call, dst, waited,
                   stream, writes>>

ReadAborts(p) ==
    /\ At(p, "rtop") /\ Aborts(p)
    /\ Goto(p, GivesUp(p))
    /\ UNCHANGED <<wq, intr, buf, inflight, ends, size, total, call, dst, waited, stream,
                   counts>>

\* Mutant: a second reader ignores the first one's reservation.
BeginReadIgnoring(p) ==
    /\ Looks(p) /\ Len(buf) > 0
    /\ inflight' = TRUE
    /\ dst' = [dst EXCEPT ![p] = SubSeq(buf, 1, Min2(size[p], Len(buf)))]
    /\ Goto(p, "commit")
    /\ UNCHANGED <<wq, intr, buf, ends, size, total, call, waited, stream, counts>>

\* begin_read_transaction
BeginRead(p) ==
    /\ Looks(p) /\ Available
    /\ inflight' = TRUE
    /\ dst' = [dst EXCEPT ![p] = SubSeq(buf, 1, Min2(size[p], Len(buf)))]
    /\ Goto(p, "commit")
    /\ UNCHANGED <<wq, intr, buf, ends, size, total, call, waited, stream, counts>>

ReadEof(p) ==
    /\ Looks(p) /\ ~Available /\ writers = 0
    /\ Goto(p, "eof")
    /\ UNCHANGED <<wq, intr, buf, inflight, ends, size, total, call, dst, waited, stream,
                   counts>>

ReadWouldBlock(p) ==
    /\ At(p, "rtop") /\ Starved(p)
    /\ Goto(p, IF p \in NonBlocking THEN "rdrop" ELSE "rprep")
    /\ UNCHANGED <<wq, intr, buf, inflight, ends, size, total, call, dst, waited, stream,
                   counts>>

\* prepare_current_wait_capacity fails (NoMemory), or the capacity it reserved
\* was taken by another waiter by the time the queue is locked (RetryCapacity).
ReadNoCapacity(p) ==
    /\ p \in Faulty /\ At(p, "rprep")
    /\ \/ Goto(p, "rdrop")
       \/ Starved(p) /\ Goto(p, "rtop")
    /\ UNCHANGED <<wq, intr, buf, inflight, ends, size, total, call, dst, waited, stream,
                   counts>>

\* The waiter is published under `inner`, in the section that found no bytes.
ReadArms(p) ==
    /\ At(p, "rprep") /\ Starved(p)
    /\ IF Aborts(p) THEN Goto(p, GivesUp(p)) /\ wq' = wq
       ELSE Goto(p, "rsleep") /\ wq' = Arm(wq, "read", p)
    /\ UNCHANGED <<intr, buf, inflight, ends, size, total, call, dst, waited, stream,
                   counts>>

ReadResumes(p) ==
    /\ At(p, "rsleep") /\ Resolved(wq, p, Aborts(p))
    /\ wq' = FinishWait(wq, "read", p, Aborts(p))
    /\ waited' = [waited EXCEPT ![p] = TRUE]
    /\ Goto(p, "rtop")
    /\ UNCHANGED <<intr, buf, inflight, ends, size, total, call, dst, stream, counts>>

\* The copyout succeeded: finish_read_transaction consumes the prefix.
Commit(p) ==
    /\ At(p, "commit")
    /\ buf' = SubSeq(buf, Min2(Len(dst[p]), Len(buf)) + 1, Len(buf))
    /\ stream' = stream \o dst[p]
    /\ inflight' = FALSE
    /\ Goto(p, "rwake")
    /\ UNCHANGED <<wq, intr, ends, size, total, call, dst, waited, counts>>

\* The copyout faulted: the bytes stay.
CommitFails(p) ==
    /\ p \in Faulty /\ At(p, "commit")
    /\ inflight' = FALSE
    /\ Goto(p, "rfail")
    /\ UNCHANGED <<wq, intr, buf, ends, size, total, call, dst, waited, stream, counts>>

WakeWriters(p) ==
    /\ At(p, "rwake")
    /\ wq' = WakeAll(wq, "write")
    /\ Goto(p, "pass")
    /\ UNCHANGED <<intr, buf, inflight, ends, size, total, call, dst, waited, stream,
                   counts>>

WakeReader(p) ==
    /\ At(p, "rfail")
    /\ wq' = WakeOne(wq, "read")
    /\ Goto(p, "rdrop")
    /\ UNCHANGED <<intr, buf, inflight, ends, size, total, call, dst, waited, stream,
                   counts>>

\* Mutant: a reader keeps a wake it did not use up to itself.
PassOnNever(p) ==
    /\ At(p, "pass")
    /\ Goto(p, "rdrop")
    /\ UNCHANGED <<wq, intr, buf, inflight, ends, size, total, call, dst, waited, stream,
                   counts>>

\* pass_on_read_wake looks under `inner` and wakes after it is released.
PassOn(p) ==
    /\ At(p, "pass")
    /\ Goto(p, IF Available THEN "passwake" ELSE "rdrop")
    /\ UNCHANGED <<wq, intr, buf, inflight, ends, size, total, call, dst, waited, stream,
                   counts>>

PassWake(p) ==
    /\ At(p, "passwake")
    /\ wq' = WakeOne(wq, "read")
    /\ Goto(p, "rdrop")
    /\ UNCHANGED <<intr, buf, inflight, ends, size, total, call, dst, waited, stream,
                   counts>>

\* The call's clone of the handle is dropped (close_read), and the task returns
\* to user mode, where the signal that interrupted it is delivered.
ReadReturns(p) ==
    /\ pc[p] \in {"eof", "rdrop"}
    /\ Goto(p, "idle")
    /\ readers' = Less(readers)
    /\ wq' = WakeAll(wq, "write")
    /\ intr' = intr \ {p}
    /\ size' = [size EXCEPT ![p] = 0]
    /\ dst' = [dst EXCEPT ![p] = << >>]
    /\ waited' = [waited EXCEPT ![p] = FALSE]
    /\ UNCHANGED <<buf, inflight, writers, rfd, wfd, total, call, stream, counts>>

------------------------------------------------------------------------------
\* Writers.
Atomic(n) == n <= PipeBuf
\* Mutant: one byte too many.
SpaceOff == Capacity - Len(buf) + 1

Space == Capacity - Len(buf)
Room(p) == IF Atomic(size[p]) THEN Space >= size[p] ELSE Space > 0
Examines(p) == (At(p, "wtop") /\ ~Aborts(p)) \/ At(p, "wprep")
Piece(p) == Min2(size[p] - total[p], Space)
\* PipeInner::write of the next piece
Put(p) ==
    /\ buf' = buf \o [i \in 1 .. Piece(p) |-> <<call[p], total[p] + i, size[p]>>]
    /\ total' = [total EXCEPT ![p] = @ + Piece(p)]
Written(p) == total[p] + Piece(p) = size[p]

\* fd_write_callback clones the handle, then calls write.
Write(p, n) ==
    /\ At(p, "idle") /\ wfd > 0 /\ writes < MaxWrites
    /\ Goto(p, "wtop")
    /\ size' = [size EXCEPT ![p] = n]
    /\ call' = [call EXCEPT ![p] = writes + 1]
    /\ writers' = writers + 1 /\ writes' = writes + 1
    /\ UNCHANGED <<wq, intr, buf, inflight, readers, rfd, wfd, total, dst, waited, stream,
                   reads>>

\* A pending signal ends the call, and so does the loss of the last reader: with
\* the bytes written so far, or with an error when there are none.
WriteEnds(p) ==
    /\ \/ At(p, "wtop") /\ Aborts(p)
       \/ Examines(p) /\ readers = 0
       \/ At(p, "wprep") /\ p \in Faulty
    /\ Goto(p, "wdrop")
    /\ UNCHANGED <<wq, intr, buf, inflight, ends, size, total, call, dst, waited, stream,
                   counts>>

\* Mutant: room for a part is taken as room for all.
WriteCopiesPart(p) ==
    /\ Examines(p) /\ readers > 0 /\ Space > 0
    /\ At(p, "wtop") \/ Atomic(size[p])
    /\ Put(p)
    /\ Goto(p, "wwake")
    /\ UNCHANGED <<wq, intr, inflight, ends, size, call, dst, waited, stream, counts>>

WriteCopies(p) ==
    /\ Examines(p) /\ readers > 0 /\ Room(p)
    /\ At(p, "wtop") \/ Atomic(size[p])
    /\ Put(p)
    /\ Goto(p, "wwake")
    /\ UNCHANGED <<wq, intr, inflight, ends, size, call, dst, waited, stream, counts>>

\* `inner` is released, then one reader is woken.
WriteWakes(p) ==
    /\ At(p, "wwake")
    /\ wq' = WakeOne(wq, "read")
    /\ Goto(p, IF total[p] = size[p] \/ p \in NonBlocking THEN "wdrop" ELSE "wprep")
    /\ UNCHANGED <<intr, buf, inflight, ends, size, total, call, dst, waited, stream,
                   counts>>

WriteWouldBlock(p) ==
    /\ At(p, "wtop") /\ Examines(p) /\ readers > 0 /\ ~Room(p)
    /\ Goto(p, IF p \in NonBlocking THEN "wdrop" ELSE "wprep")
    /\ UNCHANGED <<wq, intr, buf, inflight, ends, size, total, call, dst, waited, stream,
                   counts>>

WriteRetriesCapacity(p) ==
    /\ At(p, "wprep") /\ p \in Faulty /\ readers > 0 /\ ~Room(p)
    /\ Goto(p, "wtop")
    /\ UNCHANGED <<wq, intr, buf, inflight, ends, size, total, call, dst, waited, stream,
                   counts>>

\* Publish the waiter in state w, unless a signal or a kill is pending.
ArmWriter(p, w) ==
    IF Aborts(p) THEN wq' = w /\ Goto(p, "wdrop")
    ELSE wq' = Arm(w, "write", p) /\ Goto(p, "wsleep")

\* Mutant: the writer goes to sleep on its first look, taken before `inner` was
\* released.
WriteArmsUnlooked(p) ==
    /\ At(p, "wprep") /\ readers > 0
    /\ ArmWriter(p, wq)
    /\ UNCHANGED <<intr, buf, inflight, ends, size, total, call, dst, waited, stream,
                   counts>>

WriteArms(p) ==
    /\ At(p, "wprep") /\ readers > 0 /\ ~Room(p)
    /\ ArmWriter(p, wq)
    /\ UNCHANGED <<intr, buf, inflight, ends, size, total, call, dst, waited, stream,
                   counts>>

\* A large write that finds space on its second look writes a piece, wakes a
\* reader and arms for the rest, all under `inner`; without an entry it starts anew.
WriteCopiesAndArms(p) ==
    /\ At(p, "wprep") /\ readers > 0 /\ Room(p) /\ ~Atomic(size[p])
    /\ Put(p)
    /\ IF Written(p) THEN wq' = WakeOne(wq, "read") /\ Goto(p, "wdrop")
       ELSE \/ ArmWriter(p, WakeOne(wq, "read"))
            \/ p \in Faulty /\ wq' = WakeOne(wq, "read") /\ Goto(p, "wtop")
    /\ UNCHANGED <<intr, inflight, ends, size, call, dst, waited, stream, counts>>

WriteResumes(p) ==
    /\ At(p, "wsleep") /\ Resolved(wq, p, Aborts(p))
    /\ wq' = FinishWait(wq, "write", p, Aborts(p))
    /\ Goto(p, "wtop")
    /\ UNCHANGED <<intr, buf, inflight, ends, size, total, call, dst, waited, stream,
                   counts>>

\* The call's clone of the handle is dropped (close_write).
WriteReturns(p) ==
    /\ At(p, "wdrop")
    /\ Goto(p, "idle")
    /\ writers' = Less(writers)
    /\ wq' = WakeAll(wq, "read")
    /\ intr' = intr \ {p}
    /\ size' = [size EXCEPT ![p] = 0]
    /\ total' = [total EXCEPT ![p] = 0]
    /\ call' = [call EXCEPT ![p] = 0]
    /\ UNCHANGED <<buf, inflight, readers, rfd, wfd, dst, waited, stream, counts>>

------------------------------------------------------------------------------
\* Descriptors and signals.
\* Mutant: a reader leaves without waking the writers.
CloseReadSilently ==
    /\ rfd > 0
    /\ rfd' = rfd - 1 /\ readers' = Less(readers)
    /\ UNCHANGED <<wq, intr, buf, inflight, writers, wfd, pc, size, total, call, dst, waited,
                   stream, counts>>

CloseRead ==
    /\ rfd > 0
    /\ rfd' = rfd - 1 /\ readers' = Less(readers)
    /\ wq' = WakeAll(wq, "write")
    /\ UNCHANGED <<intr, buf, inflight, writers, wfd, pc, size, total, call, dst, waited,
                   stream, counts>>

CloseWrite ==
    /\ wfd > 0
    /\ wfd' = wfd - 1 /\ writers' = Less(writers)
    /\ wq' = WakeAll(wq, "read")
    /\ UNCHANGED <<intr, buf, inflight, readers, rfd, pc, size, total, call, dst, waited,
                   stream, counts>>

\* Mutant: the end counts do not see the duplicate.
DuplicateUncounted ==
    /\ \/ rfd \in 1 .. MaxEnds - 1 /\ rfd' = rfd + 1 /\ UNCHANGED wfd
       \/ wfd \in 1 .. MaxEnds - 1 /\ wfd' = wfd + 1 /\ UNCHANGED rfd
    /\ UNCHANGED <<wq, intr, buf, inflight, readers, writers, pc, size, total, call, dst,
                   waited, stream, counts>>

\* duplicate (dup, fork): an open end gets one more descriptor.
Duplicate ==
    /\ \/ /\ rfd \in 1 .. MaxEnds - 1
          /\ rfd' = rfd + 1 /\ readers' = readers + 1 /\ UNCHANGED <<wfd, writers>>
       \/ /\ wfd \in 1 .. MaxEnds - 1
          /\ wfd' = wfd + 1 /\ writers' = writers + 1 /\ UNCHANGED <<rfd, readers>>
    /\ UNCHANGED <<wq, intr, buf, inflight, pc, size, total, call, dst, waited, stream,
                   counts>>

\* send_signal_inner and request_process_exit_locked: post, then ready the target.
Signal(p) ==
    /\ p \in Signalled /\ ~At(p, "idle") /\ p \notin intr
    /\ intr' = intr \union {p}
    /\ wq' = Interrupt(wq, p)
    /\ UNCHANGED <<buf, inflight, ends, pc, size, total, call, dst, waited, stream, counts>>

------------------------------------------------------------------------------
ReadStep(p) ==
    \/ ReadAborts(p) \/ BeginRead(p) \/ ReadEof(p) \/ ReadWouldBlock(p)
    \/ ReadNoCapacity(p) \/ ReadArms(p) \/ ReadResumes(p) \/ Commit(p) \/ CommitFails(p)
    \/ WakeWriters(p) \/ WakeReader(p) \/ PassOn(p) \/ PassWake(p) \/ ReadReturns(p)

WriteStep(p) ==
    \/ WriteEnds(p) \/ WriteCopies(p) \/ WriteWakes(p) \/ WriteWouldBlock(p)
    \/ WriteRetriesCapacity(p) \/ WriteArms(p) \/ WriteCopiesAndArms(p)
    \/ WriteResumes(p) \/ WriteReturns(p)

Next ==
    \/ \E p \in Readers : ReadStep(p) \/ \E n \in ReadSizes : Read(p, n)
    \/ \E p \in Writers : WriteStep(p) \/ \E n \in WriteSizes : Write(p, n)
    \/ CloseRead \/ CloseWrite \/ Duplicate
    \/ \E p \in Tasks : Signal(p)

Spec == Init /\ [][Next]_vars

\* A task inside a call keeps running: the scheduler picks every runnable task.
Fairness == /\ \A p \in Readers : WF_vars(ReadStep(p))
            /\ \A p \in Writers : WF_vars(WriteStep(p))
FairSpec == Spec /\ Fairness
------------------------------------------------------------------------------
\* Properties.
Asleep(p) == pc[p] \in {"rsleep", "wsleep"} /\ ~Resolved(wq, p, Aborts(p))
InCall(p) == ~At(p, "idle")

(* A task sleeps only while it is queued, once, on the queue of the end it uses,
   so every later waker of that queue finds it: try_prepare_to_wait queues the
   task and blocks it in one section, and wakers dequeue whom they ready.      *)
SleepersQueued ==
    /\ \A p \in Readers : Asleep(p) => p \in Entries(wq, "read")
    /\ \A p \in Writers : Asleep(p) => p \in Entries(wq, "write")
    /\ \A q \in {"read", "write"} : \A i, j \in DOMAIN wq.queue[q] :
           wq.queue[q][i] = wq.queue[q][j] => i = j

(* No wake is lost: when nothing is left to run but sleepers, none of them
   sleeps on a condition that already holds, a reader with bytes in the ring or
   with every write end gone, a writer with room for it or with every read end
   gone.  A write wakes one reader only, so this rests on pass_on_read_wake
   handing the wake on from readers that leave bytes behind, are interrupted, or
   slept behind another reader's transaction.                                  *)
NoLostWakeup ==
    (\A p \in Tasks : Asleep(p) \/ At(p, "idle")) =>
        /\ \A p \in Readers : Asleep(p) => ~Available /\ writers > 0
        /\ \A p \in Writers : Asleep(p) => ~Room(p) /\ readers > 0

\* What the readers got, followed by what the ring holds.
Delivered == stream \o buf

(* Every byte of a write reaches the readers once and in order, however reads,
   failed copyouts and pieces of a large write interleave: of the bytes of one
   call no one comes twice or before an earlier one, and none is missing in
   front of a later one.  The prefix a reader copies out with the pipe unlocked
   stays reserved (read_inflight) until it is consumed.                        *)
BytesInOrder ==
    \A j \in DOMAIN Delivered :
        LET b == Delivered[j]
        IN /\ \A i \in 1 .. j - 1 : Delivered[i][1] = b[1] => Delivered[i][2] < b[2]
           /\ b[2] # 1 => \E i \in 1 .. j - 1 : Delivered[i] = <<b[1], b[2] - 1, b[3]>>

(* A write of at most PIPE_BUF bytes is all or nothing and is not interleaved
   with another writer's bytes (write_atomic).                                 *)
AtomicWrites ==
    \A i \in DOMAIN Delivered :
        LET b == Delivered[i]
        IN Atomic(b[3]) /\ b[2] = 1 =>
               \A k \in 1 .. b[3] : /\ i + k - 1 <= Len(Delivered)
                                    /\ Delivered[i + k - 1] = <<b[1], k, b[3]>>

(* The end counts are the open descriptors and the clones of running calls, so
   an end counts as gone exactly when nobody can use it any more.             *)
EndsCounted ==
    /\ readers = rfd + Cardinality({p \in Readers : InCall(p)})
    /\ writers = wfd + Cardinality({p \in Writers : InCall(p)})

(* A reader is told end of file, a read of 0 bytes, only when no byte is left
   for it: the ring holds at most what another reader is copying out.         *)
EofMeansDrained ==
    [][\A p \in Readers : ~At(p, "eof") /\ pc'[p] = "eof" =>
           \A i \in DOMAIN buf : \E r \in Readers : At(r, "commit") /\ i <= Len(dst[r])]_vars

(* Under fair scheduling a reader does not sleep through bytes it could have,
   nor a writer through room: the sleeper is woken or the condition passes.    *)
SleepersServed ==
    /\ \A p \in Readers : (Asleep(p) /\ Available) ~> (~Asleep(p) \/ ~Available)
    /\ \A p \in Writers : (Asleep(p) /\ Room(p)) ~> (~Asleep(p) \/ ~Room(p))
=============================================================================
