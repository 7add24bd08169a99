----------------------------- MODULE PipeProofs -----------------------------
(* Who sleeps in a pipe and who is going to wake them, for any number of readers
   and writers.  The invariant says where each call is and what it has done by
   then (Places), that the queues hold exactly the sleepers of each end (Queued),
   and which task still holds the wake a sleeper is owed (ReadersOwed,
   WritersOwed).  Then what the counts count and what the ring delivers: the ends
   are the descriptors and the calls (EndsOK), a reader that copies out has the
   front of the ring to itself (Reserved), and the bytes read so far, followed by
   the bytes in the ring, are those of the calls, in order (DataOK).           *)
EXTENDS Pipe, WaitQueueProofs, FiniteSetTheorems

\* The leaves are for Zenon, but for those that name SMT.
USE Zenon

ReadLocations == {"idle", "rtop", "rprep", "rsleep", "commit", "rwake", "rfail", "pass",
                  "passwake", "eof", "rdrop"}
WriteLocations == {"idle", "wtop", "wprep", "wsleep", "wwake", "wdrop"}
Ends == {"read", "write"}

\* Where a writer is in its call, and what the call has done by then.
WritePlace(p) ==
    /\ pc[p] \in WriteLocations
    /\ total[p] <= size[p]
    /\ At(p, "idle") => total[p] = 0 /\ size[p] = 0
    /\ ~At(p, "idle") => size[p] \in WriteSizes /\ call[p] \in 1 .. writes
    /\ pc[p] \in {"wtop", "wprep", "wsleep"} =>
           total[p] < size[p] /\ (Atomic(size[p]) => total[p] = 0)
    /\ At(p, "wwake") /\ Atomic(size[p]) => total[p] = size[p]

Places ==
    /\ \A p \in Readers : pc[p] \in ReadLocations
    /\ \A p \in Writers : WritePlace(p)

\* The tasks that may stand in each queue: those that sleep on that end.
May == [q \in Ends |-> IF q = "read" THEN {p \in Readers : At(p, "rsleep")}
                                     ELSE {p \in Writers : At(p, "wsleep")}]
Queued == QueuesOK(wq, Ends, Tasks, May, intr)

------------------------------------------------------------------------------
(* No task sleeps at both ends. *)
LEMMA MayApart == Apart(Ends, May)
BY TaskAssumption, SMTT(30) DEF Apart, May, Ends

(* The queues stay sound when no entry loses its licence to stand there. *)
LEMMA QueuesWiden ==
  ASSUME NEW w, NEW Q, NEW T, NEW A, NEW B, NEW I, NEW J, QueuesOK(w, Q, T, A, I),
         \A q \in Q : A[q] \subseteq B[q],
         \A q \in Q : A[q] \cap I \subseteq J
  PROVE  QueuesOK(w, Q, T, B, J)
BY DEF QueuesOK

\* A task that is neither asleep before nor after a step.
LEMMA MayKept ==
  ASSUME TypeOK, NEW p \in Tasks, NEW l, Goto(p, l),
         pc[p] \notin {"rsleep", "wsleep"}, l \notin {"rsleep", "wsleep"}
  PROVE  \A q \in Ends : May'[q] = May[q]
BY DEF TypeOK, Goto, May, Ends, At, Tasks

(* Every step of the pipe keeps the two wait queues sound: whoever is blocked
   stands in the queue of the end it sleeps on, once, and finish_wait has
   removed the entry of whoever is back on its feet. *)
LEMMA QueuedStep ==
  ASSUME TypeOK, Places, Queued, Next
  PROVE  Queued'
<1> USE MayApart
<1>1. ASSUME NEW p \in Readers,
             \/ ReadAborts(p) \/ BeginRead(p) \/ ReadEof(p) \/ ReadWouldBlock(p)
             \/ ReadNoCapacity(p) \/ Commit(p) \/ CommitFails(p) \/ PassOn(p)
             \/ \E n \in ReadSizes : Read(p, n)
      PROVE  Queued'
  <2>1. wq' = wq /\ intr' = intr
    BY <1>1 DEF ReadAborts, BeginRead, ReadEof, ReadWouldBlock, ReadNoCapacity, Commit,
                CommitFails, PassOn, Read
  <2>2. pc[p] \notin {"rsleep", "wsleep"}
    BY <1>1 DEF ReadAborts, BeginRead, ReadEof, ReadWouldBlock, ReadNoCapacity, Commit,
                CommitFails, PassOn, Read, Looks, At
  <2>3. PICK l \in {"rtop", "rprep", "commit", "eof", "rwake", "rfail", "pass", "passwake",
                    "rdrop"} : Goto(p, l)
    BY <1>1 DEF ReadAborts, BeginRead, ReadEof, ReadWouldBlock, ReadNoCapacity, Commit,
                CommitFails, PassOn, Read, GivesUp
  <2>4. \A q \in Ends : May'[q] = May[q]
    BY <2>2, <2>3, MayKept DEF Tasks
  <2> QED
    BY <2>1, <2>4, QueuesWiden DEF Queued
<1>2. ASSUME NEW p \in Writers,
             \/ WriteEnds(p) \/ WriteCopies(p) \/ WriteWouldBlock(p)
             \/ WriteRetriesCapacity(p) \/ \E n \in WriteSizes : Write(p, n)
      PROVE  Queued'
  <2>1. wq' = wq /\ intr' = intr
    BY <1>2 DEF WriteEnds, WriteCopies, WriteWouldBlock, WriteRetriesCapacity, Write
  <2>2. pc[p] \notin {"rsleep", "wsleep"}
    BY <1>2 DEF WriteEnds, WriteCopies, WriteWouldBlock, WriteRetriesCapacity, Write,
                Examines, At
  <2>3. PICK l \in {"wtop", "wprep", "wwake", "wdrop"} : Goto(p, l)
    BY <1>2 DEF WriteEnds, WriteCopies, WriteWouldBlock, WriteRetriesCapacity, Write
  <2>4. \A q \in Ends : May'[q] = May[q]
    BY <2>2, <2>3, MayKept DEF Tasks
  <2> QED
    BY <2>1, <2>4, QueuesWiden DEF Queued
<1>3. ASSUME NEW p \in Tasks,
             WakeReader(p) \/ PassWake(p) \/ WriteWakes(p) \/ WakeWriters(p)
      PROVE  Queued'
  <2>1. \E q \in Ends : wq' = WakeOne(wq, q) \/ wq' = WakeAll(wq, q)
    BY <1>3 DEF WakeReader, PassWake, WriteWakes, WakeWriters, Ends
  <2>2. pc[p] \notin {"rsleep", "wsleep"} /\ intr' = intr
    BY <1>3 DEF WakeReader, PassWake, WriteWakes, WakeWriters, At
  <2>3. PICK l \in {"rdrop", "pass", "wdrop", "wprep"} : Goto(p, l)
    BY <1>3 DEF WakeReader, PassWake, WriteWakes, WakeWriters
  <2>4. \A q \in Ends : May'[q] = May[q]
    BY <2>2, <2>3, MayKept
  <2>5. QueuesOK(wq', Ends, Tasks, May, intr)
    BY <2>1, WakeOneOK, WakeAllOK, SMTT(30) DEF Queued
  <2> QED
    BY <2>2, <2>4, <2>5, QueuesWiden DEF Queued
<1>4. ASSUME NEW p \in Tasks, ReadReturns(p) \/ WriteReturns(p)
      PROVE  Queued'
  <2>1. \E q \in Ends : wq' = WakeAll(wq, q)
    BY <1>4 DEF ReadReturns, WriteReturns, Ends
  <2>2. pc[p] \notin {"rsleep", "wsleep"} /\ intr' = intr \ {p} /\ Goto(p, "idle")
    BY <1>4 DEF ReadReturns, WriteReturns, At
  <2>4. \A q \in Ends : May'[q] = May[q] /\ p \notin May[q]
    BY <2>2, MayKept DEF May, Ends, At
  <2>5. QueuesOK(wq', Ends, Tasks, May, intr)
    BY <2>1, WakeAllOK, SMTT(30) DEF Queued
  <2> QED
    BY <2>2, <2>4, <2>5, QueuesWiden, SMTT(30) DEF Queued
<1>5. ASSUME CloseRead \/ CloseWrite \/ Duplicate
      PROVE  Queued'
  <2>1. wq' = wq \/ \E q \in Ends : wq' = WakeAll(wq, q)
    BY <1>5 DEF CloseRead, CloseWrite, Duplicate, Ends
  <2>2. intr' = intr /\ pc' = pc
    BY <1>5 DEF CloseRead, CloseWrite, Duplicate
  <2>3. May' = May
    BY <2>2 DEF May, At
  <2>4. QueuesOK(wq', Ends, Tasks, May, intr)
    BY <2>1, WakeAllOK, SMTT(30) DEF Queued
  <2> QED
    BY <2>2, <2>3, <2>4 DEF Queued
<1>6. ASSUME NEW p \in Tasks, Signal(p)
      PROVE  Queued'
  <2>1. wq' = Interrupt(wq, p) /\ intr' = intr \union {p} /\ pc' = pc
    BY <1>6 DEF Signal
  <2>2. May' = May
    BY <2>1 DEF May, At
  <2> QED
    BY <2>1, <2>2, InterruptOK DEF Queued
<1>7. ASSUME NEW p \in Readers, ReadArms(p)
      PROVE  Queued'
  <2>1. At(p, "rprep") /\ intr' = intr
    BY <1>7 DEF ReadArms
  <2>2. CASE Aborts(p)
    <3>1. wq' = wq /\ Goto(p, GivesUp(p)) /\ GivesUp(p) \in {"pass", "rdrop"}
      BY <1>7, <2>2 DEF ReadArms, GivesUp
    <3>2. \A q \in Ends : May'[q] = May[q]
      BY <2>1, <3>1, MayKept DEF Tasks, At
    <3> QED
      BY <2>1, <3>1, <3>2, QueuesWiden DEF Queued
  <2>3. CASE ~Aborts(p)
    <3>1. wq' = Arm(wq, "read", p) /\ pc' = [pc EXCEPT ![p] = "rsleep"]
      BY <1>7, <2>3 DEF ReadArms, Goto
    <3>2. p \in May'["read"] /\ \A q \in Ends : May[q] \subseteq May'[q]
      BY <2>1, <3>1 DEF May, Ends, At, TypeOK, Tasks
    <3> QED
      BY <2>1, <3>1, <3>2, ArmOK DEF Queued, Ends, Tasks
  <2> QED
    BY <2>2, <2>3
<1>8. ASSUME NEW p \in Writers, WriteArms(p) \/ WriteCopiesAndArms(p)
      PROVE  Queued'
  <2>1. At(p, "wprep") /\ intr' = intr
    BY <1>8 DEF WriteArms, WriteCopiesAndArms
  <2>2. PICK w \in {wq, WakeOne(wq, "read")} :
            ArmWriter(p, w) \/ (wq' = w /\ \E l \in {"wdrop", "wtop"} : Goto(p, l))
    BY <1>8 DEF WriteArms, WriteCopiesAndArms
  <2>3. QueuesOK(w, Ends, Tasks, May, intr)
    BY WakeOneOK, SMTT(30) DEF Queued, Ends
  <2>4. CASE wq' = w /\ \E l \in {"wdrop", "wtop"} : Goto(p, l)
    <3>1. \A q \in Ends : May'[q] = May[q]
      BY <2>1, <2>4, MayKept DEF Tasks, At
    <3> QED
      BY <2>1, <2>3, <2>4, <3>1, QueuesWiden DEF Queued
  <2>5. CASE wq' = Arm(w, "write", p) /\ Goto(p, "wsleep")
    <3>1. p \in May'["write"] /\ \A q \in Ends : May[q] \subseteq May'[q]
      BY <2>1, <2>5 DEF May, Ends, At, TypeOK, Tasks, Goto
    <3> QED
      BY <2>1, <2>3, <2>5, <3>1, ArmOK DEF Queued, Ends, Tasks
  <2> QED
    BY <2>2, <2>4, <2>5 DEF ArmWriter
<1>9. ASSUME NEW p \in Tasks, NEW q \in Ends, p \in May[q],
             wq' = FinishWait(wq, q, p, Aborts(p)), Resolved(wq, p, Aborts(p)),
             intr' = intr, \E l \in {"rtop", "wtop"} : Goto(p, l)
      PROVE  Queued'
  <2>1. \A r \in Ends : May[r] \ {p} \subseteq May'[r]
    BY <1>9 DEF May, Ends, At, TypeOK, Tasks, Goto
  <2>2. CASE Aborts(p)
    BY <1>9, <2>1, <2>2, CancelOK DEF Queued, FinishWait
  <2>3. CASE ~Aborts(p)
    <3>1. wq' = wq /\ p \notin wq.blocked /\ p \notin intr
      BY <1>9, <2>3 DEF FinishWait, Resolved, Aborts
    <3>2. \A r \in Ends : p \notin Entries(wq, r)
      BY <3>1 DEF Queued, QueuesOK
    <3> QED
      BY <1>9, <2>1, <3>1, <3>2 DEF Queued, QueuesOK
  <2> QED
    BY <2>2, <2>3
<1>10. ASSUME NEW p \in Readers, ReadResumes(p) PROVE Queued'
  <2>1. p \in May["read"]
    BY <1>10 DEF ReadResumes, May, Ends
  <2> QED
    BY <1>9, <1>10, <2>1 DEF ReadResumes, Ends, Tasks
<1>11. ASSUME NEW p \in Writers, WriteResumes(p) PROVE Queued'
  <2>1. p \in May["write"]
    BY <1>11 DEF WriteResumes, May, Ends
  <2> QED
    BY <1>9, <1>11, <2>1 DEF WriteResumes, Ends, Tasks
<1> QED
  BY <1>1, <1>2, <1>3, <1>4, <1>5, <1>6, <1>7, <1>8, <1>10, <1>11
     DEF Next, ReadStep, WriteStep, Tasks

------------------------------------------------------------------------------
(* A new pipe has its types, nobody is in a call and nobody sleeps. *)
LEMMA InitTyped == Init => TypeOK /\ Places /\ Queued
<1> SUFFICES ASSUME Init PROVE TypeOK /\ Places /\ Queued
  OBVIOUS
<1>1. << >> \in Seq(Tasks) /\ << >> \in Seq(Byte) /\ Len(<< >>) = 0
  BY SMTT(30)
<1>2. TypeOK
  <2>1. wq \in [queue : [{"read", "write"} -> Seq(Tasks)], blocked : SUBSET Tasks]
    BY <1>1 DEF Init
  <2>2. dst \in [Tasks -> Seq(Byte)] /\ stream \in Seq(Byte) /\ buf \in Seq(Byte)
    BY <1>1 DEF Init
  <2>3. Len(buf) <= Capacity
    BY <1>1, SizeAssumption, SMTT(30) DEF Init
  <2>4. /\ rfd \in 0 .. MaxEnds /\ wfd \in 0 .. MaxEnds /\ 0 \in 0 .. MaxWrites
        /\ reads \in 0 .. MaxReads /\ writes \in 0 .. MaxWrites
    BY EndsAssumption, BoundAssumption, SMTT(30) DEF Init
  <2>5. /\ pc \in [Tasks -> Locations] /\ size \in [Tasks -> Nat] /\ total \in [Tasks -> Nat]
        /\ call \in [Tasks -> 0 .. MaxWrites] /\ waited \in [Tasks -> BOOLEAN]
    BY <2>4 DEF Init, Locations
  <2> QED
    BY <2>1, <2>2, <2>3, <2>4, <2>5 DEF Init, TypeOK
<1>3. Places
  BY <1>2, SMTT(30) DEF Init, Places, WritePlace, At, Tasks, ReadLocations, WriteLocations
<1>4. Queued
  BY <1>2, SMTT(30) DEF Init, TypeOK, Queued, QueuesOK, Queues, Entries, Once, Ends
<1> QED
  BY <1>2, <1>3, <1>4

\* What PipeInner::write appends.
LEMMA PieceFits ==
  ASSUME TypeOK, Places, NEW p \in Writers, ~At(p, "idle")
  PROVE  /\ Piece(p) \in Nat /\ Len(buf) + Piece(p) <= Capacity
         /\ total[p] + Piece(p) <= size[p]
         /\ [i \in 1 .. Piece(p) |-> <<call[p], total[p] + i, size[p]>>] \in Seq(Byte)
         /\ Len([i \in 1 .. Piece(p) |-> <<call[p], total[p] + i, size[p]>>]) = Piece(p)
<1>1. /\ size[p] \in Nat /\ total[p] \in Nat /\ total[p] <= size[p] /\ Len(buf) \in Nat
      /\ Len(buf) <= Capacity /\ call[p] \in 1 .. MaxWrites /\ size[p] \in WriteSizes
  BY BoundAssumption, SMTT(30) DEF TypeOK, Places, WritePlace, Tasks
<1>2. /\ Piece(p) \in Nat /\ Len(buf) + Piece(p) <= Capacity
      /\ total[p] + Piece(p) <= size[p]
  BY <1>1, SizeAssumption, SMTT(30) DEF Piece, Space, Min2
<1> HIDE DEF Piece
<1>3. \A i \in 1 .. Piece(p) : <<call[p], total[p] + i, size[p]>> \in Byte
  BY <1>1, <1>2, SMTT(30) DEF Byte
<1> DEFINE s == [i \in 1 .. Piece(p) |-> <<call[p], total[p] + i, size[p]>>]
<1>4. s \in [1 .. Piece(p) -> Byte]
  BY <1>3
<1> HIDE DEF s
<1>5. s \in Seq(Byte) /\ Len(s) = Piece(p)
  BY <1>2, <1>4, SMTT(30)
<1> QED
  BY <1>2, <1>5 DEF s

(* PipeInner::write lengthens the ring and leaves what was in it alone. *)
LEMMA PutGrows ==
  ASSUME TypeOK, Places, NEW p \in Writers, ~At(p, "idle"), Put(p)
  PROVE  /\ Len(buf) \in Nat /\ Len(buf') \in Nat /\ Len(buf') = Len(buf) + Piece(p)
         /\ Len(buf') >= Len(buf)
         /\ \A i \in 1 .. Len(buf) : buf'[i] = buf[i]
<1> DEFINE s == [i \in 1 .. Piece(p) |-> <<call[p], total[p] + i, size[p]>>]
<1>1. s \in Seq(Byte) /\ Len(s) = Piece(p) /\ Piece(p) \in Nat
  BY PieceFits
<1>2. buf' = buf \o s /\ buf \in Seq(Byte)
  BY DEF Put, TypeOK
<1> HIDE DEF s, Piece
<1>3. /\ Len(buf \o s) = Len(buf) + Len(s)
      /\ \A i \in 1 .. Len(buf) + Len(s) :
             (buf \o s)[i] = IF i <= Len(buf) THEN buf[i] ELSE s[i - Len(buf)]
  BY ONLY <1>1, <1>2, Joined
<1> QED
  BY <1>1, <1>2, <1>3, SMTT(30)

(* Every step keeps the types and the places of the calls: how much a writer
   has written by the point where it is, whole writes being all or nothing. *)
LEMMA PlacesStep ==
  ASSUME TypeOK, Places, Queued, Next
  PROVE  TypeOK' /\ Places'
<1>1. wq' \in [queue : [{"read", "write"} -> Seq(Tasks)], blocked : SUBSET Tasks]
  BY QueuedStep DEF Queued, QueuesOK, Queues, Ends
<1> USE SizeAssumption
<1>b. MaxReads \in Nat /\ MaxWrites \in Nat /\ MaxEnds \in Nat \ {0}
  BY BoundAssumption, EndsAssumption
<1>o. ASSUME NEW p \in Tasks, \A x \in Tasks \ {p} : /\ pc'[x] = pc[x] /\ size'[x] = size[x]
                                              /\ total'[x] = total[x] /\ call'[x] = call[x],
             writes' \in {writes, writes + 1}
      PROVE  /\ \A x \in Readers \ {p} : pc'[x] \in ReadLocations
             /\ \A x \in Writers \ {p} : WritePlace(x)'
  <2>1. \A x \in Readers \ {p} : pc'[x] \in ReadLocations
    BY <1>o DEF Places, Tasks
  <2>2. ASSUME NEW x \in Writers \ {p} PROVE WritePlace(x)'
    <3>1. WritePlace(x) /\ writes \in Nat
      BY SMTT(30) DEF Places, TypeOK
    <3>2. /\ pc'[x] = pc[x] /\ size'[x] = size[x] /\ total'[x] = total[x]
          /\ call'[x] = call[x]
      BY <1>o DEF Tasks
    <3> QED
      BY <1>o, <3>1, <3>2, SMTT(30) DEF WritePlace, Atomic, At
  <2> QED
    BY <2>1, <2>2
<1>r. ASSUME NEW p \in Readers, NEW l \in ReadLocations, pc' = [pc EXCEPT ![p] = l],
             \A x \in Tasks \ {p} : /\ size'[x] = size[x] /\ total'[x] = total[x]
                                    /\ call'[x] = call[x],
             writes' = writes
      PROVE  Places' /\ pc' \in [Tasks -> Locations]
  <2>1. pc \in [Tasks -> Locations] /\ p \in Tasks /\ p \notin Writers /\ l \in Locations
    BY TaskAssumption DEF TypeOK, Tasks, ReadLocations, Locations
  <2>2. pc'[p] = l /\ \A x \in Tasks \ {p} : pc'[x] = pc[x]
    BY ONLY <1>r, <2>1
  <2>3. /\ \A x \in Readers \ {p} : pc'[x] \in ReadLocations
        /\ \A x \in Writers \ {p} : WritePlace(x)'
    BY <1>o, <1>r, <2>1, <2>2
  <2>4. Places'
    BY <2>1, <2>2, <2>3 DEF Places
  <2> QED
    BY ONLY <1>r, <2>1, <2>4
<1>w. ASSUME NEW p \in Writers, NEW l \in WriteLocations, pc' = [pc EXCEPT ![p] = l],
             \A x \in Tasks \ {p} : /\ size'[x] = size[x] /\ total'[x] = total[x]
                                    /\ call'[x] = call[x],
             writes' \in {writes, writes + 1}, pc'[p] = l => WritePlace(p)'
      PROVE  Places' /\ pc' \in [Tasks -> Locations]
  <2>1. pc \in [Tasks -> Locations] /\ p \in Tasks /\ p \notin Readers /\ l \in Locations
    BY TaskAssumption DEF TypeOK, Tasks, WriteLocations, Locations
  <2>2. pc'[p] = l /\ \A x \in Tasks \ {p} : pc'[x] = pc[x]
    BY ONLY <1>w, <2>1
  <2>3. /\ \A x \in Readers \ {p} : pc'[x] \in ReadLocations
        /\ \A x \in Writers \ {p} : WritePlace(x)'
    BY <1>o, <1>w, <2>1, <2>2
  <2>4. Places'
    BY <1>w, <2>1, <2>2, <2>3 DEF Places
  <2> QED
    BY ONLY <1>w, <2>1, <2>4
<1>2. ASSUME NEW p \in Readers,
             \/ ReadAborts(p) \/ ReadEof(p) \/ ReadWouldBlock(p) \/ ReadNoCapacity(p)
             \/ ReadArms(p) \/ CommitFails(p) \/ WakeWriters(p) \/ WakeReader(p) \/ PassOn(p)
             \/ PassWake(p)
      PROVE  TypeOK' /\ Places'
  <2>1. /\ intr' = intr /\ buf' = buf /\ inflight' \in {inflight, FALSE} /\ ends' = ends
        /\ size' = size /\ total' = total /\ call' = call /\ dst' = dst /\ waited' = waited
        /\ stream' = stream /\ counts' = counts
    BY <1>2 DEF ReadAborts, ReadEof, ReadWouldBlock, ReadNoCapacity, ReadArms, CommitFails,
                WakeWriters, WakeReader, PassOn, PassWake, ends, counts
  <2>2. PICK l \in ReadLocations : pc' = [pc EXCEPT ![p] = l]
    BY <1>2 DEF ReadAborts, ReadEof, ReadWouldBlock, ReadNoCapacity, ReadArms, CommitFails,
                WakeWriters, WakeReader, PassOn, PassWake, Goto, GivesUp, ReadLocations
  <2>3. Places' /\ pc' \in [Tasks -> Locations]
    BY <1>r, <2>1, <2>2 DEF counts
  <2> QED
    BY <1>1, <2>1, <2>3 DEF TypeOK, ends, counts
<1>3. ASSUME NEW p \in Readers, NEW n \in ReadSizes, Read(p, n)
      PROVE  TypeOK' /\ Places'
  <2>1. reads' \in 0 .. MaxReads /\ readers' \in Nat
    BY <1>3, <1>b, SMTT(30) DEF Read, TypeOK
  <2>2. size' \in [Tasks -> Nat] /\ pc' \in [Tasks -> Locations]
    BY <1>3 DEF Read, TypeOK, Tasks, Locations, Goto
  <2>3. TypeOK'
    BY <1>1, <1>3, <2>1, <2>2 DEF Read, TypeOK
  <2>4. /\ \A x \in Tasks \ {p} : /\ pc'[x] = pc[x] /\ size'[x] = size[x]
                                 /\ total'[x] = total[x] /\ call'[x] = call[x]
        /\ writes' = writes /\ pc'[p] = "rtop"
    BY <1>3 DEF Read, TypeOK, Goto, Tasks
  <2> QED
    BY <1>o, <2>3, <2>4, TaskAssumption DEF Places, Tasks, ReadLocations
<1>4. ASSUME NEW p \in Readers, BeginRead(p)
      PROVE  TypeOK' /\ Places'
  <2>1. SubSeq(buf, 1, Min2(size[p], Len(buf))) \in Seq(Byte)
    BY SMTT(30) DEF TypeOK, Min2, Tasks
  <2>2. pc' = [pc EXCEPT ![p] = "commit"] /\ size' = size /\ total' = total /\ call' = call
        /\ counts' = counts
    BY <1>4 DEF BeginRead, Goto
  <2>3. Places' /\ pc' \in [Tasks -> Locations]
    <3>1. "commit" \in ReadLocations /\ writes' = writes
      BY <2>2 DEF counts, ReadLocations
    <3> QED
      BY <1>r, <2>2, <3>1
  <2>4. dst' \in [Tasks -> Seq(Byte)]
    BY <1>4, <2>1 DEF BeginRead, TypeOK, Tasks
  <2> QED
    BY <1>1, <1>4, <2>3, <2>4 DEF BeginRead, TypeOK, ends, counts
<1>5. ASSUME NEW p \in Readers, ReadResumes(p)
      PROVE  TypeOK' /\ Places'
  <2>1. pc' = [pc EXCEPT ![p] = "rtop"] /\ size' = size /\ total' = total /\ call' = call
        /\ counts' = counts
    BY <1>5 DEF ReadResumes, Goto
  <2>2. Places' /\ pc' \in [Tasks -> Locations]
    <3>1. "rtop" \in ReadLocations /\ writes' = writes
      BY <2>1 DEF counts, ReadLocations
    <3> QED
      BY <1>r, <2>1, <3>1
  <2> QED
    BY <1>1, <1>5, <2>2 DEF ReadResumes, TypeOK, ends, counts
<1>6. ASSUME NEW p \in Readers, Commit(p)
      PROVE  TypeOK' /\ Places'
  <2>1. /\ SubSeq(buf, Min2(Len(dst[p]), Len(buf)) + 1, Len(buf)) \in Seq(Byte)
        /\ Len(SubSeq(buf, Min2(Len(dst[p]), Len(buf)) + 1, Len(buf))) <= Len(buf)
    BY SMTT(30) DEF TypeOK, Min2, Tasks
  <2>2. stream \o dst[p] \in Seq(Byte)
    BY SMTT(30) DEF TypeOK, Tasks
  <2>3. buf' \in Seq(Byte) /\ Len(buf') <= Len(buf) /\ stream' \in Seq(Byte)
    BY <2>1, <2>2, <1>6, Zenon DEF Commit
  <2>4. Len(buf') <= Capacity
    BY <2>3, SMTT(30) DEF TypeOK
  <2>5. pc' = [pc EXCEPT ![p] = "rwake"] /\ size' = size /\ total' = total /\ call' = call
        /\ counts' = counts
    BY <1>6 DEF Commit, Goto
  <2>6. Places' /\ pc' \in [Tasks -> Locations]
    <3>1. "rwake" \in ReadLocations /\ writes' = writes
      BY <2>5 DEF counts, ReadLocations
    <3> QED
      BY <1>r, <2>5, <3>1
  <2> QED
    BY <1>1, <1>6, <2>3, <2>4, <2>6 DEF Commit, TypeOK, ends, counts
<1>7. ASSUME NEW p \in Readers, ReadReturns(p)
      PROVE  TypeOK' /\ Places'
  <2>1. TypeOK'
    <3>1. << >> \in Seq(Byte)
      BY SMTT(30)
    <3>2. dst' \in [Tasks -> Seq(Byte)]
      BY <1>7, <3>1 DEF ReadReturns, TypeOK
    <3>3. size' \in [Tasks -> Nat] /\ pc' \in [Tasks -> Locations]
      BY <1>7 DEF ReadReturns, TypeOK, Tasks, Locations, Goto
    <3>4. readers' \in Nat
      BY <1>7, SMTT(30) DEF ReadReturns, TypeOK, Less
    <3>5. waited' \in [Tasks -> BOOLEAN]
      BY <1>7, Zenon DEF ReadReturns, TypeOK
    <3> QED
      BY <1>1, <1>7, <3>2, <3>3, <3>4, <3>5 DEF ReadReturns, TypeOK, counts
  <2>2. /\ \A x \in Tasks \ {p} : /\ pc'[x] = pc[x] /\ size'[x] = size[x]
                                 /\ total'[x] = total[x] /\ call'[x] = call[x]
        /\ writes' = writes /\ pc'[p] = "idle"
    BY <1>7 DEF ReadReturns, TypeOK, Goto, Tasks, counts
  <2> QED
    BY <1>o, <2>1, <2>2, TaskAssumption DEF Places, Tasks, ReadLocations
<1>8. ASSUME NEW p \in Writers,
             WriteEnds(p) \/ WriteWouldBlock(p) \/ WriteRetriesCapacity(p) \/ WriteArms(p)
      PROVE  TypeOK' /\ Places'
  <2>1. /\ intr' = intr /\ buf' = buf /\ inflight' = inflight /\ ends' = ends
        /\ size' = size /\ total' = total /\ call' = call /\ dst' = dst /\ waited' = waited
        /\ stream' = stream /\ counts' = counts /\ pc[p] \in {"wtop", "wprep"}
    BY <1>8 DEF WriteEnds, WriteWouldBlock, WriteRetriesCapacity, WriteArms, ends, counts,
                Examines, At
  <2>2. PICK l \in {"wtop", "wprep", "wsleep", "wdrop"} : pc' = [pc EXCEPT ![p] = l]
    BY <1>8 DEF WriteEnds, WriteWouldBlock, WriteRetriesCapacity, WriteArms, ArmWriter, Goto
  <2>3. pc'[p] = l => WritePlace(p)'
    <3>1. WritePlace(p)
      BY DEF Places
    <3> QED
      BY <2>1, <2>2, <3>1 DEF WritePlace, At, Atomic, WriteLocations, counts
  <2>4. Places' /\ pc' \in [Tasks -> Locations]
    BY <1>w, <2>1, <2>2, <2>3 DEF counts, WriteLocations
  <2> QED
    BY <1>1, <2>1, <2>4 DEF TypeOK, ends, counts
<1>9. ASSUME NEW p \in Writers, NEW n \in WriteSizes, Write(p, n)
      PROVE  TypeOK' /\ Places'
  <2>1. TypeOK'
    <3>1. size' \in [Tasks -> Nat] /\ pc' \in [Tasks -> Locations]
      BY <1>9 DEF Write, TypeOK, Tasks, Locations, Goto
    <3>2. writes' \in 0 .. MaxWrites /\ writes' = writes + 1
      BY <1>9, <1>b, SMTT(30) DEF Write, TypeOK
    <3>3. call' \in [Tasks -> 0 .. MaxWrites]
      BY <1>9, <3>2 DEF Write, TypeOK, Tasks
    <3>4. writers' \in Nat
      BY <1>9, SMTT(30) DEF Write, TypeOK
    <3> QED
      BY <1>1, <1>9, <3>1, <3>2, <3>3, <3>4 DEF Write, TypeOK
  <2>2. WritePlace(p)'
    <3>1. /\ pc'[p] = "wtop" /\ size'[p] = n /\ total'[p] = total[p] /\ writes' = writes + 1
          /\ call'[p] = writes + 1 /\ writes \in Nat /\ total[p] = 0
      BY <1>9, SMTT(30) DEF Write, TypeOK, Goto, Tasks, Places, WritePlace
    <3> QED
      BY <3>1, SMTT(30) DEF WritePlace, At, Atomic, WriteLocations
  <2>3. /\ \A x \in Tasks \ {p} : size'[x] = size[x] /\ total'[x] = total[x] /\ call'[x] = call[x]
        /\ writes' = writes + 1 /\ pc' = [pc EXCEPT ![p] = "wtop"]
    BY <1>9 DEF Write, TypeOK, Goto
  <2> QED
    BY <1>w, <2>1, <2>2, <2>3 DEF WriteLocations
<1>10. ASSUME NEW p \in Writers, WriteCopies(p) \/ WriteCopiesAndArms(p)
       PROVE  TypeOK' /\ Places'
  <2>1. /\ intr' = intr /\ inflight' = inflight /\ ends' = ends /\ size' = size
        /\ call' = call /\ dst' = dst /\ waited' = waited /\ stream' = stream
        /\ counts' = counts /\ pc[p] \in {"wtop", "wprep"}
    BY <1>10 DEF WriteCopies, WriteCopiesAndArms, ends, counts, Examines, At
  <2>2. /\ buf' = buf \o [i \in 1 .. Piece(p) |-> <<call[p], total[p] + i, size[p]>>]
        /\ total' = [total EXCEPT ![p] = @ + Piece(p)]
    BY <1>10 DEF WriteCopies, WriteCopiesAndArms, Put
  <2>3. buf' \in Seq(Byte) /\ Len(buf') <= Capacity
    <3> DEFINE s == [i \in 1 .. Piece(p) |-> <<call[p], total[p] + i, size[p]>>]
    <3>1. s \in Seq(Byte) /\ Len(s) = Piece(p) /\ Len(buf) + Piece(p) <= Capacity
      BY <2>1, PieceFits DEF At
    <3> HIDE DEF s
    <3>2. buf \o s \in Seq(Byte) /\ Len(buf \o s) = Len(buf) + Len(s)
      <4>1. buf \in Seq(Byte) /\ s \in Seq(Byte)
        BY <3>1 DEF TypeOK
      <4> QED
        BY ONLY <4>1, Joined
    <3> QED
      BY <3>1, <3>2, <2>2 DEF s
  <2>4. Piece(p) \in Nat /\ total[p] + Piece(p) <= size[p] /\ total[p] \in Nat
    BY <2>1, PieceFits DEF At, TypeOK, Tasks
  <2>5. PICK l \in {"wwake", "wsleep", "wdrop", "wtop"} : pc' = [pc EXCEPT ![p] = l]
    BY <1>10 DEF WriteCopies, WriteCopiesAndArms, ArmWriter, Goto
  <2>6. Atomic(size[p]) => l = "wwake" /\ total[p] + Piece(p) = size[p]
    <3> SUFFICES ASSUME Atomic(size[p]) PROVE l = "wwake" /\ total[p] + Piece(p) = size[p]
      OBVIOUS
    <3>1. WriteCopies(p) /\ Room(p)
      BY <1>10 DEF WriteCopies, WriteCopiesAndArms
    <3>2. pc' = [pc EXCEPT ![p] = "wwake"]
      BY <3>1 DEF WriteCopies, Goto
    <3>3. l = "wwake"
      BY <3>2, <2>5 DEF TypeOK, Tasks
    <3>4. total[p] = 0 /\ size[p] \in Nat /\ Len(buf) \in Nat
      BY <2>1, SMTT(30) DEF Places, WritePlace, TypeOK, Tasks
    <3>5. total[p] + Piece(p) = size[p]
      BY <3>1, <3>4, SMTT(30) DEF Room, Piece, Space, Min2
    <3> QED
      BY <3>3, <3>5
  <2>7. l \in {"wsleep", "wtop"} => total[p] + Piece(p) # size[p]
    BY <1>10, <2>5 DEF WriteCopies, WriteCopiesAndArms, Written, Goto, TypeOK, Tasks
  <2> HIDE DEF Piece
  <2>8. TypeOK'
    <3>1. total' \in [Tasks -> Nat]
      BY <2>2, <2>4, SMTT(30) DEF TypeOK, Tasks
    <3> QED
      BY <1>1, <2>1, <2>3, <2>5, <3>1 DEF TypeOK, ends, counts, Tasks, Locations
  <2>9. /\ pc'[p] = l /\ size'[p] = size[p] /\ total'[p] = total[p] + Piece(p)
        /\ call'[p] = call[p] /\ writes' = writes
    BY <2>1, <2>2, <2>5 DEF TypeOK, Tasks, counts
  <2>10. WritePlace(p)'
    <3>1. WritePlace(p) /\ size[p] \in Nat /\ pc[p] # "idle"
      BY <2>1 DEF Places, TypeOK, Tasks
    <3> QED
      BY <2>4, <2>6, <2>7, <2>9, <3>1, SMTT(30) DEF WritePlace, At, Atomic, WriteLocations
  <2>11. \A x \in Tasks \ {p} : size'[x] = size[x] /\ total'[x] = total[x] /\ call'[x] = call[x]
    BY <2>1, <2>2 DEF TypeOK
  <2> QED
    BY <1>w, <2>5, <2>8, <2>9, <2>10, <2>11 DEF WriteLocations
<1>11. ASSUME NEW p \in Writers, WriteWakes(p) \/ WriteResumes(p)
       PROVE  TypeOK' /\ Places'
  <2>1. /\ intr' = intr /\ buf' = buf /\ inflight' = inflight /\ ends' = ends
        /\ size' = size /\ total' = total /\ call' = call /\ dst' = dst /\ waited' = waited
        /\ stream' = stream /\ counts' = counts
    BY <1>11 DEF WriteWakes, WriteResumes, ends, counts
  <2>2. CASE WriteWakes(p)
    <3>1. PICK l \in {"wdrop", "wprep"} :
              pc' = [pc EXCEPT ![p] = l] /\ (l = "wprep" => total[p] # size[p])
      BY <2>2 DEF WriteWakes, Goto
    <3>2. At(p, "wwake")
      BY <2>2 DEF WriteWakes
    <3>3. TypeOK'
      BY <1>1, <2>1, <3>1 DEF TypeOK, ends, counts, Locations
    <3>4. WritePlace(p) /\ pc'[p] = l /\ size[p] \in Nat /\ total[p] \in Nat
      BY <3>1 DEF Places, TypeOK, Tasks
    <3>5. WritePlace(p)'
      BY <2>1, <3>1, <3>2, <3>4, SMTT(30) DEF WritePlace, At, Atomic, WriteLocations, counts
    <3> QED
      BY <1>w, <2>1, <3>1, <3>3, <3>5 DEF WriteLocations, counts
  <2>3. CASE WriteResumes(p)
    <3>1. pc' = [pc EXCEPT ![p] = "wtop"] /\ At(p, "wsleep")
      BY <2>3 DEF WriteResumes, Goto
    <3>2. pc'[p] = "wtop" => WritePlace(p)'
      <4>1. WritePlace(p)
        BY DEF Places
      <4> QED
        BY <2>1, <3>1, <4>1 DEF WritePlace, At, Atomic, WriteLocations, counts
    <3>3. Places' /\ pc' \in [Tasks -> Locations]
      BY <1>w, <2>1, <3>1, <3>2 DEF counts, WriteLocations
    <3> QED
      BY <1>1, <2>1, <3>3 DEF TypeOK, ends, counts
  <2> QED
    BY <1>11, <2>2, <2>3
<1>12. ASSUME NEW p \in Writers, WriteReturns(p)
       PROVE  TypeOK' /\ Places'
  <2>1. TypeOK'
    <3>1. 0 \in 0 .. MaxWrites
      BY <1>b, SMTT(30)
    <3>2. /\ size' \in [Tasks -> Nat] /\ pc' \in [Tasks -> Locations]
          /\ total' \in [Tasks -> Nat] /\ call' \in [Tasks -> 0 .. MaxWrites]
      BY <1>12, <3>1 DEF WriteReturns, TypeOK, Tasks, Locations, Goto
    <3>3. writers' \in Nat
      BY <1>12, SMTT(30) DEF WriteReturns, TypeOK, Less
    <3> QED
      BY <1>1, <1>12, <3>2, <3>3 DEF WriteReturns, TypeOK, counts
  <2>2. WritePlace(p)'
    BY <1>12, SMTT(30) DEF WriteReturns, TypeOK, Goto, Tasks, WritePlace, At, WriteLocations
  <2>3. /\ \A x \in Tasks \ {p} : /\ pc'[x] = pc[x] /\ size'[x] = size[x]
                                 /\ total'[x] = total[x] /\ call'[x] = call[x]
        /\ writes' = writes
    BY <1>12 DEF WriteReturns, TypeOK, Goto, Tasks, counts
  <2> QED
    BY <1>o, <2>1, <2>2, <2>3, TaskAssumption, SMTT(30) DEF Places, Tasks
<1>13. ASSUME CloseRead \/ CloseWrite \/ Duplicate \/ \E p \in Tasks : Signal(p)
       PROVE  TypeOK' /\ Places'
  <2>1. /\ intr' \subseteq Tasks /\ buf' = buf /\ inflight' = inflight /\ pc' = pc
        /\ size' = size /\ total' = total /\ call' = call /\ dst' = dst /\ waited' = waited
        /\ stream' = stream /\ counts' = counts
    BY <1>13 DEF CloseRead, CloseWrite, Duplicate, Signal, counts, TypeOK
  <2>2. /\ readers' \in Nat /\ writers' \in Nat
        /\ rfd' \in 0 .. MaxEnds /\ wfd' \in 0 .. MaxEnds
    <3>1. readers \in Nat /\ writers \in Nat /\ rfd \in 0 .. MaxEnds /\ wfd \in 0 .. MaxEnds
      BY DEF TypeOK
    <3>2. CASE CloseRead \/ CloseWrite
      BY <3>1, <3>2, <1>b, SMTT(30) DEF CloseRead, CloseWrite, Less
    <3>3. CASE Duplicate \/ \E p \in Tasks : Signal(p)
      BY <3>1, <3>3, <1>b, SMTT(30) DEF Duplicate, Signal, ends
    <3> QED
      BY <1>13, <3>2, <3>3
  <2> QED
    BY <1>1, <2>1, <2>2 DEF TypeOK, Places, WritePlace, At, Atomic, counts
<1> QED
  BY <1>2, <1>3, <1>4, <1>5, <1>6, <1>7, <1>8, <1>9, <1>10, <1>11, <1>12, <1>13
     DEF Next, ReadStep, WriteStep

------------------------------------------------------------------------------
\* A task that holds a reader's wake, or is about to give one: it will look at the
\* ring, or wake a reader, before it leaves the pipe.
HoldsWake(t) ==
    \/ t \in Readers /\ At(t, "rsleep") /\ t \notin wq.blocked
    \/ t \in Readers /\ At(t, "rtop") /\ waited[t]
    \/ t \in Readers /\ pc[t] \in {"rwake", "rfail", "pass", "passwake"}
    \/ t \in Writers /\ At(t, "wwake")

\* A reader asleep while there are bytes for it is owed a wake some task holds.
ReadersOwed ==
    wq.blocked \cap Readers # {} =>
        writers > 0 /\ (Available => \E t \in Tasks : HoldsWake(t))

\* A writer asleep while there is room for it is owed the wake of a reader that
\* has just made the room.
WritersOwed ==
    \A p \in wq.blocked \cap Writers :
        readers > 0 /\ (Room(p) => \E t \in Readers : At(t, "rwake"))

(* A sound queue places every sleeper: readers in the read queue, writers in
   the write queue, at the point where their call sleeps. *)
LEMMA SleepersPlaced ==
  ASSUME TypeOK, Queued
  PROVE  /\ wq.blocked \cap Readers \subseteq Entries(wq, "read")
         /\ wq.blocked \cap Writers \subseteq Entries(wq, "write")
         /\ \A p \in Entries(wq, "read") : p \in Readers /\ pc[p] = "rsleep"
         /\ \A p \in Entries(wq, "write") : p \in Writers /\ pc[p] = "wsleep"
         /\ wq.blocked \subseteq Tasks
BY TaskAssumption DEF Queued, QueuesOK, Queues, May, Ends, At

(* What the operations of the wait queues do to the set of sleepers: wake_all
   clears a queue, wake_one takes one sleeper of it.                            *)
LEMMA QueueMoves ==
  ASSUME Queued, NEW q \in Ends
  PROVE  /\ WakeAll(wq, q).blocked = wq.blocked \ Entries(wq, q)
         /\ WakeOne(wq, q).blocked \subseteq wq.blocked
         /\ wq.blocked \ WakeOne(wq, q).blocked \subseteq Entries(wq, q)
         /\ \/ wq.blocked \cap Entries(wq, q) = {}
            \/ \E y \in wq.blocked \cap Entries(wq, q) : y \notin WakeOne(wq, q).blocked
<1>1. QueuesOK(wq, Ends, Tasks, May, intr) /\ Apart(Ends, May) /\ q \in Ends
  BY MayApart DEF Queued
<1>2. WakeAll(wq, q).blocked = wq.blocked \ Entries(wq, q)
  BY ONLY <1>1, WakeAllOK
<1>3. /\ WakeOne(wq, q).blocked \subseteq wq.blocked
      /\ wq.blocked \ WakeOne(wq, q).blocked \subseteq Entries(wq, q)
      /\ \/ wq.blocked \cap Entries(wq, q) = {}
         \/ \E y \in wq.blocked \cap Entries(wq, q) : y \notin WakeOne(wq, q).blocked
  BY ONLY <1>1, WakeOneOK
<1> QED
  BY ONLY <1>2, <1>3

(* A signal unblocks its task and nobody else. *)
LEMMA SignalWakes ==
  ASSUME Queued, NEW p \in Tasks
  PROVE  Interrupt(wq, p).blocked \subseteq wq.blocked
<1>1. Interrupt(wq, p).blocked = wq.blocked \ {p}
  BY DEF Queued, Interrupt, QueuesOK, Queues
<1> QED
  BY ONLY <1>1

(* A task that resumes from its sleep cancels no wait but its own. *)
LEMMA ResumeWakesNone ==
  ASSUME Queued, NEW q \in Ends, NEW p \in May[q],
         wq' = FinishWait(wq, q, p, Aborts(p))
  PROVE  wq'.blocked \subseteq wq.blocked
<1>1. /\ QueuesOK(wq, Ends, Tasks, May, intr) /\ Apart(Ends, May) /\ q \in Ends
      /\ p \in May[q] /\ p \in Tasks
  BY MayApart DEF Queued, May, Ends, Tasks
<1>2. \A r \in Ends : May[r] \ {p} \subseteq May[r]
  OBVIOUS
<1>3. CancelWait(wq, q, p).blocked = wq.blocked \ {p}
  BY ONLY <1>1, <1>2, CancelOK, SMTT(30)
<1>4. wq' = wq \/ wq' = CancelWait(wq, q, p)
  BY DEF FinishWait
<1> QED
  BY ONLY <1>3, <1>4

(* The same at either end of the pipe. *)
LEMMA Resumes ==
  ASSUME Queued
  PROVE  /\ \A p \in Readers : ReadResumes(p) => wq'.blocked \subseteq wq.blocked
         /\ \A p \in Writers : WriteResumes(p) => wq'.blocked \subseteq wq.blocked
<1>1. ASSUME NEW p \in Readers, ReadResumes(p) PROVE wq'.blocked \subseteq wq.blocked
  <2>1. "read" \in Ends /\ p \in May["read"] /\ wq' = FinishWait(wq, "read", p, Aborts(p))
    BY <1>1 DEF ReadResumes, May, Ends
  <2> QED
    BY <2>1, ResumeWakesNone
<1>2. ASSUME NEW p \in Writers, WriteResumes(p) PROVE wq'.blocked \subseteq wq.blocked
  <2>1. "write" \in Ends /\ p \in May["write"] /\ wq' = FinishWait(wq, "write", p, Aborts(p))
    BY <1>2 DEF WriteResumes, May, Ends
  <2> QED
    BY <2>1, ResumeWakesNone
<1> QED
  BY <1>1, <1>2

(* Every step keeps a sleeping reader owed its wake: no step adds bytes, takes a
   wake or leaves the pipe without waking a reader or passing the wake on. *)
LEMMA ReadersOwedStep ==
  ASSUME TypeOK, Places, Queued, ReadersOwed, Next
  PROVE  ReadersOwed'
<1>0. /\ wq.blocked \cap Readers \subseteq Entries(wq, "read")
      /\ wq.blocked \cap Writers \subseteq Entries(wq, "write")
      /\ \A p \in Entries(wq, "read") : p \in Readers /\ pc[p] = "rsleep"
      /\ \A p \in Entries(wq, "write") : p \in Writers /\ pc[p] = "wsleep"
      /\ wq.blocked \subseteq Tasks
  BY SleepersPlaced
<1> DEFINE Others(p) == \A x \in Tasks \ {p} : pc'[x] = pc[x] /\ waited'[x] = waited[x]
<1>1. ASSUME NEW p \in Tasks, ~HoldsWake(p), Others(p), writers' \in {writers, writers + 1},
             wq'.blocked \cap Readers \subseteq wq.blocked, Available' => Available
      PROVE  ReadersOwed'
  <2> SUFFICES ASSUME wq'.blocked \cap Readers # {}
               PROVE  writers' > 0 /\ (Available' => \E t \in Tasks : HoldsWake(t)')
    BY DEF ReadersOwed
  <2>1. writers > 0 /\ (Available => \E t \in Tasks : HoldsWake(t))
    BY <1>1 DEF ReadersOwed
  <2>2. \A t \in Tasks : HoldsWake(t) => HoldsWake(t)'
    BY <1>1 DEF HoldsWake, At
  <2> QED
    BY <1>1, <2>1, <2>2, SMTT(30) DEF TypeOK
<1>2. ASSUME NEW p \in Tasks, HoldsWake(p)', writers' = writers,
             wq'.blocked \cap Readers \subseteq wq.blocked
      PROVE  ReadersOwed'
  BY <1>2 DEF ReadersOwed
<1>3. ASSUME ~Available', writers' > 0 \/ wq'.blocked \cap Readers = {}
      PROVE  ReadersOwed'
  BY <1>3 DEF ReadersOwed
<1>4. ASSUME NEW w, w = WakeOne(wq, "read"), NEW p \in Tasks, Others(p), writers' = writers,
             wq'.blocked \cap Readers = w.blocked \cap Readers, pc[p] # "rsleep"
      PROVE  ReadersOwed'
  <2>1. /\ w.blocked \subseteq wq.blocked
        /\ \/ wq.blocked \cap Entries(wq, "read") = {}
           \/ \E y \in wq.blocked \cap Entries(wq, "read") : y \notin w.blocked
    BY <1>4, QueueMoves DEF Ends
  <2>2. CASE wq.blocked \cap Entries(wq, "read") = {}
    <3>1. wq'.blocked \cap Readers = {}
      BY <1>0, <1>4, <2>1, <2>2
    <3> QED
      BY <3>1 DEF ReadersOwed
  <2>3. CASE \E y \in wq.blocked \cap Entries(wq, "read") : y \notin w.blocked
    <3>1. PICK y \in wq.blocked \cap Entries(wq, "read") : y \notin w.blocked
      BY <2>3
    <3>2. y \in Readers /\ pc[y] = "rsleep" /\ y # p /\ y \notin wq'.blocked
      BY <1>0, <1>4, <3>1
    <3>3. HoldsWake(y)' /\ y \in Tasks
      BY <1>4, <3>2 DEF HoldsWake, At, Tasks
    <3> QED
      BY <1>2, <1>4, <2>1, <3>3
  <2> QED
    BY <2>1, <2>2, <2>3
<1>5. ASSUME NEW p \in Readers, ReadStep(p) \/ \E n \in ReadSizes : Read(p, n)
      PROVE  ReadersOwed'
  <2>0. p \in Tasks /\ p \notin Writers
    BY TaskAssumption DEF Tasks
  <2>1. CASE ReadAborts(p)
    <3>1. Others(p) /\ writers' = writers /\ wq' = wq /\ (Available' => Available)
      BY <2>1 DEF ReadAborts, Goto, TypeOK, Tasks, Available, ends
    <3>2. CASE waited[p]
      <4>1. pc'[p] = "pass"
        BY <2>0, <2>1, <3>2 DEF ReadAborts, Goto, TypeOK, GivesUp
      <4> QED
        BY <1>2, <2>0, <3>1, <4>1 DEF HoldsWake
    <3>3. CASE ~waited[p]
      <4>1. ~HoldsWake(p)
        BY <2>0, <2>1, <3>3 DEF ReadAborts, HoldsWake, At
      <4> QED
        BY <1>1, <2>0, <3>1, <4>1 DEF TypeOK
    <3> QED
      BY <3>2, <3>3
  <2>2. CASE BeginRead(p)
    <3>1. ~Available' /\ wq' = wq /\ writers' = writers
      BY <2>2 DEF BeginRead, Available, ends
    <3> QED
      BY <3>1 DEF ReadersOwed
  <2>3. CASE ReadEof(p) \/ ReadWouldBlock(p)
    <3>1. ~Available' /\ wq' = wq /\ writers' = writers
      BY <2>3, SMTT(30) DEF ReadEof, ReadWouldBlock, Starved, Available, ends
    <3> QED
      BY <3>1 DEF ReadersOwed
  <2>4. CASE ReadNoCapacity(p)
    <3>1. Others(p) /\ writers' = writers /\ wq' = wq /\ (Available' => Available)
      BY <2>4 DEF ReadNoCapacity, Goto, TypeOK, Tasks, Available, ends
    <3>2. ~HoldsWake(p)
      BY <2>0, <2>4 DEF ReadNoCapacity, HoldsWake, At
    <3> QED
      BY <1>1, <2>0, <3>1, <3>2 DEF TypeOK
  <2>5. CASE ReadArms(p)
    <3>1. ~Available' /\ writers' > 0
      BY <2>5 DEF ReadArms, Starved, Available, ends
    <3> QED
      BY <1>3, <3>1
  <2>6. CASE ReadResumes(p)
    <3>1. pc'[p] = "rtop" /\ waited'[p] /\ writers' = writers
      BY <2>0, <2>6 DEF ReadResumes, Goto, TypeOK, ends
    <3>2. wq'.blocked \subseteq wq.blocked
      BY <2>6, Resumes
    <3>3. HoldsWake(p)'
      BY <3>1 DEF HoldsWake, At
    <3> QED
      BY <1>2, <2>0, <3>1, <3>2, <3>3
  <2>7. CASE Commit(p) \/ CommitFails(p)
    <3>1. wq' = wq /\ writers' = writers /\ pc'[p] \in {"rwake", "rfail"}
      BY <2>0, <2>7 DEF Commit, CommitFails, Goto, TypeOK, ends
    <3> QED
      BY <1>2, <2>0, <3>1 DEF HoldsWake
  <2>8. CASE WakeWriters(p)
    <3>1. wq' = WakeAll(wq, "write") /\ writers' = writers /\ pc'[p] = "pass"
      BY <2>0, <2>8 DEF WakeWriters, Goto, TypeOK, ends
    <3>2. wq'.blocked \subseteq wq.blocked
      BY <3>1, QueueMoves DEF Ends
    <3> QED
      BY <1>2, <2>0, <3>1, <3>2 DEF HoldsWake
  <2>9. CASE WakeReader(p) \/ PassWake(p)
    <3>1. wq' = WakeOne(wq, "read") /\ writers' = writers /\ Others(p) /\ pc[p] # "rsleep"
      BY <2>9 DEF WakeReader, PassWake, Goto, TypeOK, ends, At
    <3> QED
      BY <1>4, <2>0, <3>1
  <2>10. CASE PassOn(p)
    <3>1. wq' = wq /\ writers' = writers /\ Available' = Available
      BY <2>10 DEF PassOn, ends, Available
    <3>2. CASE Available
      <4>1. pc'[p] = "passwake"
        BY <2>0, <2>10, <3>2 DEF PassOn, Goto, TypeOK
      <4> QED
        BY <1>2, <2>0, <3>1, <4>1 DEF HoldsWake
    <3>3. CASE ~Available
      BY <3>1, <3>3 DEF ReadersOwed
    <3> QED
      BY <3>2, <3>3
  <2>11. CASE ReadReturns(p) \/ \E n \in ReadSizes : Read(p, n)
    <3>1. /\ Others(p) /\ writers' = writers /\ (Available' => Available)
          /\ wq' \in {wq, WakeAll(wq, "write")} /\ pc[p] \in {"eof", "rdrop", "idle"}
      BY <2>11 DEF ReadReturns, Read, Goto, TypeOK, Tasks, Available, At
    <3>2. wq'.blocked \subseteq wq.blocked
      <4>1. WakeAll(wq, "write").blocked \subseteq wq.blocked
        BY QueueMoves DEF Ends
      <4> QED
        BY <3>1, <4>1
    <3>3. ~HoldsWake(p)
      BY <2>0, <3>1 DEF HoldsWake, At
    <3> QED
      BY <1>1, <2>0, <3>1, <3>2, <3>3 DEF TypeOK
  <2> QED
    BY <1>5, <2>1, <2>2, <2>3, <2>4, <2>5, <2>6, <2>7, <2>8, <2>9, <2>10, <2>11
       DEF ReadStep
<1>6. ASSUME NEW p \in Writers, WriteStep(p) \/ \E n \in WriteSizes : Write(p, n)
      PROVE  ReadersOwed'
  <2>0. p \in Tasks /\ p \notin Readers
    BY TaskAssumption DEF Tasks
  <2>1. CASE \/ WriteEnds(p) \/ WriteWouldBlock(p) \/ WriteRetriesCapacity(p)
             \/ WriteArms(p) \/ WriteResumes(p) \/ \E n \in WriteSizes : Write(p, n)
    <3>0. PICK l : Goto(p, l)
      BY <2>1 DEF WriteEnds, WriteWouldBlock, WriteRetriesCapacity, WriteArms, WriteResumes,
                  Write, ArmWriter
    <3>1. /\ Others(p) /\ writers' \in {writers, writers + 1} /\ (Available' => Available)
          /\ pc[p] # "wwake"
      <4>1. /\ waited' = waited /\ buf' = buf /\ inflight' = inflight
            /\ writers' \in {writers, writers + 1} /\ pc[p] # "wwake"
        BY <2>1 DEF WriteEnds, WriteWouldBlock, WriteRetriesCapacity, WriteArms,
                    WriteResumes, Write, At, ends, Examines
      <4> QED
        BY <3>0, <4>1 DEF Goto, TypeOK, Available
    <3>2. ~HoldsWake(p)
      BY <2>0, <3>1 DEF HoldsWake, At
    <3>3. wq'.blocked \cap Readers \subseteq wq.blocked
      <4>1. CASE WriteArms(p)
        <5>1. wq' = wq \/ wq' = Arm(wq, "write", p)
          BY <4>1 DEF WriteArms, ArmWriter
        <5> QED
          BY <2>0, <5>1, SMTT(30) DEF Arm
      <4>2. CASE WriteResumes(p)
        BY <4>2, Resumes
      <4>3. CASE ~WriteArms(p) /\ ~WriteResumes(p)
        BY <2>1, <4>3 DEF WriteEnds, WriteWouldBlock, WriteRetriesCapacity, Write
      <4> QED
        BY <4>1, <4>2, <4>3
    <3> QED
      BY <1>1, <2>0, <3>1, <3>2, <3>3
  <2>2. CASE WriteCopies(p)
    <3>1. wq' = wq /\ writers' = writers /\ pc'[p] = "wwake"
      BY <2>0, <2>2 DEF WriteCopies, Goto, TypeOK, ends
    <3> QED
      BY <1>2, <2>0, <3>1 DEF HoldsWake, At
  <2>3. CASE WriteWakes(p) \/ WriteCopiesAndArms(p)
    <3>1. /\ writers' = writers /\ Others(p) /\ pc[p] # "rsleep"
          /\ \/ wq' = WakeOne(wq, "read")
             \/ wq' = Arm(WakeOne(wq, "read"), "write", p)
      BY <2>3 DEF WriteWakes, WriteCopiesAndArms, ArmWriter, Goto, TypeOK, ends, At
    <3>2. wq'.blocked \cap Readers = WakeOne(wq, "read").blocked \cap Readers
      BY <2>0, <3>1, SMTT(30) DEF Arm
    <3> QED
      BY <1>4, <2>0, <3>1, <3>2
  <2>4. CASE WriteReturns(p)
    <3>1. wq' = WakeAll(wq, "read")
      BY <2>4 DEF WriteReturns
    <3>2. wq'.blocked \cap Readers = {}
      BY <1>0, <3>1, QueueMoves DEF Ends
    <3> QED
      BY <3>2 DEF ReadersOwed
  <2> QED
    BY <1>6, <2>1, <2>2, <2>3, <2>4 DEF WriteStep
<1>7. ASSUME CloseRead \/ Duplicate \/ \E p \in Tasks : Signal(p)
      PROVE  ReadersOwed'
  <2>1. /\ pc' = pc /\ waited' = waited /\ writers' \in {writers, writers + 1}
        /\ (Available' => Available)
    BY <1>7 DEF CloseRead, Duplicate, Signal, Available, ends, TypeOK
  <2>2. wq'.blocked \subseteq wq.blocked
    <3>1. WakeAll(wq, "write").blocked \subseteq wq.blocked
      BY QueueMoves DEF Ends
    <3>2. ASSUME NEW p \in Tasks PROVE Interrupt(wq, p).blocked \subseteq wq.blocked
      BY SignalWakes
    <3>3. wq' = wq \/ wq' = WakeAll(wq, "write") \/ \E p \in Tasks : wq' = Interrupt(wq, p)
      BY <1>7, Zenon DEF CloseRead, Duplicate, Signal
    <3> QED
      BY ONLY <3>1, <3>2, <3>3
  <2>3. \A t \in Tasks : HoldsWake(t) => HoldsWake(t)'
    BY <2>1, <2>2 DEF HoldsWake, At
  <2>4. writers \in Nat
    BY DEF TypeOK
  <2> QED
    BY <2>1, <2>2, <2>3, <2>4, SMTT(30) DEF ReadersOwed
<1>8. ASSUME CloseWrite
      PROVE  ReadersOwed'
  <2>1. wq' = WakeAll(wq, "read")
    BY <1>8 DEF CloseWrite
  <2>2. wq'.blocked \cap Readers = {}
    BY <1>0, <2>1, QueueMoves DEF Ends
  <2> QED
    BY <2>2 DEF ReadersOwed
<1> QED
  BY <1>5, <1>6, <1>7, <1>8 DEF Next

(* Every step keeps a sleeping writer owed its wake: room is made by a commit
   only, whose reader then wakes all writers, and the last reader wakes them too. *)
LEMMA WritersOwedStep ==
  ASSUME TypeOK, Places, Queued, WritersOwed, Next
  PROVE  WritersOwed'
<1>0. /\ wq.blocked \cap Readers \subseteq Entries(wq, "read")
      /\ wq.blocked \cap Writers \subseteq Entries(wq, "write")
      /\ \A p \in Entries(wq, "read") : p \in Readers /\ pc[p] = "rsleep"
      /\ \A p \in Entries(wq, "write") : p \in Writers /\ pc[p] = "wsleep"
      /\ wq.blocked \subseteq Tasks
  BY SleepersPlaced
<1>1. ASSUME NEW p \in Tasks, pc[p] \notin {"rwake", "wsleep"},
             \A x \in Tasks \ {p} : pc'[x] = pc[x] /\ size'[x] = size[x],
             readers' \in {readers, readers + 1}, Len(buf') \in Nat, Len(buf') >= Len(buf),
             wq'.blocked \cap Writers \subseteq wq.blocked
      PROVE  WritersOwed'
  <2> SUFFICES ASSUME NEW r \in wq'.blocked \cap Writers
               PROVE  readers' > 0 /\ (Room(r)' => \E t \in Readers : At(t, "rwake")')
    BY DEF WritersOwed
  <2>1. readers > 0 /\ (Room(r) => \E t \in Readers : At(t, "rwake")) /\ pc[r] = "wsleep"
    BY <1>0, <1>1 DEF WritersOwed
  <2>2. Room(r)' => Room(r)
    <3>0. r \in Tasks \ {p}
      BY <1>1, <2>1 DEF Tasks
    <3>1. size'[r] = size[r] /\ Len(buf) \in Nat /\ size[r] \in Nat
      BY <1>1, <3>0, SMTT(30) DEF TypeOK
    <3> QED
      BY <1>1, <3>1, SizeAssumption, SMTT(30) DEF Room, Space, Atomic
  <2>3. \A t \in Readers : At(t, "rwake") => At(t, "rwake")'
    BY <1>1 DEF At, Tasks
  <2>4. readers \in Nat
    BY DEF TypeOK
  <2>5. readers' > 0
    BY <1>1, <2>1, <2>4, SMTT(30)
  <2> QED
    BY <2>1, <2>2, <2>3, <2>5
<1>2. ASSUME wq' = WakeAll(wq, "write")
      PROVE  WritersOwed'
  <2>1. wq'.blocked \cap Writers = {}
    BY <1>0, <1>2, QueueMoves DEF Ends
  <2> QED
    BY <2>1 DEF WritersOwed
<1>3. ASSUME NEW p \in Readers, ReadStep(p) \/ \E n \in ReadSizes : Read(p, n)
      PROVE  WritersOwed'
  <2>0. p \in Tasks /\ p \notin Writers
    BY TaskAssumption DEF Tasks
  <2>1. CASE WakeWriters(p) \/ ReadReturns(p)
    BY <1>2, <2>1 DEF WakeWriters, ReadReturns
  <2>2. CASE Commit(p)
    <3>1. At(p, "rwake")' /\ wq' = wq /\ readers' = readers
      BY <2>0, <2>2 DEF Commit, Goto, At, TypeOK, ends
    <3> QED
      BY <3>1 DEF WritersOwed
  <2>3. CASE \/ ReadAborts(p) \/ BeginRead(p) \/ ReadEof(p) \/ ReadWouldBlock(p)
             \/ ReadNoCapacity(p) \/ ReadArms(p) \/ ReadResumes(p) \/ CommitFails(p)
             \/ WakeReader(p) \/ PassOn(p) \/ PassWake(p) \/ \E n \in ReadSizes : Read(p, n)
    <3>1. /\ buf' = buf /\ readers' \in {readers, readers + 1} /\ pc[p] # "rwake"
          /\ size' = size \/ \E n \in ReadSizes : size' = [size EXCEPT ![p] = n]
      BY <2>3 DEF ReadAborts, BeginRead, ReadEof, ReadWouldBlock, ReadNoCapacity, ReadArms,
                  ReadResumes, CommitFails, WakeReader, PassOn, PassWake, Read, Looks, At,
                  ends
    <3>2. \E l : Goto(p, l)
      BY <2>3 DEF ReadAborts, BeginRead, ReadEof, ReadWouldBlock, ReadNoCapacity, ReadArms,
                  ReadResumes, CommitFails, WakeReader, PassOn, PassWake, Read
    <3>3. \A x \in Tasks \ {p} : pc'[x] = pc[x] /\ size'[x] = size[x]
      BY <3>1, <3>2 DEF Goto, TypeOK
    <3>4. pc[p] # "wsleep"
      BY DEF Places, ReadLocations
    <3>5. Arm(wq, "read", p).blocked \cap Writers \subseteq wq.blocked
      BY <2>0 DEF Arm
    <3>6. WakeOne(wq, "read").blocked \subseteq wq.blocked
      BY QueueMoves DEF Ends
    <3>7. ReadResumes(p) => wq'.blocked \subseteq wq.blocked
      BY Resumes
    <3>8. wq'.blocked \cap Writers \subseteq wq.blocked
      <4>1. \/ wq' = wq \/ wq' = Arm(wq, "read", p) \/ wq' = WakeOne(wq, "read")
            \/ ReadResumes(p)
        BY <2>3, Zenon
           DEF ReadAborts, BeginRead, ReadEof, ReadWouldBlock, ReadNoCapacity, ReadArms,
               CommitFails, WakeReader, PassOn, PassWake, Read
      <4> QED
        BY <3>5, <3>6, <3>7, <4>1
    <3>9. Len(buf') \in Nat /\ Len(buf') >= Len(buf)
      BY <3>1, SMTT(30) DEF TypeOK
    <3> QED
      BY <1>1, <2>0, <3>1, <3>3, <3>4, <3>8, <3>9
  <2> QED
    BY <1>3, <2>1, <2>2, <2>3 DEF ReadStep
<1>4. ASSUME NEW p \in Writers, WriteStep(p) \/ \E n \in WriteSizes : Write(p, n)
      PROVE  WritersOwed'
  <2>0. p \in Tasks /\ p \notin Readers
    BY TaskAssumption DEF Tasks
  <2>1. CASE \/ WriteEnds(p) \/ WriteCopies(p) \/ WriteWakes(p) \/ WriteWouldBlock(p)
             \/ WriteRetriesCapacity(p) \/ WriteReturns(p) \/ \E n \in WriteSizes : Write(p, n)
    <3>1. /\ readers' = readers /\ pc[p] \notin {"rwake", "wsleep"}
          /\ size' = size \/ \E n \in Nat : size' = [size EXCEPT ![p] = n]
      BY <2>1, SizeAssumption
         DEF WriteEnds, WriteCopies, WriteWakes, WriteWouldBlock, WriteRetriesCapacity,
             WriteReturns, Write, Examines, At, ends
    <3>2. \E l : Goto(p, l)
      BY <2>1 DEF WriteEnds, WriteCopies, WriteWakes, WriteWouldBlock, WriteRetriesCapacity,
                  WriteReturns, Write
    <3>3. \A x \in Tasks \ {p} : pc'[x] = pc[x] /\ size'[x] = size[x]
      BY <3>1, <3>2 DEF Goto, TypeOK
    <3>4. wq'.blocked \subseteq wq.blocked
      <4>1. "read" \in Ends
        BY DEF Ends
      <4>2. /\ WakeOne(wq, "read").blocked \subseteq wq.blocked
            /\ WakeAll(wq, "read").blocked = wq.blocked \ Entries(wq, "read")
        BY <4>1, QueueMoves
      <4>3. wq' = wq \/ wq' = WakeOne(wq, "read") \/ wq' = WakeAll(wq, "read")
        BY <2>1, Zenon
           DEF WriteEnds, WriteCopies, WriteWakes, WriteWouldBlock, WriteRetriesCapacity,
               WriteReturns, Write
      <4> QED
        BY ONLY <4>2, <4>3
    <3>5. Len(buf') \in Nat /\ Len(buf') >= Len(buf)
      <4>1. CASE WriteCopies(p)
        <5>1. Put(p) /\ pc[p] \in {"wtop", "wprep"}
          BY <4>1 DEF WriteCopies, Examines, At
        <5> QED
          BY <5>1, PutGrows DEF At
      <4>2. CASE ~WriteCopies(p)
        <5>1. buf' = buf
          BY <2>1, <4>2 DEF WriteEnds, WriteWakes, WriteWouldBlock, WriteRetriesCapacity,
                            WriteReturns, Write
        <5> QED
          BY <5>1, SMTT(30) DEF TypeOK
      <4> QED
        BY <4>1, <4>2
    <3> QED
      BY <1>1, <2>0, <3>1, <3>3, <3>4, <3>5
  <2>2. CASE WriteResumes(p)
    <3>1. /\ readers' = readers /\ buf' = buf /\ size' = size /\ Goto(p, "wtop")
          /\ At(p, "wsleep")
      BY <2>2 DEF WriteResumes, ends
    <3>2. wq'.blocked \subseteq wq.blocked
      BY <2>2, Resumes
    <3>3. \A t \in Readers : At(t, "rwake") => At(t, "rwake")'
      BY <2>0, <3>1 DEF Goto, At, TypeOK, Tasks
    <3> QED
      BY <3>1, <3>2, <3>3 DEF WritersOwed, Room, Space, Atomic
  <2>3. CASE WriteArms(p) \/ WriteCopiesAndArms(p)
    <3>1. /\ readers' = readers /\ readers > 0 /\ At(p, "wprep") /\ size' = size
      BY <2>3 DEF WriteArms, WriteCopiesAndArms, ends
    <3>2. \E l : Goto(p, l)
      BY <2>3 DEF WriteArms, WriteCopiesAndArms, ArmWriter
    <3>3. \A x \in Tasks \ {p} : pc'[x] = pc[x] /\ size'[x] = size[x]
      BY <3>1, <3>2 DEF Goto, TypeOK
    <3>4. Len(buf') \in Nat /\ Len(buf') >= Len(buf)
      <4>1. CASE WriteCopiesAndArms(p)
        BY <4>1, <3>1, PutGrows DEF WriteCopiesAndArms, At
      <4>2. CASE WriteArms(p)
        BY <4>2, SMTT(30) DEF WriteArms, TypeOK
      <4> QED
        BY <2>3, <4>1, <4>2
    <3>5. wq'.blocked \subseteq wq.blocked \union {p}
      <4>1. WakeOne(wq, "read").blocked \subseteq wq.blocked
        BY QueueMoves DEF Ends
      <4>2. \A w : Arm(w, "write", p).blocked = w.blocked \union {p}
        BY DEF Arm
      <4>3. \/ wq' = wq \/ wq' = WakeOne(wq, "read") \/ wq' = Arm(wq, "write", p)
            \/ wq' = Arm(WakeOne(wq, "read"), "write", p)
        BY <2>3 DEF WriteArms, WriteCopiesAndArms, ArmWriter
      <4> QED
        BY ONLY <4>1, <4>2, <4>3
    <3>6. CASE p \notin wq'.blocked
      BY <1>1, <2>0, <3>1, <3>3, <3>4, <3>5, <3>6 DEF At
    <3>7. CASE p \in wq'.blocked
      <4> SUFFICES ASSUME NEW r \in wq'.blocked \cap Writers
                   PROVE  readers' > 0 /\ (Room(r)' => \E t \in Readers : At(t, "rwake")')
        BY DEF WritersOwed
      <4>1. CASE r = p
        <5>1. ~Room(p)'
          <6>1. CASE WriteArms(p)
            BY <6>1 DEF WriteArms, Room, Space, Atomic
          <6>2. CASE WriteCopiesAndArms(p)
            <7>1. p \notin wq.blocked
              BY <1>0, <2>0, <3>1 DEF At
            <7>2. p \notin WakeOne(wq, "read").blocked
              BY <7>1, QueueMoves DEF Ends
            <7>3. ~Written(p) /\ ~Atomic(size[p]) /\ Put(p)
              BY <6>2, <7>2, <3>7, Zenon DEF WriteCopiesAndArms
            <7>4. Len(buf') = Len(buf) + Piece(p) /\ Len(buf) \in Nat
              BY <3>1, <7>3, PutGrows DEF At
            <7>5. size[p] \in Nat /\ total[p] \in Nat
              BY <2>0 DEF TypeOK
            <7>6. Len(buf') = Capacity
              BY <7>3, <7>4, <7>5, SizeAssumption, SMTT(30) DEF Written, Piece, Space, Min2
            <7> QED
              BY <3>1, <7>3, <7>6, SizeAssumption, SMTT(30) DEF Room, Space, Atomic
          <6> QED
            BY <2>3, <6>1, <6>2
        <5> QED
          BY <3>1, <4>1, <5>1
      <4>2. CASE r # p
        <5>1. r \in wq.blocked /\ r \in Tasks
          BY <3>5, <4>2 DEF Tasks
        <5>2. Room(r) => \E t \in Readers : At(t, "rwake")
          BY <5>1 DEF WritersOwed
        <5>3. size'[r] = size[r] /\ Len(buf) \in Nat /\ size[r] \in Nat
          <6>1. Len(buf) \in Nat /\ size[r] \in Nat
            BY <5>1, SMTT(30) DEF TypeOK
          <6> QED
            BY ONLY <3>3, <4>2, <5>1, <6>1
        <5>4. Room(r)' => Room(r)
          BY <3>4, <5>3, SizeAssumption, SMTT(30) DEF Room, Space, Atomic
        <5>5. \A t \in Readers : At(t, "rwake") => At(t, "rwake")'
          BY <2>0, <3>3 DEF At, Tasks
        <5> QED
          BY <3>1, <5>2, <5>4, <5>5
      <4> QED
        BY <4>1, <4>2
    <3> QED
      BY <3>6, <3>7
  <2> QED
    BY <1>4, <2>1, <2>2, <2>3 DEF WriteStep
<1>5. ASSUME CloseWrite \/ Duplicate \/ \E p \in Tasks : Signal(p)
      PROVE  WritersOwed'
  <2>1. /\ pc' = pc /\ size' = size /\ buf' = buf /\ readers' \in {readers, readers + 1}
    BY <1>5 DEF CloseWrite, Duplicate, Signal, ends
  <2>2. wq'.blocked \subseteq wq.blocked
    <3>1. WakeAll(wq, "read").blocked \subseteq wq.blocked
      BY QueueMoves DEF Ends
    <3>2. ASSUME NEW p \in Tasks PROVE Interrupt(wq, p).blocked \subseteq wq.blocked
      BY SignalWakes
    <3>3. wq' = wq \/ wq' = WakeAll(wq, "read") \/ \E p \in Tasks : wq' = Interrupt(wq, p)
      BY <1>5, Zenon DEF CloseWrite, Duplicate, Signal
    <3> QED
      BY ONLY <3>1, <3>2, <3>3
  <2>3. readers \in Nat
    BY DEF TypeOK
  <2> QED
    BY <2>1, <2>2, <2>3, SMTT(30) DEF WritersOwed, Room, Space, Atomic, At
<1> QED
  BY <1>2, <1>3, <1>4, <1>5 DEF Next, CloseRead

------------------------------------------------------------------------------
IInv == TypeOK /\ Places /\ Queued /\ ReadersOwed /\ WritersOwed

(* The inductive invariant holds in every reachable state, for any number of
   readers and writers, any capacity and any sizes. *)
THEOREM Inductive == Spec => []IInv
<1>1. Init => IInv
  <2> SUFFICES ASSUME Init PROVE IInv
    OBVIOUS
  <2>1. wq.blocked = {}
    BY DEF Init
  <2>2. ReadersOwed /\ WritersOwed
    BY <2>1 DEF ReadersOwed, WritersOwed
  <2> QED
    BY <2>2, InitTyped DEF IInv
<1>2. IInv /\ [Next]_vars => IInv'
  <2> SUFFICES ASSUME IInv, [Next]_vars PROVE IInv'
    OBVIOUS
  <2>1. CASE Next
    BY <2>1, QueuedStep, PlacesStep, ReadersOwedStep, WritersOwedStep
       DEF IInv
  <2>2. CASE UNCHANGED vars
    <3>1. TypeOK' /\ Places'
      BY <2>2 DEF IInv, vars, TypeOK, Places, WritePlace, At, Atomic
    <3>2. Queued'
      BY <2>2 DEF IInv, vars, Queued, May, At
    <3>3. ReadersOwed' /\ WritersOwed'
      BY <2>2 DEF IInv, vars, ReadersOwed, WritersOwed, HoldsWake, Available, Room, Space,
                  Atomic, At
    <3> QED
      BY <3>1, <3>2, <3>3 DEF IInv
  <2> QED
    BY <2>1, <2>2
<1> QED
  BY <1>1, <1>2, PTL DEF Spec

(* TypeOK holds for every instance; in it, that PipeInner::write never fills the
   ring beyond its capacity. *)
THEOREM PipeTyped == Spec => []TypeOK
<1>1. IInv => TypeOK
  BY DEF IInv
<1> QED
  BY <1>1, Inductive, PTL

(* SleepersQueued for every instance: a waker finds every task that sleeps in
   read or write, and finds it once. *)
THEOREM SleepersFound == Spec => []SleepersQueued
<1>1. IInv => SleepersQueued
  <2> SUFFICES ASSUME IInv PROVE SleepersQueued
    OBVIOUS
  <2>1. /\ wq.blocked \cap Readers \subseteq Entries(wq, "read")
        /\ wq.blocked \cap Writers \subseteq Entries(wq, "write")
    BY SleepersPlaced DEF IInv
  <2>2. \A p \in Tasks : Asleep(p) => p \in wq.blocked
    BY DEF Asleep, Resolved
  <2>3. Once(wq.queue["read"]) /\ Once(wq.queue["write"])
    BY DEF IInv, Queued, QueuesOK, Ends
  <2> QED
    BY <2>1, <2>2, <2>3 DEF SleepersQueued, Once, Tasks
<1> QED
  BY <1>1, Inductive, PTL

(* NoLostWakeup for every instance: read's and write's prepare, recheck, sleep
   loops never leave a task asleep that no task is going to wake. *)
THEOREM WakesArrive == Spec => []NoLostWakeup
<1>1. IInv => NoLostWakeup
  <2> SUFFICES ASSUME IInv, \A p \in Tasks : Asleep(p) \/ At(p, "idle")
               PROVE  /\ \A p \in Readers : Asleep(p) => ~Available /\ writers > 0
                      /\ \A p \in Writers : Asleep(p) => ~Room(p) /\ readers > 0
    BY DEF NoLostWakeup
  <2>1. \A p \in Tasks : Asleep(p) => p \in wq.blocked /\ pc[p] \in {"rsleep", "wsleep"}
    BY DEF Asleep, Resolved
  <2>2. \A t \in Tasks : ~HoldsWake(t) /\ ~At(t, "rwake")
    BY <2>1 DEF HoldsWake, At
  <2> QED
    BY <2>1, <2>2 DEF IInv, ReadersOwed, WritersOwed, Tasks
<1> QED
  BY <1>1, Inductive, PTL

------------------------------------------------------------------------------
\* The counts and the ring, on top of that invariant.
ReadCalls == {p \in Readers : InCall(p)}
WriteCalls == {p \in Writers : InCall(p)}
EndsOK == IsFiniteSet(ReadCalls) /\ IsFiniteSet(WriteCalls) /\ EndsCounted

(* A new pipe counts one descriptor per end and no call. *)
LEMMA InitEnds == Init => EndsOK
<1> SUFFICES ASSUME Init PROVE EndsOK
  OBVIOUS
<1>1. ReadCalls = {} /\ WriteCalls = {}
  BY DEF Init, ReadCalls, WriteCalls, InCall, At, Tasks
<1>2. IsFiniteSet({}) /\ Cardinality({}) = 0
  BY FS_EmptySet
<1>3. readers = 1 /\ writers = 1 /\ rfd = 1 /\ wfd = 1
  BY DEF Init
<1>4. readers = rfd + Cardinality(ReadCalls) /\ writers = wfd + Cardinality(WriteCalls)
  BY <1>1, <1>2, <1>3, SMTT(30)
<1> QED
  BY <1>1, <1>2, <1>4 DEF EndsOK, EndsCounted, ReadCalls, WriteCalls

(* Every step keeps the reader and writer counts equal to the descriptors plus
   the calls in progress: duplicate, drop and the per-call clones balance. *)
LEMMA EndsStep ==
  ASSUME TypeOK, Places, EndsOK, Next
  PROVE  EndsOK'
<1> DEFINE R == ReadCalls
           W == WriteCalls
<1>1. /\ readers = rfd + Cardinality(R) /\ writers = wfd + Cardinality(W)
      /\ IsFiniteSet(R) /\ IsFiniteSet(W)
  BY DEF EndsOK, EndsCounted, ReadCalls, WriteCalls
<1>2. Cardinality(R) \in Nat /\ Cardinality(W) \in Nat /\ rfd \in Nat /\ wfd \in Nat
  BY <1>1, FS_CardinalityType, SMTT(30) DEF TypeOK
<1>3. ASSUME /\ readers' = rfd' + Cardinality(R') /\ writers' = wfd' + Cardinality(W')
             /\ IsFiniteSet(R') /\ IsFiniteSet(W')
      PROVE  EndsOK'
  BY <1>3 DEF EndsOK, EndsCounted, ReadCalls, WriteCalls
<1>4. ASSUME NEW p \in Tasks, pc[p] # "idle", ends' = ends,
             \E l \in Locations \ {"idle"} : Goto(p, l)
      PROVE  EndsOK'
  <2>1. R' = R /\ W' = W
    BY <1>4 DEF ReadCalls, WriteCalls, InCall, At, Goto, TypeOK, Tasks
  <2>2. readers' = readers /\ writers' = writers /\ rfd' = rfd /\ wfd' = wfd
    BY <1>4 DEF ends
  <2> HIDE DEF R, W
  <2> QED
    BY <1>1, <1>3, <2>1, <2>2
<1>5. ASSUME NEW p \in Readers, ReadStep(p) \/ \E n \in ReadSizes : Read(p, n)
      PROVE  EndsOK'
  <2>1. CASE ReadReturns(p)
    <3>1. R' = R \ {p} /\ W' = W /\ p \in R
      BY <2>1, TaskAssumption
         DEF ReadReturns, ReadCalls, WriteCalls, InCall, At, Goto, TypeOK, Tasks
    <3>2. IsFiniteSet(R') /\ Cardinality(R') = Cardinality(R) - 1
      BY <1>1, <3>1, FS_RemoveElement
    <3>3. readers' = Less(readers) /\ writers' = writers /\ rfd' = rfd /\ wfd' = wfd
      BY <2>1 DEF ReadReturns
    <3>4. Cardinality(R') \in Nat
      BY <3>2, FS_CardinalityType
    <3> HIDE DEF R, W
    <3>5. readers' = rfd' + Cardinality(R')
      BY <1>1, <1>2, <3>2, <3>3, <3>4, SMTT(30) DEF Less
    <3> QED
      BY <1>1, <1>3, <3>1, <3>2, <3>3, <3>5
  <2>2. CASE \E n \in ReadSizes : Read(p, n)
    <3>1. R' = R \union {p} /\ W' = W /\ p \notin R
      BY <2>2, TaskAssumption, SMTT(30)
         DEF Read, ReadCalls, WriteCalls, InCall, At, Goto, TypeOK, Tasks
    <3>2. IsFiniteSet(R') /\ Cardinality(R') = Cardinality(R) + 1
      BY <1>1, <3>1, FS_AddElement
    <3>3. readers' = readers + 1 /\ writers' = writers /\ rfd' = rfd /\ wfd' = wfd
      BY <2>2 DEF Read
    <3> HIDE DEF R, W
    <3> QED
      BY <1>1, <1>2, <1>3, <3>1, <3>2, <3>3, SMTT(30)
  <2>3. CASE ~ReadReturns(p) /\ ReadStep(p)
    <3>1. pc[p] # "idle" /\ ends' = ends
      BY <2>3 DEF ReadStep, ReadAborts, BeginRead, ReadEof, ReadWouldBlock, ReadNoCapacity,
                  ReadArms, ReadResumes, Commit, CommitFails, WakeWriters, WakeReader, PassOn,
                  PassWake, Looks, At, ends
    <3>2. \E l \in Locations \ {"idle"} : Goto(p, l)
      BY <2>3 DEF ReadStep, ReadAborts, BeginRead, ReadEof, ReadWouldBlock, ReadNoCapacity,
                  ReadArms, ReadResumes, Commit, CommitFails, WakeWriters, WakeReader, PassOn,
                  PassWake, GivesUp, Locations
    <3> QED
      BY <1>4, <3>1, <3>2 DEF Tasks
  <2> QED
    BY <1>5, <2>1, <2>2, <2>3
<1>6. ASSUME NEW p \in Writers, WriteStep(p) \/ \E n \in WriteSizes : Write(p, n)
      PROVE  EndsOK'
  <2>1. CASE WriteReturns(p)
    <3>1. W' = W \ {p} /\ R' = R /\ p \in W
      BY <2>1, TaskAssumption
         DEF WriteReturns, ReadCalls, WriteCalls, InCall, At, Goto, TypeOK, Tasks
    <3>2. IsFiniteSet(W') /\ Cardinality(W') = Cardinality(W) - 1
      BY <1>1, <3>1, FS_RemoveElement
    <3>3. writers' = Less(writers) /\ readers' = readers /\ rfd' = rfd /\ wfd' = wfd
      BY <2>1 DEF WriteReturns
    <3>4. Cardinality(W') \in Nat
      BY <3>2, FS_CardinalityType
    <3> HIDE DEF R, W
    <3>5. writers' = wfd' + Cardinality(W')
      BY <1>1, <1>2, <3>2, <3>3, <3>4, SMTT(30) DEF Less
    <3> QED
      BY <1>1, <1>3, <3>1, <3>2, <3>3, <3>5
  <2>2. CASE \E n \in WriteSizes : Write(p, n)
    <3>1. W' = W \union {p} /\ R' = R /\ p \notin W
      BY <2>2, TaskAssumption, SMTT(30)
         DEF Write, ReadCalls, WriteCalls, InCall, At, Goto, TypeOK, Tasks
    <3>2. IsFiniteSet(W') /\ Cardinality(W') = Cardinality(W) + 1
      BY <1>1, <3>1, FS_AddElement
    <3>3. writers' = writers + 1 /\ readers' = readers /\ rfd' = rfd /\ wfd' = wfd
      BY <2>2 DEF Write
    <3> HIDE DEF R, W
    <3> QED
      BY <1>1, <1>2, <1>3, <3>1, <3>2, <3>3, SMTT(30)
  <2>3. CASE ~WriteReturns(p) /\ WriteStep(p)
    <3>1. pc[p] # "idle" /\ ends' = ends
      BY <2>3 DEF WriteStep, WriteEnds, WriteCopies, WriteWakes, WriteWouldBlock,
                  WriteRetriesCapacity, WriteArms, WriteCopiesAndArms, WriteResumes,
                  Examines, At, ends
    <3>2. \E l \in Locations \ {"idle"} : Goto(p, l)
      BY <2>3 DEF WriteStep, WriteEnds, WriteCopies, WriteWakes, WriteWouldBlock,
                  WriteRetriesCapacity, WriteArms, WriteCopiesAndArms, WriteResumes,
                  ArmWriter, Locations
    <3> QED
      BY <1>4, <3>1, <3>2 DEF Tasks
  <2> QED
    BY <1>6, <2>1, <2>2, <2>3
<1>7. ASSUME CloseRead \/ CloseWrite \/ Duplicate \/ \E p \in Tasks : Signal(p)
      PROVE  EndsOK'
  <2>1. R' = R /\ W' = W
    BY <1>7 DEF CloseRead, CloseWrite, Duplicate, Signal, ReadCalls, WriteCalls, InCall, At
  <2> HIDE DEF R, W
  <2>2. readers' = rfd' + Cardinality(R) /\ writers' = wfd' + Cardinality(W)
    BY <1>1, <1>2, <1>7, SMTT(30) DEF CloseRead, CloseWrite, Duplicate, Signal, Less, ends
  <2> QED
    BY <1>1, <1>3, <2>1, <2>2
<1> QED
  BY <1>5, <1>6, <1>7 DEF Next

------------------------------------------------------------------------------
\* One reader at a time copies out, and what it has is the front of the ring.
Reserved ==
    /\ \A p \in Readers : At(p, "commit") =>
           /\ inflight /\ Len(dst[p]) <= Len(buf)
           /\ \A i \in 1 .. Len(dst[p]) : dst[p][i] = buf[i]
    /\ \A p, r \in Readers : At(p, "commit") /\ At(r, "commit") => p = r

\* The bytes of a call in progress: they carry its number, which no other call
\* has, and the last of them is the last one the call has written.
CallsInOrder(d) ==
    /\ \A p, r \in Writers : ~At(p, "idle") /\ ~At(r, "idle") /\ call[p] = call[r] => p = r
    /\ \A i \in 1 .. Len(d) : d[i][1] <= writes
    /\ \A p \in Writers : ~At(p, "idle") =>
           \A i \in 1 .. Len(d) : d[i][1] = call[p] => d[i][2] <= total[p]
    /\ \A p \in Writers : total[p] # 0 =>
           \E i \in 1 .. Len(d) : d[i] = <<call[p], total[p], size[p]>>

InOrder(d) ==
    \A j \in 1 .. Len(d) :
        /\ \A i \in 1 .. j - 1 : d[i][1] = d[j][1] => d[i][2] < d[j][2]
        /\ d[j][2] # 1 => \E i \in 1 .. j - 1 : d[i] = <<d[j][1], d[j][2] - 1, d[j][3]>>

Whole(d) ==
    \A i \in 1 .. Len(d) : Atomic(d[i][3]) /\ d[i][2] = 1 =>
        \A k \in 1 .. d[i][3] : /\ i + k - 1 <= Len(d)
                                /\ d[i + k - 1] = <<d[i][1], k, d[i][3]>>

DataOK == CallsInOrder(Delivered) /\ InOrder(Delivered) /\ Whole(Delivered)

(* The bytes read so far and the bytes in the ring are one sequence. *)
LEMMA DeliveredTyped ==
  ASSUME TypeOK
  PROVE  /\ Delivered \in Seq(Byte) /\ Len(Delivered) \in Nat
         /\ DOMAIN Delivered = 1 .. Len(Delivered)
         /\ \A i \in 1 .. Len(Delivered) : Delivered[i] \in Byte
<1>1. stream \in Seq(Byte) /\ buf \in Seq(Byte)
  BY DEF TypeOK
<1>2. Delivered \in Seq(Byte)
  BY <1>1, Joined DEF Delivered
<1> QED
  BY <1>2, SMTT(30)

(* Every step keeps the reservation: while one reader copies out, no other
   does, and writers only add behind what it copies. *)
LEMMA ReservedStep ==
  ASSUME TypeOK, Places, Reserved, Next
  PROVE  Reserved'
<1>1. ASSUME NEW p \in Tasks, pc[p] # "commit" \/ p \notin Readers, buf' = buf,
             inflight' = inflight, \A x \in Readers \ {p} : dst'[x] = dst[x],
             \E l \in Locations \ {"commit"} : Goto(p, l)
      PROVE  Reserved'
  <2>1. \A x \in Readers : At(x, "commit")' => At(x, "commit") /\ x # p
    BY <1>1 DEF Goto, TypeOK, Tasks, At
  <2> QED
    BY <1>1, <2>1, SMTT(30) DEF Reserved
<1>2. ASSUME NEW p \in Readers, BeginRead(p)
      PROVE  Reserved'
  <2> DEFINE n == Min2(size[p], Len(buf))
  <2>1. \A x \in Readers : ~At(x, "commit")
    BY <1>2 DEF BeginRead, Available, Reserved
  <2>2. \A x \in Readers : At(x, "commit")' => x = p
    BY <1>2, <2>1 DEF BeginRead, Goto, At, TypeOK, Tasks
  <2>3. n \in Nat /\ n <= Len(buf) /\ buf \in Seq(Byte)
    BY SMTT(30) DEF Min2, TypeOK, Tasks
  <2>4. dst'[p] = SubSeq(buf, 1, n) /\ buf' = buf /\ inflight'
    BY <1>2 DEF BeginRead, TypeOK, Tasks
  <2> HIDE DEF n
  <2>5. Len(SubSeq(buf, 1, n)) = n /\ \A i \in 1 .. n : SubSeq(buf, 1, n)[i] = buf[i]
    BY <2>3, SMTT(30)
  <2> QED
    BY <2>2, <2>3, <2>4, <2>5 DEF Reserved
<1>3. ASSUME NEW p \in Readers, Commit(p) \/ CommitFails(p)
      PROVE  Reserved'
  <2>1. At(p, "commit") /\ \E l \in {"rwake", "rfail"} : Goto(p, l)
    BY <1>3 DEF Commit, CommitFails
  <2>2. \A x \in Readers : ~At(x, "commit")'
    BY <2>1 DEF Reserved, Goto, TypeOK, Tasks, At
  <2> QED
    BY <2>2 DEF Reserved
<1>4. ASSUME NEW p \in Readers,
             \/ ReadAborts(p) \/ ReadEof(p) \/ ReadWouldBlock(p) \/ ReadNoCapacity(p)
             \/ ReadArms(p) \/ ReadResumes(p) \/ WakeWriters(p) \/ WakeReader(p)
             \/ PassOn(p) \/ PassWake(p) \/ ReadReturns(p) \/ \E n \in ReadSizes : Read(p, n)
      PROVE  Reserved'
  <2>1. /\ buf' = buf /\ inflight' = inflight /\ pc[p] # "commit"
        /\ dst' = dst \/ dst' = [dst EXCEPT ![p] = << >>]
    BY <1>4 DEF ReadAborts, ReadEof, ReadWouldBlock, ReadNoCapacity, ReadArms, ReadResumes,
                WakeWriters, WakeReader, PassOn, PassWake, ReadReturns, Read, Looks, At
  <2>2. \E l \in Locations \ {"commit"} : Goto(p, l)
    BY <1>4 DEF ReadAborts, ReadEof, ReadWouldBlock, ReadNoCapacity, ReadArms, ReadResumes,
                WakeWriters, WakeReader, PassOn, PassWake, ReadReturns, Read, GivesUp,
                Locations
  <2>3. \A x \in Readers \ {p} : dst'[x] = dst[x]
    BY <2>1 DEF TypeOK, Tasks
  <2> QED
    BY <1>1, <2>1, <2>2, <2>3 DEF Tasks
<1>5. ASSUME NEW p \in Writers,
             \/ WriteEnds(p) \/ WriteWakes(p) \/ WriteWouldBlock(p) \/ WriteArms(p)
             \/ WriteRetriesCapacity(p) \/ WriteResumes(p) \/ WriteReturns(p)
             \/ \E n \in WriteSizes : Write(p, n)
      PROVE  Reserved'
  <2>1. buf' = buf /\ inflight' = inflight /\ dst' = dst
    BY <1>5 DEF WriteEnds, WriteWakes, WriteWouldBlock, WriteArms, WriteRetriesCapacity,
                WriteResumes, WriteReturns, Write
  <2>2. \E l \in Locations \ {"commit"} : Goto(p, l)
    BY <1>5 DEF WriteEnds, WriteWakes, WriteWouldBlock, WriteArms, WriteRetriesCapacity,
                WriteResumes, WriteReturns, Write, ArmWriter, Locations
  <2> QED
    BY <1>1, <2>1, <2>2, TaskAssumption DEF Tasks
<1>6. ASSUME NEW p \in Writers, WriteCopies(p) \/ WriteCopiesAndArms(p)
      PROVE  Reserved'
  <2>1. inflight' = inflight /\ dst' = dst /\ Put(p) /\ ~At(p, "idle")
    BY <1>6 DEF WriteCopies, WriteCopiesAndArms, Examines, At
  <2>2. \E l \in Locations \ {"commit"} : Goto(p, l)
    BY <1>6 DEF WriteCopies, WriteCopiesAndArms, ArmWriter, Locations
  <2>3. \A x \in Readers : At(x, "commit")' => At(x, "commit")
    BY <2>2, TaskAssumption DEF Goto, TypeOK, Tasks, At
  <2>4. /\ Len(buf) \in Nat /\ Len(buf') \in Nat /\ Len(buf') >= Len(buf)
        /\ \A i \in 1 .. Len(buf) : buf'[i] = buf[i]
    BY <2>1, PutGrows
  <2>5. \A x \in Readers : Len(dst[x]) \in Nat
    BY SMTT(30) DEF TypeOK, Tasks
  <2>6. ASSUME NEW x \in Readers, At(x, "commit")'
        PROVE  /\ inflight' /\ Len(dst'[x]) <= Len(buf')
               /\ \A i \in 1 .. Len(dst'[x]) : dst'[x][i] = buf'[i]
    BY <2>1, <2>3, <2>4, <2>5, <2>6, SMTT(30) DEF Reserved
  <2> QED
    BY <2>3, <2>6 DEF Reserved
<1>7. ASSUME CloseRead \/ CloseWrite \/ Duplicate \/ \E p \in Tasks : Signal(p)
      PROVE  Reserved'
  BY <1>7, SMTT(30) DEF CloseRead, CloseWrite, Duplicate, Signal, Reserved, At
<1> QED
  BY <1>2, <1>3, <1>4, <1>5, <1>6, <1>7 DEF Next, ReadStep, WriteStep

\* Consuming the prefix moves the border between what was read and what is left.
LEMMA PrefixMoves ==
  ASSUME NEW S, NEW a \in Seq(S), NEW s \in Seq(S), NEW u \in Seq(S),
         Len(u) <= Len(s), \A i \in 1 .. Len(u) : u[i] = s[i]
  PROVE  (a \o u) \o SubSeq(s, Len(u) + 1, Len(s)) = a \o s
<1> DEFINE n == Len(u)
           m == Len(s)
           t == SubSeq(s, n + 1, m)
<1>1. n \in Nat /\ m \in Nat
  BY SMTT(30)
<1>2. /\ t \in Seq(S) /\ Len(t) = IF n + 1 <= m THEN m - (n + 1) + 1 ELSE 0
      /\ \A i \in 1 .. m - (n + 1) + 1 : t[i] = s[n + 1 + i - 1]
  <2>1. \A i \in n + 1 .. m : s[i] \in S
    BY <1>1, SMTT(30)
  <2>2. n + 1 \in Int /\ m \in Int
    BY <1>1, SMTT(30)
  <2> QED
    BY ONLY <2>1, <2>2, PartOf, SMTT(30)
<1> HIDE DEF t
<1>3. /\ u \o t \in Seq(S) /\ Len(u \o t) = Len(u) + Len(t)
      /\ \A i \in 1 .. Len(u) + Len(t) :
             (u \o t)[i] = IF i <= Len(u) THEN u[i] ELSE t[i - Len(u)]
  BY <1>2, Joined
<1>4. Len(u \o t) = Len(s)
  BY <1>1, <1>2, <1>3, SMTT(30)
<1>5. \A i \in 1 .. Len(s) : (u \o t)[i] = s[i]
  <2> SUFFICES ASSUME NEW i \in 1 .. m PROVE (u \o t)[i] = s[i]
    OBVIOUS
  <2>1. CASE i <= n
    BY <2>1, <1>1, <1>2, <1>3, SMTT(30)
  <2>2. CASE ~(i <= n)
    <3>1. i - n \in 1 .. m - (n + 1) + 1 /\ n + 1 + (i - n) - 1 = i
      BY <2>2, <1>1, SMTT(30)
    <3>2. t[i - n] = s[i]
      BY <3>1, <1>2
    <3>3. (u \o t)[i] = t[i - n]
      BY <2>2, <1>1, <1>2, <1>3, SMTT(30)
    <3> QED
      BY <3>2, <3>3
  <2> QED
    BY <2>1, <2>2
<1>6. u \o t = s
  BY <1>3, <1>4, <1>5, SameQueue
<1>7. (a \o u) \o t = a \o (u \o t)
  <2>1. t \in Seq(S)
    BY <1>2
  <2> QED
    BY ONLY <2>1, a \in Seq(S), u \in Seq(S), JoinedTwice, SMTT(30)
<1> QED
  BY <1>6, <1>7 DEF t

(* finish_read_transaction removes from the ring exactly the bytes the reader has copied. *)
LEMMA CommitDelivers ==
  ASSUME TypeOK, Reserved, NEW p \in Readers, Commit(p)
  PROVE  Delivered' = Delivered
<1>1. stream \in Seq(Byte) /\ buf \in Seq(Byte) /\ dst[p] \in Seq(Byte)
  BY DEF TypeOK, Tasks
<1>2. Len(dst[p]) <= Len(buf) /\ \A i \in 1 .. Len(dst[p]) : dst[p][i] = buf[i]
  BY DEF Reserved, Commit
<1>3. Min2(Len(dst[p]), Len(buf)) = Len(dst[p])
  BY <1>1, <1>2, SMTT(30) DEF Min2
<1>4. stream' = stream \o dst[p] /\ buf' = SubSeq(buf, Len(dst[p]) + 1, Len(buf))
  BY <1>3 DEF Commit
<1>5. (stream \o dst[p]) \o SubSeq(buf, Len(dst[p]) + 1, Len(buf)) = stream \o buf
  <2> DEFINE u == dst[p]
  <2> HIDE DEF u
  <2>1. u \in Seq(Byte) /\ Len(u) <= Len(buf) /\ \A i \in 1 .. Len(u) : u[i] = buf[i]
    BY <1>1, <1>2 DEF u
  <2>2. (stream \o u) \o SubSeq(buf, Len(u) + 1, Len(buf)) = stream \o buf
    BY <1>1, <2>1, PrefixMoves
  <2> QED
    BY <2>2 DEF u
<1> QED
  BY <1>4, <1>5 DEF Delivered

\* e is d and the next m bytes of call c, which writes z bytes, t of them so far;
\* a call that writes atomically writes all of them.
Extends(e, d, c, t, z, m) ==
    /\ d \in Seq(Byte) /\ e \in Seq(Byte)
    /\ c \in Nat /\ t \in Nat /\ z \in Nat /\ m \in Nat
    /\ Len(e) = Len(d) + m
    /\ \A i \in 1 .. Len(d) : e[i] = d[i]
    /\ \A k \in 1 .. m : e[Len(d) + k] = <<c, t + k, z>>
    /\ \A i \in 1 .. Len(d) : d[i][1] = c => d[i][2] <= t
    /\ t # 0 => \E i \in 1 .. Len(d) : d[i] = <<c, t, z>>
    /\ Atomic(z) => t = 0 /\ m = z

(* A piece appended behind the bytes of its call keeps the order of every call,
   and keeps writes of up to PIPE_BUF bytes whole. *)
LEMMA PieceOrders ==
  ASSUME NEW d, NEW e, NEW c, NEW t, NEW z, NEW m, Extends(e, d, c, t, z, m),
         InOrder(d), Whole(d)
  PROVE  InOrder(e) /\ Whole(e)
<1> USE DEF Extends
<1> DEFINE n == Len(d)
<1>1. n \in Nat /\ Len(e) \in Nat
  BY SMTT(30)
<1>2. \A i \in 1 .. n : d[i][1] \in Nat /\ d[i][2] \in Nat
  <2>1. \A i \in 1 .. n : d[i] \in Byte
    BY SMTT(30)
  <2>2. \A b \in Byte : b[1] \in Nat /\ b[2] \in Nat
    BY BoundAssumption, SMTT(30) DEF Byte
  <2> QED
    BY <2>1, <2>2
<1>3. \A j \in 1 .. Len(e) : j \in 1 .. n \/ (j - n \in 1 .. m /\ n + (j - n) = j)
  BY <1>1, SMTT(30)
<1>4. \A k \in 1 .. m : n + k \in 1 .. Len(e) /\ e[n + k] = <<c, t + k, z>>
  BY <1>1, SMTT(30)
<1>5. \A i \in 1 .. n : i \in 1 .. Len(e) /\ e[i] = d[i]
  BY <1>1, SMTT(30)
<1> HIDE DEF n
<1>6. ASSUME NEW j \in 1 .. Len(e)
      PROVE  /\ \A i \in 1 .. j - 1 : e[i][1] = e[j][1] => e[i][2] < e[j][2]
             /\ e[j][2] # 1 => \E i \in 1 .. j - 1 : e[i] = <<e[j][1], e[j][2] - 1, e[j][3]>>
  <2>1. CASE j \in 1 .. n
    <3>0. \A i \in 1 .. j - 1 : i \in 1 .. n
      BY <1>1, <2>1, SMTT(30)
    <3>1. \A i \in 1 .. j - 1 : e[i] = d[i]
      BY <1>5, <3>0
    <3>2. e[j] = d[j]
      BY <1>5, <2>1
    <3>3. /\ \A i \in 1 .. j - 1 : d[i][1] = d[j][1] => d[i][2] < d[j][2]
          /\ d[j][2] # 1 => \E i \in 1 .. j - 1 : d[i] = <<d[j][1], d[j][2] - 1, d[j][3]>>
      BY <2>1 DEF InOrder, n
    <3> QED
      BY <3>1, <3>2, <3>3
  <2>2. CASE j - n \in 1 .. m /\ n + (j - n) = j
    <3> DEFINE k == j - n
    <3>1. k \in 1 .. m /\ j = n + k
      BY <1>1, <2>2
    <3> HIDE DEF k
    <3>2. e[j] = <<c, t + k, z>> /\ e[j][1] = c /\ e[j][2] = t + k /\ e[j][3] = z
      <4>1. e[j] = <<c, t + k, z>>
        BY ONLY <1>4, <3>1
      <4> QED
        BY ONLY <4>1, SMTT(30)
    <3>3. ASSUME NEW i \in 1 .. j - 1, e[i][1] = c
          PROVE  e[i][2] < t + k
      <4>1. CASE i \in 1 .. n
        <5>1. e[i] = d[i] /\ d[i][2] <= t /\ d[i][2] \in Nat
          BY <1>2, <1>5, <3>3, <4>1 DEF n
        <5>2. t \in Nat /\ k \in Nat \ {0}
          BY <3>1, SMTT(30)
        <5> QED
          BY ONLY <5>1, <5>2, SMTT(30)
      <4>2. CASE i \notin 1 .. n
        <5>1. i - n \in 1 .. m /\ n + (i - n) = i /\ i - n < k
          BY <1>1, <3>1, <4>2, SMTT(30)
        <5>2. e[i] = <<c, t + (i - n), z>>
          BY <1>4, <5>1
        <5> QED
          BY <3>1, <5>1, <5>2, SMTT(30)
      <4> QED
        BY <4>1, <4>2
    <3>4. ASSUME t + k # 1
          PROVE  \E i \in 1 .. j - 1 : e[i] = <<c, t + k - 1, z>>
      <4>1. CASE k = 1
        <5>1. t # 0
          BY <3>4, <4>1, SMTT(30)
        <5>2. PICK i \in 1 .. n : d[i] = <<c, t, z>>
          BY <5>1 DEF n
        <5>3. i \in 1 .. j - 1 /\ e[i] = <<c, t, z>> /\ t + k - 1 = t
          BY <1>1, <1>5, <3>1, <4>1, <5>2, SMTT(30)
        <5> QED
          BY <5>3
      <4>2. CASE k # 1
        <5>1. k - 1 \in 1 .. m /\ n + (k - 1) \in 1 .. j - 1 /\ t + (k - 1) = t + k - 1
          BY <1>1, <3>1, <4>2, SMTT(30)
        <5>2. e[n + (k - 1)] = <<c, t + (k - 1), z>>
          BY <1>4, <5>1
        <5> QED
          BY <5>1, <5>2
      <4> QED
        BY <4>1, <4>2
    <3>5. \A i \in 1 .. j - 1 : e[i][1] = e[j][1] => e[i][2] < e[j][2]
      BY <3>2, <3>3
    <3>6. e[j][2] # 1 => \E i \in 1 .. j - 1 : e[i] = <<e[j][1], e[j][2] - 1, e[j][3]>>
      <4>0. e[j][1] = c /\ e[j][2] = t + k /\ e[j][3] = z
        BY <3>2
      <4>1. e[j][2] - 1 = t + k - 1 /\ (e[j][2] # 1 <=> t + k # 1)
        BY <3>1, <4>0, SMTT(30)
      <4> QED
        BY <3>4, <4>0, <4>1, Zenon
    <3> QED
      BY <3>5, <3>6
  <2> QED
    BY <1>3, <2>1, <2>2
<1>7. ASSUME NEW i \in 1 .. Len(e), Atomic(e[i][3]), e[i][2] = 1, NEW k \in 1 .. e[i][3]
      PROVE  i + k - 1 <= Len(e) /\ e[i + k - 1] = <<e[i][1], k, e[i][3]>>
  <2>1. CASE i \in 1 .. n
    <3>1. e[i] = d[i] /\ d[i] \in Byte
      BY <1>5, <2>1, SMTT(30) DEF n
    <3>2. i + k - 1 <= n /\ d[i + k - 1] = <<d[i][1], k, d[i][3]>>
      BY <1>7, <2>1, <3>1 DEF Whole, n
    <3>3. d[i][3] \in Nat
      BY <3>1, SizeAssumption DEF Byte
    <3>4. i + k - 1 \in 1 .. n
      BY <1>1, <3>1, <3>2, <3>3, <2>1, SMTT(30)
    <3>5. e[i + k - 1] = d[i + k - 1] /\ i + k - 1 \in 1 .. Len(e)
      BY <1>5, <3>4
    <3> QED
      BY <1>1, <3>1, <3>2, <3>5, SMTT(30)
  <2>2. CASE i - n \in 1 .. m /\ n + (i - n) = i
    <3>1. e[i] = <<c, t + (i - n), z>>
      BY <1>4, <2>2
    <3>2. Atomic(z) /\ t + (i - n) = 1 /\ k \in 1 .. z /\ e[i][1] = c /\ e[i][3] = z
      BY <1>7, <3>1, SMTT(30)
    <3>3. t = 0 /\ m = z /\ i = n + 1
      BY <1>1, <2>2, <3>2, SMTT(30)
    <3>4. n + k \in 1 .. Len(e) /\ e[n + k] = <<c, t + k, z>>
      BY <1>4, <3>2, <3>3
    <3>5. i + k - 1 = n + k /\ t + k = k
      <4>1. k \in Nat
        BY <3>2, SMTT(30)
      <4> QED
        BY ONLY <1>1, <3>3, <4>1, SMTT(30)
    <3> QED
      BY <1>1, <3>2, <3>4, <3>5, SMTT(30)
  <2> QED
    BY <1>3, <2>1, <2>2
<1>8. InOrder(e)
  BY <1>6 DEF InOrder
<1>9. Whole(e)
  BY <1>7 DEF Whole
<1> QED
  BY <1>8, <1>9

(* A new pipe holds nothing and has delivered nothing. *)
LEMMA InitData == Init => Reserved /\ DataOK
<1> SUFFICES ASSUME Init PROVE Reserved /\ DataOK
  OBVIOUS
<1>1. \A p \in Tasks : pc[p] = "idle" /\ total[p] = 0
  BY DEF Init
<1>2. Delivered = << >> /\ Len(Delivered) = 0
  BY SMTT(30) DEF Init, Delivered
<1>3. Reserved
  BY <1>1 DEF Reserved, At, Tasks
<1>4. CallsInOrder(Delivered)
  BY <1>1, <1>2, SMTT(30) DEF CallsInOrder, At, Tasks
<1>5. InOrder(Delivered) /\ Whole(Delivered)
  BY <1>2, SMTT(30) DEF InOrder, Whole
<1> QED
  BY <1>3, <1>4, <1>5 DEF DataOK

(* Every step keeps the bytes in order and the small writes whole. *)
LEMMA DataStep ==
  ASSUME TypeOK, Places, Reserved, DataOK, Next
  PROVE  DataOK'
<1> DEFINE d == Delivered
<1>0. /\ d \in Seq(Byte) /\ Len(d) \in Nat /\ \A i \in 1 .. Len(d) : d[i] \in Byte
      /\ CallsInOrder(d) /\ InOrder(d) /\ Whole(d) /\ writes \in Nat
      /\ \A i \in 1 .. Len(d) : d[i][1] \in Nat /\ d[i][2] \in Nat
  <2>1. d \in Seq(Byte) /\ Len(d) \in Nat /\ \A i \in 1 .. Len(d) : d[i] \in Byte
    BY DeliveredTyped
  <2>2. \A b \in Byte : b[1] \in Nat /\ b[2] \in Nat
    BY BoundAssumption, SMTT(30) DEF Byte
  <2>3. CallsInOrder(d) /\ InOrder(d) /\ Whole(d)
    BY DEF DataOK
  <2>4. writes \in Nat
    BY SMTT(30) DEF TypeOK
  <2>5. \A i \in 1 .. Len(d) : d[i][1] \in Nat /\ d[i][2] \in Nat
    BY <2>1, <2>2
  <2> QED
    BY <2>1, <2>3, <2>4, <2>5
<1>1. ASSUME Delivered' = d, CallsInOrder(d)' PROVE DataOK'
  BY <1>0, <1>1 DEF DataOK, InOrder, Whole, Atomic
<1> HIDE DEF d
<1>2. ASSUME NEW p \in Tasks, Delivered' = d, call' = call, total' = total, writes' = writes,
             \A x \in Writers : size'[x] = size[x],
             \A x \in Writers : At(x, "idle") <=> At(x, "idle")'
      PROVE  DataOK'
  <2>1. CallsInOrder(d)'
    BY <1>0, <1>2 DEF CallsInOrder, d
  <2> QED
    BY <1>1, <1>2, <2>1
<1>3. ASSUME NEW p \in Readers, ReadStep(p) \/ \E n \in ReadSizes : Read(p, n)
      PROVE  DataOK'
  <2>1. Delivered' = d
    <3>1. CASE Commit(p)
      BY <3>1, CommitDelivers DEF d
    <3>2. CASE ~Commit(p)
      <4>1. buf' = buf /\ stream' = stream
        BY <1>3, <3>2
           DEF ReadStep, ReadAborts, BeginRead, ReadEof, ReadWouldBlock, ReadNoCapacity,
               ReadArms, ReadResumes, CommitFails, WakeWriters, WakeReader, PassOn,
               PassWake, ReadReturns, Read
      <4> QED
        BY <4>1 DEF d, Delivered
    <3> QED
      BY <3>1, <3>2
  <2>2. /\ call' = call /\ total' = total /\ writes' = writes
        /\ size' = size \/ \E n : size' = [size EXCEPT ![p] = n]
    BY <1>3 DEF ReadStep, ReadAborts, BeginRead, ReadEof, ReadWouldBlock, ReadNoCapacity,
               ReadArms, ReadResumes, Commit, CommitFails, WakeWriters, WakeReader, PassOn,
               PassWake, ReadReturns, Read, counts
  <2>3. \E l : Goto(p, l)
    BY <1>3 DEF ReadStep, ReadAborts, BeginRead, ReadEof, ReadWouldBlock, ReadNoCapacity,
               ReadArms, ReadResumes, Commit, CommitFails, WakeWriters, WakeReader, PassOn,
               PassWake, ReadReturns, Read
  <2>4. p \in Tasks /\ p \notin Writers
    BY TaskAssumption DEF Tasks
  <2>5. \A x \in Writers : size'[x] = size[x] /\ pc'[x] = pc[x]
    BY <2>2, <2>3, <2>4 DEF Goto, TypeOK, Tasks
  <2> QED
    BY <1>2, <2>1, <2>2, <2>4, <2>5 DEF At
<1>4. ASSUME NEW p \in Writers,
             \/ WriteEnds(p) \/ WriteWakes(p) \/ WriteWouldBlock(p) \/ WriteArms(p)
             \/ WriteRetriesCapacity(p) \/ WriteResumes(p)
      PROVE  DataOK'
  <2>1. /\ buf' = buf /\ stream' = stream /\ call' = call /\ total' = total
        /\ writes' = writes /\ size' = size /\ pc[p] # "idle"
    BY <1>4 DEF WriteEnds, WriteWakes, WriteWouldBlock, WriteArms, WriteRetriesCapacity,
                WriteResumes, counts, Examines, At
  <2>2. \E l \in Locations \ {"idle"} : Goto(p, l)
    BY <1>4 DEF WriteEnds, WriteWakes, WriteWouldBlock, WriteArms, WriteRetriesCapacity,
                WriteResumes, ArmWriter, Locations
  <2>3. \A x \in Writers : At(x, "idle") <=> At(x, "idle")'
    BY <2>1, <2>2 DEF Goto, TypeOK, Tasks, At
  <2>4. Delivered' = d /\ p \in Tasks
    BY <2>1 DEF Delivered, d, Tasks
  <2> QED
    BY <1>2, <2>1, <2>3, <2>4
<1>5. ASSUME NEW p \in Writers, NEW z \in WriteSizes, Write(p, z)
      PROVE  DataOK'
  <2>1. /\ Delivered' = d /\ total' = total /\ writes' = writes + 1 /\ total[p] = 0
        /\ p \in Tasks
    BY <1>5 DEF Write, Delivered, d, Places, WritePlace, Tasks
  <2>2. /\ call'[p] = writes + 1 /\ pc'[p] = "wtop" /\ p \in Writers
        /\ \A x \in Writers \ {p} : call'[x] = call[x] /\ size'[x] = size[x] /\ pc'[x] = pc[x]
    BY <1>5 DEF Write, Goto, TypeOK, Tasks
  <2>3. \A x \in Writers \ {p} : ~At(x, "idle") => call[x] \in 1 .. writes
    BY DEF Places, WritePlace
  <2>4. \A i \in 1 .. Len(d) : d[i][1] <= writes
    BY <1>0 DEF CallsInOrder
  <2>5. \A i \in 1 .. Len(d) : d[i][1] <= writes + 1 /\ d[i][1] # writes + 1
    BY <1>0, <2>4, SMTT(30)
  <2>6. \A x, y \in Writers : ~At(x, "idle")' /\ ~At(y, "idle")' /\ call'[x] = call'[y] => x = y
    <3>1. \A x \in Writers \ {p} : ~At(x, "idle")' => ~At(x, "idle") /\ call'[x] # writes + 1
      BY <1>0, <2>2, <2>3, SMTT(30) DEF At
    <3>2. \A x, y \in Writers : ~At(x, "idle") /\ ~At(y, "idle") /\ call[x] = call[y] => x = y
      BY <1>0 DEF CallsInOrder
    <3> QED
      BY <2>2, <3>1, <3>2
  <2>7. ASSUME NEW x \in Writers
        PROVE  /\ ~At(x, "idle")' =>
                      \A i \in 1 .. Len(d) : d[i][1] = call'[x] => d[i][2] <= total'[x]
               /\ total'[x] # 0 =>
                      \E i \in 1 .. Len(d) : d[i] = <<call'[x], total'[x], size'[x]>>
    <3>1. CASE x = p
      BY <2>1, <2>2, <2>5, <3>1
    <3>2. CASE x # p
      <4>1. /\ call'[x] = call[x] /\ size'[x] = size[x] /\ total'[x] = total[x]
            /\ At(x, "idle")' = At(x, "idle")
        BY <2>1, <2>2, <3>2 DEF At
      <4>2. /\ ~At(x, "idle") =>
                   \A i \in 1 .. Len(d) : d[i][1] = call[x] => d[i][2] <= total[x]
            /\ total[x] # 0 => \E i \in 1 .. Len(d) : d[i] = <<call[x], total[x], size[x]>>
        BY <1>0 DEF CallsInOrder
      <4> QED
        BY ONLY <4>1, <4>2
    <3> QED
      BY <3>1, <3>2
  <2>8. d' = d
    BY <2>1 DEF d
  <2>9. CallsInOrder(d)'
    BY <2>1, <2>5, <2>6, <2>7, <2>8 DEF CallsInOrder
  <2> QED
    BY <1>1, <2>1, <2>9
<1>6. ASSUME NEW p \in Writers, WriteReturns(p)
      PROVE  DataOK'
  <2>1. Delivered' = d /\ writes' = writes
    BY <1>6 DEF WriteReturns, Delivered, d, counts
  <2>2. /\ pc'[p] = "idle" /\ total'[p] = 0
        /\ \A x \in Writers \ {p} : /\ call'[x] = call[x] /\ size'[x] = size[x]
                                    /\ pc'[x] = pc[x] /\ total'[x] = total[x]
    BY <1>6 DEF WriteReturns, Goto, TypeOK, Tasks
  <2>3. d' = d
    BY <2>1 DEF d
  <2>4. \A x \in Writers : ~At(x, "idle")' => x # p /\ ~At(x, "idle")
    BY <2>2 DEF At
  <2>5. \A x \in Writers : total'[x] # 0 => x # p /\ total[x] # 0
    BY <2>2
  <2>6. CallsInOrder(d)'
    <3>1. \A x, y \in Writers : ~At(x, "idle")' /\ ~At(y, "idle")' /\ call'[x] = call'[y] => x = y
      BY <1>0, <2>2, <2>4 DEF CallsInOrder
    <3>2. \A x \in Writers : ~At(x, "idle")' =>
              \A i \in 1 .. Len(d) : d[i][1] = call'[x] => d[i][2] <= total'[x]
      BY <1>0, <2>2, <2>4 DEF CallsInOrder
    <3>3. \A x \in Writers : total'[x] # 0 =>
              \E i \in 1 .. Len(d) : d[i] = <<call'[x], total'[x], size'[x]>>
      <4> SUFFICES ASSUME NEW x \in Writers, total'[x] # 0
                   PROVE  \E i \in 1 .. Len(d) : d[i] = <<call'[x], total'[x], size'[x]>>
        OBVIOUS
      <4>1. \E i \in 1 .. Len(d) : d[i] = <<call[x], total[x], size[x]>>
        BY <1>0, <2>5 DEF CallsInOrder
      <4>2. call'[x] = call[x] /\ total'[x] = total[x] /\ size'[x] = size[x]
        BY <2>2, <2>5
      <4> QED
        BY ONLY <4>1, <4>2
    <3>4. \A i \in 1 .. Len(d) : d[i][1] <= writes
      BY <1>0 DEF CallsInOrder
    <3> QED
      BY <2>1, <2>3, <3>1, <3>2, <3>3, <3>4 DEF CallsInOrder
  <2> QED
    BY <1>1, <2>1, <2>6
<1>7. ASSUME NEW p \in Writers, WriteCopies(p) \/ WriteCopiesAndArms(p)
      PROVE  DataOK'
  <2> DEFINE m == Piece(p)
             s == [i \in 1 .. Piece(p) |-> <<call[p], total[p] + i, size[p]>>]
             e == Delivered'
  <2>1. /\ stream' = stream /\ call' = call /\ writes' = writes /\ size' = size
        /\ pc[p] \in {"wtop", "wprep"} /\ Put(p) /\ Room(p)
    BY <1>7 DEF WriteCopies, WriteCopiesAndArms, counts, Examines, At
  <2>2. \E l \in Locations \ {"idle"} : Goto(p, l)
    BY <1>7 DEF WriteCopies, WriteCopiesAndArms, ArmWriter, Locations
  <2>3. \A x \in Writers : At(x, "idle") <=> At(x, "idle")'
    BY <2>1, <2>2 DEF Goto, TypeOK, Tasks, At
  <2>4. /\ call[p] \in Nat /\ total[p] \in Nat /\ size[p] \in Nat
        /\ Atomic(size[p]) => total[p] = 0
    BY <2>1, SMTT(30) DEF TypeOK, Tasks, Places, WritePlace, At
  <2>5. m \in Nat /\ s \in Seq(Byte) /\ Len(s) = m
    BY <2>1, PieceFits DEF At
  <2>6. Atomic(size[p]) => m = size[p]
    <3>1. Len(buf) \in Nat
      BY SMTT(30) DEF TypeOK
    <3> QED
      BY <2>1, <2>4, <3>1, SizeAssumption, SMTT(30) DEF Room, Piece, Space, Min2
  <2>7. /\ total' = [total EXCEPT ![p] = @ + m] /\ total'[p] = total[p] + m
        /\ \A x \in Writers \ {p} : total'[x] = total[x]
    BY <2>1 DEF Put, TypeOK, Tasks
  <2>8. e = d \o s
    <3>1. buf' = buf \o s
      BY <2>1 DEF Put
    <3>2. stream \in Seq(Byte) /\ buf \in Seq(Byte) /\ s \in Seq(Byte)
      BY <2>5 DEF TypeOK
    <3> HIDE DEF s
    <3>3. (stream \o buf) \o s = stream \o (buf \o s)
      BY ONLY <3>2, JoinedTwice, SMTT(30)
    <3> QED
      BY <2>1, <3>1, <3>3 DEF Delivered, d
  <2>9. \A i \in 1 .. m : s[i] = <<call[p], total[p] + i, size[p]>>
    OBVIOUS
  <2> HIDE DEF m, s, e
  <2>10. /\ e \in Seq(Byte) /\ Len(e) = Len(d) + m
         /\ \A i \in 1 .. Len(d) : e[i] = d[i]
         /\ \A k \in 1 .. m : e[Len(d) + k] = <<call[p], total[p] + k, size[p]>>
    <3>1. d \in Seq(Byte) /\ s \in Seq(Byte)
      BY <1>0, <2>5
    <3>2. /\ d \o s \in Seq(Byte) /\ Len(d \o s) = Len(d) + Len(s)
          /\ \A i \in 1 .. Len(d) + Len(s) :
                 (d \o s)[i] = IF i <= Len(d) THEN d[i] ELSE s[i - Len(d)]
      BY ONLY <3>1, Joined
    <3>3. \A i \in 1 .. Len(d) : i \in 1 .. Len(d) + Len(s) /\ i <= Len(d)
      BY <1>0, <2>5, SMTT(30)
    <3>4. \A k \in 1 .. m : /\ Len(d) + k \in 1 .. Len(d) + Len(s) /\ ~(Len(d) + k <= Len(d))
                            /\ (Len(d) + k) - Len(d) = k
      BY <1>0, <2>5, SMTT(30)
    <3>5. e \in Seq(Byte) /\ Len(e) = Len(d) + m
      BY <2>5, <2>8, <3>2
    <3>6. \A i \in 1 .. Len(d) : e[i] = d[i]
      BY <2>8, <3>2, <3>3
    <3>7. \A k \in 1 .. m : e[Len(d) + k] = s[k]
      BY <2>8, <3>2, <3>4
    <3> QED
      BY <2>9, <3>5, <3>6, <3>7
  <2>11. ~At(p, "idle")
    BY <2>1 DEF At
  <2>12. /\ \A i \in 1 .. Len(d) : d[i][1] = call[p] => d[i][2] <= total[p]
         /\ total[p] # 0 => \E i \in 1 .. Len(d) : d[i] = <<call[p], total[p], size[p]>>
    BY <1>0, <2>11 DEF CallsInOrder
  <2>13. InOrder(e) /\ Whole(e)
    <3>1. Extends(e, d, call[p], total[p], size[p], m)
      BY <1>0, <2>4, <2>5, <2>6, <2>10, <2>12 DEF Extends
    <3> QED
      BY <1>0, <3>1, PieceOrders
  <2>14. call[p] <= writes /\ \A i \in 1 .. Len(d) : d[i][1] <= writes
    <3>1. call[p] \in 1 .. writes
      BY <2>11 DEF Places, WritePlace
    <3>2. \A i \in 1 .. Len(d) : d[i][1] <= writes
      BY <1>0 DEF CallsInOrder
    <3>3. writes \in Nat
      BY SMTT(30) DEF TypeOK
    <3> QED
      BY ONLY <3>1, <3>2, <3>3, SMTT(30)
  <2>15. \A j \in 1 .. Len(e) : j \in 1 .. Len(d) \/ \E k \in 1 .. m : j = Len(d) + k
    <3> SUFFICES ASSUME NEW j \in 1 .. Len(e), j \notin 1 .. Len(d)
                 PROVE  \E k \in 1 .. m : j = Len(d) + k
      OBVIOUS
    <3>1. Len(d) \in Nat /\ m \in Nat /\ Len(e) = Len(d) + m
      BY <1>0, <2>5, <2>10
    <3>2. j - Len(d) \in 1 .. m /\ j = Len(d) + (j - Len(d))
      BY ONLY <3>1, j \in 1 .. Len(e), j \notin 1 .. Len(d), SMTT(30)
    <3> QED
      BY ONLY <3>2
  <2>16. ASSUME NEW j \in 1 .. Len(e)
         PROVE  /\ e[j][1] <= writes
                /\ e[j][1] = call[p] => e[j][2] <= total[p] + m
                /\ \A x \in Writers \ {p} : ~At(x, "idle") =>
                       (e[j][1] = call[x] => e[j][2] <= total[x])
    <3>1. CASE j \in 1 .. Len(d)
      <4>1. e[j] = d[j] /\ d[j][2] \in Nat
        BY <1>0, <2>10, <3>1
      <4>2. d[j][1] = call[p] => d[j][2] <= total[p] + m
        <5>1. d[j][1] = call[p] => d[j][2] <= total[p]
          BY <2>12, <3>1
        <5>2. total[p] \in Nat /\ m \in Nat
          BY <2>4, <2>5
        <5> QED
          BY ONLY <4>1, <5>1, <5>2, SMTT(30)
      <4>3. \A x \in Writers \ {p} : ~At(x, "idle") =>
                (d[j][1] = call[x] => d[j][2] <= total[x])
        BY <1>0, <3>1 DEF CallsInOrder
      <4> QED
        BY <2>14, <3>1, <4>1, <4>2, <4>3
    <3>2. CASE \E k \in 1 .. m : j = Len(d) + k
      <4>1. PICK k \in 1 .. m : j = Len(d) + k
        BY <3>2
      <4>2. e[j] = <<call[p], total[p] + k, size[p]>>
        BY <2>10, <4>1
      <4>3. e[j][1] = call[p] /\ e[j][2] = total[p] + k /\ total[p] + k <= total[p] + m
        BY <2>4, <2>5, <4>2, SMTT(30)
      <4>4. \A x \in Writers \ {p} : ~At(x, "idle") => call[x] # call[p]
        BY <1>0, <2>11 DEF CallsInOrder
      <4> QED
        BY <2>14, <4>3, <4>4
    <3> QED
      BY <2>15, <3>1, <3>2
  <2>17. ASSUME NEW x \in Writers, total'[x] # 0
         PROVE  \E i \in 1 .. Len(e) : e[i] = <<call[x], total'[x], size[x]>>
    <3>0. \A i \in 1 .. Len(d) : i \in 1 .. Len(e)
      BY <1>0, <2>5, <2>10, SMTT(30)
    <3>1. CASE x # p
      <4>1. PICK i \in 1 .. Len(d) : d[i] = <<call[x], total[x], size[x]>>
        BY <1>0, <2>7, <2>17, <3>1 DEF CallsInOrder
      <4> QED
        BY <2>7, <2>10, <3>0, <3>1, <4>1
    <3>2. CASE x = p /\ m = 0
      <4>1. total'[p] = total[p] /\ total[p] # 0
        BY <2>4, <2>7, <2>17, <3>2, SMTT(30)
      <4>2. PICK i \in 1 .. Len(d) : d[i] = <<call[p], total[p], size[p]>>
        BY <2>12, <4>1
      <4> QED
        BY <2>10, <3>0, <3>2, <4>1, <4>2
    <3>3. CASE x = p /\ m # 0
      <4>1. m \in 1 .. m /\ Len(d) + m \in 1 .. Len(e)
        BY <1>0, <2>5, <2>10, <3>3, SMTT(30)
      <4>2. e[Len(d) + m] = <<call[p], total[p] + m, size[p]>>
        BY <2>10, <4>1
      <4> QED
        BY <2>7, <3>3, <4>1, <4>2
    <3> QED
      BY <3>1, <3>2, <3>3
  <2>18. CallsInOrder(Delivered)'
    <3>1. \A x, y \in Writers : ~At(x, "idle")' /\ ~At(y, "idle")' /\ call'[x] = call'[y] => x = y
      BY <1>0, <2>1, <2>3 DEF CallsInOrder
    <3>2. \A j \in 1 .. Len(e) : e[j][1] <= writes'
      BY <2>1, <2>16
    <3>3. \A x \in Writers : ~At(x, "idle")' =>
              \A j \in 1 .. Len(e) : e[j][1] = call'[x] => e[j][2] <= total'[x]
      BY <2>1, <2>3, <2>7, <2>16
    <3>4. \A x \in Writers : total'[x] # 0 =>
              \E j \in 1 .. Len(e) : e[j] = <<call'[x], total'[x], size'[x]>>
      BY <2>1, <2>17
    <3> QED
      BY <3>1, <3>2, <3>3, <3>4 DEF CallsInOrder, e
  <2> QED
    BY <2>13, <2>18 DEF DataOK, InOrder, Whole, Atomic, e
<1>8. ASSUME CloseRead \/ CloseWrite \/ Duplicate \/ \E p \in Tasks : Signal(p)
      PROVE  DataOK'
  <2>1. /\ buf' = buf /\ stream' = stream /\ pc' = pc /\ size' = size /\ total' = total
        /\ call' = call /\ writes' = writes
    BY <1>8 DEF CloseRead, CloseWrite, Duplicate, Signal, counts
  <2> QED
    BY <2>1 DEF DataOK, CallsInOrder, InOrder, Whole, Atomic, Delivered, At
<1> QED
  BY <1>3, <1>4, <1>5, <1>6, <1>7, <1>8 DEF Next, WriteStep

------------------------------------------------------------------------------
RingInv == EndsOK /\ Reserved /\ DataOK

(* The invariant of the counts and of the bytes holds together with the one of
   the queues. *)
THEOREM RingInductive == Spec => [](IInv /\ RingInv)
<1>1. Init => RingInv
  BY InitEnds, InitData DEF RingInv
<1>2. IInv /\ RingInv /\ [Next]_vars => RingInv'
  <2> SUFFICES ASSUME IInv, RingInv, [Next]_vars PROVE RingInv'
    OBVIOUS
  <2>1. CASE Next
    BY <2>1, EndsStep, ReservedStep, DataStep DEF IInv, RingInv
  <2>2. CASE UNCHANGED vars
    <3>1. Reserved'
      BY <2>2, Zenon DEF RingInv, vars, Reserved, At
    <3>2. Delivered' = Delivered
      BY <2>2 DEF vars, Delivered
    <3>3. DataOK'
      BY <2>2, <3>2 DEF RingInv, vars, DataOK, CallsInOrder, InOrder, Whole, Atomic, At
    <3>4. EndsOK'
      BY <2>2 DEF RingInv, vars, EndsOK, EndsCounted, ReadCalls, WriteCalls, InCall, At
    <3> QED
      BY <3>1, <3>3, <3>4 DEF RingInv
  <2> QED
    BY <2>1, <2>2
<1> QED
  BY <1>1, <1>2, Inductive, PTL DEF Spec

(* EndsCounted for every instance: the counts that tell end of file and broken
   pipe are the ends that exist. *)
THEOREM EndsRight == Spec => []EndsCounted
<1>1. RingInv => EndsCounted
  BY DEF RingInv, EndsOK
<1> QED
  BY <1>1, RingInductive, PTL

(* BytesInOrder for every instance: begin_read_transaction,
   finish_read_transaction and PipeInner::write deliver the bytes of a call in order, none lost and none twice. *)
THEOREM OrderKept == Spec => []BytesInOrder
<1>1. IInv /\ RingInv => BytesInOrder
  <2> SUFFICES ASSUME IInv, RingInv PROVE BytesInOrder
    OBVIOUS
  <2>1. DOMAIN Delivered = 1 .. Len(Delivered) /\ InOrder(Delivered)
    BY DeliveredTyped DEF IInv, RingInv, DataOK
  <2> QED
    BY <2>1 DEF BytesInOrder, InOrder
<1> QED
  BY <1>1, RingInductive, PTL

(* AtomicWrites for every instance: the bytes of a write of up to PIPE_BUF are
   delivered next to one another, whoever else writes. *)
THEOREM WritesWhole == Spec => []AtomicWrites
<1>1. IInv /\ RingInv => AtomicWrites
  <2> SUFFICES ASSUME IInv, RingInv PROVE AtomicWrites
    OBVIOUS
  <2>1. DOMAIN Delivered = 1 .. Len(Delivered) /\ Whole(Delivered)
    BY DeliveredTyped DEF IInv, RingInv, DataOK
  <2> QED
    BY <2>1 DEF AtomicWrites, Whole
<1> QED
  BY <1>1, RingInductive, PTL
=============================================================================
