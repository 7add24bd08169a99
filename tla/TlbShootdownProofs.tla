------------------------ MODULE TlbShootdownProofs ------------------------
(* The shootdown protocol for any number of CPUs, pages, mailbox slots and
   retries: its types, whatever calls are made, and its two promises when every
   flush is made under PT_LOCK.                                               *)
EXTENDS TlbShootdown, TLAPS
LOCAL INSTANCE WellFoundedInduction

\* The leaves are for Zenon, but for those that name SMT.
USE Zenon

\* The types, by the part of the state they are about.
TablesT ==
    /\ pte \in [Pages -> Rights] /\ freed \subseteq Pages
    /\ sealed \subseteq Pages /\ busy \subseteq Pages
    /\ ptLock \in Cpus \cup {NoCpu}
HardwareT ==
    /\ tlb \in [Cpus -> [Pages -> Rights]]
    /\ cr3 \in [Cpus -> Roots] /\ activeCr3 \in [Cpus -> Roots]
QueuesT ==
    /\ head \in [Cpus -> Nat] /\ tail \in [Cpus -> Nat]
    /\ \A c \in Cpus : head[c] <= tail[c] /\ tail[c] <= head[c] + QueueLen
    /\ entry \in [Cpus -> [Slots -> [g : Nat, range : SUBSET Pages]]]
GensT ==
    /\ nextGen \in Nat \ {0} /\ gen \in [Cpus -> Nat] /\ ival \in [Cpus -> Nat]
    /\ requestGen \in [Cpus -> Nat] /\ ackGen \in [Cpus -> Nat]
CallsT ==
    /\ op \in [Cpus -> {"munmap", "mprotect", "fork"}]
    /\ page \in [Cpus -> SUBSET Pages]
    /\ todo \in [Cpus -> SUBSET Cpus] /\ targets \in [Cpus -> SUBSET Cpus]
    /\ slot \in [Cpus -> Slots] /\ attempt \in [Cpus -> 0 .. Retries] /\ calls \in Nat
PointsT ==
    /\ pc \in [Cpus -> {"idle", "switch", "collect", "post", "claimed",
                        "published", "send", "local", "wait"}]
    /\ ipc \in [Cpus -> {"off", "drain", "ack", "clear", "gap"}]
FlagsT ==
    /\ ipi \in [Cpus -> BOOLEAN] /\ fallback \in [Cpus -> BOOLEAN] /\ panicked \in BOOLEAN

\* A claimed slot has a target, an entry being handled is in the queue, and no
\* CPU is its own target.
Shape ==
    /\ \A c \in Cpus : pc[c] \in {"claimed", "published"} => todo[c] # {}
    /\ \A c \in Cpus : ipc[c] \in {"ack", "clear"} => head[c] < tail[c]
    /\ \A c \in Cpus : c \notin todo[c] /\ c \notin targets[c]

------------------------------------------------------------------------------
(* The types are the types of the parts. *)
LEMMA Parts ==
  TypeOK <=> TablesT /\ HardwareT /\ QueuesT /\ GensT /\ CallsT /\ PointsT /\ FlagsT
BY DEF TypeOK, TablesT, HardwareT, QueuesT, GensT, CallsT, PointsT, FlagsT

(* The lowest CPU of a nonempty set, which the loops over a CPU mask take next. *)
LEMMA LowerIn ==
  ASSUME NEW S \in SUBSET Cpus, S # {}
  PROVE  Lower(S) \in S /\ Lower(S) \in Cpus
<1>1. S \in SUBSET Nat
  BY CpuAssumption, SMTT(30) DEF Cpus
<1>2. PICK x \in S : \A y \in S : ~(<<y, x>> \in OpToRel(<, Nat))
  BY <1>1, WFMin, NatLessThanWellFounded, Zenon
<1>3. \A y \in S : y < x => <<y, x>> \in OpToRel(<, Nat)
  BY <1>1, Zenon DEF OpToRel
<1>4. \A y \in S : ~(y < x)
  BY <1>2, <1>3, Zenon
<1>5. \A y \in S : x <= y
  BY <1>1, <1>4, SMTT(30)
<1> QED
  BY <1>5 DEF Lower

(* A mailbox position is a slot. *)
LEMMA SlotOf == ASSUME NEW n \in Nat PROVE n % QueueLen \in Slots
BY QueueAssumption, SMTT(30) DEF Slots

(* The first state has its types. *)
LEMMA InitTyped == Init => TypeOK /\ Shape
<1> SUFFICES ASSUME Init PROVE TypeOK /\ Shape
  OBVIOUS
<1>1. TablesT /\ HardwareT
  BY DEF Init, TablesT, HardwareT, Rights, Roots
<1>2. 0 \in Slots /\ 0 \in 0 .. Retries /\ Empty \in [g : Nat, range : SUBSET Pages]
  BY QueueAssumption, BoundAssumption, SMTT(30) DEF Slots, Empty, NoGen
<1>3. QueuesT
  BY <1>2, QueueAssumption, SMTT(30) DEF Init, QueuesT
<1>4. GensT /\ CallsT
  BY <1>2, SMTT(30) DEF Init, GensT, CallsT
<1>6. PointsT /\ FlagsT
  BY DEF Init, PointsT, FlagsT
<1>5. Shape
  BY DEF Init, Shape
<1> QED
  BY <1>1, <1>3, <1>4, <1>5, <1>6, Parts

------------------------------------------------------------------------------
\* A call begins: munmap removes the rights, the others leave the page
\* read-only; mprotect alone has released PT_LOCK when its flush starts.
Given(o) == IF o = "munmap" THEN "none" ELSE "ro"
Begin(c) ==
    \E o \in {"munmap", "mprotect", "fork"}, S \in SUBSET Pages :
        Call(c, o, S, Given(o), IF o = "mprotect" THEN NoCpu ELSE c)

(* munmap, mprotect and fork begin that way. *)
LEMMA Begins ==
  ASSUME NEW c \in Cpus, (\E p \in Pages : Munmap(c, p) \/ Mprotect(c, p)) \/ Fork(c)
  PROVE  Begin(c)
<1>1. CASE \E p \in Pages : Munmap(c, p)
  <2>1. PICK p \in Pages : Call(c, "munmap", {p}, "none", c)
    BY <1>1 DEF Munmap
  <2>2. Given("munmap") = "none" /\ {p} \in SUBSET Pages
    BY DEF Given
  <2> QED
    BY <2>1, <2>2 DEF Begin
<1>2. CASE \E p \in Pages : Mprotect(c, p)
  <2>1. PICK p \in Pages : Call(c, "mprotect", {p}, "ro", NoCpu)
    BY <1>2 DEF Mprotect
  <2>2. Given("mprotect") = "ro" /\ {p} \in SUBSET Pages
    BY DEF Given
  <2> QED
    BY <2>1, <2>2 DEF Begin
<1>3. CASE Fork(c)
  <2>1. Call(c, "fork", Pages, "ro", c)
    BY <1>3 DEF Fork
  <2>2. Given("fork") = "ro" /\ Pages \in SUBSET Pages
    BY DEF Given
  <2> QED
    BY <2>1, <2>2 DEF Begin
<1> QED
  BY <1>1, <1>2, <1>3

\* The steps of dispatch_shootdown_for_cr3 before the interrupts are sent, and
\* the steps that touch no more than the flags and the control points.
Posting(c) == CollectCpu(c) \/ Generation(c) \/ Claim(c) \/ Publish(c) \/ Requested(c) \/ Saturated(c)
Waiting(c) == SendIpis(c) \/ Resend(c) \/ Panic(c)
Move(c) == Hardware(c) \/ Begin(c) \/ Posting(c) \/ Waiting(c) \/ LocalFlush(c) \/ Return(c) \/ Handler(c)

(* Every step is one of these. *)
LEMMA Moves == ASSUME Next PROVE \E c \in Cpus : Move(c)
BY Begins, Zenon DEF Next, Caller, Move, Posting, Waiting

(* Who leaves the page tables, the hardware and the mailboxes alone. *)
LEMMA Frames ==
  ASSUME NEW c \in Cpus
  PROVE  /\ Hardware(c) => UNCHANGED <<tables, nextGen, mailbox, ipi, op, page, todo, targets,
                                      gen, slot, attempt, fallback, irq, panicked, calls>>
         /\ Begin(c) => UNCHANGED <<freed, sealed, hw, nextGen, mailbox, ipi, targets, gen,
                                    slot, attempt, fallback, irq, panicked>>
         /\ Posting(c) => UNCHANGED <<tables, hw, ackGen, head, ipi, op, page, attempt, irq,
                                      panicked, calls>>
         /\ Waiting(c) => UNCHANGED <<tables, hw, nextGen, mailbox, op, page, todo, targets,
                                      gen, slot, fallback, irq, calls>>
         /\ Handler(c) => UNCHANGED <<tables, cr3, activeCr3, nextGen, requestGen, tail, proc,
                                      panicked, calls>>
<1>1. Hardware(c) => UNCHANGED <<tables, nextGen, mailbox, ipi, op, page, todo, targets,
                                 gen, slot, attempt, fallback, irq, panicked, calls>>
  BY Zenon DEF Hardware, Fill, SwitchPublish, SwitchLoad, proc
<1>2. Begin(c) => UNCHANGED <<freed, sealed, hw, nextGen, mailbox, ipi, targets, gen,
                              slot, attempt, fallback, irq, panicked>>
  BY Zenon DEF Begin, Call
<1>3. Posting(c) => UNCHANGED <<tables, hw, ackGen, head, ipi, op, page, attempt, irq,
                                panicked, calls>>
  BY Zenon DEF Posting, CollectCpu, Generation, Claim, Publish, Requested, Saturated, mailbox
<1>4. Waiting(c) => UNCHANGED <<tables, hw, nextGen, mailbox, op, page, todo, targets,
                                gen, slot, fallback, irq, calls>>
  BY Zenon DEF Waiting, SendIpis, Resend, Panic, proc
<1>5. Handler(c) => UNCHANGED <<tables, cr3, activeCr3, nextGen, requestGen, tail, proc,
                                panicked, calls>>
  BY Zenon DEF Handler, TakeIpi, DrainEntry, AckEntry, ClearEntry, Drained, GapFlush, hw, mailbox
<1> QED
  BY <1>1, <1>2, <1>3, <1>4, <1>5

------------------------------------------------------------------------------
(* Only a call that begins or returns changes the page table and PT_LOCK. *)
LEMMA TablesStep ==
  ASSUME TypeOK, NEW c \in Cpus, Move(c)
  PROVE  TablesT'
<1>t. TablesT /\ CallsT
  BY Parts
<1>1. CASE Begin(c)
  <2>1. PICK o \in {"munmap", "mprotect", "fork"}, S \in SUBSET Pages :
          Call(c, o, S, Given(o), IF o = "mprotect" THEN NoCpu ELSE c)
    BY <1>1 DEF Begin
  <2>2. Given(o) \in Rights
    BY DEF Given, Rights
  <2> QED
    BY <1>t, <2>1, <2>2 DEF Call, TablesT
<1>2. CASE Return(c)
  <2>1. page[c] \in SUBSET Pages
    BY <1>t DEF CallsT
  <2> QED
    BY <1>t, <1>2, <2>1 DEF Return, TablesT
<1>3. CASE ~Begin(c) /\ ~Return(c)
  <2>1. LocalFlush(c) => UNCHANGED tables
    BY DEF LocalFlush
  <2>2. UNCHANGED tables
    BY <1>3, <2>1, Frames, Zenon DEF Move
  <2> QED
    BY <1>t, <2>2 DEF tables, TablesT
<1> QED
  BY <1>1, <1>2, <1>3

(* A flush of pages S on CPU c leaves c without them and changes nothing else. *)
LEMMA Dropped ==
  ASSUME HardwareT, NEW c \in Cpus, NEW S, Drop(c, S)
  PROVE  /\ tlb' \in [Cpus -> [Pages -> Rights]]
         /\ \A k \in Cpus : k # c => tlb'[k] = tlb[k]
         /\ \A p \in Pages : tlb'[c][p] = IF p \in S THEN "none" ELSE tlb[c][p]
<1>1. tlb[c] \in [Pages -> Rights] /\ "none" \in Rights
  BY DEF HardwareT, Rights
<1>2. [p \in Pages |-> IF p \in S THEN "none" ELSE tlb[c][p]] \in [Pages -> Rights]
  BY <1>1
<1> QED
  BY <1>2 DEF Drop, HardwareT

(* Every step that touches cached translations: a page walk on one CPU, or a
   flush there. *)
LEMMA Touches ==
  ASSUME NEW c \in Cpus, Move(c)
  PROVE  \/ UNCHANGED tlb
         \/ \E p \in Pages : Fill(c, p)
         \/ \E S : Drop(c, S)
<1>1. CASE Hardware(c)
  BY <1>1, Zenon DEF Hardware, SwitchPublish, SwitchLoad
<1>2. CASE Handler(c)
  BY <1>2, Zenon DEF Handler, TakeIpi, DrainEntry, AckEntry, ClearEntry, Drained, GapFlush, hw
<1>3. CASE LocalFlush(c)
  BY <1>3, Zenon DEF LocalFlush
<1>4. CASE Begin(c) \/ Posting(c) \/ Waiting(c)
  BY <1>4, Frames, Zenon DEF hw
<1>5. CASE Return(c)
  BY <1>5, Zenon DEF Return, hw
<1> QED
  BY <1>1, <1>2, <1>3, <1>4, <1>5, Zenon DEF Move

(* The roots follow activate_memory_space alone. *)
LEMMA Roots2 ==
  ASSUME NEW c \in Cpus, Move(c)
  PROVE  \/ UNCHANGED <<cr3, activeCr3>>
         \/ \E r \in Roots : SwitchPublish(c, r)
         \/ SwitchLoad(c)
<1>1. CASE Hardware(c)
  BY <1>1, Zenon DEF Hardware, Fill
<1>2. CASE ~Hardware(c)
  BY <1>2, Frames, Zenon DEF Move, LocalFlush, Return, hw
<1> QED
  BY <1>1, <1>2

(* Every step keeps the types of the TLBs and of the roots the CPUs have loaded. *)
LEMMA HardwareStep ==
  ASSUME TypeOK, NEW c \in Cpus, Move(c)
  PROVE  HardwareT'
<1>t. HardwareT /\ TablesT
  BY Parts
<1>1. tlb' \in [Cpus -> [Pages -> Rights]]
  <2>1. CASE UNCHANGED tlb
    BY <1>t, <2>1 DEF HardwareT
  <2>2. CASE \E p \in Pages : Fill(c, p)
    BY <1>t, <2>2, SMTT(30) DEF HardwareT, TablesT, Fill
  <2>3. CASE \E S : Drop(c, S)
    BY <1>t, <2>3, Dropped
  <2> QED
    BY <2>1, <2>2, <2>3, Touches
<1>2. cr3' \in [Cpus -> Roots] /\ activeCr3' \in [Cpus -> Roots]
  <2>1. CASE UNCHANGED <<cr3, activeCr3>>
    BY <1>t, <2>1 DEF HardwareT
  <2>2. CASE \E r \in Roots : SwitchPublish(c, r)
    BY <1>t, <2>2 DEF HardwareT, SwitchPublish
  <2>3. CASE SwitchLoad(c)
    BY <1>t, <2>3 DEF HardwareT, SwitchLoad
  <2> QED
    BY <2>1, <2>2, <2>3, Roots2
<1> QED
  BY <1>1, <1>2 DEF HardwareT

------------------------------------------------------------------------------
(* The queues change when a slot is claimed, published or cleared. *)
LEMMA QueueTouches ==
  ASSUME NEW c \in Cpus, Move(c)
  PROVE  \/ UNCHANGED <<head, tail, entry>>
         \/ Claim(c) \/ Publish(c) \/ ClearEntry(c)
<1>1. CASE Posting(c)
  BY <1>1, Zenon DEF Posting, CollectCpu, Generation, Requested, Saturated, mailbox
<1>2. CASE Handler(c)
  BY <1>2, Zenon DEF Handler, TakeIpi, DrainEntry, AckEntry, Drained, GapFlush, mailbox
<1>3. CASE ~Posting(c) /\ ~Handler(c)
  BY <1>3, Frames, Zenon DEF Move, LocalFlush, Return, mailbox
<1> QED
  BY <1>1, <1>2, <1>3

(* Every step keeps a mailbox between empty and QUEUE_LEN claimed slots, each slot
   with a generation and a range. *)
LEMMA QueuesStep ==
  ASSUME TypeOK, Shape, NEW c \in Cpus, Move(c)
  PROVE  QueuesT'
<1>t. QueuesT /\ GensT /\ CallsT
  BY Parts
<1>q. QueueLen \in Nat
  BY QueueAssumption
<1>1. CASE UNCHANGED <<head, tail, entry>>
  BY <1>t, <1>1 DEF QueuesT
<1>2. CASE Claim(c)
  <2> DEFINE k == Lower(todo[c])
  <2>1. k \in Cpus
    BY <1>2, <1>t, LowerIn DEF Claim, CallsT
  <2>2. head[k] \in Nat /\ tail[k] \in Nat /\ tail[k] - head[k] < QueueLen
    BY <1>2, <1>t, <2>1 DEF Claim, QueuesT
  <2>3. head' = head /\ entry' = entry /\ tail' = [tail EXCEPT ![k] = @ + 1]
    BY <1>2 DEF Claim
  <2> HIDE DEF k
  <2> QED
    BY <1>t, <1>q, <2>1, <2>2, <2>3, SMTT(30) DEF QueuesT
<1>3. CASE Publish(c)
  <2> DEFINE k == Lower(todo[c])
             e == [g |-> gen[c], range |-> IF op[c] = "fork" THEN {} ELSE page[c]]
  <2>1. k \in Cpus
    BY <1>3, <1>t, LowerIn DEF Publish, At, Shape, CallsT
  <2>2. e \in [g : Nat, range : SUBSET Pages] /\ slot[c] \in Slots
    BY <1>t DEF GensT, CallsT
  <2>3. head' = head /\ tail' = tail /\ entry' = [entry EXCEPT ![k][slot[c]] = e]
    BY <1>3 DEF Publish
  <2> HIDE DEF k, e
  <2>4. entry' \in [Cpus -> [Slots -> [g : Nat, range : SUBSET Pages]]]
    BY <1>t, <2>1, <2>2, <2>3 DEF QueuesT
  <2> QED
    BY <1>t, <2>3, <2>4 DEF QueuesT
<1>4. CASE ClearEntry(c)
  <2> DEFINE s == head[c] % QueueLen
             e == [entry[c][s] EXCEPT !.g = NoGen]
  <2>1. head[c] \in Nat /\ tail[c] \in Nat /\ head[c] < tail[c]
    BY <1>4, <1>t DEF ClearEntry, InIrq, Shape, QueuesT
  <2>2. s \in Slots
    BY <2>1, SlotOf
  <2>3. tail' = tail /\ head' = [head EXCEPT ![c] = @ + 1]
        /\ entry' = [entry EXCEPT ![c][s] = e]
    BY <1>4 DEF ClearEntry
  <2>4. e \in [g : Nat, range : SUBSET Pages]
    BY <1>t, <2>2, SMTT(30) DEF QueuesT, NoGen
  <2> HIDE DEF s, e
  <2>5. entry' \in [Cpus -> [Slots -> [g : Nat, range : SUBSET Pages]]]
    BY <1>t, <2>2, <2>3, <2>4 DEF QueuesT
  <2> QED
    BY <1>t, <1>q, <2>1, <2>3, <2>5, SMTT(30) DEF QueuesT
<1> QED
  BY <1>1, <1>2, <1>3, <1>4, QueueTouches

(* A request only raises the generation asked of its target. *)
LEMMA Raised ==
  ASSUME TypeOK, NEW c \in Cpus, NEW k \in Cpus, Request(c, k)
  PROVE  /\ requestGen' \in [Cpus -> Nat]
         /\ requestGen' = [requestGen EXCEPT ![k] = Max2(requestGen[k], gen[c])]
<1>1. requestGen[k] \in Nat /\ gen[c] \in Nat /\ requestGen \in [Cpus -> Nat]
  BY Parts DEF GensT
<1>2. Max2(requestGen[k], gen[c]) \in Nat
  BY <1>1 DEF Max2
<1> QED
  BY <1>1, <1>2 DEF Request

(* Every step keeps the generations natural numbers, the next one above zero. *)
LEMMA GensStep ==
  ASSUME TypeOK, Shape, NEW c \in Cpus, Move(c)
  PROVE  GensT'
<1>t. GensT /\ QueuesT /\ CallsT
  BY Parts
<1>1. CASE Generation(c)
  BY <1>t, <1>1, SMTT(30) DEF Generation, GensT, mailbox, irq, NoGen
<1>2. CASE Requested(c) \/ Saturated(c)
  <2>1. todo[c] # {} /\ todo[c] \in SUBSET Cpus
    BY <1>t, <1>2 DEF Requested, Saturated, At, Shape, CallsT
  <2>2. Request(c, Lower(todo[c])) /\ UNCHANGED <<nextGen, gen, ackGen, ival>>
    BY <1>2 DEF Requested, Saturated, irq
  <2>3. requestGen' \in [Cpus -> Nat]
    BY <2>1, <2>2, LowerIn, Raised
  <2> QED
    BY <1>t, <2>2, <2>3 DEF GensT
<1>3. CASE LocalFlush(c)
  BY <1>t, <1>3 DEF LocalFlush, GensT, irq
<1>4. CASE Return(c)
  BY <1>t, <1>4 DEF Return, GensT, irq, mailbox, NoGen
<1>5. CASE Handler(c)
  <2>1. UNCHANGED <<nextGen, gen, requestGen>>
    BY <1>5, Frames DEF proc
  <2>2. ackGen' \in [Cpus -> Nat]
    <3>1. CASE AckEntry(c)
      BY <1>t, <3>1 DEF AckEntry, GensT, Max2
    <3>2. CASE GapFlush(c)
      BY <1>t, <3>2 DEF GapFlush, GensT
    <3>3. CASE UNCHANGED ackGen
      BY <1>t, <3>3 DEF GensT
    <3> QED
      BY <1>5, <3>1, <3>2, <3>3, Zenon DEF Handler, TakeIpi, DrainEntry, ClearEntry, Drained, mailbox
  <2>3. ival' \in [Cpus -> Nat]
    <3>1. CASE DrainEntry(c)
      <4>1. entry[c][head[c] % QueueLen].g \in Nat
        BY <1>t, SlotOf DEF QueuesT
      <4> QED
        BY <1>t, <3>1, <4>1 DEF DrainEntry, GensT
    <3>2. CASE GapFlush(c) \/ Drained(c)
      BY <1>t, <3>2, SMTT(30) DEF GapFlush, Drained, GensT, NoGen
    <3>3. CASE UNCHANGED ival
      BY <1>t, <3>3 DEF GensT
    <3> QED
      BY <1>5, <3>1, <3>2, <3>3, Zenon DEF Handler, TakeIpi, AckEntry, ClearEntry
  <2> QED
    BY <1>t, <2>1, <2>2, <2>3 DEF GensT
<1>6. CASE UNCHANGED <<nextGen, gen, ival, requestGen, ackGen>>
  BY <1>t, <1>6 DEF GensT
<1>7. Posting(c) => Generation(c) \/ Requested(c) \/ Saturated(c)
                    \/ UNCHANGED <<nextGen, gen, ival, requestGen, ackGen>>
  BY Zenon DEF Posting, CollectCpu, Claim, Publish, mailbox, irq
<1>8. Hardware(c) \/ Begin(c) \/ Waiting(c) => UNCHANGED <<nextGen, gen, ival, requestGen, ackGen>>
  BY Frames, Zenon DEF mailbox, irq
<1> QED
  BY <1>1, <1>2, <1>3, <1>4, <1>5, <1>6, <1>7, <1>8, Zenon DEF Move

------------------------------------------------------------------------------
(* Every step keeps each call's operation, pages, targets and CPUs still to visit. *)
LEMMA CallsStep ==
  ASSUME TypeOK, Shape, NEW c \in Cpus, Move(c)
  PROVE  CallsT'
<1>t. CallsT /\ QueuesT
  BY Parts
<1>1. CASE Begin(c)
  BY <1>t, <1>1, SMTT(30) DEF Begin, Call, CallsT
<1>2. CASE CollectCpu(c)
  <2> DEFINE k == Lower(todo[c])
  <2>1. k \in Cpus /\ todo[c] \in SUBSET Cpus /\ targets[c] \in SUBSET Cpus
    BY <1>t, <1>2, LowerIn DEF CollectCpu, CallsT
  <2>2. /\ todo' = [todo EXCEPT ![c] = @ \ {k}]
        /\ targets' = [targets EXCEPT ![c] = IF activeCr3[k] = "user" THEN @ \cup {k} ELSE @]
        /\ UNCHANGED <<op, page, slot, attempt, calls>>
    BY <1>2 DEF CollectCpu
  <2> HIDE DEF k
  <2> QED
    BY <1>t, <2>1, <2>2 DEF CallsT
<1>3. CASE Generation(c)
  BY <1>t, <1>3 DEF Generation, CallsT
<1>4. CASE Claim(c)
  <2> DEFINE k == Lower(todo[c])
  <2>1. k \in Cpus
    BY <1>t, <1>4, LowerIn DEF Claim, CallsT
  <2>2. tail[k] % QueueLen \in Slots
    BY <1>t, <2>1, SlotOf DEF QueuesT
  <2>3. slot' = [slot EXCEPT ![c] = tail[k] % QueueLen]
        /\ UNCHANGED <<op, page, todo, targets, attempt, calls>>
    BY <1>4 DEF Claim
  <2> HIDE DEF k
  <2> QED
    BY <1>t, <2>2, <2>3 DEF CallsT
<1>5. CASE Requested(c) \/ Saturated(c)
  <2>1. todo' = [todo EXCEPT ![c] = @ \ {Lower(todo[c])}]
        /\ UNCHANGED <<op, page, targets, slot, attempt, calls>>
    BY <1>5 DEF Requested, Saturated, Request
  <2> QED
    BY <1>t, <2>1 DEF CallsT
<1>6. CASE Resend(c)
  <2>1. attempt[c] + 1 \in 0 .. Retries
    BY <1>t, <1>6, BoundAssumption, SMTT(30) DEF Resend, CallsT
  <2> QED
    BY <1>t, <1>6, <2>1 DEF Resend, CallsT
<1>7. CASE Return(c)
  <2>1. 0 \in Slots /\ 0 \in 0 .. Retries
    BY BoundAssumption, QueueAssumption, SMTT(30) DEF Slots
  <2> QED
    BY <1>t, <1>7, <2>1 DEF Return, CallsT
<1>8. CASE UNCHANGED <<op, page, todo, targets, slot, attempt, calls>>
  BY <1>t, <1>8 DEF CallsT
<1>9. Posting(c) \/ Waiting(c) \/ LocalFlush(c) =>
        \/ CollectCpu(c) \/ Generation(c) \/ Claim(c) \/ Requested(c) \/ Saturated(c) \/ Resend(c)
        \/ UNCHANGED <<op, page, todo, targets, slot, attempt, calls>>
  BY Zenon DEF Posting, Waiting, Publish, SendIpis, Panic, LocalFlush, proc
<1>10. Hardware(c) \/ Handler(c) => UNCHANGED <<op, page, todo, targets, slot, attempt, calls>>
  BY Frames, Zenon DEF proc
<1> QED
  BY <1>1, <1>2, <1>3, <1>4, <1>5, <1>6, <1>7, <1>8, <1>9, <1>10, Zenon DEF Move

(* Every step leaves each CPU at a point of a call and at one of the handler. *)
LEMMA PointsStep ==
  ASSUME TypeOK, NEW c \in Cpus, Move(c)
  PROVE  PointsT'
<1>t. PointsT
  BY Parts
<1>1. \/ pc' = pc
      \/ \E l \in {"idle", "switch", "collect", "post", "claimed",
                   "published", "send", "local", "wait"} : pc' = [pc EXCEPT ![c] = l]
  <2>1. CASE Hardware(c)
    BY <2>1 DEF Hardware, Fill, SwitchPublish, SwitchLoad, Goto, proc
  <2>2. CASE Posting(c)
    BY <2>2 DEF Posting, CollectCpu, Generation, Claim, Publish, Requested, Saturated, Goto
  <2>3. CASE Waiting(c) \/ LocalFlush(c) \/ Return(c)
    BY <2>3 DEF Waiting, SendIpis, Resend, Panic, LocalFlush, Return, Goto, proc
  <2>4. CASE Begin(c) \/ Handler(c)
    BY <2>4, Frames DEF Begin, Call, Goto, proc
  <2> QED
    BY <2>1, <2>2, <2>3, <2>4 DEF Move
<1>2. \/ ipc' = ipc
      \/ \E l \in {"off", "drain", "ack", "clear", "gap"} : ipc' = [ipc EXCEPT ![c] = l]
  <2>1. CASE Handler(c)
    BY <2>1 DEF Handler, TakeIpi, DrainEntry, AckEntry, ClearEntry, Drained, GapFlush
  <2>2. CASE ~Handler(c)
    BY <2>2, Frames, Zenon DEF Move, LocalFlush, Return, irq
  <2> QED
    BY <2>1, <2>2
<1>3. pc' \in [Cpus -> {"idle", "switch", "collect", "post", "claimed",
                        "published", "send", "local", "wait"}]
  BY <1>t, <1>1 DEF PointsT
<1>4. ipc' \in [Cpus -> {"off", "drain", "ack", "clear", "gap"}]
  BY <1>t, <1>2 DEF PointsT
<1> QED
  BY <1>3, <1>4 DEF PointsT

(* Every step keeps the pending interrupts and the fallback of each call flags. *)
LEMMA FlagsStep ==
  ASSUME TypeOK, NEW c \in Cpus, Move(c)
  PROVE  FlagsT'
<1>t. FlagsT
  BY Parts
<1>1. ipi' \in [Cpus -> BOOLEAN]
  <2>1. CASE SendIpis(c)
    BY <2>1 DEF SendIpis
  <2>2. CASE Resend(c)
    BY <2>2 DEF Resend
  <2>3. CASE TakeIpi(c)
    BY <1>t, <2>3 DEF TakeIpi, FlagsT
  <2>4. CASE UNCHANGED ipi
    BY <1>t, <2>4 DEF FlagsT
  <2>5. Waiting(c) \/ Handler(c) => SendIpis(c) \/ Resend(c) \/ TakeIpi(c) \/ UNCHANGED ipi
    BY Zenon DEF Waiting, Panic, Handler, DrainEntry, AckEntry, ClearEntry, Drained, GapFlush
  <2>6. Hardware(c) \/ Begin(c) \/ Posting(c) \/ LocalFlush(c) \/ Return(c) => UNCHANGED ipi
    BY Frames, Zenon DEF LocalFlush, Return
  <2> QED
    BY <2>1, <2>2, <2>3, <2>4, <2>5, <2>6, Zenon DEF Move
<1>2. fallback' = fallback \/ (\E b \in BOOLEAN : fallback' = [fallback EXCEPT ![c] = b])
  <2>1. CASE Posting(c)
    BY <2>1, Zenon DEF Posting, CollectCpu, Generation, Claim, Publish, Requested, Saturated
  <2>2. CASE ~Posting(c)
    BY <2>2, Frames, Zenon DEF Move, LocalFlush, Return, proc
  <2> QED
    BY <2>1, <2>2
<1>3. panicked' \in BOOLEAN
  <2>1. panicked' = panicked \/ panicked' = TRUE
    BY Frames, Zenon DEF Move, Waiting, SendIpis, Resend, Panic, LocalFlush, Return
  <2> QED
    BY <1>t, <2>1, Zenon DEF FlagsT
<1>4. fallback' \in [Cpus -> BOOLEAN]
  BY <1>t, <1>2 DEF FlagsT
<1> QED
  BY <1>1, <1>3, <1>4 DEF FlagsT

------------------------------------------------------------------------------
(* A CPU moves only its own contexts, its own translations and its own
   acknowledgement; what others leave in its mailbox is the tail, the entries,
   the generation asked for and the pending interrupt. *)
LEMMA Own ==
  ASSUME TypeOK, NEW c \in Cpus, Move(c), NEW k \in Cpus, k # c
  PROVE  /\ pc'[k] = pc[k] /\ op'[k] = op[k] /\ page'[k] = page[k] /\ todo'[k] = todo[k]
         /\ targets'[k] = targets[k] /\ gen'[k] = gen[k] /\ ipc'[k] = ipc[k] /\ ival'[k] = ival[k]
         /\ ackGen'[k] = ackGen[k] /\ head'[k] = head[k]
         /\ tlb'[k] = tlb[k] /\ cr3'[k] = cr3[k] /\ activeCr3'[k] = activeCr3[k]
<1>t. HardwareT /\ QueuesT /\ GensT /\ CallsT /\ PointsT
  BY Parts
<1>1. tlb'[k] = tlb[k]
  <2>1. CASE \E p \in Pages : Fill(c, p)
    BY <1>t, <2>1 DEF Fill, HardwareT
  <2>2. CASE \E S : Drop(c, S)
    BY <1>t, <2>2, Dropped
  <2> QED
    BY <2>1, <2>2, Touches
<1>2. cr3'[k] = cr3[k] /\ activeCr3'[k] = activeCr3[k]
  BY <1>t, Roots2 DEF SwitchPublish, SwitchLoad, HardwareT
<1>3. CASE Hardware(c)
  <2>1. pc'[k] = pc[k]
    BY <1>t, <1>3 DEF Hardware, Fill, SwitchPublish, SwitchLoad, Goto, proc, PointsT
  <2>2. UNCHANGED <<op, page, todo, targets, gen, ipc, ival, ackGen, head>>
    BY <1>3, Frames DEF mailbox, irq
  <2> QED
    BY <1>1, <1>2, <2>1, <2>2
<1>4. CASE Begin(c)
  <2>1. pc'[k] = pc[k] /\ op'[k] = op[k] /\ page'[k] = page[k] /\ todo'[k] = todo[k]
    BY <1>t, <1>4, SMTT(30) DEF Begin, Call, Goto, PointsT, CallsT
  <2>2. UNCHANGED <<targets, gen, ipc, ival, ackGen, head>>
    BY <1>4, Frames DEF mailbox, irq
  <2> QED
    BY <1>1, <1>2, <2>1, <2>2
<1>5. CASE Posting(c)
  <2>1. pc'[k] = pc[k]
    BY <1>t, <1>5 DEF Posting, CollectCpu, Generation, Claim, Publish, Requested, Saturated, Goto, PointsT
  <2>2. todo'[k] = todo[k]
    BY <1>t, <1>5 DEF Posting, CollectCpu, Generation, Claim, Publish, Requested, Saturated, Request, CallsT
  <2>3. targets'[k] = targets[k] /\ gen'[k] = gen[k]
    BY <1>t, <1>5 DEF Posting, CollectCpu, Generation, Claim, Publish, Requested, Saturated, CallsT, GensT
  <2>4. UNCHANGED <<op, page, ipc, ival, ackGen, head>>
    BY <1>5, Frames DEF irq
  <2> QED
    BY <1>1, <1>2, <2>1, <2>2, <2>3, <2>4
<1>6. CASE Waiting(c)
  <2>1. pc'[k] = pc[k]
    BY <1>t, <1>6 DEF Waiting, SendIpis, Resend, Panic, Goto, proc, PointsT
  <2>2. UNCHANGED <<op, page, todo, targets, gen, ipc, ival, ackGen, head>>
    BY <1>6, Frames DEF mailbox, irq
  <2> QED
    BY <1>1, <1>2, <2>1, <2>2
<1>7. CASE LocalFlush(c)
  <2>1. pc'[k] = pc[k] /\ ackGen'[k] = ackGen[k]
    BY <1>t, <1>7 DEF LocalFlush, Goto, PointsT, GensT
  <2>2. UNCHANGED <<op, page, todo, targets, gen, ipc, ival, head>>
    BY <1>7 DEF LocalFlush, irq
  <2> QED
    BY <1>1, <1>2, <2>1, <2>2
<1>8. CASE Return(c)
  <2>1. pc'[k] = pc[k] /\ gen'[k] = gen[k]
    BY <1>t, <1>8 DEF Return, Goto, PointsT, GensT
  <2>2. op'[k] = op[k] /\ page'[k] = page[k] /\ targets'[k] = targets[k]
    BY <1>t, <1>8 DEF Return, CallsT
  <2>3. UNCHANGED <<todo, ipc, ival, ackGen, head>>
    BY <1>8 DEF Return, irq, mailbox
  <2> QED
    BY <1>1, <1>2, <2>1, <2>2, <2>3
<1>9. CASE Handler(c)
  <2>1. ipc'[k] = ipc[k] /\ ival'[k] = ival[k]
    BY <1>t, <1>9 DEF Handler, TakeIpi, DrainEntry, AckEntry, ClearEntry, Drained, GapFlush, PointsT, GensT
  <2>2. ackGen'[k] = ackGen[k] /\ head'[k] = head[k]
    BY <1>t, <1>9 DEF Handler, TakeIpi, DrainEntry, AckEntry, ClearEntry, Drained, GapFlush, mailbox, GensT, QueuesT
  <2>3. UNCHANGED <<pc, op, page, todo, targets, gen>>
    BY <1>9, Frames DEF proc
  <2> QED
    BY <1>1, <1>2, <2>1, <2>2, <2>3
<1> QED
  BY <1>3, <1>4, <1>5, <1>6, <1>7, <1>8, <1>9, Zenon DEF Move

(* A CPU that has claimed or published has a CPU left to post to, one that drains
   has an entry to drain, and no call targets its own CPU. *)
LEMMA ShapeStep ==
  ASSUME TypeOK, Shape, NEW c \in Cpus, Move(c)
  PROVE  Shape'
<1>t. QueuesT /\ CallsT /\ PointsT
  BY Parts
<1>q. QueuesT'
  BY QueuesStep
<1>1. pc'[c] \in {"claimed", "published"} => todo'[c] # {}
  <2>1. CASE Posting(c)
    <3>1. CASE CollectCpu(c) \/ Generation(c) \/ Requested(c)
      <4>1. pc'[c] \in {"collect", "post", "local"}
        BY <1>t, <3>1 DEF CollectCpu, Generation, Requested, At, Goto, PointsT
      <4> QED
        BY <4>1
    <3>2. CASE Claim(c) \/ Publish(c)
      <4>1. todo' = todo
        BY <3>2 DEF Claim, Publish
      <4>2. todo[c] # {}
        BY <3>2 DEF Claim, Publish, At, Shape
      <4> QED
        BY <4>1, <4>2
    <3>3. CASE Saturated(c)
      BY <3>3 DEF Saturated, At
    <3> QED
      BY <2>1, <3>1, <3>2, <3>3, Zenon DEF Posting
  <2>2. CASE Begin(c) \/ LocalFlush(c) \/ Return(c) \/ SendIpis(c)
    BY <1>t, <2>2 DEF Begin, Call, LocalFlush, Return, SendIpis, Goto, PointsT
  <2>3. CASE Hardware(c)
    BY <1>t, <2>3 DEF Hardware, Fill, SwitchPublish, SwitchLoad, Goto, PointsT, Shape, proc
  <2>4. CASE UNCHANGED <<pc, todo>>
    BY <2>4 DEF Shape
  <2>5. Resend(c) \/ Panic(c) \/ Handler(c) => UNCHANGED <<pc, todo>>
    BY Frames DEF Resend, Panic, proc
  <2> QED
    BY <2>1, <2>2, <2>3, <2>4, <2>5, Zenon DEF Move, Waiting
<1>2. ipc'[c] \in {"ack", "clear"} => head'[c] < tail'[c]
  <2>1. CASE Handler(c)
    <3>1. tail' = tail
      BY <2>1, Frames
    <3>2. ClearEntry(c) \/ TakeIpi(c) \/ Drained(c) \/ GapFlush(c) => ipc'[c] \notin {"ack", "clear"}
      BY <1>t DEF ClearEntry, TakeIpi, Drained, GapFlush, PointsT
    <3>3. DrainEntry(c) \/ AckEntry(c) => head' = head /\ head[c] < tail[c]
      BY DEF DrainEntry, AckEntry, InIrq, Shape, mailbox
    <3> QED
      BY <2>1, <3>1, <3>2, <3>3 DEF Handler
  <2>2. CASE ~Handler(c)
    <3>1. UNCHANGED <<ipc, head>>
      BY <2>2, Frames, Zenon DEF Move, LocalFlush, Return, irq, mailbox
    <3>2. tail'[c] = tail[c] \/ tail'[c] = tail[c] + 1
      BY <1>t, <2>2, QueueTouches DEF Claim, Handler, Publish, QueuesT
    <3> QED
      BY <1>t, <3>1, <3>2, SMTT(30) DEF Shape, QueuesT
  <2> QED
    BY <2>1, <2>2
<1>3. c \notin todo'[c] /\ c \notin targets'[c]
  <2>1. CASE Begin(c)
    <3>1. todo'[c] = Cpus \ {c}
      BY <1>t, <2>1, SMTT(30) DEF Begin, Call, CallsT
    <3>2. targets' = targets
      BY <2>1 DEF Begin, Call
    <3> QED
      BY <3>1, <3>2 DEF Shape
  <2>2. CASE CollectCpu(c)
    <3>1. Lower(todo[c]) \in todo[c]
      BY <1>t, <2>2, LowerIn DEF CollectCpu, CallsT
    <3> QED
      BY <1>t, <2>2, <3>1 DEF CollectCpu, Shape, CallsT
  <2>3. CASE Generation(c)
    BY <1>t, <2>3 DEF Generation, Shape, CallsT
  <2>4. CASE Requested(c) \/ Saturated(c)
    <3>1. todo'[c] = todo[c] \ {Lower(todo[c])}
      BY <1>t, <2>4 DEF Requested, Saturated, Request, CallsT
    <3>2. targets' = targets
      BY <2>4 DEF Requested, Saturated
    <3> QED
      BY <3>1, <3>2 DEF Shape
  <2>5. CASE Return(c)
    BY <1>t, <2>5 DEF Return, Shape, CallsT
  <2>6. CASE UNCHANGED <<todo, targets>>
    BY <2>6 DEF Shape
  <2>7. Claim(c) \/ Publish(c) \/ LocalFlush(c) \/ Hardware(c) \/ Waiting(c) \/ Handler(c)
        => UNCHANGED <<todo, targets>>
    BY Frames, Zenon DEF Claim, Publish, LocalFlush, proc
  <2> QED
    BY <2>1, <2>2, <2>3, <2>4, <2>5, <2>6, <2>7, Zenon DEF Move, Posting
<1>4. ASSUME NEW k \in Cpus, k # c
      PROVE  /\ pc'[k] \in {"claimed", "published"} => todo'[k] # {}
             /\ ipc'[k] \in {"ack", "clear"} => head'[k] < tail'[k]
             /\ k \notin todo'[k] /\ k \notin targets'[k]
  <2>1. pc'[k] = pc[k] /\ todo'[k] = todo[k] /\ targets'[k] = targets[k]
        /\ ipc'[k] = ipc[k] /\ head'[k] = head[k]
    BY <1>4, Own
  <2>2. tail'[k] = tail[k] \/ tail'[k] = tail[k] + 1
    BY <1>t, QueueTouches DEF Claim, ClearEntry, Publish, QueuesT
  <2> QED
    BY <1>t, <2>1, <2>2, SMTT(30) DEF Shape, QueuesT
<1> QED
  BY <1>1, <1>2, <1>3, <1>4 DEF Shape

(* The types and the shape of the contexts are kept by every step. *)
LEMMA TypeStep ==
  ASSUME TypeOK, Shape, NEW c \in Cpus, Move(c)
  PROVE  TypeOK' /\ Shape'
<1>1. TablesT' /\ HardwareT' /\ QueuesT' /\ GensT' /\ CallsT' /\ PointsT' /\ FlagsT'
  BY TablesStep, HardwareStep, QueuesStep, GensStep, CallsStep, PointsStep, FlagsStep
<1>2. TypeOK'
  BY <1>1 DEF TypeOK, TablesT, HardwareT, QueuesT, GensT, CallsT, PointsT, FlagsT
<1> QED
  BY <1>2, ShapeStep

------------------------------------------------------------------------------
(* The types hold whatever calls are made, mprotect's among them: no mailbox
   holds more claimed slots than it has. *)
THEOREM ShootdownTyped == Spec => []TypeOK
<1>1. ASSUME TypeOK, Shape, [Next]_vars
      PROVE  TypeOK' /\ Shape'
  <2>1. CASE Next
    BY <1>1, <2>1, Moves, TypeStep
  <2>2. CASE UNCHANGED vars
    <3>1. UNCHANGED <<tables, hw, nextGen, mailbox, ipi, proc, irq, panicked, calls>>
      BY <2>2 DEF vars
    <3>2. TypeOK'
      BY <1>1, <3>1 DEF TypeOK, tables, hw, mailbox, proc, irq
    <3>3. Shape'
      BY <1>1, <3>1 DEF Shape, mailbox, proc, irq
    <3> QED
      BY <3>2, <3>3
  <2> QED
    BY <1>1, <2>1, <2>2
<1> QED
  BY <1>1, InitTyped, PTL DEF Spec

------------------------------------------------------------------------------
\* No flush is made without PT_LOCK: the calls are munmap's and fork's.
Locked == \A c \in Cpus : <<"mprotect", c>> \notin Calls

CallPoints == {"collect", "post", "claimed", "published", "local", "wait"}
InCall(c) == pc[c] \in CallPoints
Flushing(c) == pc[c] \in CallPoints \ {"collect"}

\* CPU k holds no translation of p that the page table does not have, or is
\* about to drop them all; it is clean when that is so of c's pages.
Fresh(k, p) == pc[k] = "switch" \/ tlb[k][p] \in {"none", pte[p]}
Clean(c, k) == \A p \in page[c] : Fresh(k, p)

\* One call at a time, under PT_LOCK.
Exclusive == \A c \in Cpus : InCall(c) => ptLock = c

\* A CPU with another root has no translation of this one, and outside a switch
\* the root that dispatch reads is the one that is loaded.
RootsTracked ==
    \A c \in Cpus : /\ cr3[c] = "other" => \A p \in Pages : tlb[c][p] = "none"
                    /\ pc[c] # "switch" => cr3[c] = activeCr3[c]

\* No generation in a mailbox or a register is one still to be handed out.
Generations ==
    \A c \in Cpus : /\ ackGen[c] < nextGen /\ requestGen[c] < nextGen
                    /\ ival[c] < nextGen /\ gen[c] < nextGen
                    /\ \A s \in Slots : entry[c][s].g < nextGen

\* The call has edited its pages before it flushes.
Edited ==
    \A c \in Cpus : InCall(c) =>
        \A p \in page[c] : pte[p] # "rw" /\ (op[c] = "munmap" => pte[p] = "none")

\* A CPU the scan has passed over is clean.
Scanned ==
    \A c \in Cpus : InCall(c) => \A k \in Cpus \ {c} :
        k \notin targets[c] /\ (pc[c] = "collect" => k \notin todo[c]) => Clean(c, k)

\* A target that has acknowledged the generation, or is about to, is clean; an
\* entry of that generation covers the pages of the call.
Acked ==
    \A c \in Cpus : Flushing(c) => \A k \in targets[c] :
        /\ ackGen[k] >= gen[c] => Clean(c, k)
        /\ ipc[k] = "ack" /\ ival[k] >= gen[c] => Clean(c, k)
        /\ \A s \in Slots : entry[k][s].g >= gen[c] =>
               entry[k][s].range = {} \/ page[c] \subseteq entry[k][s].range

\* The caller's own CPU is clean once it has flushed.
Flushed == \A c \in Cpus : pc[c] = "wait" => Clean(c, c)

\* What the completed calls promised.
Gone == \A p \in freed : pte[p] = "none" /\ \A k \in Cpus : Fresh(k, p)
ReadOnly ==
    \A p \in sealed : pte[p] # "rw" /\ \A k \in Cpus : pc[k] = "switch" \/ tlb[k][p] # "rw"

IInv ==
    /\ TypeOK /\ Shape /\ Exclusive /\ RootsTracked /\ Generations /\ Edited
    /\ Scanned /\ Acked /\ Flushed /\ Gone /\ ReadOnly

(* It holds before the first call. *)
LEMMA InitInv == Init => IInv
<1> SUFFICES ASSUME Init PROVE IInv
  OBVIOUS
<1>1. \A c \in Cpus : pc[c] = "idle"
  BY DEF Init
<1>2. Exclusive /\ Edited /\ Scanned /\ Acked /\ Flushed
  BY <1>1 DEF Exclusive, Edited, Scanned, Acked, Flushed, InCall, Flushing, CallPoints
<1>3. RootsTracked
  BY DEF Init, RootsTracked
<1>4. Generations
  BY SMTT(30) DEF Init, Generations, Empty, NoGen
<1>5. Gone /\ ReadOnly
  BY DEF Init, Gone, ReadOnly
<1> QED
  BY <1>2, <1>3, <1>4, <1>5, InitTyped DEF IInv

(* A CPU enters and leaves the root switch only through its two steps. *)
LEMMA Switching ==
  ASSUME TypeOK, NEW c \in Cpus, Move(c)
  PROVE  /\ pc[c] = "switch" /\ pc'[c] # "switch" => SwitchLoad(c)
         /\ pc[c] # "switch" /\ pc'[c] = "switch" => \E r \in Roots : SwitchPublish(c, r)
<1>t. PointsT
  BY Parts
<1>1. CASE Hardware(c)
  <2>1. CASE \E p \in Pages : Fill(c, p)
    BY <2>1 DEF Fill, proc
  <2>2. CASE \E r \in Roots : SwitchPublish(c, r)
    <3>1. pc[c] = "idle"
      BY <2>2 DEF SwitchPublish, At
    <3> QED
      BY <2>2, <3>1
  <2>3. CASE SwitchLoad(c)
    <3>1. pc[c] = "switch"
      BY <2>3 DEF SwitchLoad, At
    <3> QED
      BY <2>3, <3>1
  <2> QED
    BY <1>1, <2>1, <2>2, <2>3 DEF Hardware
<1>2. CASE Posting(c)
  BY <1>t, <1>2 DEF Posting, CollectCpu, Generation, Claim, Publish, Requested, Saturated,
                    At, Goto, PointsT
<1>3. CASE Begin(c) \/ LocalFlush(c) \/ Return(c)
  BY <1>t, <1>3 DEF Begin, Call, LocalFlush, Return, At, Goto, PointsT
<1>4. CASE Waiting(c) \/ Handler(c)
  BY <1>t, <1>4, Frames DEF Waiting, SendIpis, Resend, Panic, At, Goto, PointsT, proc
<1> QED
  BY <1>1, <1>2, <1>3, <1>4 DEF Move

(* A call begins in Begin, takes its generation in Generation and, until it
   returns, keeps its operation and its pages. *)
LEMMA Calling ==
  ASSUME TypeOK, NEW c \in Cpus, Move(c)
  PROVE  /\ InCall(c)' => InCall(c) \/ Begin(c)
         /\ Flushing(c)' => Flushing(c) \/ Generation(c)
         /\ pc'[c] = "collect" => pc[c] = "collect" \/ Begin(c)
         /\ pc'[c] = "wait" => pc[c] = "wait" \/ LocalFlush(c)
         /\ InCall(c)' /\ ~Begin(c) => op'[c] = op[c] /\ page'[c] = page[c]
<1>t. PointsT
  BY Parts
<1>1. CASE Hardware(c)
  <2>1. op' = op /\ page' = page
    BY <1>1, Frames
  <2> QED
    BY <1>t, <1>1, <2>1 DEF Hardware, Fill, SwitchPublish, SwitchLoad, Goto, proc, PointsT,
                            InCall, Flushing, CallPoints
<1>2. CASE Posting(c)
  <2>1. op' = op /\ page' = page
    BY <1>2, Frames
  <2> QED
    BY <1>t, <1>2, <2>1 DEF Posting, CollectCpu, Generation, Claim, Publish, Requested, Saturated,
                            At, Goto, PointsT, InCall, Flushing, CallPoints
<1>3. CASE Begin(c)
  BY <1>t, <1>3 DEF Begin, Call, Goto, PointsT, Flushing, CallPoints
<1>4. CASE LocalFlush(c) \/ Return(c)
  BY <1>t, <1>4 DEF LocalFlush, Return, At, Goto, PointsT, InCall, Flushing, CallPoints
<1>5. CASE Waiting(c)
  <2>1. op' = op /\ page' = page
    BY <1>5, Frames
  <2> QED
    BY <1>t, <1>5, <2>1 DEF Waiting, SendIpis, Resend, Panic, At, Goto, proc, PointsT,
                            InCall, Flushing, CallPoints
<1>6. CASE Handler(c)
  BY <1>6, Frames DEF proc, InCall, Flushing
<1> QED
  BY <1>1, <1>2, <1>3, <1>4, <1>5, <1>6 DEF Move

------------------------------------------------------------------------------
(* The page table changes only when a call begins. *)
LEMMA TableKept ==
  ASSUME NEW c \in Cpus, Move(c), ~Begin(c)
  PROVE  pte' = pte
<1>1. LocalFlush(c) \/ Return(c) => pte' = pte
  BY DEF LocalFlush, Return, tables
<1> QED
  BY <1>1, Frames, Zenon DEF Move, tables

(* A translation comes from the page table or goes away, and a CPU that ends a
   root switch has dropped them all. *)
LEMMA Tame ==
  ASSUME TypeOK, NEW c \in Cpus, Move(c), NEW k \in Cpus, NEW p \in Pages
  PROVE  /\ tlb'[k][p] = tlb[k][p] \/ tlb'[k][p] = "none" \/ (tlb'[k][p] = pte[p] /\ cr3[k] = "user")
         /\ pc[k] = "switch" => pc'[k] = "switch" \/ tlb'[k][p] = "none"
<1>t. HardwareT /\ TablesT
  BY Parts
<1>1. CASE k # c
  <2>1. tlb'[k] = tlb[k] /\ pc'[k] = pc[k]
    BY <1>1, Own
  <2> QED
    BY <2>1
<1>2. CASE k = c
  <2>1. tlb'[c][p] = tlb[c][p] \/ tlb'[c][p] = "none" \/ (tlb'[c][p] = pte[p] /\ cr3[c] = "user")
    <3>1. CASE \E q \in Pages : Fill(c, q)
      BY <1>t, <3>1, SMTT(30) DEF Fill, HardwareT
    <3>2. CASE \E S : Drop(c, S)
      BY <1>t, <3>2, Dropped
    <3> QED
      BY <3>1, <3>2, Touches
  <2>2. SwitchLoad(c) => tlb'[c][p] = "none"
    BY <1>t, Dropped DEF SwitchLoad
  <2> QED
    BY <1>2, <2>1, <2>2, Switching
<1> QED
  BY <1>1, <1>2

(* What is fresh stays fresh until a call edits the page table. *)
LEMMA FreshKept ==
  ASSUME TypeOK, NEW c \in Cpus, Move(c), ~Begin(c), NEW k \in Cpus, NEW p \in Pages, Fresh(k, p)
  PROVE  Fresh(k, p)'
<1>1. pte'[p] = pte[p]
  BY TableKept
<1>2. CASE pc[k] = "switch"
  BY <1>2, Tame DEF Fresh
<1>3. CASE tlb[k][p] \in {"none", pte[p]}
  <2>1. tlb'[k][p] \in {"none", pte[p]}
    BY <1>3, Tame
  <2> QED
    BY <1>1, <2>1 DEF Fresh
<1> QED
  BY <1>2, <1>3 DEF Fresh

(* A CPU that is clean of a call's pages stays clean until a call edits the table. *)
LEMMA CleanKept ==
  ASSUME TypeOK, NEW c \in Cpus, Move(c), ~Begin(c), NEW d \in Cpus, NEW k \in Cpus,
         page'[d] = page[d], Clean(d, k)
  PROVE  Clean(d, k)'
<1>1. page[d] \in SUBSET Pages
  BY Parts DEF CallsT
<1> QED
  BY <1>1, FreshKept DEF Clean

(* A CPU that has lost its translations of the call's pages is clean. *)
LEMMA CleanDropped ==
  ASSUME TypeOK, NEW d \in Cpus, NEW k \in Cpus, NEW S, Drop(k, S), page[d] \subseteq S,
         page'[d] = page[d]
  PROVE  Clean(d, k)'
<1>1. page[d] \in SUBSET Pages /\ HardwareT
  BY Parts DEF CallsT
<1>2. \A p \in Pages : tlb'[k][p] = IF p \in S THEN "none" ELSE tlb[k][p]
  BY <1>1, Dropped
<1> QED
  BY <1>1, <1>2 DEF Clean, Fresh

(* A call that begins finds no other in progress. *)
LEMMA Alone ==
  ASSUME IInv, NEW c \in Cpus, Begin(c)
  PROVE  \A d \in Cpus : ~InCall(d)
<1>1. ptLock = NoCpu
  BY DEF Begin, Call
<1>2. NoCpu \notin Cpus
  BY CpuAssumption, SMTT(30) DEF NoCpu, Cpus
<1> QED
  BY <1>1, <1>2 DEF IInv, Exclusive

(* While a call is in progress no other begins, edits or returns. *)
LEMMA Sole ==
  ASSUME IInv, NEW c \in Cpus, NEW d \in Cpus, InCall(c), InCall(d)
  PROVE  c = d
BY DEF IInv, Exclusive

(* PT_LOCK, kept over the flush by sys_munmap and by fork's copy, lets in one call. *)
LEMMA ExclusiveStep ==
  ASSUME Locked, IInv, NEW c \in Cpus, Move(c)
  PROVE  Exclusive'
<1> SUFFICES ASSUME NEW d \in Cpus, InCall(d)' PROVE ptLock' = d
  BY DEF Exclusive
<1>t. TypeOK /\ PointsT
  BY Parts DEF IInv
<1>1. CASE Begin(c)
  <2>1. d = c
    BY <1>t, <1>1, Alone, Own DEF InCall
  <2>2. PICK o \in {"munmap", "mprotect", "fork"}, S \in SUBSET Pages :
          Call(c, o, S, Given(o), IF o = "mprotect" THEN NoCpu ELSE c)
    BY <1>1 DEF Begin
  <2>3. o # "mprotect"
    BY <2>2 DEF Call, Locked
  <2> QED
    BY <2>1, <2>2, <2>3 DEF Call
<1>2. CASE Return(c)
  <2>1. pc'[c] = "idle" /\ pc[c] = "wait"
    BY <1>t, <1>2 DEF Return, At, Goto, PointsT
  <2>2. d # c /\ InCall(c)
    BY <2>1 DEF InCall, CallPoints
  <2>3. InCall(d)
    BY <1>t, <2>2, Own DEF InCall
  <2> QED
    BY <2>2, <2>3, Sole
<1>3. CASE ~Begin(c) /\ ~Return(c)
  <2>1. InCall(d)
    BY <1>t, <1>3, Own, Calling DEF InCall
  <2>2. LocalFlush(c) => ptLock' = ptLock
    BY DEF LocalFlush, tables
  <2>3. ptLock' = ptLock
    BY <1>3, <2>2, Frames, Zenon DEF Move, tables
  <2> QED
    BY <2>1, <2>3 DEF IInv, Exclusive
<1> QED
  BY <1>1, <1>2, <1>3

(* activate_memory_space publishes the root before it loads it, and the load drops
   what the TLB held of the old one. *)
LEMMA RootsStep ==
  ASSUME IInv, NEW c \in Cpus, Move(c)
  PROVE  RootsTracked'
<1> SUFFICES ASSUME NEW k \in Cpus
             PROVE  /\ cr3'[k] = "other" => \A p \in Pages : tlb'[k][p] = "none"
                    /\ pc'[k] # "switch" => cr3'[k] = activeCr3'[k]
  BY DEF RootsTracked
<1>t. TypeOK /\ HardwareT /\ RootsTracked
  BY Parts DEF IInv
<1>1. CASE k # c
  <2>1. cr3'[k] = cr3[k] /\ activeCr3'[k] = activeCr3[k] /\ tlb'[k] = tlb[k] /\ pc'[k] = pc[k]
    BY <1>t, <1>1, Own
  <2> QED
    BY <1>t, <2>1 DEF RootsTracked
<1>2. CASE k = c /\ SwitchLoad(c)
  <2>1. \A p \in Pages : tlb'[c][p] = "none"
    BY <1>t, <1>2, Dropped DEF SwitchLoad
  <2>2. cr3'[c] = activeCr3[c] /\ activeCr3' = activeCr3
    BY <1>t, <1>2 DEF SwitchLoad, HardwareT
  <2> QED
    BY <1>2, <2>1, <2>2
<1>3. CASE k = c /\ ~SwitchLoad(c)
  <2>1. cr3' = cr3
    BY <1>3, Roots2 DEF SwitchPublish
  <2>2. pc'[c] # "switch" => activeCr3' = activeCr3
    <3>1. (\E r \in Roots : SwitchPublish(c, r)) => pc'[c] = "switch"
      BY <1>t, Parts DEF SwitchPublish, Goto, PointsT
    <3> QED
      BY <1>3, <3>1, Roots2
  <2>3. pc'[c] # "switch" => pc[c] # "switch"
    BY <1>t, <1>3, Switching
  <2>4. cr3[c] = "other" => \A p \in Pages : tlb'[c][p] = "none"
    BY <1>t, Tame, SMTT(30) DEF RootsTracked
  <2> QED
    BY <1>t, <1>3, <2>1, <2>2, <2>3, <2>4 DEF RootsTracked
<1> QED
  BY <1>1, <1>2, <1>3

(* Every generation in use was handed out by next_shootdown_generation. *)
LEMMA GenerationsStep ==
  ASSUME IInv, NEW c \in Cpus, Move(c)
  PROVE  Generations'
<1>t. TypeOK /\ Shape /\ Generations /\ GensT /\ QueuesT /\ CallsT
  BY Parts DEF IInv
<1>t2. GensT' /\ QueuesT'
  BY <1>t, GensStep, QueuesStep
<1>n. nextGen' \in {nextGen, nextGen + 1}
  <2>1. CASE Posting(c)
    BY <2>1 DEF Posting, CollectCpu, Generation, Claim, Publish, Requested, Saturated
  <2>2. CASE ~Posting(c)
    BY <2>2, Frames, Zenon DEF Move, LocalFlush, Return
  <2> QED
    BY <2>1, <2>2
<1>g. nextGen \in Nat /\ nextGen' \in Nat /\ nextGen <= nextGen'
  BY <1>t, <1>n, SMTT(30) DEF GensT
<1>o. \A k \in Cpus : \A n \in {requestGen[k], gen[k], ackGen[k], ival[k]} : n < nextGen'
  BY <1>t, <1>g, SMTT(30) DEF GensT, Generations
<1>1. ASSUME NEW k \in Cpus PROVE requestGen'[k] < nextGen'
  <2>1. CASE Requested(c) \/ Saturated(c)
    <3>1. todo[c] # {} /\ todo[c] \in SUBSET Cpus
      BY <1>t, <2>1 DEF Requested, Saturated, At, Shape, CallsT
    <3>2. Request(c, Lower(todo[c]))
      BY <2>1 DEF Requested, Saturated
    <3>3. requestGen' = [requestGen EXCEPT ![Lower(todo[c])] = Max2(requestGen[Lower(todo[c])], gen[c])]
      BY <1>t, <3>1, <3>2, LowerIn, Raised
    <3>4. requestGen'[k] \in {requestGen[k], gen[c]}
      BY <1>t, <3>3 DEF GensT, Max2
    <3> QED
      BY <1>o, <3>4
  <2>2. CASE requestGen' = requestGen
    BY <1>o, <2>2
  <2>3. Posting(c) => requestGen' = requestGen \/ Requested(c) \/ Saturated(c)
    BY Zenon DEF Posting, CollectCpu, Generation, Claim, Publish, mailbox
  <2>4. ~Posting(c) => requestGen' = requestGen
    BY Frames, Zenon DEF Move, LocalFlush, Return, mailbox
  <2> QED
    BY <2>1, <2>2, <2>3, <2>4
<1>2. ASSUME NEW k \in Cpus PROVE gen'[k] < nextGen'
  <2>1. CASE Generation(c)
    <3>1. \/ gen' = [gen EXCEPT ![c] = 0]
          \/ gen' = [gen EXCEPT ![c] = nextGen] /\ nextGen' = nextGen + 1
      BY <2>1 DEF Generation, NoGen
    <3>2. gen'[k] \in {gen[k], 0} \/ (gen'[k] = nextGen /\ nextGen' = nextGen + 1)
      BY <1>t, <3>1 DEF GensT
    <3>3. 0 < nextGen' /\ nextGen < nextGen + 1
      BY <1>t, <1>t2, SMTT(30) DEF GensT
    <3> QED
      BY <1>o, <3>2, <3>3
  <2>2. CASE Return(c)
    <3>1. gen'[k] \in {gen[k], 0}
      BY <1>t, <2>2 DEF Return, GensT, NoGen
    <3>2. 0 < nextGen'
      BY <1>t2, SMTT(30) DEF GensT
    <3> QED
      BY <1>o, <3>1, <3>2
  <2>3. CASE gen' = gen
    BY <1>o, <2>3
  <2>4. Posting(c) => gen' = gen \/ Generation(c)
    BY Zenon DEF Posting, CollectCpu, Claim, Publish, Requested, Saturated
  <2>5. ~Posting(c) /\ ~Return(c) => gen' = gen
    BY Frames, Zenon DEF Move, LocalFlush, proc
  <2> QED
    BY <2>1, <2>2, <2>3, <2>4, <2>5
<1>3. ASSUME NEW k \in Cpus PROVE ackGen'[k] < nextGen'
  <2>1. ackGen'[k] \in {ackGen[k], ival[k], gen[k]}
    <3>1. CASE k # c
      BY <1>t, <3>1, Own
    <3>2. CASE k = c /\ AckEntry(c)
      BY <1>t, <3>2 DEF AckEntry, GensT, Max2
    <3>3. CASE k = c /\ (GapFlush(c) \/ LocalFlush(c))
      BY <1>t, <3>3 DEF GapFlush, LocalFlush, GensT
    <3>4. Handler(c) => ackGen' = ackGen \/ AckEntry(c) \/ GapFlush(c)
      BY Zenon DEF Handler, TakeIpi, DrainEntry, ClearEntry, Drained, mailbox
    <3>5. ~Handler(c) => ackGen' = ackGen \/ LocalFlush(c)
      BY Frames, Zenon DEF Move, Return, mailbox
    <3> QED
      BY <3>1, <3>2, <3>3, <3>4, <3>5
  <2> QED
    BY <1>o, <2>1
<1>4. ASSUME NEW k \in Cpus PROVE ival'[k] < nextGen'
  <2>1. CASE k # c
    BY <1>t, <1>o, <2>1, Own
  <2>2. CASE k = c /\ DrainEntry(c)
    <3>1. head[c] % QueueLen \in Slots
      BY <1>t, SlotOf DEF QueuesT
    <3>2. entry[c][head[c] % QueueLen].g \in Nat /\ entry[c][head[c] % QueueLen].g < nextGen
      BY <1>t, <3>1 DEF QueuesT, Generations
    <3>3. ival'[c] = entry[c][head[c] % QueueLen].g
      BY <1>t, <2>2 DEF DrainEntry, GensT
    <3> QED
      BY <1>g, <1>n, <2>2, <3>2, <3>3, SMTT(30)
  <2>3. CASE k = c /\ (Drained(c) \/ GapFlush(c))
    <3>1. ival'[c] = requestGen[c] \/ ival'[c] = 0
      BY <1>t, <2>3 DEF Drained, GapFlush, GensT, NoGen
    <3>2. 0 < nextGen
      BY <1>t, SMTT(30) DEF GensT
    <3> QED
      BY <1>o, <1>g, <2>3, <3>1, <3>2, SMTT(30)
  <2>4. CASE ival' = ival
    BY <1>o, <2>4
  <2>5. Handler(c) => ival' = ival \/ DrainEntry(c) \/ Drained(c) \/ GapFlush(c)
    BY Zenon DEF Handler, TakeIpi, AckEntry, ClearEntry
  <2>6. ~Handler(c) => ival' = ival
    BY Frames, Zenon DEF Move, LocalFlush, Return, irq
  <2> QED
    BY <2>1, <2>2, <2>3, <2>4, <2>5, <2>6
<1>5. ASSUME NEW k \in Cpus, NEW s \in Slots PROVE entry'[k][s].g < nextGen'
  <2>1. entry'[k][s].g \in {entry[k][s].g, gen[c], 0}
    <3>1. CASE Publish(c)
      BY <1>t, <3>1 DEF Publish, QueuesT
    <3>2. CASE ClearEntry(c)
      <4>1. entry[c][head[c] % QueueLen] \in [g : Nat, range : SUBSET Pages]
        BY <1>t, SlotOf DEF QueuesT
      <4> QED
        BY <1>t, <3>2, <4>1 DEF ClearEntry, QueuesT, NoGen
    <3>3. Claim(c) => entry' = entry
      BY DEF Claim
    <3> QED
      BY <3>1, <3>2, <3>3, QueueTouches
  <2>2. entry[k][s].g \in Nat /\ entry[k][s].g < nextGen /\ gen[c] \in Nat /\ gen[c] < nextGen /\ 0 < nextGen
    BY <1>t, SMTT(30) DEF QueuesT, GensT, Generations
  <2> QED
    BY <1>g, <1>n, <2>1, <2>2, SMTT(30)
<1> QED
  BY <1>1, <1>2, <1>3, <1>4, <1>5 DEF Generations

(* A call edits its page-table entries before it flushes, and no one restores them
   meanwhile. *)
LEMMA EditedStep ==
  ASSUME IInv, NEW c \in Cpus, Move(c)
  PROVE  Edited'
<1> SUFFICES ASSUME NEW d \in Cpus, InCall(d)'
             PROVE  \A p \in page'[d] : pte'[p] # "rw" /\ (op'[d] = "munmap" => pte'[p] = "none")
  BY DEF Edited
<1>t. TypeOK /\ TablesT /\ CallsT
  BY Parts DEF IInv
<1>1. CASE Begin(c)
  <2>1. d = c
    BY <1>t, <1>1, Alone, Own DEF InCall
  <2>2. PICK o \in {"munmap", "mprotect", "fork"}, S \in SUBSET Pages :
          Call(c, o, S, Given(o), IF o = "mprotect" THEN NoCpu ELSE c)
    BY <1>1 DEF Begin
  <2>3. page'[c] = S /\ op'[c] = o
    BY <1>t, <2>2 DEF Call, CallsT
  <2>4. \A p \in S : pte'[p] = IF pte[p] # "none" THEN Given(o) ELSE pte[p]
    BY <2>2 DEF Call
  <2>5. Given(o) # "rw" /\ (o = "munmap" => Given(o) = "none")
    BY DEF Given
  <2> QED
    BY <2>1, <2>3, <2>4, <2>5
<1>2. CASE ~Begin(c)
  <2>1. InCall(d) /\ op'[d] = op[d] /\ page'[d] = page[d]
    BY <1>t, <1>2, Own, Calling DEF InCall
  <2>2. pte' = pte
    BY <1>2, TableKept
  <2> QED
    BY <2>1, <2>2 DEF IInv, Edited
<1> QED
  BY <1>1, <1>2

(* A call that waits has flushed its own CPU. *)
LEMMA FlushedStep ==
  ASSUME IInv, NEW c \in Cpus, Move(c)
  PROVE  Flushed'
<1> SUFFICES ASSUME NEW d \in Cpus, pc'[d] = "wait" PROVE Clean(d, d)'
  BY DEF Flushed
<1>t. TypeOK /\ CallsT /\ PointsT
  BY Parts DEF IInv
<1>c. InCall(d)'
  BY DEF InCall, CallPoints
<1>1. CASE d = c /\ LocalFlush(c)
  <2>1. PICK S : Drop(c, S) /\ page[c] \subseteq S
    BY <1>t, <1>1 DEF LocalFlush, CallsT
  <2>2. page' = page
    BY <1>1 DEF LocalFlush
  <2> QED
    BY <1>t, <1>1, <2>1, <2>2, CleanDropped
<1>2. CASE ~(d = c /\ LocalFlush(c))
  <2>1. pc[d] = "wait" /\ ~Begin(c)
    <3>1. CASE Begin(c)
      <4>1. pc'[c] = "collect"
        BY <1>t, <3>1 DEF Begin, Call, Goto, PointsT
      <4>2. d # c
        BY <4>1
      <4>3. InCall(d)
        BY <1>t, <1>c, <4>2, Own DEF InCall
      <4> QED
        BY <3>1, <4>3, Alone
    <3>2. CASE ~Begin(c)
      BY <1>t, <1>2, <3>2, Own, Calling
    <3> QED
      BY <3>1, <3>2
  <2>2. page'[d] = page[d]
    BY <1>t, <1>c, <2>1, Own, Calling
  <2>3. Clean(d, d)
    BY <2>1 DEF IInv, Flushed
  <2> QED
    BY <1>t, <2>1, <2>2, <2>3, CleanKept
<1> QED
  BY <1>1, <1>2

(* A CPU that collect_target_cpus passed over had another root, and takes up the user
   root only with an empty TLB. *)
LEMMA ScannedStep ==
  ASSUME IInv, NEW c \in Cpus, Move(c)
  PROVE  Scanned'
<1> SUFFICES ASSUME NEW d \in Cpus, InCall(d)', NEW k \in Cpus \ {d}, k \notin targets'[d],
                    pc'[d] = "collect" => k \notin todo'[d]
             PROVE  Clean(d, k)'
  BY DEF Scanned
<1>t. TypeOK /\ HardwareT /\ CallsT /\ PointsT /\ Shape
  BY Parts DEF IInv
<1>1. CASE Begin(c)
  <2>1. d = c
    BY <1>t, <1>1, Alone, Own DEF InCall
  <2>2. pc'[c] = "collect" /\ todo'[c] = Cpus \ {c}
    BY <1>t, <1>1, SMTT(30) DEF Begin, Call, Goto, PointsT, CallsT
  <2> QED
    BY <2>1, <2>2
<1>2. CASE ~Begin(c)
  <2>1. InCall(d) /\ page'[d] = page[d]
    BY <1>t, <1>2, Own, Calling DEF InCall
  <2>2. Clean(d, k) => Clean(d, k)'
    BY <1>t, <1>2, <2>1, CleanKept
  <2>3. k \notin targets[d] /\ (pc[d] = "collect" => k \notin todo[d]) => Clean(d, k)
    BY <2>1 DEF IInv, Scanned
  <2>4. CASE d = c /\ CollectCpu(c)
    <3> DEFINE j == Lower(todo[c])
    <3>1. pc[c] = "collect" /\ pc' = pc
      BY <2>4 DEF CollectCpu, At
    <3>2. todo'[c] = todo[c] \ {j}
          /\ targets'[c] = IF activeCr3[j] = "user" THEN targets[c] \cup {j} ELSE targets[c]
      BY <1>t, <2>4 DEF CollectCpu, CallsT
    <3> HIDE DEF j
    <3>3. CASE k # j
      BY <2>2, <2>3, <2>4, <3>1, <3>2, <3>3
    <3>4. CASE k = j
      <4>1. activeCr3[k] = "other"
        BY <1>t, <2>4, <3>2, <3>4 DEF HardwareT, Roots
      <4>2. pc[k] = "switch" \/ \A p \in Pages : tlb[k][p] = "none"
        BY <4>1 DEF IInv, RootsTracked
      <4>3. page[d] \in SUBSET Pages
        BY <1>t DEF CallsT
      <4>4. Clean(d, k)
        BY <4>2, <4>3 DEF Clean, Fresh
      <4> QED
        BY <2>2, <4>4
    <3> QED
      BY <3>3, <3>4
  <2>5. CASE d = c /\ Generation(c)
    <3>1. pc[c] = "collect" /\ todo[c] = {}
      BY <2>5 DEF Generation, At
    <3>2. targets[c] \subseteq targets'[c]
      BY <1>t, <2>5 DEF Generation, CallsT
    <3> QED
      BY <2>2, <2>3, <2>5, <3>1, <3>2
  <2>6. CASE ~(d = c /\ (CollectCpu(c) \/ Generation(c)))
    <3>1. targets'[d] = targets[d] /\ (pc[d] = "collect" => pc'[d] = "collect" /\ todo'[d] = todo[d])
      <4>1. CASE d # c
        BY <1>t, <4>1, Own
      <4>2. CASE d = c
        <5>1. CASE Posting(c)
          BY <2>6, <4>2, <5>1 DEF Posting, Claim, Publish, Requested, Saturated, At
        <5>2. CASE Waiting(c) \/ LocalFlush(c)
          BY <4>2, <5>2, Frames DEF Waiting, SendIpis, Resend, Panic, LocalFlush, At
        <5>3. CASE Return(c)
          <6>1. pc'[c] = "idle"
            BY <1>t, <5>3 DEF Return, Goto, PointsT
          <6> QED
            BY <4>2, <6>1 DEF InCall, CallPoints
        <5>4. CASE Hardware(c)
          <6>1. targets' = targets /\ todo' = todo
            BY <5>4, Frames
          <6>2. pc[c] = "collect" => pc' = pc
            BY <5>4 DEF Hardware, Fill, SwitchPublish, SwitchLoad, At, proc
          <6> QED
            BY <4>2, <6>1, <6>2
        <5>5. CASE Handler(c)
          BY <4>2, <5>5, Frames DEF proc
        <5> QED
          BY <1>2, <5>1, <5>2, <5>3, <5>4, <5>5 DEF Move
      <4> QED
        BY <4>1, <4>2
    <3> QED
      BY <2>2, <2>3, <3>1
  <2> QED
    BY <2>4, <2>5, <2>6
<1> QED
  BY <1>1, <1>2

\* The part of Acked that is about one target k of the call on c.
AckedBy(c, k) ==
    /\ ackGen[k] >= gen[c] => Clean(c, k)
    /\ ipc[k] = "ack" /\ ival[k] >= gen[c] => Clean(c, k)
    /\ \A s \in Slots : entry[k][s].g >= gen[c] =>
           entry[k][s].range = {} \/ page[c] \subseteq entry[k][s].range

(* The handler acknowledges a generation on CPU k only after it has flushed. *)
LEMMA HandlerAcks ==
  ASSUME IInv, NEW d \in Cpus, NEW k \in Cpus, Handler(k), AckedBy(d, k)
  PROVE  AckedBy(d, k)'
<1>t. TypeOK /\ HardwareT /\ QueuesT /\ GensT /\ CallsT /\ PointsT
  BY Parts DEF IInv
<1>m. Move(k) /\ ~Begin(k)
  <2>1. Handler(k) => UNCHANGED calls
    BY Frames
  <2>2. Begin(k) => calls' = calls + 1
    BY DEF Begin, Call
  <2> QED
    BY <1>t, <2>1, <2>2, SMTT(30) DEF Move, CallsT
<1>u. page' = page /\ gen' = gen /\ gen[d] \in Nat /\ page[d] \in SUBSET Pages
  BY <1>t, Frames DEF proc, GensT, CallsT
<1>k. Clean(d, k) => Clean(d, k)'
  BY <1>t, <1>m, <1>u, CleanKept
<1>1. CASE DrainEntry(k)
  <2> DEFINE e == entry[k][head[k] % QueueLen]
             S == IF e.range = {} \/ cr3[k] # "user" THEN Pages ELSE e.range
  <2>1. Drop(k, S) /\ ival' = [ival EXCEPT ![k] = e.g] /\ UNCHANGED <<ackGen, entry>>
    BY <1>1 DEF DrainEntry, mailbox
  <2>2. e.g >= gen[d] => e.range = {} \/ page[d] \subseteq e.range
    BY <1>t, SlotOf DEF QueuesT, AckedBy
  <2>3. ival'[k] = e.g
    BY <1>t, <2>1 DEF GensT
  <2>4. e.g >= gen[d] => page[d] \subseteq S
    BY <1>u, <2>2
  <2> HIDE DEF e, S
  <2>5. e.g >= gen[d] => Clean(d, k)'
    BY <1>t, <1>u, <2>1, <2>4, CleanDropped
  <2> QED
    BY <1>u, <1>k, <2>1, <2>3, <2>5 DEF AckedBy
<1>2. CASE AckEntry(k)
  <2>1. ipc[k] = "ack" /\ ipc'[k] = "clear" /\ entry' = entry
    BY <1>t, <1>2 DEF AckEntry, InIrq, PointsT
  <2>2. ackGen'[k] \in {ackGen[k], ival[k]}
    BY <1>t, <1>2 DEF AckEntry, GensT, Max2
  <2> QED
    BY <1>u, <1>k, <2>1, <2>2 DEF AckedBy
<1>3. CASE ClearEntry(k)
  <2> DEFINE s == head[k] % QueueLen
  <2>1. s \in Slots /\ entry[k][s] \in [g : Nat, range : SUBSET Pages]
    BY <1>t, SlotOf DEF QueuesT
  <2>2. entry' = [entry EXCEPT ![k][s].g = NoGen] /\ ackGen' = ackGen
    BY <1>3 DEF ClearEntry
  <2>3. ipc'[k] = "drain"
    BY <1>t, <1>3 DEF ClearEntry, PointsT
  <2> HIDE DEF s
  <2>4. \A q \in Slots : entry'[k][q].range = entry[k][q].range
                         /\ (entry'[k][q].g >= gen[d] => entry[k][q].g >= gen[d])
    <3> SUFFICES ASSUME NEW q \in Slots
                 PROVE  entry'[k][q].range = entry[k][q].range
                        /\ (entry'[k][q].g >= gen[d] => entry[k][q].g >= gen[d])
      OBVIOUS
    <3>1. CASE q # s
      <4>1. entry'[k][q] = entry[k][q]
        BY <1>t, <2>1, <2>2, <3>1 DEF QueuesT
      <4> QED
        BY <4>1
    <3>2. CASE q = s
      <4>1. entry'[k][q] = [entry[k][s] EXCEPT !.g = NoGen]
        BY <1>t, <2>1, <2>2, <3>2 DEF QueuesT
      <4>2. entry'[k][q].range = entry[k][s].range /\ entry'[k][q].g = 0
        BY <2>1, <4>1 DEF NoGen
      <4>3. entry[k][s].g \in Nat
        BY <2>1
      <4> QED
        BY <1>u, <3>2, <4>2, <4>3, SMTT(30)
    <3> QED
      BY <3>1, <3>2
  <2> QED
    BY <1>u, <1>k, <2>2, <2>3, <2>4 DEF AckedBy
<1>4. CASE TakeIpi(k) \/ Drained(k)
  <2>1. ipc'[k] \in {"drain", "gap"} /\ UNCHANGED <<ackGen, entry>>
    BY <1>t, <1>4 DEF TakeIpi, Drained, PointsT, mailbox
  <2> QED
    BY <1>u, <1>k, <2>1 DEF AckedBy
<1>5. CASE GapFlush(k)
  <2>1. ipc'[k] = "off" /\ entry' = entry
    BY <1>t, <1>5 DEF GapFlush, PointsT
  <2>2. CASE Drop(k, Pages)
    BY <1>t, <1>u, <2>1, <2>2, CleanDropped DEF AckedBy
  <2>3. CASE ackGen' = ackGen
    BY <1>u, <1>k, <2>1, <2>3 DEF AckedBy
  <2> QED
    BY <1>5, <2>2, <2>3 DEF GapFlush
<1> QED
  BY <1>1, <1>2, <1>3, <1>4, <1>5 DEF Handler

(* A CPU outside any call posts, flushes and returns nothing. *)
LEMMA Outside ==
  ASSUME NEW c \in Cpus, Move(c), ~InCall(c), ~Begin(c)
  PROVE  Hardware(c) \/ Handler(c)
<1>1. ~Posting(c)
  BY DEF Posting, CollectCpu, Generation, Claim, Publish, Requested, Saturated, At, InCall, CallPoints
<1>2. ~Waiting(c) /\ ~LocalFlush(c) /\ ~Return(c)
  BY DEF Waiting, SendIpis, Resend, Panic, LocalFlush, Return, At, InCall, CallPoints
<1> QED
  BY <1>1, <1>2 DEF Move

(* An acknowledgement of a call's generation is given by a target that has flushed
   the call's pages. *)
LEMMA AckedStep ==
  ASSUME IInv, NEW c \in Cpus, Move(c)
  PROVE  Acked'
<1> SUFFICES ASSUME NEW d \in Cpus, Flushing(d)', NEW k \in targets'[d] PROVE AckedBy(d, k)'
  BY DEF Acked, AckedBy
<1>t. TypeOK /\ HardwareT /\ QueuesT /\ GensT /\ CallsT /\ PointsT /\ Shape
  BY Parts DEF IInv
<1>t2. CallsT'
  BY <1>t, CallsStep
<1>kc. k \in Cpus /\ InCall(d)' /\ pc'[d] # "collect"
  BY <1>t2 DEF CallsT, Flushing, InCall
<1>b. ~Begin(c)
  <2> SUFFICES ASSUME Begin(c) PROVE FALSE
    OBVIOUS
  <2>1. pc'[c] = "collect"
    BY <1>t DEF Begin, Call, Goto, PointsT
  <2>2. InCall(d)
    BY <1>t, <1>kc, <2>1, Own DEF InCall
  <2> QED
    BY <2>2, Alone
<1>p. InCall(d) /\ page'[d] = page[d]
  BY <1>t, <1>b, <1>kc, Own, Calling DEF InCall
<1>1. CASE d = c /\ Generation(c)
  <2>1. gen'[c] = nextGen /\ UNCHANGED <<ackGen, ival, entry>>
    <3>1. targets'[c] # {}
      BY <1>1
    <3>2. gen'[c] = nextGen
      BY <1>t, <1>1, <3>1 DEF Generation, GensT, CallsT
    <3> QED
      BY <1>1, <3>2 DEF Generation, mailbox, irq
  <2>2. ackGen[k] < nextGen /\ ival[k] < nextGen /\ \A s \in Slots : entry[k][s].g < nextGen
    BY <1>kc DEF IInv, Generations
  <2>3. nextGen \in Nat /\ ackGen[k] \in Nat /\ ival[k] \in Nat /\ \A s \in Slots : entry[k][s].g \in Nat
    BY <1>t, <1>kc DEF GensT, QueuesT
  <2> QED
    BY <1>1, <2>1, <2>2, <2>3, SMTT(30) DEF AckedBy
<1>2. CASE ~(d = c /\ Generation(c))
  <2>1. Flushing(d)
    BY <1>t, <1>2, Own, Calling DEF Flushing
  <2>2. targets'[d] = targets[d] /\ gen'[d] = gen[d]
    <3>1. CASE d # c
      BY <1>t, <3>1, Own
    <3>2. CASE d = c
      <4>1. CASE Posting(c)
        BY <1>2, <2>1, <3>2, <4>1 DEF Posting, CollectCpu, Claim, Publish, Requested, Saturated,
                                      At, Flushing
      <4>2. CASE Return(c)
        <5>1. pc'[c] = "idle"
          BY <1>t, <4>2 DEF Return, Goto, PointsT
        <5> QED
          BY <3>2, <5>1 DEF Flushing, CallPoints
      <4>3. CASE ~Posting(c) /\ ~Return(c)
        BY <1>b, <3>2, <4>3, Frames DEF Move, LocalFlush, proc
      <4> QED
        BY <4>1, <4>2, <4>3
    <3> QED
      BY <3>1, <3>2
  <2>3. AckedBy(d, k)
    BY <2>1, <2>2 DEF IInv, Acked, AckedBy
  <2>4. Clean(d, k) => Clean(d, k)'
    BY <1>t, <1>b, <1>kc, <1>p, CleanKept
  <2>5. CASE k = c
    <3>1. k # d
      BY <1>t, <2>2 DEF Shape
    <3>2. ~InCall(c)
      BY <1>p, <2>5, <3>1, Sole
    <3>3. CASE Handler(c)
      BY <1>kc, <2>3, <2>5, <3>3, HandlerAcks
    <3>4. CASE Hardware(c)
      <4>1. UNCHANGED <<ackGen, entry, ipc, ival>>
        BY <3>4, Frames DEF mailbox, irq
      <4> QED
        BY <1>p, <2>2, <2>3, <2>4, <4>1 DEF AckedBy
    <3> QED
      BY <1>b, <3>2, <3>3, <3>4, Outside
  <2>6. CASE k # c
    <3>1. ackGen'[k] = ackGen[k] /\ ipc'[k] = ipc[k] /\ ival'[k] = ival[k]
      BY <1>t, <1>kc, <2>6, Own
    <3>2. CASE Publish(c)
      <4>1. c = d
        <5>1. InCall(c)
          BY <3>2 DEF Publish, At, InCall, CallPoints
        <5> QED
          BY <1>p, <5>1, Sole
      <4> DEFINE e == [g |-> gen[c], range |-> IF op[c] = "fork" THEN {} ELSE page[c]]
      <4>2. entry' = [entry EXCEPT ![Lower(todo[c])][slot[c]] = e]
        BY <3>2 DEF Publish
      <4>3. e.range = {} \/ page[c] \subseteq e.range
        OBVIOUS
      <4> HIDE DEF e
      <4>4. \A s \in Slots : entry'[k][s] = entry[k][s] \/ entry'[k][s] = e
        BY <1>t, <1>kc, <4>2 DEF QueuesT
      <4>5. \A s \in Slots : entry'[k][s].g >= gen[d] =>
               entry'[k][s].range = {} \/ page[d] \subseteq entry'[k][s].range
        BY <2>3, <4>1, <4>3, <4>4 DEF AckedBy
      <4> QED
        BY <1>p, <2>2, <2>3, <2>4, <3>1, <4>5 DEF AckedBy
    <3>3. CASE entry'[k] = entry[k]
      BY <1>p, <2>2, <2>3, <2>4, <3>1, <3>3 DEF AckedBy
    <3>4. ClearEntry(c) => entry'[k] = entry[k]
      BY <1>t, <1>kc, <2>6 DEF ClearEntry, QueuesT
    <3>5. Claim(c) => entry' = entry
      BY DEF Claim
    <3> QED
      BY <3>2, <3>3, <3>4, <3>5, QueueTouches
  <2> QED
    BY <2>5, <2>6
<1> QED
  BY <1>1, <1>2

(* When every target has acknowledged, no CPU has an old translation. *)
LEMMA AllClean ==
  ASSUME IInv, NEW c \in Cpus, Return(c), NEW k \in Cpus
  PROVE  Clean(c, k)
<1>t. GensT /\ CallsT
  BY Parts DEF IInv
<1>1. pc[c] = "wait" /\ Unacked(c) = {}
  BY DEF Return, At
<1>2. InCall(c) /\ Flushing(c)
  BY <1>1 DEF InCall, Flushing, CallPoints
<1>3. CASE k = c
  BY <1>1, <1>3 DEF IInv, Flushed
<1>4. CASE k # c /\ k \notin targets[c]
  BY <1>1, <1>2, <1>4 DEF IInv, Scanned
<1>5. CASE k \in targets[c]
  <2>1. ackGen[k] >= gen[c]
    BY <1>t, <1>1, <1>5, SMTT(30) DEF Unacked, GensT
  <2> QED
    BY <1>2, <1>5, <2>1 DEF IInv, Acked
<1> QED
  BY <1>3, <1>4, <1>5

(* A page whose frame sys_munmap has given back stays out of the table and of every
   TLB. *)
LEMMA GoneStep ==
  ASSUME IInv, NEW c \in Cpus, Move(c)
  PROVE  Gone'
<1> SUFFICES ASSUME NEW p \in freed', NEW k \in Cpus PROVE pte'[p] = "none" /\ Fresh(k, p)'
  BY CpuAssumption DEF Gone, Cpus
<1>t. TypeOK /\ TablesT /\ CallsT /\ PointsT
  BY Parts DEF IInv
<1>p. p \in Pages
  BY <1>t, TablesStep DEF TablesT
<1>1. CASE p \in freed
  <2>1. pte[p] = "none" /\ Fresh(k, p)
    BY <1>1 DEF IInv, Gone
  <2>2. CASE Begin(c)
    <3>1. pte'[p] = pte[p] /\ tlb' = tlb
      BY <1>p, <2>1, <2>2 DEF Begin, Call, hw
    <3>2. pc[k] = "switch" => pc'[k] = "switch"
      BY <1>t, <2>2 DEF Begin, Call, At, Goto, PointsT
    <3> QED
      BY <2>1, <3>1, <3>2 DEF Fresh
  <2>3. CASE ~Begin(c)
    BY <1>t, <1>p, <2>1, <2>3, TableKept, FreshKept
  <2> QED
    BY <2>2, <2>3
<1>2. CASE p \notin freed
  <2>1. Return(c) /\ op[c] = "munmap" /\ p \in page[c]
    <3>1. ~Return(c) => freed' = freed
      BY Frames, Zenon DEF Move, LocalFlush, tables
    <3> QED
      BY <1>2, <3>1 DEF Return
  <2>2. InCall(c) /\ ~Begin(c)
    BY <2>1 DEF Return, Begin, Call, At, InCall, CallPoints
  <2>3. pte[p] = "none" /\ Fresh(k, p)
    BY <2>1, <2>2, AllClean DEF IInv, Edited, Clean
  <2> QED
    BY <1>t, <1>p, <2>2, <2>3, TableKept, FreshKept
<1> QED
  BY <1>1, <1>2

(* A page that fork has write-protected stays so in the table and in every TLB. *)
LEMMA ReadOnlyStep ==
  ASSUME IInv, NEW c \in Cpus, Move(c)
  PROVE  ReadOnly'
<1> SUFFICES ASSUME NEW p \in sealed', NEW k \in Cpus
             PROVE  pte'[p] # "rw" /\ (pc'[k] = "switch" \/ tlb'[k][p] # "rw")
  BY CpuAssumption DEF ReadOnly, Cpus
<1>t. TypeOK /\ TablesT /\ CallsT /\ PointsT
  BY Parts DEF IInv
<1>p. p \in Pages
  BY <1>t, TablesStep DEF TablesT
<1>k. pte[p] # "rw" /\ (pc[k] = "switch" \/ tlb[k][p] # "rw") => pc'[k] = "switch" \/ tlb'[k][p] # "rw"
  BY <1>t, <1>p, Tame
<1>g. pte[p] # "rw" => pte'[p] # "rw"
  <2>1. CASE Begin(c)
    BY <1>p, <2>1 DEF Begin, Call, Given
  <2>2. CASE ~Begin(c)
    BY <2>2, TableKept
  <2> QED
    BY <2>1, <2>2
<1>1. CASE p \in sealed
  BY <1>1, <1>k, <1>g DEF IInv, ReadOnly
<1>2. CASE p \notin sealed
  <2>1. Return(c) /\ p \in page[c]
    <3>1. ~Return(c) => sealed' = sealed
      BY Frames, Zenon DEF Move, LocalFlush, tables
    <3> QED
      BY <1>2, <3>1 DEF Return
  <2>2. InCall(c)
    BY <2>1 DEF Return, At, InCall, CallPoints
  <2>3. pte[p] # "rw" /\ Fresh(k, p)
    BY <2>1, <2>2, AllClean DEF IInv, Edited, Clean
  <2> QED
    BY <1>k, <1>g, <2>3 DEF Fresh
<1> QED
  BY <1>1, <1>2

------------------------------------------------------------------------------
(* Every step keeps the invariant: the call edits before it scans, scans before
   it posts, flushes before it waits, and the handler flushes before it
   acknowledges. *)
THEOREM Inductive ==
  ASSUME Locked, IInv, [Next]_vars
  PROVE  IInv'
<1>1. CASE Next
  <2>1. PICK c \in Cpus : Move(c)
    BY <1>1, Moves
  <2>2. TypeOK' /\ Shape'
    BY <2>1, TypeStep DEF IInv
  <2>3. Exclusive' /\ RootsTracked' /\ Generations' /\ Edited'
    BY <2>1, ExclusiveStep, RootsStep, GenerationsStep, EditedStep
  <2>4. Scanned' /\ Acked' /\ Flushed' /\ Gone' /\ ReadOnly'
    BY <2>1, ScannedStep, AckedStep, FlushedStep, GoneStep, ReadOnlyStep
  <2> QED
    BY <2>2, <2>3, <2>4 DEF IInv
<1>2. CASE UNCHANGED vars
  <2>1. UNCHANGED <<tables, hw, nextGen, mailbox, ipi, proc, irq, panicked, calls>>
    BY <1>2 DEF vars
  <2>2. TypeOK' /\ Shape'
    BY <2>1 DEF IInv, TypeOK, Shape, tables, hw, mailbox, proc, irq
  <2>3. Exclusive' /\ RootsTracked' /\ Generations' /\ Edited'
    BY <2>1 DEF IInv, Exclusive, RootsTracked, Generations, Edited, InCall, tables, hw, mailbox, proc, irq
  <2>4. Scanned' /\ Acked' /\ Flushed'
    BY <2>1 DEF IInv, Scanned, Acked, Flushed, InCall, Flushing, Clean, Fresh, tables, hw, mailbox, proc, irq
  <2>5. Gone' /\ ReadOnly'
    BY <2>1 DEF IInv, Gone, ReadOnly, Fresh, tables, hw, proc
  <2> QED
    BY <2>2, <2>3, <2>4, <2>5 DEF IInv
<1> QED
  BY <1>1, <1>2

(* When every flush is made under PT_LOCK, no CPU can use a translation of a
   page whose frame munmap has given back. *)
THEOREM FramesUnreachable ==
  ASSUME Locked
  PROVE  Spec => []NoStaleFrame
<1>1. IInv => NoStaleFrame
  BY DEF IInv, NoStaleFrame, Gone, Fresh, Usable
<1>2. IInv /\ [Next]_vars => IInv'
  BY Inductive
<1> QED
  BY <1>1, <1>2, InitInv, PTL DEF Spec

(* When every flush is made under PT_LOCK, no CPU can write a page after fork
   has write-protected it and returned. *)
THEOREM WritesStopped ==
  ASSUME Locked
  PROVE  Spec => []WriteProtected
<1>1. IInv => WriteProtected
  BY DEF IInv, WriteProtected, ReadOnly, Usable
<1>2. IInv /\ [Next]_vars => IInv'
  BY Inductive
<1> QED
  BY <1>1, <1>2, InitInv, PTL DEF Spec

=============================================================================
