------------------------- MODULE Ext2JournalProofs -------------------------
(* That the metadata journal survives any crash, torn write and device error,
   for any homes, plans and sequence numbers and any number of transactions:
   recovery accepts what it finds and replays no stale transaction, and the
   journal implements the atomic store.  The invariant and the writer's part of
   it are in Ext2WriterProofs; here are the mount, the device and the theorems. *)
EXTENDS Ext2WriterProofs

\* The leaves are for Zenon, but for those that name SMT.
USE Zenon

------------------------------------------------------------------------------
\* The steps of the mount and of the device.

\* Mount: what it finds decides how it goes on, and a count out of its bounds is
\* all it refuses.
LEMMA MountStart ==
    ASSUME IInv, Mount
    PROVE  IInv'
<1>1. pc = "down"
  BY DEF Mount
<1>2. PICK k, s, p, c : Mounting(k, s, p, c)
  BY <1>1, MountingAt DEF Running
<1> DEFINE t == Len(ledger)
<1>3. /\ live = media /\ Args(k, s, p, c, t) /\ Ok(k, live, s, p, c, t) /\ t \in Nat
      /\ p \in Plans \union {<< >>} /\ s \in 0 .. Top
      /\ Books /\ Registers /\ pc \notin Running /\ pc # "poisoned"
  BY <1>1, <1>2 DEF Mounting, WrittenAt, Settled
<1>0. PICK d, q : d = Value(k, live, s, p, c, t) /\ q = SeqOf(live)
  OBVIOUS
<1>4. /\ d \in Maps(t)
      /\ \/ Quiet(live, d, t)
         \/ Full(live, s, p, c, t) /\ k \in {"commit", "home", "clear"} /\ d = After(p, c, t)
  BY <1>0, <1>3, OkShape, SMTT(30)
<1>5. /\ live' = live /\ media' = media /\ jrnl' = jrnl /\ mem' = mem /\ ledger' = ledger
      /\ errors' = errors /\ crashes' = crashes
  BY DEF Mount
<1>6. errors' \in 0 .. MaxErrors
  BY <1>3, <1>5, ErrorBound
<1>7. /\ pc' = CASE ~Accepts(live) -> "refused"
                 [] Accepts(live) /\ StartOf(live) = 0 ->
                        IF HasIntent(live) THEN "feature" ELSE "intent"
                 [] Accepts(live) /\ StartOf(live) # 0 ->
                        IF Plan(live).homes = << >> THEN "reset" ELSE "replay"
      /\ job' = IF StartOf(live) # 0 /\ Accepts(live) THEN Plan(live) ELSE NoJob
  BY DEF Mount, Goto
<1>8. CASE Legible(live) /\ Quiet(live, d, t)
  <2>1. /\ Accepts(live)
        /\ Plan(live) = [next |-> q, homes |-> << >>, pre |-> << >>, post |-> << >>, n |-> 1]
    BY <1>0, <1>3, <1>4, <1>8, QuietFinds DEF Accepts
  <2>2. Device(live) /\ q \in 0 .. Top /\ SeqOf(live) = q
    BY <1>0, <1>8, DeviceSeq DEF Quiet
  <2>3. CASE StartOf(live) = 0
    <3>1. job' = NoJob /\ IsJob(job')
      BY <1>7, <2>3, NoJobIs
    <3>2. CASE HasIntent(live)
      <4>1. pc' = "feature"
        BY <1>7, <2>1, <2>3, <3>2
      <4>2. IntentOn(live)
        BY <2>2, <3>2 DEF IntentOn, Device
      <4>3. Stage("feature", media', live', q, p, d, t)
        <5>1. Args("feature", q, p, d, t) /\ Ok("feature", live, q, p, d, t)
          BY <1>3, <1>4, <1>8, <2>2, <2>3, <4>2 DEF Args, Ok, Phases, Before, NoTx
        <5> QED BY <1>3, <1>5, <5>1, StageEnter
      <4>4. PhaseAt("feature")' /\ WrittenAt("feature", q, p, d)'
            /\ HeldAt("feature", q, p, d)'
        <5>1. PhaseAt("feature")'
          BY <4>1 DEF PhaseAt
        <5>2. WrittenAt("feature", q, p, d)'
          BY <1>3, <1>5, <4>1 DEF WrittenAt, Settled
        <5>3. HeldAt("feature", q, p, d)'
          BY <4>1 DEF HeldAt, Running
        <5> QED BY <5>1, <5>2, <5>3
      <4>5. pc' \in Locations \ (Running \union {"refused", "poisoned", "idle"})
        BY <4>1 DEF Locations, Running
      <4> QED BY <1>3, <1>5, <1>6, <3>1, <4>3, <4>4, <4>5, MountGoes
    <3>3. CASE ~HasIntent(live)
      <4>1. pc' = "intent"
        BY <1>7, <2>1, <2>3, <3>3
      <4>2. Stage("enable", media', live', q, p, d, t)
        <5>1. Args("enable", q, p, d, t) /\ Ok("enable", live, q, p, d, t)
          BY <1>3, <1>4, <1>8, <2>2, <2>3 DEF Args, Ok, Phases, Before, NoTx
        <5> QED BY <1>3, <1>5, <5>1, StageEnter
      <4>3. PhaseAt("enable")' /\ WrittenAt("enable", q, p, d)'
            /\ HeldAt("enable", q, p, d)'
        <5>1. PhaseAt("enable")'
          BY <4>1 DEF PhaseAt
        <5>2. WrittenAt("enable", q, p, d)'
          BY <1>3, <1>5, <4>1 DEF WrittenAt, Settled
        <5>3. HeldAt("enable", q, p, d)'
          BY <4>1 DEF HeldAt, Running
        <5> QED BY <5>1, <5>2, <5>3
      <4>4. pc' \in Locations \ (Running \union {"refused", "poisoned", "idle"})
        BY <4>1 DEF Locations, Running
      <4> QED BY <1>3, <1>5, <1>6, <3>1, <4>2, <4>3, <4>4, MountGoes
    <3> QED BY <3>2, <3>3
  <2>4. CASE StartOf(live) # 0
    <3>1. /\ Plan(live).next = q /\ Plan(live).homes = << >> /\ Plan(live).n = 1
          /\ Plan(live).pre = << >> /\ Plan(live).post = << >>
      BY <2>1, SMTT(30)
    <3>2. pc' = "reset" /\ job' = Plan(live)
      BY <1>7, <2>1, <2>4, <3>1
    <3>3. IsJob(job') /\ job'.next = q
      <4>1. 1 \in 1 .. MaxHomes
        BY PlanAssumption, SMTT(30)
      <4> QED BY <2>1, <3>1, <3>2, <4>1, SMTT(30) DEF IsJob
    <3>4. Ready(live, q, d, t)
      BY <1>8, <2>2, <2>4 DEF Ready, Device
    <3>5. Stage("reset", media', live', q, p, d, t)
      <4>1. Args("reset", q, p, d, t) /\ Ok("reset", live, q, p, d, t)
        BY <1>3, <1>4, <2>2, <3>4 DEF Args, Ok, Phases, Before, NoTx
      <4> QED BY <1>3, <1>5, <4>1, StageEnter
    <3>7. PhaseAt("reset")' /\ WrittenAt("reset", q, p, d)' /\ HeldAt("reset", q, p, d)'
      <4>1. PhaseAt("reset")'
        BY <3>2 DEF PhaseAt
      <4>2. WrittenAt("reset", q, p, d)'
        BY <1>3, <1>5, <3>2 DEF WrittenAt, Settled
      <4>3. HeldAt("reset", q, p, d)'
        BY <3>2, <3>3 DEF HeldAt, Running
      <4> QED BY <4>1, <4>2, <4>3
    <3>8. pc' \in Locations \ (Running \union {"refused", "poisoned", "idle"})
      BY <3>2 DEF Locations, Running
    <3> QED BY <1>3, <1>5, <1>6, <3>3, <3>5, <3>7, <3>8, MountGoes
  <2> QED BY <2>3, <2>4
<1>9. CASE Legible(live) /\ Full(live, s, p, c, t) /\ k \in {"commit", "home", "clear"}
  <2>1. p \in Plans /\ t \in Nat \ {0} /\ c \in Maps(t - 1)
    BY <1>3, <1>9 DEF Args, NoTx
  <2>2. Accepts(live) /\ Plan(live) = JobOf(s, p, c, t)
    BY <1>9, <2>1, FullFinds DEF Accepts
  <2>3. /\ Plan(live).next = NextSeq(s) /\ Plan(live).homes = p /\ Plan(live).pre = Pres(p, c)
        /\ Plan(live).post = Posts(p, t) /\ Plan(live).n = 1
    BY <2>2, SMTT(30) DEF JobOf
  <2>4. StartOf(live) # 0 /\ p # << >>
    <3>1. First # 0
      BY SMTT(30) DEF First
    <3>2. p # << >>
      <4>1. Len(p) \in 1 .. MaxHomes
        BY <2>1, PlanFacts
      <4> QED BY <4>1, SMTT(30)
    <3> QED BY <1>9, <3>1, <3>2 DEF Full
  <2>5. pc' = "replay" /\ job' = Plan(live)
    BY <1>7, <2>2, <2>3, <2>4
  <2>6. IsJob(job')
    <3>1. 1 \in 1 .. MaxHomes
      BY PlanAssumption, SMTT(30)
    <3>2. DOMAIN p = DOMAIN Posts(p, t)
      BY <2>1, PlanFacts DEF Posts
    <3>3. job' = [next |-> job'.next, homes |-> job'.homes, pre |-> job'.pre, post |-> job'.post, n |-> job'.n]
      BY <2>2, <2>3, <2>5 DEF JobOf
    <3> QED BY <2>3, <2>5, <3>1, <3>2, <3>3 DEF IsJob
  <2>7. Stage("home", media', live', s, p, c, t)
    <3>1. Args("home", s, p, c, t) /\ Ok("home", live, s, p, c, t)
      BY <1>3, <1>9, <2>1 DEF Args, Ok, Phases, Before, NoTx
    <3> QED BY <1>3, <1>5, <3>1, StageEnter
  <2>8. PhaseAt("home")' /\ WrittenAt("home", s, p, c)' /\ HeldAt("home", s, p, c)'
    <3>1. PhaseAt("home")'
      BY <2>5 DEF PhaseAt
    <3>2. job'.n = 1 /\ job'.n \in 1 .. Len(p)
      BY <2>1, <2>3, <2>5, PlanFacts
    <3>3. WrittenAt("home", s, p, c)'
      BY <2>5, <3>2, NoneBefore DEF WrittenAt, Settled
    <3>4. JobIs(s, p, c)'
      BY <1>5, <2>3, <2>5 DEF JobIs
    <3>5. HeldAt("home", s, p, c)'
      BY <2>5, <3>4 DEF HeldAt, Running
    <3> QED BY <3>1, <3>3, <3>5
  <2>9. pc' \in Locations \ (Running \union {"refused", "poisoned", "idle"})
    BY <2>5 DEF Locations, Running
  <2> QED BY <1>3, <1>5, <1>6, <2>6, <2>7, <2>8, <2>9, MountGoes
<1>10. CASE ~Legible(live)
  <2>1. pc' = "refused" /\ job' = NoJob
    BY <1>7, <1>10 DEF Accepts
  <2>2. Stage(k, media', live', s, p, c, Len(ledger))
    BY <1>2, <1>5 DEF Mounting
  <2>3. PhaseAt(k)' /\ WrittenAt(k, s, p, c)' /\ HeldAt(k, s, p, c)'
    <3>1. PhaseAt(k)'
      BY <2>1 DEF PhaseAt
    <3>2. WrittenAt(k, s, p, c)'
      BY <1>3, <1>5, <2>1 DEF WrittenAt, Settled
    <3>3. HeldAt(k, s, p, c)'
      BY <2>1 DEF HeldAt, Running
    <3> QED BY <3>1, <3>2, <3>3
  <2>4. Located'
    BY <1>3, <1>5, <2>2, <2>3, LocatedBy
  <2>5. Books'
    <3>1. pc' \notin Running /\ pc' # "poisoned"
      BY <2>1 DEF Running
    <3> QED BY <1>3, <1>5, <3>1, BooksSame
  <2>6. Registers'
    <3>1. pc' \in Locations /\ ~Legible(live')
      BY <1>5, <1>10, <2>1 DEF Locations
    <3> QED BY <1>3, <1>5, <2>1, <3>1, NoJobIs DEF Registers
  <2> QED BY <2>4, <2>5, <2>6 DEF IInv
<1> QED BY <1>4, <1>8, <1>9, <1>10

\* A step of the mount that changes the device and the next step only.
LEMMA MountStays ==
    ASSUME NEW k, NEW s, NEW p, NEW c, Mounting(k, s, p, c), Stays, errors' \in 0 .. MaxErrors,
           NEW j, NEW q, NEW d, Stage(j, media', live', q, p, d, Len(ledger)),
           pc' \in {"intentflush", "feature", "featureflush", "reset", "resetflush", "publish"},
           PhaseAt(j)', WrittenAt(j, q, p, d)',
           pc' \in {"reset", "resetflush"} => job.next = IF j = "clear" THEN NextSeq(q) ELSE q
    PROVE  IInv'
<1>1. Books /\ Registers /\ pc \notin Running /\ pc # "poisoned" /\ p \in Plans \union {<< >>}
  BY DEF Mounting
<1>2. ledger' = ledger /\ jrnl' = jrnl /\ mem' = mem /\ crashes' = crashes /\ job' = job
  BY DEF Stays
<1>3. pc' \in Locations \ (Running \union {"refused", "poisoned", "idle"})
  BY DEF Locations, Running
<1>4. IsJob(job')
  BY <1>1, <1>2 DEF Registers
<1>5. HeldAt(j, q, p, d)'
  BY <1>2 DEF HeldAt, Running
<1> QED BY <1>1, <1>2, <1>3, <1>4, <1>5, MountGoes

\* ensure_journal_intent_feature sets the flag and keeps the rest.
LEMMA JIntentIs ==
    ASSUME Device(live)
    PROVE  JIntent = JMark(SeqOf(live), StartOf(live))
<1>1. PICK a, b, x : a = live[JSuper][1] /\ b = live[JSuper][2] /\ x = live[JSuper][3]
  OBVIOUS
<1>2. a \in Digits /\ b \in Digits
  BY <1>1 DEF Device
<1>3. (a * Base + b) \div Base = a /\ (a * Base + b) % Base = b
  BY <1>2, NumberOf
<1>4. JMark(a * Base + b, x) = <<a, b, x, TRUE>>
  BY <1>3 DEF JMark, JBlock
<1> QED BY <1>1, <1>4 DEF JIntent, SeqOf, StartOf

\* EnsureIntent
LEMMA IntentStep ==
    ASSUME IInv, EnsureIntent
    PROVE  IInv'
<1>1. pc = "intent"
  BY DEF EnsureIntent
<1>2. PICK k, s, p, c : Mounting(k, s, p, c)
  BY <1>1, MountingAt DEF Running
<1>3. k = "enable"
  BY <1>1, <1>2 DEF Mounting, PhaseAt
<1> DEFINE t == Len(ledger)
<1>4. /\ Stage("enable", media, live, s, p, c, t) /\ Quiet(live, c, t) /\ StartOf(live) = 0
      /\ SeqOf(live) = s /\ s \in 0 .. Top /\ Registers
  BY <1>2, <1>3 DEF Mounting, Ok
<1>5. JIntent = JMark(s, 0)
  BY <1>4, JIntentIs DEF Quiet
<1>6. To("enable", JSuper, p) /\ JIntent = Val("enable", JSuper, s, p, c, t)
  BY <1>5 DEF To, Val
<1>7. CASE Wrote(JSuper, JIntent) /\ Goto("intentflush") /\ Stays
  <2>1. /\ Stage("enable", media', live', s, p, c, t) /\ live'[JSuper] = JIntent
        /\ \A d \in Blocks : d # JSuper => live'[d] = live[d]
    BY <1>4, <1>6, <1>7, WroteStage, SMTT(30)
  <2>2. IntentOn(live')
    BY <1>4, <1>5, <2>1, Reads
  <2>3. pc' = "intentflush" /\ errors' = errors
    BY <1>7 DEF Goto, Wrote
  <2>4. PhaseAt("enable")' /\ WrittenAt("enable", s, p, c)'
    BY <2>2, <2>3 DEF PhaseAt, WrittenAt, Settled
  <2>5. errors' \in 0 .. MaxErrors /\ pc' \notin {"reset", "resetflush"}
    BY <1>4, <2>3, ErrorBound
  <2> QED BY <1>2, <1>7, <2>1, <2>3, <2>4, <2>5, MountStays
<1>8. CASE WriteError(JSuper, JIntent) /\ MountFails
  <2>1. Stage(k, media', live', s, p, c, t)
    BY <1>3, <1>4, <1>6, <1>8, ErrorStage
  <2>2. errors' \in 0 .. MaxErrors /\ k \in NoTx \union {"home", "clear"}
    BY <1>3, <1>4, <1>8, ErrorBound DEF WriteError, NoTx
  <2> QED BY <1>2, <1>8, <2>1, <2>2, MountFailed
<1> QED BY <1>7, <1>8 DEF EnsureIntent

\* IntentFlush
LEMMA IntentFlushStep ==
    ASSUME IInv, IntentFlush
    PROVE  IInv'
<1>1. pc = "intentflush"
  BY DEF IntentFlush
<1>2. PICK k, s, p, c : Mounting(k, s, p, c)
  BY <1>1, MountingAt DEF Running
<1>3. k = "enable"
  BY <1>1, <1>2 DEF Mounting, PhaseAt
<1> DEFINE t == Len(ledger)
<1>4. /\ Stage("enable", media, live, s, p, c, t) /\ Quiet(live, c, t) /\ StartOf(live) = 0
      /\ IntentOn(live) /\ Args("enable", s, p, c, t) /\ Registers
  BY <1>1, <1>2, <1>3 DEF Mounting, Ok, WrittenAt
<1>5. CASE Flushed /\ Goto("feature") /\ Stays
  <2>1. media' = live /\ live' = live /\ pc' = "feature" /\ errors' = errors
    BY <1>5 DEF Flushed, Goto
  <2>2. Args("feature", s, p, c, t) /\ Ok("feature", live, s, p, c, t)
    BY <1>4 DEF Args, Ok, Phases, Before, NoTx
  <2>3. Stage("feature", media', live', s, p, c, t)
    BY <2>1, <2>2, StageEnter
  <2>4. PhaseAt("feature")' /\ WrittenAt("feature", s, p, c)'
    BY <2>1 DEF PhaseAt, WrittenAt, Settled
  <2>5. errors' \in 0 .. MaxErrors /\ pc' \notin {"reset", "resetflush"}
    BY <1>4, <2>1, ErrorBound
  <2> QED BY <1>2, <1>5, <2>1, <2>3, <2>4, <2>5, MountStays
<1>6. CASE FlushError /\ MountFails
  <2>1. Stage(k, media', live', s, p, c, t)
    BY <1>3, <1>4, <1>6, FlushStage
  <2>2. errors' \in 0 .. MaxErrors /\ k \in NoTx \union {"home", "clear"}
    BY <1>3, <1>4, <1>6, ErrorBound DEF FlushError, NoTx
  <2> QED BY <1>2, <1>6, <2>1, <2>2, MountFailed
<1> QED BY <1>5, <1>6 DEF IntentFlush

\* With both feature bits and no mark the device may be put to use.
LEMMA FeaturesOn ==
    ASSUME NEW s, NEW p, NEW c, NEW t, Args("feature", s, p, c, t), Ok("feature", live, s, p, c, t),
           RecoverOn(live), media' = live, live' = live
    PROVE  \E q : Stage("reset", media', live', q, p, c, t)
<1>1. Quiet(live, c, t) /\ IntentOn(live) /\ Device(live)
  BY DEF Ok, Quiet
<1>2. PICK q : q = SeqOf(live)
  OBVIOUS
<1>3. q \in 0 .. Top
  BY <1>1, <1>2, DeviceSeq
<1>4. Args("reset", q, p, c, t) /\ Ok("reset", live, q, p, c, t)
  BY <1>1, <1>2, <1>3 DEF Args, Ok, Ready, Phases, Before, NoTx
<1> QED BY <1>4, StageEnter

\* EnsureRecover
LEMMA RecoverStep ==
    ASSUME IInv, EnsureRecover
    PROVE  IInv'
<1>1. pc = "feature"
  BY DEF EnsureRecover
<1>2. PICK k, s, p, c : Mounting(k, s, p, c)
  BY <1>1, MountingAt DEF Running
<1>3. k = "feature"
  BY <1>1, <1>2 DEF Mounting, PhaseAt
<1> DEFINE t == Len(ledger)
<1>4. /\ Stage("feature", media, live, s, p, c, t) /\ Quiet(live, c, t) /\ StartOf(live) = 0
      /\ Ok("feature", live, s, p, c, t) /\ Args("feature", s, p, c, t) /\ Registers /\ live = media
  BY <1>1, <1>2, <1>3 DEF Mounting, Ok, WrittenAt, Settled
<1>5. To("feature", Super, p) /\ Raised = Val("feature", Super, s, p, c, t)
  BY BlockNames DEF To, Val
<1>6. CASE HasRecover(live) /\ Goto("publish") /\ UNCHANGED <<media, live, errors>> /\ Stays
  <2>1. media' = live /\ live' = live /\ pc' = "publish" /\ errors' = errors
    BY <1>4, <1>6 DEF Goto
  <2>2. RecoverOn(live)
    BY <1>4, <1>6 DEF RecoverOn, Quiet, Device
  <2>3. PICK q : Stage("reset", media', live', q, p, c, t)
    BY <1>4, <2>1, <2>2, FeaturesOn
  <2>4. PhaseAt("reset")' /\ WrittenAt("reset", q, p, c)'
    BY <1>4, <2>1 DEF PhaseAt, WrittenAt, Settled
  <2>5. errors' \in 0 .. MaxErrors /\ pc' \notin {"reset", "resetflush"}
    BY <1>4, <2>1, ErrorBound
  <2> QED BY <1>2, <1>6, <2>1, <2>3, <2>4, <2>5, MountStays
<1>7. CASE Wrote(Super, Raised) /\ Goto("featureflush") /\ Stays
  <2>1. /\ Stage("feature", media', live', s, p, c, t) /\ live'[Super] = Raised
        /\ \A d \in Blocks : d # Super => live'[d] = live[d]
    BY <1>4, <1>5, <1>7, WroteStage, SMTT(30)
  <2>2. RecoverOn(live')
    <3>1. Raised[1] = TRUE
      BY DEF Raised
    <3> QED BY <2>1, <3>1 DEF RecoverOn, HasRecover
  <2>3. pc' = "featureflush" /\ errors' = errors
    BY <1>7 DEF Goto, Wrote
  <2>4. PhaseAt("feature")' /\ WrittenAt("feature", s, p, c)'
    BY <2>2, <2>3 DEF PhaseAt, WrittenAt, Settled
  <2>5. errors' \in 0 .. MaxErrors /\ pc' \notin {"reset", "resetflush"}
    BY <1>4, <2>3, ErrorBound
  <2> QED BY <1>2, <1>7, <2>1, <2>3, <2>4, <2>5, MountStays
<1>8. CASE WriteError(Super, Raised) /\ MountFails
  <2>1. Stage(k, media', live', s, p, c, t)
    BY <1>3, <1>4, <1>5, <1>8, ErrorStage
  <2>2. errors' \in 0 .. MaxErrors /\ k \in NoTx \union {"home", "clear"}
    BY <1>3, <1>4, <1>8, ErrorBound DEF WriteError, NoTx
  <2> QED BY <1>2, <1>8, <2>1, <2>2, MountFailed
<1> QED BY <1>6, <1>7, <1>8 DEF EnsureRecover, Raised

\* FeatureFlush
LEMMA FeatureFlushStep ==
    ASSUME IInv, FeatureFlush
    PROVE  IInv'
<1>1. pc = "featureflush"
  BY DEF FeatureFlush
<1>2. PICK k, s, p, c : Mounting(k, s, p, c)
  BY <1>1, MountingAt DEF Running
<1>3. k = "feature"
  BY <1>1, <1>2 DEF Mounting, PhaseAt
<1> DEFINE t == Len(ledger)
<1>4. /\ Stage("feature", media, live, s, p, c, t) /\ StartOf(live) = 0 /\ RecoverOn(live)
      /\ Ok("feature", live, s, p, c, t) /\ Args("feature", s, p, c, t) /\ Registers
  BY <1>1, <1>2, <1>3 DEF Mounting, Ok, WrittenAt
<1>5. CASE Flushed /\ Goto("publish") /\ Stays
  <2>1. media' = live /\ live' = live /\ pc' = "publish" /\ errors' = errors
    BY <1>5 DEF Flushed, Goto
  <2>2. PICK q : Stage("reset", media', live', q, p, c, t)
    BY <1>4, <2>1, FeaturesOn
  <2>3. PhaseAt("reset")' /\ WrittenAt("reset", q, p, c)'
    BY <1>4, <2>1 DEF PhaseAt, WrittenAt, Settled
  <2>4. errors' \in 0 .. MaxErrors /\ pc' \notin {"reset", "resetflush"}
    BY <1>4, <2>1, ErrorBound
  <2> QED BY <1>2, <1>5, <2>1, <2>2, <2>3, <2>4, MountStays
<1>6. CASE FlushError /\ MountFails
  <2>1. Stage(k, media', live', s, p, c, t)
    BY <1>3, <1>4, <1>6, FlushStage
  <2>2. errors' \in 0 .. MaxErrors /\ k \in NoTx \union {"home", "clear"}
    BY <1>3, <1>4, <1>6, ErrorBound DEF FlushError, NoTx
  <2> QED BY <1>2, <1>6, <2>1, <2>2, MountFailed
<1> QED BY <1>5, <1>6 DEF FeatureFlush

\* Replay: apply_internal_journal_recovery writes the homes once more.
LEMMA ReplayStep ==
    ASSUME IInv, Replay
    PROVE  IInv'
<1>1. pc = "replay"
  BY DEF Replay
<1>2. PICK k, s, p, c : Mounting(k, s, p, c)
  BY <1>1, MountingAt DEF Running
<1>3. k = "home"
  BY <1>1, <1>2 DEF Mounting, PhaseAt
<1> DEFINE t == Len(ledger)
           b == Home(job.homes[job.n])
           v == job.post[job.n]
<1>4. /\ Stage("home", media, live, s, p, c, t) /\ Registers /\ Books /\ p \in Plans
      /\ JobIs(s, p, c) /\ job.homes = p /\ job.post = Posts(p, t) /\ job.n \in 1 .. Len(p)
      /\ \A i \in 1 .. job.n - 1 : live[Home(p[i])] = Image(t)
      /\ pc \notin Running /\ pc # "poisoned"
  BY <1>1, <1>2, <1>3 DEF Mounting, HeldAt, JobIs, WrittenAt, Args, NoTx
<1>5. b = Home(p[job.n])
  BY <1>4
<1>6. To("home", b, p) /\ v = Val("home", b, s, p, c, t) /\ v = Image(t)
  <2>1. v = Posts(p, t)[job.n]
    BY <1>4
  <2> HIDE DEF b, v, t
  <2>2. PICK n : n = job.n /\ n \in 1 .. Len(p) /\ p \in Plans /\ b = Home(p[n])
    BY <1>4, <1>5
  <2>3. To("home", b, p) /\ \A i : Posts(p, i)[n] = Image(i)
    BY <2>2, HomeTarget
  <2>4. Val("home", b, s, p, c, t) = Image(t)
    BY <2>2, BlockNames DEF Val
  <2> QED BY <2>1, <2>2, <2>3, <2>4
<1> HIDE DEF b, v
<1>7. CASE Wrote(b, v) /\ Loop("replay", "replayflush")
  <2>1. /\ Stage("home", media', live', s, p, c, t) /\ live'[b] = v
        /\ \A d \in Blocks : d # b => live'[d] = live[d]
    BY <1>4, <1>6, <1>7, WroteStage, SMTT(30)
  <2>2. live'[Home(p[job.n])] = Image(t) /\ \A d \in Blocks : d # Home(p[job.n]) => live'[d] = live[d]
    BY <1>5, <1>6, <2>1
  <2>3. /\ \A i \in 1 .. job.n : live'[Home(p[i])] = Image(t)
        /\ job.n = Len(p) => \A h \in Named(p) : live'[Home(h)] = Image(t)
    BY <1>4, <2>2, HomesSoFar
  <2>4. /\ IsJob(job') /\ job'.homes = p /\ job'.pre = job.pre /\ job'.post = job.post
        /\ job'.next = job.next /\ job'.n \in 1 .. Len(p)
        /\ \/ pc' = "replay" /\ job'.n - 1 = job.n
           \/ pc' = "replayflush" /\ job'.n = 1 /\ job.n = Len(p)
        /\ ledger' = ledger /\ jrnl' = jrnl /\ mem' = mem /\ crashes' = crashes
    BY <1>4, <1>7, LoopFacts, SMTT(30) DEF Registers
  <2>5. PhaseAt("home")'
    BY <2>4 DEF PhaseAt
  <2>6. WrittenAt("home", s, p, c)'
    <3>1. CASE pc' = "replay" /\ job'.n - 1 = job.n
      BY <3>1, <2>3, <2>4 DEF WrittenAt, Settled
    <3>2. CASE pc' = "replayflush" /\ job.n = Len(p)
      BY <3>2, <2>3, <2>4 DEF WrittenAt, Settled
    <3> QED BY <2>4, <3>1, <3>2
  <2>7. JobIs(s, p, c)'
    BY <1>4, <2>4 DEF JobIs
  <2>8. HeldAt("home", s, p, c)'
    BY <2>4, <2>7 DEF HeldAt, Running
  <2>9. errors' \in 0 .. MaxErrors
    BY <1>4, <1>7, ErrorBound DEF Wrote
  <2>10. pc' \in Locations \ (Running \union {"refused", "poisoned", "idle"})
    BY <2>4 DEF Locations, Running
  <2> QED BY <1>4, <2>1, <2>4, <2>5, <2>6, <2>8, <2>9, <2>10, MountGoes
<1>8. CASE WriteError(b, v) /\ MountFails
  <2>1. Stage(k, media', live', s, p, c, t)
    BY <1>3, <1>4, <1>6, <1>8, ErrorStage
  <2>2. errors' \in 0 .. MaxErrors /\ k \in NoTx \union {"home", "clear"}
    BY <1>3, <1>4, <1>8, ErrorBound DEF WriteError
  <2> QED BY <1>2, <1>8, <2>1, <2>2, MountFailed
<1> QED BY <1>7, <1>8 DEF Replay, b, v

\* ReplayFlush: the homes are durable before the journal is reset.
LEMMA ReplayFlushStep ==
    ASSUME IInv, ReplayFlush
    PROVE  IInv'
<1>1. pc = "replayflush"
  BY DEF ReplayFlush
<1>2. PICK k, s, p, c : Mounting(k, s, p, c)
  BY <1>1, MountingAt DEF Running
<1>3. k = "home"
  BY <1>1, <1>2 DEF Mounting, PhaseAt
<1> DEFINE t == Len(ledger)
<1>4. /\ Stage("home", media, live, s, p, c, t) /\ Ok("home", live, s, p, c, t)
      /\ \A h \in Named(p) : live[Home(h)] = Image(t)
      /\ Args("home", s, p, c, t) /\ Registers /\ job.next = NextSeq(s)
  BY <1>1, <1>2, <1>3 DEF Mounting, WrittenAt, HeldAt, JobIs
<1>5. ASSUME Flushed, Stays, Goto("reset") PROVE IInv'
  <2>1. media' = live /\ live' = live /\ pc' = "reset" /\ errors' = errors
    BY <1>5 DEF Flushed, Goto
  <2>2. Stage("clear", media', live', s, p, c, t)
    BY <1>4, <2>1, CheckpointDone
  <2>3. PhaseAt("clear")' /\ WrittenAt("clear", s, p, c)'
    BY <2>1 DEF PhaseAt, WrittenAt, Settled
  <2>4. errors' \in 0 .. MaxErrors /\ job.next = IF "clear" = "clear" THEN NextSeq(s) ELSE s
    BY <1>4, <2>1, ErrorBound
  <2> QED BY <1>2, <1>5, <2>1, <2>2, <2>3, <2>4, MountStays
<1>6. ASSUME Flushed, Stays, Goto("failed") PROVE IInv'
  <2>1. Stage(k, media', live', s, p, c, t)
    BY <1>3, <1>4, <1>6, FlushStage
  <2>2. errors' \in 0 .. MaxErrors /\ k \in NoTx \union {"home", "clear"}
    BY <1>3, <1>4, <1>6, ErrorBound DEF Flushed
  <2>3. MountFails
    BY <1>6 DEF MountFails
  <2> QED BY <1>2, <2>1, <2>2, <2>3, MountFailed
<1>7. CASE FlushError /\ MountFails
  <2>1. Stage(k, media', live', s, p, c, t)
    BY <1>3, <1>4, <1>7, FlushStage
  <2>2. errors' \in 0 .. MaxErrors /\ k \in NoTx \union {"home", "clear"}
    BY <1>3, <1>4, <1>7, ErrorBound DEF FlushError
  <2> QED BY <1>2, <1>7, <2>1, <2>2, MountFailed
<1>8. (Flushed /\ Stays /\ (Goto("reset") \/ Goto("failed"))) \/ (FlushError /\ MountFails)
  BY DEF ReplayFlush, Goto
<1> QED BY <1>5, <1>6, <1>7, <1>8

\* Reset: clear_recovered_journal
LEMMA ResetStep ==
    ASSUME IInv, Reset
    PROVE  IInv'
<1>1. pc = "reset"
  BY DEF Reset
<1>2. PICK k, s, p, c : Mounting(k, s, p, c)
  BY <1>1, MountingAt DEF Running
<1>3. k \in {"reset", "clear"}
  BY <1>1, <1>2 DEF Mounting, PhaseAt
<1> DEFINE t == Len(ledger)
           v == JState(job.next, 0)
<1>4. /\ Stage(k, media, live, s, p, c, t) /\ Ok(k, live, s, p, c, t) /\ Registers
      /\ job.next = IF k = "clear" THEN NextSeq(s) ELSE s
  BY <1>1, <1>2 DEF Mounting, HeldAt
<1>5. IntentOn(live)
  BY <1>3, <1>4 DEF Ok, Ready, InClear, Logged
<1>6. v = JMark(job.next, 0)
  BY <1>5, JStateIs
<1>7. To(k, JSuper, p) /\ v = Val(k, JSuper, s, p, c, t)
  BY <1>3, <1>4, <1>6 DEF To, Val
<1> HIDE DEF v
<1>8. CASE Wrote(JSuper, v) /\ Goto("resetflush") /\ Stays
  <2>1. /\ Stage(k, media', live', s, p, c, t) /\ live'[JSuper] = v
        /\ \A d \in Blocks : d # JSuper => live'[d] = live[d]
    BY <1>4, <1>7, <1>8, WroteStage, SMTT(30)
  <2>2. pc' = "resetflush" /\ errors' = errors /\ ledger' = ledger
    BY <1>8 DEF Goto, Wrote, Stays
  <2>3. PhaseAt(k)' /\ WrittenAt(k, s, p, c)'
    BY <1>3, <1>7, <2>1, <2>2 DEF PhaseAt, WrittenAt, Settled
  <2>4. errors' \in 0 .. MaxErrors
    BY <1>4, <2>2, ErrorBound
  <2> QED BY <1>2, <1>4, <1>8, <2>1, <2>2, <2>3, <2>4, MountStays
<1>9. CASE WriteError(JSuper, v) /\ MountFails
  <2>1. Stage(k, media', live', s, p, c, t)
    BY <1>4, <1>7, <1>9, ErrorStage
  <2>2. errors' \in 0 .. MaxErrors /\ k \in NoTx \union {"home", "clear"}
    BY <1>3, <1>4, <1>9, ErrorBound DEF WriteError, NoTx
  <2> QED BY <1>2, <1>9, <2>1, <2>2, MountFailed
<1> QED BY <1>8, <1>9 DEF Reset, v

\* ResetFlush
LEMMA ResetFlushStep ==
    ASSUME IInv, ResetFlush
    PROVE  IInv'
<1>1. pc = "resetflush"
  BY DEF ResetFlush
<1>2. PICK k, s, p, c : Mounting(k, s, p, c)
  BY <1>1, MountingAt DEF Running
<1>3. k \in {"reset", "clear"}
  BY <1>1, <1>2 DEF Mounting, PhaseAt
<1> DEFINE t == Len(ledger)
<1>4. /\ Stage(k, media, live, s, p, c, t) /\ Ok(k, live, s, p, c, t) /\ Registers
      /\ Args(k, s, p, c, t) /\ s \in 0 .. Top
      /\ live[JSuper] = Val(k, JSuper, s, p, c, t)
  BY <1>1, <1>2 DEF Mounting, WrittenAt
<1>5. CASE Flushed /\ Goto("publish") /\ Stays
  <2>1. media' = live /\ live' = live /\ pc' = "publish" /\ errors' = errors
    BY <1>5 DEF Flushed, Goto
  <2>2. PICK q, d : Stage("reset", live, live, q, p, d, t) /\ StartOf(live) = 0
    <3>1. CASE k = "reset"
      <4>1. live[JSuper] = JMark(s, 0)
        BY <1>4, <3>1 DEF Val
      <4>2. StartOf(live) = 0
        BY <1>4, <4>1, Reads
      <4> QED BY <1>4, <3>1, <4>2, StageSame
    <3>2. CASE k = "clear"
      <4>1. live[JSuper] = JMark(NextSeq(s), 0)
        BY <1>4, <3>2 DEF Val
      <4>2. p \in Plans /\ t \in Nat \ {0} /\ c \in Maps(t - 1) /\ InClear(live, s, p, c, t)
        BY <1>4, <3>2 DEF Args, NoTx, Ok
      <4> QED BY <1>4, <4>1, <4>2, Released
    <3> QED BY <1>3, <3>1, <3>2
  <2>3. Stage("reset", media', live', q, p, d, t)
    BY <2>1, <2>2
  <2>4. PhaseAt("reset")' /\ WrittenAt("reset", q, p, d)'
    BY <2>1, <2>2 DEF PhaseAt, WrittenAt, Settled
  <2>5. errors' \in 0 .. MaxErrors /\ pc' \notin {"reset", "resetflush"}
    BY <1>4, <2>1, ErrorBound
  <2> QED BY <1>2, <1>5, <2>1, <2>3, <2>4, <2>5, MountStays
<1>6. CASE FlushError /\ MountFails
  <2>1. Stage(k, media', live', s, p, c, t)
    BY <1>4, <1>6, FlushStage
  <2>2. errors' \in 0 .. MaxErrors /\ k \in NoTx \union {"home", "clear"}
    BY <1>3, <1>4, <1>6, ErrorBound DEF FlushError, NoTx
  <2> QED BY <1>2, <1>6, <2>1, <2>2, MountFailed
<1> QED BY <1>5, <1>6 DEF ResetFlush

\* Publish: the mounted filesystem shows what the homes hold.
LEMMA PublishStep ==
    ASSUME IInv, Publish
    PROVE  IInv'
<1>1. pc = "publish" /\ pc' = "idle"
  BY DEF Publish, Goto
<1>2. PICK k, s, p, c : Mounting(k, s, p, c)
  BY <1>1, MountingAt DEF Running
<1>3. k = "reset"
  BY <1>1, <1>2 DEF Mounting, PhaseAt
<1>4. /\ Stage("reset", media, live, s, p, c, Len(ledger)) /\ Ready(live, s, c, Len(ledger))
      /\ live = media /\ StartOf(live) = 0 /\ SeqOf(live) = s /\ s \in 0 .. Top
      /\ c \in Maps(Len(ledger)) /\ Books /\ Registers /\ p \in Plans \union {<< >>}
      /\ pc \notin Running
  BY <1>1, <1>2, <1>3 DEF Mounting, Ok, Ready, WrittenAt, Settled
<1>5. /\ live' = live /\ media' = media /\ job' = job /\ ledger' = ledger /\ errors' = errors
      /\ crashes' = crashes /\ jrnl' = [seq |-> SeqOf(live), start |-> StartOf(live)]
      /\ mem' = [h \in Homes |-> Number(live[Home(h)])]
  BY DEF Publish
<1>6. mem' = c
  <2>1. \A h \in Homes : Number(live[Home(h)]) = c[h]
    BY <1>4, ImageFacts DEF Ready, Quiet
  <2>2. c = [h \in Homes |-> c[h]]
    BY <1>4 DEF Maps
  <2> QED BY <1>5, <2>1, <2>2
<1>7. jrnl' = [seq |-> s, start |-> 0]
  BY <1>4, <1>5
<1>8. jrnl'.seq = s /\ jrnl'.start = 0 /\ jrnl' \in [seq : 0 .. Top, start : {0, First}]
  BY <1>4, <1>7, SMTT(30)
<1>9. Registers'
  BY <1>1, <1>4, <1>5, <1>6, <1>8 DEF Registers, Locations
<1>10. Books'
  BY <1>1, <1>4, <1>5, BooksSame DEF Running
<1>11. Stage("reset", media', live', s, p, c, Len(ledger'))
  BY <1>4, <1>5
<1>12. PhaseAt("reset")' /\ WrittenAt("reset", s, p, c)' /\ HeldAt("reset", s, p, c)'
  <2>1. PhaseAt("reset")'
    BY <1>1 DEF PhaseAt
  <2>2. WrittenAt("reset", s, p, c)'
    BY <1>1, <1>4, <1>5 DEF WrittenAt, Settled
  <2>3. HeldAt("reset", s, p, c)'
    BY <1>1, <1>6, <1>8 DEF HeldAt, Running
  <2> QED BY <2>1, <2>2, <2>3
<1>13. Located'
  BY <1>4, <1>11, <1>12, LocatedBy
<1> QED BY <1>9, <1>10, <1>13 DEF IInv

\* A step that only moves blocks to the media.
LEMMA WrittenSame ==
    ASSUME NEW k, NEW s, NEW p, NEW c, WrittenAt(k, s, p, c), pc \in Settled => live = media',
           live' = live, pc' = pc, job' = job, ledger' = ledger
    PROVE  WrittenAt(k, s, p, c)'
BY SMTT(30) DEF WrittenAt

\* Persist: the device moves a block, or a prefix of it, to the media.
LEMMA PersistStep ==
    ASSUME IInv, NEW b \in Blocks, Persist(b)
    PROVE  IInv'
<1>1. PICK k \in Phases, s \in 0 .. Top, p \in Plans \union {<< >>}, c \in Maps(Len(ledger)) :
          Where(k, s, p, c)
  BY DEF IInv, Located
<1>2. PICK x \in Cut(live[b], media[b]) : Put(media', media, b, x) /\ media[b] # live[b]
  BY DEF Persist, Put, Cut
<1>3. /\ live' = live /\ pc' = pc /\ jrnl' = jrnl /\ job' = job /\ mem' = mem
      /\ ledger' = ledger /\ errors' = errors /\ crashes' = crashes
  BY DEF Persist
<1>4. Stage(k, media, live, s, p, c, Len(ledger)) /\ PhaseAt(k) /\ WrittenAt(k, s, p, c)
      /\ HeldAt(k, s, p, c)
  BY <1>1 DEF Where
<1>5. Stage(k, media', live, s, p, c, Len(ledger))
  <2>1. PICK t : t = Len(ledger)
    OBVIOUS
  <2>2. Stage(k, media, live, s, p, c, t)
    BY <1>4, <2>1
  <2>3. Stage(k, media', live, s, p, c, t)
    BY <1>2, <2>2, StagePersist
  <2> QED BY <2>1, <2>3
<1>6. PhaseAt(k)' /\ HeldAt(k, s, p, c)'
  BY <1>3, <1>4 DEF PhaseAt, HeldAt, JobIs
<1>7. WrittenAt(k, s, p, c)'
  <2>1. pc \notin Settled
    BY <1>2, <1>4 DEF WrittenAt
  <2> QED BY <1>3, <1>4, <2>1, WrittenSame
<1>8. Located'
  BY <1>3, <1>5, <1>6, <1>7, LocatedBy
<1>9. Books' /\ Registers'
  BY <1>3 DEF IInv, Books, Registers
<1> QED BY <1>8, <1>9 DEF IInv

\* Crash: power fails.
LEMMA CrashStep ==
    ASSUME IInv, Crash
    PROVE  IInv'
<1>1. PICK k \in Phases, s \in 0 .. Top, p \in Plans \union {<< >>}, c \in Maps(Len(ledger)) :
          Where(k, s, p, c)
  BY DEF IInv, Located
<1>2. /\ live' = media /\ media' = media /\ pc' = "down" /\ jrnl' = jrnl /\ job' = job
      /\ mem' = mem /\ errors' = errors /\ Settle("lost")
  BY DEF Crash, Goto
<1>3. Stage(k, media', live', s, p, c, Len(ledger))
  BY <1>1, <1>2, StageSame DEF Where
<1>4. Books' /\ Len(ledger') = Len(ledger)
  <2>1. CASE pc \in Running \union {"poisoned"}
    <3>1. Len(ledger) # 0
      BY <1>1, <2>1, RunningFacts
    <3> QED BY <1>2, <2>1, <3>1, SettleBooks DEF IInv, Results, Running
  <2>2. CASE pc \notin Running \union {"poisoned"}
    <3>1. ~Open
      <4>1. ledger \in Seq([homes : SUBSET Homes, res : Results])
        BY DEF IInv, Books
      <4>2. Len(ledger) = 0 => ledger = << >>
        BY <4>1, SMTT(30)
      <4> QED BY <2>2, <4>2 DEF IInv, Books, Open
    <3>2. ledger' = ledger
      BY <1>2, <3>1 DEF Settle
    <3> QED BY <1>2, <2>2, <3>2, BooksSame DEF IInv, Running
  <2> QED BY <2>1, <2>2
<1>5. crashes' \in 0 .. MaxCrashes
  <2>1. crashes \in 0 .. MaxCrashes /\ MaxCrashes \in Nat
    BY JournalBounds DEF IInv, Registers
  <2>2. crashes' = crashes \/ (crashes < MaxCrashes /\ crashes' = crashes + 1)
    BY DEF Crash
  <2> QED BY <2>1, <2>2, SMTT(30)
<1>6. Registers'
  BY <1>2, <1>4, <1>5 DEF IInv, Registers, Locations
<1>7. PhaseAt(k)' /\ WrittenAt(k, s, p, c)' /\ HeldAt(k, s, p, c)'
  <2>1. PhaseAt(k)'
    BY <1>2 DEF PhaseAt
  <2>2. WrittenAt(k, s, p, c)'
    BY <1>2 DEF WrittenAt, Settled
  <2>3. HeldAt(k, s, p, c)'
    BY <1>2 DEF HeldAt, Running
  <2> QED BY <2>1, <2>2, <2>3
<1>8. Stage(k, media', live', s, p, c, Len(ledger'))
  BY <1>3, <1>4
<1>9. Located'
  BY <1>7, <1>8, LocatedBy
<1> QED BY <1>4, <1>6, <1>9 DEF IInv

------------------------------------------------------------------------------
\* The first mount finds a quiet journal.
LEMMA InitStep ==
    ASSUME Init
    PROVE  IInv /\ Recovered(media) = [h \in Homes |-> 0]
<1>1. PICK s \in InitSeqs, intent \in BOOLEAN :
          media = [b \in Blocks |-> CASE b = JSuper -> <<s \div Base, s % Base, 0, intent>>
                                      [] b = Super -> <<FALSE>>
                                      [] b[1] = "home" -> Image(0)
                                      [] OTHER -> Blank]
  BY DEF Init
<1>2. /\ live = media /\ pc = "down" /\ jrnl = [seq |-> 0, start |-> 0] /\ job = NoJob
      /\ mem = [h \in Homes |-> 0] /\ ledger = << >> /\ errors = 0 /\ crashes = 0
  BY DEF Init
<1> DEFINE c == [h \in Homes |-> 0]
<1>3. s \in 0 .. Top
  BY SeqAssumption, SMTT(30) DEF Top, Modulus
<1>4. /\ media = [b \in Blocks |-> media[b]]
      /\ media[JSuper] = JBlock(s, 0, intent) /\ media[Super] = <<FALSE>>
      /\ \A h \in Homes : media[Home(h)] = Image(0)
      /\ \A j \in LogSlots : media[Log(j)] = Blank
  <2> DEFINE F(b) == CASE b = JSuper -> <<s \div Base, s % Base, 0, intent>>
                       [] b = Super -> <<FALSE>>
                       [] b[1] = "home" -> Image(0)
                       [] OTHER -> Blank
  <2>0. media = [b \in Blocks |-> F(b)]
    BY <1>1
  <2>1. media = [b \in Blocks |-> media[b]]
    <3> HIDE DEF F
    <3> QED BY <2>0
  <2>2. media[JSuper] = JBlock(s, 0, intent)
    <3>1. JSuper # Super /\ JSuper[1] # "home"
      <4>1. JSuper[1] # "home"
        BY SMTT(30) DEF JSuper
      <4> QED BY <4>1, BlockNames
    <3>2. F(JSuper) = JBlock(s, 0, intent)
      BY <3>1 DEF JBlock
    <3> HIDE DEF F
    <3> QED BY <2>0, <3>2, BlockFacts
  <2>3. media[Super] = <<FALSE>>
    <3>1. JSuper # Super /\ Super[1] # "home"
      <4>1. Super[1] # "home"
        BY SMTT(30) DEF Super
      <4> QED BY <4>1, BlockNames
    <3>2. F(Super) = <<FALSE>>
      BY <3>1
    <3> HIDE DEF F
    <3> QED BY <2>0, <3>2, BlockFacts
  <2>4. ASSUME NEW h \in Homes PROVE media[Home(h)] = Image(0)
    <3>1. Home(h) \in Blocks /\ Home(h) # JSuper /\ Home(h) # Super /\ Home(h)[1] = "home"
      <4>1. Home(h)[1] = "home"
        BY SMTT(30) DEF Home
      <4> QED BY <4>1, BlockFacts
    <3> QED BY <1>1, <3>1, SMTT(30)
  <2>5. ASSUME NEW j \in LogSlots PROVE media[Log(j)] = Blank
    <3>1. Log(j) \in Blocks /\ Log(j) # JSuper /\ Log(j) # Super /\ Log(j)[1] # "home"
      <4>1. Log(j)[1] # "home"
        BY SMTT(30) DEF Log
      <4> QED BY <4>1, BlockFacts
    <3> QED BY <1>1, <3>1, SMTT(30)
  <2> QED BY <2>1, <2>2, <2>3, <2>4, <2>5
<1>5. /\ Quad(media[JSuper]) /\ media[JSuper][1] \in Digits /\ media[JSuper][2] \in Digits
      /\ StartOf(media) = 0 /\ HasIntent(media) = intent /\ SeqOf(media) = s
  <2>1. LET v == JBlock(s, 0, intent)
        IN /\ Quad(v) /\ v[1] \in Digits /\ v[2] \in Digits /\ v[3] = 0 /\ v[4] = intent
           /\ v[1] * Base + v[2] = s
    BY <1>3, JBlockFacts
  <2> QED BY <1>4, <2>1 DEF StartOf, HasIntent, SeqOf
<1>6. media[Super] = <<media[Super][1]>> /\ HasRecover(media) = FALSE
  <2>1. PICK f : f = FALSE
    OBVIOUS
  <2>2. media[Super] = <<f>>
    BY <1>4, <2>1
  <2>3. media[Super] = <<media[Super][1]>> /\ media[Super][1] = f
    BY <2>2, SMTT(30)
  <2> QED BY <2>1, <2>3 DEF HasRecover
<1>7. Pair(Blank) /\ Blank[2].kind # "digest"
  BY SMTT(30) DEF Blank, Whole, Pair
<1>8. Device(media)
  <2>1. ASSUME NEW b \in Blocks PROVE Shaped(b, media[b])
    <3>1. CASE b = JSuper \/ b = Super
      BY <1>5, <1>6, <3>1 DEF Shaped
    <3>2. CASE b # JSuper /\ b # Super
      <4>1. (\E h \in Homes : b = Home(h)) \/ (\E j \in LogSlots : b = Log(j))
        <5>1. \A j \in 0 .. MaxHomes + 2 : j = 0 \/ j \in LogSlots
          BY PlanAssumption, SMTT(30) DEF LogSlots
        <5> QED BY <3>2, <5>1, BlockNames DEF Blocks
      <4>2. Pair(media[b])
        BY <1>4, <1>7, <4>1, ImageFacts
      <4> QED BY <3>2, <4>2 DEF Shaped
    <3> QED BY <3>1, <3>2
  <2> QED BY <1>4, <1>5, <1>6, <2>1 DEF Device
<1>9. Len(ledger) = 0
  BY <1>2, SMTT(30)
<1>10. c \in Maps(0)
  <2>1. 0 \in 0 .. 0
    BY SMTT(30)
  <2> QED BY <2>1 DEF Maps
<1>11. Quiet(media, c, 0)
  <2>1. \A j \in CommitSlots : ~HasDigest(media, j)
    <3>1. \A j \in CommitSlots : j \in LogSlots
      BY PlanAssumption, SMTT(30) DEF LogSlots, CommitSlots
    <3> QED BY <1>4, <1>7, <3>1 DEF HasDigest
  <2>2. \A h \in Homes : media[Home(h)] = Image(c[h])
    BY <1>4
  <2> HIDE DEF c
  <2> QED BY <1>8, <2>1, <2>2 DEF Quiet, Digests
<1>12. Stage("enable", media, live, s, << >>, c, Len(ledger))
  <2>1. 0 \in Nat
    BY SMTT(30)
  <2>2. Args("enable", s, << >>, c, 0) /\ Ok("enable", media, s, << >>, c, 0)
    <3> HIDE DEF c
    <3> QED BY <1>3, <1>5, <1>10, <1>11, <2>1 DEF Args, Ok, Phases, Before, NoTx
  <2> HIDE DEF c
  <2> QED BY <1>2, <1>9, <2>2, StageEnter
<1>13. Located
  <2>1. PhaseAt("enable") /\ WrittenAt("enable", s, << >>, c) /\ HeldAt("enable", s, << >>, c)
    <3> HIDE DEF c
    <3>1. PhaseAt("enable")
      BY <1>2 DEF PhaseAt
    <3>2. WrittenAt("enable", s, << >>, c)
      BY <1>2 DEF WrittenAt, Settled
    <3>3. HeldAt("enable", s, << >>, c)
      BY <1>2 DEF HeldAt, Running
    <3> QED BY <3>1, <3>2, <3>3
  <2> HIDE DEF c
  <2>2. Where("enable", s, << >>, c)
    BY <1>12, <2>1 DEF Where
  <2>3. "enable" \in Phases /\ c \in Maps(Len(ledger))
    BY <1>9, <1>10 DEF Phases, Before, NoTx
  <2> QED BY <1>3, <2>2, <2>3 DEF Located
<1>14. Books
  <2>1. ledger \in Seq([homes : SUBSET Homes, res : Results])
    BY <1>2, SMTT(30)
  <2>2. Len(ledger) <= MaxTx
    BY <1>9, JournalBounds, SMTT(30)
  <2> QED BY <1>9, <2>1, <2>2 DEF Books
<1>15. Registers
  <2>1. jrnl \in [seq : 0 .. Top, start : {0, First}] /\ jrnl.start = 0
    BY <1>2, SeqAssumption, SMTT(30) DEF Top, Modulus
  <2>2. errors \in 0 .. MaxErrors /\ crashes \in 0 .. MaxCrashes
    BY <1>2, JournalBounds, SMTT(30)
  <2> QED BY <1>2, <1>9, <1>10, <2>1, <2>2, NoJobIs DEF Registers, Locations
<1>16. Recovered(media) = c
  <2> HIDE DEF c
  <2>1. 0 \in Nat
    BY SMTT(30)
  <2> QED BY <1>10, <1>11, <2>1, QuietFinds
<1> QED BY <1>13, <1>14, <1>15, <1>16 DEF IInv

\* Every step of the writer, of the mount and of the device keeps the invariant.
LEMMA NextStep ==
    ASSUME IInv, [Next]_vars
    PROVE  IInv'
<1>1. CASE \E p \in Plans : Begin(p)
  BY <1>1, BeginStep
<1>2. CASE TxStep
  BY <1>2, BuildFailsStep, MarkStep, MarkFlushStep, DescriptorStep, ImageStep, ImageFlushStep,
     CommitStep, CommitFlushStep, HomeStep, HomeFlushStep, ClearStep, ClearFlushStep, AbortStep,
     AbortFlushStep DEF TxStep
<1>3. CASE MountStep
  <2>1. CASE Mount \/ EnsureIntent \/ IntentFlush \/ EnsureRecover \/ FeatureFlush
    BY <2>1, MountStart, IntentStep, IntentFlushStep, RecoverStep, FeatureFlushStep
  <2>2. CASE Replay \/ ReplayFlush \/ Reset \/ ResetFlush \/ Publish
    BY <2>2, ReplayStep, ReplayFlushStep, ResetStep, ResetFlushStep, PublishStep
  <2> QED BY <1>3, <2>1, <2>2 DEF MountStep
<1>4. CASE \E b \in Blocks : Persist(b)
  BY <1>4, PersistStep
<1>5. CASE Crash
  BY <1>5, CrashStep
<1>6. CASE UNCHANGED vars
  <2>1. /\ media' = media /\ live' = live /\ pc' = pc /\ jrnl' = jrnl /\ job' = job
        /\ mem' = mem /\ ledger' = ledger /\ errors' = errors /\ crashes' = crashes
    BY <1>6 DEF vars
  <2>2. Located'
    <3>1. PICK k \in Phases, s \in 0 .. Top, p \in Plans \union {<< >>}, c \in Maps(Len(ledger)) :
              Where(k, s, p, c)
      BY DEF IInv, Located
    <3>2. Stage(k, media', live', s, p, c, Len(ledger'))
      BY <2>1, <3>1 DEF Where
    <3>3. PhaseAt(k)' /\ HeldAt(k, s, p, c)'
      BY <2>1, <3>1 DEF Where, PhaseAt, HeldAt, JobIs
    <3>4. WrittenAt(k, s, p, c)'
      <4>1. WrittenAt(k, s, p, c) /\ (pc \in Settled => live = media')
        BY <2>1, <3>1 DEF Where, WrittenAt
      <4> QED BY <2>1, <4>1, WrittenSame
    <3> QED BY <3>2, <3>3, <3>4, LocatedBy
  <2> QED BY <2>1, <2>2 DEF IInv, Books, Registers
<1> QED BY <1>1, <1>2, <1>3, <1>4, <1>5, <1>6 DEF Next

\* The invariant holds throughout.
LEMMA Invariant == Spec => []IInv
<1>1. Init => IInv
  BY InitStep
<1>2. IInv /\ [Next]_vars => IInv'
  BY NextStep
<1> QED BY <1>1, <1>2, PTL DEF Spec

------------------------------------------------------------------------------
\* What the invariant says of each point of the program.
LEMMA IInvFacts ==
    ASSUME IInv
    PROVE  \E k, s, p, c :
               /\ Where(k, s, p, c) /\ Args(k, s, p, c, Len(ledger)) /\ Len(ledger) \in Nat
               /\ Ok(k, media, s, p, c, Len(ledger)) /\ Ok(k, live, s, p, c, Len(ledger))
               /\ c \in Maps(Len(ledger))
<1>1. PICK k \in Phases, s \in 0 .. Top, p \in Plans \union {<< >>}, c \in Maps(Len(ledger)) :
          Where(k, s, p, c)
  BY DEF IInv, Located
<1>2. /\ Args(k, s, p, c, Len(ledger))
      /\ Ok(k, media, s, p, c, Len(ledger)) /\ Ok(k, live, s, p, c, Len(ledger))
  BY <1>1 DEF Where, Stage
<1>3. Len(ledger) \in Nat
  BY <1>2 DEF Args
<1> QED BY <1>1, <1>2, <1>3

(* The state is well formed at every point of the writer and of the mount: the
   device keeps its blocks, the journal is not marked in use between
   transactions, and memory shows numbers of transactions that have begun.     *)
THEOREM TypeSafe == Spec => []TypeOK
<1>1. ASSUME IInv PROVE TypeOK
  <2>1. PICK k, s, p, c :
            /\ Args(k, s, p, c, Len(ledger)) /\ Len(ledger) \in Nat
            /\ Ok(k, media, s, p, c, Len(ledger)) /\ Ok(k, live, s, p, c, Len(ledger))
    BY <1>1, IInvFacts
  <2>2. Device(media) /\ Device(live)
    BY <2>1, OkDevice
  <2>3. DOMAIN media = Blocks /\ DOMAIN live = Blocks
    <3>1. \A m : m = [b \in Blocks |-> m[b]] => DOMAIN m = Blocks
      OBVIOUS
    <3> QED BY <2>2, <3>1 DEF Device
  <2>4. mem \in [Homes -> -1 .. MaxTx]
    <3>1. mem \in [Homes -> 0 .. Len(ledger)] /\ Len(ledger) <= MaxTx /\ MaxTx \in Nat
      BY <1>1, JournalBounds DEF IInv, Registers, Books, Maps
    <3>2. \A i \in 0 .. Len(ledger) : i \in -1 .. MaxTx
      BY <2>1, <3>1, SMTT(30)
    <3> QED BY <3>1, <3>2
  <2>5. /\ pc \in Locations /\ jrnl \in [seq : 0 .. Modulus - 1, start : {0, First}]
        /\ pc = "idle" => jrnl.start = 0
        /\ DOMAIN job.homes = DOMAIN job.post /\ job.n \in 1 .. MaxHomes
        /\ errors \in 0 .. MaxErrors /\ crashes \in 0 .. MaxCrashes
    BY <1>1 DEF IInv, Registers, IsJob, Top
  <2>6. Len(ledger) <= MaxTx
    BY <1>1 DEF IInv, Books
  <2> QED BY <2>3, <2>4, <2>5, <2>6 DEF TypeOK
<1> QED BY <1>1, Invariant, PTL

\* What of acceptance needs nothing of the counts: whatever is on the media, recovery
\* accepts it, and only a count can have made a mount refuse it.
RecoveryReady == RecoveryAccepts(media) /\ (pc = "refused" => ~Legible(live))

(* Recovery accepts whatever a crash leaves on the media: initialize_journal
   refuses nothing the writer, the checkpoint, the replay or the reset can leave
   behind, whole or torn.  A mount that fails on such a device without an I/O
   error fails before, in read_super or load_group_descs.                      *)
THEOREM RecoverySafe == Spec => []RecoveryReady
<1>1. ASSUME IInv PROVE RecoveryReady
  <2>1. PICK k, s, p, c : /\ Args(k, s, p, c, Len(ledger)) /\ Ok(k, media, s, p, c, Len(ledger))
    BY <1>1, IInvFacts
  <2>2. RecoveryAccepts(media)
    BY <2>1, OkFinds
  <2>3. pc = "refused" => ~Legible(live)
    BY <1>1 DEF IInv, Registers
  <2> QED BY <2>2, <2>3 DEF RecoveryReady
<1> QED BY <1>1, Invariant, PTL

\* Every count stays within its bound whatever its low byte is.
RoomForTears ==
    \A h \in Homes : \A t \in 0 .. MaxTx : (Count[h][t] \div Byte) * Byte + Byte - 1 <= Limit[h]

\* A count with the low byte of one transaction and the rest of another.
LEMMA CountFits ==
    ASSUME RoomForTears, NEW h \in Homes, NEW a \in 0 .. MaxTx, NEW b \in 0 .. MaxTx,
           NEW v, v[1] = Image(a)[1], v[2] = Image(b)[2]
    PROVE  CountRead(h, v) <= Limit[h]
<1>1. v[1].tx = a /\ v[2].tx = b
  BY SMTT(30) DEF Image, Whole
<1>2. PICK x, y : x = Count[h][b] /\ y = Count[h][a]
  OBVIOUS
<1>3. CountRead(h, v) = (x \div Byte) * Byte + (y % Byte)
  BY <1>1, <1>2 DEF CountRead
<1>4. x \in Nat /\ y \in Nat /\ Limit[h] \in Nat /\ Byte \in Nat \ {0}
  BY <1>2, CountAssumption, SMTT(30)
<1>5. (x \div Byte) * Byte + Byte - 1 <= Limit[h]
  BY <1>2 DEF RoomForTears
<1>6. PICK z : z = (x \div Byte) * Byte
  OBVIOUS
<1>7. z \in Int
  BY <1>4, <1>6, SMTT(30)
<1>8. y % Byte \in 0 .. Byte - 1
  BY <1>4, SMTT(30)
<1>9. z + Byte - 1 <= Limit[h]
  BY <1>5, <1>6
<1>10. z + (y % Byte) <= Limit[h]
  BY <1>4, <1>7, <1>8, <1>9, SMTT(30)
<1> QED BY <1>3, <1>6, <1>10

\* The homes of a device hold images of transactions, or one image over another.
LEMMA OkLegible ==
    ASSUME RoomForTears, NEW k, NEW m, NEW s, NEW p, NEW c, NEW t,
           Args(k, s, p, c, t), Ok(k, m, s, p, c, t), t <= MaxTx
    PROVE  Legible(m)
<1>0. PICK d : d = Value(k, m, s, p, c, t)
  OBVIOUS
<1>1. /\ d \in Maps(t)
      /\ \/ Quiet(m, d, t)
         \/ Full(m, s, p, c, t) /\ k \in {"commit", "home", "clear"}
  BY <1>0, OkShape, SMTT(30)
<1>2. t \in Nat /\ MaxTx \in Nat
  BY JournalBounds DEF Args
<1>3. t \in 0 .. MaxTx /\ \A i \in 0 .. t : i \in 0 .. MaxTx
  BY <1>2, SMTT(30)
<1> SUFFICES ASSUME NEW h \in Homes PROVE CountRead(h, m[Home(h)]) <= Limit[h]
  BY DEF Legible
<1>4. CASE Quiet(m, d, t)
  <2>1. m[Home(h)] = Image(d[h]) /\ d[h] \in 0 .. MaxTx
    BY <1>1, <1>3, <1>4 DEF Quiet, Maps
  <2> QED BY <2>1, CountFits
<1>5. CASE Full(m, s, p, c, t) /\ k \in {"commit", "home", "clear"}
  <2>1. t \in Nat \ {0} /\ c \in Maps(t - 1)
    BY <1>5 DEF Args, NoTx
  <2>2. c[h] \in 0 .. MaxTx
    <3>1. c[h] \in 0 .. t - 1
      BY <2>1 DEF Maps
    <3> QED BY <1>2, <2>1, <3>1, SMTT(30)
  <2>3. m[Home(h)] = Image(c[h]) \/ m[Home(h)] \in Cut(Image(t), Image(c[h]))
    BY <1>5 DEF Full
  <2>4. Cut(Image(t), Image(c[h])) = {Image(c[h]), <<Image(t)[1], Image(c[h])[2]>>, Image(t)}
    BY ImageFacts, CutPair
  <2>5. CASE m[Home(h)] = Image(c[h])
    BY <2>2, <2>5, CountFits
  <2>6. CASE m[Home(h)] = Image(t)
    BY <1>3, <2>6, CountFits
  <2>7. CASE m[Home(h)] = <<Image(t)[1], Image(c[h])[2]>>
    <3>1. m[Home(h)][1] = Image(t)[1] /\ m[Home(h)][2] = Image(c[h])[2]
      BY <2>7, SMTT(30)
    <3> QED BY <1>3, <2>2, <3>1, CountFits
  <2> QED BY <2>3, <2>4, <2>5, <2>6, <2>7
<1> QED BY <1>1, <1>4, <1>5

(* When no count can leave its bounds by a torn low byte, a mount accepts whatever
   a crash leaves on the media: the checks of read_super and load_group_descs on
   the homes as they are, and those of initialize_journal, refuse nothing.     *)
THEOREM MountSafe ==
    ASSUME RoomForTears
    PROVE  Spec => []MountAccepts
<1>1. ASSUME IInv PROVE MountAccepts
  <2> DEFINE t == Len(ledger)
  <2>1. PICK k, s, p, c :
            /\ Args(k, s, p, c, t) /\ Ok(k, media, s, p, c, t) /\ Ok(k, live, s, p, c, t)
    BY <1>1, IInvFacts
  <2>2. t <= MaxTx
    BY <1>1 DEF IInv, Books
  <2> HIDE DEF t
  <2>3. Legible(media) /\ Legible(live)
    BY <2>1, <2>2, OkLegible
  <2>4. RecoveryAccepts(media)
    BY <2>1, OkFinds
  <2>5. pc # "refused"
    BY <1>1, <2>3 DEF IInv, Registers
  <2> QED BY <2>3, <2>4, <2>5 DEF MountAccepts, Accepts
<1> QED BY <1>1, Invariant, PTL

(* Recovery replays the newest transaction or none, although commit slots and
   sequence numbers are used again and the numbers wrap.                       *)
THEOREM ReplaySafe == Spec => []NoStaleReplay
<1>1. ASSUME IInv PROVE NoStaleReplay
  <2>1. PICK k, s, p, c :
            /\ Args(k, s, p, c, Len(ledger)) /\ Len(ledger) \in Nat
            /\ Ok(k, media, s, p, c, Len(ledger)) /\ Ok(k, live, s, p, c, Len(ledger))
    BY <1>1, IInvFacts
  <2>2. \A m \in {media, live} :
            \A i \in DOMAIN Plan(m).post : Plan(m).post[i] = Image(Len(ledger))
    BY <2>1, OkFinds, SMTT(30)
  <2> QED BY <2>2 DEF NoStaleReplay
<1> QED BY <1>1, Invariant, PTL

(* Memory is never ahead of what recovery would rebuild: commit_metadata_transaction
   publishes a transaction only once power loss can no longer undo it.         *)
THEOREM MemorySafe == Spec => []MemoryRecoverable
<1>1. ASSUME IInv, Mounted
      PROVE  /\ \A h \in Homes : mem[h] <= Recovered(media)[h]
             /\ pc = "idle" => /\ mem = Recovered(media)
                               /\ \A h \in Homes : live[Home(h)] = Image(mem[h])
  <2> DEFINE t == Len(ledger)
  <2>1. PICK k, s, p, c :
            /\ Where(k, s, p, c) /\ Args(k, s, p, c, t) /\ t \in Nat
            /\ Ok(k, media, s, p, c, t) /\ Ok(k, live, s, p, c, t) /\ c \in Maps(t)
    BY <1>1, IInvFacts
  <2> DEFINE d == Value(k, media, s, p, c, t)
  <2>2. Recovered(media) = d
    BY <2>1, OkFinds
  <2>3. PhaseAt(k) /\ HeldAt(k, s, p, c)
    BY <2>1 DEF Where
  <2>4. pc \in Running \union {"poisoned", "idle"}
    BY <1>1 DEF Mounted, Locations, Running
  <2>5. mem = c \/ (Done(k, media, s, p, c, t) /\ mem = d)
    BY <2>3, <2>4 DEF HeldAt, Done, Value
  <2>6. \A h \in Homes : c[h] <= d[h] /\ d[h] <= d[h]
    <3> SUFFICES ASSUME NEW h \in Homes PROVE c[h] <= d[h] /\ d[h] <= d[h]
      OBVIOUS
    <3>1. c[h] \in 0 .. t
      BY <2>1 DEF Maps
    <3>2. d[h] = c[h] \/ d[h] = t
      BY DEF Value, After
    <3> HIDE DEF d
    <3> QED BY <2>1, <3>1, <3>2, SMTT(30)
  <2>7. \A h \in Homes : mem[h] <= d[h]
    <3> HIDE DEF d
    <3> QED BY <2>5, <2>6
  <2>8. ASSUME pc = "idle" PROVE mem = d /\ \A h \in Homes : live[Home(h)] = Image(mem[h])
    <3>1. k = "reset" /\ mem = c
      BY <2>3, <2>8 DEF PhaseAt, HeldAt
    <3>2. d = c
      BY <3>1 DEF Value, Done
    <3>3. Quiet(live, c, t)
      BY <2>1, <3>1 DEF Ok, Ready
    <3> QED BY <3>1, <3>2, <3>3 DEF Quiet
  <2> QED BY <2>2, <2>7, <2>8
<1>2. IInv => MemoryRecoverable
  BY <1>1 DEF MemoryRecoverable
<1> QED BY <1>2, Invariant, PTL

------------------------------------------------------------------------------
\* The journal implements the atomic store.

\* But for the commit block, nothing a phase writes changes what a mount finds.
LEMMA FoundSame ==
    ASSUME NEW k, NEW s, NEW p, NEW c, NEW t, Args(k, s, p, c, t), k # "commit",
           NEW m, Ok(k, m, s, p, c, t), NEW n, Ok(k, n, s, p, c, t)
    PROVE  Recovered(m) = Recovered(n)
<1>1. Recovered(m) = Value(k, m, s, p, c, t) /\ Recovered(n) = Value(k, n, s, p, c, t)
  BY OkFinds
<1>2. Done(k, m, s, p, c, t) <=> Done(k, n, s, p, c, t)
  BY DEF Done
<1>3. CASE Done(k, m, s, p, c, t)
  BY <1>1, <1>2, <1>3 DEF Value
<1>4. CASE ~Done(k, m, s, p, c, t)
  BY <1>1, <1>2, <1>4 DEF Value
<1> QED BY <1>3, <1>4

\* The store's transaction is open while the writer works or the mount is poisoned.
LEMMA StoreOpen ==
    ASSUME IInv
    PROVE  /\ Store!Open <=> pc \in Running \union {"poisoned"}
           /\ Open <=> Store!Open
           /\ pc \in Running => Store!Last.res = "running"
<1>1. PICK k, s, p, c : Where(k, s, p, c)
  BY IInvFacts
<1>2. pc \in Running \union {"poisoned"} => Len(ledger) # 0
  BY <1>1, RunningFacts
<1>3. ledger # << >> <=> Len(ledger) # 0
  <2>1. ledger \in Seq([homes : SUBSET Homes, res : Results])
    BY DEF IInv, Books
  <2> QED BY <2>1, SMTT(30)
<1>4. Len(ledger) # 0 => /\ ledger[Len(ledger)].res = "running" <=> pc \in Running
                         /\ ledger[Len(ledger)].res = "unknown" <=> pc = "poisoned"
  BY DEF IInv, Books
<1> QED BY <1>2, <1>3, <1>4 DEF Store!Open, Store!Last, Open

\* A caller is answered.
LEMMA StoreReturn ==
    ASSUME IInv, pc \in Running, NEW r \in {"ok", "aborted", "unknown"}, Settle(r),
           Recovered(media') = Recovered(media),
           r = "ok" => Store!Applied, r = "aborted" => ~Store!Applied
    PROVE  Store!Next
<1>1. Store!Open /\ Open /\ Store!Last.res = "running"
  BY StoreOpen
<1>2. ledger' = [ledger EXCEPT ![Len(ledger)].res = r]
  BY <1>1 DEF Settle
<1>3. Store!Return(r)
  BY <1>1, <1>2 DEF Store!Return
<1> QED BY <1>3 DEF Store!Next

\* The commit block of the transaction arrives: it takes place.
LEMMA StoreApply ==
    ASSUME IInv, pc \in Running \union {"poisoned"}, ledger' = ledger,
           NEW k, NEW s, NEW p, NEW c, Where(k, s, p, c),
           Recovered(media) \in {c, After(p, c, Len(ledger))},
           Recovered(media') \in {Recovered(media), After(p, c, Len(ledger))}
    PROVE  [Store!Next]_Store!vars
<1>1. CASE Recovered(media') = Recovered(media)
  BY <1>1 DEF Store!vars
<1>2. CASE Recovered(media) = c /\ Recovered(media') = After(p, c, Len(ledger))
  <2>1. Store!Last.homes = Named(p)
    BY <1>2 DEF Where, HeldAt, Store!Last
  <2>2. Store!Open
    BY StoreOpen
  <2>3. Store!Apply
    BY <1>2, <2>1, <2>2 DEF Store!Apply, After
  <2> QED BY <2>3 DEF Store!Next
<1> QED BY <1>1, <1>2

\* What the transaction of a phase has done to the store.
LEMMA StoreApplied ==
    ASSUME NEW k, NEW s, NEW p, NEW c, Writer(k, s, p, c)
    PROVE  /\ k \in {"home", "clear"} => Store!Applied
           /\ k \in {"mark", "log", "abort"} => ~Store!Applied
<1> DEFINE t == Len(ledger)
<1>1. /\ Args(k, s, p, c, t) /\ Ok(k, media, s, p, c, t) /\ p \in Plans /\ t \in Nat \ {0}
      /\ c \in Maps(t - 1) /\ Store!Last.homes = Named(p)
  BY DEF Writer, Stage, HeldAt, Store!Last
<1>2. Recovered(media) = Value(k, media, s, p, c, t)
  BY <1>1, OkFinds
<1>3. Named(p) \subseteq Homes /\ p[1] \in Named(p)
  BY <1>1, PlanFacts
<1>4. ASSUME k \in {"home", "clear"} PROVE Store!Applied
  <2>1. Recovered(media) = After(p, c, t)
    BY <1>2, <1>4 DEF Value, Done
  <2> QED BY <1>1, <1>3, <2>1 DEF Store!Applied, After
<1>5. ASSUME k \in {"mark", "log", "abort"} PROVE ~Store!Applied
  <2>1. Recovered(media) = c
    BY <1>2, <1>5 DEF Value, Done
  <2>2. c[p[1]] \in 0 .. t - 1
    BY <1>1, <1>3 DEF Maps
  <2>3. c[p[1]] # t
    <3> HIDE DEF t
    <3> QED BY <1>1, <2>2, SMTT(30)
  <2> QED BY <1>1, <1>3, <2>1, <2>3 DEF Store!Applied
<1> QED BY <1>4, <1>5

\* A flush at any point but that of the commit block.
LEMMA StoreFlush ==
    ASSUME IInv, media' = live,
           pc \in {"markflush", "imageflush", "homeflush", "clearflush", "abortflush",
                   "intentflush", "featureflush", "replayflush", "resetflush"}
    PROVE  Recovered(media') = Recovered(media)
<1>1. PICK k, s, p, c :
          /\ Where(k, s, p, c) /\ Args(k, s, p, c, Len(ledger))
          /\ Ok(k, media, s, p, c, Len(ledger)) /\ Ok(k, live, s, p, c, Len(ledger))
  BY IInvFacts
<1>2. k # "commit"
  BY <1>1 DEF Where, PhaseAt
<1>3. Recovered(live) = Recovered(media)
  BY <1>1, <1>2, FoundSame, SMTT(30)
<1> QED BY <1>3

\* What the steps of the writer do to the media and tell their callers.
LEMMA TxShape ==
    ASSUME TxStep
    PROVE  \/ media' = media /\ ledger' = ledger
           \/ pc \in {"markflush", "imageflush", "homeflush"} /\ media' = live /\ ledger' = ledger
           \/ pc = "commitflush" /\ media' = live /\ ledger' = ledger
           \/ pc \in Running /\ media' = media /\ Settle("unknown")
           \/ pc = "clearflush" /\ media' = live /\ Settle("ok")
           \/ pc = "abortflush" /\ media' = live /\ Settle("aborted")
           \/ pc = "mark" /\ media' = media /\ Settle("aborted")
<1> USE DEF Wrote, WriteError, Flushed, FlushError, Poison, Stays, Loop
<1>1. CASE BuildFails
  <2>1. pc = "mark" /\ media' = media /\ Settle("aborted")
    BY <1>1 DEF BuildFails
  <2> QED BY <2>1
<1>2. CASE Mark
  BY <1>2 DEF Mark, Running
<1>3. CASE MarkFlush
  BY <1>3 DEF MarkFlush, Running
<1>4. CASE WriteDescriptor
  BY <1>4 DEF WriteDescriptor
<1>5. CASE WriteImage
  BY <1>5 DEF WriteImage
<1>6. CASE ImageFlush
  BY <1>6 DEF ImageFlush
<1>7. CASE WriteCommit
  BY <1>7 DEF WriteCommit, Running
<1>8. CASE CommitFlush
  BY <1>8 DEF CommitFlush, Running
<1>9. CASE WriteHome
  BY <1>9 DEF WriteHome, Running
<1>10. CASE HomeFlush
  BY <1>10 DEF HomeFlush, Running
<1>11. CASE Clear
  BY <1>11 DEF Clear, Running
<1>12. CASE ClearFlush
  BY <1>12 DEF ClearFlush, Running
<1>13. CASE Abort
  BY <1>13 DEF Abort, Running
<1>14. CASE AbortFlush
  BY <1>14 DEF AbortFlush, Running
<1> QED BY <1>1, <1>2, <1>3, <1>4, <1>5, <1>6, <1>7, <1>8, <1>9, <1>10, <1>11, <1>12, <1>13,
           <1>14 DEF TxStep

\* The same of the mount, which answers no caller.
LEMMA MountShape ==
    ASSUME MountStep
    PROVE  /\ ledger' = ledger
           /\ \/ media' = media
              \/ /\ pc \in {"intentflush", "featureflush", "replayflush", "resetflush"}
                 /\ media' = live
<1> USE DEF Wrote, WriteError, Flushed, FlushError, MountFails, Stays, Loop
<1>1. CASE Mount \/ Publish
  BY <1>1 DEF Mount, Publish
<1>2. CASE EnsureIntent \/ IntentFlush
  BY <1>2 DEF EnsureIntent, IntentFlush
<1>3. CASE EnsureRecover
  <2>1. ledger' = ledger /\ media' = media
    BY <1>3 DEF EnsureRecover
  <2> QED BY <2>1
<1>4. CASE FeatureFlush
  BY <1>4 DEF FeatureFlush
<1>5. CASE Replay \/ Reset
  BY <1>5 DEF Replay, Reset
<1>6. CASE ReplayFlush \/ ResetFlush
  BY <1>6 DEF ReplayFlush, ResetFlush
<1> QED BY <1>1, <1>2, <1>3, <1>4, <1>5, <1>6 DEF MountStep

\* The writer takes steps of the store.
LEMMA StoreTx ==
    ASSUME IInv, TxStep
    PROVE  [Store!Next]_Store!vars
<1>1. CASE media' = media /\ ledger' = ledger
  BY <1>1 DEF Store!vars
<1>2. CASE pc \in {"markflush", "imageflush", "homeflush"} /\ media' = live /\ ledger' = ledger
  <2>1. Recovered(media') = Recovered(media)
    BY <1>2, StoreFlush
  <2> QED BY <1>2, <2>1 DEF Store!vars
<1>3. CASE pc = "commitflush" /\ media' = live /\ ledger' = ledger
  <2>1. PICK k, s, p, c : Writer(k, s, p, c)
    BY <1>3, WriterAt DEF Running
  <2> DEFINE t == Len(ledger)
  <2>2. /\ k = "commit" /\ Args(k, s, p, c, t) /\ Ok(k, media, s, p, c, t) /\ Ok(k, live, s, p, c, t)
        /\ live[Log(Len(p) + 2)] = Seal(s, p, c, t) /\ Where(k, s, p, c)
    BY <1>3, <2>1 DEF Writer, PhaseAt, WrittenAt
  <2>3. Recovered(media) \in {c, After(p, c, t)}
    <3>1. Recovered(media) = Value(k, media, s, p, c, t)
      BY <2>2, OkFinds
    <3> QED BY <3>1 DEF Value
  <2>4. Recovered(live) = After(p, c, t)
    <3>1. Recovered(live) = Value(k, live, s, p, c, t)
      BY <2>2, OkFinds
    <3> QED BY <2>2, <3>1 DEF Value, Done
  <2>5. Recovered(media') \in {Recovered(media), After(p, c, t)}
    BY <1>3, <2>4
  <2>6. pc \in Running \union {"poisoned"}
    BY <1>3 DEF Running
  <2> QED BY <1>3, <2>2, <2>3, <2>5, <2>6, StoreApply
<1>4. CASE pc \in Running /\ media' = media /\ Settle("unknown")
  BY <1>4, StoreReturn
<1>5. CASE pc = "clearflush" /\ media' = live /\ Settle("ok")
  <2>1. Recovered(media') = Recovered(media) /\ pc \in Running
    BY <1>5, StoreFlush DEF Running
  <2>2. PICK k, s, p, c : Writer(k, s, p, c)
    BY <2>1, WriterAt
  <2>3. k = "clear"
    BY <1>5, <2>2 DEF Writer, PhaseAt
  <2>4. Store!Applied
    BY <2>2, <2>3, StoreApplied
  <2> QED BY <1>5, <2>1, <2>4, StoreReturn
<1>6. CASE pc = "abortflush" /\ media' = live /\ Settle("aborted")
  <2>1. Recovered(media') = Recovered(media) /\ pc \in Running
    BY <1>6, StoreFlush DEF Running
  <2>2. PICK k, s, p, c : Writer(k, s, p, c)
    BY <2>1, WriterAt
  <2>3. k = "abort"
    BY <1>6, <2>2 DEF Writer, PhaseAt
  <2>4. ~Store!Applied
    BY <2>2, <2>3, StoreApplied
  <2> QED BY <1>6, <2>1, <2>4, StoreReturn
<1>7. CASE pc = "mark" /\ media' = media /\ Settle("aborted")
  <2>1. Recovered(media') = Recovered(media) /\ pc \in Running
    BY <1>7 DEF Running
  <2>2. PICK k, s, p, c : Writer(k, s, p, c)
    BY <2>1, WriterAt
  <2>3. k = "mark"
    BY <1>7, <2>2 DEF Writer, PhaseAt
  <2>4. ~Store!Applied
    BY <2>2, <2>3, StoreApplied
  <2> QED BY <1>7, <2>1, <2>4, StoreReturn
<1> QED BY <1>1, <1>2, <1>3, <1>4, <1>5, <1>6, <1>7, TxShape

\* The device moves a block to the media: if it is the commit block, the
\* transaction takes place.
LEMMA StorePersist ==
    ASSUME IInv, NEW b \in Blocks, Persist(b)
    PROVE  [Store!Next]_Store!vars
<1> DEFINE t == Len(ledger)
<1>1. PICK k, s, p, c :
          /\ Where(k, s, p, c) /\ Args(k, s, p, c, t)
          /\ Ok(k, media, s, p, c, t) /\ Ok(k, live, s, p, c, t)
  BY IInvFacts
<1>2. PICK x \in Cut(live[b], media[b]) : Put(media', media, b, x) /\ media[b] # live[b]
  BY DEF Persist, Put, Cut
<1>3. ledger' = ledger /\ Stage(k, media, live, s, p, c, t) /\ PhaseAt(k) /\ WrittenAt(k, s, p, c)
  BY <1>1 DEF Persist, Where
<1>4. Stage(k, media', live, s, p, c, t) /\ To(k, b, p)
  <2> HIDE DEF t
  <2> QED BY <1>2, <1>3, StagePersist
<1>5. Ok(k, media', s, p, c, t)
  BY <1>4 DEF Stage
<1>6. CASE k # "commit"
  <2>1. Recovered(media') = Recovered(media)
    <3> HIDE DEF t
    <3> QED BY <1>1, <1>5, <1>6, FoundSame, SMTT(30)
  <2> QED BY <1>3, <2>1 DEF Store!vars
<1>7. CASE k = "commit"
  <2>1. pc \in Running \union {"poisoned"}
    <3>1. pc \notin Settled
      BY <1>2, <1>3 DEF WrittenAt
    <3>2. pc \in Locations
      BY DEF IInv, Registers
    <3>3. \/ pc \in {"intentflush", "featureflush", "replay", "replayflush", "resetflush"}
          \/ pc \in {"failed"} \union Running \union {"poisoned"}
      BY <3>1, <3>2 DEF Settled, Locations, Running
    <3>4. /\ pc # "failed"
          /\ pc \notin {"intentflush", "featureflush", "replay", "replayflush", "resetflush"}
      BY <1>3, <1>7 DEF PhaseAt, NoTx
    <3> QED BY <3>3, <3>4
  <2>2. /\ Recovered(media) = Value(k, media, s, p, c, t)
        /\ Recovered(media') = Value(k, media', s, p, c, t)
    <3> HIDE DEF t
    <3> QED BY <1>1, <1>5, OkFinds
  <2>3. Recovered(media) \in {c, After(p, c, t)}
    BY <2>2 DEF Value
  <2>4. Recovered(media') \in {Recovered(media), After(p, c, t)}
    <3>1. CASE Done(k, media, s, p, c, t)
      <4>1. p \in Plans /\ b = Log(Len(p) + 2) /\ media[b] = Seal(s, p, c, t)
            /\ live[b] \in Cut(Val(k, b, s, p, c, t), media[b])
        BY <1>1, <1>3, <1>4, <1>7, <3>1 DEF Args, NoTx, To, Done, Stage, Ahead
      <4>2. Val(k, b, s, p, c, t) = Seal(s, p, c, t)
        <5>1. b # JSuper
          BY <4>1, PlanFacts, BlockFacts
        <5> QED BY <1>7, <5>1 DEF Val
      <4>3. Pair(Seal(s, p, c, t))
        BY <4>1, SealFacts, SMTT(30)
      <4>4. PICK v : v = Seal(s, p, c, t) /\ Pair(v) /\ live[b] \in Cut(v, v)
        BY <4>1, <4>2, <4>3
      <4>5. Cut(v, v) = {v, <<v[1], v[2]>>, v}
        BY <4>4, CutPair
      <4>6. live[b] = media[b]
        BY <4>1, <4>4, <4>5 DEF Pair
      <4> QED BY <1>2, <4>6
    <3>2. CASE ~Done(k, media, s, p, c, t)
      BY <2>2, <3>2 DEF Value
    <3> QED BY <3>1, <3>2
  <2> QED BY <1>1, <1>3, <2>1, <2>3, <2>4, StoreApply
<1> QED BY <1>6, <1>7

\* Every step of the journal is a step of the store, or changes nothing of it.
LEMMA StoreStep ==
    ASSUME IInv, [Next]_vars
    PROVE  [Store!Next]_Store!vars
<1>1. ASSUME NEW p \in Plans, Begin(p) PROVE Store!Next
  <2>1. pc = "idle" /\ media' = media
        /\ ledger' = Append(ledger, [homes |-> {p[i] : i \in DOMAIN p}, res |-> "running"])
    BY <1>1 DEF Begin
  <2>2. ~Store!Open
    BY <2>1, StoreOpen DEF Running
  <2>3. Store!Begin(p)
    BY <2>1, <2>2 DEF Store!Begin
  <2> QED BY <2>3 DEF Store!Next
<1>2. CASE TxStep
  BY <1>2, StoreTx
<1>3. CASE MountStep
  <2>1. Recovered(media') = Recovered(media) /\ ledger' = ledger
    BY <1>3, MountShape, StoreFlush
  <2> QED BY <2>1 DEF Store!vars
<1>4. CASE \E b \in Blocks : Persist(b)
  BY <1>4, StorePersist
<1>5. CASE Crash
  <2>1. media' = media /\ Settle("lost")
    BY <1>5 DEF Crash
  <2>2. CASE Open
    <3>1. Store!Open
      BY <2>2, StoreOpen
    <3>2. Store!Lose
      BY <2>1, <2>2, <3>1 DEF Settle, Store!Lose
    <3> QED BY <3>2 DEF Store!Next
  <2>3. CASE ~Open
    BY <2>1, <2>3 DEF Settle, Store!vars
  <2> QED BY <2>2, <2>3
<1>6. CASE UNCHANGED vars
  BY <1>6 DEF vars, Store!vars
<1> QED BY <1>1, <1>2, <1>3, <1>4, <1>5, <1>6 DEF Next

(* The journal implements the atomic store: what initialize_journal would find on
   the media changes only when a transaction takes place as a whole, and agrees
   with what the caller of commit_metadata_transaction was told.               *)
THEOREM Refinement == Spec => ImplementsStore
<1>1. Init => Store!Init
  <2>1. Init => ledger = << >>
    BY DEF Init
  <2> QED BY <2>1, InitStep DEF Store!Init
<1>2. IInv /\ [Next]_vars => [Store!Next]_Store!vars
  BY StoreStep
<1>3. Spec => Store!Spec
  BY <1>1, <1>2, Invariant, PTL DEF Spec, Store!Spec
<1> QED BY <1>3 DEF ImplementsStore

\* The store of the journal, with what is proved of the store.
Promise == INSTANCE AtomicStoreProofs WITH store <- Recovered(media)

(* What the callers of commit_metadata_transaction can rely on, whatever fails and
   whenever power is lost: a mount of the media would find the last transaction
   in all of its homes or in none, one that was reported done in each of its
   homes, or a later one there, and one that was reported aborted in none.     *)
THEOREM CallersSafe == Spec => [](Promise!AllOrNothing /\ Promise!CallersRight)
<1>1. Promise!PlansFit
  BY PlanFacts DEF Promise!PlansFit
<1>2. Promise!Spec => [](Promise!AllOrNothing /\ Promise!CallersRight)
  BY <1>1, Promise!StoreSafe
<1>3. Store!Init => Promise!Init
  BY DEF Store!Init, Promise!Init
<1>4. [Store!Next]_Store!vars => [Promise!Next]_Promise!vars
  BY DEF Store!Next, Store!vars, Store!Begin, Store!Apply, Store!Return, Store!Lose, Store!Open,
         Store!Last, Store!Applied, Promise!Next, Promise!vars, Promise!Begin, Promise!Apply,
         Promise!Return, Promise!Lose, Promise!Open, Promise!Last, Promise!Applied
<1>5. Store!Spec => Promise!Spec
  BY <1>3, <1>4, PTL DEF Store!Spec, Promise!Spec
<1>6. Spec => Store!Spec
  BY Refinement DEF ImplementsStore
<1> QED BY <1>2, <1>5, <1>6, PTL
=============================================================================
