------------------------- MODULE AtomicStoreProofs -------------------------
(* What the atomic store means to the caller of a transaction, for any blocks,
   any transactions and any number of them.  Ext2Journal implements the store,
   so its callers can rely on the same.                                       *)
EXTENDS AtomicStore, TLAPS

\* The leaves are for Zenon, but for those that name SMT.
USE Zenon

\* Transactions replace blocks that exist.
PlansFit == \A p \in Plans : \A i \in DOMAIN p : p[i] \in Homes

Results == {"running", "unknown", "ok", "aborted", "lost"}
Entries == [homes : SUBSET Homes, res : Results]

TypeOK ==
    /\ store \in [Homes -> Nat]
    /\ ledger \in Seq(Entries)

(* The last transaction is in all of its blocks or in none, whatever its caller
   knows of it, and no block is ahead of it.                                  *)
AllOrNothing ==
    /\ \A h \in Homes : store[h] <= Len(ledger)
    /\ ledger # << >> => Applied \/ \A h \in Homes : store[h] # Len(ledger)

(* A transaction whose caller was told of success (the Ok of
   commit_metadata_transaction) is in each of its blocks, or a later one is;
   one whose caller was told that it was aborted is in no block.              *)
CallersRight ==
    \A i \in DOMAIN ledger :
        /\ ledger[i].res = "ok" => \A h \in ledger[i].homes : store[h] >= i
        /\ ledger[i].res = "aborted" => \A h \in Homes : store[h] # i

IInv == TypeOK /\ AllOrNothing /\ CallersRight

\* The entries of the ledger, and its last one, are entries.
LEMMA SeqFacts ==
    ASSUME NEW S, NEW s \in Seq(S)
    PROVE  /\ Len(s) \in Nat /\ DOMAIN s = 1 .. Len(s)
           /\ \A i \in 1 .. Len(s) : s[i] \in S
           /\ s # << >> => Len(s) # 0 /\ s[Len(s)] \in S
BY SMTT(30)

\* A new transaction is in no block yet.
LEMMA BeginKeeps ==
    ASSUME PlansFit, IInv, NEW p \in Plans, Begin(p)
    PROVE  IInv'
<1> DEFINE e == [homes |-> {p[i] : i \in DOMAIN p}, res |-> "running"]
<1>1. e \in Entries
  BY DEF PlansFit, Results, Entries
<1>2. TypeOK'
  BY <1>1, SMTT(30) DEF IInv, TypeOK, Begin
<1>3. /\ store' = store /\ ledger' = Append(ledger, e) /\ Len(ledger') = Len(ledger) + 1
      /\ Len(ledger) \in Nat /\ DOMAIN ledger' = 1 .. Len(ledger) + 1
      /\ \A i \in 1 .. Len(ledger) : ledger'[i] = ledger[i]
      /\ ledger'[Len(ledger) + 1] = e /\ ledger' # << >>
  BY <1>1, SMTT(30) DEF IInv, TypeOK, Begin
<1>4. AllOrNothing'
  BY <1>3, SMTT(30) DEF IInv, TypeOK, AllOrNothing
<1>5. CallersRight'
  <2> SUFFICES ASSUME NEW i \in 1 .. Len(ledger) + 1
               PROVE  /\ ledger'[i].res = "ok" => \A h \in ledger'[i].homes : store'[h] >= i
                      /\ ledger'[i].res = "aborted" => \A h \in Homes : store'[h] # i
    BY <1>3 DEF CallersRight
  <2>1. CASE i \in 1 .. Len(ledger)
    BY <2>1, <1>3, SMTT(30) DEF IInv, TypeOK, CallersRight
  <2>2. CASE i = Len(ledger) + 1
    BY <2>2, <1>3, SMTT(30)
  <2> QED BY <2>1, <2>2, <1>3, SMTT(30)
<1> QED BY <1>2, <1>4, <1>5 DEF IInv

\* The transaction takes place in all of its blocks at once.
LEMMA ApplyKeeps ==
    ASSUME IInv, Apply
    PROVE  IInv'
<1>1. /\ Len(ledger) \in Nat \ {0} /\ Last \in Entries
      /\ DOMAIN ledger = 1 .. Len(ledger) /\ Last = ledger[Len(ledger)]
      /\ ledger' = ledger /\ Last.res \in {"running", "unknown"}
  BY SeqFacts DEF IInv, TypeOK, Apply, Open, Last
<1>2. store' = [h \in Homes |-> IF h \in Last.homes THEN Len(ledger) ELSE store[h]]
  BY DEF Apply
<1>3. TypeOK'
  BY <1>1, <1>2 DEF IInv, TypeOK
<1>4. \A h \in Homes : store'[h] = IF h \in Last.homes THEN Len(ledger) ELSE store[h]
  BY <1>2
<1>5. AllOrNothing'
  <2>1. Last.homes \subseteq Homes /\ Last' = Last /\ Len(ledger') = Len(ledger)
    BY <1>1 DEF Entries, Last
  <2>2. Applied'
    BY <2>1, <1>4 DEF Applied
  <2>3. \A h \in Homes : store'[h] <= Len(ledger)
    BY <1>1, <1>4, SMTT(30) DEF IInv, TypeOK, AllOrNothing
  <2> QED BY <2>1, <2>2, <2>3 DEF AllOrNothing
<1>6. CallersRight'
  <2> SUFFICES ASSUME NEW i \in 1 .. Len(ledger)
               PROVE  /\ ledger[i].res = "ok" => \A h \in ledger[i].homes : store'[h] >= i
                      /\ ledger[i].res = "aborted" => \A h \in Homes : store'[h] # i
    BY <1>1 DEF CallersRight
  <2>1. CASE i = Len(ledger)
    BY <2>1, <1>1
  <2>2. CASE i < Len(ledger)
    <3>1. ledger[i] \in Entries
      BY SeqFacts DEF IInv, TypeOK
    <3>2. ledger[i].homes \subseteq Homes
      BY <3>1 DEF Entries
    <3> QED BY <2>2, <3>2, <1>1, <1>4, SMTT(30) DEF IInv, TypeOK, CallersRight
  <2>3. Len(ledger) \in Nat
    BY <1>1
  <2>4. i = Len(ledger) \/ i < Len(ledger)
    BY <2>3, SMTT(30)
  <2> QED BY <2>1, <2>2, <2>4
<1> QED BY <1>3, <1>5, <1>6 DEF IInv

\* A caller is told what happened to its transaction, or a crash settles it.
LEMMA SettleKeeps ==
    ASSUME IInv, NEW r \in Results,
           Open, store' = store,
           ledger' = [ledger EXCEPT ![Len(ledger)].res = r],
           r = "ok" => Applied,
           r = "aborted" => ~Applied
    PROVE  IInv'
<1> DEFINE n == Len(ledger)
<1>1. /\ n \in Nat \ {0} /\ n \in DOMAIN ledger /\ DOMAIN ledger = 1 .. n
      /\ ledger[n] \in Entries
  BY SeqFacts, SMTT(30) DEF IInv, TypeOK, Open
<1>2. /\ ledger' \in Seq(Entries)
      /\ Len(ledger') = n /\ DOMAIN ledger' = 1 .. n /\ ledger' # << >>
  <2>1. [ledger[n] EXCEPT !.res = r] \in Entries
    BY <1>1 DEF Entries
  <2>2. ledger' = [ledger EXCEPT ![n] = [ledger[n] EXCEPT !.res = r]]
    OBVIOUS
  <2>3. ledger \in Seq(Entries)
    BY DEF IInv, TypeOK
  <2> HIDE DEF n
  <2>4. ledger' \in Seq(Entries) /\ Len(ledger') = Len(ledger) /\ DOMAIN ledger' = DOMAIN ledger
    BY <2>1, <2>2, <2>3, <1>1, SMTT(30)
  <2> QED BY <2>4, <1>1 DEF n
<1>3. /\ \A i \in 1 .. n : i # n => ledger'[i] = ledger[i]
      /\ ledger'[n].homes = ledger[n].homes /\ ledger'[n].res = r
  BY <1>1, SMTT(30) DEF IInv, TypeOK
<1>4. Applied' <=> Applied
  BY <1>2, <1>3 DEF Applied, Last
<1>5. TypeOK'
  BY <1>2 DEF IInv, TypeOK
<1>6. AllOrNothing'
  BY <1>1, <1>2, <1>4 DEF IInv, AllOrNothing, Open
<1>7. CallersRight'
  <2> SUFFICES ASSUME NEW i \in 1 .. n
               PROVE  /\ ledger'[i].res = "ok" => \A h \in ledger'[i].homes : store[h] >= i
                      /\ ledger'[i].res = "aborted" => \A h \in Homes : store[h] # i
    BY <1>2 DEF CallersRight
  <2>1. CASE i # n
    BY <2>1, <1>1, <1>3 DEF IInv, CallersRight
  <2>2. CASE i = n
    <3>1. ASSUME r = "ok" PROVE \A h \in ledger[n].homes : store[h] >= n
      BY <3>1, <1>1, SMTT(30) DEF Applied, Last
    <3>2. ASSUME r = "aborted" PROVE \A h \in Homes : store[h] # n
      BY <3>2, <1>1 DEF IInv, AllOrNothing, Open
    <3> QED BY <2>2, <3>1, <3>2, <1>3
  <2> QED BY <2>1, <2>2
<1> QED BY <1>5, <1>6, <1>7 DEF IInv

(* Every transaction of the store takes place as a whole or not at all, and the
   answer its caller got stays true ever after, crashes included.  This is what
   the Ok, the non-poisoning error and the poisoning error of
   commit_metadata_transaction mean.                                          *)
THEOREM StoreSafe ==
    ASSUME PlansFit
    PROVE  Spec => [](AllOrNothing /\ CallersRight)
<1>1. Init => IInv
  BY SMTT(30) DEF Init, IInv, TypeOK, AllOrNothing, CallersRight
<1>2. IInv /\ [Next]_vars => IInv'
  <2> SUFFICES ASSUME IInv, [Next]_vars PROVE IInv'
    OBVIOUS
  <2>1. ASSUME NEW p \in Plans, Begin(p) PROVE IInv'
    BY <2>1, BeginKeeps
  <2>2. CASE Apply
    BY <2>2, ApplyKeeps
  <2>3. ASSUME NEW r \in {"ok", "aborted", "unknown"}, Return(r) PROVE IInv'
    BY <2>3, SettleKeeps DEF Return, Results
  <2>4. CASE Lose
    BY <2>4, SettleKeeps DEF Lose, Results
  <2>5. CASE UNCHANGED vars
    BY <2>5 DEF vars, IInv, TypeOK, AllOrNothing, CallersRight, Applied, Last
  <2> QED BY <2>1, <2>2, <2>3, <2>4, <2>5 DEF Next
<1>3. IInv => AllOrNothing /\ CallersRight
  BY DEF IInv
<1> QED BY <1>1, <1>2, <1>3, PTL DEF Spec
=============================================================================
