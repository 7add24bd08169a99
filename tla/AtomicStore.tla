---------------------------- MODULE AtomicStore ----------------------------
(* What a journaled filesystem promises about its metadata blocks: each
   transaction replaces the blocks it names in one step or not at all, it has
   done so when its caller is told of success and has not when the caller is
   told that it was given up, and nothing else ever changes a block, a crash
   included.  After an error of unknown effect the transaction may still take
   place, until the next crash settles it.                                    *)
EXTENDS Integers, Sequences

CONSTANTS
    Homes,        \* the blocks
    Plans         \* the sequences of distinct blocks a transaction may replace

VARIABLES
    store,        \* for every block, the transaction that wrote it last (0: none)
    ledger        \* the transactions begun, in order: [homes, res]

vars == <<store, ledger>>

Last == ledger[Len(ledger)]
Open == ledger # << >> /\ Last.res \in {"running", "unknown"}
Applied == \A h \in Last.homes : store[h] = Len(ledger)

Init == store = [h \in Homes |-> 0] /\ ledger = << >>

Begin(p) ==
    /\ ~Open
    /\ ledger' = Append(ledger, [homes |-> {p[i] : i \in DOMAIN p}, res |-> "running"])
    /\ UNCHANGED store

Apply ==
    /\ Open
    /\ store' = [h \in Homes |-> IF h \in Last.homes THEN Len(ledger) ELSE store[h]]
    /\ UNCHANGED ledger

Return(r) ==
    /\ Open /\ Last.res = "running"
    /\ r = "ok" => Applied
    /\ r = "aborted" => ~Applied
    /\ ledger' = [ledger EXCEPT ![Len(ledger)].res = r]
    /\ UNCHANGED store

\* A crash: a transaction whose caller has no answer is settled as it stands.
Lose ==
    /\ Open
    /\ ledger' = [ledger EXCEPT ![Len(ledger)].res = "lost"]
    /\ UNCHANGED store

Next ==
    \/ \E p \in Plans : Begin(p)
    \/ Apply
    \/ \E r \in {"ok", "aborted", "unknown"} : Return(r)
    \/ Lose

Spec == Init /\ [][Next]_vars
=============================================================================
