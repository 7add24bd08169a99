------------------------------- MODULE MCFutex -------------------------------
(* Word 1 is a condition that waiters wait for, word 2 a lock they are requeued
   to, with a waiter of its own.                                              *)
EXTENDS Futex, TLC

CONSTANTS w1, w2, k1, k2

CondWaiters == (w1 :> {1}) @@ (w2 :> {1, 2})
CondCalls == (w1 :> 2) @@ (w2 :> 1)
CondOps == (k1 :> {<<"all", 1, 1>>, <<"requeue", 1, 2>>}) @@ (k2 :> {<<"one", 2, 2>>})

\* Waiters are requeued to a word that then gets a waiter of its own, and back.
FullWaiters == (w1 :> {1}) @@ (w2 :> {2})
FullCalls == [t \in {w1, w2} |-> 1]
FullOps == (k1 :> {<<"requeue", 2, 1>>, <<"requeue", 1, 2>>})
=============================================================================
