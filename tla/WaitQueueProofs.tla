--------------------------- MODULE WaitQueueProofs ---------------------------
(* What the wait queues of ipc/sync.rs keep, whoever uses them.  A user of the
   queues names the queues Q, the tasks T, the tasks A[q] that may stand in
   queue q, and the tasks I a signal or a kill has hit.                        *)
EXTENDS WaitQueue, WellFoundedInduction, TLAPS

\* The leaves are for Zenon, but for those that name SMT.
USE Zenon

Once(s) == \A i, j \in DOMAIN s : s[i] = s[j] => i = j

Queues(Q, T) == [queue : [Q -> Seq(T)], blocked : SUBSET T]

(* A blocked task stands in a queue; a queue holds a task once, only tasks that
   may stand in it, and besides the blocked ones only those a signal readied.  *)
QueuesOK(w, Q, T, A, I) ==
    /\ w \in Queues(Q, T)
    /\ \A q \in Q : Once(w.queue[q])
    /\ \A q \in Q : Entries(w, q) \subseteq A[q]
    /\ \A q \in Q : Entries(w, q) \subseteq w.blocked \union I
    /\ \A x \in w.blocked : \E q \in Q : x \in Entries(w, q)

Apart(Q, A) == \A q, r \in Q : q # r => A[q] \cap A[r] = {}

------------------------------------------------------------------------------
(* A queue extended by another, element by element. *)
LEMMA Joined ==
  ASSUME NEW S, NEW s \in Seq(S), NEW t \in Seq(S)
  PROVE  /\ s \o t \in Seq(S) /\ Len(s \o t) = Len(s) + Len(t)
         /\ \A i \in 1 .. Len(s) + Len(t) :
                (s \o t)[i] = IF i <= Len(s) THEN s[i] ELSE t[i - Len(s)]
BY SMTT(30)

(* Extending a queue twice is extending it once by both. *)
LEMMA JoinedTwice ==
  ASSUME NEW S, NEW s \in Seq(S), NEW t \in Seq(S), NEW u \in Seq(S)
  PROVE  (s \o t) \o u = s \o (t \o u)
BY SMTT(30)

(* A queue is its length and its elements. *)
LEMMA SameQueue ==
  ASSUME NEW S, NEW s \in Seq(S), NEW t \in Seq(S), Len(s) = Len(t),
         \A i \in 1 .. Len(s) : s[i] = t[i]
  PROVE  s = t
BY SMTT(30)

(* The elements from m to n of a queue. *)
LEMMA PartOf ==
  ASSUME NEW S, NEW s, NEW m \in Int, NEW n \in Int, \A i \in m .. n : s[i] \in S
  PROVE  /\ SubSeq(s, m, n) \in Seq(S)
         /\ Len(SubSeq(s, m, n)) = IF m <= n THEN n - m + 1 ELSE 0
         /\ \A i \in 1 .. n - m + 1 : SubSeq(s, m, n)[i] = s[m + i - 1]
BY SMTT(30)

(* A queue with one more entry at its back. *)
LEMMA Pushed ==
  ASSUME NEW S, NEW s \in Seq(S), NEW x \in S
  PROVE  /\ Append(s, x) \in Seq(S) /\ Len(Append(s, x)) = Len(s) + 1
         /\ \A i \in 1 .. Len(s) : Append(s, x)[i] = s[i]
         /\ Append(s, x)[Len(s) + 1] = x
BY SMTT(30)

(* A nonempty set of naturals has a least element: what `position` and a
   waker's scan, both modelled by First, return.                               *)
LEMMA FirstIsLeast ==
  ASSUME NEW S \in SUBSET Nat, S # {}
  PROVE  First(S) \in S /\ \A j \in S : First(S) <= j
<1>1. PICK x \in S : \A y \in S : ~(<<y, x>> \in OpToRel(<, Nat))
  BY WFMin, NatLessThanWellFounded, Zenon
<1>2. \A y \in S : y < x => <<y, x>> \in OpToRel(<, Nat)
  BY Zenon DEF OpToRel
<1>3. \A y \in S : ~(y < x)
  BY <1>1, <1>2, Zenon
<1>4. \A y \in S : x <= y
  BY <1>3, SMTT(30)
<1> QED
  BY <1>4 DEF First

(* The part of a queue behind position i: what wake_one leaves in it. *)
LEMMA Behind ==
  ASSUME NEW T, NEW s \in Seq(T), Once(s), NEW i \in 1 .. Len(s)
  PROVE  LET t == SubSeq(s, i + 1, Len(s))
         IN /\ t \in Seq(T) /\ Once(t)
            /\ \A x : x \in {t[j] : j \in DOMAIN t} <=>
                          \E j \in 1 .. Len(s) : i < j /\ x = s[j]
<1> DEFINE t == SubSeq(s, i + 1, Len(s))
<1>1. /\ t \in Seq(T)
      /\ Len(t) = IF i + 1 <= Len(s) THEN Len(s) - (i + 1) + 1 ELSE 0
      /\ \A j \in 1 .. Len(s) - (i + 1) + 1 : t[j] = s[i + 1 + j - 1]
  <2>1. \A j \in i + 1 .. Len(s) : s[j] \in T
    BY SMTT(30)
  <2>2. i + 1 \in Int /\ Len(s) \in Int
    BY SMTT(30)
  <2> QED
    BY ONLY <2>1, <2>2, PartOf, SMTT(30)
<1> HIDE DEF t
<1>2. /\ Len(t) = Len(s) - i /\ DOMAIN t = 1 .. Len(t)
      /\ \A j \in 1 .. Len(t) : i + j \in 1 .. Len(s) /\ t[j] = s[i + j]
  BY <1>1, SMTT(30)
<1>3. Once(t)
  <2> SUFFICES ASSUME NEW j \in 1 .. Len(t), NEW k \in 1 .. Len(t), t[j] = t[k]
               PROVE  j = k
    BY <1>2 DEF Once
  <2>1. i + j \in DOMAIN s /\ i + k \in DOMAIN s /\ s[i + j] = s[i + k]
    BY <1>2, SMTT(30)
  <2>2. i + j = i + k
    BY <2>1 DEF Once
  <2> QED
    BY <2>2, SMTT(30)
<1>4. \A j \in 1 .. Len(s) : i < j => j - i \in 1 .. Len(t) /\ t[j - i] = s[j]
  BY <1>2, SMTT(30)
<1>5. ASSUME NEW x
      PROVE  x \in {t[j] : j \in DOMAIN t} <=> \E j \in 1 .. Len(s) : i < j /\ x = s[j]
  <2>1. ASSUME NEW j \in 1 .. Len(t) PROVE \E k \in 1 .. Len(s) : i < k /\ t[j] = s[k]
    BY <1>2, SMTT(30)
  <2>2. ASSUME NEW k \in 1 .. Len(s), i < k PROVE \E j \in 1 .. Len(t) : s[k] = t[j]
    <3>1. k - i \in 1 .. Len(t) /\ t[k - i] = s[k]
      BY <2>2, <1>4
    <3> QED
      BY <3>1, Zenon
  <2>3. {t[j] : j \in DOMAIN t} = {t[j] : j \in 1 .. Len(t)}
    BY <1>2
  <2>4. x \in {t[j] : j \in 1 .. Len(t)} => \E j \in 1 .. Len(s) : i < j /\ x = s[j]
    BY <2>1
  <2>5. (\E j \in 1 .. Len(s) : i < j /\ x = s[j]) => x \in {t[j] : j \in 1 .. Len(t)}
    BY <2>2
  <2> QED
    BY <2>3, <2>4, <2>5
<1>6. t \in Seq(T)
  BY <1>1
<1> QED
  BY <1>3, <1>5, <1>6 DEF t

(* A queue without the entry at position i: what cancel_wait leaves of it. *)
LEMMA Without ==
  ASSUME NEW T, NEW s \in Seq(T), Once(s), NEW i \in 1 .. Len(s)
  PROVE  LET t == SubSeq(s, 1, i - 1) \o SubSeq(s, i + 1, Len(s))
         IN /\ t \in Seq(T) /\ Once(t)
            /\ \A x : x \in {t[j] : j \in DOMAIN t} <=>
                          \E j \in 1 .. Len(s) : j # i /\ x = s[j]
<1> DEFINE a == SubSeq(s, 1, i - 1)
           b == SubSeq(s, i + 1, Len(s))
           t == a \o b
<1>1. a \in Seq(T) /\ Len(a) = i - 1 /\ \A j \in 1 .. i - 1 : a[j] = s[j]
  <2>1. \A j \in 1 .. i - 1 : s[j] \in T
    BY SMTT(30)
  <2>2. 1 \in Int /\ i - 1 \in Int
    BY SMTT(30)
  <2>3. /\ a \in Seq(T) /\ Len(a) = IF 1 <= i - 1 THEN i - 1 - 1 + 1 ELSE 0
        /\ \A j \in 1 .. i - 1 - 1 + 1 : a[j] = s[1 + j - 1]
    BY ONLY <2>1, <2>2, PartOf, SMTT(30)
  <2> HIDE DEF a
  <2> QED
    BY <2>3, SMTT(30)
<1>2. b \in Seq(T) /\ Len(b) = Len(s) - i /\ \A j \in 1 .. Len(s) - i : b[j] = s[i + j]
  <2>1. \A j \in i + 1 .. Len(s) : s[j] \in T
    BY SMTT(30)
  <2>2. i + 1 \in Int /\ Len(s) \in Int
    BY SMTT(30)
  <2>3. /\ b \in Seq(T) /\ Len(b) = IF i + 1 <= Len(s) THEN Len(s) - (i + 1) + 1 ELSE 0
        /\ \A j \in 1 .. Len(s) - (i + 1) + 1 : b[j] = s[i + 1 + j - 1]
    BY ONLY <2>1, <2>2, PartOf, SMTT(30)
  <2> HIDE DEF b
  <2> QED
    BY <2>3, SMTT(30)
<1> HIDE DEF a, b
<1>3. /\ t \in Seq(T) /\ Len(t) = Len(a) + Len(b)
      /\ \A j \in 1 .. Len(a) + Len(b) : t[j] = IF j <= Len(a) THEN a[j] ELSE b[j - Len(a)]
  BY <1>1, <1>2, Joined
<1> HIDE DEF t
<1>4. /\ Len(t) = Len(s) - 1 /\ DOMAIN t = 1 .. Len(t)
      /\ \A j \in 1 .. Len(t) : j < i => j \in 1 .. Len(s) /\ t[j] = s[j]
      /\ \A j \in 1 .. Len(t) : j >= i => j + 1 \in 1 .. Len(s) /\ t[j] = s[j + 1]
  BY <1>1, <1>2, <1>3, SMTT(30)
<1>5. Once(t)
  <2> SUFFICES ASSUME NEW j \in 1 .. Len(t), NEW k \in 1 .. Len(t), t[j] = t[k]
               PROVE  j = k
    BY <1>4 DEF Once
  <2> DEFINE at(n) == IF n < i THEN n ELSE n + 1
  <2>1. at(j) \in DOMAIN s /\ at(k) \in DOMAIN s /\ s[at(j)] = s[at(k)]
    BY <1>4, SMTT(30)
  <2>2. at(j) = at(k)
    BY <2>1 DEF Once
  <2> QED
    BY <2>2, SMTT(30)
<1>6. \A j \in 1 .. Len(s) : j # i => \E k \in 1 .. Len(t) : t[k] = s[j]
  <2> SUFFICES ASSUME NEW j \in 1 .. Len(s), j # i
               PROVE  \E k \in 1 .. Len(t) : t[k] = s[j]
    OBVIOUS
  <2>1. CASE j < i
    BY <2>1, <1>4, SMTT(30)
  <2>2. CASE j > i
    <3>1. j - 1 \in 1 .. Len(t) /\ j - 1 >= i /\ j - 1 + 1 = j
      BY <2>2, <1>4, SMTT(30)
    <3> QED
      BY <3>1, <1>4
  <2> QED
    BY <2>1, <2>2, SMTT(30)
<1>7. \A k \in 1 .. Len(t) : \E j \in 1 .. Len(s) : j # i /\ t[k] = s[j]
  <2> SUFFICES ASSUME NEW k \in 1 .. Len(t)
               PROVE  \E j \in 1 .. Len(s) : j # i /\ t[k] = s[j]
    OBVIOUS
  <2>1. CASE k < i
    BY <2>1, <1>4, SMTT(30)
  <2>2. CASE k >= i
    BY <2>2, <1>4, SMTT(30)
  <2> QED
    BY <2>1, <2>2, <1>4, SMTT(30)
<1>8. t \in Seq(T)
  BY <1>3
<1>9. ASSUME NEW x
      PROVE  x \in {t[j] : j \in DOMAIN t} <=> \E j \in 1 .. Len(s) : j # i /\ x = s[j]
  <2>1. {t[j] : j \in DOMAIN t} = {t[j] : j \in 1 .. Len(t)}
    BY <1>4
  <2>2. x \in {t[j] : j \in 1 .. Len(t)} => \E j \in 1 .. Len(s) : j # i /\ x = s[j]
    BY <1>7
  <2>3. (\E j \in 1 .. Len(s) : j # i /\ x = s[j]) => x \in {t[j] : j \in 1 .. Len(t)}
    BY <1>6
  <2> QED
    BY <2>1, <2>2, <2>3
<1> QED
  BY <1>5, <1>8, <1>9 DEF t, a, b

------------------------------------------------------------------------------
(* prepare_to_wait: the task joins the back of one queue, in which it did not
   stand, and is blocked. *)
LEMMA ArmOK ==
  ASSUME NEW w, NEW Q, NEW T, NEW A, NEW B, NEW I, NEW q \in Q, NEW p \in T,
         QueuesOK(w, Q, T, A, I), p \in B[q], \A r \in Q : A[r] \subseteq B[r]
  PROVE  QueuesOK(Arm(w, q, p), Q, T, B, I) /\ Arm(w, q, p).blocked = w.blocked \union {p}
<1> DEFINE s == w.queue[q]
           v == Arm(w, q, p)
<1>1. /\ w \in Queues(Q, T) /\ w.queue \in [Q -> Seq(T)] /\ w.blocked \subseteq T
      /\ s \in Seq(T) /\ Once(s)
  BY DEF QueuesOK, Queues
<1>2. v.blocked = w.blocked \union {p}
  BY DEF Arm
<1>3. CASE p \in Entries(w, q)
  <2>1. v = [queue |-> w.queue, blocked |-> w.blocked \union {p}]
    BY <1>3 DEF Arm
  <2>2. v \in Queues(Q, T) /\ v.queue = w.queue
    BY <2>1, <1>1, SMTT(30) DEF Queues
  <2>3. \A r \in Q : Entries(v, r) = Entries(w, r)
    BY <2>2 DEF Entries
  <2> QED
    BY <2>2, <2>3, <1>2, <1>3 DEF QueuesOK
<1>4. CASE p \notin Entries(w, q)
  <2> DEFINE t == Append(s, p)
  <2>1. v = [queue |-> [w.queue EXCEPT ![q] = t], blocked |-> w.blocked \union {p}]
    BY <1>4 DEF Arm
  <2>2. /\ t \in Seq(T) /\ Len(t) = Len(s) + 1 /\ t[Len(s) + 1] = p
        /\ \A i \in 1 .. Len(s) : t[i] = s[i]
    BY <1>1, Pushed, SMTT(30)
  <2> HIDE DEF t
  <2>3. v \in Queues(Q, T) /\ v.queue[q] = t
    BY <2>1, <2>2, <1>1, SMTT(30) DEF Queues
  <2>4. \A r \in Q : r # q => v.queue[r] = w.queue[r]
    BY <2>1, <1>1, SMTT(30)
  <2>5. \A r \in Q : r # q => Entries(v, r) = Entries(w, r)
    BY <2>4 DEF Entries
  <2>6. Once(t)
    <3> SUFFICES ASSUME NEW i \in 1 .. Len(t), NEW j \in 1 .. Len(t), t[i] = t[j]
                 PROVE  i = j
      BY <2>2, SMTT(30) DEF Once
    <3>1. \A k \in 1 .. Len(s) : s[k] # p
      BY <1>4, <1>1, SMTT(30) DEF Entries
    <3>2. CASE i \in 1 .. Len(s) /\ j \in 1 .. Len(s)
      BY <3>2, <2>2, <1>1, SMTT(30) DEF Once
    <3>3. CASE ~(i \in 1 .. Len(s) /\ j \in 1 .. Len(s))
      BY <3>3, <3>1, <2>2, <1>1, SMTT(30)
    <3> QED
      BY <3>2, <3>3
  <2>7. Entries(v, q) = Entries(w, q) \union {p}
    <3>1. DOMAIN t = 1 .. Len(s) + 1 /\ DOMAIN s = 1 .. Len(s) /\ Len(s) \in Nat
      BY <2>2, <1>1, SMTT(30)
    <3>2. Entries(v, q) = {t[i] : i \in 1 .. Len(s) + 1}
      BY <3>1, <2>3 DEF Entries
    <3>3. Entries(w, q) = {s[i] : i \in 1 .. Len(s)}
      BY <3>1 DEF Entries
    <3> HIDE DEF s, v
    <3>4. \A i \in 1 .. Len(s) + 1 : i \in 1 .. Len(s) \/ i = Len(s) + 1
      BY <3>1, SMTT(30)
    <3>5. \A i \in 1 .. Len(s) : i \in 1 .. Len(s) + 1
      BY <3>1, SMTT(30)
    <3>6. Len(s) + 1 \in 1 .. Len(s) + 1
      BY <3>1, SMTT(30)
    <3> QED
      BY <3>2, <3>3, <3>4, <3>5, <3>6, <2>2, Zenon
  <2>8. \A r \in Q : Once(v.queue[r])
    BY <2>3, <2>4, <2>6 DEF QueuesOK
  <2>9. \A r \in Q : Entries(v, r) \subseteq B[r] /\ Entries(v, r) \subseteq v.blocked \union I
    BY <2>5, <2>7, <1>2 DEF QueuesOK
  <2>10. \A x \in v.blocked : \E r \in Q : x \in Entries(v, r)
    BY <2>5, <2>7, <1>2 DEF QueuesOK
  <2> QED
    BY <2>3, <2>8, <2>9, <2>10, <1>2 DEF QueuesOK
<1> QED
  BY <1>3, <1>4

(* A signal or a kill readies its task where it stands: the entry stays in the
   queue, stale, until finish_wait or a waker removes it. *)
LEMMA InterruptOK ==
  ASSUME NEW w, NEW Q, NEW T, NEW A, NEW I, NEW p, QueuesOK(w, Q, T, A, I)
  PROVE  /\ QueuesOK(Interrupt(w, p), Q, T, A, I \union {p})
         /\ Interrupt(w, p).blocked = w.blocked \ {p}
<1> DEFINE v == Interrupt(w, p)
<1>1. w \in Queues(Q, T)
  BY DEF QueuesOK
<1>2. v.queue = w.queue /\ v.blocked = w.blocked \ {p} /\ v \in Queues(Q, T)
  BY <1>1 DEF Interrupt, Queues
<1>3. \A r \in Q : Entries(v, r) = Entries(w, r)
  BY <1>2 DEF Entries
<1> QED
  BY <1>2, <1>3 DEF QueuesOK

(* cancel_wait: the one entry of the task goes, and nothing else moves. *)
LEMMA CancelOK ==
  ASSUME NEW w, NEW Q, NEW T, NEW A, NEW B, NEW I, NEW q \in Q, NEW p \in T,
         QueuesOK(w, Q, T, A, I), Apart(Q, A), p \in A[q],
         \A r \in Q : A[r] \ {p} \subseteq B[r]
  PROVE  /\ QueuesOK(CancelWait(w, q, p), Q, T, B, I)
         /\ CancelWait(w, q, p).blocked = w.blocked \ {p}
         /\ \A r \in Q : p \notin Entries(CancelWait(w, q, p), r)
<1> DEFINE s == w.queue[q]
           v == CancelWait(w, q, p)
           K == {j \in DOMAIN s : s[j] = p}
           i == First(K)
           t == SubSeq(s, 1, i - 1) \o SubSeq(s, i + 1, Len(s))
<1>1. /\ w \in Queues(Q, T) /\ w.queue \in [Q -> Seq(T)] /\ w.blocked \subseteq T
      /\ s \in Seq(T) /\ Once(s)
  BY DEF QueuesOK, Queues
<1>2. \A r \in Q : r # q => p \notin Entries(w, r)
  BY DEF QueuesOK, Apart
<1>3. CASE p \notin Entries(w, q)
  <2>1. v = w
    BY <1>3 DEF CancelWait
  <2>2. \A r \in Q : p \notin Entries(w, r)
    BY <1>2, <1>3
  <2>3. p \notin w.blocked
    BY <2>2 DEF QueuesOK
  <2> QED
    BY <2>1, <2>2, <2>3 DEF QueuesOK
<1>4. CASE p \in Entries(w, q)
  <2>1. K # {} /\ K \in SUBSET Nat
    BY <1>4, <1>1, SMTT(30) DEF Entries
  <2>2. i \in 1 .. Len(s) /\ s[i] = p
    <3>1. i \in K
      BY <2>1, FirstIsLeast
    <3> QED
      BY <3>1, <1>1, SMTT(30)
  <2>3. v = [queue |-> [w.queue EXCEPT ![q] = t], blocked |-> w.blocked \ {p}]
    BY <1>4 DEF CancelWait
  <2> HIDE DEF i
  <2>4. /\ t \in Seq(T) /\ Once(t)
        /\ \A x : x \in {t[j] : j \in DOMAIN t} <=> \E j \in 1 .. Len(s) : j # i /\ x = s[j]
    BY <2>2, <1>1, Without
  <2> HIDE DEF t
  <2>5. v \in Queues(Q, T) /\ v.queue[q] = t /\ v.blocked = w.blocked \ {p}
    BY <2>3, <2>4, <1>1, SMTT(30) DEF Queues
  <2>6. \A r \in Q : r # q => v.queue[r] = w.queue[r]
    BY <2>3, <1>1, SMTT(30)
  <2>7. \A r \in Q : r # q => Entries(v, r) = Entries(w, r)
    BY <2>6 DEF Entries
  <2>8. Entries(v, q) = Entries(w, q) \ {p}
    <3>1. Entries(v, q) = {t[j] : j \in DOMAIN t}
      BY <2>5 DEF Entries
    <3>2. Entries(w, q) = {s[j] : j \in 1 .. Len(s)}
      BY <1>1, SMTT(30) DEF Entries
    <3>3. \A j \in 1 .. Len(s) : j # i <=> s[j] # p
      BY <2>2, <1>1, SMTT(30) DEF Once
    <3> HIDE DEF s, v
    <3>4. \A x : x \in Entries(v, q) <=> \E j \in 1 .. Len(s) : j # i /\ x = s[j]
      BY <3>1, <2>4, Zenon
    <3>5. \A x : x \in Entries(w, q) <=> \E j \in 1 .. Len(s) : x = s[j]
      BY <3>2, Zenon
    <3> QED
      BY <3>3, <3>4, <3>5
  <2>9. \A r \in Q : Entries(v, r) = Entries(w, r) \ {p}
    BY <2>7, <2>8, <1>2
  <2>10. \A r \in Q : Once(v.queue[r])
    BY <2>4, <2>5, <2>6 DEF QueuesOK
  <2> HIDE DEF v
  <2>11. QueuesOK(v, Q, T, B, I)
    BY <2>5, <2>9, <2>10 DEF QueuesOK
  <2> QED
    BY <2>5, <2>9, <2>11 DEF v
<1> QED
  BY <1>3, <1>4

(* wake_all: every entry of the queue goes, and exactly the tasks that were
   blocked in it are readied. *)
LEMMA WakeAllOK ==
  ASSUME NEW w, NEW Q, NEW T, NEW A, NEW I, NEW q \in Q,
         QueuesOK(w, Q, T, A, I), Apart(Q, A)
  PROVE  /\ QueuesOK(WakeAll(w, q), Q, T, A, I)
         /\ WakeAll(w, q).blocked = w.blocked \ Entries(w, q)
<1> DEFINE v == WakeAll(w, q)
<1>1. /\ w \in Queues(Q, T) /\ w.queue \in [Q -> Seq(T)] /\ w.blocked \subseteq T
  BY DEF QueuesOK, Queues
<1>2. /\ v.queue = [w.queue EXCEPT ![q] = << >>]
      /\ v.blocked = w.blocked \ Entries(w, q) /\ v \in Queues(Q, T)
  BY <1>1, SMTT(30) DEF WakeAll, Queues
<1>3. Entries(v, q) = {} /\ Once(v.queue[q])
  BY <1>2, <1>1, SMTT(30) DEF Entries, Once
<1>4. \A r \in Q : r # q => v.queue[r] = w.queue[r]
  BY <1>2, <1>1
<1>5. \A r \in Q : r # q => Entries(v, r) = Entries(w, r)
  BY <1>4 DEF Entries
<1>6. \A r \in Q : r # q => Entries(w, r) \cap Entries(w, q) = {}
  BY DEF QueuesOK, Apart
<1>7. \A r \in Q : Once(v.queue[r])
  BY <1>3, <1>4 DEF QueuesOK
<1> HIDE DEF v
<1> QED
  BY <1>2, <1>3, <1>5, <1>6, <1>7 DEF QueuesOK, v

(* wake_one drops the stale entries in front and readies the first task that is
   still blocked: when the queue holds a blocked task, one of them is readied. *)
LEMMA WakeOneOK ==
  ASSUME NEW w, NEW Q, NEW T, NEW A, NEW I, NEW q \in Q,
         QueuesOK(w, Q, T, A, I), Apart(Q, A)
  PROVE  /\ QueuesOK(WakeOne(w, q), Q, T, A, I)
         /\ WakeOne(w, q).blocked \subseteq w.blocked
         /\ w.blocked \ WakeOne(w, q).blocked \subseteq Entries(w, q)
         /\ \/ w.blocked \cap Entries(w, q) = {}
            \/ \E y \in w.blocked \cap Entries(w, q) : y \notin WakeOne(w, q).blocked
<1> DEFINE s == w.queue[q]
           v == WakeOne(w, q)
           K == Wakeable(w, q)
<1>1. /\ w \in Queues(Q, T) /\ w.queue \in [Q -> Seq(T)] /\ w.blocked \subseteq T
      /\ s \in Seq(T) /\ Once(s)
  BY DEF QueuesOK, Queues
<1>2. K \in SUBSET Nat
  BY <1>1, SMTT(30) DEF Wakeable
<1>3. CASE K = {}
  <2>1. v = [queue |-> [w.queue EXCEPT ![q] = << >>], blocked |-> w.blocked]
    BY <1>3 DEF WakeOne
  <2>2. /\ v.queue = [w.queue EXCEPT ![q] = << >>] /\ v.blocked = w.blocked
        /\ v \in Queues(Q, T)
    BY <2>1, <1>1, SMTT(30) DEF Queues
  <2>3. Entries(v, q) = {} /\ Once(v.queue[q])
    BY <2>2, <1>1, SMTT(30) DEF Entries, Once
  <2>4. \A r \in Q : r # q => v.queue[r] = w.queue[r]
    BY <2>2, <1>1
  <2>5. \A r \in Q : r # q => Entries(v, r) = Entries(w, r)
    BY <2>4 DEF Entries
  <2>6. w.blocked \cap Entries(w, q) = {}
    BY <1>3 DEF Wakeable, Entries
  <2>7. \A r \in Q : Once(v.queue[r])
    BY <2>3, <2>4 DEF QueuesOK
  <2> HIDE DEF v
  <2>8. QueuesOK(v, Q, T, A, I)
    BY <2>2, <2>3, <2>5, <2>6, <2>7 DEF QueuesOK
  <2> QED
    BY <2>2, <2>6, <2>8 DEF v
<1>4. CASE K # {}
  <2> DEFINE i == First(K)
             t == SubSeq(s, i + 1, Len(s))
  <2>1. i \in K /\ \A j \in K : i <= j
    BY <1>2, <1>4, FirstIsLeast
  <2>2. i \in 1 .. Len(s) /\ s[i] \in w.blocked
    BY <2>1, <1>1, SMTT(30) DEF Wakeable
  <2>3. v = [queue |-> [w.queue EXCEPT ![q] = t], blocked |-> w.blocked \ {s[i]}]
    BY <1>4 DEF WakeOne
  <2> HIDE DEF i
  <2>4. /\ t \in Seq(T) /\ Once(t)
        /\ \A x : x \in {t[j] : j \in DOMAIN t} <=> \E j \in 1 .. Len(s) : i < j /\ x = s[j]
    BY <2>2, <1>1, Behind
  <2> HIDE DEF t
  <2>5. v \in Queues(Q, T) /\ v.queue[q] = t /\ v.blocked = w.blocked \ {s[i]}
    BY <2>3, <2>4, <1>1, SMTT(30) DEF Queues
  <2>6. \A r \in Q : r # q => v.queue[r] = w.queue[r]
    BY <2>3, <1>1, SMTT(30)
  <2>7. \A r \in Q : r # q => Entries(v, r) = Entries(w, r)
    BY <2>6 DEF Entries
  <2>8. Entries(v, q) = {t[j] : j \in DOMAIN t} /\ Entries(w, q) = {s[j] : j \in 1 .. Len(s)}
    BY <2>5, <1>1, SMTT(30) DEF Entries
  <2>9. \A j \in 1 .. Len(s) : i < j => s[j] # s[i]
    BY <2>2, <1>1, SMTT(30) DEF Once
  <2>10. \A j \in 1 .. Len(s) : s[j] \in w.blocked => j = i \/ i < j
    BY <2>1, <2>2, <1>1, SMTT(30) DEF Wakeable
  <2>11. Once(v.queue[q])
    BY <2>4, <2>5
  <2> HIDE DEF s, v
  <2>12. Entries(v, q) \subseteq Entries(w, q) /\ s[i] \notin Entries(v, q)
    BY <2>4, <2>8, <2>9, Zenon
  <2>13. w.blocked \cap Entries(w, q) \subseteq Entries(v, q) \union {s[i]}
    BY <2>4, <2>8, <2>10, Zenon
  <2>14. s[i] \in Entries(w, q)
    BY <2>2, <2>8, Zenon
  <2>15. \A r \in Q : r # q => s[i] \notin Entries(w, r)
    BY <2>14 DEF QueuesOK, Apart
  <2>16. \A r \in Q : Once(v.queue[r])
    BY <2>11, <2>6 DEF QueuesOK
  <2>17. \A r \in Q : Entries(v, r) \subseteq A[r] /\ Entries(v, r) \subseteq v.blocked \union I
    BY <2>12, <2>7, <2>5, <2>15 DEF QueuesOK
  <2>18. \A x \in v.blocked : \E r \in Q : x \in Entries(v, r)
    BY <2>13, <2>7, <2>5 DEF QueuesOK
  <2>19. QueuesOK(v, Q, T, A, I)
    BY <2>5, <2>16, <2>17, <2>18 DEF QueuesOK
  <2> QED
    BY <2>19, <2>5, <2>14, <2>2 DEF v
<1> QED
  BY <1>3, <1>4
=============================================================================
