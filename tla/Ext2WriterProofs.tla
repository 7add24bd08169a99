-------------------------- MODULE Ext2WriterProofs --------------------------
(* The inductive invariant of the metadata journal, for any homes, plans and
   sequence numbers and any number of transactions: what blocks hold after any cut
   write, what recovery finds on them, the phases of the writer and of the mount,
   and that every step of the writer keeps the invariant.                     *)
EXTENDS Ext2Journal, TLAPS

\* The leaves are for Zenon, but for those that name SMT.
USE Zenon

------------------------------------------------------------------------------
\* The sequence number and its two digits.
Top == Modulus - 1
Digits == 0 .. Base - 1
NextSeq(s) == (s + 1) % Modulus

\* A number is made of its digits.
LEMMA DigitsOf ==
    ASSUME NEW s \in 0 .. Top
    PROVE  \E q, r \in Digits : q = s \div Base /\ r = s % Base /\ q * Base + r = s
<1>1. Base \in Nat /\ Base > 1 /\ s \in Nat
  BY SeqAssumption, SMTT(30) DEF Top, Modulus
<1>2. s \div Base \in Digits
  BY SeqAssumption, SMTT(30) DEF Digits, Top, Modulus
<1>3. s % Base \in Digits
  BY <1>1, SMTT(30) DEF Digits
<1>4. PICK q \in Digits, r \in Digits : q = s \div Base /\ r = s % Base
  BY <1>2, <1>3
<1>5. q * Base + r = s
  BY <1>1, <1>4, SMTT(30) DEF Digits
<1> QED BY <1>4, <1>5

\* Two digits make a number whose digits they are.
LEMMA NumberOf ==
    ASSUME NEW a \in Digits, NEW b \in Digits
    PROVE  /\ a * Base + b \in 0 .. Top
           /\ (a * Base + b) \div Base = a /\ (a * Base + b) % Base = b
<1>1. a * Base + b \in 0 .. Top
  BY SeqAssumption, SMTT(30) DEF Digits, Top, Modulus
<1>2. (a * Base + b) \div Base = a /\ (a * Base + b) % Base = b
  BY SeqAssumption, SMTT(30) DEF Digits
<1> QED BY <1>1, <1>2

\* The next sequence number is another one.
LEMMA NextIsOther ==
    ASSUME NEW s \in 0 .. Top
    PROVE  NextSeq(s) \in 0 .. Top /\ NextSeq(s) # s
BY SeqAssumption, SMTT(30) DEF Top, Modulus, NextSeq

------------------------------------------------------------------------------
\* Blocks, and what a write that is cut short leaves of them.
Cut(new, old) == {old, new} \union Torn(new, old)
Pair(v) == v = <<v[1], v[2]>>
Quad(v) == v = <<v[1], v[2], v[3], v[4]>>
Shaped(b, v) == IF b = JSuper THEN Quad(v) ELSE IF b = Super THEN v = <<v[1]>> ELSE Pair(v)
LogSlots == 1 .. MaxHomes + 2
CommitSlots == 3 .. MaxHomes + 2

\* A block of the device has one name.
LEMMA BlockNames ==
    /\ \A i, j : Log(i) = Log(j) => i = j
    /\ \A g, h : Home(g) = Home(h) => g = h
    /\ \A i, h : Log(i) # Home(h)
    /\ \A i : Log(i) # Super /\ Home(i) # Super /\ Home(i) # JSuper
    /\ JSuper # Super /\ JSuper = Log(0)
BY DEF Log, Home, Super, JSuper

\* The blocks of the log and the home blocks are neither of the superblocks.
LEMMA BlockFacts ==
    /\ JSuper \in Blocks /\ Super \in Blocks
    /\ \A i \in LogSlots : Log(i) \in Blocks /\ Log(i) # JSuper /\ Log(i) # Super
    /\ \A h \in Homes : Home(h) \in Blocks /\ Home(h) # JSuper /\ Home(h) # Super
<1>1. 0 \in 0 .. MaxHomes + 2 /\ \A i \in LogSlots : i \in 0 .. MaxHomes + 2 /\ i # 0
  BY PlanAssumption, SMTT(30) DEF LogSlots
<1> QED BY <1>1, BlockNames DEF Blocks

\* A torn pair has the new first half and the old second half.
LEMMA CutPair ==
    ASSUME NEW v, NEW w, Pair(v), Pair(w)
    PROVE  Cut(v, w) = {w, <<v[1], w[2]>>, v}
<1>1. \A a, b, c, d : Torn(<<a, b>>, <<c, d>>) = {<<a, d>>}
  BY SMTT(30) DEF Torn
<1>2. Torn(v, w) = {<<v[1], w[2]>>}
  BY <1>1, SMTT(30) DEF Pair
<1> QED BY <1>2 DEF Cut

\* A torn journal superblock has a prefix of the new one and the rest of the old.
LEMMA CutQuad ==
    ASSUME NEW v, NEW w, Quad(v), Quad(w)
    PROVE  Cut(v, w) = {w, <<v[1], w[2], w[3], w[4]>>, <<v[1], v[2], w[3], w[4]>>,
                        <<v[1], v[2], v[3], w[4]>>, v}
<1>1. \A a, b, c, d, e, f, g, h : Torn(<<a, b, c, d>>, <<e, f, g, h>>) =
          {<<a, f, g, h>>, <<a, b, g, h>>, <<a, b, c, h>>}
  BY SMTT(30) DEF Torn
<1>2. Torn(v, w) = {<<v[1], w[2], w[3], w[4]>>, <<v[1], v[2], w[3], w[4]>>,
                    <<v[1], v[2], v[3], w[4]>>}
  BY <1>1, SMTT(30) DEF Quad
<1> QED BY <1>2 DEF Cut

\* The flag of the superblock is not torn.
LEMMA CutOne ==
    ASSUME NEW v, NEW w, v = <<v[1]>>, w = <<w[1]>>
    PROVE  Cut(v, w) = {w, v}
<1>1. \A a, b : Torn(<<a>>, <<b>>) = {}
  BY SMTT(30) DEF Torn
<1>2. Torn(v, w) = {}
  BY <1>1
<1> QED BY <1>2 DEF Cut

\* What is left of a cut write over what is left of one, of the same new value.
LEMMA CutAgain ==
    ASSUME NEW b, NEW v, NEW w, Shaped(b, v), Shaped(b, w), NEW l \in Cut(v, w)
    PROVE  /\ Shaped(b, l)
           /\ \A x \in Cut(l, w) : x \in Cut(v, w) /\ l \in Cut(v, x)
           /\ \A x \in Cut(v, l) : x \in Cut(v, w)
<1>1. CASE b = JSuper
  <2>1. Quad(v) /\ Quad(w)
    BY <1>1 DEF Shaped
  <2>2. Quad(l)
    BY <2>1, CutQuad, SMTT(30) DEF Quad
  <2>3. ASSUME NEW x \in Cut(l, w) PROVE x \in Cut(v, w) /\ Quad(x) /\ l \in Cut(v, x)
    <3>1. x \in {w, <<l[1], w[2], w[3], w[4]>>, <<l[1], l[2], w[3], w[4]>>,
                 <<l[1], l[2], l[3], w[4]>>, l}
      BY <2>1, <2>2, <2>3, CutQuad
    <3>2. l \in {w, <<v[1], w[2], w[3], w[4]>>, <<v[1], v[2], w[3], w[4]>>,
                 <<v[1], v[2], v[3], w[4]>>, v}
      BY <2>1, CutQuad
    <3>3. x \in {w, <<v[1], w[2], w[3], w[4]>>, <<v[1], v[2], w[3], w[4]>>,
                 <<v[1], v[2], v[3], w[4]>>, v}
      BY <3>1, <3>2, <2>1, SMTT(30) DEF Quad
    <3>4. Quad(x)
      BY <3>3, <2>1, SMTT(30) DEF Quad
    <3>5. l \in {x, <<v[1], x[2], x[3], x[4]>>, <<v[1], v[2], x[3], x[4]>>,
                 <<v[1], v[2], v[3], x[4]>>, v}
      BY <3>1, <3>2, <2>1, SMTT(30) DEF Quad
    <3> QED BY <3>3, <3>4, <3>5, <2>1, CutQuad
  <2>4. ASSUME NEW x \in Cut(v, l) PROVE x \in Cut(v, w)
    <3>1. x \in {l, <<v[1], l[2], l[3], l[4]>>, <<v[1], v[2], l[3], l[4]>>,
                 <<v[1], v[2], v[3], l[4]>>, v}
      BY <2>1, <2>2, <2>4, CutQuad
    <3>2. l \in {w, <<v[1], w[2], w[3], w[4]>>, <<v[1], v[2], w[3], w[4]>>,
                 <<v[1], v[2], v[3], w[4]>>, v}
      BY <2>1, CutQuad
    <3>3. x \in {w, <<v[1], w[2], w[3], w[4]>>, <<v[1], v[2], w[3], w[4]>>,
                 <<v[1], v[2], v[3], w[4]>>, v}
      BY <3>1, <3>2, <2>1, SMTT(30) DEF Quad
    <3> QED BY <3>3, <2>1, CutQuad
  <2> QED BY <1>1, <2>2, <2>3, <2>4 DEF Shaped
<1>2. CASE b = Super
  <2>1. v = <<v[1]>> /\ w = <<w[1]>> /\ b # JSuper
    BY <1>2, BlockNames DEF Shaped
  <2>2. l = <<l[1]>> /\ l \in {v, w}
    <3>1. l \in {v, w}
      BY <2>1, CutOne, SMTT(30)
    <3> QED BY <3>1, <2>1, SMTT(30)
  <2>3. \A x \in {v, w} : \A y \in {v, w} : Cut(x, y) = {y, x}
    <3>1. \A x \in {v, w} : x = <<x[1]>>
      BY <2>1, SMTT(30)
    <3> QED BY <3>1, CutOne
  <2> QED BY <1>2, <2>1, <2>2, <2>3 DEF Shaped
<1>3. CASE b # JSuper /\ b # Super
  <2>1. Pair(v) /\ Pair(w)
    BY <1>3 DEF Shaped
  <2>2. l \in {w, <<v[1], w[2]>>, v}
    BY <2>1, CutPair
  <2>3. Pair(l)
    BY <2>1, <2>2, SMTT(30) DEF Pair
  <2>4. ASSUME NEW x \in Cut(l, w) PROVE x \in Cut(v, w) /\ l \in Cut(v, x)
    <3>1. x \in {w, <<l[1], w[2]>>, l}
      BY <2>1, <2>3, <2>4, CutPair
    <3>2. x \in {w, <<v[1], w[2]>>, v} /\ Pair(x) /\ l \in {x, <<v[1], x[2]>>, v}
      BY <2>1, <2>2, <3>1, SMTT(30) DEF Pair
    <3> QED BY <3>2, <2>1, CutPair
  <2>5. ASSUME NEW x \in Cut(v, l) PROVE x \in Cut(v, w)
    <3>1. x \in {l, <<v[1], l[2]>>, v}
      BY <2>1, <2>3, <2>5, CutPair
    <3>2. x \in {w, <<v[1], w[2]>>, v}
      BY <2>1, <2>2, <3>1, SMTT(30) DEF Pair
    <3> QED BY <3>2, <2>1, CutPair
  <2> QED BY <1>3, <2>3, <2>4, <2>5 DEF Shaped
<1> QED BY <1>1, <1>2, <1>3

------------------------------------------------------------------------------
\* What the journal writes.
JBlock(s, start, intent) == <<s \div Base, s % Base, start, intent>>
JMark(s, start) == JBlock(s, start, TRUE)
Named(p) == {p[i] : i \in 1 .. Len(p)}
Posts(p, t) == [i \in 1 .. Len(p) |-> Image(t)]
Pres(p, c) == [i \in 1 .. Len(p) |-> Image(c[p[i]])]
Intent(p, c) == [count |-> Len(p), pre |-> Pres(p, c)]
DigestOf(s, p, c, t) == Digest(s, Descriptor(s, p), Posts(p, t), Intent(p, c))
Seal(s, p, c, t) == CommitBlock(s, Intent(p, c), DigestOf(s, p, c, t))
\* The homes after transaction t on the homes p, if they were c before.
After(p, c, t) == [h \in Homes |-> IF h \in Named(p) THEN t ELSE c[h]]
Maps(t) == [Homes -> 0 .. t]

\* The plan of a transaction names distinct homes, and fits into the log.
LEMMA PlanFacts ==
    ASSUME NEW p \in Plans
    PROVE  /\ Len(p) \in 1 .. MaxHomes /\ Len(p) \in Nat /\ DOMAIN p = 1 .. Len(p)
           /\ \A i \in 1 .. Len(p) : p[i] \in Homes /\ 1 + i \in LogSlots
           /\ \A i, j \in 1 .. Len(p) : p[i] = p[j] => i = j
           /\ 1 \in 1 .. Len(p)
           /\ Named(p) \subseteq Homes /\ p[1] \in Named(p)
           /\ Len(p) + 2 \in CommitSlots /\ \A j \in CommitSlots : j \in LogSlots /\ j # 2 /\ j # 1
           /\ 1 \in LogSlots /\ 2 \in LogSlots
           /\ \A i \in 1 .. Len(p) : 1 + i # 1 /\ Len(p) + 2 # 1 + i
           /\ Len(p) + 2 # 1 /\ 1 + 1 = 2
<1>1. p \in Seq(Homes) /\ Len(p) \in 1 .. MaxHomes /\ MaxHomes \in Nat \ {0}
      /\ \A i, j \in DOMAIN p : p[i] = p[j] => i = j
  BY PlanAssumption
<1>2. DOMAIN p = 1 .. Len(p) /\ \A i \in 1 .. Len(p) : p[i] \in Homes
  BY <1>1, SMTT(30)
<1>3. Len(p) \in Nat /\ 1 \in 1 .. Len(p) /\ \A i \in 1 .. Len(p) : 1 + i \in LogSlots
  BY <1>1, SMTT(30) DEF LogSlots
<1>4. Len(p) + 2 \in CommitSlots /\ \A j \in CommitSlots : j \in LogSlots /\ j # 2 /\ j # 1
  BY <1>1, SMTT(30) DEF LogSlots, CommitSlots
<1>5. 1 \in LogSlots /\ 2 \in LogSlots /\ \A i \in 1 .. Len(p) : 1 + i # 1 /\ Len(p) + 2 # 1 + i
  BY <1>1, SMTT(30) DEF LogSlots
<1>6. Len(p) + 2 # 1 /\ 1 + 1 = 2
  BY <1>1, SMTT(30)
<1>7. Named(p) \subseteq Homes /\ p[1] \in Named(p)
  BY <1>2, <1>3 DEF Named
<1> QED BY <1>1, <1>2, <1>3, <1>4, <1>5, <1>6, <1>7

\* The image of a transaction tells its number.
LEMMA ImageFacts ==
    /\ \A t : Pair(Image(t)) /\ Image(t)[1] = Image(t)[2] /\ Image(t)[2].kind # "digest"
    /\ \A t : Number(Image(t)) = t
    /\ \A t, k : Image(t)[1] = Image(k)[1] => t = k
<1>1. \A t : Pair(Image(t)) /\ Image(t)[1] = Image(t)[2] /\ Image(t)[2].kind # "digest"
             /\ Image(t)[1].tx = t
  BY SMTT(30) DEF Image, Whole, Pair
<1>2. \A t : Number(Image(t)) = t
  BY <1>1 DEF Number
<1>3. \A t, k : Image(t)[1] = Image(k)[1] => t = k
  BY <1>1, SMTT(30)
<1> QED BY <1>1, <1>2, <1>3

\* The descriptor tells the number and the homes of its transaction.
LEMMA DescriptorFacts ==
    ASSUME NEW s, NEW p
    PROVE  LET d == Descriptor(s, p)
           IN /\ Pair(d) /\ d[2].kind # "digest" /\ d[1].kind = "descriptor"
              /\ d[1].seq = s /\ d[1].homes = p
BY SMTT(30) DEF Descriptor, Whole, Pair

\* The commit block has its number, its intent and the digest of it all.
LEMMA SealFacts ==
    ASSUME NEW s, NEW p \in Plans, NEW c, NEW t
    PROVE  LET e == Seal(s, p, c, t)
           IN /\ Pair(e) /\ e[1].kind = "commit" /\ e[1].seq = s /\ e[1].intent = Intent(p, c)
              /\ e[2].kind = "digest" /\ e[2].of = DigestOf(s, p, c, t)
              /\ e[2].of.seq = s /\ e[2].of.images = Posts(p, t) /\ e[2].of.images[1] = Image(t)
<1>1. /\ Pair(Seal(s, p, c, t))
      /\ Seal(s, p, c, t)[1] = [kind |-> "commit", seq |-> s, intent |-> Intent(p, c)]
      /\ Seal(s, p, c, t)[2] = [kind |-> "digest", of |-> DigestOf(s, p, c, t)]
  BY SMTT(30) DEF Seal, CommitBlock, Pair
<1>2. LET e == Seal(s, p, c, t)
      IN /\ e[1].kind = "commit" /\ e[1].seq = s /\ e[1].intent = Intent(p, c)
         /\ e[2].kind = "digest" /\ e[2].of = DigestOf(s, p, c, t)
  BY <1>1, SMTT(30)
<1>3. DigestOf(s, p, c, t).seq = s /\ DigestOf(s, p, c, t).images = Posts(p, t)
  BY DEF DigestOf, Digest
<1>4. Posts(p, t)[1] = Image(t)
  BY PlanFacts DEF Posts
<1> QED BY <1>1, <1>2, <1>3, <1>4

\* The journal superblock of a sequence number.
LEMMA JBlockFacts ==
    ASSUME NEW s \in 0 .. Top, NEW start, NEW intent
    PROVE  LET v == JBlock(s, start, intent)
           IN /\ Quad(v) /\ v[1] \in Digits /\ v[2] \in Digits /\ v[3] = start /\ v[4] = intent
              /\ v[1] * Base + v[2] = s
<1> DEFINE v == JBlock(s, start, intent)
<1>1. PICK q \in Digits, r \in Digits : q = s \div Base /\ r = s % Base /\ q * Base + r = s
  BY DigitsOf
<1>2. v = <<q, r, start, intent>>
  BY <1>1 DEF JBlock
<1>3. v[1] = q /\ v[2] = r /\ v[3] = start /\ v[4] = intent /\ Quad(v)
  BY <1>2, SMTT(30) DEF Quad
<1> QED BY <1>1, <1>3

\* It is the only one with that number, that start and that flag.
LEMMA JBlockIs ==
    ASSUME NEW v, Quad(v), v[1] \in Digits, v[2] \in Digits
    PROVE  /\ v[1] * Base + v[2] \in 0 .. Top
           /\ v = JBlock(v[1] * Base + v[2], v[3], v[4])
BY NumberOf DEF Quad, JBlock

------------------------------------------------------------------------------
\* What a device can hold.
HasDigest(m, j) == m[Log(j)][2].kind = "digest"
FirstImage(m, j) == m[Log(j)][2].of.images[1]

IntentOn(m) == HasIntent(m) = TRUE
RecoverOn(m) == HasRecover(m) = TRUE

\* The shape of the blocks; an active journal has its feature bits.
Device(m) ==
    /\ m = [b \in Blocks |-> m[b]]
    /\ \A b \in Blocks : Shaped(b, m[b])
    /\ m[JSuper][1] \in Digits /\ m[JSuper][2] \in Digits
    /\ StartOf(m) \in {0, First} /\ HasIntent(m) \in BOOLEAN /\ HasRecover(m) \in BOOLEAN
    /\ StartOf(m) # 0 => IntentOn(m) /\ RecoverOn(m)

\* Every digest is that of a transaction up to t.
Digests(m, t) ==
    \A j \in CommitSlots : HasDigest(m, j) => \E k \in 1 .. t : FirstImage(m, j) = Image(k)

\* The homes hold c, and no commit block can be taken for one of the present number.
Quiet(m, c, t) ==
    /\ Device(m) /\ Digests(m, t)
    /\ \A h \in Homes : m[Home(h)] = Image(c[h])
    /\ \A j \in CommitSlots : HasDigest(m, j) /\ FirstImage(m, j) = m[Log(2)]
                                  => m[Log(j)][2].of.seq # SeqOf(m)

\* The same, on a device that is ready for the transaction number s.
Ready(m, s, c, t) ==
    Quiet(m, c, t) /\ IntentOn(m) /\ RecoverOn(m) /\ SeqOf(m) = s

Written(m, s, p, t) ==
    m[Log(1)] = Descriptor(s, p) /\ \A i \in 1 .. Len(p) : m[Log(1 + i)] = Image(t)

\* The log holds transaction t, whole; its digest is the only one of it.
Logged(m, s, p, c, t) ==
    /\ Device(m) /\ Digests(m, t) /\ IntentOn(m) /\ RecoverOn(m)
    /\ Written(m, s, p, t)
    /\ m[Log(Len(p) + 2)] = Seal(s, p, c, t)
    /\ \A j \in CommitSlots : HasDigest(m, j) /\ FirstImage(m, j) = Image(t)
                                  => m[Log(j)][2] = Seal(s, p, c, t)[2]

\* And the journal is active: recovery would replay it over the homes.
Full(m, s, p, c, t) ==
    /\ Logged(m, s, p, c, t) /\ SeqOf(m) = s /\ StartOf(m) = First
    /\ \A h \in Homes \ Named(p) : m[Home(h)] = Image(c[h])
    /\ \A h \in Named(p) : m[Home(h)] \in Cut(Image(t), Image(c[h]))

\* The commit block is being written.
InCommit(m, s, p, c, t) ==
    \/ Ready(m, s, c, t - 1) /\ StartOf(m) = First /\ Written(m, s, p, t)
    \/ Full(m, s, p, c, t) /\ \A h \in Homes : m[Home(h)] = Image(c[h])

\* The homes hold transaction t, and the journal is being released.
InClear(m, s, p, c, t) ==
    /\ Logged(m, s, p, c, t)
    /\ \A h \in Homes : m[Home(h)] = Image(After(p, c, t)[h])
    /\ m[JSuper] \in Cut(JMark(NextSeq(s), 0), JMark(s, First))

------------------------------------------------------------------------------
\* A write to one block of a device.
Raised == <<TRUE>>
Put(n, m, b, x) == n = [m EXCEPT ![b] = x]

\* A block of the log or a home is written.
LEMMA PairWrite ==
    ASSUME NEW m, Device(m), NEW b \in Blocks, b # JSuper, b # Super, NEW x, Pair(x),
           NEW n, Put(n, m, b, x)
    PROVE  /\ Device(n) /\ n[b] = x /\ \A d \in Blocks : d # b => n[d] = m[d]
           /\ SeqOf(n) = SeqOf(m) /\ StartOf(n) = StartOf(m)
           /\ HasIntent(n) = HasIntent(m) /\ HasRecover(n) = HasRecover(m)
<1>1. m = [d \in Blocks |-> m[d]] /\ \A d \in Blocks : Shaped(d, m[d])
  BY DEF Device
<1>2. n = [d \in Blocks |-> IF d = b THEN x ELSE m[d]]
  BY <1>1, SMTT(30) DEF Put
<1>3. n[b] = x /\ (\A d \in Blocks : d # b => n[d] = m[d]) /\ n = [d \in Blocks |-> n[d]]
  BY <1>2
<1>4. n[JSuper] = m[JSuper] /\ n[Super] = m[Super]
  BY <1>3, BlockFacts
<1>5. /\ SeqOf(n) = SeqOf(m) /\ StartOf(n) = StartOf(m)
      /\ HasIntent(n) = HasIntent(m) /\ HasRecover(n) = HasRecover(m)
  BY <1>4 DEF SeqOf, StartOf, HasIntent, HasRecover
<1>6. \A d \in Blocks : Shaped(d, n[d])
  <2> SUFFICES ASSUME NEW d \in Blocks PROVE Shaped(d, n[d])
    OBVIOUS
  <2>1. CASE d = b
    BY <2>1, <1>3 DEF Shaped
  <2>2. CASE d # b
    BY <2>2, <1>1, <1>3
  <2> QED BY <2>1, <2>2
<1>7. Device(n)
  BY <1>3, <1>4, <1>5, <1>6 DEF Device, IntentOn, RecoverOn
<1> QED BY <1>3, <1>5, <1>7

\* A journal superblock for the device m, and m with it.
JFits(x, m) ==
    /\ Quad(x) /\ x[1] \in Digits /\ x[2] \in Digits /\ x[3] \in {0, First} /\ x[4] \in BOOLEAN
    /\ x[3] # 0 => x[4] = TRUE /\ RecoverOn(m)
JPut(n, m, x) ==
    /\ Device(n) /\ n[JSuper] = x /\ \A d \in Blocks : d # JSuper => n[d] = m[d]
    /\ SeqOf(n) = x[1] * Base + x[2] /\ StartOf(n) = x[3]
    /\ HasIntent(n) = x[4] /\ HasRecover(n) = HasRecover(m)

\* The journal superblock is written.
LEMMA JSuperWrite ==
    ASSUME NEW m, Device(m), NEW x, JFits(x, m), NEW n, Put(n, m, JSuper, x)
    PROVE  JPut(n, m, x)
<1>0. /\ Quad(x) /\ x[1] \in Digits /\ x[2] \in Digits /\ x[3] \in {0, First} /\ x[4] \in BOOLEAN
      /\ x[3] # 0 => x[4] = TRUE /\ RecoverOn(m)
  BY DEF JFits
<1>1. m = [d \in Blocks |-> m[d]] /\ \A d \in Blocks : Shaped(d, m[d])
  BY DEF Device
<1>2. n = [d \in Blocks |-> IF d = JSuper THEN x ELSE m[d]]
  BY <1>1, SMTT(30) DEF Put
<1>3. n[JSuper] = x /\ (\A d \in Blocks : d # JSuper => n[d] = m[d]) /\ n = [d \in Blocks |-> n[d]]
  BY <1>2, BlockFacts
<1>4. n[Super] = m[Super]
  BY <1>3, BlockFacts, BlockNames
<1>5. /\ SeqOf(n) = x[1] * Base + x[2] /\ StartOf(n) = x[3]
      /\ HasIntent(n) = x[4] /\ HasRecover(n) = HasRecover(m)
  BY <1>3, <1>4 DEF SeqOf, StartOf, HasIntent, HasRecover
<1>6. \A d \in Blocks : Shaped(d, n[d])
  <2> SUFFICES ASSUME NEW d \in Blocks PROVE Shaped(d, n[d])
    OBVIOUS
  <2>1. CASE d = JSuper
    BY <2>1, <1>0, <1>3 DEF Shaped
  <2>2. CASE d # JSuper
    BY <2>2, <1>1, <1>3
  <2> QED BY <2>1, <2>2
<1>7. HasRecover(n) \in BOOLEAN
  BY <1>5 DEF Device
<1>8. Device(n)
  BY <1>0, <1>3, <1>5, <1>6, <1>7 DEF Device, IntentOn, RecoverOn
<1> QED BY <1>3, <1>5, <1>8 DEF JPut

\* The recovery flag is set in the superblock, or the write fails.
LEMMA SuperWrite ==
    ASSUME NEW m, Device(m), NEW x \in Cut(Raised, m[Super]),
           NEW n, Put(n, m, Super, x)
    PROVE  /\ Device(n) /\ n[Super] = x /\ \A d \in Blocks : d # Super => n[d] = m[d]
           /\ SeqOf(n) = SeqOf(m) /\ StartOf(n) = StartOf(m) /\ HasIntent(n) = HasIntent(m)
           /\ RecoverOn(m) => RecoverOn(n)
<1>1. m = [d \in Blocks |-> m[d]] /\ \A d \in Blocks : Shaped(d, m[d])
  BY DEF Device
<1>2. n = [d \in Blocks |-> IF d = Super THEN x ELSE m[d]]
  BY <1>1, SMTT(30) DEF Put
<1>3. n[Super] = x /\ (\A d \in Blocks : d # Super => n[d] = m[d]) /\ n = [d \in Blocks |-> n[d]]
  BY <1>2, BlockFacts
<1>4. n[JSuper] = m[JSuper]
  BY <1>3, BlockFacts, BlockNames
<1>5. SeqOf(n) = SeqOf(m) /\ StartOf(n) = StartOf(m) /\ HasIntent(n) = HasIntent(m)
  BY <1>4 DEF SeqOf, StartOf, HasIntent
<1>6. m[Super] = <<m[Super][1]>>
  BY <1>1, BlockFacts, BlockNames DEF Shaped
<1>7. Raised[1] = TRUE /\ Raised = <<Raised[1]>>
  BY SMTT(30) DEF Raised
<1>8. x = <<x[1]>> /\ (x[1] = TRUE \/ x[1] = HasRecover(m))
  <2>1. x = Raised \/ x = m[Super]
    <3>1. Cut(Raised, m[Super]) = {m[Super], Raised}
      BY <1>6, <1>7, CutOne, SMTT(30)
    <3> QED BY <3>1
  <2>2. CASE x = Raised
    BY <1>7, <2>2
  <2>3. CASE x = m[Super]
    BY <2>3, <1>6 DEF HasRecover
  <2> QED BY <2>1, <2>2, <2>3
<1>9. HasRecover(n) = x[1] /\ HasRecover(n) \in BOOLEAN /\ (RecoverOn(m) => RecoverOn(n))
  BY <1>3, <1>8 DEF HasRecover, Device, IntentOn, RecoverOn
<1>10. \A d \in Blocks : Shaped(d, n[d])
  <2> SUFFICES ASSUME NEW d \in Blocks PROVE Shaped(d, n[d])
    OBVIOUS
  <2>1. CASE d = Super
    BY <2>1, <1>3, <1>8, BlockNames DEF Shaped
  <2>2. CASE d # Super
    BY <2>2, <1>1, <1>3
  <2> QED BY <2>1, <2>2
<1>11. Device(n)
  BY <1>3, <1>4, <1>5, <1>9, <1>10 DEF Device, IntentOn, RecoverOn
<1> QED BY <1>3, <1>5, <1>9, <1>11

\* The number a device holds, and its journal superblock.
LEMMA DeviceSeq ==
    ASSUME NEW m, Device(m)
    PROVE  SeqOf(m) \in 0 .. Top /\ m[JSuper] = JBlock(SeqOf(m), StartOf(m), HasIntent(m))
<1>1. Quad(m[JSuper]) /\ m[JSuper][1] \in Digits /\ m[JSuper][2] \in Digits
  BY BlockFacts DEF Device, Shaped
<1> QED BY <1>1, JBlockIs DEF SeqOf, StartOf, HasIntent

\* The blocks of a device behind its superblocks are pairs.
LEMMA DevicePairs ==
    ASSUME NEW m, Device(m)
    PROVE  /\ \A i \in LogSlots : Pair(m[Log(i)])
           /\ \A h \in Homes : Pair(m[Home(h)])
BY BlockFacts DEF Device, Shaped

------------------------------------------------------------------------------
\* What the writes of each part of the writer and of the mount leave true.

\* The slots of the log.
LEMMA SlotFacts ==
    /\ 1 \in LogSlots /\ 2 \in LogSlots
    /\ \A j \in CommitSlots : j \in LogSlots /\ j # 1 /\ j # 2
BY PlanAssumption, SMTT(30) DEF LogSlots, CommitSlots

\* A quiet device stays quiet whatever happens to its superblocks, if its digests,
\* its first image, its homes and its number stay.
LEMMA QuietFrame ==
    ASSUME NEW m, NEW c, NEW t, Quiet(m, c, t), NEW n, Device(n), SeqOf(n) = SeqOf(m),
           n[Log(2)] = m[Log(2)], \A j \in CommitSlots : n[Log(j)][2] = m[Log(j)][2],
           \A h \in Homes : n[Home(h)] = m[Home(h)]
    PROVE  Quiet(n, c, t)
<1>2. n[Log(2)] = m[Log(2)]
  OBVIOUS
<1>3. \A j \in CommitSlots : /\ HasDigest(n, j) <=> HasDigest(m, j)
                             /\ FirstImage(n, j) = FirstImage(m, j)
  BY DEF HasDigest, FirstImage
<1>4. Digests(n, t)
  BY <1>3 DEF Quiet, Digests
<1>5. \A h \in Homes : n[Home(h)] = Image(c[h])
  BY DEF Quiet
<1>6. \A j \in CommitSlots : HasDigest(n, j) /\ FirstImage(n, j) = n[Log(2)]
                                 => n[Log(j)][2].of.seq # SeqOf(n)
  BY <1>2, <1>3 DEF Quiet
<1> QED BY <1>4, <1>5, <1>6 DEF Quiet

\* The journal is marked in use only where its feature bits are set.
MayStart(m, start) == start # 0 => IntentOn(m) /\ RecoverOn(m)
Marking(m, start) == Cut(JMark(SeqOf(m), start), m[JSuper])
Marked(n, m, c, t, start) ==
    /\ Quiet(n, c, t) /\ SeqOf(n) = SeqOf(m) /\ StartOf(n) \in {start, StartOf(m)}
    /\ RecoverOn(m) => RecoverOn(n)
    /\ IntentOn(m) => IntentOn(n)

\* write_journal_state and ensure_journal_intent_feature on a quiet device: the
\* number is rewritten as it is, so only the start and the flag can change.
LEMMA QuietJSuper ==
    ASSUME NEW m, NEW c, NEW t, Quiet(m, c, t), NEW start \in {0, First},
           MayStart(m, start),
           NEW x \in Marking(m, start), NEW n, Put(n, m, JSuper, x)
    PROVE  Marked(n, m, c, t, start)
<1> DEFINE s == SeqOf(m)
           v == JMark(s, start)
           w == m[JSuper]
<1>1. Device(m) /\ s \in 0 .. Top /\ w = JBlock(s, StartOf(m), HasIntent(m))
  BY DeviceSeq DEF Quiet
<1>2. /\ Quad(v) /\ v[1] \in Digits /\ v[2] \in Digits /\ v[3] = start /\ v[4] = TRUE
      /\ v[1] * Base + v[2] = s
  BY <1>1, JBlockFacts DEF JMark
<1>3. /\ Quad(w) /\ w[1] = v[1] /\ w[2] = v[2] /\ w[3] = StartOf(m) /\ w[4] = HasIntent(m)
  <2>1. Quad(w) /\ w[3] = StartOf(m) /\ w[4] = HasIntent(m)
    BY <1>1, BlockFacts DEF Device, Shaped, StartOf, HasIntent
  <2>2. \A a, b, d, e : JBlock(s, a, b)[1] = JBlock(s, d, e)[1]
                        /\ JBlock(s, a, b)[2] = JBlock(s, d, e)[2]
    BY SMTT(30) DEF JBlock
  <2>3. w[1] = JBlock(s, StartOf(m), HasIntent(m))[1] /\ w[2] = JBlock(s, StartOf(m), HasIntent(m))[2]
    BY <1>1
  <2>4. w[1] = v[1] /\ w[2] = v[2]
    BY <2>2, <2>3 DEF JMark
  <2> QED BY <2>1, <2>4
<1> HIDE DEF v, w, s
<1>4. x \in {w, <<v[1], w[2], w[3], w[4]>>, <<v[1], v[2], w[3], w[4]>>,
             <<v[1], v[2], v[3], w[4]>>, v}
  BY <1>2, <1>3, CutQuad DEF v, w, s, Marking
<1>5. /\ Quad(x) /\ x[1] = v[1] /\ x[2] = v[2]
      /\ \/ x[3] = w[3] /\ x[4] = w[4]
         \/ x[3] = v[3] /\ x[4] = w[4]
         \/ x[3] = v[3] /\ x[4] = v[4]
  BY <1>2, <1>3, <1>4, SMTT(30) DEF Quad
<1>6. x[3] \in {start, StartOf(m)} /\ (x[4] = TRUE \/ x[4] = HasIntent(m))
  BY <1>2, <1>3, <1>5
<1>7. StartOf(m) # 0 => IntentOn(m) /\ RecoverOn(m)
  BY <1>1 DEF Device
<1>8. x[3] # 0 => x[4] = TRUE /\ RecoverOn(m)
  <2>1. CASE x[3] = start
    <3>1. x[3] # 0 => HasIntent(m) = TRUE /\ RecoverOn(m)
      BY <2>1 DEF IntentOn, MayStart
    <3> QED BY <3>1, <1>6
  <2>2. CASE x[3] = StartOf(m)
    <3>1. x[3] # 0 => HasIntent(m) = TRUE /\ RecoverOn(m)
      BY <2>2, <1>7 DEF IntentOn
    <3> QED BY <3>1, <1>6
  <2> QED BY <1>6, <2>1, <2>2
<1>9. x[3] \in {0, First} /\ x[4] \in BOOLEAN /\ x[1] \in Digits /\ x[2] \in Digits
  BY <1>1, <1>2, <1>5, <1>6 DEF Device
<1>10. /\ Device(n) /\ n[JSuper] = x /\ \A d \in Blocks : d # JSuper => n[d] = m[d]
       /\ SeqOf(n) = x[1] * Base + x[2] /\ StartOf(n) = x[3]
       /\ HasIntent(n) = x[4] /\ HasRecover(n) = HasRecover(m)
  <2>1. JFits(x, m)
    BY <1>5, <1>8, <1>9 DEF JFits
  <2>2. JPut(n, m, x)
    BY <1>1, <2>1, JSuperWrite
  <2> QED BY <2>2 DEF JPut
<1>11. SeqOf(n) = SeqOf(m)
  BY <1>2, <1>5, <1>10 DEF s
<1>12. Quiet(n, c, t)
  <2>1. /\ n[Log(2)] = m[Log(2)] /\ \A j \in CommitSlots : n[Log(j)][2] = m[Log(j)][2]
        /\ \A h \in Homes : n[Home(h)] = m[Home(h)]
    BY <1>10, SlotFacts, BlockFacts
  <2> QED BY <1>10, <1>11, <2>1, QuietFrame
<1>13. IntentOn(m) => IntentOn(n)
  BY <1>6, <1>10 DEF IntentOn
<1>14. RecoverOn(m) => RecoverOn(n)
  BY <1>10 DEF RecoverOn
<1>15. StartOf(n) \in {start, StartOf(m)}
  BY <1>6, <1>10
<1> QED BY <1>11, <1>12, <1>13, <1>14, <1>15 DEF Marked

\* ensure_recovery_feature on a quiet device.
LEMMA QuietSuper ==
    ASSUME NEW m, NEW c, NEW t, Quiet(m, c, t), NEW x \in Cut(Raised, m[Super]),
           NEW n, Put(n, m, Super, x)
    PROVE  /\ Quiet(n, c, t) /\ SeqOf(n) = SeqOf(m) /\ StartOf(n) = StartOf(m)
           /\ HasIntent(n) = HasIntent(m) /\ n[Super] = x
<1>1. Device(m)
  BY DEF Quiet
<1>2. /\ Device(n) /\ n[Super] = x /\ \A d \in Blocks : d # Super => n[d] = m[d]
      /\ SeqOf(n) = SeqOf(m) /\ StartOf(n) = StartOf(m) /\ HasIntent(n) = HasIntent(m)
      /\ RecoverOn(m) => RecoverOn(n)
  BY <1>1, SuperWrite
<1>3. /\ n[Log(2)] = m[Log(2)] /\ \A j \in CommitSlots : n[Log(j)][2] = m[Log(j)][2]
      /\ \A h \in Homes : n[Home(h)] = m[Home(h)]
  BY <1>2, SlotFacts, BlockFacts
<1>4. Quiet(n, c, t)
  BY <1>2, <1>3, QuietFrame
<1> QED BY <1>2, <1>4

\* The descriptor or an image is written, on a device that is ready: no digest
\* is of this transaction, so none fits what the log then holds.
LEMMA ReadyLog ==
    ASSUME NEW m, NEW c, NEW s, NEW t \in Nat \ {0}, Ready(m, s, c, t - 1),
           NEW i \in LogSlots, NEW v, Pair(v), v[2].kind # "digest", i = 2 => v = Image(t),
           NEW x \in Cut(v, m[Log(i)]), NEW n, Put(n, m, Log(i), x)
    PROVE  /\ Ready(n, s, c, t - 1) /\ StartOf(n) = StartOf(m)
           /\ n[Log(i)] = x /\ \A d \in Blocks : d # Log(i) => n[d] = m[d]
<1>1. Device(m) /\ Pair(m[Log(i)]) /\ Quiet(m, c, t - 1)
  BY DevicePairs DEF Ready, Quiet
<1>2. x \in {m[Log(i)], <<v[1], m[Log(i)][2]>>, v}
  BY <1>1, CutPair
<1>3. Pair(x) /\ x[2] \in {m[Log(i)][2], v[2]} /\ (x # m[Log(i)] => x[1] = v[1])
  BY <1>1, <1>2, SMTT(30) DEF Pair
<1>4. /\ Device(n) /\ n[Log(i)] = x /\ \A d \in Blocks : d # Log(i) => n[d] = m[d]
      /\ SeqOf(n) = SeqOf(m) /\ StartOf(n) = StartOf(m)
      /\ HasIntent(n) = HasIntent(m) /\ HasRecover(n) = HasRecover(m)
  <2>1. Log(i) \in Blocks /\ Log(i) # JSuper /\ Log(i) # Super
    BY BlockFacts
  <2> QED BY <1>1, <1>3, <2>1, PairWrite, SMTT(30)
<1>5. 2 \in LogSlots /\ \A j \in CommitSlots : j \in LogSlots
  BY SlotFacts
<1>6. ASSUME NEW j \in CommitSlots, HasDigest(n, j)
      PROVE  HasDigest(m, j) /\ n[Log(j)][2] = m[Log(j)][2] /\ FirstImage(n, j) = FirstImage(m, j)
  <2>1. n[Log(j)][2] = m[Log(j)][2]
    <3>1. CASE j = i
      BY <3>1, <1>3, <1>4, <1>6 DEF HasDigest
    <3>2. CASE j # i
      BY <3>2, <1>4, <1>5, BlockFacts, BlockNames
    <3> QED BY <3>1, <3>2
  <2> QED BY <2>1, <1>6 DEF HasDigest, FirstImage
<1>7. Digests(n, t - 1)
  BY <1>1, <1>6 DEF Quiet, Digests
<1>8. \A h \in Homes : n[Home(h)] = Image(c[h])
  BY <1>1, <1>4, BlockFacts, BlockNames DEF Quiet
<1>9. ASSUME NEW j \in CommitSlots, HasDigest(n, j), FirstImage(n, j) = n[Log(2)]
      PROVE  n[Log(j)][2].of.seq # SeqOf(n)
  <2>1. HasDigest(m, j) /\ FirstImage(m, j) = n[Log(2)] /\ n[Log(j)][2] = m[Log(j)][2]
    BY <1>6, <1>9
  <2>2. PICK k \in 1 .. t - 1 : n[Log(2)] = Image(k)
    BY <2>1, <1>1 DEF Quiet, Digests
  <2>3. n[Log(2)] = m[Log(2)]
    <3>1. CASE i = 2
      <4>1. k # t
        BY SMTT(30)
      <4>2. n[Log(2)][1] # v[1]
        BY <3>1, <2>2, <4>1, ImageFacts
      <4> QED BY <3>1, <4>2, <1>3, <1>4
    <3>2. CASE i # 2
      BY <3>2, <1>4, <1>5, BlockFacts, BlockNames
    <3> QED BY <3>1, <3>2
  <2> QED BY <2>1, <2>3, <1>1, <1>4 DEF Quiet
<1>10. Quiet(n, c, t - 1)
  BY <1>4, <1>7, <1>8, <1>9 DEF Quiet
<1> QED BY <1>4, <1>10 DEF Ready, IntentOn, RecoverOn

\* The log keeps its transaction while it is not written.
LEMMA LoggedFrame ==
    ASSUME NEW m, NEW s, NEW p \in Plans, NEW c, NEW t, Logged(m, s, p, c, t),
           NEW n, Device(n), IntentOn(n), RecoverOn(n),
           \A i \in LogSlots : n[Log(i)] = m[Log(i)]
    PROVE  Logged(n, s, p, c, t)
<1>1. \A j \in CommitSlots : /\ n[Log(j)] = m[Log(j)]
                             /\ HasDigest(n, j) <=> HasDigest(m, j)
                             /\ FirstImage(n, j) = FirstImage(m, j)
  BY SlotFacts DEF HasDigest, FirstImage
<1>2. Digests(n, t)
  BY <1>1 DEF Logged, Digests
<1>3. Written(n, s, p, t)
  BY PlanFacts DEF Logged, Written
<1>4. n[Log(Len(p) + 2)] = Seal(s, p, c, t)
  BY <1>1, PlanFacts DEF Logged
<1>5. \A j \in CommitSlots : HasDigest(n, j) /\ FirstImage(n, j) = Image(t)
                                 => n[Log(j)][2] = Seal(s, p, c, t)[2]
  <2>1. \A j \in CommitSlots : HasDigest(m, j) /\ FirstImage(m, j) = Image(t)
                                   => m[Log(j)][2] = Seal(s, p, c, t)[2]
    BY DEF Logged
  <2> SUFFICES ASSUME NEW j \in CommitSlots, HasDigest(n, j), FirstImage(n, j) = Image(t)
               PROVE  n[Log(j)][2] = Seal(s, p, c, t)[2]
    OBVIOUS
  <2>2. n[Log(j)] = m[Log(j)] /\ HasDigest(m, j) /\ FirstImage(m, j) = Image(t)
    BY <1>1
  <2>3. m[Log(j)][2] = Seal(s, p, c, t)[2]
    BY <2>1, <2>2
  <2> QED BY <2>2, <2>3
<1> QED BY <1>2, <1>3, <1>4, <1>5 DEF Logged

\* The commit block is written: the transaction is sealed when the digest, at the
\* end of the block, arrives, and not before.
LEMMA SealWrite ==
    ASSUME NEW m, NEW s, NEW p \in Plans, NEW t \in Nat \ {0}, NEW c \in Maps(t - 1),
           InCommit(m, s, p, c, t),
           NEW x \in Cut(Seal(s, p, c, t), m[Log(Len(p) + 2)]),
           NEW n, Put(n, m, Log(Len(p) + 2), x)
    PROVE  /\ InCommit(n, s, p, c, t)
           /\ x = Seal(s, p, c, t) => Full(n, s, p, c, t)
<1> DEFINE q == Len(p) + 2
           e == Seal(s, p, c, t)
<1>1. q \in CommitSlots /\ q \in LogSlots /\ q # 2 /\ q # 1 /\ Log(q) \in Blocks
      /\ Log(q) # JSuper /\ Log(q) # Super
  BY PlanFacts, BlockFacts
<1>2. Pair(e) /\ e[2].kind = "digest" /\ e[2].of.images[1] = Image(t)
  BY SealFacts, SMTT(30)
<1>3. Device(m) /\ Pair(m[Log(q)])
  BY <1>1, DevicePairs DEF InCommit, Ready, Quiet, Full, Logged
<1> HIDE DEF q, e
<1>4. x \in {m[Log(q)], <<e[1], m[Log(q)][2]>>, e}
  BY <1>2, <1>3, CutPair DEF q, e
<1>5. Pair(x) /\ (x = e \/ x[2] = m[Log(q)][2])
  BY <1>2, <1>3, <1>4, SMTT(30) DEF Pair
<1>6. Put(n, m, Log(q), x)
  BY DEF q
<1>7. /\ Device(n) /\ n[Log(q)] = x /\ \A d \in Blocks : d # Log(q) => n[d] = m[d]
      /\ SeqOf(n) = SeqOf(m) /\ StartOf(n) = StartOf(m)
      /\ HasIntent(n) = HasIntent(m) /\ HasRecover(n) = HasRecover(m)
  BY <1>1, <1>3, <1>5, <1>6, PairWrite, SMTT(30)
<1>8. /\ n[Log(1)] = m[Log(1)] /\ n[Log(2)] = m[Log(2)]
      /\ \A i \in 1 .. Len(p) : n[Log(1 + i)] = m[Log(1 + i)]
      /\ \A j \in CommitSlots : j # q => n[Log(j)] = m[Log(j)]
      /\ \A h \in Homes : n[Home(h)] = m[Home(h)]
  <2>1. \A i \in LogSlots : i # q => n[Log(i)] = m[Log(i)]
    BY <1>7, BlockFacts, BlockNames
  <2>2. \A h \in Homes : n[Home(h)] = m[Home(h)]
    BY <1>7, BlockFacts, BlockNames
  <2>3. \A i \in 1 .. Len(p) : 1 + i \in LogSlots /\ 1 + i # q
    BY PlanFacts DEF q
  <2> QED BY <2>1, <2>2, <2>3, <1>1, SlotFacts
<1>9. Written(m, s, p, t) /\ Written(n, s, p, t)
  BY <1>8 DEF InCommit, Full, Logged, Written
<1>10. CASE Ready(m, s, c, t - 1) /\ StartOf(m) = First
  <2>1. CASE x[2] = m[Log(q)][2]
    <3>1. \A j \in CommitSlots : n[Log(j)][2] = m[Log(j)][2]
      BY <2>1, <1>7, <1>8
    <3>2. Quiet(n, c, t - 1)
      BY <3>1, <1>7, <1>8, <1>10, QuietFrame DEF Ready
    <3>3. Ready(n, s, c, t - 1) /\ StartOf(n) = First
      BY <3>2, <1>7, <1>10 DEF Ready, IntentOn, RecoverOn
    <3>4. x # e
      <4>1. ASSUME x = e PROVE FALSE
        <5>1. HasDigest(m, q) /\ FirstImage(m, q) = Image(t)
          BY <4>1, <2>1, <1>2 DEF HasDigest, FirstImage
        <5>2. PICK k \in 1 .. t - 1 : Image(t) = Image(k)
          BY <5>1, <1>1, <1>10 DEF Ready, Quiet, Digests
        <5>3. k # t
          BY SMTT(30)
        <5> QED BY <5>2, <5>3, ImageFacts
      <4> QED BY <4>1
    <3> QED BY <3>3, <3>4, <1>9 DEF InCommit, e
  <2>2. CASE x = e
    <3>1. ASSUME NEW j \in CommitSlots, HasDigest(n, j), j # q
          PROVE  \E k \in 1 .. t - 1 : FirstImage(n, j) = Image(k)
      BY <3>1, <1>8, <1>10 DEF Ready, Quiet, Digests, HasDigest, FirstImage
    <3>2. t \in 1 .. t /\ \A k \in 1 .. t - 1 : k \in 1 .. t /\ k # t
      BY SMTT(30)
    <3>3. FirstImage(n, q) = Image(t) /\ n[Log(q)] = e
      BY <2>2, <1>2, <1>7 DEF FirstImage
    <3>4. Digests(n, t)
      BY <3>1, <3>2, <3>3 DEF Digests
    <3>5. \A j \in CommitSlots : HasDigest(n, j) /\ FirstImage(n, j) = Image(t) => n[Log(j)][2] = e[2]
      BY <3>1, <3>2, <3>3, ImageFacts
    <3>6. Logged(n, s, p, c, t)
      BY <3>3, <3>4, <3>5, <1>7, <1>9, <1>10 DEF Logged, Ready, q, e, IntentOn, RecoverOn
    <3>7. \A h \in Homes : n[Home(h)] = Image(c[h])
      BY <1>8, <1>10 DEF Ready, Quiet
    <3>8. \A h \in Homes : Image(c[h]) \in Cut(Image(t), Image(c[h]))
      BY DEF Cut
    <3>9. Full(n, s, p, c, t)
      <4>1. SeqOf(n) = s /\ StartOf(n) = First
        BY <1>7, <1>10 DEF Ready
      <4>2. Named(p) \subseteq Homes
        BY PlanFacts
      <4> QED BY <3>6, <3>7, <3>8, <4>1, <4>2 DEF Full
    <3> QED BY <3>7, <3>9 DEF InCommit
  <2> QED BY <2>1, <2>2, <1>5
<1>11. CASE Full(m, s, p, c, t) /\ \A h \in Homes : m[Home(h)] = Image(c[h])
  <2>1. m[Log(q)] = e
    BY <1>11 DEF Full, Logged, q, e
  <2>2. x = m[Log(q)]
    BY <2>1, <1>2, <1>4, SMTT(30) DEF Pair
  <2>3. m = [b \in Blocks |-> m[b]]
    BY <1>3 DEF Device
  <2>4. n = m
    BY <2>2, <2>3, <1>6, SMTT(30) DEF Put
  <2> QED BY <2>4, <1>11 DEF InCommit
<1> QED BY <1>10, <1>11 DEF InCommit

\* A home is written by the checkpoint or by the replay: it holds a prefix of the
\* new image over the old one.
LEMMA HomeWrite ==
    ASSUME NEW m, NEW s, NEW p \in Plans, NEW c, NEW t, Full(m, s, p, c, t),
           NEW h \in Named(p), NEW x \in Cut(Image(t), m[Home(h)]),
           NEW n, Put(n, m, Home(h), x)
    PROVE  Full(n, s, p, c, t)
<1>1. h \in Homes /\ Device(m) /\ Logged(m, s, p, c, t)
  BY PlanFacts DEF Full, Logged
<1>2. Home(h) \in Blocks /\ Home(h) # JSuper /\ Home(h) # Super
  BY <1>1, BlockFacts
<1>3. /\ Shaped(Home(h), Image(t)) /\ Shaped(Home(h), Image(c[h]))
      /\ m[Home(h)] \in Cut(Image(t), Image(c[h]))
  BY <1>2, ImageFacts DEF Shaped, Full
<1>4. x \in Cut(Image(t), Image(c[h])) /\ Shaped(Home(h), x)
  BY <1>3, CutAgain
<1>5. Pair(x)
  BY <1>2, <1>4 DEF Shaped
<1>6. /\ Device(n) /\ n[Home(h)] = x /\ \A d \in Blocks : d # Home(h) => n[d] = m[d]
      /\ SeqOf(n) = SeqOf(m) /\ StartOf(n) = StartOf(m)
      /\ HasIntent(n) = HasIntent(m) /\ HasRecover(n) = HasRecover(m)
  BY <1>1, <1>2, <1>5, PairWrite
<1>7. /\ \A i \in LogSlots : n[Log(i)] = m[Log(i)]
      /\ \A g \in Homes : g # h => n[Home(g)] = m[Home(g)]
  BY <1>6, BlockFacts, BlockNames
<1>8. Logged(n, s, p, c, t)
  <2>1. IntentOn(n) /\ RecoverOn(n)
    BY <1>1, <1>6 DEF Logged, IntentOn, RecoverOn
  <2> QED BY <2>1, <1>1, <1>6, <1>7, LoggedFrame
<1>9. \A g \in Homes \ Named(p) : n[Home(g)] = Image(c[g])
  BY <1>7 DEF Full
<1>10. \A g \in Named(p) : n[Home(g)] \in Cut(Image(t), Image(c[g]))
  <2> SUFFICES ASSUME NEW g \in Named(p) PROVE n[Home(g)] \in Cut(Image(t), Image(c[g]))
    OBVIOUS
  <2>1. CASE g = h
    BY <2>1, <1>4, <1>6
  <2>2. CASE g # h
    BY <2>2, <1>7, PlanFacts DEF Full
  <2> QED BY <2>1, <2>2
<1>11. SeqOf(n) = s /\ StartOf(n) = First
  BY <1>6 DEF Full
<1> QED BY <1>8, <1>9, <1>10, <1>11 DEF Full

\* What the release of the journal can leave of its superblock.
LEMMA ClearCuts ==
    ASSUME NEW s \in 0 .. Top, NEW y \in Cut(JMark(NextSeq(s), 0), JMark(s, First))
    PROVE  /\ Quad(y) /\ y[1] \in Digits /\ y[2] \in Digits /\ y[4] = TRUE
           /\ \/ y[3] = First
              \/ y[3] = 0 /\ y[1] * Base + y[2] = NextSeq(s)
<1> DEFINE v == JMark(NextSeq(s), 0)
           w == JMark(s, First)
<1>1. /\ Quad(v) /\ v[1] \in Digits /\ v[2] \in Digits /\ v[3] = 0 /\ v[4] = TRUE
      /\ v[1] * Base + v[2] = NextSeq(s)
  BY NextIsOther, JBlockFacts DEF JMark
<1>2. /\ Quad(w) /\ w[1] \in Digits /\ w[2] \in Digits /\ w[3] = First /\ w[4] = TRUE
      /\ w[1] * Base + w[2] = s
  BY JBlockFacts DEF JMark
<1>0. y \in Cut(v, w)
  OBVIOUS
<1> HIDE DEF v, w
<1>3. y \in {w, <<v[1], w[2], w[3], w[4]>>, <<v[1], v[2], w[3], w[4]>>,
             <<v[1], v[2], v[3], w[4]>>, v}
  <2>1. Cut(v, w) = {w, <<v[1], w[2], w[3], w[4]>>, <<v[1], v[2], w[3], w[4]>>,
                     <<v[1], v[2], v[3], w[4]>>, v}
    BY <1>1, <1>2, CutQuad
  <2> QED BY <1>0, <2>1
<1>4. /\ Quad(y) /\ y[1] \in {v[1], w[1]} /\ y[2] \in {v[2], w[2]} /\ y[4] \in {v[4], w[4]}
      /\ y[3] = w[3] \/ (y[3] = v[3] /\ y[1] = v[1] /\ y[2] = v[2])
  BY <1>1, <1>2, <1>3, SMTT(30) DEF Quad
<1> QED BY <1>1, <1>2, <1>4

\* The journal is released: clear_recovered_journal and the end of a commit.
LEMMA ClearWrite ==
    ASSUME NEW m, NEW s \in 0 .. Top, NEW p \in Plans, NEW c, NEW t, InClear(m, s, p, c, t),
           NEW x \in Cut(JMark(NextSeq(s), 0), m[JSuper]),
           NEW n, Put(n, m, JSuper, x)
    PROVE  InClear(n, s, p, c, t) /\ n[JSuper] = x
<1>1. /\ Shaped(JSuper, JMark(NextSeq(s), 0)) /\ Shaped(JSuper, JMark(s, First))
      /\ m[JSuper] \in Cut(JMark(NextSeq(s), 0), JMark(s, First))
  BY NextIsOther, JBlockFacts DEF Shaped, InClear, JMark
<1>2. x \in Cut(JMark(NextSeq(s), 0), JMark(s, First))
  BY <1>1, CutAgain
<1>3. Quad(x) /\ x[1] \in Digits /\ x[2] \in Digits /\ x[3] \in {0, First} /\ x[4] = TRUE
  BY <1>2, ClearCuts
<1>4. Device(m) /\ Logged(m, s, p, c, t) /\ RecoverOn(m)
  BY DEF InClear, Logged
<1>5. /\ Device(n) /\ n[JSuper] = x /\ \A d \in Blocks : d # JSuper => n[d] = m[d]
      /\ SeqOf(n) = x[1] * Base + x[2] /\ StartOf(n) = x[3]
      /\ HasIntent(n) = x[4] /\ HasRecover(n) = HasRecover(m)
  <2>1. x[4] \in BOOLEAN /\ (x[3] # 0 => x[4] = TRUE /\ RecoverOn(m))
    BY <1>3, <1>4
  <2>2. JFits(x, m)
    BY <1>3, <2>1 DEF JFits
  <2>3. JPut(n, m, x)
    BY <1>4, <2>2, JSuperWrite
  <2> QED BY <2>3 DEF JPut
<1>6. Logged(n, s, p, c, t)
  <2>1. \A i \in LogSlots : n[Log(i)] = m[Log(i)]
    BY <1>5, BlockFacts
  <2>2. IntentOn(n) /\ RecoverOn(n)
    BY <1>3, <1>4, <1>5 DEF IntentOn, RecoverOn
  <2> QED BY <2>1, <2>2, <1>4, <1>5, LoggedFrame
<1>7. \A h \in Homes : n[Home(h)] = Image(After(p, c, t)[h])
  BY <1>5, BlockFacts DEF InClear
<1> QED BY <1>2, <1>5, <1>6, <1>7 DEF InClear

------------------------------------------------------------------------------
\* What a mount finds.

\* A sealed transaction has its digest in the commit slot behind its images.
LEMMA SealedHas ==
    ASSUME NEW m, NEW k \in 1 .. MaxHomes, Sealed(m, k)
    PROVE  /\ k + 2 \in CommitSlots /\ HasDigest(m, k + 2)
           /\ m[Log(k + 2)][2].of.seq = SeqOf(m) /\ FirstImage(m, k + 2) = m[Log(2)]
           /\ m[Log(k + 2)][2].of.images = ImagesOf(m, k)
<1>1. First + k + 1 = k + 2 /\ First + 1 = 2 /\ k + 2 \in CommitSlots /\ 1 \in 1 .. k
  BY PlanAssumption, SMTT(30) DEF First, CommitSlots
<1>2. /\ HasDigest(m, k + 2)
      /\ m[Log(k + 2)][2].of = Digest(SeqOf(m), m[Log(First)], ImagesOf(m, k), m[Log(k + 2)][1].intent)
  BY <1>1 DEF Sealed, HasDigest
<1>3. \A a, b, x, d : Digest(a, b, x, d).seq = a /\ Digest(a, b, x, d).images = x
  BY DEF Digest
<1>4. ImagesOf(m, k)[1] = m[Log(2)]
  BY <1>1 DEF ImagesOf
<1>5. m[Log(k + 2)][2].of.seq = SeqOf(m) /\ m[Log(k + 2)][2].of.images = ImagesOf(m, k)
  BY <1>2, <1>3, SMTT(30)
<1> QED BY <1>1, <1>2, <1>4, <1>5 DEF FirstImage

\* Home h under no images is what the device has.
LEMMA VirtualNone ==
    ASSUME NEW m, NEW images, NEW h
    PROVE  Virtual(m, << >>, images, h) = m[Home(h)]
<1>1. ~ \E i \in DOMAIN << >> : << >>[i] = h
  BY SMTT(30)
<1> QED BY <1>1 DEF Virtual

\* On a quiet device a mount finds nothing to replay, and the homes as they are.
LEMMA QuietFinds ==
    ASSUME NEW m, NEW t \in Nat, NEW c \in Maps(t), Quiet(m, c, t)
    PROVE  /\ RecoveryAccepts(m) /\ Recovered(m) = c
           /\ Plan(m) = [next |-> SeqOf(m), homes |-> << >>, pre |-> << >>, post |-> << >>, n |-> 1]
<1>1. SealedCounts(m) = {}
  <2> SUFFICES ASSUME NEW k \in 1 .. MaxHomes, Sealed(m, k) PROVE FALSE
    BY DEF SealedCounts
  <2> QED BY SealedHas DEF Quiet
<1>2. Plan(m) = [NoJob EXCEPT !.next = SeqOf(m)]
  BY <1>1 DEF Plan
<1>3. /\ Plan(m) = [next |-> SeqOf(m), homes |-> << >>, pre |-> << >>, post |-> << >>, n |-> 1]
      /\ Plan(m).homes = << >> /\ NoJob.homes = << >>
  BY <1>2, SMTT(30) DEF NoJob
<1>4. ReplayValid(m)
  BY <1>1 DEF ReplayValid
<1>5. StartOf(m) # 0 => StartOf(m) = First /\ IntentOn(m) /\ RecoverOn(m)
  BY DEF Quiet, Device
<1>7. \A h \in Homes : m[Home(h)][1] = m[Home(h)][2] /\ Number(m[Home(h)]) = c[h]
  BY ImageFacts DEF Quiet
<1>9. Consistent(m)
  <2>1. (IF StartOf(m) # 0 THEN Plan(m) ELSE NoJob).homes = << >>
    BY <1>3
  <2>2. \A images : \A h \in Homes :
            Virtual(m, << >>, images, h)[1] = Virtual(m, << >>, images, h)[2]
    <3> SUFFICES ASSUME NEW images, NEW h \in Homes
                 PROVE  Virtual(m, << >>, images, h)[1] = Virtual(m, << >>, images, h)[2]
      OBVIOUS
    <3>1. Virtual(m, << >>, images, h) = m[Home(h)]
      BY VirtualNone
    <3> QED BY <1>7, <3>1
  <2> QED BY <2>1, <2>2 DEF Consistent
<1>6. RecoveryAccepts(m)
  BY <1>4, <1>5, <1>9 DEF RecoveryAccepts, IntentOn, RecoverOn
<1>8. Recovered(m) = c
  <2>1. (IF StartOf(m) # 0 THEN Plan(m) ELSE NoJob).homes = << >>
    BY <1>3
  <2>2. \A images : \A h \in Homes : Virtual(m, << >>, images, h) = m[Home(h)]
    BY VirtualNone
  <2>3. Recovered(m) = [h \in Homes |-> Number(m[Home(h)])]
    BY <1>6, <2>1, <2>2 DEF Recovered
  <2>4. c = [h \in Homes |-> c[h]]
    BY DEF Maps
  <2> QED BY <2>3, <2>4, <1>7
<1> QED BY <1>3, <1>6, <1>8

\* What a mount finds in the homes once it has replayed the images ps over hs.
FoundBy(m, hs, ps) == [h \in Homes |-> Number(Virtual(m, hs, ps, h))]

\* An active journal is replayed.
LEMMA RecoveredIs ==
    ASSUME NEW m, RecoveryAccepts(m), StartOf(m) # 0
    PROVE  Recovered(m) = FoundBy(m, Plan(m).homes, Plan(m).post)
<1> DEFINE j == IF StartOf(m) # 0 THEN Plan(m) ELSE NoJob
<1>1. Recovered(m) = IF ~RecoveryAccepts(m) THEN [h \in Homes |-> -1] ELSE FoundBy(m, j.homes, j.post)
  BY DEF Recovered, FoundBy
<1>2. j = Plan(m)
  OBVIOUS
<1> HIDE DEF j
<1> QED BY <1>1, <1>2

\* The job a mount makes of a sealed transaction.
JobOf(s, p, c, t) ==
    [next |-> NextSeq(s), homes |-> p, pre |-> Pres(p, c), post |-> Posts(p, t), n |-> 1]

\* On a device with a whole transaction a mount finds that transaction.
LEMMA FullFinds ==
    ASSUME NEW m, NEW s, NEW p \in Plans, NEW t \in Nat \ {0}, NEW c \in Maps(t - 1),
           Full(m, s, p, c, t)
    PROVE  /\ RecoveryAccepts(m) /\ Recovered(m) = After(p, c, t) /\ Plan(m) = JobOf(s, p, c, t)
<1> DEFINE q == Len(p)
           e == Seal(s, p, c, t)
<1>1. /\ Logged(m, s, p, c, t) /\ SeqOf(m) = s /\ StartOf(m) = First
      /\ m[Log(1)] = Descriptor(s, p) /\ m[Log(q + 2)] = e
      /\ \A i \in 1 .. q : m[Log(1 + i)] = Image(t)
  BY DEF Full, Logged, Written
<1>2. /\ q \in 1 .. MaxHomes /\ q \in Nat /\ 1 \in 1 .. q /\ 1 + 1 = 2 /\ DOMAIN p = 1 .. q
  BY PlanFacts
<1>3. /\ e[1].kind = "commit" /\ e[1].seq = s /\ e[1].intent = Intent(p, c)
      /\ e[2].kind = "digest" /\ e[2].of = DigestOf(s, p, c, t) /\ e[2].of.images = Posts(p, t)
  BY SealFacts, SMTT(30)
<1>4. First = 1 /\ First + q + 1 = q + 2
  BY <1>2, SMTT(30) DEF First
<1> HIDE DEF q, e
<1>5. ImagesOf(m, q) = Posts(p, t)
  BY <1>1, <1>4 DEF ImagesOf, Posts, q
<1>6. Sealed(m, q)
  BY <1>1, <1>3, <1>4, <1>5 DEF Sealed, DigestOf
<1>7. ASSUME NEW k \in 1 .. MaxHomes, Sealed(m, k) PROVE k = q
  <2>1. /\ k + 2 \in CommitSlots /\ HasDigest(m, k + 2) /\ FirstImage(m, k + 2) = Image(t)
        /\ m[Log(k + 2)][2].of.images = ImagesOf(m, k)
    BY <1>1, <1>2, <1>7, SealedHas
  <2>2. m[Log(k + 2)][2] = e[2]
    BY <2>1, <1>1 DEF Logged, e
  <2>3. ImagesOf(m, k) = Posts(p, t)
    BY <2>1, <2>2, <1>3
  <2>4. 1 .. k = 1 .. q
    BY <2>3 DEF ImagesOf, Posts, q
  <2> QED BY <2>4, <1>2, SMTT(30)
<1>8. SealedCounts(m) = {q}
  BY <1>2, <1>6, <1>7 DEF SealedCounts
<1>9. (CHOOSE k \in SealedCounts(m) : \A j \in 1 .. k - 1 : ~Sealed(m, j)) = q
  <2>1. \A j \in 1 .. q - 1 : j \in 1 .. MaxHomes /\ j # q
    BY <1>2, PlanAssumption, SMTT(30)
  <2>2. \A j \in 1 .. q - 1 : ~Sealed(m, j)
    BY <2>1, <1>7
  <2> QED BY <2>2, <1>8
<1>10. Plan(m) = JobOf(s, p, c, t)
  <2>1. e[1].intent.pre = Pres(p, c) /\ m[Log(First)][1].homes = p
    <3>1. Intent(p, c).pre = Pres(p, c)
      BY DEF Intent
    <3>2. Descriptor(s, p)[1].homes = p
      BY DescriptorFacts
    <3> QED BY <3>1, <3>2, <1>1, <1>3, <1>4, SMTT(30)
  <2>2. Plan(m) = [next |-> (SeqOf(m) + 1) % Modulus, homes |-> m[Log(First)][1].homes,
                   pre |-> m[Log(First + q + 1)][1].intent.pre, post |-> ImagesOf(m, q), n |-> 1]
    BY <1>8, <1>9 DEF Plan
  <2> QED BY <2>1, <2>2, <1>1, <1>4, <1>5 DEF JobOf, NextSeq
<1>11. /\ Plan(m).homes = p /\ Plan(m).pre = Pres(p, c) /\ Plan(m).post = Posts(p, t)
  BY <1>10, SMTT(30) DEF JobOf
<1>12. ReplayValid(m)
  <2>1. m[Log(First)][1].kind = "descriptor" /\ m[Log(First)][1].seq = SeqOf(m)
    <3>1. Descriptor(s, p)[1].kind = "descriptor" /\ Descriptor(s, p)[1].seq = s
      BY DescriptorFacts, SMTT(30)
    <3> QED BY <3>1, <1>1, <1>4
  <2>2. Len(Posts(p, t)) = Len(p)
    BY <1>2, SMTT(30) DEF Posts, q
  <2>3. ASSUME NEW i \in DOMAIN p
        PROVE  m[Home(p[i])] \in {Pres(p, c)[i], Posts(p, t)[i]} \union Torn(Posts(p, t)[i], Pres(p, c)[i])
    <3>1. Posts(p, t)[i] = Image(t) /\ Pres(p, c)[i] = Image(c[p[i]]) /\ p[i] \in Named(p)
      BY <1>2 DEF Posts, Pres, Named, q
    <3>2. m[Home(p[i])] \in Cut(Image(t), Image(c[p[i]]))
      BY <3>1 DEF Full
    <3> QED BY <3>1, <3>2 DEF Cut
  <2> QED BY <2>1, <2>2, <2>3, <1>11 DEF ReplayValid
<1>13. StartOf(m) # 0
  BY <1>1, <1>4, SMTT(30)
<1>14. ASSUME NEW h \in Homes
       PROVE  /\ Virtual(m, p, Posts(p, t), h) = Image(After(p, c, t)[h])
              /\ Virtual(m, p, Pres(p, c), h) = Image(c[h])
  <2>1. CASE h \in Named(p)
    <3>1. \E i \in DOMAIN p : p[i] = h
      BY <2>1, <1>2 DEF Named, q
    <3> DEFINE j == CHOOSE i \in DOMAIN p : p[i] = h
    <3>2. j \in 1 .. Len(p) /\ p[j] = h
      BY <3>1, <1>2 DEF q
    <3>3. /\ Virtual(m, p, Posts(p, t), h) = Posts(p, t)[j]
          /\ Virtual(m, p, Pres(p, c), h) = Pres(p, c)[j]
      BY <3>1 DEF Virtual
    <3> HIDE DEF j
    <3>4. Posts(p, t)[j] = Image(t) /\ Pres(p, c)[j] = Image(c[h])
      BY <3>2 DEF Posts, Pres
    <3>5. After(p, c, t)[h] = t
      BY <2>1 DEF After
    <3> QED BY <3>3, <3>4, <3>5
  <2>2. CASE h \notin Named(p)
    <3>1. ~ \E i \in DOMAIN p : p[i] = h
      BY <2>2, <1>2 DEF Named, q
    <3>2. m[Home(h)] = Image(c[h]) /\ After(p, c, t)[h] = c[h]
      BY <2>2 DEF Full, After
    <3> QED BY <3>1, <3>2 DEF Virtual
  <2> QED BY <2>1, <2>2
<1>15. Consistent(m)
  <2>1. PICK j : j = IF StartOf(m) # 0 THEN Plan(m) ELSE NoJob
    OBVIOUS
  <2>2. j.homes = p /\ j.pre = Pres(p, c) /\ j.post = Posts(p, t)
    BY <1>11, <1>13, <2>1
  <2>3. \A i : Image(i)[1] = Image(i)[2]
    BY ImageFacts
  <2>4. ASSUME NEW images \in {j.pre, j.post}, NEW h \in Homes
        PROVE  Virtual(m, j.homes, images, h)[1] = Virtual(m, j.homes, images, h)[2]
    <3>1. PICK i : Virtual(m, j.homes, images, h) = Image(i)
      BY <1>14, <2>2
    <3> QED BY <2>3, <3>1
  <2> QED BY <2>1, <2>4 DEF Consistent
<1>16. RecoveryAccepts(m)
  BY <1>1, <1>12, <1>15 DEF RecoveryAccepts, Logged, IntentOn, RecoverOn
<1>17. Recovered(m) = FoundBy(m, p, Posts(p, t))
  BY <1>11, <1>13, <1>16, RecoveredIs
<1>18. Recovered(m) = [h \in Homes |-> After(p, c, t)[h]]
  <2>1. \A h \in Homes : Number(Virtual(m, p, Posts(p, t), h)) = After(p, c, t)[h]
    BY <1>14, ImageFacts
  <2> QED BY <1>17, <2>1 DEF FoundBy
<1>19. After(p, c, t) = [h \in Homes |-> After(p, c, t)[h]]
  BY DEF After
<1> QED BY <1>10, <1>16, <1>18, <1>19

------------------------------------------------------------------------------
\* The phases of the writer and of the mount.  In each the program writes certain
\* blocks, and media and live hold the same but for what of them has arrived.
NoTx == {"enable", "feature", "reset"}
Before == NoTx \union {"mark", "log", "abort"}
Phases == Before \union {"commit", "home", "clear"}

\* The number, the plan, the homes before and the transaction a phase is about.
Args(k, s, p, c, t) ==
    /\ k \in Phases /\ s \in 0 .. Top /\ t \in Nat
    /\ k \in NoTx => c \in Maps(t)
    /\ k \notin NoTx => p \in Plans /\ t # 0 /\ c \in Maps(t - 1)

\* What media and live hold in a phase.
Ok(k, m, s, p, c, t) ==
    /\ k = "enable" => Quiet(m, c, t) /\ StartOf(m) = 0 /\ SeqOf(m) = s
    /\ k = "feature" => Quiet(m, c, t) /\ StartOf(m) = 0 /\ IntentOn(m)
    /\ k = "reset" => Ready(m, s, c, t)
    /\ k \in {"mark", "log", "abort"} => Ready(m, s, c, t - 1)
    /\ k = "log" => StartOf(m) = First
    /\ k = "commit" => InCommit(m, s, p, c, t)
    /\ k = "home" => Full(m, s, p, c, t)
    /\ k = "clear" => InClear(m, s, p, c, t)

\* The blocks a phase writes, and what it writes to them.
To(k, b, p) ==
    \/ k \in {"enable", "reset", "mark", "abort", "clear"} /\ b = JSuper
    \/ k = "feature" /\ b = Super
    \/ k \in {"log", "abort"} /\ (b = Log(1) \/ \E i \in 1 .. Len(p) : b = Log(1 + i))
    \/ k = "commit" /\ b = Log(Len(p) + 2)
    \/ k = "home" /\ \E h \in Named(p) : b = Home(h)
Val(k, b, s, p, c, t) ==
    IF b = JSuper
    THEN IF k = "clear" THEN JMark(NextSeq(s), 0)
         ELSE JMark(s, IF k = "mark" THEN First ELSE 0)
    ELSE IF k = "feature" THEN Raised
    ELSE IF k = "commit" THEN Seal(s, p, c, t)
    ELSE IF b = Log(1) THEN Descriptor(s, p)
    ELSE Image(t)

Ahead(k, m, l, s, p, c, t) ==
    \A b \in Blocks : IF To(k, b, p) THEN l[b] \in Cut(Val(k, b, s, p, c, t), m[b])
                                     ELSE l[b] = m[b]

Stage(k, m, l, s, p, c, t) ==
    /\ Args(k, s, p, c, t)
    /\ Ok(k, m, s, p, c, t) /\ Ok(k, l, s, p, c, t)
    /\ Ahead(k, m, l, s, p, c, t)

------------------------------------------------------------------------------
\* The inductive invariant.
Running == {"mark", "markflush", "descriptor", "image", "imageflush", "commit", "commitflush",
            "home", "homeflush", "clear", "clearflush", "abort", "abortflush"}
Settled == {"down", "intent", "feature", "publish", "reset", "idle", "mark", "descriptor",
            "commit", "clear", "refused"}

\* The phase of each point of the program.
PhaseAt(k) ==
    /\ pc \in {"intent", "intentflush"} => k = "enable"
    /\ pc \in {"feature", "featureflush"} => k = "feature"
    /\ pc \in {"publish", "idle"} => k = "reset"
    /\ pc \in {"replay", "replayflush", "home", "homeflush"} => k = "home"
    /\ pc \in {"reset", "resetflush"} => k \in {"reset", "clear"}
    /\ pc \in {"mark", "markflush"} => k = "mark"
    /\ pc \in {"descriptor", "image", "imageflush"} => k = "log"
    /\ pc \in {"abort", "abortflush"} => k = "abort"
    /\ pc \in {"commit", "commitflush"} => k = "commit"
    /\ pc \in {"clear", "clearflush"} => k = "clear"
    /\ pc = "poisoned" => k \notin NoTx
    /\ pc = "failed" => k \in NoTx \union {"home", "clear"}

\* How far the program is: what it has written to live.
WrittenAt(k, s, p, c) ==
    /\ pc \in Settled => live = media
    /\ pc = "intentflush" => IntentOn(live)
    /\ pc = "featureflush" => RecoverOn(live)
    /\ pc \in {"publish", "idle", "mark", "abortflush"} => StartOf(live) = 0
    /\ pc = "markflush" => StartOf(live) = First
    /\ pc = "resetflush" => live[JSuper] = Val(k, JSuper, s, p, c, Len(ledger))
    /\ pc = "clearflush" => live[JSuper] = JMark(NextSeq(s), 0)
    /\ pc = "image" => live[Log(1)] = Descriptor(s, p)
    /\ pc \in {"image", "home", "replay"} => job.n \in 1 .. Len(p)
    /\ pc = "image" => \A i \in 1 .. job.n - 1 : live[Log(1 + i)] = Image(Len(ledger))
    /\ pc = "imageflush" => Written(live, s, p, Len(ledger))
    /\ pc = "commitflush" => live[Log(Len(p) + 2)] = Seal(s, p, c, Len(ledger))
    /\ pc \in {"home", "replay"} => \A i \in 1 .. job.n - 1 : live[Home(p[i])] = Image(Len(ledger))
    /\ pc \in {"homeflush", "replayflush"} => \A h \in Named(p) : live[Home(h)] = Image(Len(ledger))

\* What the program holds in memory.
JobIs(s, p, c) ==
    /\ job.homes = p /\ job.pre = Pres(p, c) /\ job.post = Posts(p, Len(ledger))
    /\ job.next = NextSeq(s)
HeldAt(k, s, p, c) ==
    /\ pc \in Running => jrnl.seq = s /\ mem = c
    /\ pc \in Running \union {"replay", "replayflush"} => JobIs(s, p, c)
    /\ pc \in {"mark", "markflush", "descriptor", "imageflush", "commit", "commitflush"} => job.n = 1
    /\ pc \in {"reset", "resetflush"} => job.next = IF k = "clear" THEN NextSeq(s) ELSE s
    /\ pc = "idle" => jrnl.seq = s /\ mem = c
    /\ pc = "poisoned" => mem = c \/ (k \in {"home", "clear"} /\ mem = After(p, c, Len(ledger)))
    /\ pc \in Running \union {"poisoned"} => ledger[Len(ledger)].homes = Named(p)

Where(k, s, p, c) ==
    /\ Stage(k, media, live, s, p, c, Len(ledger))
    /\ PhaseAt(k) /\ WrittenAt(k, s, p, c) /\ HeldAt(k, s, p, c)
Located ==
    \E k \in Phases, s \in 0 .. Top, p \in Plans \union {<< >>}, c \in Maps(Len(ledger)) :
        Where(k, s, p, c)

\* The caller of the last transaction has its answer unless that is still open.
Results == {"running", "unknown", "ok", "aborted", "lost"}
Books ==
    /\ ledger \in Seq([homes : SUBSET Homes, res : Results])
    /\ Len(ledger) <= MaxTx
    /\ Len(ledger) # 0 => /\ ledger[Len(ledger)].res = "running" <=> pc \in Running
                          /\ ledger[Len(ledger)].res = "unknown" <=> pc = "poisoned"

IsJob(j) ==
    /\ j = [next |-> j.next, homes |-> j.homes, pre |-> j.pre, post |-> j.post, n |-> j.n]
    /\ DOMAIN j.homes = DOMAIN j.post /\ j.n \in 1 .. MaxHomes
Registers ==
    /\ pc \in Locations /\ (pc = "refused" => ~Legible(live))
    /\ jrnl \in [seq : 0 .. Top, start : {0, First}]
    /\ pc \in {"idle", "mark"} => jrnl.start = 0
    /\ IsJob(job)
    /\ errors \in 0 .. MaxErrors /\ crashes \in 0 .. MaxCrashes
    /\ mem \in Maps(Len(ledger))

IInv == Located /\ Books /\ Registers

------------------------------------------------------------------------------
\* The phases under the operations of the device.

\* In every phase the device keeps its shape.
LEMMA OkDevice ==
    ASSUME NEW k, NEW m, NEW s, NEW p, NEW c, NEW t, Args(k, s, p, c, t), Ok(k, m, s, p, c, t)
    PROVE  Device(m)
BY DEF Args, Phases, Before, NoTx, Ok, Ready, Quiet, InCommit, Full, Logged, InClear

\* A write changes one block.
LEMMA PutFacts ==
    ASSUME NEW m, Device(m), NEW b \in Blocks, NEW x, NEW n, Put(n, m, b, x)
    PROVE  n[b] = x /\ \A d \in Blocks : d # b => n[d] = m[d]
<1>1. m = [d \in Blocks |-> m[d]]
  BY DEF Device
<1> QED BY <1>1, SMTT(30) DEF Put

\* The blocks of a phase exist, and it writes values of their shape.
LEMMA ToFacts ==
    ASSUME NEW k, NEW s, NEW p, NEW c, NEW t, Args(k, s, p, c, t), NEW b, To(k, b, p)
    PROVE  b \in Blocks /\ Shaped(b, Val(k, b, s, p, c, t))
<1>1. CASE b = JSuper
  <2>1. s \in 0 .. Top /\ NextSeq(s) \in 0 .. Top
    BY NextIsOther DEF Args
  <2>2. \A r \in 0 .. Top : \A a : Quad(JMark(r, a))
    BY JBlockFacts DEF JMark
  <2>3. Quad(Val(k, b, s, p, c, t))
    BY <1>1, <2>1, <2>2 DEF Val
  <2> QED BY <1>1, <2>3, BlockFacts DEF Shaped
<1>2. CASE k = "feature" /\ b = Super
  <2>1. Raised = <<Raised[1]>>
    BY SMTT(30) DEF Raised
  <2>2. b \in Blocks /\ b # JSuper /\ b = Super
    BY <1>2, BlockFacts, BlockNames
  <2>3. Val(k, b, s, p, c, t) = Raised
    BY <1>2, <2>2 DEF Val
  <2> QED BY <2>1, <2>2, <2>3 DEF Shaped
<1>3. CASE k \in {"log", "abort"} /\ (b = Log(1) \/ \E i \in 1 .. Len(p) : b = Log(1 + i))
  <2>1. p \in Plans
    BY <1>3 DEF Args, NoTx
  <2>2. b \in Blocks /\ b # JSuper /\ b # Super
    <3>1. 1 \in LogSlots /\ \A i \in 1 .. Len(p) : 1 + i \in LogSlots
      BY <2>1, PlanFacts
    <3> QED BY <3>1, <1>3, BlockFacts
  <2>3. Val(k, b, s, p, c, t) \in {Descriptor(s, p), Image(t)}
    BY <1>3, <2>2 DEF Val
  <2>4. Pair(Descriptor(s, p)) /\ Pair(Image(t))
    BY ImageFacts, DescriptorFacts
  <2> QED BY <2>2, <2>3, <2>4 DEF Shaped
<1>4. CASE k = "commit" /\ b = Log(Len(p) + 2)
  <2>1. p \in Plans
    BY <1>4 DEF Args, NoTx
  <2>2. b \in Blocks /\ b # JSuper /\ b # Super
    BY <2>1, <1>4, PlanFacts, BlockFacts
  <2>3. Val(k, b, s, p, c, t) = Seal(s, p, c, t)
    BY <1>4, <2>2 DEF Val
  <2>4. Pair(Seal(s, p, c, t))
    BY <2>1, SealFacts, SMTT(30)
  <2> QED BY <2>2, <2>3, <2>4 DEF Shaped
<1>5. CASE k = "home" /\ \E h \in Named(p) : b = Home(h)
  <2>1. p \in Plans
    BY <1>5 DEF Args, NoTx
  <2>2. b \in Blocks /\ b # JSuper /\ b # Super /\ b # Log(1)
    BY <2>1, <1>5, PlanFacts, BlockFacts, BlockNames
  <2>3. Val(k, b, s, p, c, t) = Image(t)
    BY <1>5, <2>2 DEF Val
  <2> QED BY <2>2, <2>3, ImageFacts DEF Shaped
<1> QED BY <1>1, <1>2, <1>3, <1>4, <1>5 DEF To

\* What a phase holds to is kept by its own writes, cut short or not.
LEMMA Closure ==
    ASSUME NEW k, NEW m, NEW s, NEW p, NEW c, NEW t, Args(k, s, p, c, t), Ok(k, m, s, p, c, t),
           NEW b, To(k, b, p), NEW x \in Cut(Val(k, b, s, p, c, t), m[b]),
           NEW n, Put(n, m, b, x)
    PROVE  Ok(k, n, s, p, c, t)
<1>1. CASE k = "enable"
  <2>1. b = JSuper /\ Quiet(m, c, t) /\ StartOf(m) = 0 /\ SeqOf(m) = s
    BY <1>1 DEF To, Ok
  <2>2. x \in Marking(m, 0) /\ Put(n, m, JSuper, x)
    BY <1>1, <2>1 DEF Val, Marking
  <2>3. Marked(n, m, c, t, 0)
    <3>1. 0 \in {0, First} /\ MayStart(m, 0)
      BY DEF MayStart
    <3> QED BY <2>1, <2>2, <3>1, QuietJSuper
  <2> QED BY <1>1, <2>1, <2>3 DEF Ok, Marked
<1>2. CASE k = "feature"
  <2>1. b = Super /\ Quiet(m, c, t) /\ StartOf(m) = 0 /\ IntentOn(m)
    BY <1>2 DEF To, Ok
  <2>2. x \in Cut(Raised, m[Super]) /\ Put(n, m, Super, x)
    BY <1>2, <2>1, BlockNames DEF Val
  <2>3. /\ Quiet(n, c, t) /\ SeqOf(n) = SeqOf(m) /\ StartOf(n) = StartOf(m)
        /\ HasIntent(n) = HasIntent(m) /\ n[Super] = x
    BY <2>1, <2>2, QuietSuper
  <2> QED BY <1>2, <2>1, <2>3 DEF Ok, IntentOn, RecoverOn
<1>3. ASSUME NEW start \in {0, First}, NEW u, Ready(m, s, c, u), b = JSuper,
             x \in Cut(JMark(s, start), m[JSuper])
      PROVE  Ready(n, s, c, u) /\ StartOf(n) \in {start, StartOf(m)}
  <2>1. Quiet(m, c, u) /\ IntentOn(m) /\ RecoverOn(m) /\ SeqOf(m) = s
    BY <1>3 DEF Ready
  <2>2. x \in Marking(m, start) /\ Put(n, m, JSuper, x) /\ MayStart(m, start)
    BY <1>3, <2>1 DEF MayStart, Marking
  <2>3. Marked(n, m, c, u, start)
    BY <1>3, <2>1, <2>2, QuietJSuper
  <2> QED BY <2>1, <2>3 DEF Ready, Marked
<1>4. CASE k = "reset"
  <2>1. b = JSuper /\ Ready(m, s, c, t)
    BY <1>4 DEF To, Ok
  <2>2. x \in Cut(JMark(s, 0), m[JSuper])
    BY <1>4, <2>1 DEF Val
  <2>3. Ready(n, s, c, t)
    BY <2>1, <2>2, <1>3
  <2> QED BY <1>4, <2>3 DEF Ok
<1>5. CASE k = "mark"
  <2>1. b = JSuper /\ Ready(m, s, c, t - 1)
    BY <1>5 DEF To, Ok
  <2>2. x \in Cut(JMark(s, First), m[JSuper])
    BY <1>5, <2>1 DEF Val
  <2>3. Ready(n, s, c, t - 1)
    BY <2>1, <2>2, <1>3
  <2> QED BY <1>5, <2>3 DEF Ok
<1>6. CASE k = "abort" /\ b = JSuper
  <2>1. b = JSuper /\ Ready(m, s, c, t - 1)
    BY <1>6 DEF To, Ok
  <2>2. x \in Cut(JMark(s, 0), m[JSuper])
    BY <1>6, <2>1 DEF Val
  <2>3. Ready(n, s, c, t - 1)
    BY <2>1, <2>2, <1>3
  <2> QED BY <1>6, <2>3 DEF Ok
<1>7. CASE k \in {"log", "abort"} /\ (b = Log(1) \/ \E i \in 1 .. Len(p) : b = Log(1 + i))
  <2>1. p \in Plans /\ t \in Nat \ {0} /\ Ready(m, s, c, t - 1)
    BY <1>7 DEF Args, NoTx, Ok
  <2>2. PICK i \in LogSlots : b = Log(i) /\ (i = 1 \/ \E j \in 1 .. Len(p) : i = 1 + j /\ i # 1)
    BY <2>1, <1>7, PlanFacts
  <2>3. b # JSuper /\ (b = Log(1) <=> i = 1)
    BY <2>2, BlockFacts, BlockNames
  <2> DEFINE v == IF i = 1 THEN Descriptor(s, p) ELSE Image(t)
  <2>4. x \in Cut(v, m[Log(i)])
    BY <1>7, <2>2, <2>3 DEF Val
  <2>5. Pair(Descriptor(s, p)) /\ Descriptor(s, p)[2].kind # "digest"
    BY DescriptorFacts, SMTT(30)
  <2>6. Pair(v) /\ v[2].kind # "digest" /\ (i = 2 => v = Image(t))
    <3>1. i = 2 => i # 1
      BY SMTT(30)
    <3> QED BY <2>5, <3>1, ImageFacts
  <2> HIDE DEF v
  <2>7. Put(n, m, Log(i), x)
    BY <2>2
  <2>8. /\ Ready(n, s, c, t - 1) /\ StartOf(n) = StartOf(m)
        /\ n[Log(i)] = x /\ \A d \in Blocks : d # Log(i) => n[d] = m[d]
    BY <2>1, <2>4, <2>6, <2>7, ReadyLog, SMTT(30)
  <2> QED BY <1>7, <2>8 DEF Ok
<1>8. CASE k = "commit"
  <2>1. p \in Plans /\ t \in Nat \ {0} /\ c \in Maps(t - 1) /\ InCommit(m, s, p, c, t)
    BY <1>8 DEF Args, NoTx, Ok
  <2>2. b = Log(Len(p) + 2) /\ b # JSuper
    BY <1>8, <2>1, PlanFacts, BlockFacts DEF To
  <2>3. x \in Cut(Seal(s, p, c, t), m[Log(Len(p) + 2)]) /\ Put(n, m, Log(Len(p) + 2), x)
    BY <1>8, <2>2 DEF Val
  <2>4. InCommit(n, s, p, c, t)
    BY <2>1, <2>3, SealWrite
  <2> QED BY <1>8, <2>4 DEF Ok
<1>9. CASE k = "home"
  <2>1. p \in Plans /\ Full(m, s, p, c, t)
    BY <1>9 DEF Args, NoTx, Ok
  <2>2. PICK h \in Named(p) : b = Home(h)
    BY <1>9 DEF To
  <2>3. x \in Cut(Image(t), m[Home(h)]) /\ Put(n, m, Home(h), x)
    BY <1>9, <2>2, BlockNames DEF Val
  <2>4. Full(n, s, p, c, t)
    BY <2>1, <2>3, HomeWrite
  <2> QED BY <1>9, <2>4 DEF Ok
<1>10. CASE k = "clear"
  <2>1. p \in Plans /\ s \in 0 .. Top /\ InClear(m, s, p, c, t) /\ b = JSuper
    BY <1>10 DEF Args, NoTx, Ok, To
  <2>2. x \in Cut(JMark(NextSeq(s), 0), m[JSuper]) /\ Put(n, m, JSuper, x)
    BY <1>10, <2>1 DEF Val
  <2>3. InClear(n, s, p, c, t)
    BY <2>1, <2>2, ClearWrite
  <2> QED BY <1>10, <2>3 DEF Ok
<1>11. k \in Phases
  BY DEF Args
<1> QED BY <1>1, <1>2, <1>4, <1>5, <1>6, <1>7, <1>8, <1>9, <1>10, <1>11
       DEF To, Phases, Before, NoTx


\* A device operation of the program writes a block of its phase.
LEMMA StageWrite ==
    ASSUME NEW k, NEW m, NEW l, NEW s, NEW p, NEW c, NEW t, Stage(k, m, l, s, p, c, t),
           NEW b, To(k, b, p), NEW x \in Cut(Val(k, b, s, p, c, t), l[b]),
           NEW n, Put(n, l, b, x)
    PROVE  Stage(k, m, n, s, p, c, t) /\ n[b] = x /\ \A d \in Blocks : d # b => n[d] = l[d]
<1> DEFINE v == Val(k, b, s, p, c, t)
<1>1. /\ Args(k, s, p, c, t) /\ Ok(k, m, s, p, c, t) /\ Ok(k, l, s, p, c, t)
      /\ Ahead(k, m, l, s, p, c, t)
  BY DEF Stage
<1>2. Device(m) /\ Device(l)
  BY <1>1, OkDevice
<1>3. b \in Blocks /\ Shaped(b, v)
  BY <1>1, ToFacts
<1>4. Shaped(b, m[b])
  BY <1>2, <1>3 DEF Device
<1>5. l[b] \in Cut(v, m[b]) /\ x \in Cut(v, l[b])
  BY <1>1, <1>3 DEF Ahead
<1>6. x \in Cut(v, m[b])
  <2> HIDE DEF v
  <2> QED BY <1>3, <1>4, <1>5, CutAgain
<1>7. n[b] = x /\ \A d \in Blocks : d # b => n[d] = l[d]
  BY <1>2, <1>3, PutFacts, SMTT(30)
<1>8. Ok(k, n, s, p, c, t)
  BY <1>1, Closure
<1>9. Ahead(k, m, n, s, p, c, t)
  <2> SUFFICES ASSUME NEW d \in Blocks
               PROVE  IF To(k, d, p) THEN n[d] \in Cut(Val(k, d, s, p, c, t), m[d]) ELSE n[d] = m[d]
    BY DEF Ahead
  <2>1. CASE d = b
    BY <2>1, <1>6, <1>7
  <2>2. CASE d # b
    BY <2>2, <1>1, <1>7 DEF Ahead
  <2> QED BY <2>1, <2>2
<1> QED BY <1>1, <1>7, <1>8, <1>9 DEF Stage

\* A block reaches the media, or a prefix of it: it is one the phase has written.
LEMMA StagePersist ==
    ASSUME NEW k, NEW m, NEW l, NEW s, NEW p, NEW c, NEW t, Stage(k, m, l, s, p, c, t),
           NEW b \in Blocks, m[b] # l[b], NEW x \in Cut(l[b], m[b]),
           NEW n, Put(n, m, b, x)
    PROVE  Stage(k, n, l, s, p, c, t) /\ To(k, b, p) /\ n[b] = x
           /\ \A d \in Blocks : d # b => n[d] = m[d]
<1> DEFINE v == Val(k, b, s, p, c, t)
<1>1. /\ Args(k, s, p, c, t) /\ Ok(k, m, s, p, c, t) /\ Ok(k, l, s, p, c, t)
      /\ Ahead(k, m, l, s, p, c, t)
  BY DEF Stage
<1>2. Device(m) /\ Device(l)
  BY <1>1, OkDevice
<1>3. To(k, b, p) /\ l[b] \in Cut(v, m[b])
  BY <1>1 DEF Ahead
<1>4. Shaped(b, v) /\ Shaped(b, m[b])
  BY <1>1, <1>2, <1>3, ToFacts DEF Device
<1>5. x \in Cut(v, m[b]) /\ l[b] \in Cut(v, x)
  <2> HIDE DEF v
  <2> QED BY <1>3, <1>4, CutAgain
<1>6. n[b] = x /\ \A d \in Blocks : d # b => n[d] = m[d]
  BY <1>2, PutFacts, SMTT(30)
<1>7. Ok(k, n, s, p, c, t)
  BY <1>1, <1>3, <1>5, Closure
<1>8. Ahead(k, n, l, s, p, c, t)
  <2> SUFFICES ASSUME NEW d \in Blocks
               PROVE  IF To(k, d, p) THEN l[d] \in Cut(Val(k, d, s, p, c, t), n[d]) ELSE l[d] = n[d]
    BY DEF Ahead
  <2>1. CASE d = b
    BY <2>1, <1>3, <1>5, <1>6
  <2>2. CASE d # b
    BY <2>2, <1>1, <1>6 DEF Ahead
  <2> QED BY <2>1, <2>2
<1> QED BY <1>1, <1>3, <1>6, <1>7, <1>8 DEF Stage

\* A flush makes both equal to live, the loss of power both equal to media.
LEMMA StageSame ==
    ASSUME NEW k, NEW m, NEW l, NEW s, NEW p, NEW c, NEW t, Stage(k, m, l, s, p, c, t)
    PROVE  Stage(k, l, l, s, p, c, t) /\ Stage(k, m, m, s, p, c, t)
<1>1. \A n : Ahead(k, n, n, s, p, c, t)
  BY DEF Ahead, Cut
<1> QED BY <1>1 DEF Stage

\* A phase may be left for another wherever nothing is on its way.
LEMMA StageEnter ==
    ASSUME NEW k, NEW m, NEW s, NEW p, NEW c, NEW t, Args(k, s, p, c, t), Ok(k, m, s, p, c, t)
    PROVE  Stage(k, m, m, s, p, c, t)
<1>1. Ahead(k, m, m, s, p, c, t)
  BY DEF Ahead, Cut
<1> QED BY <1>1 DEF Stage

------------------------------------------------------------------------------
\* What recovery would find in each phase.

\* What is true of the transactions up to t is true of those up to t + 1.
LEMMA Later ==
    ASSUME NEW t \in Nat \ {0}
    PROVE  /\ t - 1 \in Nat /\ \A c \in Maps(t - 1) : c \in Maps(t)
           /\ \A c \in Maps(t - 1) : \A p : After(p, c, t) \in Maps(t)
           /\ \A m, c : Quiet(m, c, t - 1) => Quiet(m, c, t)
<1>1. t - 1 \in Nat /\ t \in 0 .. t /\ (\A i \in 0 .. t - 1 : i \in 0 .. t)
      /\ (\A i \in 1 .. t - 1 : i \in 1 .. t)
  BY SMTT(30)
<1>2. \A c \in Maps(t - 1) : c \in Maps(t)
  BY <1>1 DEF Maps
<1>3. \A c \in Maps(t - 1) : \A p : After(p, c, t) \in Maps(t)
  BY <1>1 DEF Maps, After
<1>4. \A m : Digests(m, t - 1) => Digests(m, t)
  BY <1>1 DEF Digests
<1> QED BY <1>1, <1>2, <1>3, <1>4 DEF Quiet

\* While the journal is released, the transaction is there to be replayed once
\* more, or its number is gone and the homes hold it.
LEMMA ClearShape ==
    ASSUME NEW m, NEW s \in 0 .. Top, NEW p \in Plans, NEW c, NEW t, InClear(m, s, p, c, t)
    PROVE  Full(m, s, p, c, t) \/ Quiet(m, After(p, c, t), t)
<1> DEFINE y == m[JSuper]
<1>1. /\ Quad(y) /\ y[1] \in Digits /\ y[2] \in Digits /\ y[4] = TRUE
      /\ \/ y[3] = First
         \/ y[3] = 0 /\ y[1] * Base + y[2] = NextSeq(s)
  BY ClearCuts DEF InClear
<1>2. /\ Logged(m, s, p, c, t) /\ Device(m) /\ Digests(m, t)
      /\ \A h \in Homes : m[Home(h)] = Image(After(p, c, t)[h])
  BY DEF InClear, Logged
<1>3. CASE y[3] = First /\ SeqOf(m) = s
  <2>1. \A h \in Homes \ Named(p) : m[Home(h)] = Image(c[h])
    BY <1>2 DEF After
  <2>2. \A h \in Named(p) : m[Home(h)] \in Cut(Image(t), Image(c[h]))
    <3>1. \A h \in Named(p) : h \in Homes /\ m[Home(h)] = Image(t)
      BY <1>2, PlanFacts DEF After
    <3> QED BY <3>1 DEF Cut
  <2> QED BY <1>2, <1>3, <2>1, <2>2 DEF Full, StartOf
<1>4. CASE SeqOf(m) # s
  <2>1. m[Log(2)] = Image(t)
    <3>1. 1 \in 1 .. Len(p) /\ 1 + 1 = 2
      BY PlanFacts
    <3> QED BY <3>1, <1>2 DEF Logged, Written
  <2>2. Seal(s, p, c, t)[2].of.seq = s
    BY SealFacts, SMTT(30)
  <2>3. \A j \in CommitSlots : HasDigest(m, j) /\ FirstImage(m, j) = m[Log(2)]
                                   => m[Log(j)][2].of.seq # SeqOf(m)
    <3> SUFFICES ASSUME NEW j \in CommitSlots, HasDigest(m, j), FirstImage(m, j) = m[Log(2)]
                 PROVE  m[Log(j)][2].of.seq # SeqOf(m)
      OBVIOUS
    <3>1. m[Log(j)][2] = Seal(s, p, c, t)[2]
      BY <1>2, <2>1 DEF Logged
    <3> QED BY <3>1, <2>2, <1>4
  <2> QED BY <1>2, <2>3 DEF Quiet
<1>5. CASE y[3] = 0 /\ y[1] * Base + y[2] = NextSeq(s)
  BY <1>5, <1>4, NextIsOther DEF SeqOf
<1> QED BY <1>1, <1>3, <1>4, <1>5

\* A device that is ready for a transaction has no commit block of it.
LEMMA ReadyUnsealed ==
    ASSUME NEW m, NEW s, NEW p \in Plans, NEW t \in Nat \ {0}, NEW c, Ready(m, s, c, t - 1)
    PROVE  m[Log(Len(p) + 2)] # Seal(s, p, c, t)
<1> SUFFICES ASSUME m[Log(Len(p) + 2)] = Seal(s, p, c, t) PROVE FALSE
  OBVIOUS
<1>1. /\ Seal(s, p, c, t)[2].kind = "digest" /\ Seal(s, p, c, t)[2].of.images[1] = Image(t)
      /\ Len(p) + 2 \in CommitSlots
  BY SealFacts, PlanFacts, SMTT(30)
<1>2. HasDigest(m, Len(p) + 2) /\ FirstImage(m, Len(p) + 2) = Image(t)
  BY <1>1 DEF HasDigest, FirstImage
<1>3. PICK i \in 1 .. t - 1 : Image(t) = Image(i)
  BY <1>1, <1>2 DEF Ready, Quiet, Digests
<1>4. i # t
  BY SMTT(30)
<1> QED BY <1>3, <1>4, ImageFacts

\* The transaction a phase is about is sealed.
Done(k, m, s, p, c, t) ==
    \/ k \in {"home", "clear"}
    \/ k = "commit" /\ m[Log(Len(p) + 2)] = Seal(s, p, c, t)
Value(k, m, s, p, c, t) == IF Done(k, m, s, p, c, t) THEN After(p, c, t) ELSE c

\* Either there is nothing to replay, or the transaction of the phase is.
LEMMA OkShape ==
    ASSUME NEW k, NEW m, NEW s, NEW p, NEW c, NEW t, Args(k, s, p, c, t), Ok(k, m, s, p, c, t)
    PROVE  /\ Value(k, m, s, p, c, t) \in Maps(t)
           /\ \/ Quiet(m, Value(k, m, s, p, c, t), t)
              \/ /\ Full(m, s, p, c, t) /\ k \in {"commit", "home", "clear"}
                 /\ Value(k, m, s, p, c, t) = After(p, c, t)
<1>1. CASE k \in NoTx
  BY <1>1 DEF NoTx, Args, Ok, Ready, Value, Done
<1>2. CASE k \notin NoTx
  <2>1. p \in Plans /\ t \in Nat \ {0} /\ c \in Maps(t - 1) /\ k \in Phases /\ s \in 0 .. Top
    BY <1>2 DEF Args
  <2>2. /\ c \in Maps(t) /\ After(p, c, t) \in Maps(t)
        /\ Quiet(m, c, t - 1) => Quiet(m, c, t)
    BY <2>1, Later
  <2>3. CASE k \in {"mark", "log", "abort"}
    BY <2>2, <2>3 DEF Ok, Ready, Value, Done
  <2>4. CASE k = "commit"
    <3>1. CASE Full(m, s, p, c, t)
      <4>1. Done(k, m, s, p, c, t)
        BY <2>4, <3>1 DEF Done, Full, Logged
      <4> QED BY <2>2, <2>4, <3>1, <4>1 DEF Value
    <3>2. CASE Ready(m, s, c, t - 1)
      <4>1. Quiet(m, c, t - 1)
        BY <3>2 DEF Ready
      <4>2. ~Done(k, m, s, p, c, t)
        <5>1. m[Log(Len(p) + 2)] # Seal(s, p, c, t)
          BY <2>1, <3>2, ReadyUnsealed
        <5> QED BY <2>4, <5>1 DEF Done
      <4> QED BY <2>2, <4>1, <4>2 DEF Value
    <3> QED BY <2>4, <3>1, <3>2 DEF Ok, InCommit
  <2>5. CASE k = "home"
    BY <2>2, <2>5 DEF Ok, Value, Done
  <2>6. CASE k = "clear"
    <3>1. Full(m, s, p, c, t) \/ Quiet(m, After(p, c, t), t)
      BY <2>1, <2>6, ClearShape DEF Ok
    <3> QED BY <2>2, <2>6, <3>1 DEF Value, Done
  <2> QED BY <1>2, <2>1, <2>3, <2>4, <2>5, <2>6 DEF Phases, Before
<1> QED BY <1>1, <1>2

\* Recovery accepts what it finds, finds the value of the phase, and replays no
\* transaction but the newest.
LEMMA OkFinds ==
    ASSUME NEW k, NEW m, NEW s, NEW p, NEW c, NEW t, Args(k, s, p, c, t), Ok(k, m, s, p, c, t)
    PROVE  /\ RecoveryAccepts(m) /\ Recovered(m) = Value(k, m, s, p, c, t)
           /\ \A i \in DOMAIN Plan(m).post : Plan(m).post[i] = Image(t)
<1> DEFINE d == Value(k, m, s, p, c, t)
<1>1. /\ d \in Maps(t)
      /\ \/ Quiet(m, d, t)
         \/ Full(m, s, p, c, t) /\ k \in {"commit", "home", "clear"} /\ d = After(p, c, t)
  BY OkShape, SMTT(30)
<1>2. t \in Nat
  BY DEF Args
<1> HIDE DEF d
<1>3. CASE Quiet(m, d, t)
  <2>1. /\ RecoveryAccepts(m) /\ Recovered(m) = d
        /\ Plan(m) = [next |-> SeqOf(m), homes |-> << >>, pre |-> << >>, post |-> << >>, n |-> 1]
    BY <1>1, <1>2, <1>3, QuietFinds
  <2>2. Plan(m).post = << >>
    BY <2>1, SMTT(30)
  <2>3. DOMAIN Plan(m).post = {}
    BY <2>2, SMTT(30)
  <2> QED BY <2>1, <2>3 DEF d
<1>4. CASE Full(m, s, p, c, t) /\ k \in {"commit", "home", "clear"} /\ d = After(p, c, t)
  <2>1. p \in Plans /\ t \in Nat \ {0} /\ c \in Maps(t - 1)
    BY <1>4 DEF Args, NoTx
  <2>2. RecoveryAccepts(m) /\ Recovered(m) = After(p, c, t) /\ Plan(m) = JobOf(s, p, c, t)
    BY <1>4, <2>1, FullFinds
  <2>3. Plan(m).post = Posts(p, t)
    BY <2>2, SMTT(30) DEF JobOf
  <2>4. \A i \in DOMAIN Plan(m).post : Plan(m).post[i] = Image(t)
    BY <2>3 DEF Posts
  <2> QED BY <2>2, <2>4, <1>4 DEF d
<1> QED BY <1>1, <1>3, <1>4

------------------------------------------------------------------------------
\* The device operations of the program.

\* A write that is reported to succeed.
LEMMA WroteStage ==
    ASSUME NEW k, NEW s, NEW p, NEW c, NEW t, Stage(k, media, live, s, p, c, t),
           NEW b, To(k, b, p), NEW v, v = Val(k, b, s, p, c, t), Wrote(b, v)
    PROVE  /\ Stage(k, media', live', s, p, c, t) /\ live'[b] = v
           /\ \A d \in Blocks : d # b => live'[d] = live[d]
<1>1. Put(live', live, b, v) /\ media' = media /\ v \in Cut(Val(k, b, s, p, c, t), live[b])
  BY DEF Wrote, Put, Cut
<1>2. Stage(k, media, live', s, p, c, t) /\ live'[b] = v
      /\ \A d \in Blocks : d # b => live'[d] = live[d]
  BY <1>1, StageWrite, SMTT(30)
<1> QED BY <1>1, <1>2

\* A write that fails.
LEMMA ErrorStage ==
    ASSUME NEW k, NEW s, NEW p, NEW c, NEW t, Stage(k, media, live, s, p, c, t),
           NEW b, To(k, b, p), NEW v, v = Val(k, b, s, p, c, t), WriteError(b, v)
    PROVE  Stage(k, media', live', s, p, c, t)
<1>1. PICK x \in Cut(v, live[b]) : Put(live', live, b, x) /\ media' = media
  BY DEF WriteError, Put, Cut
<1>2. Stage(k, media, live', s, p, c, t) /\ live'[b] = x
      /\ \A d \in Blocks : d # b => live'[d] = live[d]
  BY <1>1, StageWrite, SMTT(30)
<1> QED BY <1>1, <1>2

\* A flush, and one that fails.
LEMMA FlushStage ==
    ASSUME NEW k, NEW s, NEW p, NEW c, NEW t, Stage(k, media, live, s, p, c, t)
    PROVE  /\ Flushed => media' = live /\ live' = live /\ Ok(k, live, s, p, c, t)
                         /\ Args(k, s, p, c, t) /\ Stage(k, media', live', s, p, c, t)
           /\ FlushError => Stage(k, media', live', s, p, c, t)
<1>1. ASSUME Flushed
      PROVE  media' = live /\ live' = live /\ Ok(k, live, s, p, c, t)
             /\ Args(k, s, p, c, t) /\ Stage(k, media', live', s, p, c, t)
  <2>1. media' = live /\ live' = live
    BY <1>1 DEF Flushed
  <2>2. Stage(k, live, live, s, p, c, t)
    BY StageSame
  <2> QED BY <2>1, <2>2 DEF Stage
<1>2. ASSUME FlushError PROVE Stage(k, media', live', s, p, c, t)
  <2>1. media' = media /\ live' = live
    BY <1>2 DEF FlushError
  <2> QED BY <2>1 DEF Stage
<1> QED BY <1>1, <1>2

\* The number of device errors stays within its bound.
LEMMA ErrorBound ==
    ASSUME Registers
    PROVE  /\ Error => errors' \in 0 .. MaxErrors
           /\ errors' = errors => errors' \in 0 .. MaxErrors
<1>1. errors \in 0 .. MaxErrors /\ MaxErrors \in Nat
  BY JournalBounds DEF Registers
<1> QED BY <1>1, SMTT(30) DEF Error

------------------------------------------------------------------------------
\* The steps.  First what several of them have in common.

\* The invariant after a step.
LEMMA LocatedBy ==
    ASSUME NEW k, NEW s, NEW p \in Plans \union {<< >>}, NEW c,
           Stage(k, media', live', s, p, c, Len(ledger')),
           PhaseAt(k)', WrittenAt(k, s, p, c)', HeldAt(k, s, p, c)'
    PROVE  Located'
<1>1. Where(k, s, p, c)'
  BY DEF Where
<1>2. Args(k, s, p, c, Len(ledger'))
  BY DEF Stage
<1>3. c \in Maps(Len(ledger'))
  <2>1. CASE k \in NoTx
    BY <1>2, <2>1 DEF Args
  <2>2. CASE k \notin NoTx
    <3>1. Len(ledger') \in Nat \ {0} /\ c \in Maps(Len(ledger') - 1)
      BY <1>2, <2>2 DEF Args
    <3> QED BY <3>1, Later
  <2> QED BY <2>1, <2>2
<1>4. k \in Phases /\ s \in 0 .. Top
  BY <1>2 DEF Args
<1> QED BY <1>1, <1>3, <1>4 DEF Located

\* A step that is no answer to a caller.
LEMMA BooksSame ==
    ASSUME Books, ledger' = ledger, pc \in Running <=> pc' \in Running,
           pc = "poisoned" <=> pc' = "poisoned"
    PROVE  Books'
BY DEF Books

\* A caller is answered, or will never be.
LEMMA SettleBooks ==
    ASSUME Books, Len(ledger) # 0, pc \in Running \union {"poisoned"},
           NEW r \in Results, r # "running", Settle(r),
           pc' \notin Running, r = "unknown" <=> pc' = "poisoned"
    PROVE  /\ Books' /\ Len(ledger') = Len(ledger)
           /\ ledger'[Len(ledger)].homes = ledger[Len(ledger)].homes
<1> DEFINE n == Len(ledger)
           E == [homes : SUBSET Homes, res : Results]
           e == [ledger[n] EXCEPT !.res = r]
<1>0. ledger \in Seq(E) /\ n <= MaxTx /\ n # 0
  BY DEF Books
<1>1. ledger \in Seq(E) /\ n \in Nat /\ n # 0 /\ n <= MaxTx /\ n \in DOMAIN ledger /\ ledger[n] \in E
  <2> HIDE DEF E
  <2> QED BY <1>0, SMTT(30)
<1>2. ledger # << >>
  BY <1>1, SMTT(30)
<1>3. ledger[n].res \in {"running", "unknown"}
  BY <1>1 DEF Books
<1>4. ledger' = [ledger EXCEPT ![n].res = r]
  BY <1>2, <1>3 DEF Settle, Open
<1>5. /\ ledger' \in Seq(E) /\ Len(ledger') = n
      /\ ledger'[n].res = r /\ ledger'[n].homes = ledger[n].homes
  <2>1. e \in E /\ e.res = r /\ e.homes = ledger[n].homes
    <3> HIDE DEF n
    <3> QED BY <1>1, SMTT(30)
  <2>2. ledger' = [ledger EXCEPT ![n] = e]
    BY <1>4
  <2> HIDE DEF n, E, e
  <2>3. ledger' \in Seq(E) /\ Len(ledger') = n /\ ledger'[n] = e
    BY <1>1, <2>1, <2>2, SMTT(30) DEF n
  <2> QED BY <2>1, <2>3
<1> QED BY <1>1, <1>5 DEF Books

\* The phase a point of the writer is in has a transaction.
LEMMA RunningFacts ==
    ASSUME NEW k, NEW s, NEW p, NEW c, Where(k, s, p, c), pc \in Running \union {"poisoned"}
    PROVE  /\ k \notin NoTx /\ k \in Phases /\ p \in Plans /\ s \in 0 .. Top
           /\ Len(ledger) \in Nat \ {0} /\ c \in Maps(Len(ledger) - 1)
           /\ Stage(k, media, live, s, p, c, Len(ledger))
<1>1. Stage(k, media, live, s, p, c, Len(ledger)) /\ Args(k, s, p, c, Len(ledger)) /\ PhaseAt(k)
  BY DEF Where, Stage
<1>2. k \notin NoTx
  BY <1>1 DEF PhaseAt, Running, NoTx
<1> QED BY <1>1, <1>2 DEF Args

\* What memory shows after a transaction that is known to be durable.
LEMMA PublishedIs ==
    ASSUME NEW k, NEW s, NEW p \in Plans, NEW c, HeldAt(k, s, p, c), pc \in Running
    PROVE  Published = After(p, c, Len(ledger)) /\ mem = c
<1>1. mem = c /\ job.homes = p
  BY DEF HeldAt, JobIs
<1>2. DOMAIN p = 1 .. Len(p)
  BY PlanFacts
<1>3. \A h \in Homes : (\E i \in DOMAIN p : p[i] = h) <=> h \in Named(p)
  BY <1>2 DEF Named
<1> QED BY <1>1, <1>3 DEF Published, After

\* JournalTxFailure with poison.
LEMMA Poisoned ==
    ASSUME NEW k, NEW s, NEW p, NEW c, Where(k, s, p, c), Books, Registers, pc \in Running,
           Stage(k, media', live', s, p, c, Len(ledger)), errors' \in 0 .. MaxErrors,
           Goto("poisoned"), Settle("unknown"), UNCHANGED <<jrnl, job, crashes>>,
           \/ mem' = mem
           \/ k \in {"home", "clear"} /\ mem' = Published
    PROVE  IInv'
<1>1. /\ k \notin NoTx /\ k \in Phases /\ p \in Plans /\ s \in 0 .. Top
      /\ Len(ledger) \in Nat \ {0} /\ c \in Maps(Len(ledger) - 1)
      /\ Stage(k, media, live, s, p, c, Len(ledger))
  BY RunningFacts
<1>2. HeldAt(k, s, p, c) /\ Published = After(p, c, Len(ledger)) /\ mem = c
  BY <1>1, PublishedIs DEF Where
<1>3. pc' = "poisoned"
  BY DEF Goto
<1>4. /\ Books' /\ Len(ledger') = Len(ledger)
      /\ ledger'[Len(ledger)].homes = ledger[Len(ledger)].homes
  BY <1>1, <1>3, SettleBooks DEF Results, Running
<1>5. mem' = c \/ (k \in {"home", "clear"} /\ mem' = After(p, c, Len(ledger)))
  BY <1>2
<1>6. mem' \in Maps(Len(ledger))
  <2>1. c \in Maps(Len(ledger)) /\ After(p, c, Len(ledger)) \in Maps(Len(ledger))
    BY <1>1, Later
  <2> QED BY <1>5, <2>1
<1>7. Located'
  <2>1. PhaseAt(k)'
    BY <1>1, <1>3 DEF PhaseAt
  <2>2. WrittenAt(k, s, p, c)'
    BY <1>3 DEF WrittenAt, Settled
  <2>3. HeldAt(k, s, p, c)'
    <3>1. ledger[Len(ledger)].homes = Named(p)
      BY <1>2 DEF HeldAt
    <3> QED BY <1>3, <1>4, <1>5, <3>1 DEF HeldAt, Running
  <2> QED BY <1>1, <1>4, <2>1, <2>2, <2>3, LocatedBy
<1>8. Registers'
  BY <1>3, <1>4, <1>6 DEF Registers, Locations
<1> QED BY <1>4, <1>7, <1>8 DEF IInv

\* A point of the writer.
Writer(k, s, p, c) ==
    /\ Where(k, s, p, c) /\ Stage(k, media, live, s, p, c, Len(ledger))
    /\ PhaseAt(k) /\ WrittenAt(k, s, p, c) /\ HeldAt(k, s, p, c)
    /\ k \in Phases /\ k \notin NoTx /\ s \in 0 .. Top /\ p \in Plans
    /\ Len(ledger) \in Nat \ {0} /\ c \in Maps(Len(ledger) - 1) /\ c \in Maps(Len(ledger))
    /\ Args(k, s, p, c, Len(ledger))
    /\ Ok(k, media, s, p, c, Len(ledger)) /\ Ok(k, live, s, p, c, Len(ledger))
    /\ JobIs(s, p, c) /\ jrnl.seq = s /\ mem = c /\ pc \in Running
    /\ Books /\ Registers

\* Wherever the writer is, it is at such a point.
LEMMA WriterAt ==
    ASSUME IInv, pc \in Running
    PROVE  \E k, s, p, c : Writer(k, s, p, c)
<1>1. PICK k \in Phases, s \in 0 .. Top, p \in Plans \union {<< >>}, c \in Maps(Len(ledger)) :
          Where(k, s, p, c)
  BY DEF IInv, Located
<1>2. /\ k \notin NoTx /\ k \in Phases /\ p \in Plans /\ s \in 0 .. Top
      /\ Len(ledger) \in Nat \ {0} /\ c \in Maps(Len(ledger) - 1)
      /\ Stage(k, media, live, s, p, c, Len(ledger))
  BY <1>1, RunningFacts
<1>3. PhaseAt(k) /\ WrittenAt(k, s, p, c) /\ HeldAt(k, s, p, c)
  BY <1>1 DEF Where
<1>4. JobIs(s, p, c) /\ jrnl.seq = s /\ mem = c
  BY <1>3 DEF HeldAt
<1>5. /\ Args(k, s, p, c, Len(ledger))
      /\ Ok(k, media, s, p, c, Len(ledger)) /\ Ok(k, live, s, p, c, Len(ledger))
  BY <1>2 DEF Stage
<1>6. Books /\ Registers
  BY DEF IInv
<1>7. Writer(k, s, p, c)
  BY <1>1, <1>2, <1>3, <1>4, <1>5, <1>6 DEF Writer
<1> QED BY <1>7

\* A step of the writer that changes the device and the next step only.
LEMMA WriterStays ==
    ASSUME NEW k, NEW s, NEW p, NEW c, Writer(k, s, p, c), Stays,
           NEW j, Stage(j, media', live', s, p, c, Len(ledger)), errors' \in 0 .. MaxErrors,
           pc' \in Running \ {"mark"}, PhaseAt(j)', WrittenAt(j, s, p, c)',
           pc' \in {"markflush", "descriptor", "imageflush", "commit", "commitflush"} => job.n = 1
    PROVE  IInv'
<1>1. /\ HeldAt(k, s, p, c) /\ JobIs(s, p, c) /\ jrnl.seq = s /\ mem = c /\ p \in Plans
      /\ c \in Maps(Len(ledger)) /\ pc \in Running /\ Books /\ Registers
  BY DEF Writer
<1>2. ledger' = ledger /\ job' = job /\ jrnl' = jrnl /\ mem' = mem /\ crashes' = crashes
  BY DEF Stays
<1>3. Books'
  BY <1>1, <1>2, BooksSame DEF Running
<1>4. pc' \in Locations \ {"refused"} /\ pc' # "idle" /\ pc' # "mark" /\ pc' # "poisoned"
      /\ pc' \notin {"reset", "resetflush"} /\ pc' \in Running
  BY DEF Running, Locations
<1>5. Registers'
  BY <1>1, <1>2, <1>4 DEF Registers
<1>6. HeldAt(j, s, p, c)'
  <2>1. ledger[Len(ledger)].homes = Named(p)
    BY <1>1 DEF HeldAt
  <2>2. JobIs(s, p, c)'
    BY <1>1, <1>2 DEF JobIs
  <2> QED BY <1>1, <1>2, <1>4, <2>1, <2>2 DEF HeldAt
<1>7. Located'
  BY <1>1, <1>2, <1>6, LocatedBy
<1> QED BY <1>3, <1>5, <1>7 DEF IInv

\* A failed step after which the state of the transaction is unknown.
LEMMA WriterPoisoned ==
    ASSUME NEW k, NEW s, NEW p, NEW c, Writer(k, s, p, c),
           Stage(k, media', live', s, p, c, Len(ledger)), errors' \in 0 .. MaxErrors,
           Poison(FALSE) \/ (Poison(TRUE) /\ k \in {"home", "clear"})
    PROVE  IInv'
<1>1. Where(k, s, p, c) /\ Books /\ Registers /\ pc \in Running
  BY DEF Writer
<1>2. Goto("poisoned") /\ Settle("unknown") /\ UNCHANGED <<jrnl, job, crashes>>
  BY DEF Poison
<1>3. mem' = mem \/ (k \in {"home", "clear"} /\ mem' = Published)
  BY DEF Poison
<1> QED BY <1>1, <1>2, <1>3, Poisoned

\* write_journal_state keeps the intent flag.
LEMMA JStateIs ==
    ASSUME IntentOn(live)
    PROVE  \A s, start : JState(s, start) = JMark(s, start)
BY DEF IntentOn, HasIntent, JState, JMark, JBlock

\* What a written journal superblock says.
LEMMA Reads ==
    ASSUME NEW m, NEW s \in 0 .. Top, NEW start, m[JSuper] = JMark(s, start)
    PROVE  SeqOf(m) = s /\ StartOf(m) = start /\ IntentOn(m)
<1>1. LET v == JBlock(s, start, TRUE)
      IN /\ Quad(v) /\ v[1] \in Digits /\ v[2] \in Digits /\ v[3] = start /\ v[4] = TRUE
         /\ v[1] * Base + v[2] = s
  BY JBlockFacts
<1> QED BY <1>1 DEF SeqOf, StartOf, IntentOn, HasIntent, JMark

\* Mark: the journal is marked in use.
LEMMA MarkStep ==
    ASSUME IInv, Mark
    PROVE  IInv'
<1>1. pc = "mark"
  BY DEF Mark
<1>2. PICK k, s, p, c : Writer(k, s, p, c)
  BY <1>1, WriterAt DEF Running
<1>3. k = "mark"
  BY <1>1, <1>2 DEF Writer, PhaseAt
<1> DEFINE t == Len(ledger)
<1>4. /\ Stage("mark", media, live, s, p, c, t) /\ Ready(live, s, c, t - 1)
      /\ HeldAt(k, s, p, c) /\ JobIs(s, p, c) /\ jrnl.seq = s /\ mem = c /\ p \in Plans
      /\ c \in Maps(t) /\ s \in 0 .. Top /\ Books /\ Registers
  BY <1>2, <1>3 DEF Writer, Ok
<1>5. /\ To("mark", JSuper, p)
      /\ JState(jrnl.seq, First) = JMark(s, First)
      /\ JMark(s, First) = Val("mark", JSuper, s, p, c, t)
  BY <1>4, JStateIs DEF To, Val, Ready
<1>6. CASE /\ Wrote(JSuper, JState(jrnl.seq, First)) /\ Goto("markflush")
           /\ jrnl' = [jrnl EXCEPT !.start = First]
           /\ UNCHANGED <<job, mem, ledger, crashes>>
  <2>1. /\ Stage("mark", media', live', s, p, c, t) /\ live'[JSuper] = JMark(s, First)
        /\ \A d \in Blocks : d # JSuper => live'[d] = live[d]
    BY <1>4, <1>5, <1>6, WroteStage, SMTT(30)
  <2>2. StartOf(live') = First
    BY <1>4, <2>1, Reads
  <2>3. pc' = "markflush" /\ errors' = errors /\ ledger' = ledger
    BY <1>6 DEF Goto, Wrote
  <2>4. jrnl' \in [seq : 0 .. Top, start : {0, First}] /\ jrnl'.seq = jrnl.seq
    <3>1. jrnl \in [seq : 0 .. Top, start : {0, First}]
      BY <1>4 DEF Registers
    <3> QED BY <1>6, <3>1, SMTT(30)
  <2>5. Books'
    BY <1>1, <1>4, <2>3, BooksSame DEF Running
  <2>6. Registers'
    BY <1>4, <1>6, <2>3, <2>4 DEF Registers, Locations
  <2>7. PhaseAt("mark")' /\ WrittenAt("mark", s, p, c)'
    BY <2>2, <2>3 DEF PhaseAt, WrittenAt, Settled
  <2>8. HeldAt("mark", s, p, c)'
    <3>1. ledger[Len(ledger)].homes = Named(p) /\ job.n = 1
      BY <1>1, <1>4 DEF HeldAt, Running
    <3>2. JobIs(s, p, c)'
      BY <1>4, <1>6 DEF JobIs
    <3> QED BY <1>4, <1>6, <2>3, <2>4, <3>1, <3>2 DEF HeldAt, Running
  <2>9. Located'
    BY <1>4, <2>1, <2>3, <2>7, <2>8, LocatedBy
  <2> QED BY <2>5, <2>6, <2>9 DEF IInv
<1>7. CASE WriteError(JSuper, JState(jrnl.seq, First)) /\ Poison(FALSE)
  <2>1. Stage(k, media', live', s, p, c, t)
    BY <1>3, <1>4, <1>5, <1>7, ErrorStage, SMTT(30)
  <2>2. errors' \in 0 .. MaxErrors
    BY <1>4, <1>7, ErrorBound DEF WriteError
  <2> QED BY <1>2, <1>7, <2>1, <2>2, WriterPoisoned
<1> QED BY <1>6, <1>7 DEF Mark

\* MarkFlush: the mark is durable before anything is written to the log.
LEMMA MarkFlushStep ==
    ASSUME IInv, MarkFlush
    PROVE  IInv'
<1>1. pc = "markflush"
  BY DEF MarkFlush
<1>2. PICK k, s, p, c : Writer(k, s, p, c)
  BY <1>1, WriterAt DEF Running
<1>3. k = "mark"
  BY <1>1, <1>2 DEF Writer, PhaseAt
<1> DEFINE t == Len(ledger)
<1>4. /\ Stage("mark", media, live, s, p, c, t) /\ Ready(live, s, c, t - 1)
      /\ StartOf(live) = First /\ job.n = 1 /\ Args("mark", s, p, c, t) /\ Registers
  BY <1>1, <1>2, <1>3 DEF Writer, Ok, WrittenAt, HeldAt
<1>5. CASE Flushed /\ Goto("descriptor") /\ Stays
  <2>1. media' = live /\ live' = live /\ pc' = "descriptor" /\ errors' = errors
    BY <1>5 DEF Flushed, Goto
  <2>2. Args("log", s, p, c, t) /\ Ok("log", live, s, p, c, t)
    BY <1>4 DEF Args, Ok, Phases, Before, NoTx
  <2>3. Stage("log", media', live', s, p, c, t)
    BY <2>1, <2>2, StageEnter
  <2>4. PhaseAt("log")' /\ WrittenAt("log", s, p, c)'
    BY <2>1 DEF PhaseAt, WrittenAt, Settled
  <2>5. errors' \in 0 .. MaxErrors /\ pc' \in Running \ {"mark"}
    BY <1>4, <2>1, ErrorBound DEF Running
  <2> QED BY <1>2, <1>4, <1>5, <2>3, <2>4, <2>5, WriterStays
<1>6. CASE FlushError /\ Poison(FALSE)
  <2>1. Stage(k, media', live', s, p, c, t)
    BY <1>3, <1>4, <1>6, FlushStage
  <2>2. errors' \in 0 .. MaxErrors
    BY <1>4, <1>6, ErrorBound DEF FlushError
  <2> QED BY <1>2, <1>6, <2>1, <2>2, WriterPoisoned
<1> QED BY <1>5, <1>6 DEF MarkFlush

\* What is on its way to the log may arrive during an abort.
LEMMA StageAbort ==
    ASSUME NEW m, NEW l, NEW s, NEW p, NEW c, NEW t, Stage("log", m, l, s, p, c, t)
    PROVE  Stage("abort", m, l, s, p, c, t)
<1>1. Args("abort", s, p, c, t) /\ Ok("abort", m, s, p, c, t) /\ Ok("abort", l, s, p, c, t)
  BY DEF Stage, Args, Ok, Phases, Before, NoTx
<1>2. Ahead("abort", m, l, s, p, c, t)
  <2> SUFFICES ASSUME NEW b \in Blocks
               PROVE  IF To("abort", b, p) THEN l[b] \in Cut(Val("abort", b, s, p, c, t), m[b])
                      ELSE l[b] = m[b]
    BY DEF Ahead
  <2>1. IF To("log", b, p) THEN l[b] \in Cut(Val("log", b, s, p, c, t), m[b]) ELSE l[b] = m[b]
    BY DEF Stage, Ahead
  <2>2. To("log", b, p) => To("abort", b, p)
    BY DEF To
  <2>3. Val("abort", b, s, p, c, t) = Val("log", b, s, p, c, t)
    BY DEF Val
  <2>4. l[b] = m[b] => l[b] \in Cut(Val("abort", b, s, p, c, t), m[b])
    BY DEF Cut
  <2> QED BY <2>1, <2>2, <2>3, <2>4
<1> QED BY <1>1, <1>2 DEF Stage

\* A failed write or flush of the log leads to abort_uncommitted_journal.
LEMMA WriterAborts ==
    ASSUME NEW s, NEW p, NEW c, Writer("log", s, p, c), Stays, Goto("abort"),
           Stage("log", media', live', s, p, c, Len(ledger)), errors' \in 0 .. MaxErrors
    PROVE  IInv'
<1>1. pc' = "abort"
  BY DEF Goto
<1>2. Stage("abort", media', live', s, p, c, Len(ledger))
  BY StageAbort
<1>3. PhaseAt("abort")' /\ WrittenAt("abort", s, p, c)'
  BY <1>1 DEF PhaseAt, WrittenAt, Settled
<1>4. pc' \in Running \ {"mark"}
      /\ pc' \notin {"markflush", "descriptor", "imageflush", "commit", "commitflush"}
  BY <1>1 DEF Running
<1> QED BY <1>2, <1>3, <1>4, WriterStays

\* WriteDescriptor
LEMMA DescriptorStep ==
    ASSUME IInv, WriteDescriptor
    PROVE  IInv'
<1>1. pc = "descriptor"
  BY DEF WriteDescriptor
<1>2. PICK k, s, p, c : Writer(k, s, p, c)
  BY <1>1, WriterAt DEF Running
<1>3. k = "log"
  BY <1>1, <1>2 DEF Writer, PhaseAt
<1> DEFINE t == Len(ledger)
           v == Descriptor(jrnl.seq, job.homes)
<1>4. /\ Stage("log", media, live, s, p, c, t) /\ job.n = 1 /\ Registers /\ p \in Plans
      /\ jrnl.seq = s /\ job.homes = p
  BY <1>1, <1>2, <1>3 DEF Writer, HeldAt, JobIs
<1>5. 1 \in LogSlots /\ 1 \in 1 .. Len(p) /\ \A i \in 1 .. 1 - 1 : FALSE
  <2>1. \A i \in 1 .. 1 - 1 : FALSE
    BY SMTT(30)
  <2> QED BY <1>4, <2>1, PlanFacts
<1>6. To("log", Log(First), p) /\ v = Val("log", Log(First), s, p, c, t)
  BY <1>4, <1>5, BlockFacts DEF To, Val, First
<1> HIDE DEF v
<1>7. CASE Wrote(Log(First), v) /\ Goto("image") /\ Stays
  <2>1. /\ Stage("log", media', live', s, p, c, t) /\ live'[Log(First)] = v
        /\ \A d \in Blocks : d # Log(First) => live'[d] = live[d]
    BY <1>4, <1>6, <1>7, WroteStage, SMTT(30)
  <2>2. pc' = "image" /\ errors' = errors /\ job' = job
    BY <1>7 DEF Goto, Wrote, Stays
  <2>3. live'[Log(1)] = Descriptor(s, p)
    BY <1>4, <2>1 DEF First, v
  <2>4. job'.n = 1
    BY <1>4, <2>2
  <2>5. PhaseAt("log")' /\ WrittenAt("log", s, p, c)'
    BY <1>5, <2>2, <2>3, <2>4 DEF PhaseAt, WrittenAt, Settled
  <2>6. errors' \in 0 .. MaxErrors /\ pc' \in Running \ {"mark"}
    BY <1>4, <2>2, ErrorBound DEF Running
  <2> QED BY <1>2, <1>4, <1>7, <2>1, <2>5, <2>6, WriterStays
<1>8. CASE WriteError(Log(First), v) /\ Goto("abort") /\ Stays
  <2>1. Stage("log", media', live', s, p, c, t)
    BY <1>4, <1>6, <1>8, ErrorStage
  <2>2. errors' \in 0 .. MaxErrors
    BY <1>4, <1>8, ErrorBound DEF WriteError
  <2> QED BY <1>2, <1>3, <1>8, <2>1, <2>2, WriterAborts
<1> QED BY <1>7, <1>8 DEF WriteDescriptor, v

\* The loops over the homes of a transaction.
LEMMA LoopFacts ==
    ASSUME NEW a, NEW z, Loop(a, z), IsJob(job), NEW p \in Plans, job.homes = p, job.n \in 1 .. Len(p)
    PROVE  /\ IsJob(job') /\ job'.homes = p /\ job'.pre = job.pre /\ job'.post = job.post
           /\ job'.next = job.next /\ job'.n \in 1 .. Len(p)
           /\ \/ pc' = a /\ job'.n - 1 = job.n
              \/ pc' = z /\ job'.n = 1 /\ job.n = Len(p)
           /\ ledger' = ledger /\ jrnl' = jrnl /\ mem' = mem /\ crashes' = crashes
<1>1. Len(p) \in 1 .. MaxHomes /\ Len(p) \in Nat /\ MaxHomes \in Nat
  BY PlanFacts, PlanAssumption
<1>2. job = [next |-> job.next, homes |-> job.homes, pre |-> job.pre, post |-> job.post, n |-> job.n]
  BY DEF IsJob
<1>3. job' = [job EXCEPT !.n = IF @ < Len(job.homes) THEN @ + 1 ELSE 1]
  BY DEF Loop
<1>4. PICK r : r = IF job.n < Len(p) THEN job.n + 1 ELSE 1
  OBVIOUS
<1>5. job' = [next |-> job.next, homes |-> job.homes, pre |-> job.pre, post |-> job.post, n |-> r]
  BY <1>2, <1>3, <1>4, SMTT(30)
<1>6. /\ job'.homes = p /\ job'.pre = job.pre /\ job'.post = job.post
      /\ job'.next = job.next /\ job'.n = r
  BY <1>5, SMTT(30)
<1>7. r \in 1 .. Len(p) /\ r \in 1 .. MaxHomes
  BY <1>1, <1>4, SMTT(30)
<1>8. IsJob(job')
  BY <1>5, <1>6, <1>7 DEF IsJob
<1>9. \/ pc' = a /\ r - 1 = job.n
      \/ pc' = z /\ r = 1 /\ job.n = Len(p)
  <2>1. CASE job.n < Len(p)
    <3>1. pc' = a
      BY <2>1 DEF Loop, Goto
    <3>2. r - 1 = job.n
      BY <2>1, <1>1, <1>4, SMTT(30)
    <3> QED BY <3>1, <3>2
  <2>2. CASE ~(job.n < Len(p))
    <3>1. pc' = z
      BY <2>2 DEF Loop, Goto
    <3>2. r = 1 /\ job.n = Len(p)
      BY <2>2, <1>1, <1>4, SMTT(30)
    <3> QED BY <3>1, <3>2
  <2> QED BY <2>1, <2>2
<1> QED BY <1>6, <1>7, <1>8, <1>9 DEF Loop

\* A step of the writer's loops.
LEMMA WriterLoops ==
    ASSUME NEW k, NEW s, NEW p, NEW c, Writer(k, s, p, c), NEW a, NEW z, Loop(a, z),
           job.n \in 1 .. Len(p), a \in {"image", "home"}, z \in {"imageflush", "homeflush"},
           Stage(k, media', live', s, p, c, Len(ledger)), errors' \in 0 .. MaxErrors,
           PhaseAt(k)', WrittenAt(k, s, p, c)'
    PROVE  IInv'
<1>1. /\ HeldAt(k, s, p, c) /\ JobIs(s, p, c) /\ jrnl.seq = s /\ mem = c /\ p \in Plans
      /\ c \in Maps(Len(ledger)) /\ pc \in Running /\ Books /\ Registers
  BY DEF Writer
<1>2. IsJob(job) /\ job.homes = p
  BY <1>1 DEF Registers, JobIs
<1>3. /\ IsJob(job') /\ job'.homes = p /\ job'.pre = job.pre /\ job'.post = job.post
      /\ job'.next = job.next /\ job'.n \in 1 .. Len(p)
      /\ \/ pc' = a /\ job'.n - 1 = job.n
         \/ pc' = z /\ job'.n = 1 /\ job.n = Len(p)
      /\ ledger' = ledger /\ jrnl' = jrnl /\ mem' = mem /\ crashes' = crashes
  BY <1>1, <1>2, LoopFacts, SMTT(30)
<1>4. /\ pc' \in {"image", "home", "imageflush", "homeflush"}
      /\ pc' = "imageflush" => job'.n = 1
  BY <1>3
<1>5. Books'
  BY <1>1, <1>3, <1>4, BooksSame DEF Running
<1>6. Registers'
  BY <1>1, <1>3, <1>4 DEF Registers, Locations
<1>7. HeldAt(k, s, p, c)'
  <2>1. ledger[Len(ledger)].homes = Named(p)
    BY <1>1 DEF HeldAt
  <2>2. JobIs(s, p, c)'
    BY <1>1, <1>3 DEF JobIs
  <2> QED BY <1>1, <1>3, <1>4, <2>1, <2>2 DEF HeldAt
<1>8. Located'
  BY <1>1, <1>3, <1>7, LocatedBy
<1> QED BY <1>5, <1>6, <1>8 DEF IInv

\* WriteImage
LEMMA ImageStep ==
    ASSUME IInv, WriteImage
    PROVE  IInv'
<1>1. pc = "image"
  BY DEF WriteImage
<1>2. PICK k, s, p, c : Writer(k, s, p, c)
  BY <1>1, WriterAt DEF Running
<1>3. k = "log"
  BY <1>1, <1>2 DEF Writer, PhaseAt
<1> DEFINE t == Len(ledger)
           n == job.n
           b == Log(First + job.n)
           v == job.post[job.n]
<1>4. /\ Stage("log", media, live, s, p, c, t) /\ Registers /\ p \in Plans
      /\ job.homes = p /\ job.post = Posts(p, t) /\ n \in 1 .. Len(p)
      /\ live[Log(1)] = Descriptor(s, p) /\ \A i \in 1 .. n - 1 : live[Log(1 + i)] = Image(t)
  BY <1>1, <1>2, <1>3 DEF Writer, HeldAt, JobIs, WrittenAt
<1>5. /\ 1 \in LogSlots /\ \A i \in 1 .. Len(p) : 1 + i \in LogSlots /\ 1 + i # 1
      /\ Len(p) \in Nat
  BY <1>4, PlanFacts
<1>6. b = Log(1 + n) /\ v = Image(t)
  BY <1>4 DEF First, Posts
<1>7. b # JSuper /\ b # Log(1) /\ b \in Blocks
  BY <1>4, <1>5, <1>6, BlockFacts, BlockNames
<1>8. To("log", b, p) /\ v = Val("log", b, s, p, c, t)
  <2>1. Val("log", b, s, p, c, t) = Image(t)
    BY <1>7 DEF Val
  <2>2. To("log", b, p)
    BY <1>4, <1>6 DEF To
  <2> QED BY <1>6, <2>1, <2>2
<1>9. CASE Wrote(b, v) /\ Loop("image", "imageflush")
  <2>1. /\ Stage("log", media', live', s, p, c, t) /\ live'[b] = v
        /\ \A d \in Blocks : d # b => live'[d] = live[d]
    <3> HIDE DEF b, v
    <3> QED BY <1>4, <1>8, <1>9, WroteStage, SMTT(30)
  <2>2. live'[Log(1)] = Descriptor(s, p)
    BY <1>4, <1>5, <1>7, <2>1, BlockFacts
  <2>3. \A i \in 1 .. n : live'[Log(1 + i)] = Image(t)
    <3> SUFFICES ASSUME NEW i \in 1 .. n PROVE live'[Log(1 + i)] = Image(t)
      OBVIOUS
    <3>1. i \in 1 .. Len(p) /\ (i = n \/ (i \in 1 .. n - 1 /\ 1 + i # 1 + n))
      BY <1>4, <1>5, SMTT(30)
    <3>2. CASE i = n
      BY <3>2, <1>6, <2>1
    <3>3. CASE i \in 1 .. n - 1 /\ 1 + i # 1 + n
      <4>1. Log(1 + i) # b /\ Log(1 + i) \in Blocks
        BY <1>5, <1>6, <3>1, <3>3, BlockFacts, BlockNames
      <4> QED BY <1>4, <2>1, <3>3, <4>1
    <3> QED BY <3>1, <3>2, <3>3
  <2>4. /\ IsJob(job') /\ job'.homes = p /\ job'.pre = job.pre /\ job'.post = job.post
        /\ job'.next = job.next /\ job'.n \in 1 .. Len(p)
        /\ \/ pc' = "image" /\ job'.n - 1 = job.n
           \/ pc' = "imageflush" /\ job'.n = 1 /\ job.n = Len(p)
        /\ ledger' = ledger /\ jrnl' = jrnl /\ mem' = mem /\ crashes' = crashes
    BY <1>4, <1>9, LoopFacts, SMTT(30) DEF Registers
  <2>5. PhaseAt("log")'
    BY <2>4 DEF PhaseAt
  <2>6. WrittenAt("log", s, p, c)'
    <3>1. CASE pc' = "image" /\ job'.n - 1 = job.n
      BY <3>1, <2>2, <2>3, <2>4 DEF WrittenAt, Settled
    <3>2. CASE pc' = "imageflush" /\ job.n = Len(p)
      BY <3>2, <2>2, <2>3, <2>4 DEF WrittenAt, Settled, Written
    <3> QED BY <2>4, <3>1, <3>2
  <2>7. errors' \in 0 .. MaxErrors
    BY <1>4, <1>9, ErrorBound DEF Wrote
  <2>8. "image" \in {"image", "home"} /\ "imageflush" \in {"imageflush", "homeflush"}
    OBVIOUS
  <2> QED BY <1>2, <1>3, <1>4, <1>9, <2>1, <2>5, <2>6, <2>7, <2>8, WriterLoops
<1>10. CASE WriteError(b, v) /\ Goto("abort") /\ Stays
  <2>1. Stage("log", media', live', s, p, c, t)
    <3> HIDE DEF b, v
    <3> QED BY <1>4, <1>8, <1>10, ErrorStage
  <2>2. errors' \in 0 .. MaxErrors
    BY <1>4, <1>10, ErrorBound DEF WriteError
  <2> QED BY <1>2, <1>3, <1>10, <2>1, <2>2, WriterAborts
<1> QED BY <1>9, <1>10 DEF WriteImage

\* ImageFlush: descriptor and images are durable before the commit block is written.
LEMMA ImageFlushStep ==
    ASSUME IInv, ImageFlush
    PROVE  IInv'
<1>1. pc = "imageflush"
  BY DEF ImageFlush
<1>2. PICK k, s, p, c : Writer(k, s, p, c)
  BY <1>1, WriterAt DEF Running
<1>3. k = "log"
  BY <1>1, <1>2 DEF Writer, PhaseAt
<1> DEFINE t == Len(ledger)
<1>4. /\ Stage("log", media, live, s, p, c, t) /\ Ready(live, s, c, t - 1)
      /\ StartOf(live) = First /\ job.n = 1 /\ Args("log", s, p, c, t) /\ Registers
      /\ Written(live, s, p, t)
  BY <1>1, <1>2, <1>3 DEF Writer, Ok, WrittenAt, HeldAt
<1>5. CASE Flushed /\ Goto("commit") /\ Stays
  <2>1. media' = live /\ live' = live /\ pc' = "commit" /\ errors' = errors
    BY <1>5 DEF Flushed, Goto
  <2>2. Args("commit", s, p, c, t) /\ Ok("commit", live, s, p, c, t)
    BY <1>4 DEF Args, Ok, Phases, Before, NoTx, InCommit
  <2>3. Stage("commit", media', live', s, p, c, t)
    BY <2>1, <2>2, StageEnter
  <2>4. PhaseAt("commit")' /\ WrittenAt("commit", s, p, c)'
    BY <2>1 DEF PhaseAt, WrittenAt, Settled
  <2>5. errors' \in 0 .. MaxErrors /\ pc' \in Running \ {"mark"}
    BY <1>4, <2>1, ErrorBound DEF Running
  <2> QED BY <1>2, <1>4, <1>5, <2>3, <2>4, <2>5, WriterStays
<1>6. CASE FlushError /\ Goto("abort") /\ Stays
  <2>1. Stage("log", media', live', s, p, c, t)
    BY <1>4, <1>6, FlushStage
  <2>2. errors' \in 0 .. MaxErrors
    BY <1>4, <1>6, ErrorBound DEF FlushError
  <2> QED BY <1>2, <1>3, <1>6, <2>1, <2>2, WriterAborts
<1> QED BY <1>5, <1>6 DEF ImageFlush

\* WriteCommit
LEMMA CommitStep ==
    ASSUME IInv, WriteCommit
    PROVE  IInv'
<1>1. pc = "commit"
  BY DEF WriteCommit
<1>2. PICK k, s, p, c : Writer(k, s, p, c)
  BY <1>1, WriterAt DEF Running
<1>3. k = "commit"
  BY <1>1, <1>2 DEF Writer, PhaseAt
<1> DEFINE t == Len(ledger)
           b == Log(First + Len(job.homes) + 1)
<1>4. /\ Stage("commit", media, live, s, p, c, t) /\ job.n = 1 /\ Registers /\ p \in Plans
      /\ jrnl.seq = s /\ job.homes = p /\ job.pre = Pres(p, c) /\ job.post = Posts(p, t)
  BY <1>1, <1>2, <1>3 DEF Writer, HeldAt, JobIs
<1>5. Sealing = Seal(s, p, c, t)
  BY <1>4 DEF Sealing, Seal, Intent, DigestOf
<1>6. b = Log(Len(p) + 2)
  <2>1. Len(p) \in Nat
    BY <1>4, PlanFacts
  <2>2. First + Len(p) + 1 = Len(p) + 2
    BY <2>1, SMTT(30) DEF First
  <2> QED BY <1>4, <2>2
<1>7. b # JSuper
  BY <1>4, <1>6, PlanFacts, BlockFacts
<1>8. To("commit", b, p) /\ Sealing = Val("commit", b, s, p, c, t)
  <2>1. Val("commit", b, s, p, c, t) = Seal(s, p, c, t)
    BY <1>7 DEF Val
  <2>2. To("commit", b, p)
    BY <1>6 DEF To
  <2> QED BY <1>5, <2>1, <2>2
<1>9. CASE Wrote(b, Sealing) /\ Goto("commitflush") /\ Stays
  <2>1. /\ Stage("commit", media', live', s, p, c, t) /\ live'[b] = Sealing
        /\ \A d \in Blocks : d # b => live'[d] = live[d]
    <3> HIDE DEF b
    <3> QED BY <1>4, <1>8, <1>9, WroteStage, SMTT(30)
  <2>2. pc' = "commitflush" /\ errors' = errors /\ ledger' = ledger
    BY <1>9 DEF Goto, Wrote, Stays
  <2>3. live'[Log(Len(p) + 2)] = Seal(s, p, c, t)
    BY <1>5, <1>6, <2>1
  <2>4. PhaseAt("commit")' /\ WrittenAt("commit", s, p, c)'
    BY <2>2, <2>3 DEF PhaseAt, WrittenAt, Settled
  <2>5. errors' \in 0 .. MaxErrors /\ pc' \in Running \ {"mark"}
    BY <1>4, <2>2, ErrorBound DEF Running
  <2> QED BY <1>2, <1>4, <1>9, <2>1, <2>4, <2>5, WriterStays
<1>10. CASE WriteError(b, Sealing) /\ Poison(FALSE)
  <2>1. Stage(k, media', live', s, p, c, t)
    <3> HIDE DEF b
    <3> QED BY <1>3, <1>4, <1>8, <1>10, ErrorStage
  <2>2. errors' \in 0 .. MaxErrors
    BY <1>4, <1>10, ErrorBound DEF WriteError
  <2> QED BY <1>2, <1>10, <2>1, <2>2, WriterPoisoned
<1> QED BY <1>9, <1>10 DEF WriteCommit

\* There is nothing before the first step of a loop.
LEMMA NoneBefore == \A i \in 1 .. 1 - 1 : FALSE
BY SMTT(30)

\* CommitFlush: the transaction is durable before the first home is written.
LEMMA CommitFlushStep ==
    ASSUME IInv, CommitFlush
    PROVE  IInv'
<1>1. pc = "commitflush"
  BY DEF CommitFlush
<1>2. PICK k, s, p, c : Writer(k, s, p, c)
  BY <1>1, WriterAt DEF Running
<1>3. k = "commit"
  BY <1>1, <1>2 DEF Writer, PhaseAt
<1> DEFINE t == Len(ledger)
<1>4. /\ Stage("commit", media, live, s, p, c, t) /\ InCommit(live, s, p, c, t)
      /\ live[Log(Len(p) + 2)] = Seal(s, p, c, t) /\ job.n = 1 /\ Args("commit", s, p, c, t)
      /\ Registers /\ p \in Plans /\ t \in Nat \ {0}
  BY <1>1, <1>2, <1>3 DEF Writer, Ok, WrittenAt, HeldAt
<1>5. CASE Flushed /\ Goto("home") /\ Stays
  <2>1. media' = live /\ live' = live /\ pc' = "home" /\ errors' = errors /\ job' = job
    BY <1>5 DEF Flushed, Goto, Stays
  <2>2. Full(live, s, p, c, t)
    BY <1>4, ReadyUnsealed DEF InCommit
  <2>3. Args("home", s, p, c, t) /\ Ok("home", live, s, p, c, t)
    BY <1>4, <2>2 DEF Args, Ok, Phases, Before, NoTx
  <2>4. Stage("home", media', live', s, p, c, t)
    BY <2>1, <2>3, StageEnter
  <2>5. job'.n = 1 /\ job'.n \in 1 .. Len(p)
    BY <1>4, <2>1, PlanFacts
  <2>6. PhaseAt("home")' /\ WrittenAt("home", s, p, c)'
    BY <2>1, <2>5, NoneBefore DEF PhaseAt, WrittenAt, Settled
  <2>7. errors' \in 0 .. MaxErrors /\ pc' \in Running \ {"mark"}
    BY <1>4, <2>1, ErrorBound DEF Running
  <2> QED BY <1>2, <1>4, <1>5, <2>4, <2>6, <2>7, WriterStays
<1>6. CASE FlushError /\ Poison(FALSE)
  <2>1. Stage(k, media', live', s, p, c, t)
    BY <1>3, <1>4, <1>6, FlushStage
  <2>2. errors' \in 0 .. MaxErrors
    BY <1>4, <1>6, ErrorBound DEF FlushError
  <2> QED BY <1>2, <1>6, <2>1, <2>2, WriterPoisoned
<1> QED BY <1>5, <1>6 DEF CommitFlush

\* The homes written so far, in the checkpoint and in the replay.
LEMMA HomesSoFar ==
    ASSUME NEW p \in Plans, NEW t, NEW n \in 1 .. Len(p),
           \A i \in 1 .. n - 1 : live[Home(p[i])] = Image(t),
           live'[Home(p[n])] = Image(t), \A d \in Blocks : d # Home(p[n]) => live'[d] = live[d]
    PROVE  /\ \A i \in 1 .. n : live'[Home(p[i])] = Image(t)
           /\ n = Len(p) => \A h \in Named(p) : live'[Home(h)] = Image(t)
<1>1. /\ Len(p) \in Nat /\ \A i \in 1 .. Len(p) : p[i] \in Homes
      /\ \A i, j \in 1 .. Len(p) : p[i] = p[j] => i = j
  BY PlanFacts
<1>2. \A i \in 1 .. n : live'[Home(p[i])] = Image(t)
  <2> SUFFICES ASSUME NEW i \in 1 .. n PROVE live'[Home(p[i])] = Image(t)
    OBVIOUS
  <2>1. i \in 1 .. Len(p) /\ (i = n \/ (i \in 1 .. n - 1 /\ i # n))
    BY <1>1, SMTT(30)
  <2>2. CASE i = n
    BY <2>2
  <2>3. CASE i \in 1 .. n - 1 /\ i # n
    <3>1. Home(p[i]) # Home(p[n]) /\ Home(p[i]) \in Blocks
      BY <1>1, <2>1, <2>3, BlockFacts, BlockNames
    <3> QED BY <2>3, <3>1
  <2> QED BY <2>1, <2>2, <2>3
<1> QED BY <1>2 DEF Named

\* What the checkpoint and the replay write.
LEMMA HomeTarget ==
    ASSUME NEW p \in Plans, NEW n \in 1 .. Len(p), NEW b, b = Home(p[n])
    PROVE  /\ To("home", b, p)
           /\ \A t : Posts(p, t)[n] = Image(t)
<1>1. p[n] \in Named(p)
  BY DEF Named
<1>2. To("home", b, p)
  BY <1>1 DEF To
<1>3. \A t : Posts(p, t)[n] = Image(t)
  BY DEF Posts
<1> QED BY <1>2, <1>3

\* WriteHome: the checkpoint.
LEMMA HomeStep ==
    ASSUME IInv, WriteHome
    PROVE  IInv'
<1>1. pc = "home"
  BY DEF WriteHome
<1>2. PICK k, s, p, c : Writer(k, s, p, c)
  BY <1>1, WriterAt DEF Running
<1>3. k = "home"
  BY <1>1, <1>2 DEF Writer, PhaseAt
<1> DEFINE t == Len(ledger)
           b == Home(job.homes[job.n])
           v == job.post[job.n]
<1>4. /\ Stage("home", media, live, s, p, c, t) /\ Registers /\ p \in Plans
      /\ job.homes = p /\ job.post = Posts(p, t) /\ job.n \in 1 .. Len(p)
      /\ \A i \in 1 .. job.n - 1 : live[Home(p[i])] = Image(t)
  BY <1>1, <1>2, <1>3 DEF Writer, HeldAt, JobIs, WrittenAt
<1>5. b = Home(p[job.n])
  BY <1>4
<1>6. To("home", b, p) /\ v = Val("home", b, s, p, c, t) /\ v = Image(t)
  <2>1. v = Posts(p, t)[job.n]
    BY <1>4
  <2> HIDE DEF b, v, t
  <2>0. PICK n : n = job.n /\ n \in 1 .. Len(p) /\ p \in Plans /\ b = Home(p[n])
    BY <1>4, <1>5
  <2>2. /\ To("home", b, p)
        /\ \A i : Posts(p, i)[n] = Image(i)
        /\ Val("home", b, s, p, c, t) = Image(t)
    <3>1. To("home", b, p) /\ \A i : Posts(p, i)[n] = Image(i)
      BY <2>0, HomeTarget
    <3> QED BY <2>0, <3>1, BlockNames DEF Val
  <2> QED BY <2>0, <2>1, <2>2
<1> HIDE DEF b, v
<1>7. CASE Wrote(b, v) /\ Loop("home", "homeflush")
  <2>1. /\ Stage("home", media', live', s, p, c, t) /\ live'[b] = v
        /\ \A d \in Blocks : d # b => live'[d] = live[d]
    BY <1>4, <1>6, <1>7, WroteStage, SMTT(30)
  <2>2. live'[Home(p[job.n])] = Image(t) /\ \A d \in Blocks : d # Home(p[job.n]) => live'[d] = live[d]
    BY <1>5, <1>6, <2>1
  <2>3. /\ \A i \in 1 .. job.n : live'[Home(p[i])] = Image(t)
        /\ job.n = Len(p) => \A h \in Named(p) : live'[Home(h)] = Image(t)
    BY <1>4, <2>2, HomesSoFar
  <2>4. /\ IsJob(job') /\ job'.homes = p /\ job'.pre = job.pre /\ job'.post = job.post
        /\ job'.next = job.next /\ job'.n \in 1 .. Len(p)
        /\ \/ pc' = "home" /\ job'.n - 1 = job.n
           \/ pc' = "homeflush" /\ job'.n = 1 /\ job.n = Len(p)
        /\ ledger' = ledger /\ jrnl' = jrnl /\ mem' = mem /\ crashes' = crashes
    BY <1>4, <1>7, LoopFacts, SMTT(30) DEF Registers
  <2>5. PhaseAt("home")'
    BY <2>4 DEF PhaseAt
  <2>6. WrittenAt("home", s, p, c)'
    <3>1. CASE pc' = "home" /\ job'.n - 1 = job.n
      BY <3>1, <1>1, <1>2, <2>3, <2>4 DEF WrittenAt, Settled
    <3>2. CASE pc' = "homeflush" /\ job.n = Len(p)
      BY <3>2, <2>3, <2>4 DEF WrittenAt, Settled
    <3> QED BY <2>4, <3>1, <3>2
  <2>7. errors' \in 0 .. MaxErrors
    BY <1>4, <1>7, ErrorBound DEF Wrote
  <2>8. "home" \in {"image", "home"} /\ "homeflush" \in {"imageflush", "homeflush"}
    OBVIOUS
  <2> QED BY <1>2, <1>3, <1>4, <1>7, <2>1, <2>5, <2>6, <2>7, <2>8, WriterLoops
<1>8. CASE WriteError(b, v) /\ Poison(TRUE)
  <2>1. Stage(k, media', live', s, p, c, t)
    BY <1>3, <1>4, <1>6, <1>8, ErrorStage
  <2>2. errors' \in 0 .. MaxErrors /\ k \in {"home", "clear"}
    BY <1>3, <1>4, <1>8, ErrorBound DEF WriteError
  <2> QED BY <1>2, <1>8, <2>1, <2>2, WriterPoisoned
<1> QED BY <1>7, <1>8 DEF WriteHome, b, v

\* Once all homes are written the journal may be released.
LEMMA CheckpointDone ==
    ASSUME NEW s, NEW p, NEW c, NEW t, Args("home", s, p, c, t), Ok("home", live, s, p, c, t),
           \A h \in Named(p) : live[Home(h)] = Image(t), media' = live, live' = live
    PROVE  Stage("clear", media', live', s, p, c, t)
<1>1. p \in Plans /\ Full(live, s, p, c, t) /\ Args("clear", s, p, c, t)
  BY DEF Ok, Args, Phases, Before, NoTx
<1>2. \A h \in Homes : live[Home(h)] = Image(After(p, c, t)[h])
  BY <1>1 DEF Full, After
<1>3. Logged(live, s, p, c, t) /\ SeqOf(live) = s /\ StartOf(live) = First
  BY <1>1 DEF Full
<1>4. Device(live) /\ IntentOn(live)
  BY <1>3 DEF Logged
<1>5. live[JSuper] = JMark(s, First)
  BY <1>3, <1>4, DeviceSeq DEF IntentOn, JMark
<1>6. InClear(live, s, p, c, t)
  BY <1>2, <1>3, <1>5 DEF InClear, Cut
<1>7. Ok("clear", live, s, p, c, t)
  BY <1>6 DEF Ok
<1> QED BY <1>1, <1>7, StageEnter

\* HomeFlush: the homes are durable before the journal is released.
LEMMA HomeFlushStep ==
    ASSUME IInv, HomeFlush
    PROVE  IInv'
<1>1. pc = "homeflush"
  BY DEF HomeFlush
<1>2. PICK k, s, p, c : Writer(k, s, p, c)
  BY <1>1, WriterAt DEF Running
<1>3. k = "home"
  BY <1>1, <1>2 DEF Writer, PhaseAt
<1> DEFINE t == Len(ledger)
<1>4. /\ Stage("home", media, live, s, p, c, t) /\ Ok("home", live, s, p, c, t)
      /\ \A h \in Named(p) : live[Home(h)] = Image(t)
      /\ Args("home", s, p, c, t) /\ Registers
  BY <1>1, <1>2, <1>3 DEF Writer, WrittenAt
<1>5. CASE Flushed /\ Goto("clear") /\ Stays
  <2>1. media' = live /\ live' = live /\ pc' = "clear" /\ errors' = errors
    BY <1>5 DEF Flushed, Goto
  <2>2. Stage("clear", media', live', s, p, c, t)
    BY <1>4, <2>1, CheckpointDone
  <2>3. PhaseAt("clear")' /\ WrittenAt("clear", s, p, c)'
    BY <2>1 DEF PhaseAt, WrittenAt, Settled
  <2>4. errors' \in 0 .. MaxErrors /\ pc' \in Running \ {"mark"}
        /\ pc' \notin {"markflush", "descriptor", "imageflush", "commit", "commitflush"}
    BY <1>4, <2>1, ErrorBound DEF Running
  <2> QED BY <1>2, <1>5, <2>2, <2>3, <2>4, WriterStays
<1>6. CASE FlushError /\ Poison(TRUE)
  <2>1. Stage(k, media', live', s, p, c, t)
    BY <1>3, <1>4, <1>6, FlushStage
  <2>2. errors' \in 0 .. MaxErrors /\ k \in {"home", "clear"}
    BY <1>3, <1>4, <1>6, ErrorBound DEF FlushError
  <2> QED BY <1>2, <1>6, <2>1, <2>2, WriterPoisoned
<1> QED BY <1>5, <1>6 DEF HomeFlush

\* Clear: the journal is released.
LEMMA ClearStep ==
    ASSUME IInv, Clear
    PROVE  IInv'
<1>1. pc = "clear"
  BY DEF Clear
<1>2. PICK k, s, p, c : Writer(k, s, p, c)
  BY <1>1, WriterAt DEF Running
<1>3. k = "clear"
  BY <1>1, <1>2 DEF Writer, PhaseAt
<1> DEFINE t == Len(ledger)
           v == JState(job.next, 0)
<1>4. /\ Stage("clear", media, live, s, p, c, t) /\ InClear(live, s, p, c, t)
      /\ job.next = NextSeq(s) /\ Registers
  BY <1>1, <1>2, <1>3 DEF Writer, Ok, JobIs
<1>5. v = JMark(NextSeq(s), 0)
  <2>1. IntentOn(live)
    BY <1>4 DEF InClear, Logged
  <2> QED BY <1>4, <2>1, JStateIs
<1>6. To("clear", JSuper, p) /\ v = Val("clear", JSuper, s, p, c, t)
  BY <1>5 DEF To, Val
<1> HIDE DEF v
<1>7. CASE Wrote(JSuper, v) /\ Goto("clearflush") /\ Stays
  <2>1. /\ Stage("clear", media', live', s, p, c, t) /\ live'[JSuper] = v
        /\ \A d \in Blocks : d # JSuper => live'[d] = live[d]
    BY <1>4, <1>6, <1>7, WroteStage, SMTT(30)
  <2>2. pc' = "clearflush" /\ errors' = errors
    BY <1>7 DEF Goto, Wrote
  <2>3. PhaseAt("clear")' /\ WrittenAt("clear", s, p, c)'
    BY <1>5, <2>1, <2>2 DEF PhaseAt, WrittenAt, Settled
  <2>4. errors' \in 0 .. MaxErrors /\ pc' \in Running \ {"mark"}
        /\ pc' \notin {"markflush", "descriptor", "imageflush", "commit", "commitflush"}
    BY <1>4, <2>2, ErrorBound DEF Running
  <2> QED BY <1>2, <1>7, <2>1, <2>3, <2>4, WriterStays
<1>8. CASE WriteError(JSuper, v) /\ Poison(TRUE)
  <2>1. Stage(k, media', live', s, p, c, t)
    BY <1>3, <1>4, <1>6, <1>8, ErrorStage
  <2>2. errors' \in 0 .. MaxErrors /\ k \in {"home", "clear"}
    BY <1>3, <1>4, <1>8, ErrorBound DEF WriteError
  <2> QED BY <1>2, <1>8, <2>1, <2>2, WriterPoisoned
<1> QED BY <1>7, <1>8 DEF Clear, v

\* A caller is answered, and the next transaction may begin.
LEMMA WriterReturns ==
    ASSUME NEW k, NEW s, NEW p, NEW c, Writer(k, s, p, c),
           NEW r \in {"ok", "aborted"}, Settle(r), Goto("idle"),
           NEW q, NEW d, Stage("reset", media', live', q, p, d, Len(ledger)),
           live' = media', StartOf(live') = 0, mem' = d, job' = job, crashes' = crashes,
           jrnl'.seq = q, jrnl' \in [seq : 0 .. Top, start : {0, First}], jrnl'.start = 0,
           errors' \in 0 .. MaxErrors
    PROVE  IInv'
<1>1. /\ p \in Plans /\ pc \in Running /\ Books /\ Registers /\ Len(ledger) \in Nat \ {0}
  BY DEF Writer
<1>2. pc' = "idle"
  BY DEF Goto
<1>3. /\ Books' /\ Len(ledger') = Len(ledger)
      /\ ledger'[Len(ledger)].homes = ledger[Len(ledger)].homes
  BY <1>1, <1>2, SettleBooks DEF Results, Running
<1>4. d \in Maps(Len(ledger))
  BY DEF Stage, Args, NoTx
<1>5. Registers'
  BY <1>1, <1>2, <1>3, <1>4 DEF Registers, Locations
<1>6. PhaseAt("reset")' /\ WrittenAt("reset", q, p, d)' /\ HeldAt("reset", q, p, d)'
  <2>1. PhaseAt("reset")'
    BY <1>2 DEF PhaseAt
  <2>2. WrittenAt("reset", q, p, d)'
    BY <1>2 DEF WrittenAt, Settled
  <2>3. HeldAt("reset", q, p, d)'
    BY <1>2 DEF HeldAt, Running
  <2> QED BY <2>1, <2>2, <2>3
<1>7. Located'
  BY <1>1, <1>3, <1>6, LocatedBy
<1> QED BY <1>3, <1>5, <1>7 DEF IInv

\* What is ready for a transaction is as ready when that has come to nothing.
LEMMA ReadyAgain ==
    ASSUME NEW s \in 0 .. Top, NEW p, NEW c, NEW t \in Nat \ {0}, c \in Maps(t - 1),
           NEW m, Ready(m, s, c, t - 1)
    PROVE  Stage("reset", m, m, s, p, c, t)
<1>1. c \in Maps(t) /\ Quiet(m, c, t)
  BY Later DEF Ready
<1>2. Args("reset", s, p, c, t) /\ Ok("reset", m, s, p, c, t)
  BY <1>1 DEF Args, Ok, Ready, Phases, Before, NoTx
<1> QED BY <1>2, StageEnter

\* BuildFails
LEMMA BuildFailsStep ==
    ASSUME IInv, BuildFails
    PROVE  IInv'
<1>1. pc = "mark"
  BY DEF BuildFails
<1>2. PICK k, s, p, c : Writer(k, s, p, c)
  BY <1>1, WriterAt DEF Running
<1>3. k = "mark"
  BY <1>1, <1>2 DEF Writer, PhaseAt
<1> DEFINE t == Len(ledger)
<1>4. /\ Ready(live, s, c, t - 1) /\ live = media /\ StartOf(live) = 0
      /\ s \in 0 .. Top /\ t \in Nat \ {0} /\ c \in Maps(t - 1) /\ mem = c /\ jrnl.seq = s
      /\ Registers /\ jrnl.start = 0 /\ jrnl \in [seq : 0 .. Top, start : {0, First}]
  BY <1>1, <1>2, <1>3 DEF Writer, Ok, WrittenAt, Settled, Registers
<1>5. /\ live' = live /\ media' = media /\ jrnl' = jrnl /\ job' = job /\ mem' = mem
      /\ crashes' = crashes /\ Goto("idle") /\ Settle("aborted")
  BY DEF BuildFails
<1>6. Stage("reset", media', live', s, p, c, t)
  BY <1>4, <1>5, ReadyAgain
<1>7. errors' \in 0 .. MaxErrors
  BY <1>4, ErrorBound DEF BuildFails
<1>8. "aborted" \in {"ok", "aborted"} /\ StartOf(live') = 0 /\ live' = media' /\ mem' = c
      /\ jrnl'.seq = s /\ jrnl' \in [seq : 0 .. Top, start : {0, First}] /\ jrnl'.start = 0
  BY <1>4, <1>5
<1> QED BY <1>2, <1>5, <1>6, <1>7, <1>8, WriterReturns

\* The journal is released: the device is ready for the next transaction.
LEMMA Released ==
    ASSUME NEW m, NEW s \in 0 .. Top, NEW p \in Plans, NEW t \in Nat \ {0},
           NEW c \in Maps(t - 1), InClear(m, s, p, c, t), m[JSuper] = JMark(NextSeq(s), 0)
    PROVE  /\ StartOf(m) = 0 /\ NextSeq(s) \in 0 .. Top
           /\ Stage("reset", m, m, NextSeq(s), p, After(p, c, t), t)
<1> DEFINE d == After(p, c, t)
           q == NextSeq(s)
<1>1. q \in 0 .. Top
  BY NextIsOther
<1>2. SeqOf(m) = q /\ StartOf(m) = 0 /\ IntentOn(m)
  BY <1>1, Reads
<1>3. Quiet(m, d, t)
  <2>1. Full(m, s, p, c, t) \/ Quiet(m, d, t)
    BY ClearShape
  <2>2. First # 0
    BY SMTT(30) DEF First
  <2> QED BY <1>2, <2>1, <2>2 DEF Full
<1>4. Ready(m, q, d, t)
  BY <1>2, <1>3 DEF Ready, InClear, Logged
<1>5. d \in Maps(t)
  BY Later
<1>6. Args("reset", q, p, d, t) /\ Ok("reset", m, q, p, d, t)
  BY <1>1, <1>4, <1>5 DEF Args, Ok, Phases, Before, NoTx
<1> QED BY <1>1, <1>2, <1>6, StageEnter

\* ClearFlush: the caller is told of success.
LEMMA ClearFlushStep ==
    ASSUME IInv, ClearFlush
    PROVE  IInv'
<1>1. pc = "clearflush"
  BY DEF ClearFlush
<1>2. PICK k, s, p, c : Writer(k, s, p, c)
  BY <1>1, WriterAt DEF Running
<1>3. k = "clear"
  BY <1>1, <1>2 DEF Writer, PhaseAt
<1> DEFINE t == Len(ledger)
           d == After(p, c, t)
           q == NextSeq(s)
<1>4. /\ Stage("clear", media, live, s, p, c, t) /\ InClear(live, s, p, c, t)
      /\ live[JSuper] = JMark(q, 0) /\ s \in 0 .. Top /\ p \in Plans
      /\ t \in Nat \ {0} /\ c \in Maps(t - 1) /\ Registers /\ HeldAt(k, s, p, c)
      /\ job.next = NextSeq(s) /\ pc \in Running
  BY <1>1, <1>2, <1>3 DEF Writer, Ok, WrittenAt, JobIs
<1>5. StartOf(live) = 0 /\ q \in 0 .. Top /\ Stage("reset", live, live, q, p, d, t)
  BY <1>4, Released
<1>6. CASE /\ Flushed /\ Goto("idle") /\ Settle("ok")
           /\ jrnl' = [seq |-> job.next, start |-> 0]
           /\ mem' = Published
           /\ UNCHANGED <<job, crashes>>
  <2>1. media' = live /\ live' = live /\ errors' = errors
    BY <1>6 DEF Flushed
  <2>2. Stage("reset", media', live', q, p, d, t)
    BY <1>5, <2>1
  <2>3. mem' = d
    BY <1>4, <1>6, PublishedIs
  <2>4. jrnl'.seq = q /\ jrnl' \in [seq : 0 .. Top, start : {0, First}] /\ jrnl'.start = 0
    BY <1>4, <1>5, <1>6, SMTT(30)
  <2>5. errors' \in 0 .. MaxErrors /\ live' = media' /\ StartOf(live') = 0
        /\ "ok" \in {"ok", "aborted"} /\ job' = job /\ crashes' = crashes
    BY <1>4, <1>5, <1>6, <2>1, ErrorBound
  <2> HIDE DEF d, q
  <2> QED BY <1>2, <1>6, <2>2, <2>3, <2>4, <2>5, WriterReturns
<1>7. CASE FlushError /\ Poison(TRUE)
  <2>1. Stage(k, media', live', s, p, c, t)
    BY <1>3, <1>4, <1>7, FlushStage
  <2>2. errors' \in 0 .. MaxErrors /\ k \in {"home", "clear"}
    BY <1>3, <1>4, <1>7, ErrorBound DEF FlushError
  <2> QED BY <1>2, <1>7, <2>1, <2>2, WriterPoisoned
<1> QED BY <1>6, <1>7 DEF ClearFlush

\* Abort: abort_uncommitted_journal takes the mark back.
LEMMA AbortStep ==
    ASSUME IInv, Abort
    PROVE  IInv'
<1>1. pc = "abort"
  BY DEF Abort
<1>2. PICK k, s, p, c : Writer(k, s, p, c)
  BY <1>1, WriterAt DEF Running
<1>3. k = "abort"
  BY <1>1, <1>2 DEF Writer, PhaseAt
<1> DEFINE t == Len(ledger)
           v == JState(jrnl.seq, 0)
<1>4. /\ Stage("abort", media, live, s, p, c, t) /\ Ready(live, s, c, t - 1)
      /\ jrnl.seq = s /\ Registers /\ s \in 0 .. Top
  BY <1>1, <1>2, <1>3 DEF Writer, Ok
<1>5. v = JMark(s, 0)
  BY <1>4, JStateIs DEF Ready
<1>6. To("abort", JSuper, p) /\ v = Val("abort", JSuper, s, p, c, t)
  BY <1>5 DEF To, Val
<1> HIDE DEF v
<1>7. CASE Wrote(JSuper, v) /\ Goto("abortflush") /\ Stays
  <2>1. /\ Stage("abort", media', live', s, p, c, t) /\ live'[JSuper] = v
        /\ \A d \in Blocks : d # JSuper => live'[d] = live[d]
    BY <1>4, <1>6, <1>7, WroteStage, SMTT(30)
  <2>2. pc' = "abortflush" /\ errors' = errors
    BY <1>7 DEF Goto, Wrote
  <2>3. StartOf(live') = 0
    BY <1>4, <1>5, <2>1, Reads
  <2>4. PhaseAt("abort")' /\ WrittenAt("abort", s, p, c)'
    BY <2>2, <2>3 DEF PhaseAt, WrittenAt, Settled
  <2>5. errors' \in 0 .. MaxErrors /\ pc' \in Running \ {"mark"}
        /\ pc' \notin {"markflush", "descriptor", "imageflush", "commit", "commitflush"}
    BY <1>4, <2>2, ErrorBound DEF Running
  <2> QED BY <1>2, <1>7, <2>1, <2>4, <2>5, WriterStays
<1>8. CASE WriteError(JSuper, v) /\ Poison(FALSE)
  <2>1. Stage(k, media', live', s, p, c, t)
    BY <1>3, <1>4, <1>6, <1>8, ErrorStage
  <2>2. errors' \in 0 .. MaxErrors
    BY <1>4, <1>8, ErrorBound DEF WriteError
  <2> QED BY <1>2, <1>8, <2>1, <2>2, WriterPoisoned
<1> QED BY <1>7, <1>8 DEF Abort, v

\* AbortFlush: the caller is told that nothing has happened.
LEMMA AbortFlushStep ==
    ASSUME IInv, AbortFlush
    PROVE  IInv'
<1>1. pc = "abortflush"
  BY DEF AbortFlush
<1>2. PICK k, s, p, c : Writer(k, s, p, c)
  BY <1>1, WriterAt DEF Running
<1>3. k = "abort"
  BY <1>1, <1>2 DEF Writer, PhaseAt
<1> DEFINE t == Len(ledger)
<1>4. /\ Stage("abort", media, live, s, p, c, t) /\ Ready(live, s, c, t - 1)
      /\ StartOf(live) = 0 /\ s \in 0 .. Top /\ t \in Nat \ {0} /\ c \in Maps(t - 1)
      /\ mem = c /\ jrnl.seq = s /\ Registers /\ jrnl \in [seq : 0 .. Top, start : {0, First}]
  BY <1>1, <1>2, <1>3 DEF Writer, Ok, WrittenAt, Registers
<1>5. CASE /\ Flushed /\ Goto("idle") /\ Settle("aborted")
           /\ jrnl' = [jrnl EXCEPT !.start = 0]
           /\ UNCHANGED <<job, mem, crashes>>
  <2>1. media' = live /\ live' = live /\ errors' = errors
    BY <1>5 DEF Flushed
  <2>2. Stage("reset", media', live', s, p, c, t)
    BY <1>4, <2>1, ReadyAgain
  <2>3. jrnl'.seq = s /\ jrnl' \in [seq : 0 .. Top, start : {0, First}] /\ jrnl'.start = 0
    BY <1>4, <1>5, SMTT(30)
  <2>4. errors' \in 0 .. MaxErrors /\ live' = media' /\ StartOf(live') = 0 /\ mem' = c
        /\ "aborted" \in {"ok", "aborted"} /\ job' = job /\ crashes' = crashes
    BY <1>4, <1>5, <2>1, ErrorBound
  <2> QED BY <1>2, <1>5, <2>2, <2>3, <2>4, WriterReturns
<1>6. CASE FlushError /\ Poison(FALSE)
  <2>1. Stage(k, media', live', s, p, c, t)
    BY <1>3, <1>4, <1>6, FlushStage
  <2>2. errors' \in 0 .. MaxErrors
    BY <1>4, <1>6, ErrorBound DEF FlushError
  <2> QED BY <1>2, <1>6, <2>1, <2>2, WriterPoisoned
<1> QED BY <1>5, <1>6 DEF AbortFlush

\* A point of the mount, of a mounted system at rest, or of one that is down.
Mounting(k, s, p, c) ==
    /\ Where(k, s, p, c) /\ Stage(k, media, live, s, p, c, Len(ledger))
    /\ PhaseAt(k) /\ WrittenAt(k, s, p, c) /\ HeldAt(k, s, p, c)
    /\ k \in Phases /\ s \in 0 .. Top /\ p \in Plans \union {<< >>} /\ c \in Maps(Len(ledger))
    /\ Args(k, s, p, c, Len(ledger)) /\ Len(ledger) \in Nat
    /\ Ok(k, media, s, p, c, Len(ledger)) /\ Ok(k, live, s, p, c, Len(ledger))
    /\ pc \notin Running /\ pc # "poisoned" /\ Books /\ Registers

\* Wherever the mount is, it is at such a point.
LEMMA MountingAt ==
    ASSUME IInv, pc \notin Running, pc # "poisoned"
    PROVE  \E k, s, p, c : Mounting(k, s, p, c)
<1>1. PICK k \in Phases, s \in 0 .. Top, p \in Plans \union {<< >>}, c \in Maps(Len(ledger)) :
          Where(k, s, p, c)
  BY DEF IInv, Located
<1>2. /\ Stage(k, media, live, s, p, c, Len(ledger))
      /\ PhaseAt(k) /\ WrittenAt(k, s, p, c) /\ HeldAt(k, s, p, c)
  BY <1>1 DEF Where
<1>3. /\ Args(k, s, p, c, Len(ledger))
      /\ Ok(k, media, s, p, c, Len(ledger)) /\ Ok(k, live, s, p, c, Len(ledger))
  BY <1>2 DEF Stage
<1>4. Len(ledger) \in Nat
  BY <1>3 DEF Args
<1>5. Mounting(k, s, p, c)
  BY <1>1, <1>2, <1>3, <1>4 DEF Mounting, IInv
<1> QED BY <1>5

\* A step of the mount.
LEMMA MountGoes ==
    ASSUME Books, Registers, pc \notin Running, pc # "poisoned",
           NEW k, NEW s, NEW p \in Plans \union {<< >>}, NEW c,
           Stage(k, media', live', s, p, c, Len(ledger)),
           PhaseAt(k)', WrittenAt(k, s, p, c)', HeldAt(k, s, p, c)',
           pc' \in Locations \ (Running \union {"refused", "poisoned", "idle"}),
           ledger' = ledger, jrnl' = jrnl, mem' = mem, crashes' = crashes,
           IsJob(job'), errors' \in 0 .. MaxErrors
    PROVE  IInv'
<1>1. Located'
  BY LocatedBy
<1>2. Books'
  BY BooksSame
<1>3. pc' \in Locations \ {"refused"} /\ pc' \notin {"idle", "mark"}
  BY DEF Running
<1>4. Registers'
  BY <1>3 DEF Registers
<1> QED BY <1>1, <1>2, <1>4 DEF IInv

\* A mount that fails leaves what it has written.
LEMMA MountFailed ==
    ASSUME NEW k, NEW s, NEW p, NEW c, Mounting(k, s, p, c), k \in NoTx \union {"home", "clear"},
           Stage(k, media', live', s, p, c, Len(ledger)), MountFails, errors' \in 0 .. MaxErrors
    PROVE  IInv'
<1>1. Books /\ Registers /\ pc \notin Running /\ pc # "poisoned" /\ p \in Plans \union {<< >>}
  BY DEF Mounting
<1>2. /\ pc' = "failed" /\ ledger' = ledger /\ jrnl' = jrnl /\ mem' = mem /\ crashes' = crashes
      /\ job' = job
  BY DEF MountFails, Goto, Stays
<1>3. pc' \in Locations \ (Running \union {"refused", "poisoned", "idle"})
  BY <1>2 DEF Locations, Running
<1>4. IsJob(job')
  BY <1>1, <1>2 DEF Registers
<1>5. PhaseAt(k)' /\ WrittenAt(k, s, p, c)' /\ HeldAt(k, s, p, c)'
  <2>1. PhaseAt(k)'
    BY <1>2 DEF PhaseAt
  <2>2. WrittenAt(k, s, p, c)'
    BY <1>2 DEF WrittenAt, Settled
  <2>3. HeldAt(k, s, p, c)'
    BY <1>2 DEF HeldAt, Running
  <2> QED BY <2>1, <2>2, <2>3
<1> QED BY <1>1, <1>2, <1>3, <1>4, <1>5, MountGoes

\* The job of a mount with nothing to replay.
LEMMA NoJobIs == IsJob(NoJob)
<1>1. 1 \in 1 .. MaxHomes
  BY PlanAssumption, SMTT(30)
<1>2. NoJob = [next |-> 0, homes |-> << >>, pre |-> << >>, post |-> << >>, n |-> 1]
  BY DEF NoJob
<1>3. NoJob.next = 0 /\ NoJob.homes = << >> /\ NoJob.pre = << >> /\ NoJob.post = << >> /\ NoJob.n = 1
  BY <1>2, SMTT(30)
<1> QED BY <1>1, <1>2, <1>3, SMTT(30) DEF IsJob

\* Begin
LEMMA BeginStep ==
    ASSUME IInv, NEW p \in Plans, Begin(p)
    PROVE  IInv'
<1>1. pc = "idle" /\ pc' = "mark"
  BY DEF Begin, Goto
<1>2. PICK k, s, o, c : Mounting(k, s, o, c)
  BY <1>1, MountingAt DEF Running
<1>3. k = "reset"
  BY <1>1, <1>2 DEF Mounting, PhaseAt
<1> DEFINE t == Len(ledger)
           u == Len(ledger')
           E == [homes : SUBSET Homes, res : Results]
           e == [homes |-> {p[i] : i \in DOMAIN p}, res |-> "running"]
<1>4. /\ Ready(live, s, c, t) /\ live = media /\ StartOf(live) = 0 /\ s \in 0 .. Top
      /\ t \in Nat /\ c \in Maps(t) /\ mem = c /\ jrnl.seq = s /\ jrnl.start = 0
      /\ Books /\ Registers
  BY <1>1, <1>2, <1>3 DEF Mounting, Ok, WrittenAt, Settled, HeldAt, Registers
<1>5. /\ live' = live /\ media' = media /\ jrnl' = jrnl /\ mem' = mem
      /\ errors' = errors /\ crashes' = crashes
      /\ ledger' = Append(ledger, e) /\ t < MaxTx
  BY DEF Begin
<1>6. /\ Len(p) \in Nat /\ DOMAIN p = 1 .. Len(p) /\ Named(p) \subseteq Homes
      /\ \A i \in 1 .. Len(p) : p[i] \in Homes
  BY PlanFacts
<1>7. e \in E /\ e.homes = Named(p) /\ e.res = "running"
  <2>1. {p[i] : i \in DOMAIN p} = Named(p)
    BY <1>6 DEF Named
  <2> QED BY <1>6, <2>1 DEF Results
<1>8. ledger' \in Seq(E) /\ u = t + 1 /\ ledger'[u] = e /\ u <= MaxTx
  <2>1. ledger \in Seq(E) /\ MaxTx \in Nat
    BY <1>4, JournalBounds DEF Books
  <2> HIDE DEF E, e
  <2> QED BY <1>4, <1>5, <1>7, <2>1, SMTT(30)
<1>9. u \in Nat \ {0} /\ u - 1 = t
  BY <1>4, <1>8, SMTT(30)
<1>10. Books'
  <2> HIDE DEF e
  <2> QED BY <1>1, <1>7, <1>8 DEF Books, Running
<1>11. Stage("mark", media', live', s, p, c, u)
  <2>1. Args("mark", s, p, c, u) /\ Ok("mark", live, s, p, c, u)
    BY <1>4, <1>9 DEF Args, Ok, Phases, Before, NoTx
  <2> QED BY <1>4, <1>5, <2>1, StageEnter
<1>12. job' = [next |-> NextSeq(s), homes |-> p, pre |-> Pres(p, c), post |-> Posts(p, u), n |-> 1]
  <2>1. [i \in DOMAIN p |-> live[Home(p[i])]] = Pres(p, c)
    BY <1>4, <1>6 DEF Pres, Ready, Quiet
  <2>2. [i \in DOMAIN p |-> Image(Len(ledger) + 1)] = Posts(p, u)
    BY <1>6, <1>8 DEF Posts
  <2>3. job' = [next |-> (jrnl.seq + 1) % Modulus, homes |-> p,
                pre |-> [i \in DOMAIN p |-> live[Home(p[i])]],
                post |-> [i \in DOMAIN p |-> Image(Len(ledger) + 1)], n |-> 1]
    BY DEF Begin
  <2> QED BY <1>4, <2>1, <2>2, <2>3 DEF NextSeq
<1>13. /\ job'.next = NextSeq(s) /\ job'.homes = p /\ job'.pre = Pres(p, c)
       /\ job'.post = Posts(p, u) /\ job'.n = 1
  BY <1>12, SMTT(30)
<1>14. IsJob(job')
  <2>1. 1 \in 1 .. MaxHomes /\ DOMAIN Posts(p, u) = 1 .. Len(p)
    <3>1. 1 \in 1 .. MaxHomes
      BY PlanAssumption, SMTT(30)
    <3> QED BY <3>1 DEF Posts
  <2>2. DOMAIN job'.homes = DOMAIN job'.post /\ job'.n \in 1 .. MaxHomes
    BY <1>6, <1>13, <2>1
  <2> QED BY <1>12, <1>13, <2>2 DEF IsJob
<1>15. c \in Maps(u)
  BY <1>4, <1>9, Later
<1>16. Registers'
  BY <1>1, <1>4, <1>5, <1>14, <1>15 DEF Registers, Locations
<1>17. PhaseAt("mark")' /\ WrittenAt("mark", s, p, c)'
  BY <1>1, <1>4, <1>5 DEF PhaseAt, WrittenAt, Settled
<1>18. HeldAt("mark", s, p, c)'
  <2>1. JobIs(s, p, c)'
    BY <1>13 DEF JobIs
  <2>2. ledger'[u].homes = Named(p)
    <3> HIDE DEF e
    <3> QED BY <1>7, <1>8
  <2> QED BY <1>1, <1>4, <1>5, <1>13, <2>1, <2>2 DEF HeldAt, Running
<1>19. Located'
  BY <1>11, <1>17, <1>18, LocatedBy
<1> QED BY <1>10, <1>16, <1>19 DEF IInv
=============================================================================
