---------------------------- MODULE Ext2Journal ----------------------------
(* The metadata journal of vfs/ext2.rs on a device with a volatile write cache:
   the transaction writer (commit_metadata_transaction_inner), the recovery a
   mount runs (initialize_journal), and power loss between any two of their
   device operations.

   `live` is what the device returns to a read, `media` what survives a loss of
   power.  The device may move any block from one to the other at any time, a
   prefix of it first; a flush moves all of them.  A block is a tuple of the
   parts a torn write can separate.  The journal's blocks have their logical
   numbers: 0 the journal superblock, 1 (`first`) the descriptor, then the
   images and, right behind the last image, the commit block.

   Every transaction has a number, which stands for the contents it gives its
   home blocks; the digest in a commit block is the tuple of what it covers, so
   two digests are equal only if everything they cover is.  Of the contents only
   one number is looked into: the count, or inode number, that a mount compares
   with a bound before it recovers the journal.                               *)
EXTENDS Integers, Sequences

CONSTANTS
    Homes,          \* the metadata blocks (a set of numbers)
    Plans,          \* the home sequences a transaction may have
    MaxHomes,       \* JOURNAL_MAX_METADATA_BLOCKS
    Base,           \* the sequence number is two digits of this base
    InitSeqs,       \* sequence numbers of the image found at the first mount
    Byte,           \* the values of a byte of a count (256)
    Count,          \* Count[h][t]: the count that transaction t leaves in home h
    Limit,          \* Limit[h]: the largest count of home h a mount allows
    MaxTx,          \* bound: transactions
    MaxErrors,      \* bound: failed device operations
    MaxCrashes      \* bound: crashes of a healthy system

ASSUME PlanAssumption ==
    /\ MaxHomes \in Nat \ {0}
    /\ \A p \in Plans : /\ p \in Seq(Homes) /\ Len(p) \in 1 .. MaxHomes
                        /\ \A i, j \in DOMAIN p : p[i] = p[j] => i = j
ASSUME SeqAssumption == Base \in Nat \ {0, 1} /\ InitSeqs \subseteq 0 .. Base * Base - 1
ASSUME JournalBounds == {MaxTx, MaxErrors, MaxCrashes} \subseteq Nat
ASSUME CountAssumption ==
    /\ Byte \in Nat \ {0} /\ Limit \in [Homes -> Nat]
    /\ \A h \in Homes : \A t \in 0 .. MaxTx : Count[h][t] \in 0 .. Limit[h]

VARIABLES
    media, live,    \* the device
    pc,             \* what the filesystem does next
    jrnl,           \* Ext2Journal: next_sequence and start
    job,            \* the transaction being committed or replayed
    mem,            \* the metadata in memory, by home
    ledger,         \* history: the transactions begun and what their callers know
    errors, crashes

vars == <<media, live, pc, jrnl, job, mem, ledger, errors, crashes>>

First == 1
Modulus == Base * Base
JSuper == <<"journal", 0>>
Log(i) == <<"journal", i>>
Home(h) == <<"home", h>>
Super == <<"super", 0>>
Blocks == {Super} \union {Log(i) : i \in 0 .. MaxHomes + 2} \union {Home(h) : h \in Homes}

\* What a block can hold when a write of `new` over `old` is cut short.
Torn(new, old) ==
    {[i \in DOMAIN new |-> IF i <= k THEN new[i] ELSE old[i]] : k \in 1 .. Len(new) - 1}

Whole(v) == <<v, v>>
Blank == Whole([kind |-> "blank"])
\* A home block, or its image in the journal, as transaction t leaves it.
Image(t) == Whole([kind |-> "image", tx |-> t])
Descriptor(s, p) == Whole([kind |-> "descriptor", seq |-> s, homes |-> p])

------------------------------------------------------------------------------
\* What a mount reads from a device with the contents m.
SeqOf(m) == m[JSuper][1] * Base + m[JSuper][2]
StartOf(m) == m[JSuper][3]
HasIntent(m) == m[JSuper][4]
HasRecover(m) == m[Super][1]

\* write_journal_state and ensure_journal_intent_feature rewrite the block read.
JState(s, start) == <<s \div Base, s % Base, start, live[JSuper][4]>>
JIntent == <<live[JSuper][1], live[JSuper][2], live[JSuper][3], TRUE>>

\* transaction_hasher, finish_transaction_digest
Digest(s, descriptor, images, intent) ==
    [seq |-> s, descriptor |-> descriptor, images |-> images, intent |-> intent]

\* encode_commit_intent.  The digest stands apart from the header and the intent
\* fields around it: a torn commit block lacks the one or the others.
CommitBlock(s, intent, digest) ==
    <<[kind |-> "commit", seq |-> s, intent |-> intent], [kind |-> "digest", of |-> digest]>>

ImagesOf(m, n) == [i \in 1 .. n |-> m[Log(First + i)]]

\* Mutant: a commit block with the right sequence number seals the transaction.
SealedByHeader(m, n) ==
    LET c == m[Log(First + n + 1)]
    IN c[1].kind = "commit" /\ c[1].seq = SeqOf(m)

\* plan_recovery_candidate
Sealed(m, n) ==
    LET c == m[Log(First + n + 1)]
    IN /\ c[1].kind = "commit" /\ c[1].seq = SeqOf(m)
       /\ c[2].kind = "digest"
       /\ c[2].of = Digest(SeqOf(m), m[Log(First)], ImagesOf(m, n), c[1].intent)

SealedCounts(m) == {n \in 1 .. MaxHomes : Sealed(m, n)}

NoJob == [next |-> 0, homes |-> << >>, pre |-> << >>, post |-> << >>, n |-> 1]

\* plan_internal_journal_recovery: the commit slots are probed by image count.
Plan(m) ==
    IF SealedCounts(m) = {}
    THEN [NoJob EXCEPT !.next = SeqOf(m)]
    ELSE LET n == CHOOSE k \in SealedCounts(m) : \A j \in 1 .. k - 1 : ~Sealed(m, j)
             c == m[Log(First + n + 1)][1]
         IN [next |-> (SeqOf(m) + 1) % Modulus, homes |-> m[Log(First)][1].homes,
             pre |-> c.intent.pre, post |-> ImagesOf(m, n), n |-> 1]

\* Mutant: a home must hold its old or its new image, torn ones are refused.
ReplayWhole(m) ==
    SealedCounts(m) # {} =>
        LET p == Plan(m)
        IN \A i \in DOMAIN p.homes : m[Home(p.homes[i])] \in {p.pre[i], p.post[i]}

\* collect_linear_overlay, then validate_checkpoint_homes: each home holds its
\* old image, or a prefix of the new one followed by the rest of the old one.
ReplayValid(m) ==
    SealedCounts(m) # {} =>
        LET p == Plan(m)
        IN /\ m[Log(First)][1].kind = "descriptor" /\ m[Log(First)][1].seq = SeqOf(m)
           /\ Len(p.homes) = Len(p.post)
           /\ \A i \in DOMAIN p.homes :
                  m[Home(p.homes[i])] \in {p.pre[i], p.post[i]} \union Torn(p.post[i], p.pre[i])

\* read_virtual_block: home h as it is under the images of the homes hs.
Virtual(m, hs, images, h) ==
    IF \E i \in DOMAIN hs : hs[i] = h
    THEN images[CHOOSE i \in DOMAIN hs : hs[i] = h]
    ELSE m[Home(h)]

\* validate_recovery_grammar, validate_recovery_overlay, validate_block_ownership
\* and validate_namespace_contents read the homes as they were before and as they
\* will be after the transaction.  Metadata of one moment passes, a block with
\* parts of two transactions does not (the code may overlook some of these).
Consistent(m) ==
    LET p == IF StartOf(m) # 0 THEN Plan(m) ELSE NoJob
    IN \A images \in {p.pre, p.post} : \A h \in Homes :
           LET c == Virtual(m, p.homes, images, h) IN c[1] = c[2]

\* initialize_journal, up to its first write
RecoveryAccepts(m) ==
    /\ StartOf(m) # 0 =>
           StartOf(m) = First /\ HasIntent(m) /\ HasRecover(m) /\ ReplayValid(m)
    /\ Consistent(m)

\* The count in a home block with the contents c: the low byte comes first.
CountRead(h, c) == (Count[h][c[2].tx] \div Byte) * Byte + (Count[h][c[1].tx] % Byte)

\* read_super and load_group_descs check the homes as they are on the device.
Legible(m) == \A h \in Homes : CountRead(h, m[Home(h)]) <= Limit[h]

Accepts(m) == Legible(m) /\ RecoveryAccepts(m)

\* The transaction number that recovery finds in home h; -1 if it finds none.
Number(c) == IF c[1] = c[2] THEN c[1].tx ELSE -1
Recovered(m) ==
    LET p == IF StartOf(m) # 0 THEN Plan(m) ELSE NoJob
    IN IF ~RecoveryAccepts(m) THEN [h \in Homes |-> -1]
       ELSE [h \in Homes |-> Number(Virtual(m, p.homes, p.post, h))]

------------------------------------------------------------------------------
\* The device.
Wrote(b, v) == live' = [live EXCEPT ![b] = v] /\ UNCHANGED <<media, errors>>
Error == errors < MaxErrors /\ errors' = errors + 1
\* A failed or short write leaves the old block, the new one or a prefix of it.
WriteError(b, v) ==
    /\ Error
    /\ \E x \in {live[b], v} \union Torn(v, live[b]) : live' = [live EXCEPT ![b] = x]
    /\ UNCHANGED media
Flushed == media' = live /\ UNCHANGED <<live, errors>>
FlushError == Error /\ UNCHANGED <<live, media>>

Persist(b) ==
    /\ media[b] # live[b]
    /\ \E x \in {live[b]} \union Torn(live[b], media[b]) :
           media' = [media EXCEPT ![b] = x] /\ x # media[b]
    /\ UNCHANGED <<live, pc, jrnl, job, mem, ledger, errors, crashes>>

Open == ledger # << >> /\ ledger[Len(ledger)].res \in {"running", "unknown"}
Settle(r) == ledger' = IF Open THEN [ledger EXCEPT ![Len(ledger)].res = r] ELSE ledger

Goto(l) == pc' = l
Stays == UNCHANGED <<jrnl, job, mem, ledger, crashes>>

------------------------------------------------------------------------------
\* The writer.  The callers hold meta_lock, so there is one transaction at a time.
Published == [h \in Homes |-> IF \E i \in DOMAIN job.homes : job.homes[i] = h
                              THEN Len(ledger) ELSE mem[h]]
\* Mutant: what a failed transaction was to write is published whatever failed.
PoisonPublishes(committed) ==
    /\ Goto("poisoned")
    /\ Settle("unknown")
    /\ mem' = Published
    /\ UNCHANGED <<jrnl, job, crashes>>

\* JournalTxFailure with poison: the mount refuses I/O until it is remounted; a
\* committed transaction's state is published first.
Poison(committed) ==
    /\ Goto("poisoned")
    /\ Settle("unknown")
    /\ mem' = IF committed THEN Published ELSE mem
    /\ UNCHANGED <<jrnl, job, crashes>>
\* The steps of a loop over the homes.
Loop(l, done) ==
    /\ Goto(IF job.n < Len(job.homes) THEN l ELSE done)
    /\ job' = [job EXCEPT !.n = IF @ < Len(job.homes) THEN @ + 1 ELSE 1]
    /\ UNCHANGED <<jrnl, mem, ledger, crashes>>

Begin(p) ==
    /\ pc = "idle" /\ Len(ledger) < MaxTx
    /\ Goto("mark")
    /\ ledger' = Append(ledger, [homes |-> {p[i] : i \in DOMAIN p}, res |-> "running"])
    /\ job' = [next |-> (jrnl.seq + 1) % Modulus, homes |-> p,
               pre |-> [i \in DOMAIN p |-> live[Home(p[i])]],
               post |-> [i \in DOMAIN p |-> Image(Len(ledger) + 1)], n |-> 1]
    /\ UNCHANGED <<media, live, jrnl, mem, errors, crashes>>

\* An image cannot be built, before anything is written.
BuildFails ==
    /\ pc = "mark" /\ Error
    /\ Goto("idle") /\ Settle("aborted")
    /\ UNCHANGED <<media, live, jrnl, job, mem, crashes>>

Mark ==
    /\ pc = "mark"
    /\ LET v == JState(jrnl.seq, First) IN
       \/ /\ Wrote(JSuper, v) /\ Goto("markflush")
          /\ jrnl' = [jrnl EXCEPT !.start = First]
          /\ UNCHANGED <<job, mem, ledger, crashes>>
       \/ WriteError(JSuper, v) /\ Poison(FALSE)

MarkFlush ==
    /\ pc = "markflush"
    /\ \/ Flushed /\ Goto("descriptor") /\ Stays
       \/ FlushError /\ Poison(FALSE)

WriteDescriptor ==
    /\ pc = "descriptor"
    /\ LET v == Descriptor(jrnl.seq, job.homes) IN
       \/ Wrote(Log(First), v) /\ Goto("image") /\ Stays
       \/ WriteError(Log(First), v) /\ Goto("abort") /\ Stays

WriteImage ==
    /\ pc = "image"
    /\ LET b == Log(First + job.n) v == job.post[job.n] IN
       \/ Wrote(b, v) /\ Loop("image", "imageflush")
       \/ WriteError(b, v) /\ Goto("abort") /\ Stays

ImageFlush ==
    /\ pc = "imageflush"
    /\ \/ Flushed /\ Goto("commit") /\ Stays
       \/ FlushError /\ Goto("abort") /\ Stays

Sealing == LET intent == [count |-> Len(job.homes), pre |-> job.pre]
           IN CommitBlock(jrnl.seq, intent,
                  Digest(jrnl.seq, Descriptor(jrnl.seq, job.homes), job.post, intent))

\* Mutant: a commit block that may have been written is taken back by an abort.
CommitAborts ==
    /\ pc = "commit"
    /\ LET b == Log(First + Len(job.homes) + 1) IN
       \/ Wrote(b, Sealing) /\ Goto("commitflush") /\ Stays
       \/ WriteError(b, Sealing) /\ Goto("abort") /\ Stays

WriteCommit ==
    /\ pc = "commit"
    /\ LET b == Log(First + Len(job.homes) + 1) IN
       \/ Wrote(b, Sealing) /\ Goto("commitflush") /\ Stays
       \/ WriteError(b, Sealing) /\ Poison(FALSE)

CommitFlush ==
    /\ pc = "commitflush"
    /\ \/ Flushed /\ Goto("home") /\ Stays
       \/ FlushError /\ Poison(FALSE)

WriteHome ==
    /\ pc = "home"
    /\ LET b == Home(job.homes[job.n]) v == job.post[job.n] IN
       \/ Wrote(b, v) /\ Loop("home", "homeflush")
       \/ WriteError(b, v) /\ Poison(TRUE)

HomeFlush ==
    /\ pc = "homeflush"
    /\ \/ Flushed /\ Goto("clear") /\ Stays
       \/ FlushError /\ Poison(TRUE)

Clear ==
    /\ pc = "clear"
    /\ LET v == JState(job.next, 0) IN
       \/ Wrote(JSuper, v) /\ Goto("clearflush") /\ Stays
       \/ WriteError(JSuper, v) /\ Poison(TRUE)

ClearFlush ==
    /\ pc = "clearflush"
    /\ \/ /\ Flushed /\ Goto("idle") /\ Settle("ok")
          /\ jrnl' = [seq |-> job.next, start |-> 0]
          /\ mem' = Published
          /\ UNCHANGED <<job, crashes>>
       \/ FlushError /\ Poison(TRUE)

\* abort_uncommitted_journal
Abort ==
    /\ pc = "abort"
    /\ LET v == JState(jrnl.seq, 0) IN
       \/ Wrote(JSuper, v) /\ Goto("abortflush") /\ Stays
       \/ WriteError(JSuper, v) /\ Poison(FALSE)

\* Mutant: the journal stays marked in use after an abort.
AbortKeepsStart ==
    /\ pc = "abortflush"
    /\ \/ Flushed /\ Goto("idle") /\ Settle("aborted") /\ UNCHANGED <<jrnl, job, mem, crashes>>
       \/ FlushError /\ Poison(FALSE)

AbortFlush ==
    /\ pc = "abortflush"
    /\ \/ /\ Flushed /\ Goto("idle") /\ Settle("aborted")
          /\ jrnl' = [jrnl EXCEPT !.start = 0]
          /\ UNCHANGED <<job, mem, crashes>>
       \/ FlushError /\ Poison(FALSE)

TxStep == \/ BuildFails \/ Mark \/ MarkFlush \/ WriteDescriptor \/ WriteImage \/ ImageFlush
          \/ WriteCommit \/ CommitFlush \/ WriteHome \/ HomeFlush \/ Clear \/ ClearFlush
          \/ Abort \/ AbortFlush

------------------------------------------------------------------------------
\* The mount.  An error anywhere fails it and leaves what it has written.
MountFails == Goto("failed") /\ Stays

\* Mutant: an active journal without a sealed transaction is an error.
MountNeedsCommit ==
    /\ pc = "down"
    /\ Goto(CASE ~Accepts(live) -> "refused"
              [] Accepts(live) /\ StartOf(live) = 0 ->
                     IF HasIntent(live) THEN "feature" ELSE "intent"
              [] Accepts(live) /\ StartOf(live) # 0 ->
                     IF Plan(live).homes = << >> THEN "failed" ELSE "replay")
    /\ job' = IF StartOf(live) # 0 /\ Accepts(live) THEN Plan(live) ELSE NoJob
    /\ UNCHANGED <<media, live, jrnl, mem, ledger, errors, crashes>>

\* mount: read_super, load_group_descs and initialize_journal up to its first write.
Mount ==
    /\ pc = "down"
    /\ Goto(CASE ~Accepts(live) -> "refused"
              [] Accepts(live) /\ StartOf(live) = 0 ->
                     IF HasIntent(live) THEN "feature" ELSE "intent"
              [] Accepts(live) /\ StartOf(live) # 0 ->
                     IF Plan(live).homes = << >> THEN "reset" ELSE "replay")
    /\ job' = IF StartOf(live) # 0 /\ Accepts(live) THEN Plan(live) ELSE NoJob
    /\ UNCHANGED <<media, live, jrnl, mem, ledger, errors, crashes>>

EnsureIntent ==
    /\ pc = "intent"
    /\ \/ Wrote(JSuper, JIntent) /\ Goto("intentflush") /\ Stays
       \/ WriteError(JSuper, JIntent) /\ MountFails

IntentFlush ==
    /\ pc = "intentflush"
    /\ \/ Flushed /\ Goto("feature") /\ Stays
       \/ FlushError /\ MountFails

\* ensure_recovery_feature
EnsureRecover ==
    /\ pc = "feature"
    /\ \/ HasRecover(live) /\ Goto("publish") /\ UNCHANGED <<media, live, errors>> /\ Stays
       \/ ~HasRecover(live) /\ Wrote(Super, <<TRUE>>) /\ Goto("featureflush") /\ Stays
       \/ ~HasRecover(live) /\ WriteError(Super, <<TRUE>>) /\ MountFails

FeatureFlush ==
    /\ pc = "featureflush"
    /\ \/ Flushed /\ Goto("publish") /\ Stays
       \/ FlushError /\ MountFails

\* apply_internal_journal_recovery, homes in the order of the descriptor
Replay ==
    /\ pc = "replay"
    /\ LET b == Home(job.homes[job.n]) v == job.post[job.n] IN
       \/ Wrote(b, v) /\ Loop("replay", "replayflush")
       \/ WriteError(b, v) /\ MountFails

\* The homes are read back, and reload_recovered_metadata checks them once more.
ReplayFlush ==
    /\ pc = "replayflush"
    /\ \/ /\ Flushed /\ Stays
          /\ Goto(IF /\ \A i \in DOMAIN job.homes : live[Home(job.homes[i])] = job.post[i]
                     /\ Legible(live)
                  THEN "reset" ELSE "failed")
       \/ FlushError /\ MountFails

\* clear_recovered_journal
Reset ==
    /\ pc = "reset"
    /\ LET v == JState(job.next, 0) IN
       \/ Wrote(JSuper, v) /\ Goto("resetflush") /\ Stays
       \/ WriteError(JSuper, v) /\ MountFails

ResetFlush ==
    /\ pc = "resetflush"
    /\ \/ Flushed /\ Goto("publish") /\ Stays
       \/ FlushError /\ MountFails

Publish ==
    /\ pc = "publish"
    /\ Goto("idle")
    /\ jrnl' = [seq |-> SeqOf(live), start |-> StartOf(live)]
    /\ mem' = [h \in Homes |-> Number(live[Home(h)])]
    /\ UNCHANGED <<media, live, job, ledger, errors, crashes>>

MountStep == \/ Mount \/ EnsureIntent \/ IntentFlush \/ EnsureRecover \/ FeatureFlush \/ Replay
             \/ ReplayFlush \/ Reset \/ ResetFlush \/ Publish

------------------------------------------------------------------------------
\* Power fails, or is cut because the filesystem is of no use.
Broken == pc \in {"poisoned", "failed"}
Crash ==
    /\ pc # "down" \/ media # live
    /\ IF Broken THEN UNCHANGED crashes ELSE crashes < MaxCrashes /\ crashes' = crashes + 1
    /\ live' = media /\ Settle("lost")
    /\ Goto("down")
    /\ UNCHANGED <<media, jrnl, job, mem, errors>>

Init ==
    /\ \E s \in InitSeqs, intent \in BOOLEAN :
           media = [b \in Blocks |->
                        CASE b = JSuper -> <<s \div Base, s % Base, 0, intent>>
                          [] b = Super -> <<FALSE>>
                          [] b[1] = "home" -> Image(0)
                          [] OTHER -> Blank]
    /\ live = media
    /\ pc = "down"
    /\ jrnl = [seq |-> 0, start |-> 0]
    /\ job = NoJob
    /\ mem = [h \in Homes |-> 0]
    /\ ledger = << >> /\ errors = 0 /\ crashes = 0

Next ==
    \/ \E p \in Plans : Begin(p)
    \/ TxStep
    \/ MountStep
    \/ \E b \in Blocks : Persist(b)
    \/ Crash

Spec == Init /\ [][Next]_vars

\* The filesystem takes its next step, or it is switched off when it is of no use.
FairSpec == Spec /\ WF_vars(TxStep \/ MountStep \/ (Broken /\ Crash))

------------------------------------------------------------------------------
\* Properties.
Locations == {"down", "intent", "intentflush", "feature", "featureflush", "replay",
              "replayflush", "reset", "resetflush", "publish", "failed", "refused", "idle",
              "mark", "markflush", "descriptor", "image", "imageflush", "commit",
              "commitflush", "home", "homeflush", "clear", "clearflush", "abort",
              "abortflush", "poisoned"}
Mounted == pc \in Locations \ {"down", "intent", "intentflush", "feature", "featureflush",
                               "replay", "replayflush", "reset", "resetflush", "publish",
                               "failed", "refused"}

(* The types of the state.  The journal is marked in use in memory from the
   first write of a transaction to its end, and only then (Ext2Journal::start). *)
TypeOK ==
    /\ DOMAIN media = Blocks /\ DOMAIN live = Blocks
    /\ pc \in Locations
    /\ jrnl \in [seq : 0 .. Modulus - 1, start : {0, First}]
    /\ pc = "idle" => jrnl.start = 0
    /\ DOMAIN job.homes = DOMAIN job.post /\ job.n \in 1 .. MaxHomes
    /\ mem \in [Homes -> -1 .. MaxTx]
    /\ Len(ledger) <= MaxTx
    /\ errors \in 0 .. MaxErrors /\ crashes \in 0 .. MaxCrashes

(* A mount never refuses what a crash can leave behind, whatever blocks of an
   unfinished transaction, checkpoint, replay or reset reached the media, whole
   or torn: a torn home still passes the bounds that read_super and
   load_group_descs put on its counts before the journal is read, an active
   journal has its feature bits, each home of a sealed transaction passes
   checkpoint_matches_single_prefix, and under the images of the transaction no
   torn home is left.                                                         *)
MountAccepts == Accepts(media) /\ pc # "refused"

(* Recovery replays the newest transaction or none.  A commit block left by an
   earlier transaction is never taken for the current one, although slots are
   reused, sequence numbers wrap, an aborted transaction's number is used again,
   and a torn reset can leave a number that is neither the old nor the new one. *)
NoStaleReplay ==
    \A m \in {media, live} : StartOf(m) # 0 =>
        LET p == Plan(m) IN \A i \in DOMAIN p.post : p.post[i] = Image(Len(ledger))

(* The metadata in memory is never ahead of what recovery would rebuild from the
   media, and agrees with it and with the device between transactions, so a
   caller never acts on, or is shown, a change that power loss can undo.      *)
MemoryRecoverable ==
    Mounted => LET found == Recovered(media)
               IN /\ \A h \in Homes : mem[h] <= found[h]
                  /\ pc = "idle" => /\ mem = found
                                    /\ \A h \in Homes : live[Home(h)] = Image(mem[h])

(* The journal implements the atomic store: what recovery of the media would find
   changes only when a transaction takes place as a whole, a transaction whose
   caller was told of success has taken place and one that was aborted has not,
   and power loss changes nothing, at every point of the writer and of recovery. *)
Store == INSTANCE AtomicStore WITH store <- Recovered(media)
ImplementsStore == Store!Spec

(* A transaction returns, and a system that crashed or lost its mount is mounted
   again, once the device stops failing: recovery converges however often it
   is itself interrupted.                                                     *)
EventuallyMounted == (pc # "idle") ~> (pc = "idle")
=============================================================================
