------------------------------- MODULE Indexer -------------------------------
(* Event ingestion of the indexer: the lease that elects one writer          *)
(* (ingestionLock.ts), the listener that turns the transaction stream into   *)
(* rows and a cursor (eventListener.ts), the ledger-header check             *)
(* (reorgDetector.ts), rollback and replay (reorgRecovery.ts, replay.ts) and *)
(* the reconciliation job (consistencyJob.ts), over one shared database and  *)
(* a chain that grows and forks.                                             *)
(*                                                                           *)
(* A step is what a process does between two awaits, except that a record's  *)
(* rows and its cursor are two steps, since they are two transactions and a  *)
(* crash may fall between them. A ledger carries one transaction; its hash   *)
(* and the transaction's are the branch it was closed on. Wall time is the   *)
(* age of the lease. The walk to the fork point reads the chain at one       *)
(* instant.                                                                  *)
EXTENDS Naturals, FiniteSets, FiniteSetsExt, Sequences

CONSTANTS
    Writers,      \* processes with INGESTION_ENABLED
    Jobs,         \* reconciliation processes (scripts/reconcile.ts)
    MaxLedger,    \* bound on the chain's height
    MaxForks,     \* bound on the number of forks
    ForkMaxDepth, \* DEFAULT_FORK_MAX_DEPTH
    MaxFaults     \* bound on crashes and failed reads and writes

Procs    == Writers \cup Jobs
Ledgers  == 1..MaxLedger
Branches == 0..MaxForks
NoOne    == "no one"
Gone     == "gone"          \* the instance id of a process that crashed
Now      == MaxLedger + 1   \* the cursor 'now' of an indexer without a checkpoint
NoHeader == [hash |-> Now, parent |-> Now]
NoRecord == [ledger |-> 0, branch |-> 0]
NoMemo   == [ledger |-> 0, header |-> NoHeader]

ASSUME IngestAssumption == MaxLedger \in Nat /\ NoOne \notin Procs

VARIABLES
    chain,    \* Horizon: the branch of every closed ledger
    faults,   \* faults so far
    rows,     \* the events table, as the transactions it has rows of
    headers,  \* ledger_headers
    cursor,   \* last_processed_cursor
    halted,   \* reorg_halted
    pending,  \* pending_reorg: its divergence ledger, 0 when absent
    lease,    \* ingestion_leader: [holder, age]
    proc,     \* the memory of every process
    failed,   \* history: ledgers in the log whose transaction could not be processed
    origin,   \* history: the ledger of the first checkpoint, Now before it
    late,     \* history: running writers that have not renewed their lease in time
    overlap,  \* history: two writers have run at once
    blind     \* history: a recovery has met a header it could not read

db   == <<rows, headers, cursor, halted, pending>>
ingestVars == <<chain, faults, rows, headers, cursor, halted, pending, lease, proc,
          failed, origin, late, overlap, blind>>

hist == <<failed, origin, late, overlap, blind>>

tip == Len(chain)

Branch(l) == IF l = 0 THEN 0 ELSE chain[l]

\* GET /ledgers/{l}: the canonical header.
getLedgerHeader(l) == [hash |-> Branch(l), parent |-> Branch(l - 1)]

Stored == {l \in Ledgers : headers[l] # NoHeader}

Idle == [pc       |-> "idle",  \* where the process waits; "off" when not deployed
         pos      |-> 0,       \* the last record its stream delivered
         rec      |-> NoRecord,
         memo     |-> NoMemo,  \* lastHeader of the live detector
         stopped  |-> FALSE,
         resync   |-> FALSE,   \* resyncPending
         stale    |-> 0,       \* a stored ledger the chain contradicts
         from     |-> 0,       \* the ledger it recovers from, 0 outside a recovery
         upTo     |-> 0,       \* the last ledger of the pages it replays
         borrowed |-> FALSE]   \* took the lease for this recovery only

Go(p, r) == proc' = [proc EXCEPT ![p] = r]

Fault == faults < MaxFaults /\ faults' = faults + 1

-----------------------------------------------------------------------------
(* The chain *)

Extend ==
    /\ tip < MaxLedger
    /\ chain' = Append(chain, Branch(tip))
    /\ UNCHANGED <<faults, db, lease, proc, hist>>

\* Another branch overtakes the canonical one from ledger l on.
Fork(l) ==
    /\ \A i \in 1..tip : chain[i] < MaxForks
    /\ chain' = [i \in 1..tip |-> IF i < l THEN chain[i] ELSE Branch(tip) + 1]
    /\ UNCHANGED <<faults, db, lease, proc, hist>>

-----------------------------------------------------------------------------
(* The lease *)

Running(p) == proc[p].pc \notin {"off", "idle", "down"}

isLeader(p) == lease.holder = p /\ lease.age = "valid"

\* Mutant: a lease is free only when it was released.
MayAcquireReleased(p) == lease.holder \in {p, NoOne}

MayAcquire(p) == lease.holder \in {p, NoOne} \/ lease.age # "valid"

\* A lease that nobody renews runs out: that of a process that crashed, or of a
\* job, which has no heartbeat.
LeaseTick ==
    /\ lease.holder # NoOne /\ lease.age # "lapsed"
    /\ lease.holder \in Writers => ~ Running(lease.holder)
    /\ lease' = [lease EXCEPT !.age = "lapsed"]
    /\ UNCHANGED <<chain, faults, db, proc, hist>>

\* A running writer renews three times per lease, unless its event loop is held
\* up past expiresAt, or also past the grace of a late heartbeat.
Stall ==
    /\ lease.holder \in Writers /\ Running(lease.holder) /\ lease.age = "valid"
    /\ Fault
    /\ \E age \in {"expired", "lapsed"} : lease' = [lease EXCEPT !.age = age]
    /\ late' = late \cup {lease.holder}
    /\ UNCHANGED <<chain, db, proc, failed, origin, overlap, blind>>

\* Where a stream opened at the checkpoint stands.
Connected == IF cursor = Now THEN tip ELSE cursor

\* runAsLeader takes the lease and starts the listener at the stored cursor.
tryAcquire(p) ==
    /\ p \in Writers
    /\ proc[p].pc = "idle"
    /\ MayAcquire(p)
    /\ lease' = [holder |-> p, age |-> "valid"]
    /\ Go(p, [proc[p] EXCEPT !.pc = "live", !.stopped = FALSE,
                             !.pos = Connected])
    /\ overlap' = (overlap \/ \E q \in Procs \ {p} : Running(q))
    /\ UNCHANGED <<chain, faults, db, failed, origin, late, blind>>

release(p) ==
    lease' = IF lease.holder = p THEN [holder |-> NoOne, age |-> "lapsed"] ELSE lease

\* Mutant: a late renewal does not look whose the lease is by now.
heartbeat_blind(p) ==
    /\ p \in Writers /\ Running(p)
    /\ lease.age = "expired" \/ lease.holder # p
    /\ lease' = [holder |-> p, age |-> "valid"]
    /\ late' = late \ {p}
    /\ UNCHANGED <<chain, faults, db, proc, failed, origin, overlap, blind>>

\* Renews the lease, also a little late; a lost one stops the listener.
heartbeat(p) ==
    /\ p \in Writers /\ Running(p)
    /\ IF lease.holder = p /\ lease.age # "lapsed"
       THEN /\ lease.age = "expired"
            /\ lease' = [lease EXCEPT !.age = "valid"]
            /\ late' = IF proc[p].borrowed THEN late ELSE late \ {p}
            /\ UNCHANGED proc
       ELSE /\ ~ proc[p].stopped
            /\ Go(p, [proc[p] EXCEPT !.stopped = TRUE])
            /\ UNCHANGED <<lease, late>>
    /\ UNCHANGED <<chain, faults, db, failed, origin, overlap, blind>>

\* The stopped loop ends once it waits for the stream.
Stop(p) ==
    /\ proc[p].pc = "live" /\ proc[p].stopped
    /\ release(p)
    /\ Go(p, [proc[p] EXCEPT !.pc = "idle"])
    /\ late' = late \ {p}
    /\ UNCHANGED <<chain, faults, db, failed, origin, overlap, blind>>

\* The lease row outlives its holder; a restarted process has a new instance id.
Crash(p) ==
    /\ Running(p)
    /\ Fault
    /\ Go(p, [Idle EXCEPT !.pc = "down"])
    /\ lease' = IF lease.holder = p THEN [lease EXCEPT !.holder = Gone] ELSE lease
    /\ late' = late \ {p}
    /\ UNCHANGED <<chain, db, failed, origin, overlap, blind>>

Restart(p) ==
    /\ proc[p].pc = "down"
    /\ Go(p, Idle)
    /\ UNCHANGED <<chain, faults, db, lease, hist>>

-----------------------------------------------------------------------------
(* One record: verify its ledger, write its rows, checkpoint *)

\* The stream broke: connect again from the checkpoint.
Reconnect(p) ==
    /\ proc[p].pc = "live" /\ ~ proc[p].stopped
    /\ Fault
    /\ Go(p, [proc[p] EXCEPT !.pos = Connected])
    /\ UNCHANGED <<chain, db, lease, hist>>

\* The next record arrives. A halted indexer drops it; otherwise the listener
\* asks for the header of its ledger. Buffered records still arrive after stop.
Deliver(p) ==
    LET l == proc[p].pos + 1 IN
    /\ proc[p].pc = "live" /\ l <= tip
    /\ IF halted
       THEN Go(p, [proc[p] EXCEPT !.pos = l, !.resync = TRUE])
       ELSE Go(p, [proc[p] EXCEPT !.pos = l, !.pc = "header",
                                  !.rec = [ledger |-> l, branch |-> chain[l]]])
    /\ UNCHANGED <<chain, faults, db, lease, hist>>

Replaying(p) == proc[p].from # 0

Continue(p) == IF Replaying(p) THEN "replay" ELSE "live"

\* readHeader keeps the last header it read; a replay has a detector of its own.
readHeader(p, l) ==
    IF proc[p].memo.ledger = l /\ ~ Replaying(p) THEN proc[p].memo.header
    ELSE getLedgerHeader(l)

Remember(p, l, h) ==
    IF Replaying(p) THEN proc[p].memo ELSE [ledger |-> l, header |-> h]

\* Mutant: looks only at the ledger's own header.
ContradictedSelf(p, l, h) ==
    IF l \in Stored /\ headers[l].hash # h.hash THEN l ELSE 0

\* The stored ledger that header h of ledger l contradicts, 0 when there is
\* none. A replay does not look at the ledger above (strictSequence).
Contradicted(p, l, h) ==
    IF l \in Stored /\ headers[l].hash # h.hash THEN l
    ELSE IF l - 1 \in Stored /\ headers[l - 1].hash # h.parent THEN l - 1
    ELSE IF /\ l \notin Stored /\ ~ Replaying(p)
            /\ l + 1 \in Stored /\ headers[l + 1].parent # h.hash
         THEN l + 1
         ELSE 0

\* The header of the record's ledger arrives: it is stored, or contradicts the
\* stored history.
observe(p) ==
    LET l == proc[p].rec.ledger
        h == readHeader(p, l)
        c == Contradicted(p, l, h)
    IN  /\ proc[p].pc = "header"
        /\ Go(p, [proc[p] EXCEPT !.memo = Remember(p, l, h), !.stale = c,
                                 !.pc = IF c = 0 THEN "verified" ELSE "fork"])
        /\ headers' = IF c = 0 THEN [headers EXCEPT ![l] = h] ELSE headers
        /\ UNCHANGED <<chain, faults, rows, cursor, halted, pending, lease, hist>>

\* An unreadable header is not a divergence: the record goes on unverified.
Unverified(p) ==
    /\ proc[p].pc = "header"
    /\ Fault
    /\ Go(p, [proc[p] EXCEPT !.pc = "verified"])
    /\ blind' = (blind \/ Replaying(p))
    /\ UNCHANGED <<chain, db, lease, failed, origin, late, overlap>>

\* The latch is read again after the await; another process may have set it
\* meanwhile.
Blocked(p) == halted /\ ~ Replaying(p)

Drop(p) ==
    /\ proc[p].pc = "verified" /\ Blocked(p)
    /\ Go(p, [proc[p] EXCEPT !.pc = "live", !.resync = TRUE])
    /\ UNCHANGED <<chain, faults, db, lease, hist>>

\* The record's rows; a row that is already there is left alone.
WriteRows(p) ==
    /\ proc[p].pc = "verified" /\ ~ Blocked(p)
    /\ rows' = rows \cup {proc[p].rec}
    /\ Go(p, [proc[p] EXCEPT !.pc = "rows"])
    /\ UNCHANGED <<chain, faults, headers, cursor, halted, pending, lease, hist>>

\* Decoding or writing throws: logged, and the listener goes on.
WriteFails(p) ==
    /\ proc[p].pc = "verified" /\ ~ Blocked(p)
    /\ Fault
    /\ failed' = failed \cup {proc[p].rec.ledger}
    /\ Go(p, [proc[p] EXCEPT !.pc = Continue(p)])
    /\ UNCHANGED <<chain, db, lease, origin, late, overlap, blind>>

\* The cursor follows the rows. The first record after a halt reopens the
\* stream there.
Checkpoint(p) ==
    LET l == proc[p].rec.ledger
        reopen == proc[p].resync /\ ~ Replaying(p)
    IN  /\ proc[p].pc = "rows"
        /\ cursor' = l
        /\ origin' = IF origin = Now THEN l ELSE origin
        /\ Go(p, [proc[p] EXCEPT !.pc = Continue(p),
                                 !.resync = @ /\ ~ reopen,
                                 !.pos = IF reopen THEN l ELSE @])
        /\ UNCHANGED <<chain, faults, rows, headers, halted, pending, lease, failed,
                       late, overlap, blind>>

-----------------------------------------------------------------------------
(* A divergence: find the fork point, halt, roll back, replay *)

\* findDivergence: the stored headers at and below a stale one, the newest
\* ForkMaxDepth of them.
Walk(stale) ==
    LET below == {l \in Stored : l <= stale}
    IN  {l \in below : Cardinality({k \in below : k > l}) < ForkMaxDepth}

\* The first ledger to roll back: above the newest ledger of the walk that
\* still matches the chain, or that could not be read (unread, 0 for none).
divergenceLedger(stale, unread) ==
    LET walk   == Walk(stale)
        ground == {l \in walk : headers[l].hash = Branch(l) \/ l = unread}
    IN  IF ground # {} THEN Max(ground) + 1
        ELSE IF walk = {} THEN stale
        ELSE Min(walk)

UnreadOr0(unread) ==
    \/ unread = 0 /\ UNCHANGED faults
    \/ unread # 0 /\ Fault

latchHalt(d) == halted' = TRUE /\ pending' = d

\* The live path hands the divergence to recovery. Recovery's own replay only
\* records it and goes on with the next record.
Diverge(p, unread) ==
    LET d == divergenceLedger(proc[p].stale, unread) IN
    /\ proc[p].pc = "fork"
    /\ UnreadOr0(unread)
    /\ latchHalt(d)
    /\ blind' = (blind \/ unread # 0)
    /\ Go(p, IF Replaying(p) THEN [proc[p] EXCEPT !.pc = "replay"]
             ELSE [proc[p] EXCEPT !.pc = "lock", !.resync = TRUE, !.from = d])
    /\ UNCHANGED <<chain, rows, headers, cursor, lease, failed, origin, late, overlap>>

\* With the lease, held or taken for the occasion: latch the halt, and delete
\* everything from the divergence on in one transaction. The cursor stays.
rollbackIndexedState(p) ==
    LET d == proc[p].from IN
    /\ proc[p].pc = "lock" /\ MayAcquire(p)
    /\ lease' = IF isLeader(p) THEN lease ELSE [holder |-> p, age |-> "valid"]
    /\ halted' = TRUE /\ pending' = 0
    /\ rows' = {r \in rows : r.ledger < d}
    /\ headers' = [l \in Ledgers |-> IF l < d THEN headers[l] ELSE NoHeader]
    /\ Go(p, [proc[p] EXCEPT !.pc = "replay", !.borrowed = ~ isLeader(p), !.upTo = tip,
                             !.rec = [ledger |-> d - 1, branch |-> 0]])
    /\ failed' = {l \in failed : l < d}
    /\ UNCHANGED <<chain, faults, cursor, origin, late, overlap, blind>>

Recovered(p) ==
    [proc[p] EXCEPT !.pc = IF p \in Jobs THEN "idle" ELSE "live",
                    !.rec = NoRecord, !.stale = 0, !.from = 0, !.upTo = 0,
                    !.borrowed = FALSE]

\* acquireTimeoutMs passes while another process keeps the lease.
GiveUp(p) ==
    /\ proc[p].pc = "lock" /\ ~ MayAcquire(p)
    /\ Go(p, Recovered(p))
    /\ UNCHANGED <<chain, faults, db, lease, hist>>

\* The next record of the replayed pages, or a further page.
ReplayNext(p) ==
    LET l == proc[p].rec.ledger + 1 IN
    /\ proc[p].pc = "replay" /\ l <= tip
    /\ Go(p, [proc[p] EXCEPT !.pc = "header", !.upTo = IF l > @ THEN tip ELSE @,
                             !.rec = [ledger |-> l, branch |-> chain[l]]])
    /\ UNCHANGED <<chain, faults, db, lease, hist>>

EndRecovery(p) ==
    /\ IF proc[p].borrowed THEN release(p) ELSE UNCHANGED lease
    /\ Go(p, Recovered(p))

\* The halt is lifted unless the replay met a divergence of its own.
ReplayDone(p) ==
    /\ proc[p].pc = "replay" /\ proc[p].rec.ledger >= proc[p].upTo
    /\ halted' = (pending # 0)
    /\ EndRecovery(p)
    /\ UNCHANGED <<chain, faults, rows, headers, cursor, pending, hist>>

\* Mutant: the latch is cleared on the way out of a failed replay, too.
ReplayFailsOpen(p) ==
    /\ proc[p].pc = "replay"
    /\ Fault
    /\ halted' = FALSE /\ pending' = proc[p].from
    /\ EndRecovery(p)
    /\ UNCHANGED <<chain, rows, headers, cursor, hist>>

\* A page cannot be read: fail closed, with the divergence on record again.
ReplayFails(p) ==
    /\ proc[p].pc = "replay"
    /\ Fault
    /\ latchHalt(proc[p].from)
    /\ EndRecovery(p)
    /\ UNCHANGED <<chain, rows, headers, cursor, hist>>

-----------------------------------------------------------------------------

IngestInit ==
    /\ chain = << >> /\ faults = 0
    /\ rows = {} /\ headers = [l \in Ledgers |-> NoHeader]
    /\ cursor = Now /\ halted = FALSE /\ pending = 0
    /\ lease = [holder |-> NoOne, age |-> "lapsed"]
    /\ \E up \in (SUBSET Writers) \ {{}} :
           proc = [p \in Procs |-> IF p \in up \cup Jobs THEN Idle ELSE [Idle EXCEPT !.pc = "off"]]
    /\ failed = {} /\ origin = Now /\ late = {} /\ overlap = FALSE /\ blind = FALSE

Record(p) ==
    \/ Deliver(p) \/ observe(p) \/ WriteRows(p) \/ Checkpoint(p) \/ Drop(p)

Recovery(p) ==
    \/ \E u \in 0..MaxLedger : Diverge(p, u)
    \/ rollbackIndexedState(p) \/ GiveUp(p) \/ ReplayNext(p) \/ ReplayDone(p)

Leadership(p) == tryAcquire(p) \/ heartbeat(p) \/ Stop(p) \/ Restart(p)

Faulty(p) ==
    \/ Crash(p) \/ Reconnect(p) \/ Unverified(p) \/ WriteFails(p) \/ ReplayFails(p)

IngestNext ==
    \/ Extend \/ LeaseTick \/ Stall
    \/ \E l \in 1..tip : Fork(l)
    \/ \E p \in Procs : Record(p) \/ Recovery(p) \/ Leadership(p) \/ Faulty(p)

\* Timers fire and every await returns; the chain, faults and forks are free.
IngestFairness ==
    /\ WF_ingestVars(LeaseTick)
    /\ \A p \in Procs : WF_ingestVars(Record(p) \/ Recovery(p)) /\ WF_ingestVars(Leadership(p))

IngestSpec == IngestInit /\ [][IngestNext]_ingestVars /\ IngestFairness

-----------------------------------------------------------------------------

IngestTypeOK ==
    /\ chain \in Seq(Branches) /\ tip <= MaxLedger
    /\ faults \in 0..MaxFaults
    /\ rows \subseteq [ledger : Ledgers, branch : Branches]
    /\ headers \in [Ledgers -> [hash : Branches, parent : Branches] \cup {NoHeader}]
    /\ cursor \in 1..Now
    /\ halted \in BOOLEAN /\ pending \in 0..Now
    /\ lease.holder \in Procs \cup {NoOne, Gone} /\ lease.age \in {"valid", "expired", "lapsed"}

Linked ==
    \A l \in Ledgers \ {1} :
        {l, l - 1} \subseteq Stored => headers[l].parent = headers[l - 1].hash

\* Two neighbouring stored headers are parent and child: as long as the writers
\* take turns, ingestion never builds on a branch it has headers of and the
\* chain has left (observe compares both neighbours, rollback drops a suffix,
\* replay verifies without the latch).
HeadersLinked == overlap \/ Linked

\* A writer that runs holds the lease, or has been too late to renew it and has
\* not renewed it since: no step of another process takes it from a writer that
\* keeps time, and a late renewal never takes it back from a standby (tryAcquire,
\* heartbeat, withIngestionLock). So of two writers that run at once one is late.
OneWriter == \A p \in Writers : Running(p) => isLeader(p) \/ p \in late

done == {r.ledger : r \in rows} \cup failed

Log == INSTANCE IndexLog WITH
           None <- Now, mark <- cursor, sealed <- halted \/ overlap \/ blind

\* Ingestion implements the log it promises through crashes, failovers, failed
\* writes and forks: the cursor follows the rows, rows go only in a rollback
\* under the halt, and the halt is lifted only when the replay has caught up.
\* It promises so while the writers take turns (~ overlap) and the chain can be
\* read during a recovery (~ blind), as docs/indexer-reorg-handling.md requires.
ImplementsLog == Log!Spec

\* Outside a halt every ledger from the first checkpoint to the cursor has its
\* rows, unless its transaction could not be processed.
NoGap == halted \/ Log!CompleteUpTo(done, origin, cursor)

\* Once forks and faults end, a writer stands at the tip or ingestion is halted:
\* a standby takes the lease of a crashed leader over, and reopened streams
\* lead on.
CatchesUp ==
    <>[](halted \/ \E p \in Writers : proc[p].pc = "live" /\ proc[p].pos = tip)

=============================================================================
