------------------------------ MODULE FundQueue ------------------------------
(* The LP priority queue of one invoice (join_fund_queue,                   *)
(* resolve_fund_queue, recover_fund_queue, and the gate in fund_invoice).   *)
(*                                                                          *)
(* LPs register, a delay passes, anybody locks in the LP with the best      *)
(* score, and only that LP may fund; a winner who does not fund can be      *)
(* evicted.  The invoice is reduced to what the queue looks at: "Closed"    *)
(* stands for Paid, Defaulted, Appealed, Expired and Cancelled.  One clock  *)
(* counts ledgers and seconds.                                              *)
EXTENDS Integers, Sequences, Lists

CONSTANTS
    LPs,          \* liquidity providers
    NoOne,        \* no resolution
    MaxQueue,     \* MAX_FUND_QUEUE_LEN
    Delay,        \* QUEUE_DELAY_LEDGERS
    Grace,        \* QUEUE_RESOLUTION_TTL_LEDGERS
    NearExpiry,   \* NEAR_EXPIRY_WINDOW_SECS
    InitScore,    \* DEFAULT_LP_SCORE
    MaxScore,     \* the cap of set_lp_score
    Due,          \* due date of the invoice
    MaxClock       \* bound: the clock's horizon

NoTime == -1

ASSUME QueueAssumption ==
    /\ NoOne \notin LPs
    /\ MaxQueue \in Nat /\ Delay \in Nat /\ Grace \in Nat /\ NearExpiry \in Nat
    /\ Delay <= Grace
    /\ InitScore \in Nat /\ MaxScore \in Nat /\ InitScore <= MaxScore
    /\ Due \in Nat /\ MaxClock \in Nat

VARIABLES
    status,      \* the invoice's status, apart from disputes
    dispute,     \* "None", "Open" (then the status is Disputed) or "Over"
    score,       \* LpScore(lp)
    queue,       \* FundQueue(id): [lp, score] with the score at joining time
    openedAt,    \* FundQueueOpenedAt(id), or NoTime
    resolution,  \* QueueResolution(id), or NoOne
    resolvedAt,  \* QueueResolvedAt(id), or NoTime
    paused,
    clock,
    evictedAt    \* history: when recover_fund_queue last evicted, or NoTime

fundVars == <<status, dispute, score, queue, openedAt, resolution, resolvedAt, paused,
             clock, evictedAt>>

queueVars == <<queue, openedAt, resolution, resolvedAt, evictedAt>>

Request == [lp: LPs, score: 0..MaxScore]

Fundable == status \in {"Pending", "PartiallyFunded"} /\ dispute # "Open"

\* require_queueable: also refuses a partially funded invoice past its due
\* date, which fund_invoice still accepts.
Queueable == Fundable /\ clock <= Due

Queued == {queue[k].lp : k \in 1..Len(queue)}

-----------------------------------------------------------------------------

\* A joiner goes before the first entry with a lower score.
InsertSorted(q, r) ==
    LET lower == {k \in 1..Len(q) : q[k].score < r.score}
        pos   == IF lower = {} THEN Len(q) + 1
                 ELSE CHOOSE k \in lower : \A j \in lower : k <= j
    IN  SubSeq(q, 1, pos - 1) \o <<r>> \o SubSeq(q, pos, Len(q))

\* (The displacement of the last entry of a full queue further down in
\* join_fund_queue is never reached: a full queue has been refused before.)
JoinFundQueue(lp) ==
    /\ ~ paused
    /\ resolution = NoOne
    /\ Queueable
    /\ Len(queue) < MaxQueue
    /\ lp \notin Queued
    /\ queue' = InsertSorted(queue, [lp |-> lp, score |-> score[lp]])
    /\ openedAt' = IF openedAt = NoTime THEN clock ELSE openedAt
    /\ UNCHANGED <<status, dispute, score, resolution, resolvedAt, paused, clock, evictedAt>>

\* Mutant: decides on the scores at joining time.
BestBySnapshot == {queue[1].lp}

\* The queued LPs with the highest current score.
Best == {a \in Queued : \A b \in Queued : score[b] <= score[a]}

\* Among equals the network's random generator decides.
ResolveFundQueue(lp) ==
    /\ ~ paused
    /\ resolution = NoOne
    /\ Queueable
    /\ queue # << >>
    /\ openedAt # NoTime
    /\ clock >= openedAt + Delay
    /\ lp \in Best
    /\ resolution' = lp
    /\ resolvedAt' = clock
    /\ UNCHANGED <<status, dispute, score, queue, openedAt, paused, clock, evictedAt>>

\* clear_fund_queue_state
clear_fund_queue_state ==
    /\ queue' = << >>
    /\ openedAt' = NoTime
    /\ resolution' = NoOne
    /\ resolvedAt' = NoTime

\* Mutant: the window of the first round still counts.
reopen_without_restart(remaining) ==
    /\ queue' = remaining
    /\ openedAt' = IF remaining = << >> THEN NoTime ELSE openedAt
    /\ resolution' = NoOne
    /\ resolvedAt' = NoTime

\* The maturity window starts again for those who remain.
reopen_fund_queue(remaining) ==
    /\ queue' = remaining
    /\ openedAt' = IF remaining = << >> THEN NoTime ELSE clock
    /\ resolution' = NoOne
    /\ resolvedAt' = NoTime

\* Purge what is left of the queue of an invoice that cannot be funded.
PurgeFundQueue ==
    /\ ~ paused
    /\ queue # << >> \/ resolution # NoOne
    /\ ~ Queueable
    /\ clear_fund_queue_state
    /\ UNCHANGED <<status, dispute, score, paused, clock, evictedAt>>

\* Evict a winner who did not fund in time; close to the due date the time is
\* shorter.
EvictWinner ==
    /\ ~ paused
    /\ resolution # NoOne
    /\ Queueable
    /\ clock >= resolvedAt + (IF Due - clock <= NearExpiry THEN Delay ELSE Grace)
    /\ reopen_fund_queue(Keep(queue, {k \in 1..Len(queue) : queue[k].lp # resolution}))
    /\ evictedAt' = clock
    /\ UNCHANGED <<status, dispute, score, paused, clock>>

\* Mutant: only evicts, so that the queue of a dead invoice stays.
RecoverLiveQueue == EvictWinner

RecoverFundQueue == PurgeFundQueue \/ EvictWinner

-----------------------------------------------------------------------------
(* What happens to the invoice around the queue.                            *)

\* set_lp_score caps the score.
Boosted(lp) == [score EXCEPT ![lp] = IF @ < MaxScore THEN @ + 1 ELSE MaxScore]

\* fund_invoice: the gate, and the boost for the LP who completes the amount.
\* Nothing is done to the queue.
FundInvoice(lp, full) ==
    /\ ~ paused
    /\ resolution \in {NoOne, lp}
    /\ Fundable
    /\ status = "Pending" => clock <= Due
    /\ status' = IF full THEN "Funded" ELSE "PartiallyFunded"
    /\ score' = IF full THEN Boosted(lp) ELSE score
    /\ UNCHANGED <<dispute, paused, clock>>
    /\ UNCHANGED queueVars

\* The LP completes another invoice.
FundElsewhere(lp) ==
    /\ ~ paused
    /\ score' = Boosted(lp)
    /\ UNCHANGED <<status, dispute, paused, clock>>
    /\ UNCHANGED queueVars

\* cancel_invoice, expire_invoice, mark_paid, claim_default: none touches the
\* queue.
Close ==
    /\ ~ paused
    /\ status # "Closed"
    /\ dispute # "Open"
    /\ status' = "Closed"
    /\ UNCHANGED <<dispute, score, paused, clock>>
    /\ UNCHANGED queueVars

Dispute ==
    /\ ~ paused
    /\ status # "Closed"
    /\ dispute = "None"
    /\ dispute' = "Open"
    /\ UNCHANGED <<status, score, paused, clock>>
    /\ UNCHANGED queueVars

\* The admin cancels the invoice, or the admin or the timeout restores what it
\* was; one that was partially funded with nothing falls back to Pending.
EndDispute(to) ==
    /\ dispute = "Open"
    /\ to \in {"Closed", status} \/ (status = "PartiallyFunded" /\ to = "Pending")
    /\ dispute' = "Over"
    /\ status' = to
    /\ UNCHANGED <<score, paused, clock>>
    /\ UNCHANGED queueVars

SetPaused(p) ==
    /\ paused' = p
    /\ UNCHANGED <<status, dispute, score, clock>>
    /\ UNCHANGED queueVars

ClockTick ==
    /\ clock < MaxClock
    /\ clock' = clock + 1
    /\ UNCHANGED <<status, dispute, score, paused>>
    /\ UNCHANGED queueVars

QueueInit ==
    /\ status = "Pending"
    /\ dispute = "None"
    /\ score \in [LPs -> {InitScore}]
    /\ queue = << >>
    /\ openedAt = NoTime
    /\ resolution = NoOne
    /\ resolvedAt = NoTime
    /\ paused = FALSE
    /\ clock = 0
    /\ evictedAt = NoTime

QueueNext ==
    \/ \E lp \in LPs : \/ JoinFundQueue(lp)
                       \/ ResolveFundQueue(lp)
                       \/ \E full \in BOOLEAN : FundInvoice(lp, full)
                       \/ FundElsewhere(lp)
    \/ RecoverFundQueue
    \/ Close
    \/ Dispute
    \/ \E to \in {"Pending", "PartiallyFunded", "Funded", "Closed"} : EndDispute(to)
    \/ \E p \in BOOLEAN : SetPaused(p)
    \/ ClockTick

QueueSpec == QueueInit /\ [][QueueNext]_fundVars

\* Ledgers close, and keepers call recover_fund_queue, which is open to anybody,
\* whenever it would succeed often enough.
FairQueueSpec == QueueSpec /\ WF_fundVars(ClockTick) /\ SF_fundVars(RecoverFundQueue)

-----------------------------------------------------------------------------
(* Properties                                                               *)

\* Scores stay within the cap of set_lp_score, and the entries of the queue
\* keep their types.
QueueTypeOK ==
    /\ status \in {"Pending", "PartiallyFunded", "Funded", "Closed"}
    /\ dispute \in {"None", "Open", "Over"}
    /\ score \in [LPs -> 0..MaxScore]
    /\ queue \in Seq(Request)
    /\ openedAt \in Nat \cup {NoTime}
    /\ resolution \in LPs \cup {NoOne}
    /\ resolvedAt \in Nat \cup {NoTime}
    /\ paused \in BOOLEAN
    /\ clock \in Nat
    /\ evictedAt \in Nat \cup {NoTime}

\* A winner is locked in only after the others have had the whole delay to
\* join, counted from the first join of this round and from the last eviction,
\* however often the queue was purged, reopened or carried through a dispute
\* (resolve_fund_queue, reopen_fund_queue, try_set_fund_queue_opened_at).
FairWindow ==
    resolution # NoOne =>
        /\ resolvedAt >= openedAt + Delay
        /\ evictedAt # NoTime => resolvedAt >= evictedAt + Delay

\* The queue is sorted by the scores at joining time, lists nobody twice and
\* respects its cap, through joins, evictions, purges and disputes; whoever is
\* locked in is one of those listed and had to wait for the window
\* (join_fund_queue, resolve_fund_queue, recover_fund_queue).
QueueSound ==
    /\ \A j, k \in 1..Len(queue) : j < k => /\ queue[j].score >= queue[k].score
                                            /\ queue[j].lp # queue[k].lp
    /\ Len(queue) <= MaxQueue
    /\ queue # << >> <=> openedAt # NoTime
    /\ resolution # NoOne => resolution \in Queued
    /\ FairWindow

\* The winner is the best by the scores of the moment, although scores change
\* between joining and resolving (issue #1019), and keeps the exclusive right for
\* at least the delay, unless the invoice can no longer be queued for
\* (resolve_fund_queue, recover_fund_queue).
WinnerRightful ==
    [][resolution' # resolution =>
         IF resolution = NoOne
         THEN \A a \in Queued : score[a] <= score[resolution']
         ELSE clock >= resolvedAt + Delay \/ ~ Queueable]_fundVars

\* No winner blocks an invoice for ever: unless the contract stays paused, every
\* lock-in is lifted, whatever happens to the invoice (recover_fund_queue).
LockLifted ==
    []<>(~ paused) => ((resolution # NoOne) ~> (resolution = NoOne))

=============================================================================
