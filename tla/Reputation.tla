----------------------------- MODULE Reputation ------------------------------
(* Reputation in the invoice contract: payer scores with lazy decay, the    *)
(* detailed profiles kept beside them, and the bounded min-heap of top      *)
(* payers.  A book holds all of it; the operators take a book and return    *)
(* the book after the call, as one invocation chains several of them.       *)
EXTENDS Integers, Sequences, SequencesExt

CONSTANTS
    Accounts,
    MaxScore,       \* the cap of 100
    DefaultScore,   \* DEFAULT_PAYER_SCORE, DEFAULT_LP_SCORE
    Penalty,        \* the 5 points of a default
    Capacity,       \* TOP_PAYERS_CAPACITY
    MaxPeriods,     \* MAX_REPUTATION_DECAY_PERIODS
    Bps             \* 10_000

ASSUME ReputationAssumption ==
    /\ MaxScore \in Nat /\ DefaultScore \in 0..MaxScore
    /\ Penalty \in Nat /\ Capacity \in Nat \ {0}
    /\ MaxPeriods \in Nat /\ Bps \in Nat \ {0}

Never == -1

\* No PayerScore entry: the default, which does not decay.
NoScore == [score |-> DefaultScore, at |-> Never]

Records == [score: 0..MaxScore, at: Nat] \cup {NoScore}

Profiles == [submitted: Nat, paid: Nat, defaulted: Nat, score: 0..MaxScore]

NoProfile == [submitted |-> 0, paid |-> 0, defaulted |-> 0, score |-> 0]

\* given is a history field: each payer's score as it was last assigned, or as it
\* stood when the decay parameters last changed.
EmptyBook == [record  |-> [a \in Accounts |-> NoScore],
              profile |-> [a \in Accounts |-> NoProfile],
              heap    |-> <<>>,
              lpScore |-> [a \in Accounts |-> DefaultScore],
              given   |-> [a \in Accounts |-> NoScore]]

Lesser(m, n) == IF m < n THEN m ELSE n

-----------------------------------------------------------------------------
(* The heap.  Index 0 of the code is index 1 here.                          *)

Parent(k) == k \div 2

Swap(h, j, k) == [h EXCEPT ![j] = h[k], ![k] = h[j]]

RECURSIVE sift_up(_, _)
sift_up(h, k) ==
    IF k = 1 \/ h[k].score >= h[Parent(k)].score THEN h
    ELSE sift_up(Swap(h, k, Parent(k)), Parent(k))

\* Of a node and its children the first with the least score.
Smallest(h, k) ==
    LET left  == IF 2*k <= Len(h) /\ h[2*k].score < h[k].score THEN 2*k ELSE k
    IN  IF 2*k + 1 <= Len(h) /\ h[2*k + 1].score < h[left].score THEN 2*k + 1 ELSE left

RECURSIVE sift_down(_, _)
sift_down(h, k) ==
    LET s == Smallest(h, k)
    IN  IF s = k THEN h ELSE sift_down(Swap(h, k, s), s)

Listed(h) == {h[k].address : k \in 1..Len(h)}

\* The last entry fills the hole and moves up or down from there.
remove_payer_from_heap(h, p) ==
    IF p \notin Listed(h) THEN h
    ELSE LET k == CHOOSE j \in 1..Len(h) : h[j].address = p
             g == Front([h EXCEPT ![k] = Last(h)])
         IN  IF k > Len(g) THEN g
             ELSE IF k > 1 /\ g[k].score < g[Parent(k)].score THEN sift_up(g, k)
             ELSE sift_down(g, k)

\* Mutant: an equal score takes the place too.
insert_on_tie(h, p, s) ==
    LET e == [address |-> p, score |-> s]
    IN  IF Len(h) < Capacity THEN sift_up(Append(h, e), Len(h) + 1)
        ELSE IF s < h[1].score THEN h
        ELSE sift_down([h EXCEPT ![1] = e], 1)

\* A full heap takes a newcomer only over its least score.
insert_into_heap(h, p, s) ==
    LET e == [address |-> p, score |-> s]
    IN  IF Len(h) < Capacity THEN sift_up(Append(h, e), Len(h) + 1)
        ELSE IF s <= h[1].score THEN h
        ELSE sift_down([h EXCEPT ![1] = e], 1)

update_top_payers_on_score_change(h, p, s) ==
    insert_into_heap(remove_payer_from_heap(h, p), p, s)

\* Repeatedly the first of the remaining entries with the greatest score.
get_top_payers(h, limit) ==
    LET Best(ks) == CHOOSE k \in ks :
                        /\ \A j \in ks : h[j].score <= h[k].score
                        /\ \A j \in ks : j < k => h[j].score < h[k].score
        rest[n \in 0..Len(h)] ==
            IF n = 0 THEN 1..Len(h) ELSE rest[n-1] \ {Best(rest[n-1])}
    IN  [n \in 1..Lesser(limit, Len(h)) |-> h[Best(rest[n-1])]]

-----------------------------------------------------------------------------
(* Scores and profiles.                                                     *)

\* A period takes its share, and one point at least.
DecayOnce(s, bps) ==
    LET cut == (s * bps) \div Bps
    IN  s - (IF cut = 0 /\ s > 0 THEN 1 ELSE cut)

Rounds(s, periods, bps) ==
    LET d[n \in 0..periods] == IF n = 0 THEN s ELSE DecayOnce(d[n-1], bps)
    IN  d[periods]

Decay(s, periods, bps) == IF periods > MaxPeriods THEN 0 ELSE Rounds(s, periods, bps)

\* The score that a record has come to at a ledger under decay parameters d.
DecayedScore(r, d, ledger) ==
    IF r.at # Never /\ d.period > 0 /\ d.bps > 0 /\ ledger - r.at >= d.period
    THEN Lesser(Decay(r.score, (ledger - r.at) \div d.period, d.bps), MaxScore)
    ELSE r.score

\* set_reputation with one field changed; a zeroed profile is not stored.
set_reputation(b, a, profile) == [b EXCEPT !.profile[a] = profile]

\* Mutant: every read of a stored score restarts the clock.
get_payer_score_restarting(b, p, d, ledger) ==
    LET s == DecayedScore(b.record[p], d, ledger)
    IN  IF b.record[p] = NoScore THEN b
        ELSE [b EXCEPT !.record[p] = [score |-> s, at |-> ledger], !.profile[p].score = s]

\* The book after a read: a score that has decayed is written back, with the
\* profile, as of the ledger of the read.  The heap is not touched.
get_payer_score(b, p, d, ledger) ==
    LET s == DecayedScore(b.record[p], d, ledger)
    IN  IF s = b.record[p].score THEN b
        ELSE set_reputation([b EXCEPT !.record[p] = [score |-> s, at |-> ledger]], p,
                            [b.profile[p] EXCEPT !.score = s])

\* The default score is stored by removing the entry.
RecordOf(s, ledger) ==
    IF s = DefaultScore THEN NoScore ELSE [score |-> s, at |-> ledger]

\* Reads first, and updates the list only when the score differs from that read.
set_payer_score(b, p, score, d, ledger) ==
    LET s    == Lesser(score, MaxScore)
        read == get_payer_score(b, p, d, ledger)
        r    == [read EXCEPT !.record[p] = RecordOf(s, ledger), !.given[p] = RecordOf(s, ledger)]
        w    == set_reputation(r, p, [r.profile[p] EXCEPT !.score = s])
    IN  IF read.record[p].score = s THEN w
        ELSE [w EXCEPT !.heap = update_top_payers_on_score_change(w.heap, p, s)]

increment_invoices_submitted(b, a) ==
    set_reputation(b, a, [b.profile[a] EXCEPT !.submitted = @ + 1])

increment_invoices_paid(b, a) ==
    set_reputation(b, a, [b.profile[a] EXCEPT !.paid = @ + 1])

increment_invoices_defaulted(b, a) ==
    set_reputation(b, a, [b.profile[a] EXCEPT !.defaulted = @ + 1])

set_lp_score(b, lp, score) == [b EXCEPT !.lpScore[lp] = Lesser(score, MaxScore)]

-----------------------------------------------------------------------------

BookType(b) ==
    /\ b.record \in [Accounts -> Records] /\ b.given \in [Accounts -> Records]
    /\ b.profile \in [Accounts -> Profiles]
    /\ b.heap \in Seq([address: Accounts, score: 0..MaxScore])
    /\ b.lpScore \in [Accounts -> 0..MaxScore]

IsHeap(h) == \A k \in 2..Len(h) : h[Parent(k)].score <= h[k].score
=============================================================================
