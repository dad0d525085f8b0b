------------------------------- MODULE Rewards -------------------------------
(* What the invoice life cycle does to reputation and to rewards: the steps *)
(* of the invoice contract that move scores, profiles and the list of top   *)
(* payers and that report to the distribution contract, with that contract. *)
(* Money, disputes and pauses are in InvoiceEscrow; a payment stands for    *)
(* the one that completes the amount.                                       *)
EXTENDS Reputation, Distribution, FiniteSets, FiniteSetsExt

CONSTANTS
    NInvoices,
    Sizes,          \* amounts of invoices
    Durations,      \* due date minus the time of submission
    AppealWindow,   \* APPEAL_WINDOW_SECONDS
    DecayParams,    \* settings of decay_rate_bps and decay_period_ledgers
    Minimums,       \* settings of min_payer_reputation
    Cooldown,       \* ECONOMIC_PARAM_COOLDOWN_LEDGERS
    MaxTime         \* bound on the clock

ASSUME RewardsAssumption ==
    /\ Participants = Accounts
    /\ Sizes \subseteq Nat \ {0} /\ Durations \subseteq Nat \ {0}
    /\ DecayParams \subseteq [bps: 0..Bps, period: Nat]
    /\ Minimums \subseteq Nat /\ AppealWindow \in Nat /\ Cooldown \in Nat

VARIABLES
    inv,       \* Invoice(id), with its snapshot and appeal record
    book,      \* PayerScore, Reputation, TopPayersHeap, LpScore
    decay,     \* Config.decay_rate_bps, Config.decay_period_ledgers
    minimum,   \* MinPayerReputation
    limited,   \* RateLimit(function), the ledger of its last call
    now        \* ledger sequence and time

vars == <<inv, book, decay, minimum, limited, now, distVars>>

Invoices == 1..NInvoices

NoAccount == "none"

NoInvoice == [status |-> "Absent", freelancer |-> NoAccount, payer |-> NoAccount,
              amount |-> 0, funded |-> 0, funders |-> [a \in Accounts |-> 0], due |-> 0,
              paidAt |-> Never, before |-> Never, appealed |-> FALSE, upheld |-> FALSE]

Read(b, p) == get_payer_score(b, p, decay, now)

Assign(b, p, s) == set_payer_score(b, p, s, decay, now)

\* What a read of the score returns now.
Score(b, p) == DecayedScore(b.record[p], decay, now)

\* Whether the payer may be funded; the score is read only when there is a minimum.
MeetsMinimum(p) == minimum > 0 => Score(book, p) >= minimum

AfterGate(p) == IF minimum > 0 THEN Read(book, p) ELSE book

\* The invoice contract reports to the distribution contract in the same
\* invocation.
notify_distribution_funding(lp, amount) == accrue_lp(lp, amount)

notify_distribution_settlement(f, p, inTime) == accrue_settlement(f, p, inTime)

-----------------------------------------------------------------------------

SubmitInvoice(i, f, p, amount, duration) ==
    /\ \A k \in 1..i : inv[k].status = "Absent" <=> k = i
    /\ f # p
    /\ inv' = [inv EXCEPT ![i] = [NoInvoice EXCEPT
                   !.status = "Pending", !.freelancer = f, !.payer = p,
                   !.amount = amount, !.due = now + duration]]
    /\ book' = increment_invoices_submitted(Read(book, f), f)
    /\ UNCHANGED <<decay, minimum, limited, now, distVars>>

\* Mutant: only the funding that completes the invoice is reported, with its amount.
FundInvoiceReportedWhenFull(i, lp, amount) ==
    LET v    == inv[i]
        full == v.funded + amount = v.amount
        read == AfterGate(v.payer)
    IN  /\ v.status \in {"Pending", "PartiallyFunded"}
        /\ v.status = "Pending" => now <= v.due
        /\ amount > 0 /\ v.funded + amount <= v.amount
        /\ MeetsMinimum(v.payer)
        /\ inv' = [inv EXCEPT ![i].status = IF full THEN "Funded" ELSE "PartiallyFunded",
                              ![i].funded = @ + amount, ![i].funders[lp] = @ + amount]
        /\ book' = IF full THEN set_lp_score(read, lp, read.lpScore[lp] + 1) ELSE read
        /\ notify_distribution_funding(lp, IF full THEN amount ELSE 0)
        /\ UNCHANGED <<decay, minimum, limited, now>>

FundInvoice(i, lp, amount) ==
    LET v    == inv[i]
        full == v.funded + amount = v.amount
        read == AfterGate(v.payer)
    IN  /\ v.status \in {"Pending", "PartiallyFunded"}
        /\ v.status = "Pending" => now <= v.due
        /\ amount > 0 /\ v.funded + amount <= v.amount
        /\ MeetsMinimum(v.payer)
        /\ inv' = [inv EXCEPT ![i].status = IF full THEN "Funded" ELSE "PartiallyFunded",
                              ![i].funded = @ + amount, ![i].funders[lp] = @ + amount]
        /\ book' = IF full THEN set_lp_score(read, lp, read.lpScore[lp] + 1) ELSE read
        /\ notify_distribution_funding(lp, amount)
        /\ UNCHANGED <<decay, minimum, limited, now>>

MarkPaid(i) ==
    LET v == inv[i]
        b == Assign(book, v.payer, Score(book, v.payer) + 1)
    IN  /\ v.status = "Funded"
        /\ inv' = [inv EXCEPT ![i].status = "Paid", ![i].paidAt = now]
        /\ book' = increment_invoices_paid(increment_invoices_paid(b, v.payer), v.freelancer)
        /\ notify_distribution_settlement(v.freelancer, v.payer, now <= v.due)
        /\ UNCHANGED <<decay, minimum, limited, now>>

\* The score before the penalty is kept for an appeal.
ClaimDefault(i) ==
    LET v == inv[i]
        s == Score(book, v.payer)
    IN  /\ v.status = "Funded"
        /\ now >= v.due
        /\ inv' = [inv EXCEPT ![i].status = "Defaulted", ![i].before = s]
        /\ book' = increment_invoices_defaulted(
                       Assign(book, v.payer, IF s > Penalty THEN s - Penalty ELSE 0), v.payer)
        /\ UNCHANGED <<decay, minimum, limited, now, distVars>>

AppealDefault(i) ==
    /\ ~ inv[i].appealed
    /\ inv[i].status = "Defaulted"
    /\ now <= inv[i].due + AppealWindow
    /\ inv' = [inv EXCEPT ![i].status = "Appealed", ![i].appealed = TRUE]
    /\ UNCHANGED <<book, decay, minimum, limited, now, distVars>>

\* Either way the invoice is Defaulted again.
ResolveAppeal(i, upheld) ==
    LET v == inv[i]
        b == Assign(book, v.payer, v.before)
    IN  /\ v.status = "Appealed"
        /\ inv' = [inv EXCEPT ![i].status = "Defaulted", ![i].upheld = upheld]
        /\ book' = IF upheld
                   THEN set_reputation(b, v.payer, [b.profile[v.payer] EXCEPT
                            !.defaulted = IF @ > 0 THEN @ - 1 ELSE 0])
                   ELSE book
        /\ UNCHANGED <<decay, minimum, limited, now, distVars>>

\* payer_score and suggested_discount_rate are open to anyone, and write.
PayerScore(p) ==
    /\ Read(book, p) # book
    /\ book' = Read(book, p)
    /\ UNCHANGED <<inv, decay, minimum, limited, now, distVars>>

check_rate_limit(f) ==
    /\ limited[f] # Never => now >= limited[f] + Cooldown
    /\ limited' = [limited EXCEPT ![f] = now]

UpdateDecayParams(d) ==
    /\ check_rate_limit("decay")
    /\ decay' = d
    /\ book' = [book EXCEPT !.given = book.record]
    /\ UNCHANGED <<inv, minimum, now, distVars>>

SetMinPayerReputation(m) ==
    /\ check_rate_limit("minimum")
    /\ minimum' = m
    /\ UNCHANGED <<inv, book, decay, now, distVars>>

ClaimTokens(a) ==
    /\ claim_tokens(a)
    /\ UNCHANGED <<inv, book, decay, minimum, limited, now>>

SetRewardRate(k, r) ==
    /\ set_reward_rate(k, r)
    /\ UNCHANGED <<inv, book, decay, minimum, limited, now>>

Tick ==
    /\ now < MaxTime
    /\ now' = now + 1
    /\ UNCHANGED <<inv, book, decay, minimum, limited, distVars>>

-----------------------------------------------------------------------------

Init ==
    /\ inv = [i \in Invoices |-> NoInvoice]
    /\ book = EmptyBook
    /\ decay \in DecayParams
    /\ minimum = 0
    /\ limited = [f \in {"decay", "minimum"} |-> Never]
    /\ now = 0
    /\ DistInit

Submission ==
    \E i \in Invoices, f, p \in Accounts, amount \in Sizes, d \in Durations :
        SubmitInvoice(i, f, p, amount, d)

Funding ==
    \E i \in Invoices, lp \in Accounts, amount \in Amounts : FundInvoice(i, lp, amount)

Outcome ==
    \E i \in Invoices :
        \/ MarkPaid(i)
        \/ ClaimDefault(i)
        \/ AppealDefault(i)
        \/ \E upheld \in BOOLEAN : ResolveAppeal(i, upheld)

Governing ==
    \/ \E d \in DecayParams : UpdateDecayParams(d)
    \/ \E m \in Minimums : SetMinPayerReputation(m)

Rewarding ==
    \/ \E a \in Accounts : ClaimTokens(a)
    \/ \E k \in Kinds, r \in Rates : SetRewardRate(k, r)

Next ==
    \/ Submission
    \/ Funding
    \/ Outcome
    \/ \E p \in Accounts : PayerScore(p)
    \/ Governing
    \/ Rewarding
    \/ Tick

Spec == Init /\ [][Next]_vars

-----------------------------------------------------------------------------

Of(p) == {i \in Invoices : inv[i].payer = p}

Defaults(p) == {i \in Of(p) : inv[i].before # Never}

Reversed(p) == {i \in Defaults(p) : inv[i].upheld}

\* set_payer_score, the decay on read, the counters and an upheld appeal all
\* rewrite the same profile.  A stored score and its profile never drift apart,
\* and the profile counts the payer's defaults, less at most the reversed ones:
\* none is lost or counted twice.
ProfileFollows ==
    \A p \in Accounts :
        /\ IF book.record[p] = NoScore
           THEN book.profile[p].score \in {0, DefaultScore}
           ELSE book.profile[p].score = book.record[p].score
        /\ book.profile[p].defaulted \in
             Cardinality(Defaults(p) \ Reversed(p))..Cardinality(Defaults(p))

\* The periods taken off for certain after a time.  A read that restarts the clock
\* has taken a period off, and forfeits less than one more.
PeriodsDue(elapsed) ==
    IF decay.bps = 0 \/ decay.period = 0 THEN 0
    ELSE (elapsed + decay.period - 1) \div (2 * decay.period - 1)

\* get_payer_score writes the decayed score back and restarts the clock.  Reads
\* never speed the decay up: a score is never below what one decay over the whole
\* time since it was assigned leaves.  They can put it off, as the begun period is
\* forfeited, but not stop it: whoever reads and whenever, a period is taken off in
\* less than every two that pass.
ReadsBounded ==
    \A p \in Accounts :
        LET g == book.given[p] IN
        /\ Score(book, p) >= DecayedScore(g, decay, now)
        /\ Score(book, p) <= IF g = NoScore THEN g.score
                             ELSE Rounds(g.score, PeriodsDue(now - g.at), decay.bps)

\* The two together: what every reader is told about a payer follows from what
\* the payer did and from the time that passed, up to the delay by reads.
ScoresSound == ProfileFollows /\ ReadsBounded

\* Every removal, insertion and replacement leaves a min-heap of at most Capacity
\* entries that lists each payer once; a full list stays full, and a payer's entry
\* may lag behind decay but never shows less than the payer's score.
HeapSound ==
    LET h == book.heap IN
    /\ BookType(book)
    /\ IsHeap(h)
    /\ Cardinality(Listed(h)) = Len(h) /\ Len(h) <= Capacity
    /\ \A k \in 1..Len(h) : h[k].score >= Score(book, h[k].address)
    /\ Len(h) < Capacity =>
         \A p \in Accounts : book.given[p] # NoScore => p \in Listed(h)
    /\ LET top == get_top_payers(h, Capacity) IN
       /\ Listed(top) = Listed(h)
       /\ \A j, k \in 1..Len(top) : j < k => top[j].score >= top[k].score

\* The list of the top payers is sound after every change (HeapSound), and a payer
\* leaves it only for a newcomer with a better score (insert_into_heap in
\* top_payers.rs, under payments, defaults, appeals and decaying reads).
TopPayersSound ==
    [][book' # book =>
         /\ HeapSound'
         /\ \A k \in 1..Len(book.heap) :
              book.heap[k].address \notin Listed(book.heap') =>
                  \E j \in 1..Len(book.heap') :
                      /\ book.heap'[j].address \notin Listed(book.heap)
                      /\ book.heap'[j].score > book.heap[k].score]_vars

\* The distribution contract trusts the reports of the invoice contract: what it
\* has recorded for an LP is what that LP has funded invoices with, up to the
\* amounts it ignores, and the settlements are those of the freelancer and of the
\* payer in time.
AccrualsMatchInvoices ==
    LET Funded(a, is) == MapThenSumSet(LAMBDA i : inv[i].funders[a], is)
    IN  \A a \in Accounts :
          /\ Funded(a, {i \in Invoices : inv[i].amount <= MaxAccrual}) <= volume[a]
          /\ volume[a] <= Funded(a, Invoices)
          /\ settled[a] = Cardinality({i \in Invoices :
                             inv[i].paidAt # Never /\ inv[i].freelancer = a})
          /\ onTime[a] = Cardinality({i \in Of(a) : inv[i].paidAt \in 0..inv[i].due})
=============================================================================
