--------------------------- MODULE InsurancePool -----------------------------
(* The insurance pool: premiums and their backstop share, claims with tiers, *)
(* the review window and the solvency breaker, timelocked changes, the       *)
(* default counters and the quotes, flags and estimates drawn from them.     *)
(* Claims arrive from claim_default of the invoice contract, which uses      *)
(* try_claim and goes on when the claim fails.                               *)
(*                                                                           *)
(* Every administrative call needs the authorization of the one stored       *)
(* admin.  The invoice contract calls nothing but is_enrolled and claim, so  *)
(* while it is the admin there are no administrative calls.                  *)
EXTENDS Integers, FiniteSets, Lists

CONSTANTS
    NLps,            \* LPs are numbered 1..NLps
    NPayers,         \* payers are numbered 1..NPayers
    Invoices,
    Accounts,        \* accounts that can be the admin
    Liquidity,       \* the invoice contract
    Bps,             \* 10000 in the code
    BaseRate,        \* the base premium rate until one is set
    Amounts,         \* premiums and top-ups offered
    Coverages,       \* coverage caps offered
    Caps,            \* balance caps offered; 0 removes the cap
    Windows,         \* review windows offered; 0 switches the review off
    Multipliers,     \* risk multipliers offered, as <<numerator, denominator>>
    MinPairDefaults, \* MIN_PAIR_DEFAULTS_TO_FLAG
    PairShareFlag,   \* COLLUSION_PAIR_SHARE_FLAG_BPS
    Month,           \* SECONDS_PER_MONTH
    Delay,           \* TIMELOCK_DELAY_SECONDS
    MaxIn,           \* bound on the money paid in
    MaxDefaults,     \* bound on the reported defaults
    MaxTime          \* bound on the clock

ASSUME InsuranceAssumption ==
    /\ NLps \in Nat /\ NPayers \in Nat
    /\ Liquidity \notin Accounts
    /\ Bps \in Nat \ {0}
    /\ BaseRate \in 1..Bps
    /\ Amounts \subseteq Nat \ {0}
    /\ Coverages \subseteq Nat \ {0}
    /\ Caps \subseteq Nat
    /\ Windows \subseteq Nat
    /\ Multipliers \subseteq Nat \X (Nat \ {0})
    /\ MinPairDefaults \in Nat \ {0} /\ PairShareFlag \in Nat
    /\ Month \in Nat \ {0}
    /\ Delay \in Nat

min(a, b) == IF a < b THEN a ELSE b

LPs == 1..NLps
Payers == 1..NPayers
Never == -1
NoChange == [eta |-> Never]

VARIABLES
    pool,       \* Balance, BackstopBalance, the breaker flag, and the tokens held
    premiums,   \* Premiums(lp)
    enrolled,   \* the LPs with the Enrolled flag, and EnrolledCount
    claims,     \* the invoices with the Claimed flag
    evidence,   \* ClaimEvidence(invoice).submitted_at, or Never
    defaults,   \* DefaultCount(lp), PairDefaultCount(lp, payer), TotalDefaultCount
    settings,
    pending,    \* the pending coverage, admin and multiplier, with their eta
    reported,   \* invoices for which claim_default has run (status Defaulted)
    now,
    history     \* money in and out, payouts per invoice, when changes were proposed

vars == <<pool, premiums, enrolled, claims, evidence, defaults, settings, pending,
          reported, now, history>>

-----------------------------------------------------------------------------

get_tiered_coverage(lp) ==
    LET c == settings.coverage
        p == premiums[lp]
    IN  CASE p >= c \div 2 -> (c * 150) \div 100
          [] p < c \div 2 /\ p >= c \div 4 -> c
          [] p < c \div 4 /\ p >= c \div 10 -> (c * 75) \div 100
          [] p < c \div 10 -> (c * 50) \div 100

get_reserve_ratio_bps(p) ==
    ((p.balance + p.backstop) * Bps) \div settings.coverage

\* Mutant: the ratio is taken of the liquid balance before the payout.
trip_circuit_late(p) ==
    [p EXCEPT !.open = @ \/ (settings.minRatio # 0
                             /\ get_reserve_ratio_bps(pool) < settings.minRatio)]

trip_circuit_if_breached(p) ==
    [p EXCEPT !.open = @ \/ (settings.minRatio # 0
                             /\ get_reserve_ratio_bps(p) < settings.minRatio)]

\* The score is asked of the reputation contract, which answers with a record;
\* read as a number, that is 0.
apply_reputation_discount(count) ==
    LET score == 0 IN IF settings.reputation THEN (count * (100 - score)) \div 100 ELSE count

\* Mutant: the defaults of the whole pool are counted.
calculate_premium_rate_of_all(lp) ==
    LET n == settings.multiplier[1]
        d == settings.multiplier[2]
    IN  min(settings.base + (apply_reputation_discount(defaults.total) * n * Bps) \div d, Bps)

calculate_premium_rate_bps(lp) ==
    LET n == settings.multiplier[1]
        d == settings.multiplier[2]
    IN  min(settings.base + (apply_reputation_discount(defaults.lp[lp]) * n * Bps) \div d, Bps)

get_pair_collusion_flag(lp, payer) ==
    /\ defaults.pair[lp][payer] >= MinPairDefaults
    /\ (defaults.pair[lp][payer] * Bps) \div defaults.lp[lp] >= PairShareFlag

\* get_pool_health: the estimated monthly claims, over at least one month.
ClaimRate ==
    LET months == IF now \div Month > 1 THEN now \div Month ELSE 1
    IN  (defaults.total * settings.coverage) \div months

enforce_claim_review_gate(i) ==
    settings.window # 0 => evidence[i] # Never /\ now >= evidence[i] + settings.window

IsAdmin(a) == settings.admin = a /\ a # Liquidity

\* mark_enrolled: the counter moves only when the flag is new.
mark_enrolled(lp) ==
    [who |-> enrolled.who \cup {lp},
     count |-> IF lp \in enrolled.who THEN enrolled.count ELSE enrolled.count + 1]

-----------------------------------------------------------------------------

Enroll(lp) ==
    /\ enrolled' = mark_enrolled(lp)
    /\ UNCHANGED <<pool, premiums, claims, evidence, defaults, settings, pending,
                   reported, now, history>>

\* Mutant: the share of the backstop is booked twice.
DepositBookedTwice(lp, amount) ==
    LET share  == (amount * settings.funding) \div Bps
        liquid == pool.balance + amount
    IN  /\ history.in + amount <= MaxIn
        /\ settings.cap # 0 => liquid <= settings.cap
        /\ enrolled' = mark_enrolled(lp)
        /\ premiums' = [premiums EXCEPT ![lp] = @ + amount]
        /\ pool' = [pool EXCEPT !.balance = liquid, !.backstop = @ + share,
                                !.tokens = @ + amount]
        /\ history' = [history EXCEPT !.in = @ + amount]
        /\ UNCHANGED <<claims, evidence, defaults, settings, pending, reported, now>>

\* The cap bounds the liquid balance only.
DepositPremium(lp, amount) ==
    LET share  == (amount * settings.funding) \div Bps
        liquid == pool.balance + (amount - share)
    IN  /\ history.in + amount <= MaxIn
        /\ settings.cap # 0 => liquid <= settings.cap
        /\ enrolled' = mark_enrolled(lp)
        /\ premiums' = [premiums EXCEPT ![lp] = @ + amount]
        /\ pool' = [pool EXCEPT !.balance = liquid, !.backstop = @ + share,
                                !.tokens = @ + amount]
        /\ history' = [history EXCEPT !.in = @ + amount]
        /\ UNCHANGED <<claims, evidence, defaults, settings, pending, reported, now>>

TopUpBackstop(amount) ==
    /\ \E a \in Accounts : IsAdmin(a)
    /\ history.in + amount <= MaxIn
    /\ pool' = [pool EXCEPT !.backstop = @ + amount, !.tokens = @ + amount]
    /\ history' = [history EXCEPT !.in = @ + amount]
    /\ UNCHANGED <<premiums, enrolled, claims, evidence, defaults, settings, pending,
                   reported, now>>

Claimable(i) ==
    /\ i \notin claims
    /\ ~ pool.open
    /\ enforce_claim_review_gate(i)
    /\ pool.balance + pool.backstop > 0

Payout(lp) == min(get_tiered_coverage(lp), pool.balance + pool.backstop)

\* The liquid balance pays first, then the backstop; the breaker is looked at
\* last.
PayClaim(i, lp) ==
    LET payout == Payout(lp)
        liquid == min(payout, pool.balance)
    IN  /\ Claimable(i)
        /\ pool' = trip_circuit_if_breached(
                       [pool EXCEPT !.balance = @ - liquid,
                                    !.backstop = @ - (payout - liquid),
                                    !.tokens = @ - payout])
        /\ claims' = claims \cup {i}
        /\ history' = [history EXCEPT !.out = @ + payout, !.payouts[i] = @ + 1]
        /\ UNCHANGED <<premiums, enrolled, evidence, defaults, settings, pending, now>>

\* The admin files the claim: nothing is asked about default or enrollment.
Claim(i, lp) ==
    /\ \E a \in Accounts : IsAdmin(a)
    /\ PayClaim(i, lp)
    /\ UNCHANGED reported

\* claim_default of the invoice contract, once per invoice: the claiming funder
\* is compensated if enrolled and the pool accepts the claim.
ClaimDefaultPaid(i, lp) ==
    /\ i \notin reported
    /\ reported' = reported \cup {i}
    /\ lp \in enrolled.who
    /\ settings.admin = Liquidity
    /\ PayClaim(i, lp)

\* Otherwise, or when the pool's token refuses the transfer, it goes on.
ClaimDefaultUnpaid(i) ==
    /\ i \notin reported
    /\ reported' = reported \cup {i}
    /\ UNCHANGED <<pool, premiums, enrolled, claims, evidence, defaults, settings,
                   pending, now, history>>

-----------------------------------------------------------------------------

ResetSolvencyCircuit ==
    /\ \E a \in Accounts : IsAdmin(a)
    /\ pool.open
    /\ pool' = [pool EXCEPT !.open = FALSE]
    /\ UNCHANGED <<premiums, enrolled, claims, evidence, defaults, settings, pending,
                   reported, now, history>>

\* Submitting again restarts the review.
SubmitClaimEvidence(i) ==
    /\ \E a \in Accounts : IsAdmin(a)
    /\ evidence' = [evidence EXCEPT ![i] = now]
    /\ UNCHANGED <<pool, premiums, enrolled, claims, defaults, settings, pending,
                   reported, now, history>>

\* A setting the admin changes at once.
Set(name, value) ==
    /\ \E a \in Accounts : IsAdmin(a)
    /\ settings' = [settings EXCEPT ![name] = value]
    /\ UNCHANGED <<pool, premiums, enrolled, claims, evidence, defaults, pending,
                   reported, now, history>>

SetMinReserveRatio(bps) == Set("minRatio", bps)

SetBackstopFunding(bps) == Set("funding", bps)

SetBalanceCap(cap) == Set("cap", cap)

SetReviewWindow(seconds) == Set("window", seconds)

\* Go round the timelock, and leave a pending change where it is.
SetCoverageViaGovernance(coverage) == Set("coverage", coverage)

SetRiskMultiplier(multiplier) == Set("multiplier", multiplier)

\* set_base_premium_rate_bps and set_premium_rate_via_governance.
SetBasePremiumRate(bps) == Set("base", bps)

SetReputationContract == Set("reputation", TRUE)

\* Mutant: a new proposal takes over the eta of the one it replaces.
ProposeKeepingEta(name, value) ==
    /\ \E a \in Accounts : IsAdmin(a)
    /\ pending' = [pending EXCEPT ![name] =
                      [value |-> value, eta |-> IF @.eta = Never THEN now + Delay ELSE @.eta]]
    /\ history' = [history EXCEPT !.proposed[name] = now]
    /\ UNCHANGED <<pool, premiums, enrolled, claims, evidence, defaults, settings,
                   reported, now>>

\* propose_coverage_change, propose_admin_transfer, propose_risk_multiplier.
Propose(name, value) ==
    /\ \E a \in Accounts : IsAdmin(a)
    /\ pending' = [pending EXCEPT ![name] = [value |-> value, eta |-> now + Delay]]
    /\ history' = [history EXCEPT !.proposed[name] = now]
    /\ UNCHANGED <<pool, premiums, enrolled, claims, evidence, defaults, settings,
                   reported, now>>

\* execute_coverage_change, execute_admin_transfer, execute_risk_multiplier: open
\* to anyone.
ExecuteChange(name) ==
    /\ pending[name] # NoChange
    /\ now >= pending[name].eta
    /\ settings' = [settings EXCEPT ![name] = pending[name].value]
    /\ pending' = [pending EXCEPT ![name] = NoChange]
    /\ UNCHANGED <<pool, premiums, enrolled, claims, evidence, defaults, reported, now,
                   history>>

CancelChange(name) ==
    /\ \E a \in Accounts : IsAdmin(a)
    /\ pending[name] # NoChange
    /\ pending' = [pending EXCEPT ![name] = NoChange]
    /\ UNCHANGED <<pool, premiums, enrolled, claims, evidence, defaults, settings,
                   reported, now, history>>

-----------------------------------------------------------------------------

increment_default_count(d, lp) ==
    [d EXCEPT !.lp[lp] = @ + 1, !.total = @ + 1]

IncrementDefaultCount(lp) ==
    /\ \E a \in Accounts : IsAdmin(a)
    /\ defaults.total < MaxDefaults
    /\ defaults' = increment_default_count(defaults, lp)
    /\ UNCHANGED <<pool, premiums, enrolled, claims, evidence, settings, pending,
                   reported, now, history>>

\* Mutant: the rollups are left to a separate call.
RecordPairOnly(lp, payer) ==
    /\ \E a \in Accounts : IsAdmin(a)
    /\ defaults.total < MaxDefaults
    /\ defaults' = [defaults EXCEPT !.pair[lp][payer] = @ + 1]
    /\ UNCHANGED <<pool, premiums, enrolled, claims, evidence, settings, pending,
                   reported, now, history>>

RecordPairDefault(lp, payer) ==
    /\ \E a \in Accounts : IsAdmin(a)
    /\ defaults.total < MaxDefaults
    /\ defaults' = [increment_default_count(defaults, lp) EXCEPT !.pair[lp][payer] = @ + 1]
    /\ UNCHANGED <<pool, premiums, enrolled, claims, evidence, settings, pending,
                   reported, now, history>>

Tick ==
    /\ now < MaxTime
    /\ now' = now + 1
    /\ UNCHANGED <<pool, premiums, enrolled, claims, evidence, defaults, settings,
                   pending, reported, history>>

\* The settings that change through the timelock, and to what.
Timelocked == [coverage |-> Coverages, admin |-> Accounts \cup {Liquidity},
               multiplier |-> Multipliers]

\* After initialize, which the admin has to authorize.
Init ==
    /\ pool = [balance |-> 0, backstop |-> 0, tokens |-> 0, open |-> FALSE]
    /\ premiums = [lp \in LPs |-> 0]
    /\ enrolled = [who |-> {}, count |-> 0]
    /\ claims = {}
    /\ evidence = [i \in Invoices |-> Never]
    /\ defaults = [lp |-> [lp \in LPs |-> 0], total |-> 0,
                   pair |-> [lp \in LPs |-> [p \in Payers |-> 0]]]
    /\ settings \in [coverage : Coverages, admin : Accounts,
                     minRatio : {0}, funding : {0}, cap : {0}, window : {0},
                     base : {BaseRate}, multiplier : {<<1, 1>>}, reputation : {FALSE}]
    /\ pending = [name \in DOMAIN Timelocked |-> NoChange]
    /\ reported = {}
    /\ now = 0
    /\ history = [in |-> 0, out |-> 0, payouts |-> [i \in Invoices |-> 0],
                  proposed |-> [name \in DOMAIN Timelocked |-> Never]]

PoolStep ==
    \/ \E lp \in LPs : Enroll(lp) \/ \E amount \in Amounts : DepositPremium(lp, amount)
    \/ \E amount \in Amounts : TopUpBackstop(amount)
    \/ \E i \in Invoices, lp \in LPs : Claim(i, lp) \/ ClaimDefaultPaid(i, lp)
    \/ \E i \in Invoices : ClaimDefaultUnpaid(i)

AdminStep ==
    \/ ResetSolvencyCircuit
    \/ \E i \in Invoices : SubmitClaimEvidence(i)
    \/ \E bps \in 0..Bps : SetMinReserveRatio(bps) \/ SetBackstopFunding(bps)
    \/ \E cap \in Caps : SetBalanceCap(cap)
    \/ \E seconds \in Windows : SetReviewWindow(seconds)
    \/ \E coverage \in Coverages : SetCoverageViaGovernance(coverage)
    \/ \E name \in DOMAIN Timelocked :
           \/ \E value \in Timelocked[name] : Propose(name, value)
           \/ CancelChange(name)
    \/ \E bps \in 1..Bps : SetBasePremiumRate(bps)
    \/ \E multiplier \in Multipliers : SetRiskMultiplier(multiplier)
    \/ SetReputationContract
    \/ \E lp \in LPs : \/ IncrementDefaultCount(lp)
                       \/ \E payer \in Payers : RecordPairDefault(lp, payer)

Next ==
    \/ PoolStep
    \/ AdminStep
    \/ \E name \in DOMAIN Timelocked : ExecuteChange(name)
    \/ Tick

Spec == Init /\ [][Next]_vars

-----------------------------------------------------------------------------

\* Amounts and counters are never negative (S1), and the records keep their
\* types.
TypeOK ==
    /\ pool \in [balance : Nat, backstop : Nat, tokens : Nat, open : BOOLEAN]
    /\ premiums \in [LPs -> Nat]
    /\ enrolled \in [who : SUBSET LPs, count : Nat]
    /\ claims \subseteq Invoices
    /\ evidence \in [Invoices -> Nat \cup {Never}]
    /\ defaults \in [lp : [LPs -> Nat], total : Nat, pair : [LPs -> [Payers -> Nat]]]
    /\ settings \in [coverage : Coverages, admin : Accounts \cup {Liquidity},
                     minRatio : 0..Bps, funding : 0..Bps, cap : Caps \cup {0},
                     window : Windows \cup {0}, base : 1..Bps,
                     multiplier : Multipliers \cup {<<1, 1>>}, reputation : BOOLEAN]
    /\ \A name \in DOMAIN Timelocked :
           pending[name] # NoChange =>
               pending[name].value \in Timelocked[name] /\ pending[name].eta \in Nat
    /\ reported \subseteq Invoices
    /\ now \in Nat
    /\ history \in [in : Nat, out : Nat, payouts : [Invoices -> Nat],
                    proposed : [DOMAIN Timelocked -> Nat \cup {Never}]]

\* The two booked balances are together exactly the tokens the pool holds, and
\* those are what was paid in less what was paid out (S2): neither the split of
\* premiums, nor draws from both balances, nor top-ups create or lose money, and
\* neither balance is overdrawn (S1).  An invoice is compensated at most once,
\* whether the admin files the claim or claim_default does (S3).
Custody ==
    /\ pool.tokens = pool.balance + pool.backstop
    /\ history.in = pool.tokens + history.out
    /\ pool.balance >= 0 /\ pool.backstop >= 0
    /\ \A i \in Invoices : history.payouts[i] = IF i \in claims THEN 1 ELSE 0

\* The running counters agree with what they count: EnrolledCount with the
\* flags, however LPs were enrolled, and TotalDefaultCount with the counts of
\* the LPs; no LP has fewer defaults than with its payers; whoever has paid a
\* premium is enrolled.
RollupsAgree ==
    /\ enrolled.count = Cardinality(enrolled.who)
    /\ defaults.total = SumTo(defaults.lp, NLps)
    /\ \A lp \in LPs : SumTo(defaults.pair[lp], NPayers) <= defaults.lp[lp]
    /\ \A lp \in LPs : premiums[lp] > 0 => lp \in enrolled.who

\* The breaker: a payout that leaves less than the minimum reserve opens it, and
\* from then on nothing is paid, whatever is deposited, until it is reset.
BreakerHolds ==
    [][history'.out # history.out =>
           /\ ~ pool.open
           /\ settings.minRatio # 0 /\ get_reserve_ratio_bps(pool') < settings.minRatio
                  => pool'.open]_vars

\* With the settings left alone and no reputation contract to grant discounts, an
\* LP's premium rate rises only with a default of that LP and never falls.  In every
\* pool it never exceeds the whole amount, a pair of LP and payer comes to be flagged
\* only by a default between the two, and time alone never raises the estimated
\* claims (calculate_premium_rate_bps, get_pair_collusion_flag, get_pool_health).
RiskFollowsReports ==
    [][settings' = settings =>
           /\ \A lp \in LPs :
                  /\ calculate_premium_rate_bps(lp)' \in 0..Bps
                  /\ ~ settings.reputation =>
                         /\ calculate_premium_rate_bps(lp)' >= calculate_premium_rate_bps(lp)
                         /\ calculate_premium_rate_bps(lp)' # calculate_premium_rate_bps(lp) =>
                                defaults'.lp[lp] > defaults.lp[lp]
                  /\ \A payer \in Payers :
                         get_pair_collusion_flag(lp, payer)' /\ ~ get_pair_collusion_flag(lp, payer)
                             => defaults'.pair[lp][payer] > defaults.pair[lp][payer]
           /\ defaults' = defaults => ClaimRate' <= ClaimRate]_vars

\* Through the timelock a setting takes a value only when that very value was
\* proposed the whole delay ago: cancelling, proposing again or replacing a
\* proposal never shortens the notice (issue #542).
NoticeGiven ==
    [][\A name \in DOMAIN Timelocked :
           settings'[name] # settings[name] /\ pending'[name] # pending[name] =>
               now >= history.proposed[name] + Delay]_vars
=============================================================================
