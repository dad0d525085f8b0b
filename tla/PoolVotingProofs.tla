-------------------------- MODULE PoolVotingProofs --------------------------
(* Proofs about the insurance pool, for any number of LPs, payers and        *)
(* invoices, any amounts and coverages and any sequence of deposits, claims, *)
(* reports and administrative calls: its books balance, its counters agree,  *)
(* its breaker holds and its timelock gives the full notice. And about the   *)
(* voting weight of the governance contract, for any holders, balances and   *)
(* holding period: nobody votes with tokens that arrived late, and           *)
(* delegations never run in a circle nor too deep.                           *)
EXTENDS InsurancePool, Delegation, ListTheorems, FiniteSetTheorems

(* The inductive invariant, by the variables its parts are about.  Custody   *)
(* needs the types of the settings, since it is the bound on the backstop    *)
(* share that keeps the liquid part of a premium from being negative.        *)

SettingsOK ==
    settings \in [coverage : Coverages, admin : Accounts \cup {Liquidity},
                  minRatio : 0..Bps, funding : 0..Bps, cap : Caps \cup {0},
                  window : Windows \cup {0}, base : 1..Bps,
                  multiplier : Multipliers \cup {<<1, 1>>}, reputation : BOOLEAN]

HistoryOK ==
    /\ now \in Nat
    /\ history \in [in : Nat, out : Nat, payouts : [Invoices -> Nat],
                    proposed : [DOMAIN Timelocked -> Nat \cup {Never}]]

MoneyOK ==
    /\ pool \in [balance : Nat, backstop : Nat, tokens : Nat, open : BOOLEAN]
    /\ claims \subseteq Invoices
    /\ Custody

CountersOK ==
    /\ premiums \in [LPs -> Nat]
    /\ enrolled \in [who : SUBSET LPs, count : Nat]
    /\ defaults \in [lp : [LPs -> Nat], total : Nat, pair : [LPs -> [Payers -> Nat]]]
    /\ RollupsAgree

\* A pending change carries the eta its own proposal gave it.
PendingOK ==
    /\ pending = [name \in DOMAIN Timelocked |-> pending[name]]
    /\ \A name \in DOMAIN Timelocked :
           pending[name] # NoChange =>
               /\ pending[name].value \in Timelocked[name]
               /\ pending[name].eta = history.proposed[name] + Delay
               /\ history.proposed[name] \in Nat

IInv == SettingsOK /\ HistoryOK /\ MoneyOK /\ CountersOK /\ PendingOK

-----------------------------------------------------------------------------

\* The three settings of the pool behind a timelock.
LEMMA TimelockedNames ==
    DOMAIN Timelocked = {"coverage", "admin", "multiplier"}
  BY Zenon DEF Timelocked

\* The backstop's share of a premium is between nothing and the whole.
LEMMA ShareBounds ==
    ASSUME NEW amount \in Nat, NEW bps \in 0..Bps
    PROVE  (amount * bps) \div Bps \in 0..amount
<1>1. Bps \in Nat \ {0}
  BY InsuranceAssumption, Zenon
<1>2. amount * bps \in Nat /\ amount * bps <= amount * Bps
  BY <1>1
<1> DEFINE p == amount * bps
<1> DEFINE q == p \div Bps
<1>3. p \in Nat /\ q \in Int
  BY <1>1, <1>2
<1>4. Bps * q <= p /\ p < Bps * q + Bps
  <2> HIDE DEF p
  <2> QED BY <1>1, <1>3
<1>5. q >= 0
  <2>1. SUFFICES ASSUME q <= -1 PROVE FALSE
    BY <1>3
  <2>2. Bps * q <= -Bps
    <3> HIDE DEF q
    <3> QED BY <2>1, <1>1, <1>3
  <2> QED BY <2>2, <1>4, <1>3, <1>1
<1>6. q <= amount
  <2>1. SUFFICES ASSUME q >= amount + 1 PROVE FALSE
    BY <1>3
  <2>2. Bps * q >= Bps * amount + Bps
    <3> HIDE DEF q
    <3> QED BY <2>1, <1>1, <1>3
  <2> QED BY <2>2, <1>4, <1>2, <1>1, <1>3
<1> QED
  BY <1>3, <1>5, <1>6

\* What a claim pays lies between nothing and what the pool has.
LEMMA PayoutBounds ==
    ASSUME IInv, NEW lp \in LPs
    PROVE  Payout(lp) \in 0..(pool.balance + pool.backstop)
<1>1. settings.coverage \in Nat /\ premiums[lp] \in Nat
  BY InsuranceAssumption, Zenon DEF IInv, SettingsOK, CountersOK
<1>2. pool.balance \in Nat /\ pool.backstop \in Nat
  BY Zenon DEF IInv, MoneyOK
<1>3. get_tiered_coverage(lp) \in Nat
  <2> DEFINE c == settings.coverage
             p == premiums[lp]
  <2>1. /\ c \in Nat /\ p \in Nat
        /\ (c * 150) \div 100 \in Nat /\ (c * 75) \div 100 \in Nat
        /\ (c * 50) \div 100 \in Nat
        /\ c \div 2 \in Nat /\ c \div 4 \in Nat /\ c \div 10 \in Nat
    BY <1>1
  <2>2. get_tiered_coverage(lp) =
          (CASE p >= c \div 2 -> (c * 150) \div 100
             [] p < c \div 2 /\ p >= c \div 4 -> c
             [] p < c \div 4 /\ p >= c \div 10 -> (c * 75) \div 100
             [] p < c \div 10 -> (c * 50) \div 100)
    BY Zenon DEF get_tiered_coverage
  <2> HIDE DEF c, p
  <2> QED BY <2>1, <2>2
<1> QED
  BY <1>2, <1>3 DEF Payout, min

\* The records are records: what an update of one field leaves alone.
LEMMA Fields ==
    ASSUME IInv
    PROVE  /\ pool = [balance |-> pool.balance, backstop |-> pool.backstop,
                      tokens |-> pool.tokens, open |-> pool.open]
           /\ pool.balance \in Nat /\ pool.backstop \in Nat /\ pool.tokens \in Nat
           /\ pool.open \in BOOLEAN
           /\ history = [in |-> history.in, out |-> history.out,
                         payouts |-> history.payouts, proposed |-> history.proposed]
           /\ history.in \in Nat /\ history.out \in Nat
           /\ history.payouts \in [Invoices -> Nat]
           /\ history.proposed \in [DOMAIN Timelocked -> Nat \cup {Never}]
           /\ now \in Nat
<1>1. /\ pool \in [balance : Nat, backstop : Nat, tokens : Nat, open : BOOLEAN]
      /\ history \in [in : Nat, out : Nat, payouts : [Invoices -> Nat],
                      proposed : [DOMAIN Timelocked -> Nat \cup {Never}]]
      /\ now \in Nat
  BY Zenon DEF IInv, MoneyOK, HistoryOK
<1> QED
  BY <1>1, Zenon

\* Paying a claim takes the same from the books and from the tokens, counts it
\* for this invoice, and leaves the breaker open if the reserve is too low.
LEMMA PayClaimEffect ==
    ASSUME IInv, NEW i \in Invoices, NEW lp \in LPs, PayClaim(i, lp)
    PROVE  \E payout \in 0..(pool.balance + pool.backstop), liquid \in 0..pool.balance :
             /\ payout - liquid \in 0..pool.backstop
             /\ pool' \in [balance : Nat, backstop : Nat, tokens : Int, open : BOOLEAN]
             /\ pool'.balance = pool.balance - liquid
             /\ pool'.backstop = pool.backstop - (payout - liquid)
             /\ pool'.tokens = pool.tokens - payout
             /\ history' = [in |-> history.in, out |-> history.out + payout,
                            payouts |-> [history.payouts EXCEPT ![i] = @ + 1],
                            proposed |-> history.proposed]
<1> DEFINE payout == Payout(lp)
           liquid == min(payout, pool.balance)
           paid   == [pool EXCEPT !.balance = @ - liquid,
                                  !.backstop = @ - (payout - liquid),
                                  !.tokens = @ - payout]
<1>1. payout \in 0..(pool.balance + pool.backstop)
  BY PayoutBounds, Zenon
<1>2. liquid \in 0..pool.balance /\ payout - liquid \in 0..pool.backstop
  <2> HIDE DEF payout
  <2> QED BY <1>1, Fields DEF min
<1>3. /\ pool' = trip_circuit_if_breached(paid)
      /\ history' = [history EXCEPT !.out = @ + payout, !.payouts[i] = @ + 1]
  BY Zenon DEF PayClaim
<1> HIDE DEF payout, liquid
<1>4. /\ pool.balance - liquid \in Nat
      /\ pool.backstop - (payout - liquid) \in Nat
      /\ pool.tokens - payout \in Int
  BY <1>1, <1>2, Fields
<1>5. /\ paid \in [balance : Nat, backstop : Nat, tokens : Int, open : BOOLEAN]
      /\ paid.balance = pool.balance - liquid
      /\ paid.backstop = pool.backstop - (payout - liquid)
      /\ paid.tokens = pool.tokens - payout
  <2>1. pool \in [balance : Nat, backstop : Nat, tokens : Nat, open : BOOLEAN]
    BY Zenon DEF IInv, MoneyOK
  <2> QED BY <2>1, <1>4, Zenon
<1> HIDE DEF paid
<1>6. /\ pool' \in [balance : Nat, backstop : Nat, tokens : Int, open : BOOLEAN]
      /\ pool'.balance = pool.balance - liquid
      /\ pool'.backstop = pool.backstop - (payout - liquid)
      /\ pool'.tokens = pool.tokens - payout
  BY <1>3, <1>5, Zenon DEF trip_circuit_if_breached
<1>7. history' = [in |-> history.in, out |-> history.out + payout,
                  payouts |-> [history.payouts EXCEPT ![i] = @ + 1],
                  proposed |-> history.proposed]
  BY <1>3, Fields, Zenon
<1> QED
  BY <1>1, <1>2, <1>6, <1>7, Zenon

\* A claim keeps the books balanced and is the only payout for its invoice.
LEMMA PayClaimKeepsMoney ==
    ASSUME IInv, NEW i \in Invoices, NEW lp \in LPs, PayClaim(i, lp)
    PROVE  MoneyOK' /\ HistoryOK'
<1>1. PICK payout \in 0..(pool.balance + pool.backstop), liquid \in 0..pool.balance :
        /\ payout - liquid \in 0..pool.backstop
        /\ pool' \in [balance : Nat, backstop : Nat, tokens : Int, open : BOOLEAN]
        /\ pool'.balance = pool.balance - liquid
        /\ pool'.backstop = pool.backstop - (payout - liquid)
        /\ pool'.tokens = pool.tokens - payout
        /\ history' = [in |-> history.in, out |-> history.out + payout,
                       payouts |-> [history.payouts EXCEPT ![i] = @ + 1],
                       proposed |-> history.proposed]
  BY PayClaimEffect, Zenon
<1>2. i \notin claims /\ claims' = claims \cup {i} /\ claims \subseteq Invoices /\ now' = now
  BY Zenon DEF PayClaim, Claimable, IInv, MoneyOK
<1>3. Custody
  BY Zenon DEF IInv, MoneyOK
<1>4. history'.in = history.in /\ history'.out = history.out + payout
      /\ history'.payouts = [history.payouts EXCEPT ![i] = @ + 1]
  BY <1>1, Zenon
<1>5. /\ pool'.tokens = pool'.balance + pool'.backstop
      /\ history'.in = pool'.tokens + history'.out
      /\ pool'.balance \in Nat /\ pool'.backstop \in Nat /\ pool'.tokens \in Nat
  BY <1>1, <1>3, <1>4, Fields DEF Custody
<1>6. \A j \in Invoices : history'.payouts[j] = IF j \in claims' THEN 1 ELSE 0
  BY <1>2, <1>3, <1>4, Fields DEF Custody
<1>7. MoneyOK'
  BY <1>1, <1>2, <1>5, <1>6 DEF MoneyOK, Custody
<1>8. HistoryOK'
  BY <1>1, <1>2, Fields DEF HistoryOK
<1> QED
  BY <1>7, <1>8, Zenon

\* A premium goes into the two balances as a whole.
LEMMA DepositKeepsMoney ==
    ASSUME IInv, NEW lp \in LPs, NEW amount \in Amounts, DepositPremium(lp, amount)
    PROVE  MoneyOK' /\ HistoryOK'
<1> DEFINE share == (amount * settings.funding) \div Bps
<1>1. amount \in Nat
  BY InsuranceAssumption, Zenon
<1>2. share \in 0..amount
  BY <1>1, ShareBounds, Zenon DEF IInv, SettingsOK
<1>3. /\ pool' = [pool EXCEPT !.balance = pool.balance + (amount - share),
                              !.backstop = @ + share, !.tokens = @ + amount]
      /\ history' = [history EXCEPT !.in = @ + amount]
      /\ UNCHANGED <<claims, now>>
  BY Zenon DEF DepositPremium
<1> HIDE DEF share
<1>4. /\ pool' \in [balance : Nat, backstop : Nat, tokens : Nat, open : BOOLEAN]
      /\ pool'.balance = pool.balance + (amount - share)
      /\ pool'.backstop = pool.backstop + share
      /\ pool'.tokens = pool.tokens + amount
  <2>1. pool \in [balance : Nat, backstop : Nat, tokens : Nat, open : BOOLEAN]
    BY Zenon DEF IInv, MoneyOK
  <2>2. /\ pool.balance + (amount - share) \in Nat
        /\ pool.backstop + share \in Nat /\ pool.tokens + amount \in Nat
    BY <1>1, <1>2, Fields
  <2> QED BY <2>1, <2>2, <1>3, Zenon
<1>5. /\ HistoryOK'
      /\ history'.in = history.in + amount /\ history'.out = history.out
      /\ history'.payouts = history.payouts
  BY <1>1, <1>3 DEF IInv, HistoryOK
<1>6. Custody /\ claims \subseteq Invoices
  BY Zenon DEF IInv, MoneyOK
<1>7. Custody'
  BY <1>1, <1>2, <1>3, <1>4, <1>5, <1>6, Fields DEF Custody
<1> QED
  BY <1>3, <1>4, <1>5, <1>6, <1>7, Zenon DEF MoneyOK

\* top_up_backstop books what it takes in.
LEMMA TopUpKeepsMoney ==
    ASSUME IInv, NEW amount \in Amounts, TopUpBackstop(amount)
    PROVE  MoneyOK' /\ HistoryOK'
<1>1. amount \in Nat
  BY InsuranceAssumption, Zenon
<1>2. /\ pool' = [pool EXCEPT !.backstop = @ + amount, !.tokens = @ + amount]
      /\ history' = [history EXCEPT !.in = @ + amount]
      /\ UNCHANGED <<claims, now>>
  BY Zenon DEF TopUpBackstop
<1>3. /\ pool' \in [balance : Nat, backstop : Nat, tokens : Nat, open : BOOLEAN]
      /\ pool'.balance = pool.balance
      /\ pool'.backstop = pool.backstop + amount
      /\ pool'.tokens = pool.tokens + amount
  <2>1. pool \in [balance : Nat, backstop : Nat, tokens : Nat, open : BOOLEAN]
    BY Zenon DEF IInv, MoneyOK
  <2>2. pool.backstop + amount \in Nat /\ pool.tokens + amount \in Nat
    BY <1>1, Fields
  <2> QED BY <2>1, <2>2, <1>2, Zenon
<1>4. /\ HistoryOK'
      /\ history'.in = history.in + amount /\ history'.out = history.out
      /\ history'.payouts = history.payouts
  BY <1>1, <1>2 DEF IInv, HistoryOK
<1>5. Custody /\ claims \subseteq Invoices
  BY Zenon DEF IInv, MoneyOK
<1>6. Custody'
  BY <1>1, <1>2, <1>3, <1>4, <1>5, Fields DEF Custody
<1> QED
  BY <1>2, <1>3, <1>4, <1>5, <1>6, Zenon DEF MoneyOK

-----------------------------------------------------------------------------

\* mark_enrolled counts a flag once.
LEMMA MarkEnrolled ==
    ASSUME IInv, NEW lp \in LPs
    PROVE  /\ mark_enrolled(lp) \in [who : SUBSET LPs, count : Nat]
           /\ mark_enrolled(lp).who = enrolled.who \cup {lp}
           /\ mark_enrolled(lp).count = Cardinality(mark_enrolled(lp).who)
<1>1. /\ enrolled.who \subseteq LPs /\ enrolled.count \in Nat
      /\ enrolled.count = Cardinality(enrolled.who)
  BY Zenon DEF IInv, CountersOK, RollupsAgree
<1>2. IsFiniteSet(LPs)
  BY FS_Interval, InsuranceAssumption DEF LPs
<1>3. IsFiniteSet(enrolled.who)
  BY <1>1, <1>2, FS_Subset, Zenon
<1>4. Cardinality(enrolled.who \cup {lp}) =
        IF lp \in enrolled.who THEN enrolled.count ELSE enrolled.count + 1
  BY <1>1, <1>3, FS_AddElement, Zenon
<1> QED
  BY <1>1, <1>4 DEF mark_enrolled

\* SumToChange for an increment.
LEMMA SumToIncrement ==
    ASSUME NEW N \in Nat, NEW f, NEW g, NEW a \in 1..N,
           \A k \in 1..N : f[k] \in Int,
           \A k \in 1..N : k # a => g[k] = f[k],
           g[a] = f[a] + 1
    PROVE  SumTo(g, N) = SumTo(f, N) + 1
<1> DEFINE one == 1
<1>1. one \in Int /\ g[a] = f[a] + one
  OBVIOUS
<1> HIDE DEF one
<1>2. SumTo(g, N) = SumTo(f, N) + one
  BY <1>1, SumToChange, Zenon
<1> QED
  BY <1>2, Zenon DEF one

\* An increment of an LP's count reaches the total.
LEMMA IncrementCount ==
    ASSUME IInv, NEW lp \in LPs
    PROVE  LET d == increment_default_count(defaults, lp) IN
           /\ d \in [lp : [LPs -> Nat], total : Nat, pair : [LPs -> [Payers -> Nat]]]
           /\ d.pair = defaults.pair
           /\ d.lp = [defaults.lp EXCEPT ![lp] = @ + 1]
           /\ d.total = SumTo(d.lp, NLps)
<1> DEFINE d == increment_default_count(defaults, lp)
<1>1. /\ defaults \in [lp : [LPs -> Nat], total : Nat, pair : [LPs -> [Payers -> Nat]]]
      /\ defaults.total = SumTo(defaults.lp, NLps)
  BY Zenon DEF IInv, CountersOK, RollupsAgree
<1>2. /\ defaults.lp \in [LPs -> Nat] /\ defaults.total \in Nat
      /\ [defaults.lp EXCEPT ![lp] = @ + 1] \in [LPs -> Nat]
  BY <1>1
<1> DEFINE counts == [defaults.lp EXCEPT ![lp] = @ + 1]
<1>3. /\ d \in [lp : [LPs -> Nat], total : Nat, pair : [LPs -> [Payers -> Nat]]]
      /\ d.pair = defaults.pair
      /\ d.lp = counts
      /\ d.total = defaults.total + 1
  <2>1. d = [defaults EXCEPT !.lp = counts, !.total = @ + 1]
    BY Zenon DEF increment_default_count
  <2>2. counts \in [LPs -> Nat] /\ defaults.total + 1 \in Nat
    BY <1>2
  <2> HIDE DEF d, counts
  <2> QED BY <2>1, <2>2, <1>1, Zenon
<1>4. SumTo(d.lp, NLps) = SumTo(defaults.lp, NLps) + 1
  <2>1. /\ NLps \in Nat /\ lp \in 1..NLps
        /\ \A k \in 1..NLps : defaults.lp[k] \in Int
        /\ \A k \in 1..NLps : k # lp => counts[k] = defaults.lp[k]
        /\ counts[lp] = defaults.lp[lp] + 1
    BY <1>2, InsuranceAssumption DEF LPs
  <2>2. SumTo(counts, NLps) = SumTo(defaults.lp, NLps) + 1
    <3> HIDE DEF counts
    <3> QED BY <2>1, SumToIncrement, Zenon
  <2> QED BY <2>2, <1>3, Zenon
<1> QED
  BY <1>1, <1>3, <1>4, Zenon

\* enroll counts an LP once.
LEMMA EnrollKeepsCounters ==
    ASSUME IInv, NEW lp \in LPs, Enroll(lp)
    PROVE  CountersOK'
<1>1. enrolled' = mark_enrolled(lp) /\ UNCHANGED <<premiums, defaults>>
  BY Zenon DEF Enroll
<1> QED
  BY <1>1, MarkEnrolled, Zenon DEF IInv, CountersOK, RollupsAgree

\* deposit_premium enrolls the payer if need be and leaves the defaults alone.
LEMMA DepositKeepsCounters ==
    ASSUME IInv, NEW lp \in LPs, NEW amount \in Amounts, DepositPremium(lp, amount)
    PROVE  CountersOK'
<1>1. /\ enrolled' = mark_enrolled(lp) /\ UNCHANGED defaults
      /\ premiums' = [premiums EXCEPT ![lp] = @ + amount]
  BY Zenon DEF DepositPremium
<1>2. amount \in Nat /\ premiums \in [LPs -> Nat]
  BY InsuranceAssumption, Zenon DEF IInv, CountersOK
<1>3. /\ premiums' \in [LPs -> Nat]
      /\ \A a \in LPs : premiums'[a] > 0 => a \in enrolled'.who
  BY <1>1, <1>2, MarkEnrolled DEF IInv, CountersOK, RollupsAgree
<1> QED
  BY <1>1, <1>3, MarkEnrolled, Zenon DEF IInv, CountersOK, RollupsAgree

\* increment_default_count raises the total with the count of the LP.
LEMMA IncrementKeepsCounters ==
    ASSUME IInv, NEW lp \in LPs, IncrementDefaultCount(lp)
    PROVE  CountersOK'
<1>1. defaults' = increment_default_count(defaults, lp) /\ UNCHANGED <<premiums, enrolled>>
  BY Zenon DEF IncrementDefaultCount
<1>2. /\ defaults' \in [lp : [LPs -> Nat], total : Nat, pair : [LPs -> [Payers -> Nat]]]
      /\ defaults'.pair = defaults.pair
      /\ defaults'.lp = [defaults.lp EXCEPT ![lp] = @ + 1]
      /\ defaults'.total = SumTo(defaults'.lp, NLps)
  BY <1>1, IncrementCount, Zenon
<1>3. /\ defaults.lp \in [LPs -> Nat] /\ defaults.pair \in [LPs -> [Payers -> Nat]]
      /\ \A a \in LPs : SumTo(defaults.pair[a], NPayers) <= defaults.lp[a]
  BY Zenon DEF IInv, CountersOK, RollupsAgree
<1>4. \A a \in LPs : SumTo(defaults.pair[a], NPayers) \in Nat
  BY <1>3, SumToType, InsuranceAssumption, Zenon DEF Payers
<1>5. \A a \in LPs : SumTo(defaults'.pair[a], NPayers) <= defaults'.lp[a]
  BY <1>2, <1>3, <1>4
<1> QED
  BY <1>1, <1>2, <1>5, Zenon DEF IInv, CountersOK, RollupsAgree

\* A default of a pair is also one of the LP and of the pool.
LEMMA RecordPairKeepsCounters ==
    ASSUME IInv, NEW lp \in LPs, NEW payer \in Payers, RecordPairDefault(lp, payer)
    PROVE  CountersOK'
<1> DEFINE d == increment_default_count(defaults, lp)
<1>1. defaults' = [d EXCEPT !.pair[lp][payer] = @ + 1] /\ UNCHANGED <<premiums, enrolled>>
  BY Zenon DEF RecordPairDefault
<1>2. /\ d \in [lp : [LPs -> Nat], total : Nat, pair : [LPs -> [Payers -> Nat]]]
      /\ d.pair = defaults.pair
      /\ d.lp = [defaults.lp EXCEPT ![lp] = @ + 1]
      /\ d.total = SumTo(d.lp, NLps)
  BY IncrementCount, Zenon
<1> HIDE DEF d
<1>3. /\ defaults.lp \in [LPs -> Nat] /\ defaults.pair \in [LPs -> [Payers -> Nat]]
      /\ \A a \in LPs : SumTo(defaults.pair[a], NPayers) <= defaults.lp[a]
  BY Zenon DEF IInv, CountersOK, RollupsAgree
<1> DEFINE row == [defaults.pair[lp] EXCEPT ![payer] = @ + 1]
<1>4. row \in [Payers -> Nat]
  BY <1>3
<1>5. /\ defaults'.lp = d.lp /\ defaults'.total = d.total
      /\ defaults'.pair = [defaults.pair EXCEPT ![lp] = row]
      /\ defaults' \in [lp : [LPs -> Nat], total : Nat, pair : [LPs -> [Payers -> Nat]]]
  BY <1>1, <1>2, <1>3, <1>4, Zenon
<1>6. SumTo(row, NPayers) = SumTo(defaults.pair[lp], NPayers) + 1
  <2>1. /\ NPayers \in Nat /\ payer \in 1..NPayers
        /\ \A k \in 1..NPayers : defaults.pair[lp][k] \in Int
        /\ \A k \in 1..NPayers : k # payer => row[k] = defaults.pair[lp][k]
        /\ row[payer] = defaults.pair[lp][payer] + 1
    BY <1>3, InsuranceAssumption DEF Payers
  <2> HIDE DEF row
  <2> QED BY <2>1, SumToIncrement, Zenon
<1> HIDE DEF row
<1>7. \A a \in LPs : SumTo(defaults.pair[a], NPayers) \in Nat
  BY <1>3, SumToType, InsuranceAssumption, Zenon DEF Payers
<1>8. \A a \in LPs : SumTo(defaults'.pair[a], NPayers) <= defaults'.lp[a]
  BY <1>2, <1>3, <1>5, <1>6, <1>7
<1> QED
  BY <1>1, <1>2, <1>5, <1>8, Zenon DEF IInv, CountersOK, RollupsAgree

-----------------------------------------------------------------------------

\* MoneyOK and PendingOK look only at some fields of history.
LEMMA MoneyFrame ==
    ASSUME IInv, UNCHANGED <<pool, claims>>, history'.in = history.in,
           history'.out = history.out, history'.payouts = history.payouts
    PROVE  MoneyOK'
  BY Zenon DEF IInv, MoneyOK, Custody

\* A call that proposes nothing leaves the pending changes as they were proposed.
LEMMA PendingFrame ==
    ASSUME IInv, UNCHANGED pending, history'.proposed = history.proposed
    PROVE  PendingOK'
  BY Zenon DEF IInv, PendingOK

\* A setter of the admin writes a value of the setting's type.
LEMMA SettersKeepSettings ==
    ASSUME IInv,
           \/ \E bps \in 0..Bps : SetMinReserveRatio(bps) \/ SetBackstopFunding(bps)
           \/ \E cap \in Caps : SetBalanceCap(cap)
           \/ \E seconds \in Windows : SetReviewWindow(seconds)
           \/ \E coverage \in Coverages : SetCoverageViaGovernance(coverage)
           \/ \E bps \in 1..Bps : SetBasePremiumRate(bps)
           \/ \E multiplier \in Multipliers : SetRiskMultiplier(multiplier)
           \/ SetReputationContract
    PROVE  /\ SettingsOK'
           /\ UNCHANGED <<pool, premiums, enrolled, claims, evidence, defaults, pending,
                          reported, now, history>>
  BY ZenonT(40) DEF IInv, SettingsOK, Set, SetMinReserveRatio, SetBackstopFunding, SetBalanceCap,
         SetReviewWindow, SetCoverageViaGovernance, SetBasePremiumRate,
         SetRiskMultiplier, SetReputationContract

\* A proposal carries the eta of now, whatever it replaces.
LEMMA ProposeKeeps ==
    ASSUME IInv, NEW name \in DOMAIN Timelocked, NEW value \in Timelocked[name],
           Propose(name, value)
    PROVE  PendingOK' /\ HistoryOK' /\ MoneyOK'
<1>1. /\ pending' = [pending EXCEPT ![name] = [value |-> value, eta |-> now + Delay]]
      /\ history' = [history EXCEPT !.proposed[name] = now]
      /\ UNCHANGED <<pool, claims, now>>
  BY Zenon DEF Propose
<1> DEFINE times == [history.proposed EXCEPT ![name] = now]
<1>2. times \in [DOMAIN Timelocked -> Nat \cup {Never}]
  BY Fields, Zenon
<1>3. /\ history' = [history EXCEPT !.proposed = times]
      /\ history \in [in : Nat, out : Nat, payouts : [Invoices -> Nat],
                      proposed : [DOMAIN Timelocked -> Nat \cup {Never}]]
  BY <1>1, Zenon DEF IInv, HistoryOK
<1>4. /\ HistoryOK' /\ history'.proposed = times
      /\ history'.in = history.in /\ history'.out = history.out
      /\ history'.payouts = history.payouts
  <2> HIDE DEF times
  <2> QED BY <1>1, <1>2, <1>3, Fields, Zenon DEF HistoryOK
<1>5. PendingOK'
  <2>1. /\ pending = [n \in DOMAIN Timelocked |-> pending[n]]
        /\ \A n \in DOMAIN Timelocked : pending[n] # NoChange =>
               /\ pending[n].value \in Timelocked[n]
               /\ pending[n].eta = history.proposed[n] + Delay
               /\ history.proposed[n] \in Nat
    BY Zenon DEF IInv, PendingOK
  <2>2. pending' = [n \in DOMAIN Timelocked |-> pending'[n]]
    BY <1>1, <2>1, Zenon
  <2>3. ASSUME NEW n \in DOMAIN Timelocked, pending'[n] # NoChange
        PROVE  /\ pending'[n].value \in Timelocked[n]
               /\ pending'[n].eta = times[n] + Delay
               /\ times[n] \in Nat
    <3>1. CASE n = name
      <4>1. pending'[n] = [value |-> value, eta |-> now + Delay] /\ times[n] = now
        BY <3>1, <1>1, <2>1, Fields, Zenon
      <4> QED BY <4>1, <3>1, Fields
    <3>2. CASE n # name
      <4>1. pending'[n] = pending[n] /\ times[n] = history.proposed[n]
        BY <3>2, <1>1, <2>1, Fields, Zenon
      <4> QED BY <4>1, <2>1, <2>3, Zenon
    <3> QED BY <3>1, <3>2, Zenon
  <2> HIDE DEF times
  <2> QED BY <2>2, <2>3, <1>4, Zenon DEF PendingOK
<1>6. MoneyOK'
  BY <1>1, <1>4, MoneyFrame, Zenon
<1> QED
  BY <1>4, <1>5, <1>6, Zenon

\* Cancelling a pending change leaves the others as they were proposed.
LEMMA CancelKeeps ==
    ASSUME IInv, NEW name \in DOMAIN Timelocked,
           pending' = [pending EXCEPT ![name] = NoChange], UNCHANGED history
    PROVE  PendingOK'
<1>1. /\ pending = [n \in DOMAIN Timelocked |-> pending[n]]
      /\ \A n \in DOMAIN Timelocked : pending[n] # NoChange =>
             /\ pending[n].value \in Timelocked[n]
             /\ pending[n].eta = history.proposed[n] + Delay
             /\ history.proposed[n] \in Nat
  BY Zenon DEF IInv, PendingOK
<1>2. \A n \in DOMAIN Timelocked : pending'[n] # NoChange => pending'[n] = pending[n]
  BY <1>1, Zenon
<1>3. pending' = [n \in DOMAIN Timelocked |-> pending'[n]]
  BY <1>1, Zenon
<1> QED
  BY <1>1, <1>2, <1>3, Zenon DEF PendingOK

\* What is executed is a value that could be proposed for this setting.
LEMMA ExecuteKeepsSettings ==
    ASSUME IInv, NEW name \in DOMAIN Timelocked, ExecuteChange(name)
    PROVE  SettingsOK'
<1>1. settings' = [settings EXCEPT ![name] = pending[name].value]
  BY Zenon DEF ExecuteChange
<1>2. pending[name].value \in Timelocked[name]
  BY Zenon DEF ExecuteChange, IInv, PendingOK
<1> DEFINE value == pending[name].value
<1>3. \/ name = "coverage" /\ value \in Coverages
      \/ name = "admin" /\ value \in Accounts \cup {Liquidity}
      \/ name = "multiplier" /\ value \in Multipliers
  BY <1>2, TimelockedNames DEF Timelocked
<1> HIDE DEF value
<1>4. settings' = [settings EXCEPT ![name] = value]
  BY <1>1, Zenon DEF value
<1>5. SettingsOK
  BY Zenon DEF IInv
<1>6. CASE name = "coverage" /\ value \in Coverages
  BY <1>4, <1>5, <1>6, Zenon DEF SettingsOK
<1>7. CASE name = "admin" /\ value \in Accounts \cup {Liquidity}
  BY <1>4, <1>5, <1>7, Zenon DEF SettingsOK
<1>8. CASE name = "multiplier" /\ value \in Multipliers
  BY <1>4, <1>5, <1>8, Zenon DEF SettingsOK
<1> QED
  BY <1>3, <1>6, <1>7, <1>8, Zenon

-----------------------------------------------------------------------------

\* The pool starts empty, with settings in their ranges.
LEMMA InitEstablishes == Init => IInv
<1> SUFFICES ASSUME Init PROVE IInv
  BY Zenon
<1>1. SettingsOK
  <2>1. settings \in [coverage : Coverages, admin : Accounts,
                      minRatio : {0}, funding : {0}, cap : {0}, window : {0},
                      base : {BaseRate}, multiplier : {<<1, 1>>}, reputation : {FALSE}]
    BY Zenon DEF Init
  <2> DEFINE M == Multipliers \cup {<<1, 1>>}
             one == <<1, 1>>
  <2>2. {0} \subseteq 0..Bps /\ {BaseRate} \subseteq 1..Bps /\ one \in M
    BY InsuranceAssumption
  <2> HIDE DEF M, one
  <2>3. settings \in [coverage : Coverages, admin : Accounts,
                      minRatio : {0}, funding : {0}, cap : {0}, window : {0},
                      base : {BaseRate}, multiplier : {one}, reputation : {FALSE}]
    BY <2>1, Zenon DEF one
  <2>4. settings \in [coverage : Coverages, admin : Accounts \cup {Liquidity},
                      minRatio : 0..Bps, funding : 0..Bps, cap : Caps \cup {0},
                      window : Windows \cup {0}, base : 1..Bps,
                      multiplier : M, reputation : BOOLEAN]
    BY <2>2, <2>3, Zenon
  <2> QED BY <2>4, Zenon DEF SettingsOK, M
<1>2. HistoryOK
  BY Zenon DEF Init, HistoryOK
<1>3. MoneyOK
  BY DEF Init, MoneyOK, Custody
<1>4. CountersOK
  <2>1. /\ enrolled = [who |-> {}, count |-> 0] /\ premiums = [lp \in LPs |-> 0]
        /\ defaults = [lp |-> [lp \in LPs |-> 0], total |-> 0,
                       pair |-> [lp \in LPs |-> [p \in Payers |-> 0]]]
    BY Zenon DEF Init
  <2>2. ASSUME NEW N \in Nat PROVE SumTo([k \in 1..N |-> 0], N) = 0
    <3> DEFINE zero == [k \in 1..N |-> 0]
    <3>1. \A k \in 1..N : zero[k] \in Nat /\ zero[k] = 0
      BY Zenon
    <3> DEFINE T == {n \in Nat : n <= N => SumTo(zero, n) = 0}
    <3>2. 0 \in T
      BY SumToEquations, Zenon
    <3>3. ASSUME NEW n \in T PROVE n + 1 \in T
      <4>1. n \in Nat /\ SumTo(zero, n + 1) = SumTo(zero, n) + zero[n + 1]
        BY SumToEquations, Zenon
      <4>2. ASSUME n + 1 <= N PROVE SumTo(zero, n + 1) = 0
        <5>1. n <= N /\ n + 1 \in 1..N
          BY <4>1, <4>2
        <5>2. SumTo(zero, n) = 0 /\ zero[n + 1] = 0
          BY <3>1, <5>1, Zenon
        <5> QED BY <4>1, <5>2
      <4> QED BY <4>1, <4>2
    <3>4. N \in T
      <4>1. T \in SUBSET Nat
        BY Zenon
      <4> HIDE DEF T
      <4> QED BY <3>2, <3>3, <4>1, SetInduction, Zenon
    <3> QED BY <3>4
  <2>3. SumTo(defaults.lp, NLps) = 0
    BY <2>1, <2>2, InsuranceAssumption, Zenon DEF LPs
  <2>4. \A lp \in LPs : SumTo(defaults.pair[lp], NPayers) = 0
    BY <2>1, <2>2, InsuranceAssumption, Zenon DEF Payers
  <2>5. Cardinality(enrolled.who) = 0
    BY <2>1, FS_EmptySet, Zenon
  <2>6. /\ premiums \in [LPs -> Nat]
        /\ enrolled \in [who : SUBSET LPs, count : Nat]
        /\ defaults \in [lp : [LPs -> Nat], total : Nat, pair : [LPs -> [Payers -> Nat]]]
    BY <2>1, Zenon
  <2>7. RollupsAgree
    BY <2>1, <2>3, <2>4, <2>5, SMTT(60) DEF RollupsAgree
  <2> QED BY <2>6, <2>7, Zenon DEF CountersOK
<1>5. PendingOK
  BY Zenon DEF Init, PendingOK
<1> QED
  BY <1>1, <1>2, <1>3, <1>4, <1>5, Zenon DEF IInv

\* Every entry point of the pool, and the report of claim_default, keeps IInv.
LEMMA NextKeeps == IInv /\ [Next]_vars => IInv'
<1> SUFFICES ASSUME IInv, [Next]_vars PROVE IInv'
  BY Zenon
<1>0. SettingsOK /\ HistoryOK /\ MoneyOK /\ CountersOK /\ PendingOK
  BY Zenon DEF IInv
<1>1. ASSUME NEW lp \in LPs, Enroll(lp) PROVE IInv'
  <2>1. UNCHANGED <<pool, claims, settings, pending, now, history>>
    BY <1>1, Zenon DEF Enroll
  <2> QED BY <2>1, <1>0, <1>1, EnrollKeepsCounters, MoneyFrame, PendingFrame, Zenon
          DEF IInv, SettingsOK, HistoryOK
<1>2. ASSUME NEW lp \in LPs, NEW amount \in Amounts, DepositPremium(lp, amount) PROVE IInv'
  <2>1. UNCHANGED <<settings, pending>> /\ history' = [history EXCEPT !.in = @ + amount]
    BY <1>2, Zenon DEF DepositPremium
  <2>2. history'.proposed = history.proposed
    BY <2>1, <1>0, Zenon DEF HistoryOK
  <2> QED BY <2>1, <2>2, <1>0, <1>2, DepositKeepsMoney, DepositKeepsCounters, PendingFrame, Zenon
          DEF IInv, SettingsOK
<1>3. ASSUME NEW amount \in Amounts, TopUpBackstop(amount) PROVE IInv'
  <2>1. /\ UNCHANGED <<settings, pending, premiums, enrolled, defaults>>
        /\ history' = [history EXCEPT !.in = @ + amount]
    BY <1>3, Zenon DEF TopUpBackstop
  <2>2. history'.proposed = history.proposed
    BY <2>1, <1>0, Zenon DEF HistoryOK
  <2>3. CountersOK'
    BY <2>1, <1>0, Zenon DEF CountersOK, RollupsAgree
  <2> QED BY <2>1, <2>2, <2>3, <1>0, <1>3, TopUpKeepsMoney, PendingFrame, Zenon DEF IInv, SettingsOK
<1>4. ASSUME NEW i \in Invoices, NEW lp \in LPs, PayClaim(i, lp) PROVE IInv'
  <2>1. UNCHANGED <<settings, pending, premiums, enrolled, defaults>>
    BY <1>4, Zenon DEF PayClaim
  <2>2. history'.proposed = history.proposed
    BY <1>4, PayClaimEffect
  <2>3. CountersOK'
    BY <2>1, <1>0, Zenon DEF CountersOK, RollupsAgree
  <2> QED BY <2>1, <2>2, <2>3, <1>0, <1>4, PayClaimKeepsMoney, PendingFrame, Zenon
             DEF IInv, SettingsOK
<1>5. CASE /\ UNCHANGED <<premiums, enrolled, claims, defaults, settings, pending, now, history>>
           /\ pool' \in {pool, [pool EXCEPT !.open = FALSE]}
  <2>1. MoneyOK'
    BY <1>0, <1>5, Zenon DEF MoneyOK, Custody
  <2>2. CountersOK'
    BY <1>0, <1>5, Zenon DEF CountersOK, RollupsAgree
  <2> QED BY <2>1, <2>2, <1>0, <1>5, PendingFrame, Zenon DEF IInv, SettingsOK, HistoryOK
<1>6. CASE /\ SettingsOK'
           /\ UNCHANGED <<pool, premiums, enrolled, claims, evidence, defaults, pending,
                          reported, now, history>>
  <2>1. CountersOK'
    BY <1>0, <1>6, Zenon DEF CountersOK, RollupsAgree
  <2> QED BY <2>1, <1>0, <1>6, MoneyFrame, PendingFrame, Zenon DEF IInv, HistoryOK
<1>7. ASSUME NEW name \in DOMAIN Timelocked, NEW value \in Timelocked[name],
             Propose(name, value)
      PROVE  IInv'
  <2>1. UNCHANGED <<premiums, enrolled, defaults, settings>>
    BY <1>7, Zenon DEF Propose
  <2>2. CountersOK'
    BY <2>1, <1>0, Zenon DEF CountersOK, RollupsAgree
  <2> QED BY <2>1, <2>2, <1>0, <1>7, ProposeKeeps, Zenon DEF IInv, SettingsOK
<1>8. ASSUME NEW name \in DOMAIN Timelocked, CancelChange(name) PROVE IInv'
  <2>1. /\ pending' = [pending EXCEPT ![name] = NoChange]
        /\ UNCHANGED <<pool, claims, premiums, enrolled, defaults, settings, now, history>>
    BY <1>8, Zenon DEF CancelChange
  <2>2. CountersOK'
    BY <2>1, <1>0, Zenon DEF CountersOK, RollupsAgree
  <2> QED BY <2>1, <2>2, <1>0, MoneyFrame, CancelKeeps, Zenon DEF IInv, SettingsOK, HistoryOK
<1>9. ASSUME NEW name \in DOMAIN Timelocked, ExecuteChange(name) PROVE IInv'
  <2>1. /\ pending' = [pending EXCEPT ![name] = NoChange]
        /\ UNCHANGED <<pool, claims, premiums, enrolled, defaults, now, history>>
    BY <1>9, Zenon DEF ExecuteChange
  <2>2. CountersOK'
    BY <2>1, <1>0, Zenon DEF CountersOK, RollupsAgree
  <2> QED BY <2>1, <2>2, <1>0, <1>9, MoneyFrame, CancelKeeps, ExecuteKeepsSettings, Zenon
          DEF IInv, HistoryOK
<1>10. ASSUME NEW lp \in LPs,
              IncrementDefaultCount(lp) \/ \E payer \in Payers : RecordPairDefault(lp, payer)
       PROVE  IInv'
  <2>1. UNCHANGED <<pool, claims, settings, pending, now, history>>
    BY <1>10, Zenon DEF IncrementDefaultCount, RecordPairDefault
  <2>2. CountersOK'
    BY <1>10, IncrementKeepsCounters, RecordPairKeepsCounters, Zenon
  <2> QED BY <2>1, <2>2, <1>0, MoneyFrame, PendingFrame, Zenon DEF IInv, SettingsOK, HistoryOK
<1>11. CASE Tick
  <2>1. /\ UNCHANGED <<pool, premiums, enrolled, claims, defaults, settings, pending, history>>
        /\ now' = now + 1
    BY <1>11, Zenon DEF Tick
  <2>2. CountersOK'
    BY <2>1, <1>0, Zenon DEF CountersOK, RollupsAgree
  <2> QED BY <2>1, <2>2, <1>0, MoneyFrame, PendingFrame DEF IInv, SettingsOK, HistoryOK
<1>12. CASE PoolStep
  <2>1. ASSUME NEW i \in Invoices, ClaimDefaultUnpaid(i) PROVE IInv'
    BY <2>1, <1>5, Zenon DEF ClaimDefaultUnpaid
  <2>2. ASSUME NEW i \in Invoices, NEW lp \in LPs, Claim(i, lp) \/ ClaimDefaultPaid(i, lp)
        PROVE  IInv'
    BY <2>2, <1>4, Zenon DEF Claim, ClaimDefaultPaid
  <2> QED BY <1>1, <1>2, <1>3, <2>1, <2>2, <1>12, Zenon DEF PoolStep
<1>13. CASE AdminStep
  <2>1. ASSUME ResetSolvencyCircuit PROVE IInv'
    BY <2>1, <1>5, Zenon DEF ResetSolvencyCircuit
  <2>2. ASSUME NEW i \in Invoices, SubmitClaimEvidence(i) PROVE IInv'
    BY <2>2, <1>5, Zenon DEF SubmitClaimEvidence
  <2> QED BY <2>1, <2>2, <1>6, <1>7, <1>8, <1>10, <1>13, SettersKeepSettings, Zenon DEF AdminStep
<1>14. CASE UNCHANGED vars
  BY <1>14, <1>5, Zenon DEF vars
<1> QED
  BY <1>9, <1>11, <1>12, <1>13, <1>14, Zenon DEF Next

\* The inductive invariant holds in every reachable state.
THEOREM InvariantHolds == Spec => []IInv
  BY InitEstablishes, NextKeeps, PTL DEF Spec

-----------------------------------------------------------------------------

\* The pool's books are always its tokens, neither balance is overdrawn, and no
\* invoice is compensated twice, whoever files the claims (deposit_premium,
\* top_up_backstop, claim).
THEOREM CustodyAlways == Spec => []Custody
<1>1. IInv => Custody
  BY Zenon DEF IInv, MoneyOK
<1> QED
  BY <1>1, InvariantHolds, PTL

\* The running counters always agree with what they count (mark_enrolled,
\* increment_default_count, record_pair_default).
THEOREM RollupsAlwaysAgree == Spec => []RollupsAgree
<1>1. IInv => RollupsAgree
  BY Zenon  DEF IInv, CountersOK
<1> QED
  BY <1>1, InvariantHolds, PTL

\* Money leaves the pool only in a claim.
LEMMA OnlyClaimsPay ==
    ASSUME IInv, [Next]_vars, history'.out # history.out
    PROVE  \E i \in Invoices, lp \in LPs : PayClaim(i, lp)
<1>1. ASSUME \/ \E amount \in Amounts : TopUpBackstop(amount)
             \/ \E lp \in LPs, amount \in Amounts : DepositPremium(lp, amount)
      PROVE  FALSE
  <2>1. \E amount \in Amounts : history' = [history EXCEPT !.in = @ + amount]
    BY <1>1, Zenon DEF TopUpBackstop, DepositPremium
  <2> QED BY <2>1, Fields, Zenon
<1>2. ASSUME NEW name \in DOMAIN Timelocked, NEW value \in Timelocked[name],
             Propose(name, value)
      PROVE  FALSE
  <2>1. history' = [history EXCEPT !.proposed[name] = now]
    BY <1>2, Zenon DEF Propose
  <2> QED BY <2>1, Fields, Zenon
<1>3. history' # history
  BY Zenon
<1>4. PoolStep \/ AdminStep
  BY <1>3, Zenon DEF Next, vars, ExecuteChange, Tick
<1>5. ~ AdminStep
  <2>1. SUFFICES ASSUME AdminStep PROVE FALSE
    BY Zenon
  <2> QED BY <2>1, <1>2, <1>3, SettersKeepSettings, Zenon
          DEF AdminStep, ResetSolvencyCircuit, SubmitClaimEvidence, CancelChange,
              IncrementDefaultCount, RecordPairDefault
<1> QED
  BY <1>1, <1>3, <1>4, <1>5, Zenon DEF PoolStep, Enroll, Claim, ClaimDefaultPaid, ClaimDefaultUnpaid

\* Nothing is paid while the breaker is open, and a payout that leaves too little
\* opens it (claim, trip_circuit_if_breached).
THEOREM BreakerAlwaysHolds == Spec => BreakerHolds
<1>1. IInv /\ [Next]_vars =>
        [history'.out # history.out =>
           /\ ~ pool.open
           /\ settings.minRatio # 0 /\ get_reserve_ratio_bps(pool') < settings.minRatio
                  => pool'.open]_vars
  <2> SUFFICES ASSUME IInv, [Next]_vars, history'.out # history.out
               PROVE  /\ ~ pool.open
                      /\ settings.minRatio # 0
                           /\ get_reserve_ratio_bps(pool') < settings.minRatio
                         => pool'.open
    BY Zenon
  <2>1. PICK i \in Invoices, lp \in LPs : PayClaim(i, lp)
    BY OnlyClaimsPay, Zenon
  <2>2. ~ pool.open
    BY <2>1, Zenon DEF PayClaim, Claimable
  <2> DEFINE payout == Payout(lp)
             liquid == min(payout, pool.balance)
             paid   == [pool EXCEPT !.balance = @ - liquid,
                                    !.backstop = @ - (payout - liquid),
                                    !.tokens = @ - payout]
  <2>3. pool' = trip_circuit_if_breached(paid)
    BY <2>1, Zenon DEF PayClaim
  <2>4. DOMAIN paid = {"balance", "backstop", "tokens", "open"}
    BY Fields, Zenon
  <2> HIDE DEF paid
  <2>5. pool'.balance = paid.balance /\ pool'.backstop = paid.backstop
    BY <2>3, <2>4, Zenon DEF trip_circuit_if_breached
  <2>6. get_reserve_ratio_bps(pool') = get_reserve_ratio_bps(paid)
    BY <2>5, Zenon DEF get_reserve_ratio_bps
  <2>7. pool'.open = (paid.open \/ (settings.minRatio # 0
                             /\ get_reserve_ratio_bps(paid) < settings.minRatio))
    BY <2>3, <2>4, Zenon DEF trip_circuit_if_breached
  <2> QED BY <2>2, <2>6, <2>7, Zenon
<1> QED
  BY <1>1, InvariantHolds, PTL DEF Spec, BreakerHolds

\* A pending change vanishes and its setting moves in the same step only when the
\* change is executed, the whole delay after it was proposed
\* (propose_coverage_change and its siblings).
THEOREM NoticeAlwaysGiven == Spec => NoticeGiven
<1>1. IInv /\ [Next]_vars =>
        [\A name \in DOMAIN Timelocked :
           settings'[name] # settings[name] /\ pending'[name] # pending[name] =>
               now >= history.proposed[name] + Delay]_vars
  <2> SUFFICES ASSUME IInv, [Next]_vars, NEW name \in DOMAIN Timelocked,
                      settings'[name] # settings[name], pending'[name] # pending[name]
               PROVE  now >= history.proposed[name] + Delay
    BY Zenon
  <2>1. settings' # settings /\ pending' # pending
    BY Zenon
  <2>2. \E n \in DOMAIN Timelocked : ExecuteChange(n)
    <3>1. ~ PoolStep /\ ~ Tick /\ ~ UNCHANGED vars
      BY <2>1, Zenon DEF PoolStep, Tick, vars, Enroll, DepositPremium, TopUpBackstop, Claim,
                  PayClaim, ClaimDefaultPaid, ClaimDefaultUnpaid
    <3>2. ~ AdminStep
      <4>1. SUFFICES ASSUME AdminStep PROVE FALSE
        BY Zenon
      <4> QED BY <2>1, <4>1, SettersKeepSettings, Zenon
              DEF AdminStep, ResetSolvencyCircuit, SubmitClaimEvidence, CancelChange,
                  IncrementDefaultCount, RecordPairDefault, Propose
    <3> QED BY <3>1, <3>2, Zenon DEF Next
  <2>3. PICK n \in DOMAIN Timelocked : ExecuteChange(n)
    BY <2>2, Zenon
  <2>4. /\ pending[n] # NoChange /\ now >= pending[n].eta
        /\ pending' = [pending EXCEPT ![n] = NoChange]
    BY <2>3, Zenon DEF ExecuteChange
  <2>5. n = name
    BY <2>4, Zenon DEF IInv, PendingOK
  <2> QED BY <2>4, <2>5, Zenon DEF IInv, PendingOK
<1> QED
  BY <1>1, InvariantHolds, PTL DEF Spec, NoticeGiven

-----------------------------------------------------------------------------
(* Quotes, flags and estimates move with the reports.                        *)

\* Floor division: monotone in the dividend, antitone in the divisor.
LEMMA DivMonotone ==
    ASSUME NEW a \in Nat, NEW b \in Nat, NEW d \in Nat \ {0}, a <= b
    PROVE  a \div d \in Nat /\ b \div d \in Nat /\ a \div d <= b \div d
<1> DEFINE p == a \div d
           q == b \div d
<1>1. /\ p \in Nat /\ d * p <= a /\ a < d * p + d
      /\ q \in Nat /\ d * q <= b /\ b < d * q + d
  OBVIOUS
<1> HIDE DEF p, q
<1>2. SUFFICES ASSUME p >= q + 1 PROVE FALSE
  BY <1>1 DEF p, q
<1>3. d * p >= d * q + d
  BY <1>1, <1>2
<1> QED
  BY <1>1, <1>3

\* A quotient does not grow with its divisor.
LEMMA DivAntitone ==
    ASSUME NEW a \in Nat, NEW d \in Nat \ {0}, NEW e \in Nat \ {0}, d <= e
    PROVE  a \div e <= a \div d
<1> DEFINE p == a \div d
           q == a \div e
<1>1. /\ p \in Nat /\ d * p <= a /\ a < d * p + d
      /\ q \in Nat /\ e * q <= a /\ a < e * q + e
  OBVIOUS
<1> HIDE DEF p, q
<1>2. SUFFICES ASSUME q >= p + 1 PROVE FALSE
  BY <1>1 DEF p, q
<1>3. d * q >= d * p + d
  BY <1>1, <1>2
<1>4. e * q >= d * q
  BY <1>1
<1> QED
  BY <1>1, <1>3, <1>4

\* The rate for a given count: what calculate_premium_rate_bps computes.
RateFor(count, n, d, base, asked) ==
    min(base + ((IF asked THEN (count * (100 - 0)) \div 100 ELSE count) * n * Bps) \div d, Bps)

\* calculate_premium_rate_bps never falls when the count of defaults grows.
LEMMA RateMonotone ==
    ASSUME NEW k \in Nat, NEW m \in Nat, k <= m, NEW n \in Nat, NEW d \in Nat \ {0},
           NEW base \in Nat, NEW asked \in BOOLEAN
    PROVE  /\ RateFor(m, n, d, base, asked) \in 0..Bps
           /\ RateFor(m, n, d, base, asked) >= RateFor(k, n, d, base, asked)
<1> DEFINE C(c) == IF asked THEN (c * (100 - 0)) \div 100 ELSE c
<1>1. Bps \in Nat
  BY InsuranceAssumption, Zenon
<1>2. C(k) \in Nat /\ C(m) \in Nat /\ C(k) <= C(m)
  <2>1. k * (100 - 0) \in Nat /\ m * (100 - 0) \in Nat /\ k * (100 - 0) <= m * (100 - 0)
    OBVIOUS
  <2>2. 100 \in Nat \ {0}
    OBVIOUS
  <2> QED BY <2>1, <2>2, DivMonotone
<1> HIDE DEF C
<1>3. /\ C(k) * n * Bps \in Nat /\ C(m) * n * Bps \in Nat
      /\ C(k) * n * Bps <= C(m) * n * Bps
  <2>1. C(k) * n \in Nat /\ C(m) * n \in Nat /\ C(k) * n <= C(m) * n
    BY <1>2
  <2> DEFINE x == C(k) * n
             y == C(m) * n
  <2> HIDE DEF x, y
  <2>2. x \in Nat /\ y \in Nat /\ x <= y
    BY <2>1, Zenon DEF x, y
  <2>3. x * Bps \in Nat /\ y * Bps \in Nat /\ x * Bps <= y * Bps
    BY <1>1, <2>2
  <2> QED BY <2>3, Zenon DEF x, y
<1> DEFINE p == (C(k) * n * Bps) \div d
           q == (C(m) * n * Bps) \div d
<1>4. p \in Nat /\ q \in Nat /\ p <= q
  BY <1>3, DivMonotone, Zenon
<1>5. /\ RateFor(k, n, d, base, asked) = min(base + p, Bps)
      /\ RateFor(m, n, d, base, asked) = min(base + q, Bps)
  BY Zenon DEF RateFor, C
<1> HIDE DEF p, q
<1> QED
  BY <1>1, <1>4, <1>5 DEF min

\* Counters and the clock only grow.
LEMMA CountsGrow ==
    ASSUME IInv, [Next]_vars
    PROVE  /\ now' >= now
           /\ \A lp \in LPs :
                /\ defaults.lp[lp] \in Nat /\ defaults'.lp[lp] \in Nat
                /\ defaults'.lp[lp] >= defaults.lp[lp]
                /\ \A payer \in Payers :
                     /\ defaults.pair[lp][payer] \in Nat /\ defaults'.pair[lp][payer] \in Nat
                     /\ defaults'.pair[lp][payer] >= defaults.pair[lp][payer]
<1>1. IInv'
  BY NextKeeps, Zenon
<1>2. /\ defaults \in [lp : [LPs -> Nat], total : Nat, pair : [LPs -> [Payers -> Nat]]]
      /\ defaults' \in [lp : [LPs -> Nat], total : Nat, pair : [LPs -> [Payers -> Nat]]]
      /\ now \in Nat
  BY <1>1, Zenon DEF IInv, CountersOK, HistoryOK
<1>3. now' >= now
  <2>1. now' = now \/ Tick
    BY ZenonT(40), SettersKeepSettings
       DEF Next, vars, PoolStep, AdminStep, Enroll, DepositPremium, TopUpBackstop, Claim,
           PayClaim, ClaimDefaultPaid, ClaimDefaultUnpaid, ResetSolvencyCircuit,
           SubmitClaimEvidence, CancelChange, IncrementDefaultCount, RecordPairDefault,
           Propose, ExecuteChange
  <2> QED BY SMTT(40), <1>2, <2>1 DEF Tick
<1>4. \/ defaults' = defaults
      \/ \E a \in LPs : IncrementDefaultCount(a)
      \/ \E a \in LPs, p \in Payers : RecordPairDefault(a, p)
  BY SettersKeepSettings, Zenon
     DEF Next, vars, PoolStep, AdminStep, Enroll, DepositPremium, TopUpBackstop, Claim,
         PayClaim, ClaimDefaultPaid, ClaimDefaultUnpaid, ResetSolvencyCircuit,
         SubmitClaimEvidence, CancelChange, Propose, ExecuteChange, Tick
<1>5. ASSUME NEW lp \in LPs, NEW payer \in Payers
      PROVE  /\ defaults.lp[lp] \in Nat /\ defaults'.lp[lp] \in Nat
             /\ defaults.pair[lp][payer] \in Nat /\ defaults'.pair[lp][payer] \in Nat
  BY <1>2, Zenon
<1>6. ASSUME NEW lp \in LPs
      PROVE  /\ defaults.lp[lp] \in Nat /\ defaults'.lp[lp] \in Nat
             /\ defaults'.lp[lp] >= defaults.lp[lp]
             /\ \A payer \in Payers : defaults'.pair[lp][payer] >= defaults.pair[lp][payer]
  <2>1. defaults.lp[lp] \in Nat /\ defaults'.lp[lp] \in Nat
    BY <1>2, Zenon
  <2>2. CASE defaults' = defaults
    BY <2>1, <2>2, <1>5
  <2>3. ASSUME NEW a \in LPs, IncrementDefaultCount(a)
        PROVE  /\ defaults'.lp[lp] >= defaults.lp[lp]
               /\ \A payer \in Payers : defaults'.pair[lp][payer] >= defaults.pair[lp][payer]
    <3>1. defaults' = increment_default_count(defaults, a)
      BY <2>3, Zenon DEF IncrementDefaultCount
    <3>2. /\ defaults'.pair = defaults.pair
          /\ defaults'.lp = [defaults.lp EXCEPT ![a] = @ + 1]
      BY <3>1, IncrementCount, Zenon
    <3> QED BY <3>2, <1>2, <1>5
  <2>4. ASSUME NEW a \in LPs, NEW p \in Payers, RecordPairDefault(a, p)
        PROVE  /\ defaults'.lp[lp] >= defaults.lp[lp]
               /\ \A payer \in Payers : defaults'.pair[lp][payer] >= defaults.pair[lp][payer]
    <3> DEFINE d == increment_default_count(defaults, a)
    <3>1. defaults' = [d EXCEPT !.pair[a][p] = @ + 1]
      BY <2>4, Zenon DEF RecordPairDefault
    <3>2. /\ d \in [lp : [LPs -> Nat], total : Nat, pair : [LPs -> [Payers -> Nat]]]
          /\ d.pair = defaults.pair
          /\ d.lp = [defaults.lp EXCEPT ![a] = @ + 1]
      BY IncrementCount, Zenon
    <3> HIDE DEF d
    <3>3. /\ defaults'.lp = d.lp
          /\ defaults'.pair = [d.pair EXCEPT ![a][p] = @ + 1]
      BY <3>1, <3>2, Zenon
    <3>4. defaults.lp \in [LPs -> Nat] /\ defaults.pair \in [LPs -> [Payers -> Nat]]
      BY <1>2, Zenon
    <3> QED BY <3>2, <3>3, <3>4
  <2> QED BY <1>4, <2>1, <2>2, <2>3, <2>4, Zenon
<1> QED
  BY <1>3, <1>5, <1>6, Zenon

\* Without a reputation contract an LP's rate rises only with its own defaults; a
\* pair is flagged only by a default between the two, and time never raises the
\* estimated claims, for any base rate and multiplier (calculate_premium_rate_bps, get_pair_collusion_flag,
\* get_pool_health).
THEOREM RiskAlwaysFollowsReports == Spec => RiskFollowsReports
<1>1. ASSUME IInv, [Next]_vars, settings' = settings
      PROVE  /\ \A lp \in LPs :
                  /\ calculate_premium_rate_bps(lp)' \in 0..Bps
                  /\ ~ settings.reputation =>
                         /\ calculate_premium_rate_bps(lp)' >= calculate_premium_rate_bps(lp)
                         /\ calculate_premium_rate_bps(lp)' # calculate_premium_rate_bps(lp) =>
                                defaults'.lp[lp] > defaults.lp[lp]
                  /\ \A payer \in Payers :
                         get_pair_collusion_flag(lp, payer)' /\ ~ get_pair_collusion_flag(lp, payer)
                             => defaults'.pair[lp][payer] > defaults.pair[lp][payer]
             /\ defaults' = defaults => ClaimRate' <= ClaimRate
  <2> DEFINE n == settings.multiplier[1]
             d == settings.multiplier[2]
  <2>1. /\ settings.base \in Nat /\ settings.reputation \in BOOLEAN
        /\ settings.coverage \in Nat /\ Bps \in Nat
        /\ n \in Nat /\ d \in Nat \ {0}
    <3>1. SettingsOK
      BY <1>1, Zenon DEF IInv
    <3>2. /\ settings.base \in Nat /\ settings.reputation \in BOOLEAN
          /\ settings.coverage \in Nat /\ Bps \in Nat
      <4>1. /\ settings.base \in 1..Bps /\ settings.coverage \in Coverages
            /\ settings.reputation \in BOOLEAN
        BY <3>1, Zenon DEF SettingsOK
      <4>2. Bps \in Nat /\ Coverages \subseteq Nat
        BY InsuranceAssumption, Zenon
      <4>3. settings.base \in Nat
        BY <4>1, <4>2
      <4> QED BY <4>1, <4>2, <4>3, Zenon
    <3>3. settings.multiplier \in Multipliers \/ settings.multiplier = <<1, 1>>
      BY <3>1, Zenon DEF SettingsOK
    <3>4. Multipliers \subseteq Nat \X (Nat \ {0})
      BY InsuranceAssumption, Zenon
    <3>5. settings.multiplier \in Nat \X (Nat \ {0})
      BY <3>3, <3>4
    <3> QED BY <3>2, <3>5, Zenon
  <2> DEFINE R(c) == RateFor(c, n, d, settings.base, settings.reputation)
  <2>2. ASSUME NEW lp \in LPs
        PROVE  /\ calculate_premium_rate_bps(lp) = R(defaults.lp[lp])
               /\ calculate_premium_rate_bps(lp)' = R(defaults'.lp[lp])
    BY <1>1, Zenon DEF calculate_premium_rate_bps, apply_reputation_discount, RateFor
  <2> HIDE DEF n, d
  <2>3. ASSUME NEW lp \in LPs
        PROVE  /\ calculate_premium_rate_bps(lp)' \in 0..Bps
               /\ ~ settings.reputation =>
                      /\ calculate_premium_rate_bps(lp)' >= calculate_premium_rate_bps(lp)
                      /\ calculate_premium_rate_bps(lp)' # calculate_premium_rate_bps(lp) =>
                             defaults'.lp[lp] > defaults.lp[lp]
    <3>1. /\ defaults.lp[lp] \in Nat /\ defaults'.lp[lp] \in Nat
          /\ defaults'.lp[lp] >= defaults.lp[lp]
      BY <1>1, CountsGrow, Zenon
    <3>2. R(defaults'.lp[lp]) \in 0..Bps /\ R(defaults'.lp[lp]) >= R(defaults.lp[lp])
      BY <3>1, <2>1, RateMonotone, Zenon
    <3>3. R(defaults'.lp[lp]) # R(defaults.lp[lp]) => defaults'.lp[lp] > defaults.lp[lp]
      <4> HIDE DEF R
      <4>1. defaults'.lp[lp] = defaults.lp[lp] \/ defaults'.lp[lp] > defaults.lp[lp]
        BY <3>1
      <4> QED BY <4>1, Zenon
    <3> QED BY <3>2, <3>3, <2>2, Zenon
  <2>4. ASSUME NEW lp \in LPs, NEW payer \in Payers,
               get_pair_collusion_flag(lp, payer)', ~ get_pair_collusion_flag(lp, payer)
        PROVE  defaults'.pair[lp][payer] > defaults.pair[lp][payer]
    <3> DEFINE pair == defaults.pair[lp][payer]
               mine == defaults.lp[lp]
               next == defaults'.lp[lp]
    <3>1. /\ pair \in Nat /\ mine \in Nat /\ next \in Nat /\ next >= mine
          /\ defaults'.pair[lp][payer] \in Nat /\ defaults'.pair[lp][payer] >= pair
      BY <1>1, CountsGrow, Zenon
    <3>2. SUFFICES ASSUME defaults'.pair[lp][payer] = pair PROVE FALSE
      BY <3>1
    <3>3. pair <= mine
      <4>1. /\ \A k \in 1..NPayers : defaults.pair[lp][k] \in Nat
            /\ NPayers \in Nat /\ payer \in 1..NPayers
            /\ SumTo(defaults.pair[lp], NPayers) <= mine
        BY <1>1, InsuranceAssumption DEF IInv, CountersOK, RollupsAgree, Payers
      <4> DEFINE row == defaults.pair[lp]
      <4>2. row[payer] <= SumTo(row, NPayers) /\ SumTo(row, NPayers) \in Nat
        <5>1. \A k \in 1..NPayers : row[k] \in Nat
          BY <4>1, Zenon
        <5> HIDE DEF row
        <5> QED BY <5>1, <4>1, SumToTerm, SumToType, Zenon
      <4> QED BY <4>1, <4>2, <3>1
    <3>4. /\ pair >= MinPairDefaults /\ (pair * Bps) \div next >= PairShareFlag
          /\ ~ (pair >= MinPairDefaults /\ (pair * Bps) \div mine >= PairShareFlag)
      BY <2>4, <3>2, Zenon DEF get_pair_collusion_flag
    <3> HIDE DEF pair, mine, next
    <3>5. /\ pair * Bps \in Nat /\ mine \in Nat \ {0} /\ next \in Nat \ {0}
      BY <3>1, <3>3, <3>4, <2>1, InsuranceAssumption
    <3> DEFINE a == pair * Bps
    <3>6. a \div next <= a \div mine /\ a \div next \in Int /\ a \div mine \in Int
      <4>1. a \in Nat
        BY <3>5, Zenon
      <4> HIDE DEF a
      <4>2. a \div next \in Int /\ a \div mine \in Int
        BY <4>1, <3>5
      <4>3. a \div next <= a \div mine
        BY <4>1, <3>1, <3>5, DivAntitone, Zenon
      <4> QED BY <4>2, <4>3, Zenon
    <3> QED BY <3>4, <3>6, InsuranceAssumption
  <2>5. ASSUME defaults' = defaults PROVE ClaimRate' <= ClaimRate
    <3> DEFINE months(t) == IF t \div Month > 1 THEN t \div Month ELSE 1
    <3>1. now \in Nat /\ now' \in Nat /\ now' >= now /\ Month \in Nat \ {0}
      <4>1. IInv'
        BY <1>1, NextKeeps, Zenon
      <4> QED BY <4>1, <1>1, CountsGrow, InsuranceAssumption, Zenon DEF IInv, HistoryOK
    <3>2. now \div Month <= now' \div Month /\ now \div Month \in Nat /\ now' \div Month \in Nat
      BY <3>1, DivMonotone, Zenon
    <3>3. /\ months(now) \in Nat \ {0} /\ months(now') \in Nat \ {0}
          /\ months(now) <= months(now')
      BY <3>2
    <3> DEFINE a == defaults.total * settings.coverage
    <3>4. a \in Nat
      BY <1>1, <2>1 DEF IInv, CountersOK
    <3>5. ClaimRate = a \div months(now) /\ ClaimRate' = a \div months(now')
      BY <1>1, <2>5, Zenon DEF ClaimRate
    <3> HIDE DEF a, months
    <3> QED BY <3>3, <3>4, <3>5, DivAntitone, Zenon
  <2> QED BY <2>3, <2>4, <2>5, Zenon
<1>2. IInv /\ [Next]_vars =>
        [settings' = settings =>
           /\ \A lp \in LPs :
                  /\ calculate_premium_rate_bps(lp)' \in 0..Bps
                  /\ ~ settings.reputation =>
                         /\ calculate_premium_rate_bps(lp)' >= calculate_premium_rate_bps(lp)
                         /\ calculate_premium_rate_bps(lp)' # calculate_premium_rate_bps(lp) =>
                                defaults'.lp[lp] > defaults.lp[lp]
                  /\ \A payer \in Payers :
                         get_pair_collusion_flag(lp, payer)' /\ ~ get_pair_collusion_flag(lp, payer)
                             => defaults'.pair[lp][payer] > defaults.pair[lp][payer]
           /\ defaults' = defaults => ClaimRate' <= ClaimRate]_vars
  BY <1>1, Zenon
<1> QED
  BY <1>2, InvariantHolds, PTL DEF Spec, RiskFollowsReports

-----------------------------------------------------------------------------
(* Voting weight in the governance contract.                                 *)

\* A checkpoint was the balance of its voter in its ledger.
Witnessed(c, v) ==
    c # NoCheckpoint => /\ c.ledger \in 0..ledger
                        /\ c.balance \in Int /\ c.balance <= held[v][c.ledger]

\* What a voter counts with was theirs early enough.
Backed(v) ==
    \E t \in 0..ledger : t + Hold <= created /\ snapshot[v] <= held[v][t]

VotingTypes ==
    /\ ledger \in 0..MaxLedger
    /\ tokens \in [Holders -> Int]
    /\ held \in [Holders -> [0..MaxLedger -> Int]]
    /\ latest \in [Holders -> [balance: Int, ledger: Int]]
    /\ prior \in [Holders -> [balance: Int, ledger: Int]]
    /\ snapshot \in [Holders -> Int]
    /\ DOMAIN weight = Holders

\* HeldBefore alone is not inductive: a ballot counts a checkpoint, which must
\* have been a balance, and a snapshot, which only the proposer has beforehand.
VotingInv ==
    /\ VotingTypes
    /\ \A v \in Holders : tokens[v] <= held[v][ledger]
    /\ \A v \in Holders : Witnessed(latest[v], v) /\ Witnessed(prior[v], v)
    /\ created \in 0..ledger \cup {Absent}
    /\ created = Absent => \A v \in Holders : snapshot[v] = Absent /\ weight[v] = Absent
    /\ \A v \in Holders : v # proposer /\ (snapshot[v] # Absent \/ weight[v] # Absent) => Backed(v)

\* The history has an entry for every ledger that has been.
LEMMA HeldType ==
  ASSUME NEW h \in [Holders -> [0..MaxLedger -> Int]], NEW n \in 0..MaxLedger
  PROVE  \A v \in Holders, t \in 0..n : t \in 0..MaxLedger /\ h[v][t] \in Int
<1> TAKE v \in Holders, t \in 0..n
<1>1. t \in 0..MaxLedger /\ h[v] \in [0..MaxLedger -> Int]
  BY DelegationAssumption
<1> QED BY <1>1, Zenon

\* What counts as proved was held at a checkpoint of the holding period before.
LEMMA ProvenHeld ==
  ASSUME VotingInv, NEW v \in Holders, NEW at \in Int, HasProof(v, at)
  PROVE  /\ proven_own_balance(v, at) \in Int
         /\ \E t \in 0..ledger : t + Hold <= at /\ proven_own_balance(v, at) <= held[v][t]
<1> DEFINE old == {c \in {latest[v], prior[v]} : c # NoCheckpoint /\ c.ledger + Hold <= at}
           c == eligible_checkpoint(v, at)
           m == proven_own_balance(v, at)
<1>1. old # {} /\ c = CHOOSE x \in old : \A y \in old : y.ledger <= x.ledger
  BY Zenon DEF HasProof, eligible_checkpoint
<1>2. /\ latest[v] \in [balance: Int, ledger: Int] /\ prior[v] \in [balance: Int, ledger: Int]
      /\ latest[v].ledger \in Int /\ prior[v].ledger \in Int
  BY Zenon DEF VotingInv, VotingTypes
<1>3. \E x \in old : \A y \in old : y.ledger <= x.ledger
  BY <1>1, <1>2
<1>4. c \in old
  <2> HIDE DEF old, c
  <2> QED BY <1>1, <1>3, Zenon
<1>5. /\ c \in {latest[v], prior[v]} /\ c # NoCheckpoint /\ c.ledger + Hold <= at
  BY <1>4, Zenon
<1> HIDE DEF c, old
<1>6. /\ c.ledger \in 0..ledger /\ c.balance \in Int /\ c.balance <= held[v][c.ledger]
  BY <1>5, Zenon DEF VotingInv, Witnessed
<1>7. m = Min({c.balance, tokens[v]}) /\ tokens[v] \in Int
  BY Zenon DEF proven_own_balance, c, VotingInv, VotingTypes
<1> HIDE DEF m
<1>8. m \in Int /\ m <= c.balance
  BY <1>6, <1>7 DEF Min
<1>9. held[v][c.ledger] \in Int
  <2>1. c.ledger \in 0..MaxLedger /\ held[v] \in [0..MaxLedger -> Int]
    BY <1>6, DelegationAssumption DEF VotingInv, VotingTypes
  <2> QED BY <2>1, Zenon
<1>10. m <= held[v][c.ledger]
  BY <1>6, <1>8, <1>9
<1> QED BY <1>5, <1>6, <1>8, <1>10, Zenon DEF m

\* Nothing is held, proved or cast at first.
LEMMA VotingStarts == VotingInit => VotingInv
<1> SUFFICES ASSUME VotingInit PROVE VotingInv
  BY Zenon
<1>1. tokens \in [Holders -> Int] /\ ledger = 0 /\ MaxLedger \in Nat
  BY DelegationAssumption DEF VotingInit
<1>2. NoCheckpoint \in [balance: Int, ledger: Int]
  BY DEF NoCheckpoint
<1>3. /\ latest = [v \in Holders |-> NoCheckpoint] /\ prior = [v \in Holders |-> NoCheckpoint]
      /\ created = Absent /\ snapshot = [v \in Holders |-> Absent]
      /\ weight = [v \in Holders |-> Absent]
      /\ held = [v \in Holders |-> [t \in 0..MaxLedger |-> IF t = 0 THEN tokens[v] ELSE 0]]
  BY Zenon DEF VotingInit
<1>4. VotingTypes
  BY <1>1, <1>2, <1>3 DEF VotingTypes, Absent
<1>5. \A v \in Holders : tokens[v] <= held[v][ledger]
  BY <1>1, <1>3
<1>6. \A v \in Holders : Witnessed(latest[v], v) /\ Witnessed(prior[v], v)
  BY <1>3, Zenon DEF Witnessed
<1>7. \A v \in Holders : snapshot[v] = Absent /\ weight[v] = Absent
  BY <1>3, Zenon
<1> QED BY <1>3, <1>4, <1>5, <1>6, <1>7, Zenon DEF VotingInv

\* What was held stays held, while ledgers close and balances move.
LEMMA HoldingsGrow ==
  ASSUME VotingInv, VotingTypes', ledger <= ledger',
         \A v \in Holders : tokens'[v] <= held'[v][ledger'],
         \A v \in Holders, t \in 0..ledger : held[v][t] <= held'[v][t],
         UNCHANGED <<latest, prior>>, UNCHANGED ballots
  PROVE  VotingInv'
<1>0. /\ \A v \in Holders : Witnessed(latest[v], v) /\ Witnessed(prior[v], v)
      /\ created \in 0..ledger \cup {Absent}
      /\ created = Absent => \A v \in Holders : snapshot[v] = Absent /\ weight[v] = Absent
      /\ \A v \in Holders : v # proposer /\ (snapshot[v] # Absent \/ weight[v] # Absent) => Backed(v)
      /\ ledger \in 0..MaxLedger /\ ledger' \in 0..MaxLedger
      /\ snapshot \in [Holders -> Int]
      /\ held \in [Holders -> [0..MaxLedger -> Int]] /\ held' \in [Holders -> [0..MaxLedger -> Int]]
  BY Zenon DEF VotingInv, VotingTypes
<1>u. created' = created /\ proposer' = proposer /\ snapshot' = snapshot /\ weight' = weight
  BY Zenon DEF ballots
<1>1. /\ ledger \in Nat /\ ledger' \in Nat /\ ledger <= MaxLedger /\ ledger' <= MaxLedger
      /\ MaxLedger \in Nat
  BY <1>0, DelegationAssumption
<1>2. \A v \in Holders, t \in 0..ledger : held[v][t] \in Int /\ held'[v][t] \in Int
  <2>2. \A v \in Holders, t \in 0..ledger : held[v][t] \in Int
    BY <1>0, HeldType, Zenon
  <2>3. \A v \in Holders, t \in 0..ledger : held'[v][t] \in Int
    BY <1>0, HeldType, Zenon
  <2> QED BY <2>2, <2>3, Zenon
<1>3. ASSUME NEW v \in Holders, NEW c, Witnessed(c, v)
      PROVE  Witnessed(c, v)'
  <2> SUFFICES ASSUME c # NoCheckpoint
               PROVE  c.ledger \in 0..ledger' /\ c.balance \in Int /\ c.balance <= held'[v][c.ledger]
    BY Zenon DEF Witnessed
  <2>1. c.ledger \in 0..ledger /\ c.balance \in Int /\ c.balance <= held[v][c.ledger]
    BY <1>3, Zenon DEF Witnessed
  <2>2. /\ held[v][c.ledger] <= held'[v][c.ledger]
        /\ held[v][c.ledger] \in Int /\ held'[v][c.ledger] \in Int
    BY <1>2, <2>1, Zenon
  <2> QED BY <1>1, <2>1, <2>2
<1>4. ASSUME NEW v \in Holders, Backed(v)
      PROVE  Backed(v)'
  <2>1. PICK t \in 0..ledger : t + Hold <= created /\ snapshot[v] <= held[v][t]
    BY <1>4, Zenon DEF Backed
  <2>2. t \in 0..ledger' /\ snapshot[v] \in Int
    BY <1>0, <1>1
  <2>3. snapshot'[v] <= held'[v][t] /\ t + Hold <= created'
    BY <1>u, <1>2, <2>1, <2>2
  <2> QED BY <2>2, <2>3, Zenon DEF Backed
<1>5. \A v \in Holders : Witnessed(latest[v], v)' /\ Witnessed(prior[v], v)'
  <2> TAKE v \in Holders
  <2>1. Witnessed(latest[v], v) /\ Witnessed(prior[v], v) /\ latest' = latest /\ prior' = prior
    BY <1>0, Zenon
  <2> QED BY <1>3, <2>1, Zenon
<1>6. \A v \in Holders :
        v # proposer' /\ (snapshot'[v] # Absent \/ weight'[v] # Absent) => Backed(v)'
  BY <1>0, <1>u, <1>4, Zenon
<1>7. created' \in 0..ledger' \cup {Absent}
  BY <1>0, <1>u, <1>1
<1>8. created' = Absent => \A v \in Holders : snapshot'[v] = Absent /\ weight'[v] = Absent
  BY <1>0, <1>u, Zenon
<1> QED BY <1>5, <1>6, <1>7, <1>8, ZenonT(60) DEF VotingInv

\* Tokens pass from one holder to another: what the receiver has is recorded.
LEMMA TransferKeeps ==
  ASSUME VotingInv, NEW a \in Holders, NEW b \in Holders, Transfer(a, b)
  PROVE  VotingInv'
<1> DEFINE m == Max({held[b][ledger], tokens[b] + 1})
<1>1. /\ a # b /\ tokens' = [tokens EXCEPT ![a] = @ - 1, ![b] = @ + 1]
      /\ held' = [held EXCEPT ![b] = [held[b] EXCEPT ![ledger] = Max({held[b][ledger], tokens'[b]})]]
      /\ UNCHANGED <<latest, prior, ledger>> /\ UNCHANGED ballots
  BY Zenon DEF Transfer
<1>2. /\ ledger \in 0..MaxLedger /\ tokens \in [Holders -> Int]
      /\ held \in [Holders -> [0..MaxLedger -> Int]]
      /\ ledger \in 0..ledger /\ tokens[a] \in Int /\ tokens[b] \in Int
  <2>1. /\ ledger \in 0..MaxLedger /\ tokens \in [Holders -> Int]
        /\ held \in [Holders -> [0..MaxLedger -> Int]]
    BY Zenon DEF VotingInv, VotingTypes
  <2>2. ledger \in 0..ledger
    BY <2>1, DelegationAssumption
  <2> QED BY <2>1, <2>2, Zenon
<1>8. /\ \A v \in Holders, t \in 0..MaxLedger : held[v][t] \in Int
      /\ held[b] \in [0..MaxLedger -> Int] /\ held[b][ledger] \in Int
  <2>1. MaxLedger \in 0..MaxLedger
    BY DelegationAssumption
  <2>2. \A v \in Holders, t \in 0..MaxLedger : held[v][t] \in Int
    BY <1>2, <2>1, HeldType, Zenon
  <2>3. held[b] \in [0..MaxLedger -> Int]
    BY <1>2, Zenon
  <2> QED BY <1>2, <2>2, <2>3, Zenon
<1>3. /\ tokens' \in [Holders -> Int] /\ tokens'[b] = tokens[b] + 1
      /\ \A v \in Holders : v # b => tokens'[v] <= tokens[v]
  <2> DEFINE c == [tokens EXCEPT ![a] = tokens[a] - 1]
  <2>1. c \in [Holders -> Int] /\ c[b] = tokens[b] /\ \A v \in Holders : c[v] <= tokens[v]
    BY <1>1, <1>2
  <2>2. tokens' = [c EXCEPT ![b] = c[b] + 1]
    BY <1>1, Zenon
  <2> HIDE DEF c
  <2> QED BY <1>2, <2>1, <2>2
<1>4. m \in Int /\ held[b][ledger] <= m /\ tokens[b] + 1 <= m
  <2> DEFINE x == held[b][ledger]
             y == tokens[b] + 1
  <2>1. x \in Int /\ y \in Int
    BY <1>2, <1>8
  <2> HIDE DEF x, y
  <2>2. Max({x, y}) \in Int /\ x <= Max({x, y}) /\ y <= Max({x, y})
    BY <2>1 DEF Max
  <2> QED BY <2>2, Zenon DEF x, y
<1>5. held' = [held EXCEPT ![b] = [held[b] EXCEPT ![ledger] = m]]
  BY <1>1, <1>3, Zenon
<1> HIDE DEF m
<1>6. /\ held' \in [Holders -> [0..MaxLedger -> Int]] /\ held'[b][ledger] = m
      /\ \A v \in Holders, t \in 0..MaxLedger :
           v # b \/ t # ledger => held'[v][t] = held[v][t]
  <2> DEFINE g == [held[b] EXCEPT ![ledger] = m]
  <2>1. /\ g \in [0..MaxLedger -> Int] /\ g[ledger] = m
        /\ \A t \in 0..MaxLedger : t # ledger => g[t] = held[b][t]
    BY <1>2, <1>4, <1>8, Zenon
  <2>2. held' = [held EXCEPT ![b] = g]
    BY <1>5, Zenon
  <2> HIDE DEF g
  <2> QED BY <1>2, <2>1, <2>2, Zenon
<1>7. VotingTypes'
  BY <1>1, <1>3, <1>6, Zenon DEF VotingInv, VotingTypes, ballots
<1>9. \A v \in Holders, t \in 0..ledger : held[v][t] <= held'[v][t]
  <2> TAKE v \in Holders, t \in 0..ledger
  <2>1. t \in 0..MaxLedger
    BY <1>2, HeldType, Zenon
  <2>2. held[v][t] \in Int
    BY <1>8, <2>1, Zenon
  <2>3. CASE v # b \/ t # ledger
    BY <1>6, <2>1, <2>2, <2>3
  <2>4. CASE v = b /\ t = ledger
    BY <1>4, <1>6, <2>4, Zenon
  <2> QED BY <2>3, <2>4, Zenon
<1>10. \A v \in Holders : tokens'[v] <= held'[v][ledger']
  <2> TAKE v \in Holders
  <2>1. tokens[v] <= held[v][ledger] /\ tokens[v] \in Int /\ tokens'[v] \in Int
    BY <1>2, <1>3, Zenon DEF VotingInv
  <2> QED BY <1>1, <1>2, <1>3, <1>4, <1>6, <1>8, <2>1, SMTT(60)
<1>11. ledger <= ledger'
  BY <1>1, <1>2
<1> QED BY <1>1, <1>7, <1>9, <1>10, <1>11, HoldingsGrow, Zenon

\* A ledger closes: everybody starts the next with what they have.
LEMMA CloseLedgerKeeps ==
  ASSUME VotingInv, CloseLedger
  PROVE  VotingInv'
<1>1. /\ ledger < MaxLedger /\ ledger' = ledger + 1
      /\ held' = [v \in Holders |-> [held[v] EXCEPT ![ledger + 1] = tokens[v]]]
      /\ UNCHANGED <<tokens, latest, prior>> /\ UNCHANGED ballots
  BY Zenon DEF CloseLedger
<1>2. /\ ledger \in Nat /\ ledger' \in 0..MaxLedger /\ MaxLedger \in Nat
      /\ tokens \in [Holders -> Int] /\ held \in [Holders -> [0..MaxLedger -> Int]]
  BY <1>1, DelegationAssumption DEF VotingInv, VotingTypes
<1>3. /\ held' \in [Holders -> [0..MaxLedger -> Int]]
      /\ \A v \in Holders : held'[v][ledger'] = tokens[v]
      /\ \A v \in Holders, t \in 0..ledger : held'[v][t] = held[v][t] /\ held[v][t] \in Int
  BY <1>1, <1>2
<1>4. VotingTypes'
  BY <1>1, <1>2, <1>3, Zenon DEF VotingInv, VotingTypes, ballots
<1> QED BY <1>1, <1>2, <1>3, <1>4, HoldingsGrow

\* The balance of the moment is proof for later.
LEMMA CheckpointNow ==
  ASSUME VotingInv, NEW v \in Holders
  PROVE  /\ [balance |-> tokens[v], ledger |-> ledger] \in [balance: Int, ledger: Int]
         /\ Witnessed([balance |-> tokens[v], ledger |-> ledger], v)
<1>0. /\ tokens \in [Holders -> Int] /\ ledger \in 0..MaxLedger
      /\ tokens[v] <= held[v][ledger]
  BY Zenon DEF VotingInv, VotingTypes
<1>1. /\ tokens[v] \in Int /\ ledger \in Int /\ ledger \in 0..ledger
      /\ tokens[v] <= held[v][ledger]
  BY <1>0, DelegationAssumption
<1> QED BY <1>1, Zenon DEF Witnessed

\* A step that only takes checkpoints.
LEMMA CheckpointsKeep ==
  ASSUME VotingInv, UNCHANGED <<tokens, ledger, held>>, UNCHANGED ballots,
         latest' \in [Holders -> [balance: Int, ledger: Int]],
         prior' \in [Holders -> [balance: Int, ledger: Int]],
         \A v \in Holders : Witnessed(latest'[v], v) /\ Witnessed(prior'[v], v)
  PROVE  VotingInv'
<1>1. VotingTypes'
  BY Zenon DEF VotingInv, VotingTypes, ballots
<1>2. \A v \in Holders : Witnessed(latest[v], v)' /\ Witnessed(prior[v], v)'
  BY Zenon DEF Witnessed
<1>3. \A v \in Holders : Backed(v) => Backed(v)'
  <2>1. created' = created /\ snapshot' = snapshot
    BY Zenon DEF ballots
  <2> QED BY <2>1, Zenon DEF Backed
<1>4. /\ \A v \in Holders : tokens'[v] <= held'[v][ledger']
      /\ created' \in 0..ledger' \cup {Absent}
      /\ created' = Absent => \A v \in Holders : snapshot'[v] = Absent /\ weight'[v] = Absent
      /\ \A v \in Holders :
           v # proposer' /\ (snapshot'[v] # Absent \/ weight'[v] # Absent) => Backed(v)'
  BY <1>3, Zenon DEF VotingInv, ballots
<1> QED BY <1>1, <1>2, <1>4, Zenon DEF VotingInv

\* checkpoint_balance: the last checkpoint is kept beside the new one.
LEMMA CheckpointKeeps ==
  ASSUME VotingInv, NEW v \in Holders, CheckpointBalance(v)
  PROVE  VotingInv'
<1> DEFINE c == [balance |-> tokens[v], ledger |-> ledger]
<1>1. /\ latest' = [latest EXCEPT ![v] = c]
      /\ prior' = prior \/ prior' = [prior EXCEPT ![v] = latest[v]]
      /\ UNCHANGED <<tokens, ledger, held>> /\ UNCHANGED ballots
  BY Zenon DEF CheckpointBalance
<1>2. c \in [balance: Int, ledger: Int] /\ Witnessed(c, v)
  BY CheckpointNow, Zenon
<1> HIDE DEF c
<1>3. /\ latest \in [Holders -> [balance: Int, ledger: Int]]
      /\ prior \in [Holders -> [balance: Int, ledger: Int]]
      /\ \A x \in Holders : Witnessed(latest[x], x) /\ Witnessed(prior[x], x)
  BY Zenon DEF VotingInv, VotingTypes
<1>4. /\ latest' \in [Holders -> [balance: Int, ledger: Int]]
      /\ \A x \in Holders : (latest'[x] = c /\ x = v) \/ latest'[x] = latest[x]
  BY <1>1, <1>2, <1>3, Zenon
<1>5. /\ prior' \in [Holders -> [balance: Int, ledger: Int]]
      /\ \A x \in Holders : prior'[x] = latest[x] \/ prior'[x] = prior[x]
  BY <1>1, <1>3, Zenon
<1>6. \A x \in Holders : Witnessed(latest'[x], x) /\ Witnessed(prior'[x], x)
  <2> TAKE x \in Holders
  <2>1. Witnessed(latest'[x], x)
    BY <1>2, <1>3, <1>4, Zenon
  <2>2. Witnessed(prior'[x], x)
    BY <1>3, <1>5, Zenon
  <2> QED BY <2>1, <2>2, Zenon
<1> QED BY <1>1, <1>4, <1>5, <1>6, CheckpointsKeep, Zenon

\* create_proposal: only the proposer's balance is taken as it is.
LEMMA CreateProposalSnapshotKeeps ==
  ASSUME VotingInv, NEW p \in Holders, CreateProposalSnapshot(p)
  PROVE  VotingInv'
<1> DEFINE c == [balance |-> tokens[p], ledger |-> ledger]
<1>1. /\ created = Absent /\ created' = ledger /\ proposer' = p
      /\ snapshot' = [snapshot EXCEPT ![p] = tokens[p]]
      /\ latest' = latest \/ latest' = [latest EXCEPT ![p] = c]
      /\ UNCHANGED <<tokens, prior, weight, ledger, held>>
  BY Zenon DEF CreateProposalSnapshot
<1>2. c \in [balance: Int, ledger: Int] /\ Witnessed(c, p)
  BY CheckpointNow, Zenon
<1> HIDE DEF c
<1>3. /\ latest \in [Holders -> [balance: Int, ledger: Int]]
      /\ snapshot \in [Holders -> Int] /\ tokens[p] \in Int
      /\ ledger \in Nat /\ ledger \in 0..ledger
      /\ \A x \in Holders : Witnessed(latest[x], x) /\ Witnessed(prior[x], x)
      /\ \A x \in Holders : snapshot[x] = Absent /\ weight[x] = Absent
  <2>1. /\ latest \in [Holders -> [balance: Int, ledger: Int]]
        /\ snapshot \in [Holders -> Int] /\ tokens \in [Holders -> Int] /\ ledger \in 0..MaxLedger
        /\ \A x \in Holders : Witnessed(latest[x], x) /\ Witnessed(prior[x], x)
        /\ created = Absent => \A x \in Holders : snapshot[x] = Absent /\ weight[x] = Absent
    BY Zenon DEF VotingInv, VotingTypes
  <2>2. tokens[p] \in Int /\ ledger \in Nat /\ ledger \in 0..ledger
    BY <2>1, DelegationAssumption
  <2> QED BY <1>1, <2>1, <2>2, Zenon
<1>4. /\ latest' \in [Holders -> [balance: Int, ledger: Int]]
      /\ \A x \in Holders : (latest'[x] = c /\ x = p) \/ latest'[x] = latest[x]
  BY <1>1, <1>2, <1>3, Zenon
<1>5. /\ snapshot' \in [Holders -> Int]
      /\ \A x \in Holders : x # p => snapshot'[x] = Absent
      /\ created' # Absent /\ created' \in 0..ledger'
  BY <1>1, <1>3 DEF Absent
<1>6. VotingTypes'
  BY <1>1, <1>4, <1>5, ZenonT(60) DEF VotingInv, VotingTypes
<1>7. \A x \in Holders : Witnessed(latest'[x], x) /\ Witnessed(prior'[x], x)
  <2> TAKE x \in Holders
  <2>1. Witnessed(latest'[x], x)
    BY <1>2, <1>3, <1>4, Zenon
  <2>2. Witnessed(prior'[x], x)
    BY <1>1, <1>3, Zenon
  <2> QED BY <2>1, <2>2, Zenon
<1>8. \A x \in Holders : Witnessed(latest[x], x)' /\ Witnessed(prior[x], x)'
  BY <1>1, <1>7, Zenon DEF Witnessed
<1>9. \A x \in Holders : tokens'[x] <= held'[x][ledger']
  BY <1>1, Zenon DEF VotingInv
<1>10. \A x \in Holders : x # proposer' => snapshot'[x] = Absent /\ weight'[x] = Absent
  BY <1>1, <1>3, <1>5, Zenon
<1> QED BY <1>5, <1>6, <1>8, <1>9, <1>10, ZenonT(60) DEF VotingInv

\* cast_vote: the snapshot is of the proposer or already cast; anybody else's
\* weight is proved now.
LEMMA CastVoteWeightKeeps ==
  ASSUME VotingInv, NEW v \in Holders, CastVoteWeight(v)
  PROVE  VotingInv'
<1> DEFINE own == IF snapshot[v] # Absent THEN snapshot[v] ELSE proven_own_balance(v, created)
<1>1. /\ created # Absent /\ (snapshot[v] # Absent \/ HasProof(v, created))
      /\ snapshot' = [snapshot EXCEPT ![v] = own]
      /\ UNCHANGED <<tokens, latest, prior, created, proposer, ledger, held>>
  BY Zenon DEF CastVoteWeight, MayVote
<1>2. PICK cast : weight' = [weight EXCEPT ![v] = cast]
  BY ZenonT(60) DEF CastVoteWeight
<1>3. own \in Int /\ (v # proposer => \E t \in 0..ledger : t + Hold <= created /\ own <= held[v][t])
  <2>0. /\ snapshot \in [Holders -> Int] /\ created \in 0..ledger \cup {Absent}
        /\ v # proposer /\ snapshot[v] # Absent => Backed(v)
    BY Zenon DEF VotingInv, VotingTypes
  <2>1. CASE snapshot[v] # Absent
    BY <2>0, <2>1, Zenon DEF Backed
  <2>2. CASE snapshot[v] = Absent
    <3>1. created \in Int /\ HasProof(v, created)
      BY <1>1, <2>0, <2>2
    <3> QED BY <2>2, <3>1, ProvenHeld, Zenon
  <2> QED BY <2>1, <2>2, Zenon
<1> HIDE DEF own
<1>4. /\ snapshot' \in [Holders -> Int] /\ snapshot'[v] = own
      /\ \A x \in Holders : x # v => snapshot'[x] = snapshot[x]
  <2>1. snapshot \in [Holders -> Int]
    BY Zenon DEF VotingInv, VotingTypes
  <2> QED BY <1>1, <1>3, <2>1, Zenon
<1>5. DOMAIN weight' = Holders /\ \A x \in Holders : x # v => weight'[x] = weight[x]
  <2>1. DOMAIN weight = Holders
    BY Zenon DEF VotingInv, VotingTypes
  <2> QED BY <1>2, <2>1, Zenon
<1>6. VotingTypes'
  BY <1>1, <1>4, <1>5, ZenonT(60) DEF VotingInv, VotingTypes
<1>7. \A x \in Holders : Witnessed(latest[x], x)' /\ Witnessed(prior[x], x)'
  <2>1. \A x \in Holders : Witnessed(latest[x], x) /\ Witnessed(prior[x], x)
    BY Zenon DEF VotingInv
  <2> QED BY <1>1, <2>1, Zenon DEF Witnessed
<1>8. ASSUME NEW x \in Holders, x # proposer', snapshot'[x] # Absent \/ weight'[x] # Absent
      PROVE  Backed(x)'
  <2>1. CASE x = v
    BY <1>1, <1>3, <1>4, <1>8, <2>1, Zenon DEF Backed
  <2>2. CASE x # v
    <3>1. Backed(x) /\ snapshot'[x] = snapshot[x]
      BY <1>1, <1>4, <1>5, <1>8, <2>2, ZenonT(60) DEF VotingInv
    <3> QED BY <1>1, <3>1, Zenon DEF Backed
  <2> QED BY <2>1, <2>2, Zenon
<1>9. /\ \A x \in Holders : tokens'[x] <= held'[x][ledger']
      /\ created' \in 0..ledger' \cup {Absent} /\ created' # Absent
  BY <1>1, Zenon DEF VotingInv
<1> QED BY <1>6, <1>7, <1>8, <1>9, ZenonT(60) DEF VotingInv

\* A step that touches neither balances nor ballots.
LEMMA QuietVotingKeeps ==
  ASSUME VotingInv, UNCHANGED <<tokens, latest, prior, ledger, held>>, UNCHANGED ballots
  PROVE  VotingInv'
<1>1. /\ \A v \in Holders : Witnessed(latest'[v], v) /\ Witnessed(prior'[v], v)
      /\ latest' \in [Holders -> [balance: Int, ledger: Int]]
      /\ prior' \in [Holders -> [balance: Int, ledger: Int]]
  <2>1. /\ \A v \in Holders : Witnessed(latest[v], v) /\ Witnessed(prior[v], v)
        /\ latest \in [Holders -> [balance: Int, ledger: Int]]
        /\ prior \in [Holders -> [balance: Int, ledger: Int]]
    BY Zenon DEF VotingInv, VotingTypes
  <2> QED BY <2>1, Zenon
<1> QED BY <1>1, CheckpointsKeep, Zenon

\* Every step keeps the invariant.
LEMMA VotingKeeps == VotingInv /\ [VotingNext]_votingVars => VotingInv'
<1> SUFFICES ASSUME VotingInv, [VotingNext]_votingVars PROVE VotingInv'
  BY Zenon
<1>1. CASE \/ \E a, to \in Holders : DelegateVotes(a, to)
           \/ \E v \in Holders : UndelegateVotes(v)
           \/ SetQuadraticVoting
           \/ \E d \in Depths : SetMaxDelegationDepth(d)
           \/ UNCHANGED votingVars
  BY <1>1, QuietVotingKeeps, Zenon
     DEF DelegateVotes, UndelegateVotes, SetQuadraticVoting, SetMaxDelegationDepth, votingVars,
         ballots
<1>2. CASE \E a, b \in Holders : Transfer(a, b)
  BY <1>2, TransferKeeps, Zenon
<1>3. CASE \E v \in Holders : CheckpointBalance(v)
  BY <1>3, CheckpointKeeps, Zenon
<1>4. CASE \E v \in Holders : CreateProposalSnapshot(v)
  BY <1>4, CreateProposalSnapshotKeeps, Zenon
<1>5. CASE \E v \in Holders : CastVoteWeight(v)
  BY <1>5, CastVoteWeightKeeps, Zenon
<1>6. CASE CloseLedger
  BY <1>6, CloseLedgerKeeps, Zenon
<1> QED BY <1>1, <1>2, <1>3, <1>4, <1>5, <1>6, Zenon DEF VotingNext, StepAmong

\* Nobody but the proposer carries more of their own than they held the holding
\* period before the proposal, for any voters, balances, holding period and
\* sequence of transfers, checkpoints, delegations and ballots (checkpoint_balance,
\* proven_own_balance and cast_vote of iln_governance).
THEOREM AlwaysHeldBefore == VotingSpec => []HeldBefore
<1>1. VotingInv => HeldBefore
  <2> SUFFICES ASSUME VotingInv, NEW v \in Holders, weight[v] # Absent, v # proposer
               PROVE  \E t \in 0..MaxLedger : t + Hold <= created /\ snapshot[v] <= held[v][t]
    BY Zenon DEF HeldBefore
  <2>1. Backed(v) /\ ledger \in 0..MaxLedger
    BY Zenon DEF VotingInv, VotingTypes
  <2>2. \A t \in 0..ledger : t \in 0..MaxLedger
    BY <2>1, DelegationAssumption
  <2> QED BY <2>1, <2>2, Zenon DEF Backed
<1> QED BY <1>1, VotingStarts, VotingKeeps, PTL DEF VotingSpec

-----------------------------------------------------------------------------
(* The delegation graph.  Following delegations is a walk that is at rest at *)
(* a voter who has not delegated.                                            *)

Pointers == {d \in [Holders -> Holders \cup {Nobody}] : \A x \in Holders : d[x] # x}

Hops(d) == [x \in Holders |-> IF d[x] = Nobody THEN x ELSE d[x]]

\* Rest means nobody to go on to, and a hop to another voter is a delegation.
LEMMA HopsFollow ==
  ASSUME NEW d \in Pointers
  PROVE  /\ Hops(d) \in [Holders -> Holders]
         /\ \A x \in Holders : Hops(d)[x] = x <=> d[x] = Nobody
         /\ \A x, y \in Holders : Hops(d)[x] = y /\ x # y <=> d[x] = y
  BY DelegationAssumption, Zenon DEF Hops, Pointers

\* forward_delegation_depth counts the steps up to rest.
LEMMA ForwardDepth ==
  ASSUME NEW g, NEW t, NEW m \in Nat, AtRest(g, t, m)
  PROVE  \E h \in Nat : /\ Cardinality({k \in 0..(m-1) : ~ AtRest(g, t, k)}) = h
                        /\ AtRest(g, t, h)
<1> DEFINE T == {n \in Nat : AtRest(g, t, n)}
           S == {k \in 0..(m-1) : ~ AtRest(g, t, k)}
<1>1. T \in SUBSET Nat /\ m \in T
  BY Zenon
<1>2. PICK h \in T : \A n \in T : h <= n
  BY <1>1, LeastNat, Zenon
<1>3. h \in Nat /\ h <= m /\ AtRest(g, t, h)
  BY <1>1, <1>2, Zenon
<1>4. S = 0..(h-1)
  <2>1. ASSUME NEW k \in 0..(h-1) PROVE k \in S
    <3>1. k \in Nat /\ k < h /\ k \in 0..(m-1)
      BY <1>3
    <3>2. k \notin T
      BY <1>2, <1>3, <3>1
    <3> QED BY <3>1, <3>2, Zenon
  <2>2. ASSUME NEW k \in S PROVE k \in 0..(h-1)
    <3>1. k \in Nat /\ ~ AtRest(g, t, k)
      OBVIOUS
    <3>2. ~ (h <= k)
      BY <1>3, <3>1, RestStays, Zenon
    <3> QED BY <1>3, <3>1, <3>2
  <2> QED BY <2>1, <2>2, Zenon
<1> HIDE DEF S, T
<1>5. Cardinality(0..(h-1)) = h
  <2>1. 0 \in Int /\ h - 1 \in Int
    BY <1>3
  <2>2. Cardinality(0..(h-1)) = IF 0 > h-1 THEN 0 ELSE (h-1) - 0 + 1
    BY <2>1, FS_Interval, Zenon
  <2> QED BY <1>3, <2>2
<1> QED BY <1>3, <1>4, <1>5, Zenon DEF S

\* longest_inbound_depth is no less than any way that ends there.
LEMMA InboundDepth ==
  ASSUME NEW S \in SUBSET Nat, NEW m \in Nat, \A y \in S : y <= m, S # {}
  PROVE  Max(S) \in Nat /\ \A y \in S : y <= Max(S)
<1> DEFINE T == {k \in Nat : m - k \in S}
<1>1. T \in SUBSET Nat
  BY Zenon
<1>2. ASSUME NEW y \in S PROVE m - y \in T
  <2>1. y \in Nat /\ y <= m
    BY Zenon
  <2>2. m - y \in Nat /\ m - (m - y) = y
    BY <2>1
  <2> QED BY <2>2, Zenon
<1>3. PICK k \in T : \A n \in T : k <= n
  BY <1>1, <1>2, LeastNat, Zenon
<1>4. m - k \in S /\ \A y \in S : m - k >= y
  <2> SUFFICES ASSUME NEW y \in S PROVE m - k >= y
    BY <1>3, Zenon
  <2>1. k \in Nat /\ y \in Nat /\ k <= m - y
    BY <1>2, <1>3, Zenon
  <2> QED BY <2>1
<1>5. Max(S) \in S /\ \A y \in S : Max(S) >= y
  BY <1>4, Zenon DEF Max
<1> QED BY <1>5, Zenon

\* DelegationsSound with the types it needs, and that nobody delegates to themselves.
GraphInv ==
    /\ delegate \in Pointers
    /\ delegators \in [Holders -> SUBSET Holders]
    /\ \A a, b \in Holders : a \in delegators[b] <=> delegate[a] = b
    /\ max_depth \in Nat /\ peak \in Nat /\ max_depth <= peak
    /\ RestIn(Hops(delegate), Holders, peak)

\* The operators of the model, on the stored graph.
LEMMA StoredWays ==
  ASSUME NEW a, NEW n
  PROVE  /\ Ahead(a, n) = Iterate(Hops(delegate), a, n)
         /\ Behind(a, n) = Origins(delegators, Holders, a, n)
  BY Zenon DEF Ahead, Hops, Behind, Origins

\* When nobody is n steps away, nobody is further away.
LEMMA OriginsEnd ==
  ASSUME NEW H, NEW r \in [H -> SUBSET H], NEW a \in H,
         NEW n \in Nat, Origins(r, H, a, n) = {}, NEW m \in Nat, n <= m
  PROVE  Origins(r, H, a, m) = {}
<1> DEFINE T == {k \in Nat : n <= k => Origins(r, H, a, k) = {}}
<1>1. \A k \in Nat : Origins(r, H, a, k+1) = UNION {r[x] : x \in Origins(r, H, a, k)}
  BY OriginsSteps
<1>2. 0 \in T
  <2>1. 0 \in Nat /\ (n <= 0 => n = 0)
    OBVIOUS
  <2> QED BY <2>1, Zenon
<1>3. ASSUME NEW k \in T PROVE k+1 \in T
  <2>1. k \in Nat /\ k+1 \in Nat /\ (n <= k+1 => n <= k \/ n = k+1)
    OBVIOUS
  <2>2. Origins(r, H, a, k) = {} => Origins(r, H, a, k+1) = {}
    BY <1>1, <2>1, Zenon
  <2> QED BY <2>1, <2>2, Zenon
<1>4. T \in SUBSET Nat
  BY Zenon
<1>5. m \in T
  <2> HIDE DEF T
  <2> QED BY <1>2, <1>3, <1>4, SetInduction, Zenon
<1> QED BY <1>5, Zenon

\* delegate_votes.
LEMMA DelegateSound ==
  ASSUME GraphInv, NEW a \in Holders, NEW to \in Holders, DelegateVotes(a, to)
  PROVE  GraphInv'
<1> DEFINE g == Hops(delegate)
           up == longest_inbound_depth(a)
           down == forward_delegation_depth(to)
<1>0. /\ delegators \in [Holders -> SUBSET Holders]
      /\ \A x, y \in Holders : x \in delegators[y] <=> delegate[x] = y
  BY Zenon DEF GraphInv
<1>1. /\ a # to /\ delegate' = [delegate EXCEPT ![a] = to] /\ delegators' = Linked(a, to)
      /\ up + 1 + down <= max_depth
      /\ \A k \in 1..(max_depth + 1) : Ahead(to, k) # a
      /\ delegate[Ahead(to, max_depth)] = Nobody
      /\ max_depth' = max_depth /\ peak' = peak
  BY Zenon DEF DelegateVotes, CycleFree, rules
<1>2. max_depth \in Nat /\ peak \in Nat /\ max_depth <= peak
  BY Zenon DEF GraphInv
<1>3. /\ g \in [Holders -> Holders] /\ \A x \in Holders : g[x] = x <=> delegate[x] = Nobody
      /\ \A x, y \in Holders : g[x] = y /\ x # y <=> delegate[x] = y
  BY HopsFollow, Zenon DEF GraphInv
<1>4. \A k \in Nat : Ahead(to, k) = Iterate(g, to, k) /\ Ahead(to, k) \in Holders
  <2>1. \A k \in Nat : Ahead(to, k) = Iterate(g, to, k)
    BY StoredWays, Zenon
  <2>2. \A k \in Nat : Iterate(g, to, k) \in Holders
    BY <1>3, IterateType, Zenon
  <2> QED BY <2>1, <2>2, Zenon
<1> HIDE DEF g
<1>a. AtRest(g, to, max_depth)
  BY <1>1, <1>2, <1>3, <1>4, Zenon DEF AtRest
<1>5. down \in Nat /\ AtRest(g, to, down)
  <2> DEFINE S == {k \in 0..(max_depth - 1) : ~ AtRest(g, to, k)}
  <2>1. \A k \in 0..(max_depth - 1) : delegate[Ahead(to, k)] # Nobody <=> ~ AtRest(g, to, k)
    BY <1>2, <1>3, <1>4 DEF AtRest
  <2>2. down = Cardinality(S)
    BY <2>1, Zenon DEF forward_delegation_depth
  <2> HIDE DEF down
  <2> QED BY <1>2, <1>a, <2>2, ForwardDepth, Zenon
<1>b. up \in Nat /\ \A j \in 0..max_depth : Origins(delegators, Holders, a, j) # {} => j <= up
  <2> DEFINE S == {n \in 0..max_depth : Origins(delegators, Holders, a, n) # {}}
  <2>1. up = Max(S)
    BY StoredWays, Zenon DEF longest_inbound_depth
  <2>2. 0 \in S
    BY <1>2, OriginsSteps DEF GraphInv
  <2>3. S \in SUBSET Nat /\ (\A y \in S : y <= max_depth) /\ S # {}
    BY <1>2, <2>2
  <2>4. \A j \in 0..max_depth : Origins(delegators, Holders, a, j) # {} => j \in S
    BY Zenon
  <2> HIDE DEF S, up
  <2>5. up \in Nat /\ \A y \in S : y <= up
    BY <1>2, <2>1, <2>3, InboundDepth, Zenon
  <2> QED BY <2>4, <2>5, Zenon
<1> HIDE DEF up, down
<1>6. \A j \in 0..peak : Origins(delegators, Holders, a, j) # {} => j <= up
  <2> SUFFICES ASSUME NEW j \in 0..peak, Origins(delegators, Holders, a, j) # {} PROVE j <= up
    BY Zenon
  <2>1. j \in Nat /\ up + 1 \in Nat /\ up + 1 \in 0..max_depth /\ ~ (up + 1 <= up)
    BY <1>1, <1>2, <1>5, <1>b
  <2>2. Origins(delegators, Holders, a, up + 1) = {}
    BY <1>b, <2>1, Zenon
  <2>3. ~ (up + 1 <= j)
    BY <1>0, <2>1, <2>2, OriginsEnd, Zenon
  <2> QED BY <1>b, <2>1, <2>3
<1>7. \A k \in 0..peak : Iterate(g, to, k) # a
  <2> TAKE k \in 0..peak
  <2>1. k \in Nat /\ (k = 0 \/ k \in 1..(max_depth + 1) \/ max_depth <= k)
        /\ (max_depth = 0 \/ max_depth \in 1..(max_depth + 1))
    BY <1>2
  <2>2. Iterate(g, to, 0) = to
    BY IterateEquations, Zenon
  <2>3. Iterate(g, to, max_depth) # a
    BY <1>1, <1>2, <1>4, <2>1, <2>2, Zenon
  <2>4. max_depth <= k => Iterate(g, to, k) = Iterate(g, to, max_depth)
    BY <1>2, <1>a, <2>1, RestStays, Zenon
  <2> QED BY <1>1, <1>4, <2>1, <2>2, <2>3, <2>4, Zenon
<1>8. RestIn([g EXCEPT ![a] = to], Holders, peak)
  <2>1. /\ delegators \in [Holders -> SUBSET Holders]
        /\ \A x, y \in Holders : x \in delegators[y] <=> g[x] = y /\ x # y
    BY <1>0, <1>3
  <2>2. RestIn(g, Holders, peak) /\ peak \in Nat /\ up \in Nat
    BY <1>b, Zenon DEF GraphInv, g
  <2>3. up + 1 + down <= peak
    BY <1>1, <1>2, <1>5, <1>b
  <2> QED BY <1>3, <1>5, <1>6, <1>7, <2>1, <2>2, <2>3, LinkRests, ZenonT(60)
<1>9. delegate' \in Pointers /\ Hops(delegate') = [g EXCEPT ![a] = to]
  BY <1>1, DelegationAssumption DEF GraphInv, Pointers, Hops, g
<1>10. /\ delegators' \in [Holders -> SUBSET Holders]
       /\ \A y \in Holders : delegators'[y] = IF y = to THEN delegators[y] \cup {a}
                                                       ELSE delegators[y] \ {a}
  BY <1>0, <1>1, Zenon DEF Linked
<1>11. delegate'[a] = to /\ \A x \in Holders : x # a => delegate'[x] = delegate[x]
  BY <1>1 DEF GraphInv, Pointers
<1>12. ASSUME NEW x \in Holders, NEW y \in Holders
       PROVE  x \in delegators'[y] <=> delegate'[x] = y
  <2>1. CASE x = a
    BY <1>10, <1>11, <2>1
  <2>2. CASE x # a
    BY <1>0, <1>10, <1>11, <2>2
  <2> QED BY <2>1, <2>2, ZenonT(60)
<1> QED BY <1>1, <1>2, <1>8, <1>9, <1>10, <1>12, Zenon DEF GraphInv

\* undelegate_votes.
LEMMA UndelegateSound ==
  ASSUME GraphInv, NEW a \in Holders, UndelegateVotes(a)
  PROVE  GraphInv'
<1> DEFINE b == delegate[a]
           g == Hops(delegate)
<1>1. /\ b # Nobody /\ delegate' = [delegate EXCEPT ![a] = Nobody]
      /\ delegators' = [delegators EXCEPT ![b] = delegators[b] \ {a}]
      /\ max_depth' = max_depth /\ peak' = peak
  BY Zenon DEF UndelegateVotes, rules
<1>0. /\ delegators \in [Holders -> SUBSET Holders]
      /\ \A x, y \in Holders : x \in delegators[y] <=> delegate[x] = y
  BY Zenon DEF GraphInv
<1>2. b \in Holders
  BY <1>1, Zenon DEF GraphInv, Pointers
<1>3. RestIn([g EXCEPT ![a] = a], Holders, peak)
  BY HopsFollow, CutRests, Zenon DEF GraphInv
<1>4. delegate' \in Pointers /\ Hops(delegate') = [g EXCEPT ![a] = a]
  BY <1>1, DelegationAssumption DEF GraphInv, Pointers, Hops
<1>5. delegate'[a] = Nobody /\ \A x \in Holders : x # a => delegate'[x] = delegate[x]
  BY <1>1 DEF GraphInv, Pointers
<1>6. /\ delegators' \in [Holders -> SUBSET Holders] /\ delegators'[b] = delegators[b] \ {a}
      /\ \A y \in Holders : y # b => delegators'[y] = delegators[y]
  BY <1>0, <1>1, <1>2
<1>7. ASSUME NEW x \in Holders, NEW y \in Holders
      PROVE  x \in delegators'[y] <=> delegate'[x] = y
  <2>1. CASE x = a
    <3>1. a \in delegators[y] => y = b
      BY <1>0, Zenon
    <3> QED BY <1>5, <1>6, <2>1, <3>1, DelegationAssumption, Zenon
  <2>2. CASE x # a
    <3>1. x \in delegators'[y] <=> x \in delegators[y]
      BY <1>6, <2>2, Zenon
    <3> QED BY <1>0, <1>5, <2>2, <3>1, Zenon
  <2> QED BY <2>1, <2>2, Zenon
<1>8. max_depth \in Nat /\ peak \in Nat /\ max_depth <= peak
  BY Zenon DEF GraphInv
<1> QED BY <1>1, <1>3, <1>4, <1>6, <1>7, <1>8, Zenon DEF GraphInv

\* set_max_delegation_depth: the greatest limit so far does not fall.
LEMMA DepthSound ==
  ASSUME GraphInv, NEW d \in Depths, SetMaxDelegationDepth(d)
  PROVE  GraphInv'
<1>1. /\ delegate' = delegate /\ delegators' = delegators
      /\ max_depth' = d /\ peak' = Max({peak, d})
  BY Zenon DEF SetMaxDelegationDepth, graph
<1>2. peak \in Nat /\ d \in Nat
  BY DelegationAssumption, Zenon DEF GraphInv
<1>3. peak' \in Nat /\ d <= peak' /\ peak <= peak'
  BY <1>1, <1>2 DEF Max
<1>4. RestIn(Hops(delegate), Holders, peak')
  <2>1. RestIn(Hops(delegate), Holders, peak)
    BY Zenon DEF GraphInv
  <2> QED BY <1>2, <1>3, <2>1, RestStays, Zenon DEF RestIn
<1>5. /\ (delegate \in Pointers)' /\ (delegators \in [Holders -> SUBSET Holders])'
      /\ (\A a, b \in Holders : a \in delegators[b] <=> delegate[a] = b)'
  BY <1>1, Zenon DEF GraphInv
<1>6. max_depth' \in Nat /\ max_depth' <= peak'
  BY <1>1, <1>2, <1>3, Zenon
<1>7. RestIn(Hops(delegate'), Holders, peak')
  BY <1>1, <1>4, Zenon
<1> QED BY <1>3, <1>5, <1>6, <1>7, Zenon DEF GraphInv

\* Whatever delegations are added, moved and removed, in any order and by any
\* number of voters, and whatever the limit is set to in between, following them
\* ends at a voter who has not delegated, after no more steps than the greatest
\* limit there has been, and the reverse lists are those of the delegations
\* (delegate_votes, undelegate_votes and set_max_delegation_depth of iln_governance).
THEOREM DelegationsAlwaysSound == VotingSpec => []DelegationsSound
<1>1. VotingInit => GraphInv
  <2> SUFFICES ASSUME VotingInit PROVE GraphInv
    BY Zenon
  <2>1. /\ delegate \in Pointers /\ delegators \in [Holders -> SUBSET Holders]
        /\ \A x \in Holders : delegate[x] = Nobody /\ delegators[x] = {}
    BY DelegationAssumption, Zenon DEF VotingInit, Pointers
  <2>2. Hops(delegate) \in [Holders -> Holders] /\ \A x \in Holders : Hops(delegate)[x] = x
    BY <2>1, HopsFollow, Zenon
  <2>3. max_depth \in Nat /\ peak \in Nat /\ max_depth <= peak
    BY DelegationAssumption DEF VotingInit
  <2>4. \A v \in Holders : Iterate(Hops(delegate), v, peak) \in Holders
    BY <2>2, <2>3, IterateType, Zenon
  <2> QED BY <2>1, <2>2, <2>3, <2>4, DelegationAssumption, Zenon DEF GraphInv, RestIn, AtRest
<1>2. GraphInv /\ [VotingNext]_votingVars => GraphInv'
  <2> SUFFICES ASSUME GraphInv, [VotingNext]_votingVars PROVE GraphInv'
    BY Zenon
  <2>1. CASE \E a, to \in Holders : DelegateVotes(a, to)
    BY <2>1, DelegateSound, Zenon
  <2>2. CASE \E a \in Holders : UndelegateVotes(a)
    BY <2>2, UndelegateSound, Zenon
  <2>3. CASE \E d \in Depths : SetMaxDelegationDepth(d)
    BY <2>3, DepthSound, Zenon
  <2>4. CASE UNCHANGED graph /\ max_depth' = max_depth /\ peak' = peak
    BY <2>4, Zenon DEF GraphInv, graph
  <2>5. \/ \E a, to \in Holders : DelegateVotes(a, to)
        \/ \E a \in Holders : UndelegateVotes(a)
        \/ \E d \in Depths : SetMaxDelegationDepth(d)
        \/ UNCHANGED graph /\ max_depth' = max_depth /\ peak' = peak
    BY ZenonT(60) DEF VotingNext, StepAmong, Transfer, CheckpointBalance, CreateProposalSnapshot, CastVoteWeight,
           SetQuadraticVoting, CloseLedger, votingVars, graph, rules
  <2> QED BY <2>1, <2>2, <2>3, <2>4, <2>5, Zenon
<1>3. GraphInv => DelegationsSound
  <2> SUFFICES ASSUME GraphInv PROVE DelegationsSound
    BY Zenon
  <2>1. ASSUME NEW v \in Holders PROVE delegate[Ahead(v, peak)] = Nobody
    <3>1. /\ Hops(delegate) \in [Holders -> Holders]
          /\ \A x \in Holders : Hops(delegate)[x] = x <=> delegate[x] = Nobody
      BY HopsFollow, Zenon DEF GraphInv
    <3>2. peak \in Nat /\ AtRest(Hops(delegate), v, peak)
      BY Zenon DEF GraphInv, RestIn
    <3>3. Iterate(Hops(delegate), v, peak) \in Holders
      BY <3>1, <3>2, IterateType, Zenon
    <3> QED BY <3>1, <3>2, <3>3, StoredWays, Zenon DEF AtRest
  <2> QED BY <2>1, Zenon DEF GraphInv, DelegationsSound
<1> QED BY <1>1, <1>2, <1>3, PTL DEF VotingSpec

=============================================================================
