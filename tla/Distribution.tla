---------------------------- MODULE Distribution -----------------------------
(* The distribution contract (iln_distribution): participants accrue        *)
(* activity that the invoice contract reports, and claim governance tokens  *)
(* for all of it at the reward rates of the moment.                         *)
EXTENDS Integers

CONSTANTS
    Participants,
    Amounts,       \* amounts that the invoice contract may report
    Rates,         \* reward rates that governance may set: any i128
    DefaultRates,  \* the three DEFAULT_..._REWARD_RATE
    Hundred,       \* HUNDRED_USDC_STROOPS
    MaxAccrual     \* MAX_LP_ACCRUAL_PER_CALL

ASSUME DistributionAssumption ==
    /\ Amounts \subseteq Int
    /\ Rates \subseteq Int /\ DefaultRates \in [{"lp", "freelancer", "payer"} -> Int]
    /\ Hundred \in Nat \ {0}
    /\ MaxAccrual \in Nat

VARIABLES
    volume,     \* LpFundedVolume(participant)
    settled,    \* FreelancerSettled(participant)
    onTime,     \* PayerOnTimeSettled(participant)
    claimed,    \* Claimed(participant)
    minted,     \* governance tokens minted to each participant (external)
    rate,       \* LpRewardRate, FreelancerRewardRate, PayerRewardRate
    peak        \* history: the most total_earned ever was

accruals == <<volume, settled, onTime>>

distVars == <<volume, settled, onTime, claimed, minted, rate, peak>>

Kinds == {"lp", "freelancer", "payer"}

-----------------------------------------------------------------------------

EarnedOn(v, s, o, r) ==
    (v \div Hundred) * r["lp"] + s * r["freelancer"] + o * r["payer"]

total_earned(a) == EarnedOn(volume[a], settled[a], onTime[a], rate)

\* The history variable follows every write.
Observe ==
    peak' = [a \in Participants |->
                LET e == EarnedOn(volume'[a], settled'[a], onTime'[a], rate')
                IN  IF e > peak[a] THEN e ELSE peak[a]]

\* Amounts that are not positive or too large are ignored without an error.
accrue_lp(lp, amount) ==
    /\ volume' = IF amount <= 0 \/ amount > MaxAccrual THEN volume
                 ELSE [volume EXCEPT ![lp] = @ + amount]
    /\ UNCHANGED <<settled, onTime, claimed, minted, rate>>
    /\ Observe

accrue_settlement(f, p, inTime) ==
    /\ settled' = [settled EXCEPT ![f] = @ + 1]
    /\ onTime' = IF inTime THEN [onTime EXCEPT ![p] = @ + 1] ELSE onTime
    /\ UNCHANGED <<volume, claimed, minted, rate>>
    /\ Observe

\* Mutant: the record holds the last claim instead of the sum of all claims.
claim_tokens_last(a) ==
    LET claimable == total_earned(a) - claimed[a] IN
    /\ claimable > 0
    /\ minted' = [minted EXCEPT ![a] = @ + claimable]
    /\ claimed' = [claimed EXCEPT ![a] = claimable]
    /\ UNCHANGED <<volume, settled, onTime, rate, peak>>

\* With nothing to claim the call returns zero and writes nothing.
claim_tokens(a) ==
    LET claimable == total_earned(a) - claimed[a] IN
    /\ claimable > 0
    /\ minted' = [minted EXCEPT ![a] = @ + claimable]
    /\ claimed' = [claimed EXCEPT ![a] = @ + claimable]
    /\ UNCHANGED <<volume, settled, onTime, rate, peak>>

\* set_lp_reward_rate, set_freelancer_reward_rate and set_payer_reward_rate.
set_reward_rate(k, r) ==
    /\ rate' = [rate EXCEPT ![k] = r]
    /\ UNCHANGED <<volume, settled, onTime, claimed, minted>>
    /\ Observe

\* Activity is zero for every participant, and rates have their defaults.
DistInit ==
    /\ volume = [a \in Participants |-> 0]
    /\ settled = [a \in Participants |-> 0]
    /\ onTime = [a \in Participants |-> 0]
    /\ claimed = [a \in Participants |-> 0]
    /\ minted = [a \in Participants |-> 0]
    /\ rate = DefaultRates
    /\ peak = [a \in Participants |-> 0]

DistNext ==
    \/ \E lp \in Participants, amount \in Amounts : accrue_lp(lp, amount)
    \/ \E f, p \in Participants, inTime \in BOOLEAN : accrue_settlement(f, p, inTime)
    \/ \E a \in Participants : claim_tokens(a)
    \/ \E k \in Kinds, r \in Rates : set_reward_rate(k, r)

DistSpec == DistInit /\ [][DistNext]_distVars

-----------------------------------------------------------------------------

\* claim_tokens pays for all activity at the rates of the moment, less what was
\* claimed before.  However governance moves the rates between claims, down and
\* up again included, the tokens minted to a participant are the ones recorded
\* as claimed and never more than total_earned was worth at its best moment.
MintedWithinPeak ==
    \A a \in Participants :
        /\ minted[a] = claimed[a]
        /\ 0 <= minted[a] /\ minted[a] <= peak[a]
=============================================================================
