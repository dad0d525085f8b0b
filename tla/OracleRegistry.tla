--------------------------- MODULE OracleRegistry ---------------------------
(* The oracle gate of fund_invoice                                          *)
(* (contracts/invoice_liquidity/src/oracle_registry.rs) for the Identity    *)
(* feed and one token: who is registered, the health snapshot, the circuit  *)
(* breaker with its half-open recovery, and the quorum of feeders.          *)
(*                                                                          *)
(* What an oracle answers is any answer: timestamps differ from payer to    *)
(* payer, and anybody may ask for any payer.  The saturating counters       *)
(* saturate here at the threshold they are compared with.                   *)
EXTENDS Integers, FiniteSets

CONSTANTS
    Oracles,
    Compatible,       \* those that report ORACLE_INTERFACE_VERSION
    None,             \* an absent oracle, snapshot or recovery record
    MaxStale,         \* MAX_CONSECUTIVE_STALE_QUERIES
    MaxDup,           \* MAX_CONSECUTIVE_DUPLICATE_UPDATES
    RecoverObs,       \* CIRCUIT_RECOVERY_HEALTHY_OBSERVATIONS
    RecoverLedgers,   \* CIRCUIT_RECOVERY_MIN_LEDGERS
    MaxFeeders,       \* MAX_IDENTITY_ORACLES_PER_FEED
    Ages,             \* values of max_oracle_age_ledgers
    MaxTime           \* bound: the last ledger

\* OracleHealthStatus, CircuitRecoveryState, and the grounds of a funding.
Snapshot == [oracle: Oracles, ts: Nat, stale: BOOLEAN, nstale: Nat, ndup: Nat]
Recovery == [oracle: Oracles, healthy: Nat, first: Nat]
Grounds == [path: {"single", "quorum", "open"}, agreed: SUBSET Oracles]

ASSUME OracleAssumption ==
    /\ Compatible \subseteq Oracles
    /\ None \notin Oracles \cup Snapshot \cup Recovery \cup Grounds
    /\ MaxStale \in Nat \ {0}
    /\ MaxDup \in Nat
    /\ RecoverObs \in Nat \ {0}
    /\ RecoverLedgers \in Nat
    /\ MaxFeeders \in Nat \ {0}
    /\ Ages \subseteq Nat
    /\ MaxTime \in Nat

VARIABLES
    chain,     \* the oracle registered at each level of the priority chain
    feeders,   \* DataKey::IdentityOracles
    quorum,    \* DataKey::IdentityQuorum
    maxAge,    \* config.max_oracle_age_ledgers
    health,    \* DataKey::OracleHealth, the latest snapshot of any oracle
    tripped,   \* DataKey::OracleCircuitTripped
    recovery,  \* DataKey::OracleCircuitRecovery
    now,       \* ledger sequence
    \* History, not part of the contract:
    seen,      \* seen[o]: the latest unbroken run of fresh or stale answers of o
    served,    \* how often in a row funding was let through on one same answer
    gate       \* on what grounds, right after a funding

settings == <<chain, feeders, quorum, maxAge>>
breaker == <<health, tripped, recovery>>
history == <<seen, served>>
vars == <<chain, feeders, quorum, maxAge, health, tripped, recovery, now, seen, served,
          gate>>

\* The levels, highest priority first.
TokenOracle == 1
FeedOracle == 2
PriceOracle == 3
Levels == 1..3

\* Timestamps an oracle may answer with, one in the future included.
Times == 0..(now + 1)
Answers == [ts: Times, verified: BOOLEAN]

Saturated(n, limit) == IF n < limit THEN n ELSE limit

Init ==
    /\ chain = [k \in Levels |-> None]
    /\ feeders = {}
    /\ quorum = 1
    /\ maxAge \in Ages
    /\ health = None
    /\ tripped = FALSE
    /\ recovery = None
    /\ now = 1
    /\ seen = [o \in Oracles |-> [stale |-> 0, fresh |-> 0, since |-> 0]]
    /\ served = [oracle |-> None, ts |-> 0, times |-> 0]
    /\ gate = None

-----------------------------------------------------------------------------
(* Resolution.                                                              *)

First(S) == CHOOSE k \in S : \A l \in S : k <= l

Registered == {k \in Levels : chain[k] # None}

resolve_oracle == IF Registered = {} THEN None ELSE chain[First(Registered)]

\* Is o passed over while the breaker is open?
is_excluded(o) == tripped /\ (health = None \/ health.oracle = o)

resolve_oracle_for_verification ==
    LET usable == {k \in Registered : ~ is_excluded(chain[k])}
    IN  IF usable = {} THEN None ELSE chain[First(usable)]

is_oracle_data_stale(ts) ==
    maxAge # 0 /\ (ts > now \/ now - ts >= maxAge)

\* The latest snapshot is one of oracle o.
Observed(o) == health # None /\ health.oracle = o

is_oracle_data_timestamp_regression(o, ts) == Observed(o) /\ ts < health.ts

\* Mutant: one duplicate more, and with saturation any number.
DuplicateOffByOne(o, ts) ==
    Observed(o) /\ ts = health.ts /\ health.ndup > MaxDup

is_oracle_data_duplicate_update(o, ts) ==
    Observed(o) /\ ts = health.ts /\ health.ndup >= MaxDup

-----------------------------------------------------------------------------
(* Health and the circuit breaker.                                          *)

\* Mutant: an unhealthy answer is ignored.
KeepStreak(r) == r

\* What an unhealthy answer leaves of a recovery streak.
BreakStreak(r) == [r EXCEPT !.healthy = 0, !.first = 0]

\* open and r: the breaker and its recovery record after a possible trip.
maybe_recover_oracle_circuit(o, healthy, open, r) ==
    LET first == IF r.healthy = 0 THEN now ELSE r.first
        n     == Saturated(r.healthy + 1, RecoverObs)
    IN  IF ~ open \/ r = None
        THEN tripped' = open /\ recovery' = r
        ELSE IF r.oracle # o
        THEN tripped' = TRUE /\ recovery' = r
        ELSE IF ~ healthy
        THEN tripped' = TRUE /\ recovery' = BreakStreak(r)
        ELSE IF n >= RecoverObs /\ now - first >= RecoverLedgers
        THEN tripped' = FALSE /\ recovery' = None
        ELSE tripped' = TRUE /\ recovery' = [r EXCEPT !.healthy = n, !.first = first]

\* The history of o after an answer.
Note(o, stale) ==
    seen' = [seen EXCEPT ![o] =
        IF stale
        THEN [stale |-> Saturated(@.stale + 1, MaxStale), fresh |-> 0, since |-> 0]
        ELSE [stale |-> 0, fresh |-> Saturated(@.fresh + 1, RecoverObs),
              since |-> IF @.fresh = 0 THEN now ELSE @.since]]

\* The streaks of the next snapshot: only answers of the same oracle count.
StaleStreak(o) ==
    IF Observed(o) THEN Saturated(health.nstale + 1, MaxStale) ELSE 1

DuplicateStreak(o, ts) ==
    IF Observed(o) /\ ts = health.ts THEN Saturated(health.ndup + 1, MaxDup) ELSE 0

record_oracle_health(o, ts) ==
    LET stale  == is_oracle_data_stale(ts)
        nstale == IF stale THEN StaleStreak(o) ELSE 0
        trips  == stale /\ nstale >= MaxStale /\ ~ tripped
        r      == IF trips THEN [oracle |-> o, healthy |-> 0, first |-> 0] ELSE recovery
        advanced == Observed(o) => ts > health.ts
    IN  /\ health' = [oracle |-> o, ts |-> ts, stale |-> stale,
                      nstale |-> nstale, ndup |-> DuplicateStreak(o, ts)]
        /\ maybe_recover_oracle_circuit(o, ~ stale /\ advanced, tripped \/ trips, r)
        /\ Note(o, stale)

\* A run of fundings on one answer goes on only while that answer is repeated.
Interrupt(o, ts) ==
    served' = IF served.oracle = o /\ served.ts = ts THEN served
              ELSE [oracle |-> None, ts |-> 0, times |-> 0]

\* Permissionless; asks the first registered oracle, whatever the breaker says.
CheckOracleHealth ==
    LET o == resolve_oracle IN
    /\ o # None
    /\ \E ts \in Times : record_oracle_health(o, ts) /\ Interrupt(o, ts)
    /\ gate' = None
    /\ UNCHANGED <<settings, now>>

-----------------------------------------------------------------------------
(* The gate.  Feeders are asked one by one and may not answer at all.       *)

Verifies(a) == a # None /\ a.verified /\ ~ is_oracle_data_stale(a.ts)

\* The feeders that agree, when answers[o] is the answer of o, None if its
\* call fails.
check_identity_quorum(answers) == {o \in feeders : Verifies(answers[o])}

\* The gate lets an answer of o with timestamp ts come to a verdict.
PassesChecks(o, ts) ==
    /\ ~ is_oracle_data_timestamp_regression(o, ts)
    /\ ~ is_oracle_data_duplicate_update(o, ts)

\* The diagnostic commits whatever the outcome; where no snapshot is recorded
\* it leaves no trace and is no step.
CheckOracleVerification ==
    LET o == resolve_oracle_for_verification IN
    /\ feeders = {}
    /\ o # None
    /\ \E ts \in Times :
          PassesChecks(o, ts) /\ record_oracle_health(o, ts) /\ Interrupt(o, ts)
    /\ gate' = None
    /\ UNCHANGED <<settings, now>>

\* fund_invoice with require_oracle_verification, in three cases.  A rejection
\* rolls back, so only a funding that is let through is a step.
FundByQuorum ==
    /\ feeders # {}
    /\ \E answers \in [feeders -> Answers \cup {None}] :
          LET agreed == check_identity_quorum(answers) IN
          /\ Cardinality(agreed) >= quorum
          /\ gate' = [path |-> "quorum", agreed |-> agreed]
    /\ UNCHANGED <<settings, breaker, now, history>>

FundUnconfigured ==
    /\ feeders = {}
    /\ Registered = {}
    /\ gate' = [path |-> "open", agreed |-> {}]
    /\ UNCHANGED <<settings, breaker, now, history>>

FundBySingleOracle ==
    LET o == resolve_oracle_for_verification IN
    /\ feeders = {}
    /\ o # None
    /\ \E a \in Answers :
          /\ PassesChecks(o, a.ts)
          /\ Verifies(a)
          /\ record_oracle_health(o, a.ts)
          /\ served' = [oracle |-> o, ts |-> a.ts,
                        times |-> IF served.oracle = o /\ served.ts = a.ts
                                  THEN Saturated(served.times + 1, MaxDup + 2) ELSE 1]
    /\ gate' = [path |-> "single", agreed |-> {o}]
    /\ UNCHANGED <<settings, now>>

-----------------------------------------------------------------------------
(* Administration.  The cooldown between two calls of one function is left  *)
(* out: it only delays them.                                                *)

Register(k, o) ==
    /\ chain' = [chain EXCEPT ![k] = o]
    /\ gate' = None
    /\ UNCHANGED <<feeders, quorum, maxAge, breaker, now, history>>

verify_oracle_interface_version(o) == o \in Compatible

RegisterOracle(o) == verify_oracle_interface_version(o) /\ Register(FeedOracle, o)

RemoveOracle == Register(FeedOracle, None)

RegisterTokenOracle(o) ==
    verify_oracle_interface_version(o) /\ Register(TokenOracle, o)

RemoveTokenOracle == Register(TokenOracle, None)

SetPriceOracle(o) == Register(PriceOracle, o)

SetMaxOracleAge(age) ==
    /\ maxAge' = age
    /\ gate' = None
    /\ UNCHANGED <<chain, feeders, quorum, breaker, now, history>>

AddIdentityOracle(o) ==
    /\ o \in feeders \/ Cardinality(feeders) < MaxFeeders
    /\ feeders' = feeders \cup {o}
    /\ gate' = None
    /\ UNCHANGED <<chain, quorum, maxAge, breaker, now, history>>

RemoveIdentityOracle(o) ==
    /\ feeders' = feeders \ {o}
    /\ gate' = None
    /\ UNCHANGED <<chain, quorum, maxAge, breaker, now, history>>

SetIdentityQuorum(n) ==
    /\ n # 0
    /\ n <= MaxFeeders
    /\ quorum' = n
    /\ gate' = None
    /\ UNCHANGED <<chain, feeders, maxAge, breaker, now, history>>

ResetOracleCircuit ==
    /\ tripped' = FALSE
    /\ recovery' = None
    /\ gate' = None
    /\ UNCHANGED <<settings, health, now, history>>

Tick ==
    /\ now < MaxTime
    /\ now' = now + 1
    /\ gate' = None
    /\ UNCHANGED <<settings, breaker, history>>

Administer ==
    \/ \E o \in Oracles :
          \/ RegisterOracle(o)
          \/ RegisterTokenOracle(o)
          \/ SetPriceOracle(o)
          \/ AddIdentityOracle(o)
          \/ RemoveIdentityOracle(o)
    \/ RemoveOracle
    \/ RemoveTokenOracle
    \/ \E age \in Ages : SetMaxOracleAge(age)
    \/ \E n \in 0..(MaxFeeders + 1) : SetIdentityQuorum(n)
    \/ ResetOracleCircuit

Use ==
    \/ CheckOracleHealth
    \/ CheckOracleVerification
    \/ FundByQuorum
    \/ FundUnconfigured
    \/ FundBySingleOracle
    \/ Tick

Next == Administer \/ Use

Spec == Init /\ [][Next]_vars

-----------------------------------------------------------------------------
(* Properties.                                                              *)

\* The three storage entries of the breaker stay in step: a recovery record
\* exists exactly while the breaker is open, there is then a snapshot that
\* tells whom to pass over, and a recovery streak has a first ledger exactly
\* when it has an observation (record_oracle_health,
\* maybe_recover_oracle_circuit, reset_oracle_circuit).
BreakerConsistent ==
    /\ tripped <=> recovery # None
    /\ tripped => health # None
    /\ recovery # None => (recovery.healthy = 0 <=> recovery.first = 0)
    /\ health # None => (health.stale <=> health.nstale > 0)

\* The breaker opens only on an oracle whose last MaxStale answers were all
\* stale, however queries, fundings, fallbacks and resets were interleaved
\* (record_oracle_health).  Without a reset by the admin it closes only when the
\* very oracle that opened it has given RecoverObs fresh answers or more, none
\* stale in between, over at least RecoverLedgers ledgers: other oracles, single
\* lucky queries and interrupted streaks do not close it
\* (maybe_recover_oracle_circuit).
BreakerEarned ==
    [][/\ ~ tripped /\ tripped' =>
             /\ recovery'.oracle = health'.oracle
             /\ seen'[health'.oracle].stale >= MaxStale
       /\ tripped /\ ~ tripped' =>
             \/ ResetOracleCircuit
             \/ /\ health'.oracle = recovery.oracle
                /\ seen'[recovery.oracle].fresh >= RecoverObs
                /\ now - seen'[recovery.oracle].since >= RecoverLedgers]_vars

\* The grounds a funding passes on.
GroundsHold ==
    gate # None =>
        /\ gate.path = "open" => Registered = {} /\ feeders = {}
        /\ gate.path = "single" => ~ health.stale /\ gate.agreed = {health.oracle}
        /\ feeders # {} => /\ gate.path = "quorum"
                           /\ gate.agreed \subseteq feeders
                           /\ gate.agreed # {}
                           /\ Cardinality(gate.agreed) >= quorum

\* A funding is let through without any oracle only if none is registered,
\* not because the breaker is open; registered feeders decide alone and by
\* quorum; a single oracle decides only with an answer the snapshot shows as
\* fresh (evaluate_identity_verification).  And an oracle that stands still
\* cannot keep funding open: as long as its answer is repeated, at most
\* MaxDup + 1 fundings pass on it, whatever monitors query in between
\* (is_oracle_data_duplicate_update).
GateSound == GroundsHold /\ served.times <= MaxDup + 1

=============================================================================
