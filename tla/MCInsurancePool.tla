-------------------------- MODULE MCInsurancePool ----------------------------
(* InsurancePool and ReputationBonus, the contract it asks for scores, for   *)
(* model checking, with a bound on the calls of the pool's admin in one      *)
(* behaviour.  Every behaviour is of one of three parts: "money", where the  *)
(* risk settings stay as they are; "risk", where the pool is empty; and      *)
(* "bonus", of the other contract.                                           *)
EXTENDS InsurancePool, ReputationBonus, TLC

CONSTANT MaxCalls

VARIABLES calls, part

SomeMultipliers == {<<0, 1>>, <<1, 4>>}

Symmetry == Permutations(Invoices) \cup Permutations(Users)

SomeConfigs == {[threshold |-> 2, bonus |-> 1, floor |-> 2], [threshold |-> 4, bonus |-> 3, floor |-> 1],
                [threshold |-> 1, bonus |-> 1, floor |-> 0]}

MCInit ==
    /\ Init /\ BonusInit
    /\ calls = 0
    /\ part \in {"money", "risk", "bonus"}
    /\ part = "bonus" => settings.coverage = 2

\* No reports of defaults, and time for one delay.  The last of the admin's calls
\* is left to behaviours with a single payment into the pool.
Money ==
    /\ settings.base = BaseRate /\ settings.multiplier = <<1, 1>> /\ ~ settings.reputation
    /\ pending.multiplier = NoChange
    /\ defaults.total = 0
    /\ now <= 1
    /\ calls < MaxCalls \/ history.in <= MaxIn \div 2

Risk ==
    /\ history.in = 0 /\ enrolled.who \subseteq {1} /\ reported = {}
    /\ \A i \in Invoices : evidence[i] = Never
    /\ settings.minRatio = 0 /\ settings.funding = 0 /\ settings.cap = 0 /\ settings.window = 0
    /\ pending.coverage = NoChange /\ pending.admin = NoChange

PoolNext ==
    /\ \/ AdminStep /\ vars' # vars
          \* Reports of defaults have a bound of their own.
          /\ calls' = IF defaults' = defaults THEN calls + 1 ELSE calls
       \/ (PoolStep \/ Tick \/ \E name \in DOMAIN Timelocked : ExecuteChange(name))
          /\ UNCHANGED calls
    /\ calls' <= MaxCalls
    /\ UNCHANGED bonusVars

MCNext ==
    /\ part' = part
    /\ \/ part = "money" /\ PoolNext /\ Money'
       \/ part = "risk" /\ PoolNext /\ Risk'
       \/ part = "bonus" /\ BonusNext /\ UNCHANGED <<vars, calls>>

MCSpec == MCInit /\ [][MCNext]_<<vars, bonusVars, calls, part>>
=============================================================================
