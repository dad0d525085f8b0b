-------------------------- MODULE MCOracleRegistry ---------------------------
(* OracleRegistry and PriceFeed for model checking.  Every behaviour is of   *)
(* one of three parts.  "gate": the identity gate, with a bound on the       *)
(* administrative calls that change something.  "spot": quotes, and the      *)
(* health of the feed that is asked for them.  "twap": samples and averages. *)
EXTENDS PriceFeed, TLC

CONSTANTS
    MaxChanges,    \* changes by the admin in the first part
    GateTime,      \* last ledger of the first part
    SpotTime       \* last ledger of the second part

VARIABLES changes, part

Symmetry == Permutations(Compatible)

MCInit ==
    /\ PriceInit
    /\ changes = 0
    /\ part \in {"gate", "spot", "twap"}
    /\ part # "gate" => maxAge = Max(Ages)

GatePart ==
    /\ \/ /\ Administer
          /\ changes' = IF vars' = vars THEN changes ELSE changes + 1
          /\ changes' <= MaxChanges
       \/ Use /\ now' <= GateTime /\ UNCHANGED changes
    /\ UNCHANGED <<feed, read>>

\* A read leaves the contract as it is, so one read is followed by a change.
Read == read = None /\ ReadPrice

\* With the oracle that reports the health of the feed, few sources.
SpotPart ==
    /\ \/ /\ \/ \E o \in Oracles : RegisterOracle(o)
             \/ CheckOracleHealth
             \/ Tick /\ now' <= SpotTime
          /\ read' = None
          /\ UNCHANGED feed
       \/ \E o \in Sources : AddPriceSource(o) \/ RemovePriceSource(o)
       \/ \E bps \in Deviations : SetMaxPriceDeviation(bps)
       \/ Read
    /\ Registered' # {} => Cardinality(sources') <= 1
    /\ UNCHANGED changes

TwapPart ==
    /\ \/ Tick /\ read' = None /\ UNCHANGED feed
       \/ \E o \in Sources : sources = {} /\ AddPriceSource(o)
       \/ \E enabled \in BOOLEAN : SetTwapEnabled(enabled)
       \/ \E ledgers \in Windows : SetTwapWindow(ledgers)
       \/ \E price \in Prices : RecordTwapSample(price)
       \/ Read
    /\ UNCHANGED changes

MCNext ==
    /\ part' = part
    /\ \/ part = "gate" /\ GatePart
       \/ part = "spot" /\ SpotPart
       \/ part = "twap" /\ TwapPart

MCSpec == MCInit /\ [][MCNext]_<<priceVars, changes, part>>

QuoteValues == {-1, 0, 10, 12, 40}
=============================================================================
