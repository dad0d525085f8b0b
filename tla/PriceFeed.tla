------------------------------ MODULE PriceFeed ------------------------------
(* Reading a price (contracts/invoice_liquidity/src/oracle_registry.rs and  *)
(* twap.rs), on top of the health record and the circuit breaker that       *)
(* OracleRegistry keeps for the feed: quotes of several sources, outliers   *)
(* rejected around their median, or a time-weighted average of samples.     *)
(*                                                                          *)
(* One clock stands for ledger sequence and timestamp, in ledgers.  A read  *)
(* changes nothing in the contract; a read that fails is no step.           *)
EXTENDS OracleRegistry, Sequences, FiniteSetsExt

CONSTANTS
    Sources,          \* contracts that may be registered as price sources
    MaxSources,       \* MAX_PRICE_SOURCES_PER_FEED
    Quotes,           \* what a source may answer, any integer
    Bps,              \* 10_000
    Deviations,       \* values asked for by the admin
    DefaultDeviation, \* DEFAULT_MAX_PRICE_DEVIATION_BPS
    Prices,           \* prices a keeper may record
    Windows,          \* TWAP windows asked for by the admin
    MinWindow,        \* MIN_TWAP_WINDOW_LEDGERS
    MaxWindow,        \* MAX_TWAP_WINDOW_LEDGERS
    DefaultWindow,    \* DEFAULT_TWAP_WINDOW_LEDGERS
    MaxSamples,       \* MAX_TWAP_SAMPLES
    MinObservations   \* get_min_twap_observations: no entry point changes it

ASSUME PriceAssumption ==
    /\ IsFiniteSet(Sources)
    /\ Quotes \subseteq Int

VARIABLES
    sources,   \* DataKey::PriceSources
    maxDev,    \* DataKey::MaxPriceDeviationBps
    twapOn,    \* DataKey::TwapEnabled
    window,    \* DataKey::TwapWindowLedgers
    samples,   \* DataKey::TwapSamples, of one token
    read       \* history: the price just read, with the quotes it came from

feed == <<sources, maxDev, twapOn, window, samples>>
priceVars == <<vars, feed, read>>

PriceInit ==
    /\ Init
    /\ sources = {}
    /\ maxDev = DefaultDeviation
    /\ twapOn = FALSE
    /\ window = DefaultWindow
    /\ samples = <<>>
    /\ read = None

-----------------------------------------------------------------------------
(* Settings and samples.                                                    *)

AddPriceSource(o) ==
    /\ o \in sources \/ Cardinality(sources) < MaxSources
    /\ sources' = sources \cup {o}
    /\ read' = None
    /\ UNCHANGED <<vars, maxDev, twapOn, window, samples>>

RemovePriceSource(o) ==
    /\ sources' = sources \ {o}
    /\ read' = None
    /\ UNCHANGED <<vars, maxDev, twapOn, window, samples>>

SetMaxPriceDeviation(bps) ==
    /\ bps # 0
    /\ bps <= Bps
    /\ maxDev' = bps
    /\ read' = None
    /\ UNCHANGED <<vars, sources, twapOn, window, samples>>

SetTwapEnabled(enabled) ==
    /\ twapOn' = enabled
    /\ read' = None
    /\ UNCHANGED <<vars, sources, maxDev, window, samples>>

SetTwapWindow(ledgers) ==
    /\ ledgers \in MinWindow..MaxWindow
    /\ window' = ledgers
    /\ read' = None
    /\ UNCHANGED <<vars, sources, maxDev, twapOn, samples>>

\* The oldest sample gives way.
push_sample(s, sample) ==
    LET longer == Append(s, sample)
    IN  IF Len(longer) > MaxSamples THEN Tail(longer) ELSE longer

RecordTwapSample(price) ==
    /\ price > 0
    /\ samples' = push_sample(samples, [timestamp |-> now, price |-> price])
    /\ read' = None
    /\ UNCHANGED <<vars, sources, maxDev, twapOn, window>>

-----------------------------------------------------------------------------
(* The spot price.                                                          *)

require_healthy_price_feed == ~ tripped /\ (health # None => ~ health.stale)

\* Division that rounds towards zero.
Quotient(a, b) == IF a >= 0 THEN a \div b ELSE -((-a) \div b)

\* The k-th smallest value of f.
Smallest(f, k) ==
    CHOOSE v \in {f[x] : x \in DOMAIN f} :
        /\ Cardinality({x \in DOMAIN f : f[x] < v}) < k
        /\ Cardinality({x \in DOMAIN f : f[x] <= v}) >= k

\* Mutant: the element before the middle one.
median_low(quotes) ==
    LET half == Cardinality(DOMAIN quotes) \div 2
    IN  IF half = 0 THEN Smallest(quotes, 1) ELSE Smallest(quotes, half)

median(quotes) ==
    LET n    == Cardinality(DOMAIN quotes)
        half == n \div 2
    IN  IF n % 2 = 1 THEN Smallest(quotes, half + 1)
        ELSE Quotient(Smallest(quotes, half) + Smallest(quotes, half + 1), 2)

Abs(x) == IF x < 0 THEN -x ELSE x

\* Against a reference of zero any other price deviates beyond every limit.
deviation_bps(price, reference) ==
    IF reference = 0 THEN IF price = 0 THEN 0 ELSE Bps + 1
    ELSE (Abs(price - reference) * Bps) \div Abs(reference)

Survivors(quotes) ==
    {o \in DOMAIN quotes : deviation_bps(quotes[o], median(quotes)) <= maxDev}

\* The price made of the answers, None if they are rejected; a source whose
\* call fails is not in the domain.
SpotPrice(quotes) ==
    LET kept == Survivors(quotes)
    IN  IF DOMAIN quotes = {} THEN None
        ELSE IF Cardinality(DOMAIN quotes) = 1
        THEN quotes[CHOOSE o \in DOMAIN quotes : TRUE]
        ELSE IF kept = {} THEN None
        ELSE median([o \in kept |-> quotes[o]])

-----------------------------------------------------------------------------
(* The time-weighted average.                                               *)

\* Mutant: the first span is not clipped to the window.
OverlapUnclipped(s, i, start, end) ==
    IF s[i + 1].timestamp < start THEN 0
    ELSE Min({s[i + 1].timestamp, end}) - s[i].timestamp

\* How much of the span between samples i and i+1 is in the window.
Overlap(s, i, start, end) ==
    Min({s[i + 1].timestamp, end}) - Max({s[i].timestamp, start})

twap_average(s, start, end) ==
    LET used   == {i \in 1..(Len(s) - 1) : Overlap(s, i, start, end) > 0}
        weight == MapThenSumSet(LAMBDA i : Overlap(s, i, start, end), used)
        total  == MapThenSumSet(
            LAMBDA i : Overlap(s, i, start, end)
                       * ((s[i].price + s[i + 1].price) \div 2), used)
    IN  IF end <= start \/ weight = 0 THEN None ELSE total \div weight

WindowStart == Max({now - window, 0})

get_twap_price ==
    IF require_healthy_price_feed /\ Len(samples) >= MinObservations
    THEN twap_average(samples, WindowStart, now)
    ELSE None

-----------------------------------------------------------------------------
(* Reads, by anybody.                                                       *)

TwapRead == [path |-> "twap", price |-> get_twap_price, quotes |-> <<>>]

GetTwapPrice ==
    /\ get_twap_price # None
    /\ read' = TwapRead
    /\ UNCHANGED <<vars, feed>>

GetVerifiedPrice ==
    /\ require_healthy_price_feed
    /\ \/ /\ twapOn
          /\ get_twap_price # None
          /\ read' = TwapRead
       \/ /\ twapOn => get_twap_price = None
          /\ \E answering \in SUBSET sources :
                \E quotes \in [answering -> Quotes] :
                    /\ SpotPrice(quotes) # None
                    /\ read' = [path |-> "spot", price |-> SpotPrice(quotes),
                                quotes |-> quotes]
    /\ UNCHANGED <<vars, feed>>

Configure ==
    \/ \E o \in Sources : AddPriceSource(o) \/ RemovePriceSource(o)
    \/ \E bps \in Deviations : SetMaxPriceDeviation(bps)
    \/ \E enabled \in BOOLEAN : SetTwapEnabled(enabled)
    \/ \E ledgers \in Windows : SetTwapWindow(ledgers)

ReadPrice == GetTwapPrice \/ GetVerifiedPrice

PriceNext ==
    \/ Configure
    \/ \E price \in Prices : RecordTwapSample(price)
    \/ ReadPrice
    \/ Next /\ read' = None /\ UNCHANGED feed

PriceSpec == PriceInit /\ [][PriceNext]_priceVars

-----------------------------------------------------------------------------
(* Properties.                                                              *)

\* The quotes of the sources in agreeing are so close that none of them would
\* be an outlier wherever the median falls between them.
Agree(quotes, agreeing) ==
    LET values == {quotes[o] : o \in agreeing}
    IN  \A v \in values, m \in Min(values)..Max(values) :
            deviation_bps(v, m) <= maxDev

\* A minority of sources, whatever it answers, cannot move a spot price out of
\* the range that an agreeing majority of the answering sources spans; neither
\* the outliers that are rejected nor those that stay change that
\* (get_verified_price, median, deviation_bps).
MajorityRules ==
    read # None /\ read.path = "spot" =>
        \A agreeing \in SUBSET DOMAIN read.quotes :
            LET values == {read.quotes[o] : o \in agreeing} IN
            /\ 2 * Cardinality(agreeing) > Cardinality(DOMAIN read.quotes)
            /\ Agree(read.quotes, agreeing)
            => read.price \in Min(values)..Max(values)

\* The ledgers of the window that lie between two recorded samples, and the
\* price that holds in each of them.
Between(i, t) == samples[i].timestamp <= t /\ t < samples[i + 1].timestamp
Covered ==
    {t \in WindowStart..(now - 1) : \E i \in 1..(Len(samples) - 1) : Between(i, t)}
PriceAt(t) ==
    LET i == CHOOSE i \in 1..(Len(samples) - 1) : Between(i, t)
    IN  (samples[i].price + samples[i + 1].price) \div 2

\* An average that is served is, ledger by ledger, the mean over exactly the
\* covered part of the window, whatever was recorded in one ledger, dropped
\* from the full buffer or falls on the edge of the window; and a feed switched
\* to averages quotes a spot price only when nothing is covered
\* (twap_average, push_sample, get_twap_price, get_verified_price).
TwapExact ==
    read # None =>
        IF read.path = "twap"
        THEN /\ Covered # {}
             /\ read.price = MapThenSumSet(PriceAt, Covered) \div Cardinality(Covered)
        ELSE twapOn => Covered = {}

=============================================================================
