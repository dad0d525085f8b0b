------------------------------ MODULE MCRewards ------------------------------
(* Rewards for model checking.  Every behaviour is of one of three parts.   *)
(* "list": invoices to all payers are funded by one provider and then, on   *)
(* the due date, end in every order.  "decay": the clock runs on over two   *)
(* invoices, of one payer or of two, opened early; scores are read, and the *)
(* settings change before the second invoice, and later on while there is   *)
(* one payer.  "mint": two participants in every role, and claims.          *)
EXTENDS Rewards

CONSTANTS
    Provider,      \* freelancer and liquidity provider of the first two parts
    Payers,        \* payers of the first part, by invoice
    Few,           \* payers of the second part
    Pair,          \* participants of the third part
    Claimer        \* the one of them who claims

VARIABLE part

MCInit ==
    /\ Init
    /\ part \in {"list", "decay", "mint"}
    /\ part # "decay" => decay.bps = 0

\* Invoices are submitted and funded in order before anything else happens.
Ready(n) == \A i \in 1..n : inv[i].status \notin {"Absent", "Pending"}

Open(i, p) ==
    \/ SubmitInvoice(i, Provider, p, 1, 1)
    \/ FundInvoice(i, Provider, 1)

ListPart ==
    \/ \E i \in Invoices : Ready(i - 1) /\ Open(i, Payers[i])
    \/ Ready(NInvoices) /\ (Outcome \/ (now < 1 /\ Tick))

DecayPart ==
    \/ Open(1, Payers[1]) /\ now = 0
    \/ \E p \in Few : Open(2, p) /\ now <= 1
    \/ Outcome
    \/ \E p \in Few : PayerScore(p)
    \/ Governing /\ (inv[2] # NoInvoice => inv[2].payer = Payers[1] /\ now = 3)
    \/ Tick

MintPart ==
    \/ \E i \in 1..2, f, p \in Pair : SubmitInvoice(i, f, p, 4 - i, 1)
    \/ \E i \in 1..2, lp \in Pair, amount \in Amounts : FundInvoice(i, lp, amount)
    \/ \E i \in 1..2 : MarkPaid(i)
    \/ ClaimTokens(Claimer)
    \/ \E k \in Kinds, r \in Rates :
          /\ \A j \in Kinds \ {k} : rate[j] = DefaultRates[j]
          /\ SetRewardRate(k, r)
    \/ inv[1] # NoInvoice /\ now < 2 /\ Tick

MCNext ==
    /\ part' = part
    /\ \/ part = "list" /\ ListPart
       \/ part = "decay" /\ DecayPart
       \/ part = "mint" /\ MintPart

MCSpec == MCInit /\ [][MCNext]_<<vars, part>>

\* A payer for each invoice: the first payer owes the first and the last one.
PayersByInvoice == <<"p1", "p2", "p3", "p4", "p1">>

StandardRates == [k \in Kinds |-> IF k = "lp" THEN 2 ELSE 1]

DecaySettings == {[bps |-> 0, period |-> 0], [bps |-> 5000, period |-> 2], [bps |-> 100, period |-> 1]}
=============================================================================
