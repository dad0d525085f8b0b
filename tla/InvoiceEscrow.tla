---------------------------- MODULE InvoiceEscrow ----------------------------
(* The invoice contract (contracts/invoice_liquidity/src): the life cycle   *)
(* of invoices, the money the contract holds for them, the claim NFT, and   *)
(* the disputes and appeals around them.                                    *)
(*                                                                          *)
(* One action per entry point.  A Soroban invocation that returns Err or    *)
(* traps leaves no trace in storage, so a failing call is no step at all:   *)
(* the guards are the negated early returns.  One token is modelled; the    *)
(* accounting of different tokens never meets.  The discount and the fee    *)
(* are integer fractions of Bps (10_000 in the code).  The ledger sequence  *)
(* number and the ledger timestamp advance together, as one clock.          *)
EXTENDS Integers, Sequences, FiniteSets, Lists, TokenSafety

CONSTANTS
    NAccounts,       \* addresses are 1..NAccounts
    Admin,           \* the address that receives protocol fees
    Freelancers, Payers, LPs,      \* who may appear in which role
    NInvoices,       \* invoice ids are 1..NInvoices, as next_invoice_id counts
    Bps,             \* denominator of discount and fee rates
    Amounts, Rates, Durations,     \* terms an invoice may be submitted with
    FundAmounts, PayAmounts,       \* amounts an LP or a payer may send
    MaxBatch,        \* largest batch of submit_invoices_batch
    FeeRates,        \* values of the effective protocol fee rate
    DisputeTimeout,  \* config.dispute_timeout_ledgers
    AppealWindow,    \* APPEAL_WINDOW_SECS
    Freezable,       \* accounts the issuer may freeze
    MaxTime,         \* bound: the clock
    MaxClawback,     \* bound: what the issuer claws back in total
    MaxBalance       \* bound: donations stop at this balance

Accounts == 1..NAccounts
Invoices == 1..NInvoices
NoOne == 0           \* Option<Address>::None
Never == -1          \* no dispute record

ASSUME EscrowAssumption ==
    /\ NAccounts \in Nat
    /\ NInvoices \in Nat
    /\ Admin \in Accounts
    /\ Freelancers \subseteq Accounts
    /\ Payers \subseteq Accounts
    /\ LPs \subseteq Accounts
    /\ Freezable \subseteq Accounts
    /\ Bps \in Nat \ {0}
    /\ Amounts \subseteq Nat \ {0}
    /\ Rates \subseteq 1..(Bps - 1)
    /\ Durations \subseteq Nat \ {0}
    /\ FundAmounts \subseteq Nat
    /\ PayAmounts \subseteq Nat \ {0}
    /\ MaxBatch \in Nat
    /\ FeeRates \subseteq 0..Bps
    /\ DisputeTimeout \in Nat
    /\ AppealWindow \in Nat
    /\ MaxTime \in Nat
    /\ MaxClawback \in Nat
    /\ MaxBalance \in Nat

VARIABLES
    inv,      \* inv[i]: the stored Invoice, with its dispute and appeal records
    funders,  \* funders[i]: the stored list of [lp, amt] contributions
    nft,      \* nft[i]: owner of the claim NFT, NoOne when it does not exist
    ledger,   \* the contract's token balance and its pending payouts
    frozen,   \* accounts deauthorized by the token's issuer
    clawed,   \* history: what the issuer has clawed back so far
    feeRate,  \* the rate effective_fee_rate answers
    paused,
    now

vars == <<inv, funders, nft, ledger, frozen, clawed, feeRate, paused, now>>

Statuses == {"Absent", "Pending", "PartiallyFunded", "Funded", "Paid",
             "Defaulted", "Appealed", "Disputed", "Expired", "Cancelled"}

\* Every stored invoice; "Absent" stands for an id without one.
Invoice == [status: Statuses, freelancer: Accounts \cup {NoOne},
            payer: Accounts \cup {NoOne}, amount: Nat, due: Nat,
            rate: 0..(Bps - 1), funded: Nat, paid: Nat,
            funder: Accounts \cup {NoOne}, disputedAt: Nat \cup {Never},
            appealed: BOOLEAN]

Contribution == [lp: Accounts, amt: Nat]

Ledger == [balance: Int, pending: [Accounts -> Int], total: Int, ok: BOOLEAN]

-----------------------------------------------------------------------------
(* Arithmetic of the contract.                                              *)

\* Mutant: rounds up.
FractionRoundedUp(amount, rate) == (amount * rate + Bps - 1) \div Bps

Fraction(amount, rate) == (amount * rate) \div Bps

\* What an LP pays for a contribution, and what a refund gives back.
Cost(amount, rate) == amount - Fraction(amount, rate)

\* The sum of a contributor list.
Contributed(fs) == SumTo([j \in 1..Len(fs) |-> fs[j].amt], Len(fs))

Refunds(fs, rate) ==
    [j \in 1..Len(fs) |-> [to |-> fs[j].lp, amt |-> Cost(fs[j].amt, rate)]]

\* Mutant: divides before it multiplies.
SharesDivideFirst(fs, distribute, amount) ==
    [j \in 1..Len(fs) |->
        [to |-> fs[j].lp, amt |-> (distribute \div amount) * fs[j].amt]]

\* A payer's settlement, split by contribution; what flooring cuts off stays
\* in the contract.
Shares(fs, distribute, amount) ==
    [j \in 1..Len(fs) |->
        [to |-> fs[j].lp, amt |-> (distribute * fs[j].amt) \div amount]]

Contributes(fs, lp) == \E j \in 1..Len(fs) : fs[j].lp = lp

\* The contributor list after lp adds an amount: first entry of lp, or a new one.
AddContribution(fs, lp, amount) ==
    IF Contributes(fs, lp)
    THEN LET first == CHOOSE j \in 1..Len(fs) :
                        /\ fs[j].lp = lp
                        /\ \A k \in 1..(j-1) : fs[k].lp # lp
         IN  [fs EXCEPT ![first].amt = @ + amount]
    ELSE Append(fs, [lp |-> lp, amt |-> amount])

-----------------------------------------------------------------------------
(* The claim NFT (nft.rs).                                                  *)

NftStatuses == {"Funded", "PartiallyFunded", "Defaulted", "Appealed", "Disputed"}

\* The largest contributor, the earliest of equals.
LeadLp(fs) ==
    LET lead == CHOOSE j \in 1..Len(fs) :
                  /\ \A k \in 1..Len(fs) : fs[k].amt <= fs[j].amt
                  /\ \A k \in 1..(j-1) : fs[k].amt < fs[j].amt
    IN  fs[lead].lp

NftHolder(v, fs) ==
    IF v.funder # NoOne THEN v.funder
    ELSE IF fs = << >> THEN v.freelancer
    ELSE LeadLp(fs)

\* Mints, transfers or burns the NFT of invoice i, given what is stored now.
sync_nft_state(i, v, fs) ==
    nft' = [nft EXCEPT ![i] = IF v.status \in NftStatuses
                              THEN NftHolder(v, fs) ELSE NoOne]

-----------------------------------------------------------------------------
(* Submission and the changes a freelancer may make while Pending.          *)

NoInvoice ==
    [status |-> "Absent", freelancer |-> NoOne, payer |-> NoOne, amount |-> 0,
     due |-> 0, rate |-> 0, funded |-> 0, paid |-> 0, funder |-> NoOne,
     disputedAt |-> Never, appealed |-> FALSE]

Terms == [freelancer: Freelancers, payer: Payers, amount: Amounts,
          rate: Rates, duration: Durations]

NewInvoice(t) ==
    [NoInvoice EXCEPT !.status = "Pending", !.freelancer = t.freelancer,
                      !.payer = t.payer, !.amount = t.amount,
                      !.rate = t.rate, !.due = now + t.duration]

SubmitInvoice(i, t) ==
    /\ ~ paused
    /\ \A k \in 1..i : inv[k].status = "Absent" <=> k = i
    /\ t.freelancer # t.payer
    /\ inv' = [inv EXCEPT ![i] = NewInvoice(t)]
    /\ UNCHANGED <<funders, nft, ledger, frozen, clawed, feeRate, paused, now>>

\* Several invoices in one call, with consecutive ids; unlike submit_invoice, the batch accepts a
\* freelancer who is also the payer.
SubmitInvoicesBatch(ts) ==
    /\ ~ paused
    /\ Cardinality(DOMAIN ts) <= MaxBatch
    /\ \A i \in DOMAIN ts : \A k \in 1..i :
          inv[k].status = "Absent" <=> k \in DOMAIN ts
    /\ inv' = [i \in Invoices |->
                 IF i \in DOMAIN ts THEN NewInvoice(ts[i]) ELSE inv[i]]
    /\ UNCHANGED <<funders, nft, ledger, frozen, clawed, feeRate, paused, now>>

UpdateInvoice(i, amount, rate, duration) ==
    /\ ~ paused
    /\ inv[i].status = "Pending"
    /\ now < inv[i].due
    /\ inv' = [inv EXCEPT ![i].amount = amount, ![i].rate = rate,
                          ![i].due = now + duration]
    /\ UNCHANGED <<funders, nft, ledger, frozen, clawed, feeRate, paused, now>>

TransferInvoice(i, freelancer) ==
    /\ ~ paused
    /\ inv[i].status = "Pending"
    /\ inv' = [inv EXCEPT ![i].freelancer = freelancer]
    /\ UNCHANGED <<funders, nft, ledger, frozen, clawed, feeRate, paused, now>>

\* Mutant: does not refuse a cancelled invoice.
ExpireCancelledInvoice(i) ==
    /\ ~ paused
    /\ now > inv[i].due
    /\ inv[i].status \in {"Pending", "Cancelled"}
    /\ inv' = [inv EXCEPT ![i].status = "Expired"]
    /\ UNCHANGED <<funders, nft, ledger, frozen, clawed, feeRate, paused, now>>

ExpireInvoice(i) ==
    /\ ~ paused
    /\ now > inv[i].due
    /\ inv[i].status = "Pending"
    /\ inv' = [inv EXCEPT ![i].status = "Expired"]
    /\ UNCHANGED <<funders, nft, ledger, frozen, clawed, feeRate, paused, now>>

-----------------------------------------------------------------------------
(* Funding, settlement, cancellation and default.                           *)

FundInvoice(i, lp, amount) ==
    LET v    == inv[i]
        sum  == v.funded + amount
        full == sum = v.amount
        fs   == AddContribution(funders[i], lp, amount)
        w    == [v EXCEPT !.status = IF full THEN "Funded" ELSE "PartiallyFunded",
                          !.funded = sum,
                          !.funder = IF full THEN lp ELSE @]
        in   == transfer_in(ledger, Cost(amount, v.rate))
        out  == IF full
                THEN transfer_out_strict(in, frozen, v.freelancer,
                                         Cost(v.amount, v.rate))
                ELSE in
    IN  /\ ~ paused
        /\ v.status \in {"Pending", "PartiallyFunded"}
        /\ v.status = "Pending" => now <= v.due
        /\ sum <= v.amount
        /\ lp \notin frozen
        /\ full => v.freelancer \notin frozen
        /\ out.ok
        /\ inv' = [inv EXCEPT ![i] = w]
        /\ funders' = [funders EXCEPT ![i] = fs]
        /\ ledger' = out
        /\ sync_nft_state(i, w, fs)
        /\ UNCHANGED <<frozen, clawed, feeRate, paused, now>>

\* Mutant: forgets to move the NFT.
TransferLpPositionOnly(i, lp) ==
    LET v  == inv[i]
        fs == [j \in 1..Len(funders[i]) |->
                 IF funders[i][j].lp = v.funder
                 THEN [funders[i][j] EXCEPT !.lp = lp] ELSE funders[i][j]]
    IN  /\ ~ paused
        /\ v.status = "Funded"
        /\ v.funder \notin {NoOne, lp}
        /\ inv' = [inv EXCEPT ![i].funder = lp]
        /\ funders' = [funders EXCEPT ![i] = fs]
        /\ UNCHANGED <<nft, ledger, frozen, clawed, feeRate, paused, now>>

\* The LP of record hands the whole claim over; every entry of the list that
\* names them is rewritten.
TransferLpPosition(i, lp) ==
    LET v  == inv[i]
        w  == [v EXCEPT !.funder = lp]
        fs == [j \in 1..Len(funders[i]) |->
                 IF funders[i][j].lp = v.funder
                 THEN [funders[i][j] EXCEPT !.lp = lp] ELSE funders[i][j]]
    IN  /\ ~ paused
        /\ v.status = "Funded"
        /\ v.funder # NoOne
        /\ v.funder # lp
        /\ inv' = [inv EXCEPT ![i] = w]
        /\ funders' = [funders EXCEPT ![i] = fs]
        /\ sync_nft_state(i, w, fs)
        /\ UNCHANGED <<ledger, frozen, clawed, feeRate, paused, now>>

MarkPaid(i, amount) ==
    LET v    == inv[i]
        full == v.paid + amount = v.amount
        fee  == Fraction(v.amount, feeRate)
        w    == [v EXCEPT !.paid = @ + amount,
                          !.status = IF full THEN "Paid" ELSE @]
        in   == transfer_in(ledger, amount)
        out  == IF full
                THEN pay_all(pay_or_escrow(in, frozen, Admin, fee), frozen,
                             Shares(funders[i], v.amount - fee, v.amount))
                ELSE in
    IN  /\ ~ paused
        /\ v.status = "Funded"
        /\ v.paid + amount <= v.amount
        /\ funders[i] # << >>
        /\ v.payer \notin frozen
        /\ out.ok
        /\ inv' = [inv EXCEPT ![i] = w]
        /\ ledger' = out
        /\ sync_nft_state(i, w, funders[i])
        /\ UNCHANGED <<funders, frozen, clawed, feeRate, paused, now>>


\* cancel_invoice does not touch the NFT.
CancelInvoice(i) ==
    LET v   == inv[i]
        out == IF v.status = "PartiallyFunded"
               THEN pay_all(ledger, frozen, Refunds(funders[i], v.rate))
               ELSE ledger
    IN  /\ ~ paused
        /\ v.status \in {"Pending", "PartiallyFunded"}
        /\ out.ok
        /\ inv' = [inv EXCEPT ![i].status = "Cancelled"]
        /\ ledger' = out
        /\ UNCHANGED <<funders, nft, frozen, clawed, feeRate, paused, now>>

\* Any contributor ends the invoice; all contributors are refunded out of
\* whatever the contract holds.
ClaimDefault(i, lp) ==
    LET v   == inv[i]
        w   == [v EXCEPT !.status = "Defaulted"]
        out == pay_all(ledger, frozen, Refunds(funders[i], v.rate))
    IN  /\ ~ paused
        /\ Contributes(funders[i], lp)
        /\ now >= v.due
        /\ v.status = "Funded"
        /\ out.ok
        /\ inv' = [inv EXCEPT ![i] = w]
        /\ ledger' = out
        /\ sync_nft_state(i, w, funders[i])
        /\ UNCHANGED <<funders, frozen, clawed, feeRate, paused, now>>

-----------------------------------------------------------------------------
(* Appeals and disputes.  The admin's resolutions and the timeout work      *)
(* while the contract is paused.                                            *)

AppealDefault(i) ==
    LET v == inv[i]
        w == [v EXCEPT !.status = "Appealed", !.appealed = TRUE]
    IN  /\ ~ paused
        /\ ~ v.appealed
        /\ v.status = "Defaulted"
        /\ now <= v.due + AppealWindow
        /\ inv' = [inv EXCEPT ![i] = w]
        /\ sync_nft_state(i, w, funders[i])
        /\ UNCHANGED <<funders, ledger, frozen, clawed, feeRate, paused, now>>

\* Upheld or not, the invoice returns to Defaulted; the two differ only in the
\* payer's reputation.
ResolveAppeal(i) ==
    LET w == [inv[i] EXCEPT !.status = "Defaulted"]
    IN  /\ inv[i].status = "Appealed"
        /\ inv' = [inv EXCEPT ![i] = w]
        /\ sync_nft_state(i, w, funders[i])
        /\ UNCHANGED <<funders, ledger, frozen, clawed, feeRate, paused, now>>

\* The last conjunct bounds the model: the timeout falls within the horizon.
DisputeInvoice(i) ==
    LET v == inv[i]
        w == [v EXCEPT !.status = "Disputed", !.disputedAt = now]
    IN  /\ ~ paused
        /\ v.disputedAt = Never
        /\ v.status \in {"Pending", "PartiallyFunded", "Funded"}
        /\ now + DisputeTimeout <= MaxTime
        /\ inv' = [inv EXCEPT ![i] = w]
        /\ sync_nft_state(i, w, funders[i])
        /\ UNCHANGED <<funders, ledger, frozen, clawed, feeRate, paused, now>>

\* Mutant: any contribution counts as full funding.
RestoredAsFunded(v) == IF v.funded > 0 THEN "Funded" ELSE "Pending"

\* The status a rejected dispute falls back to.
RestoredStatus(v) ==
    IF v.funded = v.amount THEN "Funded"
    ELSE IF v.funded > 0 THEN "PartiallyFunded" ELSE "Pending"

\* resolve_dispute with resolution 1: contributors and payer are refunded.
UpholdDispute(i) ==
    LET v   == inv[i]
        w   == [v EXCEPT !.status = "Cancelled"]
        out == pay_or_escrow(pay_all(ledger, frozen, Refunds(funders[i], v.rate)),
                             frozen, v.payer, v.paid)
    IN  /\ v.status = "Disputed"
        /\ out.ok
        /\ inv' = [inv EXCEPT ![i] = w]
        /\ ledger' = out
        /\ sync_nft_state(i, w, funders[i])
        /\ UNCHANGED <<funders, frozen, clawed, feeRate, paused, now>>

\* resolve_dispute with resolution 2.
RejectDispute(i) ==
    LET w == [inv[i] EXCEPT !.status = RestoredStatus(inv[i])]
    IN  /\ inv[i].status = "Disputed"
        /\ inv' = [inv EXCEPT ![i] = w]
        /\ sync_nft_state(i, w, funders[i])
        /\ UNCHANGED <<funders, ledger, frozen, clawed, feeRate, paused, now>>

\* Mutant: the timeout waits for the pause to end.
AutoResolveUnlessPaused(i) ==
    LET w == [inv[i] EXCEPT !.status = RestoredStatus(inv[i])]
    IN  /\ ~ paused
        /\ inv[i].status = "Disputed"
        /\ now >= inv[i].disputedAt + DisputeTimeout
        /\ inv' = [inv EXCEPT ![i] = w]
        /\ sync_nft_state(i, w, funders[i])
        /\ UNCHANGED <<funders, ledger, frozen, clawed, feeRate, paused, now>>

AutoResolveDispute(i) ==
    LET w == [inv[i] EXCEPT !.status = RestoredStatus(inv[i])]
    IN  /\ inv[i].status = "Disputed"
        /\ now >= inv[i].disputedAt + DisputeTimeout
        /\ inv' = [inv EXCEPT ![i] = w]
        /\ sync_nft_state(i, w, funders[i])
        /\ UNCHANGED <<funders, ledger, frozen, clawed, feeRate, paused, now>>

-----------------------------------------------------------------------------
(* Escrowed payouts, administration, and the environment: the token's       *)
(* issuer, anybody who sends tokens to the contract, and time.              *)

ClaimPendingPayout(a) ==
    LET out == claim_pending(ledger, frozen, a)
    IN  /\ ~ paused
        /\ out.ok
        /\ ledger' = out
        /\ UNCHANGED <<inv, funders, nft, frozen, clawed, feeRate, paused, now>>

UpdateFeeRate(rate) ==
    /\ feeRate' = rate
    /\ UNCHANGED <<inv, funders, nft, ledger, frozen, clawed, paused, now>>

Pause ==
    /\ paused' = TRUE
    /\ UNCHANGED <<inv, funders, nft, ledger, frozen, clawed, feeRate, now>>

Unpause ==
    /\ paused' = FALSE
    /\ UNCHANGED <<inv, funders, nft, ledger, frozen, clawed, feeRate, now>>

Freeze(a) ==
    /\ frozen' = frozen \cup {a}
    /\ UNCHANGED <<inv, funders, nft, ledger, clawed, feeRate, paused, now>>

Unfreeze(a) ==
    /\ a \in frozen
    /\ frozen' = frozen \ {a}
    /\ UNCHANGED <<inv, funders, nft, ledger, clawed, feeRate, paused, now>>

Clawback ==
    /\ ledger.balance > 0
    /\ clawed < MaxClawback
    /\ ledger' = [ledger EXCEPT !.balance = @ - 1]
    /\ clawed' = clawed + 1
    /\ UNCHANGED <<inv, funders, nft, frozen, feeRate, paused, now>>

Donate ==
    /\ ledger.balance < MaxBalance
    /\ ledger' = transfer_in(ledger, 1)
    /\ UNCHANGED <<inv, funders, nft, frozen, clawed, feeRate, paused, now>>

Tick ==
    /\ now < MaxTime
    /\ now' = now + 1
    /\ UNCHANGED <<inv, funders, nft, ledger, frozen, clawed, feeRate, paused>>

-----------------------------------------------------------------------------

Init ==
    /\ inv = [i \in Invoices |-> NoInvoice]
    /\ funders = [i \in Invoices |-> << >>]
    /\ nft = [i \in Invoices |-> NoOne]
    /\ ledger = [balance |-> 0, pending |-> [a \in Accounts |-> 0],
                 total |-> 0, ok |-> TRUE]
    /\ frozen = {}
    /\ clawed = 0
    /\ feeRate \in FeeRates
    /\ paused = FALSE
    /\ now = 0

InvoiceStep(i) ==
    \/ \E t \in Terms : SubmitInvoice(i, t)
    \/ \E a \in Amounts, r \in Rates, d \in Durations : UpdateInvoice(i, a, r, d)
    \/ \E f \in Freelancers : TransferInvoice(i, f)
    \/ ExpireInvoice(i)
    \/ \E lp \in LPs, a \in FundAmounts : FundInvoice(i, lp, a)
    \/ \E lp \in LPs : TransferLpPosition(i, lp)
    \/ \E a \in PayAmounts : MarkPaid(i, a)
    \/ CancelInvoice(i)
    \/ \E lp \in LPs : ClaimDefault(i, lp)
    \/ AppealDefault(i)
    \/ ResolveAppeal(i)
    \/ DisputeInvoice(i)
    \/ UpholdDispute(i)
    \/ RejectDispute(i)
    \/ AutoResolveDispute(i)

Next ==
    \/ \E i \in Invoices : InvoiceStep(i)
    \/ \E S \in SUBSET Invoices : \E ts \in [S -> Terms] : SubmitInvoicesBatch(ts)
    \/ \E a \in Accounts : ClaimPendingPayout(a)
    \/ \E r \in FeeRates : UpdateFeeRate(r)
    \/ Pause
    \/ Unpause
    \/ \E a \in Freezable : Freeze(a) \/ Unfreeze(a)
    \/ Clawback
    \/ Donate
    \/ Tick

Spec == Init /\ [][Next]_vars

\* Ledgers keep closing; anybody may call auto_resolve_dispute once the timeout
\* has passed; a recipient who is again and again able to claim does so.
Fairness ==
    /\ WF_vars(Tick)
    /\ \A i \in Invoices : WF_vars(AutoResolveDispute(i))
    /\ \A a \in Accounts : SF_vars(ClaimPendingPayout(a))

FairSpec == Spec /\ Fairness

-----------------------------------------------------------------------------
(* Properties.                                                              *)

\* Records, contributor lists, NFT owners and the ledger keep their types; no
\* payout loop or claim drives the balance or a pending payout below zero.
TypeOK ==
    /\ inv \in [Invoices -> Invoice]
    /\ funders \in [Invoices -> Seq(Contribution)]
    /\ nft \in [Invoices -> Accounts \cup {NoOne}]
    /\ ledger \in [balance: Nat, pending: [Accounts -> Nat], total: Nat, ok: {TRUE}]
    /\ frozen \subseteq Accounts
    /\ clawed \in Nat
    /\ feeRate \in FeeRates
    /\ paused \in BOOLEAN
    /\ now \in Nat

\* What is booked for frozen recipients adds up to the stored total, and the
\* contract's balance covers it, except for what the issuer has clawed back:
\* no sequence of payouts, claims, freezes and defaults spends reserved money
\* (token_safety.rs, ensure_spendable).
EscrowBacked ==
    /\ ledger.total = SumTo(ledger.pending, NAccounts)
    /\ ledger.total <= ledger.balance + clawed

\* The contributor list and the invoice agree: amount_funded is the sum of the
\* contributions, through repeated funding, transfers of LP positions and
\* disputes (fund_invoice keeps the two in different storage entries).
ContributionsMatch ==
    \A i \in Invoices : inv[i].funded = Contributed(funders[i])

\* The status tells how far funding and payment have come, whatever disputes,
\* appeals and updates lie behind it (invariants B1, B2 and B4 of invoice.rs,
\* and what B3 means once later statuses are counted in).
AmountsMatchStatus ==
    \A i \in Invoices :
        LET v == inv[i] IN
        /\ v.funded <= v.amount
        /\ v.status = "Paid" => v.paid = v.amount
        /\ v.status \notin {"Paid", "Absent"} => v.paid < v.amount
        /\ v.status \in {"Pending", "Expired"} => v.funded = 0
        /\ v.status = "PartiallyFunded" => v.funded < v.amount
        /\ v.status \in {"Funded", "Paid", "Defaulted", "Appealed"} => v.funded = v.amount
        /\ v.paid > 0 => v.funded = v.amount
        /\ v.funder # NoOne <=> (v.funded = v.amount /\ v.status # "Absent")

\* The invoice, its contributor list and its status tell the same story about
\* the money, whatever fundings, transfers, disputes and appeals lie behind it.
AmountsSound == ContributionsMatch /\ AmountsMatchStatus

\* While a claim on an invoice exists its NFT is held by the LP of record, or
\* by the largest contributor, or, for a disputed invoice nobody has funded,
\* by the freelancer; once the invoice is settled or expired there is none
\* (nft.rs, sync_nft_state). Cancelled invoices are left out:
\* cancelling a partially funded invoice leaves its NFT behind.
NftTracksClaim ==
    \A i \in Invoices :
        /\ inv[i].status \in NftStatuses =>
              /\ nft[i] = NftHolder(inv[i], funders[i])
              /\ nft[i] # NoOne
              /\ Contributes(funders[i], nft[i])
                 \/ (inv[i].status = "Disputed" /\ nft[i] = inv[i].freelancer)
        /\ inv[i].status \in {"Absent", "Pending", "Paid", "Expired"} =>
              nft[i] = NoOne

\* What refunding every contributor of the list would pay out.
Refunded(fs, rate) ==
    SumTo([j \in 1..Len(fs) |-> Refunds(fs, rate)[j].amt], Len(fs))

\* What the contract keeps for an invoice, negative when the invoice has taken
\* out more than came in for it: refunds after the freelancer was paid.
Held(v, fs) ==
    LET refund == Refunded(fs, v.rate)
        full   == v.funded = v.amount
    IN  CASE v.status = "PartiallyFunded" -> refund
          [] v.status = "Funded" -> v.paid
          [] v.status = "Disputed" -> IF full THEN v.paid ELSE refund
          [] v.status \in {"Defaulted", "Appealed"} -> v.paid - refund
          [] v.status = "Cancelled" -> IF full THEN -refund ELSE 0
          [] OTHER -> 0

HeldFor(i) == Held(inv[i], funders[i])

\* The balance covers the pending payouts and everything held for open
\* invoices, less what defaults and upheld disputes of funded invoices took:
\* rounding always favours the contract, over any mix of invoices
\* (the floor divisions of fund_invoice, mark_paid and the refund loops).
Solvent ==
    ledger.balance + clawed >= ledger.total + SumTo([i \in Invoices |-> HeldFor(i)], NInvoices)

LegalPaths ==
    ({"Absent"} \X {"Pending"})
      \cup ({"Pending"} \X {"Funded", "PartiallyFunded", "Cancelled", "Expired",
                            "Disputed"})
      \cup ({"PartiallyFunded"} \X {"Funded", "Cancelled", "Disputed"})
      \cup ({"Funded"} \X {"Paid", "Defaulted", "Disputed"})
      \cup ({"Defaulted"} \X {"Appealed"})
      \cup ({"Appealed"} \X {"Defaulted"})
      \cup ({"Disputed"} \X {"Cancelled", "Funded", "PartiallyFunded", "Pending"})

\* Statuses change only along the paths of invariant SM1 in invoice.rs; in
\* particular Paid, Expired and Cancelled are final under every interleaving of
\* funding, payment, default, dispute and appeal.
SM1 ==
    [][\A i \in Invoices :
         inv'[i].status # inv[i].status =>
            <<inv[i].status, inv'[i].status>> \in LegalPaths]_vars

\* What leaves the balance that is not reserved for pending payouts.
PaidOut == (ledger.balance - ledger.total) - (ledger'.balance - ledger'.total)

Settles(i) == inv[i].status = "Funded" /\ inv'[i].status = "Paid"

\* A settlement hands out the whole invoice amount less at most one unit per
\* contributor: what leaves the spendable balance is the fee and the shares,
\* whether they are transferred or escrowed (mark_paid).
SettlementPaysOut ==
    [][\A i \in Invoices : Settles(i) =>
         LET received == inv[i].amount - inv[i].paid
             out      == PaidOut + received
         IN  /\ out <= inv[i].amount
             /\ out > inv[i].amount - Len(funders[i])]_vars

\* No dispute lasts: the timeout ends it without the admin, even while the
\* contract is paused (auto_resolve_dispute).
DisputesEnd ==
    \A i \in Invoices : (inv[i].status = "Disputed") ~> (inv[i].status # "Disputed")

\* Whoever has an escrowed payout and is again and again unfrozen while the
\* contract is not paused gets it, whatever the contract pays to others in
\* between (claim_pending_payout; no clawback).
EscrowReleased ==
    \A a \in Accounts :
        []<>(~ paused /\ a \notin frozen) =>
            ((ledger.pending[a] > 0) ~> (ledger.pending[a] = 0))

-----------------------------------------------------------------------------
(* Statements of the repository's documents that the code does not keep.    *)

\* docs/token-safety.md: the balance is at least the contributions held for
\* partially funded invoices plus the pending payouts.
RunbookReconciles ==
    ledger.balance >= ledger.total
        + SumTo([i \in Invoices |-> IF inv[i].status = "PartiallyFunded"
                                    THEN HeldFor(i) ELSE 0], NInvoices)


=============================================================================
