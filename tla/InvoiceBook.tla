----------------------------- MODULE InvoiceBook -----------------------------
(* What the invoice contract writes beside its invoices and never reads back *)
(* to decide about one: the index of invoices by freelancer and by LP, with  *)
(* its pages, the counters of the contract statistics, and the funded volume *)
(* of the token with its cap.  The entry points of InvoiceEscrow write it in *)
(* the same call.                                                            *)
EXTENDS InvoiceEscrow, Functions

CONSTANTS
    VolumeCaps,      \* caps offered; 0 stands for none
    PageSizes        \* page sizes a reader may ask for

ASSUME BookAssumption ==
    /\ VolumeCaps \subseteq Nat
    /\ PageSizes \subseteq Nat \ {0}

VARIABLES
    submitted,   \* SubmitterInvoices(account), a list of ids
    funding,     \* LpInvoices(account), a list of ids
    totals,      \* TotalInvoices, TotalFunded, TotalPaid
    volume,      \* TokenVolume(token)
    volumeCap    \* TokenVolumeCap(token)

bookVars == <<submitted, funding, totals, volume, volumeCap>>

-----------------------------------------------------------------------------

add_invoice_to_submitter(index, a, i) == [index EXCEPT ![a] = Append(@, i)]

remove_invoice_from_submitter(index, a, i) ==
    [index EXCEPT ![a] = Without(@, i)]

remove_invoice_from_lp(index, a, i) == [index EXCEPT ![a] = Without(@, i)]

\* An LP who contributes again is listed already.
add_invoice_to_lp(index, a, i) ==
    IF i \in Range(index[a]) THEN index ELSE [index EXCEPT ![a] = Append(@, i)]

increment_total(name) == [totals EXCEPT ![name] = @ + 1]

add_volume(amount) == volume' = volume + amount

\* A page of an index, of freelancers or of LPs; pages are counted from 0.
list_invoices(ids, page, size) ==
    LET start == page * size
        end   == IF start + size < Len(ids) THEN start + size ELSE Len(ids)
    IN  IF start >= Len(ids) THEN << >> ELSE SubSeq(ids, start + 1, end)

-----------------------------------------------------------------------------

BookSubmit(i, t) ==
    /\ SubmitInvoice(i, t)
    /\ submitted' = add_invoice_to_submitter(submitted, t.freelancer, i)
    /\ totals' = increment_total("invoices")
    /\ UNCHANGED <<funding, volume, volumeCap>>

\* The loop of the batch appends in the order of the ids.
BookSubmitBatch(ts) ==
    /\ SubmitInvoicesBatch(ts)
    /\ submitted' = [a \in Accounts |->
                       submitted[a] \o Keep([i \in Invoices |-> i],
                                            {i \in DOMAIN ts : ts[i].freelancer = a})]
    /\ totals' = [totals EXCEPT !.invoices = @ + Cardinality(DOMAIN ts)]
    /\ UNCHANGED <<funding, volume, volumeCap>>

\* Mutant: the new entry is written before the old one is removed.
BookTransferAddFirst(i, f) ==
    /\ TransferInvoice(i, f)
    /\ submitted' = remove_invoice_from_submitter(add_invoice_to_submitter(submitted, f, i),
                                                  inv[i].freelancer, i)
    /\ UNCHANGED <<funding, totals, volume, volumeCap>>

BookTransfer(i, f) ==
    /\ TransferInvoice(i, f)
    /\ submitted' = add_invoice_to_submitter(
                        remove_invoice_from_submitter(submitted, inv[i].freelancer, i), f, i)
    /\ UNCHANGED <<funding, totals, volume, volumeCap>>

\* Mutant: every contribution to an invoice counts as a funded invoice.
BookFundCountingContributions(i, lp, amount) ==
    /\ volumeCap > 0 => volume + amount <= volumeCap
    /\ FundInvoice(i, lp, amount)
    /\ funding' = add_invoice_to_lp(funding, lp, i)
    /\ totals' = increment_total("funded")
    /\ add_volume(amount)
    /\ UNCHANGED <<submitted, volumeCap>>

BookFund(i, lp, amount) ==
    /\ volumeCap > 0 => volume + amount <= volumeCap
    /\ FundInvoice(i, lp, amount)
    /\ funding' = add_invoice_to_lp(funding, lp, i)
    /\ totals' = IF inv'[i].status = "Funded" THEN increment_total("funded") ELSE totals
    /\ add_volume(amount)
    /\ UNCHANGED <<submitted, volumeCap>>

BookTransferLp(i, lp) ==
    /\ TransferLpPosition(i, lp)
    /\ funding' = add_invoice_to_lp(remove_invoice_from_lp(funding, inv[i].funder, i), lp, i)
    /\ UNCHANGED <<submitted, totals, volume, volumeCap>>

BookMarkPaid(i, amount) ==
    /\ MarkPaid(i, amount)
    /\ totals' = IF inv'[i].status = "Paid" THEN increment_total("paid") ELSE totals
    /\ UNCHANGED <<submitted, funding, volume, volumeCap>>

\* The cap may be put below the volume already reached.
SetTokenVolumeCap(value) ==
    /\ volumeCap' = value
    /\ UNCHANGED <<vars, submitted, funding, totals, volume>>

\* The entry points that leave the book alone.
Unbooked(i) ==
    \/ \E a \in Amounts, r \in Rates, d \in Durations : UpdateInvoice(i, a, r, d)
    \/ ExpireInvoice(i)
    \/ CancelInvoice(i)
    \/ \E lp \in LPs : ClaimDefault(i, lp)
    \/ AppealDefault(i)
    \/ ResolveAppeal(i)
    \/ DisputeInvoice(i)
    \/ UpholdDispute(i)
    \/ RejectDispute(i)
    \/ AutoResolveDispute(i)

Booked(i) ==
    \/ \E t \in Terms : BookSubmit(i, t)
    \/ \E f \in Freelancers : BookTransfer(i, f)
    \/ \E lp \in LPs, a \in FundAmounts : BookFund(i, lp, a)
    \/ \E lp \in LPs : BookTransferLp(i, lp)
    \/ \E a \in PayAmounts : BookMarkPaid(i, a)

\* What happens around the invoices.  Clawbacks and donations, which no entry
\* point takes part in, are left to InvoiceEscrow.
Surroundings ==
    \/ \E a \in Accounts : ClaimPendingPayout(a)
    \/ \E r \in FeeRates : UpdateFeeRate(r)
    \/ Pause
    \/ Unpause
    \/ \E a \in Freezable : Freeze(a) \/ Unfreeze(a)
    \/ Tick

BookInit ==
    /\ submitted = [a \in Accounts |-> << >>]
    /\ funding = [a \in Accounts |-> << >>]
    /\ totals = [invoices |-> 0, funded |-> 0, paid |-> 0]
    /\ volume = 0
    /\ volumeCap = 0

BookNext ==
    \/ \E i \in Invoices : Booked(i) \/ (Unbooked(i) /\ UNCHANGED bookVars)
    \/ \E S \in SUBSET Invoices : \E ts \in [S -> Terms] : BookSubmitBatch(ts)
    \/ \E value \in VolumeCaps : SetTokenVolumeCap(value)
    \/ Surroundings /\ UNCHANGED bookVars

BookSpec == Init /\ BookInit /\ [][BookNext]_<<vars, bookVars>>

-----------------------------------------------------------------------------

\* All pages of an index, one after the other.
Walk(ids, size) ==
    LET read[pages \in 0..(Len(ids) + 1)] ==
          IF pages = 0 THEN << >>
          ELSE read[pages-1] \o list_invoices(ids, pages - 1, size)
    IN  read[Len(ids) + 1]

\* Reading page after page, whatever the page size, an account finds exactly the
\* invoices it has submitted or taken over, and an LP exactly those it has put
\* money into or taken over, each once: after transfers back and forth, to oneself
\* or to a co-funder, and after repeated contributions (list_invoices_by_submitter,
\* list_invoices_by_lp and the index helpers of invoice.rs).
ListingsComplete ==
    \A a \in Accounts, size \in PageSizes :
        /\ IsInjective(Walk(submitted[a], size))
        /\ Range(Walk(submitted[a], size)) =
              {i \in Invoices : inv[i].status # "Absent" /\ inv[i].freelancer = a}
        /\ IsInjective(Walk(funding[a], size))
        /\ Range(Walk(funding[a], size)) = {i \in Invoices : Contributes(funders[i], a)}

\* The statistics, which are only ever incremented, still agree with the stored
\* invoices however they got there: an invoice that a dispute has taken out of
\* Funded and put back is counted once, a refunded contribution stays in the
\* volume (get_contract_stats, add_volume).
TotalsAgree ==
    /\ totals.invoices = Cardinality({i \in Invoices : inv[i].status # "Absent"})
    /\ totals.funded = Cardinality({i \in Invoices : inv[i].funder # NoOne})
    /\ totals.paid = Cardinality({i \in Invoices : inv[i].status = "Paid"})
    /\ volume = SumTo([i \in Invoices |-> inv[i].funded], NInvoices)
=============================================================================
