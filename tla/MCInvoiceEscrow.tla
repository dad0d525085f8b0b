-------------------------- MODULE MCInvoiceEscrow ---------------------------
(* InvoiceEscrow for model checking.  Every behaviour is of one of two      *)
(* parts: one larger invoice among freezes, clawbacks, donations and        *)
(* changing fees, or two smaller invoices that share the balance.           *)
EXTENDS InvoiceEscrow

VARIABLE part

MCInit ==
    /\ Init
    /\ part \in {"one", "two"}
    /\ part = "two" => feeRate = 1

\* One invoice of three units.
OneInvoice ==
    /\ inv[2].status = "Absent"
    /\ inv[1].amount \in {0, 3}

\* Two invoices of two units, either of which may be disputed; a fixed fee, no
\* pauses, one freezable recipient and a clock that stops earlier.
TwoInvoices ==
    /\ \A i \in Invoices : /\ inv[i].amount \in {0, 2} /\ inv[i].disputedAt <= 1
                           /\ \A k \in 1..Len(funders[i]) : funders[i][k].amt > 0
    /\ \E i \in Invoices : inv[i].disputedAt = Never
    /\ feeRate = 1 /\ frozen \subseteq {3} /\ clawed = 0 /\ ~ paused /\ now <= 2

\* Money comes in only with an invoice operation.
NoDonation == ledger'.balance > ledger.balance => inv' # inv

MCNext ==
    /\ part' = part
    /\ Next
    /\ part = "one" => OneInvoice'
    /\ part = "two" => TwoInvoices' /\ NoDonation

MCSpec == MCInit /\ [][MCNext]_<<vars, part>>
=============================================================================
