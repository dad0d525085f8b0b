---------------------------- MODULE MCInvoiceBook ----------------------------
(* InvoiceBook for model checking, with the fairness of InvoiceEscrow.      *)
(* Every behaviour is of one of two parts: one invoice among freezes and    *)
(* changing fees, with time to run out, or two invoices that change hands   *)
(* between freelancers and LPs under a volume cap.                          *)
EXTENDS InvoiceBook

CONSTANT Submitter       \* the one freelancer of the first part

VARIABLE part

MCInit ==
    /\ Init
    /\ BookInit
    /\ part \in {"time", "hands"}
    /\ part = "hands" => feeRate = 1

OneInvoice ==
    /\ inv[2].status = "Absent"
    /\ inv[1].freelancer \in {NoOne, Submitter}
    /\ volumeCap = 0

\* Invoices go the ordinary way and the clock stands still: neither property of
\* progress says anything here.
TwoInvoices ==
    /\ \A i \in Invoices : inv[i].status \notin {"Disputed", "Defaulted", "Expired"}
    /\ paused => inv[2].status = "Absent"
    /\ feeRate = 1 /\ frozen = {} /\ now = 0

MCNext ==
    /\ part' = part
    /\ BookNext
    /\ part = "time" => OneInvoice'
    /\ part = "hands" => TwoInvoices'

MCSpec ==
    /\ MCInit
    /\ [][MCNext]_<<vars, bookVars, part>>
    /\ Fairness
=============================================================================
