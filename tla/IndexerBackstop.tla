--------------------------- MODULE IndexerBackstop ---------------------------
(* Event ingestion beside the reconciliation job of scripts/reconcile.ts: a  *)
(* process of its own, which finds divergences the writers did not see and   *)
(* recovers through the same rollback and replay, with a lease that nothing  *)
(* renews.                                                                   *)
EXTENDS Indexer

\* The reconciliation job compares the stored headers with the chain, newest
\* first.
Reconcile(j, unread) ==
    LET wrong == {l \in Stored : headers[l].hash # Branch(l)}
        d == divergenceLedger(Max(wrong), unread)
    IN  /\ j \in Jobs
        /\ proc[j].pc = "idle" /\ wrong # {}
        /\ UnreadOr0(unread)
        /\ latchHalt(d)
        /\ Go(j, [proc[j] EXCEPT !.pc = "lock", !.from = d])
        /\ blind' = (blind \/ unread # 0)
        /\ UNCHANGED <<chain, rows, headers, cursor, lease, failed, origin, late, overlap>>

JobNext == \E p \in Procs, u \in 0..MaxLedger : Reconcile(p, u)

\* The processes take turns and the chain can be read in a recovery: what is left
\* is a recovery that starts from what was found before it waited.
BackstopNext == (IngestNext \/ JobNext) /\ ~ overlap' /\ ~ blind' /\ late' = {}

BackstopSpec == IngestInit /\ [][BackstopNext]_ingestVars

=============================================================================
