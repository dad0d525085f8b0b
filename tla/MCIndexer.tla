------------------------------ MODULE MCIndexer ------------------------------
(* Indexer for model checking.  Every behaviour is of one of three parts,    *)
(* which put the bounds where each question needs them.                      *)
EXTENDS Indexer

VARIABLE part

Within(f, k, t) == faults' <= f /\ tip' <= t /\ \A i \in 1..tip' : chain'[i] <= k

MCInit == IngestInit /\ part \in {"forks", "faults", "stalls"}

MCNext ==
    /\ part' = part
    /\ IngestNext
    /\ part # "stalls" => late' = {}
    /\ CASE part = "forks" -> Within(2, 2, 3)
         [] part = "faults" -> Within(3, 1, 3)
         [] OTHER -> Within(2, 1, 2)

MCSpec == MCInit /\ [][MCNext]_<<ingestVars, part>> /\ IngestFairness
=============================================================================
