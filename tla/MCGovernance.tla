---------------------------- MODULE MCGovernance -----------------------------
(* Instances of Governance for model checking.  The admin's calls and the   *)
(* failures of targets are interleaved with everything else, but only       *)
(* MaxChanges of them happen in one behaviour.  Only the first proposal may *)
(* be one whose target does not answer, with one change less.               *)
EXTENDS Governance

CONSTANT MaxChanges

VARIABLE changes

MCQuorums == {1, Missing}

\* Two of two signers, one of whom can be replaced; the third pair is refused.
MCVetoConfigs == {[signers |-> {"s1", "s2"}, threshold |-> 2],
                  [signers |-> {"s2", "s3"}, threshold |-> 2],
                  [signers |-> {"s3"}, threshold |-> 2]}

\* Recoveries are not counted: they are what FairSpec relies on.
Changed == settings' # settings \/ failing' \ failing # {}

MCNext ==
    /\ Next
    /\ changes' = IF Changed THEN changes + 1 ELSE changes
    /\ changes' <= MaxChanges
    /\ \A id \in Ids' : proposals'[id].kind \in Unanswered => id = 1 /\ changes' < MaxChanges

MCInit == Init /\ changes = 0

MCFairSpec == MCInit /\ [][MCNext]_<<vars, changes>> /\ Fairness
=============================================================================
