---------------------------- MODULE MCDelegation -----------------------------
(* Delegation for model checking.  Every behaviour is of one of two parts:  *)
(* all voters build the delegation graph under a changing limit while       *)
(* balances are at rest, or the few voters of Elect, who hold all tokens, do *)
(* everything there is to do under the default limit.                       *)
EXTENDS Delegation, TLC

CONSTANT Elect

ASSUME ElectAssumption == Elect \subseteq Holders

VARIABLE part

Symmetry == Permutations(Elect)

MCInit ==
    /\ VotingInit
    /\ part \in {"graph", "ballots"}
    /\ \A v \in Holders \ Elect : tokens[v] = 0

\* A step that changes the graph or what bounds it.
DelegationStep ==
    \/ \E d \in Depths : SetMaxDelegationDepth(d)
    \/ \E a, to \in Holders : DelegateVotes(a, to)
    \/ \E v \in Holders : UndelegateVotes(v)

\* Everybody proves their balance first, and only the graph changes after that.
GraphPart ==
    \/ \E v \in Holders : latest[v] = NoCheckpoint /\ CheckpointBalance(v)
    \/ (\A v \in Holders : latest[v] # NoCheckpoint) /\ (CloseLedger \/ DelegationStep)

MCNext ==
    /\ part' = part
    /\ \/ part = "graph" /\ GraphPart
       \/ part = "ballots" /\ StepAmong(Elect)

MCSpec == MCInit /\ [][MCNext]_<<votingVars, part>>
=============================================================================
