----------------------------- MODULE Delegation ------------------------------
(* Voting weight in the governance contract: balance checkpoints, the       *)
(* delegation graph with its reverse lists and tallies, and the weight of   *)
(* ballots on one proposal.                                                 *)
EXTENDS Integers, FiniteSets, FiniteSetsExt, Lists

CONSTANTS
    Holders,       \* of governance tokens
    Nobody,        \* no delegate
    Supply,        \* tokens in circulation
    Hold,          \* MIN_VOTE_HOLD_LEDGERS
    DefaultDepth,  \* DEFAULT_MAX_DELEGATION_DEPTH
    Depths,        \* values given to set_max_delegation_depth
    MaxTally,      \* bound on a tally: it can grow without end
    MaxLedger        \* bound on the clock

ASSUME DelegationAssumption ==
    /\ Nobody \notin Holders
    /\ Supply \in Nat /\ Hold \in Nat /\ MaxLedger \in Nat
    /\ DefaultDepth \in Nat /\ Depths \subseteq Nat

NoCheckpoint == [balance |-> 0, ledger |-> -1]

Absent == -1

VARIABLES
    tokens,       \* live token balances (external)
    latest,       \* BalanceCheckpoint(voter)
    prior,        \* PriorBalanceCheckpoint(voter)
    delegate,     \* Delegation(voter), or Nobody
    delegators,   \* Delegators(voter)
    tally,        \* DelegatedToMe(voter)
    created,      \* ledger of the proposal, or Absent
    proposer,     \* ProposalProposer(proposal), or Nobody
    snapshot,     \* VoteWeightSnapshot(proposal, voter), or Absent
    weight,       \* VoteReceipt(proposal, voter), or Absent
    quadratic,    \* QuadraticVotingEnabled
    max_depth,    \* MaxDelegationDepth
    ledger,
    held,         \* history: the most each voter held in each ledger
    peak          \* history: the greatest MaxDelegationDepth so far

votingVars == <<tokens, latest, prior, delegate, delegators, tally, created, proposer,
          snapshot, weight, quadratic, max_depth, ledger, held, peak>>

graph == <<delegate, delegators, tally>>

ballots == <<created, proposer, snapshot, weight>>

rules == <<quadratic, max_depth, peak>>

-----------------------------------------------------------------------------

\* Where n forward pointers lead from a.
Ahead(a, n) ==
    Iterate([x \in Holders |-> IF delegate[x] = Nobody THEN x ELSE delegate[x]], a, n)

\* Edges on the forward chain from a, at most max_depth.
forward_delegation_depth(a) ==
    Cardinality({k \in 0..(max_depth - 1) : delegate[Ahead(a, k)] # Nobody})

\* Who is n reverse edges away from a, by the stored lists.
Behind(a, n) ==
    Iterate([S \in SUBSET Holders |-> UNION {delegators[x] : x \in S}], {a}, n)

\* Mutant: the chain that already ends at the delegator is not looked at.
forward_only(a) == 0

\* Length of the longest chain that ends at a.  It is compared with max_depth, so
\* a longer chain need not be measured.
longest_inbound_depth(a) ==
    Max({n \in 0..max_depth : Behind(a, n) # {}})

\* Stops short of the end of a chain that is longer than a lowered limit.
resolve_terminal(a) == Ahead(a, max_depth)

\* The newer of the two checkpoints that is old enough at the given ledger.
eligible_checkpoint(v, at) ==
    LET old == {c \in {latest[v], prior[v]} : c # NoCheckpoint /\ c.ledger + Hold <= at}
    IN  IF old = {} THEN NoCheckpoint
        ELSE CHOOSE c \in old : \A d \in old : d.ledger <= c.ledger

\* Mutant: the live balance counts as soon as there is a checkpoint.
proven_live_balance(v, at) == tokens[v]

proven_own_balance(v, at) == Min({eligible_checkpoint(v, at).balance, tokens[v]})

HasProof(v, at) == eligible_checkpoint(v, at) # NoCheckpoint

isqrt(n) == Max({k \in 0..n : k * k <= n})

\* adjust_delegated_to_me removes a tally that is not positive.
Adjusted(t, v, delta) == [t EXCEPT ![v] = Max({0, @ + delta})]

-----------------------------------------------------------------------------

CheckpointBalance(v) ==
    /\ prior' = IF latest[v] # NoCheckpoint /\ latest[v].ledger < ledger
                THEN [prior EXCEPT ![v] = latest[v]] ELSE prior
    /\ latest' = [latest EXCEPT ![v] = [balance |-> tokens[v], ledger |-> ledger]]
    /\ UNCHANGED <<tokens, rules, ledger, held>>
    /\ UNCHANGED graph /\ UNCHANGED ballots

\* The walk along the chain of the delegate: it must not meet the delegator,
\* nor be longer than the limit.
CycleFree(delegator, to) ==
    /\ \A k \in 1..(max_depth + 1) : Ahead(to, k) # delegator
    /\ delegate[Ahead(to, max_depth)] = Nobody

\* The reverse lists after a has moved to another delegate.
Linked(a, to) ==
    [x \in Holders |-> IF x = to THEN delegators[x] \cup {a} ELSE delegators[x] \ {a}]

DelegateVotes(a, to) ==
    LET proven == proven_own_balance(a, ledger)
        left   == IF delegate[a] = Nobody THEN tally
                  ELSE Adjusted(tally, resolve_terminal(delegate[a]), -proven)
    IN  /\ a # to
        /\ HasProof(a, ledger)
        /\ CycleFree(a, to)
        /\ longest_inbound_depth(a) + 1 + forward_delegation_depth(to) <= max_depth
        /\ delegate' = [delegate EXCEPT ![a] = to]
        /\ delegators' = Linked(a, to)
        /\ tally' = Adjusted(left, resolve_terminal(to), proven)
        /\ tally'[resolve_terminal(to)] <= MaxTally
        /\ UNCHANGED <<tokens, latest, prior, rules, ledger, held>>
        /\ UNCHANGED ballots

\* Takes the live balance off the tally, not what was added to it.
UndelegateVotes(a) ==
    /\ delegate[a] # Nobody
    /\ tally' = Adjusted(tally, resolve_terminal(delegate[a]), -tokens[a])
    /\ delegators' = [delegators EXCEPT ![delegate[a]] = @ \ {a}]
    /\ delegate' = [delegate EXCEPT ![a] = Nobody]
    /\ UNCHANGED <<tokens, latest, prior, rules, ledger, held>>
    /\ UNCHANGED ballots

\* create_proposal takes the proposer's balance as it is, and seeds a
\* checkpoint if there is none.
CreateProposalSnapshot(p) ==
    /\ created = Absent
    /\ created' = ledger
    /\ proposer' = p
    /\ snapshot' = [snapshot EXCEPT ![p] = tokens[p]]
    /\ latest' = IF latest[p] = NoCheckpoint
                 THEN [latest EXCEPT ![p] = [balance |-> tokens[p], ledger |-> ledger]]
                 ELSE latest
    /\ UNCHANGED <<tokens, prior, weight, rules, ledger, held>>
    /\ UNCHANGED graph

MayVote(v) == created # Absent /\ weight[v] = Absent

CastVoteWeight(v) ==
    LET own   == IF snapshot[v] # Absent THEN snapshot[v] ELSE proven_own_balance(v, created)
        total == own + tally[v]
        cast  == IF quadratic THEN isqrt(total) ELSE total
    IN  /\ MayVote(v)
        /\ snapshot[v] # Absent \/ HasProof(v, created)
        /\ cast # 0
        /\ snapshot' = [snapshot EXCEPT ![v] = own]
        /\ weight' = [weight EXCEPT ![v] = cast]
        /\ UNCHANGED <<tokens, latest, prior, created, proposer, rules, ledger, held>>
        /\ UNCHANGED graph

SetQuadraticVoting ==
    /\ quadratic' = ~ quadratic
    /\ UNCHANGED <<tokens, latest, prior, max_depth, ledger, held, peak>>
    /\ UNCHANGED graph /\ UNCHANGED ballots

\* Whatever chains there are.
SetMaxDelegationDepth(d) ==
    /\ max_depth' = d
    /\ peak' = Max({peak, d})
    /\ UNCHANGED <<tokens, latest, prior, quadratic, ledger, held>>
    /\ UNCHANGED graph /\ UNCHANGED ballots

Transfer(a, b) ==
    /\ a # b
    /\ tokens[a] > 0
    /\ tokens' = [tokens EXCEPT ![a] = @ - 1, ![b] = @ + 1]
    /\ held' = [held EXCEPT ![b][ledger] = Max({@, tokens'[b]})]
    /\ UNCHANGED <<latest, prior, rules, ledger>>
    /\ UNCHANGED graph /\ UNCHANGED ballots

CloseLedger ==
    /\ ledger < MaxLedger
    /\ ledger' = ledger + 1
    /\ held' = [v \in Holders |-> [held[v] EXCEPT ![ledger + 1] = tokens[v]]]
    /\ UNCHANGED <<tokens, latest, prior, rules>>
    /\ UNCHANGED graph /\ UNCHANGED ballots

-----------------------------------------------------------------------------

VotingInit ==
    /\ tokens \in {b \in [Holders -> 0..Supply] : MapThenSumSet(LAMBDA v : b[v], Holders) = Supply}
    /\ latest = [v \in Holders |-> NoCheckpoint]
    /\ prior = [v \in Holders |-> NoCheckpoint]
    /\ delegate = [v \in Holders |-> Nobody]
    /\ delegators = [v \in Holders |-> {}]
    /\ tally = [v \in Holders |-> 0]
    /\ created = Absent
    /\ proposer = Nobody
    /\ snapshot = [v \in Holders |-> Absent]
    /\ weight = [v \in Holders |-> Absent]
    /\ quadratic = FALSE
    /\ max_depth = DefaultDepth /\ peak = DefaultDepth
    /\ ledger = 0
    /\ held = [v \in Holders |-> [t \in 0..MaxLedger |-> IF t = 0 THEN tokens[v] ELSE 0]]

\* A step of one of the voters in S.
StepAmong(S) ==
    \/ \E a, to \in S : DelegateVotes(a, to) \/ Transfer(a, to)
    \/ \E v \in S : \/ UndelegateVotes(v)
                    \/ CheckpointBalance(v)
                    \/ CreateProposalSnapshot(v)
                    \/ CastVoteWeight(v)
    \/ SetQuadraticVoting
    \/ CloseLedger

VotingNext == StepAmong(Holders) \/ \E d \in Depths : SetMaxDelegationDepth(d)

VotingSpec == VotingInit /\ [][VotingNext]_votingVars

-----------------------------------------------------------------------------

\* Balances add up to the supply, and checkpoints, tallies and weights keep
\* their types; a tally is never negative.
VotingTypeOK ==
    /\ tokens \in [Holders -> 0..Supply]
    /\ MapThenSumSet(LAMBDA v : tokens[v], Holders) = Supply
    /\ latest \in [Holders -> [balance : 0..Supply, ledger : 0..MaxLedger \cup {-1}]]
    /\ prior \in [Holders -> [balance : 0..Supply, ledger : 0..MaxLedger \cup {-1}]]
    /\ delegate \in [Holders -> Holders \cup {Nobody}]
    /\ delegators \in [Holders -> SUBSET Holders]
    /\ tally \in [Holders -> Nat]
    /\ created \in 0..MaxLedger \cup {Absent}
    /\ proposer \in Holders \cup {Nobody}
    /\ snapshot \in [Holders -> 0..Supply \cup {Absent}]
    /\ weight \in [Holders -> Nat \cup {Absent}]
    /\ quadratic \in BOOLEAN
    /\ max_depth \in Nat /\ peak \in Nat
    /\ ledger \in 0..MaxLedger
    /\ held \in [Holders -> [0..MaxLedger -> 0..Supply]]

\* DEL1 and DEL2: following the delegations from any voter ends at a voter who
\* has not delegated, in whatever order the edges were added, moved and removed
\* and also when a chain grew at its far end.  No chain is longer than the greatest
\* limit there has been: not even with a limit that is lowered under the chains
\* that stand, raised, and met by new edges at either end of them.  The reverse
\* lists, which the depth check of delegate_votes relies on, hold exactly the
\* stored delegations.
DelegationsSound ==
    /\ \A v \in Holders : delegate[Ahead(v, peak)] = Nobody
    /\ \A a, b \in Holders : a \in delegators[b] <=> delegate[a] = b

\* A voter other than the proposer carries no more of their own than they held
\* in a ledger that precedes the proposal by the holding period: tokens that
\* arrived later, or were only passing through, do not count (issue #805).
HeldBefore ==
    \A v \in Holders :
        weight[v] # Absent /\ v # proposer =>
            \E t \in 0..MaxLedger : t + Hold <= created /\ snapshot[v] <= held[v][t]
=============================================================================
