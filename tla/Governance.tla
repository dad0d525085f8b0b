----------------------------- MODULE Governance ------------------------------
(* Proposals of the governance contract: creation with a deposit, votes,    *)
(* the verdict, the execution timelock, the cross-contract call, and the    *)
(* veto multisig.  The weight of a ballot is computed in module Delegation; *)
(* here it is any positive weight.                                          *)
(*                                                                          *)
(* A call that returns an error changes nothing.  execute_proposal marks a  *)
(* lost proposal Rejected and then returns an error, so that mark, and the  *)
(* forfeiture of the deposit with it, are never stored: for a lost vote the *)
(* action ExecuteProposal has no step.                                      *)
EXTENDS Integers, Sequences, FiniteSets, Lists

CONSTANTS
    Voters,
    Signers,       \* who may be a veto signer
    Kinds,         \* kinds of proposal action
    Unanswered,    \* those that call a function the configured contract does not have
    Weights,       \* weights of ballots
    Deposits,      \* values of MinProposalDeposit
    Quorums,       \* values of total supply * MinQuorumBps / 10000
    Delays,        \* values of ExecutionDelay
    MinDelay,      \* MIN_PRODUCTION_EXECUTION_DELAY_LEDGERS
    VetoConfigs,   \* [signers, threshold] pairs offered to configure_veto_multisig
    VotingPeriod,  \* VOTING_PERIOD_SECS
    MaxProposals,  \* bound on the number of proposals
    MaxTime        \* bound on the clock

Missing == -1  \* total supply not positive: QuorumDataMissing

Never == -1

ASSUME GovernanceAssumption ==
    /\ Weights \subseteq Nat \ {0}
    /\ Deposits \subseteq Nat
    /\ Quorums \subseteq Nat \cup {Missing}
    /\ Delays \subseteq Nat
    /\ MinDelay \in Nat
    /\ VotingPeriod \in Nat \ {0}
    /\ \A c \in VetoConfigs : /\ c.signers \in SUBSET Signers /\ IsFiniteSet(c.signers)
                              /\ c.threshold \in Nat
    /\ Kinds # {} /\ Unanswered \subseteq Kinds

VARIABLES
    proposals,  \* Proposal(id) with its deposit, receipts and veto state
    settings,   \* instance storage the ILN contract or the admin may change
    balance,    \* governance tokens held by the contract
    failing,    \* kinds whose cross-contract call fails at present (external)
    now,        \* ledger timestamp and sequence
    locked,     \* history: forfeited deposits kept because no sink was set
    applied,    \* history: the calls the other contracts accepted, in order
    ghost       \* history: per proposal, how it passed, who was paid, who consented

vars == <<proposals, settings, balance, failing, now, locked, applied, ghost>>

Ids == 1..Len(proposals)

-----------------------------------------------------------------------------

NewProposal(kind) ==
    [kind |-> kind, status |-> "Active", votes_for |-> 0, votes_against |-> 0,
     voting_end |-> now + VotingPeriod, eta_ledger |-> 0,
     deposit |-> settings.deposit, settled |-> FALSE,
     voted |-> {}, receipts |-> {}, veto |-> "Uninitiated"]

NewGhost ==
    [passedAt |-> Never, delay |-> 0, vetoOn |-> TRUE, paid |-> "No",
     consents |-> {}, ballots |-> 0]

\* The proposer pays the deposit into the contract.
CreateProposal(kind) ==
    /\ Len(proposals) < MaxProposals
    /\ now + VotingPeriod <= MaxTime
    /\ proposals' = Append(proposals, NewProposal(kind))
    /\ ghost' = Append(ghost, NewGhost)
    /\ balance' = balance + settings.deposit
    /\ UNCHANGED <<settings, failing, now, locked, applied>>

CastVote(voter, id, support, weight) ==
    LET p == proposals[id]
    IN  /\ now < p.voting_end
        /\ p.status = "Active"
        /\ voter \notin p.voted
        /\ proposals' = [proposals EXCEPT
               ![id].votes_for = IF support THEN @ + weight ELSE @,
               ![id].votes_against = IF support THEN @ ELSE @ + weight,
               ![id].voted = @ \cup {voter}]
        /\ ghost' = [ghost EXCEPT ![id].ballots = @ + weight]
        /\ UNCHANGED <<settings, balance, failing, now, locked, applied>>

is_legal_transition(from, to) ==
    <<from, to>> \in {<<"Active", "Passed">>, <<"Active", "Rejected">>,
                      <<"Active", "Vetoed">>, <<"Passed", "Executed">>,
                      <<"Passed", "Vetoed">>}

\* Whether the ballots carry the proposal; they cannot while quorum data are
\* missing.
Carried(p) ==
    /\ settings.quorum # Missing
    /\ p.votes_for + p.votes_against >= settings.quorum
    /\ p.votes_for > p.votes_against

\* Mutant: the call must come in the very ledger the timelock ends.
assert_executable_on_time(id) ==
    LET p == proposals[id]
    IN  /\ p.status = "Passed"
        /\ now >= p.voting_end
        /\ now = p.eta_ledger

assert_executable(id) ==
    LET p == proposals[id]
    IN  /\ p.status = "Passed"
        /\ now >= p.voting_end
        /\ now >= p.eta_ledger

\* What refund_proposal_deposit and forfeit_proposal_deposit move: nothing once
\* the deposit is settled.
Settles(id) == IF proposals[id].settled THEN 0 ELSE proposals[id].deposit

\* Mutant: the deposit is returned only by the call that executes.
PassKeepingDeposit(id) ==
    LET p == proposals[id]
    IN  /\ p.status = "Active"
        /\ now >= p.voting_end
        /\ Carried(p)
        /\ proposals' = [proposals EXCEPT
               ![id].status = "Passed", ![id].eta_ledger = now + settings.delay]
        /\ ghost' = [ghost EXCEPT
               ![id].passedAt = now, ![id].delay = settings.delay,
               ![id].vetoOn = settings.vetoOn]
        /\ UNCHANGED <<settings, balance, failing, now, locked, applied>>

\* First call after a won vote: Active to Passed, and the deposit goes back.
Pass(id) ==
    LET p == proposals[id]
    IN  /\ p.status = "Active"
        /\ now >= p.voting_end
        /\ Carried(p)
        /\ is_legal_transition("Active", "Passed")
        /\ proposals' = [proposals EXCEPT
               ![id].status = "Passed", ![id].settled = TRUE,
               ![id].eta_ledger = now + settings.delay]
        /\ balance' = balance - Settles(id)
        /\ ghost' = [ghost EXCEPT
               ![id].passedAt = now, ![id].delay = settings.delay,
               ![id].vetoOn = settings.vetoOn,
               ![id].paid = IF Settles(id) > 0 THEN "Refund" ELSE @]
        /\ UNCHANGED <<settings, failing, now, locked, applied>>

\* A later call, when the target accepts it.  When the target fails the call
\* only publishes an event and the proposal stays Passed.
Execute(id) ==
    /\ assert_executable(id)
    /\ proposals[id].kind \notin failing
    /\ is_legal_transition(proposals[id].status, "Executed")
    /\ proposals' = [proposals EXCEPT ![id].status = "Executed", ![id].settled = TRUE]
    /\ applied' = Append(applied, [id |-> id, at |-> now])
    /\ balance' = balance - Settles(id)
    /\ UNCHANGED <<settings, failing, now, locked, ghost>>

ExecuteProposal(id) == Pass(id) \/ Execute(id)

-----------------------------------------------------------------------------

is_valid_veto_config(c) == c.threshold \in 1..Cardinality(c.signers)

ConfigureVetoMultisig(c) ==
    /\ is_valid_veto_config(c)
    /\ settings' = [settings EXCEPT !.signers = c.signers, !.threshold = c.threshold]
    /\ UNCHANGED <<proposals, balance, failing, now, locked, applied, ghost>>

\* Mutant: every receipt counts, also one of a former signer.
veto_approvals_of_all(id, signer) == proposals[id].receipts \cup {signer}

\* The receipts of the signers configured now.
veto_approvals(id, signer) == settings.signers \cap (proposals[id].receipts \cup {signer})

Vetoable(signer, id) ==
    /\ settings.vetoOn
    /\ signer \in settings.signers
    /\ proposals[id].status \in {"Active", "Passed"}
    /\ proposals[id].veto # "Executed"
    /\ signer \notin proposals[id].receipts

\* Below the threshold the approval is recorded.
ApproveVeto(signer, id) ==
    /\ Vetoable(signer, id)
    /\ Cardinality(veto_approvals(id, signer)) < settings.threshold
    /\ proposals' = [proposals EXCEPT ![id].receipts = @ \cup {signer},
                                      ![id].veto = "Pending"]
    /\ ghost' = [ghost EXCEPT ![id].consents = @ \cup {signer}]
    /\ UNCHANGED <<settings, balance, failing, now, locked, applied>>

\* At the threshold the proposal is Vetoed, the receipts counted are removed,
\* and a deposit not yet settled goes to the sink, or stays where it is.
ExecuteVeto(signer, id) ==
    LET approvals == veto_approvals(id, signer)
        amount == Settles(id)
    IN  /\ Vetoable(signer, id)
        /\ Cardinality(approvals) >= settings.threshold
        /\ is_legal_transition(proposals[id].status, "Vetoed")
        /\ proposals' = [proposals EXCEPT
               ![id].receipts = (@ \cup {signer}) \ approvals,
               ![id].status = "Vetoed", ![id].veto = "Executed",
               ![id].settled = TRUE]
        /\ balance' = IF settings.sink THEN balance - amount ELSE balance
        /\ locked' = IF settings.sink THEN locked ELSE locked + amount
        /\ ghost' = [ghost EXCEPT
               ![id].consents = @ \cup {signer},
               ![id].paid = IF amount > 0 THEN "Forfeit" ELSE @]
        /\ UNCHANGED <<settings, failing, now, applied>>

VetoProposal(signer, id) == ApproveVeto(signer, id) \/ ExecuteVeto(signer, id)

DisableVetoPower ==
    /\ settings.vetoOn
    /\ settings' = [settings EXCEPT !.vetoOn = FALSE]
    /\ UNCHANGED <<proposals, balance, failing, now, locked, applied, ghost>>

SetExecutionDelay(d) ==
    /\ ~ settings.vetoOn => d >= MinDelay
    /\ settings' = [settings EXCEPT !.delay = d]
    /\ UNCHANGED <<proposals, balance, failing, now, locked, applied, ghost>>

SetMinProposalDeposit(d) ==
    /\ settings' = [settings EXCEPT !.deposit = d]
    /\ UNCHANGED <<proposals, balance, failing, now, locked, applied, ghost>>

SetProposalDepositSink(some) ==
    /\ settings' = [settings EXCEPT !.sink = some]
    /\ UNCHANGED <<proposals, balance, failing, now, locked, applied, ghost>>

\* set_gov_token_total_supply and set_min_quorum_bps.
SetQuorum(q) ==
    /\ settings' = [settings EXCEPT !.quorum = q]
    /\ UNCHANGED <<proposals, balance, failing, now, locked, applied, ghost>>

\* The target of a kind of action starts or stops to fail (paused, misconfigured).
CalleeFails(kind) ==
    /\ failing' = failing \cup {kind}
    /\ UNCHANGED <<proposals, settings, balance, now, locked, applied, ghost>>

CalleeRecovers(kind) ==
    /\ kind \notin Unanswered
    /\ failing' = failing \ {kind}
    /\ UNCHANGED <<proposals, settings, balance, now, locked, applied, ghost>>

Tick ==
    /\ now < MaxTime
    /\ now' = now + 1
    /\ UNCHANGED <<proposals, settings, balance, failing, locked, applied, ghost>>

-----------------------------------------------------------------------------

Init ==
    /\ proposals = << >>
    /\ settings \in [deposit : Deposits, sink : BOOLEAN, delay : Delays,
                     quorum : Quorums, vetoOn : {TRUE},
                     signers : {{}}, threshold : {0}]
    /\ balance = 0
    /\ failing = Unanswered
    /\ now = 0
    /\ locked = 0
    /\ applied = << >>
    /\ ghost = << >>

Next ==
    \/ \E kind \in Kinds : CreateProposal(kind)
    \/ \E voter \in Voters, id \in Ids, support \in BOOLEAN, weight \in Weights :
           CastVote(voter, id, support, weight)
    \/ \E id \in Ids : ExecuteProposal(id)
    \/ \E c \in VetoConfigs : ConfigureVetoMultisig(c)
    \/ \E signer \in Signers, id \in Ids : VetoProposal(signer, id)
    \/ DisableVetoPower
    \/ \E d \in Delays : SetExecutionDelay(d)
    \/ \E d \in Deposits : SetMinProposalDeposit(d)
    \/ \E some \in BOOLEAN : SetProposalDepositSink(some)
    \/ \E q \in Quorums : SetQuorum(q)
    \/ \E kind \in Kinds : CalleeFails(kind) \/ CalleeRecovers(kind)
    \/ Tick

Spec == Init /\ [][Next]_vars

\* Anyone may call execute_proposal, so a call that stays possible, or becomes
\* possible again and again, is made; targets that exist recover and ledgers close.
Fairness ==
    /\ WF_vars(Tick)
    /\ \A kind \in Kinds : WF_vars(CalleeRecovers(kind) /\ kind \in failing)
    /\ \A id \in 1..MaxProposals : SF_vars(id \in Ids /\ ExecuteProposal(id))

FairSpec == Spec /\ Fairness

-----------------------------------------------------------------------------

\* The proposal and setting records keep their types, and every proposal has
\* its history.
TypeOK ==
    /\ proposals \in Seq([kind : Kinds,
                          status : {"Active", "Passed", "Executed", "Vetoed"},
                          votes_for : Nat, votes_against : Nat,
                          voting_end : Nat, eta_ledger : Nat,
                          deposit : Nat, settled : BOOLEAN,
                          voted : SUBSET Voters, receipts : SUBSET Signers,
                          veto : {"Uninitiated", "Pending", "Executed"}])
    /\ settings \in [deposit : Nat, sink : BOOLEAN, delay : Nat,
                     quorum : Nat \cup {Missing}, vetoOn : BOOLEAN,
                     signers : SUBSET Signers, threshold : Nat]
    /\ balance \in Nat
    /\ failing \subseteq Kinds
    /\ now \in Nat
    /\ locked \in Nat
    /\ applied \in Seq([id : Nat, at : Nat])
    /\ ghost \in Seq([passedAt : Nat \cup {Never}, delay : Nat, vetoOn : BOOLEAN,
                      paid : {"No", "Refund", "Forfeit"},
                      consents : SUBSET Signers, ballots : Nat])
    /\ Len(ghost) = Len(proposals)

\* The contract holds exactly the deposits of unsettled proposals and the
\* forfeits it kept: every deposit leaves once, whatever the sink and the required
\* deposit were set to in between.  A proposal that passed has returned its
\* deposit, also after it was executed or vetoed, one vetoed before a verdict has
\* forfeited it, and one that is still voted on has paid nobody.  Whether a lost
\* vote is ever settled is left open here; if it is, the deposit is forfeited.
DepositsSettled ==
    /\ balance = SumTo([id \in Ids |-> IF proposals[id].settled THEN 0
                                      ELSE proposals[id].deposit], Len(proposals)) + locked
    /\ \A id \in Ids :
         LET p == proposals[id]
             won == ghost[id].passedAt # Never
         IN  /\ p.status # "Active" => p.settled
             /\ p.status = "Active" /\ now < p.voting_end => ~ p.settled
             /\ p.deposit > 0 =>
                    ghost[id].paid = (IF won THEN "Refund"
                                      ELSE IF p.settled THEN "Forfeit" ELSE "No")

\* A target has carried out exactly the executed proposals, each once: the call
\* of a proposal that failed and was retried is not repeated after it succeeded.
\* Between the verdict and the call at least the delay in force at the verdict
\* has passed, however the admin changed the delay meanwhile.
AppliedOnce ==
    /\ \A i, j \in DOMAIN applied : applied[i].id = applied[j].id => i = j
    /\ {applied[i].id : i \in DOMAIN applied} = {id \in Ids : proposals[id].status = "Executed"}
    /\ \A i \in DOMAIN applied :
         LET g == ghost[applied[i].id]
         IN  g.passedAt # Never /\ applied[i].at >= g.passedAt + g.delay

\* What becomes of a verdict: it is carried out exactly once and not before its
\* time (AppliedOnce), or vetoed, and that only while the veto is enabled and with
\* the consent of as many of the signers configured at that moment as the
\* threshold asks (execute_proposal, veto_proposal).
VerdictsHonoured ==
    [][/\ AppliedOnce'
       /\ \A id \in Ids :
           proposals'[id].status = "Vetoed" /\ proposals[id].status # "Vetoed" =>
               /\ settings.vetoOn
               /\ Cardinality(settings.signers \cap ghost'[id].consents)
                      >= settings.threshold]_vars

\* A passed proposal whose timelock can run out is executed in the end, or
\* vetoed, although its target may fail for a while (GLP2); the target has to have
\* the function that the proposal calls.
PassedGetsExecuted ==
    \A id \in 1..MaxProposals :
        (/\ id \in Ids /\ proposals[id].status = "Passed"
         /\ proposals[id].eta_ledger <= MaxTime /\ proposals[id].kind \notin Unanswered)
            ~> (id \in Ids /\ proposals[id].status \in {"Executed", "Vetoed"})
=============================================================================
