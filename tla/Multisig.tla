------------------------------ MODULE Multisig -------------------------------
(* The threshold multisig of the invoice contract (multisig.rs and its      *)
(* entry points in lib.rs): proposals for admin actions, approvals, expiry, *)
(* execution, and signer rotation behind a timelock.                        *)
(*                                                                          *)
(* A call that returns an error changes nothing, so the "Expired" mark that *)
(* sign and execute set before they fail is never stored: a proposal is     *)
(* executed or not, and expiry is a matter of the clock.                    *)
EXTENDS Integers, Sequences, FiniteSets, Functions, Lists

CONSTANTS
    Addresses,    \* who may be a signer
    Configs,      \* [signers, threshold] the admin may bootstrap
    Actions,      \* admin actions that may be proposed
    Tokens,       \* token contracts
    Bootstrap,    \* the tokens initialize is given, in its order
    Window,       \* MULTISIG_WINDOW_LEDGERS
    Timelock,     \* ROTATION_TIMELOCK_LEDGERS
    MaxProposals, \* bound on the number of proposals
    MaxTime       \* bound on the clock

ASSUME MultisigAssumption == Window \in Nat /\ Timelock \in Nat

None == [old |-> "none", new |-> "none", at |-> -1]

VARIABLES
    config,      \* MultisigAdmin: [signers, threshold]; no signers before bootstrap
    proposals,   \* MultisigProposal(id), in the order of their ids
    inFlight,    \* PendingActionProposal(action), 0 when there is no entry
    rotation,    \* PendingSignerRotation, or None
    settings,    \* what executed actions write: pause, rates and tokens
    now,
    scheduledAt  \* history: when the pending rotation was approved

vars == <<config, proposals, inFlight, rotation, settings, now, scheduledAt>>

Ids == 1..Len(proposals)

-----------------------------------------------------------------------------

\* Non-empty, without duplicates, and the threshold within reach.
is_valid_config(c) ==
    /\ c.threshold \in 1..Len(c.signers)
    /\ IsInjective(c.signers)

is_signer(s) == s \in Range(config.signers)

has_signed(p, s) == s \in Range(p.approved)

threshold_reached(p) == Len(p.approved) >= config.threshold

is_expired(p) == now >= p.expires

Live(p) == ~ p.executed /\ ~ is_expired(p)

Initialize(c) ==
    /\ config.signers = << >>
    /\ is_valid_config(c)
    /\ config' = c
    /\ UNCHANGED <<proposals, inFlight, rotation, settings, now, scheduledAt>>

\* Mutant: accepts a second proposal for the same action.
ProposeAgain(s, a) ==
    /\ Len(proposals) < MaxProposals
    /\ is_signer(s)
    /\ proposals' = Append(proposals, [action |-> a, approved |-> <<s>>,
                                       executed |-> FALSE, expires |-> now + Window])
    /\ inFlight' = [inFlight EXCEPT ![a] = Len(proposals) + 1]
    /\ UNCHANGED <<config, rotation, settings, now, scheduledAt>>

\* The proposer approves by proposing.
Propose(s, a) ==
    /\ Len(proposals) < MaxProposals
    /\ is_signer(s)
    /\ ~ (inFlight[a] \in Ids /\ Live(proposals[inFlight[a]]))
    /\ proposals' = Append(proposals, [action |-> a, approved |-> <<s>>,
                                       executed |-> FALSE, expires |-> now + Window])
    /\ inFlight' = [inFlight EXCEPT ![a] = Len(proposals) + 1]
    /\ UNCHANGED <<config, rotation, settings, now, scheduledAt>>

\* Mutant: counts a second approval of the same signer.
SignTwice(s, id) ==
    /\ is_signer(s)
    /\ Live(proposals[id])
    /\ Len(proposals[id].approved) < 3
    /\ proposals' = [proposals EXCEPT ![id].approved = Append(@, s)]
    /\ UNCHANGED <<config, inFlight, rotation, settings, now, scheduledAt>>

Sign(s, id) ==
    /\ is_signer(s)
    /\ Live(proposals[id])
    /\ ~ has_signed(proposals[id], s)
    /\ proposals' = [proposals EXCEPT ![id].approved = Append(@, s)]
    /\ UNCHANGED <<config, inFlight, rotation, settings, now, scheduledAt>>

-----------------------------------------------------------------------------
(* What an executed action does; "set" is the value a setting receives.     *)

\* Unpausing keeps the time of the last pause.
set_paused(b) ==
    settings' = [settings EXCEPT !.paused = b, !.pausedAt = IF b THEN now ELSE @]

\* The flag, and the list kept in step with it.
remove_token(t) ==
    settings' = [settings EXCEPT !.approved[t] = "no", !.list = Without(@, t)]

ApplySetting(a) ==
    /\ \/ a.kind = "Pause" /\ set_paused(TRUE)
       \/ a.kind = "Unpause" /\ set_paused(FALSE)
       \/ a.kind = "RemoveToken" /\ remove_token(a.set)
       \/ a.kind = "SetFeeRate" /\ settings' = [settings EXCEPT !.feeRate = a.set]
       \/ a.kind = "SetMaxDiscount" /\ settings' = [settings EXCEPT !.maxDiscount = a.set]
    /\ UNCHANGED <<config, rotation, scheduledAt>>

UpdateMultisig(a) ==
    /\ a.kind = "UpdateMultisig"
    /\ is_valid_config(a.set)
    /\ config' = a.set
    /\ UNCHANGED <<rotation, settings, scheduledAt>>

schedule_rotation(a) ==
    /\ a.kind = "RotateSigner"
    /\ rotation = None
    /\ is_signer(a.set.old)
    /\ a.set.old # a.set.new
    /\ ~ is_signer(a.set.new)
    /\ rotation' = [old |-> a.set.old, new |-> a.set.new, at |-> now + Timelock]
    /\ scheduledAt' = now
    /\ UNCHANGED <<config, settings>>

\* Any signer may trigger the execution; an action that fails keeps its
\* proposal open.
ExecuteProposal(s, id) ==
    LET p == proposals[id]
    IN  /\ is_signer(s)
        /\ Live(p)
        /\ threshold_reached(p)
        /\ proposals' = [proposals EXCEPT ![id].executed = TRUE]
        /\ inFlight' = [inFlight EXCEPT ![p.action] = 0]
        /\ \/ ApplySetting(p.action)
           \/ UpdateMultisig(p.action)
           \/ schedule_rotation(p.action)
        /\ UNCHANGED now

\* The signer list is not looked at again: it may have been replaced since the
\* rotation was scheduled.
FinalizeRotation(s) ==
    /\ is_signer(s)
    /\ rotation # None
    /\ now >= rotation.at
    /\ config' = [config EXCEPT !.signers =
                    Append(Without(config.signers, rotation.old), rotation.new)]
    /\ rotation' = None
    /\ UNCHANGED <<proposals, inFlight, settings, now, scheduledAt>>

CancelRotation(s) ==
    /\ is_signer(s)
    /\ rotation # None
    /\ rotation' = None
    /\ UNCHANGED <<config, proposals, inFlight, settings, now, scheduledAt>>

Tick ==
    /\ now < MaxTime
    /\ now' = now + 1
    /\ UNCHANGED <<config, proposals, inFlight, rotation, settings, scheduledAt>>

\* As initialize leaves them.  A token without a flag is "unset".
InitialSettings ==
    [paused |-> FALSE, pausedAt |-> 0, feeRate |-> 0, maxDiscount |-> 5000,
     approved |-> [t \in Tokens |-> IF t \in Range(Bootstrap) THEN "yes" ELSE "unset"],
     list |-> Bootstrap]

Init ==
    /\ config = [signers |-> << >>, threshold |-> 0]
    /\ proposals = << >>
    /\ inFlight = [a \in Actions |-> 0]
    /\ rotation = None
    /\ settings = InitialSettings
    /\ now = 0
    /\ scheduledAt = -1

Next ==
    \/ \E c \in Configs : Initialize(c)
    \/ \E s \in Addresses :
          \/ \E a \in Actions : Propose(s, a)
          \/ \E id \in Ids : Sign(s, id) \/ ExecuteProposal(s, id)
          \/ FinalizeRotation(s)
          \/ CancelRotation(s)
    \/ Tick

Spec == Init /\ [][Next]_vars

-----------------------------------------------------------------------------
(* Properties                                                               *)

\* Besides the types: the index of proposals in flight names a stored proposal
\* for the action it is filed under (propose, execute).
TypeOK ==
    /\ config.signers \in Seq(Addresses) /\ config.threshold \in Nat
    /\ \A id \in Ids : /\ proposals[id].action \in Actions
                       /\ proposals[id].approved \in Seq(Addresses)
                       /\ proposals[id].executed \in BOOLEAN
                       /\ proposals[id].expires \in Nat
    /\ inFlight \in [Actions -> 0..Len(proposals)]
    /\ \A a \in Actions : inFlight[a] # 0 => proposals[inFlight[a]].action = a
    /\ rotation = None \/ (rotation.old \in Addresses /\ rotation.new \in Addresses)
    /\ now \in Nat

\* There are never two proposals for the same action that could both still be
\* executed: two signers who pause at the same moment do not pause twice
\* (propose, issue #641).
OneLiveProposal ==
    \A i, j \in Ids :
        Live(proposals[i]) /\ Live(proposals[j])
          /\ proposals[i].action = proposals[j].action => i = j

Executed(id) == proposals'[id].executed /\ ~ proposals[id].executed

Consented ==
    /\ \A id \in Ids : Executed(id) =>
          /\ Cardinality(Range(proposals[id].approved)) >= config.threshold
          /\ now < proposals[id].expires
    /\ config'.signers # config.signers =>
          \/ config.signers = << >>
          \/ \E id \in Ids : Executed(id) /\ proposals[id].action.kind = "UpdateMultisig"
          \/ rotation # None /\ now >= scheduledAt + Timelock

\* An action takes effect only when as many different signers as the threshold
\* asks for have approved this very proposal, in time, whatever proposals,
\* approvals and changes of the signer set came before (sign, execute); and
\* signers change through an executed UpdateMultisig or through a rotation that
\* has been public for the whole timelock (finalize_rotation).
ConsentEarned == [][Consented]_vars
=============================================================================
