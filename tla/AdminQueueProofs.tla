-------------------------- MODULE AdminQueueProofs --------------------------
(* Proofs about those who administer the invoice contract, for any signers,  *)
(* actions, windows, cooldowns and tokens.  The multisig, whatever the       *)
(* sequence of proposals, approvals, executions, rotations and changes of    *)
(* the signer set: one live proposal per action, and no action and no change *)
(* of signers without the consent and the notice it needs.  The admin,       *)
(* interleaved with the multisig: the log tells what was done, and the       *)
(* register of tokens stays consistent.                                      *)
(*                                                                           *)
(* And about those who fund invoices.  The LP priority queue, for any LPs,   *)
(* delays and scores and any sequence of joins, resolutions, evictions,      *)
(* purges, disputes and pauses: nobody wins before the window is over, and a *)
(* winner is the best and is not evicted early.  The distribution contract,  *)
(* for any participants, amounts, rates (negative ones included) and         *)
(* sequences of reports, claims and rate changes: it never mints more than   *)
(* was earned.                                                               *)
EXTENDS Administration, FundQueue, Distribution, FiniteSetTheorems, ListTheorems

Proposal == [action : Actions, approved : Seq(Addresses), executed : BOOLEAN, expires : Nat]

\* Nobody is counted twice.
NoRepeats(s) == \A j, k \in 1..Len(s) : s[j] = s[k] => j = k

TypesOK ==
    /\ now \in Nat
    /\ proposals \in Seq(Proposal)
    /\ inFlight \in [Actions -> Nat]

ApprovalsOK == \A id \in Ids : NoRepeats(proposals[id].approved)

\* The index of proposals in flight knows every live proposal: without it
\* OneLiveProposal is not inductive, since propose looks only at the index.
IndexOK ==
    \A id \in Ids : Live(proposals[id]) => inFlight[proposals[id].action] = id

RotationOK == rotation # None => rotation.at = scheduledAt + Timelock

MInv == TypesOK /\ ApprovalsOK /\ IndexOK /\ RotationOK

-----------------------------------------------------------------------------

\* A list without repetitions has as many members as entries.
LEMMA CountDistinct ==
    ASSUME NEW S, NEW s \in Seq(S), NoRepeats(s)
    PROVE  Cardinality(Range(s)) = Len(s)
<1>1. Len(s) \in Nat /\ DOMAIN s = 1..Len(s)
  OBVIOUS
<1>2. s \in [1..Len(s) -> Range(s)]
  BY <1>1 DEF Range
<1>3. /\ \A a, b \in 1..Len(s) : s[a] = s[b] => a = b
      /\ \A t \in Range(s) : \E a \in 1..Len(s) : s[a] = t
  BY <1>1, Zenon DEF NoRepeats, Range
<1>4. s \in Bijection(1..Len(s), Range(s))
  BY <1>2, <1>3, Zenon DEF Bijection, Injection, Surjection, IsInjective
<1>5. ExistsBijection(1..Len(s), Range(s))
  BY <1>4, Zenon DEF ExistsBijection
<1> QED
  BY <1>1, <1>5, FS_CountingElements, Zenon

\* What an approval leaves alone, and that it does not repeat a signer.
LEMMA SignKeeps ==
    ASSUME MInv, NEW s \in Addresses, NEW id \in Ids, Sign(s, id)
    PROVE  MInv'
<1> DEFINE p == proposals[id]
           q == [p EXCEPT !.approved = Append(@, s)]
<1>1. /\ proposals \in Seq(Proposal) /\ p \in Proposal /\ now \in Nat
      /\ Len(proposals) \in Nat /\ id \in 1..Len(proposals)
  BY DEF MInv, TypesOK, Ids
<1>2. /\ proposals' = [proposals EXCEPT ![id] = q]
      /\ s \notin Range(p.approved)
      /\ UNCHANGED <<config, inFlight, rotation, settings, now, scheduledAt>>
  BY Zenon DEF Sign, has_signed
<1>3. Append(p.approved, s) \in Seq(Addresses)
  BY <1>1 DEF Proposal
<1>4. /\ q \in Proposal /\ q.action = p.action /\ q.executed = p.executed
      /\ q.expires = p.expires /\ q.approved = Append(p.approved, s)
  BY <1>1, <1>3, Zenon DEF Proposal
<1>5. NoRepeats(q.approved)
  <2>1. p.approved \in Seq(Addresses) /\ NoRepeats(p.approved)
    BY <1>1, Zenon DEF MInv, ApprovalsOK, Proposal
  <2> DEFINE a == p.approved
  <2> HIDE DEF a
  <2>2. a \in Seq(Addresses) /\ NoRepeats(a) /\ s \notin Range(a)
    BY <2>1, <1>2, Zenon DEF a
  <2>3. NoRepeats(Append(a, s))
    BY <2>2 DEF NoRepeats, Range
  <2> QED BY <2>3, <1>4, Zenon DEF a
<1> HIDE DEF p, q
<1>6. /\ proposals' \in Seq(Proposal) /\ Len(proposals') = Len(proposals)
      /\ \A j \in 1..Len(proposals) : proposals'[j] = IF j = id THEN q ELSE proposals[j]
  BY <1>1, <1>2, <1>4
<1>7. TypesOK'
  BY <1>2, <1>6, Zenon DEF MInv, TypesOK
<1>8. ApprovalsOK'
  BY <1>5, <1>6, Zenon DEF MInv, ApprovalsOK, Ids
<1>9. IndexOK'
  BY <1>2, <1>4, <1>6 DEF MInv, IndexOK, Ids, Live, is_expired, p
<1>10. RotationOK'
  BY <1>2, Zenon DEF MInv, RotationOK
<1> QED
  BY <1>7, <1>8, <1>9, <1>10, Zenon DEF MInv

\* A new proposal is in flight for its action, where nothing live was.
LEMMA ProposeKeeps ==
    ASSUME MInv, NEW s \in Addresses, NEW a \in Actions, Propose(s, a)
    PROVE  MInv'
<1> DEFINE n == Len(proposals)
           q == [action |-> a, approved |-> <<s>>, executed |-> FALSE, expires |-> now + Window]
<1>1. proposals \in Seq(Proposal) /\ now \in Nat /\ n \in Nat /\ inFlight \in [Actions -> Nat]
  BY DEF MInv, TypesOK
<1>2. /\ ~ (inFlight[a] \in Ids /\ Live(proposals[inFlight[a]]))
      /\ proposals' = Append(proposals, q)
      /\ inFlight' = [inFlight EXCEPT ![a] = n + 1]
      /\ UNCHANGED <<config, rotation, settings, now, scheduledAt>>
  BY Zenon DEF Propose
<1>3. q \in Proposal /\ q.action = a /\ q.approved = <<s>>
  BY <1>1, MultisigAssumption DEF Proposal
<1>4. NoRepeats(q.approved)
  BY <1>3 DEF NoRepeats
<1> HIDE DEF q
<1>5. /\ proposals' \in Seq(Proposal) /\ Len(proposals') = n + 1
      /\ \A j \in 1..n : proposals'[j] = proposals[j]
      /\ proposals'[n + 1] = q
  BY <1>1, <1>2, <1>3
<1>6. TypesOK'
  BY <1>1, <1>2, <1>5 DEF TypesOK
<1>7. ApprovalsOK'
  <2>1. \A j \in 1..n : NoRepeats(proposals[j].approved)
    BY Zenon DEF MInv, ApprovalsOK, Ids
  <2>2. ASSUME NEW j \in 1..(n + 1) PROVE NoRepeats(proposals'[j].approved)
    <3>1. j \in 1..n \/ j = n + 1
      BY <1>1
    <3> QED BY <3>1, <2>1, <1>4, <1>5, Zenon
  <2> QED BY <2>2, <1>5, Zenon DEF ApprovalsOK, Ids, NoRepeats
<1>8. IndexOK'
  <2>1. SUFFICES ASSUME NEW id \in 1..(n + 1), ~ proposals'[id].executed,
                        ~ (now' >= proposals'[id].expires)
                 PROVE  inFlight'[proposals'[id].action] = id
    BY <1>5, Zenon DEF IndexOK, Ids, Live, is_expired
  <2>2. CASE id = n + 1
    BY <1>1, <1>2, <1>3, <1>5, <2>2, Zenon
  <2>3. CASE id \in 1..n
    <3>1. /\ proposals'[id] = proposals[id] /\ proposals[id] \in Proposal
          /\ Live(proposals[id])
      BY SMTT(40), <1>1, <1>2, <1>5, <2>1, <2>3 DEF Live, is_expired
    <3>2. inFlight[proposals[id].action] = id /\ proposals[id].action \in Actions
      BY <2>3, <3>1, Zenon DEF MInv, IndexOK, Ids, Proposal
    <3>3. proposals[id].action # a
      BY <1>2, <2>3, <3>1, <3>2, Zenon DEF Ids
    <3> QED BY <1>1, <1>2, <3>1, <3>2, <3>3, Zenon
  <2> QED BY <1>1, <2>2, <2>3
<1>9. RotationOK'
  BY <1>2, Zenon DEF MInv, RotationOK
<1> QED
  BY <1>6, <1>7, <1>8, <1>9, Zenon DEF MInv

\* Execution closes one proposal and takes its action out of the index.
LEMMA ExecuteKeeps ==
    ASSUME MInv, NEW s \in Addresses, NEW id \in Ids, ExecuteProposal(s, id)
    PROVE  MInv'
<1> DEFINE p == proposals[id]
           q == [p EXCEPT !.executed = TRUE]
<1>1. /\ proposals \in Seq(Proposal) /\ p \in Proposal /\ now \in Nat
      /\ inFlight \in [Actions -> Nat] /\ p.action \in Actions
      /\ Len(proposals) \in Nat /\ id \in 1..Len(proposals)
  <2>1. /\ proposals \in Seq(Proposal) /\ now \in Nat /\ inFlight \in [Actions -> Nat]
        /\ Len(proposals) \in Nat /\ id \in 1..Len(proposals)
    BY DEF MInv, TypesOK, Ids
  <2>2. p \in Proposal
    BY <2>1
  <2> QED BY <2>1, <2>2, Zenon DEF Proposal
<1>2. /\ Live(p) /\ now' = now
      /\ proposals' = [proposals EXCEPT ![id] = q]
      /\ inFlight' = [inFlight EXCEPT ![p.action] = 0]
      /\ ApplySetting(p.action) \/ UpdateMultisig(p.action) \/ schedule_rotation(p.action)
  BY Zenon DEF ExecuteProposal
<1>3. q \in Proposal /\ q.approved = p.approved /\ q.executed
  BY <1>1, Zenon DEF Proposal
<1> HIDE DEF p, q
<1>4. /\ proposals' \in Seq(Proposal) /\ Len(proposals') = Len(proposals)
      /\ \A j \in 1..Len(proposals) : proposals'[j] = IF j = id THEN q ELSE proposals[j]
  BY <1>1, <1>2, <1>3
<1>5. TypesOK'
  BY <1>1, <1>2, <1>4, Zenon DEF TypesOK
<1>6. ApprovalsOK'
  BY <1>3, <1>4, Zenon DEF MInv, ApprovalsOK, Ids, p
<1>7. IndexOK'
  <2>1. SUFFICES ASSUME NEW j \in 1..Len(proposals), ~ proposals'[j].executed,
                        ~ (now' >= proposals'[j].expires)
                 PROVE  inFlight'[proposals'[j].action] = j
    BY <1>4, Zenon DEF IndexOK, Ids, Live, is_expired
  <2>2. j # id
    BY <1>3, <1>4, <2>1, Zenon
  <2>3. proposals'[j] = proposals[j] /\ proposals[j] \in Proposal /\ Live(proposals[j])
    BY SMTT(40), <1>1, <1>2, <1>4, <2>1, <2>2 DEF Live, is_expired
  <2>4. /\ inFlight[proposals[j].action] = j /\ inFlight[p.action] = id
        /\ proposals[j].action \in Actions
    BY <1>1, <1>2, <2>3, Zenon DEF MInv, IndexOK, Ids, Proposal, p
  <2> QED BY <1>1, <1>2, <2>2, <2>3, <2>4, Zenon
<1>8. RotationOK'
  <2>1. CASE ApplySetting(p.action) \/ UpdateMultisig(p.action)
    BY <2>1, Zenon DEF ApplySetting, UpdateMultisig, MInv, RotationOK
  <2>2. CASE schedule_rotation(p.action)
    BY <1>1, <2>2, Zenon DEF schedule_rotation, RotationOK
  <2> QED BY <1>2, <2>1, <2>2, Zenon
<1> QED
  BY <1>5, <1>6, <1>7, <1>8, Zenon DEF MInv

\* Steps that leave the proposals alone; the clock can only end their lives.
LEMMA AsideKeeps ==
    ASSUME MInv, UNCHANGED <<proposals, inFlight>>, now' \in {now, now + 1},
           \/ rotation' = None
           \/ UNCHANGED <<rotation, scheduledAt>>
    PROVE  MInv'
<1>1. now \in Nat /\ \A id \in Ids : proposals[id].expires \in Nat
  <2>1. now \in Nat /\ \A id \in Ids : proposals[id] \in Proposal
    BY DEF MInv, TypesOK, Ids
  <2> QED BY <2>1, Zenon DEF Proposal
<1>2. TypesOK' /\ ApprovalsOK'
  BY <1>1 DEF MInv, TypesOK, ApprovalsOK, Ids
<1>3. \A id \in Ids : Live(proposals[id])' => Live(proposals[id])
  BY <1>1 DEF Live, is_expired
<1>4. IndexOK'
  BY <1>3, Zenon DEF MInv, IndexOK, Ids
<1>5. RotationOK'
  BY Zenon DEF MInv, RotationOK
<1> QED
  BY <1>2, <1>4, <1>5, Zenon DEF MInv

\* Before initialize there are no proposals, no rotation and no index to keep.
LEMMA MInit == Init => MInv
  BY DEF Init, MInv, TypesOK, ApprovalsOK, IndexOK, RotationOK, Ids

\* Every entry point of multisig.rs, one step of Next each, keeps MInv.
LEMMA MNext == MInv /\ [Next]_vars => MInv'
<1> SUFFICES ASSUME MInv, [Next]_vars PROVE MInv'
  BY Zenon
<1>1. ASSUME NEW c \in Configs, Initialize(c) PROVE MInv'
  BY <1>1, AsideKeeps, Zenon DEF Initialize
<1>2. ASSUME NEW s \in Addresses, FinalizeRotation(s) \/ CancelRotation(s) PROVE MInv'
  BY <1>2, AsideKeeps, Zenon DEF FinalizeRotation, CancelRotation
<1>3. CASE Tick \/ UNCHANGED vars
  BY <1>3, AsideKeeps, Zenon DEF Tick, vars
<1> QED
  BY <1>1, <1>2, <1>3, ProposeKeeps, SignKeeps, ExecuteKeeps, Zenon DEF Next

\* The inductive invariant holds in every reachable state.
THEOREM MInvHolds == Spec => []MInv
  BY MInit, MNext, PTL DEF Spec

-----------------------------------------------------------------------------

\* Two proposals for the same action are never both open to execution (propose).
THEOREM AlwaysOneLiveProposal == Spec => []OneLiveProposal
<1>1. MInv => OneLiveProposal
  BY Zenon DEF MInv, IndexOK, OneLiveProposal
<1> QED
  BY <1>1, MInvHolds, PTL

\* Every step of the multisig has the consent and the notice it needs.
LEMMA StepConsented ==
    ASSUME MInv, [Next]_vars
    PROVE  Consented
<1>1. /\ proposals \in Seq(Proposal) /\ now \in Nat /\ Len(proposals) \in Nat
      /\ \A id \in Ids : proposals[id] \in Proposal
  BY DEF MInv, TypesOK, Ids
<1>2. ASSUME NEW id \in Ids, Executed(id)
      PROVE  \E s \in Addresses : ExecuteProposal(s, id)
  <2>1. ASSUME NEW s \in Addresses, NEW a \in Actions, Propose(s, a) PROVE FALSE
    BY SMTT(40), <1>1, <1>2, <2>1 DEF Propose, Executed, Ids
  <2>2. ASSUME NEW s \in Addresses, NEW j \in Ids, Sign(s, j) PROVE FALSE
    <3>1. proposals' = [proposals EXCEPT ![j].approved = Append(@, s)]
      BY <2>2, Zenon DEF Sign
    <3>2. proposals'[id].executed = proposals[id].executed
      BY <1>1, <3>1 DEF Ids, Proposal
    <3> QED BY <1>2, <3>2, Zenon DEF Executed
  <2>3. ASSUME NEW s \in Addresses, NEW j \in Ids, ExecuteProposal(s, j) PROVE j = id
    <3>1. proposals' = [proposals EXCEPT ![j].executed = TRUE]
      BY <2>3, Zenon DEF ExecuteProposal
    <3> QED BY <1>1, <1>2, <3>1 DEF Executed, Ids, Proposal
  <2>4. proposals' # proposals
    BY <1>2, Zenon DEF Executed
  <2> QED BY <2>1, <2>2, <2>3, <2>4, Zenon
          DEF Next, vars, Initialize, FinalizeRotation, CancelRotation, Tick
<1>3. ASSUME NEW id \in Ids, Executed(id)
      PROVE  /\ Cardinality(Range(proposals[id].approved)) >= config.threshold
             /\ now < proposals[id].expires
  <2>1. /\ Len(proposals[id].approved) >= config.threshold
        /\ ~ (now >= proposals[id].expires)
    BY <1>2, <1>3, Zenon DEF ExecuteProposal, threshold_reached, Live, is_expired
  <2>2. /\ proposals[id].approved \in Seq(Addresses) /\ proposals[id].expires \in Nat
        /\ NoRepeats(proposals[id].approved)
    BY <1>1, Zenon DEF Proposal, MInv, ApprovalsOK
  <2>3. Cardinality(Range(proposals[id].approved)) = Len(proposals[id].approved)
    BY <2>2, CountDistinct, Zenon
  <2> QED BY SMTT(40), <1>1, <2>1, <2>2, <2>3
<1>4. ASSUME config'.signers # config.signers
      PROVE  \/ config.signers = << >>
             \/ \E id \in Ids : Executed(id) /\ proposals[id].action.kind = "UpdateMultisig"
             \/ rotation # None /\ now >= scheduledAt + Timelock
  <2>1. ASSUME NEW s \in Addresses, NEW id \in Ids, ExecuteProposal(s, id)
        PROVE  Executed(id) /\ proposals[id].action.kind = "UpdateMultisig"
    <3>1. /\ proposals' = [proposals EXCEPT ![id].executed = TRUE]
          /\ ~ proposals[id].executed
          /\ UpdateMultisig(proposals[id].action)
      BY <1>4, <2>1, Zenon DEF ExecuteProposal, Live, ApplySetting, schedule_rotation
    <3>2. proposals'[id].executed
      BY <1>1, <3>1 DEF Ids, Proposal
    <3> QED BY <3>1, <3>2, Zenon DEF Executed, UpdateMultisig
  <2>2. ASSUME NEW s \in Addresses, FinalizeRotation(s)
        PROVE  rotation # None /\ now >= scheduledAt + Timelock
    BY <2>2, Zenon DEF FinalizeRotation, MInv, RotationOK
  <2>3. ASSUME NEW c \in Configs, Initialize(c) PROVE config.signers = << >>
    BY <2>3, Zenon DEF Initialize
  <2>4. config' # config
    BY <1>4, Zenon
  <2> QED BY <2>1, <2>2, <2>3, <2>4, Zenon DEF Next, vars, Propose, Sign, CancelRotation, Tick
<1> QED BY <1>3, <1>4, Zenon DEF Consented

\* An action takes effect with as many different approvals as the threshold asks
\* for, in time; signers change only by an executed action or by a rotation that
\* was public for the whole timelock (execute, finalize_rotation).
THEOREM ConsentAlwaysEarned == Spec => ConsentEarned
  BY StepConsented, MInvHolds, PTL DEF Spec, ConsentEarned

-----------------------------------------------------------------------------
(* The admin's log.                                                         *)

Unlimited == {"pause", "unpause", "migrate", "rehearse_rollback"}

Entry == [seq : Nat, action : RateLimited \cup Unlimited, admin : Admins, ledger : Nat]

\* The ring buffer holds the last LogCapacity entries, each in the slot its number
\* gives; the rate limit records are at least as late as every logged call.
LogOK ==
    /\ now \in Nat
    /\ admin \in Admins
    /\ executed \in Seq(Entry)
    /\ count = Len(executed)
    /\ log = [s \in Slots |-> log[s]]
    /\ \A k \in 1..count : k > count - LogCapacity =>
          log[(k - 1) % LogCapacity] = executed[k]
    /\ lastCall \in [RateLimited -> Nat \cup {Never}]
    /\ \A k \in 1..count : executed[k].action \in RateLimited =>
          /\ lastCall[executed[k].action] \in Nat
          /\ lastCall[executed[k].action] >= executed[k].ledger

Spaced ==
    \A i, j \in 1..Len(executed) :
        i < j /\ executed[i].action = executed[j].action
          /\ executed[i].action \in RateLimited =>
            executed[j].ledger >= executed[i].ledger + Cooldown[executed[i].action]

AInv == LogOK /\ Spaced

\* The least of three natural numbers.
LEMMA LeastOfThree ==
    ASSUME NEW a \in Nat, NEW b \in Nat, NEW c \in Nat
    PROVE  /\ Min({a, b, c}) \in Nat
           /\ Min({a, b, c}) <= a /\ Min({a, b, c}) <= b /\ Min({a, b, c}) <= c
<1>1. \E x \in {a, b, c} : \A y \in {a, b, c} : x <= y
  <2>1. {a, b, c} \in SUBSET Nat /\ {a, b, c} # {}
    BY Zenon
  <2> QED BY <2>1, LeastNat, Zenon
<1>2. Min({a, b, c}) \in {a, b, c} /\ \A y \in {a, b, c} : Min({a, b, c}) <= y
  BY <1>1, Zenon DEF Min
<1> QED BY <1>2, Zenon

\* Division with remainder.
LEMMA Remainder ==
    ASSUME NEW a \in Nat, NEW c \in Nat \ {0}
    PROVE  /\ a % c \in 0..(c - 1)
           /\ a \div c \in Nat
           /\ a = c * (a \div c) + (a % c)
  OBVIOUS

\* Fewer than c steps never come back to the same slot of c.
LEMMA SlotsDiffer ==
    ASSUME NEW a \in Nat, NEW b \in Nat, NEW c \in Nat \ {0}, a < b, b < a + c
    PROVE  a % c # b % c
<1> DEFINE p == a \div c
           q == b \div c
           r == a % c
           s == b % c
<1>1. /\ p \in Nat /\ q \in Nat /\ r \in 0..(c - 1) /\ s \in 0..(c - 1)
      /\ a = c * p + r /\ b = c * q + s
  BY Remainder, ZenonT(60)
<1> HIDE DEF p, q, r, s
<1>2. SUFFICES ASSUME r = s PROVE FALSE
  BY Zenon DEF r, s
<1>3. b - a = c * (q - p)
  BY <1>1, <1>2
<1>4. CASE q <= p
  <2>1. c * (p - q) \in Nat
    BY <1>1, <1>4
  <2>2. c * (q - p) = - (c * (p - q))
    BY <1>1
  <2> QED BY <1>3, <2>1, <2>2
<1>5. CASE q >= p + 1
  <2>1. c * (q - p - 1) \in Nat
    BY <1>1, <1>5
  <2>2. c * (q - p) = c * (q - p - 1) + c
    BY <1>1
  <2> QED BY <1>3, <2>1, <2>2
<1> QED BY <1>1, <1>4, <1>5

\* A call that is logged: one more entry, written over the oldest.
LEMMA RecordKeeps ==
    ASSUME AInv, NEW f \in RateLimited \cup Unlimited, record_admin_action(f), now' = now, admin' \in Admins,
           IF f \in RateLimited THEN check_rate_limit(f) ELSE UNCHANGED lastCall
    PROVE  AInv'
<1> DEFINE e == [seq |-> count, action |-> f, admin |-> admin, ledger |-> now]
           n == count
<1>1. /\ now \in Nat /\ executed \in Seq(Entry) /\ n \in Nat /\ n = Len(executed)
      /\ lastCall \in [RateLimited -> Nat \cup {Never}] /\ admin \in Admins
      /\ LogCapacity \in Nat \ {0}
  BY AdminAssumption DEF AInv, LogOK
<1>2. /\ log' = [log EXCEPT ![n % LogCapacity] = e]
      /\ count' = n + 1
      /\ executed' = Append(executed, e)
  BY Zenon DEF record_admin_action
<1>3. e \in Entry /\ e.action = f /\ e.ledger = now
  BY <1>1, Zenon DEF Entry
<1> HIDE DEF e
<1>4. /\ executed' \in Seq(Entry) /\ Len(executed') = n + 1
      /\ \A k \in 1..n : executed'[k] = executed[k]
      /\ executed'[n + 1] = e
      /\ \A k \in 1..(n + 1) : k \in 1..n \/ k = n + 1
  BY <1>1, <1>2, <1>3
<1>5. \A k \in 1..n : executed[k] \in Entry
  BY <1>1
<1>6. \A k \in 1..n : executed[k].ledger \in Nat
  BY <1>5, Zenon DEF Entry
<1>7. lastCall' \in [RateLimited -> Nat \cup {Never}]
  BY <1>1, Zenon DEF check_rate_limit
<1>8. ASSUME f \in RateLimited
      PROVE  /\ lastCall' = [lastCall EXCEPT ![f] = now] /\ Cooldown[f] \in Nat
             /\ \A k \in 1..n : executed[k].action = f =>
                   /\ now >= executed[k].ledger + Cooldown[f]
                   /\ now >= executed[k].ledger
  <2>1. check_rate_limit(f) /\ Cooldown[f] \in Nat
    BY <1>8, AdminAssumption, Zenon
  <2>2. ASSUME NEW k \in 1..n, executed[k].action = f
        PROVE  /\ now >= executed[k].ledger + Cooldown[f]
               /\ now >= executed[k].ledger
    <3>1. lastCall[f] \in Nat /\ lastCall[f] >= executed[k].ledger
      BY <1>8, <2>2, Zenon DEF AInv, LogOK
    <3>2. now >= lastCall[f] + Cooldown[f]
      BY <2>1, <3>1 DEF check_rate_limit, Never
    <3> QED BY <1>1, <1>6, <2>1, <3>1, <3>2, SMTT(60)
  <2> QED BY <2>1, <2>2, Zenon DEF check_rate_limit
<1>9. log' = [s \in Slots |-> log'[s]]
  BY <1>2, Zenon DEF AInv, LogOK
<1>10. ASSUME NEW k \in 1..(n + 1), k > n + 1 - LogCapacity
       PROVE  log'[(k - 1) % LogCapacity] = executed'[k]
  <2>1. n % LogCapacity \in Slots
    BY <1>1, Remainder, ZenonT(60) DEF Slots
  <2>2. DOMAIN log = Slots
    BY Zenon DEF AInv, LogOK
  <2>3. CASE k = n + 1
    BY <1>1, <1>2, <1>4, <2>1, <2>2, <2>3
  <2>4. CASE k \in 1..n
    <3>1. k - 1 \in Nat /\ k - 1 < n /\ n < (k - 1) + LogCapacity
      BY <1>1, <1>10, <2>4, SMTT(60)
    <3>2. (k - 1) % LogCapacity # n % LogCapacity
      BY <1>1, <3>1, SlotsDiffer, Zenon
    <3>3. (k - 1) % LogCapacity \in Slots
      BY <1>1, <3>1, Remainder, ZenonT(60) DEF Slots
    <3>4. log'[(k - 1) % LogCapacity] = log[(k - 1) % LogCapacity]
      BY <1>2, <2>2, <3>2, <3>3, Zenon
    <3>5. k > n - LogCapacity
      BY <1>1, <1>10
    <3>6. log[(k - 1) % LogCapacity] = executed[k]
      BY <2>4, <3>5, Zenon DEF AInv, LogOK
    <3> QED BY <1>4, <2>4, <3>4, <3>6, Zenon
  <2> QED BY <1>4, <2>3, <2>4, Zenon
<1>11. ASSUME NEW k \in 1..(n + 1), executed'[k].action \in RateLimited
       PROVE  /\ lastCall'[executed'[k].action] \in Nat
              /\ lastCall'[executed'[k].action] >= executed'[k].ledger
  <2>1. CASE k = n + 1
    BY <1>1, <1>3, <1>4, <1>8, <1>11, <2>1
  <2>2. CASE k \in 1..n
    <3>1. executed'[k] = executed[k] /\ executed[k].ledger \in Nat
      BY <1>4, <1>6, <2>2, Zenon
    <3>2. /\ lastCall[executed[k].action] \in Nat
          /\ lastCall[executed[k].action] >= executed[k].ledger
      BY <1>1, <1>11, <2>2, <3>1, Zenon DEF AInv, LogOK
    <3>3. CASE executed[k].action = f
      BY <1>1, <1>8, <1>11, <2>2, <3>1, <3>3, Zenon
    <3>4. CASE executed[k].action # f
      <4>1. lastCall'[executed[k].action] = lastCall[executed[k].action]
        BY <1>1, <1>8, <1>11, <3>1, <3>4, Zenon
      <4> QED BY <3>1, <3>2, <4>1, Zenon
    <3> QED BY <3>3, <3>4, Zenon
  <2> QED BY <1>4, <2>1, <2>2, Zenon
<1>12. LogOK'
  <2>1. /\ now' \in Nat /\ count' = Len(executed') /\ count' = n + 1
        /\ executed' \in Seq(Entry)
    BY <1>1, <1>2, <1>4, Zenon
  <2>2. \A k \in 1..count' : k > count' - LogCapacity =>
           log'[(k - 1) % LogCapacity] = executed'[k]
    <3>1. SUFFICES ASSUME NEW k \in 1..count', k > count' - LogCapacity
                   PROVE  log'[(k - 1) % LogCapacity] = executed'[k]
      BY Zenon
    <3>2. k \in 1..(n + 1) /\ k > n + 1 - LogCapacity
      BY <1>1, <2>1, <3>1, SMTT(60)
    <3> QED BY <1>10, <3>2, Zenon
  <2>3. \A k \in 1..count' : executed'[k].action \in RateLimited =>
           /\ lastCall'[executed'[k].action] \in Nat
           /\ lastCall'[executed'[k].action] >= executed'[k].ledger
    BY <1>11, <2>1, Zenon
  <2>4. log' = [s \in Slots' |-> log'[s]]
    BY <1>9, Zenon DEF Slots
  <2> QED BY <1>7, <2>1, <2>2, <2>3, <2>4, Zenon DEF LogOK
<1>13. Spaced'
  <2>1. SUFFICES ASSUME NEW i \in 1..(n + 1), NEW j \in 1..(n + 1), i < j,
                        executed'[i].action = executed'[j].action,
                        executed'[i].action \in RateLimited
                 PROVE  executed'[j].ledger >= executed'[i].ledger + Cooldown[executed'[i].action]
    BY <1>4, Zenon DEF Spaced
  <2>2. i \in 1..n /\ executed'[i] = executed[i]
    BY <1>1, <1>4, <2>1, SMTT(60)
  <2>3. CASE j = n + 1
    BY <1>3, <1>4, <1>8, <2>1, <2>2, <2>3, Zenon
  <2>4. CASE j \in 1..n
    BY <1>1, <1>4, <2>1, <2>2, <2>4, Zenon DEF AInv, Spaced
  <2> QED BY <1>4, <2>3, <2>4, Zenon
<1> QED BY <1>12, <1>13, Zenon DEF AInv

\* A call that is rate limited and not logged, a step of the multisig, or time.
LEMMA UnloggedKeeps ==
    ASSUME AInv, UNCHANGED <<log, count, executed, admin>>, now' \in {now, now + 1},
           \/ UNCHANGED lastCall
           \/ \E f \in RateLimited : check_rate_limit(f)
    PROVE  AInv'
<1>1. now' \in Nat
  BY DEF AInv, LogOK
<1>2. /\ now \in Nat /\ lastCall \in [RateLimited -> Nat \cup {Never}]
      /\ executed \in Seq(Entry) /\ count = Len(executed)
  BY Zenon DEF AInv, LogOK
<1>3. \A k \in 1..count : executed[k] \in Entry
  BY <1>2
<1>4. \A k \in 1..count : executed[k].ledger \in Nat
  BY <1>3, Zenon DEF Entry
<1>5. /\ lastCall' \in [RateLimited -> Nat \cup {Never}]
      /\ \A f \in RateLimited : lastCall[f] \in Nat =>
            lastCall'[f] \in Nat /\ lastCall'[f] >= lastCall[f]
  <2>1. CASE UNCHANGED lastCall
    BY <1>2, <2>1
  <2>2. ASSUME NEW f \in RateLimited, check_rate_limit(f)
        PROVE  /\ lastCall' \in [RateLimited -> Nat \cup {Never}]
               /\ \A g \in RateLimited : lastCall[g] \in Nat =>
                     lastCall'[g] \in Nat /\ lastCall'[g] >= lastCall[g]
    <3>1. lastCall' = [lastCall EXCEPT ![f] = now] /\ Cooldown[f] \in Nat
      BY <2>2, AdminAssumption, Zenon DEF check_rate_limit
    <3>2. lastCall[f] \in Nat => now >= lastCall[f]
      BY <1>2, <2>2, <3>1 DEF check_rate_limit, Never
    <3> QED BY <1>2, <3>1, <3>2
  <2> QED BY <2>1, <2>2, Zenon
<1>6. ASSUME NEW k \in 1..count, executed[k].action \in RateLimited
      PROVE  /\ lastCall'[executed[k].action] \in Nat
             /\ lastCall'[executed[k].action] >= executed[k].ledger
  <2>1. /\ lastCall[executed[k].action] \in Nat
        /\ lastCall[executed[k].action] >= executed[k].ledger
    BY <1>6, Zenon DEF AInv, LogOK
  <2>2. /\ lastCall'[executed[k].action] \in Nat
        /\ lastCall'[executed[k].action] >= lastCall[executed[k].action]
    BY <1>5, <1>6, <2>1, Zenon
  <2> QED BY <1>4, <2>1, <2>2
<1>7. LogOK'
  BY <1>1, <1>5, <1>6, Zenon DEF AInv, LogOK
<1>8. Spaced'
  BY Zenon DEF AInv, Spaced
<1> QED BY <1>7, <1>8, Zenon DEF AInv

\* initialize leaves an empty log and no cooldown running.
LEMMA AInit == AdminInit => AInv
<1> SUFFICES ASSUME AdminInit PROVE AInv
  BY Zenon
<1>1. lastCall \in [RateLimited -> Nat \cup {Never}]
  BY AdminAssumption, Zenon DEF AdminInit
<1> QED BY <1>1 DEF AdminInit, Init, AInv, LogOK, Spaced, Slots

\* Every step of the admin or of the multisig is one of the two kinds above.
LEMMA ANext == AInv /\ [AdminNext]_allVars => AInv'
<1> SUFFICES ASSUME AInv, [AdminNext]_allVars PROVE AInv'
  BY Zenon
<1>0. admin \in Admins
  BY Zenon DEF AInv, LogOK
<1>1. ASSUME NEW f \in RateLimited, Limited(f), now' = now, admin' \in Admins PROVE AInv'
  BY <1>1, RecordKeeps, Zenon DEF Limited
<1>2. ASSUME NEW f \in RateLimited, Quiet(f), UNCHANGED <<now, admin>> PROVE AInv'
  BY <1>2, UnloggedKeeps, Zenon DEF Quiet
<1>3. ASSUME NEW f \in Unlimited, record_admin_action(f), UNCHANGED <<now, admin, lastCall>>
      PROVE  AInv'
  <2>1. f \notin RateLimited
    BY Zenon DEF RateLimited, Unlimited
  <2> QED BY <1>0, <1>3, <2>1, RecordKeeps, Zenon
<1>4. ASSUME NEW a \in Admins, SetAdmin(a) PROVE AInv'
  BY <1>1, <1>4, Zenon DEF SetAdmin, multisigOnly, RateLimited
<1>5. CASE Routine
  BY <1>0, <1>1, <1>5, Zenon DEF Routine, UpdateFeeRate, UpdateMaxDiscount, SetDistributionContract,
     SetPriceOracle, SetMaxOracleAge, SetInsurancePool, UpdateFeeTiers, Store, multisigOnly,
     register, RateLimited
<1>6. CASE TokenStep
  BY <1>0, <1>1, <1>6, Zenon
     DEF TokenStep, RemoveToken, AddToken, CorrectTokenDecimals, multisigOnly,
     register, RateLimited
<1>7. CASE Upgrade
  BY <1>0, <1>1, <1>7, Zenon DEF Upgrade, multisigOnly, register, RateLimited
<1>8. CASE Pause \/ Unpause \/ Migrate \/ RehearseRollback
  <2>1. /\ "pause" \in Unlimited /\ "unpause" \in Unlimited /\ "migrate" \in Unlimited
        /\ "rehearse_rollback" \in Unlimited
    BY Zenon DEF Unlimited
  <2>2. CASE Pause \/ Unpause
    BY <1>3, <2>1, <2>2, Zenon DEF Pause, Unpause, multisigOnly, register
  <2>3. CASE Migrate \/ RehearseRollback
    BY <1>3, <2>1, <2>3, Zenon DEF Migrate, RehearseRollback, multisigOnly, register
  <2> QED BY <1>8, <2>2, <2>3, Zenon
<1>9. CASE Unrecorded
  <2>1. ASSUME NEW w \in Wirings, UpdateConfig(w) PROVE AInv'
    BY <1>2, <2>1, Zenon DEF UpdateConfig, multisigOnly, RateLimited
  <2>2. CASE SetMaxInvoiceAmount("set") \/ SetTokenVolumeCap("set")
    BY <1>2, <2>2, Zenon
       DEF SetMaxInvoiceAmount, SetTokenVolumeCap, Store, multisigOnly, RateLimited
  <2> QED BY <1>9, <2>1, <2>2, Zenon DEF Unrecorded
<1>10. CASE (Next /\ UNCHANGED adminVars) \/ UNCHANGED allVars
  <2>1. UNCHANGED <<log, count, executed, admin, lastCall>>
    BY <1>10, Zenon DEF adminVars, allVars, register
  <2>2. now' \in {now, now + 1}
    BY <1>10, Zenon DEF Next, Initialize, Propose, Sign, ExecuteProposal, FinalizeRotation,
       CancelRotation, Tick, allVars, vars
  <2> QED BY <2>1, <2>2, UnloggedKeeps, Zenon
<1> QED
  BY <1>4, <1>5, <1>6, <1>7, <1>8, <1>9, <1>10, Zenon DEF AdminNext, AdminStep

\* The inductive invariant about the log holds in every reachable state.
THEOREM AInvHolds == AdminSpec => []AInv
  BY AInit, ANext, PTL DEF AdminSpec

\* The log answers with the latest actions, in order, however often it has wrapped,
\* and calls of a rate-limited entry point are its cooldown apart
\* (record_admin_action, get_recent_admin_actions, check_rate_limit).
THEOREM AuditTrailKept == AdminSpec => []AuditTrail
<1>1. AInv => AuditTrail
  <2> SUFFICES ASSUME AInv PROVE AuditTrail
    BY Zenon
  <2>1. /\ count = Len(executed) /\ count \in Nat /\ LogCapacity \in Nat \ {0}
        /\ DOMAIN Cooldown = RateLimited
    BY AdminAssumption, SMTT(60) DEF AInv, LogOK
  <2>2. ASSUME NEW limit \in 0..(LogCapacity + 1)
        PROVE  get_recent_admin_actions(limit) = Latest(Min({limit, LogCapacity, Len(executed)}))
    <3> DEFINE m == Min({limit, LogCapacity, count})
    <3>1. m \in Nat /\ m <= LogCapacity /\ m <= count
      <4>1. limit \in Nat /\ LogCapacity \in Nat
        BY <2>1, SMTT(60)
      <4> QED BY <2>1, <4>1, LeastOfThree, Zenon
    <3>2. /\ get_recent_admin_actions(limit) = [i \in 1..m |-> log[(count - i) % LogCapacity]]
          /\ Latest(Min({limit, LogCapacity, Len(executed)}))
               = [i \in 1..m |-> executed[count + 1 - i]]
      BY <2>1, Zenon DEF get_recent_admin_actions, Latest
    <3> HIDE DEF m
    <3>3. ASSUME NEW i \in 1..m PROVE log[(count - i) % LogCapacity] = executed[count + 1 - i]
      <4> DEFINE k == count + 1 - i
      <4>1. k \in 1..count /\ k > count - LogCapacity /\ k - 1 = count - i
        BY <2>1, <3>1
      <4> HIDE DEF k
      <4>2. log[(k - 1) % LogCapacity] = executed[k]
        BY <4>1, Zenon DEF AInv, LogOK
      <4> QED BY <4>1, <4>2, Zenon DEF k
    <3> QED BY <3>2, <3>3, Zenon
  <2> QED BY <2>1, <2>2, Zenon DEF AuditTrail, AInv, Spaced
<1> QED BY <1>1, AInvHolds, PTL

-----------------------------------------------------------------------------
(* The register of tokens.                                                  *)

Flags == {"yes", "no", "unset"}

\* The entries of the settings, whatever is in them.
Shaped(s) ==
    s = [paused |-> s.paused, pausedAt |-> s.pausedAt, feeRate |-> s.feeRate,
         maxDiscount |-> s.maxDiscount, approved |-> s.approved, list |-> s.list]

ListOK(flag, list) ==
    /\ flag \in [Tokens -> Flags]
    /\ list \in Seq(Tokens)
    /\ NoRepeats(list)
    /\ \A t \in Tokens : flag[t] = "yes" <=> t \in Range(list)

DigitsOK ==
    /\ decimals \in [Tokens -> Int]
    /\ \A t \in Tokens : settings.approved[t] = "yes" => decimals[t] # NoDigits

RInv == Shaped(settings) /\ ListOK(settings.approved, settings.list) /\ DigitsOK

\* A removed token stays removed unless this step is an add_token.
NoReturn ==
    \A t \in Tokens : settings.approved[t] = "no" =>
        \/ settings'.approved[t] = "no"
        \/ executed' # executed /\ executed'[Len(executed')].action = "add_token"

\* Calls that leave the flags and the list alone, and forget no decimals.
LEMMA OtherKeeps ==
    ASSUME RInv, Shaped(settings'),
           settings'.approved = settings.approved, settings'.list = settings.list,
           decimals' \in [Tokens -> Int],
           \A t \in Tokens : decimals[t] # NoDigits => decimals'[t] # NoDigits
    PROVE  RInv' /\ NoReturn
<1>1. ListOK(settings.approved, settings.list)'
  BY Zenon DEF RInv
<1>2. DigitsOK'
  BY Zenon DEF RInv, DigitsOK
<1> QED BY <1>1, <1>2, Zenon DEF RInv, NoReturn

\* remove_token, whoever calls it and whatever address it is given.
LEMMA RemoveKeeps ==
    ASSUME RInv, NEW x, remove_token(x), decimals' = decimals
    PROVE  RInv' /\ NoReturn
<1> DEFINE flag == [settings.approved EXCEPT ![x] = "no"]
           list == Without(settings.list, x)
<1>1. Shaped(settings') /\ settings'.approved = flag /\ settings'.list = list
  BY Zenon DEF RInv, Shaped, remove_token
<1>2. /\ settings.approved \in [Tokens -> Flags] /\ settings.list \in Seq(Tokens)
      /\ NoRepeats(settings.list)
      /\ \A t \in Tokens : settings.approved[t] = "yes" <=> t \in Range(settings.list)
  BY Zenon DEF RInv, ListOK
<1>3. /\ flag \in [Tokens -> Flags]
      /\ \A t \in Tokens : flag[t] = IF t = x THEN "no" ELSE settings.approved[t]
  BY <1>2, Zenon DEF Flags
<1>4. /\ list \in Seq(Tokens) /\ NoRepeats(list)
      /\ \A t : t \in Range(list) <=> t \in Range(settings.list) /\ t # x
  <2>1. /\ list \in Seq(Tokens) /\ NoRepeats(list)
        /\ \A y : (\E j \in 1..Len(list) : list[j] = y) <=>
                   (\E k \in 1..Len(settings.list) : settings.list[k] = y) /\ y # x
    BY <1>2, WithoutDrops, ZenonT(60) DEF NoRepeats
  <2> HIDE DEF list
  <2>2. \A y : y \in Range(list) <=> \E j \in 1..Len(list) : list[j] = y
    BY <2>1 DEF Range
  <2>3. \A y : y \in Range(settings.list) <=>
                   \E k \in 1..Len(settings.list) : settings.list[k] = y
    BY <1>2 DEF Range
  <2> QED  BY <2>1, <2>2, <2>3, Zenon
<1> HIDE DEF flag, list
<1>5. ListOK(flag, list)
  BY <1>2, <1>3, <1>4, Zenon DEF ListOK
<1>6. DigitsOK'
  BY <1>1, <1>3, Zenon DEF RInv, DigitsOK
<1>7. NoReturn
  BY <1>1, <1>3, Zenon DEF NoReturn
<1> QED BY <1>1, <1>5, <1>6, <1>7, Zenon DEF RInv

\* add_token: the flag, the list and the decimals together.
LEMMA AddKeeps ==
    ASSUME RInv, AInv, NEW t \in Tokens, NEW d \in {6, 7}, AddToken(t, d)
    PROVE  RInv' /\ NoReturn
<1> DEFINE flag == [settings.approved EXCEPT ![t] = "yes"]
           old  == settings.list
           list == IF t \in Range(old) THEN old ELSE Append(old, t)
           e    == [seq |-> count, action |-> "add_token", admin |-> admin, ledger |-> now]
<1>1. Shaped(settings') /\ settings'.approved = flag /\ settings'.list = list
  BY ZenonT(60) DEF RInv, Shaped, AddToken
<1>2. /\ settings.approved \in [Tokens -> Flags] /\ old \in Seq(Tokens)
      /\ NoRepeats(old)
      /\ \A u \in Tokens : settings.approved[u] = "yes" <=> u \in Range(old)
  BY Zenon DEF RInv, ListOK
<1>3. /\ flag \in [Tokens -> Flags]
      /\ \A u \in Tokens : flag[u] = IF u = t THEN "yes" ELSE settings.approved[u]
  BY <1>2, Zenon DEF Flags
<1>4. /\ list \in Seq(Tokens) /\ NoRepeats(list)
      /\ \A u \in Tokens : u \in Range(list) <=> u \in Range(old) \/ u = t
  <2>1. CASE t \in Range(old)
    BY <1>2, <2>1, Zenon
  <2>2. CASE t \notin Range(old)
    <3>1. list = Append(old, t)
      BY <2>2, Zenon
    <3> HIDE DEF list
    <3>2. /\ list \in Seq(Tokens) /\ Len(list) = Len(old) + 1 /\ Len(old) \in Nat
          /\ list[Len(old) + 1] = t
          /\ \A k \in 1..Len(old) : list[k] = old[k]
          /\ \A k \in 1..Len(list) : k \in 1..Len(old) \/ k = Len(old) + 1
      BY <1>2, <3>1
    <3>3. \A k \in 1..Len(old) : old[k] # t
      BY <2>2 DEF Range
    <3>4. NoRepeats(list)
      BY <1>2, <3>2, <3>3, Zenon DEF NoRepeats
    <3>5. \A u \in Tokens : u \in Range(list) <=> u \in Range(old) \/ u = t
      BY <3>2, SMTT(60) DEF Range
    <3> QED BY <3>2, <3>4, <3>5, Zenon
  <2> QED BY <2>1, <2>2, Zenon
<1> HIDE DEF flag, list, old
<1>5. ListOK(flag, list)
  BY <1>2, <1>3, <1>4, Zenon DEF ListOK
<1>6. DigitsOK'
  <2>1. decimals' = [decimals EXCEPT ![t] = d] /\ d \in Int /\ d # NoDigits
    BY DEF AddToken, NoDigits
  <2>2. decimals \in [Tokens -> Int]
        /\ \A u \in Tokens : settings.approved[u] = "yes" => decimals[u] # NoDigits
    BY Zenon DEF RInv, DigitsOK
  <2> QED BY <1>1, <1>3, <2>1, <2>2, Zenon DEF DigitsOK
<1>7. NoReturn
  <2>1. executed' = Append(executed, e) /\ executed \in Seq(Entry)
    BY Zenon DEF AddToken, Limited, record_admin_action, AInv, LogOK
  <2>2. e.action = "add_token"
    BY Zenon
  <2> HIDE DEF e
  <2>3. executed' # executed /\ executed'[Len(executed')] = e
    BY <2>1
  <2> QED BY <2>2, <2>3, Zenon DEF NoReturn
<1> QED BY <1>1, <1>5, <1>6, <1>7, Zenon DEF RInv

\* initialize approves, lists and gives decimals to exactly the bootstrap tokens.
LEMMA RInit == AdminInit => RInv
<1> SUFFICES ASSUME AdminInit PROVE RInv
  BY Zenon
<1> DEFINE flag == [t \in Tokens |-> IF t \in Range(Bootstrap) THEN "yes" ELSE "unset"]
<1>1. settings = InitialSettings
  BY Zenon DEF AdminInit, Init
<1>2. Shaped(settings) /\ settings.approved = flag /\ settings.list = Bootstrap
  BY <1>1 DEF InitialSettings, Shaped
<1>3. Bootstrap \in Seq(Tokens) /\ NoRepeats(Bootstrap)
  <2>1. Bootstrap \in Seq(Tokens) /\ IsInjective(Bootstrap)
    BY AdminAssumption, Zenon
  <2>2. DOMAIN Bootstrap = 1..Len(Bootstrap)
    BY <2>1
  <2> QED BY <2>1, <2>2, Zenon DEF IsInjective, NoRepeats
<1>4. ListOK(flag, Bootstrap)
  BY <1>3, Zenon DEF ListOK, Flags
<1>5. DigitsOK
  <2>1. decimals = [t \in Tokens |-> IF t \in Range(Bootstrap) THEN TokenDigits[t] ELSE NoDigits]
    BY Zenon DEF AdminInit
  <2>2. \A t \in Tokens : t \in Range(Bootstrap) => TokenDigits[t] \in Nat
    BY AdminAssumption, Zenon
  <2> QED BY <1>2, <2>1, <2>2, SMTT(60) DEF DigitsOK, NoDigits
<1> HIDE DEF flag
<1> QED BY <1>2, <1>4, <1>5, Zenon DEF RInv

\* What each step of the admin and of the signers does to the register.
LEMMA RNext == RInv /\ AInv /\ [AdminNext]_allVars => RInv' /\ NoReturn
<1> SUFFICES ASSUME RInv, AInv, [AdminNext]_allVars PROVE RInv' /\ NoReturn
  BY Zenon
<1>0. /\ Shaped(settings) /\ decimals \in [Tokens -> Int]
  BY Zenon DEF RInv, DigitsOK
<1>1. ASSUME UNCHANGED <<settings, decimals>> PROVE RInv' /\ NoReturn
  BY <1>0, <1>1, OtherKeeps, Zenon
<1>2. ASSUME NEW b \in BOOLEAN, set_paused(b), decimals' = decimals PROVE RInv' /\ NoReturn
  <2>1. /\ Shaped(settings') /\ settings'.approved = settings.approved
        /\ settings'.list = settings.list
    BY <1>0, <1>2, Zenon DEF Shaped, set_paused
  <2> QED BY <1>0, <1>2, <2>1, OtherKeeps, Zenon
<1>3. ASSUME NEW r, decimals' = decimals,
             \/ settings' = [settings EXCEPT !.feeRate = r]
             \/ settings' = [settings EXCEPT !.maxDiscount = r]
      PROVE  RInv' /\ NoReturn
  <2>1. /\ Shaped(settings') /\ settings'.approved = settings.approved
        /\ settings'.list = settings.list
    BY <1>0, <1>3, Zenon DEF Shaped
  <2> QED BY <1>0, <1>3, <2>1, OtherKeeps, Zenon
<1>4. ASSUME settings' = settings, decimals' \in [Tokens -> Int],
             \A t \in Tokens : decimals[t] # NoDigits => decimals'[t] # NoDigits
      PROVE  RInv' /\ NoReturn
  BY <1>0, <1>4, OtherKeeps, Zenon
<1>5. CASE Routine
  BY <1>1, <1>3, <1>5, Zenon DEF Routine, UpdateFeeRate, UpdateMaxDiscount, SetDistributionContract,
     SetPriceOracle, SetMaxOracleAge, SetInsurancePool, UpdateFeeTiers, Store, register
<1>6. ASSUME NEW t \in Tokens, NEW d \in {6, 7}, CorrectTokenDecimals(t, d)
      PROVE  RInv' /\ NoReturn
  <2>1. /\ settings' = settings /\ decimals' = [decimals EXCEPT ![t] = d]
        /\ d \in Int /\ d # NoDigits
    BY <1>6 DEF CorrectTokenDecimals, NoDigits
  <2> QED BY <1>0, <1>4, <2>1, Zenon
<1>7. ASSUME NEW t \in Tokens, RemoveToken(t) PROVE RInv' /\ NoReturn
  BY <1>7, RemoveKeeps, Zenon DEF RemoveToken, register
<1>8. CASE TokenStep
  BY <1>6, <1>7, <1>8, AddKeeps, Zenon DEF TokenStep
<1>9. CASE Migrate
  <2>1. /\ settings' = settings
        /\ \E old \in BOOLEAN : decimals' = [t \in Tokens |->
              IF old \/ decimals[t] # NoDigits THEN decimals[t]
              ELSE IF t \in {wired.usdc, wired.eurc} THEN 6
              ELSE IF t = wired.xlm THEN 7
              ELSE NoDigits]
    BY <1>9, Zenon DEF Migrate
  <2>2. decimals' \in [Tokens -> Int]
    BY <1>0, <2>1 DEF NoDigits
  <2>3. \A t \in Tokens : decimals[t] # NoDigits => decimals'[t] # NoDigits
    BY <2>1, Zenon
  <2> QED BY <1>4, <2>1, <2>2, <2>3, Zenon
<1>10. CASE Pause \/ Unpause
  BY <1>2, <1>10, Zenon DEF Pause, Unpause, register
<1>11. CASE (\E a \in Admins : SetAdmin(a)) \/ Upgrade \/ RehearseRollback
  BY <1>1, <1>11, Zenon DEF SetAdmin, Upgrade, RehearseRollback, register
<1>12. CASE Unrecorded
  BY <1>1, <1>12, Zenon DEF Unrecorded, UpdateConfig, SetMaxInvoiceAmount, SetTokenVolumeCap, Store
<1>13. ASSUME NEW s \in Addresses, NEW id \in Ids, ExecuteProposal(s, id), decimals' = decimals
       PROVE  RInv' /\ NoReturn
  <2> DEFINE a == proposals[id].action
  <2>1. CASE ApplySetting(a)
    BY <1>2, <1>3, <1>13, <2>1, RemoveKeeps, ZenonT(60) DEF ApplySetting
  <2>2. CASE UpdateMultisig(a) \/ schedule_rotation(a)
    BY <1>1, <1>13, <2>2, Zenon DEF UpdateMultisig, schedule_rotation
  <2> QED BY <1>13, <2>1, <2>2, Zenon DEF ExecuteProposal
<1>14. CASE (Next /\ UNCHANGED adminVars) \/ UNCHANGED allVars
  <2>1. decimals' = decimals
    BY <1>14, Zenon DEF adminVars, allVars, register
  <2> QED
    BY <1>1, <1>13, <1>14, <2>1, Zenon DEF Next, Initialize, Propose, Sign, FinalizeRotation,
       CancelRotation, Tick, allVars, vars
<1> QED
  BY <1>5, <1>8, <1>9, <1>10, <1>11, <1>12, <1>14, Zenon DEF AdminNext, AdminStep

\* The list, the flags and the decimals of the tokens stay in step, and a removed
\* token comes back by add_token only (add_token, remove_token, is_approved_token).
THEOREM TokensAlwaysInStep == AdminSpec => TokensInStep
<1>1. RInv => RegisterConsistent
  <2> SUFFICES ASSUME RInv PROVE RegisterConsistent
    BY Zenon
  <2>1. /\ settings.list \in Seq(Tokens) /\ NoRepeats(settings.list)
        /\ \A t \in Tokens : settings.approved[t] = "yes" <=> t \in Range(settings.list)
        /\ \A t \in Tokens : settings.approved[t] = "yes" => decimals[t] # NoDigits
    BY Zenon DEF RInv, ListOK, DigitsOK
  <2>2. IsInjective(settings.list)
    BY <2>1 DEF IsInjective, NoRepeats
  <2> QED BY <2>1, <2>2, Zenon DEF RegisterConsistent, is_approved_token
<1>2. RInv /\ AInv /\ [AdminNext]_allVars =>
        [/\ RegisterConsistent'
         /\ \A t \in Tokens :
              settings.approved[t] = "no" /\ (is_approved_token(t))' =>
                  executed' # executed /\ executed'[Len(executed')].action = "add_token"]_allVars
  <2> SUFFICES ASSUME RInv, AInv, [AdminNext]_allVars
               PROVE  /\ RegisterConsistent'
                      /\ \A t \in Tokens :
                           settings.approved[t] = "no" /\ (is_approved_token(t))' =>
                             executed' # executed /\ executed'[Len(executed')].action = "add_token"
    BY Zenon
  <2>1. RInv' /\ NoReturn
    BY RNext, Zenon
  <2>2. RegisterConsistent'
    BY <1>1, <2>1, PTL
  <2>3. ASSUME NEW t \in Tokens, settings.approved[t] = "no", (is_approved_token(t))'
        PROVE  executed' # executed /\ executed'[Len(executed')].action = "add_token"
    BY <2>1, <2>3, Zenon DEF NoReturn, is_approved_token
  <2> QED BY <2>2, <2>3, Zenon
<1>3. RInv /\ AInv /\ [AdminNext]_allVars => RInv'
  BY RNext, Zenon
<1> QED BY <1>2, <1>3, RInit, AInvHolds, PTL DEF AdminSpec, TokensInStep

-----------------------------------------------------------------------------
(* The signers beside the admin.                                            *)

\* The admin's entry points touch neither signers nor proposals, so beside them
\* the multisig keeps its invariant and its consent rule.
LEMMA SharedNext ==
    ASSUME MInv, [AdminNext]_allVars
    PROVE  MInv' /\ [Consented]_vars
<1>1. CASE AdminStep
  <2>1. UNCHANGED multisigOnly
    BY <1>1, Zenon DEF AdminStep, SetAdmin, Routine, UpdateFeeRate, UpdateMaxDiscount,
       SetDistributionContract, SetPriceOracle, SetMaxOracleAge, SetInsurancePool,
       UpdateFeeTiers, Store, TokenStep, AddToken, RemoveToken, CorrectTokenDecimals, Upgrade,
       Pause, Unpause, Migrate, RehearseRollback, Unrecorded, UpdateConfig,
       SetMaxInvoiceAmount, SetTokenVolumeCap
  <2>2. UNCHANGED <<config, proposals, inFlight, rotation, now, scheduledAt>>
    BY <2>1, Zenon DEF multisigOnly
  <2>3. MInv'
    BY <2>2, AsideKeeps, Zenon
  <2> QED BY <2>2, <2>3, Zenon DEF Consented, Executed, Ids
<1>2. CASE (Next /\ UNCHANGED adminVars) \/ UNCHANGED allVars
  <2>1. [Next]_vars
    BY <1>2, Zenon DEF allVars
  <2> QED BY <2>1, MNext, StepConsented, Zenon
<1> QED BY <1>1, <1>2, Zenon DEF AdminNext

\* What the signers are promised holds with the single admin at work on the same
\* contract: nothing the admin does executes a proposal, changes the signers, or
\* makes a second proposal for an action live.
THEOREM SignersUndisturbed == AdminSpec => []OneLiveProposal /\ ConsentEarned
<1>1. AdminInit => MInv
  BY MInit, Zenon DEF AdminInit
<1>2. MInv => OneLiveProposal
  BY Zenon DEF MInv, IndexOK, OneLiveProposal
<1> QED BY <1>1, <1>2, SharedNext, PTL DEF AdminSpec, ConsentEarned

-----------------------------------------------------------------------------
(* The LP priority queue.                                                  *)

\* FairWindow alone is not inductive: the window has to have started after the
\* last eviction, and both have to lie in the past.
TimesOK ==
    /\ clock \in Nat
    /\ openedAt \in Nat \cup {NoTime} /\ openedAt <= clock
    /\ resolvedAt \in Nat \cup {NoTime}
    /\ evictedAt \in Nat \cup {NoTime} /\ evictedAt <= clock
    /\ evictedAt # NoTime /\ openedAt # NoTime => openedAt >= evictedAt
    /\ resolution # NoOne => resolvedAt \in Nat /\ openedAt # NoTime

QInv == TimesOK /\ FairWindow

\* All that matters to QInv besides the queue's own operations.
LEMMA Elsewhere ==
    ASSUME QInv, UNCHANGED queueVars, clock' \in {clock, clock + 1}
    PROVE  QInv'
  BY DEF QInv, TimesOK, FairWindow, queueVars, NoTime

\* An invoice starts without a queue.
LEMMA QInit == QueueInit => QInv
  BY DEF QueueInit, QInv, TimesOK, FairWindow, NoTime

\* Every entry point of the queue, and what happens to the invoice around it,
\* keeps QInv.
LEMMA QNext == QInv /\ [QueueNext]_fundVars => QInv'
<1> SUFFICES ASSUME QInv, [QueueNext]_fundVars PROVE QInv'
  BY Zenon
<1> USE QueueAssumption
<1>1. ASSUME NEW lp \in LPs, JoinFundQueue(lp) PROVE QInv'
  BY <1>1 DEF JoinFundQueue, QInv, TimesOK, FairWindow, NoTime
<1>2. ASSUME NEW lp \in LPs, ResolveFundQueue(lp) PROVE QInv'
  BY <1>2 DEF ResolveFundQueue, QInv, TimesOK, FairWindow, NoTime
<1>3. CASE PurgeFundQueue
  BY <1>3 DEF PurgeFundQueue, clear_fund_queue_state, QInv, TimesOK, FairWindow, NoTime
<1>4. CASE EvictWinner
  <2>1. /\ openedAt' \in {NoTime, clock} /\ resolution' = NoOne /\ resolvedAt' = NoTime
        /\ evictedAt' = clock /\ clock' = clock
    BY <1>4, Zenon DEF EvictWinner, reopen_fund_queue
  <2> QED BY <2>1 DEF QInv, TimesOK, FairWindow, NoTime
<1>5. ASSUME \/ \E lp \in LPs : (\E full \in BOOLEAN : FundInvoice(lp, full)) \/ FundElsewhere(lp)
             \/ Close \/ Dispute
             \/ \E to \in {"Pending", "PartiallyFunded", "Funded", "Closed"} : EndDispute(to)
             \/ \E p \in BOOLEAN : SetPaused(p)
             \/ ClockTick
             \/ UNCHANGED fundVars
      PROVE  QInv'
  <2>1. UNCHANGED queueVars /\ clock' \in {clock, clock + 1}
    BY <1>5, Zenon DEF FundInvoice, FundElsewhere, Close, Dispute, EndDispute, SetPaused, ClockTick,
                fundVars, queueVars
  <2> QED BY <2>1, Elsewhere, Zenon
<1> QED
  BY <1>1, <1>2, <1>3, <1>4, <1>5, Zenon DEF QueueNext, RecoverFundQueue

\* The inductive invariant holds in every reachable state.
THEOREM QInvHolds == QueueSpec => []QInv
  BY QInit, QNext, PTL DEF QueueSpec

\* Everybody has had the whole delay to join before a winner is locked in, in
\* every round (resolve_fund_queue, reopen_fund_queue).
THEOREM WindowAlwaysFair == QueueSpec => []FairWindow
<1>1. QInv => FairWindow
  BY Zenon DEF QInv
<1> QED
  BY <1>1, QInvHolds, PTL

\* The winner has the best score of the moment, and keeps the exclusive right for
\* at least the delay while the invoice can be queued for (resolve_fund_queue,
\* recover_fund_queue).
THEOREM WinnerAlwaysRightful == QueueSpec => WinnerRightful
<1>1. QInv /\ [QueueNext]_fundVars =>
        [resolution' # resolution =>
           IF resolution = NoOne
           THEN \A a \in Queued : score[a] <= score[resolution']
           ELSE clock >= resolvedAt + Delay \/ ~ Queueable]_fundVars
  <2> SUFFICES ASSUME QInv, [QueueNext]_fundVars, resolution' # resolution
               PROVE  IF resolution = NoOne
                      THEN \A a \in Queued : score[a] <= score[resolution']
                      ELSE clock >= resolvedAt + Delay \/ ~ Queueable
    BY Zenon
  <2>1. \/ \E lp \in LPs : ResolveFundQueue(lp)
        \/ PurgeFundQueue
        \/ EvictWinner
    BY Zenon DEF QueueNext, fundVars, queueVars, RecoverFundQueue, JoinFundQueue, FundInvoice, FundElsewhere,
           Close, Dispute, EndDispute, SetPaused, ClockTick
  <2>2. ASSUME NEW lp \in LPs, ResolveFundQueue(lp)
        PROVE  resolution = NoOne /\ \A a \in Queued : score[a] <= score[resolution']
    BY <2>2, Zenon DEF ResolveFundQueue, Best
  <2>3. CASE PurgeFundQueue
    BY <2>3, Zenon DEF PurgeFundQueue, clear_fund_queue_state
  <2>4. CASE EvictWinner
    <3>1. /\ resolution # NoOne
          /\ clock >= resolvedAt + (IF Due - clock <= NearExpiry THEN Delay ELSE Grace)
      BY <2>4, Zenon DEF EvictWinner
    <3>2. /\ clock \in Nat /\ resolvedAt \in Nat
          /\ Delay \in Nat /\ Grace \in Nat /\ Delay <= Grace
      BY <3>1, QueueAssumption, Zenon DEF QInv, TimesOK
    <3>3. clock >= resolvedAt + Delay
      BY <3>1, <3>2
    <3> QED BY <3>1, <3>3, Zenon
  <2> QED BY <2>1, <2>2, <2>3, <2>4, Zenon
<1> QED
  BY <1>1, QInvHolds, PTL DEF QueueSpec, WinnerRightful

-----------------------------------------------------------------------------
(* The queue itself.                                                         *)

\* Sorted by the scores at joining time, and nobody twice.
Ranked(q) ==
    \A j, k \in 1..Len(q) : j < k => q[j].score >= q[k].score /\ q[j].lp # q[k].lp

\* join_fund_queue keeps the order and adds one entry.
LEMMA InsertSortedRanked ==
  ASSUME NEW q \in Seq(Request), Ranked(q), NEW r \in Request,
         \A k \in 1..Len(q) : q[k].lp # r.lp
  PROVE  /\ InsertSorted(q, r) \in Seq(Request)
         /\ Ranked(InsertSorted(q, r))
         /\ Len(InsertSorted(q, r)) = Len(q) + 1
         /\ \A x : (\E k \in 1..Len(q) : q[k].lp = x) =>
                     \E k \in 1..Len(InsertSorted(q, r)) : InsertSorted(q, r)[k].lp = x
<1> DEFINE n == Len(q)
           lower == {k \in 1..n : q[k].score < r.score}
           pos == IF lower = {} THEN n + 1 ELSE CHOOSE k \in lower : \A j \in lower : k <= j
           t == Inserted(q, pos, r)
<1>1. n \in Nat /\ \A k \in 1..n : q[k] \in Request
  BY SeqIsFunction, SeqEntry, Zenon
<1>2. r.score \in Int /\ \A k \in 1..n : q[k].score \in Int
  BY <1>1, QueueAssumption DEF Request
<1>3. /\ pos \in 1..(n+1)
      /\ \A k \in 1..n : k < pos => q[k].score >= r.score
      /\ \A k \in 1..n : k >= pos => r.score >= q[k].score
  <2>1. CASE lower = {}
    BY <1>1, <1>2, <2>1
  <2>2. CASE lower # {}
    <3>1. lower \in SUBSET Nat
      BY <1>1
    <3>2. \E k \in lower : \A j \in lower : k <= j
      <4> HIDE DEF lower
      <4> QED BY <2>2, <3>1, LeastNat, Zenon
    <3>3. pos \in lower /\ \A j \in lower : pos <= j
      BY <2>2, <3>2, Zenon
    <3> HIDE DEF pos
    <3>4. pos \in 1..n /\ q[pos].score < r.score
      BY <3>3, Zenon
    <3>5. ASSUME NEW k \in 1..n, k < pos PROVE q[k].score >= r.score
      BY <1>1, <1>2, <3>3, <3>4, <3>5
    <3>6. ASSUME NEW k \in 1..n, k >= pos PROVE r.score >= q[k].score
      <4>1. q[pos].score >= q[k].score
        <5>1. CASE k = pos
          BY <1>2, <5>1
        <5>2. CASE pos < k
          BY <3>4, <5>2, Zenon DEF Ranked
        <5> QED BY <1>1, <3>4, <3>6, <5>1, <5>2
      <4> QED BY <1>2, <3>4, <4>1
    <3> QED BY <1>1, <3>4, <3>5, <3>6
  <2> QED BY <2>1, <2>2, Zenon
<1> HIDE DEF pos
<1>4. /\ t \in Seq(Request) /\ Len(t) = n + 1
      /\ \A k \in 1..(n+1) : t[k] = IF k < pos THEN q[k] ELSE IF k = pos THEN r ELSE q[k-1]
  BY <1>3, InsertedPlaces
<1> HIDE DEF t
<1>5. ASSUME NEW j \in 1..(n+1), NEW k \in 1..(n+1), j < k
      PROVE  t[j].score >= t[k].score /\ t[j].lp # t[k].lp
  <2>1. CASE k < pos
    <3>1. t[j] = q[j] /\ t[k] = q[k] /\ j \in 1..n /\ k \in 1..n
      BY <1>1, <1>3, <1>4, <1>5, <2>1
    <3> QED BY <1>5, <3>1, Zenon DEF Ranked
  <2>2. CASE k = pos
    <3>1. t[j] = q[j] /\ t[k] = r /\ j \in 1..n
      BY <1>1, <1>3, <1>4, <1>5, <2>2
    <3> QED BY <1>3, <1>5, <2>2, <3>1, Zenon
  <2>3. CASE pos < k /\ j < pos
    <3>1. t[j] = q[j] /\ t[k] = q[k-1] /\ j \in 1..n /\ k-1 \in 1..n /\ j < k-1
      BY <1>1, <1>3, <1>4, <1>5, <2>3
    <3> QED BY <3>1, Zenon DEF Ranked
  <2>4. CASE pos < k /\ j = pos
    <3>1. t[j] = r /\ t[k] = q[k-1] /\ k-1 \in 1..n /\ k-1 >= pos
      BY <1>1, <1>3, <1>4, <1>5, <2>4
    <3> QED BY <1>3, <3>1, Zenon
  <2>5. CASE pos < k /\ pos < j
    <3>1. t[j] = q[j-1] /\ t[k] = q[k-1] /\ j-1 \in 1..n /\ k-1 \in 1..n /\ j-1 < k-1
      BY <1>1, <1>3, <1>4, <1>5, <2>5
    <3> QED BY <3>1, Zenon DEF Ranked
  <2> QED BY <1>1, <1>3, <2>1, <2>2, <2>3, <2>4, <2>5
<1>6. ASSUME NEW k \in 1..n PROVE \E j \in 1..(n+1) : t[j].lp = q[k].lp
  <2>1. CASE k < pos
    <3>1. k \in 1..(n+1) /\ t[k] = q[k]
      BY <1>1, <1>4, <2>1
    <3> QED BY <3>1, Zenon
  <2>2. CASE ~ (k < pos)
    <3>1. k+1 \in 1..(n+1) /\ t[k+1] = q[k]
      BY <1>1, <1>3, <1>4, <2>2
    <3> QED BY <3>1, Zenon
  <2> QED BY <2>1, <2>2, Zenon
<1>7. InsertSorted(q, r) = t
  BY Zenon DEF InsertSorted, Inserted, t, pos
<1> HIDE DEF lower
<1>8. Ranked(t)
  BY <1>4, <1>5, Zenon DEF Ranked
<1> QED BY <1>4, <1>6, <1>7, <1>8, Zenon

\* Evicting keeps the order of those who remain.
LEMMA KeepRanked ==
  ASSUME NEW q \in Seq(Request), Ranked(q), NEW P
  PROVE  Keep(q, P) \in Seq(Request) /\ Ranked(Keep(q, P)) /\ Len(Keep(q, P)) <= Len(q)
<1> DEFINE t == Keep(q, P)
<1>1. t \in Seq(Request)
  BY KeepPicks, Zenon
<1>2. PICK pos : Picks(t, pos, q, P, Len(q))
  BY KeepPicks, Zenon
<1> HIDE DEF t
<1>3. ASSUME NEW j \in 1..Len(t), NEW k \in 1..Len(t), j < k
      PROVE  t[j].score >= t[k].score /\ t[j].lp # t[k].lp
  <2>1. /\ pos[j] \in 1..Len(q) /\ pos[k] \in 1..Len(q) /\ pos[j] < pos[k]
        /\ t[j] = q[pos[j]] /\ t[k] = q[pos[k]]
    BY <1>2, <1>3, Zenon DEF Picks
  <2> QED BY <2>1, Zenon DEF Ranked
<1>4. Len(t) <= Len(q)
  BY <1>2, Zenon DEF Picks
<1>5. Ranked(t)
  BY <1>3, Zenon DEF Ranked
<1> QED BY <1>1, <1>4, <1>5, Zenon DEF t

\* QueueSound rests on the types of the queue and of the scores it records.
SoundInv ==
    /\ QInv
    /\ queue \in Seq(Request)
    /\ score \in [LPs -> 0..MaxScore]
    /\ resolution \in LPs \cup {NoOne}
    /\ Ranked(queue)
    /\ Len(queue) <= MaxQueue
    /\ queue # << >> <=> openedAt # NoTime
    /\ resolution # NoOne => resolution \in Queued

\* A deployed invoice's queue starts empty.
LEMMA SoundInit == QueueInit => SoundInv
<1> SUFFICES ASSUME QueueInit PROVE SoundInv
  BY Zenon
<1>1. queue = << >> /\ Len(queue) = 0 /\ openedAt = NoTime /\ resolution = NoOne
  BY Zenon DEF QueueInit
<1>2. score \in [LPs -> 0..MaxScore]
  BY QueueAssumption DEF QueueInit
<1> QED BY <1>1, <1>2, QInit, QueueAssumption DEF SoundInv, Ranked, Request

\* Every call of the queue, and everything that happens to the invoice, keeps
\* the queue sound.
LEMMA SoundNext == SoundInv /\ [QueueNext]_fundVars => SoundInv'
<1> SUFFICES ASSUME SoundInv, [QueueNext]_fundVars PROVE SoundInv'
  BY Zenon
<1>0. QInv'
  BY QNext, Zenon DEF SoundInv
<1>a. Len(queue) \in Nat /\ MaxQueue \in Nat /\ clock \in Nat
  BY SeqIsFunction, QueueAssumption, Zenon DEF SoundInv, QInv, TimesOK
<1>1. ASSUME NEW lp \in LPs, JoinFundQueue(lp) PROVE SoundInv'
  <2> DEFINE r == [lp |-> lp, score |-> score[lp]]
  <2>1. /\ Len(queue) < MaxQueue /\ lp \notin Queued
        /\ queue' = InsertSorted(queue, r)
        /\ openedAt' = IF openedAt = NoTime THEN clock ELSE openedAt
        /\ UNCHANGED <<score, resolution>> /\ resolution = NoOne
    BY <1>1, Zenon DEF JoinFundQueue
  <2>2. r \in Request /\ \A k \in 1..Len(queue) : queue[k].lp # r.lp
    BY <2>1, Zenon DEF Request, SoundInv, Queued
  <2> HIDE DEF r
  <2>3. queue' \in Seq(Request) /\ Ranked(queue)' /\ Len(queue') = Len(queue) + 1
    BY <2>1, <2>2, InsertSortedRanked, Zenon DEF SoundInv
  <2>4. Len(queue') <= MaxQueue /\ queue' # << >>
    BY <1>a, <2>1, <2>3
  <2>5. openedAt' # NoTime
    BY <1>a, <2>1 DEF NoTime
  <2> QED BY <1>0, <2>1, <2>3, <2>4, <2>5, Zenon DEF SoundInv
<1>2. ASSUME NEW lp \in LPs, ResolveFundQueue(lp) PROVE SoundInv'
  <2>1. lp \in Queued /\ resolution' = lp /\ UNCHANGED <<queue, score, openedAt>>
    BY <1>2, Zenon DEF ResolveFundQueue, Best
  <2> QED BY <1>0, <2>1, Zenon DEF SoundInv, Queued, Ranked
<1>3. CASE PurgeFundQueue
  <2>1. queue' = << >> /\ openedAt' = NoTime /\ resolution' = NoOne /\ score' = score
    BY <1>3, Zenon DEF PurgeFundQueue, clear_fund_queue_state
  <2>2. Len(queue') = 0 /\ queue' \in Seq(Request)
    BY <2>1
  <2> QED BY <1>0, <1>a, <2>1, <2>2 DEF SoundInv, Ranked
<1>4. CASE EvictWinner
  <2> DEFINE t == Keep(queue, {k \in 1..Len(queue) : queue[k].lp # resolution})
  <2>1. /\ queue' = t /\ openedAt' = (IF t = << >> THEN NoTime ELSE clock)
        /\ resolution' = NoOne /\ score' = score
    BY <1>4, Zenon DEF EvictWinner, reopen_fund_queue
  <2>2. t \in Seq(Request) /\ Ranked(t) /\ Len(t) <= Len(queue)
    BY KeepRanked, Zenon DEF SoundInv
  <2> HIDE DEF t
  <2>3. Len(t) \in Nat
    BY <2>2, SeqIsFunction, Zenon
  <2>4. Len(t) <= MaxQueue
    BY <1>a, <2>2, <2>3 DEF SoundInv
  <2>5. queue' # << >> <=> openedAt' # NoTime
    BY <1>a, <2>1 DEF NoTime
  <2> QED BY <1>0, <2>1, <2>2, <2>4, <2>5, Zenon DEF SoundInv, Ranked
<1>5. ASSUME NEW lp \in LPs PROVE Boosted(lp) \in [LPs -> 0..MaxScore]
  BY QueueAssumption DEF Boosted, SoundInv
<1>6. ASSUME UNCHANGED queueVars, score' \in [LPs -> 0..MaxScore] PROVE SoundInv'
  BY <1>0, <1>6, Zenon DEF SoundInv, queueVars, Queued, Ranked
<1>7. ASSUME \/ \E lp \in LPs : (\E full \in BOOLEAN : FundInvoice(lp, full)) \/ FundElsewhere(lp)
             \/ Close \/ Dispute
             \/ \E to \in {"Pending", "PartiallyFunded", "Funded", "Closed"} : EndDispute(to)
             \/ \E p \in BOOLEAN : SetPaused(p)
             \/ ClockTick
             \/ UNCHANGED fundVars
      PROVE  SoundInv'
  <2>1. UNCHANGED queueVars
    BY <1>7, Zenon DEF FundInvoice, FundElsewhere, Close, Dispute, EndDispute, SetPaused, ClockTick,
                fundVars, queueVars
  <2>2. score' = score \/ \E lp \in LPs : score' = Boosted(lp)
    BY <1>7, Zenon
       DEF FundInvoice, FundElsewhere, Close, Dispute, EndDispute, SetPaused, ClockTick, fundVars
  <2>3. score' \in [LPs -> 0..MaxScore]
    BY <1>5, <2>2, Zenon DEF SoundInv
  <2> QED BY <1>6, <2>1, <2>3, Zenon
<1> QED
  BY <1>1, <1>2, <1>3, <1>4, <1>7, Zenon DEF QueueNext, RecoverFundQueue

\* The queue stays sorted, without duplicates and within its cap, its window is
\* open exactly while somebody waits, and whoever is locked in is listed and
\* waited (join_fund_queue, resolve_fund_queue, recover_fund_queue), for any
\* number of LPs and any sequence of calls, disputes and pauses.
THEOREM QueueAlwaysSound == QueueSpec => []QueueSound
<1>1. SoundInv => QueueSound
  BY Zenon DEF SoundInv, QInv, QueueSound, Ranked
<1> QED
  BY <1>1, SoundInit, SoundNext, PTL DEF QueueSpec

-----------------------------------------------------------------------------
(* The distribution contract.                                                *)

\* What is not about claims: types, and the history variable above what each
\* participant has earned at the rates of the moment.  MintedWithinPeak alone is
\* not inductive: a claim raises minted to total_earned, so that has to be known
\* to lie below the peak.
DistType ==
    /\ volume \in [Participants -> Int]
    /\ settled \in [Participants -> Int]
    /\ onTime \in [Participants -> Int]
    /\ claimed \in [Participants -> Int]
    /\ minted \in [Participants -> Int]
    /\ rate \in [Kinds -> Int]
    /\ peak \in [Participants -> Int]

PeakCovers == \A a \in Participants : total_earned(a) <= peak[a]

DistInv == DistType /\ PeakCovers /\ MintedWithinPeak

-----------------------------------------------------------------------------

\* total_earned is an integer, whatever the sign of the rates.
LEMMA EarnedIsInt ==
    ASSUME NEW v \in Int, NEW s \in Int, NEW o \in Int, NEW r \in [Kinds -> Int]
    PROVE  EarnedOn(v, s, o, r) \in Int
<1>1. v \div Hundred \in Int
  BY DistributionAssumption
<1>2. /\ r["lp"] \in Int
      /\ r["freelancer"] \in Int
      /\ r["payer"] \in Int
  BY Zenon DEF Kinds
<1> DEFINE q == v \div Hundred
<1>3. /\ q * r["lp"] \in Int
      /\ s * r["freelancer"] \in Int
      /\ o * r["payer"] \in Int
  <2> q \in Int BY <1>1, Zenon
  <2> HIDE DEF q
  <2> QED BY <1>2
<1> QED BY <1>3 DEF EarnedOn

\* Every write of accruals or rates keeps the peak above total_earned and never
\* lowers it.
LEMMA PeakFollows ==
    ASSUME DistType, Observe,
           volume' \in [Participants -> Int], settled' \in [Participants -> Int],
           onTime' \in [Participants -> Int], rate' \in [Kinds -> Int]
    PROVE  /\ peak' \in [Participants -> Int]
           /\ PeakCovers'
           /\ \A a \in Participants : peak[a] <= peak'[a]
<1> DEFINE e(a) == EarnedOn(volume'[a], settled'[a], onTime'[a], rate')
<1>1. ASSUME NEW a \in Participants PROVE e(a) \in Int
  BY EarnedIsInt, Zenon
<1>2. \A a \in Participants : total_earned(a)' = e(a)
  BY Zenon DEF total_earned
<1>3. peak' = [a \in Participants |-> IF e(a) > peak[a] THEN e(a) ELSE peak[a]]
  BY Zenon DEF Observe
<1>4. \A a \in Participants : peak[a] \in Int
  BY Zenon DEF DistType
<1> HIDE DEF e
<1>5. \A a \in Participants : peak'[a] = IF e(a) > peak[a] THEN e(a) ELSE peak[a]
  BY <1>3, Zenon
<1>6. \A a \in Participants : /\ e(a) <= peak'[a]
                              /\ peak[a] <= peak'[a]
                              /\ peak'[a] \in Int
  BY <1>1, <1>4, <1>5
<1>7. peak' \in [Participants -> Int]
  BY <1>3, <1>1, <1>4, Zenon
<1>8. PeakCovers'
  BY <1>2, <1>6, Zenon DEF PeakCovers
<1> QED BY <1>6, <1>7, <1>8, Zenon

\* A step that leaves claims alone and does not lower the peak keeps the bound.
LEMMA ClaimsUntouched ==
    ASSUME DistInv, UNCHANGED <<claimed, minted>>, peak' \in [Participants -> Int],
           \A a \in Participants : peak[a] <= peak'[a]
    PROVE  MintedWithinPeak'
<1> SUFFICES ASSUME NEW a \in Participants
             PROVE  minted'[a] = claimed'[a] /\ 0 <= minted'[a] /\ minted'[a] <= peak'[a]
  BY Zenon DEF MintedWithinPeak
<1>1. /\ minted[a] \in Int /\ claimed[a] \in Int /\ peak[a] \in Int /\ peak'[a] \in Int
  BY Zenon DEF DistInv, DistType
<1>2. minted[a] = claimed[a] /\ 0 <= minted[a] /\ minted[a] <= peak[a]
  BY Zenon DEF DistInv, MintedWithinPeak
<1> QED BY <1>1, <1>2

\* accrue_lp raises the volume of the LP and pays nothing.
LEMMA AccrueLpKeeps ==
    ASSUME DistInv, NEW lp \in Participants, NEW amount \in Amounts, accrue_lp(lp, amount)
    PROVE  DistInv'
<1>1. volume' \in [Participants -> Int]
  BY DistributionAssumption DEF DistInv, DistType, accrue_lp
<1>2. UNCHANGED <<settled, onTime, claimed, minted, rate>> /\ Observe
  BY Zenon DEF accrue_lp
<1>3. /\ peak' \in [Participants -> Int] /\ PeakCovers'
      /\ \A a \in Participants : peak[a] <= peak'[a]
  BY <1>1, <1>2, PeakFollows, Zenon DEF DistInv, DistType
<1>4. MintedWithinPeak'
  BY <1>2, <1>3, ClaimsUntouched, Zenon
<1> QED BY <1>1, <1>2, <1>3, <1>4, Zenon DEF DistInv, DistType

\* accrue_settlement counts a settlement and pays nothing.
LEMMA AccrueSettlementKeeps ==
    ASSUME DistInv, NEW f \in Participants, NEW p \in Participants, NEW inTime \in BOOLEAN,
           accrue_settlement(f, p, inTime)
    PROVE  DistInv'
<1>1. settled' \in [Participants -> Int] /\ onTime' \in [Participants -> Int]
  BY DEF DistInv, DistType, accrue_settlement
<1>2. UNCHANGED <<volume, claimed, minted, rate>> /\ Observe
  BY Zenon DEF accrue_settlement
<1>3. /\ peak' \in [Participants -> Int] /\ PeakCovers'
      /\ \A a \in Participants : peak[a] <= peak'[a]
  BY <1>1, <1>2, PeakFollows, Zenon DEF DistInv, DistType
<1>4. MintedWithinPeak'
  BY <1>2, <1>3, ClaimsUntouched, Zenon
<1> QED BY <1>1, <1>2, <1>3, <1>4, Zenon DEF DistInv, DistType

\* set_reward_rate moves the worth of past activity, and the peak with it.
LEMMA SetRewardRateKeeps ==
    ASSUME DistInv, NEW k \in Kinds, NEW r \in Rates, set_reward_rate(k, r)
    PROVE  DistInv'
<1>1. rate' \in [Kinds -> Int]
  BY DistributionAssumption, Zenon DEF DistInv, DistType, set_reward_rate
<1>2. UNCHANGED <<volume, settled, onTime, claimed, minted>> /\ Observe
  BY Zenon DEF set_reward_rate
<1>3. /\ peak' \in [Participants -> Int] /\ PeakCovers'
      /\ \A a \in Participants : peak[a] <= peak'[a]
  BY <1>1, <1>2, PeakFollows, Zenon DEF DistInv, DistType
<1>4. MintedWithinPeak'
  BY <1>2, <1>3, ClaimsUntouched, Zenon
<1> QED BY <1>1, <1>2, <1>3, <1>4, Zenon DEF DistInv, DistType

\* A claim brings minted and claimed up to total_earned, which the peak covers.
LEMMA ClaimKeeps ==
    ASSUME DistInv, NEW a \in Participants, claim_tokens(a)
    PROVE  DistInv'
<1> DEFINE e == total_earned(a)
           c == e - claimed[a]
<1>1. e \in Int
  BY EarnedIsInt, Zenon DEF DistInv, DistType, total_earned
<1>2. /\ c > 0
      /\ minted' = [minted EXCEPT ![a] = @ + c]
      /\ claimed' = [claimed EXCEPT ![a] = @ + c]
      /\ UNCHANGED <<volume, settled, onTime, rate, peak>>
  BY Zenon DEF claim_tokens
<1>3. e <= peak[a]
  BY Zenon DEF DistInv, PeakCovers
<1>4. PeakCovers'
  <2>1. \A b \in Participants : total_earned(b)' = total_earned(b)
    BY <1>2, Zenon DEF total_earned, EarnedOn
  <2> QED BY <1>2, <2>1, Zenon DEF DistInv, PeakCovers
<1>5. \A b \in Participants :
        /\ minted[b] \in Int /\ claimed[b] \in Int /\ peak[b] \in Int
        /\ minted[b] = claimed[b] /\ 0 <= minted[b] /\ minted[b] <= peak[b]
  BY Zenon DEF DistInv, DistType, MintedWithinPeak
<1> HIDE DEF e
<1>6. c \in Int
  BY <1>1, <1>5
<1>7. DistType'
  BY <1>2, <1>5, <1>6 DEF DistInv, DistType
<1>8. MintedWithinPeak'
  <2> SUFFICES ASSUME NEW b \in Participants
               PROVE  minted'[b] = claimed'[b] /\ 0 <= minted'[b] /\ minted'[b] <= peak'[b]
    BY Zenon DEF MintedWithinPeak
  <2>1. CASE b = a
    <3>1. minted'[b] = minted[a] + c /\ claimed'[b] = claimed[a] + c
      BY <1>2, <2>1, Zenon DEF DistInv, DistType
    <3>2. claimed[a] + c = e
      BY <1>1, <1>5
    <3>3. minted[a] = claimed[a] /\ minted[a] \in Int /\ 0 <= minted[a]
      BY <1>5, Zenon
    <3>4. minted'[b] = e /\ claimed'[b] = e
      BY <3>1, <3>2, <3>3, Zenon
    <3>5. peak'[b] = peak[a] /\ c > 0
      BY <1>2, <2>1, Zenon
    <3> HIDE DEF c
    <3>6. 0 <= e
      BY <1>1, <1>6, <3>2, <3>3, <3>5
    <3> QED BY <1>3, <3>4, <3>5, <3>6, Zenon
  <2>2. CASE b # a
    <3>1. minted'[b] = minted[b] /\ claimed'[b] = claimed[b]
      BY <1>2, <2>2, Zenon DEF DistInv, DistType
    <3> QED BY <1>2, <1>5, <3>1, Zenon
  <2> QED BY <2>1, <2>2, Zenon
<1> QED BY <1>4, <1>7, <1>8, Zenon DEF DistInv

-----------------------------------------------------------------------------

\* Nobody has activity or claims before the first report.
LEMMA InitHolds == DistInit => DistInv
<1> SUFFICES ASSUME DistInit PROVE DistInv
  BY Zenon
<1>1. DistType
  BY DistributionAssumption DEF DistInit, DistType, Kinds
<1>2. \A a \in Participants : total_earned(a) = 0
  <2> SUFFICES ASSUME NEW a \in Participants PROVE total_earned(a) = 0
    BY Zenon
  <2>1. volume[a] = 0 /\ settled[a] = 0 /\ onTime[a] = 0
    BY Zenon DEF DistInit
  <2>2. 0 \div Hundred = 0
    BY DistributionAssumption
  <2>3. /\ rate["lp"] \in Int
        /\ rate["freelancer"] \in Int
        /\ rate["payer"] \in Int
    BY <1>1, Zenon DEF DistType, Kinds
  <2>4. /\ 0 * rate["lp"] = 0 /\ 0 * rate["freelancer"] = 0 /\ 0 * rate["payer"] = 0
    BY <2>3
  <2> QED BY <2>1, <2>2, <2>4 DEF total_earned, EarnedOn
<1>3. ASSUME NEW a \in Participants
      PROVE  peak[a] = 0 /\ minted[a] = 0 /\ claimed[a] = 0
  BY Zenon DEF DistInit
<1>4. PeakCovers
  <2> SUFFICES ASSUME NEW a \in Participants PROVE total_earned(a) <= peak[a]
    BY Zenon DEF PeakCovers
  <2>1. total_earned(a) = 0 /\ peak[a] = 0
    BY <1>2, <1>3, Zenon
  <2> QED BY <2>1
<1>5. MintedWithinPeak
  <2> SUFFICES ASSUME NEW a \in Participants
               PROVE  minted[a] = claimed[a] /\ 0 <= minted[a] /\ minted[a] <= peak[a]
    BY Zenon DEF MintedWithinPeak
  <2> QED BY <1>3
<1> QED BY <1>1, <1>4, <1>5, Zenon DEF DistInv

\* Every entry point of the distribution contract keeps DistInv.
LEMMA StepKeeps == DistInv /\ [DistNext]_distVars => DistInv'
<1> SUFFICES ASSUME DistInv, [DistNext]_distVars PROVE DistInv'
  BY Zenon
<1>1. ASSUME NEW lp \in Participants, NEW amount \in Amounts, accrue_lp(lp, amount)
      PROVE  DistInv'
  BY <1>1, AccrueLpKeeps, Zenon
<1>2. ASSUME NEW f \in Participants, NEW p \in Participants, NEW inTime \in BOOLEAN,
             accrue_settlement(f, p, inTime)
      PROVE  DistInv'
  BY <1>2, AccrueSettlementKeeps, Zenon
<1>3. ASSUME NEW a \in Participants, claim_tokens(a) PROVE DistInv'
  BY <1>3, ClaimKeeps, Zenon
<1>4. ASSUME NEW k \in Kinds, NEW r \in Rates, set_reward_rate(k, r) PROVE DistInv'
  BY <1>4, SetRewardRateKeeps, Zenon
<1>5. CASE UNCHANGED distVars
  BY <1>5, Zenon
     DEF DistInv, DistType, PeakCovers, MintedWithinPeak, total_earned, EarnedOn, distVars
<1> QED BY <1>1, <1>2, <1>3, <1>4, <1>5, Zenon DEF DistNext

\* Whatever reports, claims and rate changes come in whatever order, claim_tokens
\* mints what it records, and never more than the participant's activity was
\* worth at its best moment.
THEOREM MintingSafe == DistSpec => []MintedWithinPeak
<1>1. DistInv => MintedWithinPeak
  BY Zenon DEF DistInv
<1> QED BY <1>1, InitHolds, StepKeeps, PTL DEF DistSpec

=============================================================================
