----------------------- MODULE GovernanceIndexerProofs ----------------------
(* Proofs about the proposals of the governance contract, for any number of  *)
(* proposals, any ballots, deposits, delays and veto signers, and however    *)
(* often the settings change in between: every deposit leaves the contract   *)
(* once and to the right party, and every verdict is carried out once and    *)
(* not before its time, or vetoed with enough consent. And about event       *)
(* ingestion, for any processes, chain length, forks and faults: a process   *)
(* that runs holds the lease or is late renewing it, and the stored headers  *)
(* stay linked as long as no late process has met a successor.               *)
EXTENDS Governance, Indexer, ListTheorems, FiniteSetTheorems

Proposal == [kind : Kinds, status : {"Active", "Passed", "Executed", "Vetoed"},
             votes_for : Nat, votes_against : Nat, voting_end : Nat, eta_ledger : Nat,
             deposit : Nat, settled : BOOLEAN, voted : SUBSET Voters,
             receipts : SUBSET Signers, veto : {"Uninitiated", "Pending", "Executed"}]

History == [passedAt : Nat \cup {Never}, delay : Nat, vetoOn : BOOLEAN,
            paid : {"No", "Refund", "Forfeit"}, consents : SUBSET Signers, ballots : Nat]

\* What a proposal and its history say of each other.  The timelock and the
\* receipts are needed beyond DepositsSettled: they carry what held at the verdict
\* and at each approval to the call that executes or vetoes.
RecordOK(p, g) ==
    /\ p.settled <=> p.status # "Active"
    /\ p.deposit > 0 =>
           g.paid = (IF g.passedAt # Never THEN "Refund"
                     ELSE IF p.status = "Vetoed" THEN "Forfeit" ELSE "No")
    /\ p.status = "Active" => g.passedAt = Never
    /\ p.status \in {"Passed", "Executed"} => g.passedAt \in Nat
    /\ p.status = "Passed" => p.eta_ledger = g.passedAt + g.delay
    /\ p.receipts \subseteq g.consents

RecordsOK == \A id \in Ids : RecordOK(proposals[id], ghost[id])

\* What the contract still owes for a proposal.
Owed(p) == IF p.settled THEN 0 ELSE p.deposit

BalanceOK ==
    balance = SumTo([id \in Ids |-> Owed(proposals[id])], Len(proposals)) + locked

SettingsOK ==
    /\ settings \in [deposit : Nat, sink : BOOLEAN, delay : Nat,
                     quorum : Nat \cup {Missing}, vetoOn : BOOLEAN,
                     signers : SUBSET Signers, threshold : Nat]
    /\ IsFiniteSet(settings.signers)

TypesOK ==
    /\ proposals \in Seq(Proposal)
    /\ ghost \in Seq(History)
    /\ Len(ghost) = Len(proposals)
    /\ now \in Nat
    /\ locked \in Nat
    /\ failing \subseteq Kinds

\* What the other contracts have carried out, entry by entry.
CallsOK ==
    /\ applied \in Seq([id : Nat, at : Nat])
    /\ \A i, j \in 1..Len(applied) : applied[i].id = applied[j].id => i = j
    /\ \A i \in 1..Len(applied) :
          /\ applied[i].id \in Ids
          /\ proposals[applied[i].id].status = "Executed"
          /\ applied[i].at >= ghost[applied[i].id].passedAt + ghost[applied[i].id].delay
    /\ \A id \in Ids : proposals[id].status = "Executed" =>
          \E i \in 1..Len(applied) : applied[i].id = id

GInv == TypesOK /\ SettingsOK /\ RecordsOK /\ BalanceOK /\ CallsOK

-----------------------------------------------------------------------------

\* The invariant says what the runs check.
LEMMA GInvImplies == GInv => DepositsSettled /\ AppliedOnce /\ TypeOK
<1> SUFFICES ASSUME GInv PROVE DepositsSettled /\ AppliedOnce /\ TypeOK
  BY Zenon
<1>1. DepositsSettled
  <2>1. balance = SumTo([id \in Ids |-> IF proposals[id].settled THEN 0
                                      ELSE proposals[id].deposit], Len(proposals)) + locked
    BY Zenon DEF GInv, BalanceOK, Owed
  <2>2. ASSUME NEW id \in Ids
        PROVE  /\ RecordOK(proposals[id], ghost[id])
               /\ proposals[id].status \in {"Active", "Passed", "Executed", "Vetoed"}
    <3>1. proposals[id] \in Proposal
      BY DEF GInv, TypesOK, Ids
    <3> QED BY <3>1, Zenon DEF Proposal, GInv, RecordsOK
  <2>3. \A n \in Nat : n # Never
    BY DEF Never
  <2> QED BY <2>1, <2>2, <2>3, Zenon DEF RecordOK, DepositsSettled
<1>2. AppliedOnce
  <2>1. DOMAIN applied = 1..Len(applied)
    BY DEF GInv, CallsOK
  <2>2. \A i \in 1..Len(applied) : /\ applied[i].id \in Ids
                                   /\ proposals[applied[i].id].status = "Executed"
    BY Zenon DEF GInv, CallsOK
  <2>3. \A id \in Ids : proposals[id].status = "Executed" =>
           \E i \in 1..Len(applied) : applied[i].id = id
    BY Zenon DEF GInv, CallsOK
  <2>4. {applied[i].id : i \in DOMAIN applied} = {id \in Ids : proposals[id].status = "Executed"}
    <3> DEFINE Called == {applied[i].id : i \in 1..Len(applied)}
               Done == {id \in Ids : proposals[id].status = "Executed"}
    <3>1. \A x \in Called : x \in Done
      BY <2>2, Zenon
    <3>2. \A x \in Done : x \in Called
      BY <2>3, Zenon
    <3>3. Called = Done
      BY <3>1, <3>2, Zenon
    <3> QED BY <2>1, <3>3, Zenon
  <2>5. \A id \in Ids : proposals[id].status = "Executed" => ghost[id].passedAt \in Nat
    BY Zenon DEF GInv, RecordsOK, RecordOK
  <2>6. \A i \in 1..Len(applied) : ghost[applied[i].id].passedAt # Never
    BY <2>2, <2>5 DEF Never
  <2> QED BY <2>1, <2>4, <2>6, Zenon DEF GInv, CallsOK, AppliedOnce
<1>3. TypeOK
  <2>1. balance \in Nat
    <3>1. \A id \in Ids : proposals[id] \in Proposal
      BY DEF GInv, TypesOK, Ids
    <3>2. \A id \in Ids : Owed(proposals[id]) \in Nat
      BY <3>1, Zenon DEF Owed, Proposal
    <3>3. Len(proposals) \in Nat
      BY DEF GInv, TypesOK
    <3> DEFINE f == [id \in Ids |-> Owed(proposals[id])]
    <3>4. \A k \in 1..Len(proposals) : f[k] \in Nat
      BY <3>2, Zenon DEF Ids
    <3> HIDE DEF f
    <3>5. SumTo(f, Len(proposals)) \in Nat
      BY <3>3, <3>4, SumToType, Zenon
    <3> QED BY <3>5 DEF f, GInv, BalanceOK, TypesOK
  <2> QED BY <2>1, Zenon DEF GInv, TypesOK, SettingsOK, CallsOK, TypeOK, Proposal, History
<1> QED BY <1>1, <1>2, <1>3, Zenon

\* A call that rewrites proposal id and its history keeps the records sound, and
\* the balance moves by the change in what is owed for it.
LEMMA RewriteKeeps ==
    ASSUME GInv, NEW id \in Ids, NEW q \in Proposal, NEW h \in History, RecordOK(q, h),
           proposals' = [proposals EXCEPT ![id] = q],
           ghost' = [ghost EXCEPT ![id] = h],
           now' = now, failing' = failing, locked' \in Nat,
           balance' - locked' = balance - locked + Owed(q) - Owed(proposals[id]),
           balance' \in Int
    PROVE  TypesOK' /\ RecordsOK' /\ BalanceOK'
<1> DEFINE n == Len(proposals)
<1>1. /\ proposals \in Seq(Proposal) /\ ghost \in Seq(History) /\ Len(ghost) = n
      /\ n \in Nat /\ id \in 1..n /\ locked \in Nat
  BY DEF GInv, TypesOK, Ids
<1>2. /\ proposals' \in Seq(Proposal) /\ Len(proposals') = n
      /\ \A k \in 1..n : proposals'[k] = IF k = id THEN q ELSE proposals[k]
  BY <1>1
<1>3. /\ ghost' \in Seq(History) /\ Len(ghost') = n
      /\ \A k \in 1..n : ghost'[k] = IF k = id THEN h ELSE ghost[k]
  BY <1>1
<1>4. TypesOK'
  BY <1>2, <1>3, Zenon DEF GInv, TypesOK
<1>5. RecordsOK'
  <2>1. \A k \in 1..n : RecordOK(proposals[k], ghost[k])
    BY Zenon DEF GInv, RecordsOK, Ids
  <2>2. ASSUME NEW k \in 1..n PROVE RecordOK(proposals'[k], ghost'[k])
    <3>1. CASE k = id
      BY <3>1, <1>2, <1>3, Zenon
    <3>2. CASE k # id
      BY <3>2, <1>2, <1>3, <2>1, Zenon
    <3> QED BY <3>1, <3>2, Zenon
  <2>3. \A k \in 1..n : RecordOK(proposals[k], ghost[k])'
    BY <2>2, Zenon DEF RecordOK
  <2> QED BY <1>2, <2>3, Zenon DEF RecordsOK, Ids
<1>6. BalanceOK'
  <2> DEFINE f == [k \in 1..n |-> Owed(proposals[k])]
             g == [k \in 1..n |-> Owed(proposals'[k])]
             d == Owed(q) - Owed(proposals[id])
  <2>1. \A p \in Proposal : Owed(p) \in Nat
    BY Zenon DEF Owed, Proposal
  <2>2. /\ \A k \in 1..n : f[k] \in Int
        /\ \A k \in 1..n : k # id => g[k] = f[k]
        /\ d \in Int /\ g[id] = f[id] + d
    BY <1>1, <1>2, <2>1
  <2>3. f = [k \in Ids |-> Owed(proposals[k])] /\ g = [k \in Ids |-> Owed(proposals[k])]'
    BY <1>2, Zenon DEF Ids, Owed
  <2>4. balance' - locked' = balance - locked + d
    <3>1. Owed(q) \in Nat /\ Owed(proposals[id]) \in Nat
      BY <1>1, <2>1
    <3>2. balance \in Nat
      BY GInvImplies, Zenon DEF TypeOK
    <3> QED BY <1>1, <3>1, <3>2, Zenon
  <2> HIDE DEF f, g, d
  <2>5. SumTo(g, n) = SumTo(f, n) + d
    BY <1>1, <2>2, SumToChange, ZenonT(60)
  <2>6. SumTo(f, n) \in Int
    BY <1>1, <2>2, SumToType, Zenon
  <2>7. balance = SumTo(f, n) + locked
    BY <2>3, Zenon DEF GInv, BalanceOK
  <2>8. balance' = SumTo(g, n) + locked'
    BY <1>1, <2>2, <2>4, <2>5, <2>6, <2>7
  <2> QED BY <1>2, <2>3, <2>8, Zenon DEF BalanceOK
<1> QED BY <1>4, <1>5, <1>6, Zenon

\* A call that calls no other contract keeps the record of the calls made.
LEMMA CallsKept ==
    ASSUME GInv, TypesOK', applied' = applied, Len(proposals') >= Len(proposals),
           \A id \in Ids' : proposals'[id].status = "Executed" =>
               id \in Ids /\ proposals[id].status = "Executed",
           \A id \in Ids : proposals[id].status = "Executed" =>
               /\ proposals'[id].status = "Executed"
               /\ ghost'[id].passedAt = ghost[id].passedAt
               /\ ghost'[id].delay = ghost[id].delay
    PROVE  CallsOK'
<1>1. Len(proposals) \in Nat /\ Len(proposals') \in Nat
  BY DEF GInv, TypesOK
<1>2. \A id \in Ids : id \in Ids'
  BY <1>1 DEF Ids
<1>3. CallsOK
  BY Zenon DEF GInv
<1>4. ASSUME NEW i \in 1..Len(applied)
      PROVE  /\ applied[i].id \in Ids'
             /\ proposals'[applied[i].id].status = "Executed"
             /\ applied[i].at >= ghost'[applied[i].id].passedAt + ghost'[applied[i].id].delay
  BY <1>2, <1>3, Zenon DEF CallsOK
<1>5. \A id \in Ids' : proposals'[id].status = "Executed" =>
          \E i \in 1..Len(applied) : applied[i].id = id
  BY <1>3, Zenon DEF CallsOK
<1> QED BY <1>3, <1>4, <1>5, Zenon DEF CallsOK

\* create_proposal: one more proposal, Active, whose deposit comes in.
LEMMA CreateKeeps ==
    ASSUME GInv, NEW kind \in Kinds, CreateProposal(kind)
    PROVE  GInv'
<1> DEFINE n == Len(proposals)
           q == NewProposal(kind)
           h == NewGhost
<1>1. /\ proposals \in Seq(Proposal) /\ ghost \in Seq(History) /\ Len(ghost) = n
      /\ n \in Nat /\ locked \in Nat /\ now \in Nat
      /\ settings.deposit \in Nat
  BY DEF GInv, TypesOK, SettingsOK
<1>2. /\ proposals' = Append(proposals, q) /\ ghost' = Append(ghost, h)
      /\ balance' = balance + settings.deposit
      /\ UNCHANGED <<settings, failing, now, locked, applied>>
  BY Zenon DEF CreateProposal
<1>3. q \in Proposal /\ Owed(q) = settings.deposit /\ q.status = "Active"
  BY <1>1, GovernanceAssumption DEF NewProposal, Proposal, Owed
<1>4. h \in History
  BY Zenon DEF NewGhost, History, Never
<1>5. RecordOK(q, h)
  BY Zenon DEF RecordOK, NewProposal, NewGhost, Never
<1> HIDE DEF q, h
<1>6. /\ proposals' \in Seq(Proposal) /\ Len(proposals') = n + 1
      /\ \A k \in 1..n : proposals'[k] = proposals[k]
      /\ proposals'[n + 1] = q
  BY <1>1, <1>2, <1>3
<1>7. /\ ghost' \in Seq(History) /\ Len(ghost') = n + 1
      /\ \A k \in 1..n : ghost'[k] = ghost[k]
      /\ ghost'[n + 1] = h
  BY <1>1, <1>2, <1>4
<1>8. Ids = 1..n /\ Ids' = 1..(n + 1) /\ \A k \in 1..(n + 1) : k \in 1..n \/ k = n + 1
  BY <1>1, <1>6 DEF Ids
<1>9. TypesOK'
  BY <1>2, <1>6, <1>7, Zenon DEF GInv, TypesOK
<1>10. RecordsOK'
  <2>1. \A k \in 1..n : RecordOK(proposals[k], ghost[k])
    BY <1>8, Zenon DEF GInv, RecordsOK
  <2>2. \A k \in 1..(n + 1) : RecordOK(proposals'[k], ghost'[k])
    BY <1>5, <1>6, <1>7, <1>8, <2>1, Zenon
  <2>3. \A k \in 1..(n + 1) : RecordOK(proposals[k], ghost[k])'
    BY <2>2, Zenon DEF RecordOK
  <2> QED BY <1>8, <2>3, Zenon DEF RecordsOK
<1>11. BalanceOK'
  <2> DEFINE f == [k \in 1..n |-> Owed(proposals[k])]
             g == [k \in 1..(n + 1) |-> Owed(proposals'[k])]
  <2>1. /\ \A k \in 1..n : f[k] = g[k]
        /\ g[n + 1] = settings.deposit
    BY <1>1, <1>3, <1>6
  <2>2. f = [k \in Ids |-> Owed(proposals[k])] /\ g = [k \in Ids |-> Owed(proposals[k])]'
    BY <1>8, Zenon DEF Owed
  <2>3. \A p \in Proposal : Owed(p) \in Nat
    BY Zenon DEF Owed, Proposal
  <2>4. \A k \in 1..n : f[k] \in Int
    BY <1>1, <2>3
  <2> HIDE DEF f, g
  <2>5. SumTo(g, n + 1) = SumTo(g, n) + settings.deposit
    BY <1>1, <2>1, SumToEquations, Zenon
  <2>6. SumTo(f, n) = SumTo(g, n) /\ SumTo(f, n) \in Int
    BY <1>1, <2>1, <2>4, SumToEqual, SumToType, Zenon
  <2>7. balance = SumTo(f, n) + locked
    BY <2>2, Zenon DEF GInv, BalanceOK
  <2>8. balance' = SumTo(g, n + 1) + locked'
    BY <1>1, <1>2, <2>5, <2>6, <2>7
  <2> QED BY <1>6, <2>2, <2>8, Zenon DEF BalanceOK
<1>12. CallsOK'
  <2>1. \A id \in Ids' : proposals'[id].status = "Executed" =>
            id \in Ids /\ proposals[id].status = "Executed"
    BY <1>3, <1>6, <1>8, Zenon
  <2>2. \A id \in Ids : proposals[id].status = "Executed" =>
            /\ proposals'[id].status = "Executed"
            /\ ghost'[id].passedAt = ghost[id].passedAt
            /\ ghost'[id].delay = ghost[id].delay
    BY <1>6, <1>7, <1>8, Zenon
  <2>3. applied' = applied /\ Len(proposals') >= Len(proposals)
    BY <1>1, <1>2, <1>6
  <2> QED BY <1>9, <2>1, <2>2, <2>3, CallsKept, Zenon
<1>13. SettingsOK'
  BY <1>2, Zenon DEF GInv, SettingsOK
<1> QED BY <1>9, <1>10, <1>11, <1>12, <1>13, Zenon DEF GInv

\* A call that changes one proposal, without executing it or calling anybody,
\* keeps the invariant.
LEMMA UpdateKeeps ==
    ASSUME GInv, NEW id \in Ids, NEW q \in Proposal, NEW h \in History, RecordOK(q, h),
           proposals[id].status # "Executed", q.status # "Executed",
           proposals' = [proposals EXCEPT ![id] = q],
           ghost' = [ghost EXCEPT ![id] = h],
           UNCHANGED <<settings, failing, now, applied>>, locked' \in Nat,
           balance' - locked' = balance - locked + Owed(q) - Owed(proposals[id]),
           balance' \in Int
    PROVE  GInv'
<1>1. TypesOK' /\ RecordsOK' /\ BalanceOK'
  BY RewriteKeeps, Zenon
<1> DEFINE n == Len(proposals)
<1>2. /\ proposals \in Seq(Proposal) /\ ghost \in Seq(History) /\ Len(ghost) = n
      /\ n \in Nat /\ id \in 1..n
  BY DEF GInv, TypesOK, Ids
<1>3. /\ Len(proposals') = n
      /\ \A k \in 1..n : proposals'[k] = IF k = id THEN q ELSE proposals[k]
      /\ \A k \in 1..n : ghost'[k] = IF k = id THEN h ELSE ghost[k]
  BY <1>2
<1>4. CallsOK'
  <2>1. Ids = 1..n /\ Ids' = 1..n
    BY <1>3, Zenon DEF Ids
  <2>2. \A k \in Ids' : proposals'[k].status = "Executed" =>
            k \in Ids /\ proposals[k].status = "Executed"
    BY <1>3, <2>1, Zenon
  <2>3. \A k \in Ids : proposals[k].status = "Executed" =>
            /\ proposals'[k].status = "Executed"
            /\ ghost'[k].passedAt = ghost[k].passedAt
            /\ ghost'[k].delay = ghost[k].delay
    BY <1>3, <2>1, Zenon
  <2>4. applied' = applied /\ Len(proposals') >= Len(proposals)
    BY <1>2, <1>3
  <2> QED BY <1>1, <2>2, <2>3, <2>4, CallsKept, Zenon
<1>5. SettingsOK'
  BY Zenon DEF GInv, SettingsOK
<1> QED BY <1>1, <1>4, <1>5, Zenon DEF GInv

\* cast_vote: ballots and voters only.
LEMMA CastVoteKeeps ==
    ASSUME GInv, NEW voter \in Voters, NEW id \in Ids, NEW support \in BOOLEAN,
           NEW power \in Weights, CastVote(voter, id, support, power)
    PROVE  GInv'
<1> DEFINE p == proposals[id]
           g == ghost[id]
           q == [p EXCEPT !.votes_for = IF support THEN @ + power ELSE @,
                          !.votes_against = IF support THEN @ ELSE @ + power,
                          !.voted = @ \cup {voter}]
           h == [g EXCEPT !.ballots = @ + power]
<1>1. /\ proposals \in Seq(Proposal) /\ ghost \in Seq(History) /\ p \in Proposal
      /\ g \in History /\ id \in 1..Len(proposals) /\ id \in 1..Len(ghost)
      /\ RecordOK(p, g) /\ power \in Nat /\ balance \in Nat /\ locked \in Nat
  <2>1. balance \in Nat
    BY GInvImplies, Zenon DEF TypeOK
  <2> QED BY <2>1, GovernanceAssumption DEF GInv, TypesOK, RecordsOK, Ids
<1>2. /\ p.status = "Active"
      /\ proposals' = [proposals EXCEPT ![id] = q]
      /\ ghost' = [ghost EXCEPT ![id] = h]
      /\ UNCHANGED <<settings, balance, failing, now, locked, applied>>
  BY <1>1, Zenon DEF CastVote
<1>3. q \in Proposal
  <2> DEFINE for == IF support THEN p.votes_for + power ELSE p.votes_for
             against == IF support THEN p.votes_against ELSE p.votes_against + power
             voted == p.voted \cup {voter}
  <2>1. for \in Nat /\ against \in Nat
    <3>1. p.votes_for \in Nat /\ p.votes_against \in Nat
      BY <1>1, Zenon DEF Proposal
    <3>2. p.votes_for + power \in Nat /\ p.votes_against + power \in Nat
      BY <1>1, <3>1
    <3> QED BY <3>1, <3>2, Zenon
  <2>2. voted \in SUBSET Voters
    BY <1>1, Zenon DEF Proposal
  <2>3. q = [p EXCEPT !.votes_for = for, !.votes_against = against, !.voted = voted]
    BY <1>1, Zenon DEF Proposal
  <2> HIDE DEF for, against, voted
  <2> QED BY <1>1, <2>1, <2>2, <2>3, Zenon DEF Proposal
<1>4. h \in History
  <2>1. g.ballots + power \in Nat
    BY <1>1 DEF History
  <2> QED BY <1>1, <2>1, Zenon DEF History
<1>5. /\ q.status = p.status /\ q.settled = p.settled /\ q.deposit = p.deposit
      /\ q.eta_ledger = p.eta_ledger /\ q.receipts = p.receipts
  BY <1>1, Zenon DEF Proposal
<1>6. h.passedAt = g.passedAt /\ h.delay = g.delay /\ h.paid = g.paid /\ h.consents = g.consents
  BY <1>1, Zenon DEF History
<1>7. Owed(q) = Owed(p) /\ Owed(p) \in Nat
  BY <1>1, <1>5, Zenon DEF Owed, Proposal
<1> HIDE DEF q, h
<1>8. RecordOK(q, h)
  BY <1>1, <1>5, <1>6, Zenon DEF RecordOK
<1>9. balance' - locked' = balance - locked + Owed(q) - Owed(proposals[id])
  BY <1>1, <1>2, <1>7
<1>10. p.status # "Executed" /\ q.status # "Executed"
  BY <1>2, <1>5, Zenon
<1>11. balance' \in Int /\ locked' \in Nat
  BY <1>1, <1>2
<1> HIDE DEF p, g
<1> QED BY <1>2, <1>3, <1>4, <1>8, <1>9, <1>10, <1>11, UpdateKeeps, Zenon DEF p

\* The first execute_proposal after a won vote: the deposit goes back, and the
\* timelock starts with the delay in force.
LEMMA PassKeeps ==
    ASSUME GInv, NEW id \in Ids, Pass(id)
    PROVE  GInv'
<1> DEFINE p == proposals[id]
           g == ghost[id]
           q == [p EXCEPT !.status = "Passed", !.settled = TRUE,
                          !.eta_ledger = now + settings.delay]
           h == [g EXCEPT !.passedAt = now, !.delay = settings.delay,
                          !.vetoOn = settings.vetoOn,
                          !.paid = IF Settles(id) > 0 THEN "Refund" ELSE @]
<1>1. /\ proposals \in Seq(Proposal) /\ ghost \in Seq(History) /\ p \in Proposal
      /\ g \in History /\ id \in 1..Len(proposals) /\ id \in 1..Len(ghost)
      /\ RecordOK(p, g) /\ balance \in Nat /\ locked \in Nat /\ now \in Nat
      /\ settings.delay \in Nat /\ settings.vetoOn \in BOOLEAN
  <2>1. balance \in Nat
    BY GInvImplies, Zenon DEF TypeOK
  <2> QED BY <2>1 DEF GInv, TypesOK, SettingsOK, RecordsOK, Ids
<1>2. /\ p.status = "Active"
      /\ proposals' = [proposals EXCEPT ![id] = q]
      /\ ghost' = [ghost EXCEPT ![id] = h]
      /\ balance' = balance - Settles(id)
      /\ UNCHANGED <<settings, failing, now, locked, applied>>
  BY <1>1, Zenon DEF Pass
<1>3. q \in Proposal
  <2>1. now + settings.delay \in Nat
    BY <1>1
  <2> QED BY <1>1, <2>1, Zenon DEF Proposal
<1>4. h \in History
  BY <1>1, Zenon DEF History
<1>5. /\ q.status = "Passed" /\ q.settled = TRUE /\ q.deposit = p.deposit
      /\ q.eta_ledger = now + settings.delay /\ q.receipts = p.receipts
  BY <1>1, Zenon DEF Proposal
<1>6. /\ h.passedAt = now /\ h.delay = settings.delay /\ h.consents = g.consents
      /\ h.paid = IF Settles(id) > 0 THEN "Refund" ELSE g.paid
  BY <1>1, Zenon DEF History
<1>7. /\ p.settled = FALSE /\ p.deposit \in Nat /\ Settles(id) = p.deposit
      /\ Owed(q) = 0 /\ Owed(p) = p.deposit
  BY <1>1, <1>2, <1>5, Zenon DEF Owed, Proposal, RecordOK, Settles
<1> HIDE DEF q, h
<1>8. RecordOK(q, h)
  BY <1>1, <1>5, <1>6, <1>7 DEF RecordOK, Never
<1>9. balance' - locked' = balance - locked + Owed(q) - Owed(proposals[id])
  BY <1>1, <1>2, <1>7
<1>10. p.status # "Executed" /\ q.status # "Executed"
  BY <1>2, <1>5, Zenon
<1>11. balance' \in Int /\ locked' \in Nat
  BY <1>1, <1>2, <1>7
<1> HIDE DEF p, g
<1> QED BY <1>2, <1>3, <1>4, <1>8, <1>9, <1>10, <1>11, UpdateKeeps, Zenon DEF p

\* A veto approval below the threshold.
LEMMA ApproveVetoKeeps ==
    ASSUME GInv, NEW signer \in Signers, NEW id \in Ids, ApproveVeto(signer, id)
    PROVE  GInv'
<1> DEFINE p == proposals[id]
           g == ghost[id]
           q == [p EXCEPT !.receipts = @ \cup {signer}, !.veto = "Pending"]
           h == [g EXCEPT !.consents = @ \cup {signer}]
<1>1. /\ proposals \in Seq(Proposal) /\ ghost \in Seq(History) /\ p \in Proposal
      /\ g \in History /\ id \in 1..Len(proposals) /\ id \in 1..Len(ghost)
      /\ RecordOK(p, g) /\ balance \in Nat /\ locked \in Nat
  <2>1. balance \in Nat
    BY GInvImplies, Zenon DEF TypeOK
  <2> QED BY <2>1 DEF GInv, TypesOK, RecordsOK, Ids
<1>2. /\ p.status \in {"Active", "Passed"}
      /\ proposals' = [proposals EXCEPT ![id] = q]
      /\ ghost' = [ghost EXCEPT ![id] = h]
      /\ UNCHANGED <<settings, balance, failing, now, locked, applied>>
  BY <1>1, Zenon DEF ApproveVeto, Vetoable
<1>3. q \in Proposal
  <2>1. p.receipts \cup {signer} \in SUBSET Signers
    BY <1>1, Zenon DEF Proposal
  <2> QED BY <1>1, <2>1, Zenon DEF Proposal
<1>4. h \in History
  <2>1. g.consents \cup {signer} \in SUBSET Signers
    BY <1>1, Zenon DEF History
  <2> QED BY <1>1, <2>1, Zenon DEF History
<1>5. /\ q.status = p.status /\ q.settled = p.settled /\ q.deposit = p.deposit
      /\ q.eta_ledger = p.eta_ledger /\ q.receipts = p.receipts \cup {signer}
  BY <1>1, Zenon DEF Proposal
<1>6. /\ h.passedAt = g.passedAt /\ h.delay = g.delay /\ h.paid = g.paid
      /\ h.consents = g.consents \cup {signer}
  BY <1>1, Zenon DEF History
<1>7. Owed(q) = Owed(p) /\ Owed(p) \in Nat
  BY <1>1, <1>5, Zenon DEF Owed, Proposal
<1> HIDE DEF q, h
<1>8. RecordOK(q, h)
  BY <1>1, <1>5, <1>6, Zenon DEF RecordOK
<1>9. balance' - locked' = balance - locked + Owed(q) - Owed(proposals[id])
  BY <1>1, <1>2, <1>7
<1>10. p.status # "Executed" /\ q.status # "Executed"
  BY <1>2, <1>5, Zenon
<1>11. balance' \in Int /\ locked' \in Nat
  BY <1>1, <1>2
<1> HIDE DEF p, g
<1> QED BY <1>2, <1>3, <1>4, <1>8, <1>9, <1>10, <1>11, UpdateKeeps, Zenon DEF p

\* The approval that reaches the threshold: a deposit still held is forfeited, to
\* the sink or by staying in the contract.
LEMMA ExecuteVetoKeeps ==
    ASSUME GInv, NEW signer \in Signers, NEW id \in Ids, ExecuteVeto(signer, id)
    PROVE  GInv'
<1> DEFINE p == proposals[id]
           g == ghost[id]
           q == [p EXCEPT !.receipts = (@ \cup {signer}) \ veto_approvals(id, signer),
                          !.status = "Vetoed", !.veto = "Executed", !.settled = TRUE]
           h == [g EXCEPT !.consents = @ \cup {signer},
                          !.paid = IF Settles(id) > 0 THEN "Forfeit" ELSE @]
<1>1. /\ proposals \in Seq(Proposal) /\ ghost \in Seq(History) /\ p \in Proposal
      /\ g \in History /\ id \in 1..Len(proposals) /\ id \in 1..Len(ghost)
      /\ RecordOK(p, g) /\ balance \in Nat /\ locked \in Nat
      /\ settings.sink \in BOOLEAN
  <2>1. balance \in Nat
    BY GInvImplies, Zenon DEF TypeOK
  <2> QED BY <2>1 DEF GInv, TypesOK, SettingsOK, RecordsOK, Ids
<1>2. /\ p.status \in {"Active", "Passed"}
      /\ proposals' = [proposals EXCEPT ![id] = q]
      /\ ghost' = [ghost EXCEPT ![id] = h]
      /\ balance' = IF settings.sink THEN balance - Settles(id) ELSE balance
      /\ locked' = IF settings.sink THEN locked ELSE locked + Settles(id)
      /\ UNCHANGED <<settings, failing, now, applied>>
  BY <1>1, Zenon DEF ExecuteVeto, Vetoable
<1>3. q \in Proposal
  <2>1. (p.receipts \cup {signer}) \ veto_approvals(id, signer) \in SUBSET Signers
    BY <1>1, Zenon DEF Proposal
  <2> QED BY <1>1, <2>1, Zenon DEF Proposal
<1>4. h \in History
  <2>1. g.consents \cup {signer} \in SUBSET Signers
    BY <1>1, Zenon DEF History
  <2> QED BY <1>1, <2>1, Zenon DEF History
<1>5. /\ q.status = "Vetoed" /\ q.settled = TRUE /\ q.deposit = p.deposit
      /\ q.eta_ledger = p.eta_ledger /\ q.receipts \subseteq p.receipts \cup {signer}
  BY <1>1, Zenon DEF Proposal
<1>6. /\ h.passedAt = g.passedAt /\ h.delay = g.delay
      /\ h.paid = IF Settles(id) > 0 THEN "Forfeit" ELSE g.paid
      /\ h.consents = g.consents \cup {signer}
  BY <1>1, Zenon DEF History
<1>7. /\ p.deposit \in Nat /\ p.settled \in BOOLEAN /\ Settles(id) = Owed(p)
      /\ Owed(q) = 0 /\ Owed(p) \in Nat
      /\ Owed(p) = IF p.status = "Active" THEN p.deposit ELSE 0
  <2>1. p.deposit \in Nat /\ p.settled \in BOOLEAN
    BY <1>1, Zenon DEF Proposal
  <2> QED BY <1>1, <1>5, <2>1, Zenon DEF Owed, RecordOK, Settles
<1> HIDE DEF q, h
<1>8. RecordOK(q, h)
  BY <1>1, <1>2, <1>5, <1>6, <1>7 DEF RecordOK, Never
<1>9. balance' - locked' = balance - locked + Owed(q) - Owed(proposals[id])
  BY <1>1, <1>2, <1>7, SMTT(60)
<1>10. p.status # "Executed" /\ q.status # "Executed"
  BY <1>2, <1>5, Zenon
<1>11. balance' \in Int /\ locked' \in Nat
  BY <1>1, <1>2, <1>7
<1> HIDE DEF p, g
<1> QED BY <1>2, <1>3, <1>4, <1>8, <1>9, <1>10, <1>11, UpdateKeeps, Zenon DEF p

\* The call that executes: Passed to Executed, and one more call carried out.
LEMMA ExecuteKeeps ==
    ASSUME GInv, NEW id \in Ids, Execute(id)
    PROVE  GInv'
<1> DEFINE n == Len(proposals)
           m == Len(applied)
           p == proposals[id]
           g == ghost[id]
           q == [p EXCEPT !.status = "Executed", !.settled = TRUE]
           call == [id |-> id, at |-> now]
<1>1. /\ proposals \in Seq(Proposal) /\ ghost \in Seq(History) /\ p \in Proposal
      /\ g \in History /\ n \in Nat /\ id \in 1..n /\ Len(ghost) = n
      /\ RecordOK(p, g) /\ balance \in Nat /\ locked \in Nat /\ now \in Nat
      /\ applied \in Seq([id : Nat, at : Nat]) /\ m \in Nat
  <2>1. balance \in Nat
    BY GInvImplies, Zenon DEF TypeOK
  <2> QED BY <2>1 DEF GInv, TypesOK, RecordsOK, CallsOK, Ids
<1>2. /\ p.status = "Passed" /\ now >= p.eta_ledger
      /\ proposals' = [proposals EXCEPT ![id] = q]
      /\ applied' = Append(applied, call)
      /\ balance' = balance - Settles(id)
      /\ UNCHANGED <<settings, failing, now, locked, ghost>>
  BY <1>1, Zenon DEF Execute, assert_executable
<1>3. q \in Proposal
  BY <1>1, Zenon DEF Proposal
<1>4. /\ q.status = "Executed" /\ q.settled = TRUE /\ q.deposit = p.deposit
      /\ q.receipts = p.receipts
  BY <1>1, Zenon DEF Proposal
<1>5. p.settled = TRUE /\ Settles(id) = 0 /\ Owed(q) = 0 /\ Owed(p) = 0
  BY <1>1, <1>2, <1>4, Zenon DEF Owed, Proposal, RecordOK, Settles
<1> HIDE DEF q
<1>6. RecordOK(q, g)
  BY <1>1, <1>2, <1>4, Zenon DEF RecordOK
<1>7. TypesOK' /\ RecordsOK' /\ BalanceOK'
  <2>1. ghost' = [ghost EXCEPT ![id] = g]
    BY <1>1, <1>2
  <2>2. balance' - locked' = balance - locked + Owed(q) - Owed(proposals[id])
    BY <1>1, <1>2, <1>5
  <2>3. balance' \in Int /\ locked' \in Nat /\ now' = now /\ failing' = failing
    BY <1>1, <1>2, <1>5
  <2>4. g \in History /\ RecordOK(q, g) /\ proposals' = [proposals EXCEPT ![id] = q]
    BY <1>1, <1>2, <1>6, Zenon
  <2> HIDE DEF p, g
  <2> QED BY <1>3, <2>1, <2>2, <2>3, <2>4, RewriteKeeps, Zenon
<1>8. CallsOK'
  <2>1. call \in [id : Nat, at : Nat] /\ call.id = id /\ call.at = now
    BY <1>1
  <2> HIDE DEF call
  <2>2. /\ applied' \in Seq([id : Nat, at : Nat]) /\ Len(applied') = m + 1
        /\ \A i \in 1..m : applied'[i] = applied[i]
        /\ applied'[m + 1] = call
        /\ \A i \in 1..(m + 1) : i \in 1..m \/ i = m + 1
    BY <1>1, <1>2, <2>1
  <2>3. /\ Ids = 1..n /\ Ids' = 1..n
        /\ \A k \in 1..n : proposals'[k] = IF k = id THEN q ELSE proposals[k]
    BY <1>1, <1>2 DEF Ids
  <2>4. \A i \in 1..m : applied[i].id # id
    BY <1>2, Zenon DEF GInv, CallsOK
  <2>5. \A i, j \in 1..(m + 1) : applied'[i].id = applied'[j].id => i = j
    <3>1. \A i, j \in 1..m : applied[i].id = applied[j].id => i = j
      BY Zenon DEF GInv, CallsOK
    <3> QED BY <2>1, <2>2, <2>4, <3>1, ZenonT(60)
  <2>6. ASSUME NEW i \in 1..(m + 1)
        PROVE  /\ applied'[i].id \in Ids'
               /\ proposals'[applied'[i].id].status = "Executed"
               /\ applied'[i].at >= ghost'[applied'[i].id].passedAt + ghost'[applied'[i].id].delay
    <3>1. CASE i \in 1..m
      <4>1. /\ applied[i].id \in Ids
            /\ proposals[applied[i].id].status = "Executed"
            /\ applied[i].at >= ghost[applied[i].id].passedAt + ghost[applied[i].id].delay
        BY <3>1, Zenon DEF GInv, CallsOK
      <4>2. applied'[i] = applied[i] /\ applied[i].id # id
        BY <2>2, <2>4, <3>1, Zenon
      <4>3. proposals'[applied[i].id] = proposals[applied[i].id]
        BY <2>3, <4>1, <4>2, Zenon
      <4> QED BY <1>2, <2>3, <4>1, <4>2, <4>3, Zenon
    <3>2. CASE i = m + 1
      <4>1. applied'[i].id = id /\ applied'[i].at = now
        BY <2>1, <2>2, <3>2, Zenon
      <4>2. now >= g.passedAt + g.delay
        BY <1>1, <1>2, Zenon DEF RecordOK
      <4> QED BY <1>1, <1>2, <1>4, <2>3, <4>1, <4>2, Zenon
    <3> QED BY <2>2, <3>1, <3>2, Zenon
  <2>7. ASSUME NEW k \in Ids', proposals'[k].status = "Executed"
        PROVE  \E i \in 1..(m + 1) : applied'[i].id = k
    <3>1. CASE k = id
      <4>1. m + 1 \in 1..(m + 1) /\ applied'[m + 1].id = id
        BY <1>1, <2>1, <2>2
      <4> QED BY <3>1, <4>1, Zenon
    <3>2. CASE k # id
      <4>1. PICK i \in 1..m : applied[i].id = k
        BY <2>3, <2>7, <3>2, Zenon DEF GInv, CallsOK
      <4>2. m \in Nat /\ applied'[i] = applied[i]
        BY <1>1, <2>2, <4>1, Zenon
      <4>3. i \in 1..(m + 1) /\ applied'[i].id = k
        BY <4>1, <4>2
      <4> QED BY <4>3, Zenon
    <3> QED BY <3>1, <3>2, Zenon
  <2> QED BY <2>2, <2>5, <2>6, <2>7, Zenon DEF CallsOK
<1>9. SettingsOK'
  BY <1>2, Zenon DEF GInv, SettingsOK
<1> QED BY <1>7, <1>8, <1>9, Zenon DEF GInv

\* Settings, targets and the clock.
LEMMA AsideKeeps ==
    ASSUME GInv, UNCHANGED <<proposals, balance, locked, applied, ghost>>,
           now' \in Nat, failing' \subseteq Kinds, SettingsOK'
    PROVE  GInv'
<1>1. TypesOK' /\ CallsOK'
  BY Zenon  DEF GInv, TypesOK, CallsOK, Ids
<1>2. RecordsOK'
  BY Zenon DEF GInv, RecordsOK, RecordOK, Ids
<1>3. BalanceOK'
  BY Zenon  DEF GInv, BalanceOK, Owed, Ids
<1> QED BY <1>1, <1>2, <1>3, Zenon DEF GInv

\* The settings a call may leave behind.
LEMMA SettingsKept ==
    ASSUME GInv,
           \/ \E c \in VetoConfigs : ConfigureVetoMultisig(c)
           \/ DisableVetoPower
           \/ \E d \in Delays : SetExecutionDelay(d)
           \/ \E d \in Deposits : SetMinProposalDeposit(d)
           \/ \E some \in BOOLEAN : SetProposalDepositSink(some)
           \/ \E q \in Quorums : SetQuorum(q)
    PROVE  GInv'
<1> USE GovernanceAssumption DEF GInv, TypesOK, SettingsOK
<1>1. ASSUME NEW c \in VetoConfigs, ConfigureVetoMultisig(c) PROVE GInv'
  BY <1>1, AsideKeeps, Zenon DEF ConfigureVetoMultisig
<1>2. CASE DisableVetoPower
  BY <1>2, AsideKeeps, Zenon DEF DisableVetoPower
<1>3. ASSUME NEW d \in Delays, SetExecutionDelay(d) PROVE GInv'
  BY <1>3, AsideKeeps, Zenon DEF SetExecutionDelay
<1>4. ASSUME NEW d \in Deposits, SetMinProposalDeposit(d) PROVE GInv'
  BY <1>4, AsideKeeps, Zenon DEF SetMinProposalDeposit
<1>5. ASSUME NEW some \in BOOLEAN, SetProposalDepositSink(some) PROVE GInv'
  BY <1>5, AsideKeeps, Zenon DEF SetProposalDepositSink
<1>6. ASSUME NEW q \in Quorums, SetQuorum(q) PROVE GInv'
  BY <1>6, AsideKeeps, Zenon DEF SetQuorum
<1> QED BY <1>1, <1>2, <1>3, <1>4, <1>5, <1>6, Zenon

\* initialize of the governance contract leaves no proposal and no deposit.
LEMMA GInit == Init => GInv
<1> SUFFICES ASSUME Init PROVE GInv
  BY Zenon
<1>1. TypesOK /\ RecordsOK /\ CallsOK
  <2>1. failing \subseteq Kinds
    BY GovernanceAssumption, Zenon DEF Init
  <2> QED BY <2>1 DEF Init, TypesOK, RecordsOK, CallsOK, Ids
<1>2. SettingsOK
  <2>1. settings.signers = {} /\ IsFiniteSet({})
    BY FS_EmptySet, Zenon DEF Init
  <2>2. /\ settings.deposit \in Nat /\ settings.delay \in Nat
        /\ settings.quorum \in Nat \cup {Missing}
    BY GovernanceAssumption, ZenonT(60) DEF Init
  <2>3. settings.sink \in BOOLEAN /\ settings.vetoOn \in BOOLEAN
    BY Zenon DEF Init
  <2>4. settings = [deposit |-> settings.deposit, sink |-> settings.sink,
                    delay |-> settings.delay, quorum |-> settings.quorum,
                    vetoOn |-> settings.vetoOn, signers |-> {}, threshold |-> 0]
    BY Zenon DEF Init
  <2> QED BY <2>1, <2>2, <2>3, <2>4 DEF SettingsOK
<1>3. BalanceOK
  <2>1. \A f : SumTo(f, 0) = 0
    BY SumToEquations, Zenon
  <2>2. Len(proposals) = 0 /\ balance = 0 /\ locked = 0
    BY Zenon DEF Init
  <2> QED BY <2>1, <2>2 DEF BalanceOK
<1> QED BY <1>1, <1>2, <1>3, Zenon DEF GInv

\* Every entry point of the governance contract keeps GInv.
LEMMA GNext == GInv /\ [Next]_vars => GInv'
<1> SUFFICES ASSUME GInv, [Next]_vars PROVE GInv'
  BY Zenon
<1>1. ASSUME NEW kind \in Kinds, CalleeFails(kind) \/ CalleeRecovers(kind) PROVE GInv'
  BY <1>1, AsideKeeps, Zenon DEF CalleeFails, CalleeRecovers, GInv, TypesOK, SettingsOK
<1>2. CASE Tick \/ UNCHANGED vars
  BY <1>2, AsideKeeps, SMTT(60) DEF Tick, vars, GInv, TypesOK, SettingsOK
<1> QED
  BY <1>1, <1>2, CreateKeeps, CastVoteKeeps, PassKeeps, ExecuteKeeps, ApproveVetoKeeps,
     ExecuteVetoKeeps, SettingsKept, Zenon DEF Next, ExecuteProposal, VetoProposal

\* The inductive invariant holds in every reachable state.
THEOREM GInvHolds == Spec => []GInv
  BY GInit, GNext, PTL DEF Spec

-----------------------------------------------------------------------------

\* The contract holds exactly the deposits of unsettled proposals and the forfeits
\* it kept, and every proposal that passed or was vetoed has paid the right party once
\* (refund_proposal_deposit, forfeit_proposal_deposit).
THEOREM DepositsAlwaysSettled == Spec => []DepositsSettled
  BY GInvHolds, GInvImplies, PTL

\* A verdict is carried out exactly once, no sooner than the delay in force when it
\* was reached, or vetoed while the veto is enabled by enough of the signers
\* configured at that moment (execute_proposal, veto_proposal).
THEOREM VerdictsAlwaysHonoured == Spec => VerdictsHonoured
<1>1. GInv /\ GInv' /\ [Next]_vars =>
        [/\ AppliedOnce'
         /\ \A id \in Ids :
             proposals'[id].status = "Vetoed" /\ proposals[id].status # "Vetoed" =>
                 /\ settings.vetoOn
                 /\ Cardinality(settings.signers \cap ghost'[id].consents)
                        >= settings.threshold]_vars
  <2> SUFFICES ASSUME GInv, GInv', [Next]_vars
               PROVE  /\ AppliedOnce'
                      /\ \A id \in Ids :
                          proposals'[id].status = "Vetoed" /\ proposals[id].status # "Vetoed" =>
                              /\ settings.vetoOn
                              /\ Cardinality(settings.signers \cap ghost'[id].consents)
                                     >= settings.threshold
    BY Zenon
  <2>1. AppliedOnce'
    BY GInvImplies, PTL
  <2>2. SUFFICES ASSUME NEW id \in Ids, proposals'[id].status = "Vetoed",
                        proposals[id].status # "Vetoed"
                 PROVE  /\ settings.vetoOn
                        /\ Cardinality(settings.signers \cap ghost'[id].consents)
                               >= settings.threshold
    BY <2>1, Zenon
  <2>3. /\ proposals \in Seq(Proposal) /\ ghost \in Seq(History)
        /\ Len(ghost) = Len(proposals) /\ Len(proposals) \in Nat
        /\ Ids = 1..Len(proposals) /\ \A k \in Ids : proposals[k] \in Proposal
        /\ \A k \in Ids : ghost[k] \in History
    BY DEF GInv, TypesOK, Ids
  <2>4. proposals' # proposals
    BY <2>2, Zenon
  <2>5. ASSUME NEW kind \in Kinds, CreateProposal(kind) PROVE FALSE
    BY <2>2, <2>3, <2>5 DEF CreateProposal
  <2>6. ASSUME NEW voter \in Voters, NEW k \in Ids, NEW support \in BOOLEAN,
               NEW power \in Weights, CastVote(voter, k, support, power)
        PROVE  FALSE
    <3>1. k # id => proposals'[id] = proposals[id]
      BY <2>3, <2>6 DEF CastVote
    <3>2. k = id => proposals'[id].status = proposals[id].status
      BY <2>3, <2>6 DEF CastVote, Proposal
    <3> QED BY <2>2, <3>1, <3>2, Zenon
  <2>7. ASSUME NEW k \in Ids, ExecuteProposal(k) PROVE FALSE
    <3>1. k # id => proposals'[id] = proposals[id]
      BY <2>3, <2>7 DEF ExecuteProposal, Pass, Execute
    <3>2. k = id /\ Pass(k) => proposals'[id].status = "Passed"
      BY <2>3, <2>7 DEF Pass, Proposal
    <3>3. k = id /\ Execute(k) => proposals'[id].status = "Executed"
      BY <2>3, <2>7 DEF Execute, Proposal
    <3> QED BY <2>2, <2>7, <3>1, <3>2, <3>3, Zenon DEF ExecuteProposal
  <2>8. ASSUME NEW signer \in Signers, NEW k \in Ids, ApproveVeto(signer, k) PROVE FALSE
    <3>1. k # id => proposals'[id] = proposals[id]
      BY <2>3, <2>8 DEF ApproveVeto
    <3>2. k = id => proposals'[id].status = proposals[id].status
      BY <2>3, <2>8, SMTT(60) DEF ApproveVeto, Proposal
    <3> QED BY <2>2, <3>1, <3>2, Zenon
  <2>9. PICK signer \in Signers, k \in Ids : ExecuteVeto(signer, k)
    BY <2>4, <2>5, <2>6, <2>7, <2>8, ZenonT(60)
       DEF Next, vars, VetoProposal, ConfigureVetoMultisig, DisableVetoPower, SetExecutionDelay,
           SetMinProposalDeposit, SetProposalDepositSink, SetQuorum, CalleeFails,
           CalleeRecovers, Tick
  <2>10. k = id
    <3>1. k # id => proposals'[id] = proposals[id]
      BY <2>3, <2>9 DEF ExecuteVeto
    <3> QED BY <2>2, <3>1, Zenon
  <2>11. /\ settings.vetoOn
         /\ Cardinality(settings.signers \cap (proposals[id].receipts \cup {signer}))
                >= settings.threshold
    BY <2>9, <2>10, Zenon DEF ExecuteVeto, Vetoable, veto_approvals
  <2>12. ghost'[id].consents = ghost[id].consents \cup {signer}
    BY <2>3, <2>9, <2>10 DEF ExecuteVeto, History
  <2> DEFINE A == settings.signers \cap (proposals[id].receipts \cup {signer})
             B == settings.signers \cap ghost'[id].consents
  <2>13. A \subseteq B
    <3>1. proposals[id].receipts \subseteq ghost[id].consents
      BY Zenon DEF GInv, RecordsOK, RecordOK
    <3> QED BY <2>12, <3>1, Zenon
  <2>14. IsFiniteSet(B) /\ settings.threshold \in Nat
    <3>1. IsFiniteSet(settings.signers) /\ settings.threshold \in Nat
      BY Zenon DEF GInv, SettingsOK
    <3> QED BY <3>1, FS_Subset, Zenon
  <2>15. Cardinality(A) <= Cardinality(B) /\ Cardinality(A) \in Nat /\ Cardinality(B) \in Nat
    <3>1. IsFiniteSet(A)
      BY <2>13, <2>14, FS_Subset
    <3> HIDE DEF A, B
    <3> QED BY <2>13, <2>14, <3>1, FS_Subset, FS_CardinalityType, Zenon
  <2>16. Cardinality(A) >= settings.threshold
    BY <2>11, Zenon
  <2> HIDE DEF A
  <2>17. Cardinality(B) >= settings.threshold
    BY <2>14, <2>15, <2>16
  <2> QED BY <2>11, <2>17, Zenon
<1> QED
  BY <1>1, GInvHolds, PTL DEF Spec, VerdictsHonoured

-----------------------------------------------------------------------------
(* Event ingestion.                                                        *)


(* The inductive invariant of ingestion: what the memory of a process may    *)
(* hold, and that a process that runs holds the lease or is late.            *)

Memory(r) ==
    /\ DOMAIN r = DOMAIN Idle
    /\ r.pos \in Int /\ r.rec.ledger \in Int /\ r.stale \in Int /\ r.from \in Int
    /\ r.borrowed \in BOOLEAN
    /\ r.pc = "fork" => r.stale # 0
    /\ r.pc = "lock" \/ r.borrowed => r.from # 0
    /\ r.from # 0 => r.pc \notin {"off", "idle", "down", "live"}

\* A replay has every stored header below it: the rollback deleted the rest.
Below(r, hs) ==
    r.from # 0 /\ r.pc # "lock" =>
        \A l \in Ledgers : hs[l] # NoHeader => l <= r.rec.ledger

\* A lease that was borrowed is given back at the end of the recovery, so its
\* borrower counts as late meanwhile.
Elected ==
    \A p \in Procs :
        /\ Running(p) => p \in Writers /\ (isLeader(p) \/ p \in late)
        /\ proc[p].borrowed => p \in late

\* No process but p may write.
Sole(p) == \A q \in Procs \ {p} : ~ Running(q)

\* The writers have taken turns so far.
InTurn ==
    /\ \A p \in Procs : Running(p) => Sole(p)
    /\ \A p \in Procs : Below(proc[p], headers)
    /\ Linked

Recorded ==
    /\ chain \in Seq(Int) /\ cursor \in Int
    /\ DOMAIN headers = Ledgers
    /\ DOMAIN lease = {"holder", "age"}
    /\ DOMAIN proc = Procs

IngestInv ==
    /\ Recorded
    /\ \A p \in Procs : Memory(proc[p])
    /\ Elected
    /\ overlap \in BOOLEAN
    /\ overlap \/ InTurn

\* No process but p keeps the lease.
Free(p) == \A q \in Procs \ {p} : ~ isLeader(q)

\* The newest and the oldest of some ledgers are among them.
LEMMA EndsOfLedgers ==
    ASSUME NEW S \in SUBSET Ledgers, S # {}
    PROVE  Max(S) \in S /\ Min(S) \in S
<1> DEFINE Above == {m \in Nat : \A y \in S : y <= m}
<1>1. S \subseteq Nat /\ MaxLedger \in Nat
  BY IngestAssumption DEF Ledgers
<1>2. MaxLedger \in Above
  BY <1>1, IngestAssumption DEF Ledgers
<1>3. PICK m \in Above : \A y \in Above : m <= y
  BY <1>2, LeastNat, Zenon
<1>4. m \in S
  <2>1. CASE m = 0
    <3>1. PICK y \in S : TRUE
      BY Zenon
    <3>2. y <= m /\ y \in Nat
      BY <3>1, <1>1, <1>3, Zenon
    <3> QED  BY <3>1, <3>2, <2>1
  <2>2. CASE m # 0
    <3>1. m - 1 \in Nat /\ m - 1 \notin Above
      BY <2>2, <1>3
    <3>2. PICK y \in S : ~ (y <= m - 1)
      BY <3>1, Zenon
    <3>3. y = m
      BY <3>1, <3>2, <1>1, <1>3
    <3> QED  BY <3>2, <3>3, Zenon
  <2> QED  BY <2>1, <2>2, Zenon
<1>5. PICK n \in S : \A y \in S : n <= y
  BY <1>1, LeastNat, Zenon
<1>6. \E x \in S : \A y \in S : x >= y
  BY <1>1, <1>3, <1>4, Zenon
<1>7. \E x \in S : \A y \in S : x <= y
  BY <1>5, Zenon
<1> QED  BY <1>6, <1>7, Zenon DEF Max, Min

\* A divergence is a ledger, and not 0, which stands for no recovery.
LEMMA DivergenceIsInt ==
    ASSUME NEW stale \in Int \ {0}, NEW unread
    PROVE  divergenceLedger(stale, unread) \in Int \ {0}
<1> DEFINE walk   == Walk(stale)
           ground == {l \in walk : headers[l].hash = Branch(l) \/ l = unread}
<1>1. walk \in SUBSET Ledgers /\ ground \in SUBSET Ledgers
  BY Zenon DEF Walk, Stored
<1>2. Ledgers \subseteq Nat \ {0}
  BY IngestAssumption DEF Ledgers
<1>3. ground # {} => Max(ground) \in Nat \ {0}
  BY <1>1, <1>2, EndsOfLedgers, Zenon
<1>4. walk # {} => Min(walk) \in Nat \ {0}
  BY <1>1, <1>2, EndsOfLedgers, Zenon
<1> HIDE DEF walk, ground
<1>5. (IF ground # {} THEN Max(ground) + 1 ELSE IF walk = {} THEN stale ELSE Min(walk)) \in Int \ {0}
  BY <1>3, <1>4
<1> QED  BY <1>5, Zenon DEF divergenceLedger, walk, ground

\* A lease that can be taken is nobody's who keeps it.
LEMMA AcquiresFree ==
    ASSUME NEW p \in Procs, MayAcquire(p)
    PROVE  Free(p)
<1>1. ASSUME NEW q \in Procs \ {p}, isLeader(q)
      PROVE  FALSE
  <2>1. q = NoOne
    BY <1>1, Zenon DEF isLeader, MayAcquire
  <2> QED  BY <1>1, <2>1, IngestAssumption, Zenon
<1> QED  BY <1>1, Zenon DEF Free

\* One process takes a step.  It changes the lease only when no other process
\* keeps it, and the headers only when no other process may write or two have
\* run at once already.
LEMMA ProcessStep ==
    ASSUME IngestInv, NEW p \in Procs, NEW r,
           Go(p, r), Memory(r),
           overlap => overlap', overlap' \in BOOLEAN,
           r.pc \in {"idle", "down"} \/ (p \in Writers /\ (isLeader(p)' \/ p \in late')),
           r.borrowed => p \in late',
           late \ {p} \subseteq late',
           lease' = lease \/ Free(p),
           \/ overlap'
           \/ /\ Sole(p) \/ (headers' = headers /\ r.pc \in {"idle", "down"})
              /\ Below(r, headers')
              /\ Linked'
    PROVE  /\ \A q \in Procs : Memory(proc[q])'
           /\ DOMAIN proc' = Procs
           /\ Elected'
           /\ overlap' \in BOOLEAN
           /\ overlap' \/ InTurn'
<1>1. /\ DOMAIN proc' = Procs /\ proc'[p] = r
      /\ \A q \in Procs \ {p} : proc'[q] = proc[q]
  BY Zenon DEF Go, IngestInv, Recorded
<1>2. \A q \in Procs : Memory(proc[q])'
  BY <1>1, Zenon DEF IngestInv, Memory
<1>3. ASSUME NEW q \in Procs
      PROVE  /\ Running(q)' => q \in Writers /\ (isLeader(q)' \/ q \in late')
             /\ proc'[q].borrowed => q \in late'
  <2>1. CASE q = p
    BY <2>1, <1>1, Zenon DEF Running
  <2>2. CASE q # p
    <3>1. /\ Running(q) => q \in Writers /\ (isLeader(q) \/ q \in late)
          /\ proc[q].borrowed => q \in late
      BY Zenon DEF IngestInv, Elected
    <3>2. (Running(q)' <=> Running(q)) /\ proc'[q] = proc[q] /\ (q \in late => q \in late')
      BY <2>2, <1>1, Zenon DEF Running
    <3>3. isLeader(q) => isLeader(q)'
      BY <2>2, Zenon DEF isLeader, Free
    <3> QED  BY <3>1, <3>2, <3>3, Zenon
  <2> QED  BY <2>1, <2>2, Zenon
<1>4. Elected'
  BY <1>3, Zenon DEF Elected
<1>5. CASE overlap'
  BY <1>1, <1>2, <1>4, <1>5, Zenon
<1>6. CASE ~ overlap'
  <2>1. /\ InTurn /\ Below(r, headers') /\ Linked'
        /\ Sole(p) \/ (headers' = headers /\ r.pc \in {"idle", "down"})
    BY <1>6, Zenon DEF IngestInv
  <2>2. ASSUME NEW q \in Procs, Running(q)'
        PROVE  Sole(q)'
    <3>1. CASE q = p
      <4>1. Sole(p)
        BY <2>1, <2>2, <3>1, <1>1, Zenon DEF Running
      <4> QED  BY <4>1, <3>1, <1>1, Zenon DEF Sole, Running
    <3>2. CASE q # p
      <4>1. Running(q) /\ Sole(q)
        BY <2>1, <2>2, <3>2, <1>1, Zenon DEF Running, InTurn
      <4>2. ~ Sole(p)
        BY <4>1, <3>2, Zenon DEF Sole
      <4>3. r.pc \in {"idle", "down"}
        BY <2>1, <4>2, Zenon
      <4> QED  BY <4>1, <4>3, <3>2, <1>1, Zenon DEF Sole, Running
    <3> QED  BY <3>1, <3>2, Zenon
  <2>3. ASSUME NEW q \in Procs
        PROVE  Below(proc[q], headers)'
    <3>1. CASE q = p
      BY <3>1, <2>1, <1>1, Zenon DEF Below
    <3>2. CASE q # p
      <4>1. Memory(proc[q]) /\ Below(proc[q], headers) /\ proc'[q] = proc[q]
        BY <3>2, <2>1, <1>1, Zenon DEF IngestInv, InTurn
      <4>2. CASE headers' = headers
        BY <4>1, <4>2, Zenon DEF Below
      <4>3. CASE Sole(p)
        <5>1. proc[q].pc \in {"off", "idle", "down"}
          BY <4>3, <3>2, Zenon DEF Sole, Running
        <5>2. proc[q].from = 0
          BY <5>1, <4>1, Zenon DEF Memory
        <5> QED  BY <4>1, <5>2, Zenon DEF Below
      <4> QED  BY <2>1, <4>2, <4>3, Zenon
    <3> QED  BY <3>1, <3>2, Zenon
  <2>4. InTurn'
    BY <2>1, <2>2, <2>3, Zenon DEF InTurn
  <2> QED  BY <2>4, <1>1, <1>2, <1>4, <1>6, Zenon
<1> QED  BY <1>5, <1>6, Zenon

\* The steps of one process which leave the headers and the lease alone.
Thinks(p) ==
    \/ Reconnect(p) \/ Deliver(p) \/ Unverified(p) \/ WriteRows(p) \/ WriteFails(p)
    \/ Checkpoint(p) \/ Drop(p) \/ GiveUp(p) \/ ReplayNext(p) \/ Restart(p)
    \/ \E u \in 0..MaxLedger : Diverge(p, u)

\* What such a step makes of the memory of its process.
LEMMA ThinkingMemory ==
    ASSUME IngestInv, NEW p \in Procs, Thinks(p)
    PROVE  \E r : /\ Go(p, r) /\ Memory(r)
                  /\ overlap \/ Below(r, headers)
                  /\ r.borrowed => proc[p].borrowed
                  /\ r.pc # "idle" => Running(p)
<1>1. /\ Memory(proc[p]) /\ (overlap \/ Below(proc[p], headers))
      /\ cursor \in Int /\ Len(chain) \in Int
  BY DEF IngestInv, InTurn, Recorded
<1>2. Connected \in Int
  BY <1>1, Zenon DEF Connected, tip
<1>3. CASE Reconnect(p)
  <2> WITNESS [proc[p] EXCEPT !.pos = Connected]
  <2> QED  BY <1>1, <1>2, <1>3, Zenon DEF Reconnect, Memory, Below, Idle, Running
<1>4. CASE Deliver(p)
  <2> DEFINE l == proc[p].pos + 1
             r == IF halted THEN [proc[p] EXCEPT !.pos = l, !.resync = TRUE]
                  ELSE [proc[p] EXCEPT !.pos = l, !.pc = "header",
                                       !.rec = [ledger |-> l, branch |-> chain[l]]]
  <2>1. proc[p].pc = "live" /\ Go(p, r)
    BY <1>4, Zenon DEF Deliver
  <2>2. proc[p].from = 0 /\ ~ proc[p].borrowed
    BY <1>1, <2>1, Zenon DEF Memory
  <2> WITNESS r
  <2> QED  BY <1>1, <2>1, <2>2 DEF Memory, Below, Idle, Running
<1>5. CASE Unverified(p)
  <2> WITNESS [proc[p] EXCEPT !.pc = "verified"]
  <2> QED  BY <1>1, <1>5, Zenon DEF Unverified, Memory, Below, Idle, Running
<1>6. CASE WriteRows(p)
  <2> WITNESS [proc[p] EXCEPT !.pc = "rows"]
  <2> QED  BY <1>1, <1>6, Zenon DEF WriteRows, Memory, Below, Idle, Running
<1>7. CASE WriteFails(p)
  <2> WITNESS [proc[p] EXCEPT !.pc = Continue(p)]
  <2> QED  BY <1>1, <1>7, Zenon DEF WriteFails, Memory, Below, Idle, Running, Continue, Replaying
<1>8. CASE Checkpoint(p)
  <2> DEFINE l == proc[p].rec.ledger
             reopen == proc[p].resync /\ ~ Replaying(p)
             r == [proc[p] EXCEPT !.pc = Continue(p), !.resync = @ /\ ~ reopen,
                                  !.pos = IF reopen THEN l ELSE @]
  <2>1. proc[p].pc = "rows" /\ Go(p, r)
    BY <1>8, Zenon DEF Checkpoint
  <2> HIDE DEF reopen
  <2> WITNESS r
  <2> QED  BY <1>1, <2>1, Zenon DEF Memory, Below, Idle, Running, Continue, Replaying
<1>9. CASE ReplayNext(p)
  <2> DEFINE l == proc[p].rec.ledger + 1
             r == [proc[p] EXCEPT !.pc = "header", !.upTo = IF l > @ THEN tip ELSE @,
                                  !.rec = [ledger |-> l, branch |-> chain[l]]]
  <2>1. proc[p].pc = "replay" /\ Go(p, r)
    BY <1>9, Zenon DEF ReplayNext
  <2>2. \A k \in Ledgers : k \in Int
    BY IngestAssumption DEF Ledgers
  <2>3. Memory(r) /\ r.borrowed = proc[p].borrowed /\ r.pc = "header" /\ Running(p)
    BY <1>1, <2>1 DEF Memory, Idle, Running
  <2>4. r.rec.ledger = proc[p].rec.ledger + 1 /\ r.from = proc[p].from
    BY <1>1, Zenon DEF Memory, Idle
  <2>5. overlap \/ Below(r, headers)
    BY <1>1, <2>1, <2>2, <2>4 DEF Below, Memory
  <2> HIDE DEF r
  <2> QED  BY <2>1, <2>3, <2>5, Zenon
<1>10. CASE Restart(p)
  <2> WITNESS Idle
  <2> QED  BY <1>1, <1>10, Zenon DEF Restart, Memory, Below, Idle, Running, NoRecord
<1>11. ASSUME NEW u \in 0..MaxLedger, Diverge(p, u)
       PROVE  \E r : /\ Go(p, r) /\ Memory(r)
                     /\ overlap \/ Below(r, headers)
                     /\ r.borrowed => proc[p].borrowed
                     /\ r.pc # "idle" => Running(p)
  <2> DEFINE d == divergenceLedger(proc[p].stale, u)
             r == IF Replaying(p) THEN [proc[p] EXCEPT !.pc = "replay"]
                  ELSE [proc[p] EXCEPT !.pc = "lock", !.resync = TRUE, !.from = d]
  <2>1. proc[p].pc = "fork" /\ Go(p, r)
    BY <1>11, Zenon DEF Diverge
  <2>2. d \in Int \ {0}
    BY <1>1, <2>1, DivergenceIsInt, Zenon DEF Memory
  <2> HIDE DEF d
  <2> WITNESS r
  <2> QED  BY <1>1, <2>1, <2>2, Zenon DEF Memory, Below, Idle, Running, Replaying
<1>12. CASE Drop(p)
  <2>1. proc[p].pc = "verified" /\ ~ Replaying(p)
    BY <1>12, Zenon DEF Drop, Blocked
  <2> WITNESS [proc[p] EXCEPT !.pc = "live", !.resync = TRUE]
  <2> QED  BY <1>1, <1>12, <2>1, Zenon DEF Drop, Memory, Below, Idle, Running, Replaying
<1>13. CASE GiveUp(p)
  <2>1. proc[p].pc = "lock" /\ Go(p, Recovered(p))
    BY <1>13, Zenon DEF GiveUp
  <2> WITNESS Recovered(p)
  <2> QED  BY <1>1, <2>1 DEF Recovered, Memory, Below, Idle, NoRecord, Running
<1> QED
  BY <1>3, <1>4, <1>5, <1>6, <1>7, <1>8, <1>9, <1>10, <1>11, <1>12, <1>13, Zenon DEF Thinks

\* Such a step keeps the invariant.
LEMMA ThinkingKeeps ==
    ASSUME IngestInv, NEW p \in Procs, Thinks(p)
    PROVE  IngestInv'
<1>1. PICK r : /\ Go(p, r) /\ Memory(r)
               /\ overlap \/ Below(r, headers)
               /\ r.borrowed => proc[p].borrowed
               /\ r.pc # "idle" => Running(p)
  BY ThinkingMemory, Zenon
<1>2. headers' = headers /\ lease' = lease /\ late' = late /\ overlap' = overlap
  BY Zenon DEF Thinks, Reconnect, Deliver, Unverified, WriteRows, WriteFails, Checkpoint,
         Drop, GiveUp, ReplayNext, Restart, Diverge, db, hist
<1>3. chain' = chain /\ cursor' \in Int
  <2>1. Memory(proc[p]) /\ cursor \in Int
    BY Zenon DEF IngestInv, Recorded
  <2> QED
    BY <2>1, Zenon
       DEF Memory, Thinks, Reconnect, Deliver, Unverified, WriteRows, WriteFails, Checkpoint,
         Drop, GiveUp, ReplayNext, Restart, Diverge, db
<1>4. /\ Running(p) => p \in Writers /\ (isLeader(p) \/ p \in late)
      /\ proc[p].borrowed => p \in late
      /\ overlap \in BOOLEAN /\ (overlap \/ InTurn)
  BY Zenon DEF IngestInv, Elected
<1>5. isLeader(p)' <=> isLeader(p)
  BY <1>2, Zenon DEF isLeader
<1>6. Linked' <=> Linked
  BY <1>2, Zenon DEF Linked, Stored
<1>7. \/ overlap'
      \/ /\ Sole(p) \/ (headers' = headers /\ r.pc \in {"idle", "down"})
         /\ Below(r, headers') /\ Linked'
  BY <1>1, <1>2, <1>4, <1>6, Zenon DEF InTurn
<1>8. /\ \A q \in Procs : Memory(proc[q])'
      /\ DOMAIN proc' = Procs /\ Elected'
      /\ overlap' \in BOOLEAN /\ (overlap' \/ InTurn')
  BY <1>1, <1>2, <1>4, <1>5, <1>7, ProcessStep, Zenon
<1>9. Recorded'
  BY <1>2, <1>3, <1>8, Zenon DEF IngestInv, Recorded
<1> QED  BY <1>8, <1>9, Zenon DEF IngestInv

\* Storing a header that contradicts no neighbour keeps the headers linked: the
\* ledger above was compared, or the header replaces one with the same hash, or
\* a replay has nothing above it.
LEMMA StoredLinked ==
    ASSUME Linked, DOMAIN headers = Ledgers,
           NEW p, NEW l \in Int, NEW h, Contradicted(p, l, h) = 0,
           Replaying(p) => \A k \in Ledgers : headers[k] # NoHeader => k <= l,
           headers' = [headers EXCEPT ![l] = h]
    PROVE  Linked'
<1>1. \A k \in Ledgers : k \in Int /\ k # 0
  BY IngestAssumption DEF Ledgers
<1>2. /\ l \in Stored => headers[l].hash = h.hash
      /\ l - 1 \in Stored => headers[l - 1].hash = h.parent
      /\ l \notin Stored /\ ~ Replaying(p) /\ l + 1 \in Stored => headers[l + 1].parent = h.hash
  BY <1>1, Zenon DEF Contradicted, Stored
<1>3. ASSUME NEW k \in Ledgers \ {1}, {k, k - 1} \subseteq Stored'
      PROVE  headers'[k].parent = headers'[k - 1].hash
  <2>1. k \in Ledgers /\ k - 1 \in Ledgers /\ k \in Int
    BY <1>1, <1>3, Zenon DEF Stored
  <2>2. CASE k = l
    <3>1. headers'[k] = h /\ headers'[k - 1] = headers[k - 1]
      BY <2>1, <2>2
    <3>2. k - 1 \in Stored
      BY <3>1, <1>3, <2>1, Zenon DEF Stored
    <3> QED  BY <3>1, <3>2, <2>2, <1>2, Zenon
  <2>3. CASE k - 1 = l
    <3>1. headers'[k] = headers[k] /\ headers'[k - 1] = h /\ k = l + 1
      BY <2>1, <2>3
    <3>2. k \in Stored
      BY <3>1, <1>3, <2>1, Zenon DEF Stored
    <3>3. ~ Replaying(p)
      BY <3>1, <3>2, <2>1 DEF Stored
    <3>4. l \in Stored => headers[k].parent = headers[l].hash
      BY <3>1, <3>2, <2>1, <2>3, Zenon DEF Linked
    <3> QED  BY <3>1, <3>2, <3>3, <3>4, <1>2, Zenon
  <2>4. CASE k # l /\ k - 1 # l
    <3>1. headers'[k] = headers[k] /\ headers'[k - 1] = headers[k - 1]
      BY <2>1, <2>4, Zenon
    <3>2. {k, k - 1} \subseteq Stored
      BY <3>1, <1>3, <2>1, Zenon DEF Stored
    <3> QED  BY <3>1, <3>2, <1>3, Zenon DEF Linked
  <2> QED  BY <2>2, <2>3, <2>4, Zenon
<1> QED  BY <1>3, Zenon DEF Linked

\* The header of a record arrives.
LEMMA ObservingKeeps ==
    ASSUME IngestInv, NEW p \in Procs, observe(p)
    PROVE  IngestInv'
<1> DEFINE l == proc[p].rec.ledger
           h == readHeader(p, l)
           c == Contradicted(p, l, h)
           r == [proc[p] EXCEPT !.memo = Remember(p, l, h), !.stale = c,
                                !.pc = IF c = 0 THEN "verified" ELSE "fork"]
<1>1. /\ proc[p].pc = "header" /\ Go(p, r)
      /\ headers' = IF c = 0 THEN [headers EXCEPT ![l] = h] ELSE headers
      /\ chain' = chain /\ cursor' = cursor /\ lease' = lease
      /\ late' = late /\ overlap' = overlap
  BY Zenon DEF observe, hist
<1>2. /\ Memory(proc[p]) /\ DOMAIN headers = Ledgers
      /\ overlap \in BOOLEAN /\ (overlap \/ InTurn)
  BY Zenon DEF IngestInv, Recorded
<1>3. l \in Int
  BY <1>2, Zenon DEF Memory
<1>4. c \in Int
  BY <1>3 DEF Contradicted
<1> HIDE DEF h, c
<1>5. /\ Memory(r) /\ r.borrowed = proc[p].borrowed /\ r.pc \in {"verified", "fork"}
      /\ r.from = proc[p].from /\ r.rec = proc[p].rec
  BY <1>1, <1>2, <1>4, Zenon DEF Memory, Idle
<1>6. /\ Running(p)
      /\ p \in Writers /\ (isLeader(p) \/ p \in late)
      /\ proc[p].borrowed => p \in late
  BY <1>1, Zenon DEF Running, IngestInv, Elected
<1>7. DOMAIN headers' = Ledgers
  BY <1>1, <1>2, Zenon
<1>8. ASSUME ~ overlap
      PROVE  Sole(p) /\ Below(r, headers') /\ Linked'
  <2>1. Sole(p) /\ Linked /\ Below(proc[p], headers)
    BY <1>2, <1>6, <1>8, Zenon DEF InTurn
  <2>2. Replaying(p) => \A k \in Ledgers : headers[k] # NoHeader => k <= l
    BY <1>1, <2>1, Zenon DEF Below, Replaying
  <2>3. \A k \in Ledgers : k # l => headers'[k] = headers[k]
    BY <1>1, <1>2, Zenon
  <2>4. Below(r, headers')
    BY <2>2, <2>3, <1>3, <1>5 DEF Below, Replaying
  <2>5. CASE c = 0
    <3>1. headers' = [headers EXCEPT ![l] = h] /\ Contradicted(p, l, h) = 0
      BY <1>1, <2>5, Zenon DEF c
    <3>2. Linked'
      BY <3>1, <1>2, <1>3, <2>1, <2>2, StoredLinked, Zenon
    <3> QED  BY <3>2, <2>1, <2>4, Zenon
  <2>6. CASE c # 0
    <3>1. Linked'
      BY <1>1, <2>1, <2>6, Zenon DEF Linked, Stored
    <3> QED  BY <3>1, <2>1, <2>4, Zenon
  <2> QED  BY <2>5, <2>6, Zenon
<1>9. isLeader(p)' \/ p \in late'
  BY <1>1, <1>6, Zenon DEF isLeader
<1>10. Go(p, r) /\ Memory(r) /\ (r.borrowed => p \in late')
  BY <1>1, <1>5, <1>6, Zenon
<1> HIDE DEF r
<1>11. /\ \A q \in Procs : Memory(proc[q])'
       /\ DOMAIN proc' = Procs /\ Elected'
       /\ overlap' \in BOOLEAN /\ (overlap' \/ InTurn')
  BY <1>1, <1>2, <1>6, <1>8, <1>9, <1>10, ProcessStep, Zenon
<1>12. Recorded'
  BY <1>1, <1>7, <1>11, Zenon DEF IngestInv, Recorded
<1> QED  BY <1>11, <1>12, Zenon DEF IngestInv

\* The rollback of a recovery.
LEMMA RollbackKeeps ==
    ASSUME IngestInv, NEW p \in Procs, rollbackIndexedState(p)
    PROVE  IngestInv'
<1> DEFINE d == proc[p].from
           r == [proc[p] EXCEPT !.pc = "replay", !.borrowed = ~ isLeader(p), !.upTo = tip,
                                !.rec = [ledger |-> d - 1, branch |-> 0]]
<1>1. /\ proc[p].pc = "lock" /\ MayAcquire(p) /\ Go(p, r)
      /\ headers' = [l \in Ledgers |-> IF l < d THEN headers[l] ELSE NoHeader]
      /\ lease' = IF isLeader(p) THEN lease ELSE [holder |-> p, age |-> "valid"]
      /\ chain' = chain /\ cursor' = cursor /\ late' = late /\ overlap' = overlap
  BY Zenon DEF rollbackIndexedState
<1>2. /\ Memory(proc[p]) /\ DOMAIN lease = {"holder", "age"}
      /\ overlap \in BOOLEAN /\ (overlap \/ InTurn)
  BY Zenon DEF IngestInv, Recorded
<1>3. d \in Int \ {0} /\ \A k \in Ledgers : k \in Int
  BY <1>1, <1>2, IngestAssumption DEF Memory, Ledgers
<1>4. /\ Memory(r) /\ r.borrowed = ~ isLeader(p)
      /\ r.from = d /\ r.rec.ledger = d - 1
  BY <1>1, <1>2, <1>3 DEF Memory, Idle, isLeader
<1>5. /\ Running(p)
      /\ p \in Writers /\ (isLeader(p) \/ p \in late)
  BY <1>1, Zenon DEF Running, IngestInv, Elected
<1>6. Below(r, headers') /\ DOMAIN headers' = Ledgers
  BY <1>1, <1>3, <1>4 DEF Below
<1>7. ASSUME Linked
      PROVE  Linked'
  <2>1. ASSUME NEW k \in Ledgers \ {1}, {k, k - 1} \subseteq Stored'
        PROVE  headers'[k].parent = headers'[k - 1].hash
    <3>1. k - 1 \in Ledgers
      BY <2>1, Zenon DEF Stored
    <3>2. k < d /\ k - 1 < d
      BY <2>1, <3>1, <1>1, <1>3, Zenon DEF Stored
    <3>3. headers'[k] = headers[k] /\ headers'[k - 1] = headers[k - 1]
      BY <3>1, <3>2, <1>1, Zenon
    <3> QED  BY <2>1, <3>1, <3>3, <1>7, Zenon DEF Linked, Stored
  <2> QED  BY <2>1, <1>1, Zenon DEF Linked
<1>8. isLeader(p)' /\ DOMAIN lease' = {"holder", "age"}
  BY <1>1, <1>2, Zenon DEF isLeader
<1>9. Go(p, r) /\ Memory(r) /\ (r.borrowed => p \in late')
  BY <1>1, <1>4, <1>5, Zenon
<1>10. Free(p)
  BY <1>1, AcquiresFree, Zenon
<1>11. overlap \/ (Sole(p) /\ Linked')
  BY <1>2, <1>5, <1>7, Zenon DEF InTurn
<1> HIDE DEF r
<1>12. /\ \A q \in Procs : Memory(proc[q])'
       /\ DOMAIN proc' = Procs /\ Elected'
       /\ overlap' \in BOOLEAN /\ (overlap' \/ InTurn')
  BY <1>1, <1>2, <1>5, <1>6, <1>8, <1>9, <1>10, <1>11, ProcessStep, Zenon
<1>13. Recorded'
  BY <1>1, <1>6, <1>8, <1>12, Zenon DEF IngestInv, Recorded
<1> QED  BY <1>12, <1>13, Zenon DEF IngestInv

\* The steps of one process that may change the lease and leave the headers
\* alone.
Leads(p) ==
    \/ tryAcquire(p) \/ (heartbeat(p) /\ proc' # proc) \/ Stop(p) \/ Crash(p)
    \/ ReplayDone(p) \/ ReplayFails(p)

\* What such a step makes of the memory of its process, of the lease and of the
\* histories.
Led(p, r) ==
    /\ Go(p, r) /\ Memory(r)
    /\ overlap \/ Below(r, headers)
    /\ r.pc \in {"idle", "down"} \/ (p \in Writers /\ (isLeader(p)' \/ p \in late'))
    /\ r.borrowed => p \in late'
    /\ late \ {p} \subseteq late'
    /\ lease' = lease \/ Free(p)
    /\ overlap => overlap'
    /\ overlap' \in BOOLEAN
    /\ overlap' \/ Sole(p) \/ r.pc \in {"idle", "down"}

LEMMA LeadingMemory ==
    ASSUME IngestInv, NEW p \in Procs, Leads(p)
    PROVE  \E r : Led(p, r)
<1>1. /\ Memory(proc[p]) /\ (overlap \/ Below(proc[p], headers))
      /\ cursor \in Int /\ Len(chain) \in Int
      /\ proc[p].borrowed => p \in late
      /\ Running(p) => p \in Writers /\ (isLeader(p) \/ p \in late)
      /\ overlap \in BOOLEAN
      /\ Running(p) => overlap \/ Sole(p)
  BY DEF IngestInv, InTurn, Recorded, Elected
<1>2. lease.holder = p => Free(p)
  BY Zenon DEF Free, isLeader
<1>3. CASE tryAcquire(p)
  <2> DEFINE r == [proc[p] EXCEPT !.pc = "live", !.stopped = FALSE, !.pos = Connected]
             busy == \E q \in Procs \ {p} : Running(q)
  <2>1. /\ p \in Writers /\ proc[p].pc = "idle" /\ MayAcquire(p) /\ Go(p, r)
        /\ isLeader(p)' /\ late' = late /\ overlap' = (overlap \/ busy)
    BY <1>3, Zenon DEF tryAcquire, isLeader
  <2>2. Free(p)
    BY <2>1, AcquiresFree, Zenon
  <2>3. Connected \in Int /\ proc[p].from = 0 /\ ~ proc[p].borrowed
    BY <1>1, <2>1, Zenon DEF Connected, tip, Memory
  <2>4. Memory(r) /\ Below(r, headers) /\ ~ r.borrowed
    BY <1>1, <2>3, Zenon DEF Memory, Idle, Below
  <2>5. /\ overlap' \in BOOLEAN /\ (overlap => overlap')
        /\ overlap' \/ Sole(p)
    BY <1>1, <2>1, Zenon DEF Sole
  <2> HIDE DEF r
  <2>6. Led(p, r)
    BY <2>1, <2>2, <2>4, <2>5, Zenon DEF Led
  <2> QED  BY <2>6, Zenon
<1>4. CASE heartbeat(p) /\ proc' # proc
  <2> DEFINE r == [proc[p] EXCEPT !.stopped = TRUE]
  <2>1. Running(p) /\ Go(p, r) /\ lease' = lease /\ late' = late /\ overlap' = overlap
    BY <1>4, Zenon DEF heartbeat
  <2>2. /\ Memory(r) /\ (overlap \/ Below(r, headers))
        /\ r.borrowed = proc[p].borrowed
    BY <1>1, Zenon DEF Memory, Idle, Below
  <2>3. isLeader(p)' <=> isLeader(p)
    BY <2>1, Zenon DEF isLeader
  <2> HIDE DEF r
  <2>4. Led(p, r)
    BY <1>1, <2>1, <2>2, <2>3, Zenon DEF Led
  <2> QED  BY <2>4, Zenon
<1>5. CASE Stop(p)
  <2> DEFINE r == [proc[p] EXCEPT !.pc = "idle"]
  <2>1. /\ proc[p].pc = "live" /\ Go(p, r) /\ late' = late \ {p} /\ overlap' = overlap
        /\ lease.holder = p \/ lease' = lease
    BY <1>5, Zenon DEF Stop, release
  <2>2. proc[p].from = 0 /\ ~ proc[p].borrowed
    BY <1>1, <2>1, Zenon DEF Memory
  <2>3. Memory(r) /\ Below(r, headers) /\ ~ r.borrowed /\ r.pc = "idle"
    BY <1>1, <2>2, Zenon DEF Memory, Idle, Below
  <2> HIDE DEF r
  <2>4. Led(p, r)
    BY <1>1, <1>2, <2>1, <2>3, Zenon DEF Led
  <2> QED  BY <2>4, Zenon
<1>6. CASE Crash(p)
  <2> DEFINE r == [Idle EXCEPT !.pc = "down"]
  <2>1. /\ Go(p, r) /\ late' = late \ {p} /\ overlap' = overlap
        /\ lease.holder = p \/ lease' = lease
    BY <1>6, Zenon DEF Crash
  <2>2. Memory(r) /\ Below(r, headers) /\ ~ r.borrowed /\ r.pc = "down"
    BY DEF Memory, Idle, Below, NoRecord
  <2> HIDE DEF r
  <2>3. Led(p, r)
    BY <1>1, <1>2, <2>1, <2>2, Zenon DEF Led
  <2> QED  BY <2>3, Zenon
<1>7. CASE ReplayDone(p) \/ ReplayFails(p)
  <2> DEFINE r == Recovered(p)
  <2>1. /\ proc[p].pc = "replay" /\ Go(p, r) /\ late' = late /\ overlap' = overlap
        /\ lease' = lease \/ (proc[p].borrowed /\ lease.holder = p)
    BY <1>7, Zenon DEF ReplayDone, ReplayFails, EndRecovery, release, hist
  <2>2. Memory(r) /\ Below(r, headers) /\ ~ r.borrowed
    BY <1>1 DEF Recovered, Memory, Idle, Below, NoRecord
  <2>3. Running(p)
    BY <2>1, Zenon DEF Running
  <2>4. isLeader(p)' \/ p \in late'
    BY <1>1, <2>1, <2>3, Zenon DEF isLeader
  <2> HIDE DEF r
  <2>5. Led(p, r)
    BY <1>1, <1>2, <2>1, <2>2, <2>3, <2>4, Zenon DEF Led
  <2> QED  BY <2>5, Zenon
<1> QED  BY <1>3, <1>4, <1>5, <1>6, <1>7, Zenon DEF Leads

\* Such a step keeps the invariant.
LEMMA LeadingKeeps ==
    ASSUME IngestInv, NEW p \in Procs, Leads(p)
    PROVE  IngestInv'
<1>1. PICK r : Led(p, r)
  BY LeadingMemory, Zenon
<1>2. headers' = headers /\ chain' = chain /\ cursor' = cursor
  BY Zenon DEF Leads, tryAcquire, heartbeat, Stop, Crash, ReplayDone, ReplayFails, db
<1>3. DOMAIN lease' = {"holder", "age"}
  <2>1. DOMAIN lease = {"holder", "age"}
    BY Zenon DEF IngestInv, Recorded
  <2> QED
    BY <2>1, Zenon DEF Leads, tryAcquire, heartbeat, Stop, Crash, ReplayDone, ReplayFails,
              EndRecovery, release
<1>4. overlap \/ (Below(r, headers') /\ Linked')
  BY <1>1, <1>2, Zenon DEF Led, IngestInv, InTurn, Linked, Stored
<1>5. /\ \A q \in Procs : Memory(proc[q])'
      /\ DOMAIN proc' = Procs /\ Elected'
      /\ overlap' \in BOOLEAN /\ (overlap' \/ InTurn')
  BY <1>1, <1>2, <1>4, ProcessStep, Zenon DEF Led
<1>6. Recorded'
  BY <1>2, <1>3, <1>5, Zenon DEF IngestInv, Recorded
<1> QED  BY <1>5, <1>6, Zenon DEF IngestInv

\* Time passes over a lease, or its holder renews it: a process that ran and
\* kept the lease keeps it still, or is late.
LEMMA LeaseKeeps ==
    ASSUME IngestInv,
           \/ LeaseTick \/ Stall
           \/ \E p \in Procs : heartbeat(p) /\ proc' = proc
    PROVE  IngestInv'
<1>1. /\ headers' = headers /\ chain' = chain /\ cursor' = cursor /\ proc' = proc
      /\ overlap' = overlap
      /\ DOMAIN lease = {"holder", "age"} /\ DOMAIN lease' = {"holder", "age"}
  BY Zenon DEF IngestInv, Recorded, LeaseTick, Stall, heartbeat, db, hist
<1>2. ASSUME NEW q \in Procs
      PROVE  /\ Running(q)' => q \in Writers /\ (isLeader(q)' \/ q \in late')
             /\ proc'[q].borrowed => q \in late'
  <2>1. /\ Running(q) => q \in Writers /\ (isLeader(q) \/ q \in late)
        /\ proc[q].borrowed => q \in late
    BY Zenon DEF IngestInv, Elected
  <2>2. (Running(q)' <=> Running(q)) /\ proc'[q] = proc[q]
    BY <1>1, Zenon DEF Running
  <2>3. CASE LeaseTick
    <3>1. late' = late /\ (lease.holder \in Writers => ~ Running(lease.holder))
      BY <2>3, Zenon DEF LeaseTick, hist
    <3> QED  BY <2>1, <2>2, <3>1, Zenon DEF isLeader
  <2>4. CASE Stall
    <3>1. late' = late \cup {lease.holder}
      BY <2>4, Zenon DEF Stall
    <3> QED  BY <2>1, <2>2, <3>1, Zenon DEF isLeader
  <2>5. ASSUME NEW p \in Procs, heartbeat(p), proc' = proc
        PROVE  /\ Running(q)' => q \in Writers /\ (isLeader(q)' \/ q \in late')
               /\ proc'[q].borrowed => q \in late'
    <3>1. CASE lease.holder = p /\ lease.age # "lapsed"
      <4>1. /\ lease' = [lease EXCEPT !.age = "valid"]
            /\ late' = IF proc[p].borrowed THEN late ELSE late \ {p}
        BY <2>5, <3>1, Zenon DEF heartbeat
      <4>2. isLeader(p)'
        BY <3>1, <4>1, <1>1, Zenon DEF isLeader
      <4>3. CASE q = p
        BY <2>1, <2>2, <4>1, <4>2, <4>3, Zenon
      <4>4. CASE q # p
        BY <2>1, <2>2, <3>1, <4>1, <4>4, Zenon DEF isLeader
      <4> QED  BY <4>3, <4>4, Zenon
    <3>2. CASE ~ (lease.holder = p /\ lease.age # "lapsed")
      <4>1. lease' = lease /\ late' = late
        BY <2>5, <3>2, Zenon DEF heartbeat
      <4> QED  BY <2>1, <2>2, <4>1, Zenon DEF isLeader
    <3> QED  BY <3>1, <3>2, Zenon
  <2> QED  BY <2>3, <2>4, <2>5, Zenon
<1>3. Elected'
  BY <1>2, Zenon DEF Elected
<1>4. (\A q \in Procs : Memory(proc[q])') /\ Recorded' /\ overlap' \in BOOLEAN
  BY <1>1, Zenon DEF IngestInv, Recorded
<1>5. InTurn => InTurn'
  BY <1>1, Zenon DEF InTurn, Running, Sole, Linked, Stored
<1> QED  BY <1>1, <1>3, <1>4, <1>5, Zenon DEF IngestInv

\* The chain grows or forks, and the database does not change.
LEMMA ChainKeeps ==
    ASSUME IngestInv, Extend \/ \E l \in 1..tip : Fork(l)
    PROVE  IngestInv'
<1>1. chain \in Seq(Int) /\ Len(chain) \in Nat
  BY DEF IngestInv, Recorded
<1>2. Branch(tip) \in Int
  BY <1>1 DEF Branch, tip
<1>3. chain' \in Seq(Int)
  <2>1. CASE Extend
    BY <1>1, <1>2, <2>1 DEF Extend
  <2>2. ASSUME NEW l \in 1..tip, Fork(l)
        PROVE  chain' \in Seq(Int)
    <3>1. chain' = [i \in 1..Len(chain) |-> IF i < l THEN chain[i] ELSE Branch(tip) + 1]
      BY <2>2, Zenon DEF Fork, tip
    <3>2. \A i \in 1..Len(chain) : (IF i < l THEN chain[i] ELSE Branch(tip) + 1) \in Int
      BY <1>1, <1>2
    <3> QED  BY <1>1, <3>1, <3>2
  <2> QED  BY <2>1, <2>2, Zenon
<1>4. /\ headers' = headers /\ cursor' = cursor /\ proc' = proc /\ lease' = lease
      /\ late' = late /\ overlap' = overlap
  BY Zenon DEF Extend, Fork, db, hist
<1>5. Elected'
  BY <1>4, Zenon DEF IngestInv, Elected, Running, isLeader
<1>6. (\A q \in Procs : Memory(proc[q])') /\ Recorded' /\ overlap' \in BOOLEAN
  BY <1>3, <1>4, Zenon DEF IngestInv, Recorded
<1>7. InTurn => InTurn'
  BY <1>4, Zenon DEF InTurn, Running, Sole, Linked, Stored
<1> QED  BY <1>4, <1>5, <1>6, <1>7, Zenon DEF IngestInv

\* The invariant holds of a database without rows.
LEMMA IngestStart ==
    ASSUME IngestInit
    PROVE  IngestInv
<1>1. PICK up \in (SUBSET Writers) \ {{}} :
          proc = [p \in Procs |-> IF p \in up \cup Jobs THEN Idle ELSE [Idle EXCEPT !.pc = "off"]]
  BY Zenon DEF IngestInit
<1>2. \A p \in Procs : /\ Memory(proc[p]) /\ proc[p].from = 0
                       /\ proc[p].pc \in {"idle", "off"} /\ ~ proc[p].borrowed
  BY <1>1 DEF Memory, Idle, NoRecord
<1>3. Recorded
  BY <1>1, IngestAssumption DEF IngestInit, Recorded, Now
<1>4. Elected
  BY <1>2, Zenon DEF Elected, Running
<1>5. Linked /\ overlap = FALSE
  BY Zenon DEF IngestInit, Linked, Stored
<1>6. InTurn
  BY <1>2, <1>5, Zenon DEF InTurn, Running, Below
<1> QED  BY <1>2, <1>3, <1>4, <1>5, <1>6, Zenon DEF IngestInv

\* Every step keeps the invariant.
LEMMA IngestStepKeeps ==
    ASSUME IngestInv, [IngestNext]_ingestVars
    PROVE  IngestInv'
<1>1. CASE UNCHANGED ingestVars
  BY <1>1, Zenon DEF ingestVars, IngestInv, Recorded, Elected, Running, isLeader, Sole,
              InTurn, Linked, Stored
<1>2. ASSUME NEW p \in Procs, Record(p) \/ Recovery(p) \/ Leadership(p) \/ Faulty(p)
      PROVE  IngestInv'
  <2>1. \/ Thinks(p) \/ observe(p) \/ rollbackIndexedState(p) \/ Leads(p)
        \/ heartbeat(p) /\ proc' = proc
    <3>1. CASE Record(p)
      BY <3>1, Zenon DEF Record, Thinks
    <3>2. CASE Recovery(p)
      BY <3>2, Zenon DEF Recovery, Thinks, Leads
    <3>3. CASE Leadership(p)
      <4>1. CASE tryAcquire(p) \/ Stop(p) \/ Restart(p)
        BY <4>1, Zenon DEF Thinks, Leads
      <4>2. CASE heartbeat(p)
        <5>1. CASE proc' = proc
          BY <4>2, <5>1, Zenon
        <5>2. CASE proc' # proc
          BY <4>2, <5>2, Zenon DEF Leads
        <5> QED  BY <5>1, <5>2, Zenon
      <4> QED  BY <3>3, <4>1, <4>2, Zenon DEF Leadership
    <3>4. CASE Faulty(p)
      BY <3>4, Zenon DEF Faulty, Thinks, Leads
    <3> QED  BY <1>2, <3>1, <3>2, <3>3, <3>4, Zenon
  <2> QED
    BY <2>1, ThinkingKeeps, ObservingKeeps, RollbackKeeps, LeadingKeeps, LeaseKeeps, Zenon
<1>3. CASE IngestNext
  BY <1>2, <1>3, ChainKeeps, LeaseKeeps, Zenon DEF IngestNext
<1> QED  BY <1>1, <1>3, Zenon

\* As long as the writers take turns, the stored headers of neighbouring ledgers
\* are parent and child (HeadersLinked): through crashes, failovers, unreadable
\* headers and forks, ingestion builds only on the branch it has headers of.
THEOREM HeadersAlwaysLinked == IngestSpec => []HeadersLinked
<1>1. IngestInit => IngestInv
  BY IngestStart, Zenon
<1>2. IngestInv /\ [IngestNext]_ingestVars => IngestInv'
  BY IngestStepKeeps, Zenon
<1>3. IngestInv => HeadersLinked
  BY Zenon DEF IngestInv, InTurn, HeadersLinked
<1> QED  BY <1>1, <1>2, <1>3, PTL DEF IngestSpec

\* The lease elects, for any number of processes whose leases may lapse beside
\* any standby: a process that runs without the lease is one that was too late
\* to renew it (OneWriter).
THEOREM AlwaysOneWriter == IngestSpec => []OneWriter
<1>1. IngestInit => IngestInv
  BY IngestStart, Zenon
<1>2. IngestInv /\ [IngestNext]_ingestVars => IngestInv'
  BY IngestStepKeeps, Zenon
<1>3. IngestInv => OneWriter
  BY Zenon DEF IngestInv, Elected, OneWriter, Procs
<1> QED  BY <1>1, <1>2, <1>3, PTL DEF IngestSpec

=============================================================================
