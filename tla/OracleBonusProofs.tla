-------------------------- MODULE OracleBonusProofs -------------------------
(* Proofs about the gates of funding. The breaker, the duplicate bound and   *)
(* the gate of OracleRegistry, for any oracles, thresholds and ages, also    *)
(* while prices are read, and the spot price of PriceFeed, for any number of *)
(* sources and any quotes. And about the reputation_bonus contract: a lower  *)
(* rate is granted only when it is earned.                                   *)
EXTENDS PriceFeed, ReputationBonus, ListTheorems, FiniteSetTheorems

(* The reputation_bonus contract.                                            *)

Bill == [freelancer: Users, payer: Users, base: Nat, rate: Nat, status: All]
Standing == [submitted: Nat, paid: Nat, defaulted: Nat, score: Nat]
Tallies == {"submitted", "paid", "defaulted"}

\* The score never promises more than the paid share.
Earned(r) == r.score * r.submitted <= r.paid * Full

\* recalculate_score changes nothing but the score, and rounds it down.
LEMMA RecalculatedScore ==
  ASSUME NEW r \in Standing
  PROVE  LET q == recalculate_score(r) IN
         /\ q \in Standing /\ Earned(q)
         /\ q.submitted = r.submitted /\ q.paid = r.paid /\ q.defaulted = r.defaulted
<1> DEFINE d == IF r.submitted > 1 THEN r.submitted ELSE 1
           p == r.paid * Full
           share == p \div d
           s == IF share < Full THEN share ELSE Full
           q == [r EXCEPT !.score = s]
<1>1. r.submitted \in Nat /\ r.paid \in Nat /\ r.defaulted \in Nat /\ Full \in Nat
  BY BonusAssumption, Zenon DEF Standing
<1>2. d \in Nat /\ d > 0 /\ r.submitted <= d /\ p \in Nat
  BY <1>1
<1> HIDE DEF d, p
<1>3. share \in Nat /\ share * d <= p
  BY <1>2
<1> HIDE DEF share
<1>4. s \in Nat /\ s <= share
  BY <1>1, <1>3
<1> HIDE DEF s
<1>5. s * r.submitted <= p
  <2>1. s * r.submitted <= share * r.submitted
    BY <1>1, <1>3, <1>4
  <2>2. share * r.submitted <= share * d
    BY <1>1, <1>2, <1>3
  <2>3. s * r.submitted \in Nat /\ share * r.submitted \in Nat /\ share * d \in Nat
    BY <1>1, <1>2, <1>3, <1>4
  <2> QED BY <1>2, <1>3, <2>1, <2>2, <2>3
<1>6. /\ q \in Standing /\ q.score = s
      /\ q.submitted = r.submitted /\ q.paid = r.paid /\ q.defaulted = r.defaulted
  BY <1>4, Zenon DEF Standing
<1> HIDE DEF q
<1>7. Earned(q)
  BY <1>5, <1>6, Zenon DEF Earned, p
<1>8. recalculate_score(r) = q
  BY Zenon DEF recalculate_score, q, s, share, p, d
<1> QED BY <1>6, <1>7, <1>8, Zenon

\* One more in the record that is written.
Plus(yes) == IF yes THEN 1 ELSE 0

\* What a call adds to one user's record.
Counted(q, r, kind, yes) ==
    /\ q.submitted = r.submitted + Plus(yes /\ kind = "submitted")
    /\ q.paid = r.paid + Plus(yes /\ kind = "paid")
    /\ q.defaulted = r.defaulted + Plus(yes /\ kind = "defaulted")

\* One record is read, counted up and written back.
LEMMA CountAdds ==
  ASSUME NEW s \in [Users -> Standing], \A x \in Users : Earned(s[x]),
         NEW user \in Users, NEW kind \in Tallies
  PROVE  /\ Count(s, user, kind) \in [Users -> Standing]
         /\ \A x \in Users : /\ Earned(Count(s, user, kind)[x])
                             /\ Counted(Count(s, user, kind)[x], s[x], kind, x = user)
<1> DEFINE r == s[user]
           q == [r EXCEPT ![kind] = @ + 1]
           c == recalculate_score(q)
           t == Count(s, user, kind)
<1>1. r \in Standing /\ r.submitted \in Nat /\ r.paid \in Nat /\ r.defaulted \in Nat
  BY Zenon DEF Standing
<1>2. q \in Standing /\ Counted(q, r, kind, TRUE)
  <2> HIDE DEF r
  <2>1. CASE kind = "submitted"
    BY <1>1, <2>1 DEF Standing, Counted, Plus
  <2>2. CASE kind = "paid"
    BY <1>1, <2>2 DEF Standing, Counted, Plus
  <2>3. CASE kind = "defaulted"
    BY <1>1, <2>3 DEF Standing, Counted, Plus
  <2> QED BY <2>1, <2>2, <2>3, Zenon DEF Tallies
<1>3. t = [s EXCEPT ![user] = c]
  BY Zenon DEF Count
<1> HIDE DEF q
<1>4. c \in Standing /\ Earned(c) /\ Counted(c, r, kind, TRUE)
  BY <1>2, RecalculatedScore, Zenon DEF Counted
<1> HIDE DEF c, t
<1>5. t \in [Users -> Standing] /\ t[user] = c /\ \A x \in Users : x # user => t[x] = s[x]
  BY <1>3, <1>4, Zenon
<1>6. ASSUME NEW x \in Users PROVE Earned(t[x]) /\ Counted(t[x], s[x], kind, x = user)
  <2>1. CASE x = user
    BY <1>4, <1>5, <2>1, Zenon
  <2>2. CASE x # user
    <3>1. s[x].submitted \in Nat /\ s[x].paid \in Nat /\ s[x].defaulted \in Nat
      BY Zenon DEF Standing
    <3> QED BY <1>5, <2>2, <3>1 DEF Counted, Plus
  <2> QED BY <2>1, <2>2, Zenon
<1> QED BY <1>5, <1>6, Zenon DEF t

\* The ids of the invoices in which a user has a role, of some statuses.
InRole(b, role, user, X) == {id \in DOMAIN b : b[id].status \in X /\ b[id][role] = user}
PartsOf(b, user, X) ==
    Cardinality(InRole(b, "freelancer", user, X)) + Cardinality(InRole(b, "payer", user, X))

\* Parts, by role.
LEMMA PartsByRole ==
  ASSUME NEW user, NEW X
  PROVE  Parts(user, X) = PartsOf(bills, user, X) /\ Parts(user, X)' = PartsOf(bills', user, X)
  BY Zenon DEF Parts, PartsOf, InRole

\* Only finitely many invoices.
LEMMA FewInRole ==
  ASSUME NEW b \in Seq(Bill), NEW role, NEW user, NEW X
  PROVE  IsFiniteSet(InRole(b, role, user, X)) /\ Cardinality(InRole(b, role, user, X)) \in Nat
<1>1. IsFiniteSet(DOMAIN b)
  BY SeqIsFunction, FS_Interval
<1>2. InRole(b, role, user, X) \in SUBSET DOMAIN b
  BY Zenon DEF InRole
<1> QED BY <1>1, <1>2, FS_Subset, FS_CardinalityType, Zenon

\* An invoice that comes to count in a role counts once.
LEMMA RoleGrows ==
  ASSUME NEW b \in Seq(Bill), NEW c \in Seq(Bill), NEW role, NEW user, NEW X,
         NEW id, id \notin InRole(b, role, user, X), NEW yes \in BOOLEAN,
         InRole(c, role, user, X)
           = InRole(b, role, user, X) \cup (IF yes THEN {id} ELSE {})
  PROVE  Cardinality(InRole(c, role, user, X))
           = Cardinality(InRole(b, role, user, X)) + Plus(yes)
<1> DEFINE S == InRole(b, role, user, X)
<1>1. IsFiniteSet(S) /\ Cardinality(S) \in Nat
  BY FewInRole, Zenon
<1> HIDE DEF S
<1>2. CASE yes
  <2>1. InRole(c, role, user, X) = S \cup {id}
    BY <1>2, Zenon DEF S
  <2> QED BY <1>1, <1>2, <2>1, FS_AddElement, Zenon DEF Plus, S
<1>3. CASE ~ yes
  <2>1. InRole(c, role, user, X) = S
    BY <1>3, Zenon DEF S
  <2> QED BY <1>1, <1>3, <2>1 DEF Plus, S
<1> QED BY <1>2, <1>3, Zenon

\* Both roles together.
LEMMA PartsGrow ==
  ASSUME NEW b \in Seq(Bill), NEW c \in Seq(Bill), NEW user, NEW X, NEW id,
         id \notin InRole(b, "freelancer", user, X), id \notin InRole(b, "payer", user, X),
         NEW y \in BOOLEAN, NEW z \in BOOLEAN,
         InRole(c, "freelancer", user, X)
           = InRole(b, "freelancer", user, X) \cup (IF y THEN {id} ELSE {}),
         InRole(c, "payer", user, X)
           = InRole(b, "payer", user, X) \cup (IF z THEN {id} ELSE {})
  PROVE  PartsOf(c, user, X) = PartsOf(b, user, X) + Plus(y) + Plus(z)
<1>1. Cardinality(InRole(c, "freelancer", user, X))
        = Cardinality(InRole(b, "freelancer", user, X)) + Plus(y)
  BY RoleGrows
<1>2. Cardinality(InRole(c, "payer", user, X))
        = Cardinality(InRole(b, "payer", user, X)) + Plus(z)
  BY RoleGrows
<1>3. /\ Cardinality(InRole(b, "freelancer", user, X)) \in Nat
      /\ Cardinality(InRole(b, "payer", user, X)) \in Nat
  BY FewInRole, Zenon
<1>4. Plus(y) \in Nat /\ Plus(z) \in Nat
  BY Zenon DEF Plus
<1> QED BY <1>1, <1>2, <1>3, <1>4, SMTT(60) DEF PartsOf

\* What invoice n adds to a user's parts in b, giving those in c.
Submitted(b, c, n, user) ==
    /\ PartsOf(c, user, All)
         = PartsOf(b, user, All) + Plus(n.freelancer = user) + Plus(n.payer = user)
    /\ PartsOf(c, user, {"Paid"}) = PartsOf(b, user, {"Paid"}) + Plus(FALSE) + Plus(FALSE)
    /\ PartsOf(c, user, {"Defaulted"})
         = PartsOf(b, user, {"Defaulted"}) + Plus(FALSE) + Plus(FALSE)

\* A submitted invoice counts among all invoices, for either role.
LEMMA SubmittedParts ==
  ASSUME NEW b \in Seq(Bill), NEW n \in Bill, n.status = "Pending", NEW user
  PROVE  Submitted(b, Append(b, n), n, user)
<1> DEFINE c == Append(b, n)
           id == Len(b) + 1
<1>1. /\ c \in Seq(Bill) /\ Len(b) \in Nat /\ id \in DOMAIN c /\ id \notin DOMAIN b
      /\ DOMAIN c = DOMAIN b \cup {id} /\ c[id] = n
      /\ \A k \in DOMAIN b : c[k] = b[k]
  BY SeqAppended, SeqIsFunction
<1>2. n["freelancer"] = n.freelancer /\ n["payer"] = n.payer
  BY Zenon DEF Bill
<1> HIDE DEF c, id
<1>3. \A role, X : id \notin InRole(b, role, user, X)
  BY <1>1, Zenon DEF InRole
<1>4. ASSUME NEW role, NEW X
      PROVE  InRole(c, role, user, X) = InRole(b, role, user, X)
               \cup (IF "Pending" \in X /\ n[role] = user THEN {id} ELSE {})
  BY <1>1, Zenon DEF InRole
<1>5. PartsOf(c, user, All)
        = PartsOf(b, user, All) + Plus(n.freelancer = user) + Plus(n.payer = user)
  <2>1. /\ InRole(c, "freelancer", user, All) = InRole(b, "freelancer", user, All)
             \cup (IF n.freelancer = user THEN {id} ELSE {})
        /\ InRole(c, "payer", user, All) = InRole(b, "payer", user, All)
             \cup (IF n.payer = user THEN {id} ELSE {})
    BY <1>2, <1>4, Zenon DEF All
  <2> DEFINE y == n.freelancer = user
             z == n.payer = user
  <2>2. /\ y \in BOOLEAN /\ z \in BOOLEAN
        /\ InRole(c, "freelancer", user, All) = InRole(b, "freelancer", user, All)
             \cup (IF y THEN {id} ELSE {})
        /\ InRole(c, "payer", user, All) = InRole(b, "payer", user, All)
             \cup (IF z THEN {id} ELSE {})
        /\ id \notin InRole(b, "freelancer", user, All) /\ id \notin InRole(b, "payer", user, All)
    BY <1>3, <2>1, Zenon
  <2> HIDE DEF y, z
  <2>3. PartsOf(c, user, All) = PartsOf(b, user, All) + Plus(y) + Plus(z)
    BY <1>1, <2>2, PartsGrow, SMTT(60)
  <2> QED BY <2>3, Zenon DEF y, z
<1>6. ASSUME NEW X, "Pending" \notin X
      PROVE  PartsOf(c, user, X) = PartsOf(b, user, X) + Plus(FALSE) + Plus(FALSE)
  <2>1. /\ InRole(c, "freelancer", user, X) = InRole(b, "freelancer", user, X)
             \cup (IF FALSE THEN {id} ELSE {})
        /\ InRole(c, "payer", user, X) = InRole(b, "payer", user, X)
             \cup (IF FALSE THEN {id} ELSE {})
    BY <1>4, <1>6, Zenon
  <2> QED BY <1>1, <1>3, <2>1, PartsGrow, Zenon
<1> QED BY <1>5, <1>6, Zenon DEF c, Submitted

\* What the new status st of invoice n adds.
Closed(b, c, n, st, user) ==
    /\ PartsOf(c, user, All) = PartsOf(b, user, All) + Plus(FALSE) + Plus(FALSE)
    /\ PartsOf(c, user, {"Paid"}) = PartsOf(b, user, {"Paid"})
         + Plus(n.freelancer = user /\ st = "Paid") + Plus(n.payer = user /\ st = "Paid")
    /\ PartsOf(c, user, {"Defaulted"}) = PartsOf(b, user, {"Defaulted"})
         + Plus(n.freelancer = user /\ st = "Defaulted")
         + Plus(n.payer = user /\ st = "Defaulted")

\* A closed invoice comes to count among those of its new status.
LEMMA ClosedParts ==
  ASSUME NEW b \in Seq(Bill), NEW id \in DOMAIN b, b[id].status \in {"Pending", "Funded"},
         NEW st \in {"Paid", "Defaulted"}, NEW user,
         NEW c \in Seq(Bill), DOMAIN c = DOMAIN b,
         c[id].status = st, c[id].freelancer = b[id].freelancer, c[id].payer = b[id].payer,
         \A k \in DOMAIN b : k # id => c[k] = b[k]
  PROVE  Closed(b, c, b[id], st, user)
<1> DEFINE n == c[id]
<1>1. n["freelancer"] = b[id].freelancer /\ n["payer"] = b[id].payer
  BY Zenon
<1>2. n.status = st /\ n = c[id]
  BY Zenon
<1> HIDE DEF n
<1>3. ASSUME NEW role, NEW X, b[id].status \notin X
      PROVE  /\ id \notin InRole(b, role, user, X)
             /\ InRole(c, role, user, X) = InRole(b, role, user, X)
                  \cup (IF n[role] = user /\ st \in X THEN {id} ELSE {})
  BY <1>1, <1>2, <1>3, Zenon DEF InRole
<1>4. ASSUME NEW kept \in {"Paid", "Defaulted"}
      PROVE  PartsOf(c, user, {kept}) = PartsOf(b, user, {kept})
                  + Plus(b[id].freelancer = user /\ st = kept)
                  + Plus(b[id].payer = user /\ st = kept)
  <2> DEFINE X == {kept}
  <2>1. b[id].status \notin X /\ (st \in X <=> st = kept)
    BY Zenon
  <2> HIDE DEF X
  <2>2. /\ InRole(c, "freelancer", user, X) = InRole(b, "freelancer", user, X)
             \cup (IF b[id].freelancer = user /\ st = kept THEN {id} ELSE {})
        /\ InRole(c, "payer", user, X) = InRole(b, "payer", user, X)
             \cup (IF b[id].payer = user /\ st = kept THEN {id} ELSE {})
        /\ id \notin InRole(b, "freelancer", user, X) /\ id \notin InRole(b, "payer", user, X)
    BY <1>1, <1>3, <2>1, SMTT(60)
  <2> DEFINE y == b[id].freelancer = user /\ st = kept
             z == b[id].payer = user /\ st = kept
  <2>3. y \in BOOLEAN /\ z \in BOOLEAN
    BY Zenon
  <2>4. /\ InRole(c, "freelancer", user, X) = InRole(b, "freelancer", user, X)
             \cup (IF y THEN {id} ELSE {})
        /\ InRole(c, "payer", user, X) = InRole(b, "payer", user, X)
             \cup (IF z THEN {id} ELSE {})
    BY <2>2, Zenon
  <2> HIDE DEF y, z
  <2>5. PartsOf(c, user, X) = PartsOf(b, user, X) + Plus(y) + Plus(z)
    BY <1>2, <2>2, <2>3, <2>4, PartsGrow, SMTT(60)
  <2> QED BY <2>5, Zenon DEF X, y, z
<1>5. PartsOf(c, user, All) = PartsOf(b, user, All) + Plus(FALSE) + Plus(FALSE)
  <2>1. ASSUME NEW role \in {"freelancer", "payer"}
        PROVE  InRole(c, role, user, All) = InRole(b, role, user, All)
    BY <1>1, <1>2, Zenon DEF InRole, All
  <2>2. PartsOf(c, user, All) = PartsOf(b, user, All)
    BY <2>1, Zenon DEF PartsOf
  <2>3. PartsOf(b, user, All) \in Nat
    BY FewInRole, SMTT(60) DEF PartsOf
  <2> QED BY <2>2, <2>3 DEF Plus
<1> QED BY <1>4, <1>5, Zenon DEF Closed

\* The records tell what the invoices tell.
Matches(s, b) ==
    \A user \in Users :
        /\ s[user].submitted = PartsOf(b, user, All)
        /\ s[user].paid = PartsOf(b, user, {"Paid"})
        /\ s[user].defaulted = PartsOf(b, user, {"Defaulted"})

\* BonusEarned needs that scores are those of the records, and the records those
\* of the invoices.
BonusInv ==
    /\ config \in [threshold: Nat, bonus: Nat, floor: Nat]
    /\ bills \in Seq(Bill)
    /\ standing \in [Users -> Standing]
    /\ \A user \in Users : Earned(standing[user])
    /\ Matches(standing, bills)

\* Two records, one after the other, which may be one and the same.
LEMMA CountBothAdds ==
  ASSUME NEW s \in [Users -> Standing], \A x \in Users : Earned(s[x]),
         NEW p \in Users, NEW q \in Users, NEW kind \in Tallies
  PROVE  LET t == CountBoth(s, p, q, kind) IN
         /\ t \in [Users -> Standing] /\ \A x \in Users : Earned(t[x])
         /\ \A x \in Users :
              /\ t[x].submitted = s[x].submitted + Plus(x = p /\ kind = "submitted")
                                                 + Plus(x = q /\ kind = "submitted")
              /\ t[x].paid = s[x].paid + Plus(x = p /\ kind = "paid")
                                       + Plus(x = q /\ kind = "paid")
              /\ t[x].defaulted = s[x].defaulted + Plus(x = p /\ kind = "defaulted")
                                                 + Plus(x = q /\ kind = "defaulted")
<1> DEFINE u == Count(s, p, kind)
           t == Count(u, q, kind)
<1>1. /\ u \in [Users -> Standing] /\ \A x \in Users : Earned(u[x])
      /\ \A x \in Users : Counted(u[x], s[x], kind, x = p)
  BY CountAdds, Zenon
<1> HIDE DEF u
<1>2. /\ t \in [Users -> Standing] /\ \A x \in Users : Earned(t[x])
      /\ \A x \in Users : Counted(t[x], u[x], kind, x = q)
  BY <1>1, CountAdds, Zenon
<1> HIDE DEF t
<1>3. CountBoth(s, p, q, kind) = t
  BY Zenon DEF CountBoth, t, u
<1> QED BY <1>1, <1>2, <1>3 DEF Counted

\* submit_invoice: the new rate, the invoice and both records.
LEMMA SubmitEarned ==
  ASSUME BonusInv, NEW f \in Users, NEW p \in Users, NEW base \in BaseRates,
         BonusSubmit(f, p, base)
  PROVE  /\ BonusInv'
         /\ \A id \in DOMAIN bills' \ DOMAIN bills :
               LET b == bills'[id] IN
               /\ b.rate >= config.floor
               /\ b.rate < b.base =>
                     Parts(b.freelancer, {"Paid"}) * Full
                         >= config.threshold * Parts(b.freelancer, All)
<1> DEFINE sc == standing[f].score
           granted == calculate_effective_rate(base, sc)
           n == [freelancer |-> f, payer |-> p, base |-> base, rate |-> granted,
                 status |-> "Pending"]
           t == CountBoth(standing, f, p, "submitted")
<1>1. /\ bills' = Append(bills, n) /\ standing' = t /\ config' = config
  BY Zenon DEF BonusSubmit
<1>2. /\ config.threshold \in Nat /\ config.bonus \in Nat /\ config.floor \in Nat
      /\ base \in Nat /\ Full \in Nat
      /\ standing[f] \in Standing /\ sc \in Nat
      /\ standing[f].submitted \in Nat /\ standing[f].paid \in Nat
  BY BonusAssumption, Zenon DEF BonusInv, Standing
<1>3. granted \in Nat /\ granted >= config.floor /\ (granted < base => sc >= config.threshold)
  <2> HIDE DEF sc
  <2> QED BY <1>2 DEF calculate_effective_rate
<1> HIDE DEF granted
<1>4. /\ n \in Bill /\ n.status = "Pending" /\ n.freelancer = f /\ n.payer = p
      /\ n.rate = granted /\ n.base = base
  BY <1>2, <1>3, Zenon DEF Bill, All
<1> HIDE DEF n
<1>5. bills' \in Seq(Bill) /\ \A id \in DOMAIN bills' \ DOMAIN bills : bills'[id] = n
  <2>1. bills \in Seq(Bill) /\ n \in Bill /\ bills' = Append(bills, n)
    BY <1>1, <1>4, Zenon DEF BonusInv
  <2> QED BY <2>1, AppendedEntry
<1>6. /\ t \in [Users -> Standing] /\ \A x \in Users : Earned(t[x])
      /\ \A x \in Users :
           /\ t[x].submitted = standing[x].submitted + Plus(x = f) + Plus(x = p)
           /\ t[x].paid = standing[x].paid + Plus(FALSE) + Plus(FALSE)
           /\ t[x].defaulted = standing[x].defaulted + Plus(FALSE) + Plus(FALSE)
  <2> DEFINE kind == "submitted"
             v == CountBoth(standing, f, p, kind)
  <2>1. kind \in Tallies /\ kind = "submitted" /\ kind # "paid" /\ kind # "defaulted"
    BY Zenon DEF Tallies
  <2> HIDE DEF kind
  <2>2. /\ v \in [Users -> Standing] /\ \A x \in Users : Earned(v[x])
        /\ \A x \in Users :
             /\ v[x].submitted = standing[x].submitted + Plus(x = f /\ kind = "submitted")
                                                       + Plus(x = p /\ kind = "submitted")
             /\ v[x].paid = standing[x].paid + Plus(x = f /\ kind = "paid")
                                             + Plus(x = p /\ kind = "paid")
             /\ v[x].defaulted = standing[x].defaulted + Plus(x = f /\ kind = "defaulted")
                                                       + Plus(x = p /\ kind = "defaulted")
    BY <2>1, CountBothAdds DEF BonusInv
  <2>3. t = v
    BY Zenon  DEF kind
  <2> HIDE DEF t, v
  <2> QED BY <2>1, <2>2, <2>3, Zenon DEF Plus
<1> HIDE DEF t
<1>7. \A x \in Users :
         /\ PartsOf(bills', x, All) = PartsOf(bills, x, All) + Plus(f = x) + Plus(p = x)
         /\ PartsOf(bills', x, {"Paid"}) = PartsOf(bills, x, {"Paid"}) + Plus(FALSE) + Plus(FALSE)
         /\ PartsOf(bills', x, {"Defaulted"})
              = PartsOf(bills, x, {"Defaulted"}) + Plus(FALSE) + Plus(FALSE)
  <2> TAKE x \in Users
  <2>1. Submitted(bills, bills', n, x)
    BY <1>1, <1>4, SubmittedParts, Zenon DEF BonusInv
  <2> QED BY <1>4, <2>1, Zenon DEF Submitted
<1>8. Matches(standing', bills')
  BY <1>1, <1>6, <1>7 DEF BonusInv, Matches, Plus
<1>9. BonusInv'
  BY <1>1, <1>5, <1>6, <1>8, Zenon DEF BonusInv
<1>10. ASSUME granted < base
       PROVE  Parts(f, {"Paid"}) * Full >= config.threshold * Parts(f, All)
  <2> DEFINE s == standing[f].submitted
             c == config.threshold
  <2>1. Parts(f, {"Paid"}) = standing[f].paid /\ Parts(f, All) = s
    BY PartsByRole, Zenon DEF BonusInv, Matches
  <2>2. sc * s <= standing[f].paid * Full
    BY Zenon DEF BonusInv, Earned
  <2>3. sc >= c /\ c \in Nat /\ s \in Nat
    BY <1>2, <1>3, <1>10, Zenon
  <2> HIDE DEF s, c, sc
  <2>4. c * s <= sc * s
    BY <1>2, <2>3
  <2>5. c * s \in Nat /\ sc * s \in Nat /\ standing[f].paid * Full \in Nat
    BY <1>2, <2>3, SMTT(60)
  <2>6. standing[f].paid * Full >= c * s
    BY <2>2, <2>4, <2>5
  <2> QED BY <2>1, <2>6, Zenon DEF c
<1> QED BY <1>3, <1>4, <1>5, <1>9, <1>10, Zenon

\* mark_paid and handle_default: the invoice and both records.
LEMMA CloseEarned ==
  ASSUME BonusInv, NEW id \in DOMAIN bills, BonusMarkPaid(id) \/ BonusHandleDefault(id)
  PROVE  BonusInv' /\ DOMAIN bills' = DOMAIN bills
<1>1. ASSUME NEW st \in {"Paid", "Defaulted"}, NEW kind \in {"paid", "defaulted"},
             st = "Paid" <=> kind = "paid", CloseInvoice(id, st, kind)
      PROVE  BonusInv' /\ DOMAIN bills' = DOMAIN bills
  <2> DEFINE p == bills[id].payer
             f == bills[id].freelancer
             t == CountBoth(standing, p, f, kind)
  <2>1. /\ bills[id].status \in {"Pending", "Funded"}
        /\ bills' = [bills EXCEPT ![id].status = st]
        /\ standing' = t /\ config' = config
    BY <1>1, Zenon DEF CloseInvoice
  <2>2. p \in Users /\ f \in Users
    <3>1. bills[id] \in Bill
      BY SeqEntry, SeqIsFunction, Zenon DEF BonusInv
    <3> QED BY <3>1, Zenon DEF Bill
  <2>3. /\ bills' \in Seq(Bill) /\ DOMAIN bills' = DOMAIN bills
        /\ \A x \in Users :
             /\ PartsOf(bills', x, All) = PartsOf(bills, x, All) + Plus(FALSE) + Plus(FALSE)
             /\ PartsOf(bills', x, {"Paid"}) = PartsOf(bills, x, {"Paid"})
                  + Plus(f = x /\ st = "Paid") + Plus(p = x /\ st = "Paid")
             /\ PartsOf(bills', x, {"Defaulted"}) = PartsOf(bills, x, {"Defaulted"})
                  + Plus(f = x /\ st = "Defaulted") + Plus(p = x /\ st = "Defaulted")
    <3>1. ASSUME NEW x \in Users
          PROVE  /\ bills' \in Seq(Bill) /\ DOMAIN bills' = DOMAIN bills
                 /\ Closed(bills, bills', bills[id], st, x)
      <4> DEFINE w == [bills[id] EXCEPT !.status = st]
      <4>1. bills \in Seq(Bill) /\ bills[id] \in Bill
        BY SeqEntry, SeqIsFunction, Zenon DEF BonusInv
      <4>2. /\ w \in Bill /\ w.status = st
            /\ w.freelancer = bills[id].freelancer /\ w.payer = bills[id].payer
        BY <4>1, Zenon DEF Bill, All
      <4>3. bills' = [bills EXCEPT ![id] = w]
        BY <2>1, Zenon
      <4> HIDE DEF w
      <4>4. /\ bills' \in Seq(Bill) /\ DOMAIN bills' = DOMAIN bills /\ bills'[id] = w
            /\ \A k \in DOMAIN bills : k # id => bills'[k] = bills[k]
        BY <4>1, <4>2, <4>3, SeqReplaced
      <4>5. /\ bills'[id].status = st /\ bills'[id].freelancer = bills[id].freelancer
            /\ bills'[id].payer = bills[id].payer
        BY <4>2, <4>4, Zenon
      <4> DEFINE c == bills'
      <4>6. /\ c \in Seq(Bill) /\ DOMAIN c = DOMAIN bills
            /\ \A k \in DOMAIN bills : k # id => c[k] = bills[k]
            /\ c[id].status = st /\ c[id].freelancer = bills[id].freelancer
            /\ c[id].payer = bills[id].payer
        BY <4>4, <4>5, Zenon
      <4>7. c = bills'
        BY Zenon
      <4> HIDE DEF c
      <4>8. Closed(bills, c, bills[id], st, x)
        BY <2>1, <4>1, <4>6, ClosedParts, Zenon
      <4> QED BY <4>4, <4>7, <4>8, Zenon
    <3>2. PICK x \in Users : TRUE
      BY <2>2, Zenon
    <3> QED BY <3>1, <3>2, Zenon DEF Closed
  <2> HIDE DEF p, f
  <2>4. /\ t \in [Users -> Standing] /\ \A x \in Users : Earned(t[x])
        /\ \A x \in Users :
             /\ t[x].submitted = standing[x].submitted + Plus(x = p /\ kind = "submitted")
                                                       + Plus(x = f /\ kind = "submitted")
             /\ t[x].paid = standing[x].paid + Plus(x = p /\ kind = "paid")
                                             + Plus(x = f /\ kind = "paid")
             /\ t[x].defaulted = standing[x].defaulted + Plus(x = p /\ kind = "defaulted")
                                                       + Plus(x = f /\ kind = "defaulted")
    BY <2>2, CountBothAdds, SMTT(60) DEF BonusInv, Tallies
  <2> HIDE DEF t
  <2>5. ASSUME NEW x \in Users
        PROVE  /\ t[x].submitted = PartsOf(bills', x, All)
               /\ t[x].paid = PartsOf(bills', x, {"Paid"})
               /\ t[x].defaulted = PartsOf(bills', x, {"Defaulted"})
    <3>1. /\ standing[x].submitted = PartsOf(bills, x, All)
          /\ standing[x].paid = PartsOf(bills, x, {"Paid"})
          /\ standing[x].defaulted = PartsOf(bills, x, {"Defaulted"})
          /\ standing[x].submitted \in Nat /\ standing[x].paid \in Nat
          /\ standing[x].defaulted \in Nat
      BY Zenon  DEF BonusInv, Matches, Standing
    <3>2. /\ kind # "submitted" /\ (kind = "paid" <=> st = "Paid")
          /\ (kind = "defaulted" <=> st = "Defaulted")
      BY <1>1, Zenon
    <3>3. t[x].submitted = PartsOf(bills', x, All)
      <4>1. PartsOf(bills', x, All) = PartsOf(bills, x, All) + Plus(FALSE) + Plus(FALSE)
        BY <2>3, ZenonT(60)
      <4>2. t[x].submitted = standing[x].submitted + Plus(x = p /\ kind = "submitted")
                                                   + Plus(x = f /\ kind = "submitted")
        BY <2>4, Zenon
      <4> QED BY <3>1, <3>2, <4>1, <4>2, Zenon DEF Plus
    <3>4. t[x].paid = PartsOf(bills', x, {"Paid"})
      <4>1. PartsOf(bills', x, {"Paid"}) = PartsOf(bills, x, {"Paid"})
              + Plus(f = x /\ st = "Paid") + Plus(p = x /\ st = "Paid")
        BY <2>3, ZenonT(60)
      <4>2. t[x].paid = standing[x].paid + Plus(x = p /\ kind = "paid")
                                         + Plus(x = f /\ kind = "paid")
        BY <2>4, Zenon
      <4> QED BY <3>1, <3>2, <4>1, <4>2 DEF Plus
    <3>5. t[x].defaulted = PartsOf(bills', x, {"Defaulted"})
      <4>1. PartsOf(bills', x, {"Defaulted"}) = PartsOf(bills, x, {"Defaulted"})
              + Plus(f = x /\ st = "Defaulted") + Plus(p = x /\ st = "Defaulted")
        BY <2>3, Zenon
      <4>2. t[x].defaulted = standing[x].defaulted + Plus(x = p /\ kind = "defaulted")
                                                   + Plus(x = f /\ kind = "defaulted")
        BY <2>4, Zenon
      <4> QED BY <3>1, <3>2, <4>1, <4>2 DEF Plus
    <3> QED BY <3>3, <3>4, <3>5, Zenon
  <2>6. Matches(standing', bills')
    BY <2>1, <2>5, Zenon DEF Matches
  <2> QED BY <2>1, <2>3, <2>4, <2>6, Zenon DEF BonusInv
<1> QED BY <1>1, Zenon DEF BonusMarkPaid, BonusHandleDefault

\* A new contract has no invoices and no records.
LEMMA BonusStarts == BonusInit => BonusInv
<1> SUFFICES ASSUME BonusInit PROVE BonusInv
  BY Zenon
<1>1. /\ config \in [threshold: Nat, bonus: Nat, floor: Nat] /\ bills \in Seq(Bill)
  BY DEF BonusInit, NoConfig
<1>2. standing \in [Users -> Standing] /\ \A x \in Users : standing[x] = Unknown
  BY Zenon DEF BonusInit, Standing, Unknown
<1>3. Earned(Unknown)
  BY BonusAssumption DEF Earned, Unknown
<1>4. \A x, X : PartsOf(bills, x, X) = 0
  <2>1. \A role, x, X : InRole(bills, role, x, X) = {}
    BY DEF BonusInit, InRole
  <2> QED BY <2>1, FS_EmptySet DEF PartsOf
<1>5. Matches(standing, bills)
  BY <1>2, <1>4, SMTT(60) DEF Matches, Unknown
<1> QED BY <1>1, <1>2, <1>3, <1>5, Zenon DEF BonusInv

\* Settings touch neither invoices nor records.
LEMMA BonusSettingsKeep ==
  ASSUME BonusInv,
         \/ \E user \in Users : BonusInitialize(user)
         \/ \E c \in Configs : SetConfig(c) \/ UpdateConfig(c)
         \/ UNCHANGED bonusVars
  PROVE  BonusInv' /\ bills' = bills
<1>1. UNCHANGED <<bills, standing>> /\ (config' = config \/ config' \in Configs)
  BY Zenon DEF BonusInitialize, SetConfig, UpdateConfig, bonusVars
<1>2. config' \in [threshold: Nat, bonus: Nat, floor: Nat]
  BY <1>1, BonusAssumption, Zenon DEF BonusInv
<1> QED BY <1>1, <1>2, Zenon DEF BonusInv, Matches

\* Whenever invoices change the stored reputation is that of the invoices, and a
\* lower rate is granted only for the required share of settled invoices, for any
\* users, configurations and rates, also to who invoices oneself
\* (submit_invoice, mark_paid and handle_default of reputation_bonus).
THEOREM BonusAlwaysEarned == BonusSpec => BonusEarned
<1> DEFINE Fair == bills' # bills =>
         /\ \A user \in Users :
               /\ standing'[user].submitted = Parts(user, All)'
               /\ standing'[user].paid = Parts(user, {"Paid"})'
               /\ standing'[user].defaulted = Parts(user, {"Defaulted"})'
         /\ \A id \in DOMAIN bills' \ DOMAIN bills :
               LET b == bills'[id] IN
               /\ b.rate >= config.floor
               /\ b.rate < b.base =>
                     Parts(b.freelancer, {"Paid"}) * Full
                         >= config.threshold * Parts(b.freelancer, All)
<1>1. BonusInv /\ [BonusNext]_bonusVars => BonusInv' /\ [Fair]_bonusVars
  <2> SUFFICES ASSUME BonusInv, [BonusNext]_bonusVars PROVE BonusInv' /\ Fair
    BY Zenon
  <2>1. ASSUME BonusInv'
        PROVE  \A user \in Users :
               /\ standing'[user].submitted = Parts(user, All)'
               /\ standing'[user].paid = Parts(user, {"Paid"})'
               /\ standing'[user].defaulted = Parts(user, {"Defaulted"})'
    BY <2>1, PartsByRole DEF BonusInv, Matches
  <2>2. CASE \E f, p \in Users, base \in BaseRates : BonusSubmit(f, p, base)
    BY <2>1, <2>2, SubmitEarned, Zenon
  <2>3. CASE \E id \in DOMAIN bills : BonusMarkPaid(id) \/ BonusHandleDefault(id)
    <3>1. BonusInv' /\ DOMAIN bills' = DOMAIN bills
      BY <2>3, CloseEarned, Zenon
    <3> QED BY <2>1, <3>1, Zenon
  <2>4. CASE \/ \E user \in Users : BonusInitialize(user)
             \/ \E c \in Configs : SetConfig(c) \/ UpdateConfig(c)
             \/ UNCHANGED bonusVars
    BY <2>4, BonusSettingsKeep, Zenon
  <2> QED BY <2>2, <2>3, <2>4, ZenonT(60) DEF BonusNext
<1> QED BY <1>1, BonusStarts, PTL DEF BonusSpec, BonusEarned

-----------------------------------------------------------------------------

(* The oracle registry and the price feed: the inductive invariant, part by *)
(* part.                                                                    *)

SettingsOK ==
    /\ chain \in [Levels -> Oracles \cup {None}]
    /\ feeders \subseteq Oracles
    /\ quorum \in Nat /\ quorum > 0
    /\ maxAge \in Nat
    /\ now \in Nat /\ now > 0

SeenOK ==
    /\ seen \in [Oracles -> [stale: Nat, fresh: Nat, since: Nat]]
    /\ \A o \in Oracles : seen[o].since <= now

\* The snapshot never claims more stale answers than there were.
HealthOK ==
    health # None =>
        /\ health \in Snapshot
        /\ health.stale <=> health.nstale > 0
        /\ health.nstale <= seen[health.oracle].stale
        /\ health.ndup <= MaxDup

\* The recovery streak lies within the run of fresh answers of its oracle.
BreakerOK ==
    /\ tripped \in BOOLEAN
    /\ tripped <=> recovery # None
    /\ tripped => health # None
    /\ recovery # None =>
          /\ recovery \in Recovery
          /\ recovery.healthy = 0 <=> recovery.first = 0
          /\ recovery.healthy <= seen[recovery.oracle].fresh
          /\ recovery.healthy > 0 => seen[recovery.oracle].since <= recovery.first

\* The duplicate counter keeps up with the fundings on one answer.
ServedOK ==
    /\ served \in [oracle: Oracles \cup {None}, ts: Nat, times: Nat]
    /\ served.oracle = None => served.times = 0
    /\ served.oracle # None =>
          /\ health # None
          /\ health.oracle = served.oracle
          /\ health.ts = served.ts
          /\ served.times <= health.ndup + 1

IInv == SettingsOK /\ SeenOK /\ HealthOK /\ BreakerOK /\ ServedOK

\* A saturating counter stays between 0 and its limit and never overstates.
LEMMA SaturatedType ==
  ASSUME NEW n \in Nat, NEW limit \in Nat
  PROVE  /\ Saturated(n, limit) \in Nat
         /\ Saturated(n, limit) <= limit
         /\ Saturated(n, limit) <= n
  BY DEF Saturated

\* Saturation keeps the order of counts.
LEMMA SaturatedMonotone ==
  ASSUME NEW m \in Nat, NEW n \in Nat, NEW limit \in Nat, m <= n
  PROVE  Saturated(m, limit) <= Saturated(n, limit)
  BY DEF Saturated

\* Resolution yields a registered oracle or none.
LEMMA FirstIn ==
  ASSUME NEW S \in SUBSET Levels, S # {}
  PROVE  First(S) \in S
<1>1. \E k \in S : \A l \in S : k <= l
  <2>1. CASE 1 \in S
    BY <2>1 DEF Levels
  <2>2. CASE 1 \notin S /\ 2 \in S
    <3>1. \A l \in S : 2 <= l
      BY <2>2 DEF Levels
    <3> QED
      BY <2>2, <3>1, Zenon
  <2>3. CASE 1 \notin S /\ 2 \notin S
    <3>1. \A l \in S : l = 3
      BY <2>3 DEF Levels
    <3> QED
      BY <3>1
  <2> QED
    BY <2>1, <2>2, <2>3, Zenon
<1> QED
  BY <1>1, Zenon DEF First

\* Both resolutions yield an oracle or none, never a dangling entry.
LEMMA Resolved ==
  ASSUME SettingsOK
  PROVE  /\ resolve_oracle \in Oracles \cup {None}
         /\ resolve_oracle_for_verification \in Oracles \cup {None}
<1>1. ASSUME NEW S \in SUBSET Registered, S # {}
      PROVE  chain[First(S)] \in Oracles
  <2>1. First(S) \in S
    BY <1>1, FirstIn, Zenon DEF Registered
  <2> QED
    BY <1>1, <2>1, Zenon DEF Registered, SettingsOK
<1>2. resolve_oracle \in Oracles \cup {None}
  BY <1>1, Zenon DEF resolve_oracle
<1>3. resolve_oracle_for_verification \in Oracles \cup {None}
  <2> DEFINE usable == {k \in Registered : ~ is_excluded(chain[k])}
  <2>1. usable \in SUBSET Registered
    BY Zenon
  <2> HIDE DEF usable
  <2>2. usable # {} => chain[First(usable)] \in Oracles
    BY <1>1, <2>1, Zenon
  <2> QED
    BY <2>2, Zenon DEF resolve_oracle_for_verification, usable
<1> QED
  BY <1>2, <1>3, Zenon

-----------------------------------------------------------------------------
(* What recording one answer does.                                          *)

\* The history after an answer of oracle o.
LEMMA NoteKeeps ==
  ASSUME SettingsOK, SeenOK, now' = now, NEW o \in Oracles, NEW stale \in BOOLEAN,
         Note(o, stale)
  PROVE  /\ SeenOK'
         /\ \A p \in Oracles : p # o => seen'[p] = seen[p]
         /\ stale => /\ seen'[o].stale = Saturated(seen[o].stale + 1, MaxStale)
                     /\ seen'[o].fresh = 0
         /\ ~ stale =>
               /\ seen'[o].fresh = Saturated(seen[o].fresh + 1, RecoverObs)
               /\ seen'[o].since = IF seen[o].fresh = 0 THEN now ELSE seen[o].since
<1> DEFINE w == IF stale
                THEN [stale |-> Saturated(seen[o].stale + 1, MaxStale), fresh |-> 0, since |-> 0]
                ELSE [stale |-> 0, fresh |-> Saturated(seen[o].fresh + 1, RecoverObs),
                      since |-> IF seen[o].fresh = 0 THEN now ELSE seen[o].since]
<1>0. MaxStale \in Nat /\ RecoverObs \in Nat /\ now \in Nat
  BY OracleAssumption, Zenon DEF SettingsOK
<1>1. seen[o] \in [stale: Nat, fresh: Nat, since: Nat] /\ seen[o].since <= now
  BY Zenon DEF SeenOK
<1>2. /\ seen[o].stale + 1 \in Nat /\ seen[o].fresh + 1 \in Nat /\ seen[o].since \in Nat
  BY <1>1
<1>3. /\ Saturated(seen[o].stale + 1, MaxStale) \in Nat
      /\ Saturated(seen[o].fresh + 1, RecoverObs) \in Nat
  BY <1>0, <1>2, SaturatedType, Zenon
<1>4. w \in [stale: Nat, fresh: Nat, since: Nat] /\ w.since <= now
  BY <1>0, <1>1, <1>2, <1>3
<1>5. seen' = [seen EXCEPT ![o] = w]
  BY Zenon DEF Note
<1>6. seen'[o] = w /\ \A p \in Oracles : p # o => seen'[p] = seen[p]
  BY <1>5, Zenon DEF SeenOK
<1>7. /\ stale => w.stale = Saturated(seen[o].stale + 1, MaxStale) /\ w.fresh = 0
      /\ ~ stale => /\ w.fresh = Saturated(seen[o].fresh + 1, RecoverObs)
                    /\ w.since = IF seen[o].fresh = 0 THEN now ELSE seen[o].since
  BY Zenon
<1> HIDE DEF w
<1>8. SeenOK'
  BY <1>4, <1>5, <1>6, Zenon DEF SeenOK
<1> QED
  BY <1>6, <1>7, <1>8, Zenon

\* The snapshot after an answer of oracle o.
LEMMA SnapshotKeeps ==
  ASSUME IInv, now' = now, NEW o \in Oracles, NEW ts \in Nat,
         record_oracle_health(o, ts)
  PROVE  /\ SeenOK' /\ HealthOK'
         /\ health' # None /\ health'.oracle = o /\ health'.ts = ts
         /\ health'.stale = is_oracle_data_stale(ts)
         /\ health'.ndup = DuplicateStreak(o, ts)
         /\ health'.nstale = IF is_oracle_data_stale(ts) THEN StaleStreak(o) ELSE 0
<1> DEFINE stale == is_oracle_data_stale(ts)
           nstale == IF stale THEN StaleStreak(o) ELSE 0
           ndup == DuplicateStreak(o, ts)
<1>0. /\ MaxStale \in Nat /\ MaxStale > 0 /\ MaxDup \in Nat
      /\ None \notin Snapshot
  <2>1. MaxStale \in Nat \ {0}
    BY OracleAssumption, Zenon
  <2> QED
    BY <2>1, OracleAssumption
<1>1. stale \in BOOLEAN
  BY Zenon DEF is_oracle_data_stale
<1>2. Note(o, stale)
  BY Zenon DEF record_oracle_health
<1>3. health' = [oracle |-> o, ts |-> ts, stale |-> stale, nstale |-> nstale, ndup |-> ndup]
  BY Zenon DEF record_oracle_health
<1>4. Observed(o) => /\ health \in Snapshot /\ health.oracle = o
                     /\ health.nstale \in Nat /\ health.ndup \in Nat
                     /\ health.nstale <= seen[o].stale
  BY Zenon DEF IInv, HealthOK, Observed, Snapshot
<1>5. seen[o].stale \in Nat
  BY Zenon DEF IInv, SeenOK
<1>6. StaleStreak(o) \in Nat /\ StaleStreak(o) > 0
      /\ StaleStreak(o) <= Saturated(seen[o].stale + 1, MaxStale)
  BY <1>0, <1>4, <1>5 DEF StaleStreak, Saturated
<1>7. ndup \in Nat /\ ndup <= MaxDup
  BY <1>0, <1>4 DEF DuplicateStreak, Saturated
<1>8. nstale \in Nat /\ (stale <=> nstale > 0)
  BY <1>1, <1>6
<1>9. SeenOK' /\ (stale => seen'[o].stale = Saturated(seen[o].stale + 1, MaxStale))
  BY <1>1, <1>2, NoteKeeps, Zenon DEF IInv
<1>10. nstale <= seen'[o].stale
  <2>1. CASE stale
    BY <2>1, <1>6, <1>9, Zenon
  <2>2. CASE ~ stale
    <3>1. seen'[o].stale \in Nat
      BY <1>9, Zenon DEF SeenOK
    <3> QED
      BY <2>2, <3>1
  <2> QED
    BY <1>1, <2>1, <2>2, Zenon
<1> HIDE DEF stale, nstale, ndup
<1>11. health' \in Snapshot
  BY <1>1, <1>3, <1>7, <1>8, Zenon DEF Snapshot
<1>12. /\ health'.oracle = o /\ health'.ts = ts /\ health'.stale = stale
       /\ health'.nstale = nstale /\ health'.ndup = ndup
  BY <1>3, Zenon
<1>13. health' # None
  BY <1>0, <1>11, Zenon
<1>14. HealthOK'
  BY <1>7, <1>8, <1>10, <1>11, <1>12, Zenon DEF HealthOK
<1> QED
  BY <1>9, <1>12, <1>13, <1>14, Zenon DEF stale, nstale, ndup


\* The oracle that opens the breaker has earned it.
Tripping ==
    ~ tripped /\ tripped' =>
        /\ recovery'.oracle = health'.oracle
        /\ seen'[health'.oracle].stale >= MaxStale

\* The oracle that closes the breaker has earned it.
Recovering ==
    tripped /\ ~ tripped' =>
        /\ health'.oracle = recovery.oracle
        /\ seen'[recovery.oracle].fresh >= RecoverObs
        /\ now - seen'[recovery.oracle].since >= RecoverLedgers

\* The breaker after an answer of oracle o.
LEMMA RecordKeeps ==
  ASSUME IInv, now' = now, NEW o \in Oracles, NEW ts \in Nat,
         record_oracle_health(o, ts)
  PROVE  BreakerOK' /\ Tripping /\ Recovering
<1> DEFINE stale == is_oracle_data_stale(ts)
           nstale == IF stale THEN StaleStreak(o) ELSE 0
           trips == stale /\ nstale >= MaxStale /\ ~ tripped
           r == IF trips THEN [oracle |-> o, healthy |-> 0, first |-> 0] ELSE recovery
           healthy == ~ stale /\ (Observed(o) => ts > health.ts)
           open == tripped \/ trips
           first == IF r.healthy = 0 THEN now ELSE r.first
           n == Saturated(r.healthy + 1, RecoverObs)
<1>0. /\ RecoverObs \in Nat /\ RecoverObs > 0 /\ RecoverLedgers \in Nat
      /\ MaxStale \in Nat /\ now \in Nat /\ now > 0 /\ None \notin Recovery
  <2>1. RecoverObs \in Nat \ {0} /\ MaxStale \in Nat \ {0}
    BY OracleAssumption, Zenon
  <2> QED
    BY <2>1, OracleAssumption DEF IInv, SettingsOK
<1>1. /\ SeenOK' /\ HealthOK' /\ health' # None /\ health'.oracle = o
      /\ health'.nstale = nstale
  BY SnapshotKeeps, Zenon
<1>2. stale \in BOOLEAN
  BY Zenon DEF is_oracle_data_stale
<1>3. Note(o, stale) /\ maybe_recover_oracle_circuit(o, healthy, open, r)
  BY Zenon DEF record_oracle_health
<1>4. /\ \A p \in Oracles : p # o => seen'[p] = seen[p]
      /\ stale => seen'[o].fresh = 0
      /\ ~ stale => /\ seen'[o].fresh = Saturated(seen[o].fresh + 1, RecoverObs)
                    /\ seen'[o].since = IF seen[o].fresh = 0 THEN now ELSE seen[o].since
  BY <1>2, <1>3, NoteKeeps, Zenon DEF IInv
<1>5. \A p \in Oracles : /\ seen[p].fresh \in Nat /\ seen[p].since \in Nat
                         /\ seen[p].since <= now /\ seen'[p].fresh \in Nat
                         /\ seen'[p].since \in Nat
  BY <1>1, Zenon DEF IInv, SeenOK
<1>6. trips => seen'[o].stale >= MaxStale
  <2>1. nstale <= seen'[o].stale /\ seen'[o].stale \in Nat /\ nstale \in Nat
    BY <1>1, Zenon DEF HealthOK, SeenOK, Snapshot
  <2> QED
    BY <1>0, <2>1
<1> HIDE DEF stale, nstale
<1>7. tripped \in BOOLEAN /\ trips \in BOOLEAN /\ open \in BOOLEAN /\ (tripped => ~ trips)
  BY Zenon DEF IInv, BreakerOK
<1>8. open <=> r # None
  <2>1. [oracle |-> o, healthy |-> 0, first |-> 0] \in Recovery
    BY Zenon DEF Recovery
  <2> QED
    BY <1>0, <1>7, <2>1, Zenon DEF IInv, BreakerOK
\* The record that maybe_recover_oracle_circuit starts from fits the history
\* as it was.
<1>9. open => /\ r \in Recovery
              /\ r.oracle \in Oracles /\ r.healthy \in Nat /\ r.first \in Nat
              /\ r.healthy = 0 <=> r.first = 0
              /\ r.healthy <= seen[r.oracle].fresh
              /\ r.healthy > 0 => seen[r.oracle].since <= r.first
              /\ trips => r.oracle = o
              /\ ~ trips => r = recovery
  <2>1. CASE trips
    <3>1. r = [oracle |-> o, healthy |-> 0, first |-> 0]
      BY <2>1, Zenon
    <3>2. r \in Recovery /\ r.oracle = o /\ r.healthy = 0 /\ r.first = 0
      BY <3>1 DEF Recovery
    <3>3. seen[o].fresh \in Nat
      BY <1>5, Zenon
    <3> HIDE DEF r, trips, open, healthy
    <3> QED
      BY <2>1, <3>2, <3>3
  <2>2. CASE ~ trips /\ tripped
    <3>1. r = recovery /\ recovery # None
      BY <2>2, Zenon DEF IInv, BreakerOK
    <3>2. recovery \in Recovery
      BY <3>1, Zenon DEF IInv, BreakerOK
    <3>3. recovery.oracle \in Oracles /\ recovery.healthy \in Nat /\ recovery.first \in Nat
      BY <3>2, Zenon DEF Recovery
    <3>4. /\ recovery.healthy = 0 <=> recovery.first = 0
          /\ recovery.healthy <= seen[recovery.oracle].fresh
          /\ recovery.healthy > 0 => seen[recovery.oracle].since <= recovery.first
      BY <3>1, Zenon DEF IInv, BreakerOK
    <3> HIDE DEF r, trips, open, healthy
    <3> QED
      BY <2>2, <3>1, <3>2, <3>3, <3>4, Zenon
  <2> QED
    BY <1>7, <2>1, <2>2, Zenon
<1> HIDE DEF trips, r, healthy, open
<1>10. CASE ~ open
  <2>1. tripped' = open /\ recovery' = r
    BY <1>3, <1>10, Zenon DEF maybe_recover_oracle_circuit
  <2>2. ~ tripped
    BY <1>7, <1>10, Zenon DEF open
  <2>3. tripped' = FALSE /\ recovery' = None
    BY <1>7, <1>8, <1>10, <2>1, Zenon
  <2> QED
    BY <2>2, <2>3, Zenon DEF BreakerOK, Tripping, Recovering
<1>11. CASE open /\ r.oracle # o
  <2>1. tripped' = TRUE /\ recovery' = r
    BY <1>3, <1>8, <1>11, Zenon DEF maybe_recover_oracle_circuit
  <2>2. seen'[r.oracle] = seen[r.oracle]
    BY <1>4, <1>9, <1>11, Zenon
  <2>3. ~ trips
    BY <1>9, <1>11, Zenon
  <2>4. tripped
    BY <1>11, <2>3, Zenon DEF open
  <2>5. BreakerOK'
    BY <1>1, <1>8, <1>9, <1>11, <2>1, <2>2, Zenon DEF BreakerOK
  <2> QED
    BY <2>1, <2>4, <2>5, Zenon DEF Tripping, Recovering
<1>12. CASE open /\ r.oracle = o /\ ~ healthy
  <2>1. tripped' = TRUE /\ recovery' = [r EXCEPT !.healthy = 0, !.first = 0]
    BY <1>3, <1>8, <1>12, Zenon DEF maybe_recover_oracle_circuit, BreakStreak
  <2>2. /\ recovery' \in Recovery /\ recovery'.oracle = o
        /\ recovery'.healthy = 0 /\ recovery'.first = 0
    BY <1>9, <1>12, <2>1, Zenon DEF Recovery
  <2>3. BreakerOK'
    BY <1>0, <1>1, <1>5, <2>1, <2>2 DEF BreakerOK
  <2>4. ~ tripped => trips
    BY <1>12, Zenon DEF open
  <2> QED
    BY <1>1, <1>6, <2>1, <2>2, <2>3, <2>4, Zenon DEF Tripping, Recovering
<1>13. CASE open /\ r.oracle = o /\ healthy
  <2>1. ~ stale /\ ~ trips /\ tripped /\ r = recovery
    BY <1>9, <1>13, Zenon DEF healthy, trips, open
  <2>2. /\ first \in Nat /\ first > 0 /\ n \in Nat /\ n > 0
        /\ n <= seen'[o].fresh
        /\ seen'[o].since <= first
    <3>1. /\ r.healthy \in Nat /\ r.first \in Nat /\ r.healthy <= seen[o].fresh
          /\ (r.healthy = 0 <=> r.first = 0)
          /\ (r.healthy > 0 => seen[o].since <= r.first)
      BY <1>9, <1>13, Zenon
    <3>2. n \in Nat /\ n > 0 /\ n <= Saturated(seen[o].fresh + 1, RecoverObs)
      BY <1>0, <1>5, <3>1 DEF Saturated
    <3>3. first \in Nat /\ first > 0 /\ seen'[o].since <= first
      BY <1>0, <1>4, <1>5, <2>1, <3>1
    <3> QED
      BY <1>4, <2>1, <3>2, <3>3, Zenon
  <2>3. CASE n >= RecoverObs /\ now - first >= RecoverLedgers
    <3>1. tripped' = FALSE /\ recovery' = None
      BY <1>3, <1>8, <1>13, <2>3, Zenon DEF maybe_recover_oracle_circuit
    <3>2. seen'[o].fresh >= RecoverObs /\ now - seen'[o].since >= RecoverLedgers
      BY <1>0, <1>5, <2>2, <2>3
    <3> QED
      BY <1>1, <1>13, <2>1, <3>1, <3>2, Zenon DEF BreakerOK, Tripping, Recovering
  <2>4. CASE ~ (n >= RecoverObs /\ now - first >= RecoverLedgers)
    <3>1. tripped' = TRUE /\ recovery' = [r EXCEPT !.healthy = n, !.first = first]
      BY <1>3, <1>8, <1>13, <2>4, Zenon DEF maybe_recover_oracle_circuit
    <3> HIDE DEF n, first
    <3>2. /\ recovery' \in Recovery /\ recovery'.oracle = o
          /\ recovery'.healthy = n /\ recovery'.first = first
      BY <1>9, <1>13, <2>2, <3>1, Zenon DEF Recovery
    <3>3. BreakerOK'
      BY <1>0, <1>1, <2>2, <3>1, <3>2 DEF BreakerOK
    <3> QED
      BY <2>1, <3>1, <3>3, Zenon DEF Tripping, Recovering
  <2> QED
    BY <2>3, <2>4, Zenon
<1> QED
  BY <1>10, <1>11, <1>12, <1>13, Zenon

-----------------------------------------------------------------------------
(* The steps.                                                               *)

\* While one answer is repeated the duplicate counter does not fall, and it
\* grows when the gate lets the answer pass.
LEMMA CounterKeepsUp ==
  ASSUME IInv, NEW o \in Oracles, NEW ts \in Nat
  PROVE  /\ DuplicateStreak(o, ts) \in Nat
         /\ served.oracle = o /\ served.ts = ts =>
               /\ served.times <= DuplicateStreak(o, ts) + 1
               /\ PassesChecks(o, ts) => served.times + 1 <= DuplicateStreak(o, ts) + 1
<1>0. MaxDup \in Nat /\ None \notin Oracles
  BY OracleAssumption, Zenon
<1>1. health # None => health.ndup \in Nat /\ health.ndup <= MaxDup
  BY Zenon DEF IInv, HealthOK, Snapshot
<1>2. DuplicateStreak(o, ts) \in Nat
  BY <1>0, <1>1 DEF DuplicateStreak, Saturated, Observed
<1>3. ASSUME served.oracle = o, served.ts = ts
      PROVE  /\ served.times <= DuplicateStreak(o, ts) + 1
             /\ PassesChecks(o, ts) => served.times + 1 <= DuplicateStreak(o, ts) + 1
  <2>1. /\ health # None /\ health.oracle = o /\ health.ts = ts
        /\ served.times \in Nat /\ served.times <= health.ndup + 1
    BY <1>0, <1>3, Zenon DEF IInv, ServedOK
  <2>2. DuplicateStreak(o, ts) = Saturated(health.ndup + 1, MaxDup)
    BY <2>1, Zenon DEF DuplicateStreak, Observed
  <2>3. PassesChecks(o, ts) => health.ndup < MaxDup
    BY <1>0, <1>1, <2>1 DEF PassesChecks, is_oracle_data_duplicate_update, Observed
  <2> QED
    BY <1>0, <1>1, <2>1, <2>2, <2>3 DEF Saturated
<1> QED
  BY <1>2, <1>3, Zenon

\* A query that does not fund.
LEMMA QueryKeeps ==
  ASSUME IInv, NEW o \in Oracles, NEW ts \in Nat,
         record_oracle_health(o, ts), Interrupt(o, ts), UNCHANGED <<settings, now>>
  PROVE  IInv'
<1>0. None \notin Oracles
  BY OracleAssumption, Zenon
<1>1. now' = now
  BY Zenon
<1>2. SettingsOK'
  BY Zenon DEF IInv, SettingsOK, settings
<1>3. /\ SeenOK' /\ HealthOK' /\ health' # None /\ health'.oracle = o /\ health'.ts = ts
      /\ health'.ndup = DuplicateStreak(o, ts)
  BY <1>1, SnapshotKeeps, Zenon
<1>4. BreakerOK'
  BY <1>1, RecordKeeps, Zenon
<1>5. ServedOK'
  <2>1. CASE served.oracle = o /\ served.ts = ts
    <3>1. served' = served
      BY <2>1, Zenon DEF Interrupt
    <3>2. served.times <= DuplicateStreak(o, ts) + 1
      BY <2>1, CounterKeepsUp, Zenon
    <3> QED
      BY <1>0, <1>3, <2>1, <3>1, <3>2, Zenon DEF IInv, ServedOK
  <2>2. CASE ~ (served.oracle = o /\ served.ts = ts)
    <3>1. served' = [oracle |-> None, ts |-> 0, times |-> 0]
      BY <2>2, Zenon DEF Interrupt
    <3> QED
      BY <3>1, Zenon DEF ServedOK
  <2> QED
    BY <2>1, <2>2, Zenon
<1> QED
  BY <1>2, <1>3, <1>4, <1>5, Zenon DEF IInv

\* What a query of either kind asks.
LEMMA QueryAsks ==
  ASSUME IInv, CheckOracleHealth \/ CheckOracleVerification
  PROVE  /\ UNCHANGED <<settings, now>> /\ gate' = None
         /\ \E o \in Oracles, ts \in Nat : record_oracle_health(o, ts) /\ Interrupt(o, ts)
<1>1. Times \subseteq Nat
  BY DEF IInv, SettingsOK, Times
<1>2. /\ resolve_oracle \in Oracles \cup {None}
      /\ resolve_oracle_for_verification \in Oracles \cup {None}
  BY Resolved, Zenon DEF IInv
<1>3. CASE CheckOracleHealth
  <2>1. resolve_oracle \in Oracles
    BY <1>2, <1>3, Zenon DEF CheckOracleHealth
  <2>2. \E ts \in Times : /\ record_oracle_health(resolve_oracle, ts)
                          /\ Interrupt(resolve_oracle, ts)
    BY <1>3, Zenon DEF CheckOracleHealth
  <2>3. UNCHANGED <<settings, now>> /\ gate' = None
    BY <1>3, Zenon DEF CheckOracleHealth
  <2> QED
    BY <1>1, <2>1, <2>2, <2>3, Zenon
<1>4. CASE CheckOracleVerification
  <2> DEFINE o == resolve_oracle_for_verification
  <2>1. o \in Oracles
    BY <1>2, <1>4, Zenon DEF CheckOracleVerification
  <2>2. \E ts \in Times : record_oracle_health(o, ts) /\ Interrupt(o, ts)
    BY <1>4, Zenon DEF CheckOracleVerification
  <2>3. UNCHANGED <<settings, now>> /\ gate' = None
    BY <1>4, Zenon DEF CheckOracleVerification
  <2> HIDE DEF o
  <2> QED
    BY <1>1, <2>1, <2>2, <2>3, Zenon
<1> QED
  BY <1>3, <1>4, Zenon

\* What a funding by a single oracle did.
LEMMA FundingAsks ==
  ASSUME IInv, FundBySingleOracle
  PROVE  /\ UNCHANGED <<settings, now>> /\ feeders = {}
         /\ \E o \in Oracles, ts \in Nat :
               /\ PassesChecks(o, ts) /\ ~ is_oracle_data_stale(ts)
               /\ record_oracle_health(o, ts)
               /\ served' = [oracle |-> o, ts |-> ts,
                             times |-> IF served.oracle = o /\ served.ts = ts
                                       THEN Saturated(served.times + 1, MaxDup + 2) ELSE 1]
               /\ gate' = [path |-> "single", agreed |-> {o}]
<1> DEFINE o == resolve_oracle_for_verification
<1>1. Times \subseteq Nat
  BY DEF IInv, SettingsOK, Times
<1>2. o \in Oracles
  BY Resolved, Zenon DEF IInv, FundBySingleOracle
<1>3. PICK a \in Answers :
        /\ PassesChecks(o, a.ts) /\ Verifies(a) /\ record_oracle_health(o, a.ts)
        /\ served' = [oracle |-> o, ts |-> a.ts,
                      times |-> IF served.oracle = o /\ served.ts = a.ts
                                THEN Saturated(served.times + 1, MaxDup + 2) ELSE 1]
  BY Zenon DEF FundBySingleOracle
<1>4. a.ts \in Nat
  BY <1>1, Zenon DEF Answers
<1>5. ~ is_oracle_data_stale(a.ts)
  BY <1>3, Zenon DEF Verifies
<1>6. /\ UNCHANGED <<settings, now>> /\ feeders = {}
      /\ gate' = [path |-> "single", agreed |-> {o}]
  BY Zenon DEF FundBySingleOracle
<1> HIDE DEF o
<1> QED
  BY <1>2, <1>3, <1>4, <1>5, <1>6, Zenon

\* A funding checked against one oracle records its answer and keeps IInv.
LEMMA FundingKeeps ==
  ASSUME IInv, FundBySingleOracle
  PROVE  IInv'
<1>1. PICK o \in Oracles, ts \in Nat :
        /\ PassesChecks(o, ts) /\ record_oracle_health(o, ts)
        /\ served' = [oracle |-> o, ts |-> ts,
                      times |-> IF served.oracle = o /\ served.ts = ts
                                THEN Saturated(served.times + 1, MaxDup + 2) ELSE 1]
  BY FundingAsks, Zenon
<1>2. UNCHANGED <<settings, now>>
  BY FundingAsks, Zenon
<1>3. SettingsOK'
  BY <1>2, Zenon DEF IInv, SettingsOK, settings
<1>4. /\ SeenOK' /\ HealthOK' /\ health' # None /\ health'.oracle = o /\ health'.ts = ts
      /\ health'.ndup = DuplicateStreak(o, ts)
  BY <1>1, <1>2, SnapshotKeeps, Zenon
<1>5. BreakerOK'
  BY <1>1, <1>2, RecordKeeps, Zenon
<1>6. ServedOK'
  <2> DEFINE times == IF served.oracle = o /\ served.ts = ts
                      THEN Saturated(served.times + 1, MaxDup + 2) ELSE 1
  <2>1. MaxDup + 2 \in Nat /\ None \notin Oracles
    BY OracleAssumption
  <2>2. served.times + 1 \in Nat
    BY DEF IInv, ServedOK
  <2>3. /\ Saturated(served.times + 1, MaxDup + 2) \in Nat
        /\ Saturated(served.times + 1, MaxDup + 2) <= served.times + 1
    BY <2>1, <2>2, SaturatedType, Zenon
  <2>4. times \in Nat /\ times <= DuplicateStreak(o, ts) + 1
    BY <1>1, <2>2, <2>3, CounterKeepsUp
  <2> HIDE DEF times
  <2>5. served' = [oracle |-> o, ts |-> ts, times |-> times]
    BY <1>1, Zenon DEF times
  <2> QED
    BY <1>4, <2>1, <2>4, <2>5, Zenon DEF ServedOK
<1> QED
  BY <1>3, <1>4, <1>5, <1>6, Zenon DEF IInv

\* Steps that leave the breaker and the history alone.
LEMMA OthersKeep ==
  ASSUME IInv, SettingsOK', UNCHANGED <<breaker, history>>, now' >= now
  PROVE  IInv'
<1>1. /\ health' = health /\ tripped' = tripped /\ recovery' = recovery
      /\ seen' = seen /\ served' = served
  BY Zenon DEF breaker, history
<1>2. SeenOK'
  <2>1. now \in Nat /\ now' \in Nat
    BY Zenon DEF IInv, SettingsOK
  <2>2. \A o \in Oracles : seen[o].since \in Nat /\ seen[o].since <= now
    BY Zenon DEF IInv, SeenOK
  <2>3. \A o \in Oracles : seen[o].since <= now'
    BY <2>1, <2>2
  <2> QED
    BY <1>1, <2>3, Zenon DEF IInv, SeenOK
<1>3. HealthOK' /\ BreakerOK' /\ ServedOK'
  BY <1>1, Zenon DEF IInv, HealthOK, BreakerOK, ServedOK
<1> QED
  BY <1>2, <1>3, Zenon DEF IInv

\* Registering and removing an oracle keeps IInv and does not move the breaker.
LEMMA RegisterKeeps ==
  ASSUME IInv, NEW k \in Levels, NEW o \in Oracles \cup {None}, Register(k, o)
  PROVE  IInv' /\ gate' = None /\ tripped' = tripped
<1>1. SettingsOK'
  BY Zenon DEF Register, IInv, SettingsOK
<1>2. now' >= now
  BY DEF Register, IInv, SettingsOK
<1> QED
  BY <1>1, <1>2, OthersKeep, Zenon DEF Register, breaker

\* The administrator moves the breaker only by resetting it.
LEMMA AdministerKeeps ==
  ASSUME IInv, Administer
  PROVE  IInv' /\ gate' = None /\ (ResetOracleCircuit \/ tripped' = tripped)
<1>0. /\ TokenOracle \in Levels /\ FeedOracle \in Levels /\ PriceOracle \in Levels
      /\ None \in Oracles \cup {None}
  BY DEF TokenOracle, FeedOracle, PriceOracle, Levels
<1>1. ASSUME NEW o \in Oracles, RegisterOracle(o)
      PROVE  IInv' /\ gate' = None /\ tripped' = tripped
  BY <1>0, <1>1, RegisterKeeps, Zenon DEF RegisterOracle
<1>2. ASSUME NEW o \in Oracles, RegisterTokenOracle(o)
      PROVE  IInv' /\ gate' = None /\ tripped' = tripped
  BY <1>0, <1>2, RegisterKeeps, Zenon DEF RegisterTokenOracle
<1>3. ASSUME NEW o \in Oracles, SetPriceOracle(o)
      PROVE  IInv' /\ gate' = None /\ tripped' = tripped
  BY <1>0, <1>3, RegisterKeeps, Zenon DEF SetPriceOracle
<1>4. CASE RemoveOracle
  BY <1>0, <1>4, RegisterKeeps, Zenon DEF RemoveOracle
<1>5. CASE RemoveTokenOracle
  BY <1>0, <1>5, RegisterKeeps, Zenon DEF RemoveTokenOracle
<1>6. ASSUME NEW o \in Oracles, AddIdentityOracle(o)
      PROVE  IInv' /\ gate' = None /\ tripped' = tripped
  <2>1. SettingsOK' /\ now' >= now
    BY <1>6 DEF AddIdentityOracle, IInv, SettingsOK
  <2> QED
    BY <1>6, <2>1, OthersKeep, Zenon DEF AddIdentityOracle, breaker
<1>7. ASSUME NEW o \in Oracles, RemoveIdentityOracle(o)
      PROVE  IInv' /\ gate' = None /\ tripped' = tripped
  <2>1. SettingsOK' /\ now' >= now
    BY <1>7 DEF RemoveIdentityOracle, IInv, SettingsOK
  <2> QED
    BY <1>7, <2>1, OthersKeep, Zenon DEF RemoveIdentityOracle, breaker
<1>8. ASSUME NEW age \in Ages, SetMaxOracleAge(age)
      PROVE  IInv' /\ gate' = None /\ tripped' = tripped
  <2>1. age \in Nat
    BY OracleAssumption, Zenon
  <2>2. SettingsOK' /\ now' >= now
    BY <1>8, <2>1 DEF SetMaxOracleAge, IInv, SettingsOK
  <2> QED
    BY <1>8, <2>2, OthersKeep, Zenon DEF SetMaxOracleAge, breaker
<1>9. ASSUME NEW n \in 0..(MaxFeeders + 1), SetIdentityQuorum(n)
      PROVE  IInv' /\ gate' = None /\ tripped' = tripped
  <2>1. n \in Nat /\ n > 0
    BY <1>9, OracleAssumption DEF SetIdentityQuorum
  <2>2. SettingsOK' /\ now' >= now
    BY <1>9, <2>1 DEF SetIdentityQuorum, IInv, SettingsOK
  <2> QED
    BY <1>9, <2>2, OthersKeep, Zenon DEF SetIdentityQuorum, breaker
<1>10. CASE ResetOracleCircuit
  <2>1. SettingsOK'
    BY <1>10, Zenon DEF ResetOracleCircuit, IInv, SettingsOK, settings
  <2>2. SeenOK' /\ HealthOK' /\ ServedOK'
    BY <1>10, Zenon DEF ResetOracleCircuit, IInv, SeenOK, HealthOK, ServedOK, history
  <2>3. BreakerOK'
    BY <1>10, Zenon DEF ResetOracleCircuit, BreakerOK
  <2> QED
    BY <1>10, <2>1, <2>2, <2>3, Zenon DEF IInv, ResetOracleCircuit
<1> QED
  BY <1>1, <1>2, <1>3, <1>4, <1>5, <1>6, <1>7, <1>8, <1>9, <1>10, Zenon DEF Administer

\* Fundings that ask no single oracle, and time, leave the breaker alone.
LEMMA PassiveKeeps ==
  ASSUME IInv, FundByQuorum \/ FundUnconfigured \/ Tick
  PROVE  IInv' /\ tripped' = tripped
<1>1. CASE FundByQuorum \/ FundUnconfigured
  <2>1. UNCHANGED <<settings, breaker, now, history>>
    BY <1>1, Zenon DEF FundByQuorum, FundUnconfigured
  <2>2. SettingsOK' /\ now' >= now
    BY <2>1 DEF IInv, SettingsOK, settings
  <2> QED
    BY <2>1, <2>2, OthersKeep, Zenon DEF breaker
<1>2. CASE Tick
  <2>1. SettingsOK' /\ now' >= now
    BY <1>2 DEF Tick, IInv, SettingsOK, settings
  <2> QED
    BY <1>2, <2>1, OthersKeep, Zenon DEF Tick, breaker
<1> QED
  BY <1>1, <1>2, Zenon

\* An empty registry has a closed breaker and no counters.
LEMMA InitIInv == Init => IInv
<1> SUFFICES ASSUME Init PROVE IInv
  BY Zenon
<1>1. SettingsOK
  BY OracleAssumption DEF Init, SettingsOK
<1>2. SeenOK
  BY DEF Init, SeenOK
<1>3. HealthOK /\ BreakerOK /\ ServedOK
  BY Zenon DEF Init, HealthOK, BreakerOK, ServedOK
<1> QED
  BY <1>1, <1>2, <1>3, Zenon DEF IInv

\* Every entry point of the registry and every funding keeps IInv.
LEMMA NextIInv == IInv /\ [Next]_vars => IInv'
<1> SUFFICES ASSUME IInv, [Next]_vars PROVE IInv'
  BY Zenon
<1>1. CASE Administer
  BY <1>1, AdministerKeeps, Zenon
<1>2. CASE CheckOracleHealth \/ CheckOracleVerification
  <2>1. PICK o \in Oracles, ts \in Nat : record_oracle_health(o, ts) /\ Interrupt(o, ts)
    BY <1>2, QueryAsks, Zenon
  <2>2. UNCHANGED <<settings, now>>
    BY <1>2, QueryAsks, Zenon
  <2> QED
    BY <2>1, <2>2, QueryKeeps, Zenon
<1>3. CASE FundByQuorum \/ FundUnconfigured \/ Tick
  BY <1>3, PassiveKeeps, Zenon
<1>4. CASE FundBySingleOracle
  BY <1>4, FundingKeeps, Zenon
<1>5. CASE UNCHANGED vars
  BY <1>5, Zenon DEF vars, IInv, SettingsOK, SeenOK, HealthOK, BreakerOK, ServedOK
<1> QED
  BY <1>1, <1>2, <1>3, <1>4, <1>5, Zenon DEF Next, Use

\* The inductive invariant holds in every reachable state.
THEOREM Invariance == Spec => []IInv
  BY InitIInv, NextIInv, PTL DEF Spec

\* A step moves the breaker only by a reset or by an answer that earns it.
LEMMA BreakerMoves ==
  ASSUME IInv, [Next]_vars
  PROVE  ResetOracleCircuit \/ tripped' = tripped \/ (Tripping /\ Recovering)
<1>1. CASE Administer
  BY <1>1, AdministerKeeps, Zenon
<1>2. CASE CheckOracleHealth \/ CheckOracleVerification
  <2>1. PICK o \in Oracles, ts \in Nat : record_oracle_health(o, ts)
    BY <1>2, QueryAsks, Zenon
  <2>2. now' = now
    BY <1>2, QueryAsks, Zenon
  <2> QED
    BY <2>1, <2>2, RecordKeeps, Zenon
<1>3. CASE FundByQuorum \/ FundUnconfigured \/ Tick
  BY <1>3, PassiveKeeps, Zenon
<1>4. CASE FundBySingleOracle
  <2>1. PICK o \in Oracles, ts \in Nat : record_oracle_health(o, ts)
    BY <1>4, FundingAsks, Zenon
  <2>2. now' = now
    BY <1>4, FundingAsks, Zenon
  <2> QED
    BY <2>1, <2>2, RecordKeeps, Zenon
<1>5. CASE UNCHANGED vars
  BY <1>5, Zenon DEF vars
<1> QED
  BY <1>1, <1>2, <1>3, <1>4, <1>5, Zenon DEF Next, Use

-----------------------------------------------------------------------------
(* The properties the run checks.                                           *)

\* The storage entries of the breaker stay in step (record_oracle_health,
\* maybe_recover_oracle_circuit, reset_oracle_circuit).
THEOREM BreakerSafe == Spec => []BreakerConsistent
<1>1. IInv => BreakerConsistent
  BY Zenon DEF IInv, BreakerOK, HealthOK, BreakerConsistent
<1> QED
  BY <1>1, Invariance, PTL

\* The breaker opens only on MaxStale stale answers in a row of the oracle it
\* then records, and closes only by a reset or by a full recovery of the oracle
\* that opened it (record_oracle_health, maybe_recover_oracle_circuit).
THEOREM BreakerMovesSafe == Spec => BreakerEarned
<1>1. IInv /\ [Next]_vars =>
        [~ tripped /\ tripped' => /\ recovery'.oracle = health'.oracle
                                  /\ seen'[health'.oracle].stale >= MaxStale]_vars
  BY BreakerMoves, Zenon DEF ResetOracleCircuit, Tripping
<1>2. IInv /\ [Next]_vars =>
        [tripped /\ ~ tripped' =>
            \/ ResetOracleCircuit
            \/ /\ health'.oracle = recovery.oracle
               /\ seen'[recovery.oracle].fresh >= RecoverObs
               /\ now - seen'[recovery.oracle].since >= RecoverLedgers]_vars
  BY BreakerMoves, Zenon DEF Recovering
<1> QED
  BY <1>1, <1>2, Invariance, PTL DEF Spec, BreakerEarned

\* The grounds of the last funding are sound after every step.
LEMMA NextGate == IInv /\ GroundsHold /\ [Next]_vars => GroundsHold'
<1> SUFFICES ASSUME IInv, GroundsHold, [Next]_vars PROVE GroundsHold'
  BY Zenon
<1>1. CASE Administer \/ CheckOracleHealth \/ CheckOracleVerification \/ Tick
  <2>1. gate' = None
    BY <1>1, AdministerKeeps, QueryAsks, Zenon DEF Tick
  <2> QED
    BY <2>1, Zenon DEF GroundsHold
<1>2. CASE FundByQuorum
  <2>1. PICK answers \in [feeders -> Answers \cup {None}] :
          /\ Cardinality(check_identity_quorum(answers)) >= quorum
          /\ gate' = [path |-> "quorum", agreed |-> check_identity_quorum(answers)]
    BY <1>2, Zenon DEF FundByQuorum
  <2> DEFINE agreed == check_identity_quorum(answers)
  <2>2. agreed \subseteq feeders
    BY Zenon DEF check_identity_quorum
  <2> HIDE DEF agreed
  <2>3. /\ Cardinality(agreed) >= quorum
        /\ gate'.path = "quorum" /\ gate'.agreed = agreed
    BY <2>1, Zenon DEF agreed
  <2>4. agreed # {}
    BY <2>3, FS_EmptySet DEF IInv, SettingsOK
  <2>5. feeders' = feeders /\ quorum' = quorum
    BY <1>2, Zenon DEF FundByQuorum, settings
  <2> QED
    BY <2>2, <2>3, <2>4, <2>5, Zenon DEF GroundsHold
<1>3. CASE FundUnconfigured
  <2>1. /\ gate'.path = "open" /\ feeders' = {} /\ chain' = chain /\ Registered = {}
    BY <1>3, Zenon DEF FundUnconfigured, settings
  <2> QED
    BY <2>1, Zenon DEF GroundsHold, Registered
<1>4. CASE FundBySingleOracle
  <2>1. PICK o \in Oracles, ts \in Nat :
          /\ ~ is_oracle_data_stale(ts) /\ record_oracle_health(o, ts)
          /\ gate' = [path |-> "single", agreed |-> {o}]
    BY <1>4, FundingAsks, Zenon
  <2>2. feeders' = {} /\ now' = now
    BY <1>4, FundingAsks, Zenon DEF settings
  <2>3. health'.oracle = o /\ ~ health'.stale
    BY <2>1, <2>2, SnapshotKeeps, Zenon
  <2>4. gate'.path = "single" /\ gate'.agreed = {o}
    BY <2>1, Zenon
  <2> QED
    BY <2>2, <2>3, <2>4, Zenon DEF GroundsHold
<1>5. CASE UNCHANGED vars
  BY <1>5, Zenon DEF vars, GroundsHold, Registered
<1> QED
  BY <1>1, <1>2, <1>3, <1>4, <1>5, Zenon DEF Next, Use

\* However many monitors ask, at most MaxDup + 1 fundings pass on one repeated
\* answer.
LEMMA DuplicatesBounded ==
  ASSUME IInv
  PROVE  served.times <= MaxDup + 1
<1>1. MaxDup \in Nat /\ served.times \in Nat
  BY OracleAssumption, Zenon DEF IInv, ServedOK
<1>2. CASE served.oracle = None
  BY <1>1, <1>2 DEF IInv, ServedOK
<1>3. CASE served.oracle # None
  <2>1. served.times <= health.ndup + 1 /\ health.ndup \in Nat /\ health.ndup <= MaxDup
    BY <1>3, Zenon DEF IInv, ServedOK, HealthOK, Snapshot
  <2> QED
    BY <1>1, <2>1
<1> QED
  BY <1>2, <1>3, Zenon

\* No funding passes the gate on fewer grounds than the configuration demands
\* (an empty registry, a fresh single answer, or a quorum of feeders), and not
\* more than MaxDup + 1 pass on one repeated answer
\* (evaluate_identity_verification, is_oracle_data_duplicate_update).
THEOREM GateSafe == Spec => []GateSound
<1>1. Init => GroundsHold
  BY Zenon DEF Init, GroundsHold
<1>2. Spec => []GroundsHold
  BY <1>1, NextGate, Invariance, PTL DEF Spec
<1>3. IInv /\ GroundsHold => GateSound
  BY DuplicatesBounded, Zenon DEF GateSound
<1> QED
  BY <1>2, <1>3, Invariance, PTL

-----------------------------------------------------------------------------
(* Reading prices.                                                          *)

\* How many quotes are not above that of x.
Rank(f, x) == Cardinality({y \in DOMAIN f : f[y] <= f[x]})

\* Ranks are numbers, and a larger value has a larger rank.
LEMMA RankGrows ==
  ASSUME NEW D, IsFiniteSet(D), NEW f \in [D -> Int], NEW x \in D
  PROVE  /\ Rank(f, x) \in Nat /\ Rank(f, x) <= Cardinality(D) /\ Cardinality(D) \in Nat
         /\ \A y \in D : f[x] < f[y] => Rank(f, x) < Rank(f, y)
<1> DEFINE S(z) == {y \in D : f[y] <= f[z]}
<1>1. \A z \in D : S(z) \in SUBSET D /\ IsFiniteSet(S(z)) /\ Cardinality(S(z)) \in Nat
  BY FS_Subset, FS_CardinalityType, Zenon
<1>2. \A z \in D : Rank(f, z) = Cardinality(S(z))
  BY Zenon DEF Rank
<1>3. Rank(f, x) <= Cardinality(D) /\ Cardinality(D) \in Nat
  BY <1>1, <1>2, FS_Subset, FS_CardinalityType, Zenon
<1>4. ASSUME NEW y \in D, f[x] < f[y] PROVE Rank(f, x) < Rank(f, y)
  <2>1. S(x) \in SUBSET S(y)
    BY <1>4
  <2>2. y \in S(y) /\ y \notin S(x)
    BY <1>4
  <2> HIDE DEF S
  <2>3. Cardinality(S(x)) <= Cardinality(S(y)) /\ Cardinality(S(x)) # Cardinality(S(y))
    BY <1>1, <2>1, <2>2, FS_Subset, Zenon
  <2> QED BY <1>1, <1>2, <2>3
<1> QED BY <1>1, <1>2, <1>3, <1>4, Zenon

\* Among finitely many quotes one is the lowest and one the highest.
LEMMA Extremes ==
  ASSUME NEW D, IsFiniteSet(D), NEW f \in [D -> Int], NEW A \in SUBSET D, A # {}
  PROVE  /\ \E x \in A : \A y \in A : f[x] <= f[y]
         /\ \E x \in A : \A y \in A : f[y] <= f[x]
<1> DEFINE n == Cardinality(D)
           up == {Rank(f, x) : x \in A}
           down == {n - Rank(f, x) : x \in A}
<1>1. \A x \in A : Rank(f, x) \in Nat /\ Rank(f, x) <= n /\ n \in Nat
  BY RankGrows, Zenon
<1>2. up \in SUBSET Nat /\ up # {} /\ down \in SUBSET Nat /\ down # {}
  BY <1>1
<1>3. PICK u \in up : \A m \in up : u <= m
  <2> HIDE DEF up
  <2> QED BY <1>2, LeastNat, Zenon
<1>4. PICK d \in down : \A m \in down : d <= m
  <2> HIDE DEF down
  <2> QED BY <1>2, LeastNat, Zenon
<1>5. PICK x \in A : u = Rank(f, x)
  BY Zenon
<1>6. PICK z \in A : d = n - Rank(f, z)
  BY Zenon
<1>7. ASSUME NEW y \in A PROVE f[x] <= f[y]
  <2>1. Rank(f, x) <= Rank(f, y)
    BY <1>3, <1>5, Zenon
  <2>2. f[y] < f[x] => Rank(f, y) < Rank(f, x)
    BY RankGrows, Zenon
  <2> QED BY <1>1, <2>1, <2>2
<1>8. ASSUME NEW y \in A PROVE f[y] <= f[z]
  <2>1. n - Rank(f, z) <= n - Rank(f, y)
    BY <1>4, <1>6, Zenon
  <2>2. f[z] < f[y] => Rank(f, z) < Rank(f, y)
    BY RankGrows, Zenon
  <2> QED BY <1>1, <2>1, <2>2
<1> QED BY <1>7, <1>8, Zenon

\* w is a k-th smallest value.
IsKth(f, k, w) ==
    /\ Cardinality({x \in DOMAIN f : f[x] < w}) < k
    /\ Cardinality({x \in DOMAIN f : f[x] <= w}) >= k

\* The k-th smallest of at least k quotes exists.
LEMMA SmallestExists ==
  ASSUME NEW D, IsFiniteSet(D), NEW f \in [D -> Int],
         NEW k \in Nat, 1 <= k, k <= Cardinality(D)
  PROVE  \E x \in D : IsKth(f, k, f[x])
<1> DEFINE n == Cardinality(D)
           G == {x \in D : Rank(f, x) >= k}
<1>1. D # {} /\ n \in Nat
  BY FS_EmptySet, FS_CardinalityType
<1>2. G # {}
  <2>1. PICK x \in D : \A y \in D : f[y] <= f[x]
    BY <1>1, Extremes, Zenon
  <2>2. {y \in D : f[y] <= f[x]} = D
    BY <2>1, Zenon
  <2>3. Rank(f, x) = n
    BY <2>2, Zenon DEF Rank
  <2> QED BY <2>3, Zenon
<1>3. PICK x \in G : \A y \in G : f[x] <= f[y]
  BY <1>2, Extremes, Zenon
<1> DEFINE L == {y \in D : f[y] < f[x]}
<1>4. Cardinality({y \in D : f[y] <= f[x]}) >= k
  BY <1>3, Zenon DEF Rank
<1>5. Cardinality(L) < k
  <2>1. CASE L = {}
    BY <2>1, FS_EmptySet
  <2>2. CASE L # {}
    <3>1. PICK z \in L : \A y \in L : f[y] <= f[z]
      BY <2>2, Extremes, Zenon
    <3>2. L = {y \in D : f[y] <= f[z]}
      BY <1>3, <3>1
    <3>3. Cardinality(L) = Rank(f, z)
      BY <3>2, Zenon DEF Rank
    <3>4. z \notin G
      BY <1>3, <3>1
    <3>5. Rank(f, z) \in Nat
      BY <3>1, RankGrows, Zenon
    <3> QED BY <3>1, <3>3, <3>4, <3>5
  <2> QED BY <2>1, <2>2, Zenon
<1>6. IsKth(f, k, f[x])
  BY <1>4, <1>5, Zenon DEF IsKth
<1> QED BY <1>3, <1>6, Zenon

\* A majority fences the middle in: if more than n - k and at least k of n quotes
\* lie between two bounds, so does the k-th smallest (the insertion sort of
\* median).
LEMMA SmallestWithin ==
  ASSUME NEW D, IsFiniteSet(D), NEW f \in [D -> Int], NEW A \in SUBSET D,
         NEW lo \in Int, NEW hi \in Int, \A a \in A : lo <= f[a] /\ f[a] <= hi,
         NEW k \in Nat, 1 <= k, k <= Cardinality(A), Cardinality(D) - Cardinality(A) < k
  PROVE  Smallest(f, k) \in lo..hi
<1> DEFINE n == Cardinality(D)
           v == Smallest(f, k)
           less == {x \in D : f[x] < v}
           upto == {x \in D : f[x] <= v}
<1>0. DOMAIN f = D
  BY Zenon
<1>1. /\ n \in Nat /\ IsFiniteSet(A) /\ Cardinality(A) \in Nat /\ Cardinality(A) <= n
  BY FS_Subset, FS_CardinalityType, Zenon
<1>2. \E x \in D : IsKth(f, k, f[x])
  <2>1. k <= n
    BY <1>1
  <2> QED BY <2>1, SmallestExists, Zenon
<1>3. \E w \in {f[x] : x \in DOMAIN f} : IsKth(f, k, w)
  BY <1>0, <1>2, Zenon
<1>4. v \in {f[x] : x \in DOMAIN f} /\ IsKth(f, k, v)
  BY <1>3, Zenon DEF Smallest, IsKth
<1> HIDE DEF v
<1>5. v \in Int /\ Cardinality(less) < k /\ Cardinality(upto) >= k
  BY <1>0, <1>4, Zenon DEF IsKth
<1>6. /\ less \in SUBSET D /\ IsFiniteSet(less) /\ Cardinality(less) \in Nat
      /\ upto \in SUBSET D /\ IsFiniteSet(upto) /\ Cardinality(upto) \in Nat
  BY FS_Subset, FS_CardinalityType, Zenon
<1>7. v <= hi
  <2>1. SUFFICES ASSUME v > hi PROVE FALSE
    BY <1>5
  <2>2. A \in SUBSET less
    BY <1>5, <2>1
  <2>3. Cardinality(A) <= Cardinality(less)
    BY <1>6, <2>2, FS_Subset, Zenon
  <2> QED BY <1>1, <1>5, <1>6, <2>3
<1>8. lo <= v
  <2>1. SUFFICES ASSUME v < lo PROVE FALSE
    BY <1>5
  <2>2. upto \cap A = {}
    BY <1>5, <2>1
  <2>3. upto \in SUBSET (D \ A)
    BY <2>2, Zenon
  <2>4. /\ IsFiniteSet(D \ A)
        /\ Cardinality(D \ A) = n - Cardinality(A)
    <3>1. A = D \cap A
      BY Zenon
    <3>2. IsFiniteSet(D \ A) /\ Cardinality(D \ A) = Cardinality(D) - Cardinality(D \cap A)
      BY FS_Difference, Zenon
    <3> QED BY <3>1, <3>2, Zenon
  <2>5. Cardinality(upto) <= n - Cardinality(A)
    BY <2>3, <2>4, FS_Subset
  <2> QED BY <1>1, <1>5, <1>6, <2>5
<1> QED BY <1>5, <1>7, <1>8 DEF v

\* The median of the quotes lies within any range that holds a majority of them.
LEMMA MedianWithin ==
  ASSUME NEW D, IsFiniteSet(D), NEW f \in [D -> Int], NEW A \in SUBSET D,
         2 * Cardinality(A) > Cardinality(D),
         NEW lo \in Int, NEW hi \in Int, \A a \in A : lo <= f[a] /\ f[a] <= hi
  PROVE  median(f) \in lo..hi
<1> DEFINE n == Cardinality(D)
           h == n \div 2
           c == Cardinality(A)
<1>0. DOMAIN f = D
  BY Zenon
<1>1. n \in Nat /\ c \in Nat /\ c <= n
  BY FS_Subset, FS_CardinalityType, Zenon
<1>2. h \in Nat /\ (n = 2 * h \/ n = 2 * h + 1) /\ (n % 2 = 1 <=> n = 2 * h + 1)
  BY <1>1
<1>3. ASSUME NEW k \in Nat, 1 <= k, k <= c, n - c < k PROVE Smallest(f, k) \in lo..hi
  BY <1>3, SmallestWithin, Zenon
<1> HIDE DEF n, h, c
<1>4. CASE n = 2 * h + 1
  <2>1. Smallest(f, h + 1) \in lo..hi
    <3>1. h + 1 \in Nat /\ 1 <= h + 1 /\ h + 1 <= c /\ n - c < h + 1
      BY <1>1, <1>2, <1>4 DEF n, c
    <3> QED BY <1>3, <3>1, Zenon
  <2>2. median(f) = Smallest(f, h + 1)
    BY <1>0, <1>2, <1>4, Zenon DEF median, n, h
  <2> QED BY <2>1, <2>2, Zenon
<1>5. CASE n = 2 * h
  <2>1. /\ h \in Nat /\ 1 <= h /\ h <= c /\ n - c < h
        /\ h + 1 \in Nat /\ 1 <= h + 1 /\ h + 1 <= c /\ n - c < h + 1
    BY <1>1, <1>2, <1>5 DEF n, c
  <2> DEFINE a == Smallest(f, h)
             b == Smallest(f, h + 1)
  <2>2. a \in lo..hi /\ b \in lo..hi
    BY <1>3, <2>1, Zenon
  <2>3. median(f) = Quotient(a + b, 2)
    <3>1. n # 2 * h + 1
      BY <1>2, <1>5
    <3> QED BY <1>0, <1>2, <3>1, Zenon DEF median, n, h
  <2> HIDE DEF a, b
  <2>4. Quotient(a + b, 2) \in lo..hi
    BY <2>2 DEF Quotient
  <2> QED BY <2>3, <2>4, Zenon
<1> QED BY <1>2, <1>4, <1>5, Zenon

\* Min and Max are what they say for the quotes of a non-empty set of sources.
LEMMA RangeOfQuotes ==
  ASSUME NEW D, IsFiniteSet(D), NEW f \in [D -> Int], NEW A \in SUBSET D, A # {}
  PROVE  LET values == {f[o] : o \in A} IN
         /\ Min(values) \in Int /\ Max(values) \in Int
         /\ \A a \in A : Min(values) <= f[a] /\ f[a] <= Max(values)
<1> DEFINE values == {f[o] : o \in A}
<1>1. values \in SUBSET Int
  BY Zenon
<1>2. PICK x \in A : \A y \in A : f[x] <= f[y]
  BY Extremes, Zenon
<1>3. PICK z \in A : \A y \in A : f[y] <= f[z]
  BY Extremes, Zenon
<1>4. \E w \in values : \A y \in values : w <= y
  BY <1>2, Zenon
<1>5. \E w \in values : \A y \in values : w >= y
  BY <1>3, Zenon
<1> HIDE DEF values
<1>6. Min(values) \in values /\ \A y \in values : Min(values) <= y
  BY <1>4, Zenon DEF Min
<1>7. Max(values) \in values /\ \A y \in values : Max(values) >= y
  BY <1>5, Zenon DEF Max
<1>8. \A a \in A : f[a] \in values
  BY Zenon DEF values
<1>9. Min(values) \in Int /\ Max(values) \in Int
  BY <1>1, <1>6, <1>7, Zenon
<1>10. \A a \in A : Min(values) <= f[a] /\ f[a] <= Max(values)
  BY <1>1, <1>6, <1>7, <1>8, <1>9, Zenon
<1> QED BY <1>9, <1>10, Zenon DEF values

\* What an agreeing majority does to one read of the spot price.
LEMMA SpotPriceWithin ==
  ASSUME NEW D, IsFiniteSet(D), NEW q \in [D -> Int], SpotPrice(q) # None,
         NEW A \in SUBSET D, 2 * Cardinality(A) > Cardinality(D), Agree(q, A)
  PROVE  LET values == {q[o] : o \in A} IN SpotPrice(q) \in Min(values)..Max(values)
<1> DEFINE values == {q[o] : o \in A}
           lo == Min(values)
           hi == Max(values)
           kept == Survivors(q)
           g == [o \in kept |-> q[o]]
<1>0. DOMAIN q = D
  BY Zenon
<1>1. Cardinality(D) \in Nat /\ IsFiniteSet(A) /\ Cardinality(A) \in Nat
  BY FS_Subset, FS_CardinalityType, Zenon
<1>2. A # {}
  BY <1>1, FS_EmptySet, SMTT(60)
<1>3. lo \in Int /\ hi \in Int /\ \A a \in A : lo <= q[a] /\ q[a] <= hi
  BY <1>2, RangeOfQuotes, Zenon
<1>4. \A v \in values, m \in lo..hi : deviation_bps(v, m) <= maxDev
  BY Zenon DEF Agree
<1> HIDE DEF lo, hi
<1>5. median(q) \in lo..hi
  BY <1>3, MedianWithin, Zenon
<1>6. A \in SUBSET kept /\ kept \in SUBSET D
  <2>1. ASSUME NEW a \in A PROVE a \in kept
    <3>1. q[a] \in values /\ a \in DOMAIN q
      BY <1>0, Zenon
    <3>2. deviation_bps(q[a], median(q)) <= maxDev
      BY <1>4, <1>5, <3>1, Zenon
    <3> QED BY <3>1, <3>2, Zenon DEF Survivors
  <2> QED BY <1>0, <2>1, Zenon DEF Survivors
<1> HIDE DEF kept
<1>7. IsFiniteSet(kept) /\ Cardinality(kept) \in Nat /\ Cardinality(kept) <= Cardinality(D)
  BY <1>6, FS_Subset, FS_CardinalityType, Zenon
<1>8. median(g) \in lo..hi
  <2>1. g \in [kept -> Int] /\ \A a \in A : lo <= g[a] /\ g[a] <= hi
    BY <1>3, <1>6, Zenon
  <2>2. 2 * Cardinality(A) > Cardinality(kept)
    BY <1>1, <1>7
  <2> HIDE DEF g
  <2> QED BY <1>3, <1>6, <1>7, <2>1, <2>2, MedianWithin, Zenon
<1>9. D # {} /\ kept # {}
  BY <1>2, <1>6, Zenon
<1>10. CASE Cardinality(D) = 1
  <2>1. PICK d : D = {d}
    BY <1>10, FS_Singleton, Zenon
  <2>2. A = {d} /\ (CHOOSE o \in D : TRUE) = d
    BY <1>2, <2>1, Zenon
  <2>3. SpotPrice(q) = q[d]
    BY <1>0, <1>9, <1>10, <2>2, Zenon DEF SpotPrice
  <2> QED BY <1>3, <2>2, <2>3 DEF lo, hi
<1>11. CASE Cardinality(D) # 1
  <2>1. SpotPrice(q) = median(g)
    BY <1>0, <1>9, <1>11, Zenon DEF SpotPrice, kept
  <2> QED BY <1>8, <2>1, Zenon DEF lo, hi
<1> QED BY <1>10, <1>11, Zenon

\* Registered sources stay within those that exist, and every spot price that
\* was just read came out of such quotes, under the deviation still configured.
ReadOK ==
    /\ sources \subseteq Sources
    /\ MajorityRules

\* An agreeing majority of the answering sources bounds every spot price, for any
\* number of sources, any quotes and any deviation the admin may set: neither
\* rejected outliers nor tolerated ones move the price out of the majority's
\* range (get_verified_price, median, deviation_bps).
THEOREM MajorityAlwaysRules == PriceSpec => []MajorityRules
<1>1. PriceInit => ReadOK
  BY Zenon DEF PriceInit, ReadOK, MajorityRules
<1>2. ReadOK /\ [PriceNext]_priceVars => ReadOK'
  <2> SUFFICES ASSUME ReadOK, [PriceNext]_priceVars PROVE ReadOK'
    BY Zenon
  <2>1. sources' \subseteq Sources
    BY ZenonT(60) DEF ReadOK, PriceNext, Configure, AddPriceSource, RemovePriceSource,
           SetMaxPriceDeviation, SetTwapEnabled, SetTwapWindow, RecordTwapSample,
           ReadPrice, GetTwapPrice, GetVerifiedPrice, priceVars, feed
  <2>2. CASE read' = None
    BY <2>1, <2>2, Zenon DEF ReadOK, MajorityRules
  <2>3. CASE UNCHANGED priceVars
    BY <2>1, <2>3, ZenonT(60) DEF ReadOK, MajorityRules, Agree, deviation_bps, priceVars, feed
  <2>4. CASE read' = TwapRead
    BY <2>1, <2>4, ZenonT(60) DEF ReadOK, MajorityRules, TwapRead
  <2>5. ASSUME NEW answering \in SUBSET sources, NEW q \in [answering -> Quotes],
               SpotPrice(q) # None, UNCHANGED feed,
               read' = [path |-> "spot", price |-> SpotPrice(q), quotes |-> q]
        PROVE  ReadOK'
    <3>1. IsFiniteSet(answering) /\ q \in [answering -> Int] /\ DOMAIN q = answering
      BY PriceAssumption, FS_Subset, Zenon DEF ReadOK
    <3>2. read'.price = SpotPrice(q) /\ read'.quotes = q
      BY <2>5, Zenon
    <3>3. maxDev' = maxDev
      BY <2>5, Zenon DEF feed
    <3>4. ASSUME NEW A \in SUBSET answering,
                 2 * Cardinality(A) > Cardinality(answering), Agree(q, A)'
          PROVE  SpotPrice(q) \in Min({q[o] : o \in A})..Max({q[o] : o \in A})
      <4>1. Agree(q, A)
        BY <3>3, <3>4, Zenon DEF Agree, deviation_bps
      <4> QED BY <2>5, <3>1, <3>4, <4>1, SpotPriceWithin, Zenon
    <3> QED BY <2>1, <3>1, <3>2, <3>4, Zenon DEF ReadOK, MajorityRules
  <2>6. \/ read' = None \/ UNCHANGED priceVars \/ read' = TwapRead
        \/ \E answering \in SUBSET sources : \E q \in [answering -> Quotes] :
              /\ SpotPrice(q) # None /\ UNCHANGED feed
              /\ read' = [path |-> "spot", price |-> SpotPrice(q), quotes |-> q]
    BY Zenon DEF PriceNext, Configure, AddPriceSource, RemovePriceSource,
           SetMaxPriceDeviation, SetTwapEnabled, SetTwapWindow, RecordTwapSample,
           ReadPrice, GetTwapPrice, GetVerifiedPrice
  <2> QED BY <2>2, <2>3, <2>4, <2>5, <2>6, Zenon
<1>3. ReadOK => MajorityRules
  BY Zenon DEF ReadOK
<1> QED BY <1>1, <1>2, <1>3, PTL DEF PriceSpec

\* Reading and configuring prices leaves the breaker and the gate alone: the
\* feed, seen without its prices, is the registry.
THEOREM FeedImplementsRegistry == PriceSpec => Spec
<1>1. PriceInit => Init
  BY Zenon DEF PriceInit
<1>2. [PriceNext]_priceVars => [Next]_vars
  BY Zenon DEF PriceNext, Configure, AddPriceSource, RemovePriceSource,
         SetMaxPriceDeviation, SetTwapEnabled, SetTwapWindow, RecordTwapSample,
         ReadPrice, GetTwapPrice, GetVerifiedPrice, priceVars
<1> QED BY <1>1, <1>2, PTL DEF PriceSpec, Spec

=============================================================================
