------------------------- MODULE InvoiceEscrowProofs -------------------------
(* The invoice contract keeps its types, never spends what is escrowed,     *)
(* books every contribution, and moves invoices only along legal paths:     *)
(* for any number of invoices, accounts and any amounts.                    *)
EXTENDS InvoiceEscrow, ListTheorems

-----------------------------------------------------------------------------
(* Every payout operation keeps a ledger consistent: the total is the sum   *)
(* of the entries, and the balance covers it but for what was clawed back.  *)

Ledgers(N) == [balance: Nat, pending: [1..N -> Nat], total: Nat, ok: BOOLEAN]

\* c is what has been clawed back.
Backed(L, N, c) ==
    /\ L \in Ledgers(N)
    /\ L.total = SumTo(L.pending, N)
    /\ L.total <= L.balance + c

\* Money coming in.
LEMMA TransferInKeeps ==
  ASSUME NEW N \in Nat, NEW c \in Nat, NEW L, Backed(L, N, c), NEW amount \in Nat
  PROVE  /\ Backed(transfer_in(L, amount), N, c)
         /\ transfer_in(L, amount).ok = L.ok
<1> DEFINE M == transfer_in(L, amount)
<1>1. L.balance \in Nat /\ L.total \in Nat
  BY Zenon DEF Backed, Ledgers
<1>2. M.balance = L.balance + amount /\ M.pending = L.pending /\ M.total = L.total
  BY Zenon DEF Backed, Ledgers, transfer_in
<1>3. M.ok = L.ok
  BY Zenon DEF Backed, Ledgers, transfer_in
<1>4. M \in Ledgers(N)
  BY <1>1 DEF Backed, Ledgers, transfer_in
<1>5. M.total = SumTo(M.pending, N) /\ M.total <= M.balance + c
  BY <1>1, <1>2 DEF Backed
<1> QED
  BY <1>3, <1>4, <1>5, Zenon DEF Backed

\* A strict payout, unless the call fails.
LEMMA TransferOutKeeps ==
  ASSUME NEW N \in Nat, NEW c \in Nat, NEW L, Backed(L, N, c),
         NEW blocked, NEW to \in 1..N, NEW amount \in Int,
         transfer_out_strict(L, blocked, to, amount).ok
  PROVE  Backed(transfer_out_strict(L, blocked, to, amount), N, c)
<1>1. CASE amount <= 0
  BY <1>1, Zenon DEF transfer_out_strict
<1>2. CASE ~ (amount <= 0)
  <2> DEFINE M == [L EXCEPT !.balance = @ - amount,
                            !.ok = @ /\ ensure_spendable(L, amount, L.total)
                                     /\ to \notin blocked]
  <2>1. transfer_out_strict(L, blocked, to, amount) = M
    BY <1>2, Zenon DEF transfer_out_strict
  <2>2. L.balance \in Nat /\ L.total \in Nat /\ L.pending \in [1..N -> Nat]
    BY Zenon DEF Backed, Ledgers
  <2>3. M.ok = (L.ok /\ ensure_spendable(L, amount, L.total) /\ to \notin blocked)
    BY Zenon DEF Backed, Ledgers
  <2>4. L.balance - L.total >= amount
    BY <2>1, <2>3, Zenon DEF ensure_spendable
  <2>5. /\ M.balance = L.balance - amount /\ M.pending = L.pending
        /\ M.total = L.total
    BY Zenon DEF Backed, Ledgers
  <2>6. M \in Ledgers(N)
    <3>1. L.balance - amount \in Nat
      BY <1>2, <2>2, <2>4
    <3>2. (L.ok /\ ensure_spendable(L, amount, L.total) /\ to \notin blocked) \in BOOLEAN
      BY Zenon
    <3> QED
      BY <3>1, <3>2, Zenon DEF Backed, Ledgers
  <2>7. M.total = SumTo(M.pending, N) /\ M.total <= M.balance + c
    BY <2>2, <2>4, <2>5 DEF Backed
  <2> QED
    BY <2>1, <2>6, <2>7, Zenon DEF Backed
<1> QED
  BY <1>1, <1>2, Zenon

\* A payout that is escrowed when the recipient is frozen.
LEMMA PayOrEscrowKeeps ==
  ASSUME NEW N \in Nat, NEW c \in Nat, NEW L, Backed(L, N, c),
         NEW blocked, NEW to \in 1..N, NEW amount \in Int
  PROVE  Backed(pay_or_escrow(L, blocked, to, amount), N, c)
<1> DEFINE M == pay_or_escrow(L, blocked, to, amount)
<1> SUFFICES Backed(M, N, c)
  BY Zenon
<1>0. L.balance \in Nat /\ L.total \in Nat /\ L.pending \in [1..N -> Nat]
  BY Zenon DEF Backed, Ledgers
<1>1. CASE amount <= 0
  BY <1>1, Zenon DEF pay_or_escrow
<1>2. CASE ~ (amount <= 0) /\ ~ ensure_spendable(L, amount, L.total)
  <2>1. M = [L EXCEPT !.ok = FALSE]
    BY <1>2, Zenon DEF pay_or_escrow
  <2> QED
    BY <2>1, Zenon DEF Backed, Ledgers
<1>3. CASE ~ (amount <= 0) /\ ensure_spendable(L, amount, L.total) /\ to \notin blocked
  <2>1. M = [L EXCEPT !.balance = @ - amount]
    BY <1>3, Zenon DEF pay_or_escrow
  <2>2. L.balance - L.total >= amount
    BY <1>3, Zenon DEF ensure_spendable
  <2> HIDE DEF M
  <2>3. /\ M.balance = L.balance - amount /\ M.pending = L.pending
        /\ M.total = L.total
    BY <2>1, Zenon DEF Backed, Ledgers
  <2>4. M \in Ledgers(N)
    <3>1. L.balance - amount \in Nat
      BY <1>0, <1>3, <2>2
    <3> QED
      BY <3>1, <2>1, Zenon DEF Backed, Ledgers
  <2> QED
    BY <1>0, <2>2, <2>3, <2>4 DEF Backed
<1>4. CASE ~ (amount <= 0) /\ ensure_spendable(L, amount, L.total) /\ to \in blocked
  <2>1. M = [L EXCEPT !.pending[to] = @ + amount, !.total = @ + amount]
    BY <1>4, Zenon DEF pay_or_escrow
  <2>2. L.balance - L.total >= amount
    BY <1>4, Zenon DEF ensure_spendable
  <2> HIDE DEF M
  <2>3. /\ M.pending = [L.pending EXCEPT ![to] = @ + amount]
        /\ M.total = L.total + amount /\ M.balance = L.balance
    BY <2>1, Zenon DEF Backed, Ledgers
  <2>6. M \in Ledgers(N)
    <3>1. L.total + amount \in Nat
      BY <1>0, <1>4
    <3>2. [L.pending EXCEPT ![to] = @ + amount] \in [1..N -> Nat]
      BY <1>0, <1>4
    <3> QED
      BY <3>1, <3>2, <2>1, Zenon DEF Backed, Ledgers
  <2>4. /\ \A k \in 1..N : L.pending[k] \in Int
        /\ \A k \in 1..N : k # to => M.pending[k] = L.pending[k]
        /\ M.pending[to] = L.pending[to] + amount
    BY <1>0, <2>3
  <2>5. SumTo(M.pending, N) = SumTo(L.pending, N) + amount
    BY <2>4, SumToChange, SMTT(40)
  <2> QED
    BY <1>0, <2>2, <2>3, <2>5, <2>6 DEF Backed
<1> QED
  BY <1>1, <1>2, <1>3, <1>4, Zenon

\* The release of an escrowed payout, unless the call fails.
LEMMA ClaimPendingKeeps ==
  ASSUME NEW N \in Nat, NEW c \in Nat, NEW L, Backed(L, N, c),
         NEW blocked, NEW to \in 1..N, claim_pending(L, blocked, to).ok
  PROVE  Backed(claim_pending(L, blocked, to), N, c)
<1> DEFINE amount == L.pending[to]
           M == claim_pending(L, blocked, to)
<1>1. /\ L.balance \in Nat /\ L.total \in Nat /\ L.pending \in [1..N -> Nat]
      /\ amount \in Nat
  BY Zenon DEF Backed, Ledgers
<1>2. amount <= L.total
  BY <1>1, SumToTerm, Zenon DEF Backed
<1>3. M.ok = (L.ok /\ amount > 0 /\ to \notin blocked
                   /\ ensure_spendable(L, amount, L.total - amount))
  BY Zenon DEF claim_pending, Backed, Ledgers
<1>4. L.balance - (L.total - amount) >= amount
  BY <1>3, Zenon DEF ensure_spendable
<1>5. /\ M.balance = L.balance - amount
      /\ M.pending = [L.pending EXCEPT ![to] = 0]
      /\ M.total = L.total - amount
  BY Zenon DEF claim_pending, Backed, Ledgers
<1>6. M \in Ledgers(N)
  <2>1. L.balance - amount \in Nat /\ L.total - amount \in Nat
    BY <1>1, <1>2, <1>4, SMTT(40)
  <2>2. [L.pending EXCEPT ![to] = 0] \in [1..N -> Nat]
    BY <1>1, Zenon
  <2>3. (L.ok /\ amount > 0 /\ to \notin blocked
              /\ ensure_spendable(L, amount, L.total - amount)) \in BOOLEAN
    BY Zenon
  <2> QED
    BY <2>1, <2>2, <2>3, Zenon DEF claim_pending, Backed, Ledgers
<1>7. SumTo(M.pending, N) = SumTo(L.pending, N) + (- amount)
  <2>1. M.pending[to] = L.pending[to] + (- amount)
    BY <1>1, <1>5
  <2>2. \A k \in 1..N : k # to => M.pending[k] = L.pending[k]
    BY <1>1, <1>5, Zenon
  <2>3. - amount \in Int /\ \A k \in 1..N : L.pending[k] \in Int
    BY <1>1
  <2> HIDE DEF M, amount
  <2> QED
    BY <2>1, <2>2, <2>3, SumToChange, Zenon
<1>8. M.total = SumTo(M.pending, N) /\ M.total <= M.balance + c
  <2>1. L.total = SumTo(L.pending, N) /\ L.total <= L.balance + c
    BY Zenon DEF Backed
  <2>2. M.balance = L.balance - amount /\ M.total = L.total - amount
    BY <1>5, Zenon
  <2> HIDE DEF M, amount
  <2>3. M.total = SumTo(M.pending, N)
    BY <1>1, <1>7, <2>1, <2>2, Zenon
  <2>4. L.balance \in Nat /\ L.total \in Nat /\ amount \in Nat
    BY <1>1, Zenon
  <2>5. M.total <= M.balance + c
    BY <2>1, <2>2, <2>4
  <2> QED
    BY <2>3, <2>5, Zenon
<1> QED
  BY <1>6, <1>8, Zenon DEF Backed

IsPayout(p, L, blocked, ps, n) ==
    p = [k \in 0..n |->
           IF k = 0 THEN L ELSE pay_or_escrow(p[k-1], blocked, ps[k].to, ps[k].amt)]

\* The function that pay_all chooses exists.
LEMMA PayoutExists ==
  ASSUME NEW L, NEW blocked, NEW ps
  PROVE  \A n \in Nat : \E p : IsPayout(p, L, blocked, ps, n)
<1> DEFINE T == {n \in Nat : \E p : IsPayout(p, L, blocked, ps, n)}
<1>1. 0 \in T
  <2>1. IsPayout([k \in 0..0 |-> L], L, blocked, ps, 0)
    BY DEF IsPayout
  <2> QED
    BY <2>1, Zenon
<1>2. ASSUME NEW n \in T PROVE n+1 \in T
  <2>1. PICK p : IsPayout(p, L, blocked, ps, n)
    BY Zenon
  <2>2. n \in Nat
    BY Zenon
  <2> DEFINE F(k, x) == pay_or_escrow(x, blocked, ps[k].to, ps[k].amt)
             q == [k \in 0..(n+1) |-> IF k = n+1 THEN F(n+1, p[n]) ELSE p[k]]
  <2> HIDE DEF F
  <2>3. p = [k \in 0..n |-> IF k = 0 THEN L ELSE F(k, p[k-1])]
    BY <2>1, Zenon DEF IsPayout, F
  <2>4. ASSUME NEW k \in 0..(n+1)
        PROVE  q[k] = IF k = 0 THEN L ELSE F(k, q[k-1])
    <3>1. CASE k = n+1
      <4>1. q[k] = F(k, p[n]) /\ q[n] = p[n] /\ k - 1 = n /\ k # 0
        BY <3>1, <2>2
      <4> QED
        BY <4>1, Zenon
    <3>2. CASE k # n+1
      <4>1. k \in 0..n /\ q[k] = p[k]
        BY <3>2, <2>2
      <4>2. k # 0 => q[k-1] = p[k-1]
        BY <4>1, <2>2
      <4>3. p[k] = IF k = 0 THEN L ELSE F(k, p[k-1])
        BY <4>1, <2>3, Zenon
      <4> QED
        BY <4>1, <4>2, <4>3, Zenon
    <3> QED
      BY <3>1, <3>2, Zenon
  <2>5. q = [k \in 0..(n+1) |-> IF k = 0 THEN L ELSE F(k, q[k-1])]
    BY <2>4, Zenon
  <2>6. IsPayout(q, L, blocked, ps, n+1)
    BY <2>5, Zenon DEF IsPayout, F
  <2> QED
    BY <2>2, <2>6
<1>3. \A n \in Nat : n \in T
  <2>1. T \in SUBSET Nat
    BY Zenon
  <2> HIDE DEF T
  <2> QED
    BY <2>1, <1>1, <1>2, SetInduction, Zenon
<1> QED
  BY <1>3, Zenon

\* A whole payout loop, however many recipients are frozen, and whether or not
\* it fails half-way.
THEOREM PayAllKeeps ==
  ASSUME NEW N \in Nat, NEW c \in Nat, NEW L, Backed(L, N, c),
         NEW blocked, NEW ps, Len(ps) \in Nat,
         \A k \in 1..Len(ps) : ps[k].to \in 1..N /\ ps[k].amt \in Int
  PROVE  Backed(pay_all(L, blocked, ps), N, c)
<1> DEFINE p == CHOOSE p : IsPayout(p, L, blocked, ps, Len(ps))
<1>1. IsPayout(p, L, blocked, ps, Len(ps))
  BY PayoutExists, Zenon
<1>2. pay_all(L, blocked, ps) = p[Len(ps)]
  BY Zenon DEF pay_all, IsPayout
<1> HIDE DEF p
<1> DEFINE T == {n \in Nat : n <= Len(ps) => Backed(p[n], N, c)}
<1>3. 0 \in T
  BY <1>1 DEF IsPayout
<1>4. ASSUME NEW n \in T PROVE n+1 \in T
  <2>1. SUFFICES ASSUME n+1 <= Len(ps) PROVE Backed(p[n+1], N, c)
    OBVIOUS
  <2>2. n \in Nat /\ n+1 \in 1..Len(ps) /\ (n+1) - 1 = n /\ Backed(p[n], N, c)
    BY <2>1
  <2>3. p[n+1] = pay_or_escrow(p[n], blocked, ps[n+1].to, ps[n+1].amt)
    BY <1>1, <2>2 DEF IsPayout
  <2>4. ps[n+1].to \in 1..N /\ ps[n+1].amt \in Int
    BY <2>2, Zenon
  <2> QED
    BY <2>2, <2>3, <2>4, PayOrEscrowKeeps, Zenon
<1>5. \A n \in Nat : n \in T
  <2>1. T \in SUBSET Nat
    BY Zenon
  <2> HIDE DEF T
  <2> QED
    BY <2>1, <1>3, <1>4, SetInduction, Zenon
<1> QED
  BY <1>2, <1>5

-----------------------------------------------------------------------------
(* Arithmetic and contributor lists.                                        *)

\* A discount or fee lies between nothing and the whole amount.
LEMMA FractionBounds ==
  ASSUME NEW a \in Nat, NEW r \in 0..Bps
  PROVE  Fraction(a, r) \in Nat /\ Fraction(a, r) <= a
<1>0. Bps \in Nat /\ Bps > 0 /\ r \in Nat /\ r <= Bps
  BY EscrowAssumption
<1>1. a * r \in Nat /\ a * r <= a * Bps
  <2>1. a * r \in Nat /\ a * Bps \in Nat
    BY <1>0
  <2>2. a * Bps - a * r = a * (Bps - r)
    BY <1>0
  <2>3. a * (Bps - r) \in Nat
    BY <1>0
  <2> QED
    BY <2>1, <2>2, <2>3, <1>0
<1> DEFINE x == a * r
           q == x \div Bps
<1>2. x \in Nat /\ x <= a * Bps
  BY <1>1, Zenon
<1> HIDE DEF x
<1>3. q \in Nat /\ q * Bps <= x
  BY <1>0, <1>2
<1> HIDE DEF q
<1>4. q <= a
  <2>1. SUFFICES ASSUME q >= a + 1 PROVE FALSE
    BY <1>3
  <2>2. q * Bps >= (a + 1) * Bps
    BY <2>1, <1>0, <1>3
  <2>3. (a + 1) * Bps = a * Bps + Bps /\ a * Bps \in Nat
    BY <1>0
  <2> QED
    BY <1>0, <1>2, <1>3, <2>2, <2>3
<1>5. Fraction(a, r) = q
  BY Zenon DEF Fraction, q, x
<1> QED
  BY <1>3, <1>4, <1>5, Zenon

\* What an LP pays is a natural number.
LEMMA CostType ==
  ASSUME NEW a \in Nat, NEW r \in 0..(Bps - 1)
  PROVE  Cost(a, r) \in Nat
<1>1. r \in 0..Bps
  BY EscrowAssumption
<1>2. Fraction(a, r) \in Nat /\ Fraction(a, r) <= a
  BY <1>1, FractionBounds, Zenon
<1> QED
  BY <1>2 DEF Cost

\* Adding a contribution adds its amount to the sum of the list, whether the LP
\* is new or has contributed before.
LEMMA AddContributionSum ==
  ASSUME NEW fs \in Seq(Contribution), NEW lp \in Accounts, NEW a \in Nat
  PROVE  LET gs == AddContribution(fs, lp, a) IN
         /\ gs \in Seq(Contribution) /\ gs # << >>
         /\ Contributes(gs, lp)
         /\ Contributed(gs) = Contributed(fs) + a
<1> DEFINE gs == AddContribution(fs, lp, a)
           n == Len(fs)
           f == [j \in 1..Len(fs) |-> fs[j].amt]
           g == [j \in 1..Len(gs) |-> gs[j].amt]
<1>0. n \in Nat
  BY SeqIsFunction, Zenon
<1>a. \A k \in 1..n : fs[k] \in Contribution
  BY SeqEntry, Zenon
<1>b. \A k \in 1..n : fs[k].lp \in Accounts /\ fs[k].amt \in Nat
  BY <1>a, Zenon DEF Contribution
<1>c. Contributed(fs) = SumTo(f, n) /\ Contributed(gs) = SumTo(g, Len(gs))
  BY Zenon DEF Contributed
<1>1. CASE Contributes(fs, lp)
  <2> DEFINE J == {j \in 1..n : fs[j].lp = lp}
  <2>1. \E j \in J : \A i \in J : j <= i
    <3>1. J \in SUBSET Nat /\ J # {}
      BY <1>0, <1>1 DEF Contributes
    <3> QED
      BY <3>1, LeastNat, Zenon
  <2> DEFINE first == CHOOSE j \in 1..Len(fs) :
                        /\ fs[j].lp = lp
                        /\ \A k \in 1..(j-1) : fs[k].lp # lp
  <2>2. \E j \in 1..n : fs[j].lp = lp /\ \A k \in 1..(j-1) : fs[k].lp # lp
    <3>1. PICK j \in J : \A i \in J : j <= i
      BY <2>1, Zenon
    <3>2. ASSUME NEW k \in 1..(j-1) PROVE fs[k].lp # lp
      BY <3>1, <1>0
    <3> QED
      BY <3>1, <3>2, Zenon
  <2>3. first \in 1..n /\ fs[first].lp = lp
    BY <2>2, Zenon
  <2> HIDE DEF first
  <2> DEFINE e == [lp |-> lp, amt |-> fs[first].amt + a]
  <2>4. gs = [fs EXCEPT ![first] = e]
    <3>1. gs = [fs EXCEPT ![first].amt = @ + a]
      BY <1>1, Zenon DEF AddContribution, first
    <3>2. [fs[first] EXCEPT !.amt = @ + a] = e
      BY <1>a, <2>3 DEF Contribution
    <3> QED
      BY <3>1, <3>2, Zenon
  <2>5. e \in Contribution
    BY <1>b, <2>3 DEF Contribution
  <2> HIDE DEF gs
  <2>6. /\ gs \in Seq(Contribution) /\ Len(gs) = n
        /\ \A k \in 1..n : gs[k] = IF k = first THEN e ELSE fs[k]
    BY <2>3, <2>4, <2>5, SeqReplaced
  <2>7. /\ \A k \in 1..n : f[k] \in Int
        /\ \A k \in 1..n : k # first => g[k] = f[k]
        /\ g[first] = f[first] + a
    BY <1>b, <2>3, <2>6
  <2>8. gs # << >> /\ Contributes(gs, lp)
    <3>1. gs[first].lp = lp /\ first \in 1..Len(gs)
      BY <2>3, <2>6
    <3> QED
      BY <1>0, <2>6, <3>1, SeqOfNothing DEF Contributes
  <2> HIDE DEF f, g, n, e
  <2>9. SumTo(g, n) = SumTo(f, n) + a
    <3>1. a \in Int /\ first \in 1..n
      BY <2>3
    <3> QED
      BY <1>0, <3>1, <2>7, SumToChange, Zenon
  <2> QED
    BY <1>c, <2>6, <2>8, <2>9, Zenon DEF gs
<1>2. CASE ~ Contributes(fs, lp)
  <2>1. gs = Append(fs, [lp |-> lp, amt |-> a])
    BY <1>2, Zenon DEF AddContribution
  <2> HIDE DEF gs
  <2>2. [lp |-> lp, amt |-> a] \in Contribution
    BY Zenon DEF Contribution
  <2>3. /\ gs \in Seq(Contribution) /\ Len(gs) = n + 1 /\ gs # << >>
        /\ \A k \in 1..n : gs[k] = fs[k]
        /\ gs[n+1] = [lp |-> lp, amt |-> a]
    BY <2>1, <2>2, SeqAppended
  <2>4. /\ \A k \in 1..n : g[k] = f[k]
        /\ g[n+1] = a
    BY <1>0, <2>3
  <2>5. Contributes(gs, lp)
    <3>1. n + 1 \in 1..Len(gs) /\ gs[n+1].lp = lp
      BY <1>0, <2>3
    <3> QED
      BY <3>1, Zenon DEF Contributes
  <2> HIDE DEF f, g, n
  <2>6. SumTo(g, n) = SumTo(f, n)
    BY <1>0, <2>4, SumToEqual, Zenon
  <2>7. SumTo(g, n+1) = SumTo(g, n) + a
    BY <1>0, <2>4, SumToEquations, Zenon
  <2> QED
    BY <1>c, <2>3, <2>5, <2>6, <2>7, Zenon DEF gs
<1> QED
  BY <1>1, <1>2, Zenon

\* The lead LP of a non-empty list is one of its contributors.
LEMMA LeadLpContributes ==
  ASSUME NEW fs \in Seq(Contribution), fs # << >>
  PROVE  LeadLp(fs) \in Accounts /\ Contributes(fs, LeadLp(fs))
<1> DEFINE n == Len(fs)
           f == [j \in 1..Len(fs) |-> fs[j].amt]
           Above == {x \in Nat : \A k \in 1..n : fs[k].amt <= x}
<1>0. n \in Nat /\ n > 0
  BY SeqOfNothing
<1>1. /\ n \in Nat /\ n > 0
      /\ \A k \in 1..n : fs[k].lp \in Accounts /\ fs[k].amt \in Nat
      /\ \A k \in 1..n : f[k] = fs[k].amt
  <2>1. \A k \in 1..n : fs[k] \in Contribution
    BY SeqEntry, Zenon
  <2> QED
    BY <1>0, <2>1, Zenon DEF Contribution
<1>2. SumTo(f, n) \in Above
  <2>1. \A k \in 1..n : f[k] \in Nat
    BY <1>1, Zenon
  <2> HIDE DEF f, n
  <2>2. SumTo(f, n) \in Nat
    BY <1>1, <2>1, SumToType, Zenon
  <2>3. \A k \in 1..n : f[k] <= SumTo(f, n)
    BY <1>1, <2>1, SumToTerm, Zenon
  <2> QED
    BY <1>1, <2>2, <2>3, Zenon
<1>3. PICK top \in Above : \A x \in Above : top <= x
  <2>1. Above \in SUBSET Nat /\ Above # {}
    BY <1>2, Zenon
  <2> HIDE DEF Above
  <2> QED
    BY <2>1, LeastNat, Zenon
<1> DEFINE J == {j \in 1..n : fs[j].amt = top}
<1>4. J # {}
  <2>1. SUFFICES ASSUME J = {} PROVE FALSE
    BY Zenon
  <2>2. \A k \in 1..n : fs[k].amt <= top /\ fs[k].amt # top
    BY <1>3, <2>1, Zenon
  <2>3. top \in Nat /\ top > 0
    BY <1>1, <1>3, <2>2
  <2>4. top - 1 \in Above
    BY <1>1, <2>2, <2>3
  <2> QED
    BY <1>3, <2>3, <2>4
<1>5. PICK j \in J : \A i \in J : j <= i
  <2>1. J \in SUBSET Nat
    OBVIOUS
  <2> HIDE DEF J
  <2> QED
    BY <2>1, <1>4, LeastNat, Zenon
<1>6. /\ j \in 1..n
      /\ \A k \in 1..n : fs[k].amt <= fs[j].amt
      /\ \A k \in 1..(j-1) : fs[k].amt < fs[j].amt
  <2>1. j \in 1..n /\ fs[j].amt = top
    BY <1>5, Zenon
  <2>2. \A k \in 1..n : fs[k].amt <= top
    BY <1>3, Zenon
  <2>3. ASSUME NEW k \in 1..(j-1) PROVE fs[k].amt < top
    <3>1. k \in 1..n /\ ~ (j <= k)
      BY <2>1, <1>1
    <3>2. fs[k].amt # top
      BY <3>1, <1>5, Zenon
    <3> QED
      BY <3>1, <3>2, <2>2, <1>1, <1>3
  <2> QED
    BY <2>1, <2>2, <2>3, Zenon
<1> DEFINE lead == CHOOSE i \in 1..Len(fs) :
                     /\ \A k \in 1..Len(fs) : fs[k].amt <= fs[i].amt
                     /\ \A k \in 1..(i-1) : fs[k].amt < fs[i].amt
<1>7. lead \in 1..n
  BY <1>6, Zenon
<1>8. LeadLp(fs) = fs[lead].lp
  BY Zenon DEF LeadLp
<1> QED
  BY <1>1, <1>7, <1>8, Zenon DEF Contributes

-----------------------------------------------------------------------------
(* The inductive invariant.  What it says of one invoice, its contributors  *)
(* and its NFT is stated once, as a relation between the three.             *)

InvoiceOK(v, fs) ==
    /\ v.status = "Absent" => v.funded = 0 /\ v.amount = 0
    /\ v.status # "Absent" => v.amount > 0 /\ v.freelancer \in Accounts
                                          /\ v.payer \in Accounts
    /\ v.funded = Contributed(fs)
    /\ v.funder # NoOne => Contributes(fs, v.funder)
    /\ v.status = "PartiallyFunded" => fs # << >>
    /\ v.funded <= v.amount
    /\ v.status = "Paid" => v.paid = v.amount
    /\ v.status \notin {"Paid", "Absent"} => v.paid < v.amount
    /\ v.status \in {"Pending", "Expired"} => v.funded = 0
    /\ v.status = "PartiallyFunded" => v.funded < v.amount
    /\ v.status \in {"Funded", "Paid", "Defaulted", "Appealed"} => v.funded = v.amount
    /\ v.paid > 0 => v.funded = v.amount
    /\ v.funder # NoOne <=> (v.funded = v.amount /\ v.status # "Absent")

NftOK(v, fs, o) ==
    /\ v.status \in NftStatuses =>
          /\ o = NftHolder(v, fs)
          /\ o # NoOne
          /\ Contributes(fs, o) \/ (v.status = "Disputed" /\ o = v.freelancer)
    /\ v.status \in {"Absent", "Pending", "Paid", "Expired"} => o = NoOne

Consistent(v, fs, o) ==
    /\ v \in Invoice
    /\ fs \in Seq(Contribution)
    /\ o \in Accounts \cup {NoOne}
    /\ InvoiceOK(v, fs)
    /\ NftOK(v, fs, o)

InvoicesOK ==
    /\ inv = [i \in Invoices |-> inv[i]]
    /\ funders = [i \in Invoices |-> funders[i]]
    /\ nft = [i \in Invoices |-> nft[i]]
    /\ \A i \in Invoices : Consistent(inv[i], funders[i], nft[i])

MoneyOK == Backed(ledger, NAccounts, clawed) /\ ledger.ok = TRUE

SettingsOK ==
    /\ frozen \subseteq Accounts
    /\ clawed \in Nat
    /\ feeRate \in FeeRates
    /\ paused \in BOOLEAN
    /\ now \in Nat

IInv == InvoicesOK /\ MoneyOK /\ SettingsOK

\* The NFT that sync_nft_state leaves behind fits the invoice.
LEMMA SyncedConsistent ==
  ASSUME NEW v \in Invoice, NEW fs \in Seq(Contribution), InvoiceOK(v, fs),
         v.status # "Absent"
  PROVE  Consistent(v, fs, IF v.status \in NftStatuses THEN NftHolder(v, fs) ELSE NoOne)
<1> DEFINE o == IF v.status \in NftStatuses THEN NftHolder(v, fs) ELSE NoOne
<1>0. /\ v.funder \in Accounts \cup {NoOne} /\ v.freelancer \in Accounts
      /\ NoOne \notin Accounts
  BY EscrowAssumption DEF Invoice, InvoiceOK, Accounts, NoOne
<1>1. CASE v.status \in NftStatuses
  <2>1. CASE v.funder # NoOne
    <3>1. o = v.funder /\ Contributes(fs, v.funder)
      BY <1>1, <2>1, Zenon DEF NftHolder, InvoiceOK
    <3> QED
      BY <1>0, <1>1, <2>1, <3>1, Zenon DEF Consistent, NftOK, NftStatuses
  <2>2. CASE v.funder = NoOne /\ fs = << >>
    <3>1. o = v.freelancer
      BY <1>1, <2>2, Zenon DEF NftHolder
    <3>2. v.status = "Disputed"
      <4>1. v.status \notin {"Funded", "Defaulted", "Appealed"}
        BY <2>2, Zenon DEF InvoiceOK
      <4> QED
        BY <1>1, <2>2, <4>1, Zenon DEF InvoiceOK, NftStatuses
    <3> QED
      BY <1>0, <1>1, <3>1, <3>2, Zenon DEF Consistent, NftOK
  <2>3. CASE v.funder = NoOne /\ fs # << >>
    <3>1. o = LeadLp(fs)
      BY <1>1, <2>3, Zenon DEF NftHolder
    <3>2. LeadLp(fs) \in Accounts /\ Contributes(fs, LeadLp(fs))
      BY <2>3, LeadLpContributes, Zenon
    <3> QED
      BY <1>0, <1>1, <3>1, <3>2, Zenon DEF Consistent, NftOK, NftStatuses
  <2> QED
    BY <2>1, <2>2, <2>3, Zenon
<1>2. CASE v.status \notin NftStatuses
  BY <1>2, Zenon DEF Consistent, NftOK
<1> QED
  BY <1>1, <1>2, Zenon

\* An action that replaces invoice i and its contributors, and syncs the NFT.
LEMMA ReplaceInvoice ==
  ASSUME InvoicesOK, NEW i \in Invoices, NEW w \in Invoice,
         NEW fs \in Seq(Contribution), InvoiceOK(w, fs), w.status # "Absent",
         inv' = [inv EXCEPT ![i] = w],
         funders' = [funders EXCEPT ![i] = fs],
         sync_nft_state(i, w, fs)
  PROVE  InvoicesOK'
<1> DEFINE o == IF w.status \in NftStatuses THEN NftHolder(w, fs) ELSE NoOne
<1>1. nft' = [nft EXCEPT ![i] = o]
  BY Zenon DEF sync_nft_state
<1>2. Consistent(w, fs, o)
  BY SyncedConsistent, Zenon
<1> HIDE DEF o
<1>3. inv'[i] = w /\ funders'[i] = fs /\ nft'[i] = o
  BY <1>1, Zenon DEF InvoicesOK
<1>4. \A k \in Invoices : k # i =>
          inv'[k] = inv[k] /\ funders'[k] = funders[k] /\ nft'[k] = nft[k]
  BY <1>1, Zenon DEF InvoicesOK
<1>5. \A k \in Invoices : Consistent(inv'[k], funders'[k], nft'[k])
  BY <1>2, <1>3, <1>4, Zenon DEF InvoicesOK
<1>6. /\ inv' = [k \in Invoices |-> inv'[k]]
      /\ funders' = [k \in Invoices |-> funders'[k]]
      /\ nft' = [k \in Invoices |-> nft'[k]]
  BY <1>1, Zenon DEF InvoicesOK
<1> QED
  BY <1>5, <1>6, Zenon DEF InvoicesOK

\* The same when the contributors stay.
LEMMA ReplaceInvoiceOnly ==
  ASSUME InvoicesOK, NEW i \in Invoices, NEW w \in Invoice,
         InvoiceOK(w, funders[i]), w.status # "Absent",
         inv' = [inv EXCEPT ![i] = w], funders' = funders,
         sync_nft_state(i, w, funders[i])
  PROVE  InvoicesOK'
<1>1. funders' = [funders EXCEPT ![i] = funders[i]]
  BY Zenon DEF InvoicesOK
<1>2. funders[i] \in Seq(Contribution)
  BY Zenon DEF InvoicesOK, Consistent
<1> QED
  BY <1>1, <1>2, ReplaceInvoice, Zenon

\* An action that replaces invoice i and leaves an NFT alone that fits it.
LEMMA ReplaceInvoiceKeepNft ==
  ASSUME InvoicesOK, NEW i \in Invoices, NEW w,
         Consistent(w, funders[i], nft[i]),
         inv' = [inv EXCEPT ![i] = w], funders' = funders, nft' = nft
  PROVE  InvoicesOK'
<1>1. inv'[i] = w /\ \A k \in Invoices : k # i => inv'[k] = inv[k]
  BY Zenon DEF InvoicesOK
<1>2. \A k \in Invoices : Consistent(inv'[k], funders'[k], nft'[k])
  BY <1>1, Zenon DEF InvoicesOK
<1>3. inv' = [k \in Invoices |-> inv'[k]]
  BY Zenon DEF InvoicesOK
<1> QED
  BY <1>2, <1>3, Zenon DEF InvoicesOK

-----------------------------------------------------------------------------
(* What each operation does to the invoices.                                *)

\* Facts about one invoice that every case below starts from.
LEMMA InvoiceFacts ==
  ASSUME InvoicesOK, NEW i \in Invoices
  PROVE  /\ inv[i] \in Invoice /\ funders[i] \in Seq(Contribution)
         /\ nft[i] \in Accounts \cup {NoOne}
         /\ InvoiceOK(inv[i], funders[i]) /\ NftOK(inv[i], funders[i], nft[i])
  BY Zenon DEF InvoicesOK, Consistent

\* A new invoice has no contributors and no NFT.
LEMMA NewInvoiceConsistent ==
  ASSUME InvoicesOK, now \in Nat, NEW i \in Invoices, inv[i].status = "Absent",
         NEW t \in Terms
  PROVE  Consistent(NewInvoice(t), funders[i], nft[i])
<1> DEFINE w == NewInvoice(t)
<1>1. /\ inv[i] \in Invoice /\ funders[i] \in Seq(Contribution)
      /\ InvoiceOK(inv[i], funders[i]) /\ NftOK(inv[i], funders[i], nft[i])
  BY InvoiceFacts, Zenon
<1>2. Contributed(funders[i]) = 0 /\ nft[i] = NoOne
  BY <1>1, Zenon DEF InvoiceOK, NftOK
<1>3. /\ t.freelancer \in Accounts /\ t.payer \in Accounts
      /\ t.amount \in Nat /\ t.amount > 0 /\ t.rate \in 0..(Bps-1)
      /\ t.duration \in Nat
  <2>1. /\ t.freelancer \in Freelancers /\ t.payer \in Payers /\ t.amount \in Amounts
        /\ t.rate \in Rates /\ t.duration \in Durations
    BY Zenon DEF Terms
  <2>2. t.rate \in 1..(Bps-1)
    BY <2>1, EscrowAssumption, Zenon
  <2>3. t.rate \in 0..(Bps-1)
    BY <2>2, EscrowAssumption
  <2>4. t.amount \in Nat \ {0}
    BY <2>1, EscrowAssumption, Zenon
  <2>5. t.amount \in Nat /\ t.amount > 0
    BY <2>4
  <2> QED
    BY <2>1, <2>3, <2>5, EscrowAssumption, Zenon
<1>4. /\ w.status = "Pending" /\ w.freelancer = t.freelancer /\ w.payer = t.payer
      /\ w.amount = t.amount /\ w.funded = 0 /\ w.paid = 0 /\ w.funder = NoOne
  BY Zenon DEF NewInvoice, NoInvoice
<1>5. w \in Invoice
  <2>1. now + t.duration \in Nat
    BY <1>3
  <2> QED
    BY <2>1, <1>3, EscrowAssumption, ZenonT(40)
       DEF NewInvoice, NoInvoice, Invoice, Statuses, NoOne, Never
<1> HIDE DEF w
<1>6. InvoiceOK(w, funders[i])
  BY <1>2, <1>3, <1>4 DEF InvoiceOK
<1>7. NftOK(w, funders[i], nft[i])
  BY <1>2, <1>4, Zenon DEF NftOK, NftStatuses
<1>8. nft[i] \in Accounts \cup {NoOne}
  BY <1>2, Zenon
<1> QED
  BY <1>1, <1>5, <1>6, <1>7, <1>8, Zenon DEF Consistent, w

\* Submission, in single calls and in batches.
LEMMA SubmitKeeps ==
  ASSUME InvoicesOK, now \in Nat
  PROVE  /\ \A i \in Invoices, t \in Terms : SubmitInvoice(i, t) => InvoicesOK'
         /\ \A S \in SUBSET Invoices : \A ts \in [S -> Terms] :
                SubmitInvoicesBatch(ts) => InvoicesOK'
<1>1. ASSUME NEW i \in Invoices, NEW t \in Terms, SubmitInvoice(i, t)
      PROVE  InvoicesOK'
  <2>1. inv[i].status = "Absent"
    <3>1. i \in 1..i
      BY EscrowAssumption DEF Invoices
    <3> QED
      BY <1>1, <3>1, Zenon DEF SubmitInvoice
  <2>2. Consistent(NewInvoice(t), funders[i], nft[i])
    BY <2>1, NewInvoiceConsistent, Zenon
  <2> QED
    BY <1>1, <2>2, ReplaceInvoiceKeepNft, ZenonT(40) DEF SubmitInvoice
<1>2. ASSUME NEW S \in SUBSET Invoices, NEW ts \in [S -> Terms], SubmitInvoicesBatch(ts)
      PROVE  InvoicesOK'
  <2>1. /\ inv' = [i \in Invoices |-> IF i \in S THEN NewInvoice(ts[i]) ELSE inv[i]]
        /\ funders' = funders /\ nft' = nft
    BY <1>2, Zenon DEF SubmitInvoicesBatch
  <2>2. ASSUME NEW i \in Invoices
        PROVE  Consistent(inv'[i], funders'[i], nft'[i])
    <3>1. CASE i \in S
      <4>1. inv[i].status = "Absent"
        <5>1. i \in 1..i
          BY EscrowAssumption DEF Invoices
        <5> QED
          BY <1>2, <3>1, <5>1, Zenon DEF SubmitInvoicesBatch
      <4>2. ts[i] \in Terms
        BY <3>1, Zenon
      <4> QED
        BY <2>1, <3>1, <4>1, <4>2, NewInvoiceConsistent, Zenon
    <3>2. CASE i \notin S
      BY <2>1, <3>2, Zenon DEF InvoicesOK
    <3> QED
      BY <3>1, <3>2, Zenon
  <2>3. inv' = [i \in Invoices |-> inv'[i]]
    BY <2>1, Zenon
  <2> QED
    BY <2>1, <2>2, <2>3, Zenon DEF InvoicesOK
<1> QED
  BY <1>1, <1>2, Zenon

\* Changes to a Pending invoice, its expiry, and cancellation, which leave the
\* NFT alone.
LEMMA PendingKeeps ==
  ASSUME InvoicesOK, now \in Nat, NEW i \in Invoices
  PROVE  /\ \A a \in Amounts, r \in Rates, d \in Durations :
                UpdateInvoice(i, a, r, d) => InvoicesOK'
         /\ \A f \in Freelancers : TransferInvoice(i, f) => InvoicesOK'
         /\ ExpireInvoice(i) => InvoicesOK'
         /\ CancelInvoice(i) => InvoicesOK'
<1>0. /\ inv[i] \in Invoice /\ funders[i] \in Seq(Contribution)
      /\ nft[i] \in Accounts \cup {NoOne}
      /\ InvoiceOK(inv[i], funders[i]) /\ NftOK(inv[i], funders[i], nft[i])
  BY InvoiceFacts, Zenon
<1>1. ASSUME NEW a \in Amounts, NEW r \in Rates, NEW d \in Durations,
             UpdateInvoice(i, a, r, d)
      PROVE  InvoicesOK'
  <2> DEFINE w == [inv[i] EXCEPT !.amount = a, !.rate = r, !.due = now + d]
  <2>1. inv' = [inv EXCEPT ![i] = w] /\ funders' = funders /\ nft' = nft
    BY <1>1, Zenon DEF UpdateInvoice, InvoicesOK
  <2>2. a \in Nat /\ a > 0 /\ r \in 0..(Bps-1) /\ now + d \in Nat
    BY EscrowAssumption
  <2>3. w \in Invoice
    BY <1>0, <2>2, ZenonT(40) DEF Invoice
  <2>4. inv[i].status = "Pending"
    BY <1>1, Zenon DEF UpdateInvoice
  <2>5. /\ w.status = "Pending" /\ w.amount = a /\ w.funded = inv[i].funded
        /\ w.paid = inv[i].paid /\ w.funder = inv[i].funder
        /\ w.freelancer = inv[i].freelancer /\ w.payer = inv[i].payer
    BY <1>0, <2>4, Zenon DEF Invoice
  <2>6. inv[i].funded \in Nat /\ inv[i].paid \in Nat /\ inv[i].amount \in Nat
    BY <1>0, Zenon DEF Invoice
  <2> HIDE DEF w
  <2>7. InvoiceOK(w, funders[i])
    BY <1>0, <2>2, <2>4, <2>5, <2>6 DEF InvoiceOK
  <2>8. NftOK(w, funders[i], nft[i])
    BY <1>0, <2>4, <2>5, Zenon DEF NftOK, NftStatuses
  <2> QED
    BY <1>0, <2>1, <2>3, <2>7, <2>8, ReplaceInvoiceKeepNft, Zenon DEF Consistent
<1>2. ASSUME NEW f \in Freelancers, TransferInvoice(i, f)
      PROVE  InvoicesOK'
  <2> DEFINE w == [inv[i] EXCEPT !.freelancer = f]
  <2>1. inv' = [inv EXCEPT ![i] = w] /\ funders' = funders /\ nft' = nft
    BY <1>2, Zenon DEF TransferInvoice, InvoicesOK
  <2>2. f \in Accounts
    BY EscrowAssumption, Zenon
  <2>3. w \in Invoice
    BY <1>0, <2>2, Zenon DEF Invoice
  <2>4. inv[i].status = "Pending"
    BY <1>2, Zenon DEF TransferInvoice
  <2>5. /\ w.status = "Pending" /\ w.amount = inv[i].amount /\ w.funded = inv[i].funded
        /\ w.paid = inv[i].paid /\ w.funder = inv[i].funder
        /\ w.freelancer = f /\ w.payer = inv[i].payer
    BY <1>0, <2>4, Zenon DEF Invoice
  <2> HIDE DEF w
  <2>7. InvoiceOK(w, funders[i])
    BY <1>0, <2>2, <2>4, <2>5, Zenon DEF InvoiceOK
  <2>8. NftOK(w, funders[i], nft[i])
    BY <1>0, <2>4, <2>5, Zenon DEF NftOK, NftStatuses
  <2> QED
    BY <1>0, <2>1, <2>3, <2>7, <2>8, ReplaceInvoiceKeepNft, Zenon DEF Consistent
<1>3. ASSUME ExpireInvoice(i)
      PROVE  InvoicesOK'
  <2> DEFINE w == [inv[i] EXCEPT !.status = "Expired"]
  <2>1. inv' = [inv EXCEPT ![i] = w] /\ funders' = funders /\ nft' = nft
    BY <1>3, Zenon DEF ExpireInvoice, InvoicesOK
  <2>3. w \in Invoice
    BY <1>0, Zenon DEF Invoice, Statuses
  <2>4. inv[i].status = "Pending"
    BY <1>3, Zenon DEF ExpireInvoice
  <2>5. /\ w.status = "Expired" /\ w.amount = inv[i].amount /\ w.funded = inv[i].funded
        /\ w.paid = inv[i].paid /\ w.funder = inv[i].funder
        /\ w.freelancer = inv[i].freelancer /\ w.payer = inv[i].payer
    BY <1>0, Zenon DEF Invoice
  <2> HIDE DEF w
  <2>7. InvoiceOK(w, funders[i])
    BY <1>0, <2>4, <2>5, Zenon DEF InvoiceOK
  <2>8. NftOK(w, funders[i], nft[i])
    BY <1>0, <2>4, <2>5, Zenon DEF NftOK, NftStatuses
  <2> QED
    BY <1>0, <2>1, <2>3, <2>7, <2>8, ReplaceInvoiceKeepNft, ZenonT(40) DEF Consistent
<1>4. ASSUME CancelInvoice(i)
      PROVE  InvoicesOK'
  <2> DEFINE w == [inv[i] EXCEPT !.status = "Cancelled"]
  <2>1. inv' = [inv EXCEPT ![i] = w] /\ funders' = funders /\ nft' = nft
    BY <1>4, Zenon DEF CancelInvoice, InvoicesOK
  <2>3. w \in Invoice
    BY <1>0, Zenon DEF Invoice, Statuses
  <2>4. inv[i].status \in {"Pending", "PartiallyFunded"}
    BY <1>4, Zenon DEF CancelInvoice
  <2>5. /\ w.status = "Cancelled" /\ w.amount = inv[i].amount
        /\ w.funded = inv[i].funded
        /\ w.paid = inv[i].paid /\ w.funder = inv[i].funder
        /\ w.freelancer = inv[i].freelancer /\ w.payer = inv[i].payer
    BY <1>0, Zenon DEF Invoice
  <2> HIDE DEF w
  <2>7. InvoiceOK(w, funders[i])
    BY <1>0, <2>4, <2>5, Zenon DEF InvoiceOK
  <2>8. NftOK(w, funders[i], nft[i])
    BY <2>5, Zenon DEF NftOK, NftStatuses
  <2> QED
    BY <1>0, <2>1, <2>3, <2>7, <2>8, ReplaceInvoiceKeepNft, Zenon DEF Consistent
<1> QED
  BY <1>1, <1>2, <1>3, <1>4, Zenon

\* Funding: the contribution is recorded, and the LP who completes the amount
\* becomes the LP of record.
LEMMA FundKeeps ==
  ASSUME InvoicesOK, NEW i \in Invoices, NEW lp \in LPs, NEW amount \in FundAmounts,
         FundInvoice(i, lp, amount)
  PROVE  InvoicesOK'
<1> DEFINE v == inv[i]
           sum == v.funded + amount
           full == sum = v.amount
           fs == AddContribution(funders[i], lp, amount)
           w == [v EXCEPT !.status = IF full THEN "Funded" ELSE "PartiallyFunded",
                          !.funded = sum,
                          !.funder = IF full THEN lp ELSE @]
<1>1. /\ inv' = [inv EXCEPT ![i] = w] /\ funders' = [funders EXCEPT ![i] = fs]
      /\ sync_nft_state(i, w, fs)
      /\ v.status \in {"Pending", "PartiallyFunded"} /\ sum <= v.amount
  BY Zenon DEF FundInvoice
<1>2. /\ v \in Invoice /\ funders[i] \in Seq(Contribution)
      /\ InvoiceOK(v, funders[i])
  BY InvoiceFacts, Zenon
<1>3. lp \in Accounts /\ amount \in Nat
  BY EscrowAssumption, Zenon
<1>4. /\ fs \in Seq(Contribution) /\ fs # << >> /\ Contributes(fs, lp)
      /\ Contributed(fs) = Contributed(funders[i]) + amount
  BY <1>2, <1>3, AddContributionSum, Zenon
<1>5. /\ v.funded \in Nat /\ v.amount \in Nat /\ v.paid \in Nat
      /\ v.funder \in Accounts \cup {NoOne}
  BY <1>2, Zenon DEF Invoice
<1>6. w \in Invoice
  <2>1. sum \in Nat /\ (IF full THEN lp ELSE v.funder) \in Accounts \cup {NoOne}
    BY <1>3, <1>5
  <2>2. (IF full THEN "Funded" ELSE "PartiallyFunded") \in Statuses
    BY Zenon DEF Statuses
  <2> QED
    BY <1>2, <2>1, <2>2, ZenonT(40) DEF Invoice
<1>7. /\ w.status = IF full THEN "Funded" ELSE "PartiallyFunded"
      /\ w.funded = sum /\ w.funder = (IF full THEN lp ELSE v.funder)
      /\ w.amount = v.amount /\ w.paid = v.paid
      /\ w.freelancer = v.freelancer /\ w.payer = v.payer
  BY <1>2, Zenon DEF Invoice
<1>8. NoOne \notin Accounts
  BY DEF Accounts, NoOne
<1>9. InvoiceOK(w, fs)
  <2>1. /\ v.funder = NoOne /\ v.paid < v.amount /\ v.funded < v.amount /\ v.amount > 0
        /\ v.funded = Contributed(funders[i]) /\ v.paid = 0
        /\ v.freelancer \in Accounts /\ v.payer \in Accounts
    BY <1>1, <1>2, <1>5 DEF InvoiceOK
  <2> HIDE DEF v, fs, w
  <2>2. w.funded = Contributed(fs) /\ w.funded <= w.amount
    BY <2>1, <1>1, <1>4, <1>7, Zenon
  <2>3. CASE full
    BY <2>1, <2>2, <2>3, <1>3, <1>4, <1>5, <1>7, <1>8, Zenon DEF InvoiceOK
  <2>4. CASE ~ full
    BY <2>1, <2>2, <2>4, <1>1, <1>3, <1>4, <1>5, <1>7, <1>8, SMTT(40) DEF InvoiceOK
  <2> QED
    BY <2>3, <2>4, Zenon
<1>10. w.status # "Absent"
  BY <1>7
<1> HIDE DEF v, fs, w
<1> QED
  BY <1>1, <1>4, <1>6, <1>9, <1>10, ReplaceInvoice, ZenonT(40)

\* Handing the position over rewrites names and leaves the sums.
LEMMA TransferLpKeeps ==
  ASSUME InvoicesOK, NEW i \in Invoices, NEW lp \in LPs, TransferLpPosition(i, lp)
  PROVE  InvoicesOK'
<1> DEFINE v == inv[i]
           gs == funders[i]
           w == [v EXCEPT !.funder = lp]
           fs == [j \in 1..Len(gs) |->
                    IF gs[j].lp = v.funder THEN [gs[j] EXCEPT !.lp = lp] ELSE gs[j]]
<1>1. /\ inv' = [inv EXCEPT ![i] = w] /\ funders' = [funders EXCEPT ![i] = fs]
      /\ sync_nft_state(i, w, fs)
      /\ v.status = "Funded" /\ v.funder # NoOne
  BY Zenon DEF TransferLpPosition
<1>2. v \in Invoice /\ gs \in Seq(Contribution) /\ InvoiceOK(v, gs)
  BY InvoiceFacts, Zenon
<1>3. lp \in Accounts /\ NoOne \notin Accounts
  BY EscrowAssumption DEF Accounts, NoOne
<1>4. Len(gs) \in Nat /\ \A j \in 1..Len(gs) : gs[j] \in Contribution
  BY <1>2, SeqEntry, SeqIsFunction, Zenon
<1>5. \A j \in 1..Len(gs) : fs[j] \in Contribution /\ fs[j].amt = gs[j].amt
                             /\ (gs[j].lp = v.funder => fs[j].lp = lp)
  BY <1>3, <1>4, Zenon DEF Contribution
<1>6. fs \in Seq(Contribution) /\ Len(fs) = Len(gs)
  <2>1. fs \in [1..Len(gs) -> Contribution]
    BY <1>5, Zenon
  <2> HIDE DEF fs
  <2> QED
    BY <1>4, <2>1
<1>7. Contributed(fs) = Contributed(gs)
  <2> DEFINE F == [k \in 1..Len(fs) |-> fs[k].amt]
             G == [k \in 1..Len(gs) |-> gs[k].amt]
  <2>1. F = G
    BY <1>5, <1>6, Zenon
  <2> QED
    BY <2>1, <1>6, Zenon DEF Contributed
<1>8. Contributes(fs, lp)
  <2>1. PICK j \in 1..Len(gs) : gs[j].lp = v.funder
    BY <1>1, <1>2, Zenon DEF InvoiceOK, Contributes
  <2>2. fs[j].lp = lp /\ j \in 1..Len(fs)
    BY <2>1, <1>5, <1>6, Zenon
  <2> HIDE DEF fs
  <2> QED
    BY <2>2, Zenon DEF Contributes
<1>9. w \in Invoice
  BY <1>2, <1>3, Zenon DEF Invoice
<1>10. /\ w.status = v.status /\ w.funder = lp /\ w.funded = v.funded
       /\ w.amount = v.amount /\ w.paid = v.paid
       /\ w.freelancer = v.freelancer /\ w.payer = v.payer
  BY <1>2, Zenon DEF Invoice
<1> HIDE DEF v, gs, fs, w
<1>11. InvoiceOK(w, fs)
  BY <1>1, <1>2, <1>3, <1>7, <1>8, <1>10, Zenon DEF InvoiceOK
<1>12. w.status # "Absent"
  BY <1>1, <1>10, Zenon
<1> QED
  BY <1>1, <1>6, <1>9, <1>11, <1>12, ReplaceInvoice, Zenon

\* The changes of status after funding keep the recorded sums.
LEMMA ChangeStatusKeeps ==
  ASSUME InvoicesOK, NEW i \in Invoices, NEW w \in Invoice,
         w.amount = inv[i].amount, w.funded = inv[i].funded, w.paid = inv[i].paid,
         w.funder = inv[i].funder, w.freelancer = inv[i].freelancer,
         w.payer = inv[i].payer,
         \/ inv[i].status = "Funded" /\ w.status = "Defaulted"
         \/ inv[i].status = "Defaulted" /\ w.status = "Appealed"
         \/ inv[i].status = "Appealed" /\ w.status = "Defaulted"
         \/ /\ inv[i].status \in {"Pending", "PartiallyFunded", "Funded"}
            /\ w.status = "Disputed"
         \/ inv[i].status = "Disputed" /\ w.status = "Cancelled"
         \/ inv[i].status = "Disputed" /\ w.status = RestoredStatus(inv[i]),
         inv' = [inv EXCEPT ![i] = w], funders' = funders,
         sync_nft_state(i, w, funders[i])
  PROVE  InvoicesOK'
<1>1. /\ inv[i] \in Invoice /\ funders[i] \in Seq(Contribution)
      /\ InvoiceOK(inv[i], funders[i])
  BY InvoiceFacts, Zenon
<1>2. inv[i].amount \in Nat /\ inv[i].funded \in Nat /\ inv[i].paid \in Nat
  BY <1>1, Zenon DEF Invoice
<1>3. InvoiceOK(w, funders[i]) /\ w.status # "Absent"
  <2>1. CASE inv[i].status = "Disputed" /\ w.status = RestoredStatus(inv[i])
    <3>1. funders[i] = << >> => inv[i].funded = 0
      <4>1. ASSUME funders[i] = << >> PROVE Contributed(funders[i]) = 0
        <5>1. Len(funders[i]) = 0
          BY <4>1, SMTT(40)
        <5> QED
          BY <5>1, SumToEquations, Zenon DEF Contributed
      <4> QED
        BY <4>1, <1>1, Zenon DEF InvoiceOK
    <3>2. /\ inv[i].funded = Contributed(funders[i]) /\ inv[i].funded <= inv[i].amount
          /\ inv[i].paid < inv[i].amount /\ inv[i].amount > 0
          /\ inv[i].freelancer \in Accounts /\ inv[i].payer \in Accounts
          /\ inv[i].paid > 0 => inv[i].funded = inv[i].amount
          /\ inv[i].funder # NoOne <=> inv[i].funded = inv[i].amount
          /\ inv[i].funder # NoOne => Contributes(funders[i], inv[i].funder)
      BY <2>1, <1>1, Zenon DEF InvoiceOK
    <3>3. CASE inv[i].funded = inv[i].amount
      BY <2>1, <3>2, <3>3, <1>2, Zenon DEF InvoiceOK, RestoredStatus
    <3>4. CASE inv[i].funded # inv[i].amount /\ inv[i].funded > 0
      BY <2>1, <3>1, <3>2, <3>4, <1>2, SMTT(40) DEF InvoiceOK, RestoredStatus
    <3>5. CASE inv[i].funded # inv[i].amount /\ inv[i].funded = 0
      BY <2>1, <3>2, <3>5, <1>2, SMTT(40) DEF InvoiceOK, RestoredStatus
    <3> QED
      BY <3>3, <3>4, <3>5, <1>2, SMTT(60)
  <2>2. CASE ~ (inv[i].status = "Disputed" /\ w.status = RestoredStatus(inv[i]))
    BY <2>2, <1>1, <1>2, Zenon DEF InvoiceOK
  <2> QED
    BY <2>1, <2>2, Zenon
<1> QED
  BY <1>3, ReplaceInvoiceOnly, ZenonT(40)

\* Payment: the one that completes the amount closes the invoice.
LEMMA MarkPaidKeeps ==
  ASSUME InvoicesOK, NEW i \in Invoices, NEW amount \in PayAmounts, MarkPaid(i, amount)
  PROVE  InvoicesOK'
<1> DEFINE v == inv[i]
           full == v.paid + amount = v.amount
           w == [v EXCEPT !.paid = @ + amount, !.status = IF full THEN "Paid" ELSE @]
<1>1. /\ inv' = [inv EXCEPT ![i] = w] /\ funders' = funders
      /\ sync_nft_state(i, w, funders[i])
      /\ v.status = "Funded" /\ v.paid + amount <= v.amount
  BY Zenon DEF MarkPaid
<1>2. v \in Invoice /\ funders[i] \in Seq(Contribution) /\ InvoiceOK(v, funders[i])
  BY InvoiceFacts, Zenon
<1>3. amount \in Nat /\ v.paid \in Nat /\ v.amount \in Nat /\ v.funded \in Nat
  BY <1>2, EscrowAssumption, Zenon DEF Invoice
<1>4. w \in Invoice
  <2>1. v.paid + amount \in Nat /\ (IF full THEN "Paid" ELSE v.status) \in Statuses
    BY <1>2, <1>3 DEF Invoice, Statuses
  <2> QED
    BY <1>2, <2>1, ZenonT(40) DEF Invoice
<1>5. /\ w.status = (IF full THEN "Paid" ELSE "Funded") /\ w.paid = v.paid + amount
      /\ w.amount = v.amount /\ w.funded = v.funded /\ w.funder = v.funder
      /\ w.freelancer = v.freelancer /\ w.payer = v.payer
  BY <1>1, <1>2, Zenon DEF Invoice
<1> HIDE DEF v, w
<1>6. InvoiceOK(w, funders[i]) /\ w.status # "Absent"
  <2>0. /\ v.funded = Contributed(funders[i]) /\ v.funded = v.amount /\ v.amount > 0
        /\ v.freelancer \in Accounts /\ v.payer \in Accounts
        /\ v.funder # NoOne /\ Contributes(funders[i], v.funder)
    BY <1>1, <1>2, Zenon DEF InvoiceOK
  <2>1. CASE full
    BY <2>0, <2>1, <1>3, <1>5, SMTT(40) DEF InvoiceOK
  <2>2. CASE ~ full
    <3>1. w.status = "Funded" /\ w.paid < w.amount
      BY <2>2, <1>1, <1>3, <1>5, SMTT(40)
    <3> QED
      BY <3>1, <2>0, <1>3, <1>5, SMTT(40) DEF InvoiceOK
  <2> QED
    BY <2>1, <2>2, Zenon
<1> QED
  BY <1>1, <1>4, <1>6, ReplaceInvoiceOnly, Zenon

\* Default, appeal and dispute.
LEMMA ResolutionKeeps ==
  ASSUME InvoicesOK, now \in Nat, NEW i \in Invoices
  PROVE  /\ \A lp \in LPs : ClaimDefault(i, lp) => InvoicesOK'
         /\ AppealDefault(i) => InvoicesOK'
         /\ ResolveAppeal(i) => InvoicesOK'
         /\ DisputeInvoice(i) => InvoicesOK'
         /\ UpholdDispute(i) => InvoicesOK'
         /\ RejectDispute(i) => InvoicesOK'
         /\ AutoResolveDispute(i) => InvoicesOK'
<1>0. inv[i] \in Invoice
  BY InvoiceFacts, Zenon
<1>1. ASSUME NEW lp \in LPs, ClaimDefault(i, lp) PROVE InvoicesOK'
  <2> DEFINE w == [inv[i] EXCEPT !.status = "Defaulted"]
  <2>1. w \in Invoice
    BY <1>0, Zenon DEF Invoice, Statuses
  <2>2. /\ inv' = [inv EXCEPT ![i] = w] /\ funders' = funders
        /\ sync_nft_state(i, w, funders[i]) /\ inv[i].status = "Funded"
    BY <1>1, Zenon DEF ClaimDefault
  <2>3. /\ w.amount = inv[i].amount /\ w.funded = inv[i].funded /\ w.paid = inv[i].paid
        /\ w.funder = inv[i].funder /\ w.freelancer = inv[i].freelancer
        /\ w.payer = inv[i].payer /\ w.status = "Defaulted"
    BY <1>0, Zenon DEF Invoice
  <2> HIDE DEF w
  <2> QED
    BY <2>1, <2>2, <2>3, ChangeStatusKeeps, Zenon
<1>2. ASSUME AppealDefault(i) PROVE InvoicesOK'
  <2> DEFINE w == [inv[i] EXCEPT !.status = "Appealed", !.appealed = TRUE]
  <2>1. w \in Invoice
    BY <1>0, Zenon DEF Invoice, Statuses
  <2>2. /\ inv' = [inv EXCEPT ![i] = w] /\ funders' = funders
        /\ sync_nft_state(i, w, funders[i]) /\ inv[i].status = "Defaulted"
    BY <1>2, Zenon DEF AppealDefault
  <2>3. /\ w.amount = inv[i].amount /\ w.funded = inv[i].funded /\ w.paid = inv[i].paid
        /\ w.funder = inv[i].funder /\ w.freelancer = inv[i].freelancer
        /\ w.payer = inv[i].payer /\ w.status = "Appealed"
    BY <1>0, Zenon DEF Invoice
  <2> HIDE DEF w
  <2> QED
    BY <2>1, <2>2, <2>3, ChangeStatusKeeps, Zenon
<1>3. ASSUME ResolveAppeal(i) PROVE InvoicesOK'
  <2> DEFINE w == [inv[i] EXCEPT !.status = "Defaulted"]
  <2>1. w \in Invoice
    BY <1>0, Zenon DEF Invoice, Statuses
  <2>2. /\ inv' = [inv EXCEPT ![i] = w] /\ funders' = funders
        /\ sync_nft_state(i, w, funders[i]) /\ inv[i].status = "Appealed"
    BY <1>3, Zenon DEF ResolveAppeal
  <2>3. /\ w.amount = inv[i].amount /\ w.funded = inv[i].funded /\ w.paid = inv[i].paid
        /\ w.funder = inv[i].funder /\ w.freelancer = inv[i].freelancer
        /\ w.payer = inv[i].payer /\ w.status = "Defaulted"
    BY <1>0, Zenon DEF Invoice
  <2> HIDE DEF w
  <2> QED
    BY <2>1, <2>2, <2>3, ChangeStatusKeeps, Zenon
<1>4. ASSUME DisputeInvoice(i) PROVE InvoicesOK'
  <2> DEFINE w == [inv[i] EXCEPT !.status = "Disputed", !.disputedAt = now]
  <2>1. w \in Invoice
    BY <1>0, Zenon DEF Invoice, Statuses
  <2>2. /\ inv' = [inv EXCEPT ![i] = w] /\ funders' = funders
        /\ sync_nft_state(i, w, funders[i])
        /\ inv[i].status \in {"Pending", "PartiallyFunded", "Funded"}
    BY <1>4, Zenon DEF DisputeInvoice
  <2>3. /\ w.amount = inv[i].amount /\ w.funded = inv[i].funded /\ w.paid = inv[i].paid
        /\ w.funder = inv[i].funder /\ w.freelancer = inv[i].freelancer
        /\ w.payer = inv[i].payer /\ w.status = "Disputed"
    BY <1>0, Zenon DEF Invoice
  <2> HIDE DEF w
  <2> QED
    BY <2>1, <2>2, <2>3, ChangeStatusKeeps, Zenon
<1>5. ASSUME UpholdDispute(i) PROVE InvoicesOK'
  <2> DEFINE w == [inv[i] EXCEPT !.status = "Cancelled"]
  <2>1. w \in Invoice
    BY <1>0, Zenon DEF Invoice, Statuses
  <2>2. /\ inv' = [inv EXCEPT ![i] = w] /\ funders' = funders
        /\ sync_nft_state(i, w, funders[i]) /\ inv[i].status = "Disputed"
    BY <1>5, Zenon DEF UpholdDispute
  <2>3. /\ w.amount = inv[i].amount /\ w.funded = inv[i].funded /\ w.paid = inv[i].paid
        /\ w.funder = inv[i].funder /\ w.freelancer = inv[i].freelancer
        /\ w.payer = inv[i].payer /\ w.status = "Cancelled"
    BY <1>0, Zenon DEF Invoice
  <2> HIDE DEF w
  <2> QED
    BY <2>1, <2>2, <2>3, ChangeStatusKeeps, Zenon
<1>6. ASSUME RejectDispute(i) \/ AutoResolveDispute(i) PROVE InvoicesOK'
  <2> DEFINE w == [inv[i] EXCEPT !.status = RestoredStatus(inv[i])]
  <2>0. RestoredStatus(inv[i]) \in Statuses
    BY Zenon DEF RestoredStatus, Statuses
  <2>1. w \in Invoice
    BY <1>0, <2>0, Zenon DEF Invoice
  <2>2. /\ inv' = [inv EXCEPT ![i] = w] /\ funders' = funders
        /\ sync_nft_state(i, w, funders[i]) /\ inv[i].status = "Disputed"
    BY <1>6, Zenon DEF RejectDispute, AutoResolveDispute
  <2>3. /\ w.amount = inv[i].amount /\ w.funded = inv[i].funded /\ w.paid = inv[i].paid
        /\ w.funder = inv[i].funder /\ w.freelancer = inv[i].freelancer
        /\ w.payer = inv[i].payer /\ w.status = RestoredStatus(inv[i])
    BY <1>0, Zenon DEF Invoice
  <2> HIDE DEF w
  <2> QED
    BY <2>1, <2>2, <2>3, ChangeStatusKeeps, Zenon
<1> QED
  BY <1>1, <1>2, <1>3, <1>4, <1>5, <1>6, Zenon

-----------------------------------------------------------------------------
(* What each operation does to the money.                                   *)

\* The payout lists name accounts and whole amounts.
LEMMA PayoutLists ==
  ASSUME NEW fs \in Seq(Contribution), NEW v \in Invoice, NEW fee \in Nat, v.amount > 0
  PROVE  /\ Len(Refunds(fs, v.rate)) \in Nat
         /\ \A k \in 1..Len(Refunds(fs, v.rate)) :
               /\ Refunds(fs, v.rate)[k].to \in Accounts
               /\ Refunds(fs, v.rate)[k].amt \in Int
         /\ Len(Shares(fs, v.amount - fee, v.amount)) \in Nat
         /\ \A k \in 1..Len(Shares(fs, v.amount - fee, v.amount)) :
               /\ Shares(fs, v.amount - fee, v.amount)[k].to \in Accounts
               /\ Shares(fs, v.amount - fee, v.amount)[k].amt \in Int
<1>1. Len(fs) \in Nat /\ \A k \in 1..Len(fs) : fs[k] \in Contribution
  BY SeqEntry, SeqIsFunction, Zenon
<1>2. \A k \in 1..Len(fs) : fs[k].lp \in Accounts /\ fs[k].amt \in Nat
  BY <1>1, Zenon DEF Contribution
<1>3. v.rate \in 0..(Bps-1) /\ v.amount \in Nat
  BY Zenon DEF Invoice
<1>4. ASSUME NEW k \in 1..Len(fs) PROVE Cost(fs[k].amt, v.rate) \in Int
  <2>1. fs[k].amt \in Nat
    BY <1>2, Zenon
  <2>2. Cost(fs[k].amt, v.rate) \in Nat
    BY <2>1, <1>3, CostType, ZenonT(40)
  <2> QED
    BY <2>2
<1>5. ASSUME NEW k \in 1..Len(fs)
      PROVE  ((v.amount - fee) * fs[k].amt) \div v.amount \in Int
  <2>1. (v.amount - fee) * fs[k].amt \in Int
    BY <1>2, <1>3
  <2> DEFINE x == (v.amount - fee) * fs[k].amt
  <2> HIDE DEF x
  <2> QED
    BY <2>1, <1>3 DEF x
<1>6. Len(Refunds(fs, v.rate)) = Len(fs)
  BY <1>1 DEF Refunds
<1>7. Len(Shares(fs, v.amount - fee, v.amount)) = Len(fs)
  BY <1>1 DEF Shares
<1>8. \A k \in 1..Len(fs) : /\ Refunds(fs, v.rate)[k].to = fs[k].lp
                            /\ Refunds(fs, v.rate)[k].amt = Cost(fs[k].amt, v.rate)
  BY Zenon DEF Refunds
<1>9. \A k \in 1..Len(fs) :
         /\ Shares(fs, v.amount - fee, v.amount)[k].to = fs[k].lp
         /\ Shares(fs, v.amount - fee, v.amount)[k].amt
              = ((v.amount - fee) * fs[k].amt) \div v.amount
  BY Zenon DEF Shares
<1> QED
  BY <1>1, <1>2, <1>4, <1>5, <1>6, <1>7, <1>8, <1>9, Zenon

\* The operations on an invoice that move money, each as a whole: a failing
\* payout would have failed the call.
LEMMA MoneyStepKeeps ==
  ASSUME InvoicesOK, MoneyOK, SettingsOK, NEW i \in Invoices
  PROVE  /\ \A lp \in LPs, a \in FundAmounts : FundInvoice(i, lp, a) => MoneyOK'
         /\ \A a \in PayAmounts : MarkPaid(i, a) => MoneyOK'
         /\ CancelInvoice(i) => MoneyOK'
         /\ \A lp \in LPs : ClaimDefault(i, lp) => MoneyOK'
         /\ UpholdDispute(i) => MoneyOK'
<1> DEFINE v == inv[i]
           N == NAccounts
           refunds == Refunds(funders[i], v.rate)
<1>0. /\ v \in Invoice /\ funders[i] \in Seq(Contribution)
      /\ InvoiceOK(v, funders[i])
  BY InvoiceFacts, Zenon
<1>1. /\ v.rate \in 0..(Bps-1) /\ v.amount \in Nat /\ v.paid \in Nat
      /\ N \in Nat /\ clawed \in Nat /\ Accounts = 1..N /\ Admin \in 1..N
  BY <1>0, EscrowAssumption, Zenon DEF Invoice, SettingsOK, Accounts
<1>2. Backed(ledger, N, clawed) /\ ledger.ok = TRUE
  BY Zenon DEF MoneyOK
<1>3. v.status # "Absent" => v.amount > 0 /\ v.freelancer \in 1..N /\ v.payer \in 1..N
  BY <1>0, <1>1, Zenon DEF InvoiceOK
<1>4. ASSUME NEW L, Backed(L, N, clawed), L.ok, clawed' = clawed, ledger' = L
      PROVE  MoneyOK'
  <2>1. L.ok = TRUE
    BY <1>4, Zenon DEF Backed, Ledgers
  <2> QED
    BY <1>4, <2>1, Zenon DEF MoneyOK
<1>5. ASSUME v.amount > 0
      PROVE  Backed(pay_all(ledger, frozen, refunds), N, clawed)
  <2>1. /\ Len(refunds) \in Nat
        /\ \A k \in 1..Len(refunds) : refunds[k].to \in 1..N /\ refunds[k].amt \in Int
    <3>1. 0 \in Nat
      BY Zenon
    <3> QED
      BY <1>0, <1>1, <1>5, <3>1, PayoutLists, ZenonT(40)
  <2> HIDE DEF refunds
  <2> QED
    BY <2>1, <1>1, <1>2, PayAllKeeps, Zenon
<1>6. ASSUME NEW lp \in LPs, NEW a \in FundAmounts, FundInvoice(i, lp, a)
      PROVE  MoneyOK'
  <2> DEFINE full == v.funded + a = v.amount
             in == transfer_in(ledger, Cost(a, v.rate))
             out == transfer_out_strict(in, frozen, v.freelancer, Cost(v.amount, v.rate))
  <2>1. /\ v.status # "Absent" /\ clawed' = clawed
        /\ (IF full THEN out ELSE in).ok /\ ledger' = (IF full THEN out ELSE in)
    BY <1>6, Zenon DEF FundInvoice
  <2>2. Cost(a, v.rate) \in Nat /\ Cost(v.amount, v.rate) \in Nat
    <3>1. a \in Nat
      BY EscrowAssumption, Zenon
    <3> QED
      BY <3>1, <1>1, CostType, ZenonT(40)
  <2>3. Backed(in, N, clawed)
    BY <2>2, <1>1, <1>2, TransferInKeeps, Zenon
  <2>4. ASSUME out.ok PROVE Backed(out, N, clawed)
    <3>1. Cost(v.amount, v.rate) \in Int
      BY <2>2, SMTT(40)
    <3> HIDE DEF in
    <3> QED
      BY <2>1, <2>3, <2>4, <3>1, <1>1, <1>3, TransferOutKeeps, Zenon
  <2> HIDE DEF in, out, full
  <2>5. CASE full
    BY <2>1, <2>4, <2>5, <1>4, Zenon
  <2>6. CASE ~ full
    BY <2>1, <2>3, <2>6, <1>4, Zenon
  <2> QED
    BY <2>5, <2>6, Zenon
<1>7. ASSUME NEW a \in PayAmounts, MarkPaid(i, a)
      PROVE  MoneyOK'
  <2> DEFINE full == v.paid + a = v.amount
             fee == Fraction(v.amount, feeRate)
             in == transfer_in(ledger, a)
             mid == pay_or_escrow(in, frozen, Admin, fee)
             shares == Shares(funders[i], v.amount - fee, v.amount)
             out == pay_all(mid, frozen, shares)
  <2>1. /\ v.status # "Absent" /\ clawed' = clawed
        /\ (IF full THEN out ELSE in).ok /\ ledger' = (IF full THEN out ELSE in)
    BY <1>7, Zenon DEF MarkPaid
  <2>2. a \in Nat /\ feeRate \in 0..Bps
    BY EscrowAssumption, Zenon DEF SettingsOK
  <2>3. fee \in Nat
    BY <2>2, <1>1, FractionBounds, Zenon
  <2>4. Backed(in, N, clawed)
    BY <2>2, <1>1, <1>2, TransferInKeeps, Zenon
  <2>5. Backed(mid, N, clawed)
    <3>1. fee \in Int
      BY <2>3
    <3> HIDE DEF in, fee
    <3> QED
      BY <2>4, <3>1, <1>1, PayOrEscrowKeeps, Zenon
  <2>6. /\ Len(shares) \in Nat
        /\ \A k \in 1..Len(shares) : shares[k].to \in 1..N /\ shares[k].amt \in Int
    <3> HIDE DEF fee
    <3> QED
      BY <2>1, <2>3, <1>0, <1>1, <1>3, PayoutLists, ZenonT(40)
  <2> HIDE DEF shares, mid
  <2>7. Backed(out, N, clawed)
    BY <2>5, <2>6, <1>1, PayAllKeeps, Zenon
  <2> HIDE DEF in, out, full
  <2>8. CASE full
    BY <2>1, <2>7, <2>8, <1>4, Zenon
  <2>9. CASE ~ full
    BY <2>1, <2>4, <2>9, <1>4, Zenon
  <2> QED
    BY <2>8, <2>9, Zenon
<1>8. ASSUME CancelInvoice(i)
      PROVE  MoneyOK'
  <2> DEFINE out == IF v.status = "PartiallyFunded"
                    THEN pay_all(ledger, frozen, refunds) ELSE ledger
  <2>1. v.status # "Absent" /\ out.ok /\ ledger' = out /\ clawed' = clawed
    BY <1>8, Zenon DEF CancelInvoice
  <2>2. Backed(out, N, clawed)
    BY <2>1, <1>2, <1>3, <1>5, Zenon
  <2> HIDE DEF out
  <2> QED
    BY <2>1, <2>2, <1>4, Zenon
<1>9. ASSUME NEW lp \in LPs, ClaimDefault(i, lp)
      PROVE  MoneyOK'
  <2> DEFINE out == pay_all(ledger, frozen, refunds)
  <2>1. v.status # "Absent" /\ out.ok /\ ledger' = out /\ clawed' = clawed
    BY <1>9, Zenon DEF ClaimDefault
  <2>2. Backed(out, N, clawed)
    BY <2>1, <1>3, <1>5, Zenon
  <2> HIDE DEF out
  <2> QED
    BY <2>1, <2>2, <1>4, Zenon
<1>10. ASSUME UpholdDispute(i)
       PROVE  MoneyOK'
  <2> DEFINE mid == pay_all(ledger, frozen, refunds)
             out == pay_or_escrow(mid, frozen, v.payer, v.paid)
  <2>1. v.status # "Absent" /\ out.ok /\ ledger' = out /\ clawed' = clawed
    BY <1>10, Zenon DEF UpholdDispute
  <2>2. Backed(mid, N, clawed) /\ v.payer \in 1..N /\ v.paid \in Int
    BY <2>1, <1>1, <1>3, <1>5, SMTT(40)
  <2> HIDE DEF mid
  <2>3. Backed(out, N, clawed)
    BY <2>2, <1>1, PayOrEscrowKeeps, Zenon
  <2> HIDE DEF out
  <2> QED
    BY <2>1, <2>3, <1>4, Zenon
<1> HIDE DEF v
<1> QED
  BY <1>6, <1>7, <1>8, <1>9, <1>10, Zenon

\* The steps that leave the invoices alone.
LEMMA EnvironmentKeeps ==
  ASSUME MoneyOK, SettingsOK
  PROVE  /\ \A a \in Accounts : ClaimPendingPayout(a) => MoneyOK' /\ SettingsOK'
         /\ \A r \in FeeRates : UpdateFeeRate(r) => MoneyOK' /\ SettingsOK'
         /\ Pause \/ Unpause => MoneyOK' /\ SettingsOK'
         /\ \A a \in Freezable : Freeze(a) \/ Unfreeze(a) => MoneyOK' /\ SettingsOK'
         /\ Clawback => MoneyOK' /\ SettingsOK'
         /\ Donate => MoneyOK' /\ SettingsOK'
         /\ Tick => MoneyOK' /\ SettingsOK'
<1>0. /\ NAccounts \in Nat /\ clawed \in Nat /\ Accounts = 1..NAccounts
      /\ Backed(ledger, NAccounts, clawed) /\ ledger.ok = TRUE
  BY EscrowAssumption, Zenon DEF MoneyOK, SettingsOK, Accounts
<1>1. ASSUME NEW a \in Accounts, ClaimPendingPayout(a)
      PROVE  MoneyOK' /\ SettingsOK'
  <2> DEFINE out == claim_pending(ledger, frozen, a)
  <2>1. out.ok /\ ledger' = out /\ clawed' = clawed
    BY <1>1, Zenon DEF ClaimPendingPayout
  <2>2. Backed(out, NAccounts, clawed)
    BY <1>0, <2>1, ClaimPendingKeeps, Zenon
  <2> HIDE DEF out
  <2>3. out.ok = TRUE
    BY <2>1, <2>2, Zenon DEF Backed, Ledgers
  <2>4. MoneyOK'
    BY <2>1, <2>2, <2>3, Zenon DEF MoneyOK
  <2>5. SettingsOK'
    BY <1>1, Zenon DEF ClaimPendingPayout, SettingsOK
  <2> QED
    BY <2>4, <2>5, Zenon
<1>2. ASSUME NEW r \in FeeRates, UpdateFeeRate(r)
      PROVE  MoneyOK' /\ SettingsOK'
  BY <1>2, Zenon DEF UpdateFeeRate, MoneyOK, SettingsOK
<1>3. ASSUME Pause \/ Unpause
      PROVE  MoneyOK' /\ SettingsOK'
  BY <1>3, ZenonT(40) DEF Pause, Unpause, MoneyOK, SettingsOK
<1>4. ASSUME NEW a \in Freezable, Freeze(a) \/ Unfreeze(a)
      PROVE  MoneyOK' /\ SettingsOK'
  BY <1>4, EscrowAssumption, Zenon DEF Freeze, Unfreeze, MoneyOK, SettingsOK
<1>5. ASSUME Clawback
      PROVE  MoneyOK' /\ SettingsOK'
  <2> DEFINE L == [ledger EXCEPT !.balance = @ - 1]
  <2>1. /\ ledger.balance > 0 /\ ledger' = L /\ clawed' = clawed + 1
        /\ UNCHANGED <<frozen, feeRate, paused, now>>
    BY <1>5, Zenon DEF Clawback
  <2>2. ledger.balance \in Nat /\ ledger.total \in Nat /\ ledger \in Ledgers(NAccounts)
    BY <1>0, Zenon DEF Backed, Ledgers
  <2>3. ledger.balance - 1 \in Nat
    BY <2>1, <2>2
  <2>4. L \in Ledgers(NAccounts)
    BY <2>2, <2>3, Zenon DEF Ledgers
  <2>5. L.balance = ledger.balance - 1 /\ L.pending = ledger.pending /\ L.total = ledger.total
    BY <2>2, Zenon DEF Ledgers
  <2>6. L.ok = ledger.ok
    BY <2>2, Zenon, ZenonT(40) DEF Ledgers
  <2> HIDE DEF L
  <2>7. Backed(L, NAccounts, clawed + 1)
    BY <1>0, <2>2, <2>4, <2>5, SMTT(40) DEF Backed
  <2> QED
    BY <1>0, <2>1, <2>6, <2>7 DEF MoneyOK, SettingsOK
<1>6. ASSUME Donate
      PROVE  MoneyOK' /\ SettingsOK'
  <2>1. ledger' = transfer_in(ledger, 1) /\ UNCHANGED <<frozen, clawed, feeRate, paused, now>>
    BY <1>6, Zenon DEF Donate
  <2>2. Backed(transfer_in(ledger, 1), NAccounts, clawed) /\ transfer_in(ledger, 1).ok = ledger.ok
    BY <1>0, TransferInKeeps, Zenon
  <2> QED
    BY <1>0, <2>1, <2>2, Zenon DEF MoneyOK, SettingsOK
<1>7. ASSUME Tick
      PROVE  MoneyOK' /\ SettingsOK'
  BY <1>7 DEF Tick, MoneyOK, SettingsOK
<1> QED
  BY <1>1, <1>2, <1>3, <1>4, <1>5, <1>6, <1>7, Zenon

-----------------------------------------------------------------------------
(* The invariant holds.                                                     *)

\* The contract starts without invoices, pending payouts or money.
LEMMA InitInvariant == Init => IInv
<1> SUFFICES ASSUME Init PROVE IInv
  BY Zenon
<1>1. NAccounts \in Nat /\ Accounts = 1..NAccounts
  BY EscrowAssumption, Zenon DEF Accounts
<1>2. NoInvoice \in Invoice
  BY EscrowAssumption DEF NoInvoice, Invoice, Statuses, NoOne, Never
<1>3. Contributed(<< >>) = 0
  BY SumToEquations, Zenon DEF Contributed
<1>4. Consistent(NoInvoice, << >>, NoOne)
  <2>1. InvoiceOK(NoInvoice, << >>)
    BY <1>3, SMTT(40) DEF InvoiceOK, NoInvoice
  <2>2. NftOK(NoInvoice, << >>, NoOne)
    BY Zenon  DEF NftOK, NoInvoice, NftStatuses
  <2> QED
    BY <1>2, <2>1, <2>2, SMTT(40) DEF Consistent
<1>5. InvoicesOK
  BY <1>4, Zenon DEF Init, InvoicesOK
<1>6. MoneyOK
  <2> DEFINE zero == [a \in 1..NAccounts |-> 0]
  <2>1. /\ ledger.balance = 0 /\ ledger.pending = zero /\ ledger.total = 0
        /\ ledger.ok = TRUE /\ ledger \in Ledgers(NAccounts) /\ clawed = 0
    BY <1>1, Zenon DEF Init, Ledgers
  <2>2. SumTo(zero, NAccounts) = 0
    <3>1. NAccounts \in Nat /\ \A a \in 1..NAccounts : zero[a] = 0
      BY <1>1, Zenon
    <3> HIDE DEF zero
    <3> QED
      BY <3>1, SumOfZeros, Zenon
  <2> HIDE DEF zero
  <2> QED
    BY <2>1, <2>2, SMTT(40) DEF MoneyOK, Backed
<1>7. SettingsOK
  BY ZenonT(40) DEF Init, SettingsOK
<1> QED
  BY <1>5, <1>6, <1>7, Zenon DEF IInv

\* Every entry point that works on one invoice keeps IInv.
LEMMA InvoiceStepKeeps ==
  ASSUME IInv, NEW i \in Invoices, InvoiceStep(i)
  PROVE  IInv'
<1>0. InvoicesOK /\ MoneyOK /\ SettingsOK /\ now \in Nat
  BY Zenon DEF IInv, SettingsOK
<1>1. InvoicesOK'
  BY <1>0, SubmitKeeps, PendingKeeps, FundKeeps, TransferLpKeeps, MarkPaidKeeps,
     ResolutionKeeps, Zenon DEF InvoiceStep
<1>2. MoneyOK'
  <2>1. ASSUME ledger' = ledger, clawed' = clawed PROVE MoneyOK'
    BY <1>0, <2>1, Zenon DEF MoneyOK
  <2>2. \/ ledger' = ledger /\ clawed' = clawed
        \/ \E lp \in LPs, a \in FundAmounts : FundInvoice(i, lp, a)
        \/ \E a \in PayAmounts : MarkPaid(i, a)
        \/ CancelInvoice(i)
        \/ \E lp \in LPs : ClaimDefault(i, lp)
        \/ UpholdDispute(i)
    BY Zenon DEF InvoiceStep, SubmitInvoice, UpdateInvoice, TransferInvoice, ExpireInvoice,
           TransferLpPosition, AppealDefault, ResolveAppeal, DisputeInvoice,
           RejectDispute, AutoResolveDispute
  <2> QED
    BY <1>0, <2>1, <2>2, MoneyStepKeeps, Zenon
<1>3. SettingsOK'
  <2>1. UNCHANGED <<frozen, clawed, feeRate, paused, now>>
    BY Zenon DEF InvoiceStep, SubmitInvoice, UpdateInvoice, TransferInvoice, ExpireInvoice,
           FundInvoice, TransferLpPosition, MarkPaid, CancelInvoice, ClaimDefault,
           AppealDefault, ResolveAppeal, DisputeInvoice, UpholdDispute,
           RejectDispute, AutoResolveDispute
  <2> QED
    BY <1>0, <2>1, Zenon DEF SettingsOK
<1> QED
  BY <1>1, <1>2, <1>3, Zenon DEF IInv

\* Every step of the contract, the issuer and the clock keeps IInv.
LEMMA NextKeeps == IInv /\ [Next]_vars => IInv'
<1> SUFFICES ASSUME IInv, [Next]_vars PROVE IInv'
  BY Zenon
<1>0. InvoicesOK /\ MoneyOK /\ SettingsOK /\ now \in Nat
  BY Zenon DEF IInv, SettingsOK
<1>1. CASE \E i \in Invoices : InvoiceStep(i)
  BY <1>1, InvoiceStepKeeps, Zenon
<1>2. CASE \E S \in SUBSET Invoices : \E ts \in [S -> Terms] : SubmitInvoicesBatch(ts)
  <2>1. InvoicesOK'
    BY <1>0, <1>2, SubmitKeeps, Zenon
  <2>2. UNCHANGED <<ledger, frozen, clawed, feeRate, paused, now>>
    BY <1>2, Zenon DEF SubmitInvoicesBatch
  <2> QED
    BY <1>0, <2>1, <2>2, Zenon DEF IInv, MoneyOK, SettingsOK
<1>3. CASE \/ \E a \in Accounts : ClaimPendingPayout(a)
           \/ \E r \in FeeRates : UpdateFeeRate(r)
           \/ Pause \/ Unpause
           \/ \E a \in Freezable : Freeze(a) \/ Unfreeze(a)
           \/ Clawback \/ Donate \/ Tick
  <2>1. MoneyOK' /\ SettingsOK'
    BY <1>0, <1>3, EnvironmentKeeps, Zenon
  <2>2. UNCHANGED <<inv, funders, nft>>
    BY <1>3, Zenon DEF ClaimPendingPayout, UpdateFeeRate, Pause, Unpause, Freeze, Unfreeze,
                Clawback, Donate, Tick
  <2>3. InvoicesOK'
    BY <1>0, <2>2, Zenon DEF InvoicesOK
  <2> QED
    BY <2>1, <2>3, Zenon DEF IInv
<1>4. CASE UNCHANGED vars
  BY <1>0, <1>4, Zenon DEF vars, IInv, InvoicesOK, MoneyOK, SettingsOK
<1> QED
  BY <1>1, <1>2, <1>3, <1>4, Zenon DEF Next

\* IInv is an invariant of the life cycle.
LEMMA InvariantHolds == Spec => []IInv
  BY InitInvariant, NextKeeps, PTL DEF Spec

\* Every reachable state is well typed; in particular no payout loop of the
\* contract leaves a negative balance, entry or total (token_safety.rs).
THEOREM TypeCorrect == Spec => []TypeOK
<1>1. IInv => TypeOK
  <2> SUFFICES ASSUME IInv PROVE TypeOK
    BY Zenon
  <2>1. /\ inv \in [Invoices -> Invoice] /\ funders \in [Invoices -> Seq(Contribution)]
        /\ nft \in [Invoices -> Accounts \cup {NoOne}]
    <3>1. \A i \in Invoices : /\ inv[i] \in Invoice /\ funders[i] \in Seq(Contribution)
                              /\ nft[i] \in Accounts \cup {NoOne}
      BY Zenon DEF IInv, InvoicesOK, Consistent
    <3>2. /\ inv = [i \in Invoices |-> inv[i]]
          /\ funders = [i \in Invoices |-> funders[i]]
          /\ nft = [i \in Invoices |-> nft[i]]
      BY Zenon DEF IInv, InvoicesOK
    <3> QED
      BY <3>1, <3>2, Zenon
  <2>2. ledger \in [balance: Nat, pending: [Accounts -> Nat], total: Nat, ok: {TRUE}]
    BY ZenonT(40) DEF IInv, MoneyOK, Backed, Ledgers, Accounts
  <2> QED
    BY <2>1, <2>2, Zenon DEF IInv, SettingsOK, TypeOK
<1> QED
  BY <1>1, InvariantHolds, PTL

\* For any number of accounts, invoices and contributors, and any sequence of
\* funding, settlement, default, dispute, freeze and claim, the money reserved
\* for frozen recipients is there, but for what the issuer clawed back
\* (ensure_spendable in token_safety.rs).
THEOREM EscrowAlwaysBacked == Spec => []EscrowBacked
<1>1. IInv => EscrowBacked
  BY Zenon DEF IInv, MoneyOK, Backed, EscrowBacked
<1> QED
  BY <1>1, InvariantHolds, PTL

\* amount_funded and the contributor list, kept in separate storage entries by
\* fund_invoice and transfer_lp_position, always agree, and the status always
\* tells how far funding and payment have come (B1, B2 and B4 of invoice.rs,
\* through disputes and appeals).
THEOREM AmountsAlwaysSound == Spec => []AmountsSound
<1>1. IInv => ContributionsMatch
  BY Zenon DEF IInv, InvoicesOK, Consistent, InvoiceOK, ContributionsMatch
<1>2. IInv => AmountsMatchStatus
  BY Zenon  DEF IInv, InvoicesOK, Consistent, InvoiceOK, AmountsMatchStatus
<1>3. IInv => AmountsSound
  BY <1>1, <1>2, Zenon DEF AmountsSound
<1> QED
  BY <1>3, InvariantHolds, PTL

\* The NFT of an open claim is always with the party that holds the claim
\* (sync_nft_state in nft.rs), whichever operation came last.
THEOREM NftAlwaysTracksClaim == Spec => []NftTracksClaim
<1>1. IInv => NftTracksClaim
  BY Zenon  DEF IInv, InvoicesOK, Consistent, NftOK, NftTracksClaim
<1> QED
  BY <1>1, InvariantHolds, PTL

-----------------------------------------------------------------------------
(* The paths of the state machine.                                          *)

\* A step of invoice k changes no other status, and its own along a legal path.
LEMMA InvoiceStepPaths ==
  ASSUME IInv, NEW k \in Invoices, InvoiceStep(k), NEW i \in Invoices,
         inv'[i].status # inv[i].status
  PROVE  <<inv[i].status, inv'[i].status>> \in LegalPaths
<1>0. /\ inv = [j \in Invoices |-> inv[j]] /\ inv[k] \in Invoice
      /\ InvoiceOK(inv[k], funders[k])
  BY InvoiceFacts, Zenon DEF IInv, InvoicesOK
<1>1. \A w : inv' = [inv EXCEPT ![k] = w] => inv'[i] = (IF i = k THEN w ELSE inv[i])
  BY <1>0, Zenon
<1>2. ASSUME NEW t \in Terms, SubmitInvoice(k, t)
      PROVE  <<inv[i].status, inv'[i].status>> \in LegalPaths
  <2>1. inv[k].status = "Absent" /\ inv' = [inv EXCEPT ![k] = NewInvoice(t)]
    <3>1. k \in 1..k
      BY EscrowAssumption DEF Invoices
    <3> QED
      BY <1>2, <3>1, Zenon DEF SubmitInvoice
  <2>2. NewInvoice(t).status = "Pending"
    BY Zenon  DEF NewInvoice, NoInvoice
  <2> QED
    BY <1>1, <2>1, <2>2, SMTT(40) DEF LegalPaths
<1>3. ASSUME \/ \E a \in Amounts, r \in Rates, d \in Durations : UpdateInvoice(k, a, r, d)
             \/ \E f \in Freelancers : TransferInvoice(k, f)
      PROVE  inv'[i].status = inv[i].status
  <2>1. CASE \E a \in Amounts, r \in Rates, d \in Durations : UpdateInvoice(k, a, r, d)
    <3>1. PICK a \in Amounts, r \in Rates, d \in Durations : UpdateInvoice(k, a, r, d)
      BY <2>1, Zenon
    <3> DEFINE w == [inv[k] EXCEPT !.amount = a, !.rate = r, !.due = now + d]
    <3>2. inv' = [inv EXCEPT ![k] = w]
      BY <1>0, <3>1, Zenon DEF UpdateInvoice
    <3>3. w.status = inv[k].status
      BY <1>0, Zenon DEF Invoice
    <3> HIDE DEF w
    <3> QED
      BY <1>1, <3>2, <3>3, Zenon
  <2>2. CASE \E f \in Freelancers : TransferInvoice(k, f)
    BY <1>0, <2>2, SMTT(40) DEF TransferInvoice, Invoice
  <2> QED
    BY <1>3, <2>1, <2>2, Zenon
<1>4. ASSUME ExpireInvoice(k)
      PROVE  <<inv[i].status, inv'[i].status>> \in LegalPaths
  BY <1>0, <1>4, Zenon DEF ExpireInvoice, Invoice, LegalPaths
<1>5. ASSUME NEW lp \in LPs, NEW a \in FundAmounts, FundInvoice(k, lp, a)
      PROVE  <<inv[i].status, inv'[i].status>> \in LegalPaths
  <2> DEFINE full == inv[k].funded + a = inv[k].amount
             w == [inv[k] EXCEPT !.status = IF full THEN "Funded" ELSE "PartiallyFunded",
                                 !.funded = inv[k].funded + a,
                                 !.funder = IF full THEN lp ELSE @]
  <2>1. inv' = [inv EXCEPT ![k] = w] /\ inv[k].status \in {"Pending", "PartiallyFunded"}
    BY <1>5, Zenon DEF FundInvoice
  <2>2. w.status \in {"Funded", "PartiallyFunded"}
    BY <1>0, Zenon DEF Invoice
  <2> HIDE DEF w
  <2> QED
    BY <1>1, <2>1, <2>2, SMTT(40) DEF LegalPaths
<1>6. ASSUME NEW lp \in LPs, TransferLpPosition(k, lp)
      PROVE  inv'[i].status = inv[i].status
  <2>1. inv' = [inv EXCEPT ![k] = [inv[k] EXCEPT !.funder = lp]]
    BY <1>6, Zenon DEF TransferLpPosition
  <2> QED
    BY <1>0, <2>1, Zenon DEF Invoice
<1>7. ASSUME NEW a \in PayAmounts, MarkPaid(k, a)
      PROVE  <<inv[i].status, inv'[i].status>> \in LegalPaths
  <2> DEFINE full == inv[k].paid + a = inv[k].amount
             w == [inv[k] EXCEPT !.paid = @ + a, !.status = IF full THEN "Paid" ELSE @]
  <2>1. inv' = [inv EXCEPT ![k] = w] /\ inv[k].status = "Funded"
    BY <1>7, Zenon DEF MarkPaid
  <2>2. w.status \in {"Paid", "Funded"}
    BY <1>0, <2>1, Zenon DEF Invoice
  <2> HIDE DEF w
  <2> QED
    BY <1>1, <2>1, <2>2, SMTT(40) DEF LegalPaths
<1>8. ASSUME CancelInvoice(k)
      PROVE  <<inv[i].status, inv'[i].status>> \in LegalPaths
  BY <1>0, <1>8, Zenon DEF CancelInvoice, Invoice, LegalPaths
<1>9. ASSUME NEW w, inv' = [inv EXCEPT ![k] = w],
             \/ inv[k].status = "Funded" /\ w.status = "Defaulted"
             \/ inv[k].status = "Defaulted" /\ w.status = "Appealed"
             \/ inv[k].status = "Appealed" /\ w.status = "Defaulted"
             \/ /\ inv[k].status \in {"Pending", "PartiallyFunded", "Funded"}
                /\ w.status = "Disputed"
             \/ /\ inv[k].status = "Disputed"
                /\ w.status \in {"Cancelled", "Funded", "PartiallyFunded", "Pending"}
      PROVE  <<inv[i].status, inv'[i].status>> \in LegalPaths
  BY <1>1, <1>9, SMTT(40) DEF LegalPaths
<1>10. ASSUME NEW lp \in LPs, ClaimDefault(k, lp)
       PROVE  <<inv[i].status, inv'[i].status>> \in LegalPaths
  <2>1. [inv[k] EXCEPT !.status = "Defaulted"].status = "Defaulted"
    BY <1>0, Zenon DEF Invoice
  <2>2. /\ inv' = [inv EXCEPT ![k] = [inv[k] EXCEPT !.status = "Defaulted"]]
        /\ inv[k].status = "Funded"
    BY <1>10, Zenon DEF ClaimDefault
  <2> QED
    BY <1>9, <2>1, <2>2, Zenon
<1>11. ASSUME AppealDefault(k)
       PROVE  <<inv[i].status, inv'[i].status>> \in LegalPaths
  <2> DEFINE w == [inv[k] EXCEPT !.status = "Appealed", !.appealed = TRUE]
  <2>1. w.status = "Appealed"
    BY <1>0, Zenon DEF Invoice
  <2>2. inv' = [inv EXCEPT ![k] = w] /\ inv[k].status = "Defaulted"
    BY <1>11, Zenon DEF AppealDefault
  <2> QED
    BY <1>9, <2>1, <2>2, Zenon
<1>12. ASSUME ResolveAppeal(k)
       PROVE  <<inv[i].status, inv'[i].status>> \in LegalPaths
  <2> DEFINE w == [inv[k] EXCEPT !.status = "Defaulted"]
  <2>1. w.status = "Defaulted"
    BY <1>0, Zenon DEF Invoice
  <2>2. inv' = [inv EXCEPT ![k] = w] /\ inv[k].status = "Appealed"
    BY <1>12, Zenon DEF ResolveAppeal
  <2> QED
    BY <1>9, <2>1, <2>2, Zenon
<1>13. ASSUME DisputeInvoice(k)
       PROVE  <<inv[i].status, inv'[i].status>> \in LegalPaths
  <2> DEFINE w == [inv[k] EXCEPT !.status = "Disputed", !.disputedAt = now]
  <2>1. w.status = "Disputed"
    BY <1>0, Zenon DEF Invoice
  <2>2. /\ inv' = [inv EXCEPT ![k] = w]
        /\ inv[k].status \in {"Pending", "PartiallyFunded", "Funded"}
    BY <1>13, Zenon DEF DisputeInvoice
  <2> QED
    BY <1>9, <2>1, <2>2, Zenon
<1>14. ASSUME UpholdDispute(k)
       PROVE  <<inv[i].status, inv'[i].status>> \in LegalPaths
  <2> DEFINE w == [inv[k] EXCEPT !.status = "Cancelled"]
  <2>1. w.status = "Cancelled"
    BY <1>0, Zenon DEF Invoice
  <2>2. inv' = [inv EXCEPT ![k] = w] /\ inv[k].status = "Disputed"
    BY <1>14, Zenon DEF UpholdDispute
  <2> QED
    BY <1>9, <2>1, <2>2, Zenon
<1>15. ASSUME RejectDispute(k) \/ AutoResolveDispute(k)
       PROVE  <<inv[i].status, inv'[i].status>> \in LegalPaths
  <2> DEFINE w == [inv[k] EXCEPT !.status = RestoredStatus(inv[k])]
  <2>1. w.status \in {"Cancelled", "Funded", "PartiallyFunded", "Pending"}
    BY <1>0, Zenon DEF Invoice, RestoredStatus
  <2>2. inv' = [inv EXCEPT ![k] = w] /\ inv[k].status = "Disputed"
    BY <1>15, Zenon DEF RejectDispute, AutoResolveDispute
  <2> QED
    BY <1>9, <2>1, <2>2, ZenonT(40)
<1> QED
  BY <1>2, <1>3, <1>4, <1>5, <1>6, <1>7, <1>8, <1>10, <1>11, <1>12, <1>13, <1>14,
     <1>15, ZenonT(40) DEF InvoiceStep

\* Statuses move only along the paths that invoice.rs lists as SM1, for every
\* number of invoices and every interleaving of the contract's operations.
THEOREM OnlyLegalPaths == Spec => SM1
<1> DEFINE Legal == \A i \in Invoices : inv'[i].status # inv[i].status =>
                       <<inv[i].status, inv'[i].status>> \in LegalPaths
<1>1. ASSUME IInv, [Next]_vars PROVE [Legal]_vars
  <2>1. CASE \E k \in Invoices : InvoiceStep(k)
    BY <1>1, <2>1, InvoiceStepPaths, Zenon
  <2>2. CASE \E S \in SUBSET Invoices : \E ts \in [S -> Terms] : SubmitInvoicesBatch(ts)
    <3>0. PICK S \in SUBSET Invoices : \E ts \in [S -> Terms] : SubmitInvoicesBatch(ts)
      BY <2>2, Zenon
    <3>1. PICK ts \in [S -> Terms] : SubmitInvoicesBatch(ts)
      BY <3>0, Zenon
    <3>2. ASSUME NEW i \in Invoices, inv'[i].status # inv[i].status
          PROVE  <<inv[i].status, inv'[i].status>> \in LegalPaths
      <4>1. inv'[i] = (IF i \in S THEN NewInvoice(ts[i]) ELSE inv[i])
        BY <3>1, Zenon DEF SubmitInvoicesBatch
      <4>2. i \in S /\ inv'[i].status = "Pending"
        BY <3>2, <4>1, Zenon DEF NewInvoice, NoInvoice
      <4>3. inv[i].status = "Absent"
        <5>1. i \in 1..i
          BY EscrowAssumption, SMTT(40) DEF Invoices
        <5> QED
          BY <3>1, <4>2, <5>1, Zenon DEF SubmitInvoicesBatch
      <4> QED
        BY <4>2, <4>3, Zenon DEF LegalPaths
    <3> QED
      BY <3>2, Zenon
  <2>3. CASE ~ (\/ \E k \in Invoices : InvoiceStep(k)
                \/ \E S \in SUBSET Invoices : \E ts \in [S -> Terms] : SubmitInvoicesBatch(ts))
    <3>1. inv' = inv
      BY <1>1, <2>3, Zenon DEF Next, vars, ClaimPendingPayout, UpdateFeeRate, Pause, Unpause,
                        Freeze, Unfreeze, Clawback, Donate, Tick
    <3> QED
      BY <3>1, Zenon
  <2> QED
    BY <2>1, <2>2, <2>3, Zenon
<1> QED
  BY <1>1, InvariantHolds, PTL DEF Spec, SM1
=============================================================================
