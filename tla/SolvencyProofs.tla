--------------------------- MODULE SolvencyProofs ----------------------------
(* The invoice contract can pay what it owes, for any number of invoices and *)
(* contributors, any amounts, discounts and fees, and however the shares are *)
(* rounded: the balance covers the pending payouts and what is held for open *)
(* invoices, and a settlement hands out the amount of the invoice.           *)
EXTENDS InvoiceEscrowProofs

-----------------------------------------------------------------------------
(* Rounding.                                                                *)

\* A common positive factor of an inequality can be dropped.
LEMMA Unscale ==
  ASSUME NEW c \in Nat \ {0}, NEW x \in Int, NEW y \in Int, c * x < c * y
  PROVE  x < y
<1>1. SUFFICES ASSUME x >= y PROVE FALSE
  OBVIOUS
<1>2. c * x - c * y = c * (x - y)
  OBVIOUS
<1>3. c * (x - y) >= 0
  BY <1>1
<1>4. c * x \in Int /\ c * y \in Int
  OBVIOUS
<1> QED BY <1>2, <1>3, <1>4

\* Division rounds down.
LEMMA Floor ==
  ASSUME NEW x \in Nat, NEW c \in Nat \ {0}
  PROVE  /\ x \div c \in Nat
         /\ c * (x \div c) <= x /\ x <= c * (x \div c) + (c - 1)
  OBVIOUS

\* Paying for two amounts together is never dearer than paying for each.
LEMMA CostSubadditive ==
  ASSUME NEW a \in Nat, NEW b \in Nat, NEW r \in 0..(Bps - 1)
  PROVE  /\ Cost(a + b, r) <= Cost(a, r) + Cost(b, r)
         /\ Cost(a, r) <= a
         /\ Cost(0, r) = 0
<1>1. Bps \in Nat \ {0} /\ r \in Nat /\ r \in 0..Bps
  BY EscrowAssumption
<1> DEFINE p == Fraction(a, r)
           q == Fraction(b, r)
           s == Fraction(a + b, r)
<1>2. /\ a * r \in Nat /\ b * r \in Nat /\ (a + b) * r \in Nat
      /\ (a + b) * r = a * r + b * r
  BY <1>1
<1>3. p \in Nat /\ Bps * p <= a * r
  BY <1>1, <1>2, Floor, Zenon DEF Fraction
<1>4. q \in Nat /\ Bps * q <= b * r
  BY <1>1, <1>2, Floor, Zenon DEF Fraction
<1>5. s \in Nat /\ (a + b) * r <= Bps * s + (Bps - 1)
  BY <1>1, <1>2, Floor, Zenon DEF Fraction
<1>6. Fraction(0, r) \in Nat /\ Fraction(0, r) <= 0
  BY <1>1, FractionBounds, Zenon
<1> HIDE DEF p, q, s
<1>7. Bps * (p + q) < Bps * (s + 1)
  <2>1. Bps * (p + q) = Bps * p + Bps * q /\ Bps * (s + 1) = Bps * s + Bps
    BY <1>1, <1>3, <1>4, <1>5
  <2>2. Bps * p \in Nat /\ Bps * q \in Nat /\ Bps * s \in Nat
    BY <1>1, <1>3, <1>4, <1>5
  <2> QED BY <1>1, <1>2, <1>3, <1>4, <1>5, <2>1, <2>2
<1>8. p + q < s + 1
  BY <1>1, <1>3, <1>4, <1>5, <1>7, Unscale
<1> QED BY <1>3, <1>4, <1>5, <1>6, <1>8 DEF Cost, p, q, s

\* Refunding the contributors costs no more than they put in, and at least what
\* one contributor of the whole amount would have paid.
LEMMA RefundBounds ==
  ASSUME NEW fs \in Seq(Contribution), NEW r \in 0..(Bps - 1)
  PROVE  /\ Refunded(fs, r) \in Nat /\ Contributed(fs) \in Nat
         /\ Refunded(fs, r) <= Contributed(fs)
         /\ Cost(Contributed(fs), r) <= Refunded(fs, r)
<1> DEFINE n == Len(fs)
           f == [j \in 1..n |-> Refunds(fs, r)[j].amt]
           g == [j \in 1..n |-> fs[j].amt]
<1>1. n \in Nat /\ \A k \in 1..n : fs[k] \in Contribution
  BY SeqEntry, SeqIsFunction, Zenon
<1>2. \A k \in 1..n : g[k] \in Nat
  BY <1>1, Zenon DEF Contribution
<1>3. \A k \in 1..n : f[k] = Cost(g[k], r)
  BY Zenon DEF Refunds
<1>4. \A k \in 1..n : f[k] \in Nat
  BY <1>2, <1>3, CostType, Zenon
<1>5. Refunded(fs, r) = SumTo(f, n) /\ Contributed(fs) = SumTo(g, n)
  BY Zenon DEF Refunded, Contributed
<1> HIDE DEF f, g, n
<1> DEFINE T == {k \in Nat : k <= n =>
                   /\ SumTo(f, k) \in Nat /\ SumTo(g, k) \in Nat
                   /\ SumTo(f, k) <= SumTo(g, k)
                   /\ Cost(SumTo(g, k), r) <= SumTo(f, k)}
<1>6. 0 \in T
  <2>1. SumTo(f, 0) = 0 /\ SumTo(g, 0) = 0
    BY SumToEquations, Zenon
  <2>2. 0 \in Nat /\ Cost(0, r) = 0
    BY CostSubadditive, Zenon
  <2> QED BY <2>1, <2>2
<1>7. ASSUME NEW k \in T PROVE k + 1 \in T
  <2>1. SUFFICES ASSUME k + 1 <= n
                 PROVE  /\ SumTo(f, k+1) \in Nat /\ SumTo(g, k+1) \in Nat
                        /\ SumTo(f, k+1) <= SumTo(g, k+1)
                        /\ Cost(SumTo(g, k+1), r) <= SumTo(f, k+1)
    OBVIOUS
  <2> DEFINE F == SumTo(f, k)
             G == SumTo(g, k)
             x == f[k+1]
             y == g[k+1]
  <2>2. k \in Nat /\ k + 1 \in 1..n /\ k <= n
    BY <1>1, <2>1
  <2>3. F \in Nat /\ G \in Nat /\ F <= G /\ Cost(G, r) <= F
    BY <2>2, Zenon
  <2>4. SumTo(f, k+1) = F + x /\ SumTo(g, k+1) = G + y
    BY <2>2, SumToEquations, Zenon
  <2>5. x \in Nat /\ y \in Nat /\ x = Cost(y, r)
    BY <1>2, <1>3, <1>4, <2>2, Zenon
  <2> HIDE DEF F, G, x, y
  <2>6. Cost(G + y, r) <= Cost(G, r) + Cost(y, r) /\ Cost(y, r) <= y
    BY <2>3, <2>5, CostSubadditive, Zenon
  <2>7. Cost(G, r) \in Nat /\ Cost(G + y, r) \in Nat
    <3>1. G + y \in Nat
      BY <2>3, <2>5
    <3> QED BY <2>3, <3>1, CostType, Zenon
  <2> QED BY <2>3, <2>4, <2>5, <2>6, <2>7
<1>8. \A k \in Nat : k \in T
  <2>1. T \in SUBSET Nat
    BY Zenon
  <2> HIDE DEF T
  <2> QED BY <1>6, <1>7, <2>1, SetInduction, Zenon
<1> QED BY <1>1, <1>5, <1>8

\* The shares of a settlement add up to the whole, less what flooring cuts off:
\* under one unit for each contributor.
LEMMA SharesBounds ==
  ASSUME NEW fs \in Seq(Contribution), NEW D \in Nat, NEW A \in Nat \ {0},
         Contributed(fs) = A
  PROVE  LET S == SumTo([k \in 1..Len(fs) |-> Shares(fs, D, A)[k].amt], Len(fs))
         IN  S \in Nat /\ S <= D /\ S > D - Len(fs)
<1> DEFINE n == Len(fs)
           f == [k \in 1..n |-> Shares(fs, D, A)[k].amt]
           g == [j \in 1..n |-> fs[j].amt]
<1>1. n \in Nat /\ \A k \in 1..n : fs[k] \in Contribution
  BY SeqEntry, SeqIsFunction, Zenon
<1>2. \A k \in 1..n : g[k] \in Nat
  BY <1>1, Zenon DEF Contribution
<1>3. \A k \in 1..n : f[k] = (D * g[k]) \div A
  BY Zenon DEF Shares
<1>4. SumTo(g, n) = A
  BY Zenon DEF Contributed
<1> HIDE DEF f, g, n
<1>5. ASSUME NEW k \in 1..n
      PROVE  f[k] \in Nat /\ A * f[k] <= D * g[k] /\ D * g[k] <= A * f[k] + (A - 1)
  <2>1. D * g[k] \in Nat
    BY <1>2
  <2> QED BY <1>3, <2>1, Floor, Zenon
<1> DEFINE T == {k \in Nat : k <= n =>
                   /\ SumTo(f, k) \in Nat /\ SumTo(g, k) \in Nat
                   /\ A * SumTo(f, k) <= D * SumTo(g, k)
                   /\ D * SumTo(g, k) <= A * SumTo(f, k) + (A - 1) * k}
<1>6. 0 \in T
  <2>1. SumTo(f, 0) = 0 /\ SumTo(g, 0) = 0
    BY SumToEquations, Zenon
  <2>2. A * 0 = 0 /\ D * 0 = 0 /\ (A - 1) * 0 = 0
    OBVIOUS
  <2> QED BY <2>1, <2>2
<1>7. ASSUME NEW k \in T PROVE k + 1 \in T
  <2> DEFINE F == SumTo(f, k)
             G == SumTo(g, k)
             x == f[k+1]
             y == g[k+1]
  <2>1. SUFFICES ASSUME k + 1 <= n
                 PROVE  /\ SumTo(f, k+1) \in Nat /\ SumTo(g, k+1) \in Nat
                        /\ A * SumTo(f, k+1) <= D * SumTo(g, k+1)
                        /\ D * SumTo(g, k+1) <= A * SumTo(f, k+1) + (A - 1) * (k + 1)
    OBVIOUS
  <2>2. k \in Nat /\ k + 1 \in 1..n /\ k <= n
    BY <1>1, <2>1
  <2>3. F \in Nat /\ G \in Nat /\ A * F <= D * G /\ D * G <= A * F + (A - 1) * k
    BY <2>2, Zenon
  <2>4. SumTo(f, k+1) = F + x /\ SumTo(g, k+1) = G + y
    BY <2>2, SumToEquations, Zenon
  <2>5. x \in Nat /\ y \in Nat /\ A * x <= D * y /\ D * y <= A * x + (A - 1)
    BY <1>2, <1>5, <2>2, Zenon
  <2> HIDE DEF F, G, x, y
  <2>6. /\ A * (F + x) = A * F + A * x /\ D * (G + y) = D * G + D * y
        /\ (A - 1) * (k + 1) = (A - 1) * k + (A - 1)
    BY <2>2, <2>3, <2>5
  <2>7. /\ A * F \in Nat /\ A * x \in Nat /\ D * G \in Nat /\ D * y \in Nat
        /\ (A - 1) * k \in Nat
    BY <2>2, <2>3, <2>5
  <2> QED BY <2>3, <2>4, <2>5, <2>6, <2>7
<1>8. \A k \in Nat : k \in T
  <2>1. T \in SUBSET Nat
    BY Zenon
  <2> HIDE DEF T
  <2> QED BY <1>6, <1>7, <2>1, SetInduction, Zenon
<1> DEFINE S == SumTo(f, n)
<1>9. S \in Nat /\ A * S <= D * A /\ D * A <= A * S + (A - 1) * n
  BY <1>1, <1>4, <1>8
<1>10. n > 0
  BY <1>1, <1>4, SumToEquations
<1> HIDE DEF S, T
<1>11. A * S < A * (D + 1)
  <2>1. A * (D + 1) = D * A + A /\ D * A \in Nat /\ A * S \in Nat
    BY <1>9
  <2> QED BY <1>9, <2>1
<1>12. A * D < A * (S + n)
  <2>1. A * (S + n) = A * S + (A - 1) * n + n /\ A * D = D * A
    BY <1>1, <1>9
  <2>2. A * S \in Nat /\ (A - 1) * n \in Nat /\ D * A \in Nat
    BY <1>1, <1>9
  <2> QED BY <1>1, <1>9, <1>10, <2>1, <2>2
<1>13. S < D + 1 /\ D < S + n
  BY <1>1, <1>9, <1>11, <1>12, Unscale
<1> QED BY <1>1, <1>9, <1>13 DEF S, f, n

\* Where AddContribution puts the amount.
LEMMA AddContributionShape ==
  ASSUME NEW fs \in Seq(Contribution), NEW lp \in Accounts, NEW a \in Nat
  PROVE  LET gs == AddContribution(fs, lp, a)
             n  == Len(fs)
         IN  \/ \E j \in 1..n : /\ Len(gs) = n
                                /\ gs[j].amt = fs[j].amt + a
                                /\ \A k \in 1..n : k # j => gs[k] = fs[k]
             \/ /\ Len(gs) = n + 1
                /\ gs[n + 1].amt = a
                /\ \A k \in 1..n : gs[k] = fs[k]
<1> DEFINE gs == AddContribution(fs, lp, a)
           n == Len(fs)
<1>1. n \in Nat /\ \A k \in 1..n : fs[k] \in Contribution
  BY SeqEntry, SeqIsFunction, Zenon
<1>2. CASE Contributes(fs, lp)
  <2> DEFINE J == {j \in 1..n : fs[j].lp = lp}
             first == CHOOSE j \in 1..Len(fs) :
                        /\ fs[j].lp = lp
                        /\ \A k \in 1..(j-1) : fs[k].lp # lp
  <2>1. PICK j \in J : \A i \in J : j <= i
    <3>1. J \in SUBSET Nat /\ J # {}
      BY <1>1, <1>2 DEF Contributes
    <3> QED BY <3>1, LeastNat, Zenon
  <2>2. \A k \in 1..(j-1) : fs[k].lp # lp
    BY <1>1, <2>1
  <2>3. first \in 1..n
    BY <2>1, <2>2, Zenon
  <2>4. gs = [fs EXCEPT ![first].amt = @ + a]
    BY <1>2, Zenon DEF AddContribution
  <2> HIDE DEF first, gs
  <2>5. /\ Len(gs) = n /\ gs[first] = [fs[first] EXCEPT !.amt = @ + a]
        /\ \A k \in 1..n : k # first => gs[k] = fs[k]
    BY <1>1, <2>3, <2>4
  <2>6. gs[first].amt = fs[first].amt + a
    BY <1>1, <2>3, <2>5, Zenon DEF Contribution
  <2> QED BY <2>3, <2>5, <2>6, Zenon DEF gs
<1>3. CASE ~ Contributes(fs, lp)
  <2> DEFINE e == [lp |-> lp, amt |-> a]
  <2>1. gs = Append(fs, e)
    BY <1>3, Zenon DEF AddContribution
  <2>2. e.amt = a
    BY Zenon
  <2> HIDE DEF gs, e
  <2>3. Len(gs) = n + 1 /\ gs[n + 1] = e /\ \A k \in 1..n : gs[k] = fs[k]
    BY <1>1, <2>1
  <2> QED BY <2>2, <2>3, Zenon DEF gs
<1> QED BY <1>2, <1>3, Zenon

\* A contribution raises what refunds would cost by no more than was paid for it.
LEMMA RefundAfterAdd ==
  ASSUME NEW fs \in Seq(Contribution), NEW lp \in Accounts, NEW a \in Nat,
         NEW r \in 0..(Bps - 1)
  PROVE  Refunded(AddContribution(fs, lp, a), r) <= Refunded(fs, r) + Cost(a, r)
<1> DEFINE gs == AddContribution(fs, lp, a)
           n == Len(fs)
           f == [j \in 1..n |-> Refunds(fs, r)[j].amt]
           g == [j \in 1..Len(gs) |-> Refunds(gs, r)[j].amt]
<1>1. n \in Nat /\ \A k \in 1..n : fs[k] \in Contribution
  BY SeqEntry, SeqIsFunction, Zenon
<1>2. \A k \in 1..n : fs[k].amt \in Nat
  BY <1>1, Zenon DEF Contribution
<1>3. \A k \in 1..n : f[k] = Cost(fs[k].amt, r)
  BY Zenon DEF Refunds
<1>4. \A k \in 1..Len(gs) : g[k] = Cost(gs[k].amt, r)
  BY Zenon DEF Refunds
<1>5. Refunded(fs, r) = SumTo(f, n) /\ Refunded(gs, r) = SumTo(g, Len(gs))
  BY Zenon DEF Refunded
<1>6. \/ \E j \in 1..n : /\ Len(gs) = n
                         /\ gs[j].amt = fs[j].amt + a
                         /\ \A k \in 1..n : k # j => gs[k] = fs[k]
      \/ /\ Len(gs) = n + 1
         /\ gs[n + 1].amt = a
         /\ \A k \in 1..n : gs[k] = fs[k]
  BY AddContributionShape, Zenon
<1>7. \A k \in 1..n : f[k] \in Nat
  BY <1>2, <1>3, CostType, Zenon
<1>8. Cost(a, r) \in Nat
  BY CostType, Zenon
<1>9. SumTo(f, n) \in Nat
  BY <1>1, <1>7, SumToType, Zenon
<1> HIDE DEF f, g, gs, n
<1>10. ASSUME NEW j \in 1..n, Len(gs) = n, gs[j].amt = fs[j].amt + a,
              \A k \in 1..n : k # j => gs[k] = fs[k]
       PROVE  Refunded(gs, r) <= Refunded(fs, r) + Cost(a, r)
  <2> DEFINE x == fs[j].amt
             d == Cost(x + a, r) - Cost(x, r)
  <2>1. x \in Nat /\ x + a \in Nat
    BY <1>2
  <2>2. g[j] = Cost(x + a, r) /\ f[j] = Cost(x, r)
    BY <1>3, <1>4, <1>10, Zenon
  <2> HIDE DEF x
  <2>3. Cost(x + a, r) \in Nat /\ Cost(x, r) \in Nat /\ Cost(x + a, r) <= Cost(x, r) + Cost(a, r)
    BY <2>1, CostType, CostSubadditive, Zenon
  <2>4. d \in Int /\ g[j] = f[j] + d /\ d <= Cost(a, r)
    BY <1>8, <2>2, <2>3
  <2>5. \A k \in 1..n : k # j => g[k] = f[k]
    BY <1>3, <1>4, <1>10, Zenon
  <2>6. \A k \in 1..n : f[k] \in Int
    BY <1>7
  <2> HIDE DEF d
  <2>7. SumTo(g, n) = SumTo(f, n) + d
    BY <1>1, <2>4, <2>5, <2>6, SumToChange, Zenon
  <2> QED BY <1>5, <1>8, <1>9, <1>10, <2>4, <2>7
<1>11. ASSUME Len(gs) = n + 1, gs[n + 1].amt = a, \A k \in 1..n : gs[k] = fs[k]
       PROVE  Refunded(gs, r) <= Refunded(fs, r) + Cost(a, r)
  <2>1. \A k \in 1..n : g[k] = f[k]
    BY <1>1, <1>3, <1>4, <1>11
  <2>2. g[n + 1] = Cost(a, r)
    BY <1>1, <1>4, <1>11
  <2>3. SumTo(g, n) = SumTo(f, n)
    BY <1>1, <2>1, SumToEqual, Zenon
  <2>4. SumTo(g, n + 1) = SumTo(g, n) + g[n + 1]
    BY <1>1, SumToEquations, Zenon
  <2> QED BY <1>5, <1>8, <1>9, <1>11, <2>2, <2>3, <2>4
<1> QED BY <1>6, <1>10, <1>11, Zenon DEF gs

-----------------------------------------------------------------------------
(* What a payout takes from the balance that is not reserved.               *)

Spare(L) == L.balance - L.total

\* Transferred or booked, a payout takes its amount, unless the call fails.
LEMMA PayOrEscrowSpends ==
  ASSUME NEW N \in Nat, NEW c \in Nat, NEW L, Backed(L, N, c), NEW blocked,
         NEW to \in 1..N, NEW amount \in Nat, pay_or_escrow(L, blocked, to, amount).ok
  PROVE  L.ok /\ Spare(pay_or_escrow(L, blocked, to, amount)) = Spare(L) - amount
<1> DEFINE M == pay_or_escrow(L, blocked, to, amount)
<1>0. L \in Ledgers(N) /\ L.balance \in Nat /\ L.total \in Nat /\ L.ok \in BOOLEAN
  BY Zenon DEF Backed, Ledgers
<1>1. CASE amount <= 0
  <2>1. M = L /\ amount = 0
    BY <1>1 DEF pay_or_escrow
  <2> QED BY <1>0, <2>1 DEF Spare
<1>2. CASE ~ (amount <= 0) /\ ~ ensure_spendable(L, amount, L.total)
  <2>1. M = [L EXCEPT !.ok = FALSE]
    BY <1>2, Zenon DEF pay_or_escrow
  <2>2. M.ok = FALSE
    BY <1>0, <2>1, Zenon DEF Ledgers
  <2> QED BY <2>2, Zenon
<1>3. CASE ~ (amount <= 0) /\ ensure_spendable(L, amount, L.total) /\ to \notin blocked
  <2>1. M = [L EXCEPT !.balance = @ - amount]
    BY <1>3, Zenon DEF pay_or_escrow
  <2>2. M.balance = L.balance - amount /\ M.total = L.total
    BY <1>0, <2>1, Zenon DEF Ledgers
  <2>3. M.ok = L.ok
    BY Zenon, <1>0, <2>1 DEF Ledgers
  <2> QED BY <1>0, <2>2, <2>3 DEF Spare
<1>4. CASE ~ (amount <= 0) /\ ensure_spendable(L, amount, L.total) /\ to \in blocked
  <2>1. M = [L EXCEPT !.pending[to] = @ + amount, !.total = @ + amount]
    BY <1>4, Zenon DEF pay_or_escrow
  <2>2. M.balance = L.balance /\ M.total = L.total + amount
    BY <1>0, <2>1, Zenon DEF Ledgers
  <2>3. M.ok = L.ok
    BY Zenon, <1>0, <2>1 DEF Ledgers
  <2> QED BY <1>0, <2>2, <2>3 DEF Spare
<1> QED BY <1>1, <1>2, <1>3, <1>4, Zenon

\* A payout loop that succeeds takes the sum of its amounts.
LEMMA PayAllSpends ==
  ASSUME NEW N \in Nat, NEW c \in Nat, NEW L, Backed(L, N, c),
         NEW blocked, NEW ps, Len(ps) \in Nat,
         \A k \in 1..Len(ps) : ps[k].to \in 1..N /\ ps[k].amt \in Nat,
         pay_all(L, blocked, ps).ok
  PROVE  /\ L.ok
         /\ Spare(pay_all(L, blocked, ps))
              = Spare(L) - SumTo([k \in 1..Len(ps) |-> ps[k].amt], Len(ps))
<1> DEFINE p == CHOOSE p : IsPayout(p, L, blocked, ps, Len(ps))
           f == [k \in 1..Len(ps) |-> ps[k].amt]
<1>1. IsPayout(p, L, blocked, ps, Len(ps))
  BY PayoutExists, Zenon
<1>2. pay_all(L, blocked, ps) = p[Len(ps)]
  BY Zenon DEF pay_all, IsPayout
<1>3. \A k \in 1..Len(ps) : f[k] = ps[k].amt /\ f[k] \in Nat
  BY Zenon
<1> HIDE DEF p, f
<1> DEFINE T == {n \in Nat : n <= Len(ps) =>
                   /\ Backed(p[n], N, c)
                   /\ SumTo(f, n) \in Nat
                   /\ p[n].ok => L.ok /\ Spare(p[n]) = Spare(L) - SumTo(f, n)}
<1>4. 0 \in T
  <2>1. p[0] = L /\ SumTo(f, 0) = 0
    BY <1>1, SumToEquations DEF IsPayout
  <2>2. Spare(L) \in Int
    BY DEF Spare, Backed, Ledgers
  <2> QED BY <2>1, <2>2
<1>5. ASSUME NEW n \in T PROVE n+1 \in T
  <2>1. SUFFICES ASSUME n+1 <= Len(ps)
                 PROVE  /\ Backed(p[n+1], N, c)
                        /\ SumTo(f, n+1) \in Nat
                        /\ p[n+1].ok => L.ok /\ Spare(p[n+1]) = Spare(L) - SumTo(f, n+1)
    OBVIOUS
  <2>2. /\ n \in Nat /\ n+1 \in 1..Len(ps) /\ (n+1) - 1 = n /\ Backed(p[n], N, c)
        /\ SumTo(f, n) \in Nat
        /\ p[n].ok => L.ok /\ Spare(p[n]) = Spare(L) - SumTo(f, n)
    BY <2>1
  <2>3. p[n+1] = pay_or_escrow(p[n], blocked, ps[n+1].to, f[n+1])
    BY <1>1, <1>3, <2>2 DEF IsPayout
  <2>4. ps[n+1].to \in 1..N /\ f[n+1] \in Nat
    BY <1>3, <2>2, Zenon
  <2>5. SumTo(f, n+1) = SumTo(f, n) + f[n+1]
    BY <2>2, SumToEquations, Zenon
  <2>6. Backed(p[n+1], N, c)
    BY <2>2, <2>3, <2>4, PayOrEscrowKeeps
  <2>7. ASSUME p[n+1].ok PROVE L.ok /\ Spare(p[n+1]) = Spare(L) - SumTo(f, n+1)
    <3>1. p[n].ok /\ Spare(p[n+1]) = Spare(p[n]) - f[n+1]
      BY <2>2, <2>3, <2>4, <2>7, PayOrEscrowSpends
    <3>2. Spare(L) \in Int
      BY DEF Spare, Backed, Ledgers
    <3> QED BY <2>2, <2>4, <2>5, <3>1, <3>2
  <2> QED BY <2>2, <2>4, <2>5, <2>6, <2>7
<1>6. \A n \in Nat : n \in T
  <2>1. T \in SUBSET Nat
    BY Zenon
  <2> HIDE DEF T
  <2> QED BY <1>4, <1>5, <2>1, SetInduction, Zenon
<1>7. p[Len(ps)].ok => L.ok /\ Spare(p[Len(ps)]) = Spare(L) - SumTo(f, Len(ps))
  BY <1>6
<1>8. p[Len(ps)].ok
  BY <1>2, Zenon
<1> QED BY <1>2, <1>7, <1>8, Zenon DEF f

\* A strict payout takes its amount.
LEMMA TransferOutSpends ==
  ASSUME NEW N \in Nat, NEW c \in Nat, NEW L, Backed(L, N, c), NEW blocked,
         NEW to, NEW amount \in Nat
  PROVE  Spare(transfer_out_strict(L, blocked, to, amount)) = Spare(L) - amount
<1>0. L \in Ledgers(N) /\ L.balance \in Nat /\ L.total \in Nat
  BY Zenon DEF Backed, Ledgers
<1>1. CASE amount <= 0
  BY <1>0, <1>1 DEF transfer_out_strict, Spare
<1>2. CASE ~ (amount <= 0)
  <2> DEFINE M == transfer_out_strict(L, blocked, to, amount)
  <2>1. M.balance = L.balance - amount /\ M.total = L.total
    BY <1>0, <1>2, Zenon DEF transfer_out_strict, Ledgers
  <2> QED BY <1>0, <2>1 DEF Spare
<1> QED BY <1>1, <1>2, Zenon

\* Money coming in stays.
LEMMA TransferInSpares ==
  ASSUME NEW N \in Nat, NEW c \in Nat, NEW L, Backed(L, N, c), NEW amount \in Nat
  PROVE  Spare(transfer_in(L, amount)) = Spare(L) + amount
<1> DEFINE M == transfer_in(L, amount)
<1>1. L \in Ledgers(N) /\ L.balance \in Nat /\ L.total \in Nat
  BY Zenon DEF Backed, Ledgers
<1>2. M.balance = L.balance + amount /\ M.total = L.total
  BY <1>1, Zenon DEF transfer_in, Ledgers
<1> QED BY <1>1, <1>2 DEF Spare

\* A claim takes what was reserved for it.
LEMMA ClaimSpares ==
  ASSUME NEW N \in Nat, NEW c \in Nat, NEW L, Backed(L, N, c), NEW blocked, NEW to \in 1..N
  PROVE  Spare(claim_pending(L, blocked, to)) = Spare(L)
<1> DEFINE M == claim_pending(L, blocked, to)
<1>1. /\ L \in Ledgers(N) /\ L.balance \in Nat /\ L.total \in Nat
      /\ L.pending[to] \in Nat
  BY Zenon DEF Backed, Ledgers
<1>2. M.balance = L.balance - L.pending[to] /\ M.total = L.total - L.pending[to]
  BY <1>1, Zenon DEF claim_pending, Ledgers
<1> HIDE DEF M
<1> QED BY <1>1, <1>2 DEF Spare, M

-----------------------------------------------------------------------------
(* Solvency.                                                                *)

\* What is held for an invoice, by its status.
LEMMA HeldCases ==
  ASSUME NEW v \in Invoice, NEW fs \in Seq(Contribution), InvoiceOK(v, fs)
  PROVE  LET R == Refunded(fs, v.rate) IN
         /\ R \in Nat /\ v.paid \in Nat /\ Held(v, fs) \in Int
         /\ v.status \in {"Absent", "Pending", "Paid", "Expired"} => Held(v, fs) = 0
         /\ v.status = "PartiallyFunded" => Held(v, fs) = R
         /\ v.status = "Funded" => Held(v, fs) = v.paid
         /\ v.status = "Disputed" =>
              Held(v, fs) = IF v.funded = v.amount THEN v.paid ELSE R
         /\ v.status \in {"Defaulted", "Appealed"} => Held(v, fs) = v.paid - R
         /\ v.status = "Cancelled" =>
              Held(v, fs) = IF v.funded = v.amount THEN -R ELSE 0
         /\ v.funded = 0 => R = 0
<1> DEFINE R == Refunded(fs, v.rate)
<1>1. /\ v.rate \in 0..(Bps - 1) /\ v.paid \in Nat /\ v.funded \in Nat /\ v.amount \in Nat
      /\ v.status \in Statuses
  BY Zenon DEF Invoice
<1>2. R \in Nat /\ R <= Contributed(fs) /\ v.funded = Contributed(fs)
  BY <1>1, RefundBounds, Zenon DEF InvoiceOK
<1> HIDE DEF R
<1>3. /\ v.status \in {"Absent", "Pending", "Paid", "Expired"} => Held(v, fs) = 0
      /\ v.status = "PartiallyFunded" => Held(v, fs) = R
      /\ v.status = "Funded" => Held(v, fs) = v.paid
      /\ v.status = "Disputed" =>
           Held(v, fs) = IF v.funded = v.amount THEN v.paid ELSE R
      /\ v.status \in {"Defaulted", "Appealed"} => Held(v, fs) = v.paid - R
      /\ v.status = "Cancelled" =>
           Held(v, fs) = IF v.funded = v.amount THEN -R ELSE 0
  BY Zenon  DEF Held, R
<1>4. Held(v, fs) \in Int
  BY <1>1, <1>2, <1>3 DEF Statuses
<1>5. v.funded = 0 => R = 0
  BY <1>1, <1>2
<1> QED BY <1>1, <1>2, <1>3, <1>4, <1>5, Zenon DEF R

\* Nothing has been paid on an invoice that is not fully funded.
LEMMA PartialFacts ==
  ASSUME NEW v \in Invoice, NEW fs, InvoiceOK(v, fs)
  PROVE  /\ v.status = "Pending" => v.funded # v.amount
         /\ v.status = "PartiallyFunded" => v.funded # v.amount
         /\ v.funded # v.amount => v.paid = 0
         /\ v.status # "Absent" => v.payer \in Accounts
<1>1. v.paid \in Nat /\ v.funded \in Nat /\ v.amount \in Nat
  BY Zenon DEF Invoice
<1> QED BY <1>1 DEF InvoiceOK

\* What HeldCases says of a stored invoice, before and after a step.
LEMMA StoredFacts ==
  ASSUME IInv, IInv', NEW i \in Invoices
  PROVE  /\ inv[i] \in Invoice /\ funders[i] \in Seq(Contribution)
         /\ InvoiceOK(inv[i], funders[i])
         /\ inv'[i] \in Invoice /\ funders'[i] \in Seq(Contribution)
         /\ InvoiceOK(inv'[i], funders'[i])
  BY Zenon DEF IInv, InvoicesOK, Consistent

\* The core of every step on an invoice: what leaves the spendable balance is no
\* more than what the contract stops holding.
LEMMA SolventAfter ==
  ASSUME IInv, IInv', Solvent, NEW i \in Invoices, clawed' = clawed,
         \A k \in Invoices : k # i => inv'[k] = inv[k] /\ funders'[k] = funders[k],
         Spare(ledger') - Spare(ledger) >= HeldFor(i)' - HeldFor(i)
  PROVE  Solvent'
<1> DEFINE f == [k \in Invoices |-> HeldFor(k)]
           g == [k \in Invoices |-> HeldFor(k)']
           d == HeldFor(i)' - HeldFor(i)
           H == SumTo(f, NInvoices)
<1>1. \A k \in Invoices : HeldFor(k) \in Int /\ HeldFor(k)' \in Int
  BY StoredFacts, HeldCases, Zenon DEF HeldFor
<1>2. \A k \in Invoices : k # i => HeldFor(k)' = HeldFor(k)
  BY Zenon DEF HeldFor
<1>3. /\ NInvoices \in Nat /\ Invoices = 1..NInvoices /\ d \in Int
      /\ \A k \in 1..NInvoices : f[k] \in Int
      /\ \A k \in 1..NInvoices : k # i => g[k] = f[k]
      /\ g[i] = f[i] + d
  BY EscrowAssumption, <1>1, <1>2 DEF Invoices
<1> HIDE DEF f, g
<1>4. SumTo(g, NInvoices) = H + d /\ H \in Int
  BY <1>3, SumToChange, SumToType, Zenon
<1>5. /\ ledger.balance \in Nat /\ ledger.total \in Nat /\ clawed \in Nat
      /\ ledger'.balance \in Nat /\ ledger'.total \in Nat
  BY Zenon DEF IInv, MoneyOK, Backed, Ledgers, SettingsOK
<1>6. (ledger'.balance - ledger'.total) - (ledger.balance - ledger.total) >= d
  BY Zenon DEF Spare
<1>7. ledger.balance + clawed >= ledger.total + H
  BY Zenon DEF Solvent, f
<1> HIDE DEF d, H
<1>8. ledger'.balance + clawed' >= ledger'.total + (H + d)
  <2>1. d \in Int /\ H \in Int
    BY <1>3, <1>4, Zenon
  <2> QED BY <1>5, <1>6, <1>7, <2>1
<1> QED BY <1>4, <1>8, Zenon DEF Solvent, g

\* Steps that move no money and stop holding none.
LEMMA SolventQuiet ==
  ASSUME IInv, IInv', Solvent, NEW i \in Invoices, UNCHANGED <<ledger, clawed>>,
         \A k \in Invoices : k # i => inv'[k] = inv[k] /\ funders'[k] = funders[k],
         HeldFor(i)' <= HeldFor(i)
  PROVE  Solvent'
<1>1. HeldFor(i) \in Int /\ HeldFor(i)' \in Int
  BY StoredFacts, HeldCases, Zenon DEF HeldFor
<1>2. Spare(ledger) \in Int
  BY DEF IInv, MoneyOK, Backed, Ledgers, Spare
<1>3. Spare(ledger') - Spare(ledger) >= HeldFor(i)' - HeldFor(i)
  BY <1>1, <1>2
<1> QED BY <1>3, SolventAfter, Zenon

\* Funding: a contribution that does not complete the amount is held for its
\* refund; the last one pays the freelancer no more than is held.
LEMMA FundSolvent ==
  ASSUME IInv, IInv', Solvent, NEW i \in Invoices, NEW lp \in LPs, NEW a \in FundAmounts,
         FundInvoice(i, lp, a)
  PROVE  Solvent'
<1> DEFINE v == inv[i]
           w == inv'[i]
           fs == funders[i]
           gs == funders'[i]
           full == v.funded + a = v.amount
           C == Cost(a, v.rate)
           D == Cost(v.amount, v.rate)
           R == Refunded(fs, v.rate)
           in == transfer_in(ledger, C)
           out == transfer_out_strict(in, frozen, v.freelancer, D)
           S == Spare(ledger)
<1>1. /\ v \in Invoice /\ fs \in Seq(Contribution) /\ InvoiceOK(v, fs)
      /\ w \in Invoice /\ gs \in Seq(Contribution) /\ InvoiceOK(w, gs)
  BY StoredFacts, Zenon
<1>2. /\ v.status \in {"Pending", "PartiallyFunded"} /\ clawed' = clawed
      /\ ledger' = (IF full THEN out ELSE in)
      /\ inv' = [inv EXCEPT ![i] =
                   [v EXCEPT !.status = IF full THEN "Funded" ELSE "PartiallyFunded",
                             !.funded = v.funded + a,
                             !.funder = IF full THEN lp ELSE @]]
      /\ funders' = [funders EXCEPT ![i] = AddContribution(fs, lp, a)]
  BY Zenon DEF FundInvoice
<1>3. /\ gs = AddContribution(fs, lp, a)
      /\ \A k \in Invoices : k # i => inv'[k] = inv[k] /\ funders'[k] = funders[k]
  BY <1>2, Zenon DEF IInv, InvoicesOK
<1>4. /\ w.status = (IF full THEN "Funded" ELSE "PartiallyFunded")
      /\ w.rate = v.rate /\ w.paid = v.paid
  BY <1>1, <1>2, Zenon DEF IInv, InvoicesOK, Invoice
<1>5. /\ v.rate \in 0..(Bps - 1) /\ v.funded \in Nat /\ v.amount \in Nat /\ a \in Nat
      /\ lp \in Accounts /\ v.freelancer \in Accounts /\ v.paid = 0
      /\ v.funded = Contributed(fs) /\ v.funded < v.amount
      /\ v.status = "Pending" => v.funded = 0
  <2>1. /\ v.rate \in 0..(Bps - 1) /\ v.funded \in Nat /\ v.amount \in Nat /\ v.paid \in Nat
    BY <1>1, Zenon DEF Invoice
  <2>2. a \in Nat /\ lp \in Accounts
    BY EscrowAssumption, Zenon
  <2> HIDE DEF v, fs
  <2>3. /\ v.freelancer \in Accounts /\ v.funded = Contributed(fs) /\ v.amount > 0
        /\ v.status = "Pending" => v.funded = 0
        /\ v.status = "PartiallyFunded" => v.funded < v.amount
        /\ v.paid > 0 => v.funded = v.amount
    BY <1>1, <1>2, Zenon DEF InvoiceOK
  <2> QED BY <1>2, <2>1, <2>2, <2>3
<1>6. /\ C \in Nat /\ D \in Nat /\ R \in Nat
      /\ Cost(v.funded, v.rate) \in Nat /\ Cost(v.funded, v.rate) <= R
      /\ Cost(v.funded + a, v.rate) <= Cost(v.funded, v.rate) + C
      /\ v.funded = 0 => R = 0
  <2>1. C \in Nat /\ D \in Nat /\ Cost(v.funded, v.rate) \in Nat
    BY <1>5, CostType, Zenon
  <2>2. R \in Nat /\ R <= v.funded /\ Cost(v.funded, v.rate) <= R
    BY <1>1, <1>5, RefundBounds, Zenon
  <2>3. Cost(v.funded + a, v.rate) <= Cost(v.funded, v.rate) + C
    BY <1>5, CostSubadditive, Zenon
  <2> QED BY <1>5, <2>1, <2>2, <2>3
<1>7. Refunded(gs, v.rate) <= R + C
  BY <1>1, <1>3, <1>5, RefundAfterAdd, Zenon
<1>8. HeldFor(i) = R
  BY <1>1, <1>2, <1>5, <1>6, HeldCases, Zenon DEF HeldFor
<1>9. /\ S \in Int /\ Spare(in) = S + C /\ Spare(out) = S + C - D
  <2>1. /\ NAccounts \in Nat /\ clawed \in Nat /\ Accounts = 1..NAccounts
        /\ Backed(ledger, NAccounts, clawed)
    BY EscrowAssumption, Zenon DEF IInv, MoneyOK, SettingsOK, Accounts
  <2>2. S \in Int
    BY <2>1 DEF Spare, Backed, Ledgers
  <2>3. Backed(in, NAccounts, clawed)
    BY <1>6, <2>1, TransferInKeeps, Zenon
  <2>a. v.freelancer \in 1..NAccounts /\ C \in Nat /\ D \in Nat
    BY <1>5, <1>6, <2>1, Zenon
  <2> HIDE DEF v, C, D
  <2>4. Spare(in) = S + C
    BY <2>1, <2>a, TransferInSpares
  <2> HIDE DEF in
  <2>5. Spare(out) = Spare(in) - D
    BY <2>1, <2>3, <2>a, TransferOutSpends, SMTT(60)
  <2> QED BY <1>6, <2>2, <2>4, <2>5
<1>10. /\ full => HeldFor(i)' = 0
       /\ ~ full => HeldFor(i)' = Refunded(gs, v.rate) /\ Refunded(gs, v.rate) \in Nat
  BY <1>1, <1>4, <1>5, HeldCases, Zenon DEF HeldFor
<1> HIDE DEF v, w, fs, gs, C, D, R, in, out, S
<1>11. Spare(ledger') - S >= HeldFor(i)' - HeldFor(i)
  <2>1. CASE full
    <3>1. D <= Cost(v.funded, v.rate) + C
      BY <1>6, <2>1, Zenon DEF D
    <3> QED BY <1>2, <1>6, <1>8, <1>9, <1>10, <2>1, <3>1
  <2>2. CASE ~ full
    BY <1>2, <1>6, <1>7, <1>8, <1>9, <1>10, <2>2
  <2> QED BY <2>1, <2>2, Zenon
<1> QED BY <1>2, <1>3, <1>11, SolventAfter, Zenon DEF S

\* What the state says of the ledger, in the form the payout lemmas ask for.
LEMMA LedgerFacts ==
  ASSUME IInv
  PROVE  /\ NAccounts \in Nat /\ clawed \in Nat /\ Accounts = 1..NAccounts
         /\ Backed(ledger, NAccounts, clawed) /\ Spare(ledger) \in Int
         /\ Admin \in 1..NAccounts
<1>1. /\ NAccounts \in Nat /\ clawed \in Nat /\ Accounts = 1..NAccounts
      /\ Backed(ledger, NAccounts, clawed) /\ Admin \in 1..NAccounts
  BY EscrowAssumption, Zenon DEF IInv, MoneyOK, SettingsOK, Accounts
<1>2. Spare(ledger) \in Int
  BY <1>1 DEF Spare, Backed, Ledgers
<1> QED BY <1>1, <1>2, Zenon

\* Refunding the contributors of an invoice takes what Refunded says.
LEMMA RefundsSpend ==
  ASSUME IInv, NEW i \in Invoices
  PROVE  LET M == pay_all(ledger, frozen, Refunds(funders[i], inv[i].rate)) IN
         /\ Backed(M, NAccounts, clawed)
         /\ M.ok => Spare(M) = Spare(ledger) - Refunded(funders[i], inv[i].rate)
<1> DEFINE fs == funders[i]
           r == inv[i].rate
           ps == Refunds(fs, r)
<1>1. inv[i] \in Invoice /\ fs \in Seq(Contribution)
  BY Zenon DEF IInv, InvoicesOK, Consistent
<1>2. r \in 0..(Bps - 1)
  BY <1>1, Zenon DEF Invoice
<1>3. Len(fs) \in Nat /\ \A k \in 1..Len(fs) : fs[k] \in Contribution
  BY <1>1, SeqEntry, SeqIsFunction, Zenon
<1>4. \A k \in 1..Len(fs) : fs[k].lp \in Accounts /\ fs[k].amt \in Nat
  BY <1>3, Zenon DEF Contribution
<1> HIDE DEF fs, r
<1>5. /\ Len(ps) = Len(fs)
      /\ \A k \in 1..Len(fs) : ps[k].to = fs[k].lp /\ ps[k].amt = Cost(fs[k].amt, r)
  BY <1>3 DEF Refunds
<1>6. \A k \in 1..Len(ps) : ps[k].to \in 1..NAccounts /\ ps[k].amt \in Nat
  BY <1>2, <1>4, <1>5, CostType, LedgerFacts, Zenon
<1>7. Refunded(fs, r) = SumTo([k \in 1..Len(ps) |-> ps[k].amt], Len(ps))
  BY <1>5, Zenon DEF Refunded
<1>8. Len(ps) \in Nat /\ \A k \in 1..Len(ps) : ps[k].to \in 1..NAccounts /\ ps[k].amt \in Int
  BY <1>3, <1>5, <1>6
<1> HIDE DEF ps
<1>10. Backed(pay_all(ledger, frozen, ps), NAccounts, clawed)
  BY <1>8, LedgerFacts, PayAllKeeps, Zenon
<1>11. ASSUME pay_all(ledger, frozen, ps).ok
       PROVE  Spare(pay_all(ledger, frozen, ps))
                = Spare(ledger) - SumTo([k \in 1..Len(ps) |-> ps[k].amt], Len(ps))
  BY <1>6, <1>8, <1>11, LedgerFacts, PayAllSpends, SMTT(40)
<1> QED BY <1>7, <1>10, <1>11, Zenon DEF ps, fs, r

\* A payment that does not complete the amount stays; the one that does pays out
\* the fee and the shares, which together are the amount or little less.
LEMMA MarkPaidEffect ==
  ASSUME IInv, NEW i \in Invoices, NEW a \in PayAmounts, MarkPaid(i, a)
  PROVE  LET v == inv[i]
             w == inv'[i]
         IN  /\ w.paid = v.paid + a
             /\ v.paid + a # v.amount =>
                  w.status = "Funded" /\ Spare(ledger') = Spare(ledger) + a
             /\ v.paid + a = v.amount =>
                  /\ w.status = "Paid"
                  /\ \E x \in Nat : /\ Spare(ledger') = Spare(ledger) + a - x
                                    /\ x <= v.amount
                                    /\ x > v.amount - Len(funders[i])
<1> DEFINE v == inv[i]
           w == inv'[i]
           fs == funders[i]
           n == Len(fs)
           full == v.paid + a = v.amount
           fee == Fraction(v.amount, feeRate)
           D == v.amount - fee
           in == transfer_in(ledger, a)
           mid == pay_or_escrow(in, frozen, Admin, fee)
           ps == Shares(fs, D, v.amount)
           out == pay_all(mid, frozen, ps)
           N == NAccounts
<1>1. v \in Invoice /\ fs \in Seq(Contribution) /\ InvoiceOK(v, fs)
  BY Zenon DEF IInv, InvoicesOK, Consistent
<1>2. /\ v.status = "Funded"
      /\ (IF full THEN out ELSE in).ok /\ ledger' = (IF full THEN out ELSE in)
      /\ inv' = [inv EXCEPT ![i] = [v EXCEPT !.paid = @ + a,
                                             !.status = IF full THEN "Paid" ELSE @]]
  BY Zenon DEF MarkPaid
<1>3. w.paid = v.paid + a /\ w.status = (IF full THEN "Paid" ELSE "Funded")
  BY <1>1, <1>2, Zenon DEF IInv, InvoicesOK, Invoice
<1>4. /\ v.amount \in Nat \ {0} /\ Contributed(fs) = v.amount
      /\ a \in Nat /\ feeRate \in 0..Bps
  <2>1. v.amount \in Nat /\ a \in Nat /\ feeRate \in 0..Bps
    BY <1>1, EscrowAssumption, Zenon DEF Invoice, IInv, SettingsOK
  <2> HIDE DEF v, fs
  <2>2. v.amount > 0 /\ v.funded = v.amount /\ v.funded = Contributed(fs)
    BY <1>1, <1>2, Zenon DEF InvoiceOK
  <2> QED BY <2>1, <2>2
<1>5. fee \in Nat /\ D \in Nat
  BY <1>4, FractionBounds
<1>6. n \in Nat /\ \A k \in 1..n : fs[k] \in Contribution
  BY <1>1, SeqEntry, SeqIsFunction, Zenon
<1>7. \A k \in 1..n : fs[k].lp \in Accounts /\ fs[k].amt \in Nat
  BY <1>6, Zenon DEF Contribution
<1>8. Backed(in, N, clawed) /\ Spare(in) = Spare(ledger) + a /\ Spare(ledger) \in Int
  BY <1>4, LedgerFacts, TransferInKeeps, TransferInSpares
<1> HIDE DEF v, w, fs, fee, in
<1>9. /\ Len(ps) = n
      /\ \A k \in 1..n : ps[k].to = fs[k].lp /\ ps[k].amt = (D * fs[k].amt) \div v.amount
  BY <1>6 DEF Shares
<1> HIDE DEF D, n
<1>10. \A k \in 1..Len(ps) : ps[k].to \in 1..N /\ ps[k].amt \in Nat
  <2>1. ASSUME NEW k \in 1..n PROVE ps[k].amt \in Nat
    <3>1. D * fs[k].amt \in Nat
      BY <1>5, <1>7
    <3> QED BY <1>4, <1>9, <3>1, Floor, Zenon
  <2> QED BY <1>7, <1>9, <2>1, LedgerFacts, Zenon
<1> DEFINE S == SumTo([k \in 1..n |-> ps[k].amt], n)
<1>11. S \in Nat /\ S <= D /\ S > D - n
  BY <1>1, <1>4, <1>5, SharesBounds, Zenon DEF n
<1> HIDE DEF S
<1>12. ASSUME out.ok PROVE Spare(out) = Spare(in) - fee - S
  <2>1. Backed(mid, N, clawed)
    <3>1. fee \in Int
      BY <1>5
    <3> QED BY <1>8, <3>1, LedgerFacts, PayOrEscrowKeeps, Zenon
  <2>2. Len(ps) \in Nat
    BY <1>6, <1>9, Zenon
  <2>6. N \in Nat /\ clawed \in Nat /\ out.ok
    BY <1>12, LedgerFacts, Zenon
  <2> HIDE DEF mid, ps, N
  <2>3. mid.ok /\ Spare(out) = Spare(mid) - SumTo([k \in 1..Len(ps) |-> ps[k].amt], Len(ps))
    BY <1>10, <2>1, <2>2, <2>6, PayAllSpends, SMTT(40)
  <2>4. Spare(mid) = Spare(in) - fee
    BY <1>5, <1>8, <2>3, LedgerFacts, PayOrEscrowSpends DEF mid, N
  <2>5. S = SumTo([k \in 1..Len(ps) |-> ps[k].amt], Len(ps))
    BY <1>9, Zenon DEF S
  <2> QED BY <2>3, <2>4, <2>5, Zenon
<1> HIDE DEF out
<1>13. CASE full
  <2>1. /\ w.status = "Paid" /\ ledger' = out /\ out.ok
    BY <1>2, <1>3, <1>13, Zenon
  <2> DEFINE x == fee + S
  <2>2. /\ x \in Nat /\ Spare(ledger') = Spare(ledger) + a - x
        /\ x <= v.amount /\ x > v.amount - n
    BY <1>4, <1>5, <1>6, <1>8, <1>11, <1>12, <2>1 DEF D
  <2> HIDE DEF x
  <2> QED BY <1>3, <1>13, <2>1, <2>2, Zenon DEF v, w, fs, n
<1>14. CASE ~ full
  BY <1>2, <1>3, <1>8, <1>14, Zenon DEF v, w
<1> QED BY <1>13, <1>14, Zenon

\* A payment keeps the contract solvent: the shares round down.
LEMMA MarkPaidSolvent ==
  ASSUME IInv, IInv', Solvent, NEW i \in Invoices, NEW a \in PayAmounts, MarkPaid(i, a)
  PROVE  Solvent'
<1> DEFINE v == inv[i]
           w == inv'[i]
           S == Spare(ledger)
<1>1. /\ v \in Invoice /\ funders[i] \in Seq(Contribution) /\ InvoiceOK(v, funders[i])
      /\ w \in Invoice /\ funders'[i] \in Seq(Contribution) /\ InvoiceOK(w, funders'[i])
  BY StoredFacts, Zenon
<1>2. v.status = "Funded" /\ clawed' = clawed /\ funders' = funders
  BY Zenon DEF MarkPaid
<1>3. \A k \in Invoices : k # i => inv'[k] = inv[k] /\ funders'[k] = funders[k]
  BY Zenon DEF MarkPaid, IInv, InvoicesOK
<1>4. a \in Nat /\ v.amount \in Nat /\ v.paid \in Nat /\ S \in Int
  BY <1>1, EscrowAssumption, LedgerFacts, ZenonT(60) DEF Invoice
<1>5. /\ HeldFor(i) = v.paid
      /\ w.status = "Funded" => HeldFor(i)' = w.paid
      /\ w.status = "Paid" => HeldFor(i)' = 0
  BY <1>1, <1>2, HeldCases, Zenon DEF HeldFor
<1>6. /\ w.paid = v.paid + a
      /\ v.paid + a # v.amount => w.status = "Funded" /\ Spare(ledger') = S + a
      /\ v.paid + a = v.amount =>
           /\ w.status = "Paid"
           /\ \E x \in Nat : Spare(ledger') = S + a - x /\ x <= v.amount
  BY MarkPaidEffect, Zenon
<1> HIDE DEF v, w, S
<1>7. Spare(ledger') - S >= HeldFor(i)' - HeldFor(i)
  <2>1. CASE v.paid + a # v.amount
    BY <1>4, <1>5, <1>6, <2>1
  <2>2. CASE v.paid + a = v.amount
    <3>1. PICK x \in Nat : Spare(ledger') = S + a - x /\ x <= v.amount
      BY <1>6, <2>2, Zenon
    <3> QED BY <1>4, <1>5, <1>6, <2>2, <3>1
  <2> QED BY <2>1, <2>2, Zenon
<1> QED BY <1>2, <1>3, <1>7, SolventAfter, Zenon DEF S

\* The steps that refund the contributors take out what was held for them, or
\* what Solvent books against the invoice.
LEMMA RefundsSolvent ==
  ASSUME IInv, IInv', Solvent, NEW i \in Invoices,
         CancelInvoice(i) \/ (\E lp \in LPs : ClaimDefault(i, lp)) \/ UpholdDispute(i)
  PROVE  Solvent'
<1> DEFINE v == inv[i]
           w == inv'[i]
           fs == funders[i]
           R == Refunded(fs, v.rate)
           all == pay_all(ledger, frozen, Refunds(fs, v.rate))
           S == Spare(ledger)
<1>1. /\ v \in Invoice /\ fs \in Seq(Contribution) /\ InvoiceOK(v, fs)
      /\ w \in Invoice /\ funders'[i] \in Seq(Contribution) /\ InvoiceOK(w, funders'[i])
  BY StoredFacts, Zenon
<1>2. clawed' = clawed /\ funders' = funders
  BY Zenon DEF CancelInvoice, ClaimDefault, UpholdDispute
<1>3. \A k \in Invoices : k # i => inv'[k] = inv[k] /\ funders'[k] = funders[k]
  BY Zenon DEF CancelInvoice, ClaimDefault, UpholdDispute, IInv, InvoicesOK
<1>4. w.rate = v.rate /\ w.paid = v.paid /\ w.funded = v.funded /\ w.amount = v.amount
  BY <1>1, SMTT(60) DEF CancelInvoice, ClaimDefault, UpholdDispute, IInv, InvoicesOK, Invoice
<1>5. /\ R \in Nat /\ v.paid \in Nat /\ S \in Int /\ v.amount \in Nat /\ v.funded \in Nat
      /\ v.status = "Pending" => HeldFor(i) = 0
      /\ v.status = "PartiallyFunded" => HeldFor(i) = R
      /\ v.status = "Funded" => HeldFor(i) = v.paid
      /\ v.status = "Disputed" => HeldFor(i) = IF v.funded = v.amount THEN v.paid ELSE R
  BY <1>1, HeldCases, LedgerFacts, Zenon DEF HeldFor, Invoice
<1>6. /\ w.status = "Cancelled" => HeldFor(i)' = IF v.funded = v.amount THEN -R ELSE 0
      /\ w.status = "Defaulted" => HeldFor(i)' = v.paid - R
  <2>1. HeldFor(i)' = Held(w, fs) /\ funders'[i] = fs
    BY <1>2, Zenon DEF HeldFor
  <2>2. /\ w.status = "Cancelled" =>
             Held(w, fs) = IF w.funded = w.amount THEN -Refunded(fs, w.rate) ELSE 0
        /\ w.status \in {"Defaulted", "Appealed"} => Held(w, fs) = w.paid - Refunded(fs, w.rate)
    BY <1>1, <2>1, HeldCases, Zenon
  <2> HIDE DEF v, w, fs
  <2> QED BY <1>4, <2>1, <2>2, Zenon
<1>7. /\ v.status = "Pending" => v.funded # v.amount
      /\ v.status = "PartiallyFunded" => v.funded # v.amount
      /\ v.funded # v.amount => v.paid = 0
      /\ v.status # "Absent" => v.payer \in Accounts
  BY <1>1, PartialFacts, Zenon
<1>8. all.ok => Backed(all, NAccounts, clawed) /\ Spare(all) = S - R
  BY RefundsSpend, ZenonT(60)
<1> SUFFICES Spare(ledger') - S >= HeldFor(i)' - HeldFor(i)
  BY <1>2, <1>3, SolventAfter, Zenon
<1>9. CASE CancelInvoice(i)
  <2>1. /\ w.status = "Cancelled" /\ v.status \in {"Pending", "PartiallyFunded"}
        /\ v.status = "PartiallyFunded" => all.ok /\ ledger' = all
        /\ v.status # "PartiallyFunded" => ledger' = ledger
    BY <1>1, <1>9, Zenon DEF CancelInvoice, IInv, InvoicesOK, Invoice
  <2> HIDE DEF v, w, all, R, S
  <2>2. CASE v.status = "PartiallyFunded"
    BY <1>5, <1>6, <1>7, <1>8, <2>1, <2>2, SMTT(60)
  <2>3. CASE v.status = "Pending"
    <3>1. Spare(ledger') = S
      BY <2>1, <2>3, Zenon DEF S
    <3> QED BY <1>5, <1>6, <1>7, <2>1, <2>3, <3>1
  <2> QED BY <2>1, <2>2, <2>3, Zenon
<1>10. CASE \E lp \in LPs : ClaimDefault(i, lp)
  <2>1. w.status = "Defaulted" /\ v.status = "Funded" /\ all.ok /\ ledger' = all
    BY <1>1, <1>10 DEF ClaimDefault, IInv, InvoicesOK, Invoice
  <2> HIDE DEF v, w, all, R, S
  <2> QED BY <1>5, <1>6, <1>8, <2>1
<1>11. CASE UpholdDispute(i)
  <2> DEFINE out == pay_or_escrow(all, frozen, v.payer, v.paid)
  <2>1. w.status = "Cancelled" /\ v.status = "Disputed" /\ out.ok /\ ledger' = out
    BY <1>1, <1>11, Zenon DEF UpholdDispute, IInv, InvoicesOK, Invoice
  <2>2. Backed(all, NAccounts, clawed)
    BY RefundsSpend, Zenon
  <2>3. v.payer \in 1..NAccounts
    BY <1>7, <2>1, LedgerFacts, Zenon
  <2> HIDE DEF v, w, all, R, S
  <2>4. all.ok /\ Spare(out) = Spare(all) - v.paid
    BY <1>5, <2>1, <2>2, <2>3, LedgerFacts, PayOrEscrowSpends, SMTT(60)
  <2>5. Spare(ledger') = S - R - v.paid
    BY <1>8, <2>1, <2>4, Zenon
  <2> HIDE DEF out
  <2> QED BY <1>5, <1>6, <1>7, <2>1, <2>5
<1> QED BY <1>9, <1>10, <1>11, Zenon

\* The steps that move no money leave what is held for the invoice as it was.
LEMMA QuietSolvent ==
  ASSUME IInv, IInv', Solvent, NEW i \in Invoices,
         UNCHANGED <<ledger, clawed, funders>>,
         NEW w, inv' = [inv EXCEPT ![i] = w],
         \/ inv[i].status \in {"Absent", "Pending"} /\ w.status \in {"Pending", "Expired"}
         \/ /\ w.rate = inv[i].rate /\ w.paid = inv[i].paid
            /\ w.funded = inv[i].funded /\ w.amount = inv[i].amount
            /\ \/ inv[i].status = "Defaulted" /\ w.status = "Appealed"
               \/ inv[i].status = "Appealed" /\ w.status = "Defaulted"
               \/ /\ inv[i].status \in {"Pending", "PartiallyFunded", "Funded"}
                  /\ w.status = "Disputed"
               \/ inv[i].status = "Disputed" /\ w.status = RestoredStatus(inv[i])
  PROVE  Solvent'
<1> DEFINE v == inv[i]
           fs == funders[i]
           R == Refunded(fs, v.rate)
           Q == Refunded(fs, w.rate)
<1>0. inv'[i] = w /\ \A k \in Invoices : k # i => inv'[k] = inv[k] /\ funders'[k] = funders[k]
  BY Zenon DEF IInv, InvoicesOK
<1>1. /\ v \in Invoice /\ fs \in Seq(Contribution) /\ InvoiceOK(v, fs)
      /\ w \in Invoice /\ InvoiceOK(w, fs)
  BY <1>0, StoredFacts, Zenon
<1>2. /\ R \in Nat /\ v.paid \in Nat /\ v.amount \in Nat /\ v.funded \in Nat
      /\ v.status \in {"Absent", "Pending"} => Held(v, fs) = 0
      /\ v.status = "PartiallyFunded" => Held(v, fs) = R
      /\ v.status = "Funded" => Held(v, fs) = v.paid
      /\ v.status = "Disputed" => Held(v, fs) = IF v.funded = v.amount THEN v.paid ELSE R
      /\ v.status \in {"Defaulted", "Appealed"} => Held(v, fs) = v.paid - R
      /\ v.funded = 0 => R = 0
  BY <1>1, HeldCases, ZenonT(60) DEF Invoice
<1>3. /\ w.status \in {"Pending", "Expired"} => Held(w, fs) = 0
      /\ w.status = "PartiallyFunded" => Held(w, fs) = Q
      /\ w.status = "Funded" => Held(w, fs) = w.paid
      /\ w.status = "Disputed" => Held(w, fs) = IF w.funded = w.amount THEN w.paid ELSE Q
      /\ w.status \in {"Defaulted", "Appealed"} => Held(w, fs) = w.paid - Q
  BY <1>1, HeldCases, ZenonT(60)
<1>4. w.rate = v.rate => Q = R
  BY Zenon
<1>5. HeldFor(i) = Held(v, fs) /\ HeldFor(i)' = Held(w, fs)
  BY <1>0, Zenon DEF HeldFor
<1>6. /\ v.status = "Pending" => v.funded = 0 /\ v.amount > 0
      /\ v.status = "PartiallyFunded" => v.funded # v.amount
      /\ v.status = "Funded" => v.funded = v.amount
  <2>1. InvoiceOK(v, fs) /\ v.amount \in Nat /\ v.funded \in Nat
    BY <1>1, Zenon DEF Invoice
  <2> HIDE DEF v, fs
  <2> QED BY <2>1, SMTT(60) DEF InvoiceOK
<1>7. v.status = "Disputed" /\ v.funded # 0 /\ v.funded # v.amount
         => RestoredStatus(v) = "PartiallyFunded"
  BY <1>2 DEF RestoredStatus
<1>8. v.status = "Disputed" /\ v.funded = v.amount => RestoredStatus(v) = "Funded"
  BY Zenon DEF RestoredStatus
<1>9. v.status = "Disputed" /\ v.funded = 0 /\ v.funded # v.amount
         => RestoredStatus(v) = "Pending"
  BY DEF RestoredStatus
<1> SUFFICES HeldFor(i)' <= HeldFor(i)
  BY <1>0, SolventQuiet, Zenon
<1>10. Held(v, fs) \in Int
  BY <1>1, HeldCases, Zenon
<1>11. Held(w, fs) = Held(v, fs)
  <2> HIDE DEF v, fs, R, Q
  <2>1. CASE v.status \in {"Absent", "Pending"} /\ w.status \in {"Pending", "Expired"}
    BY <1>2, <1>3, <2>1, Zenon
  <2>2. CASE /\ w.rate = v.rate /\ w.paid = v.paid
             /\ w.funded = v.funded /\ w.amount = v.amount
             /\ \/ v.status = "Defaulted" /\ w.status = "Appealed"
                \/ v.status = "Appealed" /\ w.status = "Defaulted"
    BY <1>2, <1>3, <1>4, <2>2, Zenon
  <2>3. CASE /\ w.rate = v.rate /\ w.paid = v.paid
             /\ w.funded = v.funded /\ w.amount = v.amount
             /\ v.status \in {"Pending", "PartiallyFunded", "Funded"}
             /\ w.status = "Disputed"
    BY <1>2, <1>3, <1>4, <1>6, <2>3, SMTT(60)
  <2>4. CASE /\ w.rate = v.rate /\ w.paid = v.paid
             /\ w.funded = v.funded /\ w.amount = v.amount
             /\ v.status = "Disputed" /\ w.status = RestoredStatus(v)
    <3>1. CASE v.funded = v.amount
      BY <1>2, <1>3, <1>8, <2>4, <3>1, Zenon
    <3>2. CASE v.funded # v.amount /\ v.funded # 0
      BY <1>2, <1>3, <1>4, <1>7, <2>4, <3>2, Zenon
    <3>3. CASE v.funded # v.amount /\ v.funded = 0
      BY <1>2, <1>3, <1>9, <2>4, <3>3, Zenon
    <3> QED BY <3>1, <3>2, <3>3, Zenon
  <2> QED BY <2>1, <2>2, <2>3, <2>4, Zenon DEF v
<1> QED BY <1>5, <1>10, <1>11, SMTT(60)

\* A transfer of an LP position renames a creditor.
LEMMA TransferLpSolvent ==
  ASSUME IInv, IInv', Solvent, NEW i \in Invoices, NEW lp \in LPs, TransferLpPosition(i, lp)
  PROVE  Solvent'
<1> DEFINE v == inv[i]
           w == inv'[i]
<1>1. /\ v \in Invoice /\ funders[i] \in Seq(Contribution) /\ InvoiceOK(v, funders[i])
      /\ w \in Invoice /\ funders'[i] \in Seq(Contribution) /\ InvoiceOK(w, funders'[i])
  BY StoredFacts, Zenon
<1>2. /\ v.status = "Funded" /\ UNCHANGED <<ledger, clawed>>
      /\ inv' = [inv EXCEPT ![i] = [v EXCEPT !.funder = lp]]
  BY Zenon DEF TransferLpPosition
<1>3. w.status = "Funded" /\ w.paid = v.paid
  BY <1>1, <1>2, Zenon DEF IInv, InvoicesOK, Invoice
<1>4. \A k \in Invoices : k # i => inv'[k] = inv[k] /\ funders'[k] = funders[k]
  BY Zenon DEF TransferLpPosition, IInv, InvoicesOK
<1>5. v.paid \in Nat /\ HeldFor(i) = v.paid /\ HeldFor(i)' = w.paid
  BY <1>1, <1>2, <1>3, HeldCases, Zenon DEF HeldFor
<1>6. HeldFor(i)' <= HeldFor(i)
  BY <1>3, <1>5
<1> QED BY <1>2, <1>4, <1>6, SolventQuiet, Zenon

\* update_invoice writes one record and leaves its status.
LEMMA UpdateWrites ==
  ASSUME NEW i \in Invoices, inv = [j \in Invoices |-> inv[j]], inv[i] \in Invoice,
         NEW a, NEW r, NEW d, UpdateInvoice(i, a, r, d)
  PROVE  \E w : inv' = [inv EXCEPT ![i] = w] /\ w.status = inv[i].status
<1> DEFINE x == [inv EXCEPT ![i].amount = a]
           y == [x EXCEPT ![i].rate = r]
           z == [y EXCEPT ![i].due = now + d]
           v == [inv[i] EXCEPT !.amount = a]
           w == [v EXCEPT !.rate = r]
           u == [w EXCEPT !.due = now + d]
<1>1. inv' = z
  BY Zenon DEF UpdateInvoice
<1>2. x = [inv EXCEPT ![i] = v] /\ u.status = inv[i].status
  BY Zenon DEF Invoice
<1>3. x[i] = v
  BY <1>2, Zenon
<1> HIDE DEF x, v
<1>4. y = [inv EXCEPT ![i] = w] /\ y[i] = w
  BY <1>2, <1>3, Zenon
<1> HIDE DEF y
<1>5. z = [inv EXCEPT ![i] = u]
  BY <1>4, Zenon
<1> HIDE DEF u
<1> QED BY <1>1, <1>2, <1>5, Zenon

\* Every operation on one invoice keeps the contract solvent.
LEMMA InvoiceStepSolvent ==
  ASSUME IInv, IInv', Solvent, NEW i \in Invoices, InvoiceStep(i)
  PROVE  Solvent'
<1> DEFINE v == inv[i]
<1>0. inv = [j \in Invoices |-> inv[j]] /\ v \in Invoice
  BY StoredFacts, Zenon DEF IInv, InvoicesOK
<1>1. ASSUME NEW t \in Terms, SubmitInvoice(i, t) PROVE Solvent'
  <2>1. /\ UNCHANGED <<ledger, clawed, funders>> /\ inv' = [inv EXCEPT ![i] = NewInvoice(t)]
        /\ \A k \in 1..i : inv[k].status = "Absent" <=> k = i
    BY <1>1, Zenon DEF SubmitInvoice
  <2>2. v.status = "Absent"
    <3>1. i \in 1..i
      BY EscrowAssumption DEF Invoices
    <3> QED BY <2>1, <3>1, Zenon
  <2>3. NewInvoice(t).status = "Pending"
    BY Zenon DEF NewInvoice, NoInvoice
  <2> QED BY <2>1, <2>2, <2>3, QuietSolvent, Zenon
<1>2. ASSUME NEW a \in Amounts, NEW r \in Rates, NEW d \in Durations,
             UpdateInvoice(i, a, r, d)
      PROVE  Solvent'
  <2>1. UNCHANGED <<ledger, clawed, funders>> /\ v.status = "Pending"
    BY <1>2, Zenon DEF UpdateInvoice
  <2>2. PICK w : inv' = [inv EXCEPT ![i] = w] /\ w.status = v.status
    BY <1>0, <1>2, UpdateWrites, Zenon
  <2>3. w.status = "Pending"
    BY <2>1, <2>2, Zenon
  <2> QED BY <2>1, <2>2, <2>3, QuietSolvent, Zenon
<1>3. ASSUME NEW f \in Freelancers, TransferInvoice(i, f) PROVE Solvent'
  <2> DEFINE w == [v EXCEPT !.freelancer = f]
  <2>1. UNCHANGED <<ledger, clawed, funders>> /\ v.status = "Pending"
    BY <1>3, Zenon DEF TransferInvoice
  <2>2. inv' = [inv EXCEPT ![i] = w]
    BY <1>0, <1>3, Zenon DEF TransferInvoice
  <2>3. w.status = "Pending"
    BY <1>0, <2>1, Zenon DEF Invoice
  <2> QED BY <2>1, <2>2, <2>3, QuietSolvent, Zenon
<1>4. ASSUME ExpireInvoice(i) PROVE Solvent'
  <2> DEFINE w == [v EXCEPT !.status = "Expired"]
  <2>1. UNCHANGED <<ledger, clawed, funders>> /\ v.status = "Pending"
    BY <1>4, Zenon DEF ExpireInvoice
  <2>2. inv' = [inv EXCEPT ![i] = w]
    BY <1>0, <1>4, Zenon DEF ExpireInvoice
  <2>3. w.status = "Expired"
    BY <1>0, <2>1, Zenon DEF Invoice
  <2> QED BY <2>1, <2>2, <2>3, QuietSolvent, Zenon
<1>5. ASSUME NEW w, UNCHANGED <<ledger, clawed, funders>>, inv' = [inv EXCEPT ![i] = w],
             w.rate = v.rate, w.paid = v.paid, w.funded = v.funded, w.amount = v.amount,
             \/ v.status = "Defaulted" /\ w.status = "Appealed"
             \/ v.status = "Appealed" /\ w.status = "Defaulted"
             \/ v.status \in {"Pending", "PartiallyFunded", "Funded"} /\ w.status = "Disputed"
             \/ v.status = "Disputed" /\ w.status = RestoredStatus(v)
      PROVE  Solvent'
  BY <1>5, QuietSolvent, Zenon
<1>6. ASSUME AppealDefault(i) PROVE Solvent'
  <2> DEFINE w == [v EXCEPT !.status = "Appealed", !.appealed = TRUE]
  <2>1. /\ UNCHANGED <<ledger, clawed, funders>> /\ v.status = "Defaulted"
        /\ inv' = [inv EXCEPT ![i] = w]
    BY <1>6, Zenon DEF AppealDefault
  <2>2. /\ w.status = "Appealed" /\ w.rate = v.rate /\ w.paid = v.paid
        /\ w.funded = v.funded /\ w.amount = v.amount
    BY <1>0, Zenon DEF Invoice
  <2> QED BY <2>1, <2>2, <1>5, Zenon
<1>7. ASSUME ResolveAppeal(i) PROVE Solvent'
  <2> DEFINE w == [v EXCEPT !.status = "Defaulted"]
  <2>1. /\ UNCHANGED <<ledger, clawed, funders>> /\ v.status = "Appealed"
        /\ inv' = [inv EXCEPT ![i] = w]
    BY <1>7, Zenon DEF ResolveAppeal
  <2>2. /\ w.status = "Defaulted" /\ w.rate = v.rate /\ w.paid = v.paid
        /\ w.funded = v.funded /\ w.amount = v.amount
    BY <1>0, Zenon DEF Invoice
  <2> QED BY <2>1, <2>2, <1>5, Zenon
<1>8. ASSUME DisputeInvoice(i) PROVE Solvent'
  <2> DEFINE w == [v EXCEPT !.status = "Disputed", !.disputedAt = now]
  <2>1. /\ UNCHANGED <<ledger, clawed, funders>>
        /\ v.status \in {"Pending", "PartiallyFunded", "Funded"}
        /\ inv' = [inv EXCEPT ![i] = w]
    BY <1>8, Zenon DEF DisputeInvoice
  <2>2. /\ w.status = "Disputed" /\ w.rate = v.rate /\ w.paid = v.paid
        /\ w.funded = v.funded /\ w.amount = v.amount
    BY <1>0, Zenon DEF Invoice
  <2> QED BY <2>1, <2>2, <1>5, Zenon
<1>9. ASSUME RejectDispute(i) \/ AutoResolveDispute(i) PROVE Solvent'
  <2> DEFINE w == [v EXCEPT !.status = RestoredStatus(v)]
  <2>1. /\ UNCHANGED <<ledger, clawed, funders>> /\ v.status = "Disputed"
        /\ inv' = [inv EXCEPT ![i] = w]
    BY <1>9, Zenon DEF RejectDispute, AutoResolveDispute
  <2>2. /\ w.status = RestoredStatus(v) /\ w.rate = v.rate /\ w.paid = v.paid
        /\ w.funded = v.funded /\ w.amount = v.amount
    BY <1>0, Zenon DEF Invoice
  <2> QED BY <2>1, <2>2, <1>5, Zenon
<1> QED
  BY <1>1, <1>2, <1>3, <1>4, <1>6, <1>7, <1>8, <1>9, FundSolvent, TransferLpSolvent,
     MarkPaidSolvent, RefundsSolvent, ZenonT(40) DEF InvoiceStep

\* Steps of the ledger alone: what happens to the balance happens to the claims
\* on it, or is counted as clawed back.
LEMMA LedgerStepSolvent ==
  ASSUME IInv, IInv', Solvent,
         \A k \in Invoices : HeldFor(k)' = HeldFor(k),
         Spare(ledger') + clawed' >= Spare(ledger) + clawed
  PROVE  Solvent'
<1> DEFINE f == [k \in Invoices |-> HeldFor(k)]
           H == SumTo(f, NInvoices)
<1>1. [k \in Invoices |-> HeldFor(k)]' = f
  BY Zenon
<1>2. H \in Int
  <2>1. \A k \in Invoices : HeldFor(k) \in Int
    BY StoredFacts, HeldCases, Zenon DEF HeldFor
  <2>2. NInvoices \in Nat /\ \A k \in 1..NInvoices : f[k] \in Int
    BY <2>1, EscrowAssumption, Zenon DEF Invoices
  <2> HIDE DEF f
  <2> QED BY <2>2, SumToType, Zenon
<1>3. /\ ledger.balance \in Nat /\ ledger.total \in Nat /\ clawed \in Nat
      /\ ledger'.balance \in Nat /\ ledger'.total \in Nat /\ clawed' \in Nat
  BY Zenon DEF IInv, MoneyOK, Backed, Ledgers, SettingsOK
<1>4. ledger.balance + clawed >= ledger.total + H
  BY Zenon DEF Solvent
<1>5. (ledger'.balance - ledger'.total) + clawed' >= (ledger.balance - ledger.total) + clawed
  BY Zenon DEF Spare
<1> HIDE DEF H
<1>6. ledger'.balance + clawed' >= ledger'.total + H
  BY <1>2, <1>3, <1>4, <1>5
<1> QED BY <1>1, <1>6, Zenon DEF Solvent, H

\* Batch submission, claims of escrowed payouts, the issuer, donations,
\* settings and time.
LEMMA OtherStepSolvent ==
  ASSUME IInv, IInv', Solvent, [Next]_vars, ~ \E i \in Invoices : InvoiceStep(i)
  PROVE  Solvent'
<1>0. Spare(ledger) \in Int /\ clawed \in Nat
  BY LedgerFacts, Zenon
<1>1. ASSUME NEW S \in SUBSET Invoices, NEW ts \in [S -> Terms], SubmitInvoicesBatch(ts)
      PROVE  Solvent'
  <2>1. UNCHANGED <<ledger, clawed, funders>>
    BY <1>1, Zenon DEF SubmitInvoicesBatch
  <2>2. ASSUME NEW k \in Invoices PROVE HeldFor(k)' = HeldFor(k)
    <3>1. inv'[k] = (IF k \in S THEN NewInvoice(ts[k]) ELSE inv[k])
      BY <1>1, Zenon DEF SubmitInvoicesBatch
    <3>2. CASE k \in S
      <4>1. inv'[k].status = "Pending"
        BY <3>1, <3>2, Zenon DEF NewInvoice, NoInvoice
      <4>2. inv[k].status = "Absent"
        <5>1. k \in 1..k
          BY EscrowAssumption, SMTT(60) DEF Invoices
        <5> QED BY <1>1, <3>2, <5>1, Zenon DEF SubmitInvoicesBatch
      <4> QED BY <4>1, <4>2, StoredFacts, HeldCases, Zenon DEF HeldFor
    <3>3. CASE k \notin S
      BY <2>1, <3>1, <3>3, Zenon DEF HeldFor
    <3> QED BY <3>2, <3>3, Zenon
  <2> QED BY <1>0, <2>1, <2>2, LedgerStepSolvent
<1>2. ASSUME UNCHANGED <<inv, funders>> PROVE \A k \in Invoices : HeldFor(k)' = HeldFor(k)
  BY <1>2, Zenon DEF HeldFor
<1>3. ASSUME NEW a \in Accounts, ClaimPendingPayout(a) PROVE Solvent'
  <2>1. /\ UNCHANGED <<inv, funders>> /\ clawed' = clawed
        /\ ledger' = claim_pending(ledger, frozen, a)
    BY <1>3, Zenon DEF ClaimPendingPayout
  <2>2. Spare(ledger') = Spare(ledger)
    BY <2>1, LedgerFacts, ClaimSpares
  <2> QED BY <1>0, <1>2, <2>1, <2>2, LedgerStepSolvent, SMTT(60)
<1>4. ASSUME Clawback PROVE Solvent'
  <2>1. /\ UNCHANGED <<inv, funders>> /\ clawed' = clawed + 1
        /\ ledger' = [ledger EXCEPT !.balance = @ - 1]
    BY <1>4, Zenon DEF Clawback
  <2>2. ledger \in Ledgers(NAccounts) /\ ledger.balance \in Nat /\ ledger.total \in Nat
    BY LedgerFacts, Zenon DEF Backed, Ledgers
  <2>3. Spare(ledger') = Spare(ledger) - 1
    BY <2>1, <2>2 DEF Spare, Ledgers
  <2> QED BY <1>0, <1>2, <2>1, <2>3, LedgerStepSolvent
<1>5. ASSUME Donate PROVE Solvent'
  <2>1. UNCHANGED <<inv, funders>> /\ clawed' = clawed /\ ledger' = transfer_in(ledger, 1)
    BY <1>5, Zenon DEF Donate
  <2>2. Spare(ledger') = Spare(ledger) + 1
    BY <2>1, LedgerFacts, TransferInSpares
  <2> QED BY <1>0, <1>2, <2>1, <2>2, LedgerStepSolvent, SMTT(60)
<1>6. ASSUME UNCHANGED <<inv, funders, ledger, clawed>> PROVE Solvent'
  BY <1>0, <1>2, <1>6, LedgerStepSolvent
<1>7. ASSUME \/ \E r \in FeeRates : UpdateFeeRate(r)
             \/ Pause \/ Unpause \/ (\E a \in Freezable : Freeze(a) \/ Unfreeze(a))
             \/ Tick \/ UNCHANGED vars
      PROVE  UNCHANGED <<inv, funders, ledger, clawed>>
  BY <1>7, Zenon DEF UpdateFeeRate, Pause, Unpause, Freeze, Unfreeze, Tick, vars
<1> QED
  BY <1>1, <1>3, <1>4, <1>5, <1>6, <1>7, ZenonT(40) DEF Next

\* The balance covers the pending payouts and everything held for open
\* invoices, less what defaults and upheld disputes took, for any number of
\* invoices and accounts and any amounts, rates and fees: no floor division of
\* fund_invoice, mark_paid or a refund loop ever favours the receiver.
THEOREM AlwaysSolvent == Spec => []Solvent
<1>1. Init => Solvent
  <2> SUFFICES ASSUME Init PROVE Solvent
    BY Zenon
  <2> DEFINE f == [k \in Invoices |-> HeldFor(k)]
  <2>1. IInv
    BY InitInvariant, Zenon
  <2>2. \A k \in Invoices : f[k] = 0
    <3>1. \A k \in Invoices : /\ inv[k] \in Invoice /\ funders[k] \in Seq(Contribution)
                              /\ InvoiceOK(inv[k], funders[k]) /\ inv[k].status = "Absent"
      BY <2>1, Zenon DEF IInv, InvoicesOK, Consistent, Init, NoInvoice
    <3> QED BY <3>1, HeldCases, Zenon DEF HeldFor
  <2>3. NInvoices \in Nat /\ \A k \in 1..NInvoices : f[k] \in Nat /\ f[k] = 0
    BY <2>2, EscrowAssumption DEF Invoices
  <2> HIDE DEF f
  <2>4. SumTo(f, NInvoices) = 0
    BY <2>3, SumOfZeros, Zenon
  <2> QED BY <2>4 DEF Init, Solvent, f
<1>2. Solvent /\ IInv /\ IInv' /\ [Next]_vars => Solvent'
  <2> SUFFICES ASSUME Solvent, IInv, IInv', [Next]_vars PROVE Solvent'
    BY Zenon
  <2>1. CASE \E i \in Invoices : InvoiceStep(i)
    BY <2>1, InvoiceStepSolvent, Zenon
  <2>2. CASE ~ \E i \in Invoices : InvoiceStep(i)
    BY <2>2, OtherStepSolvent, Zenon
  <2> QED BY <2>1, <2>2, Zenon
<1> QED BY <1>1, <1>2, InvariantHolds, PTL DEF Spec

\* Only a completing payment turns a funded invoice into a paid one.
LEMMA SettledByPayment ==
  ASSUME IInv, [Next]_vars, NEW i \in Invoices, Settles(i)
  PROVE  \E a \in PayAmounts : MarkPaid(i, a)
<1>0. inv[i].status = "Funded" /\ inv'[i].status = "Paid"
  BY Zenon DEF Settles
<1>1. ASSUME NEW k \in Invoices, InvoiceStep(k), ~ \E a \in PayAmounts : MarkPaid(k, a)
      PROVE  \E w : /\ inv' = [inv EXCEPT ![k] = w]
                    /\ w.status # "Paid" \/ inv[k].status # "Funded"
  <2>0. /\ inv = [j \in Invoices |-> inv[j]] /\ inv[k] \in Invoice
    BY InvoiceFacts, Zenon DEF IInv, InvoicesOK
  <2>1. ASSUME NEW t \in Terms, SubmitInvoice(k, t)
        PROVE  inv' = [inv EXCEPT ![k] = NewInvoice(t)] /\ NewInvoice(t).status # "Paid"
    BY <2>1, Zenon DEF SubmitInvoice, NewInvoice, NoInvoice
  <2>2. ASSUME NEW a \in Amounts, NEW r \in Rates, NEW d \in Durations,
               UpdateInvoice(k, a, r, d)
        PROVE  \E w : inv' = [inv EXCEPT ![k] = w] /\ inv[k].status # "Funded"
    <3>1. inv[k].status # "Funded"
      BY <2>2, Zenon DEF UpdateInvoice
    <3> QED BY <2>0, <2>2, <3>1, UpdateWrites, Zenon
  <2>3. ASSUME NEW f \in Freelancers, TransferInvoice(k, f)
        PROVE  /\ inv' = [inv EXCEPT ![k] = [inv[k] EXCEPT !.freelancer = f]]
               /\ inv[k].status # "Funded"
    BY <2>0, <2>3, Zenon DEF TransferInvoice
  <2>4. ASSUME ExpireInvoice(k)
        PROVE  /\ inv' = [inv EXCEPT ![k] = [inv[k] EXCEPT !.status = "Expired"]]
               /\ inv[k].status # "Funded"
    BY <2>0, <2>4, Zenon DEF ExpireInvoice
  <2>5. ASSUME NEW lp \in LPs, NEW a \in FundAmounts, FundInvoice(k, lp, a)
        PROVE  \E w : inv' = [inv EXCEPT ![k] = w] /\ inv[k].status # "Funded"
    BY <2>5, Zenon DEF FundInvoice
  <2>6. ASSUME NEW lp \in LPs, TransferLpPosition(k, lp)
        PROVE  \E w : inv' = [inv EXCEPT ![k] = w] /\ w.status # "Paid"
    <3> DEFINE w == [inv[k] EXCEPT !.funder = lp]
    <3>1. inv' = [inv EXCEPT ![k] = w] /\ inv[k].status = "Funded"
      BY <2>6, Zenon DEF TransferLpPosition
    <3>2. w.status # "Paid"
      BY <2>0, <3>1, Zenon DEF Invoice
    <3> HIDE DEF w
    <3> QED BY <3>1, <3>2, Zenon
  <2>7. ASSUME CancelInvoice(k)
        PROVE  /\ inv' = [inv EXCEPT ![k] = [inv[k] EXCEPT !.status = "Cancelled"]]
               /\ inv[k].status # "Funded"
    BY <2>0, <2>7, Zenon DEF CancelInvoice
  <2>8. ASSUME NEW lp \in LPs, ClaimDefault(k, lp)
        PROVE  \E w : inv' = [inv EXCEPT ![k] = w] /\ w.status # "Paid"
    <3> DEFINE w == [inv[k] EXCEPT !.status = "Defaulted"]
    <3>1. inv' = [inv EXCEPT ![k] = w]
      BY <2>8, Zenon DEF ClaimDefault
    <3>2. w.status # "Paid"
      BY <2>0, Zenon DEF Invoice
    <3> HIDE DEF w
    <3> QED BY <3>1, <3>2, Zenon
  <2>9. ASSUME DisputeInvoice(k)
        PROVE  \E w : inv' = [inv EXCEPT ![k] = w] /\ w.status # "Paid"
    <3> DEFINE w == [inv[k] EXCEPT !.status = "Disputed", !.disputedAt = now]
    <3>1. inv' = [inv EXCEPT ![k] = w]
      BY <2>9, Zenon DEF DisputeInvoice
    <3>2. w.status # "Paid"
      BY <2>0, Zenon DEF Invoice
    <3> HIDE DEF w
    <3> QED BY <3>1, <3>2, Zenon
  <2>10. ASSUME \/ AppealDefault(k) \/ ResolveAppeal(k) \/ UpholdDispute(k)
                \/ RejectDispute(k) \/ AutoResolveDispute(k)
         PROVE  \E w : inv' = [inv EXCEPT ![k] = w] /\ inv[k].status # "Funded"
    BY <2>10, Zenon DEF AppealDefault, ResolveAppeal, UpholdDispute, RejectDispute,
                           AutoResolveDispute
  <2> QED
    BY <1>1, <2>1, <2>2, <2>3, <2>4, <2>5, <2>6, <2>7, <2>8, <2>9, <2>10,
       ZenonT(60) DEF InvoiceStep
<1>2. CASE \E k \in Invoices : InvoiceStep(k)
  <2>1. PICK k \in Invoices : InvoiceStep(k)
    BY <1>2, Zenon
  <2>2. CASE \E a \in PayAmounts : MarkPaid(k, a)
    <3>1. PICK a \in PayAmounts : MarkPaid(k, a)
      BY <2>2, Zenon
    <3>2. k # i => inv'[i] = inv[i]
      BY <3>1, Zenon DEF MarkPaid, IInv, InvoicesOK
    <3> QED BY <1>0, <3>1, <3>2, Zenon
  <2>3. CASE ~ \E a \in PayAmounts : MarkPaid(k, a)
    <3>1. PICK w : /\ inv' = [inv EXCEPT ![k] = w]
                   /\ w.status # "Paid" \/ inv[k].status # "Funded"
      BY <1>1, <2>1, <2>3, Zenon
    <3>2. inv'[i] = (IF i = k THEN w ELSE inv[i])
      BY <3>1, Zenon DEF IInv, InvoicesOK
    <3> QED BY <1>0, <3>1, <3>2, Zenon
  <2> QED BY <2>2, <2>3, Zenon
<1>3. CASE \E S \in SUBSET Invoices : \E ts \in [S -> Terms] : SubmitInvoicesBatch(ts)
  <2>0. PICK S \in SUBSET Invoices : \E ts \in [S -> Terms] : SubmitInvoicesBatch(ts)
    BY <1>3, Zenon
  <2>1. PICK ts \in [S -> Terms] : SubmitInvoicesBatch(ts)
    BY <2>0, Zenon
  <2>2. inv'[i] = (IF i \in S THEN NewInvoice(ts[i]) ELSE inv[i])
    BY <2>1, Zenon DEF SubmitInvoicesBatch
  <2>3. NewInvoice(ts[i]).status = "Pending"
    BY Zenon DEF NewInvoice, NoInvoice
  <2> QED BY <1>0, <2>2, <2>3, Zenon
<1>4. CASE ~ (\/ \E k \in Invoices : InvoiceStep(k)
              \/ \E S \in SUBSET Invoices : \E ts \in [S -> Terms] : SubmitInvoicesBatch(ts))
  <2>1. inv' = inv
    BY <1>4, Zenon DEF Next, vars, ClaimPendingPayout, UpdateFeeRate, Pause, Unpause,
                Freeze, Unfreeze, Clawback, Donate, Tick
  <2> QED BY <1>0, <2>1, Zenon
<1> QED BY <1>2, <1>3, <1>4, Zenon

\* A settlement hands out the invoice amount less at most one unit per
\* contributor (mark_paid), for any amounts, fee rates and lists of contributors.
THEOREM SettlementsAlwaysPayOut == Spec => SettlementPaysOut
<1> DEFINE Whole(i) == LET received == inv[i].amount - inv[i].paid
                           out      == PaidOut + received
                       IN  /\ out <= inv[i].amount
                           /\ out > inv[i].amount - Len(funders[i])
           Paying == \A i \in Invoices : Settles(i) => Whole(i)
<1>1. ASSUME IInv, [Next]_vars PROVE [Paying]_vars
  <2>1. ASSUME NEW i \in Invoices, Settles(i) PROVE Whole(i)
    <3>1. PICK a \in PayAmounts : MarkPaid(i, a)
      BY <1>1, <2>1, SettledByPayment, Zenon
    <3>2. /\ inv[i].amount \in Nat /\ inv[i].paid \in Nat /\ Len(funders[i]) \in Nat
      BY <1>1, SeqIsFunction, Zenon DEF IInv, InvoicesOK, Consistent, Invoice
    <3>3. a \in Nat /\ Spare(ledger) \in Int
      BY <1>1, EscrowAssumption, LedgerFacts, Zenon
    <3>4. inv[i].paid + a = inv[i].amount
      BY <1>1, <2>1, <3>1, MarkPaidEffect, Zenon DEF Settles
    <3>5. PICK x \in Nat : /\ Spare(ledger') = Spare(ledger) + a - x
                           /\ x <= inv[i].amount /\ x > inv[i].amount - Len(funders[i])
      BY <1>1, <3>1, <3>4, MarkPaidEffect, Zenon
    <3>6. PaidOut = Spare(ledger) - Spare(ledger')
      BY Zenon DEF PaidOut, Spare
    <3>7. PaidOut + (inv[i].amount - inv[i].paid) = x
      BY <3>2, <3>3, <3>4, <3>5, <3>6
    <3> QED BY <3>5, <3>7, Zenon
  <2> QED BY <2>1, Zenon
<1> QED
  BY <1>1, InvariantHolds, PTL DEF Spec, SettlementPaysOut
=============================================================================
