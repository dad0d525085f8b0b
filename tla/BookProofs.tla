----------------------------- MODULE BookProofs -----------------------------
(* The index and the statistics of the invoice contract always agree with    *)
(* its invoices, and keeping them does not change what happens to invoices.  *)
EXTENDS InvoiceBook, InvoiceEscrowProofs, FiniteSetTheorems

-----------------------------------------------------------------------------
(* Lists without repetitions.                                               *)

\* A list of members of S that holds exactly the members of R, each once.
Lists1(s, S, R) == s \in Seq(S) /\ IsInjective(s) /\ Range(s) = R

\* The range of a list, by positions.
LEMMA RangeOfList ==
  ASSUME NEW S, NEW s \in Seq(S)
  PROVE  /\ Range(s) = {s[k] : k \in 1..Len(s)}
         /\ IsInjective(s) <=> \A j, k \in 1..Len(s) : s[j] = s[k] => j = k
  BY DEF Range, IsInjective

\* One more entry at the end.
LEMMA AppendLists ==
  ASSUME NEW S, NEW R, NEW s, Lists1(s, S, R), NEW x \in S, x \notin R
  PROVE  Lists1(Append(s, x), S, R \cup {x})
<1> DEFINE t == Append(s, x)
<1>1. s \in Seq(S) /\ Len(s) \in Nat
  BY DEF Lists1
<1>2. t \in Seq(S) /\ Len(t) = Len(s) + 1 /\ t[Len(s) + 1] = x
      /\ \A k \in 1..Len(s) : t[k] = s[k]
  BY <1>1
<1>3. /\ R = {s[k] : k \in 1..Len(s)}
      /\ \A j, k \in 1..Len(s) : s[j] = s[k] => j = k
  BY <1>1, RangeOfList, Zenon DEF Lists1
<1>4. 1..Len(t) = 1..Len(s) \cup {Len(s) + 1}
  BY <1>1, <1>2
<1> HIDE DEF t
<1>5. {t[k] : k \in 1..Len(t)} = R \cup {x}
  BY <1>2, <1>3, <1>4
<1>6. \A k \in 1..Len(s) : t[k] # x
  BY <1>2, <1>3, Zenon
<1>7. \A j, k \in 1..Len(t) : t[j] = t[k] => j = k
  BY <1>2, <1>3, <1>4, <1>6, Zenon
<1>8. Range(t) = R \cup {x} /\ IsInjective(t)
  BY <1>2, <1>5, <1>7, RangeOfList
<1> QED
  BY <1>2, <1>8, Zenon DEF Lists1, t

\* One entry taken out.
LEMMA WithoutLists ==
  ASSUME NEW S, NEW R, NEW s, Lists1(s, S, R), NEW x
  PROVE  Lists1(Without(s, x), S, R \ {x})
<1> DEFINE t == Without(s, x)
<1>1. s \in Seq(S)
  BY Zenon DEF Lists1
<1>2. /\ R = {s[k] : k \in 1..Len(s)}
      /\ \A j, k \in 1..Len(s) : s[j] = s[k] => j = k
  BY <1>1, RangeOfList DEF Lists1
<1>3. /\ t \in Seq(S)
      /\ \A y : (\E j \in 1..Len(t) : t[j] = y) <=> (\E k \in 1..Len(s) : s[k] = y) /\ y # x
      /\ (\A i, j \in 1..Len(s) : s[i] = s[j] => i = j) =>
            (\A i, j \in 1..Len(t) : t[i] = t[j] => i = j)
  BY <1>1, WithoutDrops, Zenon
<1> HIDE DEF t
<1>4. {t[k] : k \in 1..Len(t)} = R \ {x}
  <2>1. ASSUME NEW y \in R, y # x PROVE \E j \in 1..Len(t) : t[j] = y
    <3>1. \E k \in 1..Len(s) : s[k] = y
      BY <1>2, Zenon
    <3> QED BY <1>3, <2>1, <3>1, Zenon
  <2>2. ASSUME NEW j \in 1..Len(t) PROVE t[j] \in R /\ t[j] # x
    <3>1. (\E k \in 1..Len(s) : s[k] = t[j]) /\ t[j] # x
      BY <1>3, Zenon
    <3> QED BY <1>2, <3>1, Zenon
  <2> QED BY <2>1, <2>2, Zenon
<1>5. Range(t) = R \ {x} /\ IsInjective(t)
  BY <1>2, <1>3, <1>4, RangeOfList, Zenon
<1> QED
  BY <1>3, <1>5, Zenon DEF Lists1, t

\* Two lists with nothing in common, one after the other.
LEMMA ConcatLists ==
  ASSUME NEW S, NEW R, NEW s, Lists1(s, S, R), NEW Q, NEW t, Lists1(t, S, Q),
         R \cap Q = {}
  PROVE  Lists1(s \o t, S, R \cup Q)
<1> DEFINE u == s \o t
           m == Len(s)
           n == Len(t)
<1>1. s \in Seq(S) /\ t \in Seq(S) /\ m \in Nat /\ n \in Nat
  BY DEF Lists1
<1>2. u \in Seq(S) /\ Len(u) = m + n
      /\ (\A k \in 1..m : u[k] = s[k]) /\ (\A k \in 1..n : u[m + k] = t[k])
  BY <1>1
<1>3. /\ R = {s[k] : k \in 1..m}
      /\ \A j, k \in 1..m : s[j] = s[k] => j = k
      /\ Q = {t[k] : k \in 1..n}
      /\ \A j, k \in 1..n : t[j] = t[k] => j = k
  BY <1>1, RangeOfList, Zenon DEF Lists1
<1> HIDE DEF u, m, n
<1>4. \A k \in 1..(m + n) : k \notin 1..m => k - m \in 1..n /\ m + (k - m) = k
  BY <1>1
<1>5. \A k \in 1..(m + n) :
         \/ k \in 1..m /\ u[k] = s[k] /\ u[k] \in R
         \/ k \notin 1..m /\ k - m \in 1..n /\ u[k] = t[k - m] /\ u[k] \in Q
  BY <1>2, <1>3, <1>4
<1>6. \A k \in 1..n : m + k \in 1..(m + n)
  BY <1>1
<1>7. {u[k] : k \in 1..(m + n)} = R \cup Q
  <2>1. \A y \in R : \E k \in 1..m : y = u[k]
    BY <1>2, <1>3
  <2>2. \A y \in Q : \E k \in 1..n : y = u[m + k]
    BY <1>2, <1>3
  <2>3. \A k \in 1..m : k \in 1..(m + n)
    BY <1>1
  <2> QED BY <1>5, <1>6, <2>1, <2>2, <2>3
<1>8. ASSUME NEW j \in 1..(m + n), NEW k \in 1..(m + n), u[j] = u[k]
      PROVE  j = k
  <2>1. CASE j \in 1..m /\ k \in 1..m
    BY <1>2, <1>3, <1>8, <2>1, Zenon
  <2>2. CASE j \notin 1..m /\ k \notin 1..m
    <3>1. j - m \in 1..n /\ k - m \in 1..n /\ t[j - m] = t[k - m]
      BY <1>5, <1>8, <2>2, Zenon
    <3>2. j - m = k - m
      BY <1>3, <3>1, Zenon
    <3> QED BY <1>1, <3>2
  <2>3. CASE ~ (j \in 1..m <=> k \in 1..m)
    BY <1>5, <1>8, <2>3, Zenon
  <2> QED BY <2>1, <2>2, <2>3, Zenon
<1>9. Range(u) = R \cup Q /\ IsInjective(u)
  BY <1>2, <1>7, <1>8, RangeOfList
<1> QED
  BY <1>2, <1>9, Zenon DEF Lists1, u

\* The ids in P, in their order.
LEMMA KeptIds ==
  ASSUME NEW n \in Nat, NEW P \in SUBSET (1..n)
  PROVE  Lists1(Keep([i \in 1..n |-> i], P), 1..n, P)
<1> DEFINE s == [i \in 1..n |-> i]
           r == Keep(s, P)
<1>1. s \in Seq(1..n) /\ Len(s) = n /\ \A k \in 1..n : s[k] = k
  OBVIOUS
<1> HIDE DEF s
<1>2. r \in Seq(1..n) /\ \E pos : Picks(r, pos, s, P, n)
  BY <1>1, KeepPicks, Zenon
<1>3. PICK pos : Picks(r, pos, s, P, n)
  BY <1>2, Zenon
<1>4. r \in Seq(1..n) /\ Len(r) \in Nat
  BY <1>2
<1> HIDE DEF r
<1>5. /\ \A j \in 1..Len(r) : pos[j] \in P /\ pos[j] \in 1..n /\ r[j] = s[pos[j]]
      /\ \A k \in P : \E j \in 1..Len(r) : pos[j] = k
      /\ \A i, j \in 1..Len(r) : i < j => pos[i] < pos[j]
  BY <1>3, Zenon DEF Picks
<1>6. \A j \in 1..Len(r) : r[j] = pos[j]
  BY <1>1, <1>5, Zenon
<1>7. {r[k] : k \in 1..Len(r)} = P
  <2>1. ASSUME NEW k \in P PROVE \E j \in 1..Len(r) : r[j] = k
    BY <1>5, <1>6, Zenon
  <2>2. ASSUME NEW j \in 1..Len(r) PROVE r[j] \in P
    BY <1>5, <1>6, Zenon
  <2> QED BY <2>1, <2>2, Zenon
<1>8. \A i, j \in 1..Len(r) : r[i] = r[j] => i = j
  BY <1>4, <1>5, <1>6
<1>9. Range(r) = P /\ IsInjective(r)
  <2>1. Range(r) = {r[k] : k \in 1..Len(r)} /\
        (IsInjective(r) <=> \A i, j \in 1..Len(r) : r[i] = r[j] => i = j)
    BY <1>4, RangeOfList, Zenon
  <2> QED BY <1>7, <1>8, <2>1, Zenon
<1> QED
  BY <1>4, <1>9, Zenon DEF Lists1, s, r
-----------------------------------------------------------------------------
(* Reading an index page by page.                                           *)

\* The first m entries and the next few are the first m plus a few.
LEMMA PrefixGrows ==
  ASSUME NEW S, NEW s \in Seq(S), NEW m \in 0..Len(s), NEW n \in m..Len(s)
  PROVE  SubSeq(s, 1, m) \o SubSeq(s, m + 1, n) = SubSeq(s, 1, n)
<1> DEFINE a == SubSeq(s, 1, m)
           b == SubSeq(s, m + 1, n)
           c == SubSeq(s, 1, n)
           d == a \o b
<1>1. m \in Nat /\ n \in Nat /\ Len(s) \in Nat /\ m <= n /\ n <= Len(s)
  OBVIOUS
<1>2. a \in Seq(S) /\ Len(a) = m /\ \A k \in 1..m : a[k] = s[k]
  BY <1>1
<1>3. b \in Seq(S) /\ Len(b) = n - m /\ \A k \in 1..(n - m) : b[k] = s[m + k]
  BY <1>1
<1>4. c \in Seq(S) /\ Len(c) = n /\ \A k \in 1..n : c[k] = s[k]
  BY <1>1
<1> HIDE DEF a, b, c
<1>5. d \in Seq(S) /\ Len(d) = n
  BY <1>1, <1>2, <1>3
<1>6. ASSUME NEW k \in 1..n PROVE d[k] = c[k]
  <2>1. CASE k <= m
    <3>1. k \in 1..m /\ d[k] = a[k]
      BY <1>1, <1>2, <1>3, <2>1
    <3> QED BY <1>2, <1>4, <3>1, Zenon
  <2>2. CASE k > m
    <3>1. k - m \in 1..(n - m) /\ m + (k - m) = k
      BY <1>1, <2>2
    <3>2. d[k] = b[k - m]
      BY <1>1, <1>2, <1>3, <2>2
    <3> QED BY <1>3, <1>4, <3>1, <3>2, Zenon
  <2>3. k <= m \/ k > m
    BY <1>1
  <2> QED BY <2>1, <2>2, <2>3, Zenon
<1> HIDE DEF d
<1>7. d = c
  BY <1>4, <1>5, <1>6, SameSeq, Zenon
<1> QED
  BY <1>7, Zenon DEF a, b, c, d

\* The entries on the first n pages.
FirstPages(ids, size, n) ==
    SubSeq(ids, 1, IF n * size < Len(ids) THEN n * size ELSE Len(ids))

\* One more page.
LEMMA NextPage ==
  ASSUME NEW S, NEW ids \in Seq(S), NEW size \in Nat \ {0}, NEW n \in Nat
  PROVE  FirstPages(ids, size, n) \o list_invoices(ids, n, size)
            = FirstPages(ids, size, n + 1)
<1> DEFINE a == n * size
           L == Len(ids)
<1>1. a \in Nat /\ (n + 1) * size = a + size /\ L \in Nat
  OBVIOUS
<1>2. /\ FirstPages(ids, size, n) = SubSeq(ids, 1, IF a < L THEN a ELSE L)
      /\ FirstPages(ids, size, n + 1) = SubSeq(ids, 1, IF a + size < L THEN a + size ELSE L)
      /\ list_invoices(ids, n, size) =
            IF a >= L THEN << >> ELSE SubSeq(ids, a + 1, IF a + size < L THEN a + size ELSE L)
  BY <1>1, Zenon DEF FirstPages, list_invoices
<1> HIDE DEF a
<1>3. CASE a >= L
  <2>1. SubSeq(ids, 1, L) \in Seq(S)
    BY <1>1
  <2>2. SubSeq(ids, 1, L) \o << >> = SubSeq(ids, 1, L)
    BY <2>1, SeqAndNothing, Zenon
  <2>3. ~ (a < L) /\ ~ (a + size < L)
    BY <1>1, <1>3
  <2> QED BY <1>2, <1>3, <2>2, <2>3, Zenon
<1>4. CASE a < L
  <2> DEFINE e == IF a + size < L THEN a + size ELSE L
  <2>1. a \in 0..L /\ e \in a..L /\ ~ (a >= L)
    BY <1>1, <1>4
  <2> HIDE DEF e
  <2>2. SubSeq(ids, 1, a) \o SubSeq(ids, a + 1, e) = SubSeq(ids, 1, e)
    BY <2>1, PrefixGrows, Zenon
  <2> QED BY <1>2, <1>4, <2>1, <2>2, Zenon DEF e
<1> QED
  BY <1>1, <1>3, <1>4

IsWalk(r, ids, size) ==
    r = [pages \in 0..(Len(ids) + 1) |->
           IF pages = 0 THEN << >> ELSE r[pages-1] \o list_invoices(ids, pages - 1, size)]

\* Whatever the page size, the pages in their order are the whole index.
LEMMA WalkReadsAll ==
  ASSUME NEW S, NEW ids \in Seq(S), NEW size \in Nat \ {0}
  PROVE  Walk(ids, size) = ids
<1> DEFINE L == Len(ids)
           f == [n \in 0..(L + 1) |-> FirstPages(ids, size, n)]
           r == CHOOSE r : IsWalk(r, ids, size)
           T == {n \in Nat : n <= L + 1 => r[n] = FirstPages(ids, size, n)}
<1>1. L \in Nat
  OBVIOUS
<1>2. FirstPages(ids, size, 0) = << >>
  <2>1. 0 * size = 0 /\ (IF 0 * size < Len(ids) THEN 0 * size ELSE Len(ids)) = 0
    BY <1>1
  <2>2. SubSeq(ids, 1, 0) = << >>
    OBVIOUS
  <2> QED BY <2>1, <2>2, Zenon DEF FirstPages
<1>3. IsWalk(f, ids, size)
  <2>1. ASSUME NEW n \in 0..(L + 1)
        PROVE  f[n] = IF n = 0 THEN << >> ELSE f[n-1] \o list_invoices(ids, n - 1, size)
    <3>1. CASE n = 0
      BY <1>1, <1>2, <3>1, Zenon
    <3>2. CASE n # 0
      <4>1. n - 1 \in Nat /\ n - 1 \in 0..(L + 1) /\ (n - 1) + 1 = n
        BY <1>1, <3>2
      <4>2. FirstPages(ids, size, n - 1) \o list_invoices(ids, n - 1, size)
              = FirstPages(ids, size, n)
        BY <4>1, NextPage, Zenon
      <4> QED BY <3>2, <4>1, <4>2, Zenon
    <3> QED BY <3>1, <3>2, Zenon
  <2> DEFINE g == [n \in 0..(L + 1) |->
                     IF n = 0 THEN << >> ELSE f[n-1] \o list_invoices(ids, n - 1, size)]
  <2>2. f = g
    <3>1. \A n \in 0..(L + 1) : f[n] = g[n]
      BY <2>1, Zenon
    <3> QED BY <3>1, Zenon
  <2> QED BY <2>2, Zenon DEF IsWalk
<1>4. IsWalk(r, ids, size)
  BY <1>3, Zenon
<1>5. Walk(ids, size) = r[L + 1]
  BY Zenon DEF Walk, IsWalk
<1> HIDE DEF r, f
<1>6. /\ r[0] = << >>
      /\ \A n \in 1..(L + 1) : r[n] = r[n-1] \o list_invoices(ids, n - 1, size)
  BY <1>1, <1>4 DEF IsWalk
<1>7. 0 \in T
  BY <1>2, <1>6, Zenon
<1>8. ASSUME NEW n \in T PROVE n + 1 \in T
  <2>1. SUFFICES ASSUME n + 1 <= L + 1 PROVE r[n+1] = FirstPages(ids, size, n + 1)
    OBVIOUS
  <2>2. n \in Nat /\ n <= L + 1 /\ n + 1 \in 1..(L + 1) /\ (n + 1) - 1 = n
    BY <1>1, <2>1
  <2>3. r[n+1] = FirstPages(ids, size, n) \o list_invoices(ids, n, size)
    BY <1>6, <2>2, Zenon
  <2> QED BY <2>2, <2>3, NextPage, Zenon
<1>9. \A n \in Nat : n \in T
  <2>1. T \in SUBSET Nat
    BY Zenon
  <2> HIDE DEF T
  <2> QED BY <2>1, <1>7, <1>8, SetInduction, Zenon
<1>10. r[L + 1] = FirstPages(ids, size, L + 1)
  <2>1. L + 1 \in Nat
    BY <1>1
  <2> QED BY <1>9, <2>1
<1>11. FirstPages(ids, size, L + 1) = ids
  <2>1. (L + 1) * size >= L + 1
    <3>1. \A k, z \in Nat : z >= 1 => k * z >= k
      OBVIOUS
    <3> QED BY <1>1, <3>1
  <2>2. ~ ((L + 1) * size < L)
    BY <1>1, <2>1
  <2>3. SubSeq(ids, 1, Len(ids)) = ids
    <3> DEFINE c == SubSeq(ids, 1, Len(ids))
    <3>1. c \in Seq(S) /\ Len(c) = Len(ids) /\ \A k \in 1..Len(ids) : c[k] = ids[k]
      BY <1>1
    <3> HIDE DEF c
    <3>2. c = ids
      BY <3>1, SameSeq, Zenon
    <3> QED BY <3>2, Zenon DEF c
  <2> QED BY <2>2, <2>3, Zenon DEF FirstPages
<1> QED
  BY <1>5, <1>10, <1>11, Zenon

-----------------------------------------------------------------------------
(* The inductive invariant: the lists without repetitions behind the pages, *)
(* and the counts.                                                          *)

SubmittedBy(a) == {i \in Invoices : inv[i].status # "Absent" /\ inv[i].freelancer = a}

FundedBy(a) == {i \in Invoices : Contributes(funders[i], a)}

Known == {i \in Invoices : inv[i].status # "Absent"}

Financed == {i \in Invoices : inv[i].funder # NoOne}

Settled == {i \in Invoices : inv[i].status = "Paid"}

FundedAmounts == [i \in Invoices |-> inv[i].funded]

SubmittedOK ==
    /\ submitted = [a \in Accounts |-> submitted[a]]
    /\ \A a \in Accounts : Lists1(submitted[a], Invoices, SubmittedBy(a))

FundingOK ==
    /\ funding = [a \in Accounts |-> funding[a]]
    /\ \A a \in Accounts : Lists1(funding[a], Invoices, FundedBy(a))

CountsOK ==
    totals = [invoices |-> Cardinality(Known), funded |-> Cardinality(Financed),
              paid |-> Cardinality(Settled)]

VolumeOK == volume = SumTo(FundedAmounts, NInvoices)

BookOK == SubmittedOK /\ FundingOK /\ CountsOK /\ VolumeOK

BookInv == IInv /\ BookOK

\* Nothing the book records has changed about an invoice.
SameStory(v, w) ==
    /\ w.status = "Absent" <=> v.status = "Absent"
    /\ w.status = "Paid" <=> v.status = "Paid"
    /\ w.freelancer = v.freelancer
    /\ w.funder = v.funder
    /\ w.funded = v.funded

Quiet == funders' = funders /\ \A k \in Invoices : SameStory(inv[k], inv'[k])

\* When no invoice has changed in what is recorded the book stays right.
LEMMA QuietKeeps ==
  ASSUME BookOK, Quiet, UNCHANGED <<submitted, funding, totals, volume>>
  PROVE  BookOK'
<1>1. /\ Known' = Known /\ Financed' = Financed /\ Settled' = Settled
      /\ \A a \in Accounts : SubmittedBy(a)' = SubmittedBy(a)
  BY Zenon DEF Quiet, SameStory, Known, Financed, Settled, SubmittedBy
<1>2. \A a \in Accounts : FundedBy(a)' = FundedBy(a)
  BY Zenon DEF Quiet, FundedBy
<1>3. FundedAmounts' = FundedAmounts
  BY Zenon DEF Quiet, SameStory, FundedAmounts
<1>4. SubmittedOK'
  BY <1>1, Zenon DEF BookOK, SubmittedOK
<1>5. FundingOK'
  BY <1>2, Zenon DEF BookOK, FundingOK
<1>6. CountsOK' /\ VolumeOK'
  BY <1>1, <1>3, Zenon DEF BookOK, CountsOK, VolumeOK
<1> QED
  BY <1>4, <1>5, <1>6, Zenon DEF BookOK

\* The entry points that leave the book alone have no reason to touch it.
LEMMA UnbookedQuiet ==
  ASSUME InvoicesOK, NEW i \in Invoices, Unbooked(i)
  PROVE  Quiet
<1>0. inv = [j \in Invoices |-> inv[j]] /\ inv[i] \in Invoice
  BY InvoiceFacts, Zenon DEF InvoicesOK
<1>1. ASSUME NEW w, inv' = [inv EXCEPT ![i] = w], SameStory(inv[i], w), funders' = funders
      PROVE  Quiet
  <2>1. \A k \in Invoices : inv'[k] = IF k = i THEN w ELSE inv[k]
    BY <1>0, <1>1, Zenon
  <2> QED BY <1>1, <2>1, Zenon DEF Quiet, SameStory
<1>2. ASSUME NEW a \in Amounts, NEW r \in Rates, NEW d \in Durations, UpdateInvoice(i, a, r, d)
      PROVE  Quiet
  <2> DEFINE w == [inv[i] EXCEPT !.amount = a, !.rate = r, !.due = now + d]
  <2>1. inv' = [inv EXCEPT ![i] = w] /\ funders' = funders
    BY <1>0, <1>2, Zenon DEF UpdateInvoice
  <2>2. SameStory(inv[i], w)
    BY <1>0, Zenon DEF SameStory, Invoice
  <2> HIDE DEF w
  <2> QED BY <1>1, <2>1, <2>2, Zenon
<1>3. ASSUME NEW s, s \notin {"Absent", "Paid"}, inv[i].status \notin {"Absent", "Paid"},
             NEW t, NEW b
      PROVE  /\ SameStory(inv[i], [inv[i] EXCEPT !.status = s])
             /\ SameStory(inv[i], [inv[i] EXCEPT !.status = s, !.disputedAt = t])
             /\ SameStory(inv[i], [inv[i] EXCEPT !.status = s, !.appealed = b])
  BY <1>0, <1>3, Zenon DEF SameStory, Invoice
<1>4. ASSUME ExpireInvoice(i) \/ CancelInvoice(i) PROVE Quiet
  <2>1. PICK s \in {"Expired", "Cancelled"} :
           inv' = [inv EXCEPT ![i] = [inv[i] EXCEPT !.status = s]] /\ funders' = funders
           /\ inv[i].status \in {"Pending", "PartiallyFunded"}
    BY <1>0, <1>4, Zenon DEF ExpireInvoice, CancelInvoice
  <2>2. SameStory(inv[i], [inv[i] EXCEPT !.status = s])
    BY <1>3, <2>1, Zenon
  <2> QED BY <1>1, <2>1, <2>2, Zenon
<1>5. ASSUME NEW lp \in LPs, ClaimDefault(i, lp) PROVE Quiet
  <2>1. inv' = [inv EXCEPT ![i] = [inv[i] EXCEPT !.status = "Defaulted"]]
        /\ funders' = funders /\ inv[i].status = "Funded"
    BY <1>5, Zenon DEF ClaimDefault
  <2>2. SameStory(inv[i], [inv[i] EXCEPT !.status = "Defaulted"])
    BY <1>3, <2>1, Zenon
  <2> QED BY <1>1, <2>1, <2>2, Zenon
<1>6. ASSUME AppealDefault(i) PROVE Quiet
  <2>1. inv' = [inv EXCEPT ![i] = [inv[i] EXCEPT !.status = "Appealed", !.appealed = TRUE]]
        /\ funders' = funders /\ inv[i].status = "Defaulted"
    BY <1>6, Zenon DEF AppealDefault
  <2>2. SameStory(inv[i], [inv[i] EXCEPT !.status = "Appealed", !.appealed = TRUE])
    BY <1>3, <2>1, Zenon
  <2> QED BY <1>1, <2>1, <2>2, Zenon
<1>7. ASSUME DisputeInvoice(i) PROVE Quiet
  <2>1. inv' = [inv EXCEPT ![i] = [inv[i] EXCEPT !.status = "Disputed", !.disputedAt = now]]
        /\ funders' = funders /\ inv[i].status \in {"Pending", "PartiallyFunded", "Funded"}
    BY <1>7, Zenon DEF DisputeInvoice
  <2>2. SameStory(inv[i], [inv[i] EXCEPT !.status = "Disputed", !.disputedAt = now])
    BY <1>3, <2>1, Zenon
  <2> QED BY <1>1, <2>1, <2>2, Zenon
<1>8. ASSUME ResolveAppeal(i) \/ UpholdDispute(i) \/ RejectDispute(i) \/ AutoResolveDispute(i)
      PROVE  Quiet
  <2>1. RestoredStatus(inv[i]) \in {"Funded", "PartiallyFunded", "Pending"}
    BY Zenon DEF RestoredStatus
  <2>2. \E s \in {"Defaulted", "Cancelled", RestoredStatus(inv[i])} :
           inv' = [inv EXCEPT ![i] = [inv[i] EXCEPT !.status = s]] /\ funders' = funders
           /\ inv[i].status \in {"Appealed", "Disputed"}
    BY <1>8, Zenon DEF ResolveAppeal, UpholdDispute, RejectDispute, AutoResolveDispute
  <2>3. PICK s : inv' = [inv EXCEPT ![i] = [inv[i] EXCEPT !.status = s]] /\ funders' = funders
           /\ inv[i].status \in {"Appealed", "Disputed"}
           /\ s \in {"Defaulted", "Cancelled", RestoredStatus(inv[i])}
    BY <2>2, Zenon
  <2>4. SameStory(inv[i], [inv[i] EXCEPT !.status = s])
    BY <1>3, <2>1, <2>3, Zenon
  <2> QED BY <1>1, <2>3, <2>4, Zenon
<1> QED
  BY <1>2, <1>4, <1>5, <1>6, <1>7, <1>8, Zenon DEF Unbooked

\* Counting one more invoice, or several.
LEMMA CountMore ==
  ASSUME NEW A \in SUBSET Invoices, NEW B \in SUBSET Invoices, A \cap B = {}
  PROVE  /\ Cardinality(A \cup B) = Cardinality(A) + Cardinality(B)
         /\ \A i \in Invoices : i \notin A => Cardinality(A \cup {i}) = Cardinality(A) + 1
<1>1. IsFiniteSet(Invoices)
  BY EscrowAssumption, FS_Interval DEF Invoices
<1>2. IsFiniteSet(A) /\ IsFiniteSet(B)
  BY <1>1, FS_Subset, Zenon
<1>3. Cardinality(A) \in Nat /\ Cardinality(B) \in Nat
  BY <1>2, FS_CardinalityType, Zenon
<1>4. Cardinality(A \cup B) = Cardinality(A) + Cardinality(B) - Cardinality(A \cap B)
  BY <1>2, FS_Union, Zenon
<1>5. Cardinality(A \cap B) = 0
  BY FS_EmptySet, Zenon
<1>6. \A i : Cardinality(A \cup {i}) = IF i \in A THEN Cardinality(A) ELSE Cardinality(A)+1
  BY <1>2, FS_AddElement, Zenon
<1> QED
  BY <1>3, <1>4, <1>5, <1>6

\* What an id without an invoice looks like, and a new invoice.
LEMMA NewStory ==
  ASSUME InvoicesOK, NEW i \in Invoices, inv[i].status = "Absent", NEW t \in Terms
  PROVE  /\ inv[i].funder = NoOne /\ inv[i].funded = 0
         /\ NewInvoice(t).status = "Pending" /\ NewInvoice(t).freelancer = t.freelancer
         /\ NewInvoice(t).funder = NoOne /\ NewInvoice(t).funded = 0
         /\ t.freelancer \in Accounts
<1>1. InvoiceOK(inv[i], funders[i])
  BY InvoiceFacts, Zenon
<1>2. inv[i].funder = NoOne /\ inv[i].funded = 0
  BY <1>1, Zenon DEF InvoiceOK
<1>3. t.freelancer \in Accounts
  BY EscrowAssumption, Zenon DEF Terms
<1> QED
  BY <1>2, <1>3, Zenon DEF NewInvoice, NoInvoice

\* A submission, alone or in a batch, is listed and counted.
LEMMA NewInvoicesBooked ==
  ASSUME InvoicesOK, BookOK, NEW D \in SUBSET Invoices, NEW ts \in [D -> Terms],
         \A i \in D : inv[i].status = "Absent",
         inv' = [i \in Invoices |-> IF i \in D THEN NewInvoice(ts[i]) ELSE inv[i]],
         UNCHANGED <<funders, funding, volume>>,
         totals' = [totals EXCEPT !.invoices = @ + Cardinality(D)],
         submitted' = [a \in Accounts |-> submitted'[a]],
         \A a \in Accounts :
            Lists1(submitted'[a], Invoices, SubmittedBy(a) \cup {i \in D : ts[i].freelancer = a})
  PROVE  BookOK'
<1>1. ASSUME NEW i \in D
      PROVE  /\ inv[i].funder = NoOne /\ inv[i].funded = 0 /\ inv[i].status = "Absent"
             /\ inv'[i].status = "Pending" /\ inv'[i].freelancer = ts[i].freelancer
             /\ inv'[i].funder = NoOne /\ inv'[i].funded = 0
  <2>1. ts[i] \in Terms /\ i \in Invoices /\ inv'[i] = NewInvoice(ts[i])
    BY Zenon
  <2> QED BY <2>1, NewStory, Zenon
<1>2. \A i \in Invoices : i \notin D => inv'[i] = inv[i]
  BY Zenon
<1>3. \A a \in Accounts : SubmittedBy(a)' = SubmittedBy(a) \cup {i \in D : ts[i].freelancer = a}
  <2> TAKE a \in Accounts
  <2>1. \A i \in Invoices : i \in SubmittedBy(a)' <=>
           i \in SubmittedBy(a) \cup {j \in D : ts[j].freelancer = a}
    BY <1>1, <1>2, Zenon DEF SubmittedBy
  <2>2. SubmittedBy(a)' \subseteq Invoices /\ SubmittedBy(a) \subseteq Invoices
    BY Zenon DEF SubmittedBy
  <2> QED BY <2>1, <2>2, Zenon
<1>4. SubmittedOK'
  BY <1>3, Zenon DEF SubmittedOK
<1>5. FundingOK'
  <2>1. \A a \in Accounts : FundedBy(a)' = FundedBy(a)
    BY Zenon DEF FundedBy
  <2> QED BY <2>1, Zenon DEF BookOK, FundingOK
<1>6. Known' = Known \cup D /\ Known \cap D = {}
  BY <1>1, <1>2, Zenon DEF Known
<1>7. Financed' = Financed /\ Settled' = Settled
  BY <1>1, <1>2, Zenon DEF Financed, Settled
<1>8. Cardinality(Known)' = Cardinality(Known) + Cardinality(D)
  <2>1. Known \in SUBSET Invoices
    BY Zenon DEF Known
  <2> QED BY <1>6, <2>1, CountMore, Zenon
<1>9. CountsOK'
  <2>1. totals = [invoices |-> Cardinality(Known), funded |-> Cardinality(Financed),
                  paid |-> Cardinality(Settled)]
    BY Zenon DEF BookOK, CountsOK
  <2>2. totals' = [invoices |-> Cardinality(Known) + Cardinality(D),
                   funded |-> Cardinality(Financed), paid |-> Cardinality(Settled)]
    BY <2>1, Zenon
  <2> QED BY <1>7, <1>8, <2>2, Zenon DEF CountsOK
<1>10. FundedAmounts' = FundedAmounts
  <2>1. \A i \in Invoices : inv'[i].funded = inv[i].funded
    BY <1>1, <1>2, Zenon
  <2> QED BY <2>1, Zenon DEF FundedAmounts
<1>11. VolumeOK'
  BY <1>10, Zenon DEF BookOK, VolumeOK
<1> QED
  BY <1>4, <1>5, <1>9, <1>11, Zenon DEF BookOK

\* submit_invoice.
LEMMA SubmitBooked ==
  ASSUME InvoicesOK, BookOK, NEW i \in Invoices, NEW t \in Terms, BookSubmit(i, t)
  PROVE  BookOK'
<1> DEFINE D == {i}
           ts == [k \in D |-> t]
<1>0. inv = [j \in Invoices |-> inv[j]] /\ submitted = [a \in Accounts |-> submitted[a]]
  BY Zenon DEF InvoicesOK, BookOK, SubmittedOK
<1>1. /\ inv[i].status = "Absent" /\ inv' = [inv EXCEPT ![i] = NewInvoice(t)]
      /\ funders' = funders
  <2>1. i \in 1..i
    BY EscrowAssumption DEF Invoices
  <2> QED BY <2>1, Zenon DEF BookSubmit, SubmitInvoice
<1>2. /\ submitted' = [submitted EXCEPT ![t.freelancer] = Append(@, i)]
      /\ totals' = [totals EXCEPT !.invoices = @ + 1]
      /\ UNCHANGED <<funding, volume>>
  BY Zenon DEF BookSubmit, add_invoice_to_submitter, increment_total
<1>3. t.freelancer \in Accounts
  BY <1>1, NewStory, Zenon
<1>4. Cardinality(D) = 1
  BY FS_Singleton, Zenon
<1>5. inv' = [k \in Invoices |-> IF k \in D THEN NewInvoice(ts[k]) ELSE inv[k]]
  BY <1>0, <1>1, Zenon
<1>6. D \in SUBSET Invoices /\ ts \in [D -> Terms] /\ \A k \in D : inv[k].status = "Absent"
  BY <1>1, Zenon
<1>7. ASSUME NEW a \in Accounts
      PROVE  Lists1(submitted'[a], Invoices,
                    SubmittedBy(a) \cup {k \in D : ts[k].freelancer = a})
  <2>1. Lists1(submitted[a], Invoices, SubmittedBy(a))
    BY Zenon DEF BookOK, SubmittedOK
  <2>2. CASE a = t.freelancer
    <3>1. submitted'[a] = Append(submitted[a], i)
      BY <1>0, <1>2, <2>2, Zenon
    <3>2. i \notin SubmittedBy(a)
      BY <1>1, Zenon DEF SubmittedBy
    <3>3. {k \in D : ts[k].freelancer = a} = {i}
      BY <2>2, Zenon
    <3>4. Lists1(Append(submitted[a], i), Invoices, SubmittedBy(a) \cup {i})
      BY <2>1, <3>2, AppendLists, Zenon
    <3> HIDE DEF D, ts
    <3> QED BY <3>1, <3>3, <3>4, Zenon
  <2>3. CASE a # t.freelancer
    <3>1. submitted'[a] = submitted[a]
      BY <1>0, <1>2, <2>3, Zenon
    <3>2. SubmittedBy(a) \cup {k \in D : ts[k].freelancer = a} = SubmittedBy(a)
      BY <2>3, Zenon
    <3> QED BY <2>1, <3>1, <3>2, Zenon
  <2> QED BY <2>2, <2>3, Zenon
<1>8. submitted' = [a \in Accounts |-> submitted'[a]]
  BY <1>0, <1>2, Zenon
<1>9. totals' = [totals EXCEPT !.invoices = @ + Cardinality(D)]
  BY <1>2, <1>4, Zenon
<1> HIDE DEF D, ts
<1> QED
  BY <1>1, <1>2, <1>5, <1>6, <1>7, <1>8, <1>9, NewInvoicesBooked, Zenon

\* submit_invoices_batch: one list of new ids for each freelancer.
LEMMA BatchBooked ==
  ASSUME InvoicesOK, BookOK, NEW D \in SUBSET Invoices, NEW ts \in [D -> Terms],
         BookSubmitBatch(ts)
  PROVE  BookOK'
<1>0. DOMAIN ts = D
  BY Zenon
<1>1. /\ inv' = [i \in Invoices |-> IF i \in D THEN NewInvoice(ts[i]) ELSE inv[i]]
      /\ funders' = funders
      /\ \A i \in D : \A k \in 1..i : inv[k].status = "Absent" <=> k \in D
  BY <1>0, Zenon DEF BookSubmitBatch, SubmitInvoicesBatch
<1>2. /\ submitted' = [a \in Accounts |->
                         submitted[a] \o Keep([i \in Invoices |-> i],
                                              {i \in D : ts[i].freelancer = a})]
      /\ totals' = [totals EXCEPT !.invoices = @ + Cardinality(D)]
      /\ UNCHANGED <<funding, volume>>
  BY <1>0, Zenon DEF BookSubmitBatch
<1>3. \A i \in D : inv[i].status = "Absent"
  <2>1. \A i \in D : i \in 1..i
    BY EscrowAssumption DEF Invoices
  <2> QED BY <1>1, <2>1, Zenon
<1>4. ASSUME NEW a \in Accounts
      PROVE  Lists1(submitted'[a], Invoices, SubmittedBy(a) \cup {i \in D : ts[i].freelancer = a})
  <2> DEFINE P == {i \in D : ts[i].freelancer = a}
             new == Keep([i \in Invoices |-> i], P)
  <2>1. Lists1(submitted[a], Invoices, SubmittedBy(a))
    BY Zenon DEF BookOK, SubmittedOK
  <2>2. P \in SUBSET Invoices /\ SubmittedBy(a) \cap P = {}
    BY <1>3, Zenon DEF SubmittedBy
  <2> HIDE DEF P
  <2>3. Lists1(new, Invoices, P)
    BY <2>2, EscrowAssumption, KeptIds, Zenon DEF Invoices
  <2>4. submitted'[a] = submitted[a] \o new
    BY <1>2, Zenon DEF P
  <2> HIDE DEF new
  <2>5. Lists1(submitted'[a], Invoices, SubmittedBy(a) \cup P)
    BY <2>1, <2>2, <2>3, <2>4, ConcatLists
  <2> QED BY <2>5, Zenon DEF P
<1>5. submitted' = [a \in Accounts |-> submitted'[a]]
  BY <1>2, Zenon
<1> QED
  BY <1>1, <1>2, <1>3, <1>4, <1>5, NewInvoicesBooked, Zenon

\* transfer_invoice moves an entry from one list to another, or to the end of
\* the same list.
LEMMA TransferBooked ==
  ASSUME InvoicesOK, BookOK, NEW i \in Invoices, NEW f \in Freelancers, BookTransfer(i, f)
  PROVE  BookOK'
<1> DEFINE o == inv[i].freelancer
           out == [submitted EXCEPT ![o] = Without(@, i)]
           w == [inv[i] EXCEPT !.freelancer = f]
<1>0. /\ inv = [j \in Invoices |-> inv[j]] /\ inv[i] \in Invoice
      /\ submitted = [a \in Accounts |-> submitted[a]]
      /\ \A a \in Accounts : Lists1(submitted[a], Invoices, SubmittedBy(a))
  BY InvoiceFacts, Zenon DEF InvoicesOK, BookOK, SubmittedOK
<1>1. /\ inv[i].status = "Pending" /\ inv' = [inv EXCEPT ![i] = w] /\ funders' = funders
      /\ submitted' = [out EXCEPT ![f] = Append(@, i)]
      /\ UNCHANGED <<funding, totals, volume>>
  BY <1>0, Zenon DEF BookTransfer, TransferInvoice, add_invoice_to_submitter,
              remove_invoice_from_submitter
<1>2. o \in Accounts /\ f \in Accounts
  <2>1. InvoiceOK(inv[i], funders[i])
    BY InvoiceFacts, Zenon
  <2> QED BY <1>1, <2>1, EscrowAssumption, Zenon DEF InvoiceOK
<1>3. /\ w.status = "Pending" /\ w.freelancer = f
      /\ w.funder = inv[i].funder /\ w.funded = inv[i].funded
  BY <1>0, <1>1, Zenon DEF Invoice
<1> HIDE DEF w
<1>4. \A k \in Invoices : inv'[k] = IF k = i THEN w ELSE inv[k]
  BY <1>0, <1>1, Zenon
<1>5. \A a \in Accounts :
         SubmittedBy(a)' = IF a = f THEN (SubmittedBy(a) \ {i}) \cup {i}
                           ELSE SubmittedBy(a) \ {i}
  BY <1>3, <1>4, Zenon DEF SubmittedBy
<1>6. /\ out = [a \in Accounts |-> out[a]]
      /\ \A a \in Accounts : Lists1(out[a], Invoices, SubmittedBy(a) \ {i})
  <2>1. out = [a \in Accounts |-> IF a = o THEN Without(submitted[a], i) ELSE submitted[a]]
    BY <1>0, <1>2, Zenon
  <2> HIDE DEF out
  <2>2. ASSUME NEW a \in Accounts PROVE Lists1(out[a], Invoices, SubmittedBy(a) \ {i})
    <3>1. CASE a = o
      BY <1>0, <2>1, <3>1, WithoutLists, Zenon
    <3>2. CASE a # o
      <4>1. SubmittedBy(a) \ {i} = SubmittedBy(a) /\ out[a] = submitted[a]
        BY <2>1, <3>2, Zenon DEF SubmittedBy
      <4> QED BY <1>0, <4>1, Zenon
    <3> HIDE DEF o
    <3> QED BY <3>1, <3>2, Zenon
  <2> QED BY <2>1, <2>2, Zenon
<1> HIDE DEF out, o
<1>7. submitted' = [a \in Accounts |-> IF a = f THEN Append(out[a], i) ELSE out[a]]
  BY <1>1, <1>2, <1>6, Zenon
<1>8. ASSUME NEW a \in Accounts PROVE Lists1(submitted'[a], Invoices, SubmittedBy(a)')
  <2>1. Lists1(out[a], Invoices, SubmittedBy(a) \ {i})
    BY <1>6, Zenon
  <2>2. CASE a = f
    <3>1. submitted'[a] = Append(out[a], i) /\ i \notin SubmittedBy(a) \ {i}
      BY <1>7, <2>2, Zenon
    <3>2. Lists1(submitted'[a], Invoices, (SubmittedBy(a) \ {i}) \cup {i})
      BY <2>1, <3>1, AppendLists
    <3> QED BY <1>5, <2>2, <3>2, Zenon
  <2>3. CASE a # f
    BY <1>5, <1>7, <2>1, <2>3, Zenon
  <2> QED BY <2>2, <2>3, Zenon
<1>9. SubmittedOK'
  BY <1>7, <1>8, Zenon DEF SubmittedOK
<1>10. /\ \A a \in Accounts : FundedBy(a)' = FundedBy(a)
       /\ Known' = Known /\ Financed' = Financed /\ Settled' = Settled
       /\ FundedAmounts' = FundedAmounts
  BY <1>1, <1>3, <1>4 DEF FundedBy, Known, Financed, Settled, FundedAmounts
<1>11. FundingOK' /\ CountsOK' /\ VolumeOK'
  BY <1>1, <1>10, Zenon DEF BookOK, FundingOK, CountsOK, VolumeOK
<1> QED
  BY <1>9, <1>11, Zenon DEF BookOK

\* Who is in a contributor list after a contribution.
LEMMA AddContributionNames ==
  ASSUME NEW fs \in Seq(Contribution), NEW lp \in Accounts, NEW amount \in Nat, NEW a
  PROVE  Contributes(AddContribution(fs, lp, amount), a) <=> Contributes(fs, a) \/ a = lp
<1> DEFINE gs == AddContribution(fs, lp, amount)
<1>1. Len(fs) \in Nat /\ \A j \in 1..Len(fs) : fs[j] \in Contribution
  BY SeqEntry, SeqIsFunction, Zenon
<1>2. Contributes(gs, lp)
  BY AddContributionSum, Zenon
<1>3. CASE Contributes(fs, lp)
  <2> DEFINE first == CHOOSE j \in 1..Len(fs) :
                        /\ fs[j].lp = lp
                        /\ \A k \in 1..(j-1) : fs[k].lp # lp
  <2>1. gs = [fs EXCEPT ![first].amt = @ + amount]
    BY <1>3, Zenon DEF AddContribution
  <2> HIDE DEF first
  <2>2. Len(gs) = Len(fs) /\ \A j \in 1..Len(fs) : gs[j].lp = fs[j].lp
    <3> DEFINE e == [fs[first] EXCEPT !.amt = @ + amount]
    <3>0. gs = [fs EXCEPT ![first] = e] /\ DOMAIN fs = 1..Len(fs)
      BY <2>1
    <3> HIDE DEF e, gs
    <3>1. gs = [j \in 1..Len(fs) |-> IF j = first THEN e ELSE fs[j]]
      BY <3>0, Zenon
    <3>2. Len(gs) = Len(fs)
      BY <1>1, <3>1
    <3> QED BY <1>1, <3>1, <3>2, Zenon DEF Contribution, e
  <2> HIDE DEF gs
  <2>3. Contributes(gs, a) <=> Contributes(fs, a)
    BY <2>2, Zenon DEF Contributes
  <2> QED BY <1>3, <2>3, Zenon DEF gs
<1>4. CASE ~ Contributes(fs, lp)
  <2> DEFINE e == [lp |-> lp, amt |-> amount]
  <2>1. gs = Append(fs, e) /\ e.lp = lp
    BY <1>4, Zenon DEF AddContribution
  <2> HIDE DEF e, gs
  <2>2. Len(gs) = Len(fs) + 1 /\ gs[Len(fs) + 1] = e /\ \A j \in 1..Len(fs) : gs[j] = fs[j]
    BY <1>1, <2>1
  <2>3. \A j : j \in 1..Len(gs) <=> j \in 1..Len(fs) \/ j = Len(fs) + 1
    BY <1>1, <2>2
  <2>4. Contributes(gs, a) <=> Contributes(fs, a) \/ a = lp
    BY <2>1, <2>2, <2>3, Zenon DEF Contributes
  <2> QED BY <2>4, Zenon DEF gs
<1> QED
  BY <1>3, <1>4, Zenon

\* fund_invoice lists the LP once, and counts the invoice when it is full.
LEMMA FundBooked ==
  ASSUME InvoicesOK, BookOK, NEW i \in Invoices, NEW lp \in LPs, NEW amount \in FundAmounts,
         BookFund(i, lp, amount)
  PROVE  BookOK'
<1> DEFINE v == inv[i]
           full == v.funded + amount = v.amount
           gs == AddContribution(funders[i], lp, amount)
           w == [v EXCEPT !.status = IF full THEN "Funded" ELSE "PartiallyFunded",
                          !.funded = v.funded + amount,
                          !.funder = IF full THEN lp ELSE @]
<1>0. /\ inv = [j \in Invoices |-> inv[j]] /\ funders = [j \in Invoices |-> funders[j]]
      /\ v \in Invoice /\ funders[i] \in Seq(Contribution) /\ InvoiceOK(v, funders[i])
      /\ funding = [a \in Accounts |-> funding[a]]
      /\ \A a \in Accounts : Lists1(funding[a], Invoices, FundedBy(a))
  BY InvoiceFacts, Zenon DEF InvoicesOK, BookOK, FundingOK
<1>1. /\ v.status \in {"Pending", "PartiallyFunded"}
      /\ inv' = [inv EXCEPT ![i] = w] /\ funders' = [funders EXCEPT ![i] = gs]
  BY Zenon DEF BookFund, FundInvoice
<1>2. /\ funding' = IF i \in Range(funding[lp]) THEN funding
                    ELSE [funding EXCEPT ![lp] = Append(@, i)]
      /\ totals' = IF inv'[i].status = "Funded" THEN [totals EXCEPT !.funded = @ + 1]
                   ELSE totals
      /\ volume' = volume + amount
      /\ submitted' = submitted
  BY Zenon DEF BookFund, add_invoice_to_lp, increment_total, add_volume
<1>3. lp \in Accounts /\ lp # NoOne /\ amount \in Nat
  BY EscrowAssumption DEF Accounts, NoOne
<1>4. v.funded < v.amount /\ v.funder = NoOne /\ v.funded \in Nat /\ v.amount \in Nat
  <2>1. v.funded \in Nat /\ v.amount \in Nat
    BY <1>0, Zenon DEF Invoice
  <2> QED BY <1>0, <1>1, <2>1 DEF InvoiceOK
<1>5. /\ w.status = IF full THEN "Funded" ELSE "PartiallyFunded"
      /\ w.funder = (IF full THEN lp ELSE NoOne)
      /\ w.funded = v.funded + amount /\ w.freelancer = v.freelancer
  BY <1>0, <1>4, Zenon DEF Invoice
<1>6. \A a \in Accounts : Contributes(gs, a) <=> Contributes(funders[i], a) \/ a = lp
  BY <1>0, <1>3, AddContributionNames, Zenon
<1> HIDE DEF w, full, gs, v
<1>7. /\ \A k \in Invoices : inv'[k] = IF k = i THEN w ELSE inv[k]
      /\ \A k \in Invoices : funders'[k] = IF k = i THEN gs ELSE funders[k]
  BY <1>0, <1>1, Zenon
<1>8. SubmittedOK'
  <2>1. \A a \in Accounts : SubmittedBy(a)' = SubmittedBy(a)
    BY <1>1, <1>5, <1>7, Zenon DEF SubmittedBy, v
  <2> QED BY <1>2, <2>1, Zenon DEF BookOK, SubmittedOK
<1>9. \A a \in Accounts : FundedBy(a)' = IF a = lp THEN FundedBy(a) \cup {i} ELSE FundedBy(a)
  BY <1>6, <1>7, Zenon DEF FundedBy
<1>10. FundingOK'
  <2>1. Range(funding[lp]) = FundedBy(lp)
    BY <1>0, <1>3, Zenon DEF Lists1
  <2>2. CASE i \in FundedBy(lp)
    <3>1. \A a \in Accounts : FundedBy(a)' = FundedBy(a)
      BY <1>9, <2>2, Zenon
    <3> QED BY <1>0, <1>2, <2>1, <2>2, <3>1, Zenon DEF FundingOK
  <2>3. CASE i \notin FundedBy(lp)
    <3>1. funding' = [a \in Accounts |-> IF a = lp THEN Append(funding[a], i) ELSE funding[a]]
      BY <1>0, <1>2, <1>3, <2>1, <2>3, Zenon
    <3>2. Lists1(Append(funding[lp], i), Invoices, FundedBy(lp) \cup {i})
      BY <1>0, <1>3, <2>3, AppendLists, Zenon
    <3> QED BY <1>0, <1>9, <3>1, <3>2, Zenon DEF FundingOK
  <2> QED BY <2>2, <2>3, Zenon
<1>11. Known' = Known /\ Settled' = Settled
  BY <1>1, <1>5, <1>7, Zenon DEF Known, Settled, v
<1>12. Financed' = (IF full THEN Financed \cup {i} ELSE Financed) /\ i \notin Financed
  BY <1>3, <1>4, <1>5, <1>7, Zenon DEF Financed, v
<1>13. CountsOK'
  <2>1. totals = [invoices |-> Cardinality(Known), funded |-> Cardinality(Financed),
                  paid |-> Cardinality(Settled)]
    BY Zenon DEF BookOK, CountsOK
  <2>2. inv'[i].status = "Funded" <=> full
    BY <1>5, <1>7, Zenon
  <2>3. CASE full
    <3>1. Cardinality(Financed)' = Cardinality(Financed) + 1
      <4>1. Financed \in SUBSET Invoices /\ {} \in SUBSET Invoices /\ Financed \cap {} = {}
        BY Zenon DEF Financed
      <4>2. \A k \in Invoices : k \notin Financed =>
               Cardinality(Financed \cup {k}) = Cardinality(Financed) + 1
        BY <4>1, CountMore, Zenon
      <4> QED BY <1>12, <2>3, <4>2, Zenon
    <3>2. totals' = [invoices |-> Cardinality(Known), funded |-> Cardinality(Financed) + 1,
                     paid |-> Cardinality(Settled)]
      BY <1>2, <2>1, <2>2, <2>3, Zenon
    <3> QED BY <1>11, <3>1, <3>2, Zenon DEF CountsOK
  <2>4. CASE ~ full
    BY <1>2, <1>11, <1>12, <2>1, <2>2, <2>4, Zenon DEF CountsOK
  <2> QED BY <2>3, <2>4, Zenon
<1>14. VolumeOK'
  <2>1. /\ \A k \in 1..NInvoices : FundedAmounts[k] \in Int
        /\ \A k \in 1..NInvoices : k # i => FundedAmounts'[k] = FundedAmounts[k]
        /\ FundedAmounts'[i] = FundedAmounts[i] + amount
    <3>1. \A k \in Invoices : inv[k].funded \in Nat
      BY InvoiceFacts, Zenon DEF Invoice
    <3> QED BY <1>5, <1>7, <3>1 DEF FundedAmounts, Invoices, v
  <2>2. NInvoices \in Nat /\ i \in 1..NInvoices /\ amount \in Int
    BY <1>3, EscrowAssumption DEF Invoices
  <2> DEFINE F == FundedAmounts
             G == FundedAmounts'
  <2> HIDE DEF F, G
  <2>3. SumTo(G, NInvoices) = SumTo(F, NInvoices) + amount
    BY <2>1, <2>2, SumToChange, Zenon DEF F, G
  <2> QED BY <1>2, <2>3, Zenon DEF BookOK, VolumeOK, F, G
<1> QED
  BY <1>8, <1>10, <1>13, <1>14, Zenon DEF BookOK

\* transfer_lp_position takes the invoice off one list and puts it on the other,
\* unless it is there already.
LEMMA TransferLpBooked ==
  ASSUME InvoicesOK, BookOK, NEW i \in Invoices, NEW lp \in LPs, BookTransferLp(i, lp)
  PROVE  BookOK'
<1> DEFINE v == inv[i]
           o == v.funder
           w == [v EXCEPT !.funder = lp]
           fs == funders[i]
           gs == [j \in 1..Len(fs) |->
                    IF fs[j].lp = o THEN [fs[j] EXCEPT !.lp = lp] ELSE fs[j]]
           out == [funding EXCEPT ![o] = Without(@, i)]
<1>0. /\ inv = [j \in Invoices |-> inv[j]] /\ funders = [j \in Invoices |-> funders[j]]
      /\ v \in Invoice /\ fs \in Seq(Contribution) /\ InvoiceOK(v, fs)
      /\ funding = [a \in Accounts |-> funding[a]]
      /\ \A a \in Accounts : Lists1(funding[a], Invoices, FundedBy(a))
  BY InvoiceFacts, Zenon DEF InvoicesOK, BookOK, FundingOK
<1>1. /\ v.status = "Funded" /\ o # NoOne /\ o # lp
      /\ inv' = [inv EXCEPT ![i] = w] /\ funders' = [funders EXCEPT ![i] = gs]
  BY Zenon DEF BookTransferLp, TransferLpPosition
<1>2. /\ funding' = IF i \in Range(out[lp]) THEN out ELSE [out EXCEPT ![lp] = Append(@, i)]
      /\ UNCHANGED <<submitted, totals, volume>>
  BY Zenon DEF BookTransferLp, add_invoice_to_lp, remove_invoice_from_lp
<1>3. o \in Accounts /\ lp \in Accounts /\ lp # NoOne /\ Contributes(fs, o)
  <2>1. o \in Accounts \cup {NoOne}
    BY <1>0, Zenon DEF Invoice
  <2>2. Contributes(fs, o)
    BY <1>0, <1>1, Zenon DEF InvoiceOK
  <2> QED BY <1>1, <2>1, <2>2, EscrowAssumption DEF Accounts, NoOne
<1>4. /\ w.status = v.status /\ w.freelancer = v.freelancer /\ w.funder = lp
      /\ w.funded = v.funded
  BY <1>0, Zenon DEF Invoice
<1>5. \A a \in Accounts : Contributes(gs, a) <=> (Contributes(fs, a) /\ a # o) \/ a = lp
  <2> HIDE DEF o, v, fs
  <2>1. fs \in Seq(Contribution) /\ o # lp /\ Contributes(fs, o)
    BY <1>0, <1>1, <1>3, Zenon
  <2>2. Len(fs) \in Nat /\ \A j \in 1..Len(fs) : fs[j] \in Contribution
    BY <2>1, SeqEntry, SeqIsFunction, Zenon
  <2>3. /\ Len(gs) = Len(fs)
        /\ \A j \in 1..Len(fs) : gs[j].lp = IF fs[j].lp = o THEN lp ELSE fs[j].lp
    BY <2>2 DEF Contribution
  <2> HIDE DEF gs
  <2>4. PICK h \in 1..Len(fs) : fs[h].lp = o
    BY <2>1, Zenon DEF Contributes
  <2>5. gs[h].lp = lp
    BY <2>3, <2>4, Zenon
  <2> QED BY <2>1, <2>3, <2>4, <2>5, Zenon DEF Contributes
<1> HIDE DEF w, gs, fs, v, o
<1>6. /\ \A k \in Invoices : inv'[k] = IF k = i THEN w ELSE inv[k]
      /\ \A k \in Invoices : funders'[k] = IF k = i THEN gs ELSE funders[k]
  BY <1>0, <1>1, Zenon
<1>7. SubmittedOK'
  <2>1. \A a \in Accounts : SubmittedBy(a)' = SubmittedBy(a)
    BY <1>4, <1>6, Zenon DEF SubmittedBy, v
  <2> QED BY <1>2, <2>1, Zenon DEF BookOK, SubmittedOK
<1>8. \A a \in Accounts :
         FundedBy(a)' = IF a = lp THEN FundedBy(a) \cup {i}
                        ELSE IF a = o THEN FundedBy(a) \ {i} ELSE FundedBy(a)
  BY <1>1, <1>5, <1>6, Zenon DEF FundedBy, fs
<1>9. FundingOK'
  <2>1. out = [a \in Accounts |-> IF a = o THEN Without(funding[a], i) ELSE funding[a]]
    BY <1>0, <1>3, Zenon
  <2> HIDE DEF out
  <2>2. Lists1(Without(funding[o], i), Invoices, FundedBy(o) \ {i})
    BY <1>0, <1>3, WithoutLists, Zenon
  <2>3. out[lp] = funding[lp] /\ Range(funding[lp]) = FundedBy(lp)
    BY <1>0, <1>1, <1>3, <2>1, Zenon DEF Lists1
  <2>4. CASE i \in FundedBy(lp)
    <3>1. funding' = out /\ FundedBy(lp) \cup {i} = FundedBy(lp)
      BY <1>2, <2>3, <2>4, Zenon
    <3> QED BY <1>0, <1>1, <1>8, <2>1, <2>2, <3>1, Zenon DEF FundingOK
  <2>5. CASE i \notin FundedBy(lp)
    <3>1. funding' = [a \in Accounts |-> IF a = lp THEN Append(funding[a], i) ELSE out[a]]
      BY <1>2, <1>3, <2>1, <2>3, <2>5, Zenon
    <3>2. Lists1(Append(funding[lp], i), Invoices, FundedBy(lp) \cup {i})
      BY <1>0, <1>3, <2>5, AppendLists, Zenon
    <3> QED BY <1>0, <1>1, <1>8, <2>1, <2>2, <3>1, <3>2, Zenon DEF FundingOK
  <2> QED BY <2>4, <2>5, Zenon
<1>10. /\ Known' = Known /\ Financed' = Financed /\ Settled' = Settled
       /\ FundedAmounts' = FundedAmounts
  BY <1>1, <1>3, <1>4, <1>6 DEF Known, Financed, Settled, FundedAmounts, v, o
<1>11. CountsOK' /\ VolumeOK'
  BY <1>2, <1>10, Zenon DEF BookOK, CountsOK, VolumeOK
<1> QED
  BY <1>7, <1>9, <1>11, Zenon DEF BookOK

\* mark_paid counts the invoice when the last part is paid.
LEMMA MarkPaidBooked ==
  ASSUME InvoicesOK, BookOK, NEW i \in Invoices, NEW amount \in PayAmounts,
         BookMarkPaid(i, amount)
  PROVE  BookOK'
<1> DEFINE v == inv[i]
           full == v.paid + amount = v.amount
           w == [v EXCEPT !.paid = @ + amount, !.status = IF full THEN "Paid" ELSE @]
<1>0. inv = [j \in Invoices |-> inv[j]] /\ v \in Invoice
  BY InvoiceFacts, Zenon DEF InvoicesOK
<1>1. v.status = "Funded" /\ inv' = [inv EXCEPT ![i] = w] /\ funders' = funders
  BY Zenon DEF BookMarkPaid, MarkPaid
<1>2. /\ totals' = IF inv'[i].status = "Paid" THEN [totals EXCEPT !.paid = @ + 1] ELSE totals
      /\ UNCHANGED <<submitted, funding, volume>>
  BY Zenon DEF BookMarkPaid, increment_total
<1>3. /\ w.status = (IF full THEN "Paid" ELSE "Funded") /\ w.freelancer = v.freelancer
      /\ w.funder = v.funder /\ w.funded = v.funded
  BY <1>0, <1>1, Zenon DEF Invoice
<1> HIDE DEF w, full, v
<1>4. \A k \in Invoices : inv'[k] = IF k = i THEN w ELSE inv[k]
  BY <1>0, <1>1, Zenon
<1>5. /\ \A a \in Accounts : SubmittedBy(a)' = SubmittedBy(a) /\ FundedBy(a)' = FundedBy(a)
      /\ Known' = Known /\ Financed' = Financed
      /\ FundedAmounts' = FundedAmounts
  BY <1>1, <1>3, <1>4 DEF SubmittedBy, FundedBy, Known, Financed, FundedAmounts, v
<1>6. Settled' = (IF full THEN Settled \cup {i} ELSE Settled) /\ i \notin Settled
  BY <1>1, <1>3, <1>4, Zenon DEF Settled, v
<1>7. SubmittedOK' /\ FundingOK' /\ VolumeOK'
  BY <1>2, <1>5, Zenon DEF BookOK, SubmittedOK, FundingOK, VolumeOK
<1>8. CountsOK'
  <2>1. totals = [invoices |-> Cardinality(Known), funded |-> Cardinality(Financed),
                  paid |-> Cardinality(Settled)]
    BY Zenon DEF BookOK, CountsOK
  <2>2. inv'[i].status = "Paid" <=> full
    BY <1>3, <1>4, Zenon
  <2>3. CASE full
    <3>1. Cardinality(Settled)' = Cardinality(Settled) + 1
      <4>1. Settled \in SUBSET Invoices /\ {} \in SUBSET Invoices /\ Settled \cap {} = {}
        BY Zenon DEF Settled
      <4>2. \A k \in Invoices : k \notin Settled =>
               Cardinality(Settled \cup {k}) = Cardinality(Settled) + 1
        BY <4>1, CountMore, Zenon
      <4> QED BY <1>6, <2>3, <4>2, Zenon
    <3>2. totals' = [invoices |-> Cardinality(Known), funded |-> Cardinality(Financed),
                     paid |-> Cardinality(Settled) + 1]
      BY <1>2, <2>1, <2>2, <2>3, Zenon
    <3> QED BY <1>5, <3>1, <3>2, Zenon DEF CountsOK
  <2>4. CASE ~ full
    BY <1>2, <1>5, <1>6, <2>1, <2>2, <2>4, Zenon DEF CountsOK
  <2> QED BY <2>3, <2>4, Zenon
<1> QED
  BY <1>7, <1>8, Zenon DEF BookOK

-----------------------------------------------------------------------------
(* The results.                                                             *)

\* The empty book of a contract without invoices.
LEMMA InitBook == Init /\ BookInit => BookInv
<1> SUFFICES ASSUME Init, BookInit PROVE BookInv
  BY Zenon
<1>1. IInv
  BY InitInvariant, Zenon
<1>2. \A i \in Invoices : /\ inv[i].status = "Absent" /\ inv[i].funder = NoOne
                          /\ inv[i].funded = 0 /\ funders[i] = << >>
  BY Zenon DEF Init, NoInvoice
<1>3. /\ Known = {} /\ Financed = {} /\ Settled = {}
      /\ \A a \in Accounts : SubmittedBy(a) = {} /\ FundedBy(a) = {}
  BY <1>2 DEF Known, Financed, Settled, SubmittedBy, FundedBy, Contributes
<1>4. Lists1(<< >>, Invoices, {})
  BY DEF Lists1, Range, IsInjective
<1>5. SubmittedOK /\ FundingOK
  BY <1>3, <1>4, Zenon DEF BookInit, SubmittedOK, FundingOK
<1>6. CountsOK
  BY <1>3, FS_EmptySet, Zenon DEF BookInit, CountsOK
<1>7. VolumeOK
  <2>1. \A k \in 1..NInvoices : FundedAmounts[k] = 0
    BY <1>2, Zenon DEF FundedAmounts, Invoices
  <2>2. SumTo(FundedAmounts, NInvoices) = 0
    BY <2>1, EscrowAssumption, SumOfZeros, Zenon
  <2> QED BY <2>2, Zenon DEF BookInit, VolumeOK
<1> QED
  BY <1>1, <1>5, <1>6, <1>7, Zenon DEF BookInv, BookOK

\* The book follows the invoices: every step of it is a step of the escrow.
LEMMA BookStepIsStep == BookNext => [Next]_vars
<1> SUFFICES ASSUME BookNext PROVE [Next]_vars
  BY Zenon
<1>1. ASSUME NEW i \in Invoices, Booked(i) PROVE InvoiceStep(i)
  BY <1>1, Zenon DEF Booked, BookSubmit, BookTransfer, BookFund, BookTransferLp, BookMarkPaid,
              InvoiceStep
<1>2. ASSUME NEW i \in Invoices, Unbooked(i) PROVE InvoiceStep(i)
  BY <1>2, Zenon DEF Unbooked, InvoiceStep
<1>3. ASSUME NEW S \in SUBSET Invoices, NEW ts \in [S -> Terms], BookSubmitBatch(ts)
      PROVE  SubmitInvoicesBatch(ts)
  BY <1>3, Zenon DEF BookSubmitBatch
<1>4. ASSUME NEW value \in VolumeCaps, SetTokenVolumeCap(value) PROVE UNCHANGED vars
  BY <1>4, Zenon DEF SetTokenVolumeCap
<1>5. ASSUME Surroundings PROVE Next
  BY <1>5, Zenon DEF Surroundings, Next
<1> QED
  BY <1>1, <1>2, <1>3, <1>4, <1>5, Zenon DEF BookNext, Next

\* Every step keeps the book right.
LEMMA BookNextKeeps == BookInv /\ [BookNext]_<<vars, bookVars>> => BookInv'
<1> SUFFICES ASSUME BookInv, [BookNext]_<<vars, bookVars>> PROVE BookInv'
  BY Zenon
<1>0. IInv /\ InvoicesOK /\ BookOK
  BY Zenon DEF BookInv, IInv
<1>1. IInv'
  <2>1. [Next]_vars
    BY BookStepIsStep, Zenon DEF bookVars
  <2> QED BY <1>0, <2>1, NextKeeps, Zenon
<1>2. ASSUME NEW i \in Invoices, Booked(i) PROVE BookOK'
  BY <1>0, <1>2, SubmitBooked, TransferBooked, FundBooked, TransferLpBooked, MarkPaidBooked, Zenon
     DEF Booked
<1>3. ASSUME NEW i \in Invoices, Unbooked(i), UNCHANGED bookVars PROVE BookOK'
  BY <1>0, <1>3, UnbookedQuiet, QuietKeeps, Zenon DEF bookVars
<1>4. ASSUME UNCHANGED <<inv, funders>>, UNCHANGED <<submitted, funding, totals, volume>>
      PROVE  BookOK'
  <2>1. Quiet
    BY <1>4, Zenon DEF Quiet, SameStory
  <2> QED BY <1>0, <1>4, <2>1, QuietKeeps, Zenon
<1>5. ASSUME Surroundings PROVE UNCHANGED <<inv, funders>>
  BY <1>5, Zenon DEF Surroundings, ClaimPendingPayout, UpdateFeeRate, Pause, Unpause, Freeze,
              Unfreeze, Tick
<1>6. ASSUME NEW value \in VolumeCaps, SetTokenVolumeCap(value) PROVE BookOK'
  BY <1>4, <1>6, Zenon DEF SetTokenVolumeCap, vars
<1>7. ASSUME Surroundings, UNCHANGED bookVars PROVE BookOK'
  BY <1>4, <1>5, <1>7, Zenon DEF bookVars
<1>8. ASSUME UNCHANGED <<vars, bookVars>> PROVE BookOK'
  BY <1>4, <1>8, Zenon DEF vars, bookVars
<1>9. ASSUME NEW S \in SUBSET Invoices, NEW ts \in [S -> Terms], BookSubmitBatch(ts)
      PROVE  BookOK'
  BY <1>0, <1>9, BatchBooked, Zenon
<1> QED
  BY <1>1, <1>2, <1>3, <1>6, <1>7, <1>8, <1>9, Zenon DEF BookNext, BookInv

\* The book is right in every reachable state.
LEMMA BookInvariant == BookSpec => []BookInv
<1> QED
  BY InitBook, BookNextKeeps, PTL DEF BookSpec

\* Writing the index, the statistics and the volume beside the invoices adds no
\* behaviour: all that is proved of the escrow holds of the whole contract.
THEOREM BookImplementsEscrow == BookSpec => Spec
<1>1. Init /\ BookInit => Init
  BY Zenon
<1>2. [BookNext]_<<vars, bookVars>> => [Next]_vars
  BY BookStepIsStep, Zenon DEF bookVars
<1> QED
  BY <1>1, <1>2, PTL DEF BookSpec, Spec

\* For any number of accounts and invoices and any page size, whoever reads page
\* after page finds exactly their invoices, each once.
THEOREM ListingsAlwaysComplete == BookSpec => []ListingsComplete
<1>1. BookInv => ListingsComplete
  <2> SUFFICES ASSUME BookInv, NEW a \in Accounts, NEW size \in PageSizes
               PROVE  /\ IsInjective(Walk(submitted[a], size))
                      /\ Range(Walk(submitted[a], size)) = SubmittedBy(a)
                      /\ IsInjective(Walk(funding[a], size))
                      /\ Range(Walk(funding[a], size)) = FundedBy(a)
    BY Zenon DEF ListingsComplete, SubmittedBy, FundedBy
  <2>1. /\ Lists1(submitted[a], Invoices, SubmittedBy(a))
        /\ Lists1(funding[a], Invoices, FundedBy(a))
    BY Zenon DEF BookInv, BookOK, SubmittedOK, FundingOK
  <2>2. size \in Nat \ {0}
    BY BookAssumption, Zenon
  <2>3. Walk(submitted[a], size) = submitted[a] /\ Walk(funding[a], size) = funding[a]
    BY <2>1, <2>2, WalkReadsAll, Zenon DEF Lists1
  <2> QED BY <2>1, <2>3, Zenon DEF Lists1
<1> QED
  BY <1>1, BookInvariant, PTL

\* The counters and the volume, which are only ever incremented, are those of the
\* stored invoices, whatever has happened to them.
THEOREM TotalsAlwaysAgree == BookSpec => []TotalsAgree
<1>1. BookInv => TotalsAgree
  <2> SUFFICES ASSUME BookInv PROVE TotalsAgree
    BY Zenon
  <2>1. /\ totals.invoices = Cardinality(Known) /\ totals.funded = Cardinality(Financed)
        /\ totals.paid = Cardinality(Settled)
    BY Zenon DEF BookInv, BookOK, CountsOK
  <2>2. volume = SumTo(FundedAmounts, NInvoices)
    BY Zenon DEF BookInv, BookOK, VolumeOK
  <2> QED BY <2>1, <2>2, Zenon DEF TotalsAgree, Known, Financed, Settled, FundedAmounts
<1> QED
  BY <1>1, BookInvariant, PTL

=============================================================================
