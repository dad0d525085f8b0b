---------------------------- MODULE ListTheorems -----------------------------
(* What SumTo, Keep and Iterate compute, and where walks along a graph end.  *)
(* Facts about a recursive function are proved by looking at the least       *)
(* number for which they fail.                                               *)
EXTENDS Lists, TLAPS, WellFoundedInduction

NatBelow == {p \in Nat \X Nat : p[1] < p[2]}

\* Every non-empty set of natural numbers has a least element.
LEMMA LeastNat ==
  ASSUME NEW T \in SUBSET Nat, T # {}
  PROVE  \E n \in T : \A m \in T : n <= m
<1>1. IsWellFoundedOn(NatBelow, Nat)
  BY NatLessThanWellFounded, Zenon DEF NatBelow, OpToRel
<1>2. PICK n \in T : \A m \in T : ~ (<<m, n>> \in NatBelow)
  BY <1>1, WFMin, Zenon
<1>3. \A m \in T : ~ (m < n)
  <2> TAKE m \in T
  <2>1. <<m, n>> \notin NatBelow
    BY <1>2, Zenon
  <2> QED
    BY <2>1, Zenon DEF NatBelow
<1>4. n \in Nat /\ \A m \in T : m \in Nat
  BY Zenon
<1> QED
  BY <1>3, <1>4

\* Induction over the natural numbers, with a set in place of a predicate.
LEMMA SetInduction ==
  ASSUME NEW T \in SUBSET Nat, 0 \in T, \A n \in T : n+1 \in T
  PROVE  \A n \in Nat : n \in T
<1>1. SUFFICES ASSUME Nat \ T # {} PROVE FALSE
  BY Zenon
<1>2. PICK m \in Nat \ T : \A j \in Nat \ T : m <= j
  <2>1. Nat \ T \in SUBSET Nat
    BY Zenon
  <2> QED
    BY <2>1, <1>1, LeastNat, Zenon
<1>3. m # 0 /\ m - 1 \in Nat /\ m - 1 < m /\ (m - 1) + 1 = m
  BY <1>2
<1>4. m - 1 \in T
  BY <1>2, <1>3
<1> QED
  BY <1>2, <1>3, <1>4, Zenon

IsSum(s, f, n) == s = [k \in 0..n |-> IF k = 0 THEN 0 ELSE s[k-1] + f[k]]

\* The function that SumTo chooses exists.
LEMMA SumExists ==
  ASSUME NEW f, NEW n \in Nat
  PROVE  \E s : IsSum(s, f, n)
<1> DEFINE Bad == {m \in Nat : ~ \E s : IsSum(s, f, m)}
<1>1. SUFFICES Bad = {}
  BY Zenon
<1>2. SUFFICES ASSUME Bad # {} PROVE FALSE
  BY Zenon
<1>3. PICK m \in Bad : \A j \in Bad : m <= j
  <2>1. Bad \in SUBSET Nat
    BY Zenon
  <2> QED
    BY <2>1, <1>2, LeastNat, Zenon
<1>4. m \in Nat /\ ~ \E s : IsSum(s, f, m)
  BY <1>3, Zenon
<1>5. CASE m = 0
  <2>1. IsSum([k \in 0..0 |-> 0], f, 0)
    BY DEF IsSum
  <2> QED
    BY <2>1, <1>4, <1>5, Zenon
<1>6. CASE m # 0
  <2>1. m - 1 \in Nat /\ m - 1 < m
    BY <1>4, <1>6
  <2>2. m - 1 \notin Bad
    BY <2>1, <1>3, <1>4
  <2>3. PICK s : IsSum(s, f, m-1)
    BY <2>1, <2>2, Zenon
  <2> DEFINE t == [k \in 0..m |-> IF k = m THEN s[m-1] + f[m] ELSE s[k]]
  <2>4. ASSUME NEW k \in 0..m
        PROVE  t[k] = IF k = 0 THEN 0 ELSE t[k-1] + f[k]
    <3>1. CASE k = m
      BY <3>1, <1>4, <1>6
    <3>2. CASE k # m
      <4>1. k \in 0..(m-1) /\ t[k] = s[k]
        BY <3>2, <1>4
      <4>2. s[k] = IF k = 0 THEN 0 ELSE s[k-1] + f[k]
        BY <4>1, <2>3, Zenon DEF IsSum
      <4>3. k # 0 => t[k-1] = s[k-1]
        BY <4>1, <1>4
      <4> QED
        BY <4>1, <4>2, <4>3, Zenon
    <3> QED
      BY <3>1, <3>2, Zenon
  <2>5. t = [k \in 0..m |-> IF k = 0 THEN 0 ELSE t[k-1] + f[k]]
    BY <2>4, Zenon
  <2>6. IsSum(t, f, m)
    BY <2>5, Zenon DEF IsSum
  <2> QED
    BY <2>6, <1>4, Zenon
<1> QED
  BY <1>5, <1>6, Zenon

\* Two such functions agree where both are defined.
LEMMA SumUnique ==
  ASSUME NEW f, NEW n \in Nat, NEW m \in Nat, NEW s, NEW t,
         IsSum(s, f, n), IsSum(t, f, m),
         NEW k \in Nat, k <= n, k <= m
  PROVE  s[k] = t[k]
<1> DEFINE Bad == {j \in Nat : j <= n /\ j <= m /\ s[j] # t[j]}
<1>1. SUFFICES ASSUME Bad # {} PROVE FALSE
  BY Zenon
<1>2. PICK j \in Bad : \A i \in Bad : j <= i
  <2>1. Bad \in SUBSET Nat
    BY Zenon
  <2> QED
    BY <2>1, <1>1, LeastNat, Zenon
<1>3. j \in 0..n /\ j \in 0..m /\ s[j] # t[j]
  BY <1>2
<1>4. s[j] = IF j = 0 THEN 0 ELSE s[j-1] + f[j]
  BY <1>3, Zenon DEF IsSum
<1>5. t[j] = IF j = 0 THEN 0 ELSE t[j-1] + f[j]
  BY <1>3, Zenon DEF IsSum
<1>6. j # 0
  BY <1>3, <1>4, <1>5, Zenon
<1>7. j - 1 \notin Bad
  BY <1>2, <1>3, <1>6
<1>8. s[j-1] = t[j-1]
  BY <1>7, <1>3, <1>6
<1> QED
  BY <1>3, <1>4, <1>5, <1>8, Zenon

\* SumTo satisfies the equations of a sum.
THEOREM SumToEquations ==
  ASSUME NEW f
  PROVE  /\ SumTo(f, 0) = 0
         /\ \A n \in Nat : SumTo(f, n+1) = SumTo(f, n) + f[n+1]
<1> DEFINE S(n) == CHOOSE s : IsSum(s, f, n)
<1>1. \A n \in Nat : IsSum(S(n), f, n)
  BY SumExists, Zenon
<1>2. \A n \in Nat : SumTo(f, n) = S(n)[n]
  BY Zenon DEF SumTo, IsSum
<1> HIDE DEF S
<1>3. SumTo(f, 0) = 0
  <2>1. SumTo(f, 0) = S(0)[0] /\ IsSum(S(0), f, 0)
    BY <1>1, <1>2, Zenon
  <2> QED
    BY <2>1 DEF IsSum
<1>4. ASSUME NEW n \in Nat
      PROVE  SumTo(f, n+1) = SumTo(f, n) + f[n+1]
  <2>1. IsSum(S(n), f, n) /\ IsSum(S(n+1), f, n+1)
    BY <1>1
  <2>2. S(n+1)[n+1] = S(n+1)[n] + f[n+1]
    <3>1. S(n+1) = [k \in 0..(n+1) |-> IF k = 0 THEN 0 ELSE S(n+1)[k-1] + f[k]]
      BY <2>1, Zenon DEF IsSum
    <3>2. n+1 \in 0..(n+1) /\ n+1 # 0 /\ (n+1)-1 = n
      OBVIOUS
    <3> QED
      BY <3>1, <3>2, Zenon
  <2>3. S(n+1)[n] = S(n)[n]
    BY <2>1, SumUnique
  <2> QED
    BY <2>2, <2>3, <1>2
<1> QED
  BY <1>3, <1>4, Zenon

\* A sum of integers is an integer, of naturals a natural.
LEMMA SumToType ==
  ASSUME NEW N \in Nat, NEW f, NEW V \in {Nat, Int},
         \A k \in 1..N : f[k] \in V
  PROVE  SumTo(f, N) \in V
<1> DEFINE T == {n \in Nat : n <= N => SumTo(f, n) \in V}
<1>1. 0 \in T
  BY SumToEquations
<1>2. ASSUME NEW n \in T PROVE n+1 \in T
  <2>1. CASE n+1 <= N
    <3>1. SumTo(f, n) \in V /\ f[n+1] \in V
      BY <2>1
    <3>2. SumTo(f, n+1) = SumTo(f, n) + f[n+1]
      BY SumToEquations, Zenon
    <3> QED
      BY <3>1, <3>2
  <2>2. CASE ~ (n+1 <= N)
    BY <2>2
  <2> QED
    BY <2>1, <2>2, Zenon
<1>3. \A n \in Nat : n \in T
  <2>1. T \in SUBSET Nat
    BY Zenon
  <2> HIDE DEF T
  <2> QED
    BY <2>1, <1>1, <1>2, SetInduction, Zenon
<1> QED
  BY <1>3

\* Zeros add up to zero.
LEMMA SumOfZeros ==
  ASSUME NEW N \in Nat, NEW f, \A k \in 1..N : f[k] = 0
  PROVE  SumTo(f, N) = 0
<1> DEFINE T == {n \in Nat : n <= N => SumTo(f, n) = 0}
<1>1. 0 \in T
  BY SumToEquations, Zenon
<1>2. ASSUME NEW n \in T PROVE n+1 \in T
  <2>1. CASE n+1 <= N
    <3>1. n+1 \in 1..N /\ n \in Nat /\ n <= N
      BY <2>1
    <3>2. SumTo(f, n) = 0 /\ f[n+1] = 0
      BY <3>1, Zenon
    <3>3. SumTo(f, n+1) = 0
      BY <3>1, <3>2, SumToEquations
    <3> QED BY <3>1, <3>3
  <2>2. CASE ~ (n+1 <= N)
    BY <2>2
  <2> QED BY <2>1, <2>2, Zenon
<1>3. T \in SUBSET Nat
  BY Zenon
<1> HIDE DEF T
<1>4. N \in T
  BY <1>1, <1>2, <1>3, SetInduction, Zenon
<1> QED BY <1>4 DEF T

\* Functions that agree on 1..N have the same sum.
LEMMA SumToEqual ==
  ASSUME NEW N \in Nat, NEW f, NEW g, \A k \in 1..N : f[k] = g[k]
  PROVE  SumTo(f, N) = SumTo(g, N)
<1> DEFINE T == {n \in Nat : n <= N => SumTo(f, n) = SumTo(g, n)}
<1>1. 0 \in T
  BY SumToEquations, Zenon
<1>2. ASSUME NEW n \in T PROVE n+1 \in T
  <2>1. SumTo(f, n+1) = SumTo(f, n) + f[n+1] /\ SumTo(g, n+1) = SumTo(g, n) + g[n+1]
    BY SumToEquations, Zenon
  <2> QED
    BY <2>1
<1>3. \A n \in Nat : n \in T
  <2>1. T \in SUBSET Nat
    BY Zenon
  <2> HIDE DEF T
  <2> QED
    BY <2>1, <1>1, <1>2, SetInduction, Zenon
<1> QED
  BY <1>3

\* Raising one term by d raises the sum by d.
LEMMA SumToChange ==
  ASSUME NEW N \in Nat, NEW f, NEW g, NEW a \in 1..N, NEW d \in Int,
         \A k \in 1..N : f[k] \in Int,
         \A k \in 1..N : k # a => g[k] = f[k],
         g[a] = f[a] + d
  PROVE  SumTo(g, N) = SumTo(f, N) + d
<1> DEFINE T == {n \in Nat : n <= N =>
                   SumTo(g, n) = SumTo(f, n) + (IF a <= n THEN d ELSE 0)}
<1>0. \A n \in Nat : n <= N => SumTo(f, n) \in Int
  BY SumToType
<1>1. 0 \in T
  BY SumToEquations
<1>2. ASSUME NEW n \in T PROVE n+1 \in T
  <2>1. SumTo(f, n+1) = SumTo(f, n) + f[n+1] /\ SumTo(g, n+1) = SumTo(g, n) + g[n+1]
    BY SumToEquations, Zenon
  <2>2. SUFFICES ASSUME n+1 <= N
                 PROVE  SumTo(g, n+1) = SumTo(f, n+1) + (IF a <= n+1 THEN d ELSE 0)
    OBVIOUS
  <2>3. SumTo(g, n) = SumTo(f, n) + (IF a <= n THEN d ELSE 0)
    BY <2>2
  <2>4. f[n+1] \in Int /\ SumTo(f, n) \in Int
    BY <1>0, <2>2
  <2>5. CASE a = n+1
    BY <2>1, <2>3, <2>4, <2>5
  <2>6. CASE a # n+1
    <3>1. g[n+1] = f[n+1]
      BY <2>6, <2>2
    <3> QED
      BY <2>1, <2>3, <2>4, <2>6, <3>1
  <2> QED
    BY <2>5, <2>6, Zenon
<1>3. \A n \in Nat : n \in T
  <2>1. T \in SUBSET Nat
    BY Zenon
  <2> HIDE DEF T
  <2> QED
    BY <2>1, <1>1, <1>2, SetInduction, Zenon
<1> QED
  BY <1>3

\* No term of a sum of naturals exceeds the sum.
LEMMA SumToTerm ==
  ASSUME NEW N \in Nat, NEW f, NEW a \in 1..N, \A k \in 1..N : f[k] \in Nat
  PROVE  f[a] <= SumTo(f, N)
<1> DEFINE g == [k \in 1..N |-> IF k = a THEN 0 ELSE f[k]]
<1>1. SumTo(g, N) \in Nat
  BY SumToType, Zenon
<1>2. /\ \A k \in 1..N : g[k] \in Int
      /\ \A k \in 1..N : k # a => f[k] = g[k]
      /\ f[a] = g[a] + f[a]
      /\ f[a] \in Int
  OBVIOUS
<1> HIDE DEF g
<1>3. SumTo(f, N) = SumTo(g, N) + f[a]
  BY <1>2, SumToChange, Zenon
<1> QED
  BY <1>1, <1>2, <1>3

-----------------------------------------------------------------------------

IsKept(t, s, P, n) ==
    t = [k \in 0..n |-> IF k = 0 THEN << >>
                        ELSE IF k \in P THEN Append(t[k-1], s[k]) ELSE t[k-1]]

\* The function that Keep chooses exists.
LEMMA KeptExists ==
  ASSUME NEW s, NEW P
  PROVE  \A n \in Nat : \E t : IsKept(t, s, P, n)
<1> DEFINE T == {n \in Nat : \E t : IsKept(t, s, P, n)}
<1>1. 0 \in T
  <2>1. IsKept([k \in 0..0 |-> << >>], s, P, 0)
    BY DEF IsKept
  <2> QED
    BY <2>1, Zenon
<1>2. ASSUME NEW n \in T PROVE n+1 \in T
  <2>1. PICK t : IsKept(t, s, P, n)
    BY Zenon
  <2>2. n \in Nat
    BY Zenon
  <2> DEFINE F(k, x) == IF k \in P THEN Append(x, s[k]) ELSE x
             u == [k \in 0..(n+1) |-> IF k = n+1 THEN F(n+1, t[n]) ELSE t[k]]
  <2>3. t = [k \in 0..n |-> IF k = 0 THEN << >> ELSE F(k, t[k-1])]
    BY <2>1, Zenon DEF IsKept
  <2> HIDE DEF F
  <2>4. ASSUME NEW k \in 0..(n+1)
        PROVE  u[k] = IF k = 0 THEN << >> ELSE F(k, u[k-1])
    <3>1. CASE k = n+1
      <4>1. u[k] = F(k, t[n]) /\ u[n] = t[n] /\ k - 1 = n /\ k # 0
        BY <3>1, <2>2
      <4> QED
        BY <4>1, Zenon
    <3>2. CASE k # n+1
      <4>1. k \in 0..n /\ u[k] = t[k]
        BY <3>2, <2>2
      <4>2. k # 0 => u[k-1] = t[k-1]
        BY <4>1, <2>2
      <4>3. t[k] = IF k = 0 THEN << >> ELSE F(k, t[k-1])
        BY <4>1, <2>3, Zenon
      <4> QED
        BY <4>1, <4>2, <4>3, Zenon
    <3> QED
      BY <3>1, <3>2, Zenon
  <2>5. u = [k \in 0..(n+1) |-> IF k = 0 THEN << >> ELSE F(k, u[k-1])]
    BY <2>4, Zenon
  <2>6. IsKept(u, s, P, n+1)
    BY <2>5, Zenon DEF IsKept, F
  <2> QED
    BY <2>2, <2>6
<1>3. \A n \in Nat : n \in T
  <2>1. T \in SUBSET Nat
    BY Zenon
  <2> HIDE DEF T
  <2> QED
    BY <2>1, <1>1, <1>2, SetInduction, Zenon
<1> QED
  BY <1>3, Zenon

\* r lists the entries of s at those positions up to n that are in P: pos says
\* where in s each entry of r stands.
Picks(r, pos, s, P, n) ==
    /\ pos \in [1..Len(r) -> {k \in 1..n : k \in P}]
    /\ \A i, j \in 1..Len(r) : i < j => pos[i] < pos[j]
    /\ \A k \in 1..n : k \in P => \E j \in 1..Len(r) : pos[j] = k
    /\ \A j \in 1..Len(r) : r[j] = s[pos[j]]
    /\ Len(r) <= n

\* Keep drops the other positions and nothing else, and keeps the order.
THEOREM KeepPicks ==
  ASSUME NEW S, NEW s \in Seq(S), NEW P
  PROVE  /\ Keep(s, P) \in Seq(S)
         /\ \E pos : Picks(Keep(s, P), pos, s, P, Len(s))
<1> DEFINE t == CHOOSE t : IsKept(t, s, P, Len(s))
           T == {n \in Nat : n <= Len(s) =>
                   t[n] \in Seq(S) /\ \E pos : Picks(t[n], pos, s, P, n)}
<1>1. IsKept(t, s, P, Len(s)) /\ Len(s) \in Nat
  BY KeptExists
<1>2. Keep(s, P) = t[Len(s)]
  BY Zenon DEF Keep, IsKept
<1> HIDE DEF t
<1>3. 0 \in T
  <2>1. t[0] = << >>
    BY <1>1 DEF IsKept
  <2>2. Picks(<< >>, [j \in 1..0 |-> 0], s, P, 0)
    BY DEF Picks
  <2>3. t[0] \in Seq(S) /\ \E pos : Picks(t[0], pos, s, P, 0)
    BY <2>1, <2>2
  <2> QED
    BY <2>3, Zenon
<1>4. ASSUME NEW n \in T PROVE n+1 \in T
  <2>1. SUFFICES ASSUME n+1 <= Len(s)
                 PROVE  t[n+1] \in Seq(S) /\ \E pos : Picks(t[n+1], pos, s, P, n+1)
    OBVIOUS
  <2>2. n \in Nat /\ n+1 \in 1..Len(s) /\ (n+1) - 1 = n /\ t[n] \in Seq(S) /\ s[n+1] \in S
    BY <1>1, <2>1
  <2>3. PICK pos : Picks(t[n], pos, s, P, n)
    BY <1>1, <2>1
  <2>4. t[n+1] = IF n+1 \in P THEN Append(t[n], s[n+1]) ELSE t[n]
    <3>1. t = [k \in 0..Len(s) |-> IF k = 0 THEN << >>
                                  ELSE IF k \in P THEN Append(t[k-1], s[k]) ELSE t[k-1]]
      BY <1>1, Zenon DEF IsKept
    <3>2. n+1 \in 0..Len(s) /\ n+1 # 0
      BY <1>1, <2>2
    <3> QED
      BY <2>2, <3>1, <3>2, Zenon
  <2>5. CASE n+1 \in P
    <3> DEFINE r == t[n]
               m == Len(r)
               u == Append(r, s[n+1])
               qos == [j \in 1..(m+1) |-> IF j = m+1 THEN n+1 ELSE pos[j]]
    <3>1. /\ u \in Seq(S) /\ Len(u) = m+1 /\ m \in Nat
          /\ \A j \in 1..m : u[j] = r[j]
          /\ u[m+1] = s[n+1]
      BY <2>2
    <3>2. /\ pos \in [1..m -> {k \in 1..n : k \in P}]
          /\ \A i, j \in 1..m : i < j => pos[i] < pos[j]
          /\ \A k \in 1..n : k \in P => \E j \in 1..m : pos[j] = k
          /\ \A j \in 1..m : r[j] = s[pos[j]]
          /\ m <= n
      BY <2>3, Zenon DEF Picks
    <3> HIDE DEF r, m, u
    <3>3. qos \in [1..(m+1) -> {k \in 1..(n+1) : k \in P}]
      BY <2>2, <2>5, <3>1, <3>2
    <3>4. \A i, j \in 1..(m+1) : i < j => qos[i] < qos[j]
      BY <2>2, <3>1, <3>2
    <3>5. ASSUME NEW k \in 1..(n+1), k \in P PROVE \E j \in 1..(m+1) : qos[j] = k
      <4>1. CASE k = n+1
        <5>1. m+1 \in 1..(m+1) /\ qos[m+1] = k
          BY <3>1, <4>1
        <5> QED BY <5>1, Zenon
      <4>2. CASE k # n+1
        <5>1. PICK j \in 1..m : pos[j] = k
          BY <2>2, <3>2, <3>5, <4>2
        <5>2. j \in 1..(m+1) /\ qos[j] = k
          BY <3>1, <5>1
        <5> QED BY <5>2, Zenon
      <4> QED BY <4>1, <4>2, Zenon
    <3>6. \A j \in 1..(m+1) : u[j] = s[qos[j]]
      BY <3>1, <3>2
    <3>7. Picks(u, qos, s, P, n+1)
      BY <2>2, <3>1, <3>2, <3>3, <3>4, <3>5, <3>6 DEF Picks
    <3> QED
      BY <2>4, <2>5, <3>1, <3>7, Zenon DEF u, r
  <2>6. CASE n+1 \notin P
    <3>1. {k \in 1..(n+1) : k \in P} = {k \in 1..n : k \in P}
      BY <2>2, <2>6
    <3>2. \A k \in 1..(n+1) : k \in P => k \in 1..n
      BY <2>2, <2>6
    <3>3. Len(t[n]) \in Nat /\ Len(t[n]) <= n
      BY <2>2, <2>3 DEF Picks
    <3>4. Len(t[n]) <= n+1
      BY <2>2, <3>3
    <3>5. Picks(t[n], pos, s, P, n+1)
      BY <2>3, <3>1, <3>2, <3>4, Zenon DEF Picks
    <3> QED
      BY <2>2, <2>4, <2>6, <3>5, Zenon
  <2> QED
    BY <2>5, <2>6, Zenon
<1>5. \A n \in Nat : n \in T
  <2>1. T \in SUBSET Nat
    BY Zenon
  <2> HIDE DEF T
  <2> QED
    BY <2>1, <1>3, <1>4, SetInduction, Zenon
<1> QED
  BY <1>1, <1>2, <1>5

\* Without drops x and nothing else, and repeats nothing that was not repeated.
THEOREM WithoutDrops ==
  ASSUME NEW S, NEW s \in Seq(S), NEW x
  PROVE  LET r == Without(s, x) IN
         /\ r \in Seq(S)
         /\ \A y : (\E j \in 1..Len(r) : r[j] = y) <=> (\E k \in 1..Len(s) : s[k] = y) /\ y # x
         /\ (\A i, j \in 1..Len(s) : s[i] = s[j] => i = j) =>
               (\A i, j \in 1..Len(r) : r[i] = r[j] => i = j)
<1> DEFINE P == {n \in 1..Len(s) : s[n] # x}
           r == Keep(s, P)
<1>1. Without(s, x) = r
  BY Zenon DEF Without
<1>2. r \in Seq(S) /\ \E pos : Picks(r, pos, s, P, Len(s))
  BY KeepPicks, Zenon
<1>3. PICK pos : Picks(r, pos, s, P, Len(s))
  BY <1>2, Zenon
<1>4. Len(r) \in Nat /\ Len(s) \in Nat
  BY <1>2
<1> HIDE DEF r
<1>5. /\ \A j \in 1..Len(r) : pos[j] \in 1..Len(s) /\ s[pos[j]] # x /\ r[j] = s[pos[j]]
      /\ \A k \in 1..Len(s) : s[k] # x => \E j \in 1..Len(r) : pos[j] = k
      /\ \A i, j \in 1..Len(r) : i < j => pos[i] < pos[j]
  BY <1>3, Zenon DEF Picks
<1>6. ASSUME NEW y
      PROVE  (\E j \in 1..Len(r) : r[j] = y) <=> (\E k \in 1..Len(s) : s[k] = y) /\ y # x
  <2>1. ASSUME NEW j \in 1..Len(r), r[j] = y
        PROVE  (\E k \in 1..Len(s) : s[k] = y) /\ y # x
    BY <1>5, <2>1, Zenon
  <2>2. ASSUME NEW k \in 1..Len(s), s[k] = y, y # x
        PROVE  \E j \in 1..Len(r) : r[j] = y
    <3>1. PICK j \in 1..Len(r) : pos[j] = k
      BY <1>5, <2>2, Zenon
    <3>2. r[j] = y
      BY <1>5, <2>2, <3>1, Zenon
    <3> QED
      BY <3>2, Zenon
  <2> QED
    BY <2>1, <2>2, Zenon
<1>7. ASSUME \A i, j \in 1..Len(s) : s[i] = s[j] => i = j,
             NEW i \in 1..Len(r), NEW j \in 1..Len(r), r[i] = r[j]
      PROVE  i = j
  <2>1. pos[i] = pos[j]
    BY <1>5, <1>7, ZenonT(60)
  <2> QED
    BY <1>4, <1>5, <2>1
<1> QED
  BY <1>1, <1>2, <1>6, <1>7, Zenon

IsIteration(w, f, a, n) == w = [k \in 0..n |-> IF k = 0 THEN a ELSE f[w[k-1]]]

\* The function that Iterate chooses exists.
LEMMA IterationExists ==
  ASSUME NEW f, NEW a, NEW n \in Nat
  PROVE  \E w : IsIteration(w, f, a, n)
<1> DEFINE T == {m \in Nat : \E w : IsIteration(w, f, a, m)}
<1>1. 0 \in T
  <2>1. IsIteration([k \in 0..0 |-> a], f, a, 0)
    BY DEF IsIteration
  <2> QED
    BY <2>1, Zenon
<1>2. ASSUME NEW m \in T PROVE m+1 \in T
  <2>1. PICK w : IsIteration(w, f, a, m)
    BY Zenon
  <2> DEFINE v == [k \in 0..(m+1) |-> IF k = m+1 THEN f[w[m]] ELSE w[k]]
  <2>2. ASSUME NEW k \in 0..(m+1)
        PROVE  v[k] = IF k = 0 THEN a ELSE f[v[k-1]]
    <3>1. CASE k = m+1
      BY <3>1
    <3>2. CASE k # m+1
      <4>1. k \in 0..m /\ v[k] = w[k]
        BY <3>2
      <4>2. w[k] = IF k = 0 THEN a ELSE f[w[k-1]]
        BY <4>1, <2>1, Zenon DEF IsIteration
      <4>3. k # 0 => v[k-1] = w[k-1]
        BY <4>1
      <4> QED
        BY <4>1, <4>2, <4>3, Zenon
    <3> QED
      BY <3>1, <3>2, Zenon
  <2>3. IsIteration(v, f, a, m+1)
    BY <2>2, Zenon DEF IsIteration
  <2> QED
    BY <2>3
<1>3. T \in SUBSET Nat
  BY Zenon
<1>4. n \in T
  <2> HIDE DEF T
  <2> QED
    BY <1>1, <1>2, <1>3, SetInduction, Zenon
<1> QED
  BY <1>4, Zenon

\* Two such functions agree where both are defined.
LEMMA IterationUnique ==
  ASSUME NEW f, NEW a, NEW n \in Nat, NEW m \in Nat, NEW v, NEW w,
         IsIteration(v, f, a, n), IsIteration(w, f, a, m),
         NEW k \in Nat, k <= n, k <= m
  PROVE  v[k] = w[k]
<1> DEFINE T == {j \in Nat : j <= n /\ j <= m => v[j] = w[j]}
<1>1. 0 \in T
  BY DEF IsIteration
<1>2. ASSUME NEW j \in T PROVE j+1 \in T
  <2> SUFFICES ASSUME j+1 <= n, j+1 <= m PROVE v[j+1] = w[j+1]
    OBVIOUS
  <2>1. v[j] = w[j] /\ j+1 \in 0..n /\ j+1 \in 0..m /\ j+1 # 0 /\ (j+1)-1 = j
    OBVIOUS
  <2>2. v[j+1] = f[v[j]] /\ w[j+1] = f[w[j]]
    BY <2>1 DEF IsIteration
  <2> QED
    BY <2>1, <2>2, Zenon
<1>3. T \in SUBSET Nat
  BY Zenon
<1>4. k \in T
  <2> HIDE DEF T
  <2> QED
    BY <1>1, <1>2, <1>3, SetInduction, Zenon
<1> QED
  BY <1>4, Zenon

\* Iterate satisfies the equations of an iteration.
THEOREM IterateEquations ==
  ASSUME NEW f, NEW a
  PROVE  /\ Iterate(f, a, 0) = a
         /\ \A n \in Nat : Iterate(f, a, n+1) = f[Iterate(f, a, n)]
<1> DEFINE W(n) == CHOOSE w : IsIteration(w, f, a, n)
<1>1. \A n \in Nat : IsIteration(W(n), f, a, n)
  BY IterationExists, Zenon
<1>2. \A n \in Nat : Iterate(f, a, n) = W(n)[n]
  BY Zenon DEF Iterate, IsIteration
<1> HIDE DEF W
<1>3. Iterate(f, a, 0) = a
  <2>1. Iterate(f, a, 0) = W(0)[0] /\ IsIteration(W(0), f, a, 0)
    BY <1>1, <1>2, Zenon
  <2> QED
    BY <2>1 DEF IsIteration
<1>4. ASSUME NEW n \in Nat
      PROVE  Iterate(f, a, n+1) = f[Iterate(f, a, n)]
  <2>1. IsIteration(W(n), f, a, n) /\ IsIteration(W(n+1), f, a, n+1)
    BY <1>1
  <2>2. W(n+1)[n+1] = f[W(n+1)[n]]
    <3>1. W(n+1) = [k \in 0..(n+1) |-> IF k = 0 THEN a ELSE f[W(n+1)[k-1]]]
      BY <2>1, Zenon DEF IsIteration
    <3>2. n+1 \in 0..(n+1) /\ n+1 # 0 /\ (n+1)-1 = n
      OBVIOUS
    <3> QED
      BY <3>1, <3>2, Zenon
  <2>3. W(n+1)[n] = W(n)[n]
    BY <2>1, IterationUnique
  <2> QED
    BY <2>2, <2>3, <1>2
<1> QED
  BY <1>3, <1>4, Zenon

\* An iteration stays in the set it starts in.
LEMMA IterateType ==
  ASSUME NEW S, NEW f \in [S -> S], NEW a \in S, NEW n \in Nat
  PROVE  Iterate(f, a, n) \in S
<1> DEFINE T == {m \in Nat : Iterate(f, a, m) \in S}
<1>1. 0 \in T
  BY IterateEquations, Zenon
<1>2. ASSUME NEW m \in T PROVE m+1 \in T
  <2>1. Iterate(f, a, m+1) = f[Iterate(f, a, m)]
    BY IterateEquations, Zenon
  <2> QED
    BY <2>1
<1>3. T \in SUBSET Nat
  BY Zenon
<1>4. n \in T
  <2> HIDE DEF T
  <2> QED
    BY <1>1, <1>2, <1>3, SetInduction, Zenon
<1> QED
  BY <1>4, Zenon

-----------------------------------------------------------------------------
(* Walks along a function from a set H to itself, that is along the edges of *)
(* a graph in which everybody points at one other or, at rest, at itself.    *)

\* The walk from a has come to rest after n steps.
AtRest(g, a, n) == g[Iterate(g, a, n)] = Iterate(g, a, n)

\* Every walk has come to rest after n steps.
RestIn(g, H, n) == \A v \in H : AtRest(g, v, n)

\* Who is n steps away from a, where r lists for each x who points at x.
Origins(r, H, a, n) == Iterate([S \in SUBSET H |-> UNION {r[x] : x \in S}], {a}, n)

\* g and h agree along the first n steps from a.
Alike(g, h, a, n) == \A k \in 0..(n-1) : h[Iterate(g, a, k)] = g[Iterate(g, a, k)]

\* Two functions that agree along a walk lead to the same place.
LEMMA WalksAgree ==
  ASSUME NEW g, NEW h, NEW a, NEW n \in Nat, Alike(g, h, a, n)
  PROVE  Iterate(h, a, n) = Iterate(g, a, n)
<1>a. \A m \in Nat : Iterate(g, a, m+1) = g[Iterate(g, a, m)]
  BY IterateEquations, Zenon
<1>b. \A m \in Nat : Iterate(h, a, m+1) = h[Iterate(h, a, m)]
  BY IterateEquations, Zenon
<1> DEFINE T == {m \in Nat : m <= n => Iterate(h, a, m) = Iterate(g, a, m)}
<1>1. 0 \in T
  BY IterateEquations, Zenon
<1>2. ASSUME NEW m \in T PROVE m+1 \in T
  <2> SUFFICES ASSUME m+1 <= n PROVE Iterate(h, a, m+1) = Iterate(g, a, m+1)
    OBVIOUS
  <2>1. m \in Nat /\ m \in 0..(n-1) /\ Iterate(h, a, m) = Iterate(g, a, m)
    OBVIOUS
  <2>2. Iterate(g, a, m+1) = g[Iterate(g, a, m)] /\ Iterate(h, a, m+1) = h[Iterate(h, a, m)]
    BY <2>1, <1>a, <1>b, Zenon
  <2> QED BY <2>1, <2>2, Zenon DEF Alike
<1>3. T \in SUBSET Nat
  BY Zenon
<1>4. n \in T
  <2> HIDE DEF T
  <2> QED BY <1>1, <1>2, <1>3, SetInduction, Zenon
<1> QED BY <1>4

\* A walk may be taken in two parts.
LEMMA WalkOn ==
  ASSUME NEW g, NEW a, NEW m \in Nat, NEW n \in Nat
  PROVE  Iterate(g, a, m + n) = Iterate(g, Iterate(g, a, m), n)
<1> DEFINE b == Iterate(g, a, m)
           T == {k \in Nat : Iterate(g, a, m + k) = Iterate(g, b, k)}
<1>1. 0 \in T
  BY IterateEquations
<1> HIDE DEF b
<1>2. ASSUME NEW k \in T PROVE k+1 \in T
  <2>1. k \in Nat /\ m + k \in Nat /\ m + (k+1) = (m + k) + 1
        /\ Iterate(g, a, m + k) = Iterate(g, b, k)
    OBVIOUS
  <2>2. Iterate(g, b, k+1) = g[Iterate(g, b, k)]
    BY <2>1, IterateEquations
  <2>3. Iterate(g, a, (m+k)+1) = g[Iterate(g, a, m+k)]
    BY <2>1, IterateEquations, ZenonT(60)
  <2> QED BY <2>1, <2>2, <2>3
<1>3. T \in SUBSET Nat
  BY Zenon
<1>4. n \in T
  <2> HIDE DEF T
  <2> QED BY <1>1, <1>2, <1>3, SetInduction, Zenon
<1> QED BY <1>4, Zenon DEF b

\* A walk at rest goes nowhere else.
LEMMA RestStays ==
  ASSUME NEW g, NEW a, NEW n \in Nat, AtRest(g, a, n), NEW m \in Nat, n <= m
  PROVE  Iterate(g, a, m) = Iterate(g, a, n) /\ AtRest(g, a, m)
<1> DEFINE T == {k \in Nat : n <= k => Iterate(g, a, k) = Iterate(g, a, n)}
<1>1. 0 \in T
  OBVIOUS
<1>2. ASSUME NEW k \in T PROVE k+1 \in T
  <2> SUFFICES ASSUME n <= k+1 PROVE Iterate(g, a, k+1) = Iterate(g, a, n)
    OBVIOUS
  <2>1. CASE n = k+1
    BY <2>1, Zenon
  <2>2. CASE n # k+1
    <3>1. k \in Nat /\ n <= k /\ Iterate(g, a, k) = Iterate(g, a, n)
      BY <2>2
    <3>2. Iterate(g, a, k+1) = g[Iterate(g, a, k)]
      BY <3>1, IterateEquations
    <3> QED BY <3>1, <3>2, Zenon DEF AtRest
  <2> QED BY <2>1, <2>2, Zenon
<1>3. T \in SUBSET Nat
  BY Zenon
<1>4. m \in T
  <2> HIDE DEF T
  <2> QED BY <1>1, <1>2, <1>3, SetInduction, Zenon
<1> QED BY <1>4, Zenon DEF AtRest

\* A walk that visits a visits it a first time.
LEMMA FirstVisit ==
  ASSUME NEW g, NEW v, NEW a, NEW k \in Nat, Iterate(g, v, k) = a
  PROVE  \E j \in 0..k : Iterate(g, v, j) = a /\ \A n \in 0..(j-1) : Iterate(g, v, n) # a
<1> DEFINE T == {j \in Nat : Iterate(g, v, j) = a}
<1>1. T \in SUBSET Nat /\ k \in T
  BY Zenon
<1>2. PICK j \in T : \A n \in T : j <= n
  BY <1>1, LeastNat, Zenon
<1>3. j \in 0..k /\ Iterate(g, v, j) = a
  BY <1>1, <1>2
<1>4. ASSUME NEW n \in 0..(j-1) PROVE Iterate(g, v, n) # a
  BY <1>2, <1>3
<1> QED BY <1>3, <1>4, Zenon

\* Both walks from v come to a after j steps, the one along g for the first time.
Meets(g, h, v, a, j) ==
    /\ Iterate(h, v, j) = a /\ Iterate(g, v, j) = a
    /\ \A n \in 0..(j-1) : Iterate(g, v, n) # a

\* The walk of M steps either never meets a and is the same along both, or it
\* meets a a first time and is the same up to there.
Compared(g, h, H, v, a, M) ==
    \/ Iterate(h, v, M) = Iterate(g, v, M) /\ Iterate(g, v, M) \in H \ {a}
    \/ \E j \in 0..M : Meets(g, h, v, a, j)

\* What one changed edge does to a walk.
LEMMA ChangedEdge ==
  ASSUME NEW H, NEW g \in [H -> H], NEW h \in [H -> H], NEW a \in H,
         \A x \in H : x # a => h[x] = g[x],
         NEW v \in H, NEW M \in Nat
  PROVE  Compared(g, h, H, v, a, M)
<1>1. \A n \in Nat : Iterate(g, v, n) \in H
  BY IterateType, Zenon
<1>2. CASE \A k \in 0..M : Iterate(g, v, k) # a
  <2>1. \A k \in 0..(M-1) : h[Iterate(g, v, k)] = g[Iterate(g, v, k)]
    BY <1>1, <1>2
  <2>2. Iterate(h, v, M) = Iterate(g, v, M)
    BY <2>1, WalksAgree DEF Alike
  <2> QED BY <1>1, <1>2, <2>2 DEF Compared
<1>3. CASE \E k \in 0..M : Iterate(g, v, k) = a
  <2>1. PICK k \in 0..M : Iterate(g, v, k) = a
    BY <1>3, Zenon
  <2>2. PICK j \in 0..k : Iterate(g, v, j) = a /\ \A n \in 0..(j-1) : Iterate(g, v, n) # a
    BY <2>1, FirstVisit
  <2>3. j \in Nat /\ j \in 0..M
    BY <2>1, <2>2
  <2>4. \A n \in 0..(j-1) : h[Iterate(g, v, n)] = g[Iterate(g, v, n)]
    BY <1>1, <2>2, <2>3
  <2>5. Iterate(h, v, j) = a
    BY <2>2, <2>3, <2>4, WalksAgree DEF Alike
  <2> QED BY <2>2, <2>3, <2>5, Zenon DEF Meets, Compared
<1> QED BY <1>2, <1>3, Zenon

\* Taking an edge away shortens walks.
LEMMA CutRests ==
  ASSUME NEW H, NEW g \in [H -> H], NEW M \in Nat, RestIn(g, H, M), NEW a \in H
  PROVE  RestIn([g EXCEPT ![a] = a], H, M)
<1> DEFINE h == [g EXCEPT ![a] = a]
<1>1. h \in [H -> H] /\ h[a] = a /\ \A x \in H : x # a => h[x] = g[x]
  BY Zenon
<1> HIDE DEF h
<1>2. ASSUME NEW v \in H PROVE AtRest(h, v, M)
  <2>1. CASE Iterate(h, v, M) = Iterate(g, v, M) /\ Iterate(g, v, M) \in H \ {a}
    BY <1>1, <2>1, Zenon DEF RestIn, AtRest
  <2>2. ASSUME NEW j \in 0..M, Meets(g, h, v, a, j) PROVE AtRest(h, v, M)
    <3>1. AtRest(h, v, j) /\ j \in Nat /\ j <= M
      BY <1>1, <2>2 DEF AtRest, Meets
    <3> QED BY <3>1, RestStays, Zenon
  <2>3. Compared(g, h, H, v, a, M)
    BY <1>1, ChangedEdge, Zenon
  <2> QED BY <2>1, <2>2, <2>3, Zenon DEF Compared
<1> QED BY <1>2, Zenon DEF RestIn, h

\* The listed origins, one list at a time.
LEMMA OriginsSteps ==
  ASSUME NEW H, NEW r \in [H -> SUBSET H], NEW a \in H, NEW n \in Nat
  PROVE  /\ Origins(r, H, a, 0) = {a} /\ Origins(r, H, a, n) \in SUBSET H
         /\ Origins(r, H, a, n+1) = UNION {r[x] : x \in Origins(r, H, a, n)}
<1> DEFINE f == [S \in SUBSET H |-> UNION {r[x] : x \in S}]
<1>1. f \in [SUBSET H -> SUBSET H] /\ {a} \in SUBSET H
  <2>1. ASSUME NEW S \in SUBSET H PROVE UNION {r[x] : x \in S} \in SUBSET H
    BY Zenon
  <2> QED BY <2>1, Zenon
<1>2. \A S \in SUBSET H : f[S] = UNION {r[x] : x \in S}
  BY Zenon
<1>3. \A m : Origins(r, H, a, m) = Iterate(f, {a}, m)
  BY Zenon DEF Origins
<1> HIDE DEF f
<1>4. Iterate(f, {a}, n) \in SUBSET H
  BY <1>1, IterateType, Zenon
<1>5. Iterate(f, {a}, 0) = {a} /\ Iterate(f, {a}, n+1) = f[Iterate(f, {a}, n)]
  BY IterateEquations, Zenon
<1> QED BY <1>2, <1>3, <1>4, <1>5, Zenon

\* Who walks j steps to a for the first time is among the origins of a j lists away.
LEMMA FoundBehind ==
  ASSUME NEW H, NEW g \in [H -> H], NEW r \in [H -> SUBSET H],
         \A x, y \in H : x \in r[y] <=> g[x] = y /\ x # y,
         NEW v \in H, NEW a \in H, NEW j \in Nat, Iterate(g, v, j) = a,
         \A n \in 0..(j-1) : Iterate(g, v, n) # a
  PROVE  v \in Origins(r, H, a, j)
<1> DEFINE T == {n \in Nat : n <= j => Iterate(g, v, j - n) \in Origins(r, H, a, n)}
<1>1. 0 \in T
  BY OriginsSteps
<1>2. ASSUME NEW n \in T PROVE n+1 \in T
  <2> SUFFICES ASSUME n+1 <= j PROVE Iterate(g, v, j - (n+1)) \in Origins(r, H, a, n+1)
    OBVIOUS
  <2> DEFINE k == j - (n+1)
             y == Iterate(g, v, k)
             x == Iterate(g, v, k+1)
  <2>1. k \in Nat /\ k + 1 \in Nat /\ k \in 0..(j-1) /\ k + 1 = j - n /\ n \in Nat /\ k <= j
    OBVIOUS
  <2> HIDE DEF k
  <2>2. x = g[y]
    BY <2>1, IterateEquations
  <2>3. y \in H /\ x \in H
    BY <2>1, IterateType, Zenon
  <2>4. x \in Origins(r, H, a, n)
    BY <2>1
  <2>5. y # x
    <3> SUFFICES ASSUME y = x PROVE FALSE
      BY Zenon
    <3>1. AtRest(g, v, k)
      BY <2>2, Zenon DEF AtRest
    <3>2. Iterate(g, v, j) = Iterate(g, v, k)
      BY <2>1, <3>1, RestStays
    <3> QED BY <2>1, <3>2, Zenon
  <2> HIDE DEF x, y
  <2>6. y \in r[x]
    BY <2>2, <2>3, <2>5, Zenon
  <2>7. y \in Origins(r, H, a, n+1)
    BY <2>1, <2>4, <2>6, OriginsSteps
  <2> QED BY <2>7, Zenon DEF y, k
<1>3. T \in SUBSET Nat
  BY Zenon
<1>4. j \in T
  <2> HIDE DEF T
  <2> QED BY <1>1, <1>2, <1>3, SetInduction, Zenon
<1>5. j - j = 0 /\ Iterate(g, v, 0) = v
  BY IterateEquations
<1> QED BY <1>4, <1>5

\* A new edge from a to b leaves all walks short if the longest way into a (of
\* up steps), the edge, and the way on from b (of down steps) are short enough
\* together, and that way does not lead back to a.
LEMMA LinkRests ==
  ASSUME NEW H, NEW g \in [H -> H], NEW M \in Nat, RestIn(g, H, M),
         NEW r \in [H -> SUBSET H], \A x, y \in H : x \in r[y] <=> g[x] = y /\ x # y,
         NEW a \in H, NEW b \in H,
         \A k \in 0..M : Iterate(g, b, k) # a,
         NEW up \in Nat, \A j \in 0..M : Origins(r, H, a, j) # {} => j <= up,
         NEW down \in Nat, AtRest(g, b, down),
         up + 1 + down <= M
  PROVE  RestIn([g EXCEPT ![a] = b], H, M)
<1> DEFINE h == [g EXCEPT ![a] = b]
<1>1. h \in [H -> H] /\ h[a] = b /\ \A x \in H : x # a => h[x] = g[x]
  OBVIOUS
<1> HIDE DEF h
<1>2. AtRest(h, b, down)
  <2>1. \A k \in 0..down : Iterate(g, b, k) \in H /\ Iterate(g, b, k) # a
    BY IterateType
  <2>2. Iterate(h, b, down) = Iterate(g, b, down)
    <3>1. \A k \in 0..(down-1) : h[Iterate(g, b, k)] = g[Iterate(g, b, k)]
      BY <1>1, <2>1
    <3> QED BY <3>1, WalksAgree DEF Alike
  <2> QED BY <1>1, <2>1, <2>2 DEF AtRest
<1>3. ASSUME NEW v \in H PROVE AtRest(h, v, M)
  <2>1. CASE Iterate(h, v, M) = Iterate(g, v, M) /\ Iterate(g, v, M) \in H \ {a}
    BY <1>1, <2>1 DEF RestIn, AtRest
  <2>2. ASSUME NEW j \in 0..M, Meets(g, h, v, a, j) PROVE AtRest(h, v, M)
    <3>1. v \in Origins(r, H, a, j)
      BY <2>2, FoundBehind DEF Meets
    <3>2. j \in Nat /\ j <= up
      BY <3>1
    <3>3. Iterate(h, v, j+1) = b
      <4>1. \A n \in Nat : Iterate(h, v, n+1) = h[Iterate(h, v, n)]
        BY IterateEquations, Zenon
      <4> QED BY <1>1, <2>2, <3>2, <4>1, Zenon DEF Meets
    <3>4. Iterate(h, v, (j+1) + down) = Iterate(h, b, down)
      BY <3>2, <3>3, WalkOn
    <3>5. AtRest(h, v, (j+1) + down)
      BY <1>2, <3>4, Zenon DEF AtRest
    <3>6. (j+1) + down \in Nat /\ (j+1) + down <= M
      BY <3>2
    <3> QED BY <3>5, <3>6, RestStays, Zenon
  <2>3. Compared(g, h, H, v, a, M)
    BY <1>1, ChangedEdge, Zenon
  <2> QED BY <2>1, <2>2, <2>3, Zenon DEF Compared
<1> QED BY <1>3, Zenon DEF RestIn, h

-----------------------------------------------------------------------------
(* Lists that get one more entry.                                            *)

\* s with e put at place p.
Inserted(s, p, e) == SubSeq(s, 1, p - 1) \o <<e>> \o SubSeq(s, p, Len(s))

\* What an insertion leaves where.
LEMMA InsertedPlaces ==
  ASSUME NEW S, NEW s \in Seq(S), NEW e \in S, NEW p \in 1..(Len(s) + 1)
  PROVE  /\ Inserted(s, p, e) \in Seq(S)
         /\ Len(Inserted(s, p, e)) = Len(s) + 1
         /\ \A k \in 1..(Len(s) + 1) :
               Inserted(s, p, e)[k] = IF k < p THEN s[k] ELSE IF k = p THEN e ELSE s[k-1]
<1> DEFINE a == SubSeq(s, 1, p-1)
           b == SubSeq(s, p, Len(s))
           n == Len(s)
           c == a \o <<e>>
           r == c \o b
<1>1. n \in Nat /\ p \in Int
  OBVIOUS
<1>2. a \in Seq(S) /\ Len(a) = p - 1 /\ \A k \in 1..(p-1) : a[k] = s[k]
  BY <1>1
<1>3. b \in Seq(S) /\ Len(b) = n + 1 - p /\ \A k \in 1..(n+1-p) : b[k] = s[p + k - 1]
  BY <1>1
<1> HIDE DEF a, b
<1>4. /\ c \in Seq(S) /\ Len(c) = p
      /\ \A k \in 1..p : c[k] = IF k < p THEN s[k] ELSE e
  BY <1>1, <1>2
<1> HIDE DEF c
<1>5. /\ r \in Seq(S) /\ Len(r) = n + 1
      /\ \A k \in 1..(n+1) : r[k] = IF k <= p THEN c[k] ELSE b[k - p]
  <2>1. r \in Seq(S) /\ Len(r) = Len(c) + Len(b)
    <3>1. c \in Seq(S) /\ b \in Seq(S)
      BY <1>3, <1>4, Zenon
    <3> QED BY <3>1
  <2>2. \A k \in 1..(Len(c) + Len(b)) : r[k] = IF k <= Len(c) THEN c[k] ELSE b[k - Len(c)]
    BY <1>3, <1>4
  <2>3. Len(c) + Len(b) = n + 1
    BY <1>1, <1>3, <1>4
  <2> QED BY <1>4, <2>1, <2>2, <2>3, Zenon
<1> HIDE DEF r
<1>6. ASSUME NEW k \in 1..(n+1)
      PROVE  r[k] = IF k < p THEN s[k] ELSE IF k = p THEN e ELSE s[k-1]
  <2>1. CASE k <= p
    BY <1>1, <1>4, <1>5, <2>1
  <2>2. CASE k > p
    <3>1. k - p \in 1..(n+1-p) /\ p + (k - p) - 1 = k - 1
      BY <1>1, <2>2
    <3>2. b[k - p] = s[k - 1]
      BY <1>3, <3>1, Zenon
    <3>3. r[k] = b[k - p] /\ ~ (k < p) /\ k # p
      BY <1>1, <1>5, <2>2
    <3> QED BY <3>2, <3>3, Zenon
  <2> QED BY <1>1, <2>1, <2>2
<1>7. Inserted(s, p, e) = r
  BY Zenon DEF Inserted, r, c, a, b
<1> QED BY <1>1, <1>5, <1>6, <1>7, Zenon

\* The only new entry of a list appended to is the appended one.
LEMMA AppendedEntry ==
  ASSUME NEW S, NEW s \in Seq(S), NEW e \in S, NEW t, t = Append(s, e)
  PROVE  t \in Seq(S) /\ \A k \in DOMAIN t \ DOMAIN s : t[k] = e
  OBVIOUS
-----------------------------------------------------------------------------
(* What sequences are, for proofs that look at single entries.               *)

\* A sequence is a function on the numbers up to its length.
LEMMA SeqIsFunction ==
  ASSUME NEW T, NEW s \in Seq(T)
  PROVE  /\ Len(s) \in Nat
         /\ s \in [1..Len(s) -> T]
         /\ DOMAIN s = 1..Len(s)
  OBVIOUS

\* Its entries are of its type.
LEMMA SeqEntry ==
  ASSUME NEW T, NEW s \in Seq(T), NEW k \in 1..Len(s)
  PROVE  s[k] \in T
  OBVIOUS

\* The empty sequence is one, of any type, and the only one without entries.
LEMMA SeqOfNothing ==
  ASSUME NEW T
  PROVE  /\ << >> \in Seq(T) /\ Len(<< >>) = 0
         /\ \A s \in Seq(T) : s # << >> => Len(s) \in Nat \ {0}
  OBVIOUS

\* Replacing an entry leaves the others and the length alone.
LEMMA SeqReplaced ==
  ASSUME NEW T, NEW s \in Seq(T), NEW i \in 1..Len(s), NEW e \in T
  PROVE  /\ [s EXCEPT ![i] = e] \in Seq(T)
         /\ Len([s EXCEPT ![i] = e]) = Len(s)
         /\ \A k \in 1..Len(s) : [s EXCEPT ![i] = e][k] = IF k = i THEN e ELSE s[k]
<1>1. Len(s) \in Nat /\ s \in [1..Len(s) -> T] /\ DOMAIN s = 1..Len(s)
  BY SeqIsFunction, Zenon
<1> DEFINE u == [s EXCEPT ![i] = e]
<1>2. /\ DOMAIN u = 1..Len(s) /\ u \in [1..Len(s) -> T]
      /\ \A k \in 1..Len(s) : u[k] = IF k = i THEN e ELSE s[k]
  BY <1>1, Zenon
<1> HIDE DEF u
<1>3. u \in Seq(T) /\ Len(u) = Len(s)
  BY <1>1, <1>2
<1> QED  BY <1>2, <1>3, Zenon DEF u

\* Sequences with the same entries are the same.
LEMMA SameSeq ==
  ASSUME NEW T, NEW s \in Seq(T), NEW t \in Seq(T),
         Len(s) = Len(t), \A k \in 1..Len(s) : s[k] = t[k]
  PROVE  s = t
  OBVIOUS
\* Appending adds an entry at the end.
LEMMA SeqAppended ==
  ASSUME NEW T, NEW s \in Seq(T), NEW e \in T
  PROVE  /\ Append(s, e) \in Seq(T) /\ Append(s, e) # << >>
         /\ Len(Append(s, e)) = Len(s) + 1
         /\ \A k \in 1..Len(s) : Append(s, e)[k] = s[k]
         /\ Append(s, e)[Len(s) + 1] = e
  OBVIOUS

\* Nothing is added at the end.
LEMMA SeqAndNothing ==
  ASSUME NEW T, NEW s \in Seq(T)
  PROVE  s \o << >> = s
<1>1. s \o << >> \in Seq(T) /\ Len(s \o << >>) = Len(s)
  OBVIOUS
<1>2. \A k \in 1..Len(s) : (s \o << >>)[k] = s[k]
  OBVIOUS
<1> QED  BY <1>1, <1>2, SameSeq, Zenon
=============================================================================
