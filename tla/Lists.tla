-------------------------------- MODULE Lists --------------------------------
(* The loops that several contracts share: sums, walks, and filters.         *)
(* They are written as recursive functions so that the proofs can unfold     *)
(* them.                                                                     *)
EXTENDS Integers, Sequences

\* f[1] + ... + f[n].
SumTo(f, n) ==
    LET sum[k \in 0..n] == IF k = 0 THEN 0 ELSE sum[k-1] + f[k]
    IN  sum[n]

\* f applied n times to a.
Iterate(f, a, n) ==
    LET w[k \in 0..n] == IF k = 0 THEN a ELSE f[w[k-1]]
    IN  w[n]

\* The entries of s at the positions in P, in their order.
Keep(s, P) ==
    LET kept[n \in 0..Len(s)] ==
          IF n = 0 THEN << >>
          ELSE IF n \in P THEN Append(kept[n-1], s[n]) ELSE kept[n-1]
    IN  kept[Len(s)]

\* s without the entries equal to x.
Without(s, x) == Keep(s, {n \in 1..Len(s) : s[n] # x})
=============================================================================
