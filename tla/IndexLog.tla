------------------------------ MODULE IndexLog -------------------------------
(* What event ingestion promises the readers of its database: below the      *)
(* checkpoint the log is complete, or the index is sealed. Completed ledgers *)
(* are only ever taken back from a ledger on, under the seal, and the seal   *)
(* is lifted only over a complete log.                                       *)
EXTENDS Naturals

CONSTANT None   \* the checkpoint of a log that has none; above every ledger

VARIABLES
    done,    \* ledgers whose transactions were processed
    mark,    \* the checkpoint
    origin,  \* the first checkpoint ever
    sealed   \* no new ledgers are taken

vars == <<done, mark, origin, sealed>>

CompleteUpTo(d, o, m) == m = None \/ o..m \subseteq d

Init == done = {} /\ mark = None /\ origin = None /\ sealed = FALSE

Put(l) ==
    /\ done' = done \cup {l}
    /\ UNCHANGED <<mark, origin, sealed>>

\* Open, the checkpoint moves only over a complete log; a sealed log may move
\* it back and forth.
Mark(l) ==
    /\ mark' = l
    /\ origin' = IF origin = None THEN l ELSE origin
    /\ sealed \/ CompleteUpTo(done, origin', l)
    /\ UNCHANGED <<done, sealed>>

Seal ==
    /\ sealed' = TRUE
    /\ UNCHANGED <<done, mark, origin>>

TakeBack(d) ==
    /\ done' = {l \in done : l < d}
    /\ sealed' = TRUE
    /\ UNCHANGED <<mark, origin>>

Unseal ==
    /\ sealed /\ CompleteUpTo(done, origin, mark)
    /\ sealed' = FALSE
    /\ UNCHANGED <<done, mark, origin>>

Next ==
    \/ Seal \/ Unseal
    \/ \E l \in 1..(None - 1) : Put(l) \/ Mark(l)
    \/ \E d \in 1..None : TakeBack(d)

Spec == Init /\ [][Next]_vars

=============================================================================
