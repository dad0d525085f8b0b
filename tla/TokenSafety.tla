----------------------------- MODULE TokenSafety -----------------------------
(* Outbound payouts of the invoice contract (token_safety.rs).              *)
(*                                                                          *)
(* A ledger is a record                                                     *)
(*   balance   what token.balance(contract) answers                         *)
(*   pending   PendingPayout(recipient, token), 0 when there is no entry    *)
(*   total     PendingPayoutTotal(token), 0 when there is no entry          *)
(*   ok        FALSE once a payout has returned Err: the invocation then    *)
(*             fails as a whole and none of its writes is kept              *)
(* and "frozen" is the set of accounts whose trustline the token's issuer   *)
(* has deauthorized.  There is one ledger per token; no operation mixes     *)
(* two tokens.                                                              *)
EXTENDS Integers, Sequences

\* The balance that is not reserved for somebody else covers the amount.
ensure_spendable(L, amount, reserved) == L.balance - reserved >= amount

\* A transfer from an account to the contract.
transfer_in(L, amount) == [L EXCEPT !.balance = @ + amount]

\* Pay the caller, or a party that must not be paid while frozen.
transfer_out_strict(L, frozen, to, amount) ==
    IF amount <= 0
    THEN L
    ELSE [L EXCEPT !.balance = @ - amount,
                   !.ok = @ /\ ensure_spendable(L, amount, L.total)
                            /\ to \notin frozen]

\* Mutant: spends what is reserved for others.
pay_or_escrow_unreserved(L, frozen, to, amount) ==
    IF amount <= 0
    THEN L
    ELSE IF ~ ensure_spendable(L, amount, 0)
         THEN [L EXCEPT !.ok = FALSE]
         ELSE IF to \notin frozen
              THEN [L EXCEPT !.balance = @ - amount]
              ELSE [L EXCEPT !.pending[to] = @ + amount, !.total = @ + amount]

\* Pay a third party, or book the amount for them when they are frozen.
pay_or_escrow(L, frozen, to, amount) ==
    IF amount <= 0
    THEN L
    ELSE IF ~ ensure_spendable(L, amount, L.total)
         THEN [L EXCEPT !.ok = FALSE]
         ELSE IF to \notin frozen
              THEN [L EXCEPT !.balance = @ - amount]
              ELSE [L EXCEPT !.pending[to] = @ + amount, !.total = @ + amount]

\* The payout loops: pay_or_escrow for each [to, amt] of a sequence, in order.
pay_all(L, frozen, ps) ==
    LET paid[n \in 0..Len(ps)] ==
          IF n = 0 THEN L
                   ELSE pay_or_escrow(paid[n-1], frozen, ps[n].to, ps[n].amt)
    IN  paid[Len(ps)]

\* Mutant: counts the recipient's own escrow as reserved.
claim_pending_reserved(L, frozen, to) ==
    LET amount == L.pending[to]
    IN  [L EXCEPT !.balance = @ - amount,
                  !.pending[to] = 0,
                  !.total = @ - amount,
                  !.ok = @ /\ amount > 0
                           /\ to \notin frozen
                           /\ ensure_spendable(L, amount, L.total)]

\* Release what is booked for a recipient who is no longer frozen.  (set_pending
\* drops a total of 0; EscrowBacked shows that it is never negative.)
claim_pending(L, frozen, to) ==
    LET amount == L.pending[to]
    IN  [L EXCEPT !.balance = @ - amount,
                  !.pending[to] = 0,
                  !.total = @ - amount,
                  !.ok = @ /\ amount > 0
                           /\ to \notin frozen
                           /\ ensure_spendable(L, amount, L.total - amount)]
=============================================================================
