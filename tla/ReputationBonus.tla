--------------------------- MODULE ReputationBonus ---------------------------
(* The reputation_bonus contract: it keeps its own invoices and its own       *)
(* reputation, and grants a freelancer of high reputation a lower discount    *)
(* rate.  Other contracts only read it, through get_reputation.               *)
EXTENDS Integers, Sequences, FiniteSets

CONSTANTS
    Users,           \* accounts, in every role
    Full,            \* MAX_REPUTATION_SCORE, 100 in the code
    MaxBonus,        \* MAX_BONUS_BPS
    Configs,         \* configurations offered: threshold, bonus and floor
    BaseRates,       \* discount rates invoices are submitted with
    MaxBills         \* bound: the invoices submitted

ASSUME BonusAssumption ==
    /\ Full \in Nat
    /\ Configs \subseteq [threshold: Nat, bonus: Nat, floor: Nat]
    /\ BaseRates \subseteq Nat

NoUser == "none"
NoConfig == [threshold |-> 0, bonus |-> 0, floor |-> 0]

VARIABLES
    keeper,      \* ConfigKey::Admin, or NoUser
    config,      \* ConfigKey::Config, or NoConfig
    bills,       \* InvoiceCount and Invoice(id), by id
    standing     \* Reputation(user)

bonusVars == <<keeper, config, bills, standing>>

Unknown == [submitted |-> 0, paid |-> 0, defaulted |-> 0, score |-> 0]

-----------------------------------------------------------------------------

recalculate_score(r) ==
    LET divisor == IF r.submitted > 1 THEN r.submitted ELSE 1
        share   == (r.paid * Full) \div divisor
    IN  [r EXCEPT !.score = IF share < Full THEN share ELSE Full]

\* One more invoice of a kind for a user.
Count(s, user, kind) ==
    [s EXCEPT ![user] = recalculate_score([s[user] EXCEPT ![kind] = @ + 1])]

\* Mutant: both records are read before either is written.
CountBothAtOnce(s, first, second, kind) ==
    [s EXCEPT ![first] = recalculate_score([s[first] EXCEPT ![kind] = @ + 1]),
              ![second] = recalculate_score([s[second] EXCEPT ![kind] = @ + 1])]

\* The records are read and written one after the other: they may be the same.
CountBoth(s, first, second, kind) == Count(Count(s, first, kind), second, kind)

calculate_effective_rate(base, score) ==
    LET reduced == IF score >= config.threshold
                   THEN IF base > config.bonus THEN base - config.bonus ELSE 0
                   ELSE base
    IN  IF reduced > config.floor THEN reduced ELSE config.floor

-----------------------------------------------------------------------------

\* The contract may be initialized again.
BonusInitialize(user) ==
    /\ keeper' = user
    /\ UNCHANGED <<config, bills, standing>>

Valid(c) == c.threshold <= Full /\ c.bonus <= MaxBonus /\ c.floor # 0

SetConfig(c) ==
    /\ Valid(c)
    /\ config' = c
    /\ UNCHANGED <<keeper, bills, standing>>

\* The caller is the keeper, and a configuration is stored already.
UpdateConfig(c) ==
    /\ keeper # NoUser
    /\ config # NoConfig
    /\ SetConfig(c)

BonusSubmit(freelancer, payer, base) ==
    /\ config # NoConfig
    /\ Len(bills) < MaxBills
    /\ bills' = Append(bills, [freelancer |-> freelancer, payer |-> payer, base |-> base,
                               rate |-> calculate_effective_rate(base, standing[freelancer].score),
                               status |-> "Pending"])
    /\ standing' = CountBoth(standing, freelancer, payer, "submitted")
    /\ UNCHANGED <<keeper, config>>

\* No entry point ever makes an invoice Funded.
CloseInvoice(id, status, kind) ==
    /\ bills[id].status \in {"Pending", "Funded"}
    /\ bills' = [bills EXCEPT ![id].status = status]
    /\ standing' = CountBoth(standing, bills[id].payer, bills[id].freelancer, kind)
    /\ UNCHANGED <<keeper, config>>

BonusMarkPaid(id) == CloseInvoice(id, "Paid", "paid")

\* Anybody may report a default, at any time.
BonusHandleDefault(id) == CloseInvoice(id, "Defaulted", "defaulted")

BonusInit ==
    /\ keeper = NoUser
    /\ config = NoConfig
    /\ bills = << >>
    /\ standing = [user \in Users |-> Unknown]

BonusNext ==
    \/ \E user \in Users : BonusInitialize(user)
    \/ \E c \in Configs : SetConfig(c) \/ UpdateConfig(c)
    \/ \E freelancer, payer \in Users, base \in BaseRates : BonusSubmit(freelancer, payer, base)
    \/ \E id \in DOMAIN bills : BonusMarkPaid(id) \/ BonusHandleDefault(id)

BonusSpec == BonusInit /\ [][BonusNext]_bonusVars

-----------------------------------------------------------------------------

\* How often a user takes part in the invoices of some statuses; the freelancer
\* and the payer of an invoice may be the same.
Parts(user, statuses) ==
    LET of(role) == {id \in DOMAIN bills : bills[id].status \in statuses
                                             /\ bills[id][role] = user}
    IN  Cardinality(of("freelancer")) + Cardinality(of("payer"))

All == {"Pending", "Funded", "Paid", "Defaulted"}

\* Whenever invoices change, the stored reputation is again that of the invoices,
\* also for who invoices oneself; and a rate below the one asked for is granted only
\* to a freelancer who has then settled the required share of all invoices, and no
\* rate is below the floor (submit_invoice, mark_paid and handle_default of
\* reputation_bonus).
BonusEarned ==
    [][bills' # bills =>
         /\ \A user \in Users :
               /\ standing'[user].submitted = Parts(user, All)'
               /\ standing'[user].paid = Parts(user, {"Paid"})'
               /\ standing'[user].defaulted = Parts(user, {"Defaulted"})'
         /\ \A id \in DOMAIN bills' \ DOMAIN bills :
               LET b == bills'[id] IN
               /\ b.rate >= config.floor
               /\ b.rate < b.base =>
                     Parts(b.freelancer, {"Paid"}) * Full
                         >= config.threshold * Parts(b.freelancer, All)]_bonusVars
=============================================================================
