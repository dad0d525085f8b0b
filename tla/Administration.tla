--------------------------- MODULE Administration ----------------------------
(* The single admin of the invoice contract, beside the multisig: the       *)
(* settings only the admin may change, the rate limit on each entry point,  *)
(* the bounded log of admin actions, and the register of tokens, which the  *)
(* admin and the signers of the multisig both edit.                         *)
(*                                                                          *)
(* A call that fails changes nothing, so neither its log entry nor its rate *)
(* limit record is stored.                                                  *)
EXTENDS Multisig, FiniteSetsExt

CONSTANTS
    Admins,        \* addresses the role may be given to
    Cooldown,      \* per rate-limited entry point, in ledgers
    LogCapacity,   \* ADMIN_ACTION_LOG_CAPACITY
    Reports,       \* what decimals() of a token answers
    Standard,      \* tokens with the SAC interface that take no transfer fee
    TokenDigits,   \* decimals initialize stores for the bootstrap tokens
    Wirings,       \* arguments of update_config
    MaxActions,    \* bound on the number of logged actions
    MaxUnlogged    \* bound on the number of the others

Never == -1

NoDigits == -1

MaxTokenDecimals == 18

CurrentVersion == 3

\* The entry points below that have a cooldown.
RateLimited ==
    {"set_admin", "update_fee_rate", "update_max_discount", "set_distribution_contract",
     "set_price_oracle", "set_max_oracle_age", "set_insurance_pool", "update_fee_tiers",
     "add_token", "remove_token", "correct_token_decimals", "upgrade", "update_config",
     "set_max_invoice_amount", "set_token_volume_cap"}

ASSUME AdminAssumption ==
    /\ Cooldown \in [RateLimited -> Nat]
    /\ LogCapacity \in Nat \ {0}
    /\ Bootstrap \in Seq(Tokens) /\ IsInjective(Bootstrap)
    /\ \A t \in Tokens : t \in Range(Bootstrap) => TokenDigits[t] \in Nat

VARIABLES
    admin,      \* Admin
    wired,      \* Config: the three core tokens and the numeric terms
    decimals,   \* TokenDecimals(token)
    version,    \* StorageVersion
    params,     \* settings that are stored and read elsewhere
    lastCall,   \* RateLimit(function)
    log,        \* AdminActionLog(slot)
    count,      \* AdminActionCount
    executed,   \* history: every logged action, oldest first
    unlogged    \* history: how many admin calls left no entry

register == <<admin, wired, decimals, version, params>>

adminVars == <<register, lastCall, log, count, executed, unlogged>>

allVars == <<vars, adminVars>>

multisigOnly == <<config, proposals, inFlight, rotation, now, scheduledAt>>

Stored == {"distribution", "pool", "oracle", "age", "tiers", "maxAmount", "volumeCap"}

Slots == 0..(LogCapacity - 1)

-----------------------------------------------------------------------------

\* The first call of a function always passes.
check_rate_limit(f) ==
    /\ lastCall[f] # Never => now >= lastCall[f] + Cooldown[f]
    /\ lastCall' = [lastCall EXCEPT ![f] = now]

record_admin_action(f) ==
    LET entry == [seq |-> count, action |-> f, admin |-> admin, ledger |-> now]
    IN  /\ Len(executed) < MaxActions
        /\ log' = [log EXCEPT ![count % LogCapacity] = entry]
        /\ count' = count + 1
        /\ executed' = Append(executed, entry)
        /\ UNCHANGED unlogged

\* Mutant: forgets that the buffer holds LogCapacity entries at most.
get_recent_uncapped(limit) ==
    [i \in 1..Min({limit, count}) |-> log[(count - i) % LogCapacity]]

\* Newest first.
get_recent_admin_actions(limit) ==
    [i \in 1..Min({limit, LogCapacity, count}) |-> log[(count - i) % LogCapacity]]

\* Mutant: a core token is accepted whatever its flag says.
is_approved_token_by_config(t) ==
    settings.approved[t] = "yes" \/ t \in {wired.usdc, wired.eurc, wired.xlm}

\* The flag decides; a token that never had one is accepted if it is a core token.
is_approved_token(t) ==
    IF settings.approved[t] # "unset" THEN settings.approved[t] = "yes"
    ELSE t \in {wired.usdc, wired.eurc, wired.xlm}

validate_token_decimals(t, d) == d <= MaxTokenDecimals /\ Reports[t] = d

-----------------------------------------------------------------------------
(* Calls that are both rate limited and logged.                             *)

Limited(f) == check_rate_limit(f) /\ record_admin_action(f)

\* The entry names the admin who hands over.
SetAdmin(a) ==
    /\ Limited("set_admin")
    /\ admin' = a
    /\ UNCHANGED <<multisigOnly, settings, wired, decimals, version, params>>

UpdateFeeRate(r) ==
    /\ Limited("update_fee_rate")
    /\ settings' = [settings EXCEPT !.feeRate = r]
    /\ UNCHANGED <<multisigOnly, register>>

UpdateMaxDiscount(r) ==
    /\ Limited("update_max_discount")
    /\ settings' = [settings EXCEPT !.maxDiscount = r]
    /\ UNCHANGED <<multisigOnly, register>>

\* The settings that are only stored.
Store(key, v) ==
    /\ params' = [params EXCEPT ![key] = v]
    /\ UNCHANGED <<multisigOnly, settings, admin, wired, decimals, version>>

SetDistributionContract(v) == Limited("set_distribution_contract") /\ Store("distribution", v)

SetPriceOracle(v) == Limited("set_price_oracle") /\ Store("oracle", v)

SetMaxOracleAge(v) == Limited("set_max_oracle_age") /\ Store("age", v)

SetInsurancePool(v) == Limited("set_insurance_pool") /\ Store("pool", v)

\* A list longer than MAX_FEE_TIERS is refused; v stands for one that is not.
UpdateFeeTiers(v) == Limited("update_fee_tiers") /\ Store("tiers", v)

\* The probe transfer comes back in the same call; a token already listed keeps
\* its place.
AddToken(t, d) ==
    /\ Limited("add_token")
    /\ validate_token_decimals(t, d)
    /\ t \in Standard
    /\ settings' = [settings EXCEPT !.approved[t] = "yes",
                                    !.list = IF t \in Range(@) THEN @ ELSE Append(@, t)]
    /\ decimals' = [decimals EXCEPT ![t] = d]
    /\ UNCHANGED <<multisigOnly, admin, wired, version, params>>

\* Any address may be named, a token never added among them.
RemoveToken(t) ==
    /\ Limited("remove_token")
    /\ remove_token(t)
    /\ UNCHANGED <<multisigOnly, register>>

CorrectTokenDecimals(t, d) ==
    /\ is_approved_token(t)
    /\ Limited("correct_token_decimals")
    /\ validate_token_decimals(t, d)
    /\ decimals' = [decimals EXCEPT ![t] = d]
    /\ UNCHANGED <<multisigOnly, settings, admin, wired, version, params>>

\* The new code keeps the storage; that the entries it looks at live long enough
\* is a matter of the network.
Upgrade ==
    /\ Limited("upgrade")
    /\ UNCHANGED <<multisigOnly, settings, register>>

-----------------------------------------------------------------------------
(* Calls that are logged and not rate limited.                              *)

Pause ==
    /\ record_admin_action("pause")
    /\ set_paused(TRUE)
    /\ UNCHANGED <<multisigOnly, register, lastCall>>

Unpause ==
    /\ record_admin_action("unpause")
    /\ set_paused(FALSE)
    /\ UNCHANGED <<multisigOnly, register, lastCall>>

\* Fills in decimals that are missing; only the first call has an effect.
Migrate ==
    /\ record_admin_action("migrate")
    /\ version' = Max({version, CurrentVersion})
    /\ decimals' = [t \in Tokens |->
           IF version >= CurrentVersion \/ decimals[t] # NoDigits THEN decimals[t]
           ELSE IF t \in {wired.usdc, wired.eurc} THEN 6
           ELSE IF t = wired.xlm THEN 7
           ELSE NoDigits]
    /\ UNCHANGED <<multisigOnly, settings, admin, wired, params, lastCall>>

\* Invoices are stored whole, so no half of one is ever found alone.
RehearseRollback ==
    /\ record_admin_action("rehearse_rollback")
    /\ UNCHANGED <<multisigOnly, settings, register, lastCall>>

-----------------------------------------------------------------------------
(* Calls that are rate limited and leave no entry in the log.               *)

Quiet(f) ==
    /\ unlogged < MaxUnlogged
    /\ unlogged' = unlogged + 1
    /\ check_rate_limit(f)
    /\ UNCHANGED <<log, count, executed>>

ValidTerms(w) ==
    /\ w.bonus <= 500
    /\ w.minRate \in 1..9999
    /\ w.decay <= 500
    /\ w.threshold <= 100

UpdateConfig(w) ==
    /\ Quiet("update_config")
    /\ ValidTerms(w)
    /\ wired' = w
    /\ UNCHANGED <<multisigOnly, settings, admin, decimals, version, params>>

SetMaxInvoiceAmount(v) == Quiet("set_max_invoice_amount") /\ Store("maxAmount", v)

SetTokenVolumeCap(v) == Quiet("set_token_volume_cap") /\ Store("volumeCap", v)

-----------------------------------------------------------------------------

AdminInit ==
    /\ Init
    /\ admin \in Admins
    /\ wired = [usdc |-> Bootstrap[1], xlm |-> Bootstrap[2], eurc |-> Bootstrap[3],
                bonus |-> 100, minRate |-> 100, decay |-> 50, threshold |-> 70]
    /\ decimals = [t \in Tokens |->
                     IF t \in Range(Bootstrap) THEN TokenDigits[t] ELSE NoDigits]
    /\ version = 1
    /\ params = [k \in Stored |-> "none"]
    /\ lastCall = [f \in DOMAIN Cooldown |-> Never]
    /\ log = [s \in Slots |-> [seq |-> Never]]
    /\ count = 0
    /\ executed = <<>>
    /\ unlogged = 0

Routine ==
    \/ UpdateFeeRate(1)
    \/ UpdateMaxDiscount(1)
    \/ SetDistributionContract("set")
    \/ SetPriceOracle("set")
    \/ SetMaxOracleAge("set")
    \/ SetInsurancePool("set")
    \/ UpdateFeeTiers("set")

TokenStep ==
    \E t \in Tokens :
        \/ RemoveToken(t)
        \/ \E d \in {6, 7} : AddToken(t, d) \/ CorrectTokenDecimals(t, d)

Unrecorded ==
    \/ \E w \in Wirings : UpdateConfig(w)
    \/ SetMaxInvoiceAmount("set")
    \/ SetTokenVolumeCap("set")

AdminStep ==
    \/ \E a \in Admins : SetAdmin(a)
    \/ Routine
    \/ TokenStep
    \/ Upgrade \/ Pause \/ Unpause \/ Migrate \/ RehearseRollback
    \/ Unrecorded

\* The multisig and the admin act on the same contract.
AdminNext == AdminStep \/ (Next /\ UNCHANGED adminVars)

\* The deployment script calls initialize once; the model starts after that call.
AdminSpec == AdminInit /\ [][AdminNext]_allVars

-----------------------------------------------------------------------------
(* Properties                                                               *)

Latest(n) == [i \in 1..n |-> executed[Len(executed) + 1 - i]]

\* get_recent_admin_actions returns the admin actions that were really executed,
\* the latest first, each with the admin who was in office then, however often the
\* ring buffer has wrapped and the role been handed over; and two calls of one
\* rate-limited entry point are its cooldown apart, whoever made them.
AuditTrail ==
    /\ \A limit \in 0..(LogCapacity + 1) :
          get_recent_admin_actions(limit) = Latest(Min({limit, LogCapacity, Len(executed)}))
    /\ \A i, j \in 1..Len(executed) :
          i < j /\ executed[i].action = executed[j].action
            /\ executed[i].action \in DOMAIN Cooldown =>
              executed[j].ledger >= executed[i].ledger + Cooldown[executed[i].action]

\* The list of tokens is the set of those flagged as approved, each once, and
\* every one of them has decimals on record: add_token, remove_token and the
\* RemoveToken action of the multisig keep the three entries together.  A token
\* that is accepted without a flag is a core token of the configuration.
RegisterConsistent ==
    /\ IsInjective(settings.list)
    /\ \A t \in Tokens :
          /\ settings.approved[t] = "yes" <=> t \in Range(settings.list)
          /\ settings.approved[t] = "yes" => decimals[t] # NoDigits
          /\ is_approved_token(t) /\ t \notin Range(settings.list) =>
               t \in {wired.usdc, wired.eurc, wired.xlm}

\* The register stays consistent, and a token the admin or the signers have
\* removed is accepted again only after add_token, even when update_config makes
\* it a core token (is_approved_token).
TokensInStep ==
    [][/\ RegisterConsistent'
       /\ \A t \in Tokens :
            settings.approved[t] = "no" /\ (is_approved_token(t))' =>
                executed' # executed /\ executed'[Len(executed')].action = "add_token"]_allVars
=============================================================================
