----------------------------- MODULE MCMultisig ------------------------------
(* Multisig and Administration for model checking.  Every behaviour is of   *)
(* one of three parts.  "multisig": the signers alone, from the bootstrap.  *)
(* "log": the admin alone, with every entry point.  "tokens": the admin and *)
(* one signer edit the register of tokens.                                  *)
EXTENDS Administration, TLC

VARIABLE part

MCConfigs == {[signers |-> <<"a", "b", "c">>, threshold |-> 2]}

\* Every kind of action.
MCAll == {[kind |-> "Pause"],
          [kind |-> "RotateSigner", set |-> [old |-> "a", new |-> "d"]],
          [kind |-> "UpdateMultisig",
           set |-> [signers |-> <<"a", "d">>, threshold |-> 2]],
          [kind |-> "UpdateMultisig",
           set |-> [signers |-> <<"b", "c">>, threshold |-> 1]],
          [kind |-> "Unpause"],
          [kind |-> "RemoveToken", set |-> "eurc"],
          [kind |-> "SetFeeRate", set |-> 1],
          [kind |-> "SetMaxDiscount", set |-> 1]}

MCBootstrap == <<"usdc", "xlm", "eurc">>

MCReports == [t \in Tokens |-> 7]

MCDigits == [t \in Tokens |-> IF t = "xlm" THEN 7 ELSE 6]

\* Swapping the core tokens, a core token that was never added, and terms that
\* are refused.
MCWirings ==
    LET terms == [bonus |-> 500, minRate |-> 1, decay |-> 500, threshold |-> 100]
        core(u, x, e) == [usdc |-> u, xlm |-> x, eurc |-> e] @@ terms
    IN  {core("new", "xlm", "usdc"), core("usdc", "xlm", "eurc"),
         [core("usdc", "xlm", "new") EXCEPT !.minRate = 0]}

MCCooldown ==
    [f \in {"set_distribution_contract", "set_price_oracle", "set_max_oracle_age",
            "set_insurance_pool", "add_token", "remove_token", "correct_token_decimals"} |-> 1]
    @@ [f \in {"update_fee_rate", "update_max_discount", "update_fee_tiers", "update_config",
               "set_max_invoice_amount", "set_token_volume_cap", "set_admin", "upgrade"} |-> 2]

MCInit ==
    /\ AdminInit
    /\ admin = "x"
    /\ part \in {"multisig", "log", "tokens"}

\* Every entry point, with one choice of its arguments but for the new admin.
LogPart ==
    \/ \E a \in Admins : SetAdmin(a)
    \/ Routine
    \/ AddToken("new", 7) \/ CorrectTokenDecimals("usdc", 7) \/ RemoveToken("xlm")
    \/ Upgrade \/ Pause \/ Unpause \/ Migrate \/ RehearseRollback
    \/ Unrecorded

\* The signer decides alone on a proposal to remove a token.
SignerPart ==
    \/ Initialize([signers |-> <<"a">>, threshold |-> 1])
    \/ \E a \in Actions : /\ a.kind = "RemoveToken" /\ proposals = << >>
                          /\ Propose("a", a)
    \/ \E id \in Ids : ExecuteProposal("a", id)

TokensPart ==
    \/ TokenStep
    \/ Migrate
    \/ \E w \in Wirings : UpdateConfig(w)
    \/ SignerPart /\ UNCHANGED adminVars

MCNext ==
    /\ part' = part
    /\ \/ part = "multisig" /\ Next /\ UNCHANGED adminVars
       \/ part = "log" /\ LogPart
       \/ part = "tokens" /\ TokensPart
       \/ part # "multisig" /\ now < 2 /\ Tick /\ UNCHANGED adminVars

MCSpec == MCInit /\ [][MCNext]_<<allVars, part>>
=============================================================================
