# Verification of the Invoice Liquidity Network

TLA+ models of the Soroban contracts under `src/contracts` and of event ingestion in
`src/indexer`, the TLC runs that check them on small instances, and TLAPS proofs.
`PROJECT.json` maps every definition to the lines it models and lists the runs, the
mutants that show each property can fail, the hazards and the theorems.

## The system

A freelancer submits an **invoice** to a payer. Liquidity providers (LPs) fund
it at a discount; when it is fully funded the contract pays the freelancer at
once. The payer settles it later, in parts or in one go, and the money goes to
the LPs in proportion, less a protocol fee. If the due date passes, a funder
claims a default; the payer may appeal. Until it ends, an invoice can be
disputed, and a dispute is decided by the admin or by a timeout.

| Part | Source | State | Interacts with |
|---|---|---|---|
| Invoice life cycle | `invoice_liquidity/src/lib.rs`, `invoice.rs` | invoice records, contributor lists, dispute and appeal records, pause flag, fee rate | token, NFT, queue, insurance, distribution, oracles |
| Indexes and statistics | `lib.rs`, `invoice.rs` | lists of invoices by freelancer and LP, totals, volume and its cap | written by the life cycle |
| Token custody | `token_safety.rs` | pending payouts per recipient and their total | the token's issuer, who freezes accounts and claws back |
| Claim NFT | `nft.rs` | owner of the NFT of an invoice | follows status and contributors |
| LP priority queue | `lib.rs`, `invoice.rs`, `constants.rs` | sorted requests, opening time, winner and when it won | LP scores; gate in `fund_invoice` |
| Threshold multisig | `multisig.rs` | signers and threshold, proposals, index of proposals in flight, pending rotation | admin settings, token register |
| Administration | `lib.rs`, `access.rs`, `config.rs` | admin, cooldowns, log of actions, token flags, list and decimals | multisig |
| Reputation, top payers | `invoice.rs`, `top_payers.rs` | scores, profiles, bounded heap | settlements, defaults, appeals |
| Oracle registry, prices | `oracle_registry.rs`, `twap.rs` | registrations, health, circuit breaker, sources, samples | gate in `fund_invoice` |
| Governance | `iln_governance/src/lib.rs` | proposals, ballots, deposits, veto state, delegations, checkpoints | calls the invoice, insurance and distribution contracts |
| Insurance pool | `insurance_pool/src/lib.rs` | two balances, breaker, premiums, claims, evidence, timelocked changes, counters | called by `claim_default` |
| Distribution | `iln_distribution/src/lib.rs` | volumes, settlement counts, claimed amounts, rates | called on funding and settlement |
| Reputation bonus | `reputation_bonus/src` | invoices of its own, reputations, configuration | asked for scores by the insurance pool |
| Indexer | `indexer/src/ingestion`, `reconciliation` | rows, cursor, stored headers, lease, halt latch | Horizon; several processes on one database |
| Notifications, SDK, CLI, frontend, scripts | `notifications`, `sdk`, ... | none that the others depend on | |

What makes it hard: many entry points, most of them open to several actors, act
on the same invoice in any order; all invoices of a token share one balance; a
token issuer can freeze any recipient in the middle of a payout loop; divisions
are floored one by one; settings change while proposals are in flight; one
contract calls another that may fail; several records (lists, totals, counters,
heap, NFT, reverse lists) repeat what another record says and must stay in step; and
ingestion runs in several processes that crash, while the chain they read may fork.

One fact shapes every model of a contract. A Soroban invocation that returns `Err` or
traps leaves no trace in storage. A failing call is therefore not a step, and the
guards of an action are the negated early returns of its entry point, wherever in
the function they stand. It also means that a status written just before an
`Err` is never stored, which the code forgets in `fund_invoice` (Expired),
`multisig.rs` (Expired) and `execute_proposal` (Rejected).

## Modules

| Module | Models |
|---|---|
| `Lists` | sums, walks and filters, as recursive functions so that proofs can unfold them |
| `TokenSafety` | `ensure_spendable`, `transfer_out_strict`, `pay_or_escrow`, payout loops, `claim_pending` as operators on a ledger record |
| `InvoiceEscrow`, `MCInvoiceEscrow` | the life cycle of invoices, with `TokenSafety` for every transfer, the NFT, disputes, appeals, and the issuer |
| `InvoiceBook`, `MCInvoiceBook` | the indexes, statistics and volume cap, on top of the steps of `InvoiceEscrow` |
| `FundQueue` | the priority queue of one invoice |
| `Multisig` | the threshold multisig |
| `Administration`, `MCMultisig` | the single admin beside the multisig: cooldowns, action log, token register, migration |
| `Reputation` | scores with lazy decay, profiles and the heap of top payers, as operators on a book |
| `Distribution` | the distribution contract |
| `Rewards`, `MCRewards` | the life cycle as reputation and distribution see it: composes `Reputation` and `Distribution` |
| `OracleRegistry` | the oracle gate of `fund_invoice`: resolution, health, circuit breaker, feeder quorum |
| `PriceFeed`, `MCOracleRegistry` | price sources, outlier rejection and TWAP, on top of the breaker of `OracleRegistry` |
| `Governance`, `MCGovernance` | proposals, deposits, timelock, veto |
| `Delegation`, `MCDelegation` | delegation graph, checkpoints and the weight of ballots |
| `InsurancePool` | the pool, its risk pricing, and the claims `claim_default` files with it |
| `ReputationBonus`, `MCInsurancePool` | the reputation bonus contract, checked beside the pool |
| `IndexLog` | what ingestion promises: a log that is complete below its checkpoint, or sealed |
| `Indexer`, `MCIndexer` | ingestion by several processes; implements `IndexLog` |
| `IndexerBackstop` | the same with the reconciliation job |
| `ListTheorems` | what the operators of `Lists` compute, the induction they need, and a few facts about sequences |
| `InvoiceEscrowProofs`, `SolvencyProofs` | proofs about `TokenSafety` and `InvoiceEscrow` |
| `BookProofs` | proofs about `InvoiceBook`, on top of those about `InvoiceEscrow` |
| `AdminQueueProofs` | proofs about `Multisig`, `Administration`, `FundQueue` and `Distribution` |
| `GovernanceIndexerProofs` | proofs about `Governance` and `Indexer` |
| `PoolVotingProofs` | proofs about `InsurancePool` and `Delegation` |
| `OracleBonusProofs` | proofs about `OracleRegistry`, `PriceFeed` and `ReputationBonus` |

A proof module holds several components where one of its own for each would only repeat the lemmas
about lists and finite sets; the components share no state there.

### InvoiceEscrow, TokenSafety and InvoiceBook

`inv[i]` is the stored invoice together with its dispute and appeal records,
`funders[i]` the contributor list, `nft[i]` the owner of the NFT, `ledger` the
balance, the pending payouts and their stored total. Every entry point that
touches an invoice is an action with the name of the function. The operators of
`TokenSafety` take a ledger and return one; the field `ok` becomes FALSE where the
code would return an error, and the action requires it to be TRUE in the end: that
is the rollback. `Freeze`, `Unfreeze`, `Clawback` and `Donate` are what the issuer
and other holders can do to the balance (external).

Abstractions: one token, since the accounting of different tokens never meets; one
clock for ledger sequence and timestamp; payers and LPs have enough in their
wallets; the effective fee rate is a variable that changes at will among `FeeRates`.
The gates of `fund_invoice` are each in the module of what they ask: the volume cap in
`InvoiceBook`, the minimum reputation in `Rewards`, the queue in `FundQueue`, the oracle in
`OracleRegistry`. `InvoiceEscrow` itself leaves them out and so allows more behaviours.
`convert_invoice_token` needs a second token and its price and is not modelled.

`InvoiceBook` conjoins each step with what the same call writes to `submitted`, `funding`,
`totals` and `volume`. The separate counters for USDC, EURC and XLM and the conversion to
dollars in `get_contract_stats` are left out.

### FundQueue

One invoice, reduced to what the queue looks at, and the LPs with their scores. Ties
are broken by ledger randomness in the code and by any tied LP in the model.
`resolve_fund_queue` uses the name `tied_count`, which is not defined anywhere in
the function; its evident meaning, the number of tied entries, is modelled.

### Multisig and Administration

Signer lists are sequences, as stored: duplicates matter. Executed settings
are a small record. `Administration` adds the admin's own entry points to the same state,
each with its cooldown and, where the code writes one, its entry in the ring buffer `log`;
`executed` is the history the log is compared with. The token register is edited by both
sides. Settings that are only stored have one abstract value. The log entries of
`resolve_appeal` and `resolve_dispute` are left out, and so is the TTL check before an upgrade;
`update_decay_params` and `set_min_payer_reputation` are in `Rewards`. The model assumes that
the deployment calls `initialize` once.

### Reputation, Distribution and Rewards

A `book` holds the score records, profiles, heap and LP scores. Its operators return the book
after the call, since one invocation chains several of them; a read that writes the decayed
score back is an operator like the others. `given` is history: each score as it was last
assigned. `Distribution` keeps the accruals, the rates and what was claimed; `minted` is the
token contract (external) and `peak` history. `Rewards` has the steps of an invoice that touch either: a
payment is the one that completes the amount, disputes, pauses and money are in
`InvoiceEscrow`. The distribution contract is taken to be linked; a batch submission is a
sequence of submissions; the saturation of 128-bit sums is out of reach.

### OracleRegistry and PriceFeed

The Identity feed and one token. `chain` holds the oracle registered at each of the three
levels of `resolve_oracle`; `health`, `tripped` and `recovery` are the three storage entries of
the circuit breaker; `feeders` and `quorum` configure the multi-feeder mode. An oracle may
answer anything, also a timestamp in the future, and a feeder may fail to answer. A rejected
funding rolls back the snapshot it recorded, so only a funding that passes is a step, while
the diagnostic `check_oracle_verification` and the monitor call `check_oracle_health` commit
theirs. `seen`, `served` and `gate` are history: what an oracle really answered, how many
fundings in a row passed on one answer, and on what grounds the last step let a funding pass.
`PriceFeed` adds the sources with arbitrary quotes (also negative and none), the samples and
the two ways of reading a price; `read` is history.

Counters saturate at the threshold they are compared with. The cooldown between
administrative calls is left out, which allows more behaviours.
`maybe_recover_oracle_circuit` passes `token.clone()` to `is_oracle_circuit_tripped`
(`oracle_registry.rs:564`), which takes a reference; the evident meaning is modelled.

### Governance and Delegation

`Governance` lets a ballot have any positive weight; `Delegation` says how the
weight comes about, for one proposal. Together they cover `cast_vote`. Deposits
cannot fail to be paid (a frozen proposer is not modelled), and the balance a
proposer must hold is left out. A target contract may fail and recover
(`CalleeFails`, `CalleeRecovers`), except for the kinds in `Unanswered`: their call names a
function the target does not have, so it fails for good (see below). In `Delegation` the limit
on chains, `max_depth`, is a setting that moves both ways; `peak` is history, its greatest value.

### InsurancePool and ReputationBonus

`claim_default` reports an invoice once and goes on when the claim fails
(`try_claim`), for whatever reason; hence `ClaimDefaultPaid` and
`ClaimDefaultUnpaid`. All administrative calls need the one stored admin, and the
invoice contract has no code for them: once it is the admin they cease. Premium rates, the
collusion flag and the estimate of claims are operators on the counters. The discount by
score is modelled with the score the code decodes, which is always 0 (see below);
`RiskFollowsReports` does not rest on that, it asks a rate to follow the reports alone only where
no reputation contract is set.
`ReputationBonus` is the contract the pool would ask; it keeps invoices of its own.

### IndexLog, Indexer and IndexerBackstop

`chain` is the canonical chain by branch; `rows`, `headers`, `cursor`, `halted` and `pending`
are the database; `lease` is the leader lease with its age; `proc[p]` is one process between two
awaits, so that every await is a point of interleaving. A record is verified, its rows are
written and the cursor follows; a header that contradicts a stored one leads to the halt, the
search for the fork point, rollback and replay. Faults (crashes, broken streams, unreadable
headers and pages, failed writes, missed heartbeats) are bounded by `MaxFaults`.

The age of the lease is `valid`, `expired` (past `expiresAt`, within the grace a late heartbeat
has) or `lapsed`. `Stall` holds a running writer up past either, with or without a standby; the
standby may then take the lease (`tryAcquire`), and the late writer goes on until its next
heartbeat finds the lease gone, exactly as `ingestionLock.ts` has it.

The rest is history: `failed` the ledgers whose transaction could not be processed, `origin` the
first checkpoint, `late` the running writers that have not renewed in time, `overlap` that two
writers have run at once, `blind` that a recovery met a header it could not read.

`Indexer` implements `IndexLog`: `Log == INSTANCE IndexLog WITH None <- Now, mark <- cursor,
sealed <- halted \/ overlap \/ blind`, with `done` the ledgers that have rows or were given up.
So the log is promised while the writers take turns and the chain can be read during a recovery,
which is what `docs/indexer-reorg-handling.md:34` asks for. A replayed page is found by its ledger
number (external). `IndexerBackstop` adds the reconciliation job, which borrows the lease and never
renews it.

## Runs

| Run | Question | Instance | States |
|---|---|---|---|
| `escrow` | Do records, contributor list, NFT, escrow and status stay consistent under every order of calls, freezes and clawbacks, and can one invoice spend what is held for another? | part one: an invoice of 3 units, 2 LPs, 2 freezable recipients, changing fee, clock 0 to 3; part two: two invoices of 2 units that share the balance, either of them disputed | 1.7 M |
| `escrow_live` | Do disputes end and escrowed payouts get released? Do indexes, pages and totals follow? | part one: an invoice with time to run out; part two: two invoices that change hands under a volume cap | 32 k |
| `queue` | Is the queue consistent and fair, and is every lock lifted? | 3 LPs, queue of 2, due at 4 | 1.0 M |
| `multisig` | Do thresholds, uniqueness and rotation timelock hold? Is the action log true after it wrapped, and the token register consistent? | 3 signers and a newcomer, all 8 actions, 2 proposals; 2 admins, log of 2 entries, 4 tokens | 2.6 M |
| `governance` | Do deposits, timelock, veto and retries work together, and is a passed proposal executed? | 2 proposals, one of them perhaps of a kind no target answers, 3 veto signers, 2 changes of settings | 0.7 M |
| `delegation` | Is the graph acyclic, bounded and in sync under a limit that moves, and does only held weight count? | 5 voters for the graph, limits of 1, 2 and 3; 2 voters for ballots | 1.0 M |
| `insurance` | Do balances, claims, counters, breaker, timelock and prices hold? Is a bonus earned? | 2 LPs, 2 payers, 2 invoices, 3 administrative changes; 2 users and 3 invoices of the bonus contract | 0.6 M |
| `oracle` | Does the breaker move only on evidence, is a frozen oracle stopped, does the gate never fail open, and are prices what sources and samples say? | 2 oracles at 3 levels, 2 feeders; 5 sources with 5 quotes; 3 samples | 1.2 M |
| `rewards` | Are scores, profiles and the list of top payers sound, and are rewards those of the invoices? | 5 invoices, 4 payers, list of 3; decay with 3 settings over 5 periods, 2 payers; claims under moving rates | 0.9 M |
| `indexer` | Is the database one branch, the log complete or sealed, who may write, and does ingestion catch up? | 2 writers; 3 ledgers with 2 forks and 2 faults, or 1 fork and 3 faults; 2 ledgers with 1 fork and 2 faults, late heartbeats among them | 1.2 M |

The properties, by run:

- `escrow`: `EscrowBacked` (the total of pending payouts is the sum of the entries and covered),
  `AmountsSound` (invoice, contributor list and status tell the same story about the money),
  `NftTracksClaim`, `Solvent` (rounding never eats into what is held for others), `SM1` (legal
  paths of the status), `SettlementPaysOut` (a settlement hands out all but rounding).
- `escrow_live`: `DisputesEnd`, `EscrowReleased`; `ListingsComplete` (reading page by page finds
  exactly one's invoices, each once), `TotalsAgree` (statistics that only grow still agree).
- `queue`: `QueueSound` (sorted, distinct, bounded, fair window), `WinnerRightful` (best at the
  moment, and protected for the delay), `LockLifted`.
- `multisig`: `OneLiveProposal`, `ConsentEarned` (different signers, in time; signers change only
  that way or after the timelock), `AuditTrail` (the log shows what was executed, newest first,
  under the right admin, and cooldowns are kept), `TokensInStep` (a removed token comes back
  only through `add_token`).
- `governance`: `DepositsSettled` (a deposit leaves once, when the proposal is decided, and as the
  verdict says; a vote that was lost is never decided, see below),
  `VerdictsHonoured` (carried out once and not early, or vetoed by current signers),
  `PassedGetsExecuted`.
- `delegation`: `DelegationsSound` (acyclic, no chain longer than the greatest limit there has been,
  reverse lists in sync), `HeldBefore`.
- `insurance`: `Custody`, `RollupsAgree`, `BreakerHolds`, `NoticeGiven`, `RiskFollowsReports`
  (prices and flags move only with the reports they are about), `BonusEarned`.
- `oracle`: `BreakerEarned`, `GateSound`, `MajorityRules` (no minority of
  sources moves a price out of the range of an agreeing majority), `TwapExact` (an average is
  that of exactly the covered part of the window).
- `rewards`: `ScoresSound` (what readers are told follows from deeds and time; reads can put decay
  off by less than a period each time, but neither speed it up nor stop it), `TopPayersSound`,
  `AccrualsMatchInvoices` (the volume of each LP is what it put into invoices), `MintedWithinPeak`.
- `indexer`: `HeadersLinked` (unless two writers have overlapped), `OneWriter` (who writes holds the
  lease or is late; nobody takes it from a writer that keeps time, and no late renewal takes it back
  from a standby), `ImplementsLog` (the refinement of `IndexLog`), `CatchesUp`.

Every property has a mutant in `PROJECT.json`: a plausible slip in one definition under which
the run reports the property violated.

### Bounds

Where a run has parts, the MC module adds a variable `part` and every behaviour belongs to one of
them: the parts put the bounds where each question needs them, and together they take every
action of the module.

Bps = 2 with a rate of 1 makes every division of an odd amount lose half a unit, the worst case
of the floor, so two or three units are enough for rounding to show. Two invoices are enough for
one to draw on the other, two LPs for a contributor list with a first and a later entry. The
clock runs past the due date, the dispute timeout and the appeal window. In FundQueue,
MaxQueue is one less than the number of LPs, so the cap is reached. The action log holds two
entries and three actions are logged, so it wraps. Five voters allow two chains to be joined in the
middle under a limit of three, and a chain to stand that is longer than a limit lowered to one. The list of top
payers holds three of four payers, so that entries are displaced, and a heap of three has a root
with two children. Five price
sources have a majority of three and a minority of two. A buffer of three samples over seven
ledgers drops old ones. Two forks over three ledgers let a replay meet a fork of its own; with
two faults a failover can meet a failed replay, with three a header that could not be read as well.
Two ledgers and two faults let a late writer and a standby both be in a recovery.
Decay runs over five units of time, with periods of one and of two, so that reads can restart a
begun period twice.

The oracle thresholds are small but distinct in effect: two stale answers trip the breaker, two
healthy ones at least a ledger apart close it, and one duplicate is tolerated; the three ledgers
of the gate's part are enough for a trip and a recovery, and the proofs cover longer histories. The governance,
insurance and oracle runs bound the number of changes of settings in one behaviour
(`MaxChanges`, `MaxCalls`); those changes are interleaved with everything else. The reports of
defaults in `insurance` are bounded by `MaxDefaults`, the payments into the pool by `MaxIn`: two
payments with two administrative calls, or one with three.

Symmetry is used in `delegation` (over `Elect`), `insurance` (over invoices and users) and
`oracle` (over the oracles), which check no liveness.

Deadlock is checked except in four runs. In `multisig` every behaviour ends when all proposals
are executed or expired and the bounds on the admin's calls are used up; in `rewards` when all
invoices have ended and the clock has stopped; in `indexer` and `indexer_backstop` a database that
is halted, or at the tip of a chain that has stopped growing, rests, which is also how the system
comes to rest.

### Fairness

- `InvoiceEscrow!Fairness`: ledgers close (WF of Tick); anybody may call
  `auto_resolve_dispute`, so it is called once it stays possible (WF); a recipient who can
  claim again and again claims (SF), which is in their own interest. Nothing is assumed of
  the admin, the payer or the issuer.
- `FundQueue!FairQueueSpec`: `recover_fund_queue` is open to anybody; keepers call it if it would
  succeed again and again (SF, because disputes and pauses interrupt it).
- `Governance!Fairness`: anybody may call `execute_proposal` (SF, because the target may fail in
  between), targets recover (WF), ledgers close. A target that lacks the function does not recover,
  and `PassedGetsExecuted` promises nothing for those kinds.
- `Indexer!IngestFairness`: timers fire and every await returns (WF of each process's work, of its
  lease handling, and of the ageing of a lease nobody renews). The chain, forks and faults are
  free.

### Runs that show a disagreement

| Run | What the documents say | What the code does |
|---|---|---|
| `escrow_reconcile` | the balance covers the contributions to partially funded invoices and the pending payouts (`docs/token-safety.md:161`) | refunds after an upheld dispute on a funded invoice come out of other invoices' contributions |
| `indexer_backstop` | the halt stays until replay completes, and ingestion never resumes on a half-rolled-back database (`reorgRecovery.ts:19`) | the job's recovery starts at the divergence it found before it waited for the lease; when the chain has forked again lower and a writer crashed in the replay from there, the job lifts the halt over a gap. The run keeps to processes that take turns and a chain that can be read |

Further disagreements met while modelling, without a run of their own.

Governance:

- `execute_proposal` should move a lost proposal to Rejected and forfeit its deposit
  (`docs/governance.md:191`, GLP1 in `docs/formal-verification.md:389`, the comment at
  `iln_governance/src/lib.rs:916`). It writes both and then returns an error (lines 1977 to 1990),
  which rolls them back, and `reject_proposal` (line 2755) is not called: the proposal stays Active
  and its deposit in the contract for good. `DepositsSettled` therefore says what happens to a
  deposit when a proposal is decided, and leaves a lost vote open.
- The kinds `UpdateInsuranceCoverageCap` and `UpdateInsurancePremiumRate` (lines 2080 to 2099) call
  `set_coverage_via_governance` and `set_premium_rate_via_governance` on the invoice contract; only
  the insurance pool has them (`insurance_pool/src/lib.rs:944`, 982), and the mock of the governance
  tests. Such a proposal passes, fails at every execution and stays Passed; a veto still ends it.
- Lowering the delegation limit leaves longer chains in place, where DEL2
  (`docs/formal-verification.md:525`) bounds them by the current one. `resolve_terminal` then stops
  short of their end, so the tally of a delegate there is not the sum V3 (line 303) asks for.
  `DelegationsSound` bounds chains by the greatest limit so far, which no order of calls exceeds.
- A voter who has delegated may vote as well (line 1757) while the delegate's tally still
  contains the weight, so ballots can exceed the supply (`docs/formal-verification.md:627`, VW2).
  `HeldBefore` therefore speaks of a voter's own weight.
- Vetoing a Passed proposal forfeits nothing, since the deposit was returned when it passed;
  the comment at line 916 says it is forfeited on a veto.
- The production floor of the execution delay (line 2976) is not applied where the eta is
  computed (line 1998).
- An older proposal of the same kind is not superseded by a newer one
  (`docs/governance-security-summary.md:125`).
- The delegation tally drifts when balances change (`docs/formal-verification.md:559`).

Invoice contract:

- A full queue refuses every joiner (`lib.rs:2369`); the replacement of the lowest entry
  announced at `lib.rs:2396` comes after that return.
- A partially funded invoice past its due date cannot expire (`lib.rs:3239`); only the
  freelancer can cancel it. `cancel_invoice` leaves the NFT of such an invoice in place.
- `update_fee_rate` (`lib.rs:284`) has no upper bound; the models take rates up to 100%.
  `update_decay_params` has none either, where `update_config` has 500 and
  `docs/threat-model.md:778` says 0 to 500.
- A default refund can fail for want of money (`docs/formal-verification.md:200`).
- `initialize` refuses a second call when `InvoiceCount` is stored, and no code stores that key,
  so it is not refused (`docs/pre-audit-checklist.md:155`).
- `update_config` can make a token that was never added a core token: it is then accepted, but
  unlisted and without decimals (comment at `lib.rs:192`).
- `update_config`, `set_max_invoice_amount`, `set_token_volume_cap`, the setters of the oracle
  registry and actions of the multisig leave no entry in the action log
  (`docs/access-control.md`, section 15).
- `finalize_rotation` (`multisig.rs:375`) swaps signers without `is_valid_config`; after an
  `UpdateMultisig` in between, the list it stores need not meet what `multisig.rs:69` says of a
  configuration. Approvals of signers removed since are counted (`multisig.rs:121`).
- `lib.rs` stores each invoice in one entry with the helpers of `invoice.rs`; the split helpers of
  `storage.rs` are not called, and the TTL and rollback checks there look for the split entries.

Reputation and rewards:

- A payer once displaced from the list of top payers, or refused, does not come back when a listed
  payer drops, and a listed entry may lag behind decay (`lib.rs:4146`).
- An upheld appeal restores the score from before that default (`lib.rs:3779`); with payments or
  another default in between it can lower the score or erase the other penalty.
- The profile says 0 for an address that was never scored, `get_payer_score` 50 (`invoice.rs:599`).
- Reads write the decayed score back, where ADR-004 says they do not, and restart the clock: a read
  after one and a half periods takes one off and forfeits the half, so how often a score is read
  changes what it is. `ScoresSound` bounds the delay. LP scores do not decay.
- An upheld appeal lowers `invoices_defaulted` (`lib.rs:3782`), where `docs/reputation-model.md:147`
  shows no counter changed. `ScoresSound` allows either.

Oracles and prices:

- While the breaker is open, funding passes over the oracle of the latest snapshot
  (`oracle_registry.rs:724`), where the comment above it says "skipping exactly the oracle
  address recorded as having caused the trip". After a fallback that is the healthy one, and the
  next funding goes back to the tripped one (whose answer must still be fresh, see `GateSound`).
- A timestamp served again counts as advanced in a recovery when another oracle was observed in
  between (`oracle_registry.rs:580`). `BreakerEarned` therefore speaks of fresh answers, not of
  advancing ones.
- `get_twap_price` averages with a single sample in the window, and a full buffer shortens
  the window (`oracle_registry.rs:1980`); the median of two prices truncates towards zero where its
  comment says it floors. `set_min_twap_observations` has no entry point.
- The first observation `twap_accumulator.rs` is given is always refused, so it never records any.

Insurance and bonus:

- `apply_reputation_discount` decodes a record as a number and falls back to 0, so the score
  never lowers a premium (`insurance_pool/src/lib.rs:683`), where ADR-015:20 and the comments at
  lines 434, 612 and 650 say a higher score lowers it. With a discount a rate may fall without a
  report, so `RiskFollowsReports` ties rates to reports only without a reputation contract, and
  within 0 to 100% always. The worked example at line 617 does not match the formula.
  `set_risk_multiplier` bypasses its own timelock.
- A claim that the pool refuses is never filed again by `claim_default` (`lib.rs:3601`); once the
  invoice contract is the pool's admin nobody else can file it or reset the breaker.
- A coverage set through governance can be overridden by an older pending change.
- In `claim_prioritization.rs` the pro-rata share is applied to what is left, so equal premiums get
  unequal payouts.
- In `reputation_bonus`, `init` may be repeated, `set_config` needs no admin, and no entry point
  makes an invoice Funded.

Indexer:

- `index.ts:126` names a hook `recoverReorg` that is not defined (it is `recoveryHook`, line 72); the
  evident meaning is modelled.
- While a writer is healthy it keeps the lease, so the job's recovery always times out. After a
  failed or crashed replay the halt stays latched and later job runs find no divergence
  (`consistencyJob.ts:455`).
- A writer that stalls past its lease keeps writing until its timer fires, beside a standby that
  took over (`ingestionLock.ts:46`: "Only one process should run Horizon event ingestion"). From then
  on neither `HeadersLinked` nor the log is promised; `OneWriter` says how this can come about.
- A transaction that fails is skipped for good once the next one succeeds.
- Invoice rows that predate the divergence survive a rollback with their later changes
  (`reorgRecovery.ts:4`).
- A header that cannot be read during a recovery counts as matching, so the rollback may start too
  high, and with a further fault the halt be lifted over a gap. `docs/indexer-reorg-handling.md:34`
  asks that the ledger source stay available during replay; the model records it as `blind`.

## Proofs

TLAPS checks the theorems below for every value of the constants, under the named assumption of
the module they are about (`EscrowAssumption`, `QueueAssumption`, `MultisigAssumption`,
`AdminAssumption`, `GovernanceAssumption`, `DelegationAssumption`, `DistributionAssumption`,
`OracleAssumption`, `PriceAssumption`, `InsuranceAssumption`, `BonusAssumption`, `BookAssumption`,
`IngestAssumption`), which TLC evaluates in the runs.

| Module | Theorem | States |
|---|---|---|
| `InvoiceEscrowProofs` | `TypeCorrect` | `Spec => []TypeOK`; in particular no balance or pending payout is ever negative |
| | `EscrowAlwaysBacked` | `Spec => []EscrowBacked` |
| | `AmountsAlwaysSound` | `Spec => []AmountsSound` |
| | `NftAlwaysTracksClaim` | `Spec => []NftTracksClaim` |
| | `OnlyLegalPaths` | `Spec => SM1` |
| `SolvencyProofs` | `AlwaysSolvent` | `Spec => []Solvent` |
| | `SettlementsAlwaysPayOut` | `Spec => SettlementPaysOut` |
| `BookProofs` | `ListingsAlwaysComplete` | `BookSpec => []ListingsComplete` |
| | `TotalsAlwaysAgree` | `BookSpec => []TotalsAgree` |
| | `BookImplementsEscrow` | `BookSpec => Spec`: with its book the contract refines the escrow, so the theorems above hold of it |
| `AdminQueueProofs` | `AlwaysOneLiveProposal` | `Spec => []OneLiveProposal` |
| | `ConsentAlwaysEarned` | `Spec => ConsentEarned` |
| | `SignersUndisturbed` | both of these under `AdminSpec`, with the single admin at work |
| | `AuditTrailKept` | `AdminSpec => []AuditTrail` |
| | `TokensAlwaysInStep` | `AdminSpec => TokensInStep` |
| | `WindowAlwaysFair` | `QueueSpec => []FairWindow`, the last conjunct of `QueueSound` |
| | `QueueAlwaysSound` | `QueueSpec => []QueueSound` |
| | `WinnerAlwaysRightful` | `QueueSpec => WinnerRightful` |
| | `MintingSafe` | `DistSpec => []MintedWithinPeak` |
| `GovernanceIndexerProofs` | `DepositsAlwaysSettled` | `Spec => []DepositsSettled` |
| | `VerdictsAlwaysHonoured` | `Spec => VerdictsHonoured` |
| | `HeadersAlwaysLinked` | `IngestSpec => []HeadersLinked` |
| | `AlwaysOneWriter` | `IngestSpec => []OneWriter` |
| `PoolVotingProofs` | `CustodyAlways` | `Spec => []Custody` |
| | `RollupsAlwaysAgree` | `Spec => []RollupsAgree` |
| | `BreakerAlwaysHolds` | `Spec => BreakerHolds` |
| | `NoticeAlwaysGiven` | `Spec => NoticeGiven` |
| | `RiskAlwaysFollowsReports` | `Spec => RiskFollowsReports` |
| | `AlwaysHeldBefore` | `VotingSpec => []HeldBefore` |
| | `DelegationsAlwaysSound` | `VotingSpec => []DelegationsSound` |
| `OracleBonusProofs` | `BreakerSafe` | `Spec => []BreakerConsistent`: breaker, snapshot and recovery tell the same story |
| | `BreakerMovesSafe` | `Spec => BreakerEarned` |
| | `GateSafe` | `Spec => []GateSound` |
| | `MajorityAlwaysRules` | `PriceSpec => []MajorityRules` |
| | `FeedImplementsRegistry` | `PriceSpec => Spec`: the price feed refines the registry |
| | `BonusAlwaysEarned` | `BonusSpec => BonusEarned` |

The arguments:

- **Loops and ledgers.** `ListTheorems` shows by a minimal-counterexample argument that `SumTo`,
  `Iterate` and `Keep` satisfy their recursive equations, and from them how a sum changes when one
  term changes, what a filter keeps and where a walk leads. With it `InvoiceEscrowProofs` shows that each ledger
  operator, and hence any payout loop (`PayAllKeeps`), keeps the ledger well-typed and its total
  equal to the sum of its entries and covered by the balance, provided `ok` is still TRUE.
- **Invoices.** `IInv` is `InvoicesOK` (what each invoice, its contributor list and its NFT say of
  one another), `MoneyOK` (the ledger is backed) and `SettingsOK`. None of the checked invariants
  is inductive alone, and `IInv` adds what they lack: an invoice that exists has a positive
  amount, or a payment could not be told from none; an absent one has neither amount nor
  contributions; the LP of record is in the contributor list, and a partially funded invoice has a
  contributor, or the NFT would have nobody to go to. Every action that changes an invoice ends
  in one of three ways (with the NFT synchronized and a new list, synchronized and the old list,
  or NFT untouched), and a lemma for each (`ReplaceInvoice`, `ReplaceInvoiceOnly`,
  `ReplaceInvoiceKeepNft`) reduces the step to the one invoice. `MoneyStepKeeps` does the same for
  the ledger. `SM1` is then proved step by step from `IInv`.
- **Solvency.** `Solvent` is inductive with `IInv`. What carries it is rounding: the cost of two
  contributions together is at most the sum of their costs (`CostSubadditive`), so what funding took
  in covers both the payout to the freelancer and the refunds, each floored on its own
  (`RefundBounds`, `RefundAfterAdd`), and the shares of a
  settlement stay within one unit per contributor of the whole (`SharesBounds`). `SolventAfter`
  reduces a step on one invoice to what it holds before and after and to what leaves the spendable
  balance, whether transferred or escrowed (`PayAllSpends`). Where a refund is paid although the
  freelancer already has the money (a default, an upheld dispute on a funded invoice), `Solvent`
  says no more than that invoice stops being covered; see `escrow_reconcile` above.
- **Book.** `BookInv` is `IInv` with `BookOK`: each index is a list without repetition of exactly the
  invoices it is about, the counters are the cardinalities of the sets of invoices they count, and
  the volume is the sum of the funded amounts. `IInv` is needed because an entry is removed by
  account and number, so that the freelancer and the contributors on record must be those the index
  has. The calls that write nothing to the book leave all it depends on as it is (`UnbookedQuiet`,
  `QuietKeeps`): an invoice that a dispute takes out of Funded and puts back keeps its funder and
  its funded amount. The others have a lemma each; a batch appends each freelancer's share of the
  new ids (`BatchBooked`). Pages are put together in `WalkReadsAll`: after n pages the reader has the
  first n times the size of the entries, or all, and as many pages as entries are enough.
- **Queue.** `QInv` adds to `FairWindow` that the times lie in the past and that an open queue was
  opened no earlier than the last eviction (`TimesOK`): an eviction must restart the window
  for the fairness of the next winner. `SoundInv` is `QueueSound` with the types of the entries;
  that the insertion keeps the order (`InsertSortedRanked`) and that removing an LP keeps it too
  rests on the lemmas `InsertedPlaces` and `WithoutDrops`.
- **Multisig.** `MInv` adds that the index of proposals in flight knows every live proposal
  (`IndexOK`), without which `OneLiveProposal` is not inductive, that approvals do not repeat, so
  that their number is that of different signers (`CountDistinct`), and that a pending
  rotation carries its timelock. `SignersUndisturbed` carries both theorems over to the contract
  in which the single admin works beside the signers.
- **Administration.** `LogOK` says which slot of the ring buffer holds which of the last actions,
  and that the records of the rate limit are as late as the log: without that the spacing of
  calls (`Spaced`) is not inductive. The wrap is arithmetic modulo the capacity. `RInv` ties the
  flags, the list and the decimals of the tokens to one another; the migration only adds decimals
  that are missing.
- **Governance.** `GInv` ties each proposal to its history: what was paid to whom follows from the
  verdict (`RecordOK`), the eta is the verdict plus the delay in force then, receipts are consents,
  the balance is the sum of the deposits still owed (`BalanceOK`), and every call carried out
  belongs to one executed proposal (`CallsOK`). The number of veto receipts of current signers is
  compared with the threshold as cardinalities of finite sets.
- **Voting weight.** `VotingInv` says that every checkpoint was a balance of its voter in its ledger,
  and that who has a snapshot or a ballot, other than the proposer, held that much the holding
  period earlier (`Backed`).
- **Delegations.** Following delegations is a walk, an iteration that is at rest at somebody who has
  not delegated, so that no cycle and no long chain is one statement: after `peak` steps from
  anywhere the walk is at rest (`GraphInv`). The limit in force, `max_depth`, would not do: it can be
  lowered under a chain that stands. It never exceeds `peak`, which is all a new edge needs.
  `ListTheorems` has what one changed edge does to walks.
  Adding an edge from `a` to `b` is sound when the way from `b` does not meet `a` and the longest
  way into `a`, the edge, and the way from `b` add up to at most `peak` (`LinkRests`): a voter
  whose way meets `a` reaches it a first time after some steps (`FirstVisit`), the reverse lists know
  that way (`FoundBehind`), hence the inbound depth the code computes is at least that long.
  Removing an edge only shortens ways (`CutRests`).
- **Distribution.** `DistInv` adds that `peak` is at least what the activity is worth now: a claim
  tops up what was claimed to that worth, so it stays below the peak.
- **Oracles.** `IInv` ties each stored counter to what really happened: the stale counter of the
  snapshot never exceeds the run of stale answers of its oracle (`HealthOK`), the recovery streak
  lies within the run of fresh answers of the oracle that tripped the breaker (`BreakerOK`), and the
  duplicate counter keeps up with the fundings on one answer (`ServedOK`). `SnapshotKeeps` and
  `RecordKeeps` show what recording one answer does to these; every query and funding reduces to
  them, and `BreakerEarned` follows from `BreakerMoves`.
- **Prices.** The k-th smallest quote is characterized by how many lie below it (`IsKth`), and a
  majority inside a range fences in the middle ones (`SmallestWithin`, `MedianWithin`). So the
  first median lies in the range of the majority, hence none of the majority is rejected as an
  outlier, hence it is still a majority of what survives and fences in the second median.
  `FeedImplementsRegistry` is the refinement under the identity mapping: reading and configuring
  prices are stuttering steps of the registry.
- **Insurance.** `IInv` is the types of the settings, the balances with `Custody`, the counters with
  `RollupsAgree`, and `PendingOK`: a pending change carries the eta its own proposal gave it.
  `Custody` needs the settings, since only the bound on the backstop share keeps the liquid part
  of a premium from being negative. `OnlyClaimsPay` reduces the breaker to the claims.
  `RiskFollowsReports` rests on the range of the rate and its monotonicity in the count
  (`RateMonotone`) and on the counters only growing, and only where a report was filed
  (`CountsGrow`).
- **Ingestion.** `HeadersLinked` is not inductive: a process that has read a header and not yet
  stored it, or a replay that has not reached the stored headers, could spoil it. `IngestInv` adds
  two things. Whoever runs is a writer that holds the lease or is late, and whoever borrowed the
  lease is late (`Elected`): `OneWriter` is this read for the writers, and needs the second half
  because a borrowed lease is given back while its borrower goes on. And as long as the writers have
  taken turns (`InTurn`), nobody else runs beside a process that does, so what it has compared is
  still what is stored when it writes, and a replay has every stored header at or below its position
  (`Below`), since the rollback deleted the rest. Only `tryAcquire` can end that, and then it sets
  `overlap`. A step of a process is one that thinks (`ThinkingKeeps`), stores a
  header it has compared (`ObservingKeeps`), rolls back (`RollbackKeeps`) or comes to lead or ceases
  to (`LeadingKeeps`); the lease's clock has `LeaseKeeps`, and forks do not touch the database.
- **Bonus.** `BonusInv` says that the reputation records are the cardinalities of the sets of
  invoices in which a user is freelancer or payer, and that a score is at most the settled share.
  `SubmittedParts` and `ClosedParts` follow those sets through a step, also for a user who is both.

Only model-checked:

- the liveness properties (out of the prover's reach);
- `ImplementsLog`: that the cursor and the rows agree through nested forks and failed replays rests
  on which headers were stored when, a much larger invariant than `IngestInv`;
- `ScoresSound`, `TopPayersSound` and `AccrualsMatchInvoices`: `Reputation` has the heap and the
  decay as recursive operators, which the prover cannot reach;
- `TwapExact`, whose reference sums over the ledgers of the window what the code sums over the
  samples: that the two agree is an induction over the samples.

## Not modelled

- Storage TTL and archival, and the installation of new code, which the host performs; the storage
  helpers that no entry point calls.
- Authorization as such: an action is open to those whose signature the code asks for. Events.
- `convert_invoice_token`, the per-core-token statistics and their conversion to dollars.
- Code that nothing calls: `claim_prioritization.rs`, `twap_accumulator.rs`, the indexer's catch-up.
- The metadata of the NFT. Its owner is modelled, with the mint, transfer and burn that
  `sync_nft_state` makes.
- Notifications: the delivery classes are there, but no code of the service queues a
  notification, calls `deliverWithRetry` or takes pending deliveries up again.
- SDK, CLI, frontend and scripts, which hold no state that the rest depends on.

Much of the contracts' source is tests, events and types, documentation comments and getters; the
map in `PROJECT.json` names only lines a definition stands for. What is left of the contract code
outside tests is in the list above. The components list in `PROJECT.json` gives the reason for
each part.
