# TLA+ models of the creditcoin pallet

This directory holds TLA+ models of `src/pallets/creditcoin/src/lib.rs`, the
credit-market pallet of the creditcoin chain, of its offchain ethless-transfer
check (`ocw/tasks/verify_transfer.rs`), its storage migrations
(`migrations/mod.rs`) and of the vote index of the task-voting pallet
(`src/pallets/task-voting/src/types.rs`), together with the TLC configurations
that check them and TLAPS proofs about them.

## The system

The pallet keeps these storage items: `Addresses` (external addresses with
their owning account), `UsedGuids`, `AskOrders`, `BidOrders`, `Offers`,
`DealOrders`, `Transfers`, `CollectedCoins` and `CollectCoinsContract`. The
maps of orders, offers and deals are double maps keyed by expiration block,
which lets the per-block hook find what expires.

Its parts and how they interact:

* **Address registry** (`register_address`, `register_address_v2`). A caller
  proves that it holds the key of an external address and becomes its owner.
  Every other call looks up owners here.
* **Order book** (`add_ask_order`, `add_bid_order`, `add_offer`,
  `add_deal_order`, `register_deal_order`). A lender's ask and a borrower's bid
  on one chain with matching terms become an offer and then a deal order.
  `register_deal_order` creates all four in one call, using a borrower
  signature.
* **Reaper** (`on_initialize`). At each new block it clears the asks, bids and
  offers that expire at that block. It drains the deal orders that expire at
  that block and keeps the funded ones.
* **Transfer registration** (`register_funding_transfer`,
  `register_repayment_transfer`). A claim that an external transaction paid a
  deal is handed to the offchain task scheduler under a deadline.
* **Collect coins** (`request_collect_coins`, `set_collect_coins_contract`). A
  claim that an external burn should be minted on chain is scheduled the same
  way.
* **Verification oracle**. Offchain workers of the scheduler's authorities
  (`ocw/tasks/verify_transfer.rs`) check a pending claim against the external
  chain. They then sign `persist_task_output` (the transfer is stored, or the
  coins are minted) or `fail_task`. Root manages the authority set with
  `add_authority` and `remove_authority`.
* **Legacy wallets** (`claim_legacy_wallet`). Balances of Creditcoin 1.x
  wallets, loaded at genesis, are paid by the owner of the wallet's key out of
  the legacy balance keeper account. This part touches no other storage.
* **Storage migrations** (`migrate`, run by `on_runtime_upgrade`). A runtime
  upgrade runs each migration step above the stored storage version.
* **Task voting** (`Index::insert_once`). A bounded set of voters per item,
  with `DoubleVoting` and `TooManyVoters` errors. No caller of it is under
  `src/`.
* **Deal lifecycle** (`fund_deal_order`, `lock_deal_order`, `close_deal_order`,
  `exempt`). A deal is funded with a verified transfer of the lender. The
  borrower then locks it and closes it with a verified repayment. Instead of a
  repayment, the lender may exempt the deal.

The hard behaviours are interleavings of users, root and several authorities'
workers. Submissions are committed in any order and possibly after the task's
deadline. Requests are retried in later blocks. The reaper runs between calls.

## Modules

| module | models | state |
|---|---|---|
| `OrderBook` | address registry, order book, reaper | `now, addresses, usedGuids, asks, bids, offers, deals` |
| `Creditcoin` | everything above, plus transfers, oracle, collect coins, authorities, deal lifecycle | adds `transfers, xferTasks, ccTasks, collected, balance, authorities, ccContract, pool, failed` |
| `VerifiedLedger` | the abstract promise of the oracle: a claim is verified once, spent only when verified, minted once | `verified, spent, minted, credit` |
| `MC_Creditcoin` | small instances for TLC | model values, `MC_Constraint` bounds, symmetry |
| `CreditcoinProofs` | TLAPS proofs about `Creditcoin`: types, funding | none |
| `CreditcoinDealProofs` | TLAPS proofs of the deal invariants and of `DealWriteOnce` | none |
| `CreditcoinMintProofs` | TLAPS proof of `CollectedMintedOnce` | none |
| `CreditcoinRefinement` | TLAPS proof that `Creditcoin` refines `VerifiedLedger` | none |
| `EthlessValidation` | `verify_ethless_transfer` and `validate_ethless_transfer` against a moving external chain | `tip, tx, mined, phase, seenBlock, seenOk, seenTip, verdict` |
| `LegacyWallet` | genesis of the legacy wallets, `claim_legacy_wallet` | `wallets, free, burned, claims` |
| `LegacyWalletSums` | the properties of `LegacyWallet` that sum balances (folds) | none |
| `LegacyWalletProofs` | TLAPS proof of `WalletsPaidOnce` | none |
| `Migrations` | `migrate` across `set_code` upgrades | `genesis, runtime, pending, version, applied` |
| `MigrationsProofs` | TLAPS proof of `MigrationsOnce` | none |
| `TaskVoting` | `Index::insert_once` | `index, accepted, rejected` |
| `TaskVotingProofs` | TLAPS proof of `VotesAccounted` | none |
| `EthlessValidationProofs` | TLAPS proof of `EthlessVerdictCorrect` | none |
| `MC_EthlessValidation`, `MC_LegacyWallet`, `MC_Migrations`, `MC_TaskVoting` | their instances | model values |

The modelling choices are these:

* **Maps and ids.** Each storage map is a function whose `DOMAIN` is the set of
  keys present. `Put` models `insert` and `Drop` models removal. An id is the
  tuple the code hashes (`AskOrderId::new(expiration, guid)` is
  `<<exp, guid>>`), so the hash is assumed injective. The expiration is the
  first component of the tuple.
* **Calls.** Each extrinsic runs in one storage transaction. A call is
  therefore one action, and its guard is the conjunction of all its `ensure!`
  checks and lookups. A failing call is a step that is not taken. The action
  names keep the code's names (`AddAskOrder` is `add_ask_order`).
* **Ownership proofs.** The signature checks of `register_address*` are
  `OwnershipProved(who, a) == Holder[a] = who`: only the key holder can produce
  a valid proof. The borrower signature of `register_deal_order` is assumed
  given, because a borrower signs whatever it is asked to.
* **The scheduler.** The offchain task scheduler is an external pallet and is
  modelled from the spec. `xferTasks` maps (deadline, transfer id) to the
  claim. `ccTasks` is a set of (deadline, collect-coins id). `Deadline` is
  `now + Timeout`. `ExpireTasks` runs at the start of a block.
  `register_transfer_internal`, `try_mutate_deal_order_and_transfer`,
  `use_guid` and `match_with` are outside `src/` and are also modelled from the
  spec (`spec_modelled` in `PROJECT.json`).
* **Workers.** `OffchainVerify(auth, key, ok)` is a worker of authority `auth`
  that reads a scheduled task and produces a signed submission into `pool`.
  What the external chain answers is not modelled, so either outcome is
  possible. `PersistTaskOutput(s)` and `FailTask(s)` commit a submission at a
  later step, in any order, even after the task has expired. `failed` records
  the `*FailedVerification` events, because `fail_task` writes nothing else.
* **Refinement.** `Creditcoin` defines `Ledger == INSTANCE VerifiedLedger`
  with `verified` the claims of the stored transfers (`ClaimOf`), `spent` the
  processed transfers and `minted` the collected coins. `LedgerRefined` is
  `Ledger!Spec`. Every pallet step is a `Verify`, `Spend` or `Mint` step of
  the abstract ledger or a stutter.
* **The ethless check.** `ReadTx`, `ReadReceipt` and `ReadTipAndValidate` are
  the three RPC calls of `verify_ethless_transfer`. `NewBlock` is the external
  chain growing between them; it may mine the transaction. The chain does not
  reorganise. `Validate` is `validate_ethless_transfer`, its early returns in
  the code's order. The decoded input is a record or `Garbage`. The nonce
  expected for a deal is the deal id (the hash is taken injective).
* **Legacy wallets.** The payout is `pallet_balances`' `transfer` with
  `AllowDeath`, modelled from its documented behaviour (`TransferOk`,
  `Reaped`, `Transfer`): a zero or self transfer does nothing; otherwise the
  keeper must hold the value, the receiver must end at or above the
  existential deposit without overflow, and a keeper left below the deposit is
  reaped with its dust burned. The sighash is taken injective.
* **Migrations.** A release `k` knows steps `1..k` and has `STORAGE_VERSION`
  `k`. A chain starts at any release. `SetCode` schedules a later release;
  `OnRuntimeUpgrade` runs `migrate` of that release: it reads the version
  once and runs, in order, each step `j` with `version < j`, putting `j`.
  `DueSteps` is the set of steps whose `if` holds, and `Due` lists them in
  increasing order: its `i`-th entry is the due step with exactly `i` due
  steps up to it.
  Earlier releases are taken to have the same `migrate` with fewer steps. The
  data transformations (`v1.rs`..`v7.rs`) are not under `src/` and are only
  named.
* **Task voting.** `Voters(id)` is `get_or_insert`; `TryInsertOk` is
  `BoundedBTreeSet::try_insert`; `Store` is `Index::mutate`, which writes the
  set back even when the closure fails. `accepted` and `rejected` record the
  answers.
* **Time.** `Tick` is a new block: the pallet's `on_initialize(now + 1)`
  followed by the scheduler's expiry. The timestamp of a deal is the block
  number.

## Runs

The pallet runs use `MC_Creditcoin` with two accounts (alice, bob). Each
account holds one external address (ea, eb) on chain c1. There is one loan
term of amount 1, and repayments may claim 1 or 2. `MC_Constraint` caps every
storage map (`MaxOrders`, `MaxDeals`, `MaxClaims`, `MaxCollects`,
`MaxAuthorities`, `MaxPool`). `TxSymmetry` permutes the external transaction
ids, which no definition names. Bob starts at `MaxBalance`, so a mint to him
overflows and `persist_task_output` fails as a whole.

| run | module / cfg | expect | checks |
|---|---|---|---|
| lifecycle | `MC_Creditcoin` / `MC_Lifecycle.cfg` | pass (849,819 states) | `TypeOK`, `FundingVerified`, `RepaymentVerified`, `ProcessedTransfersUsed`, `LedgerRefined`, `DealWriteOnce` |
| order_book | `MC_Creditcoin` / `MC_OrderBook.cfg` | pass | `DealPartiesAuthorised`, `OrdersReaped` |
| oracle | `MC_Creditcoin` / `MC_Oracle.cfg` | pass | `CollectedMintedOnce` |
| task_voting | `MC_TaskVoting` / `MC_TaskVoting.cfg` | pass | `VotesAccounted` |
| migrations | `MC_Migrations` / `MC_Migrations.cfg` | pass | `MigrationsOnce` |
| legacy_wallet | `MC_LegacyWallet` / `MC_LegacyWallet.cfg` | pass | `LegacyPaidOnce`, `KeeperSolvent` |
| ethless_validation | `MC_EthlessValidation` / `MC_EthlessValidation.cfg` | pass | `EthlessVerdictCorrect` |
| guid_reuse | `MC_Creditcoin` / `MC_GuidReuse.cfg` | violation | `GuidSingleUse` |
| self_lending | `MC_Creditcoin` / `MC_SelfLending.cfg` | violation | `NoSelfLending` |
| expiry_leak | `MC_Creditcoin` / `MC_ExpiryLeak.cfg` | violation | `ExpiredPurged` |
| exempt_then_fund | `MC_Creditcoin` / `MC_ExemptThenFund.cfg` | violation | `ExemptionFinal` |
| conflicting_outcomes | `MC_Creditcoin` / `MC_ConflictingOutcomes.cfg` | violation | `OneOutcomePerClaim` |

* **lifecycle.** One guid, two blocks with `Timeout` 1, one deal, two transfer
  claims and one authority with one submission in flight. The collect-coins
  contract sits on another chain, so collect coins stays off. Two claims are
  enough for a funding and a repayment, for a funding transfer reused as a
  repayment, and for one transaction claimed twice. Two blocks let a
  submission be committed after its task expired, and let the reaper run over
  a funded deal. The run shows that a funded deal always points at a
  processed transfer claimed for it, for the loan amount, by its lender. A
  closed deal was locked and points at a different processed transfer of its
  borrower. A processed transfer is always used by a stored deal. And the
  pallet refines `VerifiedLedger`: a verified transfer is never overwritten or
  removed, `is_processed` is set once and only on a verified transfer, and
  minting credits one account once per claim. `DealWriteOnce`, an action
  property, says that a step changes a stored deal only by filling in one
  empty field: `funding` (with the timestamp, which moves forward), `lock` or
  `repayment`. So no deal is funded, locked or repaid twice, and a deal's
  parties and terms never change.
* **order_book.** Two guids and three blocks, so that add_ask, add_bid,
  add_offer and add_deal_order can all happen. Every deal was authorised by
  the owner of its borrower address, and its lender address is registered.
  The run does not claim that the two addresses are on one chain (see stale
  offers below). Under `FairSpec`, every ask, bid and
  offer stored before its expiration block is eventually removed.
* **oracle.** Three blocks with `Timeout` 2, so that a request can be retried
  while its first task is pending (`request_collect_coins` checks
  `is_scheduled` only at the current deadline, so the retry schedules the
  claim again). There are two collect-coins claims and two submissions in
  flight, so persist and fail race. Each claim is minted at most once, and a
  mint that would overflow leaves the claim uncollected. There is one
  contract: with a second one on the addresses' chain the run takes about five
  minutes, so a `set_collect_coins_contract` between a request and its commit
  is not exercised. Dropping the authority check at commit would break no
  property here either: a removed authority's submission still mints once.
* **task_voting.** Three voters (symmetric), two items, sets bounded at 2, so
  that a set fills and a third voter is refused while a second item is still
  open. The index holds exactly the accepted votes and every refusal has its
  cause.
* **migrations.** Seven steps, as in this release; every genesis release
  0..7 and every sequence of upgrades, including ones that skip releases.
  Each step above the genesis version runs exactly once and in order, and the
  storage version ends at the running release's.
* **legacy_wallet.** Five accounts and nine wallets: two accounts start empty
  and hold a wallet of 1, which the existential deposit 2 refuses until their
  larger wallet is paid; one wallet is the keeper's own; one is zero. The keeper
  holds what it owes the others (12) plus the deposit. Every wallet is paid at
  most once, to its owner, for its genesis balance, and the keeper is never
  reaped. With exactly 12 the last payout leaves the keeper with 1, below the
  deposit: `AllowDeath` reaps it, burns the 1 and the last wallet can no longer
  be paid. Nothing in the code or the spec asks for that extra deposit; the
  error docs name a missing keeper as the only reason wallets cannot be
  claimed.
* **ethless_validation.** Every transaction content over two addresses, two
  contracts, two amounts and two deals (and undecodable input), a chain of up
  to 3 blocks and 2 confirmations, with the three RPC reads interleaved with
  new blocks. The verdict is always the first condition of the spec's list
  that fails on what was read (`Reference`, each condition stated on its own),
  and an `Ok` is true of the chain when it is given. `TaskInFuture` never
  occurs: it needs a reorganisation, which is not modelled. A `TaskPending`
  verdict given on a stale block-number read counts as correct, so the run
  does not flag a transaction reported pending after it was mined.

The violation runs check what the spec or the code's own error names state, and
the code breaks it. Each is a finding in `PROJECT.json`:

* `register_deal_order` never consumes guids.
* `register_deal_order` lacks the `SameOwner` check.
* An order that expires at its creation block is never reaped.
* An unfunded deal can be exempted and then funded.
* A failed claim can still be persisted.

**Stale offers.** `add_deal_order` reads the ask and the bid through the ids
stored in the offer. It does not check that these are still the orders the
offer was made on. An instance with two guids shows the problem:

1. alice asks `<<1, g1>>` on `ea` (chain c1).
2. bob bids `<<2, g2>>` on `eb`.
3. alice makes offer `<<3, ask, bid>>`.
4. A block reaps the bid.
5. `register_deal_order` recreates bid `<<2, g2>>` with borrower alice on an
   address of chain c2. It does not use the guid and does not check the
   expiration (the guid_reuse finding).
6. alice calls `add_deal_order` on the old offer.

The resulting deal has addresses on two chains, and its borrower is not the
bidder the offer was made for. `DealPartiesAuthorised` therefore claims only
what holds: the borrower owns the borrower address, and the lender address is
registered. `PartiesSafe` proves exactly that.

Each property of a passing run has a mutant of the code that TLC catches. The
mutants are listed in `PROJECT.json` and defined just before the definition
they replace: the transfer block set to the deadline; funding without the
amount check; closing without the lock check; a reaper that drops funded
deals; a persist without the existence check (transfer and collect coins);
`add_deal_order` without the `NotBorrower` check; `add_deal_order` without
the `DuplicateDealOrder` check, which overwrites a stored deal; the reaper clearing one
block late; `try_insert` checking only the bound; a migration step rerun at
its own version; a claim that keeps the wallet; reaping at the deposit; and a
confirmation check one block short.

## Fairness and liveness

`FairSpec == Spec /\ WF_vars(Tick)`: blocks keep being produced. That is what
the chain's block authoring guarantees and what the reaper (`on_initialize`)
needs; nothing is assumed of users, root or workers, since the code does not
make any of them act. `OrdersReaped` is checked under it.

## Proofs

All theorems hold for every value of the constants that satisfies the
modules' `ASSUME`s. TLC evaluates those on every run. The ones the proofs use
are:

* `OrderBookAssumption`: `None` is not an account.
* `CreditcoinAssumption`: `None` is not a transfer id, `Tx0` is not an
  external transaction id, and `CCAmount`, `MaxBalance` and `Timeout` are
  numbers.
* `EthlessAssumption`: `None` is not a contract. `transaction.to` is an
  `Option<Address>`, so a missing receiver can never be the claim's contract.

Each invariant `Inv` is proved through an inductive invariant `IInv` with
`Init => IInv`, `IInv /\ [Next]_vars => IInv'` and `IInv => Inv`. TLC checked
each `IInv` as an invariant of a run before it was proved. The inductive step
has one case per call.

* `CreditcoinProofs`:
  * `TypeCorrect == Spec => []TypeOK`. `TypeOK` is not inductive on its own.
    `persist_task_output` builds the stored transfer from the claim in the
    submission, so the invariant must know that a submission for a transfer
    task carries a claim. `IInv == TypeOK /\ PoolClaims` adds that fact.
    Lemmas show that `Put`, `Drop` and `EXCEPT` keep `IsMap`. `IdsDisjoint`
    shows that a transfer id (a pair) is never a collect-coins id (a triple).
  * `FundingSafe == Spec => []FundingVerified`. `IInv /\ FundingVerified` is
    inductive. The frame lemma `FundingFrame` says what is enough to keep the
    invariant: verified transfers keep their claim, `is_processed` only
    latches, owners keep their addresses, and funded deals keep their funding,
    terms and lender. Every call except `fund_deal_order` is such a step.
    `fund_deal_order` is proved from its checks.
* `CreditcoinDealProofs`:
  * `RepaymentSafe` (`RepaymentVerified`) and `ProcessedUsedSafe`
    (`ProcessedTransfersUsed`). Both use `DInv`, which adds to
    `IInv /\ FundingVerified` two facts:
    * `LockedFunded`: a locked deal is funded. Without it, a transfer closing
      a deal could equal a funding that does not exist.
    * `RealTransferIds`: stored transfers, scheduled transfer tasks and
      transfer submissions never name the synthetic transaction `Tx0`.
      Without it, `exempt`'s synthetic repayment could be mistaken for a real
      transfer.
  * `PartiesSafe` (`DealPartiesAuthorised`). `add_deal_order` copies addresses
    from the stored ask and bid, so the invariant `PInv` adds `OrdersOwned`:
    every stored order's address is owned by the order's maker.
  * `WriteOnceSafe == Spec => DealWriteOnce`, an action property. Its step
    relation follows from `IInv` alone. Every stored deal is a `DealRec`
    record, and the values the four deal calls write (a transfer id,
    `exempt`'s synthetic id, an account) are never `None`.
    `add_deal_order` and `register_deal_order` insert only a new id, and the
    reaper only removes deals.
* `CreditcoinMintProofs`: `MintedOnceSafe` (`CollectedMintedOnce`). The
  invariant adds two facts:
  * the set of collected claims is finite, which `Cardinality` needs;
  * every collected claim's address is registered. Otherwise a later
    `register_address` could give an owner to a claim already counted, and
    raise that owner's count without a mint.
* `CreditcoinRefinement`: `Refinement == Spec => LedgerRefined`, proved step
  by step:
  * the initial state maps to the ledger's;
  * `persist_task_output` is a `Verify` or a `Mint` step;
  * `fund_deal_order` and `close_deal_order` are a `Spend` step;
  * every other call leaves the mapped state alone.
* `TaskVotingProofs`: `VotesAccountedSafe` for every bound `MaxSize \in Nat`.
  The inductive invariant is `TypeOK /\ VotesAccounted`; `TypeOK` supplies
  the finiteness of the voter sets.
* `EthlessValidationProofs`: `VerdictSafe == Spec => []EthlessVerdictCorrect`.
  The proof has two parts.
  * `ValidateIsReference` shows that the chain of early returns in
    `validate_ethless_transfer` computes the reference verdict. That verdict is
    `Ok` when all eleven conditions hold and otherwise the first one that
    fails. `FirstFailing` shows that the `CHOOSE` of `Reference` picks the
    least failing index.
  * `EInv` says that what the worker read stays true of the moving chain:
    * a block number read is the mining block, because a mined transaction
      stays where it is;
    * a success read is the transaction's own status;
    * the tip read is at most the current tip;
    * a verdict is given only at the end of a check, and is `Validate` of
      what was read.
* `MigrationsProofs`: `MigrationsSafe == Spec => []MigrationsOnce` for every
  number of migrations `Steps \in Nat`. `MigrationsOnce` is not inductive by
  itself: if `set_code` could schedule an older release, the upgrade would
  lower the running release below the storage version and break
  `version = runtime`. The invariant `MInv` adds `PendingAhead`: a scheduled
  release is at or above the running one, which `set_code`'s guard keeps.
  Two lemmas carry the step:
  * `DueFrom`: from version `v`, release `k >= v` runs exactly `v+1, ..., k`.
    It rests on `IntervalCard`, the size of an interval, which pins down the
    `CHOOSE` in `Due`.
  * `RunConcat`: the steps run before the upgrade followed by those run in it
    are the steps from genesis up to the new release.
* `LegacyWalletProofs`: `WalletsPaidOnceSafe == Spec => []WalletsPaidOnce`.
  `WalletsPaidOnce` is the first conjunct of `LegacyPaidOnce`: each genesis
  wallet is either stored with its genesis balance and unclaimed, or removed
  and claimed once, by its key's account, for its genesis balance. It holds
  for every set of wallets, balances, keeper and existential deposit. With
  `TypeOK` it is inductive: a claim pays the stored balance, which the
  invariant says is the genesis balance, and `TypeOK` says a stored key is a
  genesis key. `TransferTyped` shows that the keeper transfer keeps balances
  natural, whether it succeeds or is a no-op.

Only model-checked:

* Liveness: `OrdersReaped` needs fairness and `ENABLED`, which the prover
  does not handle.
* `KeeperSolvent` and the balance half of `LegacyPaidOnce`: they sum over
  sets with the folds of `FiniteSetsExt`. Those are `RECURSIVE` operators, and
  a module that reaches one cannot hold a theorem. What a sum is after a
  claim removes one wallet would also need induction over the set. They live
  in `LegacyWalletSums`, apart from `LegacyWallet`, so that the per-wallet
  half can be proved.

## Not modelled

* The generated weight files and the runtime version constant have no state.
* Weight accounting, events and the transfer kind are left out.
* The per-version data transformations of the migrations (`v1.rs`..`v7.rs`)
  are not under `src/`; only their order and version puts are modelled.
* In the ethless check: the chain id check, address parsing, the timestamp
  lookup and reorganisations of the external chain. The offchain worker in
  `Creditcoin` is not composed with `EthlessValidation`; there either outcome
  of a worker is allowed.
* The legacy wallet instance has no receiver overflow: an overflowing wallet
  stays unpaid for ever and would keep the keeper from ever reaching the
  deposit, hiding the reaping edge.
