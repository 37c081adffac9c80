------------------------------ MODULE Creditcoin -----------------------------
(***************************************************************************)
(* The creditcoin pallet (pallets/creditcoin/src/lib.rs) as a whole: the   *)
(* order book of module OrderBook, the transfer ledger, the verification   *)
(* oracle (transfer and collect-coins claims, their tasks in the offchain  *)
(* task scheduler, the offchain workers' signed submissions and their      *)
(* commit by persist_task_output / fail_task), the authority set and the   *)
(* deal-order lifecycle (fund, lock, close, exempt).                       *)
(*                                                                         *)
(* The offchain task scheduler is an external pallet: its pending-task map *)
(* and its expiry of tasks at their deadline are modelled from the spec.   *)
(***************************************************************************)
EXTENDS OrderBook

CONSTANTS
    TxIds,        \* ExternalTxId values of external-chain transactions
    Tx0,          \* the ExternalTxId "0" of the synthetic transfer of exempt
    Contracts,    \* GCreContract values (chain, address)
    ContractChain,\* ContractChain[k]: the chain of contract k
    DefaultContract, \* CollectCoinsContract's ValueQuery default
    CCAmount,     \* the amount a collect-coins transaction carries
    InitBalance,  \* InitBalance[a]: the free balance of account a before the behaviour
    MaxBalance,   \* T::Balance::max_value(): mint_into fails with Overflow above it
    Timeout       \* UnverifiedTaskTimeout: deadline() = now + Timeout

ASSUME CreditcoinAssumption ==
    /\ Tx0 \notin TxIds
    /\ None \notin Chains \X (TxIds \cup {Tx0})    \* Option::None is no TransferId
    /\ ContractChain \in [Contracts -> Chains]
    /\ DefaultContract \in Contracts
    /\ CCAmount \in Nat
    /\ MaxBalance \in Nat
    /\ InitBalance \in [Accounts -> 0..MaxBalance]
    /\ Timeout \in Nat \ {0}

VARIABLES
    transfers,    \* Transfers: TransferId -> Transfer
    xferTasks,    \* scheduler: (deadline, TransferId) -> claimed transfer
    ccTasks,      \* scheduler: set of (deadline, CollectedCoinsId)
    collected,    \* CollectedCoins keys
    balance,      \* native balance minted by collect coins, per account
    authorities,  \* the scheduler's authority set
    ccContract,   \* CollectCoinsContract
    pool,         \* signed task outputs produced by offchain workers, not yet committed
    failed        \* ids of the claims with a *FailedVerification event

oracleVars == <<transfers, xferTasks, ccTasks, collected, balance, authorities,
                ccContract, pool, failed>>
vars == <<obVars, oracleVars>>

-----------------------------------------------------------------------------
TransferIds == Chains \X (TxIds \cup {Tx0})   \* TransferId::new(chain, tx)
CCIds == ExtAddrs \X TxIds \X Contracts       \* id of UnverifiedCollectedCoins{to, tx, contract}
Deadlines == 1..(MaxBlock + Timeout)

\* The claim of an UnverifiedTransfer: Transfer{order_id, amount, account_id}.
Claims == [deal : DealIds, amount : Amounts, account : Accounts]
TransferRec == [deal : DealIds, amount : Amounts, account : Accounts,
                processed : BOOLEAN, block : Blocks]

(* A signed submission of an offchain worker: persist_task_output (ok) or *)
(* fail_task (~ok) for the task (deadline, id), carrying the claim.        *)
Submissions == [who : Accounts, deadline : Deadlines,
                id : TransferIds \cup CCIds, ok : BOOLEAN, claim : Claims \cup {None}]

\* TaskScheduler::deadline()
Deadline == now + Timeout

\* TaskScheduler::is_scheduled for either kind of task.
Scheduled(key) == key \in DOMAIN xferTasks \/ key \in ccTasks

Init ==
    /\ obInit
    /\ transfers = [t \in {} |-> None]
    /\ xferTasks = [k \in {} |-> None]
    /\ ccTasks = {}
    /\ collected = {}
    /\ balance = InitBalance
    /\ authorities = {}
    /\ ccContract = DefaultContract
    /\ pool = {}
    /\ failed = {}

-----------------------------------------------------------------------------
(* Order book calls leave the oracle state alone. *)

OrderBookStep ==
    /\ \/ \E who \in Accounts, a \in ExtAddrs :
            RegisterAddress(who, a) \/ RegisterAddressV2(who, a)
       \/ \E who \in Accounts, a \in ExtAddrs, t \in Terms, exp \in Blocks, g \in Guids :
            AddAskOrder(who, a, t, exp, g) \/ AddBidOrder(who, a, t, exp, g)
       \/ \E who \in Accounts, askId \in DOMAIN asks, bidId \in DOMAIN bids, exp \in Blocks :
            AddOffer(who, askId, bidId, exp)
       \/ \E who \in Accounts, offerId \in DOMAIN offers, exp \in Blocks :
            AddDealOrder(who, offerId, exp)
       \/ \E who, b \in Accounts, la, ba \in ExtAddrs, t \in Terms, exp \in Blocks,
             ag, bg \in Guids :
            RegisterDealOrder(who, b, la, ba, t, exp, ag, bg)
    /\ UNCHANGED oracleVars

-----------------------------------------------------------------------------
(* Transfer ledger: register_funding_transfer and                         *)
(* register_repayment_transfer hand a claimed transfer to the scheduler.  *)

(* Self::register_transfer_internal (helpers, modelled from the spec): the *)
(* transfer id is (chain of the sender's address, tx); it must be neither  *)
(* persisted nor scheduled at the current deadline; the claim is then      *)
(* scheduled at that deadline.                                             *)
RegisterTransferInternal(who, from, amount, d, tx) ==
    LET id == <<Chain[from], tx>>
    IN /\ id \notin DOMAIN transfers
       /\ <<Deadline, id>> \notin DOMAIN xferTasks
       /\ xferTasks' = Put(xferTasks, <<Deadline, id>>,
                           [deal |-> d, amount |-> amount, account |-> who])
       /\ UNCHANGED <<obVars, transfers, ccTasks, collected, balance,
                      authorities, ccContract, pool, failed>>

RegisterFundingTransfer(who, d, tx) ==
    /\ d \in DOMAIN deals
    /\ RegisterTransferInternal(who, deals[d].lenderAddr, Amount[deals[d].terms], d, tx)

RegisterRepaymentTransfer(who, amount, d, tx) ==
    /\ d \in DOMAIN deals
    /\ RegisterTransferInternal(who, deals[d].borrowerAddr, amount, d, tx)

-----------------------------------------------------------------------------
(* Collect coins. *)

RequestCollectCoins(who, a, tx) ==
    LET id == <<a, tx, ccContract>>
    IN /\ id \notin collected
       /\ <<Deadline, id>> \notin ccTasks
       /\ Chain[a] = ContractChain[ccContract]   \* AddressId::new(contract.chain, to) exists ...
       /\ Owns(who, a)                           \* ... and is owned by the caller
       /\ ccTasks' = ccTasks \cup {<<Deadline, id>>}
       /\ UNCHANGED <<obVars, transfers, xferTasks, collected, balance,
                      authorities, ccContract, pool, failed>>

SetCollectCoinsContract(k) ==
    /\ ccContract' = k
    /\ UNCHANGED <<obVars, transfers, xferTasks, ccTasks, collected, balance,
                   authorities, pool, failed>>

-----------------------------------------------------------------------------
(* Verification oracle.                                                    *)
(*                                                                         *)
(* An offchain worker of an authority reads a scheduled task, verifies it  *)
(* against the external chain and signs persist_task_output or fail_task.  *)
(* What the external chain says is not modelled: either outcome may be     *)
(* produced, by each authority, at any block while the task is scheduled;  *)
(* the submission may be committed later, in any order.                    *)
OffchainVerify(auth, key, ok) ==
    /\ auth \in authorities
    /\ Scheduled(key)
    /\ pool' = pool \cup
         {[who |-> auth, deadline |-> key[1], id |-> key[2], ok |-> ok,
           claim |-> IF key \in DOMAIN xferTasks THEN xferTasks[key] ELSE None]}
    /\ UNCHANGED <<obVars, transfers, xferTasks, ccTasks, collected, balance,
                   authorities, ccContract, failed>>

\* TaskScheduler::remove(deadline, id)
RemoveTask(dl, id) ==
    /\ xferTasks' = Drop(xferTasks, {<<dl, id>>})
    /\ ccTasks' = ccTasks \ {<<dl, id>>}

(* Mutants of the two branches of persist_task_output (plausible slips:  *)
(* the block set to the task's deadline; the existence check dropped).    *)
PersistTransferAtDeadline(s) ==
    /\ s.id \in TransferIds
    /\ s.id \notin DOMAIN transfers
    /\ transfers' = Put(transfers, s.id,
          [deal |-> s.claim.deal, amount |-> s.claim.amount,
           account |-> s.claim.account, processed |-> FALSE, block |-> s.deadline])
    /\ UNCHANGED <<collected, balance>>
PersistTransferTwice(s) ==
    /\ s.id \in TransferIds
    /\ transfers' = Put(transfers, s.id,
          [deal |-> s.claim.deal, amount |-> s.claim.amount,
           account |-> s.claim.account, processed |-> FALSE, block |-> now])
    /\ UNCHANGED <<collected, balance>>
PersistCollectCoinsTwice(s) ==
    /\ s.id \in CCIds
    /\ s.id[1] \in DOMAIN addresses
    /\ balance[addresses[s.id[1]]] + CCAmount <= MaxBalance
    /\ balance' = [balance EXCEPT ![addresses[s.id[1]]] = @ + CCAmount]
    /\ collected' = collected \cup {s.id}
    /\ UNCHANGED transfers

(* TaskOutput::VerifyTransfer: the transfer is not yet in Transfers; it is *)
(* inserted with its block set to the current block.                       *)
PersistTransfer(s) ==
    /\ s.id \in TransferIds
    /\ s.id \notin DOMAIN transfers
    /\ transfers' = Put(transfers, s.id,
          [deal |-> s.claim.deal, amount |-> s.claim.amount,
           account |-> s.claim.account, processed |-> FALSE, block |-> now])
    /\ UNCHANGED <<collected, balance>>

(* TaskOutput::CollectCoins: the claim is not yet in CollectedCoins and   *)
(* its address exists; the amount is minted to the address owner, which   *)
(* fails (and fails the whole call) when the owner's balance would exceed *)
(* the Balance type; then the claim is inserted.                          *)
PersistCollectCoins(s) ==
    /\ s.id \in CCIds
    /\ s.id \notin collected
    /\ s.id[1] \in DOMAIN addresses
    /\ balance[addresses[s.id[1]]] + CCAmount <= MaxBalance
    /\ balance' = [balance EXCEPT ![addresses[s.id[1]]] = @ + CCAmount]
    /\ collected' = collected \cup {s.id}
    /\ UNCHANGED transfers

PersistTaskOutput(s) ==
    /\ s \in pool
    /\ s.ok
    /\ s.who \in authorities
    /\ PersistTransfer(s) \/ PersistCollectCoins(s)
    /\ RemoveTask(s.deadline, s.id)
    /\ pool' = pool \ {s}
    /\ UNCHANGED <<obVars, authorities, ccContract, failed>>

FailTask(s) ==
    /\ s \in pool
    /\ ~s.ok
    /\ s.who \in authorities
    /\ s.id \in TransferIds => s.id \notin DOMAIN transfers
    /\ s.id \in CCIds => s.id \notin collected
    /\ RemoveTask(s.deadline, s.id)
    /\ failed' = failed \cup {s.id}
    /\ pool' = pool \ {s}
    /\ UNCHANGED <<obVars, transfers, collected, balance, authorities, ccContract>>

AddAuthority(a) ==
    /\ a \notin authorities
    /\ authorities' = authorities \cup {a}
    /\ UNCHANGED <<obVars, transfers, xferTasks, ccTasks, collected, balance,
                   ccContract, pool, failed>>

RemoveAuthority(a) ==
    /\ a \in authorities
    /\ authorities' = authorities \ {a}
    /\ UNCHANGED <<obVars, transfers, xferTasks, ccTasks, collected, balance,
                   ccContract, pool, failed>>

-----------------------------------------------------------------------------
(* Deal-order lifecycle. *)

(* Self::try_mutate_deal_order_and_transfer (helpers, modelled from the    *)
(* spec): both the deal and the transfer exist, both closures succeed, and *)
(* both mutations are committed together; the transfer closure marks the   *)
(* transfer processed.                                                     *)
MutateDealAndTransfer(d, tid, deal) ==
    /\ d \in DOMAIN deals
    /\ tid \in DOMAIN transfers
    /\ deals' = [deals EXCEPT ![d] = deal]
    /\ transfers' = [transfers EXCEPT ![tid].processed = TRUE]

(* Mutant: fund_deal_order without the TransferAmountMismatch check. *)
FundDealOrderAnyAmount(who, d, tid) ==
    /\ d \in DOMAIN deals
    /\ tid \in DOMAIN transfers
    /\ Owns(who, deals[d].lenderAddr)
    /\ now >= deals[d].ts
    /\ deals[d].funding = None
    /\ Expiration(d) >= now
    /\ transfers[tid].deal = d
    /\ transfers[tid].account = who
    /\ ~transfers[tid].processed
    /\ MutateDealAndTransfer(d, tid,
         [deals[d] EXCEPT !.funding = tid, !.ts = now])
    /\ UNCHANGED <<now, addresses, usedGuids, asks, bids, offers, xferTasks,
                   ccTasks, collected, balance, authorities, ccContract, pool, failed>>

FundDealOrder(who, d, tid) ==
    /\ d \in DOMAIN deals
    /\ tid \in DOMAIN transfers
    /\ Owns(who, deals[d].lenderAddr)
    /\ now >= deals[d].ts
    /\ deals[d].funding = None
    /\ Expiration(d) >= now
    /\ transfers[tid].deal = d
    /\ transfers[tid].amount = Amount[deals[d].terms]
    /\ transfers[tid].account = who
    /\ ~transfers[tid].processed
    /\ MutateDealAndTransfer(d, tid,
         [deals[d] EXCEPT !.funding = tid, !.ts = now])
    /\ UNCHANGED <<now, addresses, usedGuids, asks, bids, offers, xferTasks,
                   ccTasks, collected, balance, authorities, ccContract, pool, failed>>

LockDealOrder(who, d) ==
    /\ d \in DOMAIN deals
    /\ deals[d].lock = None
    /\ deals[d].funding # None
    /\ deals[d].borrower = who
    /\ deals' = [deals EXCEPT ![d].lock = who]
    /\ UNCHANGED <<now, addresses, usedGuids, asks, bids, offers, oracleVars>>

(* Mutant: close_deal_order without the DealOrderMustBeLocked check. *)
CloseDealOrderUnlocked(who, d, tid) ==
    /\ d \in DOMAIN deals
    /\ tid \in DOMAIN transfers
    /\ Owns(who, deals[d].borrowerAddr)
    /\ now >= deals[d].ts
    /\ deals[d].repayment = None
    /\ transfers[tid].deal = d
    /\ transfers[tid].block <= now
    /\ transfers[tid].account = who
    /\ ~transfers[tid].processed
    /\ MutateDealAndTransfer(d, tid, [deals[d] EXCEPT !.repayment = tid])
    /\ UNCHANGED <<now, addresses, usedGuids, asks, bids, offers, xferTasks,
                   ccTasks, collected, balance, authorities, ccContract, pool, failed>>

CloseDealOrder(who, d, tid) ==
    /\ d \in DOMAIN deals
    /\ tid \in DOMAIN transfers
    /\ Owns(who, deals[d].borrowerAddr)
    /\ now >= deals[d].ts
    /\ deals[d].repayment = None
    /\ deals[d].lock # None
    /\ transfers[tid].deal = d
    /\ transfers[tid].block <= now
    /\ transfers[tid].account = who
    /\ ~transfers[tid].processed
    /\ MutateDealAndTransfer(d, tid, [deals[d] EXCEPT !.repayment = tid])
    /\ UNCHANGED <<now, addresses, usedGuids, asks, bids, offers, xferTasks,
                   ccTasks, collected, balance, authorities, ccContract, pool, failed>>

\* The id of exempt's synthetic transfer: TransferId::new(lender chain, "0").
FakeTransferId(d) == <<Chain[deals[d].lenderAddr], Tx0>>

Exempt(who, d) ==
    /\ d \in DOMAIN deals
    /\ deals[d].repayment = None
    /\ Owns(who, deals[d].lenderAddr)
    /\ deals' = [deals EXCEPT ![d].repayment = FakeTransferId(d)]
    /\ UNCHANGED <<now, addresses, usedGuids, asks, bids, offers, oracleVars>>

-----------------------------------------------------------------------------
(* A new block: the pallet's on_initialize reaper, and the scheduler's     *)
(* expiry of the tasks whose deadline is the new block (from the spec).    *)

ExpireTasks(n) ==
    /\ xferTasks' = Drop(xferTasks, {k \in DOMAIN xferTasks : k[1] = n})
    /\ ccTasks' = {k \in ccTasks : k[1] # n}

Tick ==
    /\ NewBlock
    /\ ExpireTasks(now + 1)
    /\ UNCHANGED <<transfers, collected, balance, authorities, ccContract, pool, failed>>

-----------------------------------------------------------------------------
Next ==
    \/ OrderBookStep
    \/ \E who \in Accounts, d \in DOMAIN deals, tx \in TxIds :
         \/ RegisterFundingTransfer(who, d, tx)
         \/ \E amt \in Amounts : RegisterRepaymentTransfer(who, amt, d, tx)
    \/ \E who \in Accounts, a \in ExtAddrs, tx \in TxIds : RequestCollectCoins(who, a, tx)
    \/ \E k \in Contracts : SetCollectCoinsContract(k)
    \/ \E auth \in authorities, ok \in BOOLEAN,
          key \in DOMAIN xferTasks \cup ccTasks : OffchainVerify(auth, key, ok)
    \/ \E s \in pool : PersistTaskOutput(s) \/ FailTask(s)
    \/ \E a \in Accounts : AddAuthority(a) \/ RemoveAuthority(a)
    \/ \E who \in Accounts, d \in DOMAIN deals :
         \/ LockDealOrder(who, d)
         \/ Exempt(who, d)
         \/ \E tid \in DOMAIN transfers :
              FundDealOrder(who, d, tid) \/ CloseDealOrder(who, d, tid)
    \/ Tick

Spec == Init /\ [][Next]_vars

(* The chain keeps producing blocks, and every block starts with the       *)
(* pallet's on_initialize: Tick is weakly fair.  No call of a user, of     *)
(* root or of an offchain worker is assumed ever to happen.               *)
FairSpec == Spec /\ WF_vars(Tick)

-----------------------------------------------------------------------------
(* Invariants. *)

\* f is a map from a subset of D to R.
IsMap(f, D, R) == DOMAIN f \subseteq D /\ \A x \in DOMAIN f : f[x] \in R

TypeOK ==
    /\ now \in Blocks
    /\ IsMap(addresses, ExtAddrs, Accounts)
    /\ usedGuids \subseteq Guids
    /\ IsMap(asks, AskIds, AskRec)
    /\ IsMap(bids, BidIds, BidRec)
    /\ IsMap(offers, OfferIds, OfferRec)
    /\ IsMap(deals, DealIds, DealRec(TransferIds))
    /\ IsMap(transfers, TransferIds, TransferRec)
    /\ IsMap(xferTasks, Deadlines \X TransferIds, Claims)
    /\ ccTasks \subseteq Deadlines \X CCIds
    /\ collected \subseteq CCIds
    /\ balance \in [Accounts -> Nat]
    /\ authorities \subseteq Accounts
    /\ ccContract \in Contracts
    /\ pool \subseteq Submissions
    /\ failed \subseteq TransferIds \cup CCIds

(* fund_deal_order: a funded deal points at a verified transfer that was   *)
(* claimed for this very deal, for the loan amount, by the owner of the    *)
(* lender address, and that transfer is marked processed.  Breaking it     *)
(* takes a registration, an oracle commit and a funding call.              *)
FundingVerified ==
    \A d \in DOMAIN deals : deals[d].funding # None =>
        LET t == deals[d].funding
        IN /\ t \in DOMAIN transfers
           /\ transfers[t].deal = d
           /\ transfers[t].processed
           /\ transfers[t].amount = Amount[deals[d].terms]
           /\ Owns(transfers[t].account, deals[d].lenderAddr)

(* close_deal_order: a deal closed by a real repayment (not exempt's       *)
(* synthetic transfer) was locked, and points at a processed transfer of   *)
(* this deal, claimed by the owner of the borrower address, distinct from  *)
(* the funding transfer.                                                   *)
RepaymentVerified ==
    \A d \in DOMAIN deals :
        deals[d].repayment # None /\ deals[d].repayment[2] # Tx0 =>
            LET t == deals[d].repayment
            IN /\ t \in DOMAIN transfers
               /\ transfers[t].deal = d
               /\ transfers[t].processed
               /\ Owns(transfers[t].account, deals[d].borrowerAddr)
               /\ deals[d].lock # None
               /\ t # deals[d].funding

(* The dual mutation of fund/close and the reaper together: a transfer is  *)
(* processed only if the deal it was claimed for is still stored and uses  *)
(* it, as funding or as repayment.                                         *)
ProcessedTransfersUsed ==
    \A t \in DOMAIN transfers : transfers[t].processed =>
        LET d == transfers[t].deal
        IN d \in DOMAIN deals /\ (deals[d].funding = t \/ deals[d].repayment = t)

(* persist_task_output (CollectCoins): each collect-coins claim is minted  *)
(* exactly when it is recorded, and at most once: every account's balance *)
(* is its initial balance plus the amount of the claims committed for its *)
(* addresses, however authorities' submissions race and whether or not a   *)
(* mint overflows.                                                         *)
CollectedMintedOnce ==
    \A a \in Accounts :
        balance[a] = InitBalance[a] + CCAmount * Cardinality({id \in collected : Owns(a, id[1])})

\* new is the deal record old with its Option field f filled in, and
\* otherwise equal to old but for the fields in Also.
Fills(old, new, f, Also) ==
    /\ old[f] = None
    /\ new[f] # None
    /\ \A g \in DOMAIN old \ ({f} \cup Also) : new[g] = old[g]

\* The ways one step may change a stored deal record old into new.
DealChange(old, new) ==
    \/ new = old
    \/ Fills(old, new, "funding", {"ts"}) /\ old.ts <= new.ts
    \/ Fills(old, new, "lock", {})
    \/ Fills(old, new, "repayment", {})

(* fund_deal_order, lock_deal_order, close_deal_order and exempt each fill *)
(* in one empty Option field of a stored deal (fund_deal_order also moves *)
(* its timestamp, never back), and no call rewrites a stored deal in any  *)
(* other way: not add_deal_order or register_deal_order, which refuse an  *)
(* existing deal id (DuplicateDealOrder), and not the reaper.  A deal is  *)
(* never funded, locked or repaid twice, and its parties and terms never  *)
(* change.                                                                 *)
DealWriteOnce ==
    [][\A d \in DOMAIN deals \cap DOMAIN deals' : DealChange(deals[d], deals'[d])]_vars

-----------------------------------------------------------------------------
(* Refinement: the pallet implements the ledger of module VerifiedLedger.  *)
(* A verified transfer's claim is its order id, amount and account; it is  *)
(* spent once it is processed; the minted claims are CollectedCoins and    *)
(* the credit is the account balance.                                      *)

ClaimOf(t) == [deal |-> transfers[t].deal, amount |-> transfers[t].amount,
               account |-> transfers[t].account]

Ledger == INSTANCE VerifiedLedger
            WITH XferIds <- TransferIds, ClaimValues <- Claims, CoinIds <- CCIds,
                 Holders <- Accounts, Credit0 <- InitBalance, MintAmount <- CCAmount,
                 verified <- [t \in DOMAIN transfers |-> ClaimOf(t)],
                 spent <- {t \in DOMAIN transfers : transfers[t].processed},
                 minted <- collected,
                 credit <- balance

(* persist_task_output, fund_deal_order, close_deal_order and every other *)
(* call together implement the ledger: a verified transfer claim is never *)
(* overwritten or removed, is_processed is set once and only on a verified *)
(* transfer, one transfer per step, and a collect-coins claim is minted     *)
(* once, crediting one account.                                            *)
LedgerRefined == Ledger!Spec

-----------------------------------------------------------------------------
(* Liveness, under FairSpec. *)

(* on_initialize clears the ask, bid and offer prefixes of each new block: *)
(* an order or offer stored before its expiration block is removed once    *)
(* that block begins, whatever users do in between.                        *)
OrdersReaped ==
    /\ \A id \in AskIds : (id \in DOMAIN asks /\ now < Expiration(id)) ~> id \notin DOMAIN asks
    /\ \A id \in BidIds : (id \in DOMAIN bids /\ now < Expiration(id)) ~> id \notin DOMAIN bids
    /\ \A id \in OfferIds :
           (id \in DOMAIN offers /\ now < Expiration(id)) ~> id \notin DOMAIN offers

-----------------------------------------------------------------------------
(* Properties the spec or the code's comments state and the code breaks   *)
(* (each checked by a run expected to find a violation).                   *)

(* Spec 4.4/8: Exempted is terminal: once a repayment reference is set     *)
(* (closed or exempted), the deal is neither funded nor locked afterwards. *)
ExemptionFinal ==
    [][\A d \in DOMAIN deals :
         deals[d].repayment # None /\ d \in DOMAIN deals' =>
            /\ deals'[d].funding = deals[d].funding
            /\ deals'[d].lock = deals[d].lock]_vars

(* Spec 5: the commit-time existence check makes the first outcome for a   *)
(* claim final: no claim is both failed and verified.                      *)
OneOutcomePerClaim ==
    \A id \in failed : id \notin DOMAIN transfers /\ id \notin collected

=============================================================================
