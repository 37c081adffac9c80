--------------------------- MODULE CreditcoinProofs --------------------------
(***************************************************************************)
(* Proofs about the Creditcoin specification, for every value of the      *)
(* constants that satisfies OrderBookAssumption and CreditcoinAssumption.  *)
(*                                                                         *)
(* TypeOK alone is not inductive: persist_task_output reads the claim of   *)
(* a transfer task out of the submission, so the type of a committed       *)
(* transfer depends on every submission for a transfer task carrying a     *)
(* claim.  PoolClaims states that; the inductive invariant IInv is TypeOK  *)
(* with it.                                                                *)
(***************************************************************************)
EXTENDS Creditcoin, TLAPS

\* Every in-flight submission for a transfer task carries the task's claim.
PoolClaims == \A s \in pool : s.id \in TransferIds => s.claim \in Claims

IInv == TypeOK /\ PoolClaims

-----------------------------------------------------------------------------
(* Lemmas about the storage-map helpers. *)

LEMMA PutIsMap ==
    ASSUME NEW f, NEW D, NEW R, NEW k \in D, NEW v \in R, IsMap(f, D, R)
    PROVE  IsMap(Put(f, k, v), D, R)
BY DEF IsMap, Put

LEMMA DropIsMap ==
    ASSUME NEW f, NEW D, NEW R, NEW S, IsMap(f, D, R)
    PROVE  IsMap(Drop(f, S), D, R)
BY DEF IsMap, Drop

LEMMA ExceptIsMap ==
    ASSUME NEW f, NEW D, NEW R, NEW k, NEW v \in R, IsMap(f, D, R), k \in DOMAIN f
    PROVE  IsMap([f EXCEPT ![k] = v], D, R)
BY DEF IsMap

\* A transfer id is a pair, a collect-coins id a triple: they never collide.
LEMMA IdsDisjoint ==
    TransferIds \cap CCIds = {}
<1> SUFFICES ASSUME NEW x \in TransferIds, x \in CCIds PROVE FALSE
    OBVIOUS
<1>1. PICK c, t : x = <<c, t>>
    BY DEF TransferIds
<1>2. PICK a, y, k : x = <<a, y, k>>
    BY DEF CCIds
<1>3. DOMAIN <<c, t>> # DOMAIN <<a, y, k>>
    OBVIOUS
<1> QED
    BY <1>1, <1>2, <1>3

-----------------------------------------------------------------------------
(* The initial state. *)

LEMMA InitIInv == Init => IInv
BY OrderBookAssumption, CreditcoinAssumption
   DEF Init, obInit, IInv, TypeOK, PoolClaims, IsMap, Blocks

-----------------------------------------------------------------------------
(* One lemma per call: each preserves IInv. *)

LEMMA RegisterAddressIInv ==
    ASSUME IInv, NEW who \in Accounts, NEW a \in ExtAddrs,
           RegisterAddress(who, a) \/ RegisterAddressV2(who, a),
           UNCHANGED oracleVars
    PROVE  IInv'
<1>1. InsertAddress(who, a)
    BY DEF RegisterAddress, RegisterAddressV2
<1>2. IsMap(addresses', ExtAddrs, Accounts)
    BY <1>1, PutIsMap DEF InsertAddress, IInv, TypeOK
<1> QED
    BY <1>1, <1>2 DEF InsertAddress, IInv, TypeOK, PoolClaims, oracleVars

LEMMA AddOrderIInv ==
    ASSUME IInv, NEW who \in Accounts, NEW a \in ExtAddrs, NEW t \in Terms,
           NEW exp \in Blocks, NEW g \in Guids,
           AddAskOrder(who, a, t, exp, g) \/ AddBidOrder(who, a, t, exp, g),
           UNCHANGED oracleVars
    PROVE  IInv'
<1>1. CASE AddAskOrder(who, a, t, exp, g)
    <2>1. IsMap(asks', AskIds, AskRec)
        BY <1>1, PutIsMap DEF AddAskOrder, AskIds, AskRec, IInv, TypeOK
    <2>2. usedGuids' \subseteq Guids
        BY <1>1 DEF AddAskOrder, UseGuid, IInv, TypeOK
    <2> QED
        BY <1>1, <2>1, <2>2 DEF AddAskOrder, IInv, TypeOK, PoolClaims, oracleVars
<1>2. CASE AddBidOrder(who, a, t, exp, g)
    <2>1. IsMap(bids', BidIds, BidRec)
        BY <1>2, PutIsMap DEF AddBidOrder, BidIds, BidRec, IInv, TypeOK
    <2>2. usedGuids' \subseteq Guids
        BY <1>2 DEF AddBidOrder, UseGuid, IInv, TypeOK
    <2> QED
        BY <1>2, <2>1, <2>2 DEF AddBidOrder, IInv, TypeOK, PoolClaims, oracleVars
<1> QED
    BY <1>1, <1>2

LEMMA AddOfferIInv ==
    ASSUME IInv, NEW who \in Accounts, NEW askId \in DOMAIN asks,
           NEW bidId \in DOMAIN bids, NEW exp \in Blocks,
           AddOffer(who, askId, bidId, exp), UNCHANGED oracleVars
    PROVE  IInv'
<1>1. <<exp, askId, bidId>> \in OfferIds
    BY DEF IInv, TypeOK, IsMap, OfferIds
<1>2. IsMap(offers', OfferIds, OfferRec)
    BY <1>1, PutIsMap DEF AddOffer, OfferRec, IInv, TypeOK
<1> QED
    BY <1>2 DEF AddOffer, IInv, TypeOK, PoolClaims, oracleVars

\* A deal record built from stored, well-typed orders is well typed.
LEMMA NewDealType ==
    ASSUME IInv, NEW la \in ExtAddrs, NEW ba \in ExtAddrs, NEW t \in Terms,
           NEW b \in Accounts
    PROVE  NewDeal(la, ba, t, b) \in DealRec(TransferIds)
BY DEF NewDeal, DealRec, IInv, TypeOK

LEMMA AddDealOrderIInv ==
    ASSUME IInv, NEW who \in Accounts, NEW offerId \in DOMAIN offers,
           NEW exp \in Blocks, AddDealOrder(who, offerId, exp),
           UNCHANGED oracleVars
    PROVE  IInv'
<1> DEFINE askId == offerId[2]
           bidId == offerId[3]
<1>1. offerId \in OfferIds
    BY DEF IInv, TypeOK, IsMap
<1>2. askId \in DOMAIN asks /\ bidId \in DOMAIN bids
    BY DEF AddDealOrder
<1>3. asks[askId] \in AskRec /\ bids[bidId] \in BidRec
    BY <1>2 DEF IInv, TypeOK, IsMap
<1>4. NewDeal(asks[askId].addr, bids[bidId].addr, asks[askId].terms, who)
        \in DealRec(TransferIds)
    BY <1>3, NewDealType, OrderBookAssumption DEF AskRec, BidRec
<1>5. <<exp, offerId>> \in DealIds
    BY <1>1 DEF DealIds
<1>6. IsMap(deals', DealIds, DealRec(TransferIds))
    BY <1>4, <1>5, PutIsMap DEF AddDealOrder, IInv, TypeOK
<1> QED
    BY <1>6 DEF AddDealOrder, IInv, TypeOK, PoolClaims, oracleVars

LEMMA RegisterDealOrderIInv ==
    ASSUME IInv, NEW who \in Accounts, NEW b \in Accounts, NEW la \in ExtAddrs,
           NEW ba \in ExtAddrs, NEW t \in Terms, NEW exp \in Blocks,
           NEW ag \in Guids, NEW bg \in Guids,
           RegisterDealOrder(who, b, la, ba, t, exp, ag, bg),
           UNCHANGED oracleVars
    PROVE  IInv'
<1> DEFINE askId   == <<exp, ag>>
           bidId   == <<exp, bg>>
           offerId == <<exp, askId, bidId>>
<1>1. t \in ValidTerms
    BY DEF RegisterDealOrder
<1>2. IsMap(asks', AskIds, AskRec)
    BY <1>1, PutIsMap DEF RegisterDealOrder, AskIds, AskRec, IInv, TypeOK
<1>3. IsMap(bids', BidIds, BidRec)
    BY <1>1, PutIsMap DEF RegisterDealOrder, BidIds, BidRec, IInv, TypeOK
<1>4. IsMap(offers', OfferIds, OfferRec)
    BY PutIsMap DEF RegisterDealOrder, OfferIds, AskIds, BidIds, OfferRec, IInv, TypeOK
<1>5. <<exp, offerId>> \in DealIds
    BY DEF DealIds, OfferIds, AskIds, BidIds
<1>6. IsMap(deals', DealIds, DealRec(TransferIds))
    BY <1>5, NewDealType, PutIsMap DEF RegisterDealOrder, IInv, TypeOK
<1> QED
    BY <1>2, <1>3, <1>4, <1>6 DEF RegisterDealOrder, IInv, TypeOK, PoolClaims, oracleVars

LEMMA RegisterTransferIInv ==
    ASSUME IInv, NEW who \in Accounts, NEW d \in DOMAIN deals, NEW tx \in TxIds,
           \/ RegisterFundingTransfer(who, d, tx)
           \/ \E amt \in Amounts : RegisterRepaymentTransfer(who, amt, d, tx)
    PROVE  IInv'
<1>1. PICK from \in ExtAddrs, amount \in Amounts :
          RegisterTransferInternal(who, from, amount, d, tx)
    <2>1. deals[d] \in DealRec(TransferIds)
        BY DEF IInv, TypeOK, IsMap
    <2> QED
        BY <2>1, OrderBookAssumption
        DEF RegisterFundingTransfer, RegisterRepaymentTransfer, DealRec
<1>2. <<Deadline, <<Chain[from], tx>>>> \in Deadlines \X TransferIds
    BY OrderBookAssumption, CreditcoinAssumption
    DEF Deadline, Deadlines, TransferIds, IInv, TypeOK, Blocks
<1>3. [deal |-> d, amount |-> amount, account |-> who] \in Claims
    BY DEF Claims, IInv, TypeOK, IsMap
<1>4. IsMap(xferTasks', Deadlines \X TransferIds, Claims)
    BY <1>1, <1>2, <1>3, PutIsMap DEF RegisterTransferInternal, IInv, TypeOK
<1> QED
    BY <1>1, <1>4 DEF RegisterTransferInternal, IInv, TypeOK, PoolClaims, obVars

LEMMA RequestCollectCoinsIInv ==
    ASSUME IInv, NEW who \in Accounts, NEW a \in ExtAddrs, NEW tx \in TxIds,
           RequestCollectCoins(who, a, tx)
    PROVE  IInv'
<1>1. <<Deadline, <<a, tx, ccContract>>>> \in Deadlines \X CCIds
    BY OrderBookAssumption, CreditcoinAssumption
    DEF Deadline, Deadlines, CCIds, IInv, TypeOK, Blocks
<1> QED
    BY <1>1 DEF RequestCollectCoins, IInv, TypeOK, PoolClaims, obVars

LEMMA AdminIInv ==
    ASSUME IInv,
           \/ \E k \in Contracts : SetCollectCoinsContract(k)
           \/ \E a \in Accounts : AddAuthority(a) \/ RemoveAuthority(a)
    PROVE  IInv'
BY DEF SetCollectCoinsContract, AddAuthority, RemoveAuthority,
       IInv, TypeOK, PoolClaims, obVars

LEMMA OffchainVerifyIInv ==
    ASSUME IInv, NEW auth \in authorities, NEW ok \in BOOLEAN,
           NEW key \in DOMAIN xferTasks \cup ccTasks, OffchainVerify(auth, key, ok)
    PROVE  IInv'
<1> DEFINE s == [who |-> auth, deadline |-> key[1], id |-> key[2], ok |-> ok,
                 claim |-> IF key \in DOMAIN xferTasks THEN xferTasks[key] ELSE None]
<1>1. pool' = pool \cup {s}
    BY DEF OffchainVerify
<1>2. CASE key \in DOMAIN xferTasks
    <2>1. key \in Deadlines \X TransferIds /\ xferTasks[key] \in Claims
        BY <1>2 DEF IInv, TypeOK, IsMap
    <2>2. s \in Submissions /\ (s.id \in TransferIds => s.claim \in Claims)
        BY <1>2, <2>1 DEF Submissions, IInv, TypeOK
    <2> QED
        BY <1>1, <2>2 DEF OffchainVerify, IInv, TypeOK, PoolClaims, obVars
<1>3. CASE key \notin DOMAIN xferTasks
    <2>1. key \in Deadlines \X CCIds
        BY <1>3 DEF IInv, TypeOK
    <2>2. key[2] \notin TransferIds
        BY <2>1, IdsDisjoint
    <2>3. s \in Submissions /\ (s.id \in TransferIds => s.claim \in Claims)
        BY <1>3, <2>1, <2>2 DEF Submissions, IInv, TypeOK
    <2> QED
        BY <1>1, <2>3 DEF OffchainVerify, IInv, TypeOK, PoolClaims, obVars
<1> QED
    BY <1>2, <1>3

\* TaskScheduler::remove keeps both task stores well typed.
LEMMA RemoveTaskType ==
    ASSUME IInv, NEW dl, NEW id, RemoveTask(dl, id)
    PROVE  /\ IsMap(xferTasks', Deadlines \X TransferIds, Claims)
           /\ ccTasks' \subseteq Deadlines \X CCIds
BY DropIsMap DEF RemoveTask, IInv, TypeOK

LEMMA PersistTaskOutputIInv ==
    ASSUME IInv, NEW s \in pool, PersistTaskOutput(s)
    PROVE  IInv'
<1>1. s \in Submissions
    BY DEF IInv, TypeOK
<1>2. RemoveTask(s.deadline, s.id)
    BY DEF PersistTaskOutput
<1>3. /\ IsMap(xferTasks', Deadlines \X TransferIds, Claims)
      /\ ccTasks' \subseteq Deadlines \X CCIds
    BY <1>2, RemoveTaskType
<1>4. pool' \subseteq pool
    BY DEF PersistTaskOutput
<1>5. CASE PersistTransfer(s)
    <2>1. s.id \in TransferIds /\ s.claim \in Claims
        BY <1>5 DEF PersistTransfer, IInv, PoolClaims
    <2>2. [deal |-> s.claim.deal, amount |-> s.claim.amount,
           account |-> s.claim.account, processed |-> FALSE, block |-> now]
            \in TransferRec
        BY <2>1 DEF Claims, TransferRec, IInv, TypeOK
    <2>3. IsMap(transfers', TransferIds, TransferRec)
        BY <1>5, <2>1, <2>2, PutIsMap DEF PersistTransfer, IInv, TypeOK
    <2> QED
        BY <1>3, <1>4, <1>5, <2>3
        DEF PersistTaskOutput, PersistTransfer, IInv, TypeOK, PoolClaims, obVars
<1>6. CASE PersistCollectCoins(s)
    <2>1. s.id \in CCIds /\ s.id[1] \in DOMAIN addresses
        BY <1>6 DEF PersistCollectCoins
    <2>2. addresses[s.id[1]] \in Accounts
        BY <2>1 DEF IInv, TypeOK, IsMap
    <2>3. balance' \in [Accounts -> Nat]
        BY <1>6, <2>2, CreditcoinAssumption DEF PersistCollectCoins, IInv, TypeOK
    <2>4. collected' \subseteq CCIds
        BY <1>6, <2>1 DEF PersistCollectCoins, IInv, TypeOK
    <2> QED
        BY <1>3, <1>4, <1>6, <2>3, <2>4
        DEF PersistTaskOutput, PersistCollectCoins, IInv, TypeOK, PoolClaims, obVars
<1> QED
    BY <1>5, <1>6 DEF PersistTaskOutput

LEMMA FailTaskIInv ==
    ASSUME IInv, NEW s \in pool, FailTask(s)
    PROVE  IInv'
<1>1. s \in Submissions
    BY DEF IInv, TypeOK
<1>2. /\ IsMap(xferTasks', Deadlines \X TransferIds, Claims)
      /\ ccTasks' \subseteq Deadlines \X CCIds
    BY RemoveTaskType DEF FailTask
<1>3. failed' \subseteq TransferIds \cup CCIds
    BY <1>1 DEF FailTask, Submissions, IInv, TypeOK
<1> QED
    BY <1>2, <1>3 DEF FailTask, IInv, TypeOK, PoolClaims, obVars

\* try_mutate_deal_order_and_transfer keeps both maps well typed.
LEMMA MutateDealAndTransferType ==
    ASSUME IInv, NEW d, NEW tid, NEW deal \in DealRec(TransferIds),
           MutateDealAndTransfer(d, tid, deal)
    PROVE  /\ IsMap(deals', DealIds, DealRec(TransferIds))
           /\ IsMap(transfers', TransferIds, TransferRec)
<1>1. IsMap(deals', DealIds, DealRec(TransferIds))
    BY ExceptIsMap DEF MutateDealAndTransfer, IInv, TypeOK
<1>2. [transfers[tid] EXCEPT !.processed = TRUE] \in TransferRec
    BY DEF MutateDealAndTransfer, IInv, TypeOK, IsMap, TransferRec
<1>3. IsMap(transfers', TransferIds, TransferRec)
    BY <1>2, ExceptIsMap DEF MutateDealAndTransfer, IInv, TypeOK
<1> QED
    BY <1>1, <1>3

LEMMA DealLifecycleIInv ==
    ASSUME IInv, NEW who \in Accounts, NEW d \in DOMAIN deals,
           \/ LockDealOrder(who, d)
           \/ Exempt(who, d)
           \/ \E tid \in DOMAIN transfers :
                 FundDealOrder(who, d, tid) \/ CloseDealOrder(who, d, tid)
    PROVE  IInv'
<1>1. deals[d] \in DealRec(TransferIds)
    BY DEF IInv, TypeOK, IsMap
<1>2. CASE LockDealOrder(who, d)
    <2>1. IsMap(deals', DealIds, DealRec(TransferIds))
        BY <1>1, <1>2, ExceptIsMap DEF LockDealOrder, DealRec, IInv, TypeOK
    <2> QED
        BY <1>2, <2>1 DEF LockDealOrder, IInv, TypeOK, PoolClaims, oracleVars
<1>3. CASE Exempt(who, d)
    <2>1. FakeTransferId(d) \in TransferIds
        BY <1>1, OrderBookAssumption DEF FakeTransferId, DealRec, TransferIds
    <2>2. IsMap(deals', DealIds, DealRec(TransferIds))
        BY <1>1, <1>3, <2>1, ExceptIsMap DEF Exempt, DealRec, IInv, TypeOK
    <2> QED
        BY <1>3, <2>2 DEF Exempt, IInv, TypeOK, PoolClaims, oracleVars
<1>4. ASSUME NEW tid \in DOMAIN transfers, FundDealOrder(who, d, tid)
      PROVE  IInv'
    <2>1. tid \in TransferIds /\ now \in Blocks
        BY DEF IInv, TypeOK, IsMap
    <2>2. [deals[d] EXCEPT !.funding = tid, !.ts = now] \in DealRec(TransferIds)
        BY <1>1, <2>1 DEF DealRec
    <2>3. /\ IsMap(deals', DealIds, DealRec(TransferIds))
          /\ IsMap(transfers', TransferIds, TransferRec)
        BY <1>4, <2>2, MutateDealAndTransferType DEF FundDealOrder
    <2> QED
        BY <1>4, <2>3 DEF FundDealOrder, IInv, TypeOK, PoolClaims
<1>5. ASSUME NEW tid \in DOMAIN transfers, CloseDealOrder(who, d, tid)
      PROVE  IInv'
    <2>1. tid \in TransferIds
        BY DEF IInv, TypeOK, IsMap
    <2>2. [deals[d] EXCEPT !.repayment = tid] \in DealRec(TransferIds)
        BY <1>1, <2>1 DEF DealRec
    <2>3. /\ IsMap(deals', DealIds, DealRec(TransferIds))
          /\ IsMap(transfers', TransferIds, TransferRec)
        BY <1>5, <2>2, MutateDealAndTransferType DEF CloseDealOrder
    <2> QED
        BY <1>5, <2>3 DEF CloseDealOrder, IInv, TypeOK, PoolClaims
<1> QED
    BY <1>2, <1>3, <1>4, <1>5

LEMMA TickIInv ==
    ASSUME IInv, Tick
    PROVE  IInv'
<1>1. now' \in Blocks
    BY OrderBookAssumption DEF Tick, NewBlock, IInv, TypeOK, Blocks
<1>2. /\ IsMap(asks', AskIds, AskRec)
      /\ IsMap(bids', BidIds, BidRec)
      /\ IsMap(offers', OfferIds, OfferRec)
      /\ IsMap(deals', DealIds, DealRec(TransferIds))
    BY DropIsMap DEF Tick, NewBlock, OnInitialize, IInv, TypeOK
<1>3. /\ IsMap(xferTasks', Deadlines \X TransferIds, Claims)
      /\ ccTasks' \subseteq Deadlines \X CCIds
    BY DropIsMap DEF Tick, ExpireTasks, IInv, TypeOK
<1> QED
    BY <1>1, <1>2, <1>3 DEF Tick, NewBlock, IInv, TypeOK, PoolClaims

-----------------------------------------------------------------------------
(* The inductive step and the type-correctness theorem. *)

LEMMA NextIInv == IInv /\ [Next]_vars => IInv'
<1> SUFFICES ASSUME IInv, [Next]_vars PROVE IInv'
    OBVIOUS
<1>1. CASE OrderBookStep
    <2>1. UNCHANGED oracleVars
        BY <1>1 DEF OrderBookStep
    <2> QED
        BY <1>1, <2>1, RegisterAddressIInv, AddOrderIInv, AddOfferIInv,
           AddDealOrderIInv, RegisterDealOrderIInv
        DEF OrderBookStep
<1>2. CASE \E who \in Accounts, d \in DOMAIN deals, tx \in TxIds :
             \/ RegisterFundingTransfer(who, d, tx)
             \/ \E amt \in Amounts : RegisterRepaymentTransfer(who, amt, d, tx)
    BY <1>2, RegisterTransferIInv
<1>3. CASE \E who \in Accounts, a \in ExtAddrs, tx \in TxIds :
             RequestCollectCoins(who, a, tx)
    BY <1>3, RequestCollectCoinsIInv
<1>4. CASE \/ \E k \in Contracts : SetCollectCoinsContract(k)
           \/ \E a \in Accounts : AddAuthority(a) \/ RemoveAuthority(a)
    BY <1>4, AdminIInv
<1>5. CASE \E auth \in authorities, ok \in BOOLEAN,
             key \in DOMAIN xferTasks \cup ccTasks : OffchainVerify(auth, key, ok)
    BY <1>5, OffchainVerifyIInv
<1>6. CASE \E s \in pool : PersistTaskOutput(s) \/ FailTask(s)
    BY <1>6, PersistTaskOutputIInv, FailTaskIInv
<1>7. CASE \E who \in Accounts, d \in DOMAIN deals :
             \/ LockDealOrder(who, d)
             \/ Exempt(who, d)
             \/ \E tid \in DOMAIN transfers :
                  FundDealOrder(who, d, tid) \/ CloseDealOrder(who, d, tid)
    BY <1>7, DealLifecycleIInv
<1>8. CASE Tick
    BY <1>8, TickIInv
<1>9. CASE UNCHANGED vars
    BY <1>9 DEF vars, obVars, oracleVars, IInv, TypeOK, PoolClaims
<1> QED
    BY <1>1, <1>2, <1>3, <1>4, <1>5, <1>6, <1>7, <1>8, <1>9 DEF Next

(* Type correctness of the whole pallet model: every reachable state is    *)
(* well typed, in particular every persisted transfer carries the claim    *)
(* its offchain worker read from the scheduled task, stamped with a block  *)
(* of the behaviour, and every funding, lock and repayment field of a deal *)
(* holds a transfer id, an account or None.                                *)
THEOREM TypeCorrect == Spec => []TypeOK
<1>1. Init => IInv
    BY InitIInv
<1>2. IInv /\ [Next]_vars => IInv'
    BY NextIInv
<1>3. IInv => TypeOK
    BY DEF IInv
<1> QED
    BY <1>1, <1>2, <1>3, PTL DEF Spec

-----------------------------------------------------------------------------
(* Funding safety.  FundingVerified is inductive together with IInv: the   *)
(* only step that sets a funding field is fund_deal_order, which checks    *)
(* exactly what the invariant states, and every other step keeps the      *)
(* facts the invariant reads (a verified transfer's claim, a registered    *)
(* address's owner, a funded deal's terms and lender address).             *)

\* Verified transfers are kept, with their claim; is_processed only latches.
TransfersKept ==
    \A t \in DOMAIN transfers :
        /\ t \in DOMAIN transfers'
        /\ transfers'[t].deal = transfers[t].deal
        /\ transfers'[t].amount = transfers[t].amount
        /\ transfers'[t].account = transfers[t].account
        /\ transfers[t].processed => transfers'[t].processed

\* Registered addresses keep their owner.
AddressesKept ==
    \A a \in DOMAIN addresses : a \in DOMAIN addresses' /\ addresses'[a] = addresses[a]

\* A deal funded after the step was funded before it, with the same fields.
FundedDealsKept ==
    \A d \in DOMAIN deals' : deals'[d].funding # None =>
        /\ d \in DOMAIN deals
        /\ deals'[d].funding = deals[d].funding
        /\ deals'[d].terms = deals[d].terms
        /\ deals'[d].lenderAddr = deals[d].lenderAddr

LEMMA FundingFrame ==
    ASSUME FundingVerified, TransfersKept, AddressesKept, FundedDealsKept
    PROVE  FundingVerified'
<1> SUFFICES ASSUME NEW d \in DOMAIN deals', deals'[d].funding # None
             PROVE  /\ deals'[d].funding \in DOMAIN transfers'
                    /\ transfers'[deals'[d].funding].deal = d
                    /\ transfers'[deals'[d].funding].processed
                    /\ transfers'[deals'[d].funding].amount = Amount[deals'[d].terms]
                    /\ deals'[d].lenderAddr \in DOMAIN addresses'
                    /\ addresses'[deals'[d].lenderAddr]
                         = transfers'[deals'[d].funding].account
    BY DEF FundingVerified, Owns
<1>1. /\ d \in DOMAIN deals
      /\ deals'[d].funding = deals[d].funding
      /\ deals'[d].terms = deals[d].terms
      /\ deals'[d].lenderAddr = deals[d].lenderAddr
    BY DEF FundedDealsKept
<1> DEFINE t == deals[d].funding
           la == deals[d].lenderAddr
<1>2. /\ t \in DOMAIN transfers
      /\ transfers[t].deal = d
      /\ transfers[t].processed
      /\ transfers[t].amount = Amount[deals[d].terms]
      /\ la \in DOMAIN addresses
      /\ addresses[la] = transfers[t].account
    BY <1>1 DEF FundingVerified, Owns
<1>3. la \in DOMAIN addresses' /\ addresses'[la] = addresses[la]
    BY <1>2 DEF AddressesKept
<1>4. /\ t \in DOMAIN transfers'
      /\ transfers'[t].deal = transfers[t].deal
      /\ transfers'[t].amount = transfers[t].amount
      /\ transfers'[t].account = transfers[t].account
      /\ transfers'[t].processed
    BY <1>2 DEF TransfersKept
<1> QED
    BY <1>1, <1>2, <1>3, <1>4

\* A step that leaves deals, transfers and addresses alone keeps all three.
LEMMA UnchangedFrame ==
    ASSUME UNCHANGED <<deals, transfers, addresses>>
    PROVE  TransfersKept /\ AddressesKept /\ FundedDealsKept
BY DEF TransfersKept, AddressesKept, FundedDealsKept

\* A step that only inserts a new unfunded deal keeps the funded deals.
LEMMA NewDealFrame ==
    ASSUME NEW k, NEW v, k \notin DOMAIN deals, v.funding = None,
           deals' = Put(deals, k, v)
    PROVE  FundedDealsKept
BY DEF FundedDealsKept, Put

\* A step that rewrites one field other than funding, terms and lenderAddr of
\* one well-typed deal keeps the funded deals.
LEMMA DealFieldFrame ==
    ASSUME IInv, NEW d \in DOMAIN deals, NEW v,
           \/ deals' = [deals EXCEPT ![d].lock = v]
           \/ deals' = [deals EXCEPT ![d].repayment = v]
    PROVE  FundedDealsKept
<1>1. deals[d] \in DealRec(TransferIds)
    BY DEF IInv, TypeOK, IsMap
<1> QED
    BY <1>1 DEF FundedDealsKept, DealRec

LEMMA FundDealOrderFunding ==
    ASSUME IInv, FundingVerified, NEW who \in Accounts, NEW d \in DOMAIN deals,
           NEW tid \in DOMAIN transfers, FundDealOrder(who, d, tid)
    PROVE  FundingVerified'
<1>1. deals[d] \in DealRec(TransferIds) /\ transfers[tid] \in TransferRec
    BY DEF IInv, TypeOK, IsMap
<1>2. /\ deals' = [deals EXCEPT ![d] = [deals[d] EXCEPT !.funding = tid, !.ts = now]]
      /\ transfers' = [transfers EXCEPT ![tid].processed = TRUE]
      /\ UNCHANGED addresses
    BY DEF FundDealOrder, MutateDealAndTransfer
<1> SUFFICES ASSUME NEW e \in DOMAIN deals', deals'[e].funding # None
             PROVE  /\ deals'[e].funding \in DOMAIN transfers'
                    /\ transfers'[deals'[e].funding].deal = e
                    /\ transfers'[deals'[e].funding].processed
                    /\ transfers'[deals'[e].funding].amount = Amount[deals'[e].terms]
                    /\ deals'[e].lenderAddr \in DOMAIN addresses'
                    /\ addresses'[deals'[e].lenderAddr]
                         = transfers'[deals'[e].funding].account
    BY DEF FundingVerified, Owns
<1>3. CASE e = d
    <2>1. /\ deals'[e].funding = tid
          /\ deals'[e].terms = deals[d].terms
          /\ deals'[e].lenderAddr = deals[d].lenderAddr
        BY <1>1, <1>2, <1>3 DEF DealRec
    <2>2. /\ transfers'[tid].deal = d
          /\ transfers'[tid].processed
          /\ transfers'[tid].amount = Amount[deals[d].terms]
          /\ transfers'[tid].account = who
        BY <1>1, <1>2 DEF FundDealOrder, TransferRec
    <2>3. deals[d].lenderAddr \in DOMAIN addresses /\ addresses[deals[d].lenderAddr] = who
        BY DEF FundDealOrder, Owns
    <2> QED
        BY <1>2, <1>3, <2>1, <2>2, <2>3
<1>4. CASE e # d
    <2>1. TransfersKept
        BY <1>1, <1>2 DEF TransfersKept, IInv, TypeOK, IsMap, TransferRec
    <2>2. AddressesKept
        BY <1>2 DEF AddressesKept
    <2>3. /\ e \in DOMAIN deals
          /\ deals'[e] = deals[e]
        BY <1>2, <1>4
    <2>4. /\ deals[e].funding \in DOMAIN transfers
          /\ transfers[deals[e].funding].deal = e
          /\ transfers[deals[e].funding].processed
          /\ transfers[deals[e].funding].amount = Amount[deals[e].terms]
          /\ deals[e].lenderAddr \in DOMAIN addresses
          /\ addresses[deals[e].lenderAddr] = transfers[deals[e].funding].account
        BY <2>3 DEF FundingVerified, Owns
    <2> QED
        BY <2>1, <2>2, <2>3, <2>4 DEF TransfersKept, AddressesKept
<1> QED
    BY <1>3, <1>4

LEMMA NextFunding ==
    IInv /\ FundingVerified /\ [Next]_vars => FundingVerified'
<1> SUFFICES ASSUME IInv, FundingVerified, [Next]_vars PROVE FundingVerified'
    OBVIOUS
<1>1. CASE OrderBookStep
    <2>1. UNCHANGED transfers /\ TransfersKept
        BY <1>1 DEF OrderBookStep, oracleVars, TransfersKept
    <2>2. CASE \E who \in Accounts, a \in ExtAddrs :
                 RegisterAddress(who, a) \/ RegisterAddressV2(who, a)
        <3>1. PICK who \in Accounts, a \in ExtAddrs : InsertAddress(who, a)
            BY <2>2 DEF RegisterAddress, RegisterAddressV2
        <3>2. AddressesKept /\ FundedDealsKept
            BY <3>1 DEF InsertAddress, Put, AddressesKept, FundedDealsKept
        <3> QED
            BY <2>1, <3>2, FundingFrame
    <2>3. CASE \E who \in Accounts, a \in ExtAddrs, t \in Terms, exp \in Blocks, g \in Guids :
                 AddAskOrder(who, a, t, exp, g) \/ AddBidOrder(who, a, t, exp, g)
        BY <2>1, <2>3, UnchangedFrame, FundingFrame DEF AddAskOrder, AddBidOrder
    <2>4. CASE \E who \in Accounts, askId \in DOMAIN asks, bidId \in DOMAIN bids, exp \in Blocks :
                 AddOffer(who, askId, bidId, exp)
        BY <2>1, <2>4, UnchangedFrame, FundingFrame DEF AddOffer
    <2>5. CASE \E who \in Accounts, offerId \in DOMAIN offers, exp \in Blocks :
                 AddDealOrder(who, offerId, exp)
        <3>1. PICK who \in Accounts, offerId \in DOMAIN offers, exp \in Blocks :
                 AddDealOrder(who, offerId, exp)
            BY <2>5
        <3>2. FundedDealsKept
            <4> DEFINE askId == offerId[2]
                       bidId == offerId[3]
            <4>1. NewDeal(asks[askId].addr, bids[bidId].addr, asks[askId].terms, who).funding = None
                BY DEF NewDeal
            <4> QED
                BY <3>1, <4>1, NewDealFrame DEF AddDealOrder
        <3>3. AddressesKept
            BY <3>1 DEF AddDealOrder, AddressesKept
        <3> QED
            BY <2>1, <3>2, <3>3, FundingFrame
    <2>6. CASE \E who, b \in Accounts, la, ba \in ExtAddrs, t \in Terms, exp \in Blocks,
                 ag, bg \in Guids : RegisterDealOrder(who, b, la, ba, t, exp, ag, bg)
        <3>1. PICK who, b \in Accounts, la, ba \in ExtAddrs, t \in Terms, exp \in Blocks,
                 ag, bg \in Guids : RegisterDealOrder(who, b, la, ba, t, exp, ag, bg)
            BY <2>6
        <3>2. FundedDealsKept
            <4>1. NewDeal(la, ba, t, b).funding = None
                BY DEF NewDeal
            <4> QED
                BY <3>1, <4>1, NewDealFrame DEF RegisterDealOrder
        <3>3. AddressesKept
            BY <3>1 DEF RegisterDealOrder, AddressesKept
        <3> QED
            BY <2>1, <3>2, <3>3, FundingFrame
    <2> QED
        BY <1>1, <2>2, <2>3, <2>4, <2>5, <2>6 DEF OrderBookStep
<1>2. CASE \/ \E who \in Accounts, d \in DOMAIN deals, tx \in TxIds :
                \/ RegisterFundingTransfer(who, d, tx)
                \/ \E amt \in Amounts : RegisterRepaymentTransfer(who, amt, d, tx)
           \/ \E who \in Accounts, a \in ExtAddrs, tx \in TxIds : RequestCollectCoins(who, a, tx)
           \/ \E k \in Contracts : SetCollectCoinsContract(k)
           \/ \E auth \in authorities, ok \in BOOLEAN,
                 key \in DOMAIN xferTasks \cup ccTasks : OffchainVerify(auth, key, ok)
           \/ \E s \in pool : FailTask(s)
           \/ \E a \in Accounts : AddAuthority(a) \/ RemoveAuthority(a)
    <2>1. UNCHANGED <<deals, transfers, addresses>>
        BY <1>2 DEF RegisterFundingTransfer, RegisterRepaymentTransfer,
           RegisterTransferInternal, RequestCollectCoins, SetCollectCoinsContract,
           OffchainVerify, FailTask, AddAuthority, RemoveAuthority, obVars
    <2> QED
        BY <2>1, UnchangedFrame, FundingFrame
<1>3. CASE \E s \in pool : PersistTaskOutput(s)
    <2>1. PICK s \in pool : PersistTaskOutput(s)
        BY <1>3
    <2>2. TransfersKept
        BY <2>1 DEF PersistTaskOutput, PersistTransfer, PersistCollectCoins, Put,
           TransfersKept
    <2>3. UNCHANGED <<deals, addresses>>
        BY <2>1 DEF PersistTaskOutput, obVars
    <2> QED
        BY <2>2, <2>3, FundingFrame DEF AddressesKept, FundedDealsKept
<1>4. CASE \E who \in Accounts, d \in DOMAIN deals :
             \/ LockDealOrder(who, d)
             \/ Exempt(who, d)
             \/ \E tid \in DOMAIN transfers :
                  FundDealOrder(who, d, tid) \/ CloseDealOrder(who, d, tid)
    <2>1. PICK who \in Accounts, d \in DOMAIN deals :
             \/ LockDealOrder(who, d)
             \/ Exempt(who, d)
             \/ \E tid \in DOMAIN transfers :
                  FundDealOrder(who, d, tid) \/ CloseDealOrder(who, d, tid)
        BY <1>4
    <2>2. CASE LockDealOrder(who, d) \/ Exempt(who, d)
        <3>1. UNCHANGED <<transfers, addresses>>
            BY <2>2 DEF LockDealOrder, Exempt, oracleVars
        <3>2. FundedDealsKept
            BY <2>2, DealFieldFrame DEF LockDealOrder, Exempt
        <3> QED
            BY <3>1, <3>2, FundingFrame DEF TransfersKept, AddressesKept
    <2>3. CASE \E tid \in DOMAIN transfers : FundDealOrder(who, d, tid)
        BY <2>3, FundDealOrderFunding
    <2>4. CASE \E tid \in DOMAIN transfers : CloseDealOrder(who, d, tid)
        <3>1. PICK tid \in DOMAIN transfers : CloseDealOrder(who, d, tid)
            BY <2>4
        <3>2. /\ deals' = [deals EXCEPT ![d].repayment = tid]
              /\ transfers' = [transfers EXCEPT ![tid].processed = TRUE]
              /\ UNCHANGED addresses
            BY <3>1 DEF CloseDealOrder, MutateDealAndTransfer
        <3>3. FundedDealsKept
            BY <3>2, DealFieldFrame
        <3>4. TransfersKept
            BY <3>2 DEF TransfersKept, IInv, TypeOK, IsMap, TransferRec
        <3> QED
            BY <3>2, <3>3, <3>4, FundingFrame DEF AddressesKept
    <2> QED
        BY <2>1, <2>2, <2>3, <2>4
<1>5. CASE Tick
    <2>1. UNCHANGED <<transfers, addresses>>
        BY <1>5 DEF Tick, NewBlock
    <2>2. deals' = Drop(deals, UnfundedExpiringAt(now + 1))
        BY <1>5 DEF Tick, NewBlock, OnInitialize
    <2>3. FundedDealsKept
        BY <2>2 DEF FundedDealsKept, Drop
    <2> QED
        BY <2>1, <2>3, FundingFrame DEF TransfersKept, AddressesKept
<1>6. CASE UNCHANGED vars
    <2>1. UNCHANGED <<deals, transfers, addresses>>
        BY <1>6 DEF vars, obVars, oracleVars
    <2> QED
        BY <2>1, UnchangedFrame, FundingFrame
<1> QED
    BY <1>1, <1>2, <1>3, <1>4, <1>5, <1>6 DEF Next

(* fund_deal_order's checks, kept by every other call and by the reaper:  *)
(* in every reachable state a funded deal points at a verified, processed *)
(* transfer claimed for this deal, for the loan amount, by the owner of    *)
(* the lender address.                                                     *)
THEOREM FundingSafe == Spec => []FundingVerified
<1>1. Init => IInv /\ FundingVerified
    BY InitIInv DEF Init, obInit, FundingVerified
<1>2. IInv /\ FundingVerified /\ [Next]_vars => (IInv /\ FundingVerified)'
    BY NextIInv, NextFunding
<1> QED
    BY <1>1, <1>2, PTL DEF Spec

=============================================================================
