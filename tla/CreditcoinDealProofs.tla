------------------------- MODULE CreditcoinDealProofs -------------------------
(***************************************************************************)
(* Proofs that close_deal_order, fund_deal_order and the reaper keep the   *)
(* repayment and the processed transfers of the deals consistent         *)
(* (RepaymentVerified, ProcessedTransfersUsed), for every value of the    *)
(* constants.                                                              *)
(*                                                                         *)
(* Neither invariant is inductive alone.  A closed deal must stay funded  *)
(* and stored, which needs lock_deal_order's check that only a funded     *)
(* deal is locked (LockedFunded): the reaper keeps funded deals only.     *)
(* Exempt's synthetic repayment must never name a stored transfer, which  *)
(* needs that every transfer id the oracle handles names a real external   *)
(* transaction (RealTransferIds).  And a repayment differs from the       *)
(* funding because the funding transfer is processed (FundingVerified)    *)
(* while close_deal_order takes an unprocessed one.                        *)
(***************************************************************************)
EXTENDS CreditcoinProofs

\* lock_deal_order locks funded deals only, and nothing unfunds a deal.
LockedFunded == \A d \in DOMAIN deals : deals[d].lock # None => deals[d].funding # None

\* Transfers, scheduled transfer tasks and transfer submissions name a real
\* external transaction, never exempt's Tx0.
RealTransferIds ==
    /\ \A t \in DOMAIN transfers : t[2] # Tx0
    /\ \A k \in DOMAIN xferTasks : k[2][2] # Tx0
    /\ \A s \in pool : s.id \in TransferIds => s.id[2] # Tx0

DInv == /\ IInv /\ FundingVerified /\ LockedFunded /\ RealTransferIds
        /\ RepaymentVerified /\ ProcessedTransfersUsed
-----------------------------------------------------------------------------
(* Frame conditions of the steps that do not fund, lock, close or exempt. *)

\* A transfer processed after the step was processed before, unchanged.
ProcessedKept ==
    \A t \in DOMAIN transfers' : transfers'[t].processed =>
        t \in DOMAIN transfers /\ transfers'[t] = transfers[t]

\* A deal after the step is an old one unchanged or a new one that is not
\* funded, locked or closed.
DealsKept ==
    \A d \in DOMAIN deals' :
        \/ d \in DOMAIN deals /\ deals'[d] = deals[d]
        \/ deals'[d].funding = None /\ deals'[d].lock = None /\ deals'[d].repayment = None

\* Funded deals stay, unchanged.
FundedStay ==
    \A d \in DOMAIN deals : deals[d].funding # None =>
        d \in DOMAIN deals' /\ deals'[d] = deals[d]

\* None is not a transfer id.
LEMMA NoneNotTransferId == None \notin TransferIds
BY CreditcoinAssumption DEF TransferIds

LEMMA DealFrame ==
    ASSUME IInv, LockedFunded, RealTransferIds, RepaymentVerified, ProcessedTransfersUsed,
           TransfersKept, ProcessedKept, AddressesKept, DealsKept, FundedStay
    PROVE  LockedFunded' /\ RepaymentVerified' /\ ProcessedTransfersUsed'
<1>1. LockedFunded'
    BY DEF LockedFunded, DealsKept
<1>2. RepaymentVerified'
    <2> SUFFICES ASSUME NEW d \in DOMAIN deals', deals'[d].repayment # None,
                        deals'[d].repayment[2] # Tx0
                 PROVE  LET t == deals'[d].repayment
                        IN /\ t \in DOMAIN transfers'
                           /\ transfers'[t].deal = d
                           /\ transfers'[t].processed
                           /\ deals'[d].borrowerAddr \in DOMAIN addresses'
                           /\ addresses'[deals'[d].borrowerAddr] = transfers'[t].account
                           /\ deals'[d].lock # None
                           /\ t # deals'[d].funding
        BY DEF RepaymentVerified, Owns
    <2>1. d \in DOMAIN deals /\ deals'[d] = deals[d]
        BY DEF DealsKept
    <2> DEFINE t == deals[d].repayment
    <2>2. /\ t \in DOMAIN transfers
          /\ transfers[t].deal = d
          /\ transfers[t].processed
          /\ Owns(transfers[t].account, deals[d].borrowerAddr)
          /\ deals[d].lock # None
          /\ t # deals[d].funding
        BY <2>1 DEF RepaymentVerified
    <2>3. /\ t \in DOMAIN transfers'
          /\ transfers'[t].deal = d
          /\ transfers'[t].processed
          /\ transfers'[t].account = transfers[t].account
        BY <2>2 DEF TransfersKept
    <2>4. /\ deals[d].borrowerAddr \in DOMAIN addresses'
          /\ addresses'[deals[d].borrowerAddr] = transfers'[t].account
        BY <2>2, <2>3 DEF Owns, AddressesKept
    <2> QED
        BY <2>1, <2>2, <2>3, <2>4
<1>3. ProcessedTransfersUsed'
    <2> SUFFICES ASSUME NEW t \in DOMAIN transfers', transfers'[t].processed
                 PROVE  LET d == transfers'[t].deal
                        IN d \in DOMAIN deals' /\ (deals'[d].funding = t \/ deals'[d].repayment = t)
        BY DEF ProcessedTransfersUsed
    <2>1. t \in DOMAIN transfers /\ transfers'[t] = transfers[t] /\ transfers[t].processed
        BY DEF ProcessedKept
    <2> DEFINE d == transfers[t].deal
    <2>2. d \in DOMAIN deals /\ (deals[d].funding = t \/ deals[d].repayment = t)
        BY <2>1 DEF ProcessedTransfersUsed
    <2>3. t \in TransferIds /\ t # None /\ t[2] # Tx0
        BY <2>1, NoneNotTransferId DEF IInv, TypeOK, IsMap, RealTransferIds
    <2>4. deals[d].funding # None
        <3>1. CASE deals[d].funding = t
            BY <2>3, <3>1
        <3>2. CASE deals[d].repayment = t
            BY <2>2, <2>3, <3>2 DEF RepaymentVerified, LockedFunded
        <3> QED
            BY <2>2, <3>1, <3>2
    <2> QED
        BY <2>1, <2>2, <2>4 DEF FundedStay
<1> QED
    BY <1>1, <1>2, <1>3

-----------------------------------------------------------------------------
(* The four deal calls. *)

\* The part of DInv about deals that the deal calls may disturb.
DealsOK == LockedFunded /\ RepaymentVerified /\ ProcessedTransfersUsed

LEMMA FundDealOrderDeals ==
    ASSUME IInv, RealTransferIds, DealsOK, NEW who \in Accounts, NEW d \in DOMAIN deals,
           NEW tid \in DOMAIN transfers, FundDealOrder(who, d, tid)
    PROVE  DealsOK'
<1>1. deals[d] \in DealRec(TransferIds) /\ transfers[tid] \in TransferRec
    BY DEF IInv, TypeOK, IsMap
<1>2. /\ deals' = [deals EXCEPT ![d] = [deals[d] EXCEPT !.funding = tid, !.ts = now]]
      /\ transfers' = [transfers EXCEPT ![tid].processed = TRUE]
      /\ UNCHANGED addresses
      /\ deals[d].funding = None
      /\ transfers[tid].deal = d
      /\ ~transfers[tid].processed
    BY DEF FundDealOrder, MutateDealAndTransfer
<1>3. tid # None
    BY NoneNotTransferId DEF IInv, TypeOK, IsMap
<1>4. /\ deals'[d].funding = tid
      /\ deals'[d].lock = deals[d].lock
      /\ deals'[d].repayment = deals[d].repayment
      /\ deals'[d].borrowerAddr = deals[d].borrowerAddr
      /\ \A e \in DOMAIN deals \ {d} : deals'[e] = deals[e]
      /\ DOMAIN deals' = DOMAIN deals
    BY <1>1, <1>2 DEF DealRec
<1>5. /\ DOMAIN transfers' = DOMAIN transfers
      /\ \A t \in DOMAIN transfers : /\ transfers'[t].deal = transfers[t].deal
                                     /\ transfers'[t].account = transfers[t].account
                                     /\ transfers'[t].processed = (t = tid \/ transfers[t].processed)
    BY <1>1, <1>2 DEF TransferRec, IInv, TypeOK, IsMap
<1>6. deals[d].lock = None
    BY <1>2 DEF DealsOK, LockedFunded
<1>7. LockedFunded'
    BY <1>3, <1>4 DEF DealsOK, LockedFunded
<1>8. RepaymentVerified'
    <2> SUFFICES ASSUME NEW e \in DOMAIN deals', deals'[e].repayment # None,
                        deals'[e].repayment[2] # Tx0
                 PROVE  LET t == deals'[e].repayment
                        IN /\ t \in DOMAIN transfers'
                           /\ transfers'[t].deal = e
                           /\ transfers'[t].processed
                           /\ deals'[e].borrowerAddr \in DOMAIN addresses'
                           /\ addresses'[deals'[e].borrowerAddr] = transfers'[t].account
                           /\ deals'[e].lock # None
                           /\ t # deals'[e].funding
        BY DEF RepaymentVerified, Owns
    <2>1. e # d
        BY <1>4, <1>6 DEF DealsOK, RepaymentVerified
    <2>2. deals'[e] = deals[e] /\ e \in DOMAIN deals
        BY <1>4, <2>1
    <2> QED
        BY <1>2, <1>5, <2>2 DEF DealsOK, RepaymentVerified, Owns
<1>9. ProcessedTransfersUsed'
    <2> SUFFICES ASSUME NEW t \in DOMAIN transfers', transfers'[t].processed
                 PROVE  LET e == transfers'[t].deal
                        IN e \in DOMAIN deals' /\ (deals'[e].funding = t \/ deals'[e].repayment = t)
        BY DEF ProcessedTransfersUsed
    <2>1. CASE t = tid
        BY <1>2, <1>4, <1>5, <2>1
    <2>2. CASE t # tid
        <3>1. t \in DOMAIN transfers /\ transfers[t].processed
            BY <1>5, <2>2
        <3> DEFINE e == transfers[t].deal
        <3>2. e \in DOMAIN deals /\ (deals[e].funding = t \/ deals[e].repayment = t)
            BY <3>1 DEF DealsOK, ProcessedTransfersUsed
        <3>3. t # None
            BY <3>1, NoneNotTransferId DEF IInv, TypeOK, IsMap
        <3>4. CASE e = d
            BY <1>2, <1>4, <1>5, <3>1, <3>2, <3>3, <3>4
        <3>5. CASE e # d
            BY <1>4, <1>5, <3>1, <3>2, <3>5
        <3> QED
            BY <3>4, <3>5
    <2> QED
        BY <2>1, <2>2
<1> QED
    BY <1>7, <1>8, <1>9 DEF DealsOK

LEMMA CloseDealOrderDeals ==
    ASSUME IInv, FundingVerified, RealTransferIds, DealsOK, NEW who \in Accounts,
           NEW d \in DOMAIN deals, NEW tid \in DOMAIN transfers, CloseDealOrder(who, d, tid)
    PROVE  DealsOK'
<1>1. deals[d] \in DealRec(TransferIds) /\ transfers[tid] \in TransferRec
    BY DEF IInv, TypeOK, IsMap
<1>2. /\ deals' = [deals EXCEPT ![d].repayment = tid]
      /\ transfers' = [transfers EXCEPT ![tid].processed = TRUE]
      /\ UNCHANGED addresses
      /\ deals[d].repayment = None
      /\ deals[d].lock # None
      /\ Owns(who, deals[d].borrowerAddr)
      /\ transfers[tid].deal = d
      /\ transfers[tid].account = who
      /\ ~transfers[tid].processed
    BY DEF CloseDealOrder, MutateDealAndTransfer
<1>3. /\ deals'[d].repayment = tid
      /\ deals'[d].lock = deals[d].lock
      /\ deals'[d].funding = deals[d].funding
      /\ deals'[d].borrowerAddr = deals[d].borrowerAddr
      /\ \A e \in DOMAIN deals \ {d} : deals'[e] = deals[e]
      /\ DOMAIN deals' = DOMAIN deals
    BY <1>1, <1>2 DEF DealRec
<1>4. /\ DOMAIN transfers' = DOMAIN transfers
      /\ \A t \in DOMAIN transfers : /\ transfers'[t].deal = transfers[t].deal
                                     /\ transfers'[t].account = transfers[t].account
                                     /\ transfers'[t].processed = (t = tid \/ transfers[t].processed)
    BY <1>1, <1>2 DEF TransferRec, IInv, TypeOK, IsMap
<1>5. tid # deals[d].funding
    <2>1. deals[d].funding # None
        BY <1>2 DEF DealsOK, LockedFunded
    <2>2. transfers[deals[d].funding].processed
        BY <2>1 DEF FundingVerified
    <2> QED
        BY <1>2, <2>2
<1>6. LockedFunded'
    BY <1>3 DEF DealsOK, LockedFunded
<1>7. RepaymentVerified'
    <2> SUFFICES ASSUME NEW e \in DOMAIN deals', deals'[e].repayment # None,
                        deals'[e].repayment[2] # Tx0
                 PROVE  LET t == deals'[e].repayment
                        IN /\ t \in DOMAIN transfers'
                           /\ transfers'[t].deal = e
                           /\ transfers'[t].processed
                           /\ deals'[e].borrowerAddr \in DOMAIN addresses'
                           /\ addresses'[deals'[e].borrowerAddr] = transfers'[t].account
                           /\ deals'[e].lock # None
                           /\ t # deals'[e].funding
        BY DEF RepaymentVerified, Owns
    <2>1. CASE e = d
        BY <1>2, <1>3, <1>4, <1>5, <2>1 DEF Owns
    <2>2. CASE e # d
        <3>1. deals'[e] = deals[e] /\ e \in DOMAIN deals
            BY <1>3, <2>2
        <3> QED
            BY <1>2, <1>4, <3>1 DEF DealsOK, RepaymentVerified, Owns
    <2> QED
        BY <2>1, <2>2
<1>8. ProcessedTransfersUsed'
    <2> SUFFICES ASSUME NEW t \in DOMAIN transfers', transfers'[t].processed
                 PROVE  LET e == transfers'[t].deal
                        IN e \in DOMAIN deals' /\ (deals'[e].funding = t \/ deals'[e].repayment = t)
        BY DEF ProcessedTransfersUsed
    <2>1. CASE t = tid
        BY <1>2, <1>3, <1>4, <2>1
    <2>2. CASE t # tid
        <3>1. t \in DOMAIN transfers /\ transfers[t].processed
            BY <1>4, <2>2
        <3> DEFINE e == transfers[t].deal
        <3>2. e \in DOMAIN deals /\ (deals[e].funding = t \/ deals[e].repayment = t)
            BY <3>1 DEF DealsOK, ProcessedTransfersUsed
        <3>3. t # None
            BY <3>1, NoneNotTransferId DEF IInv, TypeOK, IsMap
        <3>4. CASE e = d
            BY <1>2, <1>3, <1>4, <3>1, <3>2, <3>3, <3>4
        <3>5. CASE e # d
            BY <1>3, <1>4, <3>1, <3>2, <3>5
        <3> QED
            BY <3>4, <3>5
    <2> QED
        BY <2>1, <2>2
<1> QED
    BY <1>6, <1>7, <1>8 DEF DealsOK

\* lock_deal_order sets the lock of a funded deal; exempt sets a synthetic
\* repayment (Tx0) on a deal with none.
LEMMA LockExemptDeals ==
    ASSUME IInv, DealsOK, NEW who \in Accounts, NEW d \in DOMAIN deals,
           LockDealOrder(who, d) \/ Exempt(who, d)
    PROVE  DealsOK'
<1>1. deals[d] \in DealRec(TransferIds)
    BY DEF IInv, TypeOK, IsMap
<1>2. /\ UNCHANGED <<transfers, addresses>>
      /\ DOMAIN deals' = DOMAIN deals
      /\ \A e \in DOMAIN deals \ {d} : deals'[e] = deals[e]
      /\ deals'[d].funding = deals[d].funding
      /\ deals'[d].borrowerAddr = deals[d].borrowerAddr
    BY <1>1 DEF LockDealOrder, Exempt, oracleVars, DealRec
<1>3. CASE LockDealOrder(who, d)
    <2>1. /\ deals[d].funding # None
          /\ deals'[d].lock # None
          /\ deals'[d].repayment = deals[d].repayment
        BY <1>1, <1>3, OrderBookAssumption DEF LockDealOrder, DealRec
    <2>2. LockedFunded'
        BY <1>2, <2>1 DEF DealsOK, LockedFunded
    <2>3. RepaymentVerified'
        BY <1>2, <2>1 DEF DealsOK, RepaymentVerified, Owns
    <2>4. ProcessedTransfersUsed'
        BY <1>2, <2>1 DEF DealsOK, ProcessedTransfersUsed
    <2> QED
        BY <2>2, <2>3, <2>4 DEF DealsOK
<1>4. CASE Exempt(who, d)
    <2>1. /\ deals[d].repayment = None
          /\ deals'[d].repayment = FakeTransferId(d)
          /\ deals'[d].repayment[2] = Tx0
          /\ deals'[d].lock = deals[d].lock
        BY <1>1, <1>4 DEF Exempt, DealRec, FakeTransferId
    <2>2. LockedFunded'
        BY <1>2, <2>1 DEF DealsOK, LockedFunded
    <2>3. RepaymentVerified'
        BY <1>2, <2>1 DEF DealsOK, RepaymentVerified, Owns
    <2>4. ProcessedTransfersUsed'
        <3>1. \A t \in DOMAIN transfers : t # None
            BY NoneNotTransferId DEF IInv, TypeOK, IsMap
        <3> QED
            BY <1>2, <2>1, <3>1 DEF DealsOK, ProcessedTransfersUsed
    <2> QED
        BY <2>2, <2>3, <2>4 DEF DealsOK
<1> QED
    BY <1>3, <1>4

-----------------------------------------------------------------------------
(* Transfer ids name real transactions: register_transfer_internal builds *)
(* the id from a caller's tx (never Tx0), the offchain worker copies the   *)
(* scheduled key, and persist_task_output stores the submission's id.     *)

LEMMA NextRealIds == IInv /\ RealTransferIds /\ [Next]_vars => RealTransferIds'
<1> SUFFICES ASSUME IInv, RealTransferIds, [Next]_vars PROVE RealTransferIds'
    OBVIOUS
<1>1. CASE \E who \in Accounts, d \in DOMAIN deals, tx \in TxIds :
             \/ RegisterFundingTransfer(who, d, tx)
             \/ \E amt \in Amounts : RegisterRepaymentTransfer(who, amt, d, tx)
    <2>0. PICK who \in Accounts, d \in DOMAIN deals, tx \in TxIds :
                 \E from, amount : RegisterTransferInternal(who, from, amount, d, tx)
        BY <1>1 DEF RegisterFundingTransfer, RegisterRepaymentTransfer
    <2>1. PICK from, amount : RegisterTransferInternal(who, from, amount, d, tx)
        BY <2>0
    <2>2. /\ DOMAIN xferTasks' = DOMAIN xferTasks \cup {<<Deadline, <<Chain[from], tx>>>>}
          /\ UNCHANGED <<transfers, pool>>
        BY <2>1 DEF RegisterTransferInternal, Put
    <2> QED
        BY <2>2, CreditcoinAssumption DEF RealTransferIds
<1>2. CASE \E auth \in authorities, ok \in BOOLEAN,
             key \in DOMAIN xferTasks \cup ccTasks : OffchainVerify(auth, key, ok)
    <2>1. PICK auth \in authorities, ok \in BOOLEAN,
             key \in DOMAIN xferTasks \cup ccTasks : OffchainVerify(auth, key, ok)
        BY <1>2
    <2>2. key[2] \in TransferIds => key[2][2] # Tx0
        <3>1. CASE key \in DOMAIN xferTasks
            BY <3>1 DEF RealTransferIds
        <3>2. CASE key \in ccTasks
            <4>1. key[2] \in CCIds
                BY <3>2 DEF IInv, TypeOK
            <4> QED
                BY <4>1, IdsDisjoint
        <3> QED
            BY <3>1, <3>2
    <2> DEFINE s == [who |-> auth, deadline |-> key[1], id |-> key[2], ok |-> ok,
                     claim |-> IF key \in DOMAIN xferTasks THEN xferTasks[key] ELSE None]
    <2>3. pool' = pool \cup {s} /\ s.id = key[2]
        BY <2>1 DEF OffchainVerify
    <2>4. UNCHANGED <<transfers, xferTasks>>
        BY <2>1 DEF OffchainVerify
    <2> QED
        BY <2>2, <2>3, <2>4 DEF RealTransferIds
<1>3. CASE \E s \in pool : PersistTaskOutput(s) \/ FailTask(s)
    <2>1. PICK s \in pool : PersistTaskOutput(s) \/ FailTask(s)
        BY <1>3
    <2>2. /\ DOMAIN xferTasks' \subseteq DOMAIN xferTasks
          /\ pool' \subseteq pool
        BY <2>1 DEF PersistTaskOutput, FailTask, RemoveTask, Drop
    <2>3. DOMAIN transfers' \subseteq DOMAIN transfers \cup {s.id}
        BY <2>1 DEF PersistTaskOutput, PersistTransfer, PersistCollectCoins, FailTask, Put
    <2>4. CASE PersistTaskOutput(s) /\ PersistTransfer(s)
        BY <2>2, <2>4 DEF PersistTransfer, RealTransferIds, Put
    <2>5. CASE ~(PersistTaskOutput(s) /\ PersistTransfer(s))
        <3>1. UNCHANGED transfers
            BY <2>1, <2>5 DEF PersistTaskOutput, PersistCollectCoins, FailTask
        <3> QED
            BY <2>2, <3>1 DEF RealTransferIds
    <2> QED
        BY <2>4, <2>5
<1>4. CASE \/ OrderBookStep
           \/ \E who \in Accounts, a \in ExtAddrs, tx \in TxIds : RequestCollectCoins(who, a, tx)
           \/ \E k \in Contracts : SetCollectCoinsContract(k)
           \/ \E a \in Accounts : AddAuthority(a) \/ RemoveAuthority(a)
           \/ \E who \in Accounts, d \in DOMAIN deals :
                \/ LockDealOrder(who, d)
                \/ Exempt(who, d)
                \/ \E tid \in DOMAIN transfers :
                     FundDealOrder(who, d, tid) \/ CloseDealOrder(who, d, tid)
           \/ UNCHANGED vars
    <2>1. /\ DOMAIN transfers' = DOMAIN transfers
          /\ UNCHANGED <<xferTasks, pool>>
        <3>1. CASE \/ OrderBookStep
                   \/ \E who \in Accounts, a \in ExtAddrs, tx \in TxIds :
                        RequestCollectCoins(who, a, tx)
                   \/ \E k \in Contracts : SetCollectCoinsContract(k)
                   \/ \E a \in Accounts : AddAuthority(a) \/ RemoveAuthority(a)
                   \/ UNCHANGED vars
            BY <3>1 DEF OrderBookStep, oracleVars, RequestCollectCoins,
               SetCollectCoinsContract, AddAuthority, RemoveAuthority, vars
        <3>2. CASE \E who \in Accounts, d \in DOMAIN deals : LockDealOrder(who, d) \/ Exempt(who, d)
            BY <3>2 DEF LockDealOrder, Exempt, oracleVars
        <3>3. CASE \E who \in Accounts, d \in DOMAIN deals, tid \in DOMAIN transfers :
                     FundDealOrder(who, d, tid) \/ CloseDealOrder(who, d, tid)
            BY <3>3 DEF FundDealOrder, CloseDealOrder, MutateDealAndTransfer
        <3> QED
            BY <1>4, <3>1, <3>2, <3>3
    <2> QED
        BY <2>1 DEF RealTransferIds
<1>5. CASE Tick
    <2>1. /\ UNCHANGED <<transfers, pool>>
          /\ DOMAIN xferTasks' \subseteq DOMAIN xferTasks
        BY <1>5 DEF Tick, ExpireTasks, Drop
    <2> QED
        BY <2>1 DEF RealTransferIds
<1> QED
    BY <1>1, <1>2, <1>3, <1>4, <1>5 DEF Next

-----------------------------------------------------------------------------
(* The inductive step for the deal part of DInv. *)

\* A step that leaves deals, transfers and addresses alone keeps the frame.
LEMMA UnchangedDealFrame ==
    ASSUME UNCHANGED <<deals, transfers, addresses>>
    PROVE  TransfersKept /\ ProcessedKept /\ AddressesKept /\ DealsKept /\ FundedStay
BY DEF TransfersKept, ProcessedKept, AddressesKept, DealsKept, FundedStay

\* add_deal_order and register_deal_order insert one new deal, not funded,
\* locked or closed.
LEMMA NewDealKept ==
    ASSUME NEW k, NEW la, NEW ba, NEW t, NEW b, k \notin DOMAIN deals,
           deals' = Put(deals, k, NewDeal(la, ba, t, b))
    PROVE  DealsKept /\ FundedStay
BY DEF DealsKept, FundedStay, Put, NewDeal

LEMMA NextDeals ==
    IInv /\ FundingVerified /\ RealTransferIds /\ DealsOK /\ [Next]_vars => DealsOK'
<1> SUFFICES ASSUME IInv, FundingVerified, RealTransferIds, DealsOK, [Next]_vars
             PROVE  DealsOK'
    OBVIOUS
<1> USE DEF DealsOK
<1>1. CASE OrderBookStep
    <2>1. UNCHANGED transfers /\ TransfersKept /\ ProcessedKept
        BY <1>1 DEF OrderBookStep, oracleVars, TransfersKept, ProcessedKept
    <2>2. CASE \E who \in Accounts, a \in ExtAddrs :
                 RegisterAddress(who, a) \/ RegisterAddressV2(who, a)
        <3>1. PICK who \in Accounts, a \in ExtAddrs : InsertAddress(who, a)
            BY <2>2 DEF RegisterAddress, RegisterAddressV2
        <3>2. AddressesKept /\ DealsKept /\ FundedStay
            BY <3>1 DEF InsertAddress, Put, AddressesKept, DealsKept, FundedStay
        <3> QED
            BY <2>1, <3>2, DealFrame
    <2>3. CASE \/ \E who \in Accounts, a \in ExtAddrs, t \in Terms, exp \in Blocks, g \in Guids :
                    AddAskOrder(who, a, t, exp, g) \/ AddBidOrder(who, a, t, exp, g)
               \/ \E who \in Accounts, askId \in DOMAIN asks, bidId \in DOMAIN bids,
                     exp \in Blocks : AddOffer(who, askId, bidId, exp)
        <3>1. UNCHANGED <<deals, addresses>>
            BY <2>3 DEF AddAskOrder, AddBidOrder, AddOffer
        <3> QED
            BY <2>1, <3>1, UnchangedDealFrame, DealFrame
    <2>4. CASE \E who \in Accounts, offerId \in DOMAIN offers, exp \in Blocks :
                 AddDealOrder(who, offerId, exp)
        <3>1. PICK who \in Accounts, offerId \in DOMAIN offers, exp \in Blocks :
                 AddDealOrder(who, offerId, exp)
            BY <2>4
        <3>2. DealsKept /\ FundedStay
            BY <3>1, NewDealKept DEF AddDealOrder
        <3>3. AddressesKept
            BY <3>1 DEF AddDealOrder, AddressesKept
        <3> QED
            BY <2>1, <3>2, <3>3, DealFrame
    <2>5. CASE \E who, b \in Accounts, la, ba \in ExtAddrs, t \in Terms, exp \in Blocks,
                 ag, bg \in Guids : RegisterDealOrder(who, b, la, ba, t, exp, ag, bg)
        <3>1. PICK who, b \in Accounts, la, ba \in ExtAddrs, t \in Terms, exp \in Blocks,
                 ag, bg \in Guids : RegisterDealOrder(who, b, la, ba, t, exp, ag, bg)
            BY <2>5
        <3>2. DealsKept /\ FundedStay
            BY <3>1, NewDealKept DEF RegisterDealOrder
        <3>3. AddressesKept
            BY <3>1 DEF RegisterDealOrder, AddressesKept
        <3> QED
            BY <2>1, <3>2, <3>3, DealFrame
    <2> QED
        BY <1>1, <2>2, <2>3, <2>4, <2>5 DEF OrderBookStep
<1>2. CASE \/ \E who \in Accounts, d \in DOMAIN deals, tx \in TxIds :
                \/ RegisterFundingTransfer(who, d, tx)
                \/ \E amt \in Amounts : RegisterRepaymentTransfer(who, amt, d, tx)
           \/ \E who \in Accounts, a \in ExtAddrs, tx \in TxIds : RequestCollectCoins(who, a, tx)
           \/ \E k \in Contracts : SetCollectCoinsContract(k)
           \/ \E auth \in authorities, ok \in BOOLEAN,
                 key \in DOMAIN xferTasks \cup ccTasks : OffchainVerify(auth, key, ok)
           \/ \E s \in pool : FailTask(s)
           \/ \E a \in Accounts : AddAuthority(a) \/ RemoveAuthority(a)
           \/ UNCHANGED vars
    <2>1. UNCHANGED <<deals, transfers, addresses>>
        BY <1>2 DEF RegisterFundingTransfer, RegisterRepaymentTransfer,
           RegisterTransferInternal, RequestCollectCoins, SetCollectCoinsContract,
           OffchainVerify, FailTask, AddAuthority, RemoveAuthority, obVars, oracleVars, vars
    <2> QED
        BY <2>1, UnchangedDealFrame, DealFrame
<1>3. CASE \E s \in pool : PersistTaskOutput(s)
    <2>1. PICK s \in pool : PersistTaskOutput(s)
        BY <1>3
    <2>2. TransfersKept /\ ProcessedKept
        BY <2>1 DEF PersistTaskOutput, PersistTransfer, PersistCollectCoins, Put,
           TransfersKept, ProcessedKept
    <2>3. UNCHANGED <<deals, addresses>>
        BY <2>1 DEF PersistTaskOutput, obVars
    <2> QED
        BY <2>2, <2>3, DealFrame DEF AddressesKept, DealsKept, FundedStay
<1>4. CASE \E who \in Accounts, d \in DOMAIN deals :
             \/ LockDealOrder(who, d)
             \/ Exempt(who, d)
             \/ \E tid \in DOMAIN transfers :
                  FundDealOrder(who, d, tid) \/ CloseDealOrder(who, d, tid)
    BY <1>4, LockExemptDeals, FundDealOrderDeals, CloseDealOrderDeals
<1>5. CASE Tick
    <2>1. UNCHANGED <<transfers, addresses>>
        BY <1>5 DEF Tick, NewBlock
    <2>2. deals' = Drop(deals, UnfundedExpiringAt(now + 1))
        BY <1>5 DEF Tick, NewBlock, OnInitialize
    <2>3. DealsKept /\ FundedStay
        BY <2>2 DEF DealsKept, FundedStay, Drop, UnfundedExpiringAt
    <2> QED
        BY <2>1, <2>3, DealFrame DEF TransfersKept, ProcessedKept, AddressesKept
<1> QED
    BY <1>1, <1>2, <1>3, <1>4, <1>5 DEF Next

LEMMA InitDInv == Init => DInv
BY InitIInv DEF Init, obInit, DInv, FundingVerified, LockedFunded, RealTransferIds,
   RepaymentVerified, ProcessedTransfersUsed

LEMMA NextDInv == DInv /\ [Next]_vars => DInv'
BY NextIInv, NextFunding, NextRealIds, NextDeals DEF DInv, DealsOK

(* close_deal_order's checks, kept by every other call and by the reaper: *)
(* in every reachable state a deal closed by a real repayment was locked  *)
(* and points at a processed transfer of this deal, other than its        *)
(* funding, claimed by the owner of the borrower address.                  *)
THEOREM RepaymentSafe == Spec => []RepaymentVerified
<1>1. DInv => RepaymentVerified
    BY DEF DInv
<1> QED
    BY InitDInv, NextDInv, <1>1, PTL DEF Spec

(* fund_deal_order and close_deal_order are the only calls that set       *)
(* is_processed, and they set it on the deal's own funding or repayment:  *)
(* in every reachable state a processed transfer is the funding or the    *)
(* repayment of the stored deal it was claimed for, so no processed       *)
(* transfer is left over by the reaper or reused by another deal.        *)
THEOREM ProcessedUsedSafe == Spec => []ProcessedTransfersUsed
<1>1. DInv => ProcessedTransfersUsed
    BY DEF DInv
<1> QED
    BY InitDInv, NextDInv, <1>1, PTL DEF Spec

-----------------------------------------------------------------------------
(* Deal parties.  add_deal_order takes the borrower address from the bid   *)
(* and the lender address from the ask that the offer names; the call     *)
(* checks that the caller is the bid's borrower but not who owns the      *)
(* addresses.  DealPartiesAuthorised therefore rests on the orders: every *)
(* stored ask and bid names an address its maker owns (add_ask_order,     *)
(* add_bid_order and register_deal_order check it; no call unregisters or *)
(* re-assigns an address).                                                 *)

\* Every stored order's address is owned by the order's maker.
OrdersOwned ==
    /\ \A a \in DOMAIN asks : Owns(asks[a].lender, asks[a].addr)
    /\ \A b \in DOMAIN bids : Owns(bids[b].borrower, bids[b].addr)

PInv == IInv /\ OrdersOwned /\ DealPartiesAuthorised

\* The orders after the step are orders before it, unchanged.
OrdersKept ==
    /\ \A a \in DOMAIN asks' : a \in DOMAIN asks /\ asks'[a] = asks[a]
    /\ \A b \in DOMAIN bids' : b \in DOMAIN bids /\ bids'[b] = bids[b]

\* The deals after the step are deals before it, with the same parties.
PartiesKept ==
    \A d \in DOMAIN deals' :
        /\ d \in DOMAIN deals
        /\ deals'[d].borrower = deals[d].borrower
        /\ deals'[d].borrowerAddr = deals[d].borrowerAddr
        /\ deals'[d].lenderAddr = deals[d].lenderAddr

LEMMA PartiesFrame ==
    ASSUME OrdersOwned, DealPartiesAuthorised, AddressesKept, OrdersKept, PartiesKept
    PROVE  OrdersOwned' /\ DealPartiesAuthorised'
<1>1. OrdersOwned'
    BY DEF OrdersOwned, OrdersKept, AddressesKept, Owns
<1>2. DealPartiesAuthorised'
    BY DEF DealPartiesAuthorised, PartiesKept, AddressesKept, Owns
<1> QED
    BY <1>1, <1>2

\* add_ask_order, add_bid_order and register_deal_order store orders on
\* addresses their makers own; add_deal_order and register_deal_order store
\* deals whose parties come from such orders.
LEMMA OrderBookParties ==
    ASSUME IInv, OrdersOwned, DealPartiesAuthorised, OrderBookStep
    PROVE  OrdersOwned' /\ DealPartiesAuthorised'
<1>1. CASE \E who \in Accounts, a \in ExtAddrs :
             RegisterAddress(who, a) \/ RegisterAddressV2(who, a)
    <2>1. PICK who \in Accounts, a \in ExtAddrs : InsertAddress(who, a)
        BY <1>1 DEF RegisterAddress, RegisterAddressV2
    <2>2. AddressesKept /\ OrdersKept /\ PartiesKept
        BY <2>1 DEF InsertAddress, Put, AddressesKept, OrdersKept, PartiesKept
    <2> QED
        BY <2>2, PartiesFrame
<1>2. CASE \E who \in Accounts, a \in ExtAddrs, t \in Terms, exp \in Blocks, g \in Guids :
             AddAskOrder(who, a, t, exp, g) \/ AddBidOrder(who, a, t, exp, g)
    <2>1. PICK who \in Accounts, a \in ExtAddrs, t \in Terms, exp \in Blocks, g \in Guids :
             AddAskOrder(who, a, t, exp, g) \/ AddBidOrder(who, a, t, exp, g)
        BY <1>2
    <2>2. UNCHANGED <<addresses, deals>> /\ Owns(who, a)
        BY <2>1 DEF AddAskOrder, AddBidOrder
    <2>3. OrdersOwned'
        BY <2>1, <2>2 DEF AddAskOrder, AddBidOrder, OrdersOwned, Put, Owns
    <2>4. DealPartiesAuthorised'
        BY <2>2 DEF DealPartiesAuthorised, Owns
    <2> QED
        BY <2>3, <2>4
<1>3. CASE \E who \in Accounts, askId \in DOMAIN asks, bidId \in DOMAIN bids, exp \in Blocks :
             AddOffer(who, askId, bidId, exp)
    <2>1. UNCHANGED <<addresses, asks, bids, deals>>
        BY <1>3 DEF AddOffer
    <2> QED
        BY <2>1, PartiesFrame DEF AddressesKept, OrdersKept, PartiesKept
<1>4. CASE \E who \in Accounts, offerId \in DOMAIN offers, exp \in Blocks :
             AddDealOrder(who, offerId, exp)
    <2>1. PICK who \in Accounts, offerId \in DOMAIN offers, exp \in Blocks :
             AddDealOrder(who, offerId, exp)
        BY <1>4
    <2> DEFINE askId == offerId[2]
               bidId == offerId[3]
               k == <<exp, offerId>>
               nd == NewDeal(asks[askId].addr, bids[bidId].addr, asks[askId].terms, who)
    <2>2. /\ k \notin DOMAIN deals
          /\ askId \in DOMAIN asks /\ bidId \in DOMAIN bids
          /\ bids[bidId].borrower = who
          /\ deals' = Put(deals, k, nd)
          /\ UNCHANGED <<addresses, asks, bids>>
        BY <2>1 DEF AddDealOrder
    <2>3. /\ Owns(who, bids[bidId].addr)
          /\ asks[askId].addr \in DOMAIN addresses
        BY <2>2 DEF OrdersOwned, Owns
    <2>4. /\ nd.borrower = who
          /\ nd.borrowerAddr = bids[bidId].addr
          /\ nd.lenderAddr = asks[askId].addr
        BY DEF NewDeal
    <2>5. DealPartiesAuthorised'
        BY <2>2, <2>3, <2>4 DEF DealPartiesAuthorised, Put, Owns
    <2>6. OrdersOwned'
        BY <2>2 DEF OrdersOwned, Owns
    <2> QED
        BY <2>5, <2>6
<1>5. CASE \E who, b \in Accounts, la, ba \in ExtAddrs, t \in Terms, exp \in Blocks,
             ag, bg \in Guids : RegisterDealOrder(who, b, la, ba, t, exp, ag, bg)
    <2>1. PICK who, b \in Accounts, la, ba \in ExtAddrs, t \in Terms, exp \in Blocks,
             ag, bg \in Guids : RegisterDealOrder(who, b, la, ba, t, exp, ag, bg)
        BY <1>5
    <2>2. /\ Owns(b, ba) /\ Owns(who, la)
          /\ asks' = Put(asks, <<exp, ag>>, [lender |-> who, addr |-> la, terms |-> t])
          /\ bids' = Put(bids, <<exp, bg>>, [borrower |-> b, addr |-> ba, terms |-> t])
          /\ deals' = Put(deals, <<exp, <<exp, <<exp, ag>>, <<exp, bg>>>>>>, NewDeal(la, ba, t, b))
          /\ UNCHANGED addresses
        BY <2>1 DEF RegisterDealOrder
    <2>3. /\ NewDeal(la, ba, t, b).borrower = b
          /\ NewDeal(la, ba, t, b).borrowerAddr = ba
          /\ NewDeal(la, ba, t, b).lenderAddr = la
        BY DEF NewDeal
    <2>4. OrdersOwned'
        BY <2>2 DEF OrdersOwned, Put, Owns
    <2>5. DealPartiesAuthorised'
        BY <2>2, <2>3 DEF DealPartiesAuthorised, Put, Owns
    <2> QED
        BY <2>4, <2>5
<1> QED
    BY <1>1, <1>2, <1>3, <1>4, <1>5 DEF OrderBookStep

LEMMA NextParties ==
    IInv /\ OrdersOwned /\ DealPartiesAuthorised /\ [Next]_vars
        => OrdersOwned' /\ DealPartiesAuthorised'
<1> SUFFICES ASSUME IInv, OrdersOwned, DealPartiesAuthorised, [Next]_vars
             PROVE  OrdersOwned' /\ DealPartiesAuthorised'
    OBVIOUS
<1>1. CASE OrderBookStep
    BY <1>1, OrderBookParties
<1>2. CASE \/ \E who \in Accounts, d \in DOMAIN deals, tx \in TxIds :
                \/ RegisterFundingTransfer(who, d, tx)
                \/ \E amt \in Amounts : RegisterRepaymentTransfer(who, amt, d, tx)
           \/ \E who \in Accounts, a \in ExtAddrs, tx \in TxIds : RequestCollectCoins(who, a, tx)
           \/ \E k \in Contracts : SetCollectCoinsContract(k)
           \/ \E auth \in authorities, ok \in BOOLEAN,
                 key \in DOMAIN xferTasks \cup ccTasks : OffchainVerify(auth, key, ok)
           \/ \E s \in pool : PersistTaskOutput(s) \/ FailTask(s)
           \/ \E a \in Accounts : AddAuthority(a) \/ RemoveAuthority(a)
           \/ UNCHANGED vars
    <2>1. UNCHANGED <<addresses, asks, bids, deals>>
        BY <1>2 DEF RegisterFundingTransfer, RegisterRepaymentTransfer,
           RegisterTransferInternal, RequestCollectCoins, SetCollectCoinsContract,
           OffchainVerify, PersistTaskOutput, FailTask, AddAuthority, RemoveAuthority,
           obVars, vars
    <2> QED
        BY <2>1, PartiesFrame DEF AddressesKept, OrdersKept, PartiesKept
<1>3. CASE \E who \in Accounts, d \in DOMAIN deals :
             \/ LockDealOrder(who, d)
             \/ Exempt(who, d)
             \/ \E tid \in DOMAIN transfers :
                  FundDealOrder(who, d, tid) \/ CloseDealOrder(who, d, tid)
    <2>1. PICK who \in Accounts, d \in DOMAIN deals :
             \/ LockDealOrder(who, d)
             \/ Exempt(who, d)
             \/ \E tid \in DOMAIN transfers :
                  FundDealOrder(who, d, tid) \/ CloseDealOrder(who, d, tid)
        BY <1>3
    <2>2. deals[d] \in DealRec(TransferIds)
        BY DEF IInv, TypeOK, IsMap
    <2>3. \/ \E v : deals' = [deals EXCEPT ![d].lock = v]
          \/ \E v : deals' = [deals EXCEPT ![d].repayment = v]
          \/ \E v, w : deals' = [deals EXCEPT ![d] = [deals[d] EXCEPT !.funding = v, !.ts = w]]
        BY <2>1 DEF LockDealOrder, Exempt, FundDealOrder, CloseDealOrder, MutateDealAndTransfer
    <2>5. PartiesKept
        <3>1. CASE \E v : deals' = [deals EXCEPT ![d].lock = v]
            BY <2>2, <3>1 DEF PartiesKept, DealRec
        <3>2. CASE \E v : deals' = [deals EXCEPT ![d].repayment = v]
            BY <2>2, <3>2 DEF PartiesKept, DealRec
        <3>3. CASE \E v, w : deals' = [deals EXCEPT ![d] = [deals[d] EXCEPT !.funding = v, !.ts = w]]
            BY <2>2, <3>3 DEF PartiesKept, DealRec
        <3> QED
            BY <2>3, <3>1, <3>2, <3>3
    <2>4. UNCHANGED <<addresses, asks, bids>>
        BY <2>1 DEF LockDealOrder, Exempt, FundDealOrder, CloseDealOrder
    <2> QED
        BY <2>4, <2>5, PartiesFrame DEF AddressesKept, OrdersKept
<1>4. CASE Tick
    <2>1. /\ UNCHANGED addresses
          /\ asks' = Drop(asks, ExpiringAt(asks, now + 1))
          /\ bids' = Drop(bids, ExpiringAt(bids, now + 1))
          /\ deals' = Drop(deals, UnfundedExpiringAt(now + 1))
        BY <1>4 DEF Tick, NewBlock, OnInitialize
    <2> QED
        BY <2>1, PartiesFrame DEF AddressesKept, OrdersKept, PartiesKept, Drop
<1> QED
    BY <1>1, <1>2, <1>3, <1>4 DEF Next

(* add_deal_order and register_deal_order, kept by every other call and by *)
(* the reaper: in every reachable state each deal's borrower owns the      *)
(* deal's borrower address and its lender address is registered, although *)
(* add_deal_order itself checks neither but reads both from stored orders. *)
THEOREM PartiesSafe == Spec => []DealPartiesAuthorised
<1>1. Init => PInv
    BY InitIInv DEF Init, obInit, PInv, OrdersOwned, DealPartiesAuthorised
<1>2. PInv /\ [Next]_vars => PInv'
    BY NextIInv, NextParties DEF PInv
<1>3. PInv => DealPartiesAuthorised
    BY DEF PInv
<1> QED
    BY <1>1, <1>2, <1>3, PTL DEF Spec
-----------------------------------------------------------------------------
(* Write-once deal fields (DealWriteOnce).  The step relation needs only  *)
(* the type invariant: every stored deal is a DealRec record, so setting  *)
(* one of its fields leaves the others, and the values the four deal      *)
(* calls write (a transfer id, exempt's synthetic id, an account) are     *)
(* never None.                                                             *)

\* The step predicate of DealWriteOnce.
DealStepOK == \A d \in DOMAIN deals \cap DOMAIN deals' : DealChange(deals[d], deals'[d])

\* A step that rewrites no stored deal satisfies it.
LEMMA KeptDealsOK ==
    ASSUME \A d \in DOMAIN deals \cap DOMAIN deals' : deals'[d] = deals[d]
    PROVE  DealStepOK
BY DEF DealStepOK, DealChange

\* A step that rewrites one stored deal in an allowed way satisfies it.
LEMMA OneDealOK ==
    ASSUME NEW d \in DOMAIN deals, NEW nd, deals' = [deals EXCEPT ![d] = nd],
           DealChange(deals[d], nd)
    PROVE  DealStepOK
<1>1. \A e \in DOMAIN deals \ {d} : DealChange(deals[e], deals'[e])
    BY DEF DealChange
<1> QED
    BY <1>1 DEF DealStepOK

\* fund_deal_order, lock_deal_order, close_deal_order and exempt.
LEMMA DealCallsOK ==
    ASSUME IInv, NEW who \in Accounts, NEW d \in DOMAIN deals,
           \/ LockDealOrder(who, d)
           \/ Exempt(who, d)
           \/ \E tid \in DOMAIN transfers :
                FundDealOrder(who, d, tid) \/ CloseDealOrder(who, d, tid)
    PROVE  DealStepOK
<1> DEFINE old == deals[d]
<1>1. old \in DealRec(TransferIds) /\ DOMAIN transfers \subseteq TransferIds
    BY DEF IInv, TypeOK, IsMap
<1>2. CASE LockDealOrder(who, d)
    <2>1. old.lock = None /\ who # None
        BY <1>2, OrderBookAssumption DEF LockDealOrder
    <2>2. DealChange(old, [old EXCEPT !.lock = who])
        BY <1>1, <2>1 DEF DealChange, Fills, DealRec
    <2> QED
        BY <1>2, <2>2, OneDealOK DEF LockDealOrder
<1>3. CASE Exempt(who, d)
    <2>1. FakeTransferId(d) \in TransferIds
        BY <1>1, OrderBookAssumption DEF FakeTransferId, DealRec, TransferIds
    <2>2. old.repayment = None /\ FakeTransferId(d) # None
        BY <1>3, <2>1, NoneNotTransferId DEF Exempt
    <2>3. DealChange(old, [old EXCEPT !.repayment = FakeTransferId(d)])
        BY <1>1, <2>2 DEF DealChange, Fills, DealRec
    <2> QED
        BY <1>3, <2>3, OneDealOK DEF Exempt
<1>4. CASE \E tid \in DOMAIN transfers : FundDealOrder(who, d, tid)
    <2>1. PICK tid \in DOMAIN transfers : FundDealOrder(who, d, tid)
        BY <1>4
    <2>2. old.funding = None /\ tid # None /\ old.ts <= now
        BY <1>1, <2>1, NoneNotTransferId DEF FundDealOrder, DealRec, Blocks, IInv, TypeOK
    <2>3. DealChange(old, [old EXCEPT !.funding = tid, !.ts = now])
        BY <1>1, <2>2 DEF DealChange, Fills, DealRec
    <2> QED
        BY <2>1, <2>3, OneDealOK DEF FundDealOrder, MutateDealAndTransfer
<1>5. CASE \E tid \in DOMAIN transfers : CloseDealOrder(who, d, tid)
    <2>1. PICK tid \in DOMAIN transfers : CloseDealOrder(who, d, tid)
        BY <1>5
    <2>2. old.repayment = None /\ tid # None
        BY <1>1, <2>1, NoneNotTransferId DEF CloseDealOrder
    <2>3. DealChange(old, [old EXCEPT !.repayment = tid])
        BY <1>1, <2>2 DEF DealChange, Fills, DealRec
    <2> QED
        BY <2>1, <2>3, OneDealOK DEF CloseDealOrder, MutateDealAndTransfer
<1> QED
    BY <1>2, <1>3, <1>4, <1>5

\* add_deal_order and register_deal_order insert a deal id not yet stored.
LEMMA OrderBookDealsOK ==
    ASSUME OrderBookStep
    PROVE  DealStepOK
<1>1. CASE \E who \in Accounts, a \in ExtAddrs :
             RegisterAddress(who, a) \/ RegisterAddressV2(who, a)
    <2>1. UNCHANGED deals
        BY <1>1 DEF RegisterAddress, RegisterAddressV2, InsertAddress
    <2> QED
        BY <2>1, KeptDealsOK
<1>2. CASE \/ \E who \in Accounts, a \in ExtAddrs, t \in Terms, exp \in Blocks, g \in Guids :
                AddAskOrder(who, a, t, exp, g) \/ AddBidOrder(who, a, t, exp, g)
           \/ \E who \in Accounts, askId \in DOMAIN asks, bidId \in DOMAIN bids, exp \in Blocks :
                AddOffer(who, askId, bidId, exp)
    <2>1. UNCHANGED deals
        BY <1>2 DEF AddAskOrder, AddBidOrder, AddOffer
    <2> QED
        BY <2>1, KeptDealsOK
<1>3. CASE \E who \in Accounts, offerId \in DOMAIN offers, exp \in Blocks :
             AddDealOrder(who, offerId, exp)
    <2>1. PICK who \in Accounts, offerId \in DOMAIN offers, exp \in Blocks :
             AddDealOrder(who, offerId, exp)
        BY <1>3
    <2>2. /\ <<exp, offerId>> \notin DOMAIN deals
          /\ deals' = Put(deals, <<exp, offerId>>,
                          NewDeal(asks[offerId[2]].addr, bids[offerId[3]].addr,
                                  asks[offerId[2]].terms, who))
        BY <2>1 DEF AddDealOrder
    <2> QED
        BY <2>2, KeptDealsOK DEF Put
<1>4. CASE \E who, b \in Accounts, la, ba \in ExtAddrs, t \in Terms, exp \in Blocks,
             ag, bg \in Guids : RegisterDealOrder(who, b, la, ba, t, exp, ag, bg)
    <2>1. PICK who, b \in Accounts, la, ba \in ExtAddrs, t \in Terms, exp \in Blocks,
             ag, bg \in Guids : RegisterDealOrder(who, b, la, ba, t, exp, ag, bg)
        BY <1>4
    <2>2. /\ <<exp, <<exp, <<exp, ag>>, <<exp, bg>>>>>> \notin DOMAIN deals
          /\ deals' = Put(deals, <<exp, <<exp, <<exp, ag>>, <<exp, bg>>>>>>,
                          NewDeal(la, ba, t, b))
        BY <2>1 DEF RegisterDealOrder
    <2> QED
        BY <2>2, KeptDealsOK DEF Put
<1> QED
    BY <1>1, <1>2, <1>3, <1>4 DEF OrderBookStep

LEMMA NextDealStep == IInv /\ [Next]_vars => [DealStepOK]_vars
<1> SUFFICES ASSUME IInv, [Next]_vars PROVE DealStepOK
    OBVIOUS
<1>1. CASE OrderBookStep
    BY <1>1, OrderBookDealsOK
<1>2. CASE \/ \E who \in Accounts, d \in DOMAIN deals, tx \in TxIds :
                \/ RegisterFundingTransfer(who, d, tx)
                \/ \E amt \in Amounts : RegisterRepaymentTransfer(who, amt, d, tx)
           \/ \E who \in Accounts, a \in ExtAddrs, tx \in TxIds : RequestCollectCoins(who, a, tx)
           \/ \E k \in Contracts : SetCollectCoinsContract(k)
           \/ \E auth \in authorities, ok \in BOOLEAN,
                 key \in DOMAIN xferTasks \cup ccTasks : OffchainVerify(auth, key, ok)
           \/ \E s \in pool : PersistTaskOutput(s) \/ FailTask(s)
           \/ \E a \in Accounts : AddAuthority(a) \/ RemoveAuthority(a)
           \/ UNCHANGED vars
    <2>1. UNCHANGED deals
        BY <1>2 DEF RegisterFundingTransfer, RegisterRepaymentTransfer,
           RegisterTransferInternal, RequestCollectCoins, SetCollectCoinsContract,
           OffchainVerify, PersistTaskOutput, FailTask, AddAuthority, RemoveAuthority,
           obVars, vars
    <2> QED
        BY <2>1, KeptDealsOK
<1>3. CASE \E who \in Accounts, d \in DOMAIN deals :
             \/ LockDealOrder(who, d)
             \/ Exempt(who, d)
             \/ \E tid \in DOMAIN transfers :
                  FundDealOrder(who, d, tid) \/ CloseDealOrder(who, d, tid)
    BY <1>3, DealCallsOK
<1>4. CASE Tick
    <2>1. deals' = Drop(deals, UnfundedExpiringAt(now + 1))
        BY <1>4 DEF Tick, NewBlock, OnInitialize
    <2> QED
        BY <2>1, KeptDealsOK DEF Drop
<1> QED
    BY <1>1, <1>2, <1>3, <1>4 DEF Next

(* fund_deal_order, lock_deal_order, close_deal_order and exempt each fill *)
(* in one empty field of a stored deal, and no call or block rewrites a   *)
(* stored deal otherwise: DealWriteOnce, for every value of the constants. *)
THEOREM WriteOnceSafe == Spec => DealWriteOnce
<1>1. IInv /\ [Next]_vars => [DealStepOK]_vars
    BY NextDealStep
<1> QED
    BY <1>1, InitIInv, NextIInv, PTL DEF Spec, DealWriteOnce, DealStepOK
=============================================================================
