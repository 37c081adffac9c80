------------------------- MODULE CreditcoinRefinement -------------------------
(***************************************************************************)
(* Proof that the pallet implements the abstract ledger of VerifiedLedger  *)
(* under the refinement mapping of Creditcoin (Ledger): the claims of the  *)
(* stored transfers are the verified claims, the processed transfers the  *)
(* spent ones, CollectedCoins the minted claims and the balances the      *)
(* credit.                                                                 *)
(*                                                                         *)
(* The argument is step by step.  persist_task_output (VerifyTransfer)    *)
(* inserts a new transfer, not yet processed, whose claim is a Claims     *)
(* record because every in-flight transfer submission carries one         *)
(* (PoolClaims, part of IInv): a Verify step.  persist_task_output        *)
(* (CollectCoins) records a claim not recorded before and credits the     *)
(* owner of its address: a Mint step.  fund_deal_order and                *)
(* close_deal_order set is_processed on an unprocessed transfer and keep  *)
(* its claim: a Spend step.  Every other call leaves transfers,            *)
(* CollectedCoins and the balances alone: a stutter.                       *)
(***************************************************************************)
EXTENDS CreditcoinProofs

\* The abstract state is a function of transfers, collected and balance.
LEMMA MappedUnchanged ==
    ASSUME UNCHANGED <<transfers, collected, balance>>
    PROVE  UNCHANGED Ledger!ledgerVars
BY DEF Ledger!ledgerVars, ClaimOf

\* The initial state maps to the ledger's initial state.
LEMMA InitRefined == Init => Ledger!Init
<1> SUFFICES ASSUME Init PROVE Ledger!Init
    OBVIOUS
<1>1. [t \in DOMAIN transfers |-> ClaimOf(t)] = [x \in {} |-> CCAmount]
    BY DEF Init
<1>2. {t \in DOMAIN transfers : transfers[t].processed} = {}
    BY DEF Init
<1> QED
    BY <1>1, <1>2 DEF Init, Ledger!Init

\* persist_task_output (VerifyTransfer) is a Verify step.
LEMMA PersistTransferRefined ==
    ASSUME IInv, NEW s \in pool, PersistTransfer(s)
    PROVE  Ledger!Verify(s.id)
<1>1. s.claim \in Claims
    BY DEF IInv, PoolClaims, PersistTransfer
<1> DEFINE rec == [deal |-> s.claim.deal, amount |-> s.claim.amount,
                   account |-> s.claim.account, processed |-> FALSE, block |-> now]
<1>2. transfers' = Put(transfers, s.id, rec) /\ s.id \notin DOMAIN transfers
    BY DEF PersistTransfer
<1>3. DOMAIN transfers' = DOMAIN transfers \cup {s.id}
    BY <1>2 DEF Put
<1>4. ClaimOf(s.id)' = s.claim
    BY <1>1, <1>2 DEF ClaimOf, Put, Claims
<1>5. \A y \in DOMAIN transfers : ClaimOf(y)' = ClaimOf(y)
    BY <1>2 DEF ClaimOf, Put
<1>6. {t \in DOMAIN transfers' : transfers'[t].processed}
        = {t \in DOMAIN transfers : transfers[t].processed}
    BY <1>2, <1>3 DEF Put
<1>7. UNCHANGED <<collected, balance>>
    BY DEF PersistTransfer
<1> QED
    BY <1>1, <1>2, <1>3, <1>4, <1>5, <1>6, <1>7 DEF Ledger!Verify

\* persist_task_output (CollectCoins) is a Mint step for the address owner.
LEMMA PersistCollectCoinsRefined ==
    ASSUME IInv, NEW s \in pool, PersistCollectCoins(s)
    PROVE  Ledger!Mint(s.id, addresses[s.id[1]])
BY DEF PersistCollectCoins, Ledger!Mint, ClaimOf

\* Setting is_processed on an unprocessed transfer is a Spend step.
LEMMA ProcessRefined ==
    ASSUME IInv, NEW tid \in DOMAIN transfers, ~transfers[tid].processed,
           transfers' = [transfers EXCEPT ![tid].processed = TRUE],
           UNCHANGED <<collected, balance>>
    PROVE  Ledger!Spend(tid)
<1>1. transfers[tid] \in TransferRec
    BY DEF IInv, TypeOK, IsMap
<1>2. DOMAIN transfers' = DOMAIN transfers
    OBVIOUS
<1>3. \A t \in DOMAIN transfers : ClaimOf(t)' = ClaimOf(t)
    BY <1>1 DEF ClaimOf, TransferRec
<1>4. [t \in DOMAIN transfers' |-> ClaimOf(t)'] = [t \in DOMAIN transfers |-> ClaimOf(t)]
    BY <1>2, <1>3
<1>5. {t \in DOMAIN transfers' : transfers'[t].processed}
        = {t \in DOMAIN transfers : transfers[t].processed} \cup {tid}
    BY <1>1 DEF TransferRec
<1> QED
    BY <1>4, <1>5 DEF Ledger!Spend

\* Every step of the pallet is a step of the ledger or leaves it alone.
LEMMA NextRefined == IInv /\ [Next]_vars => [Ledger!Next]_Ledger!ledgerVars
<1> SUFFICES ASSUME IInv, [Next]_vars PROVE [Ledger!Next]_Ledger!ledgerVars
    OBVIOUS
<1>1. CASE \E s \in pool : PersistTaskOutput(s)
    <2>1. PICK s \in pool : PersistTaskOutput(s)
        BY <1>1
    <2>2. s \in Submissions
        BY DEF IInv, TypeOK
    <2>3. CASE PersistTransfer(s)
        <3>1. s.id \in TransferIds
            BY <2>3 DEF PersistTransfer
        <3>2. Ledger!Verify(s.id)
            BY <2>3, PersistTransferRefined
        <3> QED
            BY <3>1, <3>2 DEF Ledger!Next
    <2>4. CASE PersistCollectCoins(s)
        <3>1. s.id \in CCIds /\ addresses[s.id[1]] \in Accounts
            BY <2>4 DEF PersistCollectCoins, IInv, TypeOK, IsMap
        <3>2. Ledger!Mint(s.id, addresses[s.id[1]])
            BY <2>4, PersistCollectCoinsRefined
        <3> QED
            BY <3>1, <3>2 DEF Ledger!Next
    <2> QED
        BY <2>1, <2>3, <2>4 DEF PersistTaskOutput
<1>2. CASE \E who \in Accounts, d \in DOMAIN deals, tid \in DOMAIN transfers :
             FundDealOrder(who, d, tid) \/ CloseDealOrder(who, d, tid)
    <2>1. PICK who \in Accounts, d \in DOMAIN deals, tid \in DOMAIN transfers :
             FundDealOrder(who, d, tid) \/ CloseDealOrder(who, d, tid)
        BY <1>2
    <2>2. /\ ~transfers[tid].processed
          /\ transfers' = [transfers EXCEPT ![tid].processed = TRUE]
          /\ UNCHANGED <<collected, balance>>
        BY <2>1 DEF FundDealOrder, CloseDealOrder, MutateDealAndTransfer
    <2>3. Ledger!Spend(tid)
        BY <2>2, ProcessRefined
    <2>4. tid \in TransferIds
        BY DEF IInv, TypeOK, IsMap
    <2> QED
        BY <2>3, <2>4 DEF Ledger!Next
<1>3. CASE \/ OrderBookStep
           \/ \E who \in Accounts, d \in DOMAIN deals, tx \in TxIds :
                \/ RegisterFundingTransfer(who, d, tx)
                \/ \E amt \in Amounts : RegisterRepaymentTransfer(who, amt, d, tx)
           \/ \E who \in Accounts, a \in ExtAddrs, tx \in TxIds : RequestCollectCoins(who, a, tx)
           \/ \E k \in Contracts : SetCollectCoinsContract(k)
           \/ \E auth \in authorities, ok \in BOOLEAN,
                 key \in DOMAIN xferTasks \cup ccTasks : OffchainVerify(auth, key, ok)
           \/ \E s \in pool : FailTask(s)
           \/ \E a \in Accounts : AddAuthority(a) \/ RemoveAuthority(a)
           \/ \E who \in Accounts, d \in DOMAIN deals : LockDealOrder(who, d) \/ Exempt(who, d)
           \/ Tick
           \/ UNCHANGED vars
    <2>1. UNCHANGED <<transfers, collected, balance>>
        BY <1>3 DEF OrderBookStep, oracleVars, RegisterFundingTransfer,
           RegisterRepaymentTransfer, RegisterTransferInternal, RequestCollectCoins,
           SetCollectCoinsContract, OffchainVerify, FailTask, AddAuthority,
           RemoveAuthority, LockDealOrder, Exempt, Tick, vars
    <2> QED
        BY <2>1, MappedUnchanged
<1> QED
    BY <1>1, <1>2, <1>3 DEF Next

(* The pallet implements the abstract ledger: a verified transfer claim is *)
(* never overwritten or removed, is_processed is set once and only on a   *)
(* verified transfer, and each collect-coins claim is minted once,        *)
(* crediting one account.  This is LedgerRefined, for every value of the  *)
(* constants.                                                              *)
THEOREM Refinement == Spec => LedgerRefined
<1>1. Spec => []IInv
    BY InitIInv, NextIInv, PTL DEF Spec
<1>2. Init => Ledger!Init
    BY InitRefined
<1>3. IInv /\ [Next]_vars => [Ledger!Next]_Ledger!ledgerVars
    BY NextRefined
<1> QED
    BY <1>1, <1>2, <1>3, PTL DEF Spec, LedgerRefined, Ledger!Spec
=============================================================================
