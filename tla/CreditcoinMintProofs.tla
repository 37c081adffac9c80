------------------------- MODULE CreditcoinMintProofs -------------------------
(***************************************************************************)
(* Proof that persist_task_output (CollectCoins) mints each collect-coins  *)
(* claim exactly once (CollectedMintedOnce), for every value of the        *)
(* constants.                                                              *)
(*                                                                         *)
(* The invariant counts, per account, the collected claims whose address  *)
(* that account owns.  It is not inductive alone: register_address could  *)
(* give an owner to the address of a claim already collected, and the     *)
(* count of that owner would grow with no mint.  The claim's address is   *)
(* registered when the claim is collected (the call checks it) and an     *)
(* address is never unregistered, so every collected claim's address is   *)
(* registered (CollectedRegistered).  The count is of a finite set:        *)
(* CollectedCoins grows one claim per call from empty (IsFiniteSet).       *)
(***************************************************************************)
EXTENDS CreditcoinProofs, FiniteSetTheorems

\* Every collected claim's address is registered.
CollectedRegistered == \A id \in collected : id[1] \in DOMAIN addresses

\* The claims collected for the addresses of account a.
CollectedOf(a) == {id \in collected : Owns(a, id[1])}

\* The part of the invariant about CollectedCoins and the balances.
MintOK == IsFiniteSet(collected) /\ CollectedRegistered /\ CollectedMintedOnce

MInv == IInv /\ MintOK

\* CollectedMintedOnce, counted through CollectedOf.
LEMMA MintedOnceDef ==
    CollectedMintedOnce <=>
        \A a \in Accounts : balance[a] = InitBalance[a] + CCAmount * Cardinality(CollectedOf(a))
BY DEF CollectedMintedOnce, CollectedOf

\* A step that changes neither CollectedCoins, the balances nor the owners
\* of the collected claims' addresses keeps MintOK.
LEMMA MintFrame ==
    ASSUME MintOK, UNCHANGED <<collected, balance>>,
           \A id \in collected : id[1] \in DOMAIN addresses' /\ addresses'[id[1]] = addresses[id[1]]
    PROVE  MintOK'
<1>1. \A a \in Accounts : CollectedOf(a)' = CollectedOf(a)
    <2> SUFFICES ASSUME NEW a \in Accounts PROVE CollectedOf(a)' = CollectedOf(a)
        OBVIOUS
    <2>1. CollectedOf(a)' = {id \in collected : id[1] \in DOMAIN addresses' /\ addresses'[id[1]] = a}
        BY DEF CollectedOf, Owns
    <2>2. CollectedOf(a) = {id \in collected : id[1] \in DOMAIN addresses /\ addresses[id[1]] = a}
        BY DEF CollectedOf, Owns
    <2>3. \A id \in collected : (id[1] \in DOMAIN addresses' /\ addresses'[id[1]] = a)
                                <=> (id[1] \in DOMAIN addresses /\ addresses[id[1]] = a)
        BY DEF MintOK, CollectedRegistered
    <2> QED
        BY <2>1, <2>2, <2>3
<1>2. CollectedMintedOnce'
    BY <1>1 DEF MintOK, CollectedMintedOnce, CollectedOf
<1> QED
    BY <1>2 DEF MintOK, CollectedRegistered

\* persist_task_output (CollectCoins) adds one claim to the count of the
\* owner of its address, whose balance it credits by CCAmount.
LEMMA PersistCollectCoinsMint ==
    ASSUME IInv, MintOK, NEW s, PersistCollectCoins(s), UNCHANGED addresses
    PROVE  MintOK'
<1> DEFINE o == addresses[s.id[1]]
<1>1. /\ s.id \notin collected
      /\ s.id[1] \in DOMAIN addresses
      /\ collected' = collected \cup {s.id}
      /\ balance' = [balance EXCEPT ![o] = @ + CCAmount]
    BY DEF PersistCollectCoins
<1>2. o \in Accounts /\ balance \in [Accounts -> Nat] /\ CCAmount \in Nat
    BY <1>1, CreditcoinAssumption DEF IInv, TypeOK, IsMap
<1>3. IsFiniteSet(collected')
    BY <1>1, FS_AddElement DEF MintOK
<1>4. CollectedRegistered'
    BY <1>1 DEF MintOK, CollectedRegistered
<1>5. /\ CollectedOf(o)' = CollectedOf(o) \cup {s.id}
      /\ s.id \notin CollectedOf(o)
      /\ \A a \in Accounts \ {o} : CollectedOf(a)' = CollectedOf(a)
    BY <1>1 DEF CollectedOf, Owns
<1>6. /\ IsFiniteSet(CollectedOf(o))
      /\ Cardinality(CollectedOf(o)') = Cardinality(CollectedOf(o)) + 1
      /\ Cardinality(CollectedOf(o)) \in Nat
    <2>1. IsFiniteSet(CollectedOf(o))
        BY FS_Subset DEF MintOK, CollectedOf
    <2> QED
        BY <1>5, <2>1, FS_AddElement, FS_CardinalityType
<1>7. \A a \in Accounts : balance'[a] = InitBalance[a] + CCAmount * Cardinality(CollectedOf(a)')
    <2> SUFFICES ASSUME NEW a \in Accounts
                 PROVE  balance'[a] = InitBalance[a] + CCAmount * Cardinality(CollectedOf(a)')
        OBVIOUS
    <2>1. balance[a] = InitBalance[a] + CCAmount * Cardinality(CollectedOf(a))
        BY MintedOnceDef DEF MintOK
    <2>2. InitBalance[a] \in Nat
        BY CreditcoinAssumption
    <2>3. CASE a = o
        BY <1>1, <1>2, <1>6, <2>1, <2>2, <2>3
    <2>4. CASE a # o
        BY <1>1, <1>2, <1>5, <2>1, <2>4
    <2> QED
        BY <2>3, <2>4
<1> QED
    BY <1>3, <1>4, <1>7 DEF MintOK, CollectedMintedOnce, CollectedOf

\* A step that leaves CollectedCoins, the balances and the addresses alone.
LEMMA MintUnchanged ==
    ASSUME MintOK, UNCHANGED <<collected, balance, addresses>>
    PROVE  MintOK'
<1>1. \A id \in collected : id[1] \in DOMAIN addresses' /\ addresses'[id[1]] = addresses[id[1]]
    BY DEF MintOK, CollectedRegistered
<1> QED
    BY <1>1, MintFrame

\* Every step but persist_task_output (CollectCoins) keeps MintOK:
\* register_address only registers a new address, no collected claim's.
LEMMA NextMint == IInv /\ MintOK /\ [Next]_vars => MintOK'
<1> SUFFICES ASSUME IInv, MintOK, [Next]_vars PROVE MintOK'
    OBVIOUS
<1>1. CASE OrderBookStep
    <2>1. UNCHANGED <<collected, balance>>
        BY <1>1 DEF OrderBookStep, oracleVars
    <2>2. CASE \E who \in Accounts, a \in ExtAddrs :
                 RegisterAddress(who, a) \/ RegisterAddressV2(who, a)
        <3>1. PICK who \in Accounts, a \in ExtAddrs : InsertAddress(who, a)
            BY <2>2 DEF RegisterAddress, RegisterAddressV2
        <3>2. \A id \in collected :
                 id[1] \in DOMAIN addresses' /\ addresses'[id[1]] = addresses[id[1]]
            BY <3>1 DEF InsertAddress, Put, MintOK, CollectedRegistered
        <3> QED
            BY <2>1, <3>2, MintFrame
    <2>3. CASE \/ \E who \in Accounts, a \in ExtAddrs, t \in Terms, exp \in Blocks, g \in Guids :
                    AddAskOrder(who, a, t, exp, g) \/ AddBidOrder(who, a, t, exp, g)
               \/ \E who \in Accounts, askId \in DOMAIN asks, bidId \in DOMAIN bids,
                     exp \in Blocks : AddOffer(who, askId, bidId, exp)
               \/ \E who \in Accounts, offerId \in DOMAIN offers, exp \in Blocks :
                    AddDealOrder(who, offerId, exp)
               \/ \E who, b \in Accounts, la, ba \in ExtAddrs, t \in Terms, exp \in Blocks,
                     ag, bg \in Guids : RegisterDealOrder(who, b, la, ba, t, exp, ag, bg)
        <3>1. UNCHANGED addresses
            <4>1. CASE \E who \in Accounts, a \in ExtAddrs, t \in Terms, exp \in Blocks,
                         g \in Guids : AddAskOrder(who, a, t, exp, g) \/ AddBidOrder(who, a, t, exp, g)
                BY <4>1 DEF AddAskOrder, AddBidOrder
            <4>2. CASE \E who \in Accounts, askId \in DOMAIN asks, bidId \in DOMAIN bids,
                         exp \in Blocks : AddOffer(who, askId, bidId, exp)
                BY <4>2 DEF AddOffer
            <4>3. CASE \E who \in Accounts, offerId \in DOMAIN offers, exp \in Blocks :
                         AddDealOrder(who, offerId, exp)
                BY <4>3 DEF AddDealOrder
            <4>4. CASE \E who, b \in Accounts, la, ba \in ExtAddrs, t \in Terms, exp \in Blocks,
                         ag, bg \in Guids : RegisterDealOrder(who, b, la, ba, t, exp, ag, bg)
                BY <4>4 DEF RegisterDealOrder
            <4> QED
                BY <2>3, <4>1, <4>2, <4>3, <4>4
        <3> QED
            BY <2>1, <3>1, MintUnchanged
    <2> QED
        BY <1>1, <2>2, <2>3 DEF OrderBookStep
<1>2. CASE \E s \in pool : PersistTaskOutput(s)
    <2>1. PICK s \in pool : PersistTaskOutput(s)
        BY <1>2
    <2>2. UNCHANGED addresses
        BY <2>1 DEF PersistTaskOutput, obVars
    <2>3. CASE PersistCollectCoins(s)
        BY <2>2, <2>3, PersistCollectCoinsMint
    <2>4. CASE PersistTransfer(s)
        <3>1. UNCHANGED <<collected, balance>>
            BY <2>4 DEF PersistTransfer
        <3> QED
            BY <2>2, <3>1, MintUnchanged
    <2> QED
        BY <2>1, <2>3, <2>4 DEF PersistTaskOutput
<1>3. CASE \/ \E who \in Accounts, d \in DOMAIN deals, tx \in TxIds :
                \/ RegisterFundingTransfer(who, d, tx)
                \/ \E amt \in Amounts : RegisterRepaymentTransfer(who, amt, d, tx)
           \/ \E who \in Accounts, a \in ExtAddrs, tx \in TxIds : RequestCollectCoins(who, a, tx)
           \/ \E k \in Contracts : SetCollectCoinsContract(k)
           \/ \E auth \in authorities, ok \in BOOLEAN,
                 key \in DOMAIN xferTasks \cup ccTasks : OffchainVerify(auth, key, ok)
           \/ \E s \in pool : FailTask(s)
           \/ \E a \in Accounts : AddAuthority(a) \/ RemoveAuthority(a)
           \/ UNCHANGED vars
    <2>1. UNCHANGED <<collected, balance, addresses>>
        BY <1>3 DEF RegisterFundingTransfer, RegisterRepaymentTransfer,
           RegisterTransferInternal, RequestCollectCoins, SetCollectCoinsContract,
           OffchainVerify, FailTask, AddAuthority, RemoveAuthority, obVars, oracleVars, vars
    <2> QED
        BY <2>1, MintUnchanged
<1>4. CASE \E who \in Accounts, d \in DOMAIN deals :
             \/ LockDealOrder(who, d)
             \/ Exempt(who, d)
             \/ \E tid \in DOMAIN transfers :
                  FundDealOrder(who, d, tid) \/ CloseDealOrder(who, d, tid)
    <2>1. PICK who \in Accounts, d \in DOMAIN deals :
             \/ LockDealOrder(who, d)
             \/ Exempt(who, d)
             \/ \E tid \in DOMAIN transfers :
                  FundDealOrder(who, d, tid) \/ CloseDealOrder(who, d, tid)
        BY <1>4
    <2>2. CASE LockDealOrder(who, d)
        BY <2>2, MintUnchanged DEF LockDealOrder, oracleVars
    <2>3. CASE Exempt(who, d)
        BY <2>3, MintUnchanged DEF Exempt, oracleVars
    <2>4. CASE \E tid \in DOMAIN transfers : FundDealOrder(who, d, tid)
        BY <2>4, MintUnchanged DEF FundDealOrder, oracleVars
    <2>5. CASE \E tid \in DOMAIN transfers : CloseDealOrder(who, d, tid)
        BY <2>5, MintUnchanged DEF CloseDealOrder, oracleVars
    <2> QED
        BY <2>1, <2>2, <2>3, <2>4, <2>5
<1>5. CASE Tick
    <2>1. UNCHANGED <<collected, balance, addresses>>
        BY <1>5 DEF Tick, NewBlock
    <2> QED
        BY <2>1, MintUnchanged
<1> QED
    BY <1>1, <1>2, <1>3, <1>4, <1>5 DEF Next

(* persist_task_output (CollectCoins), however the authorities'            *)
(* submissions race and whether or not a mint overflows, and every other  *)
(* call: in every reachable state each account's balance is its initial    *)
(* balance plus CCAmount for each collected claim on one of its addresses, *)
(* so no claim is minted twice and none is recorded unminted.             *)
THEOREM MintedOnceSafe == Spec => []CollectedMintedOnce
<1>1. Init => MInv
    BY InitIInv, FS_EmptySet, CreditcoinAssumption
       DEF Init, obInit, MInv, MintOK, CollectedRegistered, CollectedMintedOnce
<1>2. MInv /\ [Next]_vars => MInv'
    BY NextIInv, NextMint DEF MInv
<1>3. MInv => CollectedMintedOnce
    BY DEF MInv, MintOK
<1> QED
    BY <1>1, <1>2, <1>3, PTL DEF Spec
=============================================================================
