----------------------- MODULE EthlessValidationProofs -----------------------
(***************************************************************************)
(* Proof that verify_ethless_transfer's verdict is correct                *)
(* (EthlessVerdictCorrect) for every claim, every number of               *)
(* confirmations and every horizon of the external chain.                  *)
(*                                                                         *)
(* The argument has two parts.  First, validate_ethless_transfer's chain  *)
(* of early returns (Validate) computes the reference verdict: Ok when    *)
(* every condition holds, otherwise the first condition, in the spec's     *)
(* order, that fails (ValidateIsReference).  Second, what the worker read *)
(* stays true of the moving chain (EInv): a block number read is the      *)
(* block that mined the transaction, because a mined transaction stays    *)
(* where it is; a success read from the receipt is the transaction's own  *)
(* status; the tip read is at most the current tip, because the chain only *)
(* grows; and a verdict is only given in the last step of a check.        *)
(***************************************************************************)
EXTENDS EthlessValidation, TLAPS

EInv ==
    /\ TypeOK
    /\ mined # None => mined <= tip
    /\ seenBlock # None => seenBlock = mined
    /\ seenOk => tx.success
    /\ phase = "receipt" => mined # None
    /\ phase # "idle" => verdict = None
    /\ verdict \notin {None, "RpcError"} =>
           /\ verdict = Validate(seenOk, seenBlock, seenTip, tx)
           /\ seenTip <= tip

-----------------------------------------------------------------------------
(* validate_ethless_transfer computes the reference verdict. *)

\* The least element of a set of indices is the one the reference chooses.
LEMMA FirstFailing ==
    ASSUME NEW F \in SUBSET (1..11), NEW k \in F, \A j \in 1..(k - 1) : j \notin F
    PROVE  (CHOOSE i \in F : \A j \in F : i <= j) = k
<1>1. \A j \in F : k <= j
    OBVIOUS
<1>2. \E i \in F : \A j \in F : i <= j
    BY <1>1
<1> DEFINE m == CHOOSE i \in F : \A j \in F : i <= j
<1>3. m \in F /\ \A j \in F : m <= j
    BY <1>2, Zenon
<1>4. m \in 1..11 /\ k \in 1..11 /\ m <= k /\ k <= m
    BY <1>1, <1>3
<1> QED
    BY <1>4

LEMMA ValidateIsReference ==
    ASSUME NEW ok \in BOOLEAN, NEW block \in Blocks \cup {None}, NEW ethTip \in Blocks,
           NEW t \in Txs
    PROVE  Validate(ok, block, ethTip, t) = Reference(ok, block, ethTip, t)
<1> DEFINE F == {i \in DOMAIN Order : ~Holds(Order[i], ok, block, ethTip, t)}
           decoded == t.input # Garbage
<1>0. /\ DOMAIN Order = 1..11
      /\ Conf \in Nat
      /\ block # None => block \in Nat
      /\ ethTip \in Nat
    BY EthlessAssumption DEF Order, Blocks
<1>1. Reference(ok, block, ethTip, t) =
        IF F = {} THEN "Ok" ELSE Order[CHOOSE i \in F : \A j \in F : i <= j]
    BY DEF Reference
<1>6. /\ Order[1] = "TaskFailed" /\ Order[2] = "TaskPending" /\ Order[3] = "TaskInFuture"
      /\ Order[4] = "TaskUnconfirmed" /\ Order[5] = "MissingReceiver"
      /\ Order[6] = "IncorrectContract" /\ Order[7] = "AbiMismatch"
      /\ Order[8] = "IncorrectSender" /\ Order[9] = "IncorrectReceiver"
      /\ Order[10] = "IncorrectAmount" /\ Order[11] = "IncorrectNonce"
    BY DEF Order
<1>2. /\ 1 \in F <=> ~ok
      /\ 2 \in F <=> block = None
      /\ 3 \in F <=> block # None /\ ~(block <= ethTip)
      /\ 4 \in F <=> block # None /\ block <= ethTip /\ ~(block + Conf <= ethTip)
      /\ 5 \in F <=> t.to = None
      /\ 6 \in F <=> t.to \notin {None, ClaimContract}
      /\ 7 \in F <=> ~decoded
      /\ 8 \in F <=> decoded /\ t.input.from # ClaimFrom
      /\ 9 \in F <=> decoded /\ t.input.to # ClaimTo
      /\ 10 \in F <=> decoded /\ t.input.value # ClaimAmount
      /\ 11 \in F <=> decoded /\ t.input.nonce # ClaimDeal
    <2>0. \A k \in 1..11 : k \in F <=> ~Holds(Order[k], ok, block, ethTip, t)
        BY <1>0
    <2>1. Holds("TaskFailed", ok, block, ethTip, t) <=> (ok)
        BY DEF Holds
    <2>2. Holds("TaskPending", ok, block, ethTip, t) <=> (block # None)
        BY DEF Holds
    <2>3. Holds("TaskInFuture", ok, block, ethTip, t) <=> (block # None => block <= ethTip)
        BY DEF Holds
    <2>4. Holds("TaskUnconfirmed", ok, block, ethTip, t) <=> (block # None /\ block <= ethTip => block + Conf <= ethTip)
        BY DEF Holds
    <2>5. Holds("MissingReceiver", ok, block, ethTip, t) <=> (t.to # None)
        BY DEF Holds
    <2>6. Holds("IncorrectContract", ok, block, ethTip, t) <=> (t.to \in {None, ClaimContract})
        BY DEF Holds
    <2>7. Holds("AbiMismatch", ok, block, ethTip, t) <=> (decoded)
        BY DEF Holds
    <2>8. Holds("IncorrectSender", ok, block, ethTip, t) <=> (decoded => t.input.from = ClaimFrom)
        BY DEF Holds
    <2>9. Holds("IncorrectReceiver", ok, block, ethTip, t) <=> (decoded => t.input.to = ClaimTo)
        BY DEF Holds
    <2>10. Holds("IncorrectAmount", ok, block, ethTip, t) <=> (decoded => t.input.value = ClaimAmount)
        BY DEF Holds
    <2>11. Holds("IncorrectNonce", ok, block, ethTip, t) <=> (decoded => t.input.nonce = ClaimDeal)
        BY DEF Holds
    <2> QED
        BY <2>0, <2>1, <2>2, <2>3, <2>4, <2>5, <2>6, <2>7, <2>8, <2>9, <2>10, <2>11, <1>6
<1>3. F \in SUBSET (1..11)
    BY <1>0
<1>4. /\ block # None /\ block <= ethTip =>
           (Confirmed(ethTip - block) <=> block + Conf <= ethTip)
    BY <1>0 DEF Confirmed
<1>5. \A k \in 1..11 :
        k \in F /\ (\A j \in 1..(k - 1) : j \notin F) =>
            Reference(ok, block, ethTip, t) = Order[k]
    BY <1>1, <1>3, FirstFailing
<1>7. CASE ~ok
    <2>1. 1 \in F /\ \A j \in 1..(1 - 1) : j \notin F
        BY <1>2, <1>7
    <2>2. Reference(ok, block, ethTip, t) = Order[1]
        BY <2>1, <1>5
    <2>3. Validate(ok, block, ethTip, t) = Order[1]
        BY <1>6, <1>7 DEF Validate
    <2> QED
        BY <2>2, <2>3
<1>8. CASE ok /\ block = None
    <2>1. 2 \in F /\ \A j \in 1..(2 - 1) : j \notin F
        <3>1. 1 \notin F
            BY <1>2, <1>8
        <3>2. 2 \in F
            BY <1>2, <1>8
        <3> QED
            BY <3>1, <3>2
    <2>2. Reference(ok, block, ethTip, t) = Order[2]
        BY <2>1, <1>5
    <2>3. Validate(ok, block, ethTip, t) = Order[2]
        BY <1>6, <1>8 DEF Validate
    <2> QED
        BY <2>2, <2>3
<1>9. CASE ok /\ block # None /\ ~(block <= ethTip)
    <2>1. 3 \in F /\ \A j \in 1..(3 - 1) : j \notin F
        <3>1. 1 \notin F
            BY <1>2, <1>9
        <3>2. 2 \notin F
            BY <1>2, <1>9
        <3>3. 3 \in F
            BY <1>2, <1>9
        <3> QED
            BY <3>1, <3>2, <3>3
    <2>2. Reference(ok, block, ethTip, t) = Order[3]
        BY <2>1, <1>5
    <2>3. Validate(ok, block, ethTip, t) = Order[3]
        BY <1>6, <1>9 DEF Validate
    <2> QED
        BY <2>2, <2>3
<1>10. CASE ok /\ block # None /\ block <= ethTip /\ ~(block + Conf <= ethTip)
    <2>1. 4 \in F /\ \A j \in 1..(4 - 1) : j \notin F
        <3>1. 1 \notin F
            BY <1>2, <1>10
        <3>2. 2 \notin F
            BY <1>2, <1>10
        <3>3. 3 \notin F
            BY <1>2, <1>10
        <3>4. 4 \in F
            BY <1>2, <1>10
        <3> QED
            BY <3>1, <3>2, <3>3, <3>4
    <2>2. Reference(ok, block, ethTip, t) = Order[4]
        BY <2>1, <1>5
    <2>3. Validate(ok, block, ethTip, t) = Order[4]
        BY <1>4, <1>6, <1>10 DEF Validate
    <2> QED
        BY <2>2, <2>3
<1>11. CASE ok /\ block # None /\ block <= ethTip /\ block + Conf <= ethTip
    <2>1. /\ 1 \notin F /\ 2 \notin F /\ 3 \notin F /\ 4 \notin F
          /\ Validate(ok, block, ethTip, t) =
               IF t.to = None THEN "MissingReceiver"
               ELSE IF t.to # ClaimContract THEN "IncorrectContract"
               ELSE IF t.input = Garbage THEN "AbiMismatch"
               ELSE IF t.input.from # ClaimFrom THEN "IncorrectSender"
               ELSE IF t.input.to # ClaimTo THEN "IncorrectReceiver"
               ELSE IF t.input.value # ClaimAmount THEN "IncorrectAmount"
               ELSE IF t.input.nonce # ClaimDeal THEN "IncorrectNonce"
               ELSE "Ok"
        BY <1>2, <1>4, <1>11 DEF Validate
    <2>2. CASE t.to = None
        BY <1>2, <1>5, <1>6, <2>1, <2>2
    <2>3. CASE t.to # None /\ t.to # ClaimContract
        BY <1>2, <1>5, <1>6, <2>1, <2>3
    <2>4. CASE t.to = ClaimContract /\ ~decoded
        BY <1>2, <1>5, <1>6, <2>1, <2>4
    <2>5. CASE t.to = ClaimContract /\ decoded /\ t.input.from # ClaimFrom
        BY <1>2, <1>5, <1>6, <2>1, <2>5
    <2>6. CASE t.to = ClaimContract /\ decoded /\ t.input.from = ClaimFrom
               /\ t.input.to # ClaimTo
        BY <1>2, <1>5, <1>6, <2>1, <2>6
    <2>7. CASE t.to = ClaimContract /\ decoded /\ t.input.from = ClaimFrom
               /\ t.input.to = ClaimTo /\ t.input.value # ClaimAmount
        BY <1>2, <1>5, <1>6, <2>1, <2>7
    <2>8. CASE t.to = ClaimContract /\ decoded /\ t.input.from = ClaimFrom
               /\ t.input.to = ClaimTo /\ t.input.value = ClaimAmount
               /\ t.input.nonce # ClaimDeal
        BY <1>2, <1>5, <1>6, <2>1, <2>8
    <2>9. CASE t.to = ClaimContract /\ decoded /\ t.input.from = ClaimFrom
               /\ t.input.to = ClaimTo /\ t.input.value = ClaimAmount
               /\ t.input.nonce = ClaimDeal
        <3>1. \A i \in 1..11 : i \notin F
            <4>0. SUFFICES ASSUME NEW i \in 1..11 PROVE i \notin F
                OBVIOUS
            <4>5. 5 \notin F
                BY <1>2, <2>9, EthlessAssumption
            <4>6. 6 \notin F
                BY <1>2, <2>9, EthlessAssumption
            <4>7. 7 \notin F
                BY <1>2, <2>9
            <4>8. 8 \notin F
                BY <1>2, <2>9
            <4>9. 9 \notin F
                BY <1>2, <2>9
            <4>10. 10 \notin F
                BY <1>2, <2>9
            <4>11. 11 \notin F
                BY <1>2, <2>9
            <4> QED
                BY <2>1, <4>5, <4>6, <4>7, <4>8, <4>9, <4>10, <4>11
        <3>2. F = {}
            BY <1>3, <3>1
        <3>3. Validate(ok, block, ethTip, t) = "Ok"
            BY <2>1, <2>9, EthlessAssumption
        <3> QED
            BY <1>1, <3>2, <3>3
    <2> QED
        BY <2>2, <2>3, <2>4, <2>5, <2>6, <2>7, <2>8, <2>9
<1> QED
    BY <1>7, <1>8, <1>9, <1>10, <1>11
-----------------------------------------------------------------------------
(* What the worker read stays true of the moving chain. *)

LEMMA InitEInv == Init => EInv
<1> SUFFICES ASSUME Init PROVE EInv
    OBVIOUS
<1>1. tip \in Blocks /\ seenTip \in Blocks
    BY EthlessAssumption DEF Init, Blocks
<1>2. TypeOK
    BY <1>1 DEF Init, TypeOK, Phases
<1> QED
    BY <1>2 DEF Init, EInv

\* An Ok from validate_ethless_transfer means every condition held of what
\* was read.
LEMMA ValidateOk ==
    ASSUME NEW ok \in BOOLEAN, NEW block \in Blocks \cup {None}, NEW ethTip \in Blocks,
           NEW t \in Txs, Validate(ok, block, ethTip, t) = "Ok"
    PROVE  /\ ok /\ block # None /\ block + Conf <= ethTip
           /\ t.to = ClaimContract
           /\ t.input = [from |-> ClaimFrom, to |-> ClaimTo, value |-> ClaimAmount,
                         nonce |-> ClaimDeal]
<1>1. /\ ok /\ block # None /\ block <= ethTip /\ Confirmed(ethTip - block)
      /\ t.to = ClaimContract /\ t.input # Garbage
      /\ t.input.from = ClaimFrom /\ t.input.to = ClaimTo
      /\ t.input.value = ClaimAmount /\ t.input.nonce = ClaimDeal
    BY DEF Validate
<1>2. block + Conf <= ethTip
    BY <1>1, EthlessAssumption DEF Confirmed, Blocks
<1>3. t.input \in Inputs
    BY <1>1 DEF Txs
<1> QED
    BY <1>1, <1>2, <1>3 DEF Inputs

LEMMA NextEInv == EInv /\ [Next]_vars => EInv'
<1> SUFFICES ASSUME EInv, [Next]_vars PROVE EInv'
    OBVIOUS
<1>1. CASE NewBlock
    <2>1. tip + 1 \in Blocks /\ tip' = tip + 1
        BY <1>1, EthlessAssumption DEF EInv, TypeOK, NewBlock, Blocks
    <2>2. CASE UNCHANGED mined
        BY <1>1, <2>1, <2>2 DEF EInv, TypeOK, NewBlock, Blocks
    <2>3. CASE mined = None /\ mined' = tip + 1
        <3>1. seenBlock = None
            BY <2>3 DEF EInv
        <3> QED
            BY <1>1, <2>1, <2>3, <3>1 DEF EInv, TypeOK, NewBlock, Blocks
    <2> QED
        BY <1>1, <2>2, <2>3 DEF NewBlock
<1>2. CASE ReadTx
    BY <1>2 DEF EInv, TypeOK, ReadTx, Phases
<1>3. CASE ReadReceipt
    BY <1>3 DEF EInv, TypeOK, ReadReceipt, Phases, Verdicts, Txs
<1>4. CASE ReadTipAndValidate
    <2>1. Validate(seenOk, seenBlock, tip, tx) \in Verdicts
        BY DEF Validate, Verdicts
    <2>2. TypeOK'
        BY <1>4, <2>1 DEF EInv, TypeOK, ReadTipAndValidate, Phases
    <2>3. verdict' = Validate(seenOk', seenBlock', seenTip', tx') /\ seenTip' <= tip'
        BY <1>4 DEF EInv, TypeOK, ReadTipAndValidate, Blocks
    <2> QED
        BY <1>4, <2>2, <2>3 DEF EInv, ReadTipAndValidate
<1>5. CASE UNCHANGED vars
    BY <1>5 DEF EInv, TypeOK, vars
<1> QED
    BY <1>1, <1>2, <1>3, <1>4, <1>5 DEF Next

LEMMA EInvCorrect == EInv => EthlessVerdictCorrect
<1> SUFFICES ASSUME EInv, verdict \notin {None, "RpcError"}
             PROVE  /\ verdict = Reference(seenOk, seenBlock, seenTip, tx)
                    /\ verdict = "Ok" => VerifiedNow
    BY DEF EthlessVerdictCorrect
<1>1. /\ seenOk \in BOOLEAN /\ seenBlock \in Blocks \cup {None}
      /\ seenTip \in Blocks /\ tx \in Txs
      /\ verdict = Validate(seenOk, seenBlock, seenTip, tx)
    BY DEF EInv, TypeOK
<1>2. verdict = Reference(seenOk, seenBlock, seenTip, tx)
    BY <1>1, ValidateIsReference
<1>3. ASSUME verdict = "Ok" PROVE VerifiedNow
    <2>1. /\ seenOk /\ seenBlock # None /\ seenBlock + Conf <= seenTip
          /\ tx.to = ClaimContract
          /\ tx.input = [from |-> ClaimFrom, to |-> ClaimTo, value |-> ClaimAmount,
                         nonce |-> ClaimDeal]
        BY <1>1, <1>3, ValidateOk
    <2>2. tx.success /\ mined = seenBlock /\ seenTip <= tip
        BY <2>1, <1>3 DEF EInv
    <2>3. mined + Conf <= tip
        BY <1>1, <2>1, <2>2, EthlessAssumption DEF EInv, TypeOK, Blocks
    <2> QED
        BY <2>1, <2>2, <2>3 DEF VerifiedNow
<1> QED
    BY <1>2, <1>3

(* verify_ethless_transfer's verdict is, for every claim, every           *)
(* ETH_CONFIRMATIONS and every horizon of the external chain, the cause   *)
(* of the first of the spec's conditions that fails on what it read, and  *)
(* an Ok is still true of the chain when it is given.  This is            *)
(* EthlessVerdictCorrect, which the ethless_validation run checks.         *)
THEOREM VerdictSafe == Spec => []EthlessVerdictCorrect
BY InitEInv, NextEInv, EInvCorrect, PTL DEF Spec
=============================================================================
