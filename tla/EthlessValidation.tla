-------------------------- MODULE EthlessValidation --------------------------
(***************************************************************************)
(* The offchain check of an ethless transfer claim                         *)
(* (src/pallets/creditcoin/src/ocw/tasks/verify_transfer.rs).              *)
(*                                                                         *)
(* verify_ethless_transfer reads, in three separate RPC calls, the         *)
(* transaction, its receipt and the external chain's tip, and then runs    *)
(* the pure validate_ethless_transfer on what it read.  Between the calls *)
(* the external chain goes on: new blocks are produced and the pending    *)
(* transaction can be mined.  The external chain is append-only here      *)
(* (no reorganisation), and the transaction's content is fixed when it is *)
(* sent.                                                                   *)
(*                                                                         *)
(* Data is abstracted: addresses, contracts and amounts are small sets;   *)
(* the decoded call input is a record of its from, to, value and nonce    *)
(* tokens, or Garbage when it does not decode against the ABI.  The       *)
(* nonce expected for a deal is the deal id itself (HashIntoNonce is      *)
(* taken injective).  A decoded input always has the six tokens of the    *)
(* ABI, so IncorrectInputLength and IncorrectInputType, which the code    *)
(* notes are unreachable, do not arise.  The chain id check, the address  *)
(* parsing and the timestamp lookup are left out.                          *)
(***************************************************************************)
EXTENDS Naturals, Sequences, FiniteSets

CONSTANTS
    Addrs,          \* external addresses
    Contracts,      \* contract addresses
    Amounts,        \* ExternalAmount values
    Deals,          \* deal order ids
    ClaimFrom, ClaimTo, ClaimContract, ClaimAmount, ClaimDeal,  \* the claim
    Conf,           \* ETH_CONFIRMATIONS
    MaxTip,         \* the last external block considered
    None,           \* an absent Option value
    Garbage         \* call input that does not decode

ASSUME EthlessAssumption ==
    /\ Conf \in Nat /\ MaxTip \in Nat
    /\ ClaimFrom \in Addrs /\ ClaimTo \in Addrs /\ ClaimContract \in Contracts
    /\ ClaimAmount \in Amounts /\ ClaimDeal \in Deals
    /\ None \notin Contracts   \* transaction.to is an Option<Address>

Inputs == [from : Addrs, to : Addrs, value : Amounts, nonce : Deals]
Txs == [to : Contracts \cup {None}, input : Inputs \cup {Garbage}, success : BOOLEAN]
Blocks == 0..MaxTip
Phases == {"idle", "tx", "receipt"}
Verdicts == {"Ok", "RpcError", "TaskFailed", "TaskPending", "TaskInFuture",
             "TaskUnconfirmed", "MissingReceiver", "IncorrectContract", "AbiMismatch",
             "IncorrectSender", "IncorrectReceiver", "IncorrectAmount", "IncorrectNonce"}

VARIABLES
    tip,        \* the external chain's height
    tx,         \* the transaction sent, fixed
    mined,      \* the block that includes it, or None while pending
    phase,      \* how far the worker has read
    seenBlock,  \* transaction.block_number, as read
    seenOk,     \* receipt.is_success(), as read
    seenTip,    \* eth_tip, as read
    verdict     \* the result of the last check, or None

vars == <<tip, tx, mined, phase, seenBlock, seenOk, seenTip, verdict>>

TypeOK ==
    /\ tip \in Blocks
    /\ tx \in Txs
    /\ mined \in Blocks \cup {None}
    /\ phase \in Phases
    /\ seenBlock \in Blocks \cup {None}
    /\ seenOk \in BOOLEAN
    /\ seenTip \in Blocks
    /\ verdict \in Verdicts \cup {None}

Init ==
    /\ tip = 0
    /\ tx \in Txs
    /\ mined = None
    /\ phase = "idle"
    /\ seenBlock = None
    /\ seenOk = FALSE
    /\ seenTip = 0
    /\ verdict = None

\* Mutant: one confirmation short counts as confirmed.
Confirmed1Short(diff) == diff + 1 >= Conf

\* ensure!(diff.as_u64() >= ETH_CONFIRMATIONS, TaskUnconfirmed)
Confirmed(diff) == diff >= Conf

\* validate_ethless_transfer on what was read: its checks in order, each
\* an early return.
Validate(ok, block, ethTip, t) ==
    IF ~ok THEN "TaskFailed"
    ELSE IF block = None THEN "TaskPending"
    ELSE IF ~(block <= ethTip) THEN "TaskInFuture"
    ELSE IF ~Confirmed(ethTip - block) THEN "TaskUnconfirmed"
    ELSE IF t.to = None THEN "MissingReceiver"
    ELSE IF t.to # ClaimContract THEN "IncorrectContract"
    ELSE IF t.input = Garbage THEN "AbiMismatch"
    ELSE IF t.input.from # ClaimFrom THEN "IncorrectSender"
    ELSE IF t.input.to # ClaimTo THEN "IncorrectReceiver"
    ELSE IF t.input.value # ClaimAmount THEN "IncorrectAmount"
    ELSE IF t.input.nonce # ClaimDeal THEN "IncorrectNonce"
    ELSE "Ok"

\* The external chain produces a block, which may include the transaction.
NewBlock ==
    /\ tip < MaxTip
    /\ tip' = tip + 1
    /\ \/ UNCHANGED mined
       \/ mined = None /\ mined' = tip + 1
    /\ UNCHANGED <<tx, phase, seenBlock, seenOk, seenTip, verdict>>

\* A new check starts with eth_get_transaction: the block number is None
\* while the tx is pending.
ReadTx ==
    /\ phase = "idle"
    /\ phase' = "tx"
    /\ seenBlock' = mined
    /\ verdict' = None
    /\ UNCHANGED <<tip, tx, mined, seenOk, seenTip>>

\* eth_get_transaction_receipt: there is no receipt before the tx is mined,
\* and the call fails.
ReadReceipt ==
    /\ phase = "tx"
    /\ \/ /\ mined = None
          /\ phase' = "idle"
          /\ verdict' = "RpcError"
          /\ UNCHANGED seenOk
       \/ /\ mined # None
          /\ phase' = "receipt"
          /\ seenOk' = tx.success
          /\ UNCHANGED verdict
    /\ UNCHANGED <<tip, tx, mined, seenBlock, seenTip>>

\* eth_get_block_number, then validate_ethless_transfer.
ReadTipAndValidate ==
    /\ phase = "receipt"
    /\ phase' = "idle"
    /\ seenTip' = tip
    /\ verdict' = Validate(seenOk, seenBlock, tip, tx)
    /\ UNCHANGED <<tip, tx, mined, seenBlock, seenOk>>

Next == NewBlock \/ ReadTx \/ ReadReceipt \/ ReadTipAndValidate

Spec == Init /\ [][Next]_vars

-----------------------------------------------------------------------------
(* The reference: the conditions the spec lists, in its order, each one   *)
(* stated on its own.  The verdict is Ok when all hold, and otherwise the *)
(* cause of the first that fails.                                          *)
Order == <<"TaskFailed", "TaskPending", "TaskInFuture", "TaskUnconfirmed",
           "MissingReceiver", "IncorrectContract", "AbiMismatch", "IncorrectSender",
           "IncorrectReceiver", "IncorrectAmount", "IncorrectNonce">>

Holds(c, ok, block, ethTip, t) ==
    LET decoded == t.input # Garbage IN
    CASE c = "TaskFailed" -> ok
      [] c = "TaskPending" -> block # None
      [] c = "TaskInFuture" -> block # None => block <= ethTip
      [] c = "TaskUnconfirmed" -> block # None /\ block <= ethTip => block + Conf <= ethTip
      [] c = "MissingReceiver" -> t.to # None
      [] c = "IncorrectContract" -> t.to \in {None, ClaimContract}
      [] c = "AbiMismatch" -> decoded
      [] c = "IncorrectSender" -> decoded => t.input.from = ClaimFrom
      [] c = "IncorrectReceiver" -> decoded => t.input.to = ClaimTo
      [] c = "IncorrectAmount" -> decoded => t.input.value = ClaimAmount
      [] c = "IncorrectNonce" -> decoded => t.input.nonce = ClaimDeal

Reference(ok, block, ethTip, t) ==
    LET failing == {i \in DOMAIN Order : ~Holds(Order[i], ok, block, ethTip, t)} IN
    IF failing = {} THEN "Ok"
    ELSE Order[CHOOSE i \in failing : \A j \in failing : i <= j]

(* A transfer verified now: mined at least Conf blocks below the tip,     *)
(* successful, sent to the claim's contract, and calling transfer with    *)
(* the claim's sender, receiver, amount and the deal's nonce.             *)
VerifiedNow ==
    /\ mined # None
    /\ mined + Conf <= tip
    /\ tx.success
    /\ tx.to = ClaimContract
    /\ tx.input = [from |-> ClaimFrom, to |-> ClaimTo, value |-> ClaimAmount,
                   nonce |-> ClaimDeal]

(* verify_ethless_transfer, reading the tx, its receipt and the tip at    *)
(* three moments of a moving chain, answers what the spec's conditions    *)
(* say of what it read, with the cause of the first that fails, and an Ok *)
(* answer is still true of the chain when it is given.                    *)
EthlessVerdictCorrect ==
    verdict \notin {None, "RpcError"} =>
        /\ verdict = Reference(seenOk, seenBlock, seenTip, tx)
        /\ verdict = "Ok" => VerifiedNow
=============================================================================
