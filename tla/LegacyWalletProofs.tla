------------------------- MODULE LegacyWalletProofs -------------------------
(***************************************************************************)
(* Proofs about claim_legacy_wallet (LegacyWallet).                       *)
(*                                                                         *)
(* WalletsPaidOnce is inductive together with the type invariant: a claim *)
(* reads the stored balance, which the invariant says is the genesis      *)
(* balance, and the type invariant says every stored key is a genesis     *)
(* key, so the claim recorded is the one WalletsPaidOnce expects.  The    *)
(* sums of LegacyWalletSums stay model-checked: they are folds.           *)
(***************************************************************************)
EXTENDS LegacyWallet, TLAPS

LInv == TypeOK /\ WalletsPaidOnce

LEMMA InitLInv == Init => LInv
<1> SUFFICES ASSUME Init PROVE LInv
    OBVIOUS
<1>1. TypeOK
    BY LegacyWalletAssumption DEF Init, TypeOK
<1>2. WalletsPaidOnce
    BY DEF Init, WalletsPaidOnce, ClaimsOf
<1> QED
    BY <1>1, <1>2 DEF LInv

\* A claim moves the balances of two accounts by a natural amount, and
\* burns a natural amount.
LEMMA TransferTyped ==
    ASSUME TypeOK, NEW from \in Accounts, NEW to \in Accounts, NEW v \in Nat,
           TransferOk(from, to, v), Transfer(from, to, v)
    PROVE  free' \in [Accounts -> Nat] /\ burned' \in Nat
<1>1. CASE TransferNoop(from, to, v)
    BY <1>1 DEF Transfer, TypeOK
<1>2. CASE ~TransferNoop(from, to, v)
    <2>1. v <= free[from] /\ free[from] \in Nat /\ free[to] \in Nat
        BY <1>2 DEF TransferOk, TypeOK
    <2>2. Left(from, v) \in Nat
        BY <2>1 DEF Left
    <2> QED
        BY <1>2, <2>1, <2>2 DEF Transfer, TypeOK
<1> QED
    BY <1>1, <1>2

LEMMA NextLInv == LInv /\ [Next]_vars => LInv'
<1> SUFFICES ASSUME LInv, [Next]_vars PROVE LInv'
    OBVIOUS
<1>1. ASSUME NEW who \in Accounts, NEW key \in Keys, ClaimLegacyWallet(who, key)
      PROVE  LInv'
    <2>1. /\ who = AccountOf[key] /\ key \in DOMAIN wallets /\ Keeper \in Accounts
          /\ key \in DOMAIN GenesisWallets /\ wallets[key] = GenesisWallets[key]
          /\ wallets[key] \in Nat /\ ClaimsOf(key) = {}
        BY <1>1, LegacyWalletAssumption DEF ClaimLegacyWallet, LInv, TypeOK, WalletsPaidOnce
    <2>2. /\ wallets' = [k \in DOMAIN wallets \ {key} |-> wallets[k]]
          /\ claims' = claims \cup {[key |-> key, who |-> who, amount |-> wallets[key]]}
        BY <1>1 DEF ClaimLegacyWallet
    <2>3. free' \in [Accounts -> Nat] /\ burned' \in Nat
        BY <1>1, <2>1, TransferTyped DEF ClaimLegacyWallet, LInv
    <2>4. TypeOK'
        BY <2>1, <2>2, <2>3 DEF LInv, TypeOK
    <2>5. WalletsPaidOnce'
        <3> SUFFICES ASSUME NEW k \in DOMAIN GenesisWallets
                     PROVE  WalletsPaidOnce!(k)'
            BY DEF WalletsPaidOnce
        <3>1. CASE k = key
            BY <3>1, <2>1, <2>2 DEF ClaimsOf
        <3>2. CASE k # key
            <4>1. ClaimsOf(k)' = ClaimsOf(k)
                BY <3>2, <2>2 DEF ClaimsOf
            <4>2. (k \in DOMAIN wallets' <=> k \in DOMAIN wallets)
                  /\ (k \in DOMAIN wallets => wallets'[k] = wallets[k])
                BY <3>2, <2>2
            <4> QED
                BY <4>1, <4>2 DEF LInv, WalletsPaidOnce
        <3> QED
            BY <3>1, <3>2
    <2> QED
        BY <2>4, <2>5 DEF LInv
<1>2. CASE UNCHANGED vars
    BY <1>2 DEF vars, LInv, TypeOK, WalletsPaidOnce, ClaimsOf
<1> QED
    BY <1>1, <1>2 DEF Next

(* claim_legacy_wallet, in every order of claims by every account and     *)
(* with every payout failing or not, pays each genesis wallet at most     *)
(* once, only to the account of its key and only its genesis balance,     *)
(* for every set of wallets, accounts, balances and existential deposit.  *)
THEOREM WalletsPaidOnceSafe == Spec => []WalletsPaidOnce
<1>1. Init => LInv
    BY InitLInv
<1>2. LInv /\ [Next]_vars => LInv'
    BY NextLInv
<1>3. LInv => WalletsPaidOnce
    BY DEF LInv
<1> QED
    BY <1>1, <1>2, <1>3, PTL DEF Spec
=============================================================================
