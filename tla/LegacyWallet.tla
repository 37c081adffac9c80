---------------------------- MODULE LegacyWallet ----------------------------
(***************************************************************************)
(* claim_legacy_wallet of the creditcoin pallet (lib.rs): the balances of  *)
(* Creditcoin 1.x wallets, loaded at genesis into LegacyWallets under the  *)
(* sighash of their public key, are paid out of the LegacyBalanceKeeper   *)
(* account to the account of the same key.                                 *)
(*                                                                         *)
(* The payout is pallet_balances' Currency::transfer with AllowDeath,     *)
(* outside the pallet and modelled from its documented behaviour: a zero  *)
(* value or a transfer to oneself does nothing; otherwise the sender must *)
(* hold the value, the receiver must end at or above the existential      *)
(* deposit and must not overflow, and a sender left below the existential *)
(* deposit is reaped, its remaining dust burned.  The call runs in one    *)
(* storage transaction: when the transfer fails, the wallet stays.        *)
(*                                                                         *)
(* The sighash is taken injective, so a wallet is named by its key.       *)
(* claims is a history variable: the LegacyWalletClaimed events.          *)
(***************************************************************************)
EXTENDS Naturals

CONSTANTS
    Keys,               \* ecdsa public keys of legacy wallets
    Accounts,           \* AccountIds
    AccountOf,          \* AccountOf[k]: T::Signer::from(k).into_account()
    GenesisWallets,     \* GenesisConfig::legacy_wallets: key -> balance
    Keeper,             \* GenesisConfig::legacy_balance_keeper, or NoKeeper
    NoKeeper,
    InitFree,           \* InitFree[a]: the free balance of a at genesis
    ExistentialDeposit,
    MaxBalance          \* T::Balance::max_value()

ASSUME LegacyWalletAssumption ==
    /\ AccountOf \in [Keys -> Accounts]
    /\ MaxBalance \in Nat
    /\ GenesisWallets \in [DOMAIN GenesisWallets -> 0..MaxBalance]
    /\ DOMAIN GenesisWallets \subseteq Keys
    /\ Keeper \in Accounts \cup {NoKeeper}
    /\ NoKeeper \notin Accounts
    /\ InitFree \in [Accounts -> 0..MaxBalance]
    /\ ExistentialDeposit \in Nat

VARIABLES
    wallets,    \* LegacyWallets: key -> balance, for the unclaimed wallets
    free,       \* the free balance of every account
    burned,     \* the dust burned when an account is reaped
    claims      \* [key, who, amount] of every LegacyWalletClaimed event

vars == <<wallets, free, burned, claims>>

TypeOK ==
    /\ DOMAIN wallets \subseteq DOMAIN GenesisWallets
    /\ \A k \in DOMAIN wallets : wallets[k] \in Nat
    /\ free \in [Accounts -> Nat]
    /\ burned \in Nat
    /\ claims \subseteq [key : Keys, who : Accounts, amount : Nat]

\* genesis_build: the wallets and the keeper of the genesis config.
Init ==
    /\ wallets = GenesisWallets
    /\ free = InitFree
    /\ burned = 0
    /\ claims = {}

\* Currency::transfer(from, to, v, AllowDeath) does nothing.
TransferNoop(from, to, v) == v = 0 \/ from = to

\* Its checks: InsufficientBalance, Overflow and ExistentialDeposit.
TransferOk(from, to, v) ==
    \/ TransferNoop(from, to, v)
    \/ /\ v <= free[from]
       /\ free[to] + v <= MaxBalance
       /\ free[to] + v >= ExistentialDeposit

\* The sender's balance after the transfer, before reaping.
Left(from, v) == free[from] - v

\* Mutant: a sender left exactly at the existential deposit is reaped too.
ReapedAtDeposit(from, v) == Left(from, v) <= ExistentialDeposit

\* AllowDeath: a sender left below the existential deposit is reaped.
Reaped(from, v) == Left(from, v) < ExistentialDeposit

\* The balances after the transfer and the dust it burns.
Transfer(from, to, v) ==
    IF TransferNoop(from, to, v)
      THEN UNCHANGED <<free, burned>>
      ELSE /\ free' = [free EXCEPT ![from] = IF Reaped(from, v) THEN 0 ELSE Left(from, v),
                                   ![to] = @ + v]
           /\ burned' = burned + (IF Reaped(from, v) THEN Left(from, v) ELSE 0)

\* Mutant: the wallet is paid but its entry is not removed.
ClaimLegacyWalletKeep(who, key) ==
    /\ who = AccountOf[key]
    /\ key \in DOMAIN wallets
    /\ Keeper # NoKeeper
    /\ TransferOk(Keeper, who, wallets[key])
    /\ Transfer(Keeper, who, wallets[key])
    /\ claims' = claims \cup {[key |-> key, who |-> who, amount |-> wallets[key]]}
    /\ UNCHANGED wallets

\* claim_legacy_wallet(origin = who, public_key = key).
ClaimLegacyWallet(who, key) ==
    /\ who = AccountOf[key]                        \* NotLegacyWalletOwner
    /\ key \in DOMAIN wallets                      \* LegacyWalletNotFound
    /\ Keeper # NoKeeper                           \* LegacyBalanceKeeperMissing
    /\ TransferOk(Keeper, who, wallets[key])
    /\ Transfer(Keeper, who, wallets[key])
    /\ wallets' = [k \in DOMAIN wallets \ {key} |-> wallets[k]]
    /\ claims' = claims \cup {[key |-> key, who |-> who, amount |-> wallets[key]]}

Next == \E who \in Accounts, key \in Keys : ClaimLegacyWallet(who, key)

Spec == Init /\ [][Next]_vars

-----------------------------------------------------------------------------
\* The claims of key k.
ClaimsOf(k) == {c \in claims : c.key = k}

(* Every legacy wallet is either still stored with its genesis balance    *)
(* and unclaimed, or removed and claimed exactly once, by the account of *)
(* its key, for its genesis balance: claim_legacy_wallet pays a wallet    *)
(* only while it is stored and removes it in the same transaction, and a *)
(* failed payout leaves it stored.                                        *)
WalletsPaidOnce ==
    \A k \in DOMAIN GenesisWallets :
        \/ /\ k \in DOMAIN wallets
           /\ wallets[k] = GenesisWallets[k]
           /\ ClaimsOf(k) = {}
        \/ /\ k \notin DOMAIN wallets
           /\ ClaimsOf(k) = {[key |-> k, who |-> AccountOf[k], amount |-> GenesisWallets[k]]}
=============================================================================
