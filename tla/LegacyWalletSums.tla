-------------------------- MODULE LegacyWalletSums --------------------------
(***************************************************************************)
(* The properties of claim_legacy_wallet that sum balances over the       *)
(* claims and the unclaimed wallets.  They use the folds of FiniteSetsExt, *)
(* kept out of LegacyWallet so that the per-wallet properties there can   *)
(* be reasoned about.                                                      *)
(***************************************************************************)
EXTENDS LegacyWallet, FiniteSetsExt

(* Every legacy wallet is paid exactly once, to the account of its key,   *)
(* for its genesis balance (WalletsPaidOnce), and every account other    *)
(* than the keeper holds its genesis balance plus what it claimed.       *)
LegacyPaidOnce ==
    /\ WalletsPaidOnce
    /\ \A a \in Accounts \ {Keeper} :
          free[a] = InitFree[a] + MapThenSumSet(LAMBDA c : c.amount, {c \in claims : c.who = a})

\* What the keeper owes: the unclaimed wallets of keys of other accounts
\* (a wallet of the keeper's own key is paid by a transfer to itself).
Owed(w) == SumFunctionOnSet(w, {k \in DOMAIN w : AccountOf[k] # Keeper})

(* A keeper funded at genesis with what it owes plus the existential      *)
(* deposit keeps, through every order of claims and failed payouts, what *)
(* it still owes plus that deposit, so it is never reaped and every       *)
(* payable wallet stays payable.  claim_legacy_wallet pays with          *)
(* AllowDeath: a keeper funded with exactly what it owes is reaped by the *)
(* payout that leaves it below the deposit, and the last wallet is lost. *)
KeeperSolvent ==
    Keeper # NoKeeper /\ InitFree[Keeper] >= Owed(GenesisWallets) + ExistentialDeposit
        => free[Keeper] >= Owed(wallets) + ExistentialDeposit
=============================================================================
