-------------------------- MODULE MC_LegacyWallet --------------------------
(* Five accounts, the keeper among them, and nine legacy wallets: two of *)
(* alice, two of bob, one of carol, two of dave, one of the keeper itself *)
(* and one with a zero balance.  The existential deposit is 2, so a       *)
(* wallet of 1 cannot open an empty account and a keeper left with 1 is   *)
(* reaped.  The keeper holds what it owes the other accounts (12) plus    *)
(* the deposit, so the last payout leaves it exactly at the deposit;      *)
(* carol sits near the maximum balance; alice's and dave's wallets of 1   *)
(* can only be paid after their larger ones.                               *)
EXTENDS LegacyWalletSums, TLC

CONSTANTS alice, bob, carol, dave, keeper, k1, k2, k3, k4, k5, k6, k7, k8, k9

MC_AccountOf == (k1 :> alice) @@ (k2 :> alice) @@ (k3 :> bob) @@ (k4 :> bob)
                @@ (k5 :> carol) @@ (k6 :> dave) @@ (k7 :> keeper) @@ (k8 :> carol)
                @@ (k9 :> dave)

MC_GenesisWallets == (k1 :> 3) @@ (k2 :> 1) @@ (k3 :> 1) @@ (k4 :> 2)
                     @@ (k5 :> 2) @@ (k6 :> 2) @@ (k7 :> 1) @@ (k8 :> 0)
                     @@ (k9 :> 1)

MC_InitFree == (alice :> 0) @@ (bob :> 2) @@ (carol :> 11) @@ (dave :> 0)
               @@ (keeper :> 14)

=============================================================================
