---------------------------- MODULE MC_Creditcoin ----------------------------
(***************************************************************************)
(* Small instances of Creditcoin.  Two accounts, alice and bob, each hold  *)
(* the key of one external address (ea, eb) on chain c1; one loan-terms   *)
(* value t1 of amount 1; repayments may claim amount 1 or 2.  The cfg      *)
(* files choose the guids, the external transactions, the collect-coins    *)
(* contract's chain, the horizon and the bounds below.                     *)
(***************************************************************************)
EXTENDS Creditcoin, TLC

CONSTANTS alice, bob, ea, eb, c1, c2, g1, g2, t1, x1, x2, k1, k2

MC_Chain == (ea :> c1) @@ (eb :> c1)
MC_Holder == (ea :> alice) @@ (eb :> bob)
MC_Amount == t1 :> 1

\* alice starts with nothing; bob's balance is already at the Balance bound,
\* so minting collect-coins to bob overflows.
MC_InitBalance == (alice :> 0) @@ (bob :> MaxBalance)

\* The collect-coins contracts: k1 on the chain of ea and eb, k2 on another.
MC_ContractChain == [k \in Contracts |-> IF k = k1 THEN c1 ELSE c2]

\* External transaction ids are interchangeable: no definition names one.
TxSymmetry == Permutations({x1, x2})

(***************************************************************************)
(* Bounds of the model, each a cap on a storage map or set: stored orders  *)
(* (asks and bids), offers and deals, transfer claims (scheduled or        *)
(* verified), collect-coins claims (scheduled or minted), authorities, and *)
(* offchain submissions in flight.                                         *)
(***************************************************************************)
CONSTANTS MaxOrders, MaxDeals, MaxClaims, MaxCollects, MaxAuthorities, MaxPool

MC_Constraint ==
    /\ Cardinality(DOMAIN asks) + Cardinality(DOMAIN bids) <= MaxOrders
    /\ Cardinality(DOMAIN offers) <= MaxDeals
    /\ Cardinality(DOMAIN deals) <= MaxDeals
    /\ Cardinality(DOMAIN xferTasks) + Cardinality(DOMAIN transfers) <= MaxClaims
    /\ Cardinality(ccTasks) + Cardinality(collected) <= MaxCollects
    /\ Cardinality(authorities) <= MaxAuthorities
    /\ Cardinality(pool) <= MaxPool
=============================================================================
