----------------------- MODULE MC_EthlessValidation -----------------------
(* One claim (a1 pays a2 amount 1 through contract c1 for deal d1) and    *)
(* every transaction that differs from it in one or more fields: the     *)
(* target, each decoded token, the receipt status.  Two confirmations    *)
(* and four external blocks, so a mined transaction is seen pending,     *)
(* unconfirmed and confirmed.                                             *)
EXTENDS EthlessValidation
=============================================================================
