---------------------------- MODULE VerifiedLedger ----------------------------
(***************************************************************************)
(* What the verification oracle of the creditcoin pallet promises, with    *)
(* the workers, the scheduler and the deals abstracted away.               *)
(*                                                                         *)
(* A verified transfer claim is recorded once, under its id, and never     *)
(* changed or forgotten.  A recorded claim can be spent (used to fund or   *)
(* to repay a deal) once.  A collect-coins claim is minted at most once,   *)
(* crediting one account with the collect-coins amount.                    *)
(***************************************************************************)
EXTENDS Naturals

CONSTANTS
    XferIds,      \* ids of transfer claims
    ClaimValues,  \* what a transfer claim records
    CoinIds,      \* ids of collect-coins claims
    Holders,      \* accounts that can be credited
    Credit0,      \* Credit0[a]: the credit of a before the behaviour
    MintAmount    \* what one collect-coins claim credits

VARIABLES
    verified,     \* XferId -> claim, for the claims verified so far
    spent,        \* the verified claims already used
    minted,       \* the collect-coins claims already minted
    credit        \* Holders -> Nat

ledgerVars == <<verified, spent, minted, credit>>

Init ==
    /\ verified = [x \in {} |-> MintAmount]
    /\ spent = {}
    /\ minted = {}
    /\ credit = Credit0

\* A new claim is verified under a fresh id; the claims verified before are
\* kept as they were.
Verify(x) ==
    /\ x \notin DOMAIN verified
    /\ DOMAIN verified' = DOMAIN verified \cup {x}
    /\ verified'[x] \in ClaimValues
    /\ \A y \in DOMAIN verified : verified'[y] = verified[y]
    /\ UNCHANGED <<spent, minted, credit>>

\* A verified, unspent claim is spent.
Spend(x) ==
    /\ x \in DOMAIN verified \ spent
    /\ spent' = spent \cup {x}
    /\ UNCHANGED <<verified, minted, credit>>

\* A collect-coins claim not minted before credits one account.
Mint(k, a) ==
    /\ k \notin minted
    /\ minted' = minted \cup {k}
    /\ credit' = [credit EXCEPT ![a] = @ + MintAmount]
    /\ UNCHANGED <<verified, spent>>

Next ==
    \/ \E x \in XferIds : Verify(x)
    \/ \E x \in XferIds : Spend(x)
    \/ \E k \in CoinIds, a \in Holders : Mint(k, a)

Spec == Init /\ [][Next]_ledgerVars
=============================================================================
