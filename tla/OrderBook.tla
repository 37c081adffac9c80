------------------------------ MODULE OrderBook ------------------------------
(***************************************************************************)
(* The address registry, the order book (ask, bid, offer and deal-order    *)
(* creation) and the per-block reaper of the creditcoin pallet             *)
(* (pallets/creditcoin/src/lib.rs).                                        *)
(*                                                                         *)
(* Every storage map of the pallet is a function whose DOMAIN is the set   *)
(* of keys present.  Identifiers are content derived in the code           *)
(* (AskOrderId::new(expiration, guid) = hash(expiration, guid), ...); the  *)
(* model uses the hashed tuple itself, i.e. it assumes the hash is         *)
(* injective.  The expiration block is the first component of every       *)
(* expiring id, as in the (expiration, hash) double-map keys.              *)
(*                                                                         *)
(* Every call runs in one storage transaction: a call that fails at any    *)
(* check changes nothing, so a call is one action whose guard is the       *)
(* conjunction of all its checks.                                          *)
(***************************************************************************)
EXTENDS Naturals, FiniteSets

CONSTANTS
    Accounts,     \* T::AccountId values
    ExtAddrs,     \* registered external addresses: one (blockchain, value) pair each
    Chains,       \* Blockchain values
    Chain,        \* Chain[a]: the blockchain of external address a
    Holder,       \* Holder[a]: the account holding the private key of a
    Guids,        \* Guid values offered by callers
    Terms,        \* LoanTerms values offered by callers
    ValidTerms,   \* the terms that AskTerms/BidTerms::try_from accept
    Amounts,      \* ExternalAmount values
    Amount,       \* Amount[t]: the loan amount t.amount
    MaxBlock,     \* the last block of a behaviour
    None          \* Option::None

ASSUME OrderBookAssumption ==
    /\ MaxBlock \in Nat \ {0}
    /\ Chain \in [ExtAddrs -> Chains]
    /\ Holder \in [ExtAddrs -> Accounts]
    /\ ValidTerms \subseteq Terms
    /\ Amount \in [Terms -> Amounts]
    /\ None \notin Accounts

VARIABLES
    now,          \* frame_system block number
    addresses,    \* Addresses: AddressId -> owner
    usedGuids,    \* UsedGuids
    asks,         \* AskOrders
    bids,         \* BidOrders
    offers,       \* Offers
    deals         \* DealOrders

obVars == <<now, addresses, usedGuids, asks, bids, offers, deals>>

-----------------------------------------------------------------------------
(* Identifiers and records. *)

Blocks   == 1..MaxBlock
AskIds   == Blocks \X Guids                 \* AskOrderId::new(expiration, guid)
BidIds   == Blocks \X Guids                 \* BidOrderId::new(expiration, guid)
OfferIds == Blocks \X AskIds \X BidIds      \* OfferId::new(expiration, ask, bid)
DealIds  == Blocks \X OfferIds              \* DealOrderId::new(expiration, offer)

Expiration(id) == id[1]

AskRec   == [lender : Accounts, addr : ExtAddrs, terms : ValidTerms]
BidRec   == [borrower : Accounts, addr : ExtAddrs, terms : ValidTerms]
OfferRec == [lender : Accounts]

(* A DealOrder.  ts is the creation (and later funding) timestamp, read    *)
(* from the block number, which the timestamp pallet follows.  funding,    *)
(* lock and repayment are the Option fields funding_transfer_id, lock and  *)
(* repayment_transfer_id.                                                  *)
DealRec(XferIds) ==
    [lenderAddr : ExtAddrs, borrowerAddr : ExtAddrs, terms : Terms,
     borrower : Accounts, ts : Blocks,
     funding : XferIds \cup {None}, lock : Accounts \cup {None},
     repayment : XferIds \cup {None}]

\* f with key k (re)set to v: StorageMap::insert.
Put(f, k, v) == [x \in DOMAIN f \cup {k} |-> IF x = k THEN v ELSE f[x]]

\* f without the keys in S.
Drop(f, S) == [x \in DOMAIN f \ S |-> f[x]]

obInit ==
    /\ now = 1
    /\ addresses = [a \in {} |-> None]
    /\ usedGuids = {}
    /\ asks = [i \in {} |-> None]
    /\ bids = [i \in {} |-> None]
    /\ offers = [i \in {} |-> None]
    /\ deals = [i \in {} |-> None]

Owns(who, a) == a \in DOMAIN addresses /\ addresses[a] = who

-----------------------------------------------------------------------------
(* Address registry. *)

(* The ownership proof: a signature, by the key of a, of who's account id, *)
(* from which the code recovers the public key and re-derives a.  Only the *)
(* key holder can produce it; every failure of recovery, derivation or     *)
(* comparison is the negation of this condition.                           *)
OwnershipProved(who, a) == Holder[a] = who

(* The common tail of register_address and register_address_v2: the      *)
(* address is unregistered (AddressAlreadyRegistered[ByCaller]) and is     *)
(* inserted with owner who.                                                *)
InsertAddress(who, a) ==
    /\ a \notin DOMAIN addresses
    /\ addresses' = Put(addresses, a, who)
    /\ UNCHANGED <<now, usedGuids, asks, bids, offers, deals>>

RegisterAddress(who, a) ==
    /\ OwnershipProved(who, a)
    /\ InsertAddress(who, a)

RegisterAddressV2(who, a) ==
    /\ OwnershipProved(who, a)
    /\ InsertAddress(who, a)

-----------------------------------------------------------------------------
(* Order book. *)

\* Self::use_guid: fails GuidAlreadyUsed, else marks the guid used.
UseGuid(g) ==
    /\ g \notin usedGuids
    /\ usedGuids' = usedGuids \cup {g}

AddAskOrder(who, a, t, exp, g) ==
    /\ exp >= now
    /\ <<exp, g>> \notin DOMAIN asks
    /\ Owns(who, a)
    /\ UseGuid(g)
    /\ t \in ValidTerms
    /\ asks' = Put(asks, <<exp, g>>, [lender |-> who, addr |-> a, terms |-> t])
    /\ UNCHANGED <<now, addresses, bids, offers, deals>>

AddBidOrder(who, a, t, exp, g) ==
    /\ exp >= now
    /\ <<exp, g>> \notin DOMAIN bids
    /\ Owns(who, a)
    /\ UseGuid(g)
    /\ t \in ValidTerms
    /\ bids' = Put(bids, <<exp, g>>, [borrower |-> who, addr |-> a, terms |-> t])
    /\ UNCHANGED <<now, addresses, asks, offers, deals>>

\* AskTerms::match_with(BidTerms); agreed_terms resolves matching terms to them.
TermsMatch(ta, tb) == ta = tb

AddOffer(who, askId, bidId, exp) ==
    /\ askId \in DOMAIN asks
    /\ asks[askId].lender = who
    /\ Expiration(askId) >= now
    /\ bidId \in DOMAIN bids
    /\ bids[bidId].borrower # who
    /\ Expiration(bidId) >= now
    /\ Chain[asks[askId].addr] = Chain[bids[bidId].addr]
    /\ TermsMatch(asks[askId].terms, bids[bidId].terms)
    /\ <<exp, askId, bidId>> \notin DOMAIN offers
    /\ offers' = Put(offers, <<exp, askId, bidId>>, [lender |-> who])
    /\ UNCHANGED <<now, addresses, usedGuids, asks, bids, deals>>

NewDeal(la, ba, t, b) ==
    [lenderAddr |-> la, borrowerAddr |-> ba, terms |-> t, borrower |-> b,
     ts |-> now, funding |-> None, lock |-> None, repayment |-> None]

(* Mutant: add_deal_order without the NotBorrower check. *)
AddDealOrderByAnyone(who, offerId, exp) ==
    LET askId == offerId[2]
        bidId == offerId[3]
    IN /\ <<exp, offerId>> \notin DOMAIN deals
       /\ offerId \in DOMAIN offers
       /\ Expiration(offerId) >= now
       /\ askId \in DOMAIN asks
       /\ bidId \in DOMAIN bids
       /\ TermsMatch(asks[askId].terms, bids[bidId].terms)
       /\ deals' = Put(deals, <<exp, offerId>>,
                       NewDeal(asks[askId].addr, bids[bidId].addr,
                               asks[askId].terms, who))
       /\ UNCHANGED <<now, addresses, usedGuids, asks, bids, offers>>

(* Mutant: add_deal_order without the DuplicateDealOrder check. *)
AddDealOrderOverwrite(who, offerId, exp) ==
    LET askId == offerId[2]
        bidId == offerId[3]
    IN /\ offerId \in DOMAIN offers
       /\ Expiration(offerId) >= now
       /\ askId \in DOMAIN asks
       /\ bidId \in DOMAIN bids
       /\ bids[bidId].borrower = who
       /\ TermsMatch(asks[askId].terms, bids[bidId].terms)
       /\ deals' = Put(deals, <<exp, offerId>>,
                       NewDeal(asks[askId].addr, bids[bidId].addr,
                               asks[askId].terms, who))
       /\ UNCHANGED <<now, addresses, usedGuids, asks, bids, offers>>

AddDealOrder(who, offerId, exp) ==
    LET askId == offerId[2]
        bidId == offerId[3]
    IN /\ <<exp, offerId>> \notin DOMAIN deals
       /\ offerId \in DOMAIN offers
       /\ Expiration(offerId) >= now
       /\ askId \in DOMAIN asks
       /\ bidId \in DOMAIN bids
       /\ bids[bidId].borrower = who
       /\ TermsMatch(asks[askId].terms, bids[bidId].terms)
       /\ deals' = Put(deals, <<exp, offerId>>,
                       NewDeal(asks[askId].addr, bids[bidId].addr,
                               asks[askId].terms, who))
       /\ UNCHANGED <<now, addresses, usedGuids, asks, bids, offers>>

(* register_deal_order: the lender creates ask, bid, offer and deal in one *)
(* call, authorised for the borrower b by b's signature over (expiration,  *)
(* guids, terms).  The borrower signs whatever it is asked to, so b is any *)
(* account.                                                                *)
RegisterDealOrder(who, b, la, ba, t, exp, ag, bg) ==
    LET askId   == <<exp, ag>>
        bidId   == <<exp, bg>>
        offerId == <<exp, askId, bidId>>
        dealId  == <<exp, offerId>>
    IN /\ Owns(b, ba)
       /\ Owns(who, la)
       /\ Chain[la] = Chain[ba]
       /\ askId \notin DOMAIN asks
       /\ bidId \notin DOMAIN bids
       /\ offerId \notin DOMAIN offers
       /\ dealId \notin DOMAIN deals
       /\ t \in ValidTerms
       /\ asks' = Put(asks, askId, [lender |-> who, addr |-> la, terms |-> t])
       /\ bids' = Put(bids, bidId, [borrower |-> b, addr |-> ba, terms |-> t])
       /\ offers' = Put(offers, offerId, [lender |-> who])
       /\ deals' = Put(deals, dealId, NewDeal(la, ba, t, b))
       /\ UNCHANGED <<now, addresses, usedGuids>>

-----------------------------------------------------------------------------
(* Per-block reaper: on_initialize(n) clears the ask, bid and offer        *)
(* prefixes of block n and drains the deal prefix of block n, re-inserting *)
(* the deals that have a funding transfer.                                 *)

(* Mutant: the reaper clears the prefix of the previous block. *)
ExpiringAtLate(f, n) == {id \in DOMAIN f : Expiration(id) = n - 1}

ExpiringAt(f, n) == {id \in DOMAIN f : Expiration(id) = n}

UnfundedExpiringAt(n) == {d \in ExpiringAt(deals, n) : deals[d].funding = None}

(* Mutant: the reaper drains the deal prefix without keeping funded deals. *)
OnInitializeDropFunded(n) ==
    /\ asks' = Drop(asks, ExpiringAt(asks, n))
    /\ bids' = Drop(bids, ExpiringAt(bids, n))
    /\ offers' = Drop(offers, ExpiringAt(offers, n))
    /\ deals' = Drop(deals, ExpiringAt(deals, n))

OnInitialize(n) ==
    /\ asks' = Drop(asks, ExpiringAt(asks, n))
    /\ bids' = Drop(bids, ExpiringAt(bids, n))
    /\ offers' = Drop(offers, ExpiringAt(offers, n))
    /\ deals' = Drop(deals, UnfundedExpiringAt(n))

\* The next block is imported and its on_initialize hook runs first.
NewBlock ==
    /\ now < MaxBlock
    /\ now' = now + 1
    /\ OnInitialize(now + 1)
    /\ UNCHANGED <<addresses, usedGuids>>

-----------------------------------------------------------------------------
(* Order-book properties. *)

(* register_deal_order and add_deal_order: every stored deal was authorised *)
(* by the owner of its borrower address, and its lender address is a       *)
(* registered address.  add_deal_order reads both addresses from the ask   *)
(* and the bid the offer names, which need not be the orders the offer was *)
(* made on (see README, stale offers), so it rests on every stored order's *)
(* address being owned by the order's maker.                               *)
DealPartiesAuthorised ==
    \A d \in DOMAIN deals :
        /\ Owns(deals[d].borrower, deals[d].borrowerAddr)
        /\ deals[d].lenderAddr \in DOMAIN addresses

(* Spec 8: once a guid is consumed by an ask or a bid, no other order can  *)
(* use it: no two stored orders share a guid.                              *)
Orders == {<<"ask", id>> : id \in DOMAIN asks} \cup {<<"bid", id>> : id \in DOMAIN bids}
GuidSingleUse ==
    \A o1, o2 \in Orders : o1 # o2 => o1[2][2] # o2[2][2]

(* Error SameOwner: "a user cannot lend to themself": no deal's borrower   *)
(* owns its lender address.                                                *)
NoSelfLending ==
    \A d \in DOMAIN deals : ~Owns(deals[d].borrower, deals[d].lenderAddr)

(* Spec 8 (reaper): after the hook of block n, no ask, bid, offer or       *)
(* unfunded deal with an expiration before n remains.                      *)
ExpiredPurged ==
    /\ \A id \in DOMAIN asks \cup DOMAIN bids \cup DOMAIN offers : Expiration(id) >= now
    /\ \A d \in DOMAIN deals : deals[d].funding = None => Expiration(d) >= now

=============================================================================
