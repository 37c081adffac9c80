----------------------------- MODULE TaskVoting -----------------------------
(***************************************************************************)
(* The vote index of the task-voting pallet                               *)
(* (src/pallets/task-voting/src/types.rs).  Index maps an item id to the  *)
(* bounded set of accounts that voted for it.  insert_once adds a voter   *)
(* to an item's set, creating the set on the first vote, and fails with   *)
(* DoubleVoting when the voter is already in it and with TooManyVoters     *)
(* when the set is at its bound MaxSize.                                   *)
(*                                                                         *)
(* The set is a BoundedBTreeSet: its try_insert inserts when the set is    *)
(* below the bound or already holds the item (returning whether the item  *)
(* is new), and fails otherwise.  Index::mutate writes the closure's      *)
(* value back whatever the closure returns, so the set created by         *)
(* get_or_insert is stored even when the insert fails.                    *)
(*                                                                         *)
(* accepted and rejected are history variables: the votes insert_once     *)
(* answered Ok, and the (voter, item, error) of every vote it refused.     *)
(***************************************************************************)
EXTENDS Naturals, FiniteSets, TLAPS

CONSTANTS
    Who,        \* T::Who, the accounts that vote
    ItemIds,    \* T::ItemId, the items voted on
    MaxSize     \* the bound of the BoundedBTreeSet of voters

ASSUME TaskVotingAssumption == MaxSize \in Nat

VARIABLES
    index,      \* Index: ItemId -> set of voters, for the items with an entry
    accepted,   \* <<who, id>> of every vote answered Ok
    rejected    \* [who, id, err] of every vote answered with an error

vars == <<index, accepted, rejected>>

Errors == {"DoubleVoting", "TooManyVoters"}

TypeOK ==
    /\ DOMAIN index \subseteq ItemIds
    /\ \A id \in DOMAIN index : index[id] \subseteq Who /\ IsFiniteSet(index[id])
    /\ accepted \subseteq Who \X ItemIds
    /\ rejected \subseteq [who : Who, id : ItemIds, err : Errors]

Init ==
    /\ index = [id \in {} |-> {}]
    /\ accepted = {}
    /\ rejected = {}

\* The voters of id, after get_or_insert: the empty set when id has no entry.
Voters(id) == IF id \in DOMAIN index THEN index[id] ELSE {}

\* Mutant: try_insert that checks only the bound.
TryInsertOkBoundOnly(set, who) == Cardinality(set) < MaxSize

\* BoundedBTreeSet::try_insert succeeds when the set is below its bound or
\* already holds the item.
TryInsertOk(set, who) == Cardinality(set) < MaxSize \/ who \in set

\* Index::mutate stores the closure's set under id, even when it failed.
Store(id, set) == [i \in DOMAIN index \cup {id} |-> IF i = id THEN set ELSE index[i]]

\* A refused vote: the set is stored back unchanged and the error returned.
Refuse(who, id, set, err) ==
    /\ index' = Store(id, set)
    /\ rejected' = rejected \cup {[who |-> who, id |-> id, err |-> err]}
    /\ UNCHANGED accepted

\* insert_once(who, id), with the three outcomes of try_insert.
InsertOnce(who, id) ==
    LET set == Voters(id) IN
    \/ /\ ~TryInsertOk(set, who)
       /\ Refuse(who, id, set, "TooManyVoters")
    \/ /\ TryInsertOk(set, who)
       /\ who \in set
       /\ Refuse(who, id, set, "DoubleVoting")
    \/ /\ TryInsertOk(set, who)
       /\ who \notin set
       /\ index' = Store(id, set \cup {who})
       /\ accepted' = accepted \cup {<<who, id>>}
       /\ UNCHANGED rejected

Next == \E who \in Who, id \in ItemIds : InsertOnce(who, id)

Spec == Init /\ [][Next]_vars

-----------------------------------------------------------------------------
(* insert_once keeps the index and its answers consistent: the voters in  *)
(* the index are exactly the votes answered Ok, no set exceeds MaxSize, a *)
(* DoubleVoting answer went to a voter that is counted, and a             *)
(* TooManyVoters answer went to a voter that is not counted, for an item  *)
(* whose set was full and stays full.                                      *)
VotesAccounted ==
    /\ accepted = {v \in Who \X ItemIds : v[1] \in Voters(v[2])}
    /\ \A id \in DOMAIN index : Cardinality(index[id]) <= MaxSize
    /\ \A r \in rejected :
          /\ r.err = "DoubleVoting" => r.who \in Voters(r.id)
          /\ r.err = "TooManyVoters" =>
                /\ r.who \notin Voters(r.id)
                /\ Cardinality(Voters(r.id)) = MaxSize
=============================================================================
