-------------------------- MODULE TaskVotingProofs --------------------------
(***************************************************************************)
(* Proof that insert_once keeps VotesAccounted, for every set of voters,  *)
(* every set of items and every bound MaxSize.                            *)
(*                                                                         *)
(* VotesAccounted is inductive together with TypeOK.  The argument: a     *)
(* refused vote stores the set back unchanged, so every item keeps its    *)
(* voters; an accepted vote adds one voter to one set, which was below    *)
(* the bound (the voter was new, so try_insert only let it in because the *)
(* set was not full), and that set had therefore never refused anyone     *)
(* with TooManyVoters.                                                     *)
(***************************************************************************)
EXTENDS TaskVoting, FiniteSetTheorems

IInv == TypeOK /\ VotesAccounted

\* The set of an item with no entry is the empty set: finite, of voters.
LEMMA VotersType ==
    ASSUME TypeOK, NEW id \in ItemIds
    PROVE  /\ Voters(id) \subseteq Who
           /\ IsFiniteSet(Voters(id))
           /\ Cardinality(Voters(id)) \in Nat
<1>1. Voters(id) \subseteq Who /\ IsFiniteSet(Voters(id))
    BY FS_EmptySet DEF TypeOK, Voters
<1>2. QED
    BY <1>1, FS_CardinalityType

\* Storing a set under id gives id that set and leaves every other item.
LEMMA StoreVoters ==
    ASSUME NEW id, NEW set, index' = Store(id, set)
    PROVE  /\ Voters(id)' = set
           /\ \A i : i # id => Voters(i)' = Voters(i)
           /\ DOMAIN index' = DOMAIN index \cup {id}
BY DEF Store, Voters

\* Storing a finite set of voters under an item keeps the index typed.
LEMMA StoreType ==
    ASSUME TypeOK, NEW id \in ItemIds, NEW set \in SUBSET Who, IsFiniteSet(set),
           index' = Store(id, set)
    PROVE  /\ DOMAIN index' \subseteq ItemIds
           /\ \A i \in DOMAIN index' : index'[i] \subseteq Who /\ IsFiniteSet(index'[i])
BY DEF TypeOK, Store

\* The empty index with no answers satisfies the invariant.
LEMMA InitIInv == Init => IInv
BY FS_EmptySet DEF Init, IInv, TypeOK, VotesAccounted, Voters

\* A refused vote keeps every item's voters and records a refusal that
\* VotesAccounted allows.
LEMMA RefuseIInv ==
    ASSUME IInv, NEW who \in Who, NEW id \in ItemIds, NEW err \in Errors,
           Refuse(who, id, Voters(id), err),
           err = "DoubleVoting" => who \in Voters(id),
           err = "TooManyVoters" => who \notin Voters(id) /\ ~(Cardinality(Voters(id)) < MaxSize)
    PROVE  IInv'
<1> DEFINE set == Voters(id)
<1>1. set \subseteq Who /\ IsFiniteSet(set) /\ Cardinality(set) \in Nat
    BY VotersType DEF IInv
<1>2. index' = Store(id, set)
    BY DEF Refuse
<1>3. \A i \in ItemIds : Voters(i)' = Voters(i)
    BY <1>2, StoreVoters
<1>4. TypeOK'
    BY <1>1, <1>2, StoreType DEF IInv, Refuse, TypeOK
<1>5. accepted' = {v \in Who \X ItemIds : v[1] \in Voters(v[2])'}
    BY <1>3 DEF IInv, VotesAccounted, Refuse
<1>6. \A i \in DOMAIN index' : Cardinality(index'[i]) <= MaxSize
    <2> SUFFICES ASSUME NEW i \in DOMAIN index' PROVE Cardinality(index'[i]) <= MaxSize
        OBVIOUS
    <2>1. i \in ItemIds /\ index'[i] = Voters(i)'
        BY <1>2, <1>4, StoreVoters DEF TypeOK, Voters
    <2>2. CASE i \in DOMAIN index
        BY <1>3, <2>1, <2>2 DEF IInv, VotesAccounted, Voters
    <2>3. CASE i \notin DOMAIN index
        <3>1. i = id /\ set = {}
            BY <1>2, <2>3, StoreVoters DEF Voters
        <3>2. index'[i] = {}
            BY <2>1, <3>1, <1>2, StoreVoters
        <3>3. QED
            BY <3>2, FS_EmptySet, TaskVotingAssumption
    <2>4. QED
        BY <2>2, <2>3
<1>7. \A r \in rejected' :
          /\ r.err = "DoubleVoting" => r.who \in Voters(r.id)'
          /\ r.err = "TooManyVoters" =>
                /\ r.who \notin Voters(r.id)'
                /\ Cardinality(Voters(r.id)') = MaxSize
    <2> SUFFICES ASSUME NEW r \in rejected'
                 PROVE  /\ r.err = "DoubleVoting" => r.who \in Voters(r.id)'
                        /\ r.err = "TooManyVoters" =>
                              /\ r.who \notin Voters(r.id)'
                              /\ Cardinality(Voters(r.id)') = MaxSize
        OBVIOUS
    <2>1. CASE r \in rejected
        BY <2>1, <1>3 DEF IInv, TypeOK, VotesAccounted
    <2>2. CASE r = [who |-> who, id |-> id, err |-> err]
        <3>1. Voters(r.id)' = set
            BY <2>2, <1>3
        <3>2. r.err = "TooManyVoters" => Cardinality(set) = MaxSize
            <4>1. Cardinality(set) <= MaxSize
                BY VotersType, FS_EmptySet, TaskVotingAssumption
                   DEF IInv, VotesAccounted, TypeOK, Voters
            <4>2. QED
                BY <4>1, <1>1, <2>2, TaskVotingAssumption
        <3>3. QED
            BY <2>2, <3>1, <3>2
    <2>3. QED
        BY <2>1, <2>2 DEF Refuse
<1>8. QED
    BY <1>4, <1>5, <1>6, <1>7 DEF IInv, VotesAccounted

\* An accepted vote adds a new voter to a set below the bound.
LEMMA AcceptIInv ==
    ASSUME IInv, NEW who \in Who, NEW id \in ItemIds,
           TryInsertOk(Voters(id), who), who \notin Voters(id),
           index' = Store(id, Voters(id) \cup {who}),
           accepted' = accepted \cup {<<who, id>>},
           UNCHANGED rejected
    PROVE  IInv'
<1> DEFINE set == Voters(id)
<1>1. set \subseteq Who /\ IsFiniteSet(set) /\ Cardinality(set) \in Nat
    BY VotersType DEF IInv
<1>2. Cardinality(set) < MaxSize
    BY DEF TryInsertOk
<1>3. IsFiniteSet(set \cup {who}) /\ Cardinality(set \cup {who}) = Cardinality(set) + 1
    BY <1>1, FS_AddElement
<1>4. /\ Voters(id)' = set \cup {who}
      /\ \A i : i # id => Voters(i)' = Voters(i)
      /\ DOMAIN index' = DOMAIN index \cup {id}
    BY StoreVoters
<1>5. TypeOK'
    <2>1. set \cup {who} \in SUBSET Who
        BY <1>1
    <2>2. /\ DOMAIN index' \subseteq ItemIds
          /\ \A i \in DOMAIN index' : index'[i] \subseteq Who /\ IsFiniteSet(index'[i])
        BY <2>1, <1>3, StoreType DEF IInv
    <2>3. accepted' \subseteq Who \X ItemIds
        BY DEF IInv, TypeOK
    <2>4. rejected' \subseteq [who : Who, id : ItemIds, err : Errors]
        BY DEF IInv, TypeOK
    <2>5. QED
        BY <2>2, <2>3, <2>4 DEF TypeOK
<1>6. accepted' = {v \in Who \X ItemIds : v[1] \in Voters(v[2])'}
    BY <1>4 DEF IInv, VotesAccounted, TypeOK
<1>7. \A i \in DOMAIN index' : Cardinality(index'[i]) <= MaxSize
    <2> SUFFICES ASSUME NEW i \in DOMAIN index' PROVE Cardinality(index'[i]) <= MaxSize
        OBVIOUS
    <2>1. CASE i = id
        <3>1. index'[i] = set \cup {who}
            BY <2>1 DEF Store
        <3>2. Cardinality(index'[i]) = Cardinality(set) + 1
            BY <3>1, <1>3
        <3>3. QED
            BY <3>2, <1>1, <1>2, TaskVotingAssumption
    <2>2. CASE i # id
        <3>1. i \in DOMAIN index /\ index'[i] = index[i]
            BY <2>2, <1>4 DEF Store
        <3>2. QED
            BY <3>1 DEF IInv, VotesAccounted
    <2>3. QED
        BY <2>1, <2>2
<1>8. \A r \in rejected' :
          /\ r.err = "DoubleVoting" => r.who \in Voters(r.id)'
          /\ r.err = "TooManyVoters" =>
                /\ r.who \notin Voters(r.id)'
                /\ Cardinality(Voters(r.id)') = MaxSize
    <2> SUFFICES ASSUME NEW r \in rejected
                 PROVE  /\ r.err = "DoubleVoting" => r.who \in Voters(r.id)'
                        /\ r.err = "TooManyVoters" =>
                              /\ r.who \notin Voters(r.id)'
                              /\ Cardinality(Voters(r.id)') = MaxSize
        OBVIOUS
    <2>1. CASE r.id # id
        BY <2>1, <1>4 DEF IInv, VotesAccounted
    <2>2. CASE r.id = id
        <3>1. r.err = "DoubleVoting" => r.who \in Voters(r.id)'
            BY <2>2, <1>4 DEF IInv, VotesAccounted
        <3>2. r.err # "TooManyVoters"
            BY <2>2, <1>1, <1>2, TaskVotingAssumption DEF IInv, VotesAccounted
        <3>3. QED
            BY <3>1, <3>2
    <2>3. QED
        BY <2>1, <2>2
<1>9. QED
    BY <1>5, <1>6, <1>7, <1>8 DEF IInv, VotesAccounted

\* Every call of insert_once, and every stutter, keeps the invariant.
LEMMA NextIInv == IInv /\ [Next]_vars => IInv'
<1> SUFFICES ASSUME IInv, [Next]_vars PROVE IInv'
    OBVIOUS
<1>1. CASE UNCHANGED vars
    BY <1>1 DEF vars, IInv, TypeOK, VotesAccounted, Voters
<1>2. CASE Next
    <2>1. PICK who \in Who, id \in ItemIds : InsertOnce(who, id)
        BY <1>2 DEF Next
    <2>2. CASE ~TryInsertOk(Voters(id), who) /\ Refuse(who, id, Voters(id), "TooManyVoters")
        BY <2>2, RefuseIInv DEF Errors, TryInsertOk
    <2>3. CASE TryInsertOk(Voters(id), who) /\ who \in Voters(id)
               /\ Refuse(who, id, Voters(id), "DoubleVoting")
        BY <2>3, RefuseIInv DEF Errors
    <2>4. CASE TryInsertOk(Voters(id), who) /\ who \notin Voters(id)
               /\ index' = Store(id, Voters(id) \cup {who})
               /\ accepted' = accepted \cup {<<who, id>>}
               /\ UNCHANGED rejected
        BY <2>4, AcceptIInv
    <2>5. QED
        BY <2>1, <2>2, <2>3, <2>4 DEF InsertOnce
<1>3. QED
    BY <1>1, <1>2

(* insert_once, called in any order by any voters on any items, never     *)
(* lets a set exceed its bound, counts exactly the votes it answered Ok,  *)
(* and gives DoubleVoting and TooManyVoters only for their causes.        *)
THEOREM VotesAccountedSafe == Spec => []VotesAccounted
<1>1. Init => IInv
    BY InitIInv
<1>2. IInv /\ [Next]_vars => IInv'
    BY NextIInv
<1>3. IInv => VotesAccounted
    BY DEF IInv
<1>4. QED
    BY <1>1, <1>2, <1>3, PTL DEF Spec
=============================================================================
