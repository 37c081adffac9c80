--------------------------- MODULE MigrationsProofs ---------------------------
(***************************************************************************)
(* Proof that migrate, over any sequence of runtime upgrades, runs every  *)
(* migration above the genesis version exactly once and in order, and     *)
(* leaves the storage version at the running release's STORAGE_VERSION    *)
(* (MigrationsOnce), for every number of migrations.                       *)
(*                                                                         *)
(* MigrationsOnce is not inductive on its own: an upgrade scheduled by     *)
(* set_code must not go back to an earlier release, or migrate would run   *)
(* nothing and the version would stay above the new runtime's.  The        *)
(* inductive invariant adds that a pending release is at or above the      *)
(* running one.  The step of on_runtime_upgrade rests on the lemma         *)
(* DueFrom: from storage version v, release k runs exactly v+1, ..., k.    *)
(***************************************************************************)
EXTENDS Migrations, FiniteSetTheorems, SequenceTheorems, TLAPS

PendingAhead == pending # NoUpgrade => runtime <= pending

MInv == TypeOK /\ MigrationsOnce /\ PendingAhead

\* The steps applied from genesis g up to version g + a: g+1, ..., g+a.
Run(g, a) == [i \in 1..a |-> g + i]

-----------------------------------------------------------------------------
(* What migrate runs. *)

\* The numbers a+1, ..., b number b - a.
LEMMA IntervalCard ==
    ASSUME NEW a \in Nat, NEW b \in Nat, a <= b
    PROVE  Cardinality((a + 1)..b) = b - a
<1>1. Cardinality((a + 1)..b) = IF a + 1 > b THEN 0 ELSE b - (a + 1) + 1
    BY FS_Interval
<1>2. CASE a = b
    <2>1. (a + 1)..b = {}
        BY <1>2
    <2> QED
        BY <2>1, <1>2, FS_EmptySet
<1>3. CASE a < b
    BY <1>1, <1>3
<1> QED
    BY <1>2, <1>3

\* From storage version v, release k >= v runs exactly v+1, ..., k, in order.
LEMMA DueFrom ==
    ASSUME NEW v \in Nat, NEW k \in Nat, v <= k
    PROVE  Due(v, k) = Run(v, k - v)
<1> DEFINE D == DueSteps(v, k)
           UpTo(j) == {x \in D : x <= j}
<1>1. D = (v + 1)..k
    BY DEF DueSteps, StepDue
<1>3. Cardinality(D) = k - v
    BY <1>1, IntervalCard
<1>4. ASSUME NEW j \in D PROVE Cardinality(UpTo(j)) = j - v
    <2>1. UpTo(j) = (v + 1)..j /\ j \in Nat /\ v <= j
        BY <1>1
    <2> QED
        BY <2>1, IntervalCard
<1>5. ASSUME NEW i \in 1..(k - v)
      PROVE  (CHOOSE j \in D : Cardinality(UpTo(j)) = i) = v + i
    <2>1. v + i \in D
        BY <1>1
    <2>2. Cardinality(UpTo(v + i)) = i
        <3>1. Cardinality(UpTo(v + i)) = (v + i) - v
            BY <2>1, <1>4
        <3>2. (v + i) - v = i
            OBVIOUS
        <3> QED
            BY <3>1, <3>2
    <2> DEFINE c == CHOOSE j \in D : Cardinality(UpTo(j)) = i
    <2>3. c \in D /\ Cardinality(UpTo(c)) = i
        BY <2>1, <2>2, Zenon
    <2>4. Cardinality(UpTo(c)) = c - v
        BY <2>3, <1>4
    <2>5. c \in Nat
        BY <2>3, <1>1
    <2> QED
        BY <2>3, <2>4, <2>5
<1> QED
    BY <1>3, <1>5 DEF Due, Run

\* The steps applied from g up to g + a are a sequence of length a.
LEMMA RunSeq ==
    ASSUME NEW g \in Nat, NEW a \in Nat
    PROVE  Run(g, a) \in Seq(Nat) /\ Len(Run(g, a)) = a
BY DEF Run

\* The steps up to m followed by the steps from m up to n.
LEMMA RunConcat ==
    ASSUME NEW g \in Nat, NEW m \in Nat, NEW n \in Nat, g <= m, m <= n
    PROVE  Run(g, m - g) \o Run(m, n - m) = Run(g, n - g)
<1>1. /\ Run(g, m - g) \in Seq(Nat) /\ Len(Run(g, m - g)) = m - g
      /\ Run(m, n - m) \in Seq(Nat) /\ Len(Run(m, n - m)) = n - m
      /\ Run(g, n - g) \in Seq(Nat) /\ Len(Run(g, n - g)) = n - g
    BY DEF Run
<1> QED
    BY <1>1, ConcatProperties, SeqEqual DEF Run

-----------------------------------------------------------------------------
(* The inductive invariant. *)

LEMMA InitMInv == Init => MInv
<1> SUFFICES ASSUME Init PROVE MInv
    OBVIOUS
<1>1. genesis \in Releases /\ genesis \in Nat
    BY MigrationsAssumption DEF Init, Releases
<1> QED
    BY <1>1, MigrationsAssumption
       DEF Init, MInv, TypeOK, MigrationsOnce, PendingAhead, GenesisVersion, Releases

LEMMA NextMInv == MInv /\ [Next]_vars => MInv'
<1> SUFFICES ASSUME MInv, [Next]_vars PROVE MInv'
    OBVIOUS
<1>0. /\ genesis \in Nat /\ runtime \in Nat /\ version \in Nat /\ Steps \in Nat
      /\ genesis <= version /\ version = runtime
      /\ applied = Run(genesis, version - genesis)
    BY MigrationsAssumption DEF MInv, TypeOK, MigrationsOnce, Releases, Run
<1>1. ASSUME NEW k \in Releases, SetCode(k) PROVE MInv'
    BY <1>1, <1>0 DEF SetCode, MInv, TypeOK, MigrationsOnce, PendingAhead, Releases
<1>2. CASE OnRuntimeUpgrade
    <2>1. pending \in Releases /\ version <= pending /\ pending \in Nat
        BY <1>2, <1>0, MigrationsAssumption DEF OnRuntimeUpgrade, MInv, TypeOK, PendingAhead, Releases
    <2>2. Due(version, pending) = Run(version, pending - version)
        BY <1>0, <2>1, DueFrom
    <2>3. /\ applied' = applied \o Due(version, pending)
          /\ version' = IF Due(version, pending) = <<>> THEN version
                        ELSE Due(version, pending)[Len(Due(version, pending))]
          /\ runtime' = pending /\ pending' = NoUpgrade /\ genesis' = genesis
        BY <1>2 DEF OnRuntimeUpgrade
    <2>4. applied' = Run(genesis, pending - genesis)
        <3>1. applied' = Run(genesis, version - genesis) \o Run(version, pending - version)
            BY <1>0, <2>2, <2>3
        <3>2. Run(genesis, version - genesis) \o Run(version, pending - version)
                = Run(genesis, pending - genesis)
            BY <1>0, <2>1, RunConcat
        <3> QED
            BY <3>1, <3>2
    <2>5. version' = pending
        <3>1. CASE pending = version
            <4>1. Run(version, pending - version) = <<>>
                BY <3>1, <1>0 DEF Run
            <4> QED
                BY <2>2, <2>3, <3>1, <4>1
        <3>2. CASE pending # version
            <4>1. pending - version \in Nat \ {0}
                BY <3>2, <2>1, <1>0
            <4>2. Len(Run(version, pending - version)) = pending - version
                  /\ Run(version, pending - version)[pending - version] = pending
                <5>1. Len(Run(version, pending - version)) = pending - version
                    BY <4>1, <1>0, RunSeq
                <5>2. Run(version, pending - version)[pending - version] = pending
                    <6>1. pending - version \in 1..(pending - version)
                        BY <4>1
                    <6>2. Run(version, pending - version)[pending - version]
                            = version + (pending - version)
                        BY <6>1 DEF Run
                    <6> QED
                        BY <6>2, <1>0, <2>1
                <5> QED
                    BY <5>1, <5>2
            <4>3. Run(version, pending - version) # <<>>
                BY <4>1, <4>2
            <4> QED
                BY <2>2, <2>3, <4>2, <4>3
        <3> QED
            BY <3>1, <3>2
    <2>6. applied' \in Seq(1..Steps)
        BY <2>1, <2>4, <1>0 DEF Run, Releases
    <2>7. TypeOK'
        BY <1>0, <2>1, <2>3, <2>5, <2>6, MigrationsAssumption DEF MInv, TypeOK, Releases
    <2>8. MigrationsOnce'
        BY <1>0, <2>1, <2>3, <2>4, <2>5 DEF MigrationsOnce, Run
    <2>9. PendingAhead'
        BY <2>3 DEF PendingAhead
    <2> QED
        BY <2>7, <2>8, <2>9 DEF MInv
<1>3. CASE UNCHANGED vars
    BY <1>3 DEF vars, MInv, TypeOK, MigrationsOnce, PendingAhead
<1> QED
    BY <1>1, <1>2, <1>3 DEF Next

(* migrate, over every sequence of set_code upgrades from every genesis    *)
(* release, runs each migration above the genesis version exactly once and *)
(* in order, none at or below it, and leaves the storage version at the    *)
(* running release's STORAGE_VERSION: MigrationsOnce, for every number of  *)
(* migrations.                                                             *)
THEOREM MigrationsSafe == Spec => []MigrationsOnce
<1>1. Init => MInv
    BY InitMInv
<1>2. MInv /\ [Next]_vars => MInv'
    BY NextMInv
<1>3. MInv => MigrationsOnce
    BY DEF MInv
<1> QED
    BY <1>1, <1>2, <1>3, PTL DEF Spec
====
