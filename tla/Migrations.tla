----------------------------- MODULE Migrations -----------------------------
(***************************************************************************)
(* The storage migrations of the creditcoin pallet                        *)
(* (src/pallets/creditcoin/src/migrations/mod.rs) across runtime           *)
(* upgrades.                                                               *)
(*                                                                         *)
(* A release of the runtime knows the migrations v1..vk and declares       *)
(* STORAGE_VERSION k (lib.rs: StorageVersion::new(7) for this release).    *)
(* A chain launched by release g starts with storage version g, written   *)
(* at genesis.  set_code schedules a new release; at the start of the next *)
(* block the new runtime runs on_runtime_upgrade, which is migrate: it    *)
(* reads the storage version once and, for j = 1..k in order, runs vj and *)
(* puts version j when the version read is below j.                        *)
(*                                                                         *)
(* Earlier releases are taken to run the same migrate with fewer steps.   *)
(* set_code and the block executive that calls on_runtime_upgrade are     *)
(* outside the pallet.  The weight each step returns is left out.         *)
(***************************************************************************)
EXTENDS Naturals, Sequences, FiniteSets

CONSTANTS
    Steps,      \* the migrations this release knows: STORAGE_VERSION
    NoUpgrade   \* no set_code in the current block

ASSUME MigrationsAssumption == Steps \in Nat /\ NoUpgrade \notin 0..Steps

Releases == 0..Steps

VARIABLES
    genesis,    \* the release that built the genesis block (fixed)
    runtime,    \* the release the chain runs
    pending,    \* the release set by set_code in this block, or NoUpgrade
    version,    \* StorageVersion::get::<Pallet<T>>()
    applied     \* the migrations run so far, in the order they ran

vars == <<genesis, runtime, pending, version, applied>>

TypeOK ==
    /\ genesis \in Releases
    /\ runtime \in Releases
    /\ pending \in Releases \cup {NoUpgrade}
    /\ version \in Releases
    /\ applied \in Seq(1..Steps)

\* The storage version a release writes at genesis: its STORAGE_VERSION.
GenesisVersion(k) == k

Init ==
    /\ genesis \in Releases
    /\ runtime = genesis
    /\ pending = NoUpgrade
    /\ version = GenesisVersion(genesis)
    /\ applied = <<>>

\* frame_system::set_code: a later release replaces the runtime code.
SetCode(k) ==
    /\ k \in runtime..Steps
    /\ pending' = k
    /\ UNCHANGED <<genesis, runtime, version, applied>>

\* Mutant: migration j also runs when the version read is already j.
StepDueAgain(v, j) == v <= j

\* "if version < j": migration j runs when the version read is below j.
StepDue(v, j) == v < j

\* The migrations whose if statement holds in release k when the storage
\* version read is v.
DueSteps(v, k) == {j \in 1..k : StepDue(v, j)}

\* The migrations migrate runs, in the order of its if statements: the
\* i-th one run is the due step with exactly i due steps up to it.
Due(v, k) ==
    LET D == DueSteps(v, k) IN
    [i \in 1..Cardinality(D) |-> CHOOSE j \in D : Cardinality({x \in D : x <= j}) = i]

\* The next block starts with the new runtime, whose on_runtime_upgrade
\* runs migrate: each due step runs and puts its version.
OnRuntimeUpgrade ==
    LET run == Due(version, pending) IN
    /\ pending # NoUpgrade
    /\ runtime' = pending
    /\ pending' = NoUpgrade
    /\ applied' = applied \o run
    /\ version' = IF run = <<>> THEN version ELSE run[Len(run)]
    /\ UNCHANGED genesis

Next ==
    \/ \E k \in Releases : SetCode(k)
    \/ OnRuntimeUpgrade

Spec == Init /\ [][Next]_vars

-----------------------------------------------------------------------------
(* Over any sequence of runtime upgrades, every migration above the        *)
(* genesis version has run exactly once and in order, none at or below   *)
(* it has run, and the storage version is the running release's          *)
(* STORAGE_VERSION.  A broken threshold in migrate or a                    *)
(* STORAGE_VERSION that lags the migrations breaks it.                     *)
MigrationsOnce ==
    /\ genesis <= version
    /\ applied = [i \in 1..(version - genesis) |-> genesis + i]
    /\ version = runtime
=============================================================================
