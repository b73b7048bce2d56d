----------------------------- MODULE ModManifest -----------------------------
(***************************************************************************)
(* Manifests of mods, and what ll::mod::ModLoadPlanner promises about a    *)
(* load plan computed from the manifests found on disk.  The text of a     *)
(* manifest is abstracted to what loading decides on: its name, version,   *)
(* manager type, platform, the passive flag and four sets of Dependency.   *)
(* A version range is the set of versions it accepts.                      *)
(***************************************************************************)
EXTENDS Integers, Sequences, FiniteSets, Functions

CONSTANTS
    Mods,         \* names of mods
    Versions,     \* versions a manifest may declare
    Unversioned,  \* the version of a manifest that declares none
    NoRange,      \* the range of a Dependency that declares none
    Types,        \* manager types
    Manifests     \* the manifests that may be on disk at some time

Dependency == [name : Mods, range : {NoRange} \cup SUBSET Versions]

Manifest ==
    [ name                 : Mods,
      version              : {Unversioned} \cup Versions,
      type                 : Types,
      platformCompatible   : BOOLEAN,
      passive              : BOOLEAN,
      dependencies         : SUBSET Dependency,
      optionalDependencies : SUBSET Dependency,
      conflicts            : SUBSET Dependency,
      loadBefore           : SUBSET Dependency ]

ASSUME ManifestAssumption ==
    /\ Manifests \subseteq Manifest
    /\ Unversioned \notin Versions
    /\ \A r \in SUBSET Versions : NoRange # r

\* ModLoadPlanner::matchesDependency: an unversioned target matches only a
\* Dependency without a range.
MatchesDependency(mf, dep) ==
    \/ dep.range = NoRange
    \/ dep.range # NoRange /\ mf.version \in dep.range

\* mf declares a dependency of the given set on target, and target matches it.
Declares(deps, target) ==
    \E d \in deps : d.name = target.name /\ MatchesDependency(target, d)

ConflictFree(mfs) ==
    \A x, y \in mfs : x # y => ~ Declares(x.conflicts, y)

-----------------------------------------------------------------------------
(***************************************************************************)
(* The contract of ModLoadPlanner::resolve, stated without its loops.      *)
(* `disk` is the set of manifests read, at most one per name.              *)
(***************************************************************************)
IsDisk(disk) == IsFiniteSet(disk) /\ \A x, y \in disk : x.name = y.name => x = y

\* The least superset of S closed under the successors Next(x) of its members.
LeastClosed(S, universe, Next(_)) ==
    LET closed == {T \in SUBSET universe :
                       S \subseteq T /\ \A x \in T : Next(x) \subseteq T}
    IN  {x \in universe : \A T \in closed : x \in T}

Targets(disk, deps) == {t \in disk : Declares(deps, t)}

\* What the non-passive mods need or would use.
Candidates(disk) ==
    LeastClosed({m \in disk : ~ m.passive}, disk,
        LAMBDA m : Targets(disk, m.dependencies \cup m.optionalDependencies))

\* Rejected on their own account: a required dependency is missing or has
\* another version, the platform differs, or a declared conflict is a candidate.
SelfRejected(disk) ==
    {m \in Candidates(disk) :
        \/ \E d \in m.dependencies :
               ~ \E t \in disk : t.name = d.name /\ MatchesDependency(t, d)
        \/ ~ m.platformCompatible
        \/ Targets(Candidates(disk), m.conflicts) # {}}

\* The largest subset of S whose members find every required name in it.
Available(S) ==
    LET Supported(T) == \A m \in T : \A d \in m.dependencies :
                            \E t \in T : t.name = d.name
    IN  UNION {T \in SUBSET S : Supported(T)}

\* x must come before y when both are loaded.
MustPrecede(x, y) ==
    \/ Declares(y.dependencies \cup y.optionalDependencies, x)
    \/ Declares(x.loadBefore, y)

OnCycle(S, m) ==
    LET After(x) == {y \in S : MustPrecede(x, y)}
    IN  m \in LeastClosed(After(m), S, After)

Survivors(disk) ==
    LET active == Available(Candidates(disk) \ SelfRejected(disk))
    IN  Available({m \in active : ~ OnCycle(active, m)})

\* A plan lists the survivors once each, in an order that respects MustPrecede.
\* (resolve also breaks ties by name, which nothing downstream relies on.)
Orderings(S) ==
    {order \in [1 .. Cardinality(S) -> S] :
        \A i, j \in DOMAIN order :
            /\ order[i] = order[j] => i = j
            /\ MustPrecede(order[i], order[j]) => i < j}

Plans(disk) == Orderings(Survivors(disk))
=============================================================================
