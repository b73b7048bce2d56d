------------------------ MODULE ModLoadPlanner_proofs ------------------------
(***************************************************************************)
(* Proofs about ModLoadPlanner, for any manifests on disk: the loops of    *)
(* resolve compute the plan that ModManifest defines without them, and the *)
(* first such plan by name; what they report is so.                        *)
(***************************************************************************)
EXTENDS ModLoadPlanner, FindCycles, FiniteSetTheorems, SequenceTheorems, WellFoundedInduction, TLAPS

LEMMA LeastNumber ==
  ASSUME NEW N \in SUBSET Nat, N # {}
  PROVE  \E m \in N : \A k \in N : m <= k
<1>1. PICK m \in N : \A y \in N : ~ (<<y, m>> \in OpToRel(<, Nat))
  BY WFMin, NatLessThanWellFounded
<1>2. \A y \in N : ~ (y < m)
  BY <1>1, Zenon DEF OpToRel
<1>. QED BY <1>2

-----------------------------------------------------------------------------
(***************************************************************************)
(* The contract: closures, the largest supported set, cycles.              *)
(***************************************************************************)
Wanted(disk, m) == Targets(disk, m.dependencies \cup m.optionalDependencies)

\* The candidates are what the mods that are not passive want, and no more.
LEMMA CandidatesClosed ==
  ASSUME NEW disk
  PROVE  /\ Candidates(disk) \subseteq disk
         /\ \A m \in disk : ~ m.passive => m \in Candidates(disk)
         /\ \A m \in Candidates(disk) : Wanted(disk, m) \subseteq Candidates(disk)
<1>1. \A m \in disk : Wanted(disk, m) \subseteq disk
  BY DEF Wanted, Targets
<1>2. Candidates(disk) =
        {x \in disk : \A T \in {U \in SUBSET disk :
                                   /\ {m \in disk : ~ m.passive} \subseteq U
                                   /\ \A m \in U : Wanted(disk, m) \subseteq U} : x \in T}
  BY DEF Candidates, LeastClosed, Wanted
<1>. QED BY <1>1, <1>2

LEMMA CandidatesLeast ==
  ASSUME NEW disk, NEW T \in SUBSET disk,
         \A m \in disk : ~ m.passive => m \in T,
         \A m \in T : Wanted(disk, m) \subseteq T
  PROVE  Candidates(disk) \subseteq T
BY DEF Candidates, LeastClosed, Wanted

Supported(T) == \A m \in T : \A d \in m.dependencies : \E t \in T : t.name = d.name

\* Available(S) is the largest supported subset of S.
LEMMA AvailableLargest ==
  ASSUME NEW S
  PROVE  /\ Available(S) \subseteq S
         /\ Supported(Available(S))
         /\ \A T \in SUBSET S : Supported(T) => T \subseteq Available(S)
<1>1. Available(S) = UNION {T \in SUBSET S : Supported(T)}
  BY DEF Available, Supported
<1>2. Supported(Available(S))
  <2>. SUFFICES ASSUME NEW m \in Available(S), NEW d \in m.dependencies
                PROVE  \E t \in Available(S) : t.name = d.name
    BY DEF Supported
  <2>1. PICK T \in SUBSET S : Supported(T) /\ m \in T
    BY <1>1
  <2>2. PICK t \in T : t.name = d.name
    BY <2>1 DEF Supported
  <2>. QED BY <1>1, <2>1, <2>2
<1>. QED BY <1>1, <1>2

\* What follows x in S, directly and at any distance.
Follow(S, x) == {y \in S : MustPrecede(x, y)}
FollowClosed(S, T) == \A x \in T : Follow(S, x) \subseteq T
Beyond(S, m) == {x \in S : \A T \in SUBSET S :
                     Follow(S, m) \subseteq T /\ FollowClosed(S, T) => x \in T}

LEMMA OnCycleIsBeyond ==
  ASSUME NEW S, NEW m
  PROVE  OnCycle(S, m) <=> m \in Beyond(S, m)
BY DEF OnCycle, LeastClosed, Beyond, FollowClosed, Follow

LEMMA BeyondClosed ==
  ASSUME NEW S, NEW m
  PROVE  /\ Beyond(S, m) \subseteq S
         /\ Follow(S, m) \subseteq Beyond(S, m)
         /\ FollowClosed(S, Beyond(S, m))
<1>1. \A x : Follow(S, x) \subseteq S
  BY DEF Follow
<1>. QED BY <1>1 DEF Beyond, FollowClosed

LEMMA BeyondLeast ==
  ASSUME NEW S, NEW m, NEW T \in SUBSET S, Follow(S, m) \subseteq T, FollowClosed(S, T)
  PROVE  Beyond(S, m) \subseteq T
BY DEF Beyond

\* What is on a cycle stays on it when there is more.
LEMMA CyclesGrow ==
  ASSUME NEW S, NEW T, S \subseteq T, NEW m, OnCycle(S, m)
  PROVE  OnCycle(T, m)
<1>. DEFINE both == Beyond(T, m) \cap S
<1>1. /\ Follow(T, m) \subseteq Beyond(T, m)
      /\ FollowClosed(T, Beyond(T, m))
  BY BeyondClosed
<1>2. Follow(S, m) \subseteq both /\ FollowClosed(S, both) /\ both \in SUBSET S
  BY <1>1 DEF Follow, FollowClosed
<1>. HIDE DEF both
<1>3. Beyond(S, m) \subseteq both
  BY <1>2, BeyondLeast
<1>. QED BY <1>3, OnCycleIsBeyond DEF both

\* A finite set in which each has one before it has a cycle.
LEMMA CycleExists ==
  ASSUME NEW S, IsFiniteSet(S), NEW R \in SUBSET S, R # {},
         \A y \in R : \E x \in R : MustPrecede(x, y)
  PROVE  \E m \in R : OnCycle(S, m)
<1>. SUFFICES ASSUME \A m \in R : ~ OnCycle(S, m) PROVE FALSE
  OBVIOUS
<1>. DEFINE size(m) == Cardinality(Beyond(S, m))
<1>1. \A m : IsFiniteSet(Beyond(S, m)) /\ size(m) \in Nat /\ size(m) <= Cardinality(S)
  <2>. TAKE m
  <2>1. Beyond(S, m) \in SUBSET S
    BY BeyondClosed
  <2>. QED BY <2>1, FS_Subset, FS_CardinalityType
<1>2. ASSUME NEW x \in R, NEW y \in R, MustPrecede(x, y)
      PROVE  size(y) < size(x)
  <2>1. y \in Beyond(S, x)
    BY <1>2, BeyondClosed DEF Follow
  <2>2. Beyond(S, y) \subseteq Beyond(S, x)
    <3>1. Follow(S, y) \subseteq Beyond(S, x)
      BY <2>1, BeyondClosed DEF FollowClosed
    <3>2. Beyond(S, x) \in SUBSET S /\ FollowClosed(S, Beyond(S, x))
      BY BeyondClosed
    <3>. QED BY <3>1, <3>2, BeyondLeast
  <2>3. y \notin Beyond(S, y)
    BY OnCycleIsBeyond
  <2>4. Beyond(S, y) # Beyond(S, x)
    BY <2>1, <2>3
  <2>5. /\ Cardinality(Beyond(S, y)) <= Cardinality(Beyond(S, x))
        /\ Cardinality(Beyond(S, x)) = Cardinality(Beyond(S, y)) => Beyond(S, x) = Beyond(S, y)
    BY <1>1, <2>2, FS_Subset
  <2>. QED BY <1>1, <2>4, <2>5
<1>3. \A y \in R : \E x \in R : size(x) > size(y)
  BY <1>1, <1>2
<1>. DEFINE room(m) == Cardinality(S) - size(m)
            Rooms == {room(m) : m \in R}
<1>4. Cardinality(S) \in Nat
  BY FS_CardinalityType
<1>. HIDE DEF size
<1>5. Rooms \in SUBSET Nat /\ Rooms # {}
  BY <1>1, <1>4
<1>6. \A k \in Rooms : \E j \in Rooms : j < k
  <2>. SUFFICES ASSUME NEW y \in R PROVE \E j \in Rooms : j < room(y)
    OBVIOUS
  <2>1. PICK x \in R : size(x) > size(y)
    BY <1>3
  <2>2. room(x) < room(y) /\ room(x) \in Rooms
    BY <1>1, <1>4, <2>1
  <2>. QED BY <2>2
<1>. HIDE DEF Rooms
<1>7. PICK k \in Rooms : \A j \in Rooms : k <= j
  BY <1>5, LeastNumber
<1>. QED BY <1>5, <1>6, <1>7
-----------------------------------------------------------------------------
(***************************************************************************)
(* The names of the model and the manifests of the contract.               *)
(***************************************************************************)
Mfs(S) == {manifests[n] : n \in S}

LEMMA DiskFacts ==
  ASSUME TypeOK
  PROVE  /\ Disk = Mfs(Names)
         /\ \A n \in Names : /\ manifests[n] \in Disk /\ manifests[n].name = n
                             /\ manifests[n] \in Manifests /\ n \in Mods
         /\ \A m \in Disk : m.name \in Names /\ manifests[m.name] = m
         /\ \A S \in SUBSET Names : \A n \in Names : manifests[n] \in Mfs(S) <=> n \in S
         /\ \A S \in SUBSET Names : Mfs(S) \subseteq Disk
<1>1. Disk = Mfs(Names)
  BY DEF Disk, Mfs, Names, Range, TypeOK
<1>2. \A n \in Names : manifests[n].name = n
  BY DEF TypeOK
<1>. QED BY <1>1, <1>2 DEF Mfs, Names, TypeOK

LEMMA DiskFinite ==
  ASSUME TypeOK, IsFiniteSet(Names)
  PROVE  IsFiniteSet(Disk) /\ IsDisk(Disk)
<1>. DEFINE f == [n \in Names |-> manifests[n]]
<1>1. f \in Surjection(Names, Disk)
  BY DiskFacts DEF Surjection, Mfs
<1>. HIDE DEF f
<1>2. IsFiniteSet(Disk)
  BY <1>1, FS_Surjection
<1>3. \A x, y \in Disk : x.name = y.name => x = y
  BY DiskFacts
<1>. QED BY <1>2, <1>3 DEF IsDisk

\* FoundIn is the contract's Declares, seen from the names.
LEMMA FoundIs ==
  ASSUME TypeOK, NEW deps, NEW S \in SUBSET Names
  PROVE  /\ FoundIn(deps, S) \subseteq S
         /\ \A n \in S : n \in FoundIn(deps, S) <=> Declares(deps, manifests[n])
<1>1. FoundIn(deps, S) \subseteq S
  BY DEF FoundIn
<1>2. \A n \in S : manifests[n].name = n
  BY DEF TypeOK
<1>. QED BY <1>1, <1>2 DEF FoundIn, Declares

LEMMA TargetsAreFound ==
  ASSUME TypeOK, NEW deps, NEW S \in SUBSET Names
  PROVE  Targets(Mfs(S), deps) = Mfs(FoundIn(deps, S))
BY FoundIs DEF Targets, Mfs

LEMMA FoundUnion ==
  ASSUME NEW A, NEW B, NEW S
  PROVE  FoundIn(A \cup B, S) = FoundIn(A, S) \cup FoundIn(B, S)
BY DEF FoundIn

LEMMA ActiveNames ==
  ASSUME TypeOK
  PROVE  Active \subseteq candidates /\ Active \subseteq Names
BY DEF Active, TypeOK

LEMMA AfterIs ==
  ASSUME TypeOK, NEW x \in Active
  PROVE  /\ After(x) \subseteq Active
         /\ \A y \in Active : y \in After(x) <=> MustPrecede(manifests[x], manifests[y])
<1>1. ASSUME NEW y \in Active
      PROVE  y \in After(x) <=> MustPrecede(manifests[x], manifests[y])
  <2>1. y \in After(x) <=>
          \/ x \in FoundIn(manifests[y].dependencies \cup manifests[y].optionalDependencies, Active)
          \/ y \in FoundIn(manifests[x].loadBefore, Active)
    BY FoundUnion DEF After
  <2>. QED BY <2>1, FoundIs, ActiveNames DEF MustPrecede
<1>2. After(x) \subseteq Active
  BY DEF After
<1>. QED BY <1>1, <1>2

\* The names on a cycle are those of the manifests on one.
LEMMA CyclicIs ==
  ASSUME TypeOK, NEW n \in Active
  PROVE  n \in Cyclic <=> OnCycle(Mfs(Active), manifests[n])
<1>. DEFINE M == Mfs(Active)
<1>1. n \in Cyclic <=> \A T \in SUBSET Active :
          After(n) \subseteq T /\ (\A x \in T : After(x) \subseteq T) => n \in T
  BY DEF Cyclic, LeastClosed
<1>2. \A x \in Active : Follow(M, manifests[x]) = Mfs(After(x))
  BY AfterIs DEF Follow, Mfs
<1>3. \A T \in SUBSET Active : Mfs(T) \subseteq M
                               /\ \A x \in Active : manifests[x] \in Mfs(T) <=> x \in T
  BY DiskFacts, ActiveNames DEF Mfs
<1>4. ASSUME n \in Cyclic, NEW T \in SUBSET M,
             Follow(M, manifests[n]) \subseteq T, FollowClosed(M, T)
      PROVE  manifests[n] \in T
  <2>. DEFINE U == {x \in Active : manifests[x] \in T}
  <2>1. \A x \in Active : After(x) \subseteq Active
    BY AfterIs
  <2>2. \A x \in Active : Mfs(After(x)) \subseteq T => After(x) \subseteq U
    BY <2>1 DEF Mfs
  <2>3. After(n) \subseteq U
    BY <1>2, <1>4, <2>2
  <2>4. \A x \in U : After(x) \subseteq U
    BY <1>2, <1>4, <2>2 DEF FollowClosed
  <2>5. n \in U
    BY <1>1, <1>4, <2>3, <2>4
  <2>. QED BY <2>5
<1>5. ASSUME manifests[n] \in Beyond(M, manifests[n]), NEW T \in SUBSET Active,
             After(n) \subseteq T, \A x \in T : After(x) \subseteq T
      PROVE  n \in T
  <2>1. Follow(M, manifests[n]) \subseteq Mfs(T)
    BY <1>2, <1>5 DEF Mfs
  <2>2. FollowClosed(M, Mfs(T))
    <3>. SUFFICES ASSUME NEW x \in T PROVE Follow(M, manifests[x]) \subseteq Mfs(T)
      BY DEF FollowClosed, Mfs
    <3>1. After(x) \subseteq T
      BY <1>5
    <3>2. Mfs(After(x)) \subseteq Mfs(T)
      BY <3>1 DEF Mfs
    <3>. QED BY <1>2, <3>2
  <2>3. manifests[n] \in Mfs(T)
    BY <1>3, <1>5, <2>1, <2>2 DEF Beyond
  <2>. QED BY <1>3, <2>3
<1>6. manifests[n] \in M
  BY DEF Mfs
<1>. QED BY <1>1, <1>4, <1>5, <1>6, OnCycleIsBeyond DEF Beyond

-----------------------------------------------------------------------------
(***************************************************************************)
(* The inductive invariant.                                                *)
(***************************************************************************)
\* What is active before the search for cycles, and once those are rejected.
Sound(disk) == Candidates(disk) \ SelfRejected(disk)
Steady(disk) == Available(Sound(disk))
Uncircled(disk) == {m \in Steady(disk) : ~ OnCycle(Steady(disk), m)}

\* The visits collect candidates only, and have those that are missing pending.
CollectFits ==
    /\ phase = "read" => candidates = {} /\ pending = {}
    /\ phase = "collect" =>
           /\ \A n \in Names : ~ manifests[n].passive => n \in candidates \cup pending
           /\ \A n \in candidates : FoundIn(manifests[n].dependencies, Names)
                                    \cup FoundIn(manifests[n].optionalDependencies, Names)
                                    \subseteq candidates \cup pending
           /\ Mfs(candidates \cup pending) \subseteq Candidates(Disk)
    /\ phase \notin {"read", "collect"} => Mfs(candidates) = Candidates(Disk)

\* What is rejected before dependencies are looked at.
OwnFits ==
    /\ phase \in {"read", "collect", "platform"} =>
           \A n \in Mods : rejected[n] \in IF n \in candidates THEN OwnIssue(n) ELSE {NoIssue}
    /\ phase = "conflict" =>
           \A n \in Mods :
               /\ rejected[n] \notin {"Conflict", "DependencyUnavailable", "DependencyCycle"}
               /\ n \in candidates =>
                     (rejected[n] = NoIssue <=> OwnIssue(n) = {NoIssue}
                                                /\ manifests[n].platformCompatible)

\* Propagation goes from S towards what is available in S.
Between(S) == Mfs(Active) \subseteq S /\ Available(S) \subseteq Mfs(Active)
RoundsFit ==
    /\ phase = "propagate" => Between(Sound(Disk)) \/ Between(Uncircled(Disk))
    /\ phase = "sort" => Mfs(Active) = Steady(Disk) \/ Mfs(Active) = Survivors(Disk)
    /\ phase = "done" => Mfs(Active) = Survivors(Disk)

\* The order so far is closed, each comes after what it follows, and nothing
\* else that could have come had a lower rank.
OrderFits ==
    phase \in {"sort", "done"} =>
        /\ Range(order) \subseteq Active
        /\ IsInjective(order)
        /\ \A i \in DOMAIN order : \A x \in Active :
               order[i] \in After(x) => \E j \in DOMAIN order : j < i /\ order[j] = x
        /\ \A i \in DOMAIN order : \A n \in Active :
               \/ Rank[order[i]] <= Rank[n]
               \/ \E j \in DOMAIN order : j < i /\ order[j] = n
               \/ \E x \in Active : n \in After(x) /\ \A j \in DOMAIN order : j < i => order[j] # x

Left == Active \ Range(order)
SortFits ==
    /\ phase = "sort" =>
           /\ \A n \in Active : indegree[n] = Cardinality({x \in Left : n \in After(x)})
           /\ ready = {n \in Left : indegree[n] = 0}
    /\ phase = "done" => Range(order) = Active

PlanInv ==
    /\ TypeOK
    /\ IsFiniteSet(Names)
    /\ CollectFits
    /\ OwnFits
    /\ RoundsFit
    /\ OrderFits
    /\ SortFits
    /\ IssuesGenuine

-----------------------------------------------------------------------------
LEMMA SeqGrows ==
  ASSUME NEW S, NEW T, S \subseteq T, NEW s \in Seq(S)
  PROVE  s \in Seq(T)
<1>1. s \in [1 .. Len(s) -> T] /\ Len(s) \in Nat
  OBVIOUS
<1>. QED BY <1>1

\* The least name of a set, as the code's ordered containers have it in front.
LEMMA FirstIs ==
  ASSUME NEW S \in SUBSET Mods, S # {}
  PROVE  /\ First(S) \in S
         /\ \A m \in S : Rank[First(S)] <= Rank[m]
<1>. DEFINE Ranks == {Rank[m] : m \in S}
<1>1. Ranks \in SUBSET Nat /\ Ranks # {}
  BY RankAssumption
<1>2. PICK k \in Ranks : \A j \in Ranks : k <= j
  BY <1>1, LeastNumber
<1>3. \E n \in S : \A m \in S : Rank[n] <= Rank[m]
  BY <1>2
<1>. QED BY <1>3 DEF First

LEMMA RejectIs ==
  ASSUME TypeOK, NEW S, NEW issue \in Issues, Reject(S, issue)
  PROVE  /\ rejected' \in [Mods -> Issues \cup {NoIssue}]
         /\ \A n \in Mods : rejected'[n] = IF n \in S /\ rejected[n] = NoIssue
                                           THEN issue ELSE rejected[n]
         /\ UNCHANGED candidates => Active' = Active \ S
<1>1. /\ rejected' \in [Mods -> Issues \cup {NoIssue}]
      /\ \A n \in Mods : rejected'[n] = IF n \in S /\ rejected[n] = NoIssue
                                        THEN issue ELSE rejected[n]
  BY DEF Reject, TypeOK
<1>2. issue # NoIssue
  BY DEF Issues, NoIssue
<1>3. candidates \subseteq Mods
  BY DEF TypeOK, Names
<1>. QED BY <1>1, <1>2, <1>3 DEF Active

\* What a mod was told of itself stays so while later loops reject others.
LEMMA OwnStaysGenuine ==
  ASSUME IssuesGenuine, NEW S, S \subseteq candidates, UNCHANGED <<manifests, candidates>>,
         NEW issue \in {"Conflict", "DependencyUnavailable", "DependencyCycle"},
         \A n \in Mods : rejected'[n] = IF n \in S /\ rejected[n] = NoIssue
                                        THEN issue ELSE rejected[n]
  PROVE  \A n \in Names' : (rejected'[n] # NoIssue => n \in candidates') /\ OwnGenuine(n)'
<1>1. Names' = Names
  BY DEF Names
<1>. SUFFICES ASSUME NEW n \in Names
              PROVE  (rejected'[n] # NoIssue => n \in candidates) /\ OwnGenuine(n)'
  BY <1>1
<1>2. n \in Mods
  BY DEF Names
<1>3. (rejected[n] # NoIssue => n \in candidates) /\ OwnGenuine(n)
  BY DEF IssuesGenuine
<1>4. CASE rejected'[n] = rejected[n]
  BY <1>1, <1>3, <1>4 DEF OwnGenuine
<1>5. CASE n \in S /\ rejected'[n] = issue
  BY <1>1, <1>5 DEF OwnGenuine
<1>. QED BY <1>2, <1>4, <1>5

LEMMA InitPlan == Init => PlanInv
<1>. SUFFICES ASSUME Init PROVE PlanInv
  OBVIOUS
<1>1. Names = {}
  BY DEF Init, Names
<1>2. TypeOK
  BY <1>1 DEF Init, TypeOK
<1>3. CollectFits /\ OwnFits /\ RoundsFit /\ OrderFits /\ SortFits
  BY DEF Init, CollectFits, OwnFits, RoundsFit, OrderFits, SortFits
<1>4. IssuesGenuine
  BY <1>1 DEF IssuesGenuine, OwnGenuine
<1>. QED BY <1>1, <1>2, <1>3, <1>4, FS_EmptySet DEF PlanInv

LEMMA ReadStep ==
  ASSUME PlanInv, NEW mf \in Manifests, Read(mf)
  PROVE  PlanInv'
<1>0. TypeOK /\ IsFiniteSet(Names) /\ CollectFits /\ OwnFits
  BY DEF PlanInv
<1>1. /\ phase = "read" /\ phase' = "read" /\ mf.name \notin Names
      /\ manifests' = [manifests EXCEPT ![mf.name] = mf]
      /\ UNCHANGED <<pending, candidates, rejected, indegree, ready, order, lifecycle>>
  BY DEF Read, sortVars
<1>2. mf.name \in Mods /\ mf # NoManifest
  BY ManifestAssumption, RankAssumption DEF Manifest
<1>3. Names' = Names \cup {mf.name}
  BY <1>0, <1>1, <1>2 DEF Names, TypeOK
<1>4. TypeOK'
  <2>1. manifests' \in [Mods -> Manifests \cup {NoManifest}]
    BY <1>0, <1>1, <1>2 DEF TypeOK
  <2>2. \A n \in Names' : manifests'[n].name = n
    BY <1>0, <1>1, <1>2, <1>3 DEF TypeOK, Names
  <2>3. order' \in Seq(Names')
    BY <1>0, <1>1, <1>3, SeqGrows DEF TypeOK
  <2>4. ready' \subseteq Names' /\ pending' \subseteq Names' /\ candidates' \subseteq Names'
    BY <1>0, <1>1, <1>3 DEF TypeOK
  <2>5. lifecycle' \in [Mods -> SUBSET (Names')]
    BY <1>0, <1>1, <1>3 DEF TypeOK
  <2>. QED BY <1>0, <1>1, <2>1, <2>2, <2>3, <2>4, <2>5 DEF TypeOK
<1>5. IsFiniteSet(Names')
  BY <1>0, <1>3, FS_AddElement
<1>6. candidates' = {} /\ pending' = {} /\ \A n \in Mods : rejected'[n] = NoIssue
  BY <1>0, <1>1 DEF CollectFits, OwnFits
<1>7. CollectFits' /\ OwnFits' /\ RoundsFit' /\ OrderFits' /\ SortFits'
  BY <1>1, <1>6 DEF CollectFits, OwnFits, RoundsFit, OrderFits, SortFits
<1>8. IssuesGenuine'
  BY <1>6 DEF IssuesGenuine, OwnGenuine, Names, NoIssue
<1>. QED BY <1>4, <1>5, <1>7, <1>8 DEF PlanInv

\* Once resolve runs, the disk stays, and with it all that the contract says.
LEMMA SameDisk ==
  ASSUME manifests' = manifests
  PROVE  /\ Names' = Names /\ Disk' = Disk
         /\ \A S : Mfs(S) = {manifests'[n] : n \in S}
BY DEF Names, Disk, Mfs

LEMMA ResolveStep ==
  ASSUME PlanInv, Resolve
  PROVE  PlanInv'
<1>0. TypeOK /\ IsFiniteSet(Names) /\ CollectFits /\ OwnFits
  BY DEF PlanInv
<1>1. /\ phase = "read" /\ phase' = "collect"
      /\ pending' = {n \in Names : ~ manifests[n].passive}
      /\ UNCHANGED <<manifests, candidates, rejected, indegree, ready, order, lifecycle>>
  BY DEF Resolve, sortVars
<1>2. Names' = Names /\ Disk' = Disk
  BY <1>1, SameDisk
<1>3. TypeOK'
  BY <1>0, <1>1, <1>2 DEF TypeOK
<1>4. candidates = {} /\ \A n \in Mods : rejected[n] = NoIssue
  BY <1>0, <1>1 DEF CollectFits, OwnFits
<1>5. Mfs(pending') \subseteq Candidates(Disk)
  BY <1>0, <1>1, DiskFacts, CandidatesClosed DEF Mfs
<1>6. CollectFits'
  <2>1. candidates' \cup pending' = pending'
    BY <1>1, <1>4
  <2>2. (Mfs(candidates \cup pending) \subseteq Candidates(Disk))'
    BY <1>1, <1>2, <1>5, <2>1 DEF Mfs
  <2>. QED BY <1>1, <1>2, <1>4, <2>2 DEF CollectFits
<1>7. OwnFits' /\ RoundsFit' /\ OrderFits' /\ SortFits'
  BY <1>1, <1>4 DEF OwnFits, RoundsFit, OrderFits, SortFits
<1>8. IssuesGenuine'
  BY <1>1, <1>4 DEF IssuesGenuine, OwnGenuine, Names, NoIssue
<1>. QED BY <1>0, <1>2, <1>3, <1>6, <1>7, <1>8 DEF PlanInv

LEMMA OwnIssueType ==
  ASSUME NEW n
  PROVE  OwnIssue(n) \subseteq {"MissingDependency", "IncompatibleDependencyVersion", NoIssue}
BY DEF OwnIssue

LEMMA VisitStep ==
  ASSUME PlanInv, Visit
  PROVE  PlanInv'
<1>0. TypeOK /\ IsFiniteSet(Names) /\ CollectFits /\ OwnFits
  BY DEF PlanInv
<1>. DEFINE n == First(pending)
            found == FoundIn(manifests[n].dependencies, Names)
                     \cup FoundIn(manifests[n].optionalDependencies, Names)
<1>1. /\ phase = "collect" /\ phase' = "collect" /\ pending # {}
      /\ UNCHANGED <<manifests, indegree, ready, order, lifecycle>>
  BY DEF Visit, sortVars
<1>2. Names' = Names /\ Disk' = Disk
  BY <1>1, SameDisk
<1>3. n \in pending /\ n \in Names /\ n \in Mods
  BY <1>0, <1>1, FirstIs DEF TypeOK, Names
<1>4. \/ /\ n \in candidates /\ pending' = pending \ {n}
         /\ UNCHANGED <<candidates, rejected>>
      \/ /\ n \notin candidates /\ candidates' = candidates \cup {n}
         /\ pending' = (pending \ {n}) \cup found
         /\ \E i \in OwnIssue(n) : Reject({n}, i)
  BY DEF Visit
<1>5. found \subseteq Names /\ Mfs(found) = Wanted(Disk, manifests[n])
  <2>. DEFINE both == manifests[n].dependencies \cup manifests[n].optionalDependencies
  <2>1. found = FoundIn(both, Names)
    BY FoundUnion
  <2>2. Names \in SUBSET Names
    OBVIOUS
  <2>3. FoundIn(both, Names) \subseteq Names /\ Targets(Mfs(Names), both) = Mfs(FoundIn(both, Names))
    BY <1>0, <2>2, FoundIs, TargetsAreFound
  <2>4. Wanted(Disk, manifests[n]) = Targets(Mfs(Names), both)
    BY <1>0, DiskFacts DEF Wanted
  <2>. QED BY <2>1, <2>3, <2>4
<1>. HIDE DEF n, found
<1>6. candidates' \cup pending' \subseteq candidates \cup pending \cup found
  BY <1>3, <1>4
<1>7. /\ rejected' \in [Mods -> Issues \cup {NoIssue}]
      /\ \A m \in Mods : rejected'[m] \in IF m \in candidates' THEN OwnIssue(m) ELSE {NoIssue}
  <2>1. \A m \in Mods : rejected[m] \in IF m \in candidates THEN OwnIssue(m) ELSE {NoIssue}
    BY <1>0, <1>1 DEF OwnFits
  <2>2. CASE UNCHANGED <<candidates, rejected>>
    BY <1>0, <2>1, <2>2 DEF TypeOK
  <2>3. CASE n \notin candidates
    <3>1. PICK i \in OwnIssue(n) : Reject({n}, i)
      BY <1>4, <2>3
    <3>2. candidates' = candidates \cup {n}
      BY <1>4, <2>3
    <3>3. i \in Issues \cup {NoIssue}
      BY OwnIssueType DEF Issues
    <3>4. rejected[n] = NoIssue
      BY <1>3, <2>1, <2>3
    <3>5. /\ rejected' \in [Mods -> Issues \cup {NoIssue}]
          /\ \A m \in Mods : rejected'[m] = IF m = n THEN i ELSE rejected[m]
      BY <1>0, <3>1, <3>3, <3>4 DEF Reject, TypeOK
    <3>. QED BY <2>1, <3>1, <3>2, <3>5
  <2>. QED BY <1>4, <2>2, <2>3
<1>8. \A m \in Mods : OwnIssue(m)' = OwnIssue(m)
  BY <1>1, <1>2 DEF OwnIssue, FoundIn
<1>9. TypeOK'
  <2>1. candidates' \subseteq Names /\ pending' \subseteq Names
    BY <1>0, <1>3, <1>4, <1>5 DEF TypeOK
  <2>. QED BY <1>0, <1>1, <1>2, <1>7, <2>1 DEF TypeOK
<1>10. CollectFits'
  <2>. DEFINE Found(m) == FoundIn(manifests[m].dependencies, Names)
                          \cup FoundIn(manifests[m].optionalDependencies, Names)
  <2>1. /\ \A m \in Names : ~ manifests[m].passive => m \in candidates \cup pending
        /\ \A m \in candidates : Found(m) \subseteq candidates \cup pending
        /\ Mfs(candidates \cup pending) \subseteq Candidates(Disk)
    BY <1>0, <1>1 DEF CollectFits
  <2>2. found = Found(n)
    BY DEF found
  <2>3. \A m : Found(m)' = Found(m)
    BY <1>1, <1>2 DEF FoundIn
  <2>4. manifests[n] \in Candidates(Disk)
    BY <1>3, <2>1 DEF Mfs
  <2>5. Mfs(found) \subseteq Candidates(Disk)
    BY <1>5, <2>4, CandidatesClosed
  <2>6. Mfs(candidates' \cup pending') \subseteq Candidates(Disk)
    BY <1>6, <2>1, <2>5 DEF Mfs
  <2>7. (Mfs(candidates \cup pending) \subseteq Candidates(Disk))'
    BY <1>1, <1>2, <2>6 DEF Mfs
  <2>. HIDE DEF Found
  <2>8. candidates \cup pending \subseteq candidates' \cup pending'
    BY <1>3, <1>4
  <2>9. \A m \in candidates' : Found(m) \subseteq candidates' \cup pending'
    BY <1>4, <2>1, <2>2, <2>8
  <2>10. \A m \in Names' : ~ manifests'[m].passive => m \in candidates' \cup pending'
    BY <1>1, <1>2, <2>1, <2>8
  <2>11. \A m \in candidates' : Found(m)' \subseteq candidates' \cup pending'
    BY <2>3, <2>9
  <2>. QED BY <1>1, <2>7, <2>10, <2>11 DEF CollectFits, Found
<1>11. OwnFits'
  BY <1>1, <1>7, <1>8 DEF OwnFits
<1>12. RoundsFit' /\ OrderFits' /\ SortFits'
  BY <1>1 DEF RoundsFit, OrderFits, SortFits
<1>13. IssuesGenuine'
  <2>1. \A m \in Mods : rejected'[m] \notin {"Conflict", "DependencyUnavailable", "DependencyCycle"}
    BY <1>7, OwnIssueType DEF NoIssue
  <2>2. \A m \in Names : rejected'[m] # NoIssue => m \in candidates'
    BY <1>7 DEF Names
  <2>3. ASSUME NEW m \in Names
        PROVE  OwnGenuine(m)'
    <3>1. rejected'[m] = NoIssue \/ rejected'[m] \in OwnIssue(m)
      BY <1>7 DEF Names
    <3>. QED BY <1>1, <1>2, <3>1 DEF OwnGenuine, OwnIssue, FoundIn, NoIssue
  <2>. QED BY <1>2, <2>1, <2>2, <2>3 DEF IssuesGenuine, Names
<1>. QED BY <1>0, <1>2, <1>9, <1>10, <1>11, <1>12, <1>13 DEF PlanInv

LEMMA VisitDoneStep ==
  ASSUME PlanInv, VisitDone
  PROVE  PlanInv'
<1>0. TypeOK /\ IsFiniteSet(Names) /\ CollectFits /\ OwnFits /\ IssuesGenuine
  BY DEF PlanInv
<1>1. /\ phase = "collect" /\ phase' = "platform" /\ pending = {}
      /\ UNCHANGED <<manifests, pending, candidates, rejected, indegree, ready, order, lifecycle>>
  BY DEF VisitDone, sortVars
<1>2. Names' = Names /\ Disk' = Disk
  BY <1>1, SameDisk
<1>3. TypeOK'
  BY <1>0, <1>1, <1>2 DEF TypeOK
<1>4. Mfs(candidates) = Candidates(Disk)
  <2>1. /\ \A m \in Names : ~ manifests[m].passive => m \in candidates
        /\ \A m \in candidates : FoundIn(manifests[m].dependencies, Names)
                                 \cup FoundIn(manifests[m].optionalDependencies, Names)
                                 \subseteq candidates
        /\ Mfs(candidates) \subseteq Candidates(Disk)
    <3>1. candidates \cup pending = candidates
      BY <1>1
    <3>. QED BY <1>0, <1>1, <3>1 DEF CollectFits
  <2>2. Mfs(candidates) \in SUBSET Disk
    BY <1>0, DiskFacts DEF TypeOK
  <2>3. \A m \in Disk : ~ m.passive => m \in Mfs(candidates)
    BY <1>0, <2>1, DiskFacts DEF Mfs
  <2>4. \A m \in Mfs(candidates) : Wanted(Disk, m) \subseteq Mfs(candidates)
    <3>. SUFFICES ASSUME NEW n \in candidates
                  PROVE  Wanted(Disk, manifests[n]) \subseteq Mfs(candidates)
      BY DEF Mfs
    <3>. DEFINE both == manifests[n].dependencies \cup manifests[n].optionalDependencies
    <3>1. FoundIn(both, Names) \subseteq candidates
      BY <2>1, FoundUnion
    <3>2. Names \in SUBSET Names
      OBVIOUS
    <3>3. Targets(Mfs(Names), both) = Mfs(FoundIn(both, Names))
      BY <1>0, <3>2, TargetsAreFound
    <3>4. Wanted(Disk, manifests[n]) = Targets(Mfs(Names), both)
      BY <1>0, DiskFacts DEF Wanted
    <3>. QED BY <3>1, <3>3, <3>4 DEF Mfs
  <2>. QED BY <2>1, <2>2, <2>3, <2>4, CandidatesLeast
<1>5. CollectFits'
  BY <1>1, <1>2, <1>4 DEF CollectFits, Mfs
<1>6. \A m \in Mods : OwnIssue(m)' = OwnIssue(m)
  BY <1>1, <1>2 DEF OwnIssue, FoundIn
<1>7. OwnFits'
  BY <1>0, <1>1, <1>6 DEF OwnFits
<1>8. RoundsFit' /\ OrderFits' /\ SortFits'
  BY <1>1 DEF RoundsFit, OrderFits, SortFits
<1>9. IssuesGenuine'
  BY <1>0, <1>1, <1>2 DEF IssuesGenuine, OwnGenuine, Active
<1>. QED BY <1>0, <1>2, <1>3, <1>5, <1>7, <1>8, <1>9 DEF PlanInv

\* A mod has no issue of its own if what it requires is on disk as declared.
LEMMA OwnIssueIs ==
  ASSUME NEW n
  PROVE  /\ \/ OwnIssue(n) = {NoIssue}
            \/ NoIssue \notin OwnIssue(n)
         /\ OwnIssue(n) = {NoIssue} <=>
               \A d \in manifests[n].dependencies :
                   d.name \in Names /\ MatchesDependency(manifests[d.name], d)
<1>. DEFINE deps    == manifests[n].dependencies
            missing == \E d \in deps : d.name \notin Names
            wrong   == \E d \in deps : d.name \in Names /\ d.name \notin FoundIn({d}, Names)
<1>1. \A d \in deps : d.name \in FoundIn({d}, Names)
                      <=> d.name \in Names /\ MatchesDependency(manifests[d.name], d)
  BY DEF FoundIn
<1>2. (~ missing /\ ~ wrong) <=>
         \A d \in deps : d.name \in Names /\ MatchesDependency(manifests[d.name], d)
  BY <1>1
<1>3. OwnIssue(n) = IF missing \/ wrong
                    THEN {i \in Issues : \/ i = "MissingDependency" /\ missing
                                         \/ i = "IncompatibleDependencyVersion" /\ wrong}
                    ELSE {NoIssue}
  BY DEF OwnIssue
<1>4. NoIssue \notin Issues
  BY DEF Issues, NoIssue
<1>. HIDE DEF missing, wrong
<1>5. CASE missing \/ wrong
  BY <1>2, <1>3, <1>4, <1>5
<1>6. CASE ~ (missing \/ wrong)
  BY <1>2, <1>3, <1>6
<1>. QED BY <1>5, <1>6

LEMMA SoundIs ==
  ASSUME TypeOK, Mfs(candidates) = Candidates(Disk), NEW n \in candidates
  PROVE  manifests[n] \in Sound(Disk) <=>
            /\ OwnIssue(n) = {NoIssue}
            /\ manifests[n].platformCompatible
            /\ FoundIn(manifests[n].conflicts, candidates) = {}
<1>. DEFINE m == manifests[n]
<1>1. m \in Candidates(Disk)
  BY DEF Mfs
<1>2. OwnIssue(n) = {NoIssue} <=>
         \A d \in m.dependencies : \E t \in Disk : t.name = d.name /\ MatchesDependency(t, d)
  <2>1. \A d : (d.name \in Names /\ MatchesDependency(manifests[d.name], d))
               <=> \E t \in Disk : t.name = d.name /\ MatchesDependency(t, d)
    BY DiskFacts
  <2>. QED BY <2>1, OwnIssueIs
<1>3. FoundIn(m.conflicts, candidates) = {} <=> Targets(Candidates(Disk), m.conflicts) = {}
  <2>1. Targets(Mfs(candidates), m.conflicts) = Mfs(FoundIn(m.conflicts, candidates))
    BY TargetsAreFound DEF TypeOK
  <2>2. \A S : Mfs(S) = {} <=> S = {}
    BY DEF Mfs
  <2>. HIDE DEF m
  <2>. QED BY <2>1, <2>2
<1>. HIDE DEF m
<1>4. m \in Sound(Disk) <=>
         /\ \A d \in m.dependencies : \E t \in Disk : t.name = d.name /\ MatchesDependency(t, d)
         /\ m.platformCompatible
         /\ Targets(Candidates(Disk), m.conflicts) = {}
  BY <1>1 DEF Sound, SelfRejected
<1>. QED BY <1>2, <1>3, <1>4 DEF m

LEMMA CheckPlatformStep ==
  ASSUME PlanInv, CheckPlatform
  PROVE  PlanInv'
<1>0. TypeOK /\ IsFiniteSet(Names) /\ CollectFits /\ OwnFits /\ IssuesGenuine
  BY DEF PlanInv
<1>. DEFINE S == {n \in candidates : ~ manifests[n].platformCompatible}
<1>1. /\ phase = "platform" /\ phase' = "conflict"
      /\ Reject(S, "IncompatiblePlatform")
      /\ UNCHANGED <<manifests, pending, candidates, indegree, ready, order, lifecycle>>
  BY DEF CheckPlatform, sortVars
<1>2. Names' = Names /\ Disk' = Disk
  BY <1>1, SameDisk
<1>3. "IncompatiblePlatform" \in Issues
  BY DEF Issues
<1>. HIDE DEF S
<1>4. /\ rejected' \in [Mods -> Issues \cup {NoIssue}]
      /\ \A n \in Mods : rejected'[n] = IF n \in S /\ rejected[n] = NoIssue
                                        THEN "IncompatiblePlatform" ELSE rejected[n]
  BY <1>0, <1>1, <1>3, RejectIs
<1>5. TypeOK'
  BY <1>0, <1>1, <1>2, <1>4 DEF TypeOK
<1>6. CollectFits'
  BY <1>0, <1>1, <1>2 DEF CollectFits, Mfs
<1>7. \A n \in Mods : rejected[n] \in IF n \in candidates THEN OwnIssue(n) ELSE {NoIssue}
  BY <1>0, <1>1 DEF OwnFits
<1>8. \A n \in Mods : rejected'[n] \notin {"Conflict", "DependencyUnavailable", "DependencyCycle"}
  BY <1>4, <1>7, OwnIssueType DEF NoIssue
<1>9. \A n \in candidates : rejected'[n] = NoIssue <=>
         OwnIssue(n) = {NoIssue} /\ manifests[n].platformCompatible
  <2>. TAKE n \in candidates
  <2>1. n \in Mods
    BY <1>0 DEF TypeOK, Names
  <2>2. rejected[n] = NoIssue <=> OwnIssue(n) = {NoIssue}
    BY <1>7, <2>1, OwnIssueIs
  <2>3. n \in S <=> ~ manifests[n].platformCompatible
    BY DEF S
  <2>4. "IncompatiblePlatform" # NoIssue
    BY DEF NoIssue
  <2>. QED BY <1>4, <2>1, <2>2, <2>3, <2>4
<1>10. \A n \in Mods : OwnIssue(n)' = OwnIssue(n)
  BY <1>1, <1>2 DEF OwnIssue, FoundIn
<1>11. OwnFits'
  BY <1>1, <1>8, <1>9, <1>10 DEF OwnFits
<1>12. RoundsFit' /\ OrderFits' /\ SortFits'
  BY <1>1 DEF RoundsFit, OrderFits, SortFits
<1>13. IssuesGenuine'
  <2>1. ASSUME NEW n \in Names
        PROVE  (rejected'[n] # NoIssue => n \in candidates) /\ OwnGenuine(n)'
    <3>1. n \in Mods /\ (rejected[n] # NoIssue => n \in candidates) /\ OwnGenuine(n)
      BY <1>0 DEF IssuesGenuine, Names
    <3>2. CASE rejected'[n] = rejected[n]
      BY <1>1, <1>2, <3>1, <3>2 DEF OwnGenuine
    <3>3. CASE n \in S /\ rejected'[n] = "IncompatiblePlatform"
      BY <1>1, <3>3 DEF OwnGenuine, S
    <3>. QED BY <1>4, <3>1, <3>2, <3>3
  <2>. QED BY <1>1, <1>2, <1>8, <2>1 DEF IssuesGenuine, Names
<1>. QED BY <1>0, <1>2, <1>5, <1>6, <1>11, <1>12, <1>13 DEF PlanInv

LEMMA CheckConflictsStep ==
  ASSUME PlanInv, CheckConflicts
  PROVE  PlanInv'
<1>0. TypeOK /\ IsFiniteSet(Names) /\ CollectFits /\ OwnFits /\ IssuesGenuine
  BY DEF PlanInv
<1>. DEFINE S == {n \in candidates : FoundIn(manifests[n].conflicts, candidates) # {}}
<1>1. /\ phase = "conflict" /\ phase' = "propagate"
      /\ Reject(S, "Conflict")
      /\ UNCHANGED <<manifests, pending, candidates, indegree, ready, order, lifecycle>>
  BY DEF CheckConflicts, sortVars
<1>2. Names' = Names /\ Disk' = Disk
  BY <1>1, SameDisk
<1>3. "Conflict" \in Issues
  BY DEF Issues
<1>4. \A n \in candidates : n \in S <=> FoundIn(manifests[n].conflicts, candidates) # {}
  OBVIOUS
<1>a. S \subseteq candidates
  OBVIOUS
<1>. HIDE DEF S
<1>5. /\ rejected' \in [Mods -> Issues \cup {NoIssue}]
      /\ \A n \in Mods : rejected'[n] = IF n \in S /\ rejected[n] = NoIssue
                                        THEN "Conflict" ELSE rejected[n]
      /\ Active' = Active \ S
  BY <1>0, <1>1, <1>3, RejectIs
<1>6. TypeOK'
  BY <1>0, <1>1, <1>2, <1>5 DEF TypeOK
<1>7. Mfs(candidates) = Candidates(Disk)
  BY <1>0, <1>1 DEF CollectFits
<1>8. CollectFits'
  BY <1>1, <1>2, <1>7 DEF CollectFits, Mfs
<1>9. OwnFits'
  BY <1>1 DEF OwnFits
<1>10. \A n \in candidates : n \in Active' <=> manifests[n] \in Sound(Disk)
  <2>. TAKE n \in candidates
  <2>1. n \in Active <=> OwnIssue(n) = {NoIssue} /\ manifests[n].platformCompatible
    BY <1>0, <1>1 DEF Active, OwnFits, TypeOK, Names
  <2>2. manifests[n] \in Sound(Disk) <=>
            /\ OwnIssue(n) = {NoIssue}
            /\ manifests[n].platformCompatible
            /\ FoundIn(manifests[n].conflicts, candidates) = {}
    BY <1>0, <1>7, SoundIs
  <2>. QED BY <1>4, <1>5, <2>1, <2>2
<1>11. {manifests[n] : n \in Active'} = Sound(Disk)
  <2>1. Sound(Disk) \subseteq {manifests[n] : n \in candidates}
    BY <1>7 DEF Sound, Mfs
  <2>2. Active' \subseteq candidates
    BY <1>5 DEF Active
  <2>. QED BY <1>10, <2>1, <2>2
<1>12. RoundsFit'
  <2>1. Mfs(Active)' = Sound(Disk)'
    BY <1>1, <1>2, <1>11 DEF Mfs
  <2>2. Available(Sound(Disk))' \subseteq Sound(Disk)'
    BY AvailableLargest
  <2>. QED BY <1>1, <2>1, <2>2 DEF RoundsFit, Between
<1>13. OrderFits' /\ SortFits'
  BY <1>1 DEF OrderFits, SortFits
<1>14. IssuesGenuine'
  <2>1. \A n \in Mods : rejected[n] \notin {"Conflict", "DependencyUnavailable", "DependencyCycle"}
    BY <1>0, <1>1 DEF OwnFits
  <2>2. ASSUME NEW n \in Names, rejected'[n] = "Conflict"
        PROVE  Targets(Candidates(Disk), manifests[n].conflicts) # {}
    <3>1. n \in S
      BY <1>5, <2>1, <2>2 DEF Names
    <3>2. n \in candidates /\ FoundIn(manifests[n].conflicts, candidates) # {}
      BY <1>4, <1>a, <3>1
    <3>3. Targets(Mfs(candidates), manifests[n].conflicts)
             = Mfs(FoundIn(manifests[n].conflicts, candidates))
      BY <1>0, TargetsAreFound DEF TypeOK
    <3>4. Mfs(FoundIn(manifests[n].conflicts, candidates)) # {}
      BY <3>2 DEF Mfs
    <3>. QED BY <1>7, <3>3, <3>4
  <2>3. \A n \in Mods : rejected'[n] \notin {"DependencyUnavailable", "DependencyCycle"}
    BY <1>5, <2>1
  <2>4. \A n \in Names' : (rejected'[n] # NoIssue => n \in candidates') /\ OwnGenuine(n)'
    BY <1>0, <1>1, <1>a, <1>5, OwnStaysGenuine
  <2>. QED BY <1>1, <1>2, <2>2, <2>3, <2>4 DEF IssuesGenuine, Names
<1>. QED BY <1>0, <1>2, <1>6, <1>8, <1>9, <1>12, <1>13, <1>14 DEF PlanInv

\* Whoever is found unsupported is not available, in whichever round.
LEMMA UnsupportedGoes ==
  ASSUME TypeOK, NEW S, Available(S) \subseteq Mfs(Active), NEW n \in Unsupported
  PROVE  manifests[n] \notin Available(S)
<1>. SUFFICES ASSUME manifests[n] \in Available(S) PROVE FALSE
  OBVIOUS
<1>1. PICK d \in manifests[n].dependencies : d.name \notin Active
  BY DEF Unsupported
<1>2. PICK t \in Available(S) : t.name = d.name
  BY AvailableLargest DEF Supported
<1>3. PICK k \in Active : t = manifests[k]
  BY <1>2 DEF Mfs
<1>. QED BY <1>1, <1>2, <1>3, ActiveNames DEF TypeOK

LEMMA PropagateStep ==
  ASSUME PlanInv, Propagate
  PROVE  PlanInv'
<1>0. TypeOK /\ IsFiniteSet(Names) /\ CollectFits /\ RoundsFit /\ IssuesGenuine
  BY DEF PlanInv
<1>1. /\ phase = "propagate" /\ phase' = "propagate"
      /\ UNCHANGED <<manifests, pending, candidates, indegree, ready, order, lifecycle>>
  BY DEF Propagate, sortVars
<1>2. PICK n \in Unsupported : Reject({n}, "DependencyUnavailable")
  BY DEF Propagate
<1>3. Names' = Names /\ Disk' = Disk
  BY <1>1, SameDisk
<1>4. /\ rejected' \in [Mods -> Issues \cup {NoIssue}]
      /\ \A m \in Mods : rejected'[m] = IF m = n /\ rejected[m] = NoIssue
                                        THEN "DependencyUnavailable" ELSE rejected[m]
      /\ Active' = Active \ {n}
  <2>1. "DependencyUnavailable" \in Issues
    BY DEF Issues
  <2>. QED BY <1>0, <1>1, <1>2, <2>1, RejectIs
<1>5. TypeOK'
  BY <1>0, <1>1, <1>3, <1>4 DEF TypeOK
<1>6. CollectFits'
  BY <1>0, <1>1, <1>3 DEF CollectFits, Mfs
<1>7. ASSUME NEW S, Between(S)
      PROVE  /\ {manifests[m] : m \in Active'} \subseteq S
             /\ Available(S) \subseteq {manifests[m] : m \in Active'}
  <2>1. manifests[n] \notin Available(S)
    BY <1>0, <1>7, UnsupportedGoes DEF Between
  <2>. QED BY <1>4, <1>7, <2>1 DEF Between, Mfs
<1>8. RoundsFit'
  <2>1. CASE Between(Sound(Disk))
    <3>1. Between(Sound(Disk))'
      BY <1>1, <1>3, <1>7, <2>1 DEF Between, Mfs
    <3>. QED BY <1>1, <3>1 DEF RoundsFit
  <2>2. CASE Between(Uncircled(Disk))
    <3>1. Between(Uncircled(Disk))'
      BY <1>1, <1>3, <1>7, <2>2 DEF Between, Mfs
    <3>. QED BY <1>1, <3>1 DEF RoundsFit
  <2>. QED BY <1>0, <1>1, <2>1, <2>2 DEF RoundsFit
<1>9. OwnFits' /\ OrderFits' /\ SortFits'
  BY <1>1 DEF OwnFits, OrderFits, SortFits
<1>10. IssuesGenuine'
  <2>1. ASSUME NEW m \in Names, rejected'[m] = "DependencyUnavailable"
        PROVE  \E d \in manifests[m].dependencies : d.name \notin Active'
    <3>1. CASE m = n
      BY <1>4, <3>1 DEF Unsupported
    <3>2. CASE m # n
      BY <1>0, <1>4, <2>1, <3>2 DEF IssuesGenuine, Names
    <3>. QED BY <3>1, <3>2
  <2>2. ASSUME NEW m \in Names, rejected'[m] \in {"Conflict", "DependencyCycle"}
        PROVE  rejected[m] = rejected'[m]
    BY <1>4, <2>2 DEF Names
  <2>3. \A m \in Names' : (rejected'[m] # NoIssue => m \in candidates') /\ OwnGenuine(m)'
    <3>1. {n} \subseteq candidates
      BY DEF Unsupported, Active
    <3>2. \A m \in Mods : rejected'[m] = IF m \in {n} /\ rejected[m] = NoIssue
                                         THEN "DependencyUnavailable" ELSE rejected[m]
      BY <1>4
    <3>. QED BY <1>0, <1>1, <3>1, <3>2, OwnStaysGenuine
  <2>. QED BY <1>0, <1>1, <1>3, <2>1, <2>2, <2>3 DEF IssuesGenuine
<1>. QED BY <1>0, <1>3, <1>5, <1>6, <1>8, <1>9, <1>10 DEF PlanInv

LEMMA SurvivorsAre ==
  ASSUME NEW disk
  PROVE  Survivors(disk) = Available(Uncircled(disk))
BY DEF Survivors, Uncircled, Steady, Sound

LEMMA BuildEdgesStep ==
  ASSUME PlanInv, BuildEdges
  PROVE  PlanInv'
<1>0. TypeOK /\ IsFiniteSet(Names) /\ CollectFits /\ RoundsFit /\ IssuesGenuine
  BY DEF PlanInv
<1>1. /\ phase = "propagate" /\ phase' = "sort" /\ Unsupported = {}
      /\ indegree' = [n \in Mods |-> Cardinality({x \in Active : n \in After(x)})]
      /\ ready' = {n \in Active : indegree'[n] = 0}
      /\ order' = <<>>
      /\ UNCHANGED <<manifests, pending, candidates, rejected, lifecycle>>
  BY DEF BuildEdges
<1>2. /\ Names' = Names /\ Disk' = Disk /\ Active' = Active
      /\ \A x : After(x)' = After(x)
  BY <1>1, SameDisk DEF Active, After, FoundIn
<1>3. Active \in SUBSET Names /\ \A n : {x \in Active : n \in After(x)} \in SUBSET Names
  BY <1>0, ActiveNames
<1>4. \A n : Cardinality({x \in Active : n \in After(x)}) \in Nat
  BY <1>0, <1>3, FS_Subset, FS_CardinalityType
<1>5. TypeOK'
  <2>1. order' \in Seq(Names)
    BY <1>1
  <2>2. indegree' \in [Mods -> Nat]
    BY <1>1, <1>4
  <2>3. ready' \subseteq Names
    BY <1>1, <1>3
  <2>. QED BY <1>0, <1>1, <1>2, <2>1, <2>2, <2>3 DEF TypeOK
<1>6. CollectFits'
  BY <1>0, <1>1, <1>2 DEF CollectFits, Mfs
<1>7. OwnFits'
  BY <1>1 DEF OwnFits
<1>8. RoundsFit'
  <2>1. Supported(Mfs(Active))
    <3>. SUFFICES ASSUME NEW n \in Active, NEW d \in manifests[n].dependencies
                  PROVE  \E t \in Mfs(Active) : t.name = d.name
      BY DEF Supported, Mfs
    <3>1. d.name \in Active
      BY <1>1 DEF Unsupported
    <3>. QED BY <1>0, <1>3, <3>1 DEF Mfs, TypeOK
  <2>2. ASSUME NEW S, Between(S)
        PROVE  Mfs(Active) = Available(S)
    BY <2>1, <2>2, AvailableLargest DEF Between
  <2>3. Mfs(Active) = Steady(Disk) \/ Mfs(Active) = Survivors(Disk)
    BY <1>0, <1>1, <2>2, SurvivorsAre DEF RoundsFit, Steady
  <2>4. Mfs(Active)' = Mfs(Active)
    BY <1>1, <1>2 DEF Mfs
  <2>5. Steady(Disk)' = Steady(Disk) /\ Survivors(Disk)' = Survivors(Disk)
    BY <1>2
  <2>. QED BY <1>1, <2>3, <2>4, <2>5 DEF RoundsFit
<1>9. OrderFits'
  BY <1>1 DEF OrderFits, Range, IsInjective
<1>10. SortFits'
  <2>1. Range(order') = {}
    BY <1>1 DEF Range
  <2>2. Left' = Active
    BY <1>2, <2>1 DEF Left
  <2>3. \A n \in Active : indegree'[n] = Cardinality({x \in Left' : n \in After(x)'})
    BY <1>0, <1>1, <1>2, <2>2, ActiveNames DEF Names
  <2>4. ready' = {n \in Left' : indegree'[n] = 0}
    BY <1>1, <2>2
  <2>. QED BY <1>1, <1>2, <2>3, <2>4 DEF SortFits
<1>11. IssuesGenuine'
  BY <1>0, <1>1, <1>2 DEF IssuesGenuine, OwnGenuine
<1>. QED BY <1>0, <1>2, <1>5, <1>6, <1>7, <1>8, <1>9, <1>10, <1>11 DEF PlanInv

-----------------------------------------------------------------------------
(***************************************************************************)
(* The sort.                                                               *)
(***************************************************************************)
LEMMA AppendIs ==
  ASSUME NEW S, NEW s \in Seq(S), NEW n \in S
  PROVE  /\ Append(s, n) \in Seq(S)
         /\ Len(s) \in Nat /\ DOMAIN s = 1 .. Len(s)
         /\ DOMAIN Append(s, n) = 1 .. Len(s) + 1
         /\ \A i \in DOMAIN s : Append(s, n)[i] = s[i]
         /\ Append(s, n)[Len(s) + 1] = n
         /\ Range(Append(s, n)) = Range(s) \cup {n}
<1>. DEFINE t == Append(s, n)
<1>1. /\ t \in Seq(S)
      /\ Len(s) \in Nat /\ DOMAIN s = 1 .. Len(s)
      /\ DOMAIN t = 1 .. Len(s) + 1
      /\ \A i \in DOMAIN s : t[i] = s[i]
      /\ t[Len(s) + 1] = n
  OBVIOUS
<1>. HIDE DEF t
<1>2. \A i \in DOMAIN t : i \in DOMAIN s \/ i = Len(s) + 1
  BY <1>1
<1>3. \A i \in DOMAIN s : i \in DOMAIN t
  BY <1>1
<1>4. Len(s) + 1 \in DOMAIN t
  BY <1>1
<1>5. Range(t) = Range(s) \cup {n}
  BY <1>1, <1>2, <1>3, <1>4 DEF Range
<1>. QED BY <1>1, <1>5 DEF t

\* What is still to come before m.
Before(m) == {x \in Left : m \in After(x)}

\* The least ready name: all it must follow is placed.
LEMMA ReadyIs ==
  ASSUME PlanInv, phase = "sort"
  PROVE  /\ \A m \in Active : /\ IsFiniteSet(Before(m)) /\ Cardinality(Before(m)) \in Nat
                              /\ indegree[m] = Cardinality(Before(m))
                              /\ indegree[m] = 0 <=> Before(m) = {}
         /\ ready = {m \in Left : indegree[m] = 0}
         /\ ready \subseteq Mods
<1>0. TypeOK /\ IsFiniteSet(Names) /\ SortFits
  BY DEF PlanInv
<1>1. \A m : Before(m) \in SUBSET Names
  BY <1>0, ActiveNames DEF Before, Left
<1>2. \A m : IsFiniteSet(Before(m)) /\ Cardinality(Before(m)) \in Nat
             /\ (Cardinality(Before(m)) = 0 <=> Before(m) = {})
  BY <1>0, <1>1, FS_Subset, FS_CardinalityType, FS_EmptySet
<1>3. /\ \A m \in Active : indegree[m] = Cardinality(Before(m))
      /\ ready = {m \in Left : indegree[m] = 0}
  BY <1>0 DEF SortFits, Before
<1>4. ready \subseteq Mods
  BY <1>0 DEF TypeOK, Names
<1>. QED BY <1>2, <1>3, <1>4

LEMMA TakeStep ==
  ASSUME PlanInv, Take
  PROVE  PlanInv'
<1>0. TypeOK /\ IsFiniteSet(Names) /\ CollectFits /\ RoundsFit /\ OrderFits /\ IssuesGenuine
  BY DEF PlanInv
<1>. DEFINE n == First(ready)
<1>1. /\ phase = "sort" /\ phase' = "sort" /\ ready # {}
      /\ order' = Append(order, n)
      /\ indegree' = [m \in Mods |-> IF m \in After(n) THEN indegree[m] - 1 ELSE indegree[m]]
      /\ ready' = (ready \ {n}) \cup {m \in After(n) : indegree[m] = 1}
      /\ UNCHANGED <<manifests, pending, candidates, rejected, lifecycle>>
  BY DEF Take
<1>2. /\ Names' = Names /\ Disk' = Disk /\ Active' = Active
      /\ \A x : After(x)' = After(x)
  BY <1>1, SameDisk DEF Active, After, FoundIn
<1>3. /\ \A m \in Active : /\ IsFiniteSet(Before(m)) /\ Cardinality(Before(m)) \in Nat
                           /\ indegree[m] = Cardinality(Before(m))
                           /\ indegree[m] = 0 <=> Before(m) = {}
      /\ ready = {m \in Left : indegree[m] = 0}
      /\ ready \subseteq Mods
  BY <1>1, ReadyIs
<1>4. n \in ready /\ \A m \in ready : Rank[n] <= Rank[m]
  BY <1>1, <1>3, FirstIs
<1>. HIDE DEF n
<1>5. /\ n \in Left /\ n \in Active /\ n \notin Range(order) /\ n \in Names
      /\ Before(n) = {} /\ indegree[n] = 0
  BY <1>0, <1>3, <1>4, ActiveNames DEF Left
<1>6. \A x \in Active : n \in After(x) => x \in Range(order)
  BY <1>5 DEF Before, Left
<1>7. /\ order' \in Seq(Names)
      /\ Len(order) \in Nat /\ DOMAIN order = 1 .. Len(order)
      /\ DOMAIN order' = 1 .. Len(order) + 1
      /\ \A i \in DOMAIN order : order'[i] = order[i]
      /\ order'[Len(order) + 1] = n
      /\ Range(order') = Range(order) \cup {n}
  BY <1>0, <1>1, <1>5, AppendIs DEF TypeOK
<1>8. After(n) \subseteq Active /\ Active \subseteq Mods
  BY <1>0, <1>5, AfterIs, ActiveNames DEF Names
<1>9. \A m \in Active : n \in Before(m) <=> m \in After(n)
  BY <1>5 DEF Before
<1>10. \A m \in After(n) : indegree[m] \in Nat \ {0}
  BY <1>3, <1>8, <1>9
<1>11. TypeOK'
  <2>1. indegree' \in [Mods -> Nat]
    BY <1>0, <1>1, <1>10 DEF TypeOK
  <2>2. ready' \subseteq Names
    BY <1>0, <1>1, <1>8, ActiveNames DEF TypeOK
  <2>. QED BY <1>0, <1>1, <1>2, <1>7, <2>1, <2>2 DEF TypeOK
<1>12. CollectFits'
  BY <1>0, <1>1, <1>2 DEF CollectFits, Mfs
<1>13. OwnFits'
  BY <1>1 DEF OwnFits
<1>14. RoundsFit'
  BY <1>0, <1>1, <1>2 DEF RoundsFit, Mfs
<1>15. IssuesGenuine'
  BY <1>0, <1>1, <1>2 DEF IssuesGenuine, OwnGenuine
<1>16. OrderFits'
  <2>0. \A i \in DOMAIN order' : i \in DOMAIN order \/ i = Len(order) + 1
    BY <1>7
  <2>a. \A j \in DOMAIN order : j \in DOMAIN order' /\ j < Len(order) + 1
    BY <1>7
  <2>b. /\ Range(order) \subseteq Active /\ IsInjective(order)
        /\ \A i \in DOMAIN order : \A x \in Active :
               order[i] \in After(x) => \E j \in DOMAIN order : j < i /\ order[j] = x
        /\ \A i \in DOMAIN order : \A m \in Active :
               \/ Rank[order[i]] <= Rank[m]
               \/ \E j \in DOMAIN order : j < i /\ order[j] = m
               \/ \E x \in Active : m \in After(x) /\ \A j \in DOMAIN order : j < i => order[j] # x
    BY <1>0, <1>1 DEF OrderFits
  <2>1. Range(order') \subseteq Active
    BY <1>5, <1>7, <2>b
  <2>2. IsInjective(order')
    BY <1>5, <1>7, <2>0, <2>b DEF IsInjective, Range
  <2>3. \A i \in DOMAIN order' : \A x \in Active :
            order'[i] \in After(x) => \E j \in DOMAIN order' : j < i /\ order'[j] = x
    <3>. SUFFICES ASSUME NEW i \in DOMAIN order', NEW x \in Active, order'[i] \in After(x)
                  PROVE  \E j \in DOMAIN order' : j < i /\ order'[j] = x
      OBVIOUS
    <3>1. CASE i \in DOMAIN order
      BY <1>7, <2>a, <2>b, <3>1
    <3>2. CASE i = Len(order) + 1
      <4>1. x \in Range(order)
        BY <1>6, <1>7, <3>2
      <4>2. PICK j \in DOMAIN order : order[j] = x
        BY <4>1 DEF Range
      <4>. QED BY <1>7, <2>a, <3>2, <4>2
    <3>. QED BY <2>0, <3>1, <3>2
  <2>4. ASSUME NEW i \in DOMAIN order', NEW m \in Active
        PROVE  \/ Rank[order'[i]] <= Rank[m]
               \/ \E j \in DOMAIN order' : j < i /\ order'[j] = m
               \/ \E x \in Active : m \in After(x) /\ \A j \in DOMAIN order' : j < i => order'[j] # x
    <3>1. CASE i \in DOMAIN order
      <4>1. \A j \in DOMAIN order' : j < i => j \in DOMAIN order /\ order'[j] = order[j]
        BY <1>7, <3>1
      <4>2. CASE \E x \in Active : m \in After(x) /\ \A j \in DOMAIN order : j < i => order[j] # x
        BY <4>1, <4>2
      <4>3. CASE \E j \in DOMAIN order : j < i /\ order[j] = m
        BY <1>7, <2>a, <4>3
      <4>. QED BY <1>7, <2>b, <3>1, <4>2, <4>3
    <3>2. CASE i = Len(order) + 1
      <4>1. \A j \in DOMAIN order' : j < i => j \in DOMAIN order /\ order'[j] = order[j]
        BY <1>7, <3>2
      <4>2. CASE m \in ready
        BY <1>4, <1>7, <3>2, <4>2
      <4>3. CASE m \in Range(order)
        <5>1. PICK j \in DOMAIN order : order[j] = m
          BY <4>3 DEF Range
        <5>. QED BY <1>7, <2>a, <3>2, <5>1
      <4>4. CASE m \in Left /\ m \notin ready
        <5>1. PICK x \in Left : m \in After(x)
          BY <1>3, <4>4 DEF Before
        <5>2. x \in Active /\ \A j \in DOMAIN order : order[j] # x
          BY <5>1 DEF Left, Range
        <5>. QED BY <4>1, <5>1, <5>2
      <4>. QED BY <4>2, <4>3, <4>4 DEF Left
    <3>. QED BY <2>0, <3>1, <3>2
  <2>. QED BY <1>1, <1>2, <2>1, <2>2, <2>3, <2>4 DEF OrderFits
<1>17. SortFits'
  <2>1. Left' = Left \ {n}
    BY <1>2, <1>7 DEF Left
  <2>2. \A m : Before(m)' = Before(m) \ {n}
    BY <1>2, <2>1 DEF Before
  <2>3. \A m \in Active : indegree'[m] = Cardinality(Before(m)')
    <3>. TAKE m \in Active
    <3>1. indegree'[m] = IF m \in After(n) THEN indegree[m] - 1 ELSE indegree[m]
      BY <1>1, <1>8
    <3>2. Cardinality(Before(m) \ {n}) = IF n \in Before(m) THEN Cardinality(Before(m)) - 1
                                                            ELSE Cardinality(Before(m))
      BY <1>3, FS_RemoveElement
    <3>. QED BY <1>3, <1>9, <2>2, <3>1, <3>2
  <2>4. \A m \in After(n) : m \notin Range(order)
    <3>. SUFFICES ASSUME NEW m \in After(n), m \in Range(order) PROVE FALSE
      OBVIOUS
    <3>1. PICK i \in DOMAIN order : order[i] = m
      BY DEF Range
    <3>2. \E j \in DOMAIN order : j < i /\ order[j] = n
      BY <1>0, <1>1, <1>5, <3>1 DEF OrderFits
    <3>. QED BY <1>5, <3>2 DEF Range
  <2>5. ready' = {m \in Left' : indegree'[m] = 0}
    <3>1. \A m \in Active : indegree'[m] = IF m \in After(n) THEN indegree[m] - 1 ELSE indegree[m]
      BY <1>1, <1>8
    <3>2. ASSUME NEW m \in ready' PROVE m \in Left' /\ indegree'[m] = 0
      <4>1. CASE m \in ready /\ m # n
        <5>1. m \in Left /\ indegree[m] = 0
          BY <1>3, <4>1
        <5>2. m \in Active /\ m \notin After(n)
          BY <1>10, <5>1 DEF Left
        <5>. QED BY <2>1, <3>1, <4>1, <5>1, <5>2
      <4>2. CASE m \in After(n) /\ indegree[m] = 1
        <5>1. m \in Active /\ m \in Left /\ m # n
          BY <1>5, <1>8, <2>4, <4>2 DEF Left
        <5>. QED BY <2>1, <3>1, <4>2, <5>1
      <4>. QED BY <1>1, <3>2, <4>1, <4>2
    <3>3. ASSUME NEW m \in Left', indegree'[m] = 0 PROVE m \in ready'
      <4>1. m \in Left /\ m # n /\ m \in Active
        BY <2>1 DEF Left
      <4>2. CASE m \in After(n)
        BY <1>1, <1>10, <3>1, <3>3, <4>1, <4>2
      <4>3. CASE m \notin After(n)
        BY <1>1, <1>3, <3>1, <3>3, <4>1, <4>3
      <4>. QED BY <4>2, <4>3
    <3>. QED BY <3>2, <3>3
  <2>6. (\A m \in Active : indegree[m] = Cardinality({x \in Left : m \in After(x)}))'
    BY <1>2, <2>3 DEF Before
  <2>. QED BY <1>1, <2>5, <2>6 DEF SortFits
<1>. QED BY <1>0, <1>2, <1>11, <1>12, <1>13, <1>14, <1>15, <1>16, <1>17 DEF PlanInv

\* As many as are active were placed if, and only if, all of them were.
LEMMA CompleteIs ==
  ASSUME TypeOK, IsFiniteSet(Names), Range(order) \subseteq Active, IsInjective(order)
  PROVE  /\ Complete <=> Range(order) = Active
         /\ Len(order) = Cardinality(Range(order))
<1>1. order \in Seq(Names) /\ Len(order) \in Nat /\ DOMAIN order = 1 .. Len(order)
  BY DEF TypeOK
<1>2. order \in Bijection(1 .. Len(order), Range(order))
  <2>1. order \in [1 .. Len(order) -> Range(order)]
    BY <1>1 DEF Range
  <2>2. \A i, j \in 1 .. Len(order) : order[i] = order[j] => i = j
    BY <1>1 DEF IsInjective
  <2>3. \A x \in Range(order) : \E i \in 1 .. Len(order) : order[i] = x
    BY <1>1 DEF Range
  <2>. QED BY <2>1, <2>2, <2>3 DEF Bijection, Injection, Surjection
<1>3. Cardinality(Range(order)) = Len(order)
  BY <1>1, <1>2, FS_CountingElements DEF ExistsBijection
<1>4. Active \in SUBSET Names
  BY ActiveNames
<1>5. IsFiniteSet(Active)
  BY <1>4, FS_Subset
<1>6. Cardinality(Active) = Cardinality(Range(order)) => Active = Range(order)
  BY <1>5, FS_Subset
<1>. QED BY <1>3, <1>6 DEF Complete

\* What is listed before all that follows it is on no cycle.
LEMMA OrderedIsAcyclic ==
  ASSUME TypeOK, OrderFits, phase \in {"sort", "done"}, Range(order) = Active, NEW n \in Active
  PROVE  ~ OnCycle(Mfs(Active), manifests[n])
<1>0. DOMAIN order = 1 .. Len(order) /\ Len(order) \in Nat
  BY DEF TypeOK
<1>1. /\ IsInjective(order)
      /\ \A i \in DOMAIN order : \A x \in Active :
             order[i] \in After(x) => \E j \in DOMAIN order : j < i /\ order[j] = x
  BY DEF OrderFits
<1>2. PICK i \in DOMAIN order : order[i] = n
  BY DEF Range
<1>. DEFINE later == {order[j] : j \in {k \in DOMAIN order : i < k}}
<1>3. \A k \in DOMAIN order : After(order[k]) \subseteq {order[j] : j \in {l \in DOMAIN order : k < l}}
  <2>. SUFFICES ASSUME NEW k \in DOMAIN order, NEW y \in After(order[k])
                PROVE  \E l \in DOMAIN order : k < l /\ y = order[l]
    OBVIOUS
  <2>1. order[k] \in Active
    BY DEF Range
  <2>2. y \in Active
    BY <2>1, AfterIs
  <2>3. PICK l \in DOMAIN order : order[l] = y
    BY <2>2 DEF Range
  <2>4. PICK j \in DOMAIN order : j < l /\ order[j] = order[k]
    BY <1>1, <2>1, <2>3
  <2>5. j = k
    BY <1>1, <2>4 DEF IsInjective
  <2>. QED BY <2>3, <2>4, <2>5
<1>4. later \subseteq Active
  BY DEF Range
<1>5. After(n) \subseteq later
  BY <1>2, <1>3
<1>6. \A x \in later : After(x) \subseteq later
  <2>. SUFFICES ASSUME NEW k \in DOMAIN order, i < k PROVE After(order[k]) \subseteq later
    OBVIOUS
  <2>1. \A l \in DOMAIN order : k < l => i < l
    BY <1>0
  <2>. QED BY <1>3, <2>1
<1>7. n \notin later
  BY <1>0, <1>1, <1>2 DEF IsInjective
<1>. HIDE DEF later
<1>8. n \notin Cyclic
  <2>1. n \in Cyclic <=> \A T \in SUBSET Active :
            After(n) \subseteq T /\ (\A x \in T : After(x) \subseteq T) => n \in T
    BY DEF Cyclic, LeastClosed
  <2>. QED BY <1>4, <1>5, <1>6, <1>7, <2>1
<1>. QED BY <1>8, CyclicIs

LEMMA SortedStep ==
  ASSUME PlanInv, Sorted
  PROVE  PlanInv'
<1>0. /\ TypeOK /\ IsFiniteSet(Names) /\ CollectFits /\ RoundsFit /\ OrderFits
      /\ IssuesGenuine
  BY DEF PlanInv
<1>1. /\ phase = "sort" /\ phase' = "done" /\ Complete
      /\ lifecycle' = [n \in Mods |->
             IF n \in Range(order)
             THEN FoundIn(manifests[n].dependencies \cup manifests[n].optionalDependencies,
                          Range(order))
             ELSE {}]
      /\ UNCHANGED <<manifests, pending, candidates, rejected, indegree, ready, order>>
  BY DEF Sorted, sortVars
<1>2. /\ Names' = Names /\ Disk' = Disk /\ Active' = Active
      /\ \A x : After(x)' = After(x)
  BY <1>1, SameDisk DEF Active, After, FoundIn
<1>3. Range(order) = Active
  BY <1>0, <1>1, CompleteIs DEF OrderFits
<1>4. TypeOK'
  <2>1. \A deps : FoundIn(deps, Range(order)) \subseteq Names
    BY <1>0, <1>3, ActiveNames DEF FoundIn
  <2>2. lifecycle' \in [Mods -> SUBSET Names]
    BY <1>1, <2>1
  <2>. QED BY <1>0, <1>1, <1>2, <2>2 DEF TypeOK
<1>5. CollectFits'
  BY <1>0, <1>1, <1>2 DEF CollectFits, Mfs
<1>6. OwnFits'
  BY <1>1 DEF OwnFits
<1>7. RoundsFit'
  <2>1. CASE Mfs(Active) = Survivors(Disk)
    BY <1>1, <1>2, <2>1 DEF RoundsFit, Mfs
  <2>2. CASE Mfs(Active) = Steady(Disk)
    <3>1. \A m \in Steady(Disk) : ~ OnCycle(Steady(Disk), m)
      <4>1. \A n \in Active : ~ OnCycle(Mfs(Active), manifests[n])
        BY <1>0, <1>1, <1>3, OrderedIsAcyclic
      <4>. QED BY <2>2, <4>1 DEF Mfs
    <3>2. Uncircled(Disk) = Steady(Disk)
      BY <3>1 DEF Uncircled
    <3>3. Supported(Steady(Disk))
      BY AvailableLargest DEF Steady
    <3>4. Available(Steady(Disk)) = Steady(Disk)
      BY <3>3, AvailableLargest
    <3>5. Survivors(Disk) = Steady(Disk)
      BY <3>2, <3>4, SurvivorsAre
    <3>. QED BY <1>1, <1>2, <2>2, <3>5 DEF RoundsFit, Mfs
  <2>. QED BY <1>0, <1>1, <2>1, <2>2 DEF RoundsFit
<1>8. OrderFits'
  BY <1>0, <1>1, <1>2 DEF OrderFits
<1>9. SortFits'
  BY <1>1, <1>2, <1>3 DEF SortFits
<1>10. IssuesGenuine'
  BY <1>0, <1>1, <1>2 DEF IssuesGenuine, OwnGenuine
<1>. QED BY <1>0, <1>2, <1>4, <1>5, <1>6, <1>7, <1>8, <1>9, <1>10 DEF PlanInv

\* When the sort is stuck, there is a cycle; and there is none among the
\* survivors, so only those of the first round are rejected.
LEMMA StuckIsCyclic ==
  ASSUME PlanInv, phase = "sort", ready = {}, ~ Complete
  PROVE  /\ Cyclic # {}
         /\ Mfs(Active) = Steady(Disk)
         /\ \A n \in Active : n \in Cyclic <=> OnCycle(Steady(Disk), manifests[n])
<1>0. TypeOK /\ IsFiniteSet(Names) /\ RoundsFit /\ OrderFits
  BY DEF PlanInv
<1>1. Left # {}
  BY <1>0, CompleteIs DEF OrderFits, Left
<1>2. \A y \in Left : y \in Active /\ Before(y) # {}
  BY ReadyIs DEF Left
<1>3. Mfs(Left) # {} /\ Mfs(Left) \in SUBSET Mfs(Active)
  BY <1>1 DEF Mfs, Left
<1>4. \A m \in Mfs(Left) : \E k \in Mfs(Left) : MustPrecede(k, m)
  <2>. SUFFICES ASSUME NEW y \in Left
                PROVE  \E k \in Mfs(Left) : MustPrecede(k, manifests[y])
    BY DEF Mfs
  <2>1. PICK x \in Left : y \in After(x)
    BY <1>2 DEF Before
  <2>2. MustPrecede(manifests[x], manifests[y])
    BY <1>0, <1>2, <2>1, AfterIs
  <2>. QED BY <2>2 DEF Mfs
<1>5. IsFiniteSet(Mfs(Active))
  <2>1. Mfs(Active) \in SUBSET Disk
    BY <1>0, DiskFacts, ActiveNames
  <2>2. IsFiniteSet(Disk)
    BY <1>0, DiskFinite
  <2>. QED BY <2>1, <2>2, FS_Subset
<1>6. PICK m \in Mfs(Left) : OnCycle(Mfs(Active), m)
  BY <1>3, <1>4, <1>5, CycleExists
<1>7. PICK n \in Active : m = manifests[n]
  BY <1>3 DEF Mfs
<1>8. Mfs(Active) = Steady(Disk)
  <2>1. CASE Mfs(Active) = Survivors(Disk)
    <3>1. Survivors(Disk) \subseteq Uncircled(Disk)
      BY SurvivorsAre, AvailableLargest
    <3>2. m \in Survivors(Disk)
      BY <1>3, <2>1
    <3>3. Survivors(Disk) \subseteq Steady(Disk) /\ ~ OnCycle(Steady(Disk), m)
      BY <3>1, <3>2 DEF Uncircled
    <3>4. OnCycle(Survivors(Disk), m)
      BY <1>6, <2>1
    <3>. QED BY <3>3, <3>4, CyclesGrow
  <2>. QED BY <1>0, <2>1 DEF RoundsFit
<1>9. \A k \in Active : k \in Cyclic <=> OnCycle(Mfs(Active), manifests[k])
  BY <1>0, CyclicIs
<1>. QED BY <1>6, <1>7, <1>8, <1>9

LEMMA RejectCyclesStep ==
  ASSUME PlanInv, RejectCycles
  PROVE  PlanInv'
<1>0. /\ TypeOK /\ IsFiniteSet(Names) /\ CollectFits /\ RoundsFit /\ OrderFits
      /\ IssuesGenuine
  BY DEF PlanInv
<1>1. /\ phase = "sort" /\ ready = {} /\ ~ Complete
      /\ Reject(IF Cyclic = {} THEN Active \ Range(order) ELSE Cyclic, "DependencyCycle")
      /\ phase' = "propagate"
      /\ UNCHANGED <<manifests, pending, candidates, indegree, ready, order, lifecycle>>
  BY DEF RejectCycles, sortVars
<1>2. Names' = Names /\ Disk' = Disk
  BY <1>1, SameDisk
<1>3. /\ Cyclic # {}
      /\ Mfs(Active) = Steady(Disk)
      /\ \A n \in Active : n \in Cyclic <=> OnCycle(Steady(Disk), manifests[n])
  BY <1>1, StuckIsCyclic
<1>4. /\ rejected' \in [Mods -> Issues \cup {NoIssue}]
      /\ \A n \in Mods : rejected'[n] = IF n \in Cyclic /\ rejected[n] = NoIssue
                                        THEN "DependencyCycle" ELSE rejected[n]
      /\ Active' = Active \ Cyclic
  <2>1. Reject(Cyclic, "DependencyCycle")
    BY <1>1, <1>3
  <2>2. "DependencyCycle" \in Issues
    BY DEF Issues
  <2>. QED BY <1>0, <1>1, <2>1, <2>2, RejectIs
<1>5. TypeOK'
  BY <1>0, <1>1, <1>2, <1>4 DEF TypeOK
<1>6. CollectFits'
  BY <1>0, <1>1, <1>2 DEF CollectFits, Mfs
<1>7. OwnFits' /\ OrderFits' /\ SortFits'
  BY <1>1 DEF OwnFits, OrderFits, SortFits
<1>8. RoundsFit'
  <2>1. Uncircled(Disk) = {manifests[n] : n \in Active'}
    <3>1. \A n \in Active : n \in Active' <=> ~ OnCycle(Steady(Disk), manifests[n])
      BY <1>3, <1>4
    <3>2. Active' \subseteq Active
      BY <1>4
    <3>3. \A m : m \in Steady(Disk) <=> \E n \in Active : m = manifests[n]
      BY <1>3 DEF Mfs
    <3>. QED BY <3>1, <3>2, <3>3 DEF Uncircled
  <2>2. Mfs(Active)' = Uncircled(Disk)'
    BY <1>1, <1>2, <2>1 DEF Mfs
  <2>3. Available(Uncircled(Disk))' \subseteq Uncircled(Disk)'
    BY AvailableLargest
  <2>. QED BY <1>1, <2>2, <2>3 DEF RoundsFit, Between
<1>9. IssuesGenuine'
  <2>1. ASSUME NEW n \in Names, rejected'[n] = "DependencyCycle"
        PROVE  OnCycle(Disk, manifests[n])
    <3>1. CASE rejected[n] = "DependencyCycle"
      BY <1>0, <3>1 DEF IssuesGenuine
    <3>2. CASE n \in Cyclic
      <4>1. n \in Active
        BY <3>2 DEF Cyclic
      <4>2. OnCycle(Mfs(Active), manifests[n])
        BY <1>3, <3>2, <4>1
      <4>3. Mfs(Active) \subseteq Disk
        BY <1>0, DiskFacts, ActiveNames
      <4>. QED BY <4>2, <4>3, CyclesGrow
    <3>. QED BY <1>4, <2>1, <3>1, <3>2 DEF Names
  <2>2. ASSUME NEW n \in Names, rejected'[n] \in {"Conflict", "DependencyUnavailable"}
        PROVE  rejected[n] = rejected'[n]
    BY <1>4, <2>2 DEF Names
  <2>3. \A n \in Names' : (rejected'[n] # NoIssue => n \in candidates') /\ OwnGenuine(n)'
    <3>1. Cyclic \subseteq candidates
      BY DEF Cyclic, Active
    <3>. QED BY <1>0, <1>1, <1>4, <3>1, OwnStaysGenuine
  <2>. QED BY <1>0, <1>1, <1>2, <1>4, <2>1, <2>2, <2>3 DEF IssuesGenuine
<1>. QED BY <1>0, <1>2, <1>5, <1>6, <1>7, <1>8, <1>9 DEF PlanInv

LEMMA PlanStep == PlanInv /\ [Next]_vars => PlanInv'
<1>. SUFFICES ASSUME PlanInv, [Next]_vars PROVE PlanInv'
  OBVIOUS
<1>1. CASE UNCHANGED vars
  <2>1. UNCHANGED <<manifests, phase, pending, candidates, rejected, indegree, ready,
                    order, lifecycle>>
    BY <1>1 DEF vars
  <2>2. /\ Names' = Names /\ Disk' = Disk /\ Active' = Active
        /\ \A x : After(x)' = After(x) /\ OwnIssue(x)' = OwnIssue(x)
    BY <2>1, SameDisk DEF Active, After, FoundIn, OwnIssue
  <2>3. TypeOK' /\ CollectFits' /\ OwnFits'
    BY <2>1, <2>2 DEF PlanInv, TypeOK, CollectFits, OwnFits, Mfs, FoundIn
  <2>4. RoundsFit' /\ OrderFits' /\ SortFits' /\ IssuesGenuine'
    BY <2>1, <2>2 DEF PlanInv, RoundsFit, Between, Mfs, OrderFits, SortFits, Left, IssuesGenuine, OwnGenuine
  <2>. QED BY <2>2, <2>3, <2>4 DEF PlanInv
<1>2. CASE \E mf \in Manifests : Read(mf)
  BY <1>2, ReadStep
<1>. QED BY <1>1, <1>2, ResolveStep, VisitStep, VisitDoneStep, CheckPlatformStep,
            CheckConflictsStep, PropagateStep, BuildEdgesStep, TakeStep, SortedStep,
            RejectCyclesStep DEF Next

-----------------------------------------------------------------------------
\* PlanInv is an inductive invariant of resolve.
THEOREM PlanInvariance == Spec => []PlanInv
<1>. QED BY InitPlan, PlanStep, PTL DEF Spec

\* The loops keep their types: a sort never counts below zero, and only names
\* that were read are collected, sorted and bound.
THEOREM PlannerTypeCorrect == Spec => []TypeOK
<1>1. PlanInv => TypeOK
  BY DEF PlanInv
<1>. QED BY <1>1, PlanInvariance, PTL

LEMMA PlanIsOfContract == PlanInv => PlanMeetsContract
<1>. SUFFICES ASSUME PlanInv, phase = "done"
              PROVE  [i \in DOMAIN order |-> manifests[order[i]]] \in Plans(Disk)
  BY DEF PlanMeetsContract
<1>. DEFINE p == [i \in DOMAIN order |-> manifests[order[i]]]
<1>0. TypeOK /\ OrderFits /\ Range(order) = Active /\ Mfs(Active) = Survivors(Disk)
  BY DEF PlanInv, SortFits, RoundsFit
<1>1. DOMAIN order = 1 .. Len(order) /\ Len(order) \in Nat
  BY <1>0 DEF TypeOK
<1>2. /\ IsInjective(order)
      /\ \A i \in DOMAIN order : order[i] \in Active
      /\ \A n \in Active : \E i \in DOMAIN order : order[i] = n
  BY <1>0 DEF OrderFits, Range
<1>3. \A n, k \in Active : manifests[n] = manifests[k] => n = k
  BY <1>0, ActiveNames DEF TypeOK
<1>4. p \in Bijection(1 .. Len(order), Survivors(Disk))
  <2>1. p \in [1 .. Len(order) -> Survivors(Disk)]
    BY <1>0, <1>1, <1>2 DEF Mfs
  <2>2. \A i, j \in 1 .. Len(order) : p[i] = p[j] => i = j
    BY <1>1, <1>2, <1>3 DEF IsInjective
  <2>3. \A m \in Survivors(Disk) : \E i \in 1 .. Len(order) : p[i] = m
    BY <1>0, <1>1, <1>2 DEF Mfs
  <2>. QED BY <2>1, <2>2, <2>3 DEF Bijection, Injection, Surjection, IsInjective
<1>5. Cardinality(Survivors(Disk)) = Len(order)
  BY <1>1, <1>4, FS_CountingElements DEF ExistsBijection
<1>6. ASSUME NEW i \in DOMAIN order, NEW j \in DOMAIN order, MustPrecede(p[i], p[j])
      PROVE  i < j
  <2>1. order[j] \in After(order[i])
    BY <1>0, <1>2, <1>6, AfterIs
  <2>2. PICK k \in DOMAIN order : k < j /\ order[k] = order[i]
    BY <1>0, <1>2, <2>1 DEF OrderFits
  <2>. QED BY <1>2, <2>2 DEF IsInjective
<1>7. /\ p \in [1 .. Cardinality(Survivors(Disk)) -> Survivors(Disk)]
      /\ DOMAIN p = DOMAIN order
      /\ \A i, j \in DOMAIN order : p[i] = p[j] => i = j
  BY <1>1, <1>4, <1>5 DEF Bijection, Injection, IsInjective
<1>. HIDE DEF p
<1>8. p \in Orderings(Survivors(Disk))
  BY <1>6, <1>7 DEF Orderings
<1>. QED BY <1>8 DEF Plans, p

\* Whatever is on disk, what resolve returns is a plan of the contract: it has
\* exactly the survivors, each after all that it must follow.
THEOREM ReturnsPlan == Spec => []PlanMeetsContract
<1>. QED BY PlanIsOfContract, PlanInvariance, PTL

\* Of the plans the contract allows it returns the first by name, whatever
\* order the hash tables had.
THEOREM ReturnsFirst == Spec => []OrderIsFirst
<1>1. PlanInv => OrderIsFirst
  <2>. SUFFICES ASSUME PlanInv, phase = "done", NEW other \in Plans(Disk), NEW i \in DOMAIN order,
                       \A j \in 1 .. i - 1 : other[j] = manifests[order[j]]
                PROVE  Rank[order[i]] <= Rank[other[i].name]
    BY DEF OrderIsFirst
  <2>0. /\ TypeOK /\ OrderFits /\ Range(order) = Active /\ Mfs(Active) = Survivors(Disk)
        /\ IsFiniteSet(Names)
    BY DEF PlanInv, SortFits, RoundsFit
  <2>1. DOMAIN order = 1 .. Len(order) /\ Len(order) \in Nat
    BY <2>0 DEF TypeOK
  <2>2. Cardinality(Survivors(Disk)) = Len(order)
    <3>1. PlanMeetsContract
      BY PlanIsOfContract
    <3>2. [k \in DOMAIN order |-> manifests[order[k]]]
             \in [1 .. Cardinality(Survivors(Disk)) -> Survivors(Disk)]
      BY <3>1 DEF PlanMeetsContract, Plans, Orderings
    <3>3. 1 .. Cardinality(Survivors(Disk)) = 1 .. Len(order)
      BY <2>1, <3>2
    <3>4. Cardinality(Survivors(Disk)) \in Nat
      <4>1. Survivors(Disk) \in SUBSET Disk /\ IsFiniteSet(Disk)
        BY <2>0, DiskFinite, DiskFacts, ActiveNames
      <4>. QED BY <4>1, FS_Subset, FS_CardinalityType
    <3>. QED BY <2>1, <3>3, <3>4
  <2>. DEFINE P == Survivors(Disk)
  <2>3. /\ other \in [1 .. Len(order) -> P]
        /\ \A j, k \in DOMAIN order : other[j] = other[k] => j = k
        /\ \A j, k \in DOMAIN order : MustPrecede(other[j], other[k]) => j < k
    BY <2>1, <2>2 DEF Plans, Orderings
  <2>4. \A m \in P : \E k \in DOMAIN order : other[k] = m
    <3>1. other \in Injection(1 .. Len(order), P)
      BY <2>1, <2>3 DEF Injection, IsInjective
    <3>2. IsFiniteSet(P)
      <4>1. P \in SUBSET Disk /\ IsFiniteSet(Disk)
        BY <2>0, DiskFinite, DiskFacts, ActiveNames
      <4>. QED BY <4>1, FS_Subset
    <3>3. Cardinality(1 .. Len(order)) = Cardinality(P)
      <4>1. Cardinality(1 .. Len(order)) = IF 1 > Len(order) THEN 0 ELSE Len(order) - 1 + 1
        <5>1. 1 \in Int /\ Len(order) \in Int
          BY <2>1
        <5>. QED BY <5>1, FS_Interval
      <4>. QED BY <2>1, <2>2, <4>1
    <3>4. other \in Surjection(1 .. Len(order), P)
      BY <3>1, <3>2, <3>3, FS_Injection
    <3>. QED BY <2>1, <3>4 DEF Surjection
  <2>5. PICK n \in Active : other[i] = manifests[n]
    BY <2>0, <2>1, <2>3 DEF Mfs
  <2>6. other[i].name = n
    BY <2>0, <2>5, ActiveNames DEF TypeOK
  <2>7. \A j \in DOMAIN order : j < i => other[j] = manifests[order[j]] /\ order[j] \in Active
    BY <2>0, <2>1 DEF Range
  <2>8. CASE \E j \in DOMAIN order : j < i /\ order[j] = n
    BY <2>1, <2>3, <2>5, <2>7, <2>8
  <2>9. CASE \E x \in Active : n \in After(x) /\ \A j \in DOMAIN order : j < i => order[j] # x
    <3>1. PICK x \in Active : n \in After(x) /\ \A j \in DOMAIN order : j < i => order[j] # x
      BY <2>9
    <3>2. PICK k \in DOMAIN order : other[k] = manifests[x]
      BY <2>0, <2>4 DEF Mfs
    <3>3. MustPrecede(manifests[x], manifests[n])
      BY <2>0, <3>1, AfterIs
    <3>4. k < i
      BY <2>3, <2>5, <3>2, <3>3
    <3>5. manifests[order[k]] = manifests[x] /\ order[k] \in Active
      BY <2>7, <3>2, <3>4
    <3>6. order[k] = x
      BY <2>0, <3>5, ActiveNames DEF TypeOK
    <3>. QED BY <3>1, <3>4, <3>6
  <2>. QED BY <2>0, <2>6, <2>8, <2>9 DEF OrderFits
<1>. QED BY <1>1, PlanInvariance, PTL

\* What a user is told about a rejected mod is so, whichever of the six kinds of
\* issue it is, and only candidates are rejected.
THEOREM IssuesAlwaysGenuine == Spec => []IssuesGenuine
<1>1. PlanInv => IssuesGenuine
  BY DEF PlanInv
<1>. QED BY <1>1, PlanInvariance, PTL

-----------------------------------------------------------------------------
(***************************************************************************)
(* The search for cycles: what can be reached.                             *)
(***************************************************************************)
LEMMA ReachedClosed ==
  ASSUME NEW g, NEW n
  PROVE  /\ Reached(g, n) \subseteq Nodes
         /\ g \in [Nodes -> SUBSET Nodes] /\ n \in Nodes =>
               /\ g[n] \subseteq Reached(g, n)
               /\ \A m \in Reached(g, n) : g[m] \subseteq Reached(g, n)
<1>1. Reached(g, n) \subseteq Nodes
  BY DEF Reached
<1>2. ASSUME g \in [Nodes -> SUBSET Nodes], n \in Nodes
      PROVE  g[n] \subseteq Reached(g, n)
  BY <1>2 DEF Reached
<1>3. ASSUME g \in [Nodes -> SUBSET Nodes], n \in Nodes,
             NEW m \in Reached(g, n), NEW x \in g[m]
      PROVE  x \in Reached(g, n)
  <2>1. x \in Nodes
    BY <1>1, <1>3
  <2>2. \A T \in SUBSET Nodes :
           g[n] \subseteq T /\ (\A k \in T : g[k] \subseteq T) => m \in T
    BY <1>3 DEF Reached
  <2>. QED BY <1>3, <2>1, <2>2 DEF Reached
<1>. QED BY <1>1, <1>2, <1>3

LEMMA ReachedLeast ==
  ASSUME NEW g, NEW n, NEW T \in SUBSET Nodes, g[n] \subseteq T,
         \A m \in T : g[m] \subseteq T
  PROVE  Reached(g, n) \subseteq T
BY DEF Reached

To(g, x, y) == x = y \/ y \in Reached(g, x)

\* What is closed holds all that it leads to.
LEMMA ClosedHolds ==
  ASSUME NEW g, NEW T \in SUBSET Nodes, \A m \in T : g[m] \subseteq T,
         NEW x \in T, NEW y, To(g, x, y)
  PROVE  y \in T
BY ReachedLeast DEF To

LEMMA ToOnwards ==
  ASSUME NEW g \in [Nodes -> SUBSET Nodes], NEW x \in Nodes, NEW y \in Nodes, NEW z,
         To(g, x, y), To(g, y, z)
  PROVE  To(g, x, z) /\ (y \in Reached(g, x) \/ z \in Reached(g, y) => z \in Reached(g, x))
<1>1. y \in Reached(g, x) => Reached(g, y) \subseteq Reached(g, x)
  BY ReachedClosed, ReachedLeast
<1>. QED BY <1>1 DEF To

\* The first edge of the way.
LEMMA FirstEdge ==
  ASSUME NEW g \in [Nodes -> SUBSET Nodes], NEW x \in Nodes, NEW y
  PROVE  y \in Reached(g, x) <=> \E m \in g[x] : To(g, m, y)
<1>1. ASSUME NEW m \in g[x], To(g, m, y) PROVE y \in Reached(g, x)
  <2>1. m \in Nodes /\ m \in Reached(g, x)
    BY ReachedClosed
  <2>. QED BY <1>1, <2>1, ToOnwards DEF To
<1>. DEFINE T == {z \in Nodes : \E m \in g[x] : To(g, m, z)}
<1>2. g[x] \subseteq T
  BY DEF To
<1>3. ASSUME NEW z \in T, NEW w \in g[z] PROVE w \in T
  <2>1. PICK m \in g[x] : To(g, m, z)
    OBVIOUS
  <2>2. m \in Nodes /\ z \in Nodes /\ w \in Nodes
    OBVIOUS
  <2>3. To(g, z, w)
    BY <2>2, ReachedClosed DEF To
  <2>4. To(g, m, w)
    BY <2>1, <2>2, <2>3, ToOnwards
  <2>. QED BY <2>2, <2>4
<1>4. Reached(g, x) \subseteq T
  BY <1>2, <1>3, ReachedLeast
<1>. QED BY <1>1, <1>4

\* Who is on one circle has the same.
LEMMA CirclesAgree ==
  ASSUME NEW g \in [Nodes -> SUBSET Nodes], NEW n \in Nodes, NEW m \in Circle(g, n)
  PROVE  Circle(g, m) = Circle(g, n) /\ m \in Reached(g, m) /\ n \in Reached(g, n)
<1>1. m \in Nodes /\ m \in Reached(g, n) /\ n \in Reached(g, m)
  BY DEF Circle
<1>2. \A x \in Nodes : x \in Reached(g, n) <=> x \in Reached(g, m)
  BY <1>1, ToOnwards DEF To
<1>3. \A x \in Nodes : n \in Reached(g, x) <=> m \in Reached(g, x)
  BY <1>1, ToOnwards DEF To
<1>. QED BY <1>1, <1>2, <1>3 DEF Circle

-----------------------------------------------------------------------------
(***************************************************************************)
(* What the search knows.                                                  *)
(***************************************************************************)
Visited == {n \in Nodes : index[n] # Unset}
Settled == Visited \ Range(stack)
Caller(i) == calls[i].name

SearchTypeOK ==
    /\ adjacency \in [Nodes -> SUBSET Nodes]
    /\ index \in [Nodes -> Nat \cup {Unset}] /\ lowLink \in [Nodes -> Nat \cup {Unset}]
    /\ stack \in Seq(Nodes) /\ nextIndex \in Nat
    /\ calls \in Seq([name : Nodes, todo : SUBSET Nodes])
    /\ cycles \in SUBSET SUBSET Nodes

\* Indices are given in the order of visits, and the stack has the same order;
NumbersFit ==
    /\ \A n \in Visited : index[n] < nextIndex
    /\ \A n, m \in Visited : index[n] = index[m] => n = m
StackFits ==
    /\ Range(stack) \subseteq Visited
    /\ \A i, j \in DOMAIN stack : i < j => index[stack[i]] < index[stack[j]]
\* those that are being visited are on it.
CallsFit ==
    /\ \A i \in DOMAIN calls : Caller(i) \in Range(stack) /\ calls[i].todo \subseteq adjacency[Caller(i)]
    /\ \A i, j \in DOMAIN calls : i < j => index[Caller(i)] < index[Caller(j)]

\* An edge leads to what was visited, or is still to be looked at; and out of
\* the components that were taken off the stack none leads.
LookedAt ==
    \A x \in Visited : \A y \in adjacency[x] :
        y \in Visited \/ \E i \in DOMAIN calls : Caller(i) = x /\ y \in calls[i].todo
SettledClosed == \A x \in Settled : adjacency[x] \subseteq Settled

\* Whatever is on the stack leads down to one that is being visited, and up
\* from each of those.
ReachesCaller ==
    \A x \in Range(stack) : \E i \in DOMAIN calls : index[Caller(i)] <= index[x] /\ To(adjacency, x, Caller(i))
CallerReaches ==
    \A i \in DOMAIN calls : \A y \in Range(stack) : index[Caller(i)] <= index[y] => To(adjacency, Caller(i), y)

\* A link is the index of one on the stack that is reached; and below it leads
\* no edge that was looked at from a call and what it has visited.
LinksReach ==
    \A x \in Range(stack) :
        /\ lowLink[x] \in Nat /\ lowLink[x] <= index[x]
        /\ \E y \in Range(stack) : index[y] = lowLink[x] /\ To(adjacency, x, y)
Of(i, x) == index[Caller(i)] <= index[x] /\ (i < Len(calls) => index[x] < index[Caller(i + 1)])
LinksLeast ==
    \A i \in DOMAIN calls : \A x \in Range(stack) : \A y \in adjacency[x] \cap Range(stack) :
        Of(i, x) /\ ~ (x = Caller(i) /\ y \in calls[i].todo) => lowLink[Caller(i)] <= index[y]

CyclesFound == cycles = {Circle(adjacency, n) : n \in {x \in Settled : x \in Reached(adjacency, x)}}

SearchInv ==
    /\ SearchTypeOK /\ NumbersFit /\ StackFits /\ CallsFit /\ LookedAt /\ SettledClosed
    /\ ReachesCaller /\ CallerReaches /\ LinksReach /\ LinksLeast /\ CyclesFound

LEMMA SearchInitial == SearchInit => SearchInv
<1>. SUFFICES ASSUME SearchInit PROVE SearchInv
  OBVIOUS
<1>. USE FindCyclesAssumption DEF SearchInit
<1>1. /\ Visited = {} /\ Settled = {}
      /\ Range(<<>>) = {} /\ DOMAIN <<>> = {} /\ <<>> \in Seq(Nodes)
      /\ <<>> \in Seq([name : Nodes, todo : SUBSET Nodes])
  BY EmptySeq DEF Visited, Settled, Range
<1>2. SearchTypeOK
  BY <1>1 DEF SearchTypeOK
<1>3. NumbersFit /\ StackFits /\ CallsFit /\ LookedAt /\ SettledClosed
  BY <1>1 DEF NumbersFit, StackFits, CallsFit, LookedAt, SettledClosed
<1>4. ReachesCaller /\ CallerReaches /\ LinksReach /\ LinksLeast /\ CyclesFound
  BY <1>1 DEF ReachesCaller, CallerReaches, LinksReach, LinksLeast, CyclesFound
<1>. QED BY <1>2, <1>3, <1>4 DEF SearchInv

LEMMA FirstNodeIs ==
  ASSUME NEW S \in SUBSET Nodes, S # {}
  PROVE  FirstNode(S) \in S
<1>. USE FindCyclesAssumption
<1>. DEFINE N == {NodeRank[n] : n \in S}
<1>1. N \in SUBSET Nat /\ N # {}
  OBVIOUS
<1>2. \E k \in N : \A j \in N : k <= j
  BY <1>1, LeastNumber
<1>3. \E n \in S : \A m \in S : NodeRank[n] <= NodeRank[m]
  BY <1>2
<1>. QED BY <1>3 DEF FirstNode

\* The frames, when the innermost has one less to look at.
Looked(w, n) ==
    /\ w \in Seq([name : Nodes, todo : SUBSET Nodes]) /\ Len(w) = Len(calls)
    /\ DOMAIN w = DOMAIN calls
    /\ \A i \in DOMAIN calls :
          /\ w[i].name = Caller(i)
          /\ w[i].todo = IF i = Len(calls) THEN calls[i].todo \ {n} ELSE calls[i].todo

LEMMA WithoutIs ==
  ASSUME SearchTypeOK, calls # <<>>, NEW n, NEW w, w = Without(n)
  PROVE  Looked(w, n)
<1>. DEFINE F == [name : Nodes, todo : SUBSET Nodes]
            f == calls[Len(calls)]
            g == [f EXCEPT !.todo = @ \ {n}]
<1>1. /\ calls \in Seq(F) /\ Len(calls) \in Nat /\ Len(calls) > 0 /\ DOMAIN calls = 1 .. Len(calls)
      /\ f \in F
  <2>1. calls \in Seq(F)
    BY DEF SearchTypeOK
  <2>. HIDE DEF F
  <2>2. Len(calls) \in Nat /\ DOMAIN calls = 1 .. Len(calls) /\ Len(calls) > 0
    BY <2>1, EmptySeq
  <2>. QED BY <2>1, <2>2
<1>2. g \in F /\ g.name = f.name /\ g.todo = f.todo \ {n}
  BY <1>1
<1>. DEFINE d == SubSeq(calls, 1, Len(calls) - 1)
<1>. HIDE DEF F, g, f
<1>3. d \in Seq(F) /\ Len(d) = Len(calls) - 1 /\ \A i \in 1 .. Len(calls) - 1 : d[i] = calls[i]
  BY <1>1, SubSeqProperties
<1>4. w = d \o <<g>>
  BY DEF Without, Front, Frame, Last, g, f
<1>. HIDE DEF d
<1>5. w = Append(d, g)
  BY <1>2, <1>3, <1>4
<1>6. /\ w \in Seq(F) /\ Len(w) = Len(calls) /\ w[Len(calls)] = g
      /\ \A i \in 1 .. Len(calls) - 1 : w[i] = calls[i]
  <2>1. /\ w \in Seq(F) /\ Len(w) = Len(d) + 1 /\ w[Len(d) + 1] = g
        /\ \A i \in 1 .. Len(d) : w[i] = d[i]
    BY <1>2, <1>3, <1>5, AppendProperties
  <2>. QED BY <1>1, <1>3, <2>1
<1>7. DOMAIN w = DOMAIN calls
  BY <1>1, <1>6
<1>8. \A i \in DOMAIN calls : i = Len(calls) \/ i \in 1 .. Len(calls) - 1
  BY <1>1
<1>9. ASSUME NEW i \in DOMAIN calls
      PROVE  /\ w[i].name = calls[i].name
             /\ w[i].todo = IF i = Len(calls) THEN calls[i].todo \ {n} ELSE calls[i].todo
  <2>1. i = Len(calls) => w[i] = g /\ calls[i] = f
    BY <1>6 DEF f
  <2>2. i # Len(calls) => w[i] = calls[i]
    BY <1>6, <1>8
  <2>. QED BY <1>2, <2>1, <2>2
<1>. QED BY <1>1, <1>6, <1>7, <1>9 DEF F, Caller, Looked

\* visit(n) begins, from frames that have at most n less to look at.
Below(before, n) ==
    /\ before \in Seq([name : Nodes, todo : SUBSET Nodes]) /\ Len(before) = Len(calls)
    /\ \A i \in DOMAIN calls :
          /\ before[i].name = Caller(i)
          /\ before[i].todo \subseteq calls[i].todo /\ calls[i].todo \subseteq before[i].todo \cup {n}
    /\ calls # <<>> => n \in adjacency[Caller(Len(calls))]

LEMMA EnterKeeps ==
  ASSUME SearchInv, NEW n \in Nodes \ Visited, NEW before, Below(before, n),
         Enter(n, before), UNCHANGED <<adjacency, cycles>>
  PROVE  SearchInv'
<1>. DEFINE L == Len(calls)
            F == [name : Nodes, todo : SUBSET Nodes]
<1>. USE FindCyclesAssumption
<1>0. /\ SearchTypeOK /\ NumbersFit /\ StackFits /\ CallsFit /\ LookedAt /\ SettledClosed
      /\ ReachesCaller /\ CallerReaches /\ LinksReach /\ LinksLeast /\ CyclesFound
  BY DEF SearchInv
<1>1. /\ index' = [index EXCEPT ![n] = nextIndex] /\ index' \in [Nodes -> Nat \cup {Unset}]
      /\ index'[n] = nextIndex /\ nextIndex \in Nat /\ nextIndex' = nextIndex + 1
      /\ \A x \in Nodes : x # n => index'[x] = index[x]
      /\ lowLink' \in [Nodes -> Nat \cup {Unset}] /\ lowLink'[n] = nextIndex
      /\ \A x \in Nodes : x # n => lowLink'[x] = lowLink[x]
      /\ adjacency' = adjacency /\ cycles' = cycles
  BY <1>0 DEF Enter, SearchTypeOK
<1>2. /\ stack' \in Seq(Nodes) /\ stack \in Seq(Nodes) /\ Len(stack) \in Nat
      /\ DOMAIN stack = 1 .. Len(stack) /\ DOMAIN stack' = 1 .. Len(stack) + 1
      /\ \A i \in DOMAIN stack : stack'[i] = stack[i]
      /\ stack'[Len(stack) + 1] = n
  <2>1. stack \in Seq(Nodes) /\ stack' = Append(stack, n)
    BY <1>0 DEF Enter, SearchTypeOK
  <2>2. /\ stack' \in Seq(Nodes) /\ Len(stack') = Len(stack) + 1 /\ Len(stack) \in Nat
        /\ \A i \in 1 .. Len(stack) : stack'[i] = stack[i]
        /\ stack'[Len(stack) + 1] = n
    BY <2>1, AppendProperties
  <2>. QED BY <2>1, <2>2
<1>3. Range(stack') = Range(stack) \cup {n}
  <2>1. \A i \in DOMAIN stack' : i \in DOMAIN stack \/ i = Len(stack) + 1
    BY <1>2
  <2>2. \A i \in DOMAIN stack : i \in DOMAIN stack'
    BY <1>2
  <2>3. Len(stack) + 1 \in DOMAIN stack'
    BY <1>2
  <2>. QED BY <1>2, <2>1, <2>2, <2>3 DEF Range
<1>4. \A x \in Range(stack) : /\ x \in Nodes /\ x \in Visited /\ x # n /\ index[x] \in Nat
                              /\ index[x] < nextIndex /\ index'[x] = index[x]
                              /\ lowLink[x] \in Nat /\ lowLink'[x] = lowLink[x] /\ lowLink[x] <= index[x]
  BY <1>0, <1>1 DEF StackFits, NumbersFit, Visited, SearchTypeOK, LinksReach
<1>5. Visited' = Visited \cup {n} /\ Settled' = Settled
  <2>1. Visited' = Visited \cup {n}
    BY <1>1 DEF Visited
  <2>. QED BY <1>3, <2>1 DEF Settled
<1>6. /\ calls' \in Seq(F) /\ L \in Nat /\ Len(calls') = L + 1
      /\ DOMAIN calls = 1 .. L /\ DOMAIN calls' = 1 .. L + 1
      /\ \A i \in DOMAIN calls :
            /\ calls'[i].name = calls[i].name
            /\ calls'[i].todo \subseteq calls[i].todo /\ calls[i].todo \subseteq calls'[i].todo \cup {n}
      /\ calls'[L + 1].name = n /\ calls'[L + 1].todo = adjacency[n]
  <2>. DEFINE e == [name |-> n, todo |-> adjacency[n]]
  <2>1. /\ e \in F /\ e.name = n /\ e.todo = adjacency[n] /\ before \in Seq(F) /\ calls \in Seq(F)
        /\ calls' = Append(before, e) /\ Len(before) = L
    BY <1>0 DEF Enter, SearchTypeOK, Below
  <2>. HIDE DEF e, F
  <2>2. /\ calls' \in Seq(F) /\ Len(calls') = Len(before) + 1
        /\ \A i \in 1 .. Len(before) : calls'[i] = before[i]
        /\ calls'[Len(before) + 1] = e
    BY <2>1, AppendProperties
  <2>3. L \in Nat /\ DOMAIN calls = 1 .. L /\ DOMAIN calls' = 1 .. L + 1
    BY <2>1, <2>2
  <2>. QED BY <2>1, <2>2, <2>3 DEF Below, Caller
<1>7. \A i \in DOMAIN calls : /\ Caller(i) \in Range(stack) /\ Caller(i) \in Nodes /\ Caller(i) # n
                              /\ index[Caller(i)] \in Nat /\ index'[Caller(i)] = index[Caller(i)]
                              /\ lowLink'[Caller(i)] = lowLink[Caller(i)]
  BY <1>0, <1>4 DEF CallsFit
<1>8. \A i \in DOMAIN calls' : i \in DOMAIN calls \/ i = L + 1
  BY <1>6
<1>9. L + 1 \in DOMAIN calls' /\ \A i \in DOMAIN calls : i \in DOMAIN calls' /\ i < L + 1
  BY <1>6
<1>. HIDE DEF L
<1>10. SearchTypeOK'
  BY <1>0, <1>1, <1>2, <1>6 DEF SearchTypeOK
<1>11. NumbersFit'
  BY <1>0, <1>1, <1>5 DEF NumbersFit, Visited, SearchTypeOK
<1>12. StackFits'
  <2>1. Range(stack') \subseteq Visited'
    BY <1>0, <1>3, <1>5 DEF StackFits
  <2>2. ASSUME NEW i \in DOMAIN stack', NEW j \in DOMAIN stack', i < j
        PROVE  index'[stack'[i]] < index'[stack'[j]]
    <3>1. i \in DOMAIN stack /\ stack'[i] = stack[i] /\ stack[i] \in Range(stack)
      BY <1>2, <2>2 DEF Range
    <3>2. CASE j = Len(stack) + 1
      BY <1>1, <1>2, <1>4, <3>1, <3>2
    <3>3. CASE j # Len(stack) + 1
      <4>1. j \in DOMAIN stack /\ stack'[j] = stack[j] /\ stack[j] \in Range(stack)
        BY <1>2, <3>3 DEF Range
      <4>. QED BY <1>0, <1>4, <2>2, <3>1, <4>1 DEF StackFits
    <3>. QED BY <3>2, <3>3
  <2>. QED BY <2>1, <2>2 DEF StackFits
<1>13. CallsFit'
  <2>1. ASSUME NEW i \in DOMAIN calls'
        PROVE  calls'[i].name \in Range(stack') /\ calls'[i].todo \subseteq adjacency[calls'[i].name]
    BY <1>0, <1>3, <1>6, <1>7, <1>8 DEF CallsFit, Caller
  <2>2. ASSUME NEW i \in DOMAIN calls', NEW j \in DOMAIN calls', i < j
        PROVE  index'[calls'[i].name] < index'[calls'[j].name]
    <3>1. i \in DOMAIN calls
      BY <1>6, <2>2
    <3>2. CASE j = L + 1
      BY <1>1, <1>4, <1>6, <1>7, <3>1, <3>2 DEF Caller
    <3>3. CASE j \in DOMAIN calls
      BY <1>0, <1>6, <1>7, <2>2, <3>1, <3>3 DEF CallsFit, Caller
    <3>. QED BY <1>8, <3>2, <3>3
  <2>. QED BY <1>1, <2>1, <2>2 DEF CallsFit, Caller
<1>14. LookedAt'
  <2>. SUFFICES ASSUME NEW x \in Visited', NEW y \in adjacency[x], y \notin Visited'
                PROVE  \E i \in DOMAIN calls' : calls'[i].name = x /\ y \in calls'[i].todo
    BY <1>1 DEF LookedAt, Caller
  <2>1. CASE x = n
    BY <1>6, <1>9, <2>1
  <2>2. CASE x \in Visited
    <3>1. PICK i \in DOMAIN calls : Caller(i) = x /\ y \in calls[i].todo
      BY <1>0, <1>5, <2>2 DEF LookedAt
    <3>. QED BY <1>5, <1>6, <1>9, <3>1 DEF Caller
  <2>. QED BY <1>5, <2>1, <2>2
<1>15. SettledClosed'
  BY <1>0, <1>1, <1>5 DEF SettledClosed
<1>16. ReachesCaller'
  <2>. SUFFICES ASSUME NEW x \in Range(stack')
                PROVE  \E i \in DOMAIN calls' : index'[calls'[i].name] <= index'[x]
                                               /\ To(adjacency, x, calls'[i].name)
    BY <1>1 DEF ReachesCaller, Caller
  <2>1. CASE x = n
    <3>1. To(adjacency, n, n) /\ index'[n] <= index'[n]
      BY <1>1 DEF To
    <3>. HIDE DEF L
    <3>. QED BY <1>6, <1>9, <2>1, <3>1
  <2>2. CASE x \in Range(stack)
    BY <1>0, <1>4, <1>6, <1>7, <1>9, <2>2 DEF ReachesCaller, Caller
  <2>. QED BY <1>3, <2>1, <2>2
<1>17. CallerReaches'
  <2>. SUFFICES ASSUME NEW i \in DOMAIN calls', NEW y \in Range(stack'),
                       index'[calls'[i].name] <= index'[y]
                PROVE  To(adjacency, calls'[i].name, y)
    BY <1>1 DEF CallerReaches, Caller
  <2>1. CASE i = L + 1
    BY <1>1, <1>3, <1>4, <1>6, <2>1 DEF To
  <2>2. CASE i \in DOMAIN calls /\ y \in Range(stack)
    BY <1>0, <1>4, <1>6, <1>7, <2>2 DEF CallerReaches, Caller
  <2>3. CASE i \in DOMAIN calls /\ y = n
    <3>1. L \in DOMAIN calls /\ (i < L \/ i = L) /\ calls # <<>>
      BY <1>6, <2>3
    <3>2. index[Caller(i)] <= index[Caller(L)]
      BY <1>0, <1>7, <2>3, <3>1 DEF CallsFit
    <3>3. To(adjacency, Caller(i), Caller(L))
      BY <1>0, <1>7, <2>3, <3>1, <3>2 DEF CallerReaches
    <3>4. To(adjacency, Caller(L), n)
      BY <1>0, <1>7, <3>1, ReachedClosed DEF Below, To, L, SearchTypeOK
    <3>5. Caller(i) \in Nodes /\ Caller(L) \in Nodes /\ adjacency \in [Nodes -> SUBSET Nodes]
      BY <1>0, <1>7, <2>3, <3>1 DEF SearchTypeOK
    <3>6. To(adjacency, Caller(i), n)
      BY <3>3, <3>4, <3>5, ToOnwards
    <3>. QED BY <1>6, <2>3, <3>6 DEF Caller
  <2>. QED BY <1>3, <1>8, <2>1, <2>2, <2>3
<1>18. LinksReach'
  <2>. SUFFICES ASSUME NEW x \in Range(stack')
                PROVE  /\ lowLink'[x] \in Nat /\ lowLink'[x] <= index'[x]
                       /\ \E y \in Range(stack') : index'[y] = lowLink'[x] /\ To(adjacency, x, y)
    BY <1>1 DEF LinksReach
  <2>1. CASE x = n
    BY <1>1, <1>3, <2>1 DEF To
  <2>2. CASE x \in Range(stack)
    BY <1>0, <1>3, <1>4, <2>2 DEF LinksReach
  <2>. QED BY <1>3, <2>1, <2>2
<1>19. LinksLeast'
  <2>. SUFFICES ASSUME NEW i \in DOMAIN calls', NEW x \in Range(stack'),
                       NEW y \in adjacency[x], y \in Range(stack'),
                       index'[calls'[i].name] <= index'[x],
                       i < Len(calls') => index'[x] < index'[calls'[i + 1].name],
                       ~ (x = calls'[i].name /\ y \in calls'[i].todo)
                PROVE  lowLink'[calls'[i].name] <= index'[y]
    BY <1>1 DEF LinksLeast, Of, Caller
  <2>1. i # L + 1
    BY <1>1, <1>3, <1>4, <1>6
  <2>2. i \in DOMAIN calls /\ i < Len(calls') /\ (i = L \/ (i < L /\ i + 1 \in DOMAIN calls))
    BY <1>6, <1>8, <2>1
  <2>3. index'[x] < nextIndex
    <3>1. CASE i = L
      BY <1>1, <1>6, <2>2, <3>1
    <3>2. CASE i < L /\ i + 1 \in DOMAIN calls
      <4>1. calls'[i + 1].name = Caller(i + 1) /\ Caller(i + 1) \in Range(stack)
        BY <1>6, <1>7, <3>2 DEF Caller
      <4>2. index'[Caller(i + 1)] < nextIndex /\ index'[Caller(i + 1)] \in Nat
        BY <1>4, <4>1
      <4>3. index'[x] < index'[Caller(i + 1)] /\ index'[x] \in Nat
        BY <1>1, <1>3, <1>4, <2>2, <4>1
      <4>. QED BY <1>1, <4>2, <4>3
    <3>. QED BY <2>2, <3>1, <3>2
  <2>4. x \in Range(stack) /\ index'[x] = index[x]
    BY <1>1, <1>3, <1>4, <2>3
  <2>5. Of(i, x)
    <3>1. index[Caller(i)] <= index[x]
      BY <1>6, <1>7, <2>2, <2>4 DEF Caller
    <3>2. i < L => index[x] < index[Caller(i + 1)]
      BY <1>6, <1>7, <2>2, <2>4 DEF Caller
    <3>. QED BY <3>1, <3>2 DEF Of, L
  <2>6. CASE y = n
    <3>1. calls'[i].name = Caller(i) /\ Caller(i) \in Range(stack)
      BY <1>6, <1>7, <2>2 DEF Caller
    <3>2. /\ lowLink'[Caller(i)] = lowLink[Caller(i)] /\ lowLink[Caller(i)] \in Nat
          /\ lowLink[Caller(i)] <= index[Caller(i)] /\ index[Caller(i)] < nextIndex
          /\ index[Caller(i)] \in Nat
      BY <1>4, <3>1
    <3>. QED BY <1>1, <2>6, <3>1, <3>2
  <2>7. CASE y # n
    <3>1. y \in Range(stack) /\ ~ (x = Caller(i) /\ y \in calls[i].todo)
      BY <1>3, <1>6, <2>2, <2>7 DEF Caller
    <3>. QED BY <1>0, <1>4, <1>6, <1>7, <2>2, <2>4, <2>5, <3>1 DEF LinksLeast, Caller
  <2>. QED BY <2>6, <2>7
<1>20. CyclesFound'
  BY <1>0, <1>1, <1>5 DEF CyclesFound
<1>. QED BY <1>10, <1>11, <1>12, <1>13, <1>14, <1>15, <1>16, <1>17, <1>18, <1>19, <1>20 DEF SearchInv

LEMMA VisitRootStep ==
  ASSUME SearchInv, VisitRoot
  PROVE  SearchInv'
<1>. DEFINE n == FirstNode(Unvisited)
            F == [name : Nodes, todo : SUBSET Nodes]
<1>1. n \in Nodes \ Visited
  <2>1. Unvisited \in SUBSET Nodes /\ Unvisited # {} /\ Unvisited = Nodes \ Visited
    BY DEF VisitRoot, Unvisited, Visited
  <2>. QED BY <2>1, FirstNodeIs
<1>2. calls = <<>> /\ Enter(n, <<>>) /\ UNCHANGED <<adjacency, cycles>>
  BY DEF VisitRoot
<1>. HIDE DEF n
<1>3. Below(<<>>, n)
  <2>1. <<>> \in Seq(F) /\ DOMAIN <<>> = {}
    BY EmptySeq
  <2>. QED BY <1>2, <2>1 DEF Below
<1>. QED BY <1>1, <1>2, <1>3, EnterKeeps

\* A successor that was visited before is passed over.
LEMMA PassKeeps ==
  ASSUME SearchInv, calls # <<>>, NEW n \in Frame.todo, n \in Visited,
         lowLink' = IF OnStack(n) THEN [lowLink EXCEPT ![Frame.name] = Lower(@, index[n])] ELSE lowLink,
         calls' = Without(n), UNCHANGED <<adjacency, cycles, index, stack, nextIndex>>
  PROVE  SearchInv'
<1>. DEFINE L == Len(calls)
            h == Caller(L)
<1>. USE FindCyclesAssumption
<1>0. /\ SearchTypeOK /\ NumbersFit /\ StackFits /\ CallsFit /\ LookedAt /\ SettledClosed
      /\ ReachesCaller /\ CallerReaches /\ LinksReach /\ LinksLeast /\ CyclesFound
  BY DEF SearchInv
<1>1. /\ calls' \in Seq([name : Nodes, todo : SUBSET Nodes]) /\ Len(calls') = L
      /\ DOMAIN calls' = DOMAIN calls
      /\ \A i \in DOMAIN calls :
            /\ calls'[i].name = Caller(i)
            /\ calls'[i].todo = IF i = L THEN calls[i].todo \ {n} ELSE calls[i].todo
  <2>1. SearchTypeOK /\ calls' = Without(n)
    BY <1>0
  <2>2. Looked(calls', n)
    BY <2>1, WithoutIs
  <2>. QED BY <2>2 DEF Looked
<1>2. L \in Nat /\ L \in DOMAIN calls /\ DOMAIN calls = 1 .. L
  BY <1>0, EmptySeq DEF SearchTypeOK
<1>3. Frame = calls[L] /\ Frame.name = h /\ n \in calls[L].todo
  BY DEF Frame, Last, Caller
<1>4. \A x \in Range(stack) : x \in Nodes /\ x \in Visited /\ index[x] \in Nat
                              /\ lowLink[x] \in Nat /\ lowLink[x] <= index[x]
  BY <1>0 DEF StackFits, Visited, SearchTypeOK, LinksReach
<1>5. h \in Range(stack) /\ n \in adjacency[h] /\ n \in Nodes /\ index[n] \in Nat
  BY <1>0, <1>2, <1>3 DEF CallsFit, Visited, SearchTypeOK
<1>6. /\ lowLink' \in [Nodes -> Nat \cup {Unset}]
      /\ \A x \in Nodes : x # h => lowLink'[x] = lowLink[x]
      /\ lowLink'[h] \in Nat /\ lowLink'[h] <= lowLink[h]
      /\ lowLink'[h] = lowLink[h] \/ (n \in Range(stack) /\ lowLink'[h] = index[n])
      /\ n \in Range(stack) => lowLink'[h] <= index[n]
  BY <1>0, <1>3, <1>4, <1>5 DEF OnStack, Lower, SearchTypeOK
<1>7. \A i \in DOMAIN calls : i # L => Caller(i) # h /\ lowLink'[Caller(i)] = lowLink[Caller(i)]
  <2>. SUFFICES ASSUME NEW i \in DOMAIN calls, i # L
                PROVE  Caller(i) # h /\ lowLink'[Caller(i)] = lowLink[Caller(i)]
    OBVIOUS
  <2>1. i < L
    BY <1>2
  <2>2. Caller(i) \in Range(stack) /\ index[Caller(i)] < index[h]
    BY <1>0, <1>2, <2>1 DEF CallsFit
  <2>. QED BY <1>4, <1>5, <1>6, <2>2
<1>8. Visited' = Visited /\ Settled' = Settled
  BY DEF Visited, Settled
<1>9. SearchTypeOK' /\ NumbersFit' /\ StackFits' /\ SettledClosed' /\ CyclesFound'
  BY <1>0, <1>1, <1>6, <1>8 DEF SearchTypeOK, NumbersFit, StackFits, SettledClosed, CyclesFound
<1>. HIDE DEF L, h
<1>10. CallsFit'
  BY <1>0, <1>1 DEF CallsFit, Caller
<1>11. LookedAt'
  <2>. SUFFICES ASSUME NEW x \in Visited, NEW y \in adjacency[x], y \notin Visited
                PROVE  \E i \in DOMAIN calls' : calls'[i].name = x /\ y \in calls'[i].todo
    BY <1>8 DEF LookedAt, Caller
  <2>1. PICK i \in DOMAIN calls : Caller(i) = x /\ y \in calls[i].todo
    BY <1>0 DEF LookedAt
  <2>. QED BY <1>1, <2>1
<1>12. ReachesCaller' /\ CallerReaches'
  <2>1. \A i \in DOMAIN calls' : i \in DOMAIN calls /\ calls'[i].name = calls[i].name
    BY <1>1 DEF Caller
  <2>2. ReachesCaller'
    BY <1>0, <1>1, <2>1 DEF ReachesCaller, Caller
  <2>3. CallerReaches'
    BY <1>0, <2>1 DEF CallerReaches, Caller
  <2>. QED BY <2>2, <2>3
<1>13. LinksReach'
  <2>. SUFFICES ASSUME NEW x \in Range(stack)
                PROVE  /\ lowLink'[x] \in Nat /\ lowLink'[x] <= index[x]
                       /\ \E y \in Range(stack) : index[y] = lowLink'[x] /\ To(adjacency, x, y)
    BY DEF LinksReach
  <2>1. lowLink[x] \in Nat /\ lowLink[x] <= index[x]
        /\ \E y \in Range(stack) : index[y] = lowLink[x] /\ To(adjacency, x, y)
    BY <1>0 DEF LinksReach
  <2>2. CASE lowLink'[x] = lowLink[x]
    BY <2>1, <2>2
  <2>3. CASE x = h /\ n \in Range(stack) /\ lowLink'[h] = index[n]
    <3>1. To(adjacency, h, n)
      BY <1>0, <1>4, <1>5, ReachedClosed DEF To, SearchTypeOK
    <3>. QED BY <1>4, <1>6, <2>1, <2>3, <3>1
  <2>. QED BY <1>4, <1>6, <2>2, <2>3
<1>14. LinksLeast'
  <2>. SUFFICES ASSUME NEW i \in DOMAIN calls, NEW x \in Range(stack),
                       NEW y \in adjacency[x], y \in Range(stack),
                       index[calls'[i].name] <= index[x],
                       i < Len(calls') => index[x] < index[calls'[i + 1].name],
                       ~ (x = calls'[i].name /\ y \in calls'[i].todo)
                PROVE  lowLink'[calls'[i].name] <= index[y]
    BY <1>1 DEF LinksLeast, Of, Caller
  <2>0. Of(i, x) /\ calls'[i].name = Caller(i)
    <3>1. i < L => i + 1 \in DOMAIN calls
      BY <1>2
    <3>. QED BY <1>1, <3>1 DEF Of, L
  <2>1. CASE i # L
    <3>1. lowLink[Caller(i)] <= index[y]
      BY <1>0, <1>1, <2>0, <2>1 DEF LinksLeast
    <3>. QED BY <1>7, <2>0, <2>1, <3>1
  <2>2. CASE i = L /\ x = h /\ y = n
    BY <1>6, <2>0, <2>2 DEF h
  <2>3. CASE i = L /\ ~ (x = h /\ y = n)
    <3>1. ~ (x = Caller(i) /\ y \in calls[i].todo)
      BY <1>1, <2>0, <2>3 DEF h
    <3>2. lowLink[h] <= index[y]
      BY <1>0, <2>0, <2>3, <3>1 DEF LinksLeast, h
    <3>3. lowLink'[h] <= index[y]
      BY <1>4, <1>5, <1>6, <3>2
    <3>. QED BY <2>0, <2>3, <3>3 DEF h
  <2>. QED BY <2>1, <2>2, <2>3
<1>. QED BY <1>9, <1>10, <1>11, <1>12, <1>13, <1>14 DEF SearchInv

LEMMA SeeNextStep ==
  ASSUME SearchInv, SeeNext
  PROVE  SearchInv'
<1>. DEFINE n == FirstNode(Frame.todo)
            L == Len(calls)
<1>1. SearchTypeOK /\ CallsFit /\ calls # <<>>
  BY DEF SearchInv, SeeNext
<1>2. L \in DOMAIN calls /\ Frame = calls[L] /\ calls[L] \in [name : Nodes, todo : SUBSET Nodes]
  <2>. DEFINE F == [name : Nodes, todo : SUBSET Nodes]
  <2>1. calls \in Seq(F)
    BY <1>1 DEF SearchTypeOK
  <2>. HIDE DEF F
  <2>2. L \in DOMAIN calls /\ calls[L] \in F
    BY <1>1, <2>1, EmptySeq
  <2>. QED BY <2>2 DEF F, Frame, Last
<1>3. Frame.todo \in SUBSET Nodes /\ Frame.todo # {}
  BY <1>2 DEF SeeNext
<1>4. n \in Frame.todo /\ n \in Nodes
  BY <1>3, FirstNodeIs
<1>5. n \in adjacency[Caller(L)]
  BY <1>1, <1>2, <1>4 DEF CallsFit
<1>6. CASE index[n] = Unset
  <2>1. Enter(n, Without(n)) /\ UNCHANGED <<adjacency, cycles>>
    BY <1>6 DEF SeeNext
  <2>2. n \in Nodes \ Visited
    BY <1>4, <1>6 DEF Visited
  <2>. HIDE DEF n
  <2>3. Looked(Without(n), n)
    BY <1>1, WithoutIs
  <2>4. \A i \in DOMAIN calls : Without(n)[i].todo \subseteq calls[i].todo
                                /\ calls[i].todo \subseteq Without(n)[i].todo \cup {n}
    BY <2>3 DEF Looked
  <2>5. Below(Without(n), n)
    BY <1>5, <2>3, <2>4 DEF Below, Looked
  <2>. QED BY <2>1, <2>2, <2>5, EnterKeeps
<1>7. CASE index[n] # Unset
  <2>1. /\ lowLink' = IF OnStack(n) THEN [lowLink EXCEPT ![Frame.name] = Lower(@, index[n])] ELSE lowLink
        /\ calls' = Without(n) /\ UNCHANGED <<adjacency, cycles, index, stack, nextIndex>>
    BY <1>7 DEF SeeNext
  <2>2. n \in Visited
    BY <1>4, <1>7 DEF Visited
  <2>. HIDE DEF n
  <2>. QED BY <1>1, <1>4, <2>1, <2>2, PassKeeps
<1>. QED BY <1>6, <1>7

\* What is at the top of the stack is all that has an index so high.
LEMMA AboveIsTop ==
  ASSUME SearchTypeOK, StackFits, NEW h \in Range(stack)
  PROVE  /\ Above(h) = {x \in Range(stack) : index[x] >= index[h]}
         /\ Cardinality(Above(h)) \in 1 .. Len(stack)
         /\ \A i \in DOMAIN stack : stack[i] \in Above(h) <=> i > Len(stack) - Cardinality(Above(h))
<1>. DEFINE N == Len(stack)
            S == Above(h)
<1>1. stack \in Seq(Nodes) /\ N \in Nat /\ DOMAIN stack = 1 .. N
  BY DEF SearchTypeOK
<1>2. PICK q \in 1 .. N : stack[q] = h
  BY <1>1 DEF Range
<1>3. \A i \in 1 .. N : index[stack[i]] \in Nat
  BY <1>1, FindCyclesAssumption DEF StackFits, SearchTypeOK, Visited, Range
<1>4. \A i \in 1 .. N : index[stack[i]] >= index[h] <=> i >= q
  BY <1>1, <1>2, <1>3 DEF StackFits
<1>5. S = {x \in Range(stack) : index[x] >= index[h]}
  BY DEF Above, Range
<1>6. \A i \in 1 .. N : stack[i] \in S <=> i >= q
  BY <1>1, <1>4, <1>5 DEF Range
<1>7. Cardinality(S) = N - q + 1
  <2>. DEFINE f == [i \in q .. N |-> stack[i]]
  <2>1. f \in [q .. N -> S]
    BY <1>1, <1>2, <1>6
  <2>2. \A x \in S : \E i \in q .. N : f[i] = x
    BY <1>1, <1>2, <1>5, <1>6 DEF Range
  <2>3. \A i, j \in q .. N : f[i] = f[j] => i = j
    <3>. SUFFICES ASSUME NEW i \in q .. N, NEW j \in q .. N, stack[i] = stack[j], i < j PROVE FALSE
      BY <1>1, <1>2
    <3>. QED BY <1>1, <1>2, <1>3 DEF StackFits
  <2>. HIDE DEF f, S
  <2>4. f \in Surjection(q .. N, S) /\ f \in Injection(q .. N, S)
    BY <2>1, <2>2, <2>3 DEF Surjection, Injection, IsInjective
  <2>5. IsFiniteSet(q .. N) /\ Cardinality(q .. N) = N - q + 1
    BY <1>1, <1>2, FS_Interval
  <2>. QED BY <2>4, <2>5, FS_Surjection
<1>. HIDE DEF S
<1>8. \A i \in 1 .. N : stack[i] \in S <=> i > N - Cardinality(S)
  BY <1>1, <1>2, <1>6, <1>7
<1>. QED BY <1>1, <1>2, <1>5, <1>7, <1>8 DEF S

\* It is taken off, and the rest stays.
LEMMA TopOff ==
  ASSUME SearchTypeOK, StackFits, NEW h \in Range(stack), NEW r,
         r = SubSeq(stack, 1, Len(stack) - Cardinality(Above(h)))
  PROVE  /\ r \in Seq(Nodes) /\ Range(r) = Range(stack) \ Above(h)
         /\ \A i \in DOMAIN r : i \in DOMAIN stack /\ r[i] = stack[i]
<1>. DEFINE k == Len(stack) - Cardinality(Above(h))
<1>1. stack \in Seq(Nodes) /\ Len(stack) \in Nat /\ DOMAIN stack = 1 .. Len(stack)
  BY DEF SearchTypeOK
<1>2. /\ k \in 0 .. Len(stack) - 1
      /\ \A i \in DOMAIN stack : stack[i] \in Above(h) <=> i > k
  BY <1>1, AboveIsTop
<1>3. r = SubSeq(stack, 1, k) /\ k \in Int /\ \A i \in 1 .. k : stack[i] \in Nodes
  BY <1>1, <1>2
<1>. HIDE DEF k
<1>4. r \in Seq(Nodes) /\ Len(r) = k /\ \A i \in 1 .. k : r[i] = stack[i]
  <2>1. 1 \in Int /\ k \in Int /\ k >= 0
    BY <1>1, <1>2
  <2>2. /\ SubSeq(stack, 1, k) \in Seq(Nodes) /\ Len(SubSeq(stack, 1, k)) = k
        /\ \A i \in 1 .. k : SubSeq(stack, 1, k)[i] = stack[i]
    BY <1>3, <2>1, SubSeqProperties
  <2>. QED BY <1>3, <2>2
<1>5. DOMAIN r = 1 .. k
  BY <1>4
<1>6. \A i \in DOMAIN stack : i \in DOMAIN r <=> stack[i] \notin Above(h)
  <2>. SUFFICES ASSUME NEW i \in 1 .. Len(stack) PROVE i \in 1 .. k <=> ~ (i > k)
    BY <1>1, <1>2, <1>5
  <2>. QED BY <1>1, <1>2
<1>7. \A i \in DOMAIN r : i \in DOMAIN stack /\ r[i] = stack[i]
  BY <1>1, <1>2, <1>4, <1>5
<1>. QED BY <1>4, <1>6, <1>7 DEF Range

\* The frames, when the innermost returns.
Popped(w) ==
    /\ w \in Seq([name : Nodes, todo : SUBSET Nodes]) /\ Len(w) = Len(calls) - 1
    /\ DOMAIN w = 1 .. Len(calls) - 1 /\ DOMAIN calls = 1 .. Len(calls)
    /\ Len(calls) \in Nat \ {0}
    /\ \A i \in DOMAIN w : i \in DOMAIN calls /\ i < Len(calls) /\ w[i] = calls[i]

LEMMA FrontIs ==
  ASSUME SearchTypeOK, calls # <<>>, NEW w, w = Front(calls)
  PROVE  Popped(w)
<1>. DEFINE F == [name : Nodes, todo : SUBSET Nodes]
            k == Len(calls) - 1
<1>1. calls \in Seq(F)
  BY DEF SearchTypeOK
<1>. HIDE DEF F
<1>2. Len(calls) \in Nat \ {0} /\ DOMAIN calls = 1 .. Len(calls) /\ k \in Int /\ k >= 0
  BY <1>1, EmptySeq
<1>3. w = SubSeq(calls, 1, k)
  BY DEF Front
<1>4. \A i \in 1 .. k : i \in DOMAIN calls /\ i < Len(calls) /\ calls[i] \in F
  BY <1>1, <1>2
<1>. HIDE DEF k
<1>5. 1 \in Int /\ k \in Int /\ k >= 0
  BY <1>2
<1>6. /\ SubSeq(calls, 1, k) \in Seq(F) /\ Len(SubSeq(calls, 1, k)) = k
      /\ \A i \in 1 .. k : SubSeq(calls, 1, k)[i] = calls[i]
  BY <1>4, <1>5, SubSeqProperties
<1>7. w \in Seq(F) /\ Len(w) = k /\ DOMAIN w = 1 .. k /\ \A i \in 1 .. k : w[i] = calls[i]
  BY <1>3, <1>6
<1>. QED BY <1>2, <1>4, <1>7 DEF Popped, F, k

\* A call returns with its own index as its link: what is above it on the stack
\* is what is on a circle with it, or it alone.
LEMMA CircleIsAbove ==
  ASSUME SearchInv, calls # <<>>, Frame.todo = {}, NEW h, h = Frame.name, lowLink[h] = index[h],
         NEW S, S = Above(h)
  PROVE  /\ \A x \in S \cup Settled : adjacency[x] \subseteq S \cup Settled
         /\ HoldsCycle(S) <=> h \in Reached(adjacency, h)
         /\ h \in Reached(adjacency, h) => Circle(adjacency, h) = S
         /\ \A x \in S : x \in Reached(adjacency, x) =>
               h \in Reached(adjacency, h) /\ Circle(adjacency, x) = S
<1>. DEFINE L == Len(calls)
            T == S \cup Settled
            g == adjacency
<1>0. /\ SearchTypeOK /\ NumbersFit /\ StackFits /\ CallsFit /\ LookedAt /\ SettledClosed
      /\ ReachesCaller /\ CallerReaches /\ LinksReach /\ LinksLeast /\ CyclesFound
  BY DEF SearchInv
<1>1. Popped(Front(calls))
  BY <1>0, FrontIs
<1>2. L \in DOMAIN calls /\ DOMAIN calls = 1 .. L /\ L \in Nat
  BY <1>1 DEF Popped
<1>3. h = Caller(L) /\ calls[L].todo = {}
  BY DEF Frame, Last, Caller
<1>4. h \in Range(stack) /\ h \in Nodes /\ g \in [Nodes -> SUBSET Nodes]
  BY <1>0, <1>2, <1>3 DEF CallsFit, SearchTypeOK, Range
<1>5. \A x \in Range(stack) : x \in Nodes /\ x \in Visited /\ index[x] \in Nat
  BY <1>0, FindCyclesAssumption DEF StackFits, Visited, SearchTypeOK
<1>6. S = {x \in Range(stack) : index[x] >= index[h]}
  BY <1>0, <1>4, AboveIsTop
<1>7. h \in S /\ S \subseteq Nodes /\ T \subseteq Nodes
  BY <1>4, <1>5, <1>6 DEF Settled, Visited
<1>. HIDE DEF L
<1>8. ASSUME NEW x \in T, NEW y \in g[x] PROVE y \in T
  <2>1. CASE x \in Settled
    BY <1>0, <1>8, <2>1 DEF SettledClosed
  <2>2. CASE x \in S
    <3>1. x \in Range(stack) /\ x \in Visited /\ index[x] >= index[h] /\ index[h] <= index[x]
      BY <1>4, <1>5, <1>6, <2>2
    <3>2. ASSUME NEW i \in DOMAIN calls, Caller(i) = x PROVE i = L
      <4>1. i # L => i < L
        BY <1>2, <3>2
      <4>. QED BY <1>0, <1>2, <1>3, <1>4, <1>5, <3>1, <3>2, <4>1 DEF CallsFit
    <3>3. y \in Visited
      BY <1>0, <1>3, <1>8, <3>1, <3>2 DEF LookedAt
    <3>4. y \in Range(stack) => lowLink[h] <= index[y]
      <4>1. Of(L, x)
        BY <1>2, <1>3, <3>1 DEF Of, L
      <4>. QED BY <1>0, <1>2, <1>3, <1>8, <3>1, <4>1 DEF LinksLeast
    <3>. QED BY <1>4, <1>5, <1>6, <3>3, <3>4 DEF Settled
  <2>. QED BY <2>1, <2>2
<1>9. ASSUME NEW x \in S PROVE To(g, x, h) /\ To(g, h, x)
  <2>1. PICK i \in DOMAIN calls : To(g, x, Caller(i))
    BY <1>0, <1>6 DEF ReachesCaller
  <2>2. Caller(i) \in T
    BY <1>7, <1>8, <2>1, ClosedHolds
  <2>3. Caller(i) \in Range(stack)
    BY <1>0 DEF CallsFit
  <2>4. index[Caller(i)] >= index[h]
    BY <1>6, <2>2, <2>3 DEF Settled
  <2>5. i = L
    <3>1. i # L => i < L
      BY <1>2
    <3>. QED BY <1>0, <1>2, <1>3, <1>4, <1>5, <2>3, <2>4, <3>1 DEF CallsFit
  <2>6. To(g, h, x)
    <3>1. x \in Range(stack) /\ index[h] <= index[x]
      BY <1>4, <1>5, <1>6
    <3>. QED BY <1>0, <1>2, <1>3, <3>1 DEF CallerReaches
  <2>. QED BY <1>3, <2>1, <2>5, <2>6
<1>10. ASSUME NEW x \in Nodes, To(g, h, x), To(g, x, h) PROVE x \in S
  <2>1. x \in T
    BY <1>7, <1>8, <1>10, ClosedHolds
  <2>2. x \notin Settled
    <3>1. x \in Settled => h \in Settled
      BY <1>0, <1>10, ClosedHolds DEF SettledClosed, Settled, Visited
    <3>. QED BY <1>4, <3>1 DEF Settled
  <2>. QED BY <2>1, <2>2
<1>11. ASSUME NEW x \in S, x # h \/ x \in Reached(g, x)
       PROVE  h \in Reached(g, h) /\ x \in Circle(g, h)
  <2>1. CASE x = h
    BY <1>4, <1>11, <2>1 DEF Circle
  <2>2. CASE x # h
    <3>1. h \in Reached(g, x) /\ x \in Reached(g, h) /\ x \in Nodes
      BY <1>7, <1>9, <2>2 DEF To
    <3>2. h \in Reached(g, h)
      BY <1>4, <3>1, ToOnwards DEF To
    <3>. QED BY <3>1, <3>2 DEF Circle
  <2>. QED BY <2>1, <2>2
<1>12. ASSUME h \in Reached(g, h) PROVE Circle(g, h) = S
  <2>1. \A x \in S : x \in Circle(g, h)
    BY <1>4, <1>11, <1>12 DEF Circle
  <2>2. \A x \in Circle(g, h) : x \in S
    BY <1>10 DEF Circle, To
  <2>. QED BY <2>1, <2>2
<1>13. ASSUME NEW x \in S, x \in Reached(g, x)
       PROVE  h \in Reached(g, h) /\ Circle(g, x) = S
  BY <1>4, <1>11, <1>12, <1>13, CirclesAgree
<1>14. IsFiniteSet(S) /\ Cardinality(S) \in Nat
  BY <1>7, FindCyclesAssumption, FS_Subset, FS_CardinalityType
<1>15. Cardinality(S) > 1 <=> \E x \in S : x # h
  <2>1. S = {h} => Cardinality(S) = 1
    BY FS_Singleton
  <2>2. Cardinality(S) = 1 => \E x : S = {x}
    BY <1>14, FS_Singleton
  <2>3. Cardinality(S) # 0
    BY <1>7, <1>14, FS_EmptySet
  <2>4. S = {h} <=> ~ \E x \in S : x # h
    BY <1>7
  <2>5. Cardinality(S) = 1 => S = {h}
    BY <1>7, <2>2
  <2>. QED BY <1>14, <2>1, <2>3, <2>4, <2>5
<1>16. HoldsCycle(S) <=> h \in Reached(g, h)
  <2>1. ASSUME NEW x \in S, x \in g[x] PROVE h \in Reached(g, h)
    <3>1. x \in Reached(g, x)
      BY <1>4, <1>7, <2>1, ReachedClosed
    <3>. QED BY <1>11, <3>1
  <2>2. ASSUME h \in Reached(g, h), \A x \in S : x = h PROVE h \in g[h]
    <3>1. PICK m \in g[h] : To(g, m, h)
      BY <1>4, <2>2, FirstEdge
    <3>2. m \in Nodes /\ To(g, h, m)
      BY <1>4, ReachedClosed DEF To
    <3>3. m \in S
      BY <1>10, <3>1, <3>2
    <3>. QED BY <2>2, <3>3
  <2>. QED BY <1>7, <1>11, <1>15, <2>1, <2>2 DEF HoldsCycle
<1>. QED BY <1>8, <1>12, <1>13, <1>16

\* What a return leaves as it was, whatever the link says.
LEMMA ReturnFrames ==
  ASSUME SearchInv, Return
  PROVE  /\ Popped(calls') /\ UNCHANGED <<adjacency, index, nextIndex>> /\ Visited' = Visited
         /\ Frame.name = Caller(Len(calls)) /\ calls[Len(calls)].todo = {}
         /\ Frame.name \in Range(stack) /\ Len(calls) \in DOMAIN calls
         /\ \A i \in DOMAIN calls' :
               /\ i \in DOMAIN calls /\ i < Len(calls) /\ calls'[i] = calls[i]
               /\ Caller(i) \in Range(stack) /\ index[Caller(i)] < index[Frame.name]
         /\ \A x \in Range(stack) : x \in Nodes /\ index[x] \in Nat
         /\ LookedAt'
<1>0. SearchTypeOK /\ StackFits /\ CallsFit /\ LookedAt /\ calls # <<>> /\ calls' = Front(calls)
  BY DEF SearchInv, Return
<1>1. Popped(calls')
  BY <1>0, FrontIs
<1>2. Len(calls) \in DOMAIN calls
  BY <1>1 DEF Popped
<1>3. Frame.name = Caller(Len(calls)) /\ calls[Len(calls)].todo = {}
  BY DEF Frame, Last, Caller, Return
<1>4. UNCHANGED <<adjacency, index, nextIndex>> /\ Visited' = Visited
  BY DEF Return, Visited
<1>5. \A x \in Range(stack) : x \in Nodes /\ index[x] \in Nat
  BY <1>0, FindCyclesAssumption DEF StackFits, Visited, SearchTypeOK
<1>6. \A i \in DOMAIN calls' : i \in DOMAIN calls /\ i < Len(calls) /\ calls'[i] = calls[i]
  BY <1>1 DEF Popped
<1>7. \A i \in DOMAIN calls' : Caller(i) \in Range(stack) /\ index[Caller(i)] < index[Frame.name]
  BY <1>0, <1>2, <1>3, <1>6 DEF CallsFit
<1>8. LookedAt'
  <2>. SUFFICES ASSUME NEW x \in Visited, NEW y \in adjacency[x], y \notin Visited
                PROVE  \E i \in DOMAIN calls' : calls'[i].name = x /\ y \in calls'[i].todo
    BY <1>4 DEF LookedAt, Caller
  <2>1. PICK i \in DOMAIN calls : Caller(i) = x /\ y \in calls[i].todo
    BY <1>0 DEF LookedAt
  <2>2. i # Len(calls)
    BY <1>3, <2>1
  <2>3. i \in DOMAIN calls'
    BY <1>1, <2>2 DEF Popped
  <2>. QED BY <1>6, <2>1, <2>3 DEF Caller
<1>. QED BY <1>0, <1>1, <1>2, <1>3, <1>4, <1>5, <1>6, <1>7, <1>8 DEF CallsFit

\* The link leads below the call: its caller takes it over.
LEMMA ReturnStays ==
  ASSUME SearchInv, Return, lowLink[Frame.name] # index[Frame.name]
  PROVE  SearchInv'
<1>. DEFINE L == Len(calls)
            h == Frame.name
            p == Caller(L - 1)
<1>0. /\ SearchTypeOK /\ NumbersFit /\ StackFits /\ CallsFit /\ LookedAt /\ SettledClosed
      /\ ReachesCaller /\ CallerReaches /\ LinksReach /\ LinksLeast /\ CyclesFound
  BY DEF SearchInv
<1>1. /\ Popped(calls') /\ adjacency' = adjacency /\ index' = index /\ nextIndex' = nextIndex
      /\ Visited' = Visited
      /\ h = Caller(L) /\ calls[L].todo = {} /\ h \in Range(stack) /\ L \in DOMAIN calls
      /\ \A x \in Range(stack) : x \in Nodes /\ index[x] \in Nat
      /\ LookedAt'
  BY ReturnFrames
<1>2. \A i \in DOMAIN calls' : /\ i \in DOMAIN calls /\ i < L /\ calls'[i] = calls[i]
                               /\ calls'[i].name = Caller(i)
                               /\ Caller(i) \in Range(stack) /\ index[Caller(i)] < index[h]
  BY ReturnFrames DEF Caller
<1>3. /\ L \in Nat \ {0} /\ DOMAIN calls = 1 .. L /\ DOMAIN calls' = 1 .. L - 1 /\ Len(calls') = L - 1
      /\ \A i \in DOMAIN calls : i = L \/ i \in DOMAIN calls'
  BY <1>1 DEF Popped
<1>4. stack' = stack /\ cycles' = cycles
  <2>1. /\ stack' = SubSeq(stack, 1, Len(stack) - Cardinality({}))
        /\ cycles' = IF HoldsCycle({}) THEN cycles \cup {{}} ELSE cycles
    BY DEF Return
  <2>2. Cardinality({}) = 0
    BY FS_EmptySet
  <2>3. ~ HoldsCycle({})
    BY <2>2 DEF HoldsCycle
  <2>4. SubSeq(stack, 1, Len(stack)) = stack /\ Len(stack) \in Nat
    BY <1>0, SubSeqFull DEF SearchTypeOK
  <2>. QED BY <2>1, <2>2, <2>3, <2>4
<1>5. PICK y \in Range(stack) : index[y] = lowLink[h] /\ To(adjacency, h, y)
  BY <1>0, <1>1 DEF LinksReach
<1>6. lowLink[h] \in Nat /\ index[y] < index[h]
  BY <1>0, <1>1, <1>5 DEF LinksReach
<1>7. PICK j \in DOMAIN calls : index[Caller(j)] <= index[y] /\ To(adjacency, y, Caller(j))
  BY <1>0 DEF ReachesCaller
<1>. HIDE DEF L, h
<1>8. j \in DOMAIN calls' /\ index[Caller(j)] < index[h]
  <2>1. index[Caller(j)] \in Nat
    BY <1>0, <1>1 DEF CallsFit
  <2>2. index[Caller(j)] < index[h]
    BY <1>1, <1>5, <1>6, <1>7, <2>1
  <2>. QED BY <1>1, <1>3, <2>2
<1>9. L # 1 /\ L - 1 \in DOMAIN calls'
  BY <1>3, <1>8
<1>10. p \in Range(stack) /\ p \in Nodes /\ index[p] < index[h] /\ lowLink[p] \in Nat /\ lowLink[p] <= index[p]
  BY <1>0, <1>1, <1>2, <1>9 DEF LinksReach
<1>11. lowLink' = [lowLink EXCEPT ![p] = Lower(lowLink[p], lowLink[h])]
  BY <1>9 DEF Return, Caller, h, L
<1>. HIDE DEF p
<1>12. /\ lowLink' \in [Nodes -> Nat \cup {Unset}]
       /\ \A x \in Nodes : x # p => lowLink'[x] = lowLink[x]
       /\ lowLink'[p] \in Nat /\ lowLink'[p] <= lowLink[p] /\ lowLink'[p] <= lowLink[h]
       /\ lowLink'[p] = lowLink[p] \/ lowLink'[p] = lowLink[h]
  BY <1>0, <1>6, <1>10, <1>11 DEF Lower, SearchTypeOK
<1>13. Settled' = Settled
  BY <1>1, <1>4 DEF Settled
<1>14. SearchTypeOK' /\ NumbersFit' /\ StackFits' /\ SettledClosed' /\ CyclesFound'
  BY <1>0, <1>1, <1>4, <1>12, <1>13 DEF SearchTypeOK, NumbersFit, StackFits, SettledClosed, CyclesFound, Popped
<1>15. CallsFit'
  BY <1>0, <1>1, <1>2, <1>4 DEF CallsFit, Caller
<1>16. ReachesCaller'
  <2>. SUFFICES ASSUME NEW x \in Range(stack)
                PROVE  \E i \in DOMAIN calls' : index[calls'[i].name] <= index[x]
                                                /\ To(adjacency, x, calls'[i].name)
    BY <1>1, <1>4 DEF ReachesCaller, Caller
  <2>1. PICK i \in DOMAIN calls : index[Caller(i)] <= index[x] /\ To(adjacency, x, Caller(i))
    BY <1>0 DEF ReachesCaller
  <2>2. CASE i \in DOMAIN calls'
    BY <1>2, <2>1, <2>2
  <2>3. CASE i = L
    <3>1. To(adjacency, x, h)
      BY <1>1, <2>1, <2>3
    <3>2. To(adjacency, x, y)
      BY <1>0, <1>1, <1>5, <3>1, ToOnwards DEF SearchTypeOK
    <3>3. To(adjacency, x, Caller(j))
      BY <1>0, <1>1, <1>7, <3>2, ToOnwards DEF SearchTypeOK
    <3>4. index[h] <= index[x] /\ index[Caller(j)] \in Nat
      BY <1>0, <1>1, <1>2, <1>8, <2>1, <2>3
    <3>5. index[Caller(j)] <= index[x]
      BY <1>1, <1>8, <3>4
    <3>. QED BY <1>2, <1>8, <3>3, <3>5
  <2>. QED BY <1>3, <2>2, <2>3
<1>17. CallerReaches'
  BY <1>0, <1>1, <1>2, <1>4 DEF CallerReaches, Caller
<1>18. LinksReach'
  <2>. SUFFICES ASSUME NEW x \in Range(stack)
                PROVE  /\ lowLink'[x] \in Nat /\ lowLink'[x] <= index[x]
                       /\ \E z \in Range(stack) : index[z] = lowLink'[x] /\ To(adjacency, x, z)
    BY <1>1, <1>4 DEF LinksReach
  <2>1. /\ lowLink[x] \in Nat /\ lowLink[x] <= index[x]
        /\ \E z \in Range(stack) : index[z] = lowLink[x] /\ To(adjacency, x, z)
    BY <1>0 DEF LinksReach
  <2>2. CASE lowLink'[x] = lowLink[x]
    BY <2>1, <2>2
  <2>3. CASE x = p /\ lowLink'[p] = lowLink[h]
    <3>1. To(adjacency, p, h)
      <4>1. L - 1 \in DOMAIN calls /\ index[p] <= index[h]
        BY <1>1, <1>2, <1>9, <1>10
      <4>. QED BY <1>0, <1>1, <4>1 DEF CallerReaches, p
    <3>2. To(adjacency, p, y)
      BY <1>0, <1>1, <1>5, <1>10, <3>1, ToOnwards DEF SearchTypeOK
    <3>3. lowLink'[x] <= index[x]
      BY <1>1, <1>10, <1>12, <2>3
    <3>. QED BY <1>5, <1>12, <2>3, <3>2, <3>3
  <2>. QED BY <1>1, <1>12, <2>2, <2>3
<1>19. LinksLeast'
  <2>. SUFFICES ASSUME NEW i \in DOMAIN calls', NEW x \in Range(stack),
                       NEW z \in adjacency[x], z \in Range(stack),
                       index[calls'[i].name] <= index[x],
                       i < Len(calls') => index[x] < index[calls'[i + 1].name],
                       ~ (x = calls'[i].name /\ z \in calls'[i].todo)
                PROVE  lowLink'[calls'[i].name] <= index[z]
    BY <1>1, <1>4 DEF LinksLeast, Of, Caller
  <2>0. /\ i \in DOMAIN calls /\ i < L /\ calls'[i].name = Caller(i) /\ Caller(i) \in Nodes
        /\ index[Caller(i)] <= index[x] /\ ~ (x = Caller(i) /\ z \in calls[i].todo)
    BY <1>1, <1>2
  <2>1. CASE i # L - 1
    <3>1. i < L - 1 /\ i + 1 \in DOMAIN calls'
      BY <1>3, <2>1
    <3>2. Of(i, x)
      BY <1>2, <1>3, <2>0, <3>1 DEF Of, Caller
    <3>3. lowLink[Caller(i)] <= index[z]
      BY <1>0, <2>0, <3>2 DEF LinksLeast
    <3>4. Caller(i) # p
      <4>1. L - 1 \in DOMAIN calls /\ index[p] \in Nat
        BY <1>1, <1>2, <1>9, <1>10
      <4>2. index[Caller(i)] < index[Caller(L - 1)]
        BY <1>0, <2>0, <3>1, <4>1 DEF CallsFit
      <4>. QED BY <4>1, <4>2 DEF p
    <3>. QED BY <1>12, <2>0, <3>3, <3>4
  <2>2. CASE i = L - 1
    <3>1. calls'[i].name = p
      BY <2>0, <2>2 DEF p
    <3>2. CASE index[x] < index[h]
      <4>1. Of(i, x)
        <5>1. Caller(i + 1) = h
          BY <1>1, <1>3, <2>2
        <5>. QED BY <2>0, <3>2, <5>1 DEF Of
      <4>2. lowLink[p] <= index[z]
        BY <1>0, <2>0, <3>1, <4>1 DEF LinksLeast
      <4>. QED BY <1>1, <1>10, <1>12, <3>1, <4>2
    <3>3. CASE ~ (index[x] < index[h])
      <4>1. Of(L, x)
        BY <1>1, <1>3, <3>3 DEF Of, L
      <4>2. lowLink[h] <= index[z]
        BY <1>0, <1>1, <4>1 DEF LinksLeast
      <4>. QED BY <1>1, <1>6, <1>12, <3>1, <4>2
    <3>. QED BY <3>2, <3>3
  <2>. QED BY <2>1, <2>2
<1>. QED BY <1>1, <1>14, <1>15, <1>16, <1>17, <1>18, <1>19 DEF SearchInv

\* It does not: a component leaves the stack, and is kept if it has a cycle.
LEMMA ReturnTakes ==
  ASSUME SearchInv, Return, lowLink[Frame.name] = index[Frame.name]
  PROVE  SearchInv'
<1>. DEFINE L == Len(calls)
            h == Frame.name
            S == Above(h)
            R == Range(stack)
<1>0. /\ SearchTypeOK /\ NumbersFit /\ StackFits /\ CallsFit /\ LookedAt /\ SettledClosed
      /\ ReachesCaller /\ CallerReaches /\ LinksReach /\ LinksLeast /\ CyclesFound
  BY DEF SearchInv
<1>1. /\ Popped(calls') /\ adjacency' = adjacency /\ index' = index /\ nextIndex' = nextIndex
      /\ Visited' = Visited
      /\ h = Caller(L) /\ h \in R /\ L \in DOMAIN calls
      /\ \A x \in R : x \in Nodes /\ index[x] \in Nat
      /\ LookedAt'
  BY ReturnFrames
<1>2. \A i \in DOMAIN calls' : /\ i \in DOMAIN calls /\ i < L /\ calls'[i] = calls[i]
                               /\ calls'[i].name = Caller(i)
                               /\ Caller(i) \in R /\ index[Caller(i)] < index[h]
  BY ReturnFrames DEF Caller
<1>3. /\ L \in Nat \ {0} /\ DOMAIN calls = 1 .. L /\ DOMAIN calls' = 1 .. L - 1 /\ Len(calls') = L - 1
      /\ \A i \in DOMAIN calls : i = L \/ i \in DOMAIN calls'
  BY <1>1 DEF Popped
<1>4. /\ stack' = SubSeq(stack, 1, Len(stack) - Cardinality(S))
      /\ cycles' = IF HoldsCycle(S) THEN cycles \cup {S} ELSE cycles
  BY DEF Return
<1>5. S = {x \in R : index[x] >= index[h]}
  BY <1>0, <1>1, AboveIsTop
<1>6. /\ stack' \in Seq(Nodes) /\ Range(stack') = R \ S
      /\ \A i \in DOMAIN stack' : i \in DOMAIN stack /\ stack'[i] = stack[i]
  BY <1>0, <1>1, <1>4, TopOff
<1>7. /\ \A x \in S \cup Settled : adjacency[x] \subseteq S \cup Settled
      /\ HoldsCycle(S) <=> h \in Reached(adjacency, h)
      /\ h \in Reached(adjacency, h) => Circle(adjacency, h) = S
      /\ \A x \in S : x \in Reached(adjacency, x) =>
            h \in Reached(adjacency, h) /\ Circle(adjacency, x) = S
  <2>1. calls # <<>> /\ Frame.todo = {}
    BY DEF Return
  <2>. QED BY <2>1, CircleIsAbove
<1>8. lowLink' = lowLink
  <2>1. CASE L = 1
    BY <2>1 DEF Return
  <2>2. CASE L # 1
    <3>. DEFINE p == Caller(L - 1)
    <3>1. lowLink' = [lowLink EXCEPT ![p] = Lower(lowLink[p], lowLink[h])]
      BY <2>2 DEF Return, Caller
    <3>2. L - 1 \in DOMAIN calls'
      BY <1>3, <2>2
    <3>3. p \in R /\ index[p] < index[h] /\ lowLink[p] \in Nat /\ lowLink[p] <= index[p]
      BY <1>0, <1>2, <3>2 DEF LinksReach
    <3>. HIDE DEF p
    <3>4. Lower(lowLink[p], lowLink[h]) = lowLink[p]
      BY <1>1, <3>3 DEF Lower
    <3>. QED BY <1>0, <3>1, <3>4 DEF SearchTypeOK
  <2>. QED BY <2>1, <2>2
<1>9. h \in S /\ S \subseteq R /\ S \subseteq Visited /\ S \subseteq Nodes
  <2>1. h \in S
    BY <1>1, <1>5
  <2>. QED BY <1>0, <1>1, <1>5, <2>1 DEF StackFits
<1>10. \A x \in R : x \in S <=> ~ (index[x] < index[h])
  BY <1>1, <1>5
<1>. HIDE DEF S, R, L, h
<1>11. \A i \in DOMAIN calls' : Caller(i) \in R \ S
  BY <1>2, <1>10
<1>12. Settled' = Settled \cup S
  BY <1>1, <1>6, <1>9 DEF Settled, R
<1>13. SearchTypeOK' /\ NumbersFit' /\ SettledClosed'
  <2>1. SearchTypeOK'
    BY <1>0, <1>1, <1>4, <1>6, <1>8, <1>9 DEF SearchTypeOK, Popped
  <2>. QED BY <1>0, <1>1, <1>7, <1>12, <2>1 DEF NumbersFit, SettledClosed
<1>14. StackFits'
  BY <1>0, <1>1, <1>6 DEF StackFits, R
<1>15. CallsFit'
  BY <1>0, <1>1, <1>2, <1>6, <1>11 DEF CallsFit, Caller
<1>16. ReachesCaller'
  <2>. SUFFICES ASSUME NEW x \in R \ S
                PROVE  \E i \in DOMAIN calls' : index[calls'[i].name] <= index[x]
                                                /\ To(adjacency, x, calls'[i].name)
    BY <1>1, <1>6 DEF ReachesCaller, Caller
  <2>1. PICK i \in DOMAIN calls : index[Caller(i)] <= index[x] /\ To(adjacency, x, Caller(i))
    BY <1>0 DEF ReachesCaller, R
  <2>2. i # L
    BY <1>1, <1>10, <2>1
  <2>. QED BY <1>2, <1>3, <2>1, <2>2
<1>17. CallerReaches'
  BY <1>0, <1>1, <1>2, <1>6 DEF CallerReaches, Caller, R
<1>18. LinksReach'
  <2>. SUFFICES ASSUME NEW x \in R \ S
                PROVE  /\ lowLink[x] \in Nat /\ lowLink[x] <= index[x]
                       /\ \E z \in R \ S : index[z] = lowLink[x] /\ To(adjacency, x, z)
    BY <1>1, <1>6, <1>8 DEF LinksReach
  <2>1. lowLink[x] \in Nat /\ lowLink[x] <= index[x]
    BY <1>0 DEF LinksReach, R
  <2>2. PICK z \in R : index[z] = lowLink[x] /\ To(adjacency, x, z)
    BY <1>0 DEF LinksReach, R
  <2>3. index[x] < index[h] /\ index[x] \in Nat /\ index[h] \in Nat
    BY <1>1, <1>10
  <2>4. index[z] < index[h]
    BY <2>1, <2>2, <2>3
  <2>. QED BY <1>10, <2>1, <2>2, <2>4
<1>19. LinksLeast'
  <2>. SUFFICES ASSUME NEW i \in DOMAIN calls', NEW x \in R \ S,
                       NEW z \in adjacency[x], z \in R \ S,
                       index[calls'[i].name] <= index[x],
                       i < Len(calls') => index[x] < index[calls'[i + 1].name],
                       ~ (x = calls'[i].name /\ z \in calls'[i].todo)
                PROVE  lowLink[calls'[i].name] <= index[z]
    BY <1>1, <1>6, <1>8 DEF LinksLeast, Of, Caller
  <2>1. /\ i \in DOMAIN calls /\ i < L /\ calls'[i].name = Caller(i)
        /\ index[Caller(i)] <= index[x] /\ ~ (x = Caller(i) /\ z \in calls[i].todo)
    BY <1>1, <1>2
  <2>2. index[x] < index[Caller(i + 1)]
    <3>1. CASE i = L - 1
      <4>1. Caller(i + 1) = h
        BY <1>1, <1>3, <3>1
      <4>. QED BY <1>10, <4>1
    <3>2. CASE i # L - 1
      <4>1. i < L - 1 /\ i + 1 \in DOMAIN calls'
        BY <1>3, <2>1, <3>2
      <4>. QED BY <1>2, <1>3, <4>1
    <3>. QED BY <3>1, <3>2
  <2>. QED BY <1>0, <2>1, <2>2 DEF LinksLeast, Of, R
<1>20. CyclesFound'
  <2>. DEFINE C(T) == {Circle(adjacency, n) : n \in {x \in T : x \in Reached(adjacency, x)}}
  <2>1. C(Settled \cup S) = C(Settled) \cup C(S)
    OBVIOUS
  <2>2. C(S) = IF HoldsCycle(S) THEN {S} ELSE {}
    BY <1>7, <1>9
  <2>3. cycles = C(Settled)
    BY <1>0 DEF CyclesFound
  <2>4. cycles' = C(Settled \cup S)
    BY <1>4, <2>1, <2>2, <2>3
  <2>. QED BY <1>1, <1>12, <2>4 DEF CyclesFound
<1>. QED BY <1>1, <1>13, <1>14, <1>15, <1>16, <1>17, <1>18, <1>19, <1>20 DEF SearchInv

\* What the search knows stays true, whichever edges the mods declare: visits,
\* edges looked at, and returns that keep or take off a component.
THEOREM SearchInvariance == SearchSpec => []SearchInv
<1>1. SearchInit => SearchInv
  BY SearchInitial
<1>2. SearchInv /\ [SearchNext]_searchVars => SearchInv'
  <2>. SUFFICES ASSUME SearchInv, [SearchNext]_searchVars PROVE SearchInv'
    OBVIOUS
  <2>1. CASE VisitRoot
    BY <2>1, VisitRootStep
  <2>2. CASE SeeNext
    BY <2>2, SeeNextStep
  <2>3. CASE Return
    BY <2>3, ReturnStays, ReturnTakes
  <2>4. CASE UNCHANGED searchVars
    BY <2>4 DEF searchVars, SearchInv, SearchTypeOK, NumbersFit, StackFits, CallsFit, LookedAt,
                SettledClosed, ReachesCaller, CallerReaches, LinksReach, LinksLeast, CyclesFound,
                Visited, Settled, Caller, Of
  <2>. QED BY <2>1, <2>2, <2>3, <2>4 DEF SearchNext
<1>. QED BY <1>1, <1>2, PTL DEF SearchSpec

\* findCycles reports the components that hold a cycle, each complete, none twice
\* and no other, for any edges between any mods.
THEOREM CyclesAllFound == SearchSpec => []FindsCycles
<1>1. SearchInv => FindsCycles
  <2>. SUFFICES ASSUME SearchInv, calls = <<>>, Unvisited = {} PROVE cycles = Components
    BY DEF FindsCycles
  <2>1. Visited = Nodes
    BY DEF Visited, Unvisited
  <2>2. Range(stack) = {}
    BY EmptySeq DEF SearchInv, ReachesCaller
  <2>. QED BY <2>1, <2>2 DEF SearchInv, CyclesFound, Settled, Components
<1>. QED BY <1>1, SearchInvariance, PTL

-----------------------------------------------------------------------------
(***************************************************************************)
(* What the planner takes for granted of it.                               *)
(***************************************************************************)
\* The edges that resolve hands to findCycles.
EdgesOfActive ==
    /\ Active \subseteq Nodes
    /\ adjacency = [n \in Nodes |-> IF n \in Active THEN After(n) ELSE {}]

LEMMA ReachedIsLeastClosed ==
  ASSUME EdgesOfActive, NEW n \in Active, NEW x
  PROVE  x \in Reached(adjacency, n) <=> x \in LeastClosed(After(n), Active, After)
<1>1. \A m \in Active : m \in Nodes /\ adjacency[m] = After(m) /\ After(m) \subseteq Active
  BY DEF EdgesOfActive, After
<1>2. \A m \in Nodes \ Active : adjacency[m] = {}
  BY DEF EdgesOfActive
<1>3. ASSUME x \in Reached(adjacency, n) PROVE x \in LeastClosed(After(n), Active, After)
  <2>1. \A T \in SUBSET Active : After(n) \subseteq T /\ (\A m \in T : After(m) \subseteq T) => x \in T
    <3>. SUFFICES ASSUME NEW T \in SUBSET Active, After(n) \subseteq T, \A m \in T : After(m) \subseteq T
                  PROVE  x \in T
      OBVIOUS
    <3>. QED BY <1>1, <1>3 DEF Reached
  <2>2. x \in Active
    <3>1. After(n) \subseteq Active /\ \A m \in Active : After(m) \subseteq Active
      BY <1>1
    <3>. QED BY <2>1, <3>1
  <2>. QED BY <2>1, <2>2 DEF LeastClosed
<1>4. ASSUME x \in LeastClosed(After(n), Active, After) PROVE x \in Reached(adjacency, n)
  <2>1. x \in Active /\ \A T \in SUBSET Active :
           After(n) \subseteq T /\ (\A m \in T : After(m) \subseteq T) => x \in T
    BY <1>4 DEF LeastClosed
  <2>2. ASSUME NEW T \in SUBSET Nodes, adjacency[n] \subseteq T, \A m \in T : adjacency[m] \subseteq T
        PROVE  x \in T
    <3>1. After(n) \subseteq T \cap Active /\ \A m \in T \cap Active : After(m) \subseteq T \cap Active
      BY <1>1, <2>2
    <3>. QED BY <2>1, <3>1
  <2>. QED BY <1>1, <2>1, <2>2 DEF Reached
<1>. QED BY <1>3, <1>4

\* When the search ends, the members of the components it has found are the
\* mods that the planner rejects as Cyclic: the definition the planner has in
\* place of findCycles is what findCycles computes.
THEOREM SearchFindsCyclic ==
  SearchSpec => [](calls = <<>> /\ Unvisited = {} /\ EdgesOfActive => UNION cycles = Cyclic)
<1>1. FindsCycles => (calls = <<>> /\ Unvisited = {} /\ EdgesOfActive => UNION cycles = Cyclic)
  <2>. SUFFICES ASSUME cycles = Components, EdgesOfActive PROVE UNION cycles = Cyclic
    BY DEF FindsCycles
  <2>1. \A n \in Nodes : n \in Active \/ adjacency[n] = {}
    BY DEF EdgesOfActive
  <2>2. /\ adjacency \in [Nodes -> SUBSET Nodes] /\ Active \subseteq Nodes
    BY DEF EdgesOfActive, After
  <2>3. \A n \in Nodes : n \in Reached(adjacency, n) => n \in Active
    <3>. SUFFICES ASSUME NEW n \in Nodes, adjacency[n] = {} PROVE n \notin Reached(adjacency, n)
      BY <2>1
    <3>. QED BY DEF Reached
  <2>4. \A n \in Nodes : n \in Reached(adjacency, n) <=> n \in Cyclic
    BY <2>3, ReachedIsLeastClosed DEF Cyclic
  <2>5. ASSUME NEW n \in Nodes, n \in Reached(adjacency, n), NEW m \in Circle(adjacency, n)
        PROVE  m \in Cyclic
    <3>1. m \in Nodes /\ m \in Reached(adjacency, m)
      BY <2>2, <2>5, CirclesAgree DEF Circle
    <3>. QED BY <2>4, <3>1
  <2>6. ASSUME NEW n \in Cyclic PROVE n \in UNION Components
    <3>1. n \in Nodes /\ n \in Reached(adjacency, n)
      BY <2>2, <2>4 DEF Cyclic
    <3>2. n \in Circle(adjacency, n)
      BY <3>1 DEF Circle
    <3>. QED BY <3>1, <3>2 DEF Components
  <2>. QED BY <2>5, <2>6 DEF Components
<1>. QED BY <1>1, CyclesAllFound, PTL
=============================================================================
