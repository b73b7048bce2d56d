--------------------------- MODULE ModLoadPlanner ---------------------------
(***************************************************************************)
(* ll::mod::ModLoadPlanner::resolve, loop by loop: which of the manifests  *)
(* that loadAllMods read from disk are loaded, in which order, and why the *)
(* others are not.  ModManifest states the result without these loops.     *)
(***************************************************************************)
EXTENDS ModManifest, FiniteSetsExt, SequencesExt

CONSTANTS
    NoManifest,   \* stands for a name that is not on disk
    Rank          \* the order of names as strings

ASSUME RankAssumption ==
    /\ NoManifest \notin Manifests
    /\ Rank \in [Mods -> Nat]
    /\ \A x, y \in Mods : Rank[x] = Rank[y] => x = y

NoIssue == "none"
Issues == {"MissingDependency", "IncompatibleDependencyVersion", "IncompatiblePlatform",
           "Conflict", "DependencyUnavailable", "DependencyCycle"}

VARIABLES
    manifests,    \* the manifest read for each name, else NoManifest
    phase,        \* the loop that runs
    pending,      \* names to visit (the queue may hold a name twice)
    candidates,   \* names visited
    rejected,     \* the ModLoadIssueKind of each rejected name
    indegree, ready, order,   \* of topologicalSort
    lifecycle     \* lifecycleDependencies of each name

vars == <<manifests, phase, pending, candidates, rejected, indegree, ready, order, lifecycle>>
sortVars == <<indegree, ready, order>>

Names == {n \in Mods : manifests[n] # NoManifest}

TypeOK ==
    /\ manifests \in [Mods -> Manifests \cup {NoManifest}]
    /\ \A n \in Names : manifests[n].name = n
    /\ phase \in {"read", "collect", "platform", "conflict", "propagate", "sort", "done"}
    /\ pending \subseteq Names
    /\ candidates \subseteq Names
    /\ rejected \in [Mods -> Issues \cup {NoIssue}]
    /\ indegree \in [Mods -> Nat]
    /\ ready \subseteq Names
    /\ order \in Seq(Names)
    /\ lifecycle \in [Mods -> SUBSET Names]

-----------------------------------------------------------------------------
First(S) == CHOOSE n \in S : \A m \in S : Rank[n] <= Rank[m]
Active == {n \in candidates : rejected[n] = NoIssue}

\* The names of S that a list of dependencies finds.
FoundIn(deps, S) ==
    {d.name : d \in {e \in deps : e.name \in S /\ MatchesDependency(manifests[e.name], e)}}

\* try_emplace: the first issue of a mod stands.
Reject(S, issue) ==
    rejected' = [n \in Mods |-> IF n \in S /\ rejected[n] = NoIssue THEN issue
                                                                     ELSE rejected[n]]

\* The edges between active mods; each is counted once.
After(x) ==
    {y \in Active : \/ x \in FoundIn(manifests[y].dependencies, Active)
                    \/ x \in FoundIn(manifests[y].optionalDependencies, Active)
                    \/ y \in FoundIn(manifests[x].loadBefore, Active)}

\* findCycles: the strongly connected components with an edge inside, here
\* with their members joined.  (Module FindCycles has the algorithm.)
Cyclic == {n \in Active : n \in LeastClosed(After(n), Active, After)}

-----------------------------------------------------------------------------
Init ==
    /\ manifests = [n \in Mods |-> NoManifest]
    /\ phase = "read"
    /\ pending = {}
    /\ candidates = {}
    /\ rejected = [n \in Mods |-> NoIssue]
    /\ indegree = [n \in Mods |-> 0]
    /\ ready = {}
    /\ order = <<>>
    /\ lifecycle = [n \in Mods |-> {}]

\* loadAllMods reads a directory; the first manifest of a name stands.
Read(mf) ==
    /\ phase = "read"
    /\ mf.name \notin Names
    /\ manifests' = [manifests EXCEPT ![mf.name] = mf]
    /\ UNCHANGED <<phase, pending, candidates, rejected, sortVars, lifecycle>>

\* resolve is called; the roots are the mods that are not passive.
Resolve ==
    /\ phase = "read"
    /\ phase' = "collect"
    /\ pending' = {n \in Names : ~ manifests[n].passive}
    /\ UNCHANGED <<manifests, candidates, rejected, sortVars, lifecycle>>

\* The issue of n's first dependency that is not on disk as declared.  The
\* order of the list is abstracted away.
OwnIssue(n) ==
    LET deps    == manifests[n].dependencies
        missing == \E d \in deps : d.name \notin Names
        wrong   == \E d \in deps : d.name \in Names /\ d.name \notin FoundIn({d}, Names)
    IN  IF missing \/ wrong
        THEN {i \in Issues : \/ i = "MissingDependency" /\ missing
                             \/ i = "IncompatibleDependencyVersion" /\ wrong}
        ELSE {NoIssue}

Visit ==
    /\ phase = "collect"
    /\ pending # {}
    /\ LET n == First(pending) IN
           IF n \in candidates
           THEN /\ pending' = pending \ {n}
                /\ UNCHANGED <<candidates, rejected>>
           ELSE /\ candidates' = candidates \cup {n}
                /\ pending' = (pending \ {n})
                       \cup FoundIn(manifests[n].dependencies, Names)
                       \cup FoundIn(manifests[n].optionalDependencies, Names)
                /\ \E i \in OwnIssue(n) : Reject({n}, i)
    /\ UNCHANGED <<manifests, phase, sortVars, lifecycle>>

VisitDone ==
    /\ phase = "collect"
    /\ pending = {}
    /\ phase' = "platform"
    /\ UNCHANGED <<manifests, pending, candidates, rejected, sortVars, lifecycle>>

CheckPlatform ==
    /\ phase = "platform"
    /\ phase' = "conflict"
    /\ Reject({n \in candidates : ~ manifests[n].platformCompatible}, "IncompatiblePlatform")
    /\ UNCHANGED <<manifests, pending, candidates, sortVars, lifecycle>>

\* A conflict with a candidate counts even if that one is itself rejected.
CheckConflicts ==
    /\ phase = "conflict"
    /\ phase' = "propagate"
    /\ Reject({n \in candidates : FoundIn(manifests[n].conflicts, candidates) # {}}, "Conflict")
    /\ UNCHANGED <<manifests, pending, candidates, sortVars, lifecycle>>

Unsupported == {n \in Active : \E d \in manifests[n].dependencies : d.name \notin Active}

\* propagateUnavailableDependencies rejects one mod; its passes are abstracted.
Propagate ==
    /\ phase = "propagate"
    /\ \E n \in Unsupported : Reject({n}, "DependencyUnavailable")
    /\ UNCHANGED <<manifests, phase, pending, candidates, sortVars, lifecycle>>

\* (Mutant: sorting starts before a pass over the mods has changed nothing.)
BugBuildEdges ==
    /\ phase = "propagate"
    /\ phase' = "sort"
    /\ indegree' = [n \in Mods |-> Cardinality({x \in Active : n \in After(x)})]
    /\ ready' = {n \in Active : indegree'[n] = 0}
    /\ order' = <<>>
    /\ UNCHANGED <<manifests, pending, candidates, rejected, lifecycle>>
BuildEdges ==
    /\ phase = "propagate"
    /\ Unsupported = {}
    /\ phase' = "sort"
    /\ indegree' = [n \in Mods |-> Cardinality({x \in Active : n \in After(x)})]
    /\ ready' = {n \in Active : indegree'[n] = 0}
    /\ order' = <<>>
    /\ UNCHANGED <<manifests, pending, candidates, rejected, lifecycle>>

\* (Mutant: any ready mod may come next.)
BugTake ==
    /\ phase = "sort"
    /\ \E n \in ready :
           /\ order' = Append(order, n)
           /\ indegree' = [m \in Mods |-> IF m \in After(n) THEN indegree[m] - 1
                                                             ELSE indegree[m]]
           /\ ready' = (ready \ {n}) \cup {m \in After(n) : indegree[m] = 1}
    /\ UNCHANGED <<manifests, phase, pending, candidates, rejected, lifecycle>>
Take ==
    /\ phase = "sort"
    /\ ready # {}
    /\ LET n == First(ready) IN
           /\ order' = Append(order, n)
           /\ indegree' = [m \in Mods |-> IF m \in After(n) THEN indegree[m] - 1
                                                             ELSE indegree[m]]
           /\ ready' = (ready \ {n}) \cup {m \in After(n) : indegree[m] = 1}
    /\ UNCHANGED <<manifests, phase, pending, candidates, rejected, lifecycle>>

Complete == Len(order) = Cardinality(Active)

Sorted ==
    /\ phase = "sort"
    /\ ready = {}
    /\ Complete
    /\ phase' = "done"
    /\ lifecycle' = [n \in Mods |->
           IF n \in Range(order)
           THEN FoundIn(manifests[n].dependencies \cup manifests[n].optionalDependencies,
                        Range(order))
           ELSE {}]
    /\ UNCHANGED <<manifests, pending, candidates, rejected, sortVars>>

\* (Mutant: whatever could not be placed is called cyclic.)
BugRejectCycles ==
    /\ phase = "sort"
    /\ ready = {}
    /\ ~ Complete
    /\ Reject(Active \ Range(order), "DependencyCycle")
    /\ phase' = "propagate"
    /\ UNCHANGED <<manifests, pending, candidates, sortVars, lifecycle>>
\* (Mutant: a cycle needs two mods.)
BugOverlookSelfCycle ==
    /\ phase = "sort"
    /\ ready = {}
    /\ ~ Complete
    /\ Reject({n \in Cyclic : After(n) # {n}}, "DependencyCycle")
    /\ phase' = "propagate"
    /\ UNCHANGED <<manifests, pending, candidates, sortVars, lifecycle>>
RejectCycles ==
    /\ phase = "sort"
    /\ ready = {}
    /\ ~ Complete
    /\ Reject(IF Cyclic = {} THEN Active \ Range(order) ELSE Cyclic, "DependencyCycle")
    /\ phase' = "propagate"
    /\ UNCHANGED <<manifests, pending, candidates, sortVars, lifecycle>>

Next ==
    \/ (\E mf \in Manifests : Read(mf))
    \/ Resolve \/ Visit \/ VisitDone \/ CheckPlatform \/ CheckConflicts \/ Propagate
    \/ BuildEdges \/ Take \/ Sorted \/ RejectCycles

\* resolve is called and runs until it returns.
Spec == Init /\ [][Next]_vars

\* The thread that calls resolve runs on, and the directory is finite.
FairSpec == Spec /\ WF_vars(Next)

-----------------------------------------------------------------------------
Disk == Range(manifests) \ {NoManifest}
Placed == {manifests[n] : n \in Range(order)}

\* The result is a plan the contract allows: the loops find neither more nor
\* fewer mods than it defines, and list each after what it must follow.
PlanMeetsContract ==
    phase = "done" => [i \in DOMAIN order |-> manifests[order[i]]] \in Plans(Disk)

\* Among the orders the contract allows, the first by name is taken, so the
\* hash order of the containers never decides.
OrderIsFirst ==
    phase = "done" =>
        \A other \in Plans(Disk) : \A i \in DOMAIN order :
            (\A j \in 1 .. i - 1 : other[j] = manifests[order[j]])
                => Rank[order[i]] <= Rank[other[i].name]

\* What resolve finds of a mod on its own account.
OwnGenuine(n) ==
    /\ rejected[n] = "MissingDependency" =>
           \E d \in manifests[n].dependencies : d.name \notin Names
    /\ rejected[n] = "IncompatibleDependencyVersion" =>
           \E d \in manifests[n].dependencies :
               d.name \in Names /\ ~ MatchesDependency(manifests[d.name], d)
    /\ rejected[n] = "IncompatiblePlatform" => ~ manifests[n].platformCompatible

\* What a user is told about a rejected mod is so, each of the six kinds of
\* issue, and only mods that would be loaded are rejected at all.
IssuesGenuine ==
    \A n \in Names :
        /\ rejected[n] # NoIssue => n \in candidates
        /\ OwnGenuine(n)
        /\ rejected[n] = "Conflict" => Targets(Candidates(Disk), manifests[n].conflicts) # {}
        /\ rejected[n] = "DependencyUnavailable" =>
               \E d \in manifests[n].dependencies : d.name \notin Active
        /\ rejected[n] = "DependencyCycle" => OnCycle(Disk, manifests[n])
=============================================================================
