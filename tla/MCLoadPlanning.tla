--------------------------- MODULE MCLoadPlanning ---------------------------
(* resolve, and the search for cycles that it calls.  They share no state: in *)
(* a behaviour one of them runs.                                              *)
(* Three names; a manifest requires any set of them and declares one relation *)
(* more, in a range that accepts the other's version or does not.  The search *)
(* gets every graph on four, without loops but for one at c.                  *)
EXTENDS ModLoadPlanner, FindCycles

CONSTANTS a, b, c, d, NativeType

VARIABLE searching

MCInit ==
    /\ Init /\ SearchInit
    /\ searching \in BOOLEAN
    /\ ~ searching => adjacency = [n \in Nodes |-> {}]
MCNext ==
    \/ ~ searching /\ Next /\ UNCHANGED <<searchVars, searching>>
    \/ searching /\ SearchNext /\ UNCHANGED <<vars, searching>>
MCSpec ==
    /\ MCInit /\ [][MCNext]_<<vars, searchVars, searching>>
    /\ WF_vars(~ searching /\ Next)

\* resolve returns: each round rejects something.
ResolveReturns == ~ searching ~> phase = "done"

MCNodes == {a, b, c, d}
MCNodeRank == (a :> 0) @@ (b :> 1) @@ (c :> 2) @@ (d :> 3)
MCUnset == -1
MCGraphs == {g \in [MCNodes -> SUBSET MCNodes] : \A n \in MCNodes \ {c} : n \notin g[n]}

MCMods == {a, b, c}
MCVersions == {1}
MCTypes == {NativeType}
MCRank == (a :> 0) @@ (b :> 1) @@ (c :> 2)

MCPlain(m) ==
    [name |-> m, version |-> 1, type |-> NativeType, platformCompatible |-> TRUE,
     passive |-> FALSE, dependencies |-> {}, optionalDependencies |-> {},
     conflicts |-> {}, loadBefore |-> {}]
MCDep(m) == [name |-> m, range |-> NoRange]
MCDeps(S) == {MCDep(m) : m \in S}
MCNeeds(m, S) == [MCPlain(m) EXCEPT !.dependencies = MCDeps(S)]
MCFields == {"dependencies", "optionalDependencies", "conflicts", "loadBefore"}

MCOfA == {MCNeeds(a, S) : S \in {{a}, {b}, {b, c}}}
         \cup {[MCPlain(a) EXCEPT !.passive = TRUE]}
         \cup {[p EXCEPT ![f] = @ \cup {x}] :
                  p \in {MCPlain(a), MCNeeds(a, {c})}, f \in MCFields,
                  x \in [name : {b, c}, range : {NoRange, {}}]}
MCOfB == {MCNeeds(b, S) : S \in {{}, {a}, {c}}}
         \cup {[MCNeeds(b, {c}) EXCEPT !.passive = TRUE]}
         \cup {[MCPlain(b) EXCEPT !.conflicts = {MCDep(m)}] : m \in {a, c}}
MCOfC == {MCNeeds(c, S) : S \in {{}, {a}, {b}}}
         \cup {[MCPlain(c) EXCEPT !.loadBefore = {MCDep(m)}] : m \in {a, b}}
         \cup {[MCPlain(c) EXCEPT !.platformCompatible = FALSE],
               [MCNeeds(c, {a}) EXCEPT !.passive = TRUE]}
MCManifests == MCOfA \cup MCOfB \cup MCOfC
=============================================================================
