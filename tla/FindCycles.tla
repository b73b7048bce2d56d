----------------------------- MODULE FindCycles -----------------------------
(***************************************************************************)
(* findCycles of ModLoadPlanner.cpp: Tarjan's algorithm over the edges     *)
(* between active mods.  The recursion of `visit` is the stack `calls` of  *)
(* its frames: the mod visited, and the successors still to look at.       *)
(***************************************************************************)
EXTENDS Integers, Sequences, FiniteSets, SequencesExt

CONSTANTS
    Nodes,   \* names of mods
    NodeRank,    \* their order as strings
    Unset,   \* the index of a mod not yet visited
    Graphs   \* the adjacencies to be searched

ASSUME FindCyclesAssumption ==
    /\ IsFiniteSet(Nodes)
    /\ NodeRank \in [Nodes -> Nat]
    /\ \A x, y \in Nodes : NodeRank[x] = NodeRank[y] => x = y
    /\ Unset \notin Nat
    /\ Graphs \subseteq [Nodes -> SUBSET Nodes]

VARIABLES
    adjacency,   \* the successors of each name
    index, lowLink,
    stack,       \* names not yet in a component; `onStack` is its range
    nextIndex,
    calls,       \* frames of visit, the innermost last
    cycles       \* components found that hold a cycle

searchVars == <<adjacency, index, lowLink, stack, nextIndex, calls, cycles>>

FirstNode(S) == CHOOSE n \in S : \A m \in S : NodeRank[n] <= NodeRank[m]
OnStack(n) == n \in Range(stack)
Unvisited == {n \in Nodes : index[n] = Unset}
Lower(x, y) == IF x < y THEN x ELSE y
Frame == Last(calls)
\* The frames once the innermost has dealt with the successor n.
Without(n) == Front(calls) \o <<[Frame EXCEPT !.todo = @ \ {n}]>>

SearchInit ==
    /\ adjacency \in Graphs
    /\ index = [n \in Nodes |-> Unset]
    /\ lowLink = [n \in Nodes |-> Unset]
    /\ stack = <<>>
    /\ nextIndex = 0
    /\ calls = <<>>
    /\ cycles = {}

\* visit(n), from `before` frames, up to its loop.
Enter(n, before) ==
    /\ index' = [index EXCEPT ![n] = nextIndex]
    /\ lowLink' = [lowLink EXCEPT ![n] = nextIndex]
    /\ nextIndex' = nextIndex + 1
    /\ stack' = Append(stack, n)
    /\ calls' = Append(before, [name |-> n, todo |-> adjacency[n]])

VisitRoot ==
    /\ calls = <<>>
    /\ Unvisited # {}
    /\ Enter(FirstNode(Unvisited), <<>>)
    /\ UNCHANGED <<adjacency, cycles>>

\* An unvisited successor is visited, a component mate lowers the link.
\* (Mutant: any visited successor does.)
BugSeeNext ==
    /\ calls # <<>>
    /\ Frame.todo # {}
    /\ LET n == FirstNode(Frame.todo) IN
           IF index[n] = Unset
           THEN Enter(n, Without(n))
           ELSE /\ lowLink' = [lowLink EXCEPT ![Frame.name] = Lower(@, index[n])]
                /\ calls' = Without(n)
                /\ UNCHANGED <<index, stack, nextIndex>>
    /\ UNCHANGED <<adjacency, cycles>>
SeeNext ==
    /\ calls # <<>>
    /\ Frame.todo # {}
    /\ LET n == FirstNode(Frame.todo) IN
           IF index[n] = Unset
           THEN Enter(n, Without(n))
           ELSE /\ lowLink' = IF OnStack(n)
                              THEN [lowLink EXCEPT ![Frame.name] = Lower(@, index[n])]
                              ELSE lowLink
                /\ calls' = Without(n)
                /\ UNCHANGED <<index, stack, nextIndex>>
    /\ UNCHANGED <<adjacency, cycles>>

\* The names on the stack from n up: a component when n is its root.
Above(n) == {stack[i] : i \in {j \in DOMAIN stack : index[stack[j]] >= index[n]}}
HoldsCycle(S) == Cardinality(S) > 1 \/ \E n \in S : n \in adjacency[n]

\* visit returns; its caller takes over the link.
Return ==
    /\ calls # <<>>
    /\ Frame.todo = {}
    /\ LET n == Frame.name
           S == IF lowLink[n] = index[n] THEN Above(n) ELSE {}
       IN  /\ stack' = SubSeq(stack, 1, Len(stack) - Cardinality(S))
           /\ cycles' = IF HoldsCycle(S) THEN cycles \cup {S} ELSE cycles
           /\ lowLink' = IF Len(calls) = 1 THEN lowLink
                         ELSE [lowLink EXCEPT ![calls[Len(calls) - 1].name] =
                                   Lower(@, lowLink[n])]
    /\ calls' = Front(calls)
    /\ UNCHANGED <<adjacency, index, nextIndex>>

SearchNext == VisitRoot \/ SeeNext \/ Return
SearchSpec == SearchInit /\ [][SearchNext]_searchVars

-----------------------------------------------------------------------------
\* What can be reached from n by one edge or more: what is in every set that
\* has the successors of n and those of its members.
Reached(g, n) ==
    {x \in Nodes : \A T \in SUBSET Nodes :
        g[n] \subseteq T /\ (\A m \in T : g[m] \subseteq T) => x \in T}

\* A name and all that reach it and are reached from it, if it reaches itself.
Circle(g, n) == {m \in Nodes : m \in Reached(g, n) /\ n \in Reached(g, m)}
Components == {Circle(adjacency, n) : n \in {x \in Nodes : x \in Reached(adjacency, x)}}

\* The search ends with the cycles, each complete and none twice: every mod in
\* a cycle is told of it, and no mod outside is.
FindsCycles == calls = <<>> /\ Unvisited = {} => cycles = Components

=============================================================================
