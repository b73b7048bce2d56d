---------------------------- MODULE MCThreadPool ----------------------------
(***************************************************************************)
(* Small pools: one Impl with more work, and two with a resize between;    *)
(* and the queue their schedulers use.  The two share no state, since the  *)
(* pool takes the queue's calls as atomic: in a behaviour one of them      *)
(* moves.                                                                  *)
(***************************************************************************)
EXTENDS ThreadPool, ConcurrentPriorityQueue

CONSTANT Parts   \* what moves: one of these in each behaviour

VARIABLE part

MCInit == Init /\ QueueInit /\ part \in Parts
MCNext ==
    \/ part = "pool" /\ Next /\ UNCHANGED <<cpqVars, part>>
    \/ part = "queue" /\ QueueNext /\ UNCHANGED <<vars, part>>
MCSpec == MCInit /\ [][MCNext]_<<vars, cpqVars, part>>
MCFairSpec ==
    /\ MCSpec
    /\ WF_vars(part = "pool" /\ ~ crashed /\ Internal)
    /\ \A t \in Threads : WF_cpqVars(part = "queue" /\ Step(t))

Priorities == 1 .. 3
UrgentEnough == {{3}}   \* what a try_pop_if accepts
Symmetry == Permutations(Works) \cup Permutations(Workers) \cup Permutations(Threads)
=============================================================================
