-------------------------- MODULE ExecutorContract --------------------------
(***************************************************************************)
(* What ll::coro::Executor promises of a function it is given, whichever   *)
(* executor it is: the function is called at most once, executeAfter does  *)
(* not call it before its time, and a cancel() that answers true is final. *)
(***************************************************************************)
EXTENDS Naturals

CONSTANTS
    Works,     \* the functions given to the executor
    Times      \* the times that executeAfter may be given

VARIABLES
    state,   \* what became of each function
    due,     \* when executeAfter may call it; 0 for execute
    clock    \* in the executor's unit of time

vars == <<state, due, clock>>

Become(W, s) == state' = [w \in Works |-> IF w \in W THEN s ELSE state[w]]

Init ==
    /\ state = [w \in Works |-> "new"]
    /\ due = [w \in Works |-> 0]
    /\ clock = 0

Execute(w) ==
    /\ state[w] = "new"
    /\ Become({w}, "accepted")
    /\ UNCHANGED <<due, clock>>

ExecuteAfter(w, t) ==
    /\ state[w] = "new" /\ t > clock
    /\ Become({w}, "accepted")
    /\ due' = [due EXCEPT ![w] = t]
    /\ UNCHANGED clock

Call(w) ==
    /\ state[w] = "accepted" /\ due[w] <= clock
    /\ Become({w}, "called")
    /\ UNCHANGED <<due, clock>>

\* Only what executeAfter accepted can be cancelled, and its handle may
\* outlive the executor.
Cancel(w) ==
    /\ state[w] \in {"accepted", "dropped"} /\ due[w] # 0
    /\ Become({w}, "cancelled")
    /\ UNCHANGED <<due, clock>>

\* The executor goes, with functions it has not called.
Drop(W) ==
    /\ \A w \in W : state[w] = "accepted"
    /\ Become(W, "dropped")
    /\ UNCHANGED <<due, clock>>

Tick == clock' = clock + 1 /\ UNCHANGED <<state, due>>

Next ==
    \/ \E w \in Works :
        \/ Execute(w) \/ Call(w) \/ Cancel(w)
        \/ \E t \in Times : ExecuteAfter(w, t)
    \/ \E W \in SUBSET Works : Drop(W)
    \/ Tick

Spec == Init /\ [][Next]_vars
=============================================================================
