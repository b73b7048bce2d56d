---------------------------- MODULE MCExecutors ----------------------------
(***************************************************************************)
(* What hangs on the level's tick, the executor of the server thread and   *)
(* the sleeps of other threads, and a stream of values to a coroutine that *)
(* an executor resumes.  They share no state: in a behaviour one of them   *)
(* moves.                                                                  *)
(* Three works: enough that a tick leaves some and one is submitted by     *)
(* another.  Three values: a first, one in between and a last.             *)
(***************************************************************************)
EXTENDS TickExecutor, TickSyncSleep, CallbackTransformer

CONSTANT Parts   \* what moves: one of these in each behaviour

VARIABLE part

allVars == <<vars, sleepVars, streamVars, part>>

MCInit == Init /\ SleepInit /\ StreamInit /\ part \in Parts
MCNext ==
    \/ part = "tick" /\ Next /\ UNCHANGED <<sleepVars, streamVars, part>>
    \/ part = "sleep" /\ SleepNext /\ UNCHANGED <<vars, streamVars, part>>
    \/ part = "stream" /\ StreamNext /\ UNCHANGED <<vars, sleepVars, part>>
MCSpec == MCInit /\ [][MCNext]_allVars

\* Each part is fair as its module says.
MCFairSpec ==
    /\ MCSpec
    /\ WF_vars(part = "tick" /\ TickThread)
    /\ \A c \in Actors : WF_vars(part = "tick" /\ Emplace(c))
    /\ WF_sleepVars(part = "sleep" /\ Tick)
    /\ WF_sleepVars(part = "sleep" /\ Look)
    /\ WF_sleepVars(part = "sleep" /\ Compare)
    /\ WF_sleepVars(part = "sleep" /\ TimeIsUp)
    /\ WF_sleepVars(part = "sleep" /\ Wake)
    /\ WF_streamVars(part = "stream" /\ Setter)
    /\ WF_streamVars(part = "stream" /\ Coroutine)
    /\ WF_streamVars(part = "stream" /\ Suspending)
=============================================================================
