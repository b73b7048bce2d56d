------------------------ MODULE CallbackTransformer ------------------------
(***************************************************************************)
(* ll::coro::CallbackTransformer: a thread that holds the ValueSetter      *)
(* hands values, one at a time, to a coroutine that iterates over them.    *)
(* A semaphore tells the thread that the coroutine is ready for a value; a *)
(* handle left in the shared Data tells whom to resume.  The coroutine may *)
(* be resumed by another thread while the rest of await_suspend still runs *)
(* on the one that suspended it.                                           *)
(***************************************************************************)
EXTENDS Naturals, Sequences

CONSTANTS
    MaxValue,   \* the values are 1 .. MaxValue, in order
    MaxSeen     \* bound: how many deliveries are written down

ASSUME CallbackTransformerAssumption ==
    MaxValue \in Nat \ {0} /\ MaxSeen \in Nat /\ MaxSeen > MaxValue

None == 0

VARIABLES
    finished,   \* Data::finished
    handle,     \* Data::handle is set
    value,      \* Data::value, or None
    sem,        \* Data::sem
    queued,     \* the executor has the handle
    setter,     \* what the thread with the ValueSetter does
    nextValue,  \* the value it sends next
    coro,       \* what the coroutine does
    tail,       \* what is left of await_suspend
    seen        \* the values the coroutine was given

dataVars == <<finished, handle, value, sem>>
streamVars == <<dataVars, queued, setter, nextValue, coro, tail, seen>>

StreamTypeOK ==
    /\ finished \in BOOLEAN /\ handle \in BOOLEAN /\ queued \in BOOLEAN
    /\ value \in 0 .. MaxValue /\ sem \in Nat /\ nextValue \in 1 .. MaxValue + 1
    /\ setter \in {"idle", "acquire", "set", "wake", "finish", "end", "gone"}
    /\ coro \in {"start", "suspended", "body", "leaving", "ended"}
    /\ tail \in {"none", "begin", "store", "reset", "release"}
    /\ seen \in Seq(0 .. MaxValue)

\* (Mutant: the semaphore starts with a permit.)
BugInit ==
    /\ finished = FALSE /\ handle = FALSE /\ value = None /\ sem = 1
    /\ queued = FALSE /\ setter = "idle" /\ nextValue = 1
    /\ coro = "start" /\ tail = "none" /\ seen = << >>
StreamInit ==
    /\ finished = FALSE /\ handle = FALSE /\ value = None /\ sem = 0
    /\ queued = FALSE /\ setter = "idle" /\ nextValue = 1
    /\ coro = "start" /\ tail = "none" /\ seen = << >>

-----------------------------------------------------------------------------
\* The thread goes on as long as finished() is false and it has values,
More ==
    /\ setter = "idle" /\ ~ finished /\ nextValue <= MaxValue
    /\ setter' = "acquire"
    /\ UNCHANGED <<dataVars, queued, nextValue, coro, tail, seen>>

\* emplace waits for the coroutine,
Acquire ==
    /\ setter = "acquire" /\ sem > 0
    /\ sem' = sem - 1
    /\ setter' = "set"
    /\ UNCHANGED <<finished, handle, value, queued, nextValue, coro, tail, seen>>

Set ==
    /\ setter = "set"
    /\ value' = nextValue
    /\ nextValue' = nextValue + 1
    /\ setter' = "wake"
    /\ UNCHANGED <<finished, handle, sem, queued, coro, tail, seen>>

\* Data::execute takes the handle, if there is one, and passes it on.
PassOn ==
    /\ handle' = FALSE
    /\ queued' = (queued \/ handle)

WakeCoroutine ==
    /\ setter = "wake"
    /\ PassOn
    /\ setter' = "idle"
    /\ UNCHANGED <<finished, value, sem, nextValue, coro, tail, seen>>

\* ~ValueSetter: whenever the thread has no more to say.
Finish ==
    /\ setter = "idle"
    /\ finished' = TRUE
    /\ setter' = "end"
    /\ UNCHANGED <<handle, value, sem, queued, nextValue, coro, tail, seen>>

StreamEnds ==
    /\ setter = "end"
    /\ PassOn
    /\ setter' = "gone"
    /\ UNCHANGED <<finished, value, sem, nextValue, coro, tail, seen>>

-----------------------------------------------------------------------------
\* await_resume: the iterator is end() if the stream has finished and holds
\* no value; otherwise the body of the loop gets the value.
AwaitResume ==
    IF finished /\ value = None
    THEN coro' = "ended" /\ seen' = seen
    ELSE /\ coro' = "body"
         /\ seen' = IF Len(seen) < MaxSeen THEN Append(seen, value) ELSE seen

Suspend(t) ==
    IF finished
    THEN AwaitResume /\ tail' = tail
    ELSE coro' = "suspended" /\ tail' = t /\ seen' = seen

BeginLoop ==
    /\ coro = "start"
    /\ Suspend("begin")
    /\ UNCHANGED <<dataVars, queued, setter, nextValue>>

Increment ==
    /\ coro = "body"
    /\ Suspend("store")
    /\ UNCHANGED <<dataVars, queued, setter, nextValue>>

\* The rest of await_suspend, which only IncAwaiter has reset the value.
Store ==
    /\ tail \in {"begin", "store"}
    /\ handle' = TRUE
    /\ tail' = IF tail = "begin" THEN "release" ELSE "reset"
    /\ UNCHANGED <<finished, value, sem, queued, setter, nextValue, coro, seen>>

Reset ==
    /\ tail = "reset"
    /\ value' = None
    /\ tail' = "release"
    /\ UNCHANGED <<finished, handle, sem, queued, setter, nextValue, coro, seen>>

LetSetterGo ==
    /\ tail = "release"
    /\ sem' = sem + 1
    /\ tail' = "none"
    /\ UNCHANGED <<finished, handle, value, queued, setter, nextValue, coro, seen>>

\* The executor resumes the coroutine.
Resume ==
    /\ queued /\ coro = "suspended"
    /\ queued' = FALSE
    /\ AwaitResume
    /\ UNCHANGED <<dataVars, setter, nextValue, tail>>

\* The coroutine breaks out of the loop: ~Iterator, in two steps.
LeaveLoop ==
    /\ coro = "body"
    /\ finished' = TRUE
    /\ coro' = "leaving"
    /\ UNCHANGED <<handle, value, sem, queued, setter, nextValue, tail, seen>>

\* (Mutant: a thread that waits in emplace is not released.)
BugLeft ==
    /\ coro = "leaving"
    /\ coro' = "ended"
    /\ UNCHANGED <<dataVars, queued, setter, nextValue, tail, seen>>
Left ==
    /\ coro = "leaving"
    /\ sem' = sem + 1
    /\ coro' = "ended"
    /\ UNCHANGED <<finished, handle, value, queued, setter, nextValue, tail, seen>>

-----------------------------------------------------------------------------
Setter == More \/ Acquire \/ Set \/ WakeCoroutine \/ StreamEnds
Coroutine == BeginLoop \/ Increment \/ Resume \/ Left
Suspending == Store \/ Reset \/ LetSetterGo

StreamNext == Setter \/ Finish \/ Coroutine \/ LeaveLoop \/ Suspending

StreamSpec == StreamInit /\ [][StreamNext]_streamVars

\* Threads run on and the executor resumes what it is given; the coroutine
\* need not leave the loop, nor the thread stop sending.
StreamFairSpec ==
    /\ StreamSpec
    /\ WF_streamVars(Setter) /\ WF_streamVars(Coroutine) /\ WF_streamVars(Suspending)

-----------------------------------------------------------------------------
\* As long as the thread keeps its ValueSetter, the coroutine is given every
\* value it sends, once and in order.
OnceInOrder ==
    setter \notin {"end", "gone"} => \A i \in DOMAIN seen : seen[i] = i

\* emplace returns, whether the coroutine goes on or leaves.
EmplaceReturns == setter = "acquire" ~> setter # "acquire"

\* ExecTest.cpp: the loop goes on until iter == transformer.end(), so whoever
\* waits for a value when the ValueSetter goes must be resumed.
EndIsSeen == coro = "suspended" /\ setter = "gone" ~> coro # "suspended"
=============================================================================
