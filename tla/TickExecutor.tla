---------------------------- MODULE TickExecutor ----------------------------
(***************************************************************************)
(* ll::thread::ServerThreadExecutor (and ClientThreadExecutor, its twin):  *)
(* works wait in a queue that the level's tick empties for as long as its  *)
(* budget lasts; executeAfter counts in ticks.  The two queues are         *)
(* linearizable.  Works that run, on the tick's thread, and outside        *)
(* threads submit; nobody does once the owner destroys the executor, which *)
(* may happen in the middle of a tick.                                     *)
(***************************************************************************)
EXTENDS Integers, FiniteSets

CONSTANTS
    Works,      \* functions given to the executor
    Clients,    \* outside threads
    CheckPack,  \* how many works run between two looks at the clock
    MaxFrame,   \* bound: the frame stops counting there, the ticks go on
    NoCall

Actors == Clients \cup Works

ASSUME TickExecutorAssumption ==
    /\ IsFiniteSet(Works) /\ CheckPack \in Nat \ {0} /\ MaxFrame \in Nat
    /\ NoCall \notin Works
    /\ Works \cap {"idle", "popping", "taking", "leaving"} = {}

VARIABLES
    works,       \* SharedImpl::works
    scheduled,   \* SharedImpl::scheduledWorks
    frame,       \* SharedImpl::frame
    now,         \* the local variable of update
    count,       \* works run since update last looked at the clock
    tick,        \* what the tick's thread does; a work when it runs it
    phase,       \* what became of each work
    time,        \* the frame a work is scheduled for; 0 for execute
    avail,       \* works whose CancellableCallback is available
    cancelled,   \* works whose cancel() has answered true
    call,        \* the executeAfter each actor is in
    owned        \* the owner has not destroyed the executor

workVars == <<phase, time, avail, cancelled>>
vars == <<works, scheduled, frame, now, count, tick, workVars, call, owned>>

TypeOK ==
    /\ works \subseteq Works /\ scheduled \subseteq Works
    /\ frame \in 0 .. MaxFrame /\ now \in 0 .. MaxFrame /\ count \in 0 .. CheckPack
    /\ tick \in Works \cup {"idle", "popping", "taking", "leaving"}
    /\ phase \in [Works -> {"new", "scheduled", "popped", "queued", "running", "done", "dropped"}]
    /\ time \in [Works -> 0 .. MaxFrame]
    /\ avail \subseteq Works /\ cancelled \subseteq Works
    /\ call \in [Actors -> Works \cup {NoCall}]
    /\ owned \in BOOLEAN

Unused(w) == phase[w] = "new" /\ \A c \in Actors : call[c] # w

MayCall(c) == owned /\ call[c] = NoCall /\ (c \in Clients \/ tick = c)

SetPhase(w, s) == phase' = [phase EXCEPT ![w] = s]

Init ==
    /\ works = {} /\ scheduled = {} /\ frame = 0 /\ now = 0 /\ count = 0
    /\ tick = "idle"
    /\ phase = [w \in Works |-> "new"] /\ time = [w \in Works |-> 0]
    /\ avail = {} /\ cancelled = {}
    /\ call = [c \in Actors |-> NoCall]
    /\ owned = TRUE

-----------------------------------------------------------------------------
\* execute, and executeAfter with a duration that rounds up to no tick.
Execute(c, w) ==
    /\ MayCall(c) /\ Unused(w)
    /\ works' = works \cup {w}
    /\ SetPhase(w, "queued")
    /\ UNCHANGED <<scheduled, frame, now, count, tick, time, avail, cancelled,
                   call, owned>>

\* executeAfter reads the frame,
ReadFrame(c, w, ticks) ==
    /\ MayCall(c) /\ Unused(w) /\ frame + ticks <= MaxFrame
    /\ time' = [time EXCEPT ![w] = frame + ticks]
    /\ call' = [call EXCEPT ![c] = w]
    /\ UNCHANGED <<works, scheduled, frame, now, count, tick, phase, avail,
                   cancelled, owned>>

\* then emplaces the work; ticks may have come between.
Emplace(c) ==
    /\ call[c] # NoCall
    /\ scheduled' = scheduled \cup {call[c]}
    /\ avail' = avail \cup {call[c]}
    /\ SetPhase(call[c], "scheduled")
    /\ call' = [call EXCEPT ![c] = NoCall]
    /\ UNCHANGED <<works, frame, now, count, tick, time, cancelled, owned>>

\* CancellableCallback::cancel, by whoever holds what executeAfter returned.
Cancel(w) ==
    /\ w \in avail
    /\ avail' = avail \ {w}
    /\ cancelled' = cancelled \cup {w}
    /\ UNCHANGED <<works, scheduled, frame, now, count, tick, phase, time, call, owned>>

-----------------------------------------------------------------------------
\* The listener locks its weak_ptr, and update begins.
Begin ==
    /\ tick = "idle" /\ owned
    /\ tick' = "popping" /\ now' = frame /\ count' = 0
    /\ UNCHANGED <<works, scheduled, frame, workVars, call, owned>>

Due == {w \in scheduled : time[w] <= now}
Earliest == {w \in scheduled : \A x \in scheduled : time[w] <= time[x]}

\* A work that is due leaves the priority queue; unless it was cancelled, its
\* function enters the other queue.
\* (Mutant: whether it was cancelled is not looked at.)
BugPopDue(w) ==
    /\ tick = "popping" /\ w \in Earliest \cap Due
    /\ scheduled' = scheduled \ {w}
    /\ avail' = avail \ {w}
    /\ works' = works \cup {w}
    /\ SetPhase(w, "queued")
    /\ UNCHANGED <<frame, now, count, tick, time, cancelled, call, owned>>
PopDue(w) ==
    /\ tick = "popping" /\ w \in Earliest \cap Due
    /\ scheduled' = scheduled \ {w}
    /\ avail' = avail \ {w}
    /\ works' = IF w \in avail THEN works \cup {w} ELSE works
    /\ SetPhase(w, IF w \in avail THEN "queued" ELSE "popped")
    /\ UNCHANGED <<frame, now, count, tick, time, cancelled, call, owned>>

NothingDue ==
    /\ tick = "popping" /\ Due = {}
    /\ tick' = "taking"
    /\ UNCHANGED <<works, scheduled, frame, now, count, workVars, call, owned>>

\* (Mutant: the budget is looked at before a work that was taken is run.)
BugTake(w) ==
    /\ tick = "taking" /\ w \in works
    /\ works' = works \ {w}
    /\ \/ tick' = w /\ SetPhase(w, "running")
       \/ tick' = "leaving" /\ phase' = phase
    /\ UNCHANGED <<scheduled, frame, now, count, time, avail, cancelled, call, owned>>
Take(w) ==
    /\ tick = "taking" /\ w \in works
    /\ works' = works \ {w}
    /\ tick' = w
    /\ SetPhase(w, "running")
    /\ UNCHANGED <<scheduled, frame, now, count, time, avail, cancelled, call, owned>>

\* frame is counted up when the loop over the works is left.
Leave ==
    /\ tick' = "leaving"
    /\ frame' = IF frame = MaxFrame THEN frame ELSE frame + 1

NothingLeft ==
    /\ tick = "taking" /\ works = {}
    /\ Leave
    /\ UNCHANGED <<works, scheduled, now, count, workVars, call, owned>>

\* The work returns or throws.  After every CheckPack works the budget may
\* turn out to be spent: the others wait for the next tick.
Return ==
    /\ tick \in Works /\ call[tick] = NoCall
    /\ SetPhase(tick, "done")
    /\ count' = (count + 1) % CheckPack
    /\ \/ tick' = "taking" /\ frame' = frame
       \/ count' = 0 /\ Leave
    /\ UNCHANGED <<works, scheduled, now, time, avail, cancelled, call, owned>>

\* What the queues hold is dropped with them.
Freed ==
    /\ phase' = [w \in Works |-> IF w \in works \cup scheduled THEN "dropped" ELSE phase[w]]
    /\ works' = {} /\ scheduled' = {}

\* The listener returns: its reference may have been the last.
End ==
    /\ tick = "leaving"
    /\ tick' = "idle"
    /\ IF owned THEN UNCHANGED <<works, scheduled, phase>> ELSE Freed
    /\ UNCHANGED <<frame, now, count, time, avail, cancelled, call, owned>>

\* ~ServerThreadExecutor, while nobody calls it; a tick under way goes on.
Destroy ==
    /\ owned /\ \A c \in Actors : call[c] = NoCall
    /\ owned' = FALSE
    /\ IF tick = "idle" THEN Freed ELSE UNCHANGED <<works, scheduled, phase>>
    /\ UNCHANGED <<frame, now, count, tick, time, avail, cancelled, call>>

-----------------------------------------------------------------------------
TickThread ==
    \/ Begin \/ NothingDue \/ NothingLeft \/ Return \/ End
    \/ \E w \in Works : PopDue(w) \/ Take(w)

Next ==
    \/ \E c \in Actors, w \in Works :
        Execute(c, w) \/ \E ticks \in 1 .. MaxFrame : ReadFrame(c, w, ticks)
    \/ \E c \in Actors : Emplace(c)
    \/ \E w \in Works : Cancel(w)
    \/ TickThread \/ Destroy

Spec == Init /\ [][Next]_vars

\* The level ticks, works return, and an executeAfter under way goes on.  How
\* soon the budget is spent is left open.
FairSpec == Spec /\ WF_vars(TickThread) /\ \A c \in Actors : WF_vars(Emplace(c))

-----------------------------------------------------------------------------
\* The executor keeps what every executor promises, in ticks: nothing is
\* called twice, after its cancellation, or before so many ticks have begun,
\* whether it is submitted between two ticks, during one or by one.
Fate ==
    [w \in Works |->
        IF phase[w] \in {"running", "done"} THEN "called"
        ELSE IF w \in cancelled THEN "cancelled"
        ELSE IF phase[w] = "dropped" THEN "dropped"
        ELSE IF phase[w] = "new" /\ time[w] = 0 THEN "new"
        ELSE "accepted"]

Contract == INSTANCE ExecutorContract
                WITH Times <- 1 .. MaxFrame, state <- Fate, due <- time, clock <- frame

ExecutorKept == Contract!Spec

\* Everything submitted runs, is cancelled or goes with the executor, even if
\* every tick spends its budget on its first works.
EveryWorkSettles ==
    \A w \in Works : Fate[w] = "accepted" ~> Fate[w] # "accepted"
=============================================================================
