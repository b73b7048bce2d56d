----------------------------- MODULE ThreadPool -----------------------------
(***************************************************************************)
(* ll::thread::ThreadPoolExecutor: worker threads that share a queue and a *)
(* counting semaphore, a scheduler thread that feeds due works into the    *)
(* queue, and the three ways a pool goes: resize, destroy, destructor.     *)
(* Every resize makes a new Impl; Impls are numbered.  The queues are      *)
(* linearizable, so one operation on them is one step; every other access  *)
(* to shared state is a step of its own, including the two separate reads  *)
(* of the impl pointer in execute.                                         *)
(* A call in progress is recorded for its caller: an outside thread, a     *)
(* work that runs, or the scheduler of an Impl.  Outside threads do not    *)
(* call while the pool is being resized or destroyed; its own works and    *)
(* schedulers know nothing of that and do.                                 *)
(***************************************************************************)
EXTENDS Integers, FiniteSets

CONSTANTS
    Works,      \* functions given to the pool
    Workers,    \* the worker threads of one Impl
    Clients,    \* threads outside the pool
    MaxImpl,    \* bound: the number of Impls
    MaxTime,    \* bound: the clock stops there
    NoCall

Impls == 1 .. MaxImpl
Null == 0
Actors == Clients \cup Works \cup Impls
Calls == [work : Works, step : {"emplace", "interrupt", "release"}, to : Impls]

ASSUME ThreadPoolAssumption ==
    /\ IsFiniteSet(Works) /\ IsFiniteSet(Workers) /\ IsFiniteSet(Clients)
    /\ Workers # {} /\ Works \cap {"idle", "holding", "returned"} = {}
    /\ MaxImpl \in Nat \ {0} /\ MaxTime \in Nat
    /\ Works \cap Clients = {} /\ (Works \cup Clients) \cap Impls = {}
    /\ NoCall \notin Calls

VARIABLES
    impl,       \* the Impl the pool points to, or Null
    life,       \* how far the construction and destruction of each Impl went
    tasks,      \* Impl::tasks
    permits,    \* Impl::taskCount
    worker,     \* what each worker thread does; a work when it runs it
    sched,      \* the entries of ScheduledWorker::works
    sch,        \* what the scheduler thread of each Impl does
    schNow,     \* its local variable now
    front,      \* its local variable frontTime; 0 for none
    since,      \* when it last went to sleep
    wake,       \* InterruptableSleep::semaphore
    phase,      \* what became of each work
    time,       \* the time a work is scheduled for; 0 for execute
    avail,      \* the works whose CancellableCallback is available
    cancelled,  \* the works whose cancel() has answered true
    call,       \* the call each actor is in
    clock,
    crashed     \* a null impl has been dereferenced

poolVars == <<tasks, permits, worker>>
schVars == <<sched, sch, schNow, front, since, wake>>
workVars == <<phase, time, avail, cancelled>>
vars == <<impl, life, poolVars, schVars, workVars, call, clock, crashed>>

Lives == {"unborn", "live", "leaving", "stopping", "joining",
          "schStopping", "schJoining", "gone"}
Phases == {"new", "scheduled", "popped", "queued", "running", "done", "dropped"}

TypeOK ==
    /\ impl \in Impls \cup {Null}
    /\ life \in [Impls -> Lives]
    /\ tasks \in [Impls -> SUBSET Works]
    /\ permits \in [Impls -> Nat]
    /\ worker \in [Impls -> [Workers -> Works \cup {"idle", "holding", "returned"}]]
    /\ sched \in [Impls -> SUBSET Works]
    /\ sch \in [Impls -> {"none", "looping", "popping", "sleeping", "ended"}]
    /\ schNow \in [Impls -> Nat]
    /\ front \in [Impls -> Nat]
    /\ since \in [Impls -> Nat]
    /\ wake \in [Impls -> 0 .. 2]
    /\ phase \in [Works -> Phases]
    /\ time \in [Works -> Nat]
    /\ avail \subseteq Works /\ cancelled \subseteq Works
    /\ call \in [Actors -> Calls \cup {NoCall}]
    /\ clock \in 0 .. MaxTime
    /\ crashed \in BOOLEAN

Stop(g) == life[g] \in {"stopping", "joining", "schStopping", "schJoining"}
Working(g) == life[g] \notin {"schStopping", "schJoining"}
InCall(c) == call[c] # NoCall
At(c, s) == InCall(c) /\ call[c].step = s

\* A function that nobody has submitted; each is submitted once.
Unused(w) == phase[w] = "new" /\ \A c \in Actors : InCall(c) => call[c].work # w

\* Who may call the pool: an outside thread, or a task that is running.
MayCall(c) ==
    /\ ~ InCall(c)
    /\ \/ c \in Clients /\ impl # Null /\ life[impl] = "live"
                        /\ \A g \in Impls : life[g] \in {"unborn", "live", "gone"}
       \/ c \in Works /\ phase[c] = "running"

\* A null impl is dereferenced: the program ends.
Crash ==
    /\ impl = Null
    /\ crashed' = TRUE
    /\ UNCHANGED <<impl, life, poolVars, schVars, workVars, call, clock>>

-----------------------------------------------------------------------------
Init ==
    /\ impl = 1
    /\ life = [g \in Impls |-> IF g = 1 THEN "live" ELSE "unborn"]
    /\ tasks = [g \in Impls |-> {}]
    /\ permits = [g \in Impls |-> 0]
    /\ worker = [g \in Impls |-> [i \in Workers |-> "idle"]]
    /\ sched = [g \in Impls |-> {}]
    /\ sch = [g \in Impls |-> "none"]
    /\ schNow = [g \in Impls |-> 0]
    /\ front = [g \in Impls |-> 0]
    /\ since = [g \in Impls |-> 0]
    /\ wake = [g \in Impls |-> 0]
    /\ phase = [w \in Works |-> "new"]
    /\ time = [w \in Works |-> 0]
    /\ avail = {} /\ cancelled = {}
    /\ call = [c \in Actors |-> NoCall]
    /\ clock = 0
    /\ crashed = FALSE

Tick ==
    /\ clock < MaxTime
    /\ clock' = clock + 1
    /\ UNCHANGED <<impl, life, poolVars, schVars, workVars, call, crashed>>

\* The first half of execute, called by c: the work enters the queue.
Enqueue(c, w) ==
    /\ impl # Null
    /\ tasks' = [tasks EXCEPT ![impl] = @ \cup {w}]
    /\ phase' = [phase EXCEPT ![w] = "queued"]
    /\ call' = [call EXCEPT ![c] = [work |-> w, step |-> "release", to |-> impl]]
    /\ UNCHANGED <<impl, life, permits, worker, clock, crashed, time, cancelled>>

Execute(c, w) ==
    /\ MayCall(c) /\ Unused(w)
    /\ \/ Enqueue(c, w) /\ UNCHANGED <<schVars, avail>>
       \/ Crash

\* The second half: impl is read again and the semaphore released.
Release(c) ==
    /\ At(c, "release")
    /\ \/ /\ impl # Null
          /\ permits' = [permits EXCEPT ![impl] = @ + 1]
          /\ call' = [call EXCEPT ![c] = NoCall]
          /\ UNCHANGED <<impl, life, tasks, worker, schVars, workVars, clock, crashed>>
       \/ Crash

\* executeAfter with a positive duration: the scheduler is started once.
GetScheduler(c, w, t) ==
    /\ MayCall(c) /\ Unused(w)
    /\ t > clock
    /\ \/ /\ impl # Null
          /\ sch' = [sch EXCEPT ![impl] = IF @ = "none" THEN "looping" ELSE @]
          /\ time' = [time EXCEPT ![w] = t]
          /\ call' = [call EXCEPT ![c] = [work |-> w, step |-> "emplace", to |-> impl]]
          /\ UNCHANGED <<impl, life, poolVars, sched, schNow, front, since, wake,
                         phase, avail, cancelled, clock, crashed>>
       \/ Crash

\* (Mutant: the scheduler is not interrupted.)
BugEmplace(c) ==
    /\ At(c, "emplace")
    /\ sched' = [sched EXCEPT ![call[c].to] = @ \cup {call[c].work}]
    /\ phase' = [phase EXCEPT ![call[c].work] = "scheduled"]
    /\ avail' = avail \cup {call[c].work}
    /\ call' = [call EXCEPT ![c] = NoCall]
    /\ UNCHANGED <<impl, life, poolVars, sch, schNow, front, since, wake, time, cancelled,
                   clock, crashed>>
Emplace(c) ==
    /\ At(c, "emplace")
    /\ sched' = [sched EXCEPT ![call[c].to] = @ \cup {call[c].work}]
    /\ phase' = [phase EXCEPT ![call[c].work] = "scheduled"]
    /\ avail' = avail \cup {call[c].work}
    /\ call' = [call EXCEPT ![c] = [work |-> @.work, step |-> "interrupt", to |-> @.to]]
    /\ UNCHANGED <<impl, life, poolVars, sch, schNow, front, since, wake, time, cancelled,
                   clock, crashed>>

\* A release of a binary semaphore that holds its permit is undefined: some
\* libraries keep the one permit, others count a second.
Interrupted(n) == IF n = 0 THEN {1} ELSE {n, 2}

Interrupt(c) ==
    /\ At(c, "interrupt")
    /\ \E n \in Interrupted(wake[call[c].to]) : wake' = [wake EXCEPT ![call[c].to] = n]
    /\ call' = [call EXCEPT ![c] = NoCall]
    /\ UNCHANGED <<impl, life, poolVars, sched, sch, schNow, front, since,
                   workVars, clock, crashed>>

\* CancellableCallback::cancel, by whoever holds what executeAfter returned.
Cancel(w) ==
    /\ w \in avail /\ \A c \in Actors : At(c, "interrupt") => call[c].work # w
    /\ avail' = avail \ {w}
    /\ cancelled' = cancelled \cup {w}
    /\ UNCHANGED <<impl, life, poolVars, schVars, phase, time, call, clock, crashed>>

-----------------------------------------------------------------------------
\* Worker thread i of Impl g.
SetWorker(g, i, s) == worker' = [worker EXCEPT ![g][i] = s]

Acquire(g, i) ==
    /\ life[g] # "unborn" /\ worker[g][i] = "idle"
    /\ permits[g] > 0
    /\ permits' = [permits EXCEPT ![g] = @ - 1]
    /\ SetWorker(g, i, "holding")
    /\ UNCHANGED <<impl, life, tasks, schVars, workVars, call, clock, crashed>>

Take(g, i) ==
    /\ worker[g][i] = "holding"
    /\ \E w \in tasks[g] :
        /\ tasks' = [tasks EXCEPT ![g] = @ \ {w}]
        /\ SetWorker(g, i, w)
        /\ phase' = [phase EXCEPT ![w] = "running"]
    /\ UNCHANGED <<impl, life, permits, schVars, time, avail, cancelled, call,
                   clock, crashed>>

\* (Mutant: it returns without looking at the queue once more.)
BugReturn(g, i) ==
    /\ worker[g][i] = "holding"
    /\ Stop(g)
    /\ SetWorker(g, i, "returned")
    /\ UNCHANGED <<impl, life, tasks, permits, schVars, workVars, call, clock, crashed>>
Return(g, i) ==
    /\ worker[g][i] = "holding"
    /\ tasks[g] = {} /\ Stop(g)
    /\ SetWorker(g, i, "returned")
    /\ UNCHANGED <<impl, life, tasks, permits, schVars, workVars, call, clock, crashed>>

Finish(g, i) ==
    /\ worker[g][i] \in Works /\ ~ InCall(worker[g][i])
    /\ phase' = [phase EXCEPT ![worker[g][i]] = "done"]
    /\ SetWorker(g, i, "idle")
    /\ UNCHANGED <<impl, life, tasks, permits, schVars, time, avail, cancelled,
                   call, clock, crashed>>

-----------------------------------------------------------------------------
\* The scheduler thread of Impl g: the head of its loop.
Loop(g) ==
    /\ sch[g] = "looping"
    /\ schNow' = [schNow EXCEPT ![g] = clock]
    /\ front' = [front EXCEPT ![g] = 0]
    /\ sch' = [sch EXCEPT ![g] = IF Working(g) THEN "popping" ELSE "ended"]
    /\ UNCHANGED <<impl, life, poolVars, sched, since, wake, workVars, call,
                   clock, crashed>>

Earliest(g) == {w \in sched[g] : \A x \in sched[g] : time[w] <= time[x]}

\* try_pop_if finds a due work that can still be called: it goes to execute.
\* (Mutant: the function is moved without looking at available.)
BugPopDue(g, w) ==
    /\ time[w] <= schNow[g]
    /\ \/ /\ Enqueue(g, w)
          /\ sched' = [sched EXCEPT ![g] = @ \ {w}]
          /\ avail' = avail \ {w}
          /\ UNCHANGED <<sch, schNow, front, since, wake>>
       \/ Crash
PopDue(g, w) ==
    /\ time[w] <= schNow[g] /\ w \in avail
    /\ \/ /\ Enqueue(g, w)
          /\ sched' = [sched EXCEPT ![g] = @ \ {w}]
          /\ avail' = avail \ {w}
          /\ UNCHANGED <<sch, schNow, front, since, wake>>
       \/ Crash

\* It finds a due work that was cancelled.
PopCancelled(g, w) ==
    /\ time[w] <= schNow[g] /\ w \notin avail
    /\ sched' = [sched EXCEPT ![g] = @ \ {w}]
    /\ phase' = [phase EXCEPT ![w] = "popped"]
    /\ UNCHANGED <<impl, life, poolVars, sch, schNow, front, since, wake, time, avail, cancelled,
                   call, clock, crashed>>

\* It finds nothing that is due.
Pause(g) ==
    /\ \/ sched[g] = {} /\ front' = front
       \/ \E w \in Earliest(g) : /\ time[w] > schNow[g]
                                 /\ front' = [front EXCEPT ![g] = time[w] - schNow[g]]
    /\ sch' = [sch EXCEPT ![g] = "sleeping"]
    /\ since' = [since EXCEPT ![g] = clock]
    /\ UNCHANGED <<impl, life, poolVars, sched, schNow, wake, workVars, call,
                   clock, crashed>>

Pop(g) ==
    /\ sch[g] = "popping" /\ ~ InCall(g)
    /\ \/ \E w \in Earliest(g) : PopDue(g, w) \/ PopCancelled(g, w)
       \/ Pause(g)

\* sleep and sleepFor return: on a permit, or when frontTime has passed.  (A
\* sleep that would outlast MaxTime ends there, with the clock.)
\* (Mutant: sleepFor waits for a permit only.)
BugAwake(g) ==
    /\ sch[g] = "sleeping"
    /\ wake[g] > 0 /\ wake' = [wake EXCEPT ![g] = @ - 1]
    /\ sch' = [sch EXCEPT ![g] = "looping"]
    /\ UNCHANGED <<impl, life, poolVars, sched, schNow, front, since, workVars,
                   call, clock, crashed>>
Awake(g) ==
    /\ sch[g] = "sleeping"
    /\ \/ wake[g] > 0 /\ wake' = [wake EXCEPT ![g] = @ - 1]
       \/ /\ front[g] # 0
          /\ clock >= since[g] + front[g] \/ clock = MaxTime
          /\ wake' = wake
    /\ sch' = [sch EXCEPT ![g] = "looping"]
    /\ UNCHANGED <<impl, life, poolVars, sched, schNow, front, since, workVars,
                   call, clock, crashed>>

-----------------------------------------------------------------------------
\* The owner of the pool ends Impl g, while no outside thread is in a call.
MayEnd(g) ==
    /\ impl = g /\ life[g] = "live"
    /\ \A h \in Impls : life[h] \in {"unborn", "live", "gone"}
    /\ \A c \in Clients : ~ InCall(c)

\* resize: the new Impl is ready and impl points to it before the old one goes.
\* (Mutant: the old Impl is reset before the new one is made.)
BugResize(g) ==
    /\ MayEnd(g) /\ g < MaxImpl
    /\ impl' = Null
    /\ life' = [life EXCEPT ![g] = "leaving", ![g + 1] = "live"]
    /\ UNCHANGED <<poolVars, schVars, workVars, call, clock, crashed>>
Resize(g) ==
    /\ MayEnd(g) /\ g < MaxImpl
    /\ impl' = g + 1
    /\ life' = [life EXCEPT ![g] = "leaving", ![g + 1] = "live"]
    /\ UNCHANGED <<poolVars, schVars, workVars, call, clock, crashed>>

\* destroy: impl is null before the Impl goes.
Destroy(g) ==
    /\ MayEnd(g)
    /\ impl' = Null
    /\ life' = [life EXCEPT ![g] = "leaving"]
    /\ UNCHANGED <<poolVars, schVars, workVars, call, clock, crashed>>

\* ~ThreadPoolExecutor: impl still points to the Impl that goes.
Destruct(g) ==
    /\ MayEnd(g)
    /\ life' = [life EXCEPT ![g] = "leaving"]
    /\ UNCHANGED <<impl, poolVars, schVars, workVars, call, clock, crashed>>

\* ~Impl: stop is set,
SetStop(g) ==
    /\ life[g] = "leaving"
    /\ life' = [life EXCEPT ![g] = "stopping"]
    /\ UNCHANGED <<impl, poolVars, schVars, workVars, call, clock, crashed>>

\* every worker gets a permit,
\* (Mutant: one worker gets a permit,)
BugReleaseAll(g) ==
    /\ life[g] = "stopping"
    /\ life' = [life EXCEPT ![g] = "joining"]
    /\ permits' = [permits EXCEPT ![g] = @ + 1]
    /\ UNCHANGED <<impl, tasks, worker, schVars, workVars, call, clock, crashed>>
ReleaseAll(g) ==
    /\ life[g] = "stopping"
    /\ life' = [life EXCEPT ![g] = "joining"]
    /\ permits' = [permits EXCEPT ![g] = @ + Cardinality(Workers)]
    /\ UNCHANGED <<impl, tasks, worker, schVars, workVars, call, clock, crashed>>

\* the workers are joined, then ~ScheduledWorker clears working
Join(g) ==
    /\ life[g] = "joining"
    /\ \A i \in Workers : worker[g][i] = "returned"
    /\ life' = [life EXCEPT ![g] = "schStopping"]
    /\ UNCHANGED <<impl, poolVars, schVars, workVars, call, clock, crashed>>

\* and interrupts the scheduler,
InterruptScheduler(g) ==
    /\ life[g] = "schStopping"
    /\ life' = [life EXCEPT ![g] = "schJoining"]
    /\ \E n \in Interrupted(wake[g]) : wake' = [wake EXCEPT ![g] = n]
    /\ UNCHANGED <<impl, poolVars, sched, sch, schNow, front, since, workVars,
                   call, clock, crashed>>

\* the scheduler is joined, and what the queues still hold goes with them.
Gone(g) ==
    /\ life[g] = "schJoining"
    /\ sch[g] \in {"none", "ended"}
    /\ life' = [life EXCEPT ![g] = "gone"]
    /\ phase' = [w \in Works |-> IF w \in tasks[g] \cup sched[g] THEN "dropped" ELSE phase[w]]
    /\ tasks' = [tasks EXCEPT ![g] = {}]
    /\ sched' = [sched EXCEPT ![g] = {}]
    /\ UNCHANGED <<impl, permits, worker, sch, schNow, front, since, wake, time, avail, cancelled,
                   call, clock, crashed>>

-----------------------------------------------------------------------------
Client ==
    \E c \in Clients \cup Works, w \in Works :
        \/ Execute(c, w)
        \/ \E t \in 1 .. MaxTime : GetScheduler(c, w, t)

\* What goes on by itself once it is under way.
Internal ==
    \/ \E c \in Actors : Release(c) \/ Emplace(c) \/ Interrupt(c)
    \/ \E g \in Impls, i \in Workers :
          Acquire(g, i) \/ Take(g, i) \/ Return(g, i) \/ Finish(g, i)
    \/ \E g \in Impls : Loop(g) \/ Pop(g) \/ Awake(g)
    \/ \E g \in Impls : SetStop(g) \/ ReleaseAll(g) \/ Join(g) \/ InterruptScheduler(g) \/ Gone(g)
    \/ Tick

Owner == \E g \in Impls : Resize(g) \/ Destroy(g) \/ Destruct(g)

Next == ~ crashed /\ (Client \/ Internal \/ Owner \/ \E w \in Works : Cancel(w))

Spec == Init /\ [][Next]_vars

\* The threads run on, tasks return, and time passes.  Only finitely many
\* internal steps follow a call, so one condition on all of them suffices.
FairSpec == Spec /\ WF_vars(~ crashed /\ Internal)

-----------------------------------------------------------------------------
Holding(g) == {i \in Workers : worker[g][i] = "holding"}
Owing(g) == {c \in Actors : At(c, "release") /\ call[c].to = g}

\* The queued tasks of a live Impl are covered by permits: those of the
\* semaphore, those workers hold, and those that calls are about to release.
PermitsCover ==
    \A g \in Impls : life[g] = "live" =>
        Cardinality(tasks[g]) <=
            permits[g] + Cardinality(Holding(g)) + Cardinality(Owing(g))

\* A worker that holds a permit finds a task, so the loop around try_dequeue
\* does not spin, unless a resize came between the two halves of an execute.
NoIdleSpin ==
    \A g \in Impls : life[g] = "live" /\ Holding(g) # {} /\ tasks[g] = {} => g > 1

\* A function whose cancel() answered true is never called, whatever the
\* scheduler was doing with it.
CancelledNeverRuns ==
    \A w \in cancelled : phase[w] \notin {"queued", "running", "done"}

\* executeAfter never runs a function before its time.
NotEarly ==
    \A w \in Works : time[w] > clock => phase[w] \in {"new", "scheduled", "dropped"}

\* The pool is an executor: every function is called at most once, none that
\* was cancelled and none before its time.
Fate ==
    [w \in Works |->
        IF phase[w] \in {"running", "done"} THEN "called"
        ELSE IF w \in cancelled THEN "cancelled"
        ELSE IF phase[w] = "dropped" THEN "dropped"
        ELSE IF phase[w] = "new" /\ time[w] = 0 THEN "new"
        ELSE "accepted"]

Contract == INSTANCE ExecutorContract
                WITH Times <- 1 .. MaxTime, state <- Fate, due <- time

ExecutorKept == Contract!Spec

\* A scheduler that sleeps with no permit to wake it sleeps no longer than
\* the time the earliest entry had left when it looked at the clock, or than
\* until the call that is about to interrupt it.
NoOversleep ==
    \A g \in Impls : sch[g] = "sleeping" /\ wake[g] = 0 =>
        \A w \in sched[g] :
            \/ \E c \in Actors : At(c, "interrupt") /\ call[c].work = w
            \/ front[g] # 0 /\ schNow[g] + front[g] <= time[w]

\* A pool that goes away runs every function given to execute, those that its
\* own tasks submit meanwhile included; only scheduled ones may be dropped.
OnlyScheduledDropped ==
    \A w \in Works : phase[w] = "dropped" => time[w] # 0

\* No call finds impl null while an Impl is live, a resize included; it does
\* only when destroy() meets tasks or due works that still submit.
NeverWithoutPool == crashed => \A g \in Impls : life[g] # "live"

\* Every function that reached the schedule or the queue runs, unless it was
\* cancelled, its Impl went or the program ended.
EveryWorkSettles ==
    \A w \in Works :
        phase[w] \in {"scheduled", "queued"} ~>
            phase[w] \in {"done", "dropped"} \/ w \in cancelled \/ crashed

\* The destruction of an Impl ends: no join waits for ever.
EndReached ==
    \A g \in Impls : life[g] = "leaving" ~> life[g] = "gone" \/ crashed

\* docs thread.md: resize(8) right after execute, "Resize to 8 threads".  A
\* resize would have to return whatever the pool's own tasks and scheduler do
\* meanwhile; it need not: a call that read impl twice, before and after,
\* leaves the old Impl one permit short, and the last worker is never joined.
ResizeReturns ==
    \A g \in Impls : life[g] = "leaving" /\ impl \notin {g, Null} ~> life[g] = "gone" \/ crashed
=============================================================================
