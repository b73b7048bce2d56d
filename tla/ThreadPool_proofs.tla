------------------------- MODULE ThreadPool_proofs -------------------------
(***************************************************************************)
(* Proofs about ThreadPool, for any works, workers, clients and bounds.    *)
(* IInv says where each work is, what the calls and the scheduler still    *)
(* owe it, and how far the Impls have got; each of its parts has a lemma   *)
(* that every step keeps it.                                               *)
(***************************************************************************)
EXTENDS ThreadPool, TLAPS, FiniteSetTheorems

\* A work is where its phase says, in one place only.
Placed ==
    /\ \A g \in Impls : \A w \in tasks[g] : phase[w] = "queued"
    /\ \A g \in Impls : \A w \in sched[g] : phase[w] = "scheduled" /\ time[w] # 0
    /\ \A g \in Impls, i \in Workers : worker[g][i] \in Works => phase[worker[g][i]] = "running"
OnePlace ==
    /\ \A g, h \in Impls : \A w \in tasks[g] : w \in tasks[h] => g = h
    /\ \A g, h \in Impls : \A w \in sched[g] : w \in sched[h] => g = h
    /\ \A g, h \in Impls, i, j \in Workers :
           worker[g][i] \in Works /\ worker[g][i] = worker[h][j] => g = h /\ i = j
RunsSomewhere ==
    \A w \in Works : phase[w] = "running" => \E g \in Impls, i \in Workers : worker[g][i] = w

\* A CancellableCallback is available only until somebody takes its function.
CallbackFits ==
    /\ \A w \in avail : phase[w] \in {"scheduled", "dropped"}
    /\ \A w \in cancelled : w \notin avail /\ phase[w] \in {"scheduled", "popped", "dropped"}

\* What a call of executeAfter has done, and to which Impl.
CallFits ==
    /\ \A c \in Actors : At(c, "emplace") => phase[call[c].work] = "new" /\ time[call[c].work] # 0
    /\ \A c, d \in Actors :
           At(c, "emplace") /\ At(d, "emplace") /\ call[c].work = call[d].work => c = d
    /\ \A c \in Actors : At(c, "interrupt") => phase[call[c].work] # "new"
    /\ \A c \in Actors, g \in Impls :
           At(c, "interrupt") /\ call[c].work \in sched[g] => call[c].to = g

\* A work has a time only from executeAfter on; no scheduler is ahead of time.
TimeFits ==
    /\ \A w \in Works : phase[w] = "new" /\ time[w] # 0 =>
           \E c \in Actors : At(c, "emplace") /\ call[c].work = w
    /\ \A g \in Impls : schNow[g] <= clock

Ending == {"leaving", "stopping", "joining", "schStopping", "schJoining"}

\* At most one Impl ends at a time; one that is not pointed to gets no work.
LifeFits ==
    /\ \A g \in Impls : life[g] = "live" => impl = g
    /\ \A g, h \in Impls : life[g] \in Ending /\ life[h] \in Ending => g = h
    /\ impl # Null => life[impl] # "unborn"
    /\ \A g, h \in Impls : impl = g /\ life[g] # "live" /\ h # g => life[h] \in {"unborn", "gone"}
    /\ \A g, h \in Impls : life[g] = "live" /\ g < h => life[h] = "unborn"

\* The workers of an Impl have returned once they were joined, not before stop.
WorkersFit ==
    /\ \A g \in Impls, i \in Workers : life[g] = "unborn" => worker[g][i] = "idle"
    /\ \A g \in Impls, i \in Workers :
           life[g] \in {"schStopping", "schJoining", "gone"} => worker[g][i] = "returned"
    /\ \A g \in Impls, i \in Workers :
           worker[g][i] = "returned" => life[g] \notin {"unborn", "live", "leaving"}

\* When all workers of an Impl have returned, its queue holds scheduled works
\* at most: only its scheduler can still add some.
QueueFits ==
    /\ \A g \in Impls : (\A i \in Workers : worker[g][i] = "returned") =>
           \A w \in tasks[g] : time[w] # 0
    /\ OnlyScheduledDropped

CrashFits == crashed => impl = Null

\* Permits cover the tasks of a live Impl; before any resize, exactly.
PermitsFit ==
    /\ \A g \in Impls : life[g] = "unborn" => tasks[g] = {}
    /\ PermitsCover
    /\ life[1] = "live" =>
           /\ Cardinality(tasks[1]) =
                  permits[1] + Cardinality(Holding(1)) + Cardinality(Owing(1))
           /\ \A c \in Actors : At(c, "release") => call[c].to = 1

IInv ==
    /\ TypeOK /\ Placed /\ OnePlace /\ RunsSomewhere /\ CallbackFits /\ CallFits /\ TimeFits
    /\ LifeFits /\ WorkersFit /\ QueueFits /\ CrashFits /\ NotEarly /\ NoOversleep /\ PermitsFit

-----------------------------------------------------------------------------
LEMMA InitIInv == Init => IInv
<1>. SUFFICES ASSUME Init PROVE IInv
  OBVIOUS
<1>. USE ThreadPoolAssumption DEF Init, Impls, Null
<1>1. TypeOK
  <2>1. 1 \in Impls /\ 0 \in 0 .. MaxTime
    OBVIOUS
  <2>2. worker \in [Impls -> [Workers -> Works \cup {"idle", "holding", "returned"}]]
    OBVIOUS
  <2>3. life \in [Impls -> Lives] /\ phase \in [Works -> Phases]
    BY DEF Lives, Phases
  <2>4. call \in [Actors -> Calls \cup {NoCall}]
    OBVIOUS
  <2>5. crashed \in BOOLEAN /\ impl \in Impls \cup {Null}
    BY <2>1
  <2>6. /\ tasks \in [Impls -> SUBSET Works] /\ permits \in [Impls -> Nat]
        /\ sched \in [Impls -> SUBSET Works] /\ schNow \in [Impls -> Nat]
        /\ front \in [Impls -> Nat] /\ since \in [Impls -> Nat] /\ wake \in [Impls -> 0 .. 2]
        /\ sch \in [Impls -> {"none", "looping", "popping", "sleeping", "ended"}]
    OBVIOUS
  <2>7. time \in [Works -> Nat] /\ avail \subseteq Works /\ cancelled \subseteq Works
    OBVIOUS
  <2>8. clock \in 0 .. MaxTime
    BY <2>1
  <2>. QED BY <2>2, <2>3, <2>4, <2>5, <2>6, <2>7, <2>8 DEF TypeOK
<1>2. Placed /\ OnePlace /\ RunsSomewhere
  BY DEF Placed, OnePlace, RunsSomewhere
<1>3. CallbackFits /\ CallFits /\ TimeFits
  BY DEF CallbackFits, CallFits, TimeFits, At, InCall
<1>4. LifeFits /\ WorkersFit /\ QueueFits /\ CrashFits
  BY DEF LifeFits, WorkersFit, QueueFits, CrashFits, Ending, OnlyScheduledDropped
<1>5. NotEarly /\ NoOversleep
  BY DEF NotEarly, NoOversleep
<1>6. PermitsFit
  <2>1. \A g \in Impls : Holding(g) = {} /\ Owing(g) = {} /\ tasks[g] = {} /\ permits[g] = 0
    BY DEF Holding, Owing, At, InCall
  <2>2. 1 \in Impls
    OBVIOUS
  <2>3. Cardinality({}) = 0
    BY FS_EmptySet
  <2>a. \A g \in Impls : Cardinality(tasks[g]) = 0 /\ permits[g] = 0 /\
                            Cardinality(Holding(g)) = 0 /\ Cardinality(Owing(g)) = 0
    <3>. HIDE DEF Init
    <3>. QED BY <2>1, <2>3, Zenon
  <2>4. PermitsCover
    <3>. HIDE DEF Init
    <3>. QED BY <2>a DEF PermitsCover
  <2>5. \A c \in Actors : ~ At(c, "release")
    BY DEF At, InCall
  <2>6. Cardinality(tasks[1]) = permits[1] + Cardinality(Holding(1)) + Cardinality(Owing(1))
    <3>. HIDE DEF Init
    <3>. QED BY <2>a, <2>2
  <2>. QED BY <2>1, <2>4, <2>5, <2>6 DEF PermitsFit
<1>. QED
  BY <1>1, <1>2, <1>3, <1>4, <1>5, <1>6 DEF IInv

\* Every step keeps the types.
LEMMA StepTypeOK == TypeOK /\ [Next]_vars => TypeOK'
<1>. SUFFICES ASSUME TypeOK, [Next]_vars PROVE TypeOK'
  OBVIOUS
<1>. USE ThreadPoolAssumption DEF TypeOK
<1>a. Cardinality(Workers) \in Nat
  BY FS_CardinalityType
<1>c. ASSUME Crash PROVE TypeOK'
  BY <1>c DEF Crash, poolVars, schVars, workVars
<1>q. ASSUME NEW c \in Actors, NEW w \in Works, Enqueue(c, w), sched' \in [Impls -> SUBSET Works],
             avail' \subseteq Works, UNCHANGED <<sch, schNow, front, since, wake>>
      PROVE  TypeOK'
  <2>1. [work |-> w, step |-> "release", to |-> impl] \in Calls
    BY <1>q DEF Enqueue, Calls, Null
  <2>. QED BY <1>q, <2>1 DEF Enqueue, Phases, Null
<1>1. ASSUME NEW c \in Clients \cup Works, NEW w \in Works, Execute(c, w) PROVE TypeOK'
  <2>1. CASE Enqueue(c, w) /\ UNCHANGED <<schVars, avail>>
    BY <1>q, <2>1 DEF schVars, Actors
  <2>. QED BY <1>1, <1>c, <2>1 DEF Execute
<1>2. ASSUME NEW c \in Clients \cup Works, NEW w \in Works, NEW t \in 1 .. MaxTime,
             GetScheduler(c, w, t) PROVE TypeOK'
  <2>1. CASE impl # Null
    <3>1. [work |-> w, step |-> "emplace", to |-> impl] \in Calls
      BY <2>1 DEF Calls, Null
    <3>2. c \in Actors /\ t \in Nat
      BY DEF Actors
    <3>3. impl \in Impls
      BY <2>1
    <3>4. CASE /\ sch' = [sch EXCEPT ![impl] = IF @ = "none" THEN "looping" ELSE @]
               /\ time' = [time EXCEPT ![w] = t]
               /\ call' = [call EXCEPT ![c] = [work |-> w, step |-> "emplace", to |-> impl]]
               /\ UNCHANGED <<impl, life, poolVars, sched, schNow, front, since, wake,
                              phase, avail, cancelled, clock, crashed>>
      BY <3>1, <3>2, <3>3, <3>4 DEF poolVars
    <3>. QED BY <1>2, <1>c, <3>4 DEF GetScheduler
  <2>. QED BY <1>2, <1>c, <2>1 DEF GetScheduler
<1>3. ASSUME NEW c \in Actors, Release(c) PROVE TypeOK'
  <2>1. CASE impl # Null /\ permits' = [permits EXCEPT ![impl] = @ + 1]
             /\ call' = [call EXCEPT ![c] = NoCall]
             /\ UNCHANGED <<impl, life, tasks, worker, schVars, workVars, clock, crashed>>
    BY <2>1 DEF schVars, workVars
  <2>. QED BY <1>3, <1>c, <2>1 DEF Release
<1>4. ASSUME NEW c \in Actors, Emplace(c) PROVE TypeOK'
  <2>1. call[c] \in Calls
    BY <1>4 DEF Emplace, At, InCall
  <2>2. [work |-> call[c].work, step |-> "interrupt", to |-> call[c].to] \in Calls
    BY <2>1 DEF Calls
  <2>. QED BY <1>4, <2>1, <2>2 DEF Emplace, poolVars, Calls, Phases
<1>5. ASSUME NEW c \in Actors, Interrupt(c) PROVE TypeOK'
  <2>1. call[c] \in Calls
    BY <1>5 DEF Interrupt, At, InCall
  <2>2. \A n \in Interrupted(wake[call[c].to]) : n \in 0 .. 2
    BY <2>1 DEF Interrupted, Calls
  <2>. QED BY <1>5, <2>1, <2>2 DEF Interrupt, poolVars, workVars, Calls
<1>6. ASSUME NEW g \in Impls, NEW i \in Workers,
             Acquire(g, i) \/ Take(g, i) \/ Return(g, i) \/ Finish(g, i) PROVE TypeOK'
  <2>1. CASE Acquire(g, i)
    BY <2>1 DEF Acquire, SetWorker, schVars, workVars
  <2>2. CASE Take(g, i)
    BY <2>2 DEF Take, SetWorker, schVars, Phases
  <2>3. CASE Return(g, i)
    BY <2>3 DEF Return, SetWorker, schVars, workVars
  <2>4. CASE Finish(g, i)
    BY <2>4 DEF Finish, SetWorker, schVars, Phases
  <2>. QED BY <1>6, <2>1, <2>2, <2>3, <2>4
<1>7. ASSUME NEW g \in Impls, Loop(g) \/ Awake(g) PROVE TypeOK'
  <2>1. CASE Loop(g)
    BY <2>1 DEF Loop, poolVars, workVars
  <2>2. CASE Awake(g)
    <3>1. wake[g] \in 0 .. 2
      OBVIOUS
    <3>2. wake' \in [Impls -> 0 .. 2]
      <4>1. CASE wake' = wake
        BY <4>1
      <4>2. CASE wake[g] > 0 /\ wake' = [wake EXCEPT ![g] = @ - 1]
        <5>1. wake[g] - 1 \in 0 .. 2
          BY <3>1, <4>2
        <5>. QED BY <4>2, <5>1
      <4>. QED BY <2>2, <4>1, <4>2 DEF Awake
    <3>3. sch' \in [Impls -> {"none", "looping", "popping", "sleeping", "ended"}]
      BY <2>2 DEF Awake
    <3>. QED BY <2>2, <3>2, <3>3, Zenon DEF Awake, poolVars, workVars
  <2>. QED BY <1>7, <2>1, <2>2
<1>8. ASSUME NEW g \in Impls, Pop(g) PROVE TypeOK'
  <2>1. ASSUME NEW w \in Earliest(g), PopDue(g, w) PROVE TypeOK'
    <3>1. w \in Works /\ g \in Actors
      BY DEF Earliest, Actors
    <3>2. CASE Enqueue(g, w) /\ sched' = [sched EXCEPT ![g] = @ \ {w}] /\ avail' = avail \ {w}
               /\ UNCHANGED <<sch, schNow, front, since, wake>>
      <4>1. sched' \in [Impls -> SUBSET Works] /\ avail' \subseteq Works
        BY <3>2
      <4>. QED BY <1>q, <3>1, <3>2, <4>1
    <3>. QED BY <1>c, <2>1, <3>2 DEF PopDue
  <2>2. ASSUME NEW w \in Earliest(g), PopCancelled(g, w) PROVE TypeOK'
    BY <2>2 DEF PopCancelled, Earliest, poolVars, Phases
  <2>3. CASE Pause(g)
    <3>1. front' \in [Impls -> Nat]
      BY <2>3 DEF Pause, Earliest
    <3>2. clock \in Nat
      OBVIOUS
    <3>. QED BY <2>3, <3>1, <3>2 DEF Pause, poolVars, workVars
  <2>. QED BY <1>8, <2>1, <2>2, <2>3 DEF Pop
<1>9. ASSUME NEW g \in Impls,
             SetStop(g) \/ ReleaseAll(g) \/ Join(g) \/ InterruptScheduler(g) \/ Gone(g) PROVE TypeOK'
  <2>1. CASE SetStop(g) \/ Join(g)
    BY <2>1 DEF SetStop, Join, poolVars, schVars, workVars, Lives
  <2>2. CASE ReleaseAll(g)
    BY <1>a, <2>2 DEF ReleaseAll, schVars, workVars, Lives
  <2>3. CASE InterruptScheduler(g)
    <3>0. wake[g] \in 0 .. 2
      OBVIOUS
    <3>1. \A n \in Interrupted(wake[g]) : n \in 0 .. 2
      BY <3>0 DEF Interrupted
    <3>. QED BY <2>3, <3>1 DEF InterruptScheduler, poolVars, workVars, Lives
  <2>4. CASE Gone(g)
    BY <2>4 DEF Gone, Lives, Phases
  <2>. QED BY <1>9, <2>1, <2>2, <2>3, <2>4
<1>10. ASSUME NEW g \in Impls, Resize(g) \/ Destroy(g) \/ Destruct(g) PROVE TypeOK'
  <2>1. CASE Resize(g)
    <3>1. g + 1 \in Impls
      BY <2>1 DEF Resize, Impls
    <3>. QED BY <2>1, <3>1 DEF Resize, poolVars, schVars, workVars, Lives
  <2>2. CASE Destroy(g) \/ Destruct(g)
    BY <2>2 DEF Destroy, Destruct, poolVars, schVars, workVars, Lives
  <2>. QED BY <1>10, <2>1, <2>2
<1>11. ASSUME NEW w \in Works, Cancel(w) PROVE TypeOK'
  BY <1>11 DEF Cancel, poolVars, schVars
<1>12. CASE Tick
  BY <1>12 DEF Tick, poolVars, schVars, workVars
<1>13. CASE UNCHANGED vars
  BY <1>13 DEF vars, poolVars, schVars, workVars
<1>. QED
  BY <1>1, <1>2, <1>3, <1>4, <1>5, <1>6, <1>7, <1>8, <1>9, <1>10, <1>11, <1>12, <1>13
     DEF Next, Client, Internal, Owner

\* Works move from phase to phase together with the place they are in.
LEMMA StepPlaced ==
  ASSUME TypeOK, Placed, OnePlace, RunsSomewhere, CallFits, Next
  PROVE  Placed' /\ OnePlace' /\ RunsSomewhere'
<1>. DEFINE P == Placed' /\ OnePlace' /\ RunsSomewhere'
<1>. USE ThreadPoolAssumption DEF TypeOK
<1>0. CASE UNCHANGED <<tasks, sched, worker, phase, time>>
  BY <1>0 DEF Placed, OnePlace, RunsSomewhere
<1>1. ASSUME NEW c \in Actors, NEW w \in Works, Enqueue(c, w), phase[w] \in {"new", "scheduled"},
             \A h \in Impls : sched'[h] = sched[h] \ {w}
      PROVE  P
  <2>1. /\ impl \in Impls
        /\ tasks' = [tasks EXCEPT ![impl] = @ \cup {w}]
        /\ phase' = [phase EXCEPT ![w] = "queued"]
        /\ UNCHANGED <<worker, time>>
    BY <1>1 DEF Enqueue, Null
  <2>2. Placed'
    BY <1>1, <2>1 DEF Placed
  <2>3. OnePlace'
    BY <1>1, <2>1 DEF OnePlace, Placed
  <2>4. RunsSomewhere'
    BY <2>1 DEF RunsSomewhere
  <2>. QED BY <2>2, <2>3, <2>4
<1>2. ASSUME NEW c \in Clients \cup Works, NEW w \in Works, Execute(c, w) PROVE P
  <2>1. CASE Enqueue(c, w) /\ UNCHANGED <<schVars, avail>>
    <3>1. phase[w] = "new"
      BY <1>2 DEF Execute, Unused
    <3>2. \A h \in Impls : sched'[h] = sched[h] \ {w}
      BY <2>1, <3>1 DEF Placed, schVars
    <3>. QED BY <1>1, <2>1, <3>1, <3>2 DEF Actors
  <2>2. CASE Crash
    BY <1>0, <2>2 DEF Crash, poolVars, schVars, workVars
  <2>. QED BY <1>2, <2>1, <2>2 DEF Execute
<1>3. ASSUME NEW c \in Clients \cup Works, NEW w \in Works, NEW t \in 1 .. MaxTime,
             GetScheduler(c, w, t) PROVE P
  <2>1. CASE time' = [time EXCEPT ![w] = t] /\ UNCHANGED <<poolVars, sched, phase>>
    <3>1. phase[w] = "new"
      BY <1>3 DEF GetScheduler, Unused
    <3>. QED BY <2>1, <3>1 DEF Placed, OnePlace, RunsSomewhere, poolVars
  <2>2. CASE Crash
    BY <1>0, <2>2 DEF Crash, poolVars, schVars, workVars
  <2>. QED BY <1>3, <2>1, <2>2 DEF GetScheduler
<1>4. ASSUME NEW c \in Actors, Emplace(c) PROVE P
  <2>. DEFINE w == call[c].work
              g == call[c].to
  <2>1. w \in Works /\ g \in Impls /\ phase[w] = "new" /\ time[w] # 0
    BY <1>4 DEF Emplace, CallFits, At, InCall, Calls
  <2>2. /\ sched' = [sched EXCEPT ![g] = @ \cup {w}]
        /\ phase' = [phase EXCEPT ![w] = "scheduled"]
        /\ UNCHANGED <<tasks, worker, time>>
    BY <1>4 DEF Emplace, poolVars
  <2>. QED BY <2>1, <2>2 DEF Placed, OnePlace, RunsSomewhere
<1>5. ASSUME NEW g \in Impls, NEW i \in Workers, Acquire(g, i) \/ Return(g, i) PROVE P
  <2>1. PICK s \in {"holding", "returned"} : worker' = [worker EXCEPT ![g][i] = s]
    BY <1>5 DEF Acquire, Return, SetWorker
  <2>2. worker[g][i] \in {"idle", "holding"} /\ UNCHANGED <<tasks, sched, phase, time>>
    BY <1>5 DEF Acquire, Return, schVars, workVars
  <2>3. s \notin Works /\ worker[g][i] \notin Works
    BY <2>2
  <2>4. \A h \in Impls, j \in Workers :
           worker'[h][j] = IF h = g /\ j = i THEN s ELSE worker[h][j]
    BY <2>1
  <2>5. Placed'
    BY <2>2, <2>3, <2>4 DEF Placed
  <2>6. OnePlace'
    <3>1. \A h \in Impls, j \in Workers : worker'[h][j] \in Works => worker'[h][j] = worker[h][j]
      BY <2>3, <2>4
    <3>. HIDE DEF TypeOK
    <3>. QED BY <2>2, <3>1 DEF OnePlace
  <2>7. RunsSomewhere'
    <3>1. \A h \in Impls, j \in Workers : worker[h][j] \in Works => worker'[h][j] = worker[h][j]
      BY <2>3, <2>4
    <3>. HIDE DEF TypeOK
    <3>. QED BY <2>2, <3>1 DEF RunsSomewhere
  <2>. QED BY <2>5, <2>6, <2>7
<1>6. ASSUME NEW g \in Impls, NEW i \in Workers, Take(g, i) PROVE P
  <2>1. PICK w \in tasks[g] : /\ tasks' = [tasks EXCEPT ![g] = @ \ {w}]
                              /\ worker' = [worker EXCEPT ![g][i] = w]
                              /\ phase' = [phase EXCEPT ![w] = "running"]
    BY <1>6 DEF Take, SetWorker
  <2>2. worker[g][i] = "holding" /\ UNCHANGED <<sched, time>>
    BY <1>6 DEF Take, schVars
  <2>3. w \in Works /\ phase[w] = "queued" /\ worker[g][i] \notin Works
    BY <2>2 DEF Placed
  <2>4. \A h \in Impls, j \in Workers :
           worker'[h][j] = IF h = g /\ j = i THEN w ELSE worker[h][j]
    BY <2>1
  <2>5. Placed'
    BY <2>1, <2>2, <2>3, <2>4 DEF Placed, OnePlace
  <2>6. OnePlace'
    BY <2>1, <2>2, <2>3, <2>4 DEF Placed, OnePlace
  <2>7. RunsSomewhere'
    BY <2>1, <2>2, <2>3, <2>4 DEF RunsSomewhere
  <2>. QED BY <2>5, <2>6, <2>7
<1>7. ASSUME NEW g \in Impls, NEW i \in Workers, Finish(g, i) PROVE P
  <2>1. PICK w \in Works : w = worker[g][i]
    BY <1>7 DEF Finish
  <2>2. /\ worker' = [worker EXCEPT ![g][i] = "idle"]
        /\ phase' = [phase EXCEPT ![w] = "done"]
        /\ UNCHANGED <<tasks, sched, time>>
    BY <1>7, <2>1 DEF Finish, SetWorker, schVars
  <2>3. \A h \in Impls, j \in Workers :
           worker'[h][j] = IF h = g /\ j = i THEN "idle" ELSE worker[h][j]
    BY <2>2
  <2>4. "idle" \notin Works /\ phase[w] = "running"
    BY <2>1 DEF Placed
  <2>5. Placed'
    BY <2>1, <2>2, <2>3, <2>4 DEF Placed, OnePlace
  <2>6. OnePlace'
    BY <2>2, <2>3, <2>4 DEF OnePlace
  <2>7. RunsSomewhere'
    BY <2>1, <2>2, <2>3, <2>4 DEF RunsSomewhere
  <2>. QED BY <2>5, <2>6, <2>7
<1>8. ASSUME NEW g \in Impls, Pop(g) PROVE P
  <2>1. ASSUME NEW w \in Earliest(g), PopDue(g, w) PROVE P
    <3>1. w \in sched[g] /\ w \in Works /\ phase[w] = "scheduled"
      BY DEF Earliest, Placed
    <3>2. CASE Enqueue(g, w) /\ sched' = [sched EXCEPT ![g] = @ \ {w}]
      <4>1. \A h \in Impls : sched'[h] = sched[h] \ {w}
        BY <3>1, <3>2 DEF OnePlace
      <4>. QED BY <1>1, <3>1, <3>2, <4>1 DEF Actors
    <3>3. CASE Crash
      BY <1>0, <3>3 DEF Crash, poolVars, schVars, workVars
    <3>. QED BY <2>1, <3>2, <3>3 DEF PopDue
  <2>2. ASSUME NEW w \in Earliest(g), PopCancelled(g, w) PROVE P
    <3>1. w \in sched[g] /\ w \in Works /\ phase[w] = "scheduled"
      BY DEF Earliest, Placed
    <3>2. /\ sched' = [sched EXCEPT ![g] = @ \ {w}]
          /\ phase' = [phase EXCEPT ![w] = "popped"]
          /\ UNCHANGED <<tasks, worker, time>>
      BY <2>2 DEF PopCancelled, poolVars
    <3>. QED BY <3>1, <3>2 DEF Placed, OnePlace, RunsSomewhere
  <2>3. CASE Pause(g)
    BY <1>0, <2>3 DEF Pause, poolVars, workVars
  <2>. QED BY <1>8, <2>1, <2>2, <2>3 DEF Pop
<1>9. ASSUME NEW g \in Impls, Gone(g) PROVE P
  <2>1. /\ phase' = [w \in Works |-> IF w \in tasks[g] \cup sched[g] THEN "dropped" ELSE phase[w]]
        /\ tasks' = [tasks EXCEPT ![g] = {}]
        /\ sched' = [sched EXCEPT ![g] = {}]
        /\ UNCHANGED <<worker, time>>
    BY <1>9 DEF Gone
  <2>2. Placed'
    BY <2>1 DEF Placed, OnePlace
  <2>3. OnePlace' /\ RunsSomewhere'
    BY <2>1 DEF OnePlace, RunsSomewhere
  <2>. QED BY <2>2, <2>3
<1>. QED
  BY <1>0, <1>2, <1>3, <1>4, <1>5, <1>6, <1>7, <1>8, <1>9
     DEF Next, Client, Internal, Owner, Release, Crash, Interrupt, Cancel, Loop, Awake, SetStop,
         ReleaseAll, Join, InterruptScheduler, Resize, Destroy, Destruct, Tick,
         poolVars, schVars, workVars

\* Whoever takes the function of a callback also moves the work on.
LEMMA StepCallbackFits ==
  ASSUME TypeOK, Placed, CallbackFits, CallFits, Next
  PROVE  CallbackFits'
<1>. USE ThreadPoolAssumption DEF TypeOK
<1>0. CASE UNCHANGED <<phase, avail, cancelled>>
  BY <1>0 DEF CallbackFits
<1>1. ASSUME NEW c \in Clients \cup Works, NEW w \in Works, Execute(c, w) PROVE CallbackFits'
  <2>1. phase[w] = "new"
    BY <1>1 DEF Execute, Unused
  <2>2. CASE Enqueue(c, w) /\ UNCHANGED <<schVars, avail>>
    BY <2>1, <2>2 DEF Enqueue, CallbackFits
  <2>3. CASE Crash
    BY <1>0, <2>3 DEF Crash, workVars
  <2>. QED BY <1>1, <2>2, <2>3 DEF Execute
<1>2. ASSUME NEW c \in Actors, Emplace(c) PROVE CallbackFits'
  <2>1. call[c].work \in Works /\ phase[call[c].work] = "new"
    BY <1>2 DEF Emplace, CallFits, At, InCall, Calls
  <2>. QED BY <1>2, <2>1 DEF Emplace, CallbackFits
<1>3. ASSUME NEW w \in Works, Cancel(w) PROVE CallbackFits'
  BY <1>3 DEF Cancel, CallbackFits
<1>4. ASSUME NEW g \in Impls, NEW i \in Workers, Take(g, i) PROVE CallbackFits'
  BY <1>4 DEF Take, CallbackFits, Placed
<1>5. ASSUME NEW g \in Impls, NEW i \in Workers, Finish(g, i) PROVE CallbackFits'
  <2>1. worker[g][i] \in Works /\ phase[worker[g][i]] = "running"
    BY <1>5 DEF Finish, Placed
  <2>2. phase' = [phase EXCEPT ![worker[g][i]] = "done"] /\ UNCHANGED <<avail, cancelled>>
    BY <1>5 DEF Finish
  <2>. QED BY <2>1, <2>2 DEF CallbackFits
<1>6. ASSUME NEW g \in Impls, Pop(g) PROVE CallbackFits'
  <2>1. ASSUME NEW w \in Earliest(g), PopDue(g, w) PROVE CallbackFits'
    <3>1. CASE Enqueue(g, w) /\ avail' = avail \ {w}
      <4>1. w \in avail
        BY <2>1 DEF PopDue
      <4>. QED BY <3>1, <4>1 DEF Enqueue, CallbackFits
    <3>2. CASE Crash
      BY <1>0, <3>2 DEF Crash, workVars
    <3>. QED BY <2>1, <3>1, <3>2 DEF PopDue
  <2>2. ASSUME NEW w \in Earliest(g), PopCancelled(g, w) PROVE CallbackFits'
    BY <2>2 DEF PopCancelled, CallbackFits
  <2>3. CASE Pause(g)
    BY <1>0, <2>3 DEF Pause, workVars
  <2>. QED BY <1>6, <2>1, <2>2, <2>3 DEF Pop
<1>7. ASSUME NEW g \in Impls, Gone(g) PROVE CallbackFits'
  BY <1>7 DEF Gone, CallbackFits, Placed
<1>. QED
  BY <1>0, <1>1, <1>2, <1>3, <1>4, <1>5, <1>6, <1>7
     DEF Next, Client, Internal, Owner, GetScheduler, Release, Crash, Interrupt, Acquire, Return,
         Loop, Awake, SetStop, ReleaseAll, Join, InterruptScheduler, Resize, Destroy, Destruct,
         Tick, workVars

\* A call goes on only by its own steps, and no work is submitted by two.
LEMMA StepCallFits ==
  ASSUME TypeOK, Placed, OnePlace, CallFits, Next
  PROVE  CallFits'
<1>. USE ThreadPoolAssumption DEF TypeOK
<1>0. CASE UNCHANGED <<phase, time, sched, call>>
  BY <1>0 DEF CallFits, At, InCall
<1>1. ASSUME NEW c \in Actors, NEW w \in Works, Enqueue(c, w),
             phase[w] # "new" \/ Unused(w), \A h \in Impls : sched'[h] \subseteq sched[h]
      PROVE  CallFits'
  <2>1. /\ call' = [call EXCEPT ![c] = [work |-> w, step |-> "release", to |-> impl]]
        /\ phase' = [phase EXCEPT ![w] = "queued"]
        /\ UNCHANGED time
    BY <1>1 DEF Enqueue
  <2>2. \A d \in Actors, s \in {"emplace", "interrupt"} : At(d, s)' =>
            d # c /\ At(d, s) /\ call'[d] = call[d] /\ call[d].work \in Works
    BY <2>1 DEF At, InCall, Calls
  <2>3. \A d \in Actors : At(d, "emplace") => call[d].work # w
    BY <1>1 DEF Unused, CallFits, At
  <2>. QED BY <1>1, <2>1, <2>2, <2>3 DEF CallFits
<1>2. ASSUME NEW c \in Clients \cup Works, NEW w \in Works, Execute(c, w) PROVE CallFits'
  <2>1. CASE Enqueue(c, w) /\ UNCHANGED <<schVars, avail>>
    BY <1>1, <1>2, <2>1 DEF Execute, schVars, Actors
  <2>2. CASE Crash
    BY <1>0, <2>2 DEF Crash, schVars, workVars
  <2>. QED BY <1>2, <2>1, <2>2 DEF Execute
<1>3. ASSUME NEW c \in Clients \cup Works, NEW w \in Works, NEW t \in 1 .. MaxTime,
             GetScheduler(c, w, t) PROVE CallFits'
  <2>1. CASE /\ time' = [time EXCEPT ![w] = t]
             /\ call' = [call EXCEPT ![c] = [work |-> w, step |-> "emplace", to |-> impl]]
             /\ impl # Null /\ UNCHANGED <<sched, phase>>
    <3>1. c \in Actors /\ Unused(w) /\ t # 0
      BY <1>3 DEF GetScheduler, Actors
    <3>2. \A d \in Actors, s \in {"emplace", "interrupt"} : At(d, s)' /\ d # c =>
              At(d, s) /\ call'[d] = call[d] /\ call[d].work \in Works /\ call[d].work # w
      BY <2>1, <3>1 DEF At, InCall, Calls, Unused
    <3>3. At(c, "emplace")' /\ ~ At(c, "interrupt")' /\ call'[c].work = w
      <4>1. [work |-> w, step |-> "emplace", to |-> impl] \in Calls
        BY <2>1 DEF Calls
      <4>. QED BY <2>1, <3>1, <4>1 DEF At, InCall
    <3>4. phase[w] = "new"
      BY <3>1 DEF Unused
    <3>. QED BY <2>1, <3>1, <3>2, <3>3, <3>4 DEF CallFits
  <2>2. CASE Crash
    BY <1>0, <2>2 DEF Crash, schVars, workVars
  <2>. QED BY <1>3, <2>1, <2>2 DEF GetScheduler
<1>4. ASSUME NEW c \in Actors, Release(c) \/ Interrupt(c) PROVE CallFits'
  <2>1. CASE call' = [call EXCEPT ![c] = NoCall] /\ UNCHANGED <<phase, time, sched>>
    <3>1. \A d \in Actors, s \in {"emplace", "interrupt"} : At(d, s)' =>
              d # c /\ At(d, s) /\ call'[d] = call[d]
      BY <2>1 DEF At, InCall
    <3>. QED BY <2>1, <3>1 DEF CallFits
  <2>2. CASE Crash
    BY <1>0, <2>2 DEF Crash, schVars, workVars
  <2>. QED BY <1>4, <2>1, <2>2 DEF Release, Interrupt, schVars, workVars
<1>5. ASSUME NEW c \in Actors, Emplace(c) PROVE CallFits'
  <2>. DEFINE w == call[c].work
              g == call[c].to
  <2>1. w \in Works /\ g \in Impls /\ At(c, "emplace") /\ phase[w] = "new"
    BY <1>5 DEF Emplace, CallFits, At, InCall, Calls
  <2>2. /\ sched' = [sched EXCEPT ![g] = @ \cup {w}]
        /\ phase' = [phase EXCEPT ![w] = "scheduled"]
        /\ call' = [call EXCEPT ![c] = [work |-> w, step |-> "interrupt", to |-> g]]
        /\ UNCHANGED time
    BY <1>5 DEF Emplace
  <2>3. \A d \in Actors, s \in {"emplace", "interrupt"} : At(d, s)' /\ d # c =>
            At(d, s) /\ call'[d] = call[d] /\ call[d].work \in Works
    BY <2>2 DEF At, InCall, Calls
  <2>4. \A d \in Actors, s \in {"emplace", "interrupt"} : At(d, s) /\ d # c => call[d].work # w
    BY <2>1 DEF CallFits
  <2>5. ~ At(c, "emplace")' /\ call'[c].work = w /\ call'[c].to = g
    BY <2>1, <2>2 DEF At, InCall
  <2>6. \A h \in Impls : w \notin sched[h]
    BY <2>1 DEF Placed
  <2>. HIDE DEF w, g
  <2>. QED BY <2>1, <2>2, <2>3, <2>4, <2>5, <2>6 DEF CallFits
<1>6. ASSUME NEW g \in Impls, NEW i \in Workers, Take(g, i) PROVE CallFits'
  <2>1. PICK w \in tasks[g] : phase' = [phase EXCEPT ![w] = "running"]
    BY <1>6 DEF Take
  <2>2. UNCHANGED <<time, sched, call>> /\ w \in Works /\ phase[w] = "queued"
    BY <1>6 DEF Take, schVars, Placed
  <2>. QED BY <2>1, <2>2 DEF CallFits, At, InCall
<1>7. ASSUME NEW g \in Impls, NEW i \in Workers, Finish(g, i) PROVE CallFits'
  <2>1. PICK w \in Works : w = worker[g][i] /\ phase[w] = "running"
    BY <1>7 DEF Finish, Placed
  <2>2. phase' = [phase EXCEPT ![w] = "done"] /\ UNCHANGED <<time, sched, call>>
    BY <1>7, <2>1 DEF Finish, schVars
  <2>. QED BY <2>1, <2>2 DEF CallFits, At, InCall
<1>8. ASSUME NEW g \in Impls, Pop(g) PROVE CallFits'
  <2>0. \A w \in Earliest(g) : w \in sched[g] /\ w \in Works /\ phase[w] = "scheduled"
    BY DEF Earliest, Placed
  <2>1. ASSUME NEW w \in Earliest(g), PopDue(g, w) PROVE CallFits'
    <3>1. CASE Enqueue(g, w) /\ sched' = [sched EXCEPT ![g] = @ \ {w}]
      <4>1. \A h \in Impls : sched'[h] \subseteq sched[h]
        BY <3>1
      <4>. QED BY <1>1, <2>0, <3>1, <4>1 DEF Actors
    <3>2. CASE Crash
      BY <1>0, <3>2 DEF Crash, schVars, workVars
    <3>. QED BY <2>1, <3>1, <3>2 DEF PopDue
  <2>2. ASSUME NEW w \in Earliest(g), PopCancelled(g, w) PROVE CallFits'
    <3>1. /\ sched' = [sched EXCEPT ![g] = @ \ {w}]
          /\ phase' = [phase EXCEPT ![w] = "popped"]
          /\ UNCHANGED <<call, time>>
      BY <2>2 DEF PopCancelled
    <3>. QED BY <2>0, <3>1 DEF CallFits, At, InCall
  <2>3. CASE Pause(g)
    BY <1>0, <2>3 DEF Pause, workVars
  <2>. QED BY <1>8, <2>1, <2>2, <2>3 DEF Pop
<1>9. ASSUME NEW g \in Impls, Gone(g) PROVE CallFits'
  <2>1. /\ phase' = [w \in Works |-> IF w \in tasks[g] \cup sched[g] THEN "dropped" ELSE phase[w]]
        /\ sched' = [sched EXCEPT ![g] = {}]
        /\ UNCHANGED <<call, time>>
    BY <1>9 DEF Gone
  <2>2. \A w \in Works : phase[w] = "new" <=> phase'[w] = "new"
    BY <2>1 DEF Placed
  <2>3. \A d \in Actors : At(d, "emplace") \/ At(d, "interrupt") => call[d].work \in Works
    BY DEF At, InCall, Calls
  <2>. QED BY <2>1, <2>2, <2>3 DEF CallFits, At, InCall
<1>. QED
  BY <1>0, <1>2, <1>3, <1>4, <1>5, <1>6, <1>7, <1>8, <1>9
     DEF Next, Client, Internal, Owner, Cancel, Acquire, Return, Loop, Awake, SetStop,
         ReleaseAll, Join, InterruptScheduler, Resize, Destroy, Destruct, Tick,
         schVars, workVars

\* A scheduler takes what is due by a time it has read before.
LEMMA StepTimeFits ==
  ASSUME TypeOK, Placed, CallFits, TimeFits, NotEarly, Next
  PROVE  TimeFits' /\ NotEarly'
<1>. DEFINE P == TimeFits' /\ NotEarly'
<1>. USE ThreadPoolAssumption DEF TypeOK
<1>0. CASE UNCHANGED <<phase, time, call, schNow, clock>>
  BY <1>0 DEF TimeFits, NotEarly, At, InCall
<1>1. ASSUME NEW c \in Actors, NEW w \in Works, Enqueue(c, w), ~ InCall(c), time[w] <= clock,
             UNCHANGED <<schNow, clock>>
      PROVE  P
  <2>1. /\ call' = [call EXCEPT ![c] = [work |-> w, step |-> "release", to |-> impl]]
        /\ phase' = [phase EXCEPT ![w] = "queued"]
        /\ UNCHANGED time
    BY <1>1 DEF Enqueue
  <2>2. \A d \in Actors : At(d, "emplace") => d # c /\ At(d, "emplace")' /\ call'[d] = call[d]
    BY <1>1, <2>1 DEF At, InCall
  <2>3. TimeFits'
    BY <1>1, <2>1, <2>2 DEF TimeFits
  <2>4. NotEarly'
    BY <1>1, <2>1 DEF NotEarly
  <2>. QED BY <2>3, <2>4
<1>2. ASSUME NEW c \in Clients \cup Works, NEW w \in Works, Execute(c, w) PROVE P
  <2>1. CASE Enqueue(c, w) /\ UNCHANGED <<schVars, avail>>
    <3>1. c \in Actors /\ ~ InCall(c) /\ Unused(w)
      BY <1>2 DEF Execute, MayCall, Actors
    <3>2. time[w] = 0
      BY <3>1 DEF Unused, TimeFits, At
    <3>3. UNCHANGED <<schNow, clock>>
      BY <2>1 DEF schVars, Enqueue
    <3>. QED BY <1>1, <2>1, <3>1, <3>2, <3>3
  <2>2. CASE Crash
    BY <1>0, <2>2 DEF Crash, schVars, workVars
  <2>. QED BY <1>2, <2>1, <2>2 DEF Execute
<1>3. ASSUME NEW c \in Clients \cup Works, NEW w \in Works, NEW t \in 1 .. MaxTime,
             GetScheduler(c, w, t) PROVE P
  <2>1. CASE /\ time' = [time EXCEPT ![w] = t]
             /\ call' = [call EXCEPT ![c] = [work |-> w, step |-> "emplace", to |-> impl]]
             /\ impl # Null /\ UNCHANGED <<phase, schNow, clock>>
    <3>1. c \in Actors /\ ~ InCall(c) /\ Unused(w)
      BY <1>3 DEF GetScheduler, MayCall, Actors
    <3>2. \A d \in Actors : At(d, "emplace") => d # c /\ At(d, "emplace")' /\ call'[d] = call[d]
      BY <2>1, <3>1 DEF At, InCall
    <3>3. At(c, "emplace")' /\ call'[c].work = w
      <4>1. [work |-> w, step |-> "emplace", to |-> impl] \in Calls
        BY <2>1 DEF Calls
      <4>. QED BY <2>1, <3>1, <4>1 DEF At, InCall
    <3>4. TimeFits'
      BY <2>1, <3>1, <3>2, <3>3 DEF TimeFits
    <3>5. NotEarly'
      BY <2>1, <3>1 DEF NotEarly, Unused
    <3>. QED BY <3>4, <3>5
  <2>2. CASE Crash
    BY <1>0, <2>2 DEF Crash, schVars, workVars
  <2>. QED BY <1>3, <2>1, <2>2 DEF GetScheduler
<1>4. ASSUME NEW c \in Actors, Release(c) \/ Interrupt(c) PROVE P
  <2>1. CASE /\ call' = [call EXCEPT ![c] = NoCall] /\ UNCHANGED <<phase, time, schNow, clock>>
             /\ ~ At(c, "emplace")
    <3>1. \A d \in Actors : At(d, "emplace") => At(d, "emplace")' /\ call'[d] = call[d]
      BY <2>1 DEF At, InCall
    <3>2. TimeFits'
      BY <2>1, <3>1 DEF TimeFits
    <3>. QED BY <2>1, <3>2 DEF NotEarly
  <2>2. CASE Crash
    BY <1>0, <2>2 DEF Crash, schVars, workVars
  <2>. QED BY <1>4, <2>1, <2>2 DEF Release, Interrupt, schVars, workVars, At
<1>5. ASSUME NEW c \in Actors, Emplace(c) PROVE P
  <2>. DEFINE w == call[c].work
  <2>1. w \in Works /\ phase[w] = "new"
    BY <1>5 DEF Emplace, CallFits, At, InCall, Calls
  <2>2. /\ phase' = [phase EXCEPT ![w] = "scheduled"]
        /\ call' = [call EXCEPT ![c] = [work |-> w, step |-> "interrupt", to |-> call[c].to]]
        /\ UNCHANGED <<time, schNow, clock>>
    BY <1>5 DEF Emplace
  <2>3. \A d \in Actors : At(d, "emplace") /\ d # c => At(d, "emplace")' /\ call'[d] = call[d]
    BY <2>2 DEF At, InCall
  <2>4. TimeFits'
    BY <2>1, <2>2, <2>3 DEF TimeFits
  <2>5. NotEarly'
    BY <2>1, <2>2 DEF NotEarly
  <2>. QED BY <2>4, <2>5
<1>6. ASSUME NEW w \in Works, NEW q \in {"running", "done", "popped"}, phase[w] # "new",
             phase' = [phase EXCEPT ![w] = q], time[w] <= clock,
             UNCHANGED <<time, call, schNow, clock>>
      PROVE  P
  <2>1. TimeFits'
    BY <1>6 DEF TimeFits, At, InCall
  <2>2. NotEarly'
    BY <1>6 DEF NotEarly
  <2>. QED BY <2>1, <2>2
<1>7. ASSUME NEW g \in Impls, NEW i \in Workers, Take(g, i) PROVE P
  <2>1. PICK w \in Works : w \in tasks[g] /\ phase' = [phase EXCEPT ![w] = "running"]
    BY <1>7 DEF Take
  <2>2. phase[w] = "queued"
    BY <2>1 DEF Placed
  <2>3. ~ time[w] > clock
    BY <2>2 DEF NotEarly
  <2>4. time[w] <= clock
    BY <2>3
  <2>. QED BY <1>6, <1>7, <2>1, <2>2, <2>4 DEF Take, schVars
<1>8. ASSUME NEW g \in Impls, NEW i \in Workers, Finish(g, i) PROVE P
  <2>1. PICK w \in Works : w = worker[g][i] /\ phase[w] = "running"
    BY <1>8 DEF Finish, Placed
  <2>2. phase' = [phase EXCEPT ![w] = "done"] /\ UNCHANGED <<time, call, schNow, clock>>
    BY <1>8, <2>1 DEF Finish, schVars
  <2>3. time[w] <= clock
    BY <2>1 DEF NotEarly
  <2>. QED BY <1>6, <2>1, <2>2, <2>3
<1>9. ASSUME NEW g \in Impls, Pop(g) PROVE P
  <2>1. \A w \in Earliest(g) : w \in Works /\ phase[w] = "scheduled"
    BY DEF Earliest, Placed
  <2>2. ASSUME NEW w \in Earliest(g), PopDue(g, w) PROVE P
    <3>1. time[w] <= clock
      BY <2>1, <2>2 DEF PopDue, TimeFits
    <3>2. CASE Enqueue(g, w) /\ UNCHANGED schNow
      BY <1>1, <1>9, <2>1, <3>1, <3>2 DEF Pop, Actors, Enqueue
    <3>3. CASE Crash
      BY <1>0, <3>3 DEF Crash, schVars, workVars
    <3>. QED BY <2>2, <3>2, <3>3 DEF PopDue
  <2>3. ASSUME NEW w \in Earliest(g), PopCancelled(g, w) PROVE P
    <3>1. time[w] <= clock
      BY <2>1, <2>3 DEF PopCancelled, TimeFits
    <3>. QED BY <1>6, <2>1, <2>3, <3>1 DEF PopCancelled
  <2>4. CASE Pause(g)
    BY <1>0, <2>4 DEF Pause, workVars
  <2>. QED BY <1>9, <2>2, <2>3, <2>4 DEF Pop
<1>10. ASSUME NEW g \in Impls, Gone(g) PROVE P
  <2>1. /\ phase' = [w \in Works |-> IF w \in tasks[g] \cup sched[g] THEN "dropped" ELSE phase[w]]
        /\ UNCHANGED <<time, call, schNow, clock>>
    BY <1>10 DEF Gone
  <2>2. TimeFits'
    BY <2>1 DEF TimeFits, At, InCall
  <2>3. NotEarly'
    BY <2>1 DEF NotEarly
  <2>. QED BY <2>2, <2>3
<1>11. ASSUME NEW g \in Impls, Loop(g) PROVE P
  <2>1. schNow' = [schNow EXCEPT ![g] = clock] /\ UNCHANGED <<phase, time, call, clock>>
    BY <1>11 DEF Loop, workVars
  <2>2. \A h \in Impls : schNow'[h] <= clock
    BY <2>1 DEF TimeFits
  <2>. QED BY <2>1, <2>2 DEF TimeFits, NotEarly, At, InCall
<1>12. CASE Tick
  <2>1. clock' = clock + 1 /\ UNCHANGED <<phase, time, call, schNow>>
    BY <1>12 DEF Tick, schVars, workVars
  <2>2. TimeFits'
    BY <2>1 DEF TimeFits, At, InCall
  <2>3. NotEarly'
    BY <2>1 DEF NotEarly
  <2>. QED BY <2>2, <2>3
<1>. QED
  BY <1>0, <1>2, <1>3, <1>4, <1>5, <1>7, <1>8, <1>9, <1>10, <1>11, <1>12
     DEF Next, Client, Internal, Owner, Cancel, Acquire, Return, Awake, SetStop,
         ReleaseAll, Join, InterruptScheduler, Resize, Destroy, Destruct,
         schVars, workVars

\* One Impl lives or ends; its workers go when it does.
LEMMA StepLifeFits ==
  ASSUME TypeOK, LifeFits, Next
  PROVE  LifeFits'
<1>. USE ThreadPoolAssumption DEF TypeOK
<1>0. CASE UNCHANGED <<impl, life>>
  BY <1>0 DEF LifeFits
<1>1. ASSUME NEW g \in Impls, NEW s \in Ending \cup {"gone"}, life[g] \in Ending,
             life' = [life EXCEPT ![g] = s], UNCHANGED impl
      PROVE  LifeFits'
  BY <1>1 DEF LifeFits, Ending, Null
<1>2. ASSUME NEW g \in Impls,
             SetStop(g) \/ ReleaseAll(g) \/ Join(g) \/ InterruptScheduler(g) \/ Gone(g) PROVE LifeFits'
  BY <1>1, <1>2 DEF SetStop, ReleaseAll, Join, InterruptScheduler, Gone, Ending
<1>3. ASSUME NEW g \in Impls, MayEnd(g) PROVE \A h \in Impls : h # g => life[h] \in {"unborn", "gone"}
  BY <1>3 DEF MayEnd, LifeFits
<1>4. ASSUME NEW g \in Impls, Resize(g) PROVE LifeFits'
  <2>1. PICK n \in Impls : n = g + 1 /\ n # g /\ n # Null
    BY <1>4 DEF Resize, Impls, Null
  <2>2. impl' = n /\ life' = [life EXCEPT ![g] = "leaving", ![n] = "live"]
    BY <1>4, <2>1 DEF Resize
  <2>3. \A h \in Impls : h # g => life[h] \in {"unborn", "gone"}
    BY <1>3, <1>4 DEF Resize
  <2>4. \A h \in Impls : life'[h] = IF h = n THEN "live" ELSE IF h = g THEN "leaving" ELSE life[h]
    BY <2>1, <2>2
  <2>5. \A h \in Impls : g < h => life[h] = "unborn"
    BY <1>4 DEF Resize, MayEnd, LifeFits
  <2>6. \A h \in Impls : n < h => g < h /\ h # n /\ h # g
    BY <2>1 DEF Impls
  <2>7. \A h \in Impls : life'[h] = "live" <=> h = n
    BY <2>1, <2>3, <2>4
  <2>8. \A h \in Impls : life'[h] \in Ending => h = g
    BY <2>1, <2>3, <2>4 DEF Ending
  <2>9. \A h \in Impls : n < h => life'[h] = "unborn"
    BY <2>4, <2>5, <2>6
  <2>. HIDE DEF TypeOK
  <2>. QED BY <2>1, <2>2, <2>7, <2>8, <2>9 DEF LifeFits
<1>5. ASSUME NEW g \in Impls, Destroy(g) \/ Destruct(g) PROVE LifeFits'
  <2>1. life' = [life EXCEPT ![g] = "leaving"] /\ impl' \in {Null, g}
    BY <1>5 DEF Destroy, Destruct, MayEnd
  <2>2. \A h \in Impls : h # g => life[h] \in {"unborn", "gone"}
    BY <1>3, <1>5 DEF Destroy, Destruct
  <2>3. Null \notin Impls
    BY DEF Null, Impls
  <2>. QED BY <2>1, <2>2, <2>3 DEF LifeFits, Ending
<1>. QED
  BY <1>0, <1>2, <1>4, <1>5
     DEF Next, Client, Internal, Owner, Execute, Enqueue, GetScheduler, Crash, Release, Emplace,
         Interrupt, Cancel, Acquire, Take, Return, Finish, Loop, Pop, PopDue, PopCancelled, Pause,
         Awake, Tick

LEMMA StepWorkersFit ==
  ASSUME TypeOK, LifeFits, WorkersFit, Next
  PROVE  WorkersFit'
<1>. USE ThreadPoolAssumption DEF TypeOK
<1>0. CASE UNCHANGED <<life, worker>>
  BY <1>0 DEF WorkersFit
<1>1. ASSUME NEW g \in Impls, NEW i \in Workers, NEW s \in Works \cup {"idle", "holding", "returned"},
             worker' = [worker EXCEPT ![g][i] = s], UNCHANGED life, worker[g][i] # "returned",
             life[g] # "unborn", s = "returned" => Stop(g)
      PROVE  WorkersFit'
  <2>1. \A h \in Impls, j \in Workers :
           worker'[h][j] = IF h = g /\ j = i THEN s ELSE worker[h][j]
    BY <1>1
  <2>. QED BY <1>1, <2>1 DEF WorkersFit, Stop
<1>2. ASSUME NEW g \in Impls, NEW i \in Workers,
             Acquire(g, i) \/ Take(g, i) \/ Return(g, i) \/ Finish(g, i) PROVE WorkersFit'
  <2>1. worker[g][i] # "idle" \/ life[g] # "unborn"
    BY <1>2 DEF Acquire, Take, Return, Finish
  <2>2. worker[g][i] # "returned" /\ life[g] # "unborn" /\ UNCHANGED life
    BY <1>2, <2>1 DEF Acquire, Take, Return, Finish, WorkersFit
  <2>3. PICK s \in Works \cup {"idle", "holding", "returned"} :
           worker' = [worker EXCEPT ![g][i] = s] /\ (s = "returned" => Stop(g))
    <3>1. CASE Take(g, i)
      <4>1. PICK w \in tasks[g] : worker' = [worker EXCEPT ![g][i] = w]
        BY <3>1 DEF Take, SetWorker
      <4>. QED BY <4>1
    <3>2. CASE Acquire(g, i)
      <4>1. worker' = [worker EXCEPT ![g][i] = "holding"]
        BY <3>2 DEF Acquire, SetWorker
      <4>2. "holding" = "returned" => Stop(g)
        OBVIOUS
      <4>. QED BY <4>1, <4>2 DEF Stop
    <3>3. CASE Return(g, i)
      <4>1. worker' = [worker EXCEPT ![g][i] = "returned"] /\ Stop(g)
        BY <3>3 DEF Return, SetWorker
      <4>. QED BY <4>1
    <3>4. CASE Finish(g, i)
      <4>1. worker' = [worker EXCEPT ![g][i] = "idle"]
        BY <3>4 DEF Finish, SetWorker
      <4>2. "idle" = "returned" => Stop(g)
        OBVIOUS
      <4>. QED BY <4>1, <4>2 DEF Stop
    <3>. QED BY <1>2, <3>1, <3>2, <3>3, <3>4
  <2>. QED BY <1>1, <2>2, <2>3
<1>3. ASSUME NEW g \in Impls,
             SetStop(g) \/ ReleaseAll(g) \/ Join(g) \/ InterruptScheduler(g) \/ Gone(g)
      PROVE  WorkersFit'
  <2>1. UNCHANGED worker
    BY <1>3 DEF SetStop, ReleaseAll, Join, InterruptScheduler, Gone, poolVars
  <2>2. CASE SetStop(g) \/ ReleaseAll(g)
    BY <2>1, <2>2 DEF SetStop, ReleaseAll, WorkersFit
  <2>3. CASE Join(g) \/ InterruptScheduler(g) \/ Gone(g)
    BY <2>1, <2>3 DEF Join, InterruptScheduler, Gone, WorkersFit
  <2>. QED BY <1>3, <2>2, <2>3
<1>4. ASSUME NEW g \in Impls, Resize(g) PROVE WorkersFit'
  <2>1. g + 1 \in Impls /\ g + 1 # g
    BY <1>4 DEF Resize, Impls
  <2>2. life[g] = "live" /\ life[g + 1] = "unborn"
    BY <1>4, <2>1 DEF Resize, MayEnd, LifeFits, Impls
  <2>3. life' = [life EXCEPT ![g] = "leaving", ![g + 1] = "live"] /\ UNCHANGED worker
    BY <1>4 DEF Resize, poolVars
  <2>4. \A h \in Impls : life'[h] = IF h = g + 1 THEN "live" ELSE IF h = g THEN "leaving" ELSE life[h]
    BY <2>1, <2>3
  <2>5. \A i \in Workers : worker[g][i] # "returned" /\ worker[g + 1][i] # "returned"
    BY <2>1, <2>2 DEF WorkersFit
  <2>. QED BY <2>1, <2>2, <2>3, <2>4, <2>5 DEF WorkersFit
<1>5. ASSUME NEW g \in Impls, Destroy(g) \/ Destruct(g) PROVE WorkersFit'
  BY <1>5 DEF Destroy, Destruct, MayEnd, WorkersFit, poolVars
<1>. QED
  BY <1>0, <1>2, <1>3, <1>4, <1>5
     DEF Next, Client, Internal, Owner, Execute, Enqueue, GetScheduler, Crash, Release, Emplace,
         Interrupt, Cancel, Loop, Pop, PopDue, PopCancelled, Pause, Awake, Tick, poolVars

\* The last worker that returns leaves an empty queue, and nobody who could
\* execute anything in that Impl is left: no outside thread may, a work that
\* runs has a worker, and the scheduler brings scheduled works only.
LEMMA StepQueueFits ==
  ASSUME TypeOK, Placed, RunsSomewhere, LifeFits, WorkersFit, QueueFits, Next
  PROVE  QueueFits'
<1>. USE ThreadPoolAssumption DEF TypeOK
<1>0. CASE UNCHANGED <<worker, tasks, time, phase>>
  BY <1>0 DEF QueueFits, OnlyScheduledDropped
<1>1. ASSUME NEW c \in Actors, NEW w \in Works, Enqueue(c, w),
             time[w] # 0 \/ \E i \in Workers : worker[impl][i] # "returned"
      PROVE  QueueFits'
  <2>1. /\ impl \in Impls
        /\ tasks' = [tasks EXCEPT ![impl] = @ \cup {w}]
        /\ phase' = [phase EXCEPT ![w] = "queued"]
        /\ UNCHANGED <<worker, time>>
    BY <1>1 DEF Enqueue, Null
  <2>. QED BY <1>1, <2>1 DEF QueueFits, OnlyScheduledDropped
<1>2. ASSUME NEW c \in Clients \cup Works, NEW w \in Works, Execute(c, w) PROVE QueueFits'
  <2>1. CASE Enqueue(c, w)
    <3>1. impl \in Impls
      BY <2>1 DEF Enqueue, Null
    <3>2. CASE life[impl] = "live"
      BY <1>1, <2>1, <3>1, <3>2 DEF Actors, WorkersFit
    <3>3. CASE life[impl] # "live"
      <4>1. c \in Works /\ phase[c] = "running"
        BY <1>2, <3>3 DEF Execute, MayCall
      <4>2. PICK g \in Impls, i \in Workers : worker[g][i] = c
        BY <4>1 DEF RunsSomewhere
      <4>3. c # "returned" /\ c # "idle"
        BY <4>1
      <4>4. life[g] \notin {"unborn", "gone"}
        BY <4>2, <4>3 DEF WorkersFit
      <4>5. g = impl
        BY <3>1, <3>3, <4>4 DEF LifeFits
      <4>. QED BY <1>1, <2>1, <4>2, <4>3, <4>5 DEF Actors
    <3>. QED BY <3>2, <3>3
  <2>2. CASE Crash
    BY <1>0, <2>2 DEF Crash, poolVars, workVars
  <2>. QED BY <1>2, <2>1, <2>2 DEF Execute
<1>3. ASSUME NEW c \in Clients \cup Works, NEW w \in Works, NEW t \in 1 .. MaxTime,
             GetScheduler(c, w, t) PROVE QueueFits'
  <2>1. CASE time' = [time EXCEPT ![w] = t] /\ UNCHANGED <<poolVars, phase>>
    BY <2>1 DEF QueueFits, OnlyScheduledDropped, poolVars
  <2>2. CASE Crash
    BY <1>0, <2>2 DEF Crash, poolVars, workVars
  <2>. QED BY <1>3, <2>1, <2>2 DEF GetScheduler
<1>4. ASSUME NEW c \in Actors, Emplace(c) PROVE QueueFits'
  <2>1. phase' = [phase EXCEPT ![call[c].work] = "scheduled"] /\ UNCHANGED <<tasks, worker, time>>
    BY <1>4 DEF Emplace, poolVars
  <2>. QED BY <2>1 DEF QueueFits, OnlyScheduledDropped
<1>5. ASSUME NEW g \in Impls, NEW i \in Workers, NEW s, worker' = [worker EXCEPT ![g][i] = s],
             s = "returned" => tasks[g] = {}, \A h \in Impls : tasks'[h] \subseteq tasks[h],
             \A w \in Works : phase'[w] = "dropped" => phase[w] = "dropped", UNCHANGED time
      PROVE  QueueFits'
  <2>1. \A h \in Impls, j \in Workers :
           worker'[h][j] = IF h = g /\ j = i THEN s ELSE worker[h][j]
    BY <1>5
  <2>2. ASSUME NEW h \in Impls, \A j \in Workers : worker'[h][j] = "returned", NEW w \in tasks'[h]
        PROVE  time[w] # 0
    <3>1. h # g
      BY <1>5, <2>1, <2>2
    <3>. QED BY <1>5, <2>1, <2>2, <3>1 DEF QueueFits
  <2>. QED BY <1>5, <2>2 DEF QueueFits, OnlyScheduledDropped
<1>6. ASSUME NEW g \in Impls, NEW i \in Workers,
             Acquire(g, i) \/ Take(g, i) \/ Return(g, i) \/ Finish(g, i) PROVE QueueFits'
  <2>1. CASE Acquire(g, i)
    <3>1. worker' = [worker EXCEPT ![g][i] = "holding"] /\ UNCHANGED <<tasks, phase, time>>
      BY <2>1 DEF Acquire, SetWorker, workVars
    <3>2. "holding" # "returned"
      OBVIOUS
    <3>. QED BY <1>5, <3>1, <3>2
  <2>2. CASE Take(g, i)
    <3>1. PICK w \in Works : /\ tasks' = [tasks EXCEPT ![g] = @ \ {w}]
                             /\ worker' = [worker EXCEPT ![g][i] = w]
                             /\ phase' = [phase EXCEPT ![w] = "running"]
      BY <2>2 DEF Take, SetWorker
    <3>2. \A h \in Impls : tasks'[h] \subseteq tasks[h]
      BY <3>1
    <3>3. w # "returned" /\ UNCHANGED time
      BY <2>2, <3>1 DEF Take
    <3>4. \A v \in Works : phase'[v] = "dropped" => phase[v] = "dropped"
      BY <3>1
    <3>. QED BY <1>5, <3>1, <3>2, <3>3, <3>4
  <2>3. CASE Return(g, i)
    BY <1>5, <2>3 DEF Return, SetWorker, workVars
  <2>4. CASE Finish(g, i)
    <3>1. \A v \in Works : phase'[v] = "dropped" => phase[v] = "dropped"
      BY <2>4 DEF Finish
    <3>2. worker' = [worker EXCEPT ![g][i] = "idle"] /\ UNCHANGED <<tasks, time>>
      BY <2>4 DEF Finish, SetWorker
    <3>3. "idle" # "returned"
      OBVIOUS
    <3>. QED BY <1>5, <3>1, <3>2, <3>3
  <2>. QED BY <1>6, <2>1, <2>2, <2>3, <2>4
<1>7. ASSUME NEW g \in Impls, Pop(g) PROVE QueueFits'
  <2>1. \A w \in Earliest(g) : w \in Works /\ time[w] # 0
    BY DEF Earliest, Placed
  <2>2. ASSUME NEW w \in Earliest(g), PopDue(g, w) PROVE QueueFits'
    <3>1. CASE Enqueue(g, w)
      BY <1>1, <2>1, <3>1 DEF Actors
    <3>2. CASE Crash
      BY <1>0, <3>2 DEF Crash, poolVars, workVars
    <3>. QED BY <2>2, <3>1, <3>2 DEF PopDue
  <2>3. ASSUME NEW w \in Earliest(g), PopCancelled(g, w) PROVE QueueFits'
    BY <2>3 DEF PopCancelled, QueueFits, OnlyScheduledDropped, poolVars
  <2>4. CASE Pause(g)
    BY <1>0, <2>4 DEF Pause, poolVars, workVars
  <2>. QED BY <1>7, <2>2, <2>3, <2>4 DEF Pop
<1>8. ASSUME NEW g \in Impls, Gone(g) PROVE QueueFits'
  <2>1. /\ phase' = [w \in Works |-> IF w \in tasks[g] \cup sched[g] THEN "dropped" ELSE phase[w]]
        /\ tasks' = [tasks EXCEPT ![g] = {}]
        /\ UNCHANGED <<worker, time>> /\ life[g] = "schJoining"
    BY <1>8 DEF Gone
  <2>2. \A w \in tasks[g] \cup sched[g] : time[w] # 0
    BY <2>1 DEF QueueFits, WorkersFit, Placed
  <2>. QED BY <2>1, <2>2 DEF QueueFits, OnlyScheduledDropped
<1>. QED
  BY <1>0, <1>2, <1>3, <1>4, <1>6, <1>7, <1>8
     DEF Next, Client, Internal, Owner, Release, Crash, Interrupt, Cancel, Loop, Awake, SetStop,
         ReleaseAll, Join, InterruptScheduler, Resize, Destroy, Destruct, Tick, poolVars, workVars

\* Once impl has been found null, nothing happens any more.
LEMMA StepCrashFits ==
  ASSUME CrashFits, Next
  PROVE  CrashFits'
<1>1. ~ crashed
  BY DEF Next
<1>2. Crash \/ UNCHANGED crashed
  BY DEF Next, Client, Internal, Owner, Execute, Enqueue, GetScheduler, Release, Emplace,
         Interrupt, Cancel, Acquire, Take, Return, Finish, Loop, Pop, PopDue, PopCancelled, Pause,
         Awake, Tick, SetStop, ReleaseAll, Join, InterruptScheduler, Gone, Resize, Destroy, Destruct
<1>. QED
  BY <1>1, <1>2 DEF CrashFits, Crash

\* A scheduler that falls asleep has just seen its earliest entry, and who
\* adds one meanwhile is about to interrupt it.
LEMMA StepNoOversleep ==
  ASSUME TypeOK, Placed, CallFits, NoOversleep, Next
  PROVE  NoOversleep'
<1>. USE ThreadPoolAssumption DEF TypeOK
<1>0. CASE UNCHANGED <<sch, wake, sched, schNow, front, time, call>>
  BY <1>0 DEF NoOversleep, At, InCall
<1>1. ASSUME NEW c \in Actors, ~ At(c, "interrupt"), \A d \in Actors : d # c => call'[d] = call[d],
             \A h \in Impls : sched'[h] \subseteq sched[h],
             \A h \in Impls : sch'[h] = "sleeping" => sch[h] = "sleeping",
             \A h \in Impls : \A w \in sched[h] : time'[w] = time[w],
             UNCHANGED <<wake, schNow, front>>
      PROVE  NoOversleep'
  <2>1. \A d \in Actors : At(d, "interrupt") => At(d, "interrupt")' /\ call'[d] = call[d]
    BY <1>1 DEF At, InCall
  <2>2. ASSUME NEW h \in Impls, sch'[h] = "sleeping", wake[h] = 0, NEW w \in sched'[h]
        PROVE  \/ \E d \in Actors : At(d, "interrupt")' /\ call'[d].work = w
               \/ front[h] # 0 /\ schNow[h] + front[h] <= time'[w]
    <3>1. w \in sched[h] /\ sch[h] = "sleeping" /\ time'[w] = time[w]
      BY <1>1, <2>2
    <3>. QED BY <2>1, <2>2, <3>1 DEF NoOversleep
  <2>. QED BY <1>1, <2>2 DEF NoOversleep
<1>2. ASSUME NEW c \in Clients \cup Works, NEW w \in Works, Execute(c, w) PROVE NoOversleep'
  <2>1. CASE Enqueue(c, w) /\ UNCHANGED <<schVars, avail>>
    <3>1. c \in Actors /\ ~ At(c, "interrupt")
      BY <1>2 DEF Execute, MayCall, At, Actors
    <3>2. \A d \in Actors : d # c => call'[d] = call[d]
      BY <2>1 DEF Enqueue
    <3>3. UNCHANGED <<sched, sch, time, wake, schNow, front>>
      BY <2>1 DEF Enqueue, schVars
    <3>. QED BY <1>1, <3>1, <3>2, <3>3
  <2>2. CASE Crash
    BY <1>0, <2>2 DEF Crash, schVars, workVars
  <2>. QED BY <1>2, <2>1, <2>2 DEF Execute
<1>3. ASSUME NEW c \in Clients \cup Works, NEW w \in Works, NEW t \in 1 .. MaxTime,
             GetScheduler(c, w, t) PROVE NoOversleep'
  <2>1. CASE /\ impl # Null
             /\ sch' = [sch EXCEPT ![impl] = IF @ = "none" THEN "looping" ELSE @]
             /\ time' = [time EXCEPT ![w] = t]
             /\ call' = [call EXCEPT ![c] = [work |-> w, step |-> "emplace", to |-> impl]]
             /\ UNCHANGED <<sched, wake, schNow, front>>
    <3>1. c \in Actors /\ ~ At(c, "interrupt") /\ phase[w] = "new"
      BY <1>3 DEF GetScheduler, MayCall, At, Actors, Unused
    <3>2. \A d \in Actors : d # c => call'[d] = call[d]
      BY <2>1
    <3>3. \A h \in Impls : sch'[h] = "sleeping" => sch[h] = "sleeping"
      BY <2>1
    <3>4. \A h \in Impls : \A v \in sched[h] : time'[v] = time[v]
      BY <2>1, <3>1 DEF Placed
    <3>. QED BY <1>1, <2>1, <3>1, <3>2, <3>3, <3>4
  <2>2. CASE Crash
    BY <1>0, <2>2 DEF Crash, schVars, workVars
  <2>. QED BY <1>3, <2>1, <2>2 DEF GetScheduler
<1>4. ASSUME NEW c \in Actors, Release(c) PROVE NoOversleep'
  <2>1. CASE call' = [call EXCEPT ![c] = NoCall] /\ UNCHANGED <<schVars, time>>
    <3>1. ~ At(c, "interrupt") /\ \A d \in Actors : d # c => call'[d] = call[d]
      BY <1>4, <2>1 DEF Release, At
    <3>2. UNCHANGED <<sched, sch, time, wake, schNow, front>>
      BY <2>1 DEF schVars
    <3>. QED BY <1>1, <3>1, <3>2
  <2>2. CASE Crash
    BY <1>0, <2>2 DEF Crash, schVars, workVars
  <2>. QED BY <1>4, <2>1, <2>2 DEF Release, workVars
<1>5. ASSUME NEW c \in Actors, Emplace(c) PROVE NoOversleep'
  <2>1. PICK w \in Works, g \in Impls : w = call[c].work /\ g = call[c].to
    BY <1>5 DEF Emplace, At, InCall, Calls
  <2>2. /\ sched' = [sched EXCEPT ![g] = @ \cup {w}]
        /\ call' = [call EXCEPT ![c] = [work |-> w, step |-> "interrupt", to |-> g]]
        /\ UNCHANGED <<sch, wake, schNow, front, time>>
    BY <1>5, <2>1 DEF Emplace
  <2>3. At(c, "interrupt")' /\ call'[c].work = w
    <3>1. [work |-> w, step |-> "interrupt", to |-> g] \in Calls
      BY DEF Calls
    <3>. QED BY <2>2, <3>1 DEF At, InCall
  <2>4. \A d \in Actors : At(d, "interrupt") => At(d, "interrupt")' /\ call'[d] = call[d]
    BY <1>5, <2>2 DEF Emplace, At, InCall
  <2>5. ASSUME NEW h \in Impls, sch[h] = "sleeping", wake[h] = 0, NEW v \in sched'[h]
        PROVE  \/ \E d \in Actors : At(d, "interrupt")' /\ call'[d].work = v
               \/ front[h] # 0 /\ schNow[h] + front[h] <= time[v]
    <3>1. CASE v = w
      BY <2>3, <3>1
    <3>2. CASE v # w
      <4>1. v \in sched[h]
        BY <2>2, <2>5, <3>2
      <4>. QED BY <2>4, <2>5, <4>1 DEF NoOversleep
    <3>. QED BY <3>1, <3>2
  <2>. QED BY <2>2, <2>5 DEF NoOversleep
<1>6. ASSUME NEW c \in Actors, Interrupt(c) PROVE NoOversleep'
  <2>1. PICK g \in Impls, n \in 1 .. 2 : g = call[c].to /\ wake' = [wake EXCEPT ![g] = n]
    <3>1. PICK g \in Impls : g = call[c].to
      BY <1>6 DEF Interrupt, At, InCall, Calls
    <3>2. \A n \in Interrupted(wake[g]) : n \in 1 .. 2
      BY DEF Interrupted
    <3>. QED BY <1>6, <3>1, <3>2 DEF Interrupt
  <2>2. call' = [call EXCEPT ![c] = NoCall] /\ UNCHANGED <<sched, sch, schNow, front, time>>
    BY <1>6 DEF Interrupt, workVars
  <2>3. At(c, "interrupt")
    BY <1>6 DEF Interrupt
  <2>4. \A d \in Actors : At(d, "interrupt") /\ d # c => At(d, "interrupt")' /\ call'[d] = call[d]
    BY <2>2 DEF At, InCall
  <2>5. \A h \in Impls : h # g => call[c].work \notin sched[h] /\ wake'[h] = wake[h]
    BY <2>1, <2>3 DEF CallFits
  <2>6. wake'[g] # 0
    BY <2>1
  <2>. HIDE DEF TypeOK
  <2>. QED BY <2>2, <2>4, <2>5, <2>6 DEF NoOversleep
<1>7. ASSUME NEW g \in Impls, Pop(g) PROVE NoOversleep'
  <2>1. \A w \in Earliest(g) : w \in Works /\ w \in sched[g]
    BY DEF Earliest
  <2>2. ~ At(g, "interrupt") /\ g \in Actors /\ sch[g] = "popping"
    BY <1>7 DEF Pop, At, Actors
  <2>3. ASSUME NEW w \in Earliest(g), PopDue(g, w) PROVE NoOversleep'
    <3>1. CASE Enqueue(g, w) /\ sched' = [sched EXCEPT ![g] = @ \ {w}]
               /\ UNCHANGED <<sch, schNow, front, wake>>
      <4>1. \A d \in Actors : d # g => call'[d] = call[d]
        BY <3>1 DEF Enqueue
      <4>2. UNCHANGED time /\ \A h \in Impls : sched'[h] \subseteq sched[h]
        BY <3>1 DEF Enqueue
      <4>. QED BY <1>1, <2>2, <3>1, <4>1, <4>2
    <3>2. CASE Crash
      BY <1>0, <3>2 DEF Crash, schVars, workVars
    <3>. QED BY <2>3, <3>1, <3>2 DEF PopDue
  <2>4. ASSUME NEW w \in Earliest(g), PopCancelled(g, w) PROVE NoOversleep'
    <3>1. sched' = [sched EXCEPT ![g] = @ \ {w}] /\ UNCHANGED <<sch, schNow, front, wake, time, call>>
      BY <2>4 DEF PopCancelled
    <3>. QED BY <1>1, <2>2, <3>1
  <2>5. CASE Pause(g)
    <3>1. \/ sched[g] = {} /\ front' = front
          \/ \E w \in Earliest(g) : /\ time[w] > schNow[g]
                                    /\ front' = [front EXCEPT ![g] = time[w] - schNow[g]]
      BY <2>5 DEF Pause
    <3>2. /\ sch' = [sch EXCEPT ![g] = "sleeping"]
          /\ UNCHANGED <<sched, schNow, wake, time, call>>
      BY <2>5 DEF Pause, workVars
    <3>3. \A v \in sched[g] : front'[g] # 0 /\ schNow[g] + front'[g] <= time[v]
      BY <3>1 DEF Earliest
    <3>4. \A h \in Impls : h # g => front'[h] = front[h]
      BY <3>1
    <3>. QED BY <3>2, <3>3, <3>4 DEF NoOversleep, At, InCall
  <2>. QED BY <1>7, <2>3, <2>4, <2>5 DEF Pop
<1>8. ASSUME NEW g \in Impls, Loop(g) \/ Awake(g) PROVE NoOversleep'
  <2>1. /\ sch'[g] # "sleeping"
        /\ \A h \in Impls : h # g => /\ sch'[h] = sch[h] /\ wake'[h] = wake[h]
                                     /\ schNow'[h] = schNow[h] /\ front'[h] = front[h]
        /\ UNCHANGED <<sched, time, call>>
    BY <1>8 DEF Loop, Awake, workVars
  <2>. QED BY <2>1 DEF NoOversleep, At, InCall
<1>9. ASSUME NEW g \in Impls, InterruptScheduler(g) PROVE NoOversleep'
  <2>1. /\ \A h \in Impls : wake'[h] = 0 => wake[h] = 0
        /\ UNCHANGED <<sched, sch, schNow, front, time, call>>
    BY <1>9 DEF InterruptScheduler, Interrupted, workVars
  <2>. QED BY <2>1 DEF NoOversleep, At, InCall
<1>10. ASSUME NEW g \in Impls, Gone(g) PROVE NoOversleep'
  <2>1. sched' = [sched EXCEPT ![g] = {}] /\ UNCHANGED <<sch, schNow, front, wake, time, call>>
    BY <1>10 DEF Gone
  <2>. QED BY <2>1 DEF NoOversleep, At, InCall
<1>. QED
  BY <1>0, <1>2, <1>3, <1>4, <1>5, <1>6, <1>7, <1>8, <1>9, <1>10
     DEF Next, Client, Internal, Owner, Cancel, Acquire, Take, Return, Finish, Tick, SetStop,
         ReleaseAll, Join, Resize, Destroy, Destruct, schVars, workVars

\* The sets that are counted are finite.
LEMMA FiniteSets ==
  ASSUME TypeOK, NEW g \in Impls
  PROVE  /\ IsFiniteSet(tasks[g]) /\ IsFiniteSet(Holding(g)) /\ IsFiniteSet(Owing(g))
         /\ Cardinality(tasks[g]) \in Nat /\ Cardinality(Holding(g)) \in Nat
         /\ Cardinality(Owing(g)) \in Nat /\ permits[g] \in Nat
<1>. USE ThreadPoolAssumption
<1>1. IsFiniteSet(Impls)
  BY FS_Interval DEF Impls
<1>2. IsFiniteSet(Actors)
  BY <1>1, FS_Union DEF Actors
<1>3. tasks[g] \subseteq Works /\ Holding(g) \subseteq Workers /\ Owing(g) \subseteq Actors
  BY DEF TypeOK, Holding, Owing
<1>4. IsFiniteSet(tasks[g]) /\ IsFiniteSet(Holding(g)) /\ IsFiniteSet(Owing(g))
  BY <1>2, <1>3, FS_Subset
<1>. QED
  BY <1>4, FS_CardinalityType DEF TypeOK

\* Every enqueued work comes with a permit, which passes from the call that
\* owes it to the semaphore, to a worker, and goes with the work it takes.
LEMMA StepPermitsFit ==
  ASSUME TypeOK, Placed, LifeFits, PermitsFit, Next
  PROVE  PermitsFit'
<1>. USE ThreadPoolAssumption
<1>a. TypeOK'
  BY StepTypeOK
<1>b. 1 \in Impls
  BY DEF Impls
<1>d. \A g \in Impls : /\ IsFiniteSet(tasks[g]) /\ IsFiniteSet(Holding(g)) /\ IsFiniteSet(Owing(g))
                        /\ Cardinality(tasks[g]) \in Nat /\ Cardinality(Holding(g)) \in Nat
                        /\ Cardinality(Owing(g)) \in Nat /\ permits[g] \in Nat
  BY FiniteSets
<1>0. ASSUME UNCHANGED <<tasks, permits>>,
             \A g \in Impls : Holding(g)' = Holding(g) /\ Owing(g)' = Owing(g),
             \A c \in Actors : At(c, "release")' => At(c, "release") /\ call'[c] = call[c],
             \A g \in Impls : (life'[g] = "live" => life[g] = "live") /\ (life'[g] = "unborn" => life[g] = "unborn")
      PROVE  PermitsFit'
  BY <1>0, <1>b DEF PermitsFit, PermitsCover
<1>c. CASE Crash
  <2>1. \A g \in Impls : Holding(g)' = Holding(g) /\ Owing(g)' = Owing(g)
    BY <1>c DEF Crash, Holding, Owing, At, InCall, poolVars
  <2>. QED BY <1>0, <1>c, <2>1 DEF Crash, At, InCall, poolVars
<1>1. ASSUME NEW c \in Actors, NEW w \in Works, Enqueue(c, w), ~ InCall(c), phase[w] # "queued"
      PROVE  PermitsFit'
  <2>1. PICK g \in Impls : g = impl
    BY <1>1 DEF Enqueue, TypeOK, Null
  <2>2. /\ tasks' = [tasks EXCEPT ![g] = @ \cup {w}]
        /\ call' = [call EXCEPT ![c] = [work |-> w, step |-> "release", to |-> g]]
        /\ UNCHANGED <<permits, worker, life, impl>>
    BY <1>1, <2>1 DEF Enqueue
  <2>3. w \notin tasks[g] /\ c \notin Owing(g)
    BY <1>1 DEF Placed, Owing, At
  <2>4. At(c, "release")' /\ call'[c].to = g
    <3>1. [work |-> w, step |-> "release", to |-> g] \in Calls
      BY DEF Calls
    <3>. QED BY <2>2, <3>1 DEF At, InCall, TypeOK
  <2>5. \A d \in Actors : d # c => (At(d, "release")' <=> At(d, "release")) /\ call'[d] = call[d]
    BY <2>2 DEF At, InCall, TypeOK
  <2>6. Owing(g)' = Owing(g) \cup {c} /\ Holding(g)' = Holding(g) /\ tasks'[g] = tasks[g] \cup {w}
    BY <2>2, <2>4, <2>5 DEF Owing, Holding, TypeOK
  <2>7. /\ Cardinality(tasks'[g]) = Cardinality(tasks[g]) + 1
        /\ Cardinality(Owing(g)') = Cardinality(Owing(g)) + 1
    BY <2>3, <2>6, <1>d, FS_AddElement
  <2>8. \A h \in Impls : life'[h] = "live" => h = g
    BY <2>1, <2>2 DEF LifeFits
  <2>9. life[g] # "unborn" /\ \A h \in Impls : h # g => tasks'[h] = tasks[h]
    BY <2>1, <2>2 DEF LifeFits, TypeOK, Null, Impls
  <2>a. permits'[g] = permits[g] /\ Cardinality(Holding(g)') = Cardinality(Holding(g))
    BY <2>2, <2>6, Zenon
  <2>10. PermitsCover'
    BY <2>2, <2>7, <2>8, <2>a, <1>d DEF PermitsFit, PermitsCover
  <2>11. life'[1] = "live" => /\ Cardinality(tasks'[1]) = permits'[1] + Cardinality(Holding(1)')
                                                              + Cardinality(Owing(1)')
                              /\ \A d \in Actors : At(d, "release")' => call'[d].to = 1
    <3>1. ASSUME life'[1] = "live"
          PROVE  g = 1 /\ life[1] = "live" /\ \A d \in Actors : At(d, "release") => call[d].to = 1
      BY <1>b, <2>2, <2>8, <3>1 DEF PermitsFit
    <3>2. ASSUME life'[1] = "live" PROVE \A d \in Actors : At(d, "release")' => call'[d].to = 1
      BY <2>4, <2>5, <3>1, <3>2
    <3>3. ASSUME life'[1] = "live"
          PROVE  Cardinality(tasks'[1]) = permits'[1] + Cardinality(Holding(1)') + Cardinality(Owing(1)')
      BY <1>d, <2>7, <2>a, <3>1, <3>3 DEF PermitsFit
    <3>. QED BY <3>2, <3>3
  <2>. QED BY <2>2, <2>9, <2>10, <2>11 DEF PermitsFit
<1>2. ASSUME NEW c \in Clients \cup Works, NEW w \in Works, Execute(c, w) PROVE PermitsFit'
  <2>1. c \in Actors /\ ~ InCall(c) /\ phase[w] = "new"
    BY <1>2 DEF Execute, MayCall, Unused, Actors
  <2>. QED BY <1>1, <1>2, <1>c, <2>1 DEF Execute
<1>3. ASSUME NEW g \in Impls, NEW w \in Earliest(g), Pop(g), PopDue(g, w) PROVE PermitsFit'
  <2>1. g \in Actors /\ ~ InCall(g) /\ w \in Works /\ phase[w] = "scheduled"
    BY <1>3 DEF Pop, Actors, Earliest, Placed, TypeOK
  <2>. QED BY <1>1, <1>3, <1>c, <2>1 DEF PopDue
<1>4. ASSUME NEW c \in Actors, Release(c) PROVE PermitsFit'
  <2>1. CASE impl # Null /\ permits' = [permits EXCEPT ![impl] = @ + 1]
             /\ call' = [call EXCEPT ![c] = NoCall]
             /\ UNCHANGED <<impl, life, tasks, worker>>
    <3>1. PICK g \in Impls : g = impl
      BY <2>1 DEF TypeOK
    <3>2. \A d \in Actors : At(d, "release")' => d # c /\ At(d, "release") /\ call'[d] = call[d]
      BY <2>1 DEF At, InCall, TypeOK
    <3>3. Owing(g)' = Owing(g) \ {c} /\ Holding(g)' = Holding(g) /\ permits'[g] = permits[g] + 1
      BY <2>1, <3>1 DEF Owing, Holding, At, InCall, TypeOK
    <3>4. Cardinality(Owing(g)') = IF c \in Owing(g) THEN Cardinality(Owing(g)) - 1
                                                      ELSE Cardinality(Owing(g))
      BY <3>3, <1>d, FS_RemoveElement
    <3>5. \A h \in Impls : life'[h] = "live" => h = g
      BY <2>1, <3>1 DEF LifeFits
    <3>a. /\ Cardinality(Holding(g)') = Cardinality(Holding(g)) /\ permits'[g] = permits[g] + 1
          /\ Cardinality(tasks'[g]) = Cardinality(tasks[g])
      BY <2>1, <3>3, Zenon
    <3>6. PermitsCover'
      BY <2>1, <3>a, <3>4, <3>5, <1>d DEF PermitsFit, PermitsCover
    <3>7. life[1] = "live" => c \in Owing(1)
      BY <1>4 DEF Release, PermitsFit, Owing
    <3>8. life'[1] = "live" => /\ Cardinality(tasks'[1]) = permits'[1] + Cardinality(Holding(1)')
                                                               + Cardinality(Owing(1)')
                               /\ \A d \in Actors : At(d, "release")' => call'[d].to = 1
      <4>1. ASSUME life'[1] = "live" PROVE g = 1 /\ life[1] = "live" /\ c \in Owing(1)
        BY <1>b, <2>1, <3>5, <3>7, <4>1
      <4>2. ASSUME life'[1] = "live" PROVE \A d \in Actors : At(d, "release")' => call'[d].to = 1
        BY <3>2, <4>1, <4>2 DEF PermitsFit
      <4>3. ASSUME life'[1] = "live"
            PROVE  Cardinality(tasks'[1]) = permits'[1] + Cardinality(Holding(1)') + Cardinality(Owing(1)')
        BY <1>d, <3>4, <3>a, <4>1, <4>3 DEF PermitsFit
      <4>. QED BY <4>2, <4>3
    <3>. QED BY <2>1, <3>6, <3>8 DEF PermitsFit
  <2>. QED BY <1>4, <1>c, <2>1 DEF Release, poolVars
<1>5. ASSUME NEW c \in Actors, Emplace(c) \/ Interrupt(c) PROVE PermitsFit'
  <2>1. PICK r : call' = [call EXCEPT ![c] = r] /\ (r = NoCall \/ r.step = "interrupt")
    BY <1>5 DEF Emplace, Interrupt
  <2>2. ~ At(c, "release") /\ UNCHANGED <<tasks, permits, worker, life>>
    BY <1>5 DEF Emplace, Interrupt, At, poolVars
  <2>3. \A d \in Actors : (At(d, "release")' <=> At(d, "release")) /\ (d # c => call'[d] = call[d])
    BY <2>1, <2>2 DEF At, InCall, TypeOK
  <2>4. \A g \in Impls : Holding(g)' = Holding(g) /\ Owing(g)' = Owing(g)
    BY <2>2, <2>3 DEF Holding, Owing
  <2>. QED BY <1>0, <2>2, <2>3, <2>4
<1>6. ASSUME NEW c \in Clients \cup Works, NEW w \in Works, NEW t \in 1 .. MaxTime,
             GetScheduler(c, w, t) PROVE PermitsFit'
  <2>1. CASE call' = [call EXCEPT ![c] = [work |-> w, step |-> "emplace", to |-> impl]]
             /\ UNCHANGED <<impl, life, poolVars>>
    <3>1. ~ InCall(c) /\ c \in Actors
      BY <1>6 DEF GetScheduler, MayCall, Actors
    <3>2. \A d \in Actors : (At(d, "release")' <=> At(d, "release")) /\ (d # c => call'[d] = call[d])
      BY <2>1, <3>1 DEF At, InCall, TypeOK
    <3>3. \A g \in Impls : Holding(g)' = Holding(g) /\ Owing(g)' = Owing(g)
      BY <2>1, <3>1, <3>2 DEF Holding, Owing, At, poolVars
    <3>. QED BY <1>0, <2>1, <3>1, <3>2, <3>3 DEF poolVars, At
  <2>. QED BY <1>6, <1>c, <2>1 DEF GetScheduler
<1>7. ASSUME NEW g \in Impls, NEW i \in Workers, Acquire(g, i) PROVE PermitsFit'
  <2>1. /\ worker' = [worker EXCEPT ![g][i] = "holding"] /\ permits' = [permits EXCEPT ![g] = @ - 1]
        /\ UNCHANGED <<life, tasks, call>>
    BY <1>7 DEF Acquire, SetWorker
  <2>2. i \notin Holding(g)
    BY <1>7 DEF Acquire, Holding
  <2>3. Holding(g)' = Holding(g) \cup {i} /\ \A h \in Impls : h # g => Holding(h)' = Holding(h)
    BY <2>1 DEF Holding, TypeOK
  <2>4. Cardinality(Holding(g)') = Cardinality(Holding(g)) + 1
    BY <2>2, <2>3, <1>d, FS_AddElement
  <2>5. \A h \in Impls : Owing(h)' = Owing(h)
    BY <2>1 DEF Owing, At, InCall
  <2>6. \A h \in Impls : permits'[h] + Cardinality(Holding(h)') = permits[h] + Cardinality(Holding(h))
    <3>1. permits'[g] = permits[g] - 1 /\ \A h \in Impls : h # g => permits'[h] = permits[h]
      BY <2>1 DEF TypeOK
    <3>2. \A h \in Impls : h # g => Cardinality(Holding(h)') = Cardinality(Holding(h))
      BY <2>3, Zenon
    <3>. QED BY <2>4, <3>1, <3>2, <1>d
  <2>. QED BY <1>b, <2>1, <2>5, <2>6 DEF PermitsFit, PermitsCover, At, InCall
<1>8. ASSUME NEW g \in Impls, NEW i \in Workers, Take(g, i) PROVE PermitsFit'
  <2>1. PICK w \in tasks[g] : /\ tasks' = [tasks EXCEPT ![g] = @ \ {w}]
                              /\ worker' = [worker EXCEPT ![g][i] = w]
    BY <1>8 DEF Take, SetWorker
  <2>2. UNCHANGED <<life, permits, call>> /\ i \in Holding(g)
    BY <1>8 DEF Take, Holding
  <2>3. w # "holding"
    BY DEF TypeOK
  <2>4. Holding(g)' = Holding(g) \ {i} /\ \A h \in Impls : h # g => Holding(h)' = Holding(h)
    BY <2>1, <2>3 DEF Holding, TypeOK
  <2>5. Cardinality(Holding(g)') = Cardinality(Holding(g)) - 1
    <3>1. IsFiniteSet(Holding(g))
      BY <1>d
    <3>. QED BY <2>2, <2>4, <3>1, FS_RemoveElement
  <2>6. tasks'[g] = tasks[g] \ {w} /\ Cardinality(tasks'[g]) = Cardinality(tasks[g]) - 1
    <3>1. IsFiniteSet(tasks[g])
      BY <1>d
    <3>2. tasks'[g] = tasks[g] \ {w}
      BY <2>1 DEF TypeOK
    <3>. QED BY <2>1, <3>1, <3>2, FS_RemoveElement
  <2>7. \A h \in Impls : Owing(h)' = Owing(h)
    BY <2>2 DEF Owing, At, InCall
  <2>8. \A h \in Impls : h # g => tasks'[h] = tasks[h]
    BY <2>1 DEF TypeOK
  <2>a. /\ Cardinality(tasks'[g]) = Cardinality(tasks[g]) - 1
        /\ \A h \in Impls : h # g => /\ Cardinality(tasks'[h]) = Cardinality(tasks[h])
                                     /\ Cardinality(Holding(h)') = Cardinality(Holding(h))
        /\ \A h \in Impls : Cardinality(Owing(h)') = Cardinality(Owing(h)) /\ permits'[h] = permits[h]
    BY <2>2, <2>4, <2>6, <2>7, <2>8, Zenon
  <2>9. PermitsCover'
    BY <2>2, <2>5, <2>a, <1>d DEF PermitsFit, PermitsCover
  <2>10. life'[1] = "live" =>
            Cardinality(tasks'[1]) = permits'[1] + Cardinality(Holding(1)') + Cardinality(Owing(1)')
    BY <1>b, <2>2, <2>5, <2>a, <1>d DEF PermitsFit
  <2>. QED BY <2>2, <2>6, <2>8, <2>9, <2>10 DEF PermitsFit, At, InCall
<1>9. ASSUME NEW g \in Impls, NEW i \in Workers, Return(g, i) PROVE PermitsFit'
  <2>1. worker' = [worker EXCEPT ![g][i] = "returned"] /\ UNCHANGED <<life, tasks, permits, call>>
    BY <1>9 DEF Return, SetWorker
  <2>2. life[g] # "live" /\ \A h \in Impls : h # g => Holding(h)' = Holding(h)
    BY <1>9, <2>1 DEF Return, Stop, Holding, TypeOK
  <2>3. \A h \in Impls : Owing(h)' = Owing(h)
    BY <2>1 DEF Owing, At, InCall
  <2>. QED BY <1>b, <2>1, <2>2, <2>3 DEF PermitsFit, PermitsCover, At, InCall
<1>10. ASSUME NEW g \in Impls, NEW i \in Workers, Finish(g, i) PROVE PermitsFit'
  <2>1. worker' = [worker EXCEPT ![g][i] = "idle"] /\ UNCHANGED <<life, tasks, permits, call>>
    BY <1>10 DEF Finish, SetWorker
  <2>2. worker[g][i] # "holding"
    BY <1>10 DEF Finish
  <2>3. \A h \in Impls : Holding(h)' = Holding(h) /\ Owing(h)' = Owing(h)
    BY <2>1, <2>2 DEF Holding, Owing, At, InCall, TypeOK
  <2>. QED BY <1>0, <2>1, <2>3 DEF At, InCall
<1>11. ASSUME NEW g \in Impls, ReleaseAll(g) \/ Gone(g) PROVE PermitsFit'
  <2>1. life[g] \notin {"live", "unborn"} /\ UNCHANGED <<worker, call>>
    BY <1>11 DEF ReleaseAll, Gone
  <2>2. \A h \in Impls : h # g => tasks'[h] = tasks[h] /\ permits'[h] = permits[h] /\ life'[h] = life[h]
    BY <1>11 DEF ReleaseAll, Gone, TypeOK
  <2>3. life'[g] \notin {"live", "unborn"}
    BY <1>11 DEF ReleaseAll, Gone, TypeOK
  <2>4. \A h \in Impls : Holding(h)' = Holding(h) /\ Owing(h)' = Owing(h)
    BY <2>1 DEF Holding, Owing, At, InCall
  <2>. QED BY <1>b, <2>1, <2>2, <2>3, <2>4 DEF PermitsFit, PermitsCover, At, InCall
<1>12. ASSUME NEW g \in Impls, Resize(g) PROVE PermitsFit'
  <2>1. PICK n \in Impls : n = g + 1 /\ n # g /\ n # 1
    BY <1>12 DEF Resize, Impls
  <2>2. life' = [life EXCEPT ![g] = "leaving", ![n] = "live"] /\ UNCHANGED <<tasks, permits, worker, call>>
    BY <1>12, <2>1 DEF Resize, poolVars
  <2>3. life[g] = "live" /\ life[n] = "unborn" /\ \A h \in Impls : life[h] = "live" => h = g
    BY <1>12, <2>1 DEF Resize, MayEnd, LifeFits, Impls
  <2>4. \A h \in Impls : life'[h] = IF h = n THEN "live" ELSE IF h = g THEN "leaving" ELSE life[h]
    BY <2>1, <2>2 DEF TypeOK
  <2>5. tasks[n] = {} /\ Cardinality(tasks[n]) = 0
    BY <2>1, <2>3, FS_EmptySet DEF PermitsFit
  <2>6. \A h \in Impls : Holding(h)' = Holding(h) /\ Owing(h)' = Owing(h)
    BY <2>2 DEF Holding, Owing, At, InCall
  <2>7. \A h \in Impls : life'[h] = "live" => h = n
    BY <2>1, <2>3, <2>4
  <2>8. PermitsCover'
    <3>1. /\ Cardinality(tasks'[n]) = 0 /\ permits'[n] = permits[n]
          /\ Cardinality(Holding(n)') = Cardinality(Holding(n))
          /\ Cardinality(Owing(n)') = Cardinality(Owing(n))
      BY <2>2, <2>5, <2>6, Zenon
    <3>. QED BY <2>7, <3>1, <1>d DEF PermitsCover
  <2>9. life'[1] # "live"
    BY <1>b, <2>1, <2>7
  <2>10. \A h \in Impls : life'[h] = "unborn" => tasks'[h] = {}
    BY <2>2, <2>4 DEF PermitsFit
  <2>. QED BY <2>8, <2>9, <2>10 DEF PermitsFit
<1>13. ASSUME NEW g \in Impls,
              Destroy(g) \/ Destruct(g) \/ SetStop(g) \/ Join(g) \/ InterruptScheduler(g) PROVE PermitsFit'
  <2>1. PICK s \in {"leaving", "stopping", "schStopping", "schJoining"} : life' = [life EXCEPT ![g] = s]
    BY <1>13 DEF Destroy, Destruct, SetStop, Join, InterruptScheduler
  <2>2. UNCHANGED <<tasks, permits, worker, call>>
    BY <1>13 DEF Destroy, Destruct, SetStop, Join, InterruptScheduler, poolVars
  <2>3. \A h \in Impls : Holding(h)' = Holding(h) /\ Owing(h)' = Owing(h)
    BY <2>2 DEF Holding, Owing, At, InCall
  <2>. QED BY <1>0, <2>1, <2>2, <2>3 DEF At, InCall, TypeOK
<1>14. CASE UNCHANGED <<life, tasks, permits, worker, call>>
  <2>1. \A h \in Impls : Holding(h)' = Holding(h) /\ Owing(h)' = Owing(h)
    BY <1>14 DEF Holding, Owing, At, InCall
  <2>. QED BY <1>0, <1>14, <2>1 DEF At, InCall
<1>15. ASSUME NEW g \in Impls, Pop(g) PROVE PermitsFit'
  <2>1. ASSUME NEW w \in Earliest(g), PopCancelled(g, w) PROVE PermitsFit'
    BY <1>14, <2>1 DEF PopCancelled, poolVars
  <2>2. CASE Pause(g)
    BY <1>14, <2>2 DEF Pause, poolVars
  <2>. QED BY <1>3, <1>15, <2>1, <2>2 DEF Pop
<1>. QED
  BY <1>2, <1>4, <1>5, <1>6, <1>7, <1>8, <1>9, <1>10, <1>11, <1>12, <1>13, <1>14, <1>15
     DEF Next, Client, Internal, Owner, Cancel, Loop, Awake, Tick, poolVars

-----------------------------------------------------------------------------
\* What nothing happens to stays as it is.
LEMMA StutterIInv == IInv /\ UNCHANGED vars => IInv'
<1>. SUFFICES ASSUME IInv, UNCHANGED vars PROVE IInv'
  OBVIOUS
<1>. USE DEF vars, poolVars, schVars, workVars
<1>1. TypeOK' /\ Placed' /\ OnePlace' /\ RunsSomewhere'
  BY DEF IInv, TypeOK, Placed, OnePlace, RunsSomewhere
<1>2. CallbackFits' /\ CallFits' /\ TimeFits'
  BY DEF IInv, CallbackFits, CallFits, TimeFits, At, InCall
<1>3. LifeFits' /\ WorkersFit' /\ QueueFits' /\ CrashFits'
  BY DEF IInv, LifeFits, WorkersFit, QueueFits, CrashFits, OnlyScheduledDropped
<1>4. NotEarly' /\ NoOversleep'
  BY DEF IInv, NotEarly, NoOversleep, At, InCall
<1>5. PermitsFit'
  BY DEF IInv, PermitsFit, PermitsCover, Holding, Owing, At, InCall
<1>. QED
  BY <1>1, <1>2, <1>3, <1>4, <1>5 DEF IInv

\* The inductive invariant: everything below follows from it.
THEOREM Invariance == Spec => []IInv
<1>1. IInv /\ [Next]_vars => IInv'
  <2>. SUFFICES ASSUME IInv, [Next]_vars PROVE IInv'
    OBVIOUS
  <2>1. CASE Next
    BY <2>1, StepTypeOK, StepPlaced, StepCallbackFits, StepCallFits, StepTimeFits, StepLifeFits,
       StepWorkersFit, StepQueueFits, StepCrashFits, StepNoOversleep, StepPermitsFit DEF IInv
  <2>. QED BY <2>1, StutterIInv
<1>. QED
  BY InitIInv, <1>1, PTL DEF Spec

\* Every variable keeps its type.
THEOREM TypeCorrect == Spec => []TypeOK
<1>1. IInv => TypeOK
  BY DEF IInv
<1>. QED
  BY Invariance, <1>1, PTL

\* A function whose cancel() answered true is never called: whoever exchanges
\* available first has it.
THEOREM CancelIsFinal == Spec => []CancelledNeverRuns
<1>1. IInv => CancelledNeverRuns
  BY DEF IInv, CallbackFits, CancelledNeverRuns
<1>. QED
  BY Invariance, <1>1, PTL

\* executeAfter never runs a function before its time.
THEOREM NeverEarly == Spec => []NotEarly
<1>1. IInv => NotEarly
  BY DEF IInv
<1>. QED
  BY Invariance, <1>1, PTL

\* No wake-up of a sleeping scheduler is lost.
THEOREM NeverOversleeps == Spec => []NoOversleep
<1>1. IInv => NoOversleep
  BY DEF IInv
<1>. QED
  BY Invariance, <1>1, PTL

\* A pool that goes away runs all that was given to execute.
THEOREM ExecutedNotDropped == Spec => []OnlyScheduledDropped
<1>1. IInv => OnlyScheduledDropped
  BY DEF IInv, QueueFits
<1>. QED
  BY Invariance, <1>1, PTL

\* No call finds impl null while there is a live Impl.
THEOREM NeverBetweenPools == Spec => []NeverWithoutPool
<1>1. IInv => NeverWithoutPool
  <2>. SUFFICES ASSUME IInv, crashed, NEW g \in Impls, life[g] = "live" PROVE FALSE
    BY DEF NeverWithoutPool
  <2>1. impl = g /\ impl = Null
    BY DEF IInv, LifeFits, CrashFits
  <2>. QED BY <2>1 DEF Null, Impls
<1>. QED
  BY Invariance, <1>1, PTL

\* The tasks of a live Impl are always covered by permits.
THEOREM AlwaysCovered == Spec => []PermitsCover
<1>1. IInv => PermitsCover
  BY DEF IInv, PermitsFit
<1>. QED
  BY Invariance, <1>1, PTL

\* Before any resize a worker that holds a permit finds a task.
THEOREM NeverSpinsIdle == Spec => []NoIdleSpin
<1>1. IInv => NoIdleSpin
  <2>. SUFFICES ASSUME IInv, NEW g \in Impls, life[g] = "live", Holding(g) # {}, tasks[g] = {}
                PROVE  g > 1
    BY DEF NoIdleSpin
  <2>1. CASE g = 1
    <3>1. Cardinality(tasks[g]) = 0 /\ Cardinality(Holding(g)) # 0
      BY FiniteSets, FS_EmptySet DEF IInv
    <3>. QED BY <2>1, <3>1, FiniteSets DEF IInv, PermitsFit
  <2>. QED BY <2>1 DEF Impls
<1>. QED
  BY Invariance, <1>1, PTL

-----------------------------------------------------------------------------
\* A callback that can be cancelled came with a time.
AvailTimed == \A w \in avail : time[w] # 0

LEMMA StepAvailTimed == IInv /\ AvailTimed /\ [Next]_vars => AvailTimed'
<1>. SUFFICES ASSUME IInv, AvailTimed, [Next]_vars PROVE AvailTimed'
  OBVIOUS
<1>0. TypeOK /\ CallFits
  BY DEF IInv
<1>1. ASSUME avail' \subseteq avail, time' = time PROVE AvailTimed'
  BY <1>1 DEF AvailTimed
<1>2. ASSUME NEW c \in Actors, Emplace(c) PROVE AvailTimed'
  <2>1. avail' = avail \cup {call[c].work} /\ time' = time /\ At(c, "emplace")
    BY <1>2 DEF Emplace
  <2>. QED BY <1>0, <2>1 DEF AvailTimed, CallFits
<1>3. ASSUME NEW c, NEW w \in Works, NEW t \in 1 .. MaxTime, GetScheduler(c, w, t) PROVE AvailTimed'
  <2>1. CASE time' = [time EXCEPT ![w] = t] /\ avail' = avail
    BY <1>0, <2>1 DEF AvailTimed, TypeOK
  <2>. QED BY <1>1, <1>3, <2>1 DEF GetScheduler, Crash, workVars
<1>4. ASSUME NEW c, NEW w, Execute(c, w) PROVE AvailTimed'
  BY <1>1, <1>4 DEF Execute, Enqueue, Crash, workVars
<1>5. ASSUME NEW g, Pop(g) PROVE AvailTimed'
  BY <1>1, <1>5 DEF Pop, PopDue, PopCancelled, Pause, Enqueue, Crash, workVars
<1>6. CASE UNCHANGED vars
  BY <1>1, <1>6 DEF vars, workVars
<1>. QED
  BY <1>1, <1>2, <1>3, <1>4, <1>5, <1>6
  DEF Next, Client, Internal, Owner, Cancel, Release, Interrupt, Acquire, Take, Return, Finish,
      Loop, Awake, SetStop, ReleaseAll, Join, InterruptScheduler, Gone, Tick, Resize, Destroy,
      Destruct, Crash, workVars

\* What the contract says of a work depends on these three alone.
LEMMA FateKept ==
  ASSUME NEW w \in Works, phase'[w] = phase[w], time'[w] = 0 <=> time[w] = 0,
         w \in cancelled' <=> w \in cancelled
  PROVE  Fate'[w] = Fate[w]
BY DEF Fate

LEMMA FateBecomes ==
  ASSUME NEW W, NEW s, \A w \in Works : Fate'[w] = IF w \in W THEN s ELSE Fate[w]
  PROVE  Contract!Become(W, s)
<1>1. Fate' = [w \in Works |-> Fate'[w]]
  BY DEF Fate
<1>. QED BY <1>1, Zenon DEF Contract!Become

LEMMA FateUnchanged ==
  ASSUME UNCHANGED <<phase, time, cancelled, clock>>
  PROVE  UNCHANGED <<Fate, time, clock>>
BY DEF Fate

\* Every step of the pool is a step of the contract, or none.
LEMMA ContractStep ==
  ASSUME IInv, AvailTimed, [Next]_vars
  PROVE  Contract!Next \/ UNCHANGED <<Fate, time, clock>>
<1>. DEFINE P == Contract!Next \/ UNCHANGED <<Fate, time, clock>>
<1>0. TypeOK /\ Placed /\ CallbackFits /\ CallFits /\ TimeFits /\ NotEarly
  BY DEF IInv
<1>t. time \in [Works -> Nat] /\ phase \in [Works -> Phases] /\ clock \in Nat
  BY <1>0, ThreadPoolAssumption DEF TypeOK
<1>s. ASSUME UNCHANGED <<phase, time, cancelled, clock>> PROVE P
  BY <1>s, FateUnchanged
<1>c. CASE Crash
  BY <1>s, <1>c DEF Crash, workVars
<1>1. ASSUME NEW c \in Clients \cup Works, NEW w \in Works, Execute(c, w) PROVE P
  <2>1. CASE Enqueue(c, w)
    <3>1. phase' = [phase EXCEPT ![w] = "queued"] /\ UNCHANGED <<time, cancelled, clock>>
      BY <2>1 DEF Enqueue
    <3>2. phase[w] = "new" /\ time[w] = 0 /\ w \notin cancelled
      BY <1>0, <1>1 DEF Execute, Unused, TimeFits, At, CallbackFits
    <3>3. Fate[w] = "new" /\ Fate'[w] = "accepted"
      BY <1>t, <3>1, <3>2 DEF Fate
    <3>4. \A x \in Works \ {w} : Fate'[x] = Fate[x]
      BY <1>t, <3>1, FateKept
    <3>5. Contract!Become({w}, "accepted")
      BY <3>3, <3>4, FateBecomes
    <3>. QED BY <3>1, <3>3, <3>5 DEF Contract!Next, Contract!Execute
  <2>. QED BY <1>1, <1>c, <2>1 DEF Execute
<1>2. ASSUME NEW c \in Clients \cup Works, NEW w \in Works, NEW t \in 1 .. MaxTime,
             GetScheduler(c, w, t)
      PROVE  P
  <2>1. CASE time' = [time EXCEPT ![w] = t] /\ UNCHANGED <<phase, cancelled, clock>>
    <3>1. phase[w] = "new" /\ time[w] = 0 /\ w \notin cancelled /\ t > clock
      BY <1>0, <1>2 DEF GetScheduler, Unused, TimeFits, At, CallbackFits
    <3>2. Fate[w] = "new" /\ Fate'[w] = "accepted"
      BY <1>t, <2>1, <3>1 DEF Fate
    <3>3. \A x \in Works \ {w} : Fate'[x] = Fate[x]
      BY <1>t, <2>1, FateKept
    <3>4. Contract!Become({w}, "accepted")
      BY <3>2, <3>3, FateBecomes
    <3>. QED BY <2>1, <3>1, <3>2, <3>4 DEF Contract!Next, Contract!ExecuteAfter
  <2>. QED BY <1>2, <1>c, <2>1 DEF GetScheduler
<1>3. ASSUME NEW c \in Actors, Emplace(c) PROVE P
  <2>. DEFINE w == call[c].work
  <2>1. w \in Works /\ phase[w] = "new" /\ time[w] # 0 /\ w \notin cancelled
    BY <1>0, <1>3 DEF Emplace, CallFits, CallbackFits, At, InCall, TypeOK, Calls
  <2>2. phase' = [phase EXCEPT ![w] = "scheduled"] /\ UNCHANGED <<time, cancelled, clock>>
    BY <1>3 DEF Emplace
  <2>3. Fate'[w] = Fate[w]
    BY <1>t, <2>1, <2>2 DEF Fate
  <2>4. \A x \in Works \ {w} : Fate'[x] = Fate[x]
    BY <1>t, <2>2, FateKept
  <2>5. Fate' = Fate
    BY <2>3, <2>4 DEF Fate
  <2>. QED BY <2>2, <2>5
<1>4. ASSUME NEW w \in Works, Cancel(w) PROVE P
  <2>1. /\ phase[w] \in {"scheduled", "dropped"} /\ time[w] # 0 /\ w \notin cancelled
        /\ cancelled' = cancelled \cup {w} /\ UNCHANGED <<phase, time, clock>>
    BY <1>0, <1>4 DEF Cancel, AvailTimed, CallbackFits
  <2>2. Fate[w] \in {"accepted", "dropped"} /\ Fate'[w] = "cancelled"
    BY <2>1 DEF Fate
  <2>3. \A x \in Works \ {w} : Fate'[x] = Fate[x]
    BY <2>1, FateKept
  <2>4. Contract!Become({w}, "cancelled")
    BY <2>2, <2>3, FateBecomes
  <2>. QED BY <2>1, <2>2, <2>4 DEF Contract!Next, Contract!Cancel
<1>5. ASSUME NEW g \in Impls, NEW i \in Workers, Take(g, i) PROVE P
  <2>1. PICK w \in tasks[g] : phase' = [phase EXCEPT ![w] = "running"]
    BY <1>5 DEF Take
  <2>2. UNCHANGED <<time, cancelled, clock>>
    BY <1>5 DEF Take
  <2>3. w \in Works /\ phase[w] = "queued" /\ time[w] <= clock /\ w \notin cancelled
    BY <1>0, <1>t DEF Placed, NotEarly, CallbackFits, TypeOK
  <2>4. Fate[w] = "accepted" /\ Fate'[w] = "called"
    BY <1>t, <2>1, <2>2, <2>3 DEF Fate
  <2>5. \A x \in Works \ {w} : Fate'[x] = Fate[x]
    BY <1>t, <2>1, <2>2, FateKept
  <2>6. Contract!Become({w}, "called")
    BY <2>4, <2>5, FateBecomes
  <2>. QED BY <2>2, <2>3, <2>4, <2>6 DEF Contract!Next, Contract!Call
<1>6. ASSUME NEW g \in Impls, NEW i \in Workers, Finish(g, i) PROVE P
  <2>. DEFINE w == worker[g][i]
  <2>1. /\ w \in Works /\ phase[w] = "running" /\ w \notin cancelled
        /\ phase' = [phase EXCEPT ![w] = "done"] /\ UNCHANGED <<time, cancelled, clock>>
    BY <1>0, <1>6 DEF Finish, Placed, CallbackFits
  <2>2. Fate'[w] = Fate[w]
    BY <1>t, <2>1 DEF Fate
  <2>3. \A x \in Works \ {w} : Fate'[x] = Fate[x]
    BY <1>t, <2>1, FateKept
  <2>4. Fate' = Fate
    BY <2>2, <2>3 DEF Fate
  <2>. QED BY <2>1, <2>4
<1>7. ASSUME NEW g \in Impls, Pop(g) PROVE P
  <2>1. ASSUME NEW w \in Earliest(g), phase' = [phase EXCEPT ![w] = "queued"]
                                      \/ phase' = [phase EXCEPT ![w] = "popped"],
               UNCHANGED <<time, cancelled, clock>>
        PROVE  P
    <3>1. w \in Works /\ phase[w] = "scheduled"
      BY <1>0 DEF Earliest, Placed, TypeOK
    <3>2. Fate'[w] = Fate[w]
      BY <1>t, <2>1, <3>1 DEF Fate
    <3>3. \A x \in Works \ {w} : Fate'[x] = Fate[x]
      BY <1>t, <2>1, FateKept
    <3>4. Fate' = Fate
      BY <3>2, <3>3 DEF Fate
    <3>. QED BY <2>1, <3>4
  <2>2. CASE Pause(g)
    BY <1>s, <2>2 DEF Pause, workVars
  <2>. QED BY <1>7, <1>c, <2>1, <2>2 DEF Pop, PopDue, PopCancelled, Enqueue
<1>8. ASSUME NEW g \in Impls, Gone(g) PROVE P
  <2>. DEFINE D == (tasks[g] \cup sched[g]) \ cancelled
  <2>1. phase' = [w \in Works |-> IF w \in tasks[g] \cup sched[g] THEN "dropped" ELSE phase[w]]
    BY <1>8 DEF Gone
  <2>2. UNCHANGED <<time, cancelled, clock>>
    BY <1>8 DEF Gone
  <2>3. \A w \in tasks[g] \cup sched[g] : w \in Works /\ phase[w] \in {"queued", "scheduled"}
    BY <1>0 DEF Placed, TypeOK
  <2>4. \A w \in D : Fate[w] = "accepted" /\ Fate'[w] = "dropped"
    BY <2>1, <2>2, <2>3 DEF Fate
  <2>5. \A w \in Works \ D : Fate'[w] = Fate[w]
    <3>. TAKE w \in Works \ D
    <3>1. CASE w \in tasks[g] \cup sched[g]
      BY <2>1, <2>2, <2>3, <3>1 DEF Fate
    <3>2. CASE w \notin tasks[g] \cup sched[g]
      BY <2>1, <2>2, <3>2, FateKept
    <3>. QED BY <3>1, <3>2
  <2>6. Contract!Become(D, "dropped")
    BY <2>4, <2>5, FateBecomes
  <2>7. Contract!Drop(D) /\ D \in SUBSET Works
    BY <2>2, <2>3, <2>4, <2>6 DEF Contract!Drop
  <2>. QED BY <2>7 DEF Contract!Next
<1>9. CASE Tick
  BY <1>9, FateUnchanged DEF Tick, workVars, Contract!Next, Contract!Tick, Fate
<1>10. ASSUME NEW c \in Actors, Release(c) PROVE P
  BY <1>s, <1>c, <1>10 DEF Release, workVars
<1>11. CASE UNCHANGED vars
  BY <1>s, <1>11 DEF vars, workVars
<1>. QED
  BY <1>s, <1>1, <1>2, <1>3, <1>4, <1>5, <1>6, <1>7, <1>8, <1>9, <1>10, <1>11
  DEF Next, Client, Internal, Owner, Interrupt, Acquire, Return, Loop, Awake, SetStop,
      ReleaseAll, Join, InterruptScheduler, Resize, Destroy, Destruct, workVars

\* The pool is an executor: it implements ExecutorContract through Fate, so no
\* function is called twice, none early and none whose cancel() was answered.
THEOREM ImplementsContract == Spec => ExecutorKept
<1>1. Init => AvailTimed
  BY DEF Init, AvailTimed
<1>2. Init => Contract!Init
  BY DEF Init, Contract!Init, Fate
<1>3. IInv /\ AvailTimed /\ [Next]_vars => [Contract!Next]_Contract!vars
  BY ContractStep DEF Contract!vars
<1>. QED
  BY <1>1, <1>2, <1>3, Invariance, StepAvailTimed, PTL DEF Spec, ExecutorKept, Contract!Spec
=============================================================================
