------------------------- MODULE Executors_proofs -------------------------
(***************************************************************************)
(* Proofs about TickExecutor, for any works, clients and bounds: that it   *)
(* is an executor, by a refinement of ExecutorContract.  And about         *)
(* CallbackTransformer, for any number of values: that each is delivered   *)
(* once and in order, because it is always known whose turn it is.  Of     *)
(* TickSyncSleep, what its liveness rests on: no step takes away the end   *)
(* of a sleep.                                                             *)
(***************************************************************************)
EXTENDS TickExecutor, CallbackTransformer, TickSyncSleep, TLAPS

\* A work is where its phase says.
Placed ==
    /\ \A w \in works : phase[w] = "queued"
    /\ \A w \in scheduled : phase[w] = "scheduled"
    /\ tick \in Works => phase[tick] = "running"

\* A CancellableCallback has a time, and is available until somebody takes it.
CallbackFits ==
    /\ \A w \in avail : phase[w] \in {"scheduled", "dropped"} /\ time[w] # 0
    /\ \A w \in cancelled : w \notin avail /\ phase[w] \in {"scheduled", "popped", "dropped"}

\* executeAfter gives a work its time before the work is scheduled, once.
CallFits ==
    /\ \A c \in Actors : call[c] # NoCall => phase[call[c]] = "new" /\ time[call[c]] # 0
    /\ \A c, d \in Actors : call[c] = call[d] /\ call[c] # NoCall => c = d
    /\ \A w \in Works : phase[w] = "new" /\ time[w] # 0 => \E c \in Actors : call[c] = w

\* What left the schedule was due, by a frame that update had read.
NotEarly ==
    /\ now <= frame
    /\ \A w \in Works : time[w] > frame => phase[w] \in {"new", "scheduled", "dropped"}

IInv == TypeOK /\ Placed /\ CallbackFits /\ CallFits /\ NotEarly

-----------------------------------------------------------------------------
LEMMA InitIInv == Init => IInv
<1>. SUFFICES ASSUME Init PROVE IInv
  OBVIOUS
<1>. USE TickExecutorAssumption DEF Init
<1>1. TypeOK
  BY DEF TypeOK
<1>2. Placed /\ CallbackFits /\ CallFits /\ NotEarly
  BY DEF Placed, CallbackFits, CallFits, NotEarly
<1>. QED BY <1>1, <1>2 DEF IInv

LEMMA StepTypeOK == TypeOK /\ [Next]_vars => TypeOK'
<1>. SUFFICES ASSUME TypeOK, [Next]_vars PROVE TypeOK'
  OBVIOUS
<1>. USE TickExecutorAssumption DEF TypeOK, SetPhase
<1>1. ASSUME NEW c \in Actors, NEW w \in Works, Execute(c, w) PROVE TypeOK'
  BY <1>1 DEF Execute
<1>2. ASSUME NEW c \in Actors, NEW w \in Works, NEW n \in 1 .. MaxFrame, ReadFrame(c, w, n)
      PROVE  TypeOK'
  <2>1. frame + n \in 0 .. MaxFrame
    BY <1>2 DEF ReadFrame
  <2>. QED BY <1>2, <2>1 DEF ReadFrame
<1>3. ASSUME NEW c \in Actors, Emplace(c) PROVE TypeOK'
  BY <1>3 DEF Emplace
<1>4. ASSUME NEW w \in Works, Cancel(w) \/ PopDue(w) \/ Take(w) PROVE TypeOK'
  BY <1>4 DEF Cancel, PopDue, Take
<1>5. CASE Begin \/ NothingDue
  BY <1>5 DEF Begin, NothingDue, workVars
<1>6. CASE NothingLeft
  BY <1>6 DEF NothingLeft, Leave, workVars
<1>7. CASE Return
  <2>1. count' \in 0 .. CheckPack
    BY <1>7 DEF Return
  <2>2. frame' \in 0 .. MaxFrame /\ tick' \in {"taking", "leaving"}
    BY <1>7 DEF Return, Leave
  <2>. QED BY <1>7, <2>1, <2>2 DEF Return
<1>8. CASE End \/ Destroy
  <2>1. /\ works' \subseteq Works /\ scheduled' \subseteq Works
        /\ phase' \in [Works -> {"new", "scheduled", "popped", "queued", "running", "done", "dropped"}]
    BY <1>8 DEF End, Destroy, Freed
  <2>. QED BY <1>8, <2>1 DEF End, Destroy
<1>9. CASE UNCHANGED vars
  BY <1>9 DEF vars, workVars
<1>. QED
  BY <1>1, <1>2, <1>3, <1>4, <1>5, <1>6, <1>7, <1>8, <1>9 DEF Next, TickThread

\* A step keeps what relates the phases to the rest.
LEMMA StepIInv == IInv /\ [Next]_vars => IInv'
<1>. SUFFICES ASSUME IInv, [Next]_vars PROVE IInv'
  OBVIOUS
<1>. DEFINE P == Placed' /\ CallbackFits' /\ CallFits' /\ NotEarly'
<1>. USE TickExecutorAssumption DEF TypeOK, SetPhase
<1>0. TypeOK /\ Placed /\ CallbackFits /\ CallFits /\ NotEarly
  BY DEF IInv
<1>t. TypeOK'
  BY <1>0, StepTypeOK
<1>1. ASSUME NEW c \in Actors, NEW w \in Works, Execute(c, w) PROVE P
  <2>1. phase[w] = "new" /\ \A d \in Actors : call[d] # w
    BY <1>1 DEF Execute, Unused
  <2>2. time[w] = 0
    BY <1>0, <2>1 DEF CallFits
  <2>3. Placed' /\ CallbackFits'
    BY <1>0, <1>1, <2>1 DEF Execute, Placed, CallbackFits
  <2>4. CallFits' /\ NotEarly'
    BY <1>0, <1>1, <2>1, <2>2 DEF Execute, CallFits, NotEarly
  <2>. QED BY <2>3, <2>4
<1>2. ASSUME NEW c \in Actors, NEW w \in Works, NEW n \in 1 .. MaxFrame, ReadFrame(c, w, n)
      PROVE  P
  <2>1. phase[w] = "new" /\ (\A d \in Actors : call[d] # w) /\ call[c] = NoCall
    BY <1>2 DEF ReadFrame, Unused, MayCall
  <2>2. time' = [time EXCEPT ![w] = frame + n] /\ frame + n # 0
    BY <1>0, <1>2 DEF ReadFrame
  <2>3. Placed' /\ CallbackFits'
    BY <1>0, <1>2, <2>1, <2>2 DEF ReadFrame, Placed, CallbackFits
  <2>4. CallFits'
    BY <1>0, <1>2, <2>1, <2>2 DEF ReadFrame, CallFits
  <2>5. NotEarly'
    BY <1>0, <1>2, <2>1, <2>2 DEF ReadFrame, NotEarly
  <2>. QED BY <2>3, <2>4, <2>5
<1>3. ASSUME NEW c \in Actors, Emplace(c) PROVE P
  <2>1. call[c] \in Works /\ phase[call[c]] = "new" /\ time[call[c]] # 0
    BY <1>0, <1>3 DEF Emplace, CallFits
  <2>2. Placed' /\ CallbackFits'
    BY <1>0, <1>3, <2>1 DEF Emplace, Placed, CallbackFits
  <2>3. CallFits'
    BY <1>0, <1>3, <2>1 DEF Emplace, CallFits
  <2>4. NotEarly'
    BY <1>0, <1>3, <2>1 DEF Emplace, NotEarly
  <2>. QED BY <2>2, <2>3, <2>4
<1>4. ASSUME NEW w \in Works, Cancel(w) PROVE P
  <2>1. Placed' /\ CallbackFits'
    BY <1>0, <1>4 DEF Cancel, Placed, CallbackFits
  <2>2. CallFits' /\ NotEarly'
    BY <1>0, <1>4 DEF Cancel, CallFits, NotEarly
  <2>. QED BY <2>1, <2>2
<1>5. ASSUME NEW w \in Works, PopDue(w) PROVE P
  <2>1. w \in scheduled /\ phase[w] = "scheduled" /\ time[w] <= frame
    BY <1>0, <1>5 DEF PopDue, Due, Placed, NotEarly
  <2>2. Placed' /\ CallbackFits'
    BY <1>0, <1>5, <2>1 DEF PopDue, Placed, CallbackFits
  <2>3. CallFits' /\ NotEarly'
    BY <1>0, <1>5, <2>1 DEF PopDue, CallFits, NotEarly
  <2>. QED BY <2>2, <2>3
<1>6. ASSUME NEW w \in Works, Take(w) PROVE P
  <2>1. phase[w] = "queued"
    BY <1>0, <1>6 DEF Take, Placed
  <2>2. Placed' /\ CallbackFits'
    BY <1>0, <1>6, <2>1 DEF Take, Placed, CallbackFits
  <2>3. CallFits' /\ NotEarly'
    BY <1>0, <1>6, <2>1 DEF Take, CallFits, NotEarly
  <2>. QED BY <2>2, <2>3
<1>7. ASSUME Return PROVE P
  <2>1. phase[tick] = "running" /\ tick \in Works
    BY <1>0, <1>7 DEF Return, Placed
  <2>2. frame' >= frame /\ tick' \notin Works
    BY <1>0, <1>7 DEF Return, Leave
  <2>3. Placed' /\ CallbackFits'
    BY <1>0, <1>7, <2>1, <2>2 DEF Return, Placed, CallbackFits
  <2>4. CallFits'
    BY <1>0, <1>7, <2>1 DEF Return, CallFits
  <2>5. NotEarly'
    BY <1>0, <1>t, <1>7, <2>1, <2>2 DEF Return, NotEarly
  <2>. QED BY <2>3, <2>4, <2>5
<1>8. ASSUME End \/ Destroy PROVE P
  <2>1. \/ UNCHANGED <<works, scheduled, phase>>
        \/ Freed
    BY <1>8 DEF End, Destroy
  <2>2. UNCHANGED <<frame, now, time, avail, cancelled, call>> /\ (tick' = tick \/ tick' = "idle")
    BY <1>8 DEF End, Destroy
  <2>3. \A w \in Works :
           phase'[w] # phase[w] => phase'[w] = "dropped" /\ phase[w] \in {"queued", "scheduled"}
    BY <1>0, <2>1 DEF Freed, Placed
  <2>4. Placed'
    <3>1. tick' \in Works => tick' = tick /\ phase'[tick] = "running"
      BY <1>0, <2>2, <2>3 DEF Placed
    <3>. QED BY <1>0, <2>1, <3>1 DEF Freed, Placed
  <2>6. CallbackFits'
    BY <1>0, <2>2, <2>3 DEF CallbackFits
  <2>5. CallFits' /\ NotEarly'
    BY <1>0, <2>2, <2>3 DEF CallFits, NotEarly
  <2>. QED BY <2>4, <2>5, <2>6
<1>9. ASSUME Begin \/ NothingDue \/ NothingLeft PROVE P
  <2>1. /\ UNCHANGED <<works, scheduled, phase, time, avail, cancelled, call>>
        /\ tick' \notin Works
    BY <1>9 DEF Begin, NothingDue, NothingLeft, Leave, workVars
  <2>2. now' <= frame' /\ frame' >= frame
    BY <1>0, <1>9 DEF Begin, NothingDue, NothingLeft, Leave, NotEarly
  <2>3. Placed' /\ CallbackFits' /\ CallFits'
    BY <1>0, <2>1 DEF Placed, CallbackFits, CallFits
  <2>4. NotEarly'
    BY <1>0, <1>t, <2>1, <2>2 DEF NotEarly
  <2>. QED BY <2>3, <2>4
<1>10. ASSUME UNCHANGED vars PROVE P
  <2>1. UNCHANGED <<works, scheduled, tick, phase, time, avail, cancelled, call, frame, now>>
    BY <1>10 DEF vars, workVars
  <2>2. Placed' /\ CallbackFits'
    BY <1>0, <2>1 DEF Placed, CallbackFits
  <2>3. CallFits' /\ NotEarly'
    BY <1>0, <2>1 DEF CallFits, NotEarly
  <2>. QED BY <2>2, <2>3
<1>. QED
  BY <1>t, <1>1, <1>2, <1>3, <1>4, <1>5, <1>6, <1>7, <1>8, <1>9, <1>10
  DEF Next, TickThread, IInv

\* IInv holds initially and is preserved, so it always holds.
THEOREM Invariance == Spec => []IInv
BY InitIInv, StepIInv, PTL DEF Spec

\* Every variable of the executor keeps its type: no tick counts past its
\* bound, and no call is about anything but a work.
THEOREM TypeCorrect == Spec => []TypeOK
<1>1. IInv => TypeOK
  BY DEF IInv
<1>. QED BY Invariance, <1>1, PTL

-----------------------------------------------------------------------------
\* What the contract says of a work depends on these three alone.
LEMMA FateKept ==
  ASSUME NEW w \in Works, phase'[w] = phase[w], time'[w] = 0 <=> time[w] = 0,
         w \in cancelled' <=> w \in cancelled
  PROVE  Fate'[w] = Fate[w]
BY DEF Fate

LEMMA FateBecomes ==
  ASSUME NEW W, NEW s, \A w \in Works : Fate'[w] = IF w \in W THEN s ELSE Fate[w]
  PROVE  Contract!Become(W, s)
<1>1. Fate' = [w \in Works |-> Fate'[w]]
  BY DEF Fate
<1>. QED BY <1>1, Zenon DEF Contract!Become

LEMMA FateUnchanged ==
  ASSUME \A w \in Works : Fate'[w] = Fate[w]
  PROVE  Fate' = Fate
BY DEF Fate

\* Every step of the executor is a step of the contract, or none.
LEMMA ContractStep ==
  ASSUME IInv, [Next]_vars
  PROVE  Contract!Next \/ UNCHANGED <<Fate, time, frame>>
<1>. DEFINE P == Contract!Next \/ UNCHANGED <<Fate, time, frame>>
<1>0. TypeOK /\ Placed /\ CallbackFits /\ CallFits /\ NotEarly
  BY DEF IInv
<1>t. /\ time \in [Works -> Nat] /\ frame \in Nat /\ works \subseteq Works /\ scheduled \subseteq Works
      /\ phase \in [Works -> {"new", "scheduled", "popped", "queued", "running", "done", "dropped"}]
  BY <1>0, TickExecutorAssumption DEF TypeOK
<1>s. ASSUME UNCHANGED <<phase, time, cancelled>> PROVE Fate' = Fate
  BY <1>s DEF Fate
<1>1. ASSUME NEW c \in Actors, NEW w \in Works, Execute(c, w) PROVE P
  <2>1. phase' = [phase EXCEPT ![w] = "queued"] /\ UNCHANGED <<time, cancelled, frame>>
    BY <1>1 DEF Execute, SetPhase
  <2>2. phase[w] = "new" /\ time[w] = 0 /\ w \notin cancelled
    BY <1>0, <1>1 DEF Execute, Unused, CallFits, CallbackFits
  <2>3. Fate[w] = "new" /\ Fate'[w] = "accepted"
    BY <1>t, <2>1, <2>2 DEF Fate
  <2>4. \A x \in Works \ {w} : Fate'[x] = Fate[x]
    BY <1>t, <2>1, FateKept
  <2>5. Contract!Become({w}, "accepted")
    BY <2>3, <2>4, FateBecomes
  <2>. QED BY <2>1, <2>3, <2>5 DEF Contract!Next, Contract!Execute
<1>2. ASSUME NEW c \in Actors, NEW w \in Works, NEW n \in 1 .. MaxFrame, ReadFrame(c, w, n)
      PROVE  P
  <2>1. phase[w] = "new" /\ time[w] = 0 /\ w \notin cancelled
    BY <1>0, <1>2 DEF ReadFrame, Unused, CallFits, CallbackFits
  <2>2. time' = [time EXCEPT ![w] = frame + n] /\ UNCHANGED <<phase, cancelled, frame>>
    BY <1>2 DEF ReadFrame
  <2>3. frame + n \in 1 .. MaxFrame /\ frame + n > frame
    BY <1>t, <1>2, TickExecutorAssumption DEF ReadFrame
  <2>4. Fate[w] = "new" /\ Fate'[w] = "accepted"
    BY <1>t, <2>1, <2>2, <2>3 DEF Fate
  <2>5. \A x \in Works \ {w} : Fate'[x] = Fate[x]
    BY <1>t, <2>2, FateKept
  <2>6. Contract!Become({w}, "accepted")
    BY <2>4, <2>5, FateBecomes
  <2>7. Contract!ExecuteAfter(w, frame + n)
    BY <2>2, <2>3, <2>4, <2>6 DEF Contract!ExecuteAfter
  <2>. QED BY <2>3, <2>7 DEF Contract!Next
<1>3. ASSUME NEW c \in Actors, Emplace(c) PROVE P
  <2>. DEFINE w == call[c]
  <2>1. w \in Works /\ phase[w] = "new" /\ time[w] # 0 /\ w \notin cancelled
    BY <1>0, <1>3 DEF Emplace, CallFits, CallbackFits, TypeOK
  <2>2. phase' = [phase EXCEPT ![w] = "scheduled"] /\ UNCHANGED <<time, cancelled, frame>>
    BY <1>3 DEF Emplace, SetPhase
  <2>3. Fate'[w] = Fate[w]
    BY <1>t, <2>1, <2>2 DEF Fate
  <2>4. \A x \in Works \ {w} : Fate'[x] = Fate[x]
    BY <1>t, <2>2, FateKept
  <2>. QED BY <2>2, <2>3, <2>4, FateUnchanged
<1>4. ASSUME NEW w \in Works, Cancel(w) PROVE P
  <2>1. /\ phase[w] \in {"scheduled", "dropped"} /\ time[w] # 0 /\ w \notin cancelled
        /\ cancelled' = cancelled \cup {w} /\ UNCHANGED <<phase, time, frame>>
    BY <1>0, <1>4 DEF Cancel, CallbackFits
  <2>2. Fate[w] \in {"accepted", "dropped"} /\ Fate'[w] = "cancelled"
    BY <2>1 DEF Fate
  <2>3. \A x \in Works \ {w} : Fate'[x] = Fate[x]
    BY <2>1, FateKept
  <2>4. Contract!Become({w}, "cancelled")
    BY <2>2, <2>3, FateBecomes
  <2>. QED BY <2>1, <2>2, <2>4 DEF Contract!Next, Contract!Cancel
<1>5. ASSUME NEW w \in Works, PopDue(w) PROVE P
  <2>1. /\ phase[w] = "scheduled" /\ UNCHANGED <<time, cancelled, frame>>
        /\ \E s \in {"queued", "popped"} : phase' = [phase EXCEPT ![w] = s]
    BY <1>0, <1>5 DEF PopDue, Due, Placed, SetPhase
  <2>2. Fate'[w] = Fate[w]
    BY <1>t, <2>1 DEF Fate
  <2>3. \A x \in Works \ {w} : Fate'[x] = Fate[x]
    BY <1>t, <2>1, FateKept
  <2>. QED BY <2>1, <2>2, <2>3, FateUnchanged
<1>6. ASSUME NEW w \in Works, Take(w) PROVE P
  <2>1. phase' = [phase EXCEPT ![w] = "running"] /\ UNCHANGED <<time, cancelled, frame>>
    BY <1>6 DEF Take, SetPhase
  <2>2. phase[w] = "queued" /\ time[w] <= frame /\ w \notin cancelled
    BY <1>0, <1>6, <1>t DEF Take, Placed, NotEarly, CallbackFits
  <2>3. Fate[w] = "accepted" /\ Fate'[w] = "called"
    BY <1>t, <2>1, <2>2 DEF Fate
  <2>4. \A x \in Works \ {w} : Fate'[x] = Fate[x]
    BY <1>t, <2>1, FateKept
  <2>5. Contract!Become({w}, "called")
    BY <2>3, <2>4, FateBecomes
  <2>. QED BY <2>1, <2>2, <2>3, <2>5 DEF Contract!Next, Contract!Call
<1>f. ASSUME Fate' = Fate, time' = time, frame' \in {frame, frame + 1} PROVE P
  BY <1>f DEF Contract!Next, Contract!Tick
<1>7. CASE Return
  <2>1. /\ tick \in Works /\ phase[tick] = "running" /\ UNCHANGED <<time, cancelled>>
        /\ phase' = [phase EXCEPT ![tick] = "done"] /\ frame' \in {frame, frame + 1}
    BY <1>0, <1>7 DEF Return, Placed, SetPhase, Leave
  <2>2. Fate'[tick] = Fate[tick]
    BY <1>t, <2>1 DEF Fate
  <2>3. \A x \in Works \ {tick} : Fate'[x] = Fate[x]
    BY <1>t, <2>1, FateKept
  <2>. QED BY <1>f, <2>1, <2>2, <2>3, FateUnchanged
<1>8. CASE Freed /\ UNCHANGED <<time, cancelled, frame>>
  <2>. DEFINE D == (works \cup scheduled) \ cancelled
  <2>1. phase' = [w \in Works |-> IF w \in works \cup scheduled THEN "dropped" ELSE phase[w]]
    BY <1>8 DEF Freed
  <2>2. \A w \in works \cup scheduled : w \in Works /\ phase[w] \in {"queued", "scheduled"}
    BY <1>0, <1>t DEF Placed
  <2>3. \A w \in D : Fate[w] = "accepted" /\ Fate'[w] = "dropped"
    BY <1>8, <2>1, <2>2 DEF Fate
  <2>4. \A w \in Works \ D : Fate'[w] = Fate[w]
    <3>. TAKE w \in Works \ D
    <3>1. CASE w \in works \cup scheduled
      BY <1>8, <2>1, <2>2, <3>1 DEF Fate
    <3>2. CASE w \notin works \cup scheduled
      BY <1>8, <2>1, <3>2, FateKept
    <3>. QED BY <3>1, <3>2
  <2>5. Contract!Become(D, "dropped")
    BY <2>3, <2>4, FateBecomes
  <2>6. Contract!Drop(D) /\ D \in SUBSET Works
    BY <1>8, <2>2, <2>3, <2>5 DEF Contract!Drop
  <2>. QED BY <2>6 DEF Contract!Next
<1>9. CASE End \/ Destroy
  <2>1. UNCHANGED <<time, cancelled, frame>>
    BY <1>9 DEF End, Destroy
  <2>2. Freed \/ UNCHANGED phase
    BY <1>9 DEF End, Destroy
  <2>. QED BY <1>s, <1>8, <2>1, <2>2
<1>10. CASE Begin \/ NothingDue \/ NothingLeft \/ UNCHANGED vars
  <2>1. UNCHANGED <<phase, time, cancelled>> /\ frame' \in {frame, frame + 1}
    BY <1>10 DEF Begin, NothingDue, NothingLeft, Leave, workVars, vars
  <2>. QED BY <1>s, <1>f, <2>1
<1>. QED
  BY <1>1, <1>2, <1>3, <1>4, <1>5, <1>6, <1>7, <1>9, <1>10 DEF Next, TickThread

\* The executor of the server thread keeps what every executor promises, in
\* ticks: it implements ExecutorContract, whoever submits, cancels or destroys
\* it between two ticks or during one.
THEOREM ImplementsContract == Spec => ExecutorKept
<1>1. Init => Contract!Init
  BY DEF Init, Contract!Init, Fate
<1>2. IInv /\ [Next]_vars => [Contract!Next]_Contract!vars
  BY ContractStep DEF Contract!vars
<1>. QED
  BY <1>1, <1>2, Invariance, PTL DEF Spec, ExecutorKept, Contract!Spec

-----------------------------------------------------------------------------
\* Whose turn it is, as long as the thread has its ValueSetter: the coroutine
\* runs and everything is quiet,
Quiet == ~ handle /\ ~ queued /\ sem = 0 /\ tail = "none" /\ setter \in {"idle", "acquire"}
Running == coro \in {"start", "body"} /\ Quiet /\ nextValue = Len(seen) + 1

\* or what is left of await_suspend makes it ready for a value,
Readying ==
    /\ coro = "suspended" /\ ~ queued /\ sem = 0 /\ setter \in {"idle", "acquire"}
    /\ tail # "none" /\ (handle <=> tail \in {"reset", "release"})
    /\ nextValue = Len(seen) + 1

\* or it is ready, and the one permit is the thread's or there to be taken,
Ready ==
    /\ coro = "suspended" /\ ~ queued /\ tail = "none" /\ handle
    /\ \/ setter \in {"idle", "acquire"} /\ sem = 1 /\ nextValue = Len(seen) + 1
       \/ setter = "set" /\ sem = 0 /\ nextValue = Len(seen) + 1
       \/ setter = "wake" /\ sem = 0 /\ nextValue = Len(seen) + 2 /\ value = Len(seen) + 1

\* or a value waits for it to be resumed.
Resumable ==
    /\ coro = "suspended" /\ queued /\ tail = "none" /\ ~ handle /\ sem = 0
    /\ setter \in {"idle", "acquire"}
    /\ nextValue = Len(seen) + 2 /\ value = Len(seen) + 1

\* A coroutine that has left the loop is given nothing more.
HasLeft == coro \in {"leaving", "ended"}

StreamInv ==
    /\ StreamTypeOK
    /\ setter \in {"acquire", "set"} => nextValue <= MaxValue
    /\ setter \notin {"end", "gone"} =>
        /\ finished <=> HasLeft
        /\ HasLeft \/ Running \/ Readying \/ Ready \/ Resumable
    /\ OnceInOrder

LEMMA StreamInitInv == StreamInit => StreamInv
<1>. SUFFICES ASSUME StreamInit PROVE StreamInv
  OBVIOUS
<1>. USE CallbackTransformerAssumption DEF StreamInit, None
<1>1. StreamTypeOK
  <2>1. finished \in BOOLEAN /\ handle \in BOOLEAN /\ queued \in BOOLEAN
    BY Zenon
  <2>2. seen \in Seq(0 .. MaxValue)
    OBVIOUS
  <2>. QED BY <2>1, <2>2 DEF StreamTypeOK
<1>2. Running /\ ~ finished /\ ~ HasLeft /\ setter = "idle"
  BY DEF Running, Quiet, HasLeft
<1>3. OnceInOrder
  BY DEF OnceInOrder
<1>. QED BY <1>1, <1>2, <1>3 DEF StreamInv

LEMMA StreamStepTypeOK ==
  StreamTypeOK /\ (setter = "set" => nextValue <= MaxValue) /\ [StreamNext]_streamVars => StreamTypeOK'
<1>. SUFFICES ASSUME StreamTypeOK, setter = "set" => nextValue <= MaxValue, [StreamNext]_streamVars
              PROVE  StreamTypeOK'
  OBVIOUS
<1>. USE CallbackTransformerAssumption DEF StreamTypeOK, dataVars
<1>a. ASSUME AwaitResume
      PROVE  seen' \in Seq(0 .. MaxValue) /\ coro' \in {"start", "suspended", "body", "leaving", "ended"}
  <2>1. CASE finished /\ value = None
    BY <1>a, <2>1 DEF AwaitResume
  <2>2. CASE ~ (finished /\ value = None) /\ Len(seen) < MaxSeen
    BY <1>a, <2>2 DEF AwaitResume
  <2>3. CASE ~ (finished /\ value = None) /\ ~ (Len(seen) < MaxSeen)
    BY <1>a, <2>3 DEF AwaitResume
  <2>. QED BY <2>1, <2>2, <2>3
<1>s. ASSUME NEW t \in {"begin", "store"}, Suspend(t)
      PROVE  /\ seen' \in Seq(0 .. MaxValue) /\ coro' \in {"start", "suspended", "body", "leaving", "ended"}
             /\ tail' \in {"none", "begin", "store", "reset", "release"}
  BY <1>a, <1>s DEF Suspend
<1>1. ASSUME Setter PROVE StreamTypeOK'
  <2>1. CASE More \/ Acquire \/ Set
    BY <2>1 DEF More, Acquire, Set
  <2>2. CASE WakeCoroutine \/ StreamEnds
    BY <2>2 DEF WakeCoroutine, StreamEnds, PassOn
  <2>. QED BY <1>1, <2>1, <2>2 DEF Setter
<1>2. ASSUME Finish PROVE StreamTypeOK'
  BY <1>2 DEF Finish
<1>3. ASSUME BeginLoop \/ Increment PROVE StreamTypeOK'
  BY <1>3, <1>s DEF BeginLoop, Increment
<1>4. ASSUME Resume PROVE StreamTypeOK'
  BY <1>4, <1>a DEF Resume
<1>5. ASSUME Left \/ LeaveLoop PROVE StreamTypeOK'
  <2>1. finished' \in BOOLEAN /\ UNCHANGED <<handle, queued>>
    BY <1>5, Zenon DEF Left, LeaveLoop
  <2>. QED BY <1>5, <2>1 DEF Left, LeaveLoop
<1>6. ASSUME Suspending PROVE StreamTypeOK'
  <2>1. handle' \in BOOLEAN /\ UNCHANGED <<finished, queued>>
    BY <1>6, Zenon DEF Suspending, Store, Reset, LetSetterGo
  <2>. QED BY <1>6, <2>1 DEF Suspending, Store, Reset, LetSetterGo, None
<1>7. ASSUME UNCHANGED streamVars PROVE StreamTypeOK'
  BY <1>7 DEF streamVars
<1>. QED BY <1>1, <1>2, <1>3, <1>4, <1>5, <1>6, <1>7 DEF StreamNext, Coroutine

LEMMA StreamStepInv == StreamInv /\ [StreamNext]_streamVars => StreamInv'
<1>. SUFFICES ASSUME StreamInv, [StreamNext]_streamVars PROVE StreamInv'
  OBVIOUS
<1>t. StreamTypeOK'
  BY StreamStepTypeOK DEF StreamInv
<1>. DEFINE Turn == HasLeft \/ Running \/ Readying \/ Ready \/ Resumable
            Live == setter \notin {"end", "gone"}
<1>v. setter' \in {"acquire", "set"} => nextValue' <= MaxValue
  BY CallbackTransformerAssumption
  DEF StreamInv, StreamNext, Setter, Coroutine, Suspending, More, Acquire, Set, WakeCoroutine, Finish,
      StreamEnds, BeginLoop, Increment, Store, Reset, LetSetterGo, Resume, LeaveLoop, Left, streamVars
<1>l. ASSUME Live' PROVE Live
  BY <1>l
  DEF StreamNext, Setter, Coroutine, Suspending, More, Acquire, Set, WakeCoroutine, Finish,
      StreamEnds, BeginLoop, Increment, Store, Reset, LetSetterGo, Resume, LeaveLoop, Left, streamVars
<1>. SUFFICES ASSUME Live, Live'
              PROVE  (finished <=> HasLeft)' /\ Turn' /\ (\A i \in DOMAIN seen : seen[i] = i)'
  BY <1>t, <1>v, <1>l DEF StreamInv, OnceInOrder
<1>0. /\ StreamTypeOK /\ (finished <=> HasLeft) /\ Turn
      /\ \A i \in DOMAIN seen : seen[i] = i
      /\ setter \in {"acquire", "set"} => nextValue <= MaxValue
  BY DEF StreamInv, OnceInOrder
<1>. DEFINE G == (finished <=> HasLeft)' /\ Turn' /\ (\A i \in DOMAIN seen : seen[i] = i)'
<1>. USE CallbackTransformerAssumption DEF StreamTypeOK, dataVars, Running, Quiet, Readying, Ready, Resumable, HasLeft
<1>1. ASSUME More \/ Acquire \/ Set PROVE G
  BY <1>0, <1>1 DEF More, Acquire, Set
<1>2. ASSUME WakeCoroutine PROVE G
  BY <1>0, <1>2 DEF WakeCoroutine, PassOn
<1>3. ASSUME BeginLoop \/ Increment PROVE G
  BY <1>0, <1>3 DEF BeginLoop, Increment, Suspend
<1>4. ASSUME Resume PROVE G
  <2>1. Resumable /\ ~ finished
    BY <1>0, <1>4 DEF Resume
  <2>2. Len(seen) < MaxSeen /\ value # None
    BY <1>0, <2>1 DEF None
  <2>3. seen' = Append(seen, value) /\ coro' = "body"
    BY <1>4, <2>1, <2>2 DEF Resume, AwaitResume
  <2>4. \A i \in DOMAIN seen' : seen'[i] = i
    BY <1>0, <2>1, <2>3
  <2>5. Len(seen') = Len(seen) + 1
    BY <1>0, <2>3
  <2>. QED BY <1>4, <2>1, <2>3, <2>4, <2>5 DEF Resume
<1>5. ASSUME LeaveLoop \/ Left PROVE G
  BY <1>0, <1>5 DEF LeaveLoop, Left
<1>6. ASSUME Suspending PROVE G
  BY <1>0, <1>6 DEF Suspending, Store, Reset, LetSetterGo
<1>7. ASSUME UNCHANGED streamVars PROVE G
  BY <1>0, <1>7 DEF streamVars
<1>. QED
  BY <1>1, <1>2, <1>3, <1>4, <1>5, <1>6, <1>7 DEF StreamNext, Setter, Coroutine, Finish, StreamEnds

\* As long as the thread keeps its ValueSetter, the coroutine is given each
\* value once and in order, however the two threads and the executor interleave.
THEOREM EachValueOnce == StreamSpec => []OnceInOrder
<1>1. StreamInv => OnceInOrder
  BY DEF StreamInv
<1>. QED BY StreamInitInv, StreamStepInv, <1>1, PTL DEF StreamSpec

\* The stream, its coroutine and its thread keep their types.
THEOREM StreamTypeCorrect == StreamSpec => []StreamTypeOK
<1>1. StreamInv => StreamTypeOK
  BY DEF StreamInv
<1>. QED BY StreamInitInv, StreamStepInv, <1>1, PTL DEF StreamSpec

-----------------------------------------------------------------------------
LEMMA SleepStepTypeOK == SleepTypeOK /\ [SleepNext]_sleepVars => SleepTypeOK'
<1>. USE TickSyncSleepAssumption DEF SleepTypeOK
<1>1. ASSUME SleepTypeOK, NEW until \in clock .. MaxTime \cup {NoTime}, Sleep(until) PROVE SleepTypeOK'
  BY <1>1 DEF Sleep
<1>2. ASSUME SleepTypeOK, Wake \/ Interrupt \/ TimeIsUp PROVE SleepTypeOK'
  BY <1>2 DEF Wake, Interrupt, TimeIsUp, Interrupted
<1>3. ASSUME SleepTypeOK, Look \/ Compare \/ Tick PROVE SleepTypeOK'
  BY <1>3 DEF Look, Compare, Tick
<1>. QED BY <1>1, <1>2, <1>3 DEF SleepNext, sleepVars

\* The sleeping thread, its listener and the clock keep their types.
THEOREM SleepTypeCorrect == SleepSpec => []SleepTypeOK
<1>1. SleepInit => SleepTypeOK
  <2>1. 0 \in 0 .. MaxTime /\ 0 \in 0 .. MaxSleeps
    BY TickSyncSleepAssumption
  <2>. QED BY <2>1 DEF SleepInit, SleepTypeOK
<1>. QED BY <1>1, SleepStepTypeOK, PTL DEF SleepSpec

\* While the thread sleeps, no step of the listener or of another thread takes
\* the end of the sleep away or defers it but one that interrupts it, and
\* nothing but its own waking takes an interrupt: a check that belongs to an
\* earlier sleep can end this one too soon, and cannot make it endless.
THEOREM SleepKeepsItsEnd ==
  SleepSpec => [][sleeping /\ sleeping' => (timepoint' = timepoint \/ interrupted') /\ (interrupted => interrupted')]_sleepVars
<1>1. ASSUME [SleepNext]_sleepVars, sleeping, sleeping'
      PROVE  (timepoint' = timepoint \/ interrupted') /\ (interrupted => interrupted')
  <2>1. CASE Interrupt \/ TimeIsUp
    BY <2>1 DEF Interrupt, TimeIsUp, Interrupted
  <2>2. CASE Look \/ Compare \/ Tick \/ UNCHANGED sleepVars
    BY <2>2 DEF Look, Compare, Tick, sleepVars
  <2>. QED BY <1>1, <2>1, <2>2 DEF SleepNext, Sleep, Wake
<1>. QED BY <1>1, PTL DEF SleepSpec
=============================================================================
