------------------------ MODULE UserInterface_proofs ------------------------
(***************************************************************************)
(* Proofs about FormRuntime and DataBinding, for any number of forms,      *)
(* listeners and values.                                                   *)
(***************************************************************************)
EXTENDS FormRuntime, DataBinding, Selections_proofs

\* What a form's stage says of its session, its result and its location.
Stages ==
    \A f \in Forms :
        /\ stage[f] \in {"editing", "prepared"} => phase[f] = "Ready" /\ calls[f] = 0
        /\ stage[f] = "shown" => phase[f] \in {"Showing", "CloseRequested"} /\ calls[f] = 0
        /\ stage[f] = "resuming" => phase[f] = "Closed" /\ calls[f] = 0
        /\ stage[f] = "finished" => phase[f] \in {"Ready", "Closed"} /\ calls[f] \in {0, 1}
        /\ stage[f] \in {"editing", "resuming", "finished"} \/ ~ player[f] =>
              store[f] = None /\ allowed[f] = FALSE

\* The forms that observe, and those that some setData has yet to tell.
Bridged(f) == stage[f] \in {"prepared", "shown", "resuming"}
BridgedObserve == \A f \in Forms : f \in ToSet(observers) <=> Bridged(f)
ToldAreBridged ==
    \A i \in DOMAIN stack, f \in Forms : f \in ToSet(stack[i].todo) => Bridged(f)

\* A bound location has the value of the observable, or its form will be told
\* by a setData that it did not bring about.
WillAgree ==
    \A f \in Forms : Bound(f) /\ f \notin missed =>
        \/ store[f] = data
        \/ \E i \in DOMAIN stack : stack[i].from # f /\ f \in ToSet(stack[i].todo)

FormInv == TypeOK /\ Stages /\ BridgedObserve /\ ToldAreBridged /\ WillAgree

LEMMA FormInit == Init => FormInv
<1>. SUFFICES ASSUME Init PROVE FormInv
  OBVIOUS
<1>1. ToSet(<<>>) = {} /\ DOMAIN <<>> = {}
  BY EmptySeq DEF ToSet
<1>2. TypeOK
  BY EmptySeq DEF Init, TypeOK
<1>3. Stages /\ BridgedObserve /\ ToldAreBridged /\ WillAgree
  BY <1>1 DEF Init, Stages, BridgedObserve, ToldAreBridged, WillAgree, Bridged, Bound
<1>. QED BY <1>2, <1>3 DEF FormInv

\* What observes when f has come to its end.
LEMMA FinishedObserve ==
  ASSUME FormInv, NEW f \in Forms, Finish(f)
  PROVE  /\ observers' \in Seq(Forms \cup {Mod})
         /\ \A g \in Forms : g \in ToSet(observers') <=> g \in ToSet(observers) /\ g # f
<1>. DEFINE T == (Forms \cup {Mod}) \ {f}
<1>1. observers \in Seq(Forms \cup {Mod}) /\ observers' = Selected(observers, T)
  BY DEF FormInv, TypeOK, Finish
<1>2. \A g \in Forms : g \in T <=> g # f
  OBVIOUS
<1>. HIDE DEF T
<1>3. observers' \in Seq(Forms \cup {Mod}) /\ ToSet(observers') = ToSet(observers) \cap T
  BY <1>1, SelectedElements
<1>. QED BY <1>2, <1>3

\* Steps between calls of setData.
LEMMA QuietStep ==
  ASSUME FormInv, stack = <<>>, UNCHANGED <<data, stack, missed>>,
         TypeOK', Stages', BridgedObserve',
         \A f \in Forms : Bound(f)' /\ f \notin missed => store'[f] = data
  PROVE  FormInv'
<1>1. DOMAIN stack' = {}
  BY EmptySeq
<1>2. ToldAreBridged' /\ WillAgree'
  BY <1>1 DEF ToldAreBridged, WillAgree
<1>. QED BY <1>2 DEF FormInv

LEMMA NothingPending ==
  ASSUME FormInv, stack = <<>>
  PROVE  \A f \in Forms : Bound(f) /\ f \notin missed => store[f] = data
BY EmptySeq DEF FormInv, WillAgree

LEMMA PrepareStep ==
  ASSUME FormInv, NEW f \in Forms, NEW how \in {"show", "showAsync"}, Prepare(f, how)
  PROVE  FormInv'
<1>. USE FormRuntimeAssumption
<1>1. TypeOK /\ Stages /\ BridgedObserve
  BY DEF FormInv
<1>2. /\ stack = <<>> /\ UNCHANGED <<data, stack, missed, player, phase, calls>>
      /\ stage[f] = "editing" /\ kind' = [kind EXCEPT ![f] = how]
  BY DEF Prepare, Idle
<1>3. /\ Append(observers, f) \in Seq(Forms \cup {Mod})
      /\ ToSet(Append(observers, f)) = ToSet(observers) \cup {f}
  <2>1. observers \in Seq(Forms \cup {Mod})
    BY <1>1 DEF TypeOK
  <2>. QED BY <2>1, AppendElements
<1>4. CASE /\ player[f]
           /\ stage' = [stage EXCEPT ![f] = "prepared"]
           /\ store' = [store EXCEPT ![f] = data] /\ allowed' = [allowed EXCEPT ![f] = TRUE]
           /\ observers' = Append(observers, f)
  <2>1. TypeOK'
    BY <1>1, <1>2, <1>3, <1>4 DEF TypeOK
  <2>2. Stages'
    BY <1>1, <1>2, <1>4 DEF TypeOK, Stages
  <2>3. BridgedObserve'
    BY <1>1, <1>2, <1>3, <1>4 DEF TypeOK, BridgedObserve, Bridged
  <2>4. \A g \in Forms : Bound(g)' /\ g \notin missed => store'[g] = data
    BY <1>1, <1>2, <1>4, NothingPending DEF TypeOK, Bound
  <2>. QED BY <1>2, <2>1, <2>2, <2>3, <2>4, QuietStep
<1>5. CASE stage' = [stage EXCEPT ![f] = "finished"] /\ UNCHANGED <<storeVars, observers>>
  <2>1. TypeOK'
    BY <1>1, <1>2, <1>5 DEF TypeOK, storeVars
  <2>2. Stages'
    BY <1>1, <1>2, <1>5 DEF TypeOK, Stages, storeVars
  <2>3. BridgedObserve'
    BY <1>1, <1>2, <1>5 DEF TypeOK, BridgedObserve, Bridged
  <2>4. \A g \in Forms : Bound(g)' /\ g \notin missed => store'[g] = data
    BY <1>1, <1>2, <1>5, NothingPending DEF TypeOK, Bound, storeVars
  <2>. QED BY <1>2, <2>1, <2>2, <2>3, <2>4, QuietStep
<1>. QED BY <1>4, <1>5 DEF Prepare

LEMMA LaunchStep ==
  ASSUME FormInv, NEW f \in Forms, Launch(f) \/ Close(f)
  PROVE  FormInv'
<1>1. TypeOK /\ Stages /\ BridgedObserve
  BY DEF FormInv
<1>2. /\ stack = <<>> /\ UNCHANGED <<kind, calls, player, storeVars, dataVars>>
      /\ \/ /\ stage[f] = "prepared"
            /\ stage' = [stage EXCEPT ![f] = "shown"] /\ phase' = [phase EXCEPT ![f] = "Showing"]
         \/ /\ phase[f] = "Showing"
            /\ stage' = stage /\ phase' = [phase EXCEPT ![f] = "CloseRequested"]
  BY DEF Launch, Close, Idle
<1>3. TypeOK'
  BY <1>1, <1>2 DEF TypeOK, storeVars, dataVars
<1>4. Stages'
  BY <1>1, <1>2 DEF TypeOK, Stages, storeVars
<1>5. BridgedObserve'
  BY <1>1, <1>2 DEF TypeOK, BridgedObserve, Bridged, dataVars
<1>6. \A g \in Forms : Bound(g)' /\ g \notin missed => store'[g] = data
  BY <1>1, <1>2, NothingPending DEF TypeOK, Bound, storeVars
<1>. QED BY <1>2, <1>3, <1>4, <1>5, <1>6, QuietStep DEF dataVars

\* The ways a form comes to its end.
LEMMA Ends ==
  ASSUME FormInv, NEW f \in Forms, stack = <<>>, UNCHANGED <<kind, player, data, stack, missed>>,
         Bridged(f), NEW s \in {"resuming", "finished"},
         stage' = [stage EXCEPT ![f] = s], phase' = [phase EXCEPT ![f] = "Closed"],
         calls' = calls \/ (s = "finished" /\ Told(f)),
         store' = [store EXCEPT ![f] = None], allowed' = [allowed EXCEPT ![f] = FALSE],
         IF s = "finished" THEN Finish(f) ELSE UNCHANGED observers
  PROVE  FormInv'
<1>1. TypeOK /\ Stages /\ BridgedObserve
  BY DEF FormInv
<1>2. calls[f] = 0
  BY <1>1 DEF Bridged, Stages
<1>3. calls' = calls \/ (s = "finished" /\ calls' = [calls EXCEPT ![f] = 1])
  BY <1>1, <1>2 DEF Told, TypeOK
<1>4. /\ observers' \in Seq(Forms \cup {Mod})
      /\ \A g \in Forms : g \in ToSet(observers') <=> g \in ToSet(observers) /\ ~ (g = f /\ s = "finished")
  <2>1. CASE s = "finished"
    BY <2>1, FinishedObserve
  <2>2. CASE s = "resuming"
    BY <1>1, <2>2 DEF TypeOK
  <2>. QED BY <2>1, <2>2
<1>5. TypeOK'
  BY <1>1, <1>3, <1>4 DEF TypeOK
<1>6. Stages'
  BY <1>1, <1>2, <1>3 DEF TypeOK, Stages
<1>7. BridgedObserve'
  BY <1>1, <1>4 DEF TypeOK, BridgedObserve, Bridged
<1>8. \A g \in Forms : Bound(g)' /\ g \notin missed => store'[g] = data
  BY <1>1, NothingPending DEF TypeOK, Bound
<1>. QED BY <1>5, <1>6, <1>7, <1>8, QuietStep

LEMMA CleanedUp ==
  ASSUME FormInv, NEW f \in Forms, Cleanup(f)
  PROVE  store' = [store EXCEPT ![f] = None] /\ allowed' = [allowed EXCEPT ![f] = FALSE]
<1>1. ~ player[f] => store[f] = None /\ allowed[f] = FALSE
  BY DEF FormInv, Stages
<1>2. store \in [Forms -> Values \cup {None}] /\ allowed \in [Forms -> BOOLEAN]
  BY DEF FormInv, TypeOK
<1>3. CASE player[f]
  BY <1>3 DEF Cleanup
<1>4. CASE ~ player[f]
  BY <1>1, <1>2, <1>4 DEF Cleanup, storeVars
<1>. QED BY <1>3, <1>4

LEMMA EndStep ==
  ASSUME FormInv, NEW f \in Forms, LaunchFails(f) \/ Abandon(f) \/ Complete(f) \/ Resume(f)
  PROVE  FormInv'
<1>1. TypeOK /\ Stages
  BY DEF FormInv
<1>2. CASE LaunchFails(f) \/ Abandon(f)
  <2>1. /\ stack = <<>> /\ UNCHANGED <<kind, player, data, stack, missed>> /\ stage[f] = "prepared"
        /\ Cleanup(f) /\ Finish(f) /\ phase' = [phase EXCEPT ![f] = "Closed"]
        /\ calls' = calls \/ Told(f)
    BY <1>2 DEF LaunchFails, Abandon, Idle
  <2>2. stage' = [stage EXCEPT ![f] = "finished"]
    BY <2>1 DEF Finish
  <2>. QED BY <2>1, <2>2, CleanedUp, Ends DEF Bridged
<1>3. CASE Complete(f)
  <2>1. /\ stack = <<>> /\ UNCHANGED <<kind, player, data, stack, missed>>
        /\ phase[f] \in {"Showing", "CloseRequested"}
        /\ Cleanup(f) /\ phase' = [phase EXCEPT ![f] = "Closed"]
        /\ \/ Finish(f) /\ Told(f)
           \/ stage' = [stage EXCEPT ![f] = "resuming"] /\ UNCHANGED <<observers, calls>>
    BY <1>3 DEF Complete, Idle
  <2>2. Bridged(f)
    BY <1>1, <2>1 DEF TypeOK, Stages, Bridged
  <2>3. CASE Finish(f) /\ Told(f)
    <3>1. stage' = [stage EXCEPT ![f] = "finished"]
      BY <2>3 DEF Finish
    <3>. QED BY <2>1, <2>2, <2>3, <3>1, CleanedUp, Ends
  <2>4. CASE stage' = [stage EXCEPT ![f] = "resuming"] /\ UNCHANGED <<observers, calls>>
    BY <2>1, <2>2, <2>4, CleanedUp, Ends
  <2>. QED BY <2>1, <2>3, <2>4
<1>4. CASE Resume(f)
  <2>1. /\ stack = <<>> /\ UNCHANGED <<kind, phase, player, storeVars, data, stack, missed>>
        /\ stage[f] = "resuming" /\ Finish(f) /\ Told(f) /\ stage' = [stage EXCEPT ![f] = "finished"]
    BY <1>4 DEF Resume, Idle, Finish
  <2>2. phase[f] = "Closed" /\ store[f] = None /\ allowed[f] = FALSE
    BY <1>1, <2>1 DEF Stages
  <2>3. /\ phase' = [phase EXCEPT ![f] = "Closed"] /\ store' = [store EXCEPT ![f] = None]
        /\ allowed' = [allowed EXCEPT ![f] = FALSE]
    BY <1>1, <2>1, <2>2 DEF TypeOK, storeVars
  <2>4. Bridged(f) /\ UNCHANGED <<kind, player, data, stack, missed>>
    BY <2>1 DEF Bridged
  <2>. QED BY <2>1, <2>3, <2>4, Ends
<1>. QED BY <1>2, <1>3, <1>4

LEMMA LeaveStep ==
  ASSUME FormInv, NEW f \in Forms, PlayerLeaves(f)
  PROVE  FormInv'
<1>. USE FormRuntimeAssumption
<1>1. TypeOK /\ Stages /\ BridgedObserve
  BY DEF FormInv
<1>2. /\ stack = <<>> /\ UNCHANGED <<stage, kind, phase, calls, dataVars>>
      /\ player' = [player EXCEPT ![f] = FALSE]
      /\ store' = [store EXCEPT ![f] = None] /\ allowed' = [allowed EXCEPT ![f] = FALSE]
  BY DEF PlayerLeaves, Idle
<1>3. TypeOK'
  BY <1>1, <1>2 DEF TypeOK, dataVars
<1>4. Stages'
  BY <1>1, <1>2 DEF TypeOK, Stages
<1>5. BridgedObserve'
  BY <1>1, <1>2 DEF TypeOK, BridgedObserve, Bridged, dataVars
<1>6. \A g \in Forms : Bound(g)' /\ g \notin missed => store'[g] = data
  BY <1>1, <1>2, NothingPending DEF TypeOK, Bound
<1>. QED BY <1>2, <1>3, <1>4, <1>5, <1>6, QuietStep DEF dataVars

LEMMA SubscribeStep ==
  ASSUME FormInv, Subscribe
  PROVE  FormInv'
<1>. USE FormRuntimeAssumption
<1>1. TypeOK /\ Stages /\ BridgedObserve
  BY DEF FormInv
<1>2. /\ stack = <<>> /\ UNCHANGED <<formVars, storeVars, data, stack, missed>>
      /\ observers' = Append(observers, Mod)
  BY DEF Subscribe, Idle
<1>3. /\ Append(observers, Mod) \in Seq(Forms \cup {Mod})
      /\ ToSet(Append(observers, Mod)) = ToSet(observers) \cup {Mod}
  <2>1. observers \in Seq(Forms \cup {Mod})
    BY <1>1 DEF TypeOK
  <2>. QED BY <2>1, AppendElements
<1>4. TypeOK'
  BY <1>1, <1>2, <1>3 DEF TypeOK, formVars, storeVars
<1>5. Stages'
  BY <1>1, <1>2 DEF Stages, formVars, storeVars
<1>6. BridgedObserve'
  BY <1>1, <1>2, <1>3 DEF BridgedObserve, Bridged, formVars
<1>7. \A g \in Forms : Bound(g)' /\ g \notin missed => store'[g] = data
  BY <1>2, NothingPending DEF Bound, formVars, storeVars
<1>. QED BY <1>2, <1>4, <1>5, <1>6, <1>7, QuietStep

-----------------------------------------------------------------------------
Pending(st, f) == \E i \in DOMAIN st : st[i].from # f /\ f \in ToSet(st[i].todo)
AllBridged(st) == \A i \in DOMAIN st, f \in Forms : f \in ToSet(st[i].todo) => Bridged(f)

\* Steps of a call of setData.
LEMMA CallStep ==
  ASSUME FormInv, UNCHANGED <<formVars, allowed, observers>>,
         data' \in Values, missed' \subseteq Forms, stack' \in Seq(Frames), AllBridged(stack'),
         store' \in [Forms -> Values \cup {None}], \A f \in Forms : store'[f] # store[f] => Bound(f),
         \A f \in Forms : Bound(f) /\ f \notin missed' => store'[f] = data' \/ Pending(stack', f)
  PROVE  FormInv'
<1>1. TypeOK /\ Stages /\ BridgedObserve
  BY DEF FormInv
<1>2. TypeOK'
  BY <1>1 DEF TypeOK, formVars
<1>3. Stages'
  BY <1>1 DEF TypeOK, Stages, formVars, Bound
<1>4. BridgedObserve' /\ ToldAreBridged'
  BY <1>1 DEF BridgedObserve, ToldAreBridged, AllBridged, Bridged, formVars
<1>5. WillAgree'
  BY DEF WillAgree, Pending, Bound, formVars
<1>. QED BY <1>2, <1>3, <1>4, <1>5 DEF FormInv

\* A call of setData that has just begun will tell everyone but the form it
\* comes from.
LEMMA CallBegun ==
  ASSUME FormInv, NEW v \in Values, NEW from \in Forms \cup {Nobody},
         NEW under \in Seq(Frames), AllBridged(under), SetData(v, from, under)
  PROVE  /\ data' = v /\ stack' \in Seq(Frames) /\ AllBridged(stack')
         /\ v = data => stack' = under
         /\ v # data => \A f \in Forms : Bound(f) /\ f # from => Pending(stack', f)
<1>. DEFINE g == [from |-> from, todo |-> observers]
            st == Append(under, g)
<1>1. observers \in Seq(Forms \cup {Mod}) /\ BridgedObserve
  BY DEF FormInv, TypeOK
<1>2. g \in Frames /\ g.from = from /\ g.todo = observers
  BY <1>1 DEF Frames
<1>. HIDE DEF g
<1>3. /\ st \in Seq(Frames) /\ Len(under) + 1 \in DOMAIN st /\ st[Len(under) + 1] = g
      /\ \A i \in DOMAIN st : (i \in DOMAIN under /\ st[i] = under[i]) \/ st[i] = g
  <2>. HIDE DEF Frames
  <2>1. /\ st \in Seq(Frames) /\ Len(st) = Len(under) + 1 /\ st[Len(under) + 1] = g
        /\ \A i \in 1 .. Len(under) : st[i] = under[i]
    BY <1>2, AppendProperties
  <2>2. DOMAIN st = 1 .. Len(under) + 1 /\ DOMAIN under = 1 .. Len(under) /\ Len(under) \in Nat
    BY <2>1
  <2>. QED BY <2>1, <2>2
<1>. HIDE DEF st
<1>4. AllBridged(st)
  BY <1>1, <1>2, <1>3 DEF AllBridged, BridgedObserve
<1>5. \A f \in Forms : Bound(f) /\ f # from => Pending(st, f)
  BY <1>1, <1>2, <1>3 DEF Pending, BridgedObserve, Bound, Bridged
<1>6. CASE v = data
  BY <1>6 DEF SetData
<1>7. CASE v # data
  <2>1. data' = v /\ stack' = st
    BY <1>7 DEF SetData, st, g
  <2>. QED BY <1>3, <1>4, <1>5, <1>7, <2>1
<1>. QED BY <1>6, <1>7

\* A subscriber has been told, and the calls have the others left.
LEMMA PoppedElements ==
  ASSUME FormInv, stack # <<>>, Top.todo # <<>>
  PROVE  /\ Popped \in Seq(Frames) /\ AllBridged(Popped)
         /\ DOMAIN Popped = DOMAIN stack
         /\ \A i \in DOMAIN stack : Popped[i].from = stack[i].from
         /\ \A i \in DOMAIN stack, f \in Forms : f \in ToSet(stack[i].todo) =>
               f \in ToSet(Popped[i].todo) \/ (i = Len(stack) /\ f = Head(Top.todo))
         /\ Len(stack) \in DOMAIN stack /\ Top \in Frames /\ Head(Top.todo) \in ToSet(Top.todo)
<1>. DEFINE n == Len(stack)
            g == [Top EXCEPT !.todo = Tail(@)]
<1>1. stack \in Seq(Frames) /\ ToldAreBridged
  BY DEF FormInv, TypeOK
<1>2. n \in Nat \ {0} /\ n \in DOMAIN stack /\ DOMAIN stack = 1 .. n /\ Top = stack[n] /\ Top \in Frames
  <2>. HIDE DEF Frames
  <2>. QED BY <1>1, EmptySeq DEF Top
<1>3. /\ Tail(Top.todo) \in Seq(Forms \cup {Mod}) /\ Head(Top.todo) \in ToSet(Top.todo)
      /\ ToSet(Top.todo) = ToSet(Tail(Top.todo)) \cup {Head(Top.todo)}
  <2>1. Top.todo \in Seq(Forms \cup {Mod})
    BY <1>2 DEF Frames
  <2>. QED BY <2>1, TailElements
<1>4. g \in Frames /\ g.from = Top.from /\ g.todo = Tail(Top.todo)
  BY <1>2, <1>3 DEF Frames
<1>5. Popped = [stack EXCEPT ![n] = g]
  BY <1>1, <1>2 DEF Popped
<1>. HIDE DEF g, n
<1>6. /\ Popped \in Seq(Frames) /\ DOMAIN Popped = DOMAIN stack
      /\ \A i \in DOMAIN stack : (i = n /\ Popped[i] = g) \/ (i # n /\ Popped[i] = stack[i])
  <2>. HIDE DEF Frames
  <2>. QED BY <1>1, <1>2, <1>4, <1>5
<1>7. \A i \in DOMAIN stack : ToSet(Popped[i].todo) \subseteq ToSet(stack[i].todo)
  BY <1>2, <1>3, <1>4, <1>6
<1>8. AllBridged(Popped)
  BY <1>1, <1>6, <1>7 DEF AllBridged, ToldAreBridged
<1>9. \A i \in DOMAIN stack : Popped[i].from = stack[i].from
  BY <1>2, <1>4, <1>6
<1>10. \A i \in DOMAIN stack, f \in Forms : f \in ToSet(stack[i].todo) =>
          f \in ToSet(Popped[i].todo) \/ (i = n /\ f = Head(Top.todo))
  BY <1>2, <1>3, <1>4, <1>6
<1>. QED BY <1>2, <1>3, <1>6, <1>8, <1>9, <1>10 DEF n

LEMMA WriteStep ==
  ASSUME FormInv, NEW v \in Values,
         ModSetsData(v) \/ \E f \in Forms : ClientWrite(f, v)
  PROVE  FormInv'
<1>. USE FormRuntimeAssumption
<1>1. TypeOK /\ Stages
  BY DEF FormInv
<1>2. AllBridged(<<>>) /\ <<>> \in Seq(Frames)
  BY EmptySeq DEF AllBridged
<1>3. CASE ModSetsData(v)
  <2>1. stack = <<>> /\ SetData(v, Nobody, <<>>) /\ UNCHANGED <<formVars, storeVars, observers, missed>>
    BY <1>3 DEF ModSetsData, Idle
  <2>2. /\ data' = v /\ stack' \in Seq(Frames) /\ AllBridged(stack')
        /\ v # data => \A f \in Forms : Bound(f) /\ f # Nobody => Pending(stack', f)
    BY <1>2, <2>1, CallBegun
  <2>3. \A f \in Forms : Bound(f) /\ f \notin missed' => store'[f] = data' \/ Pending(stack', f)
    BY <2>1, <2>2, NothingPending DEF storeVars
  <2>. QED BY <1>1, <2>1, <2>2, <2>3, CallStep DEF TypeOK, storeVars
<1>4. ASSUME NEW f \in Forms, ClientWrite(f, v) PROVE FormInv'
  <2>1. /\ stack = <<>> /\ SetData(v, f, <<>>) /\ UNCHANGED <<formVars, allowed, observers>>
        /\ allowed[f] /\ store' = [store EXCEPT ![f] = v] /\ missed' = missed \ {f}
    BY <1>4 DEF ClientWrite, Idle
  <2>2. /\ data' = v /\ stack' \in Seq(Frames) /\ AllBridged(stack')
        /\ v # data => \A g \in Forms : Bound(g) /\ g # f => Pending(stack', g)
    BY <1>2, <2>1, CallBegun
  <2>3. Bound(f)
    BY <1>1, <2>1 DEF TypeOK, Stages, Bound
  <2>4. store' \in [Forms -> Values \cup {None}] /\ missed' \subseteq Forms
        /\ store'[f] = v /\ \A g \in Forms : g # f => store'[g] = store[g]
    BY <1>1, <2>1 DEF TypeOK
  <2>5. \A g \in Forms : Bound(g) /\ g \notin missed' => store'[g] = data' \/ Pending(stack', g)
    BY <2>1, <2>2, <2>4, NothingPending
  <2>6. \A g \in Forms : store'[g] # store[g] => Bound(g)
    BY <2>3, <2>4
  <2>7. UNCHANGED <<formVars, allowed, observers>> /\ data' \in Values
    BY <2>1, <2>2
  <2>. QED BY <2>2, <2>4, <2>5, <2>6, <2>7, CallStep
<1>. QED BY <1>3, <1>4

LEMMA BridgeStep ==
  ASSUME FormInv, NEW f \in Forms, Bridge(f)
  PROVE  FormInv'
<1>1. TypeOK /\ Stages /\ WillAgree /\ ToldAreBridged
  BY DEF FormInv
<1>2. /\ stack # <<>> /\ Top.todo # <<>> /\ Head(Top.todo) = f /\ stack' = Popped
      /\ store' = IF Gated(f) \/ phase[f] = "Closed" \/ ~ player[f] THEN store
                  ELSE [store EXCEPT ![f] = data]
      /\ missed' = IF Top.from # f /\ Gated(f) THEN missed \cup {f}
                   ELSE IF Top.from = f THEN missed ELSE missed \ {f}
      /\ UNCHANGED <<formVars, allowed, data, observers>>
  BY DEF Bridge, CallTo, Gated
<1>3. /\ Popped \in Seq(Frames) /\ AllBridged(Popped) /\ DOMAIN Popped = DOMAIN stack
      /\ \A i \in DOMAIN stack : Popped[i].from = stack[i].from
      /\ \A i \in DOMAIN stack, g \in Forms : g \in ToSet(stack[i].todo) =>
            g \in ToSet(Popped[i].todo) \/ (i = Len(stack) /\ g = f)
      /\ Len(stack) \in DOMAIN stack /\ f \in ToSet(stack[Len(stack)].todo) /\ Top = stack[Len(stack)]
  BY <1>2, PoppedElements DEF Top
<1>4. /\ store' \in [Forms -> Values \cup {None}] /\ missed' \subseteq Forms /\ data' \in Values
      /\ \A g \in Forms : g # f => store'[g] = store[g] /\ (g \in missed <=> g \in missed')
  BY <1>1, <1>2 DEF TypeOK
<1>5. Bridged(f)
  BY <1>1, <1>3 DEF ToldAreBridged
<1>6. \A g \in Forms : store'[g] # store[g] => Bound(g)
  BY <1>1, <1>2, <1>4, <1>5 DEF Bound, Bridged, Stages
<1>7. ASSUME NEW g \in Forms, Bound(g), g \notin missed'
      PROVE  store'[g] = data' \/ Pending(stack', g)
  <2>1. CASE g # f
    BY <1>1, <1>2, <1>3, <1>4, <1>7, <2>1 DEF WillAgree, Pending
  <2>2. CASE g = f /\ Top.from = f
    <3>1. Gated(f)
      BY <1>3, <2>2 DEF Gated
    <3>2. store' = store /\ missed' = missed
      BY <1>2, <2>2, <3>1
    <3>3. store[g] = data \/ \E i \in DOMAIN stack : stack[i].from # f /\ f \in ToSet(stack[i].todo)
      BY <1>1, <1>7, <2>2, <3>2 DEF WillAgree
    <3>. QED BY <1>2, <1>3, <2>2, <3>2, <3>3 DEF Pending
  <2>3. CASE g = f /\ Top.from # f
    <3>1. ~ Gated(f)
      BY <1>2, <1>7, <2>3
    <3>2. phase[f] # "Closed" /\ player[f]
      BY <1>1, <1>7, <2>3 DEF Bound, Stages
    <3>. QED BY <1>1, <1>2, <2>3, <3>1, <3>2 DEF TypeOK
  <2>. QED BY <2>1, <2>2, <2>3
<1>. QED BY <1>2, <1>3, <1>4, <1>6, <1>7, CallStep

LEMMA ModIsToldStep ==
  ASSUME FormInv, ModIsTold
  PROVE  FormInv'
<1>. USE FormRuntimeAssumption
<1>1. TypeOK /\ WillAgree
  BY DEF FormInv
<1>2. /\ stack # <<>> /\ Top.todo # <<>> /\ Head(Top.todo) = Mod
      /\ UNCHANGED <<formVars, storeVars, observers, missed>>
      /\ \/ stack' = Popped /\ data' = data
         \/ \E v \in Values : SetData(v, Nobody, Popped)
  BY DEF ModIsTold, CallTo
<1>3. /\ Popped \in Seq(Frames) /\ AllBridged(Popped) /\ DOMAIN Popped = DOMAIN stack
      /\ \A i \in DOMAIN stack : Popped[i].from = stack[i].from
      /\ \A i \in DOMAIN stack, g \in Forms : g \in ToSet(stack[i].todo) => g \in ToSet(Popped[i].todo)
  BY <1>2, PoppedElements
<1>4. \A f \in Forms : Bound(f) /\ f \notin missed => store[f] = data \/ Pending(Popped, f)
  BY <1>1, <1>3 DEF WillAgree, Pending
<1>5. CASE stack' = Popped /\ data' = data
  BY <1>1, <1>2, <1>3, <1>4, <1>5, CallStep DEF TypeOK, storeVars
<1>6. ASSUME NEW v \in Values, SetData(v, Nobody, Popped) PROVE FormInv'
  <2>1. /\ data' = v /\ stack' \in Seq(Frames) /\ AllBridged(stack')
        /\ v = data => stack' = Popped
        /\ v # data => \A f \in Forms : Bound(f) /\ f # Nobody => Pending(stack', f)
    BY <1>3, <1>6, CallBegun
  <2>2. \A f \in Forms : Bound(f) /\ f \notin missed' => store'[f] = data' \/ Pending(stack', f)
    BY <1>2, <1>4, <2>1 DEF storeVars
  <2>. QED BY <1>1, <1>2, <2>1, <2>2, CallStep DEF TypeOK, storeVars
<1>. QED BY <1>2, <1>5, <1>6

LEMMA ReturnStep ==
  ASSUME FormInv, SetDataReturns
  PROVE  FormInv'
<1>. DEFINE n == Len(stack)
<1>1. TypeOK /\ WillAgree /\ ToldAreBridged
  BY DEF FormInv
<1>2. /\ stack # <<>> /\ stack[n].todo = <<>> /\ stack' = Front(stack)
      /\ UNCHANGED <<formVars, storeVars, data, observers, missed>>
  BY DEF SetDataReturns, Top
<1>3. stack \in Seq(Frames) /\ DOMAIN stack = 1 .. n /\ n \in Nat
  <2>. HIDE DEF Frames
  <2>. QED BY <1>1 DEF TypeOK
<1>4. /\ stack' \in Seq(Frames) /\ DOMAIN stack' = 1 .. n - 1
      /\ \A i \in 1 .. n - 1 : stack'[i] = stack[i]
  <2>. HIDE DEF Frames
  <2>. QED BY <1>2, <1>3, FrontFacts
<1>5. ToSet(stack[n].todo) = {}
  BY <1>2, EmptySeq DEF ToSet
<1>6. \A i \in DOMAIN stack, f \in Forms : f \in ToSet(stack[i].todo) => i \in DOMAIN stack' /\ stack'[i] = stack[i]
  BY <1>3, <1>4, <1>5
<1>7. \A i \in DOMAIN stack' : i \in DOMAIN stack /\ stack'[i] = stack[i]
  BY <1>3, <1>4
<1>8. AllBridged(stack')
  BY <1>1, <1>7 DEF AllBridged, ToldAreBridged
<1>9. \A f \in Forms : Bound(f) /\ f \notin missed => store[f] = data \/ Pending(stack', f)
  BY <1>1, <1>6 DEF WillAgree, Pending
<1>. QED BY <1>1, <1>2, <1>4, <1>8, <1>9, CallStep DEF TypeOK, storeVars

LEMMA FormStep == FormInv /\ [Next]_vars => FormInv'
<1>. SUFFICES ASSUME FormInv, [Next]_vars PROVE FormInv'
  OBVIOUS
<1>1. ASSUME NEW f \in Forms, NEW how \in {"show", "showAsync"}, Prepare(f, how) PROVE FormInv'
  BY <1>1, PrepareStep
<1>2. ASSUME NEW f \in Forms, Launch(f) \/ Close(f) PROVE FormInv'
  BY <1>2, LaunchStep
<1>3. ASSUME NEW f \in Forms, LaunchFails(f) \/ Abandon(f) \/ Complete(f) \/ Resume(f) PROVE FormInv'
  BY <1>3, EndStep
<1>4. ASSUME NEW f \in Forms, PlayerLeaves(f) PROVE FormInv'
  BY <1>4, LeaveStep
<1>5. ASSUME NEW f \in Forms, Bridge(f) PROVE FormInv'
  BY <1>5, BridgeStep
<1>6. ASSUME NEW v \in Values, ModSetsData(v) \/ \E f \in Forms : ClientWrite(f, v) PROVE FormInv'
  BY <1>6, WriteStep
<1>7. CASE Subscribe \/ ModIsTold \/ SetDataReturns
  BY <1>7, SubscribeStep, ModIsToldStep, ReturnStep
<1>8. CASE UNCHANGED vars
  <2>1. UNCHANGED <<stage, kind, phase, calls, player, store, allowed, data, observers, stack, missed>>
    BY <1>8 DEF vars, formVars, storeVars, dataVars
  <2>2. TypeOK' /\ Stages' /\ BridgedObserve' /\ ToldAreBridged' /\ WillAgree'
    BY <2>1 DEF FormInv, TypeOK, Stages, BridgedObserve, ToldAreBridged, WillAgree, Bridged, Bound
  <2>. QED BY <2>2 DEF FormInv
<1>. QED BY <1>1, <1>2, <1>3, <1>4, <1>5, <1>6, <1>7, <1>8 DEF Next

\* FormInv is an inductive invariant of the forms.
THEOREM FormInvariance == Spec => []FormInv
<1>. QED BY FormInit, FormStep, PTL DEF Spec

\* The state of the forms and of their observable keeps its type.
THEOREM FormTypeCorrect == Spec => []TypeOK
<1>1. FormInv => TypeOK
  BY DEF FormInv
<1>. QED BY <1>1, FormInvariance, PTL

LEMMA Containing ==
  ASSUME NEW S, NEW s \in Seq(S), NEW e
  PROVE  Contains(s, e) <=> e \in ToSet(s)
BY DEF Contains, ToSet

\* However a form comes to its end (failed, abandoned, answered), its bridge,
\* its permission and its property are gone (FormRuntime::finish,
\* cleanupDataStore), and the last two as soon as its session is closed.
THEOREM EverythingReleased == Spec => []ReleasedWhenDone
<1>1. FormInv => ReleasedWhenDone
  <2>. SUFFICES ASSUME FormInv, NEW f \in Forms
                PROVE  /\ stage[f] = "finished" => ~ Contains(observers, f)
                       /\ stage[f] = "finished" \/ phase[f] = "Closed" => store[f] = None /\ ~ allowed[f]
    BY DEF ReleasedWhenDone
  <2>1. TypeOK /\ Stages /\ BridgedObserve
    BY DEF FormInv
  <2>2. observers \in Seq(Forms \cup {Mod})
    BY <2>1 DEF TypeOK
  <2>3. stage[f] = "finished" => ~ Contains(observers, f)
    BY <2>1, <2>2, Containing DEF BridgedObserve, Bridged
  <2>4. stage[f] = "finished" \/ phase[f] = "Closed" => store[f] = None /\ ~ allowed[f]
    BY <2>1 DEF TypeOK, Stages
  <2>. QED BY <2>3, <2>4
<1>. QED BY <1>1, FormInvariance, PTL

\* Between calls of setData every bound location has the value of the
\* observable, however those calls nested, except where a subscriber changed
\* it while it was being told what that client wrote.
THEOREM BridgesAgree == Spec => []BridgeAgrees
<1>1. FormInv => BridgeAgrees
  BY NothingPending DEF BridgeAgrees
<1>. QED BY <1>1, FormInvariance, PTL

\* However often the game settles the promise of a screen, and whoever closes
\* it, the mod has the result of a screen that was shown once.
THEOREM ToldOnlyOnce == Spec => ToldOnce
<1>1. FormInv /\ FormInv' /\ [Next]_vars => [Answered]_vars
  <2>. SUFFICES ASSUME FormInv, FormInv', Next PROVE Answered
    OBVIOUS
  <2>1. TypeOK /\ Stages /\ TypeOK' /\ Stages'
    BY DEF FormInv
  <2>. SUFFICES ASSUME NEW f \in Forms
                PROVE  /\ calls'[f] <= 1
                       /\ stage[f] \in {"shown", "resuming"} /\ stage'[f] = "finished" => calls'[f] = 1
    BY DEF Answered
  <2>2. calls'[f] <= 1
    <3>1. stage'[f] \in {"editing", "prepared", "shown", "resuming", "finished"}
      BY <2>1 DEF TypeOK
    <3>2. calls'[f] = 0 \/ calls'[f] = 1
      BY <2>1, <3>1 DEF Stages
    <3>. QED BY <3>2
  <2>3. ASSUME stage[f] \in {"shown", "resuming"}, stage'[f] = "finished" PROVE Told(f)
    <3>1. \A g \in Forms, s \in {"prepared", "shown", "resuming", "finished"} :
             stage' = [stage EXCEPT ![g] = s] => g = f
      BY <2>1, <2>3 DEF TypeOK
    <3>2. stage' # stage
      BY <2>1, <2>3
    <3>3. \E g \in Forms : \/ \E how \in {"show", "showAsync"} : Prepare(g, how)
                           \/ Launch(g) \/ LaunchFails(g) \/ Abandon(g) \/ Complete(g) \/ Resume(g)
      BY <3>2 DEF Next, Close, PlayerLeaves, Bridge, ClientWrite, Subscribe, ModIsTold, SetDataReturns,
                  ModSetsData, formVars
    <3>4. PICK g \in Forms : \/ \E how \in {"show", "showAsync"} : Prepare(g, how)
                             \/ Launch(g) \/ LaunchFails(g) \/ Abandon(g) \/ Complete(g) \/ Resume(g)
      BY <3>3
    <3>5. g = f
      BY <3>1, <3>2, <3>4 DEF Prepare, Launch, LaunchFails, Abandon, Complete, Resume, Finish
    <3>6. Complete(f) \/ Resume(f)
      BY <2>3, <3>4, <3>5 DEF Prepare, Launch, LaunchFails, Abandon
    <3>7. CASE Complete(f)
      BY <2>1, <2>3, <3>7 DEF Complete, TypeOK
    <3>8. CASE Resume(f)
      BY <3>8 DEF Resume
    <3>. QED BY <3>6, <3>7, <3>8
  <2>4. stage[f] \in {"shown", "resuming"} => calls[f] = 0
    BY <2>1 DEF Stages
  <2>5. Told(f) /\ calls[f] = 0 => calls'[f] = 1
    BY <2>1 DEF Told, TypeOK
  <2>. QED BY <2>2, <2>3, <2>4, <2>5
<1>. QED BY <1>1, FormInvariance, PTL DEF Spec, ToldOnce

-----------------------------------------------------------------------------
\* What follows is about one binding, DataBinding.

Validated(f) == "validation" \notin ToSet(f.todo)
Unvalidated(f) ==
    f.todo # << >> /\ Head(f.todo) = "validation" /\ "validation" \notin ToSet(Tail(f.todo))

\* A write that listeners may be told of, as far as the write goes.
Tellable(f) == f.by \in Outside /\ f.fresh /\ Validated(f)

\* Only a listener that was told of a write of others, or the validation that
\* restores the value, makes writes nest.
Nested(d) ==
    \A i \in DOMAIN d :
        /\ i < Len(d) => Tellable(d[i])
        /\ d[i].running # NoListener => Tellable(d[i])
        /\ Validated(d[i]) \/ Unvalidated(d[i])

ValidationKept == open /\ (Writable \/ subs # << >>) => validation
GrantKnown == open /\ present /\ granted => Writable
RestoringMeans ==
    write = "Restoring" <=> dispatches # << >> /\ Current.by = "restore"

\* A write that has not been validated yet is the last one.
Arrived ==
    dispatches # << >> /\ Unvalidated(Current) =>
        /\ stored = Current.value
        /\ Current.by \in Outside => (Current.fresh <=> ~ Replay(Current.value))
        /\ Current.by \in Own => writer = "server"
        /\ Current.by = "restore" => Current.value \in TypedValues

\* Listeners that are still to be told will be told of a new value of others.
Telling ==
    dispatches # << >> /\ Current.todo # << >> /\ Validated(Current) /\ open /\ ~ suppress =>
        Tellable(Current)

\* Once the last write is validated, what is stored is what would be restored.
Good ==
    (dispatches = << >> \/ Validated(Current)) /\ open /\ present /\ granted =>
        IF stored \in TypedValues THEN stored = lastGood ELSE writer = "server"

BindingInv ==
    /\ BindingTypeOK /\ Nested(dispatches) /\ ValidationKept /\ GrantKnown
    /\ RestoringMeans /\ Arrived /\ Telling /\ Good

LEMMA BindingInitial == BindingInit => BindingInv
<1>. SUFFICES ASSUME BindingInit PROVE BindingInv
  OBVIOUS
<1>. USE DataBindingAssumption
<1>1. Len(<<>>) = 0 /\ DOMAIN <<>> = {}
  BY EmptySeq
<1>2. BindingTypeOK
  BY EmptySeq DEF BindingInit, BindingTypeOK
<1>3. Nested(dispatches) /\ Telling
  BY <1>1 DEF BindingInit, Nested, Telling
<1>4. ValidationKept /\ GrantKnown /\ RestoringMeans /\ Arrived /\ Good
  BY DEF BindingInit, ValidationKept, GrantKnown, RestoringMeans, Arrived, Good, Writable
<1>. QED BY <1>2, <1>3, <1>4 DEF BindingInv

\* A dispatch is either validated or not.
LEMMA NotBoth ==
  ASSUME NEW f \in Dispatches
  PROVE  /\ ~ (Validated(f) /\ Unvalidated(f))
         /\ f.todo # << >> => /\ Tail(f.todo) \in Seq(Listeners \cup {"validation"})
                              /\ Head(f.todo) \in ToSet(f.todo)
                              /\ ToSet(f.todo) = ToSet(Tail(f.todo)) \cup {Head(f.todo)}
         /\ f.todo = << >> => Validated(f)
<1>1. f.todo \in Seq(Listeners \cup {"validation"})
  BY DEF Dispatches
<1>2. ToSet(<<>>) = {}
  BY EmptySeq DEF ToSet
<1>3. f.todo # << >> => /\ Tail(f.todo) \in Seq(Listeners \cup {"validation"})
                        /\ Head(f.todo) \in ToSet(f.todo)
                        /\ ToSet(f.todo) = ToSet(Tail(f.todo)) \cup {Head(f.todo)}
  BY <1>1, TailElements
<1>. QED BY <1>2, <1>3 DEF Validated, Unvalidated

\* The session writes, or others do, where listeners may be told of the writes
\* under way.
Shallow(d) == \A i \in DOMAIN d : Tellable(d[i])

\* g may be written under d, and e is what there is then.
MayNest(d, g) ==
    /\ d \in Seq(Dispatches) /\ Shallow(d) /\ g \in Dispatches
    /\ g.running = NoListener /\ (Validated(g) \/ Unvalidated(g))

Nests(g, e) == e \in Seq(Dispatches) /\ Nested(e) /\ e # << >> /\ e[Len(e)] = g

LEMMA GoesDeeper ==
  ASSUME NEW d, NEW g, MayNest(d, g), NEW e, e = Append(d, g)
  PROVE  Nests(g, e)
<1>. HIDE DEF Dispatches
<1>0. /\ d \in Seq(Dispatches) /\ Shallow(d) /\ g \in Dispatches
      /\ g.running = NoListener /\ (Validated(g) \/ Unvalidated(g))
  BY DEF MayNest
<1>1. /\ e \in Seq(Dispatches) /\ Len(e) = Len(d) + 1 /\ e # << >> /\ e[Len(e)] = g
      /\ \A i \in 1 .. Len(d) : e[i] = d[i]
  BY <1>0, AppendProperties, EmptySeq
<1>2. /\ DOMAIN e = 1 .. Len(d) + 1 /\ DOMAIN d = 1 .. Len(d) /\ Len(d) \in Nat
  BY <1>0, <1>1
<1>3. /\ ~ (Len(e) < Len(e))
      /\ \A i \in DOMAIN e : (i = Len(e) /\ e[i] = g) \/ (i \in DOMAIN d /\ e[i] = d[i])
  BY <1>1, <1>2
<1>4. \A i \in DOMAIN d : Tellable(d[i])
  BY <1>0 DEF Shallow
<1>5. Nested(e)
  BY <1>0, <1>3, <1>4 DEF Nested, Tellable
<1>. QED BY <1>1, <1>5 DEF Nests

\* A write begins: the validation is first, and where there is none in an open
\* session nobody listens.
LEMMA WriteBegins ==
  ASSUME BindingInv, NEW by \in Outside \cup Own,
         NEW v \in TypedValues \cup {Bad}, NEW fresh \in BOOLEAN, NEW g, g = Frame(by, v, fresh)
  PROVE  /\ g \in Dispatches /\ g.by = by /\ g.value = v /\ g.fresh = fresh /\ g.running = NoListener
         /\ validation => Unvalidated(g)
         /\ ~ validation => Validated(g) /\ (open => g.todo = << >> /\ ~ Writable)
<1>. USE DataBindingAssumption
<1>. DEFINE todo == (IF validation THEN <<"validation">> ELSE << >>) \o subs
<1>1. subs \in Seq(Listeners) /\ ValidationKept
  BY DEF BindingInv, BindingTypeOK
<1>2. todo \in Seq(Listeners \cup {"validation"})
  <2>1. /\ subs \in Seq(Listeners \cup {"validation"}) /\ << >> \in Seq(Listeners \cup {"validation"})
        /\ <<"validation">> \in Seq(Listeners \cup {"validation"})
    BY <1>1, EmptySeq
  <2>. QED BY <2>1, ConcatProperties
<1>3. "validation" \notin ToSet(subs)
  BY <1>1 DEF ToSet
<1>4. CASE validation
  <2>1. todo # << >> /\ Head(todo) = "validation" /\ Tail(todo) = subs
    <3>1. todo = <<"validation">> \o subs
      BY <1>4
    <3>2. Len(todo) = Len(subs) + 1 /\ todo[1] = "validation" /\ \A i \in 1 .. Len(subs) : todo[i + 1] = subs[i]
      BY <1>1, <3>1
    <3>3. todo # << >> /\ Head(todo) = todo[1] /\ Tail(todo) \in Seq(Listeners \cup {"validation"})
          /\ Len(Tail(todo)) = Len(subs) /\ \A i \in 1 .. Len(subs) : Tail(todo)[i] = todo[i + 1]
      <4>. HIDE DEF todo
      <4>. QED BY <1>2, <3>2, EmptySeq
    <3>4. Tail(todo) = subs
      <4>1. subs \in Seq(Listeners \cup {"validation"}) /\ Len(subs) \in Nat
        BY <1>1
      <4>. HIDE DEF todo
      <4>. QED BY <3>2, <3>3, <4>1, SeqEqual
    <3>. QED BY <3>2, <3>3, <3>4
  <2>. HIDE DEF todo
  <2>2. g = [by |-> by, value |-> v, fresh |-> fresh, running |-> NoListener, todo |-> todo]
    BY DEF Frame, todo
  <2>3. g.todo = todo
    BY <2>2
  <2>4. Unvalidated(g)
    BY <1>3, <2>1, <2>3 DEF Unvalidated
  <2>. QED BY <1>2, <1>4, <2>2, <2>4 DEF Dispatches
<1>5. CASE ~ validation
  <2>1. open => ~ Writable /\ subs = << >>
    BY <1>1, <1>5 DEF ValidationKept
  <2>2. todo = subs
    <3>1. todo = << >> \o subs
      BY <1>5
    <3>. QED BY <1>1, <3>1
  <2>. HIDE DEF todo
  <2>3. g = [by |-> by, value |-> v, fresh |-> fresh, running |-> NoListener, todo |-> todo]
    BY DEF Frame, todo
  <2>. QED BY <1>2, <1>3, <1>5, <2>1, <2>2, <2>3 DEF Dispatches, Validated
<1>. QED BY <1>4, <1>5

\* Where mod code runs, listeners may be told of the writes under way.
LEMMA WhereCodeRuns ==
  ASSUME BindingInv, CodeRuns
  PROVE  /\ dispatches \in Seq(Dispatches) /\ Shallow(dispatches) /\ write # "Restoring"
         /\ dispatches # << >> => Current \in Dispatches /\ Tellable(Current)
<1>1. dispatches \in Seq(Dispatches) /\ Nested(dispatches) /\ RestoringMeans
  BY DEF BindingInv, BindingTypeOK
<1>2. Len(dispatches) \in Nat /\ DOMAIN dispatches = 1 .. Len(dispatches) /\ (dispatches # << >> => Len(dispatches) > 0)
  <2>. HIDE DEF Dispatches
  <2>. QED BY <1>1, EmptySeq
<1>3. CASE dispatches = << >>
  BY <1>1, <1>2, <1>3, EmptySeq DEF RestoringMeans, Shallow
<1>4. CASE dispatches # << >>
  <2>1. Current = dispatches[Len(dispatches)] /\ Len(dispatches) \in DOMAIN dispatches
    BY <1>2, <1>4 DEF Current
  <2>2. Tellable(Current)
    BY <1>1, <1>4, <2>1 DEF CodeRuns, Nested
  <2>3. Current \in Dispatches
    <3>. HIDE DEF Dispatches
    <3>. QED BY <1>1, <2>1
  <2>4. \A i \in DOMAIN dispatches : i = Len(dispatches) \/ i < Len(dispatches)
    BY <1>2
  <2>5. Shallow(dispatches)
    BY <1>1, <2>1, <2>2, <2>4 DEF Nested, Shallow
  <2>6. Current.by # "restore"
    BY <2>2 DEF Tellable, Outside
  <2>. QED BY <1>1, <2>2, <2>3, <2>5, <2>6 DEF RestoringMeans
<1>. QED BY <1>3, <1>4

\* A write has come to the store and is dispatched.
LEMMA DispatchBegins ==
  ASSUME BindingInv, MayNest(dispatches, Current'), Nests(Current', dispatches'),
         NEW v \in TypedValues \cup {Bad}, NEW by \in Outside \cup {"server"}, NEW fresh \in BOOLEAN,
         Current' = Frame(by, v, fresh), by \in Outside => (fresh <=> ~ Replay(v)),
         write # "Restoring",
         stored' = v, by \in Own => writer' = "server", writer' \in {"client", "other", "server"},
         UNCHANGED <<granted, open, present, slotVars>>
  PROVE  BindingInv'
<1>. DEFINE g == Current'
<1>1. /\ BindingTypeOK /\ ValidationKept /\ GrantKnown
  BY DEF BindingInv
<1>2. /\ g \in Dispatches /\ g.by = by /\ g.value = v /\ g.fresh = fresh /\ g.running = NoListener
      /\ validation => Unvalidated(g)
      /\ ~ validation => Validated(g) /\ (open => g.todo = << >> /\ ~ Writable)
  <2>1. g = Frame(by, v, fresh) /\ by \in Outside \cup Own
    BY DEF Own
  <2>. HIDE DEF g
  <2>. QED BY <2>1, WriteBegins
<1>3. /\ dispatches' \in Seq(Dispatches) /\ Nested(dispatches') /\ dispatches' # << >>
  BY DEF Nests
<1>. HIDE DEF g
<1>4. ~ (Validated(g) /\ Unvalidated(g))
  BY <1>2, NotBoth
<1>5. Current' = g
  BY DEF g
<1>6. BindingTypeOK'
  BY <1>1, <1>3 DEF BindingTypeOK, slotVars
<1>7. ValidationKept' /\ GrantKnown'
  BY <1>1 DEF ValidationKept, GrantKnown, Writable, slotVars
<1>8. RestoringMeans'
  BY <1>2, <1>3, <1>5 DEF RestoringMeans, slotVars, Outside
<1>9. Arrived'
  BY <1>2, <1>5 DEF Arrived, Replay, Writable, slotVars, Own, Outside
<1>10. Telling'
  BY <1>2, <1>4, <1>5 DEF Telling, slotVars
<1>11. Good'
  BY <1>1, <1>2, <1>3, <1>4, <1>5 DEF Good, GrantKnown, slotVars
<1>. QED BY <1>3, <1>6, <1>7, <1>8, <1>9, <1>10, <1>11 DEF BindingInv

LEMMA WriteNests ==
  ASSUME BindingInv, CodeRuns, NEW by \in Outside \cup Own, NEW v \in TypedValues \cup {Bad},
         NEW fresh \in BOOLEAN, dispatches' = Append(dispatches, Frame(by, v, fresh))
  PROVE  /\ MayNest(dispatches, Current') /\ Nests(Current', dispatches')
         /\ Current' = Frame(by, v, fresh) /\ write # "Restoring"
<1>. DEFINE g == Frame(by, v, fresh)
<1>1. dispatches \in Seq(Dispatches) /\ Shallow(dispatches) /\ write # "Restoring"
  BY WhereCodeRuns
<1>2. g \in Dispatches /\ g.running = NoListener /\ (Validated(g) \/ Unvalidated(g))
  <2>1. g = Frame(by, v, fresh)
    OBVIOUS
  <2>. HIDE DEF g
  <2>. QED BY <2>1, WriteBegins
<1>. HIDE DEF g
<1>3. MayNest(dispatches, g)
  BY <1>1, <1>2 DEF MayNest
<1>4. dispatches' = Append(dispatches, g)
  BY DEF g
<1>5. Nests(g, dispatches')
  BY <1>3, <1>4, GoesDeeper
<1>6. Current' = g
  BY <1>5 DEF Nests, Current
<1>. QED BY <1>1, <1>3, <1>5, <1>6 DEF g

LEMMA WritesStep ==
  ASSUME BindingInv, NEW v \in TypedValues \cup {Bad},
         ClientWrites(v) \/ OtherWrite(v) \/ ServerWrite(v)
  PROVE  BindingInv'
<1>1. CASE ServerWrite(v)
  <2>. DEFINE new == v # stored
  <2>1. /\ CodeRuns /\ new \in BOOLEAN /\ dispatches' = Append(dispatches, Frame("server", v, new))
        /\ stored' = v /\ writer' = "server" /\ UNCHANGED <<granted, open, present, slotVars>>
        /\ "server" \in Own /\ "server" \in Outside \cup {"server"} /\ "server" \notin Outside
    BY <1>1 DEF ServerWrite, Own, Outside
  <2>. HIDE DEF new
  <2>2. /\ MayNest(dispatches, Current') /\ Nests(Current', dispatches')
        /\ Current' = Frame("server", v, new) /\ write # "Restoring"
    BY <2>1, WriteNests
  <2>. QED BY <2>1, <2>2, DispatchBegins
<1>2. ASSUME NEW by \in Outside, dispatches' = Append(dispatches, Frame(by, v, ~ Replay(v))),
             CodeRuns, stored' = v, writer' = by, UNCHANGED <<granted, open, present, slotVars>>
      PROVE  BindingInv'
  <2>. DEFINE new == ~ Replay(v)
  <2>1. new \in BOOLEAN /\ (new <=> ~ Replay(v))
    BY Zenon
  <2>2. dispatches' = Append(dispatches, Frame(by, v, new))
    BY <1>2
  <2>3. by \notin Own /\ by \in {"client", "other", "server"} /\ by \in Outside \cup {"server"}
    BY DEF Own, Outside
  <2>. HIDE DEF new
  <2>4. /\ MayNest(dispatches, Current') /\ Nests(Current', dispatches')
        /\ Current' = Frame(by, v, new) /\ write # "Restoring"
    BY <1>2, <2>1, <2>2, WriteNests
  <2>. QED BY <1>2, <2>1, <2>3, <2>4, DispatchBegins
<1>3. CASE OtherWrite(v)
  BY <1>2, <1>3 DEF OtherWrite, Outside
<1>4. CASE ClientWrites(v)
  <2>1. /\ dispatches = << >> /\ CodeRuns /\ dispatches' = <<Frame("client", v, ~ Replay(v))>>
        /\ stored' = v /\ writer' = "client" /\ UNCHANGED <<granted, open, present, slotVars>>
    BY <1>4 DEF ClientWrites, CodeRuns
  <2>2. dispatches' = Append(dispatches, Frame("client", v, ~ Replay(v)))
    <3>. DEFINE g == Frame("client", v, ~ Replay(v))
    <3>1. dispatches' = <<g>>
      BY <2>1
    <3>. HIDE DEF g
    <3>2. dispatches' = Append(dispatches, g)
      BY <2>1, <3>1
    <3>. QED BY <3>2 DEF g
  <2>. QED BY <1>2, <2>1, <2>2 DEF Outside
<1>. QED BY <1>1, <1>3, <1>4

\* Steps of mod code that leave the writes alone.
LEMMA SlotStep ==
  ASSUME BindingInv, CodeRuns, UNCHANGED <<stored, writer, open, present, suppress, dispatches>>,
         BindingTypeOK', ValidationKept', GrantKnown', Good',
         write' = write \/ write' \in {"Writable", "Disabled"}
  PROVE  BindingInv'
<1>1. /\ write # "Restoring"
      /\ dispatches # << >> => Current \in Dispatches /\ Tellable(Current)
  BY WhereCodeRuns
<1>2. Current' = Current
  BY DEF Current
<1>3. dispatches # << >> => ~ Unvalidated(Current) /\ Current.by # "restore"
  BY <1>1, NotBoth DEF Tellable, Outside
<1>4. RestoringMeans' /\ Arrived'
  BY <1>1, <1>2, <1>3 DEF RestoringMeans, Arrived
<1>5. Nested(dispatches') /\ Telling'
  BY <1>1, <1>2 DEF BindingInv, Telling
<1>. QED BY <1>4, <1>5 DEF BindingInv

LEMMA ReleasedType ==
  ASSUME BindingTypeOK, Released \/ UNCHANGED validation \/ validation' = TRUE
  PROVE  validation' \in BOOLEAN
BY Zenon DEF Released, BindingTypeOK

LEMMA ListenStep ==
  ASSUME BindingInv, NEW l \in Listeners, Listen(l)
  PROVE  BindingInv'
<1>1. /\ BindingTypeOK /\ GrantKnown /\ Good /\ CodeRuns /\ validation' = TRUE /\ subs' = Append(subs, l)
      /\ UNCHANGED <<stored, writer, granted, open, present, write, lastGood, suppress, dispatches>>
  BY DEF BindingInv, Listen
<1>2. BindingTypeOK'
  BY <1>1 DEF BindingTypeOK
<1>3. ValidationKept' /\ GrantKnown' /\ Good'
  BY <1>1 DEF ValidationKept, GrantKnown, Good, Writable, Current
<1>. QED BY <1>1, <1>2, <1>3, SlotStep

LEMMA UnsubscribeStep ==
  ASSUME BindingInv, NEW l \in Listeners, Unsubscribe(l)
  PROVE  BindingInv'
<1>1. /\ BindingTypeOK /\ ValidationKept /\ GrantKnown /\ Good /\ CodeRuns
      /\ l \in ToSet(subs) /\ subs' = Selected(subs, Listeners \ {l})
      /\ IF open THEN Released ELSE UNCHANGED validation
      /\ UNCHANGED <<stored, writer, granted, open, present, write, lastGood, suppress, dispatches>>
  BY DEF BindingInv, Unsubscribe
<1>2. subs' \in Seq(Listeners) /\ subs # << >>
  <2>1. subs \in Seq(Listeners)
    BY <1>1 DEF BindingTypeOK
  <2>2. subs' \in Seq(Listeners)
    BY <1>1, <2>1, SelectedElements
  <2>3. ToSet(<<>>) = {}
    BY EmptySeq DEF ToSet
  <2>. QED BY <1>1, <2>2, <2>3
<1>3. validation' \in BOOLEAN
  BY <1>1, ReleasedType
<1>4. BindingTypeOK'
  BY <1>1, <1>2, <1>3 DEF BindingTypeOK
<1>5. ValidationKept'
  <2>1. open => (validation' <=> validation /\ (write' # "Disabled" \/ subs' # << >>))
    BY <1>1, Zenon DEF Released
  <2>. QED BY <1>1, <1>2, <2>1 DEF ValidationKept, Writable
<1>6. GrantKnown' /\ Good'
  BY <1>1 DEF GrantKnown, Good, Writable, Current
<1>. QED BY <1>1, <1>4, <1>5, <1>6, SlotStep

LEMMA GrantStep ==
  ASSUME BindingInv, Grant
  PROVE  BindingInv'
<1>1. /\ BindingTypeOK /\ CodeRuns /\ stored \in TypedValues
      /\ validation' = TRUE /\ lastGood' = stored /\ granted' = TRUE /\ write' = "Writable"
      /\ UNCHANGED <<stored, writer, open, present, suppress, subs, dispatches>>
  BY DEF BindingInv, Grant
<1>2. BindingTypeOK'
  BY <1>1 DEF BindingTypeOK
<1>3. ValidationKept' /\ GrantKnown' /\ Good'
  BY <1>1 DEF ValidationKept, GrantKnown, Good, Writable, Current
<1>. QED BY <1>1, <1>2, <1>3, SlotStep

LEMMA RevokeStep ==
  ASSUME BindingInv, Revoke
  PROVE  BindingInv'
<1>. USE DataBindingAssumption
<1>1. /\ BindingTypeOK /\ ValidationKept /\ CodeRuns /\ Writable
      /\ granted' = (granted /\ ~ present)
      /\ write' = "Disabled" /\ lastGood' = Default /\ subs' = subs /\ Released
      /\ UNCHANGED <<stored, writer, open, present, suppress, dispatches>>
  BY DEF BindingInv, Revoke
<1>2. validation' \in BOOLEAN /\ granted' \in BOOLEAN /\ (granted' => ~ present)
  <2>1. validation' \in BOOLEAN
    BY <1>1, ReleasedType
  <2>2. granted' \in BOOLEAN /\ (granted' => ~ present)
    BY <1>1, Zenon
  <2>. QED BY <2>1, <2>2
<1>3. BindingTypeOK'
  BY <1>1, <1>2 DEF BindingTypeOK
<1>4. ValidationKept'
  <2>1. validation' <=> validation /\ (write' # "Disabled" \/ subs' # << >>)
    BY <1>1, Zenon DEF Released
  <2>. QED BY <1>1, <2>1 DEF ValidationKept, Writable
<1>5. GrantKnown' /\ Good'
  BY <1>1, <1>2 DEF GrantKnown, Good, Writable
<1>. QED BY <1>1, <1>3, <1>4, <1>5, SlotStep

-----------------------------------------------------------------------------
LEMMA AtWork ==
  ASSUME BindingInv, dispatches # << >>
  PROVE  /\ Current \in Dispatches /\ Len(dispatches) \in DOMAIN dispatches
         /\ Current = dispatches[Len(dispatches)] /\ dispatches \in Seq(Dispatches)
         /\ Mutating <=> Current.by \in Own
         /\ Current.by \in Own <=> Current.by \notin Outside
         /\ Validated(Current) \/ Unvalidated(Current)
         /\ Current.running # NoListener => Tellable(Current)
<1>1. dispatches \in Seq(Dispatches) /\ Nested(dispatches)
  BY DEF BindingInv, BindingTypeOK
<1>2. /\ Len(dispatches) \in Nat \ {0} /\ DOMAIN dispatches = 1 .. Len(dispatches)
      /\ Current = dispatches[Len(dispatches)] /\ Current \in Dispatches
  <2>. HIDE DEF Dispatches
  <2>. QED BY <1>1, EmptySeq DEF Current
<1>3. Len(dispatches) \in DOMAIN dispatches /\ \A i \in DOMAIN dispatches : i = Len(dispatches) \/ i < Len(dispatches)
  BY <1>2
<1>4. Mutating <=> Current.by \in Own
  <2>1. \A i \in DOMAIN dispatches : i < Len(dispatches) => dispatches[i].by \notin Own
    BY <1>1 DEF Nested, Tellable, Own, Outside
  <2>. QED BY <1>2, <1>3, <2>1 DEF Mutating
<1>5. Current.by \in Own <=> Current.by \notin Outside
  BY <1>2 DEF Dispatches, Own, Outside
<1>. QED BY <1>1, <1>2, <1>3, <1>4, <1>5 DEF Nested

Replaces(e, f) == e \in Seq(Dispatches) /\ Nested(e) /\ e # << >> /\ e[Len(e)] = f
Stacked(d) == d \in Seq(Dispatches) /\ Nested(d) /\ d # << >>
Proper(f) == f \in Dispatches /\ Validated(f) /\ (f.running # NoListener => Tellable(f))
TopTo(d, f) == [d EXCEPT ![Len(d)] = f]

\* The dispatch at work goes on.
LEMMA ReplacesTop ==
  ASSUME NEW d, Stacked(d), NEW f, Proper(f)
  PROVE  Replaces(TopTo(d, f), f)
<1>1. d \in Seq(Dispatches) /\ Nested(d) /\ d # << >>
  BY DEF Stacked
<1>2. f \in Dispatches /\ Validated(f) /\ (f.running # NoListener => Tellable(f))
  BY DEF Proper
<1>. DEFINE e == [d EXCEPT ![Len(d)] = f]
<1>. HIDE DEF Dispatches
<1>3. /\ e \in Seq(Dispatches) /\ Len(e) = Len(d) /\ e # << >> /\ DOMAIN e = DOMAIN d
      /\ e[Len(e)] = f /\ \A i \in DOMAIN e : (i = Len(d) /\ e[i] = f) \/ (i # Len(d) /\ e[i] = d[i])
  BY <1>1, <1>2, EmptySeq
<1>4. Len(e) \in Nat /\ ~ (Len(e) < Len(e))
  BY <1>3
<1>. HIDE DEF e
<1>5. Nested(e)
  BY <1>1, <1>2, <1>3, <1>4 DEF Nested
<1>6. Replaces(e, f)
  BY <1>3, <1>5 DEF Replaces
<1>. QED BY <1>6 DEF e, TopTo

LEMMA TopSet ==
  ASSUME BindingInv, dispatches # << >>, NEW f \in Dispatches, Validated(f),
         f.running # NoListener => Tellable(f),
         NEW e, e = [dispatches EXCEPT ![Len(dispatches)] = f]
  PROVE  Replaces(e, f) /\ (Tellable(f) => Shallow(e))
<1>1. Stacked(dispatches) /\ Proper(f) /\ e = TopTo(dispatches, f)
  BY AtWork DEF BindingInv, Stacked, Proper, TopTo
<1>2. Replaces(e, f)
  BY ONLY <1>1, ReplacesTop
<1>3. \A i \in DOMAIN e : i = Len(e) \/ i < Len(e)
  <2>1. DOMAIN e = 1 .. Len(e) /\ Len(e) \in Nat
    <3>. HIDE DEF Dispatches
    <3>. QED BY <1>2 DEF Replaces
  <2>. QED BY <2>1
<1>4. Tellable(f) => Shallow(e)
  BY <1>2, <1>3 DEF Shallow, Nested, Replaces
<1>. QED BY <1>2, <1>4

LEMMA NotifyStep ==
  ASSUME BindingInv, Notify
  PROVE  BindingInv'
<1>. DEFINE l == Head(Current.todo)
            f == [Current EXCEPT !.todo = Tail(@),
                                 !.running = IF ListenerTold(l) THEN l ELSE NoListener]
<1>1. /\ BindingTypeOK /\ ValidationKept /\ GrantKnown /\ RestoringMeans /\ Telling /\ Good
      /\ dispatches # << >> /\ Current.running = NoListener /\ Current.todo # << >> /\ l # "validation"
      /\ SetTop(f) /\ UNCHANGED <<stored, writer, granted, open, present, slotVars>>
  BY DEF BindingInv, Notify
<1>2. Current \in Dispatches /\ (Validated(Current) \/ Unvalidated(Current))
      /\ Len(dispatches) \in DOMAIN dispatches /\ Current = dispatches[Len(dispatches)]
  BY <1>1, AtWork
<1>3. /\ Validated(Current) /\ l \in Listeners
      /\ Tail(Current.todo) \in Seq(Listeners \cup {"validation"})
      /\ "validation" \notin ToSet(Tail(Current.todo))
  <2>1. Validated(Current)
    BY <1>1, <1>2 DEF Unvalidated
  <2>2. Current.todo \in Seq(Listeners \cup {"validation"})
    BY <1>2 DEF Dispatches
  <2>3. l \in Listeners \cup {"validation"}
    BY <1>1, <2>2, TailElements
  <2>. QED BY <1>1, <1>2, <2>1, <2>3, NotBoth DEF Validated
<1>4. open /\ ~ suppress => Tellable(Current)
  BY <1>1, <1>3 DEF Telling
<1>5. /\ f \in Dispatches /\ f.by = Current.by /\ f.value = Current.value /\ f.fresh = Current.fresh
      /\ f.todo = Tail(Current.todo) /\ f.running \in {l, NoListener}
      /\ f.running # NoListener => ListenerTold(l)
  BY <1>2, <1>3 DEF Dispatches
<1>6. /\ Validated(f) /\ (f.running # NoListener => Tellable(f))
      /\ Tellable(Current) => Tellable(f)
  BY <1>3, <1>4, <1>5 DEF Validated, ListenerTold, Tellable
<1>. HIDE DEF f
<1>7. /\ dispatches' \in Seq(Dispatches) /\ Nested(dispatches') /\ dispatches' # << >>
      /\ dispatches'[Len(dispatches')] = f
  <2>1. dispatches' = [dispatches EXCEPT ![Len(dispatches)] = f]
    BY <1>1 DEF SetTop
  <2>2. Replaces(dispatches', f)
    BY <1>1, <1>5, <1>6, <2>1, TopSet
  <2>. QED BY <2>2 DEF Replaces
<1>8. Current' = f
  BY <1>7 DEF Current
<1>9. BindingTypeOK'
  BY <1>1, <1>7 DEF BindingTypeOK, slotVars
<1>10. ValidationKept' /\ GrantKnown' /\ RestoringMeans'
  BY <1>1, <1>5, <1>7, <1>8 DEF ValidationKept, GrantKnown, RestoringMeans, Writable, slotVars
<1>11. Arrived' /\ Good'
  BY <1>1, <1>3, <1>5, <1>6, <1>8, NotBoth DEF Arrived, Good, slotVars
<1>12. Telling'
  BY <1>1, <1>4, <1>6, <1>8 DEF Telling, slotVars
<1>. QED BY <1>7, <1>9, <1>10, <1>11, <1>12 DEF BindingInv

LEMMA ListenerReturnsStep ==
  ASSUME BindingInv, ListenerReturns
  PROVE  BindingInv'
<1>. DEFINE f == [Current EXCEPT !.running = NoListener]
<1>1. /\ BindingTypeOK /\ ValidationKept /\ GrantKnown /\ RestoringMeans /\ Telling /\ Good
      /\ dispatches # << >> /\ Current.running # NoListener
      /\ SetTop(f) /\ UNCHANGED <<stored, writer, granted, open, present, slotVars>>
  BY DEF BindingInv, ListenerReturns
<1>2. /\ Current \in Dispatches /\ Validated(Current) /\ Tellable(Current)
      /\ Len(dispatches) \in DOMAIN dispatches /\ Current = dispatches[Len(dispatches)]
  BY <1>1, AtWork DEF Tellable
<1>3. /\ f \in Dispatches /\ f.by = Current.by /\ f.value = Current.value /\ f.fresh = Current.fresh
      /\ f.todo = Current.todo /\ f.running = NoListener
  BY <1>2 DEF Dispatches
<1>. HIDE DEF f
<1>4. Validated(f) /\ ~ Unvalidated(f) /\ Tellable(f)
  BY <1>2, <1>3, NotBoth DEF Validated, Tellable
<1>5. /\ dispatches' \in Seq(Dispatches) /\ Nested(dispatches') /\ dispatches' # << >>
      /\ dispatches'[Len(dispatches')] = f
  <2>1. dispatches' = [dispatches EXCEPT ![Len(dispatches)] = f]
    BY <1>1 DEF SetTop
  <2>2. Replaces(dispatches', f)
    BY <1>1, <1>3, <1>4, <2>1, TopSet
  <2>. QED BY <2>2 DEF Replaces
<1>6. Current' = f
  BY <1>5 DEF Current
<1>7. BindingTypeOK'
  BY <1>1, <1>5 DEF BindingTypeOK, slotVars
<1>8. ValidationKept' /\ GrantKnown' /\ RestoringMeans'
  BY <1>1, <1>3, <1>5, <1>6 DEF ValidationKept, GrantKnown, RestoringMeans, Writable, slotVars
<1>9. Arrived' /\ Good'
  BY <1>1, <1>2, <1>4, <1>6 DEF Arrived, Good, slotVars
<1>10. Telling'
  BY <1>4, <1>6 DEF Telling
<1>. QED BY <1>5, <1>7, <1>8, <1>9, <1>10 DEF BindingInv

LEMMA WriteReturnsStep ==
  ASSUME BindingInv, WriteReturns
  PROVE  BindingInv'
<1>. DEFINE n == Len(dispatches)
<1>1. /\ BindingTypeOK /\ Nested(dispatches) /\ ValidationKept /\ GrantKnown /\ RestoringMeans
      /\ Telling /\ Good /\ dispatches # << >> /\ Current.todo = << >> /\ dispatches' = Front(dispatches)
      /\ write' = IF Current.by = "restore" /\ write = "Restoring" THEN "Writable" ELSE write
      /\ UNCHANGED <<stored, writer, granted, open, present, lastGood, suppress, validation, subs>>
  BY DEF BindingInv, WriteReturns
<1>2. dispatches \in Seq(Dispatches) /\ Validated(Current)
  BY <1>1, AtWork, NotBoth
<1>3. /\ n \in Nat \ {0} /\ DOMAIN dispatches = 1 .. n
      /\ dispatches' \in Seq(Dispatches) /\ Len(dispatches') = n - 1 /\ DOMAIN dispatches' = 1 .. n - 1
      /\ \A i \in 1 .. n - 1 : dispatches'[i] = dispatches[i]
  <2>. HIDE DEF Dispatches
  <2>1. /\ n \in Nat \ {0} /\ dispatches' \in Seq(Dispatches) /\ Len(dispatches') = n - 1
        /\ \A i \in 1 .. n - 1 : dispatches'[i] = dispatches[i]
    BY <1>1, <1>2, FrontFacts
  <2>. QED BY <1>2, <2>1
<1>4. \A i \in DOMAIN dispatches' : i \in DOMAIN dispatches /\ dispatches'[i] = dispatches[i] /\ i < n
  BY <1>3
<1>5. \A i \in DOMAIN dispatches' : Tellable(dispatches'[i])
  BY <1>1, <1>4 DEF Nested
<1>6. Nested(dispatches')
  BY <1>1, <1>4, <1>5 DEF Nested
<1>7. dispatches' # << >> => Tellable(Current')
  <2>1. dispatches' # << >> => Len(dispatches') \in DOMAIN dispatches'
    <3>. HIDE DEF Dispatches
    <3>. QED BY <1>3, EmptySeq
  <2>. QED BY <1>5, <2>1 DEF Current
<1>8. dispatches' # << >> => ~ Unvalidated(Current')
  <2>1. dispatches' # << >> => Current' \in Dispatches
    <3>. HIDE DEF Dispatches
    <3>. QED BY <1>3, EmptySeq DEF Current
  <2>. QED BY <1>7, <2>1, NotBoth DEF Tellable
<1>9. write' # "Restoring" /\ write' \in {"Disabled", "Writable", "Restoring"} /\ Writable' = Writable
  BY <1>1 DEF RestoringMeans, Writable, BindingTypeOK
<1>10. BindingTypeOK'
  BY <1>1, <1>3, <1>9 DEF BindingTypeOK
<1>11. ValidationKept' /\ GrantKnown' /\ RestoringMeans'
  BY <1>1, <1>7, <1>9 DEF ValidationKept, GrantKnown, RestoringMeans, Tellable, Outside
<1>12. Arrived' /\ Good'
  BY <1>1, <1>2, <1>8 DEF Arrived, Good
<1>13. Telling'
  BY <1>7 DEF Telling
<1>. QED BY <1>6, <1>10, <1>11, <1>12, <1>13 DEF BindingInv

\* The player or the session goes.
LEMMA LeavingStep ==
  ASSUME BindingInv, PlayerGone \/ CloseSession
  PROVE  BindingInv'
<1>1. /\ BindingTypeOK /\ Nested(dispatches) /\ ValidationKept /\ GrantKnown /\ RestoringMeans
      /\ Telling /\ Good /\ dispatches = << >>
      /\ UNCHANGED <<write, lastGood, suppress, subs, dispatches>>
  BY DEF BindingInv, PlayerGone, CloseSession, slotVars
<1>2. Nested(dispatches') /\ RestoringMeans' /\ Arrived' /\ Telling'
  BY <1>1 DEF RestoringMeans, Arrived, Telling
<1>3. CASE PlayerGone
  <2>1. present' = FALSE /\ UNCHANGED <<stored, writer, granted, open, validation>>
    BY <1>3 DEF PlayerGone, slotVars
  <2>2. BindingTypeOK'
    BY <1>1, <2>1 DEF BindingTypeOK
  <2>3. ValidationKept' /\ GrantKnown' /\ Good'
    BY <1>1, <2>1 DEF ValidationKept, GrantKnown, Good, Writable
  <2>. QED BY <1>2, <2>2, <2>3 DEF BindingInv
<1>4. CASE CloseSession
  <2>1. /\ open' = FALSE /\ granted' = (granted /\ ~ (Writable /\ present)) /\ writer' = "server"
        /\ validation' = FALSE /\ present' = present /\ stored' \in {Bad, stored}
    BY <1>4 DEF CloseSession
  <2>2. granted' \in BOOLEAN
    BY <2>1, Zenon
  <2>3. BindingTypeOK'
    BY <1>1, <2>1, <2>2 DEF BindingTypeOK
  <2>4. ValidationKept' /\ GrantKnown' /\ Good'
    BY <2>1 DEF ValidationKept, GrantKnown, Good
  <2>. QED BY <1>2, <2>3, <2>4 DEF BindingInv
<1>. QED BY <1>3, <1>4

-----------------------------------------------------------------------------
\* Validate is about the write at work, which has not been validated yet.
LEMMA ToValidate ==
  ASSUME BindingInv, Validate, NEW f, f = [Current EXCEPT !.todo = Tail(@)]
  PROVE  /\ dispatches # << >> /\ Current \in Dispatches /\ Unvalidated(Current) /\ open
         /\ f \in Dispatches /\ f.by = Current.by /\ f.value = Current.value /\ f.fresh = Current.fresh
         /\ Validated(f) /\ ~ Unvalidated(f) /\ f.running = NoListener
<1>1. /\ dispatches # << >> /\ Current.running = NoListener /\ Current.todo # << >>
      /\ Head(Current.todo) = "validation" /\ open
  BY DEF Validate
<1>2. Current \in Dispatches /\ (Validated(Current) \/ Unvalidated(Current))
  BY <1>1, AtWork
<1>3. Unvalidated(Current)
  BY <1>1, <1>2, NotBoth DEF Validated
<1>4. Tail(Current.todo) \in Seq(Listeners \cup {"validation"})
  BY <1>1, <1>2, NotBoth
<1>5. /\ f \in Dispatches /\ f.by = Current.by /\ f.value = Current.value /\ f.fresh = Current.fresh
      /\ f.todo = Tail(Current.todo) /\ f.running = NoListener
  BY <1>1, <1>2, <1>4 DEF Dispatches
<1>6. Validated(f)
  BY <1>3, <1>5 DEF Validated, Unvalidated
<1>7. ~ Unvalidated(f)
  BY <1>5, <1>6, NotBoth
<1>. QED BY <1>1, <1>2, <1>3, <1>5, <1>6, <1>7

\* It has a value of the binding's type.
LEMMA Accepted ==
  ASSUME BindingInv, Validate, NEW f, f = [Current EXCEPT !.todo = Tail(@)],
         Current.value \in TypedValues, suppress' = Suppressed(Current.value),
         lastGood' = IF Writable THEN Current.value ELSE lastGood, SetTop(f),
         UNCHANGED <<stored, writer, granted, write, validation, subs, open, present>>
  PROVE  BindingInv'
<1>1. /\ BindingTypeOK /\ ValidationKept /\ GrantKnown /\ RestoringMeans /\ Arrived
  BY DEF BindingInv
<1>2. /\ dispatches # << >> /\ Current \in Dispatches /\ Unvalidated(Current) /\ open
      /\ f \in Dispatches /\ f.by = Current.by /\ f.value = Current.value /\ f.fresh = Current.fresh
      /\ Validated(f) /\ ~ Unvalidated(f) /\ f.running = NoListener
  BY ToValidate
<1>3. Replaces(dispatches', f)
  <2>1. dispatches' = [dispatches EXCEPT ![Len(dispatches)] = f]
    BY DEF SetTop
  <2>. QED BY <1>2, <2>1, TopSet
<1>4. Current' = f /\ dispatches' # << >>
  BY <1>3 DEF Current, Replaces
<1>5. suppress' \in BOOLEAN
  BY Zenon DEF Suppressed
<1>6. ~ suppress' => ~ Mutating /\ ~ Replay(Current.value)
  BY Zenon DEF Suppressed
<1>7. BindingTypeOK'
  BY <1>1, <1>3, <1>5 DEF BindingTypeOK, Replaces
<1>8. ValidationKept' /\ GrantKnown' /\ RestoringMeans'
  BY <1>1, <1>2, <1>4 DEF ValidationKept, GrantKnown, RestoringMeans, Writable
<1>9. Arrived'
  BY <1>2, <1>4 DEF Arrived
<1>10. Good'
  BY <1>1, <1>2 DEF Arrived, Good, GrantKnown
<1>11. ASSUME ~ suppress' PROVE Tellable(f)
  <2>1. Current.by \in Outside
    BY <1>2, <1>6, <1>11, AtWork
  <2>2. Current.fresh
    BY <1>1, <1>2, <1>6, <1>11, <2>1 DEF Arrived
  <2>. QED BY <1>2, <2>1, <2>2 DEF Tellable
<1>12. Telling'
  BY <1>4, <1>11 DEF Telling
<1>. QED BY <1>3, <1>7, <1>8, <1>9, <1>10, <1>12 DEF BindingInv, Replaces

\* It has not, and the last good value is written, which nests.
LEMMA Restores ==
  ASSUME BindingInv, Validate, NEW f, f = [Current EXCEPT !.todo = Tail(@)],
         suppress' = TRUE, write = "Writable", ~ Mutating, Current.value \notin TypedValues,
         stored' = lastGood, writer' = "server", write' = "Restoring",
         dispatches' = Append([dispatches EXCEPT ![Len(dispatches)] = f], Frame("restore", lastGood, FALSE)),
         UNCHANGED <<granted, lastGood, validation, subs, open, present>>
  PROVE  BindingInv'
<1>. DEFINE g == Frame("restore", lastGood, FALSE)
            d == [dispatches EXCEPT ![Len(dispatches)] = f]
            e == Append(d, g)
<1>1. /\ BindingTypeOK /\ ValidationKept /\ Arrived /\ lastGood \in TypedValues
  BY DEF BindingInv, BindingTypeOK
<1>2. /\ dispatches # << >> /\ open /\ f \in Dispatches /\ f.by = Current.by
      /\ f.value = Current.value /\ f.fresh = Current.fresh /\ Unvalidated(Current)
      /\ Validated(f) /\ f.running = NoListener
  BY ToValidate
<1>3. Tellable(f)
  <2>1. Current.by \in Outside
    BY <1>2, AtWork
  <2>2. ~ Replay(Current.value)
    BY <1>1 DEF Replay
  <2>. QED BY <1>1, <1>2, <2>1, <2>2 DEF Arrived, Tellable
<1>4. validation
  BY <1>1, <1>2 DEF ValidationKept, Writable
<1>5. /\ g \in Dispatches /\ g.by = "restore" /\ g.value = lastGood /\ g.running = NoListener
      /\ Unvalidated(g)
  <2>. DEFINE new == FALSE
              by  == "restore"
  <2>1. /\ g = Frame(by, lastGood, new) /\ new \in BOOLEAN
        /\ lastGood \in TypedValues \cup {Bad} /\ by \in Outside \cup Own
    BY <1>1 DEF Own
  <2>. HIDE DEF g, new, by
  <2>2. /\ g \in Dispatches /\ g.by = by /\ g.value = lastGood /\ g.fresh = new /\ g.running = NoListener
        /\ validation => Unvalidated(g)
        /\ ~ validation => Validated(g) /\ (open => g.todo = << >> /\ ~ Writable)
    BY ONLY BindingInv, <2>1, WriteBegins
  <2>3. Unvalidated(g)
    BY <1>4, <2>2
  <2>. QED BY <2>2, <2>3 DEF by
<1>. HIDE DEF g
<1>6. Replaces(d, f) /\ Shallow(d)
  <2>1. Replaces(d, f)
    BY <1>2, TopSet
  <2>2. Shallow(d)
    BY <1>2, <1>3, TopSet
  <2>. QED BY <2>1, <2>2
<1>. HIDE DEF d
<1>7. e \in Seq(Dispatches) /\ Nested(e) /\ e # << >> /\ e[Len(e)] = g
  <2>1. MayNest(d, g)
    BY <1>5, <1>6 DEF Replaces, MayNest
  <2>2. Nests(g, e)
    BY <2>1, GoesDeeper
  <2>. QED BY <2>2 DEF Nests
<1>8. dispatches' = e
  BY DEF d, g
<1>. HIDE DEF e
<1>9. Current' = g /\ ~ Validated(g)
  BY <1>5, <1>7, <1>8, NotBoth DEF Current
<1>10. BindingTypeOK'
  BY <1>1, <1>7, <1>8 DEF BindingTypeOK
<1>11. ValidationKept' /\ GrantKnown' /\ RestoringMeans'
  BY <1>4, <1>5, <1>7, <1>8, <1>9 DEF ValidationKept, GrantKnown, RestoringMeans, Writable
<1>12. Arrived' /\ Good' /\ Telling'
  BY <1>1, <1>5, <1>7, <1>8, <1>9 DEF Arrived, Good, Telling, Outside
<1>. QED BY <1>7, <1>8, <1>10, <1>11, <1>12 DEF BindingInv

\* It has not, and the client may have lost its permission.
LEMMA Refused ==
  ASSUME BindingInv, Validate, NEW f, f = [Current EXCEPT !.todo = Tail(@)], SetTop(f),
         Current.value \notin TypedValues, suppress' = TRUE,
         UNCHANGED <<stored, writer, open, present, subs>>,
         \/ /\ granted' = FALSE /\ write' = "Disabled" /\ lastGood' = Default /\ Released
            /\ write = "Writable"
         \/ /\ ~ (write = "Writable" /\ ~ Mutating /\ present)
            /\ UNCHANGED <<granted, write, lastGood, validation>>
  PROVE  BindingInv'
<1>. USE DataBindingAssumption
<1>1. /\ BindingTypeOK /\ ValidationKept /\ GrantKnown /\ RestoringMeans /\ Arrived
  BY DEF BindingInv
<1>2. /\ dispatches # << >> /\ Current \in Dispatches /\ Unvalidated(Current) /\ open
      /\ f \in Dispatches /\ f.by = Current.by /\ Validated(f) /\ ~ Unvalidated(f) /\ f.running = NoListener
  BY ToValidate
<1>3. Replaces(dispatches', f)
  <2>1. dispatches' = [dispatches EXCEPT ![Len(dispatches)] = f]
    BY DEF SetTop
  <2>. QED BY <1>2, <2>1, TopSet
<1>4. Current' = f /\ dispatches' # << >>
  BY <1>3 DEF Current, Replaces
<1>5. validation' \in BOOLEAN
  BY <1>1, ReleasedType
<1>6. BindingTypeOK'
  BY <1>1, <1>3, <1>5 DEF BindingTypeOK, Replaces
<1>7. ValidationKept'
  <2>1. Released => (validation' <=> validation /\ (write' # "Disabled" \/ subs' # << >>))
    BY Zenon DEF Released
  <2>. QED BY <1>1, <2>1 DEF ValidationKept, Writable
<1>8. GrantKnown'
  BY <1>1 DEF GrantKnown, Writable
<1>9. RestoringMeans'
  BY <1>1, <1>2, <1>4 DEF RestoringMeans
<1>10. Arrived' /\ Telling'
  BY <1>2, <1>4 DEF Arrived, Telling
<1>11. Good'
  <2>1. Current.by \in Own <=> Mutating
    BY <1>2, AtWork
  <2>2. write = "Restoring" => Current.by \in Own
    BY <1>1 DEF RestoringMeans, Own
  <2>3. Current.by \in Own => writer = "server"
    BY <1>1, <1>2 DEF Arrived
  <2>. QED BY <1>1, <1>2, <2>1, <2>2, <2>3 DEF Arrived, Good, GrantKnown, Writable, BindingTypeOK
<1>. QED BY <1>3, <1>6, <1>7, <1>8, <1>9, <1>10, <1>11 DEF BindingInv, Replaces

LEMMA ValidateStep ==
  ASSUME BindingInv, Validate
  PROVE  BindingInv'
<1>. DEFINE f == [Current EXCEPT !.todo = Tail(@)]
            v == Current.value
<1>1. \/ /\ v \in TypedValues
         /\ suppress' = Suppressed(v)
         /\ lastGood' = IF Writable THEN v ELSE lastGood
         /\ SetTop(f)
         /\ UNCHANGED <<stored, writer, granted, write, validation, subs>>
      \/ /\ v \notin TypedValues /\ suppress' = TRUE
         /\ IF write = "Writable" /\ ~ Mutating /\ present
            THEN Restore(f)
            ELSE /\ SetTop(f)
                 /\ UNCHANGED <<stored, writer, granted, write, lastGood, validation, subs>>
  BY DEF Validate
<1>2. UNCHANGED <<open, present>>
  BY DEF Validate
<1>3. f = [Current EXCEPT !.todo = Tail(@)]
  OBVIOUS
<1>. HIDE DEF f
<1>4. CASE v \in TypedValues
  BY <1>1, <1>2, <1>3, <1>4, Accepted
<1>5. CASE v \notin TypedValues /\ ~ (write = "Writable" /\ ~ Mutating /\ present)
  BY <1>1, <1>2, <1>3, <1>5, Refused
<1>6. CASE v \notin TypedValues /\ write = "Writable" /\ ~ Mutating /\ present
  <2>1. suppress' = TRUE /\ Restore(f)
    BY <1>1, <1>6
  <2>2. CASE /\ stored' = lastGood /\ writer' = "server" /\ write' = "Restoring"
             /\ dispatches' = Append([dispatches EXCEPT ![Len(dispatches)] = f], Frame("restore", lastGood, FALSE))
             /\ UNCHANGED <<granted, lastGood, validation, subs>>
    BY <1>2, <1>3, <1>6, <2>1, <2>2, Restores
  <2>3. CASE /\ granted' = FALSE /\ write' = "Disabled" /\ lastGood' = Default
             /\ subs' = subs /\ Released /\ SetTop(f) /\ UNCHANGED <<stored, writer>>
    BY <1>2, <1>3, <1>6, <2>1, <2>3, Refused
  <2>. QED BY <2>1, <2>2, <2>3 DEF Restore
<1>. QED BY <1>4, <1>5, <1>6

LEMMA BindingStep == BindingInv /\ [BindingNext]_bindingVars => BindingInv'
<1>. SUFFICES ASSUME BindingInv, [BindingNext]_bindingVars PROVE BindingInv'
  OBVIOUS
<1>1. ASSUME NEW v \in TypedValues \cup {Bad}, ClientWrites(v) \/ OtherWrite(v) \/ ServerWrite(v)
      PROVE  BindingInv'
  BY <1>1, WritesStep
<1>2. ASSUME NEW l \in Listeners, Listen(l) PROVE BindingInv'
  BY <1>2, ListenStep
<1>3. ASSUME NEW l \in Listeners, Unsubscribe(l) PROVE BindingInv'
  BY <1>3, UnsubscribeStep
<1>4. CASE Grant \/ Revoke
  BY <1>4, GrantStep, RevokeStep
<1>5. CASE Validate \/ Notify \/ ListenerReturns \/ WriteReturns
  BY <1>5, ValidateStep, NotifyStep, ListenerReturnsStep, WriteReturnsStep
<1>6. CASE PlayerGone \/ CloseSession
  BY <1>6, LeavingStep
<1>7. CASE UNCHANGED bindingVars
  <2>1. UNCHANGED <<stored, writer, granted, open, present, write, lastGood, suppress, validation,
                    subs, dispatches>>
    BY <1>7 DEF bindingVars, slotVars
  <2>2. BindingTypeOK' /\ Nested(dispatches')
    BY <2>1 DEF BindingInv, BindingTypeOK
  <2>3. ValidationKept' /\ GrantKnown' /\ RestoringMeans' /\ Arrived' /\ Telling' /\ Good'
    BY <2>1 DEF BindingInv, ValidationKept, GrantKnown, RestoringMeans, Arrived, Telling, Good, Replay,
                      Writable, Current
  <2>. QED BY <2>2, <2>3 DEF BindingInv
<1>. QED BY <1>1, <1>2, <1>3, <1>4, <1>5, <1>6, <1>7 DEF BindingNext

\* BindingInv is an inductive invariant of a binding.
THEOREM BindingInvariance == BindingSpec => []BindingInv
<1>. QED BY BindingInitial, BindingStep, PTL DEF BindingSpec

\* The state of a binding keeps its type.
THEOREM BindingTypeCorrect == BindingSpec => []BindingTypeOK
<1>1. BindingInv => BindingTypeOK
  BY DEF BindingInv
<1>. QED BY <1>1, BindingInvariance, PTL

\* Whatever a binding's listeners write, grant, revoke and unsubscribe while
\* they are told, a client that may write leaves a valid value there, and the
\* one that onNativeChange would restore.
THEOREM GoodDataStays == BindingSpec => []ClientLeavesGoodData
<1>1. BindingInv => ClientLeavesGoodData
  BY DEF BindingInv, Good, GrantKnown, ClientLeavesGoodData
<1>. QED BY <1>1, BindingInvariance, PTL

\* A listener is told of a value of the binding's type that the client or other
\* code on the server has written, not of one that is replayed, and not of what
\* its own session writes.
THEOREM OnlyNewAndValidTold == BindingSpec => []OnlyNewAndValid
<1>1. BindingInit => OnlyNewAndValid
  BY DEF BindingInit, OnlyNewAndValid
<1>2. ASSUME BindingInv, OnlyNewAndValid, [BindingNext]_bindingVars PROVE OnlyNewAndValid'
  <2>1. CASE last' = NoListener
    BY <2>1 DEF OnlyNewAndValid
  <2>2. CASE UNCHANGED bindingVars
    BY <1>2, <2>2 DEF bindingVars, OnlyNewAndValid
  <2>3. CASE Notify
    <3>. DEFINE l == Head(Current.todo)
    <3>1. /\ dispatches # << >> /\ Current.running = NoListener /\ Current.todo # << >> /\ l # "validation"
          /\ last' = IF l \in ToSet(subs)
                     THEN [by |-> Current.by, told |-> ListenerTold(l),
                           value |-> Current.value, fresh |-> Current.fresh]
                     ELSE NoListener
      BY <2>3 DEF Notify
    <3>2. Validated(Current)
      BY <1>2, <3>1, AtWork DEF Unvalidated
    <3>3. open /\ ~ suppress => Current.by \in Outside /\ Current.fresh
      BY <1>2, <3>1, <3>2 DEF BindingInv, Telling, Tellable
    <3>4. ListenerTold(l) => Current.value \in TypedValues /\ ~ suppress /\ open
      BY DEF ListenerTold
    <3>. QED BY <3>1, <3>3, <3>4 DEF OnlyNewAndValid
  <2>. QED BY <1>2, <2>1, <2>2, <2>3 DEF BindingNext, ClientWrites, OtherWrite, ServerWrite, Listen, Unsubscribe, Grant, Revoke,
                Validate, ListenerReturns, WriteReturns, PlayerGone, CloseSession
<1>. QED BY <1>1, <1>2, BindingInvariance, PTL DEF BindingSpec
=============================================================================
