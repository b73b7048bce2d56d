--------------------------- MODULE EventBus_proofs ---------------------------
(***************************************************************************)
(* Proofs about EventBus: the records of attachments never part, a mod     *)
(* that is disabled or unloaded is found with all its listeners, and a     *)
(* publication calls whom it should.  About CommandHandle: that the        *)
(* overloads on record, in the game and put aside belong together.  And    *)
(* about ServiceManager: that its tables and what it tells do.             *)
(***************************************************************************)
EXTENDS CommandHandle, ServiceManager, Selections_proofs, TLAPS

RecordTypes ==
    /\ life \in [Objs -> Lives]
    /\ owner \in [Events -> Names \cup {Core, Nobody}]
    /\ stream \in [Events -> SUBSET Listeners]
    /\ attached \in [Listeners -> SUBSET Events]
    /\ held \in [Names -> SUBSET Listeners]

\* A name has one object that is alive at most.
OneAlive ==
    \A o, p \in Objs : NameOf[o] = NameOf[p] /\ Alive(o) /\ Alive(p) => o = p

IInv ==
    /\ RecordTypes
    /\ OneAlive
    /\ RecordsAgree
    /\ ListenersFound
    /\ OnlyFailedLoadsLeave

LEMMA InitIInv == Init => IInv
  BY EventBusAssumption DEF Init, IInv, RecordTypes, Lives, OneAlive, RecordsAgree,
     ListenersFound, OnlyFailedLoadsLeave, Alive

\* A publication changes no record.
LEMMA PublishingIsApart ==
    ASSUME Publications
    PROVE  UNCHANGED <<life, status, busVars>>
  BY Zenon DEF Publications, Publish, Call, PublishEnds

\* Every step keeps the types of the records.
LEMMA TypesInv ==
    ASSUME RecordTypes, [Next]_vars
    PROVE  RecordTypes'
<1> USE EventBusAssumption DEF RecordTypes
<1>1. CASE SetStatus
  BY <1>1 DEF SetStatus, busVars
<1>2. ASSUME NEW o \in Objs, ModCalls(o)
      PROVE  RecordTypes'
  <2>1. CASE LoadBegins(o) \/ LoadEnds(o) \/ LoadFails(o) \/ Enable(o)
    BY <2>1 DEF LoadBegins, LoadEnds, LoadFails, Enable, busVars, Lives
  <2>2. CASE Disable(o)
    BY <2>2 DEF Disable, Detach, Removable, Lives
  <2>3. CASE Unload(o)
    BY <2>3 DEF Unload, Removable, Lives
  <2> QED BY <1>2, <2>1, <2>2, <2>3 DEF ModCalls
<1>3. CASE BusCalls
  <2>1. CASE \E o \in Objs, e \in Events : SetEventEmitter(o, e)
    BY <2>1 DEF SetEventEmitter
  <2>2. CASE \E l \in Listeners, e \in Events : AddListener(l, e) \/ RemoveListener(l, e)
    BY <2>2 DEF AddListener, RemoveListener, ModOf
  <2>3. CASE \E l \in Listeners : RemoveListenerEverywhere(l)
    BY <2>3 DEF RemoveListenerEverywhere, Detach, ModOf
  <2> QED BY <1>3, <2>1, <2>2, <2>3 DEF BusCalls
<1>4. CASE Publications
  BY <1>4, PublishingIsApart DEF busVars
<1>5. CASE UNCHANGED vars
  BY <1>5 DEF vars, busVars
<1> QED BY <1>1, <1>2, <1>3, <1>4, <1>5 DEF Next

\* A load of o begins only when no other object of its name is alive.
LEMMA OneAliveInv ==
    ASSUME IInv, [Next]_vars
    PROVE  OneAlive'
<1> USE EventBusAssumption DEF IInv, RecordTypes, OneAlive, Alive
<1>1. CASE UNCHANGED life
  BY <1>1
<1>2. ASSUME NEW o \in Objs, LoadBegins(o)
      PROVE  OneAlive'
  BY <1>2 DEF LoadBegins
<1>3. ASSUME NEW o \in Objs,
             LoadEnds(o) \/ LoadFails(o) \/ Enable(o) \/ Disable(o) \/ Unload(o)
      PROVE  OneAlive'
  BY <1>3 DEF LoadEnds, LoadFails, Enable, Disable, Unload
<1> QED BY <1>1, <1>2, <1>3, PublishingIsApart DEF Next, SetStatus, ModCalls, BusCalls,
           SetEventEmitter, AddListener, RemoveListener, RemoveListenerEverywhere, vars

\* Each call keeps the three facts about attachments.
LEMMA AttachmentsInv ==
    ASSUME IInv, [Next]_vars
    PROVE  RecordsAgree' /\ ListenersFound' /\ OnlyFailedLoadsLeave'
<1> USE EventBusAssumption DEF IInv, RecordTypes
<1>1. CASE UNCHANGED <<life, busVars>>
  BY <1>1 DEF busVars, RecordsAgree, ListenersFound, OnlyFailedLoadsLeave, Alive, ModOf
<1>2. ASSUME NEW o \in Objs, LoadBegins(o) \/ LoadEnds(o) \/ Enable(o) \/ LoadFails(o)
      PROVE  RecordsAgree' /\ ListenersFound' /\ OnlyFailedLoadsLeave'
  <2>1. RecordsAgree'
    BY <1>2 DEF LoadBegins, LoadEnds, Enable, LoadFails, busVars, RecordsAgree
  <2>2. OnlyFailedLoadsLeave'
    BY <1>2 DEF LoadBegins, LoadEnds, Enable, LoadFails, busVars, OnlyFailedLoadsLeave, Alive
  <2>3. ListenersFound'
    BY <1>2 DEF LoadBegins, LoadEnds, Enable, LoadFails, busVars, OnlyFailedLoadsLeave,
       ListenersFound, Alive, ModOf
  <2> QED BY <2>1, <2>2, <2>3
<1>3. ASSUME NEW o \in Objs, Disable(o)
      PROVE  RecordsAgree' /\ ListenersFound' /\ OnlyFailedLoadsLeave'
  <2>1. PICK L \in SUBSET Listeners :
            /\ stream' = [e \in Events |-> stream[e] \ L]
            /\ attached' = [l \in Listeners |-> IF l \in L THEN {} ELSE attached[l]]
            /\ held' = [held EXCEPT ![NameOf[o]] = @ \ L]
    BY <1>3 DEF Disable, Detach, Removable
  <2>2. life[o] = "enabled" /\ life' = [life EXCEPT ![o] = "disabled"]
    BY <1>3 DEF Disable
  <2>3. RecordsAgree'
    BY <2>1 DEF RecordsAgree
  <2>4. ListenersFound'
    BY <2>1, <2>2 DEF ListenersFound, Alive, ModOf
  <2>5. OnlyFailedLoadsLeave'
    BY <2>1, <2>2 DEF OnlyFailedLoadsLeave, Alive
  <2> QED BY <2>3, <2>4, <2>5
<1>4. ASSUME NEW o \in Objs, Unload(o)
      PROVE  RecordsAgree' /\ ListenersFound' /\ OnlyFailedLoadsLeave'
  <2>1. PICK gone \in SUBSET Events, L \in SUBSET Listeners :
            /\ L = Removable(NameOf[o])
            /\ stream' = [e \in Events |-> IF e \in gone THEN {} ELSE stream[e] \ L]
            /\ attached' = [l \in Listeners |-> IF l \in L THEN {} ELSE attached[l] \ gone]
            /\ held' = [held EXCEPT ![NameOf[o]] = {}]
    <3>1. PICK gone, L : gone = {e \in Events : owner[e] = NameOf[o]} /\ L = Removable(NameOf[o])
      OBVIOUS
    <3>2. gone \in SUBSET Events /\ L \in SUBSET Listeners
      BY <3>1 DEF Removable
    <3> QED BY <1>4, <3>1, <3>2 DEF Unload
  <2>2. /\ life[o] = "disabled"
        /\ \E x \in {"unloaded", "disabled"} : life' = [life EXCEPT ![o] = x]
    BY <1>4 DEF Unload
  <2>3. RecordsAgree'
    BY <2>1 DEF RecordsAgree
  <2>4. ASSUME NEW l \in Listeners, attached'[l] # {}
        PROVE  attached[l] # {} /\ OwnerOf[l] # o
    <3>1. attached[l] # {} /\ l \notin L
      BY <2>1, <2>4
    <3>2. OwnerOf[l] = o => l \in L
      BY <2>1, <2>2, <3>1 DEF Removable, ListenersFound, Alive, ModOf
    <3> QED BY <3>1, <3>2
  <2>5. ListenersFound'
    <3> SUFFICES ASSUME NEW l \in Listeners, attached'[l] # {}, Alive(OwnerOf[l])'
                 PROVE  l \in held'[ModOf(l)]
      BY DEF ListenersFound, ModOf
    <3>1. attached[l] # {} /\ OwnerOf[l] # o
      BY <2>4
    <3>2. Alive(OwnerOf[l]) /\ Alive(o)
      BY <2>2, <3>1 DEF Alive
    <3>3. NameOf[OwnerOf[l]] # NameOf[o]
      BY <3>1, <3>2 DEF OneAlive
    <3> QED BY <2>1, <3>1, <3>2, <3>3 DEF ListenersFound, ModOf
  <2>6. OnlyFailedLoadsLeave'
    BY <2>2, <2>4 DEF OnlyFailedLoadsLeave, Alive
  <2> QED BY <2>3, <2>5, <2>6
<1>5. ASSUME NEW l \in Listeners, NEW e \in Events, AddListener(l, e)
      PROVE  RecordsAgree' /\ ListenersFound' /\ OnlyFailedLoadsLeave'
  <2>1. RecordsAgree'
    BY <1>5 DEF AddListener, RecordsAgree
  <2>2. ListenersFound'
    BY <1>5 DEF AddListener, ListenersFound, Alive, ModOf
  <2>3. OnlyFailedLoadsLeave'
    BY <1>5 DEF AddListener, OnlyFailedLoadsLeave, Alive
  <2> QED BY <2>1, <2>2, <2>3
<1>6. ASSUME NEW l \in Listeners, NEW e \in Events, RemoveListener(l, e)
      PROVE  RecordsAgree' /\ ListenersFound' /\ OnlyFailedLoadsLeave'
  <2>1. RecordsAgree'
    BY <1>6 DEF RemoveListener, RecordsAgree
  <2>2. ListenersFound'
    BY <1>6 DEF RemoveListener, ListenersFound, Alive, ModOf
  <2>3. OnlyFailedLoadsLeave'
    BY <1>6 DEF RemoveListener, OnlyFailedLoadsLeave, Alive
  <2> QED BY <2>1, <2>2, <2>3
<1>7. ASSUME NEW l \in Listeners, RemoveListenerEverywhere(l)
      PROVE  RecordsAgree' /\ ListenersFound' /\ OnlyFailedLoadsLeave'
  <2>1. RecordsAgree'
    BY <1>7 DEF RemoveListenerEverywhere, Detach, RecordsAgree
  <2>2. ListenersFound'
    BY <1>7 DEF RemoveListenerEverywhere, Detach, ListenersFound, Alive, ModOf
  <2>3. OnlyFailedLoadsLeave'
    BY <1>7 DEF RemoveListenerEverywhere, Detach, OnlyFailedLoadsLeave, Alive
  <2> QED BY <2>1, <2>2, <2>3
<1>8. ASSUME NEW o \in Objs, NEW e \in Events, SetEventEmitter(o, e)
      PROVE  RecordsAgree' /\ ListenersFound' /\ OnlyFailedLoadsLeave'
  BY <1>8 DEF SetEventEmitter, RecordsAgree, ListenersFound, OnlyFailedLoadsLeave, Alive, ModOf
<1>9. CASE SetStatus \/ Publications \/ UNCHANGED vars
  BY <1>1, <1>9, PublishingIsApart DEF SetStatus, vars, busVars
<1> QED BY <1>2, <1>3, <1>4, <1>5, <1>6, <1>7, <1>8, <1>9 DEF Next, ModCalls, BusCalls

\* IInv holds initially and is preserved, so it always holds.
THEOREM Invariance == Spec => []IInv
<1>1. IInv /\ [Next]_vars => IInv'
  BY TypesInv, OneAliveInv, AttachmentsInv DEF IInv
<1> QED BY InitIInv, <1>1, PTL DEF Spec

\* Streams and listenerInfos never disagree (removeListener, clearMod).
THEOREM RecordsAlwaysAgree == Spec => []RecordsAgree
<1>1. IInv => RecordsAgree
  BY DEF IInv
<1> QED BY Invariance, <1>1, PTL

\* modInfos names every listener a living mod has attached.
THEOREM ListenersAlwaysFound == Spec => []ListenersFound
<1>1. IInv => ListenersFound
  BY DEF IInv
<1> QED BY Invariance, <1>1, PTL

\* Only a failed load leaves listeners of a mod that is gone.
THEOREM OnlyFailedLoads == Spec => []OnlyFailedLoadsLeave
<1>1. IInv => OnlyFailedLoadsLeave
  BY DEF IInv
<1> QED BY Invariance, <1>1, PTL

\* A mod disabled while the game runs has no listener left.
THEOREM DisablingSilences == Spec => DisableSilences
<1>1. IInv /\ [Next]_vars => [Silences]_vars
  <2> SUFFICES ASSUME IInv, Next, NEW o \in Objs, NEW l \in Listeners,
                      life[o] = "enabled", life'[o] = "disabled", status = "Running",
                      OwnerOf[l] = o
               PROVE  attached'[l] = {}
    BY DEF Silences, vars
  <2> USE EventBusAssumption DEF IInv, RecordTypes
  <2>1. Disable(o)
    BY PublishingIsApart DEF Next, SetStatus, ModCalls, BusCalls, LoadBegins, LoadEnds,
       LoadFails, Enable, Disable, Unload, SetEventEmitter, AddListener, RemoveListener,
       RemoveListenerEverywhere
  <2>2. attached[l] # {} => l \in Removable(NameOf[o])
    BY DEF ListenersFound, Removable, Alive, ModOf
  <2> QED BY <2>1, <2>2 DEF Disable, Detach
<1> QED BY Invariance, <1>1, PTL DEF Spec, DisableSilences

-----------------------------------------------------------------------------
\* A publication that is under way still has to call those it has missed, and
\* nobody else, in the order of their ranks.
Increasing(todo) == \A i, j \in DOMAIN todo : i < j => Rank[todo[i]] < Rank[todo[j]]

PubInv ==
    /\ status \in {"Starting", "Running", "Stopping"}
    /\ pub \in [Threads -> [event : Events \cup {Nobody}, to : Names \cup {Everyone},
                            todo : Seq(Listeners), missed : SUBSET Listeners]]
    /\ \A t \in Threads : pub[t].missed = ToSet(pub[t].todo) /\ Increasing(pub[t].todo)

\* The copy of a stream has all its listeners, by rank.
LEMMA InOrderElements ==
    ASSUME NEW L \in SUBSET Listeners
    PROVE  /\ InOrder(L) \in Seq(Listeners) /\ ToSet(InOrder(L)) = L
           /\ Increasing(InOrder(L))
<1>1. IsFiniteSet(L)
  BY EventBusAssumption, FS_Subset
<1>2. \E s \in SetToSeqs(L) : \A i, j \in DOMAIN s : i < j => Rank[s[i]] < Rank[s[j]]
  BY <1>1, EventBusAssumption, OrderExists
<1>3. /\ InOrder(L) \in SetToSeqs(L)
      /\ \A i, j \in DOMAIN InOrder(L) : i < j => Rank[InOrder(L)[i]] < Rank[InOrder(L)[j]]
  BY <1>2 DEF InOrder
<1>4. InOrder(L) \in Seq(L) /\ ToSet(InOrder(L)) = L
  BY <1>1, <1>3, OrderedElements
<1>. QED BY <1>3, <1>4 DEF Increasing

\* When the first of an ordered list has had its turn, the others are left.
LEMMA NextInOrder ==
    ASSUME NEW q \in Seq(Listeners), q # <<>>, Increasing(q)
    PROVE  /\ Head(q) \in Listeners /\ Tail(q) \in Seq(Listeners)
           /\ Increasing(Tail(q)) /\ ToSet(Tail(q)) = ToSet(q) \ {Head(q)}
           /\ Head(q) \in ToSet(q) /\ \A l \in ToSet(q) : Rank[Head(q)] <= Rank[l]
<1>1. /\ Head(q) \in Listeners /\ Tail(q) \in Seq(Listeners)
      /\ ToSet(q) = ToSet(Tail(q)) \cup {Head(q)}
  BY TailElements
<1>2. /\ Len(q) \in Nat \ {0} /\ DOMAIN q = 1 .. Len(q) /\ Head(q) = q[1]
      /\ \A i \in 1 .. Len(q) : q[i] \in Listeners /\ Rank[q[i]] \in Nat
      /\ Len(Tail(q)) = Len(q) - 1 /\ DOMAIN Tail(q) = 1 .. Len(q) - 1
      /\ \A i \in 1 .. Len(q) - 1 : Tail(q)[i] = q[i + 1]
  BY EmptySeq, HeadTailProperties, EventBusAssumption
<1>. DEFINE r == Tail(q)
            h == Head(q)
<1>. HIDE DEF r, h
<1>3. Increasing(r)
  BY <1>2 DEF Increasing, r
<1>4. \A i \in 2 .. Len(q) : Rank[h] < Rank[q[i]]
  BY <1>2 DEF Increasing, h
<1>5. h \notin ToSet(r)
  <2>. SUFFICES ASSUME NEW i \in DOMAIN r, r[i] = h PROVE FALSE
    BY DEF ToSet
  <2>1. i + 1 \in 2 .. Len(q) /\ q[i + 1] = h
    BY <1>2 DEF r
  <2>2. Rank[h] < Rank[h] /\ Rank[h] \in Nat
    BY <1>2, <1>4, <2>1 DEF h
  <2>. QED BY <2>2
<1>6. \A l \in ToSet(q) : Rank[h] <= Rank[l]
  <2>. SUFFICES ASSUME NEW i \in DOMAIN q PROVE Rank[h] <= Rank[q[i]]
    BY DEF ToSet
  <2>. QED BY <1>2, <1>4 DEF h
<1>. QED BY <1>1, <1>3, <1>5, <1>6 DEF r, h

LEMMA NobodyLeft == ToSet(<<>>) = {} /\ Increasing(<<>>)
BY EmptySeq DEF ToSet, Increasing

LEMMA PubInit == Init => PubInv
<1>1. Idle.missed = {} /\ Idle.todo = <<>> /\ Idle.event = Nobody /\ Idle.to = Everyone
  BY DEF Idle
<1>2. Idle \in [event : Events \cup {Nobody}, to : Names \cup {Everyone},
                todo : Seq(Listeners), missed : SUBSET Listeners]
  BY EmptySeq DEF Idle
<1>3. Idle.missed = ToSet(Idle.todo) /\ Increasing(Idle.todo)
  BY <1>1, NobodyLeft
<1>. HIDE DEF Idle
<1>. QED BY <1>2, <1>3 DEF Init, PubInv

LEMMA PubStep ==
    ASSUME IInv, PubInv, [Next]_vars
    PROVE  PubInv'
<1>. DEFINE Pubs == [event : Events \cup {Nobody}, to : Names \cup {Everyone},
                     todo : Seq(Listeners), missed : SUBSET Listeners]
            Good(p) == p \in Pubs /\ p.missed = ToSet(p.todo) /\ Increasing(p.todo)
<1>0. /\ status \in {"Starting", "Running", "Stopping"} /\ pub \in [Threads -> Pubs]
      /\ \A t \in Threads : Good(pub[t])
  BY DEF PubInv
<1>1. Good(Idle)
  <2>1. Idle.missed = {} /\ Idle.todo = <<>>
    BY DEF Idle
  <2>2. Idle \in Pubs
    BY EmptySeq DEF Idle
  <2>. QED BY <2>1, <2>2, NobodyLeft
<1>2. ASSUME NEW t \in Threads, NEW p, Good(p), pub' = [pub EXCEPT ![t] = p], UNCHANGED status
      PROVE  PubInv'
  BY <1>0, <1>2 DEF PubInv
<1>3. ASSUME UNCHANGED pub, status' \in {"Starting", "Running", "Stopping"}
      PROVE  PubInv'
  BY <1>0, <1>3 DEF PubInv
<1>4. CASE SetStatus
  BY <1>3, <1>4 DEF SetStatus
<1>5. ASSUME NEW o \in Objs, ModCalls(o) PROVE PubInv'
  BY <1>0, <1>3, <1>5 DEF ModCalls, LoadBegins, LoadEnds, LoadFails, Enable, Disable, Unload
<1>6. CASE BusCalls
  BY <1>0, <1>3, <1>6 DEF BusCalls, SetEventEmitter, AddListener, RemoveListener, RemoveListenerEverywhere
<1>7. ASSUME NEW t \in Threads, NEW e \in Events, NEW to \in Names \cup {Everyone}, Publish(t, e, to)
      PROVE  PubInv'
  <2>. DEFINE p == [event |-> e, to |-> to, missed |-> stream[e], todo |-> InOrder(stream[e])]
  <2>1. stream[e] \in SUBSET Listeners
    BY DEF IInv, RecordTypes
  <2>2. /\ InOrder(stream[e]) \in Seq(Listeners) /\ ToSet(InOrder(stream[e])) = stream[e]
        /\ Increasing(InOrder(stream[e]))
    BY <2>1, InOrderElements
  <2>3. p.missed = ToSet(p.todo) /\ p \in Pubs /\ Increasing(p.todo)
    BY <2>1, <2>2
  <2>. QED BY <1>2, <1>7, <2>3 DEF Publish
<1>8. ASSUME NEW t \in Threads, Call(t) PROVE PubInv'
  <2>. DEFINE p == pub[t]
              q == [p EXCEPT !.todo = Tail(p.todo), !.missed = p.missed \ {Head(p.todo)}]
  <2>1. /\ p \in Pubs /\ p.missed = ToSet(p.todo) /\ p.todo # <<>>
        /\ p.todo \in Seq(Listeners) /\ Increasing(p.todo)
    BY <1>0, <1>8 DEF Call
  <2>2. /\ Head(p.todo) \in Listeners /\ Tail(p.todo) \in Seq(Listeners)
        /\ Increasing(Tail(p.todo)) /\ ToSet(Tail(p.todo)) = ToSet(p.todo) \ {Head(p.todo)}
    BY <2>1, NextInOrder
  <2>3. q \in Pubs /\ q.todo = Tail(p.todo) /\ q.missed = p.missed \ {Head(p.todo)}
    BY <2>1, <2>2
  <2>4. Good(q)
    BY <2>1, <2>2, <2>3
  <2>5. /\ UNCHANGED status
        /\ pub' = [pub EXCEPT ![t] = q] \/ pub' = [pub EXCEPT ![t] = Idle]
    BY <1>8 DEF Call
  <2>. HIDE DEF q, Good
  <2>. QED BY <1>1, <1>2, <2>4, <2>5
<1>9. ASSUME NEW t \in Threads, PublishEnds(t) PROVE PubInv'
  <2>. HIDE DEF Good
  <2>. QED BY <1>1, <1>2, <1>9 DEF PublishEnds
<1>10. CASE UNCHANGED vars
  BY <1>0, <1>3, <1>10 DEF vars
<1>. QED BY <1>4, <1>5, <1>6, <1>7, <1>8, <1>9, <1>10 DEF Next, Publications

LEMMA PubInvariance == Spec => []PubInv
<1>1. IInv /\ PubInv /\ [Next]_vars => PubInv'
  BY PubStep
<1>. QED BY <1>1, PubInit, Invariance, PTL DEF Spec

\* The bus keeps its tables, and the publications that run, in their types.
THEOREM BusTypeCorrect == Spec => []TypeOK
<1>1. IInv /\ PubInv => TypeOK
  BY DEF IInv, RecordTypes, PubInv, TypeOK
<1>. QED BY <1>1, Invariance, PubInvariance, PTL

\* A publication that nobody cancels comes to everyone who listened when it
\* began, once and in the order of their ranks, whatever is attached and removed
\* while it runs.
THEOREM DeliversToAll == Spec => []Delivers
<1>1. PubInv => Delivers
  <2>. SUFFICES ASSUME PubInv, NEW t \in Threads
                PROVE  IF pub[t].todo = <<>> THEN pub[t].missed = {}
                       ELSE /\ Head(pub[t].todo) \in pub[t].missed
                            /\ \A l \in pub[t].missed : Rank[Head(pub[t].todo)] <= Rank[l]
    BY DEF Delivers
  <2>1. /\ pub[t].todo \in Seq(Listeners) /\ pub[t].missed = ToSet(pub[t].todo)
        /\ Increasing(pub[t].todo)
    BY DEF PubInv
  <2>. QED BY <2>1, NextInOrder, NobodyLeft
<1>. QED BY <1>1, PubInvariance, PTL

-----------------------------------------------------------------------------
\* CommandHandle: parameters are withdrawn once, and not while they are listed.
WithdrawnOnce == \A i, j \in DOMAIN withdrawn : withdrawn[i] = withdrawn[j] => i = j

CommandInv == CommandTypeOK /\ OverloadsAgree /\ WithdrawnOnce

Overload == [params : Params, alloc : Objs]

\* What the parts of OverloadsAgree say of any tables.
Agree(sig, out, known) ==
    /\ sig \in Seq(Overload) /\ out \in Seq(Params) /\ known \subseteq [mod : Objs, params : Params]
    /\ \A i, j \in DOMAIN sig : sig[i].params = sig[j].params => i = j
    /\ \A i, j \in DOMAIN out : out[i] = out[j] => i = j
    /\ \A s \in ToSet(sig) : s.params \notin ToSet(out) /\ [mod |-> s.alloc, params |-> s.params] \in known

LEMMA AgreeMeans ==
    ASSUME available \in BOOLEAN
    PROVE  CommandInv <=> Agree(signature, withdrawn, overloads)
BY DEF CommandInv, CommandTypeOK, OverloadsAgree, WithdrawnOnce, Agree, Overload

LEMMA AgreeMeansAfter ==
    ASSUME available' \in BOOLEAN, NEW sig, NEW out, NEW known, Agree(sig, out, known),
           signature' = sig, withdrawn' = out, overloads' = known
    PROVE  CommandInv'
BY DEF CommandInv, CommandTypeOK, OverloadsAgree, WithdrawnOnce, Agree, Overload

\* What is selected by params from a list that has each once.
LEMMA ParamsOnce ==
    ASSUME NEW q \in Seq(Params), \A i, j \in DOMAIN q : q[i] = q[j] => i = j, NEW T
    PROVE  /\ Selected(q, T) \in Seq(Params)
           /\ \A i, j \in DOMAIN Selected(q, T) : Selected(q, T)[i] = Selected(q, T)[j] => i = j
           /\ ToSet(Selected(q, T)) = ToSet(q) \cap T
<1>. DEFINE g == [p \in Params |-> p]
<1>1. Selected(q, T) \in Seq(Params) /\ ToSet(Selected(q, T)) = ToSet(q) \cap T
  BY SelectedElements
<1>2. \A i \in DOMAIN q : q[i] \in Params /\ g[q[i]] = q[i]
  OBVIOUS
<1>3. \A i, j \in DOMAIN q : g[q[i]] = g[q[j]] => i = j
  BY <1>2
<1>4. \A i \in DOMAIN Selected(q, T) : Selected(q, T)[i] \in Params /\ g[Selected(q, T)[i]] = Selected(q, T)[i]
  BY <1>1
<1>. HIDE DEF g
<1>5. \A i, j \in DOMAIN Selected(q, T) : g[Selected(q, T)[i]] = g[Selected(q, T)[j]] => i = j
  BY <1>3, SelectedKeepsKeys
<1>. QED BY <1>1, <1>4, <1>5

LEMMA OverloadsOnce ==
    ASSUME NEW q \in Seq(Overload), \A i, j \in DOMAIN q : q[i].params = q[j].params => i = j, NEW T
    PROVE  /\ Selected(q, T) \in Seq(Overload)
           /\ \A i, j \in DOMAIN Selected(q, T) : Selected(q, T)[i].params = Selected(q, T)[j].params => i = j
           /\ ToSet(Selected(q, T)) = ToSet(q) \cap T
<1>. DEFINE g == [s \in Overload |-> s.params]
<1>1. Selected(q, T) \in Seq(Overload) /\ ToSet(Selected(q, T)) = ToSet(q) \cap T
  BY SelectedElements
<1>2. \A i \in DOMAIN q : q[i] \in Overload /\ g[q[i]] = q[i].params
  OBVIOUS
<1>3. \A i, j \in DOMAIN q : g[q[i]] = g[q[j]] => i = j
  BY <1>2
<1>4. \A i \in DOMAIN Selected(q, T) : Selected(q, T)[i] \in Overload
                                      /\ g[Selected(q, T)[i]] = Selected(q, T)[i].params
  BY <1>1
<1>. HIDE DEF g
<1>5. \A i, j \in DOMAIN Selected(q, T) : g[Selected(q, T)[i]] = g[Selected(q, T)[j]] => i = j
  BY <1>3, SelectedKeepsKeys
<1>. QED BY <1>1, <1>4, <1>5

LEMMA Elements ==
    ASSUME NEW S, NEW q \in Seq(S), NEW r \in Seq(S)
    PROVE  /\ q \o r \in Seq(S) /\ Len(q) \in Nat
           /\ \A i \in DOMAIN (q \o r) :
                 \/ i \in DOMAIN q /\ (q \o r)[i] = q[i]
                 \/ \E k \in DOMAIN r : i = Len(q) + k /\ (q \o r)[i] = r[k]
           /\ ToSet(q \o r) = ToSet(q) \cup ToSet(r)
<1>. DEFINE z == q \o r
<1>1. /\ z \in Seq(S) /\ Len(z) = Len(q) + Len(r) /\ Len(q) \in Nat /\ Len(r) \in Nat
      /\ DOMAIN q = 1 .. Len(q) /\ DOMAIN r = 1 .. Len(r)
  BY ConcatProperties
<1>2. DOMAIN z = 1 .. Len(q) + Len(r)
  BY <1>1
<1>3. \A i \in 1 .. Len(q) + Len(r) : z[i] = IF i <= Len(q) THEN q[i] ELSE r[i - Len(q)]
  BY ConcatProperties
<1>. HIDE DEF z
<1>4. ASSUME NEW i \in DOMAIN z
      PROVE  \/ i \in DOMAIN q /\ z[i] = q[i]
             \/ \E k \in DOMAIN r : i = Len(q) + k /\ z[i] = r[k]
  <2>1. CASE i <= Len(q)
    BY <1>1, <1>2, <1>3, <2>1
  <2>2. CASE ~ (i <= Len(q))
    <3>1. i - Len(q) \in DOMAIN r /\ i = Len(q) + (i - Len(q)) /\ z[i] = r[i - Len(q)]
      BY <1>1, <1>2, <1>3, <2>2
    <3>. QED BY <3>1
  <2>. QED BY <2>1, <2>2
<1>5. \A i \in DOMAIN q : i \in DOMAIN z /\ z[i] = q[i]
  BY <1>1, <1>2, <1>3
<1>6. \A i \in DOMAIN r : i + Len(q) \in DOMAIN z /\ z[i + Len(q)] = r[i]
  BY <1>1, <1>2, <1>3
<1>7. ToSet(z) = ToSet(q) \cup ToSet(r)
  BY <1>4, <1>5, <1>6 DEF ToSet
<1>. QED BY <1>1, <1>4, <1>7 DEF z

\* One more overload, of parameters that are in neither table.
LEMMA AgreeAppend ==
    ASSUME NEW sig, NEW out, NEW known, Agree(sig, out, known),
           NEW new \in Overload, [mod |-> new.alloc, params |-> new.params] \in known,
           new.params \notin ToSet(out), \A s \in ToSet(sig) : s.params # new.params
    PROVE  Agree(Append(sig, new), out, known)
<1>0. sig \in Seq(Overload)
  BY DEF Agree
<1>. DEFINE q == Append(sig, new)
<1>1. q \in Seq(Overload) /\ ToSet(q) = ToSet(sig) \cup {new}
  <2>. HIDE DEF Overload
  <2>. QED BY <1>0, AppendElements
<1>2. \A i \in DOMAIN q : (i \in DOMAIN sig /\ q[i] = sig[i]) \/ (i = Len(sig) + 1 /\ q[i] = new)
  BY <1>0
<1>3. \A i \in DOMAIN sig : sig[i] \in ToSet(sig)
  BY DEF ToSet
<1>. HIDE DEF q
<1>4. \A i, j \in DOMAIN q : q[i].params = q[j].params => i = j
  BY <1>2, <1>3 DEF Agree
<1>5. Agree(q, out, known)
  BY <1>1, <1>4 DEF Agree
<1>. QED BY <1>5 DEF q

\* The overload with these parameters is made by another mod.
LEMMA AgreeReplace ==
    ASSUME NEW sig, NEW out, NEW known, Agree(sig, out, known),
           NEW new \in Overload, [mod |-> new.alloc, params |-> new.params] \in known,
           NEW k \in DOMAIN sig, sig[k].params = new.params
    PROVE  Agree([sig EXCEPT ![k] = new], out, known)
<1>. DEFINE q == [sig EXCEPT ![k] = new]
<1>0. sig \in Seq(Overload) /\ DOMAIN q = DOMAIN sig
  BY DEF Agree
<1>1. q \in Seq(Overload)
  BY <1>0
<1>2. \A i \in DOMAIN q : (i = k /\ q[i] = new) \/ (i # k /\ q[i] = sig[i])
  OBVIOUS
<1>3. \A i \in DOMAIN sig : sig[i] \in ToSet(sig)
  BY DEF ToSet
<1>. HIDE DEF q
<1>4. \A i, j \in DOMAIN q : q[i].params = q[j].params => i = j
  BY <1>0, <1>2 DEF Agree
<1>5. \A s \in ToSet(q) : s = new \/ s \in ToSet(sig)
  BY <1>0, <1>2 DEF ToSet
<1>6. new.params \notin ToSet(out)
  BY <1>3 DEF Agree
<1>7. Agree(q, out, known)
  BY <1>1, <1>4, <1>5, <1>6 DEF Agree
<1>. QED BY <1>7 DEF q

LEMMA RegisterAgrees ==
    ASSUME CommandInv, NEW o \in Objs, NEW p \in Params, RegisterOverload(o, p)
    PROVE  CommandInv'
<1>. DEFINE new == [params |-> p, alloc |-> o]
            found == {i \in DOMAIN signature : signature[i].params = p}
            back == Selected(withdrawn, {p})
            known == overloads \cup {[mod |-> o, params |-> p]}
            kept == Selected(withdrawn, Params \ {p})
<1>1. /\ available \in BOOLEAN /\ available' \in BOOLEAN
      /\ overloads' = known /\ withdrawn' = kept
      /\ signature' = IF back # <<>> THEN signature \o [i \in DOMAIN back |-> new]
                      ELSE IF found # {} THEN [signature EXCEPT ![Min(found)] = new]
                      ELSE Append(signature, new)
  BY Zenon DEF RegisterOverload, CommandInv, CommandTypeOK
<1>2. Agree(signature, withdrawn, overloads)
  BY <1>1, AgreeMeans
<1>3. /\ signature \in Seq(Overload) /\ withdrawn \in Seq(Params)
      /\ \A i, j \in DOMAIN withdrawn : withdrawn[i] = withdrawn[j] => i = j
  BY <1>2 DEF Agree
<1>4. /\ back \in Seq(Params) /\ ToSet(back) = ToSet(withdrawn) \cap {p}
      /\ \A i, j \in DOMAIN back : back[i] = back[j] => i = j
      /\ kept \in Seq(Params) /\ ToSet(kept) = ToSet(withdrawn) \cap (Params \ {p})
      /\ \A i, j \in DOMAIN kept : kept[i] = kept[j] => i = j
  BY <1>3, ParamsOnce
<1>5. /\ new \in Overload /\ new.params = p /\ new.alloc = o /\ p \notin ToSet(kept)
      /\ [mod |-> new.alloc, params |-> new.params] \in known
  BY <1>4 DEF Overload
<1>. HIDE DEF back, kept, new
<1>6. Agree(signature, kept, known)
  BY <1>2, <1>4 DEF Agree
<1>7. CASE back # <<>>
  <2>1. /\ Len(back) \in Nat \ {0} /\ DOMAIN back = 1 .. Len(back)
    BY <1>4, <1>7, EmptySeq
  <2>2. \A i \in DOMAIN back : back[i] \in ToSet(back)
    BY DEF ToSet
  <2>3. \A i \in DOMAIN back : back[i] = p /\ p \in ToSet(withdrawn)
    BY <1>4, <2>2
  <2>4. 1 \in DOMAIN back /\ (Len(back) > 1 => 2 \in DOMAIN back)
    BY <2>1
  <2>5. Len(back) = 1
    BY <1>4, <2>1, <2>3, <2>4
  <2>6. DOMAIN back = 1 .. 1
    BY <2>1, <2>5
  <2>7. [i \in DOMAIN back |-> new] = <<new>>
    BY <2>6
  <2>8. signature \o <<new>> = Append(signature, new)
    BY <1>3, <1>5
  <2>9. \A s \in ToSet(signature) : s.params # new.params
    BY <1>2, <1>5, <2>3, <2>4 DEF Agree
  <2>10. Agree(Append(signature, new), kept, known)
    BY <1>5, <1>6, <2>9, AgreeAppend
  <2>. QED BY <1>1, <1>7, <2>7, <2>8, <2>10, AgreeMeansAfter
<1>8. CASE back = <<>> /\ found # {}
  <2>1. found \in SUBSET Nat
    BY <1>3
  <2>2. \E m \in found : \A k \in found : m <= k
    BY <1>8, <2>1, LeastNumber
  <2>3. Min(found) \in found
    BY <2>2 DEF Min
  <2>4. Min(found) \in DOMAIN signature /\ signature[Min(found)].params = new.params
    BY <1>5, <2>3
  <2>5. Agree([signature EXCEPT ![Min(found)] = new], kept, known)
    BY <1>5, <1>6, <2>4, AgreeReplace
  <2>. QED BY <1>1, <1>8, <2>5, AgreeMeansAfter
<1>9. CASE back = <<>> /\ found = {}
  <2>1. \A s \in ToSet(signature) : s.params # new.params
    BY <1>5, <1>9 DEF ToSet
  <2>2. Agree(Append(signature, new), kept, known)
    BY <1>5, <1>6, <2>1, AgreeAppend
  <2>. QED BY <1>1, <1>9, <2>2, AgreeMeansAfter
<1>. QED BY <1>7, <1>8, <1>9

LEMMA WithdrawalAgrees ==
    ASSUME CommandInv, NEW n, DisableModOverloads(n), UNCHANGED available
    PROVE  CommandInv'
<1>. DEFINE gone == {d \in overloads : ~ Alive(d.mod) \/ NameOf[d.mod] = n}
            goes == {s \in ToSet(signature) : \E d \in gone : d.params = s.params}
            out == Selected(signature, goes)
            stays == Selected(signature, ToSet(signature) \ goes)
            params == [i \in DOMAIN out |-> out[i].params]
<1>1. /\ available \in BOOLEAN /\ available' \in BOOLEAN
      /\ overloads' = overloads \ gone /\ signature' = stays /\ withdrawn' = withdrawn \o params
  BY DEF DisableModOverloads, CommandInv, CommandTypeOK
<1>2. Agree(signature, withdrawn, overloads)
  BY <1>1, AgreeMeans
<1>3. /\ signature \in Seq(Overload) /\ withdrawn \in Seq(Params)
      /\ \A i, j \in DOMAIN signature : signature[i].params = signature[j].params => i = j
      /\ overloads \subseteq [mod : Objs, params : Params]
      /\ \A s \in ToSet(signature) : s.params \notin ToSet(withdrawn)
                                    /\ [mod |-> s.alloc, params |-> s.params] \in overloads
      /\ \A i, j \in DOMAIN withdrawn : withdrawn[i] = withdrawn[j] => i = j
  BY <1>2 DEF Agree
<1>4. /\ out \in Seq(Overload) /\ ToSet(out) = ToSet(signature) \cap goes
      /\ \A i, j \in DOMAIN out : out[i].params = out[j].params => i = j
      /\ stays \in Seq(Overload) /\ ToSet(stays) = ToSet(signature) \cap (ToSet(signature) \ goes)
      /\ \A i, j \in DOMAIN stays : stays[i].params = stays[j].params => i = j
  <2>. HIDE DEF goes
  <2>. QED BY <1>3, OverloadsOnce
<1>. HIDE DEF out, stays
<1>5. params \in Seq(Params) /\ DOMAIN params = DOMAIN out /\ \A i \in DOMAIN out : params[i] = out[i].params
  <2>1. DOMAIN out = 1 .. Len(out) /\ Len(out) \in Nat /\ \A i \in DOMAIN out : out[i] \in Overload
    BY <1>4
  <2>2. \A i \in DOMAIN out : out[i].params \in Params
    BY <2>1 DEF Overload
  <2>. QED BY <2>1, <2>2
<1>6. \A i \in DOMAIN out : out[i] \in ToSet(signature) /\ out[i] \in goes
  <2>1. \A i \in DOMAIN out : out[i] \in ToSet(out)
    BY DEF ToSet
  <2>. QED BY <1>4, <2>1
<1>. HIDE DEF params
<1>. DEFINE w == withdrawn \o params
<1>7. /\ w \in Seq(Params)
      /\ \A i \in DOMAIN w :
            \/ i \in DOMAIN withdrawn /\ w[i] = withdrawn[i]
            \/ \E k \in DOMAIN params : i = Len(withdrawn) + k /\ w[i] = params[k]
      /\ ToSet(w) = ToSet(withdrawn) \cup ToSet(params)
  BY <1>3, <1>5, Elements
<1>. HIDE DEF w
<1>8. \A i \in DOMAIN withdrawn, k \in DOMAIN params : withdrawn[i] # params[k]
  <2>1. \A i \in DOMAIN withdrawn : withdrawn[i] \in ToSet(withdrawn)
    BY DEF ToSet
  <2>2. \A k \in DOMAIN params : params[k] \notin ToSet(withdrawn)
    BY <1>3, <1>5, <1>6
  <2>. QED BY <2>1, <2>2
<1>9. ASSUME NEW i \in DOMAIN w, NEW j \in DOMAIN w, w[i] = w[j]
      PROVE  i = j
  <2>. HIDE DEF gone, goes
  <2>1. CASE i \in DOMAIN withdrawn /\ w[i] = withdrawn[i]
    <3>1. j \in DOMAIN withdrawn /\ w[j] = withdrawn[j]
      BY <1>7, <1>8, <1>9, <2>1
    <3>. QED BY <1>3, <1>9, <2>1, <3>1
  <2>2. ASSUME NEW k \in DOMAIN params, i = Len(withdrawn) + k, w[i] = params[k]
        PROVE  i = j
    <3>1. PICK m \in DOMAIN params : j = Len(withdrawn) + m /\ w[j] = params[m]
      BY <1>7, <1>8, <1>9, <2>2
    <3>2. k = m
      BY <1>4, <1>5, <1>9, <2>2, <3>1
    <3>. QED BY <2>2, <3>1, <3>2
  <2>. QED BY <1>7, <2>1, <2>2
<1>10. ASSUME NEW s \in ToSet(stays)
       PROVE  s.params \notin ToSet(w) /\ [mod |-> s.alloc, params |-> s.params] \in overloads \ gone
  <2>1. s \in ToSet(signature) /\ s \notin goes
    BY <1>4
  <2>2. s.params \notin ToSet(params)
    BY <1>5, <1>6, <2>1 DEF ToSet
  <2>3. [mod |-> s.alloc, params |-> s.params] \notin gone
    BY <2>1
  <2>. QED BY <1>3, <1>7, <2>1, <2>2, <2>3
<1>11. Agree(stays, w, overloads \ gone)
  BY <1>3, <1>4, <1>7, <1>9, <1>10 DEF Agree
<1>. QED BY <1>1, <1>11, AgreeMeansAfter DEF w

LEMMA CommandStep ==
    ASSUME CommandInv, [CommandNext]_<<vars, commandVars>>
    PROVE  CommandInv'
<1>1. ASSUME UNCHANGED handleVars, available' = available
      PROVE  CommandInv'
  BY <1>1, Zenon DEF handleVars, CommandInv, CommandTypeOK, OverloadsAgree, WithdrawnOnce
<1>2. UNCHANGED commandVars => CommandInv'
  BY <1>1 DEF commandVars
<1>3. ASSUME NEW up \in BOOLEAN, Clear(up) PROVE CommandInv'
  <2>1. Agree(<<>>, <<>>, {})
    BY EmptySeq DEF Agree, ToSet
  <2>2. /\ available' = up /\ overloads' = {} /\ signature' = <<>> /\ withdrawn' = <<>>
    BY <1>3 DEF Clear
  <2>3. available' \in BOOLEAN
    BY <2>2, Zenon
  <2>. QED BY <2>1, <2>2, <2>3, AgreeMeansAfter
<1>4. ASSUME NEW o \in Objs, DisableWithCommands(o) \/ DisableRefused(o) PROVE CommandInv'
  <2>1. WhenDisabled(o)
    BY <1>4 DEF DisableWithCommands, DisableRefused
  <2>. QED BY <1>1, <2>1, WithdrawalAgrees DEF WhenDisabled
<1>5. ASSUME NEW o \in Objs, NEW p \in Params, RegisterOverload(o, p) PROVE CommandInv'
  BY <1>5, RegisterAgrees
<1>. QED BY <1>2, <1>3, <1>4, <1>5 DEF CommandNext

\* However mods with the same parameters register, are disabled and come back:
\* the game lists parameters once and not while they are withdrawn, and every
\* factory it may call is on record for its mod.
THEOREM OverloadsAlwaysAgree == CommandSpec => []OverloadsAgree
<1>1. CommandInit => CommandInv
  <2>. SUFFICES ASSUME CommandInit PROVE CommandInv
    OBVIOUS
  <2>1. Agree(<<>>, <<>>, {})
    BY EmptySeq DEF Agree, ToSet
  <2>2. available \in BOOLEAN
    BY Zenon DEF CommandInit
  <2>. QED BY <2>1, <2>2, AgreeMeans DEF CommandInit
<1>2. CommandInv /\ [CommandNext]_<<vars, commandVars>> => CommandInv'
  BY CommandStep
<1>3. CommandInv => OverloadsAgree
  BY DEF CommandInv
<1>. QED BY <1>1, <1>2, <1>3, PTL DEF CommandSpec

-----------------------------------------------------------------------------
(***************************************************************************)
(* Services, for any services, subscribers, threads and depth of calls.    *)
(* StackFits says what the calls that are under way know of each other; it *)
(* is stated of any stacks, tables and views, so that a step can be taken  *)
(* in parts: a call goes on, and another one begins.                       *)
(***************************************************************************)
Locking == {"register", "unregister", "unregisterMod"}

FrameFits(f) ==
    /\ f \in Frames
    /\ f.op \in Publishing => f.it \in Services /\ f.to \in Seq(Subs) /\ f.todo \in Seq(Subs)
    /\ f.op = "unregisterMod" => f.it \in ServiceMods /\ f.todo \in Seq(Services)
    /\ f.op \in {"subscribe", "subscribed"} => f.it \in Subs

Removes(f, s) == f.op = "unregister" /\ f.it = s

FramesFit(st) ==
    /\ st \in [Callers -> Seq(Frames)]
    /\ \A t \in Callers : \A k \in DOMAIN st[t] : FrameFits(st[t][k])

\* The mutex is one thread's.
OneLocks(st) ==
    \A t, u \in Callers : \A j \in DOMAIN st[t], k \in DOMAIN st[u] :
        st[t][j].op \in Locking /\ st[u][k].op \in Locking => t = u

\* A service that is being removed is there still, and nobody else removes it.
RemovedOnce(st, known) ==
    /\ \A t \in Callers : \A j, k \in DOMAIN st[t], s \in Services :
          Removes(st[t][j], s) /\ Removes(st[t][k], s) => j = k
    /\ \A t \in Callers : \A k \in DOMAIN st[t], s \in Services :
          Removes(st[t][k], s) => s \in known

\* So it is not registered meanwhile, and no removal of a mod comes to its id.
NotAddedMeanwhile(st) ==
    \A t \in Callers : \A j, k \in DOMAIN st[t], s \in Services :
        j < k /\ Removes(st[t][j], s) => ~ (st[t][k].op = "register" /\ st[t][k].it = s)
ModRemovesOthers(st) ==
    \A t \in Callers : \A j, k \in DOMAIN st[t], s \in Services :
        j < k /\ Removes(st[t][j], s) /\ st[t][k].op = "unregisterMod" =>
            \A u \in ToSet(st[t][k].todo) : ~ SameId(u, s)

\* Only who listens is told, and whoever was told of a removal has forgotten.
CopiesListen(st, ls) ==
    \A t \in Callers : \A k \in DOMAIN st[t] :
        st[t][k].op \in Publishing => ToSet(st[t][k].to) \subseteq ToSet(ls[st[t][k].op])
ToldSoFar(st, vw) ==
    \A t \in Callers : \A k \in DOMAIN st[t], s \in Services : Removes(st[t][k], s) =>
        \A b \in ToSet(st[t][k].to) : vw[b] = s => b \in ToSet(st[t][k].todo)

StackFits(st, known, ls, vw) ==
    /\ FramesFit(st) /\ OneLocks(st) /\ RemovedOnce(st, known) /\ NotAddedMeanwhile(st)
    /\ ModRemovesOthers(st) /\ CopiesListen(st, ls) /\ ToldSoFar(st, vw)

ServiceInv ==
    /\ ServiceTypeOK /\ TablesAgree
    /\ StackFits(stack, services, listening, view)

-----------------------------------------------------------------------------
\* A frame goes on: it has less to do, of the same.
Follows(g, f) ==
    /\ FrameFits(g) /\ g.it = f.it /\ g.to = f.to /\ ToSet(g.todo) \subseteq ToSet(f.todo)
    /\ g.op = f.op \/ {g.op, f.op} \subseteq {"subscribe", "subscribed"}

\* Every call of st2 is one of st that goes on, removes what is known, and has
\* told those who have forgotten.
GoesOn(st2, st, known2, vw2, vw) ==
    /\ st2 \in [Callers -> Seq(Frames)]
    /\ \A t \in Callers : \A k \in DOMAIN st2[t] : k \in DOMAIN st[t] /\ Follows(st2[t][k], st[t][k])
    /\ \A t \in Callers : \A k \in DOMAIN st2[t], s \in Services :
          Removes(st2[t][k], s) => s \in known2
    /\ \A t \in Callers : \A k \in DOMAIN st2[t], s \in Services : Removes(st2[t][k], s) =>
          \A b \in ToSet(st2[t][k].to) : vw2[b] = s =>
              vw[b] = s /\ (b \in ToSet(st[t][k].todo) => b \in ToSet(st2[t][k].todo))
MoreListen(ls, ls2) == \A e \in Publishing : ToSet(ls[e]) \subseteq ToSet(ls2[e])

LEMMA CallsGoOn ==
  ASSUME NEW st, NEW known, NEW ls, NEW vw, StackFits(st, known, ls, vw),
         NEW st2, NEW known2, NEW ls2, NEW vw2,
         GoesOn(st2, st, known2, vw2, vw), MoreListen(ls, ls2)
  PROVE  StackFits(st2, known2, ls2, vw2)
<1>. USE DEF StackFits, GoesOn
<1>1. FramesFit(st2)
  BY DEF FramesFit, Follows
<1>2. OneLocks(st2)
  BY DEF OneLocks, Follows, Locking
<1>r. ASSUME NEW t \in Callers, NEW k \in DOMAIN st2[t], NEW s, Removes(st2[t][k], s)
      PROVE  k \in DOMAIN st[t] /\ Removes(st[t][k], s)
  BY <1>r DEF Follows, Removes
<1>3. RemovedOnce(st2, known2)
  BY <1>r DEF RemovedOnce
<1>4. NotAddedMeanwhile(st2)
  BY <1>r DEF NotAddedMeanwhile, Follows
<1>5. ModRemovesOthers(st2)
  BY <1>r DEF ModRemovesOthers, Follows
<1>6. CopiesListen(st2, ls2)
  BY DEF CopiesListen, Follows, Publishing, MoreListen
<1>7. ToldSoFar(st2, vw2)
  BY <1>r DEF ToldSoFar, Follows
<1>. QED BY <1>1, <1>2, <1>3, <1>4, <1>5, <1>6, <1>7

\* A call begins.
LEMMA CallBegins ==
  ASSUME NEW st, NEW known, NEW ls, NEW vw, StackFits(st, known, ls, vw),
         NEW t \in Callers, NEW f, FrameFits(f),
         f.op \in Locking => \A u \in Callers \ {t} : \A k \in DOMAIN st[u] : st[u][k].op \notin Locking,
         \A s \in Services : Removes(f, s) => s \in known,
         \A s \in Services : Removes(f, s) \/ (f.op = "register" /\ f.it = s) =>
             \A k \in DOMAIN st[t] : ~ Removes(st[t][k], s),
         f.op = "unregisterMod" => \A k \in DOMAIN st[t], s \in Services :
             Removes(st[t][k], s) => \A u \in ToSet(f.todo) : ~ SameId(u, s),
         f.op \in Publishing => f.todo = f.to /\ ToSet(f.to) \subseteq ToSet(ls[f.op])
  PROVE  StackFits([st EXCEPT ![t] = Append(@, f)], known, ls, vw)
<1>. DEFINE st2 == [st EXCEPT ![t] = Append(@, f)]
            n == Len(st[t]) + 1
<1>0. FramesFit(st) /\ OneLocks(st) /\ RemovedOnce(st, known) /\ NotAddedMeanwhile(st)
      /\ ModRemovesOthers(st) /\ CopiesListen(st, ls) /\ ToldSoFar(st, vw)
  BY DEF StackFits
<1>1. st \in [Callers -> Seq(Frames)] /\ f \in Frames /\ st[t] \in Seq(Frames)
  BY <1>0 DEF FramesFit, FrameFits
<1>2. st2 \in [Callers -> Seq(Frames)]
  BY <1>1
<1>3. n \in Nat /\ DOMAIN st2[t] = 1 .. n /\ DOMAIN st[t] = 1 .. n - 1 /\ st2[t][n] = f
      /\ \A k \in 1 .. n - 1 : st2[t][k] = st[t][k]
  BY <1>1, AppendProperties
<1>4. \A u \in Callers \ {t} : st2[u] = st[u]
  BY <1>1
<1>5. ASSUME NEW u \in Callers, NEW k \in DOMAIN st2[u]
      PROVE  \/ k \in DOMAIN st[u] /\ st2[u][k] = st[u][k]
             \/ u = t /\ k = n /\ st2[u][k] = f
  BY <1>3, <1>4
<1>6. n \notin DOMAIN st[t] /\ \A k \in DOMAIN st[t] : k < n /\ ~ (n < k)
  BY <1>3
<1>. HIDE DEF st2, n
<1>7. FramesFit(st2)
  BY <1>0, <1>2, <1>5 DEF FramesFit
<1>8. OneLocks(st2)
  BY <1>0, <1>5 DEF OneLocks
<1>9. RemovedOnce(st2, known)
  BY <1>0, <1>5 DEF RemovedOnce
<1>10. NotAddedMeanwhile(st2)
  BY <1>0, <1>5, <1>6, <1>3 DEF NotAddedMeanwhile
<1>11. ModRemovesOthers(st2)
  BY <1>0, <1>5, <1>6, <1>3 DEF ModRemovesOthers
<1>12. CopiesListen(st2, ls)
  BY <1>0, <1>5 DEF CopiesListen
<1>13. ToldSoFar(st2, vw)
  BY <1>0, <1>5 DEF ToldSoFar, Removes, Publishing
<1>. QED BY <1>7, <1>8, <1>9, <1>10, <1>11, <1>12, <1>13 DEF StackFits, st2

-----------------------------------------------------------------------------
\* The innermost call of t goes on as g, and the others stay.
Becomes(st2, st, t, g) ==
    /\ st2 \in [Callers -> Seq(Frames)]
    /\ \A u \in Callers \ {t} : st2[u] = st[u]
    /\ Len(st2[t]) = Len(st[t]) /\ st2[t][Len(st[t])] = g
    /\ \A k \in 1 .. Len(st[t]) - 1 : st2[t][k] = st[t][k]

LEMMA Innermost ==
  ASSUME NEW st, FramesFit(st), NEW t \in Callers, st[t] # <<>>
  PROVE  /\ Len(st[t]) \in Nat \ {0} /\ Len(st[t]) \in DOMAIN st[t]
         /\ DOMAIN st[t] = 1 .. Len(st[t])
         /\ Last(st[t]) = st[t][Len(st[t])] /\ FrameFits(Last(st[t]))
<1>1. st[t] \in Seq(Frames)
  BY DEF FramesFit
<1>2. Len(st[t]) \in Nat \ {0} /\ Last(st[t]) = st[t][Len(st[t])] /\ DOMAIN st[t] = 1 .. Len(st[t])
  <2>. HIDE DEF Frames
  <2>1. Len(st[t]) \in Nat \ {0} /\ Last(st[t]) = st[t][Len(st[t])]
    BY <1>1, FrontFacts
  <2>. QED BY <1>1, <2>1
<1>3. Len(st[t]) \in DOMAIN st[t]
  BY <1>2
<1>. QED BY <1>2, <1>3 DEF FramesFit

\* Nobody is told of a service that is being removed, and whom g no longer has to
\* tell of the removal of one has forgotten it.
NotReminded(st, vw, vw2) ==
    \A u \in Callers : \A k \in DOMAIN st[u], s \in Services : Removes(st[u][k], s) =>
        \A b \in ToSet(st[u][k].to) : vw2[b] = s => vw[b] = s
OthersForgot(g, f, vw2) ==
    \A s \in Services : Removes(g, s) =>
        \A b \in ToSet(g.to) : vw2[b] = s /\ b \in ToSet(f.todo) => b \in ToSet(g.todo)

LEMMA InnermostGoesOn ==
  ASSUME NEW st, NEW known, NEW ls, NEW vw, StackFits(st, known, ls, vw),
         NEW t \in Callers, st[t] # <<>>,
         NEW g, Follows(g, Last(st[t])),
         NEW st2, Becomes(st2, st, t, g), NEW ls2, NEW vw2,
         MoreListen(ls, ls2),
         NotReminded(st, vw, vw2), OthersForgot(g, Last(st[t]), vw2)
  PROVE  StackFits(st2, known, ls2, vw2)
<1>. DEFINE n == Len(st[t])
<1>0. FramesFit(st) /\ RemovedOnce(st, known)
  BY DEF StackFits
<1>1. /\ n \in Nat \ {0} /\ n \in DOMAIN st[t] /\ DOMAIN st[t] = 1 .. n
      /\ Last(st[t]) = st[t][n] /\ FrameFits(Last(st[t]))
  BY <1>0, Innermost
<1>2. st2 \in [Callers -> Seq(Frames)] /\ st2[t] \in Seq(Frames) /\ DOMAIN st2[t] = 1 .. n
  BY <1>1 DEF Becomes
<1>3. ASSUME NEW u \in Callers, NEW k \in DOMAIN st2[u]
      PROVE  k \in DOMAIN st[u] /\ (\/ u = t /\ k = n /\ st2[u][k] = g
                                   \/ st2[u][k] = st[u][k])
  BY <1>1, <1>2 DEF Becomes
<1>. HIDE DEF n
<1>4. ASSUME NEW u \in Callers, NEW k \in DOMAIN st2[u]
      PROVE  k \in DOMAIN st[u] /\ Follows(st2[u][k], st[u][k])
  BY <1>0, <1>1, <1>3 DEF FramesFit, Follows
<1>5. \A u \in Callers : \A k \in DOMAIN st2[u], s \in Services : Removes(st2[u][k], s) => Removes(st[u][k], s)
  BY <1>4 DEF Follows, Removes
<1>6. \A u \in Callers : \A k \in DOMAIN st2[u], s \in Services :
          Removes(st2[u][k], s) => s \in known
  BY <1>0, <1>4, <1>5 DEF RemovedOnce
<1>7. ASSUME NEW u \in Callers, NEW k \in DOMAIN st2[u], NEW s \in Services, Removes(st2[u][k], s),
             NEW b \in ToSet(st2[u][k].to), vw2[b] = s
      PROVE  vw[b] = s /\ (b \in ToSet(st[u][k].todo) => b \in ToSet(st2[u][k].todo))
  <2>1. vw[b] = s
    BY <1>4, <1>5, <1>7 DEF Follows, NotReminded
  <2>2. CASE st2[u][k] = st[u][k]
    BY <2>1, <2>2
  <2>3. CASE u = t /\ k = n /\ st2[u][k] = g
    BY <2>1, <2>3, <1>7, <1>1 DEF OthersForgot
  <2>. QED BY <2>2, <2>3, <1>3
<1>8. GoesOn(st2, st, known, vw2, vw)
  BY <1>2, <1>4, <1>6, <1>7 DEF GoesOn
<1>. QED BY <1>8, CallsGoOn

\* The innermost call returns.
LEMMA InnermostReturns ==
  ASSUME NEW st, NEW known, NEW ls, NEW vw, StackFits(st, known, ls, vw),
         NEW t \in Callers, st[t] # <<>>, NEW ls2, NEW known2,
         MoreListen(ls, ls2),
         \A u \in Callers : \A k \in DOMAIN st[u], s \in Services :
             Removes(st[u][k], s) /\ ~ (u = t /\ k = Len(st[t])) => s \in known2
  PROVE  StackFits([st EXCEPT ![t] = Front(@)], known2, ls2, vw)
<1>. DEFINE st2 == [st EXCEPT ![t] = Front(@)]
            n == Len(st[t])
<1>0. FramesFit(st)
  BY DEF StackFits
<1>1. st \in [Callers -> Seq(Frames)] /\ st[t] \in Seq(Frames)
  BY <1>0 DEF FramesFit
<1>2. /\ n \in Nat \ {0} /\ DOMAIN st[t] = 1 .. n
      /\ Front(st[t]) \in Seq(Frames) /\ DOMAIN Front(st[t]) = 1 .. n - 1
      /\ \A k \in 1 .. n - 1 : Front(st[t])[k] = st[t][k]
  <2>1. /\ n \in Nat \ {0} /\ Front(st[t]) \in Seq(Frames) /\ Len(Front(st[t])) = n - 1
        /\ \A k \in 1 .. n - 1 : Front(st[t])[k] = st[t][k]
    BY <1>1, FrontFacts
  <2>. QED BY <1>1, <2>1
<1>3. st2 \in [Callers -> Seq(Frames)]
  BY <1>1, <1>2
<1>4. ASSUME NEW u \in Callers, NEW k \in DOMAIN st2[u]
      PROVE  k \in DOMAIN st[u] /\ st2[u][k] = st[u][k] /\ ~ (u = t /\ k = n)
  <2>1. CASE u = t
    <3>1. st2[u] = Front(st[t])
      BY <1>1, <2>1
    <3>. HIDE DEF st2
    <3>. QED BY <3>1, <1>2, <2>1
  <2>2. CASE u # t
    BY <1>1, <2>2
  <2>. QED BY <2>1, <2>2
<1>. HIDE DEF st2
<1>5. \A u \in Callers : \A k \in DOMAIN st2[u] : k \in DOMAIN st[u] /\ Follows(st2[u][k], st[u][k])
  BY <1>0, <1>4 DEF FramesFit, Follows
<1>6. \A u \in Callers : \A k \in DOMAIN st2[u], s \in Services :
          Removes(st2[u][k], s) => s \in known2
  BY <1>4
<1>7. \A u \in Callers : \A k \in DOMAIN st2[u], s \in Services : Removes(st2[u][k], s) =>
          \A b \in ToSet(st2[u][k].to) : vw[b] = s =>
              vw[b] = s /\ (b \in ToSet(st[u][k].todo) => b \in ToSet(st2[u][k].todo))
  BY <1>4
<1>8. StackFits(st2, known2, ls2, vw)
  <2>1. GoesOn(st2, st, known2, vw, vw)
    BY <1>3, <1>5, <1>6, <1>7 DEF GoesOn
  <2>. QED BY <2>1, CallsGoOn
<1>. QED BY <1>8 DEF st2

-----------------------------------------------------------------------------
LEMMA CopyElements ==
  ASSUME ServiceTypeOK, NEW e \in Publishing, NEW s
  PROVE  Copy(e, s) \in Seq(Subs) /\ ToSet(Copy(e, s)) \subseteq ToSet(listening[e])
<1>. DEFINE T == {b \in Subs : SameId(Wants[b], s)}
<1>1. listening[e] \in Seq(Subs) /\ Copy(e, s) = Selected(listening[e], T)
  BY DEF ServiceTypeOK, Copy
<1>. HIDE DEF T
<1>. QED BY <1>1, SelectedElements

LEMMA FrameOf ==
  ASSUME NEW op, NEW it, NEW todo
  PROVE  /\ Frame(op, it, todo).op = op /\ Frame(op, it, todo).it = it
         /\ Frame(op, it, todo).to = todo /\ Frame(op, it, todo).todo = todo
BY DEF Frame

LEMMA FrameBegins ==
  ASSUME NEW op \in Publishing \cup {"unregisterMod", "subscribe"},
         NEW it, NEW todo,
         op \in Publishing => it \in Services /\ todo \in Seq(Subs),
         op = "unregisterMod" => it \in ServiceMods /\ todo \in Seq(Services),
         op = "subscribe" => it \in Subs /\ todo = <<>>
  PROVE  FrameFits(Frame(op, it, todo))
<1>1. todo \in Seq(Subs \cup Services)
  <2>1. CASE op \in Publishing
    BY <2>1 DEF Publishing
  <2>2. CASE op = "unregisterMod"
    BY <2>2
  <2>3. CASE op = "subscribe"
    BY <2>3, EmptySeq
  <2>. QED BY <2>1, <2>2, <2>3
<1>2. it \in Services \cup Subs \cup ServiceMods
  BY DEF Publishing
<1>3. Frame(op, it, todo) \in Frames
  BY <1>1, <1>2 DEF Frame, Frames
<1>. QED BY <1>3, FrameOf DEF FrameFits, Publishing

\* t begins to publish an event of s, after it found or added the service.
LEMMA PublicationBegins ==
  ASSUME NEW st, NEW known, StackFits(st, known, listening, view), ServiceTypeOK,
         NEW t \in Callers, NEW e \in Publishing, NEW s \in Services,
         \A u \in Callers \ {t} : \A k \in DOMAIN st[u] : st[u][k].op \notin Locking,
         e = "unregister" => s \in known,
         \A k \in DOMAIN st[t] : ~ Removes(st[t][k], s)
  PROVE  StackFits([st EXCEPT ![t] = Append(@, Frame(e, s, Copy(e, s)))], known, listening, view)
<1>1. Copy(e, s) \in Seq(Subs) /\ ToSet(Copy(e, s)) \subseteq ToSet(listening[e])
  BY CopyElements
<1>. DEFINE f == Frame(e, s, Copy(e, s))
<1>2. f.op = e /\ f.it = s /\ f.to = Copy(e, s) /\ f.todo = Copy(e, s)
  BY FrameOf
<1>3. FrameFits(f)
  <2>1. e \in Publishing \cup {"unregisterMod", "subscribe"} /\ e # "unregisterMod" /\ e # "subscribe"
    BY DEF Publishing
  <2>. QED BY <1>1, <2>1, FrameBegins
<1>. HIDE DEF f
<1>4. \A u \in Services : Removes(f, u) => u = s /\ e = "unregister"
  BY <1>2 DEF Removes
<1>5. f.op # "unregisterMod"
  BY <1>2 DEF Publishing
<1>6. StackFits([st EXCEPT ![t] = Append(@, f)], known, listening, view)
  BY <1>1, <1>2, <1>3, <1>4, <1>5, CallBegins
<1>. QED BY <1>6 DEF f

LEMMA LockedByOne ==
  ASSUME NEW t, MayLock(t)
  PROVE  \A u \in Callers \ {t} : \A k \in DOMAIN stack[u] : stack[u][k].op \notin Locking
BY DEF MayLock, Locking

-----------------------------------------------------------------------------
LEMMA RegisterFits ==
  ASSUME ServiceInv, NEW t \in Callers, NEW s \in Services, Register(t, s)
  PROVE  StackFits(stack', services', listening', view')
<1>1. /\ ServiceTypeOK /\ StackFits(stack, services, listening, view)
      /\ MayLock(t) /\ Found(s) = {} /\ services' = services \cup {s}
      /\ stack' = [stack EXCEPT ![t] = Append(@, Frame("register", s, Copy("register", s)))]
      /\ listening' = listening /\ view' = view
  BY DEF ServiceInv, Register, Push
<1>2. s \notin services
  BY <1>1 DEF Found, SameId
<1>3. \A k \in DOMAIN stack[t] : ~ Removes(stack[t][k], s)
  BY <1>1, <1>2 DEF StackFits, RemovedOnce
<1>4. StackFits(stack, services', listening, view)
  BY <1>1 DEF StackFits, RemovedOnce
<1>5. \A u \in Callers \ {t} : \A k \in DOMAIN stack[u] : stack[u][k].op \notin Locking
  BY <1>1, LockedByOne
<1>6. "register" \in Publishing /\ "register" # "unregister"
  BY DEF Publishing
<1>7. StackFits([stack EXCEPT ![t] = Append(@, Frame("register", s, Copy("register", s)))],
                services', listening, view)
  BY <1>1, <1>3, <1>4, <1>5, <1>6, PublicationBegins
<1>. QED BY <1>1, <1>7

LEMMA UnregisterFits ==
  ASSUME ServiceInv, NEW t \in Callers, NEW s \in Services, Unregister(t, s)
  PROVE  StackFits(stack', services', listening', view')
<1>1. /\ ServiceTypeOK /\ StackFits(stack, services, listening, view)
      /\ MayLock(t) /\ s \in services /\ ~ BeingRemoved(s) /\ services' = services
      /\ stack' = [stack EXCEPT ![t] = Append(@, Frame("unregister", s, Copy("unregister", s)))]
      /\ listening' = listening /\ view' = view
  BY DEF ServiceInv, Unregister, Push, records
<1>2. \A k \in DOMAIN stack[t] : ~ Removes(stack[t][k], s)
  BY <1>1 DEF BeingRemoved, Removes
<1>3. \A u \in Callers \ {t} : \A k \in DOMAIN stack[u] : stack[u][k].op \notin Locking
  BY <1>1, LockedByOne
<1>4. "unregister" \in Publishing
  BY DEF Publishing
<1>5. StackFits([stack EXCEPT ![t] = Append(@, Frame("unregister", s, Copy("unregister", s)))],
                services, listening, view)
  BY <1>1, <1>2, <1>3, <1>4, PublicationBegins
<1>. QED BY <1>1, <1>5

LEMMA UnregisterModFits ==
  ASSUME ServiceInv, NEW t \in Callers, NEW m \in ServiceMods, UnregisterMod(t, m)
  PROVE  StackFits(stack', services', listening', view')
<1>1. PICK order \in SetToSeqs(modServices[m]) :
          stack' = [stack EXCEPT ![t] = Append(@, Frame("unregisterMod", m, order))]
  BY DEF UnregisterMod, Push
<1>2. /\ ServiceTypeOK /\ TablesAgree /\ StackFits(stack, services, listening, view)
      /\ MayLock(t) /\ services' = services /\ listening' = listening /\ view' = view
      /\ \A s \in modServices[m] : ~ BeingRemoved(s)
  BY DEF ServiceInv, UnregisterMod, records
<1>3. modServices[m] \subseteq Services /\ IsFiniteSet(Services)
  BY <1>2, ServiceManagerAssumption DEF ServiceTypeOK
<1>4. order \in Seq(modServices[m]) /\ ToSet(order) \subseteq modServices[m] /\ order \in Seq(Services)
  <2>1. IsFiniteSet(modServices[m])
    BY <1>3, FS_Subset
  <2>2. order \in Seq(modServices[m]) /\ ToSet(order) \subseteq modServices[m]
    BY <2>1, OrderedElements
  <2>. QED BY <2>2, <1>3
<1>. DEFINE f == Frame("unregisterMod", m, order)
<1>5. f.op = "unregisterMod" /\ f.it = m /\ f.to = order /\ f.todo = order
  BY FrameOf
<1>6. FrameFits(f)
  BY <1>4, FrameBegins DEF Publishing
<1>. HIDE DEF f
<1>7. ASSUME NEW k \in DOMAIN stack[t], NEW s \in Services, Removes(stack[t][k], s),
             NEW u \in ToSet(f.todo), SameId(u, s)
      PROVE  FALSE
  <2>1. u \in modServices[m] /\ ~ BeingRemoved(u)
    BY <1>2, <1>4, <1>5, <1>7
  <2>2. u # s /\ s \in services
    BY <2>1, <1>2, <1>7 DEF BeingRemoved, Removes, StackFits, RemovedOnce
  <2>3. u \in services
    BY <1>2, <2>1 DEF TablesAgree
  <2>4. u \in Found(s) /\ s \in Found(s)
    BY <2>2, <2>3, <1>7 DEF Found, SameId
  <2>. QED BY <1>2, <2>2, <2>4 DEF TablesAgree
<1>8. \A u \in Callers \ {t} : \A k \in DOMAIN stack[u] : stack[u][k].op \notin Locking
  BY <1>2, LockedByOne
<1>9. f.op \notin Publishing /\ f.op # "register" /\ \A s \in Services : ~ Removes(f, s)
  BY <1>5 DEF Publishing, Removes
<1>10. StackFits([stack EXCEPT ![t] = Append(@, f)], services, listening, view)
  BY <1>2, <1>6, <1>7, <1>8, <1>9, CallBegins
<1>. QED BY <1>1, <1>2, <1>10 DEF f

LEMMA ReturnFits ==
  ASSUME ServiceInv, NEW t \in Callers, RegisterReturns(t) \/ ModReturns(t)
  PROVE  StackFits(stack', services', listening', view')
<1>1. /\ StackFits(stack, services, listening, view) /\ stack[t] # <<>>
      /\ stack' = [stack EXCEPT ![t] = Front(@)]
      /\ services' = services /\ listening' = listening /\ view' = view
  BY DEF ServiceInv, RegisterReturns, ModReturns, In, Pop, records
<1>2. \A u \in Callers : \A k \in DOMAIN stack[u], s \in Services :
          Removes(stack[u][k], s) /\ ~ (u = t /\ k = Len(stack[t])) => s \in services
  BY <1>1 DEF StackFits, RemovedOnce
<1>3. MoreListen(listening, listening)
  BY DEF MoreListen
<1>4. StackFits([stack EXCEPT ![t] = Front(@)], services, listening, view)
  BY <1>1, <1>2, <1>3, InnermostReturns
<1>. QED BY <1>1, <1>4

LEMMA UnregisterReturnsFits ==
  ASSUME ServiceInv, NEW t \in Callers, UnregisterReturns(t)
  PROVE  StackFits(stack', services', listening', view')
<1>1. /\ StackFits(stack, services, listening, view) /\ stack[t] # <<>> /\ Top(t).op = "unregister"
      /\ stack' = [stack EXCEPT ![t] = Front(@)]
      /\ services' = services \ {Top(t).it} /\ listening' = listening /\ view' = view
  BY DEF ServiceInv, UnregisterReturns, In, Pop
<1>. DEFINE n == Len(stack[t])
<1>2. n \in DOMAIN stack[t] /\ Top(t) = stack[t][n] /\ FrameFits(Top(t))
  BY <1>1, Innermost DEF StackFits, Top
<1>3. Top(t).it \in Services /\ Removes(stack[t][n], Top(t).it) /\ stack[t][n].op \in Locking
  BY <1>1, <1>2 DEF FrameFits, Publishing, Removes, Locking
<1>. HIDE DEF n
<1>4. ASSUME NEW u \in Callers, NEW k \in DOMAIN stack[u], NEW s \in Services,
             Removes(stack[u][k], s), ~ (u = t /\ k = n)
      PROVE  s \in services \ {Top(t).it}
  <2>1. s \in services
    BY <1>1, <1>4 DEF StackFits, RemovedOnce
  <2>2. u = t
    BY <1>1, <1>2, <1>3, <1>4 DEF StackFits, OneLocks, Locking, Removes
  <2>3. Removes(stack[t][k], s) /\ k \in DOMAIN stack[t] /\ k # n
    BY <1>4, <2>2
  <2>4. s # Top(t).it
    BY <1>1, <1>2, <1>3, <2>3 DEF StackFits, RemovedOnce
  <2>. QED BY <2>1, <2>4
<1>5. MoreListen(listening, listening)
  BY DEF MoreListen
<1>6. StackFits([stack EXCEPT ![t] = Front(@)], services \ {Top(t).it}, listening, view)
  BY <1>1, <1>4, <1>5, InnermostReturns DEF n
<1>. QED BY <1>1, <1>6

\* What Tell leaves of the stack.
LEMMA TodoBecomes ==
  ASSUME NEW st, FramesFit(st), NEW t \in Callers, st[t] # <<>>,
         NEW todo \in Seq(Subs \cup Services),
         NEW st2, st2 = [st EXCEPT ![t][Len(st[t])].todo = todo]
  PROVE  Becomes(st2, st, t, [Last(st[t]) EXCEPT !.todo = todo])
<1>. DEFINE n == Len(st[t])
            g == [Last(st[t]) EXCEPT !.todo = todo]
<1>1. st \in [Callers -> Seq(Frames)] /\ st[t] \in Seq(Frames)
  BY DEF FramesFit
<1>2. n \in Nat \ {0} /\ n \in DOMAIN st[t] /\ Last(st[t]) = st[t][n] /\ DOMAIN st[t] = 1 .. n
  BY Innermost
<1>3. g \in Frames
  <2>1. Last(st[t]) \in Frames
    BY <1>1, <1>2
  <2>. QED BY <2>1 DEF Frames
<1>4. st2 = [st EXCEPT ![t] = [st[t] EXCEPT ![n] = g]]
  BY <1>1, <1>2
<1>. HIDE DEF g
<1>5. /\ [st[t] EXCEPT ![n] = g] \in Seq(Frames) /\ Len([st[t] EXCEPT ![n] = g]) = n
      /\ [st[t] EXCEPT ![n] = g][n] = g
      /\ \A k \in 1 .. n - 1 : [st[t] EXCEPT ![n] = g][k] = st[t][k]
  BY <1>1, <1>2, <1>3, ExceptSeq
<1>. HIDE DEF n
<1>6. st2 \in [Callers -> Seq(Frames)] /\ st2[t] = [st[t] EXCEPT ![n] = g] /\ \A u \in Callers \ {t} : st2[u] = st[u]
  BY <1>1, <1>4, <1>5
<1>. QED BY <1>5, <1>6 DEF Becomes, n, g

LEMMA TellFits ==
  ASSUME ServiceInv, NEW t \in Callers, Tell(t)
  PROVE  StackFits(stack', services', listening', view')
<1>. DEFINE n == Len(stack[t])
            f == Top(t)
            g == [f EXCEPT !.todo = Tail(f.todo)]
<1>1. /\ ServiceTypeOK /\ StackFits(stack, services, listening, view) /\ stack[t] # <<>>
      /\ f.op \in Publishing /\ f.todo # <<>>
      /\ services' = services /\ listening' = listening
      /\ view' = [view EXCEPT ![Head(f.todo)] = IF f.op = "register" THEN f.it ELSE Nothing]
      /\ stack' = [stack EXCEPT ![t][n].todo = Tail(@)]
  BY DEF ServiceInv, Tell, In, records
<1>2. /\ FramesFit(stack) /\ OneLocks(stack) /\ NotAddedMeanwhile(stack)
      /\ stack \in [Callers -> Seq(Frames)]
  BY <1>1 DEF StackFits, FramesFit
<1>3. /\ n \in Nat \ {0} /\ n \in DOMAIN stack[t] /\ DOMAIN stack[t] = 1 .. n
      /\ f = Last(stack[t]) /\ f = stack[t][n] /\ FrameFits(f)
  BY <1>1, <1>2, Innermost DEF Top
<1>4. /\ f \in Frames /\ f.it \in Services /\ f.to \in Seq(Subs) /\ f.todo \in Seq(Subs)
  BY <1>1, <1>3 DEF FrameFits
<1>5. /\ Head(f.todo) \in Subs /\ Tail(f.todo) \in Seq(Subs) /\ Tail(f.todo) \in Seq(Subs \cup Services)
      /\ ToSet(f.todo) = ToSet(Tail(f.todo)) \cup {Head(f.todo)}
  BY <1>1, <1>4, TailElements
<1>6. /\ g.op = f.op /\ g.it = f.it /\ g.to = f.to /\ g.todo = Tail(f.todo) /\ g \in Frames
  BY <1>4, <1>5 DEF Frames
<1>7. stack' = [stack EXCEPT ![t][n].todo = Tail(f.todo)]
  BY <1>1, <1>2, <1>3
<1>. HIDE DEF n, f, g
<1>8. Becomes(stack', stack, t, g)
  BY <1>1, <1>2, <1>3, <1>5, <1>7, TodoBecomes DEF n, g
<1>9. Follows(g, f)
  <2>1. FrameFits(g)
    BY <1>1, <1>4, <1>5, <1>6 DEF FrameFits, Publishing
  <2>. QED BY <2>1, <1>5, <1>6 DEF Follows
<1>10. \A b \in Subs :
          \/ view'[b] = view[b] /\ b # Head(f.todo)
          \/ b = Head(f.todo) /\ f.op = "register" /\ view'[b] = f.it
          \/ b = Head(f.todo) /\ f.op # "register" /\ view'[b] = Nothing
  BY <1>1, <1>5 DEF ServiceTypeOK
<1>11. ASSUME NEW u \in Callers, NEW k \in DOMAIN stack[u], NEW s \in Services, Removes(stack[u][k], s),
              NEW b \in ToSet(stack[u][k].to), view'[b] = s
       PROVE  view[b] = s
  <2>1. b \in Subs
    <3>1. stack[u][k].to \in Seq(Subs)
      BY <1>2, <1>11 DEF FramesFit, FrameFits, Removes, Publishing
    <3>. QED BY <3>1 DEF ToSet
  <2>2. s # Nothing
    BY ServiceManagerAssumption
  <2>3. ~ (f.op = "register" /\ f.it = s)
    <3>. SUFFICES ASSUME f.op = "register", f.it = s PROVE FALSE
      OBVIOUS
    <3>1. u = t
      BY <1>2, <1>3, <1>11 DEF OneLocks, Locking, Removes
    <3>2. k # n /\ k \in 1 .. n
      BY <1>3, <1>11, <3>1 DEF Removes
    <3>3. k < n
      BY <3>2, <1>3
    <3>. QED BY <3>1, <3>3, <1>2, <1>3, <1>11 DEF NotAddedMeanwhile
  <2>. QED BY <2>1, <2>2, <2>3, <1>10, <1>11
<1>12. ASSUME NEW s \in Services, Removes(g, s),
              NEW b \in ToSet(g.to), view'[b] = s, b \in ToSet(f.todo)
       PROVE  b \in ToSet(g.todo)
  <2>1. b \in Subs
    BY <1>4, <1>6 DEF ToSet
  <2>2. s # Nothing /\ f.op # "register"
    BY <1>6, <1>12, ServiceManagerAssumption DEF Removes
  <2>. QED BY <2>1, <2>2, <1>5, <1>6, <1>10, <1>12
<1>13. MoreListen(listening, listening)
  BY DEF MoreListen
<1>14. NotReminded(stack, view, view') /\ OthersForgot(g, Last(stack[t]), view')
  BY <1>3, <1>11, <1>12 DEF NotReminded, OthersForgot
<1>15. Follows(g, Last(stack[t]))
  BY <1>3, <1>9
<1>16. StackFits(stack', services, listening, view')
  BY <1>1, <1>8, <1>13, <1>14, <1>15, InnermostGoesOn
<1>. QED BY <1>1, <1>16

LEMMA SubscribeFits ==
  ASSUME ServiceInv, NEW t \in Callers, NEW b \in Subs, Subscribe(t, b)
  PROVE  StackFits(stack', services', listening', view')
<1>1. /\ ServiceTypeOK /\ StackFits(stack, services, listening, view)
      /\ services' = services /\ listening' = listening
      /\ stack' = [stack EXCEPT ![t] = Append(@, Frame("subscribe", b, <<>>))]
      /\ \A e \in Publishing : b \notin ToSet(listening[e])
      /\ \A c \in Subs \ {b} : view'[c] = view[c]
  BY DEF ServiceInv, Subscribe, Push, records, ServiceTypeOK
<1>2. FramesFit(stack) /\ CopiesListen(stack, listening) /\ ToldSoFar(stack, view)
  BY <1>1 DEF StackFits
<1>3. ASSUME NEW u \in Callers, NEW k \in DOMAIN stack[u], NEW s \in Services, Removes(stack[u][k], s),
             NEW c \in ToSet(stack[u][k].to)
      PROVE  view'[c] = view[c]
  <2>1. stack[u][k].to \in Seq(Subs) /\ c \in ToSet(listening["unregister"])
    BY <1>2, <1>3 DEF FramesFit, FrameFits, Removes, Publishing, CopiesListen
  <2>2. c \in Subs
    BY <2>1 DEF ToSet
  <2>. QED BY <1>1, <2>1, <2>2 DEF Publishing
<1>4. ToldSoFar(stack, view')
  BY <1>2, <1>3 DEF ToldSoFar
<1>5. StackFits(stack, services, listening, view')
  BY <1>1, <1>4 DEF StackFits
<1>. DEFINE f == Frame("subscribe", b, <<>>)
<1>6. f.op = "subscribe" /\ FrameFits(f)
  <2>1. "subscribe" \in Publishing \cup {"unregisterMod", "subscribe"} /\ "subscribe" \notin Publishing
    BY DEF Publishing
  <2>. QED BY <2>1, FrameOf, FrameBegins
<1>. HIDE DEF f
<1>7. /\ f.op \notin Locking /\ f.op \notin Publishing /\ f.op # "unregisterMod" /\ f.op # "register"
      /\ \A s \in Services : ~ Removes(f, s)
  BY <1>6 DEF Locking, Publishing, Removes
<1>8. StackFits([stack EXCEPT ![t] = Append(@, f)], services, listening, view')
  BY <1>5, <1>6, <1>7, CallBegins
<1>. QED BY <1>1, <1>8 DEF f

\* What NextOfMod and Listen leave of the stack.
LEMMA ReplacedBecomes ==
  ASSUME NEW st, FramesFit(st), NEW t \in Callers, st[t] # <<>>, NEW g \in Frames
  PROVE  Becomes([st EXCEPT ![t] = Append(Front(@), g)], st, t, g)
<1>. DEFINE n == Len(st[t])
            q == Append(Front(st[t]), g)
<1>1. st \in [Callers -> Seq(Frames)] /\ st[t] \in Seq(Frames)
  BY DEF FramesFit
<1>2. /\ n \in Nat \ {0} /\ Front(st[t]) \in Seq(Frames) /\ Len(Front(st[t])) = n - 1
      /\ \A k \in 1 .. n - 1 : Front(st[t])[k] = st[t][k]
  BY <1>1, FrontFacts
<1>3. q \in Seq(Frames) /\ Len(q) = n /\ q[n] = g /\ \A k \in 1 .. n - 1 : q[k] = st[t][k]
  <2>1. /\ q \in Seq(Frames) /\ Len(q) = Len(Front(st[t])) + 1 /\ q[Len(Front(st[t])) + 1] = g
        /\ \A k \in 1 .. Len(Front(st[t])) : q[k] = Front(st[t])[k]
    BY <1>2, AppendProperties
  <2>2. Len(Front(st[t])) + 1 = n
    BY <1>2
  <2>. QED BY <1>2, <2>1, <2>2
<1>. HIDE DEF q, n
<1>. DEFINE st2 == [st EXCEPT ![t] = q]
<1>4. st2 \in [Callers -> Seq(Frames)] /\ st2[t] = q /\ \A u \in Callers \ {t} : st2[u] = st[u]
  BY <1>1, <1>3
<1>. HIDE DEF st2
<1>5. Becomes(st2, st, t, g)
  BY <1>3, <1>4 DEF Becomes, n
<1>. QED BY <1>5 DEF st2, q

LEMMA AppendTwo ==
  ASSUME NEW S, NEW q \in Seq(S), NEW a \in S, NEW b \in S
  PROVE  q \o <<a, b>> = Append(Append(q, a), b)
OBVIOUS

LEMMA NextOfModFits ==
  ASSUME ServiceInv, NEW t \in Callers, NextOfMod(t)
  PROVE  StackFits(stack', services', listening', view')
<1>. DEFINE f == Top(t)
            n == Len(stack[t])
            rest == [f EXCEPT !.todo = Tail(f.todo)]
            fr(s) == Frame("unregister", s, Copy("unregister", s))
            st2 == [stack EXCEPT ![t] = Append(Front(@), rest)]
<1>1. /\ ServiceTypeOK /\ TablesAgree /\ StackFits(stack, services, listening, view) /\ stack[t] # <<>>
      /\ f.op = "unregisterMod" /\ f.todo # <<>>
      /\ services' = services /\ listening' = listening /\ view' = view
      /\ \/ stack' = st2
         \/ \E s \in Found(Head(f.todo)) :
                stack' = [stack EXCEPT ![t] = Front(@) \o <<rest, fr(s)>>]
  BY DEF ServiceInv, NextOfMod, In, records
<1>2. FramesFit(stack) /\ OneLocks(stack) /\ ModRemovesOthers(stack) /\ stack \in [Callers -> Seq(Frames)]
  BY <1>1 DEF StackFits, FramesFit
<1>3. /\ n \in Nat \ {0} /\ n \in DOMAIN stack[t] /\ DOMAIN stack[t] = 1 .. n
      /\ f = Last(stack[t]) /\ f = stack[t][n] /\ FrameFits(f)
  BY <1>1, <1>2, Innermost DEF Top
<1>4. f \in Frames /\ f.it \in ServiceMods /\ f.todo \in Seq(Services)
  BY <1>1, <1>3 DEF FrameFits
<1>5. /\ Head(f.todo) \in Services /\ Tail(f.todo) \in Seq(Services) /\ Tail(f.todo) \in Seq(Subs \cup Services)
      /\ Head(f.todo) \in ToSet(f.todo)
      /\ ToSet(f.todo) = ToSet(Tail(f.todo)) \cup {Head(f.todo)}
  BY <1>1, <1>4, TailElements
<1>6. /\ rest.op = f.op /\ rest.it = f.it /\ rest.to = f.to /\ rest.todo = Tail(f.todo) /\ rest \in Frames
  BY <1>4, <1>5 DEF Frames
<1>. HIDE DEF f, n, rest
<1>7. Becomes(st2, stack, t, rest)
  BY <1>1, <1>2, <1>6, ReplacedBecomes
<1>. HIDE DEF st2
<1>8. Follows(rest, Last(stack[t]))
  <2>1. FrameFits(rest)
    BY <1>1, <1>4, <1>5, <1>6 DEF FrameFits, Publishing
  <2>. QED BY <2>1, <1>3, <1>5, <1>6 DEF Follows
<1>9. MoreListen(listening, listening) /\ NotReminded(stack, view, view)
      /\ OthersForgot(rest, Last(stack[t]), view)
  BY <1>1, <1>6 DEF MoreListen, NotReminded, OthersForgot, Removes
<1>10. StackFits(st2, services, listening, view)
  BY <1>1, <1>7, <1>8, <1>9, InnermostGoesOn
<1>11. CASE stack' = st2
  BY <1>1, <1>10, <1>11
<1>12. ASSUME NEW s \in Found(Head(f.todo)),
              stack' = [stack EXCEPT ![t] = Front(@) \o <<rest, fr(s)>>]
       PROVE  StackFits(stack', services', listening', view')
  <2>1. s \in services /\ s \in Services /\ SameId(Head(f.todo), s)
    BY <1>1 DEF Found, ServiceTypeOK
  <2>2. /\ "unregister" \in Publishing
        /\ f.op \in Locking
    BY <1>1 DEF Publishing, Locking
  <2>3. \A u \in Callers \ {t} : \A k \in DOMAIN st2[u] : st2[u][k].op \notin Locking
    BY <1>2, <1>3, <1>7, <2>2 DEF OneLocks, Becomes
  <2>4. st2 \in [Callers -> Seq(Frames)] /\ st2[t] \in Seq(Frames) /\ DOMAIN st2[t] = 1 .. n
        /\ st2[t][n] = rest /\ \A k \in 1 .. n - 1 : st2[t][k] = stack[t][k]
    BY <1>3, <1>7 DEF Becomes, n
  <2>5. ASSUME NEW k \in DOMAIN st2[t], Removes(st2[t][k], s)
        PROVE  FALSE
    <3>1. k \in 1 .. n - 1
      BY <1>1, <1>3, <1>6, <2>4, <2>5 DEF Removes
    <3>2. Removes(stack[t][k], s) /\ k < n /\ k \in DOMAIN stack[t]
      BY <1>3, <2>4, <2>5, <3>1
    <3>. QED BY <3>2, <2>1, <1>1, <1>2, <1>3, <1>5 DEF ModRemovesOthers
  <2>6. StackFits([st2 EXCEPT ![t] = Append(@, fr(s))], services, listening, view)
    BY <1>1, <1>10, <2>1, <2>2, <2>3, <2>5, PublicationBegins
  <2>7. fr(s) \in Frames
    <3>1. Copy("unregister", s) \in Seq(Subs)
      BY <1>1, <2>2, CopyElements
    <3>2. "unregister" \in Publishing \cup {"unregisterMod", "subscribe"}
          /\ "unregister" # "unregisterMod" /\ "unregister" # "subscribe"
      BY DEF Publishing
    <3>3. FrameFits(fr(s))
      BY <2>1, <3>1, <3>2, FrameBegins
    <3>. QED BY <3>3 DEF FrameFits
  <2>. HIDE DEF fr
  <2>8. stack' = [st2 EXCEPT ![t] = Append(@, fr(s))]
    <3>1. Front(stack[t]) \in Seq(Frames)
      <4>. HIDE DEF Frames
      <4>1. stack[t] \in Seq(Frames)
        BY <1>2
      <4>. QED BY <1>1, <4>1, FrontFacts
    <3>2. Front(stack[t]) \o <<rest, fr(s)>> = Append(Append(Front(stack[t]), rest), fr(s))
      BY <1>6, <2>7, <3>1, AppendTwo
    <3>. QED BY <1>2, <1>12, <3>2 DEF st2
  <2>. QED BY <1>1, <2>6, <2>8
<1>. QED BY <1>1, <1>11, <1>12

LEMMA ListenFits ==
  ASSUME ServiceInv, NEW t \in Callers, Listen(t)
  PROVE  StackFits(stack', services', listening', view')
<1>. DEFINE f == Top(t)
            g == [f EXCEPT !.op = "subscribed"]
            e == IF f.op = "subscribe" THEN "register" ELSE "unregister"
<1>1. /\ ServiceTypeOK /\ StackFits(stack, services, listening, view) /\ stack[t] # <<>>
      /\ f.op \in {"subscribe", "subscribed"}
      /\ services' = services /\ view' = view
      /\ listening' = [listening EXCEPT ![e] = Append(@, f.it)]
      /\ stack' = [stack EXCEPT ![t] = IF f.op = "subscribe" THEN Append(Front(@), g) ELSE Front(@)]
  BY DEF ServiceInv, Listen, In, records
<1>2. FramesFit(stack)
  BY <1>1 DEF StackFits
<1>3. f = Last(stack[t]) /\ FrameFits(f)
  BY <1>1, <1>2, Innermost DEF Top
<1>4. f \in Frames /\ f.it \in Subs
  BY <1>1, <1>3 DEF FrameFits
<1>5. /\ g.op = "subscribed" /\ g.it = f.it /\ g.to = f.to /\ g.todo = f.todo /\ g \in Frames
  BY <1>4 DEF Frames
<1>6. MoreListen(listening, listening')
  <2>. HIDE DEF f
  <2>1. e \in Publishing
    BY DEF Publishing
  <2>2. listening[e] \in Seq(Subs) /\ listening \in [Publishing -> Seq(Subs)]
    BY <1>1, <2>1 DEF ServiceTypeOK
  <2>3. ToSet(Append(listening[e], f.it)) = ToSet(listening[e]) \cup {f.it}
    BY <1>4, <2>2, AppendElements
  <2>. HIDE DEF e
  <2>. QED BY <1>1, <2>1, <2>2, <2>3 DEF MoreListen
<1>. HIDE DEF f, g
<1>7. CASE f.op = "subscribe"
  <2>1. stack' = [stack EXCEPT ![t] = Append(Front(@), g)]
    BY <1>1, <1>7
  <2>2. Becomes(stack', stack, t, g)
    <3>1. Becomes([stack EXCEPT ![t] = Append(Front(@), g)], stack, t, g)
      BY <1>1, <1>2, <1>5, ReplacedBecomes
    <3>. QED BY <2>1, <3>1
  <2>3. FrameFits(g)
    BY <1>4, <1>5 DEF FrameFits, Publishing
  <2>4. Follows(g, Last(stack[t]))
    BY <1>1, <1>3, <1>5, <2>3 DEF Follows
  <2>5. NotReminded(stack, view, view) /\ OthersForgot(g, Last(stack[t]), view)
    BY <1>5 DEF NotReminded, OthersForgot, Removes
  <2>6. StackFits(stack', services, listening', view)
    BY <1>1, <1>6, <2>2, <2>4, <2>5, InnermostGoesOn
  <2>. QED BY <1>1, <2>6
<1>8. CASE f.op # "subscribe"
  <2>1. stack' = [stack EXCEPT ![t] = Front(@)]
    BY <1>1, <1>8
  <2>2. \A u \in Callers : \A k \in DOMAIN stack[u], s \in Services :
            Removes(stack[u][k], s) /\ ~ (u = t /\ k = Len(stack[t])) => s \in services
    BY <1>1 DEF StackFits, RemovedOnce
  <2>3. StackFits([stack EXCEPT ![t] = Front(@)], services, listening', view)
    BY <1>1, <1>6, <2>2, InnermostReturns
  <2>. QED BY <1>1, <2>1, <2>3
<1>. QED BY <1>7, <1>8

-----------------------------------------------------------------------------
LEMMA StepFits ==
  ASSUME ServiceInv, [ServiceNext]_serviceVars
  PROVE  StackFits(stack', services', listening', view')
<1>1. ASSUME NEW t \in Callers, NEW s \in Services, Register(t, s) \/ Unregister(t, s)
      PROVE  StackFits(stack', services', listening', view')
  BY <1>1, RegisterFits, UnregisterFits
<1>2. ASSUME NEW t \in Callers, NEW m \in ServiceMods, UnregisterMod(t, m)
      PROVE  StackFits(stack', services', listening', view')
  BY <1>2, UnregisterModFits
<1>3. ASSUME NEW t \in Callers, NEW b \in Subs, Subscribe(t, b)
      PROVE  StackFits(stack', services', listening', view')
  BY <1>3, SubscribeFits
<1>4. ASSUME NEW t \in Callers,
             \/ Tell(t) \/ RegisterReturns(t) \/ UnregisterReturns(t)
             \/ NextOfMod(t) \/ ModReturns(t) \/ Listen(t)
      PROVE  StackFits(stack', services', listening', view')
  BY <1>4, TellFits, ReturnFits, UnregisterReturnsFits, NextOfModFits, ListenFits
<1>5. CASE UNCHANGED serviceVars
  BY <1>5 DEF serviceVars, records, ServiceInv
<1>. QED BY <1>1, <1>2, <1>3, <1>4, <1>5 DEF ServiceNext

\* The steps that leave the tables, and who was told, alone.
Quiet == UNCHANGED <<records, invalid>>

LEMMA StepKinds ==
  ASSUME [ServiceNext]_serviceVars
  PROVE  \/ Quiet
         \/ \E t \in Callers, s \in Services : Register(t, s)
         \/ \E t \in Callers : UnregisterReturns(t)
<1>1. ASSUME NEW t \in Callers, NEW s \in Services, Unregister(t, s) PROVE Quiet
  BY <1>1 DEF Unregister, Quiet
<1>2. ASSUME NEW t \in Callers, NEW m \in ServiceMods, UnregisterMod(t, m) PROVE Quiet
  BY <1>2 DEF UnregisterMod, Quiet
<1>3. ASSUME NEW t \in Callers, NEW b \in Subs, Subscribe(t, b) PROVE Quiet
  BY <1>3 DEF Subscribe, Quiet
<1>4. ASSUME NEW t \in Callers,
             Tell(t) \/ RegisterReturns(t) \/ NextOfMod(t) \/ ModReturns(t) \/ Listen(t)
      PROVE  Quiet
  BY <1>4 DEF Tell, RegisterReturns, NextOfMod, ModReturns, Listen, Quiet
<1>5. UNCHANGED serviceVars => Quiet
  BY DEF serviceVars, Quiet
<1>. QED BY <1>1, <1>2, <1>3, <1>4, <1>5 DEF ServiceNext

LEMMA Removed ==
  ASSUME ServiceInv, NEW t \in Callers, UnregisterReturns(t)
  PROVE  Top(t).it \in services /\ Top(t).it \in Services
<1>1. ServiceTypeOK /\ FramesFit(stack) /\ RemovedOnce(stack, services)
      /\ stack[t] # <<>> /\ Top(t).op = "unregister"
  BY DEF ServiceInv, StackFits, UnregisterReturns, In
<1>2. /\ Len(stack[t]) \in DOMAIN stack[t] /\ Top(t) = stack[t][Len(stack[t])] /\ FrameFits(Top(t))
  BY <1>1, Innermost DEF Top
<1>3. Top(t).it \in Services
  BY <1>1, <1>2 DEF FrameFits, Publishing
<1>4. Removes(stack[t][Len(stack[t])], Top(t).it)
  BY <1>1, <1>2 DEF Removes
<1>. QED BY <1>1, <1>2, <1>3, <1>4 DEF RemovedOnce

LEMMA StepTables ==
  ASSUME ServiceInv, [ServiceNext]_serviceVars
  PROVE  TablesAgree'
<1>0. TablesAgree /\ ServiceTypeOK
  BY DEF ServiceInv
<1>n. \A s \in Services : NameOfService[s] \in ServiceNames /\ ModOfService[s] \in ServiceMods
  BY DEF ServiceNames, ServiceMods
<1>1. CASE Quiet
  BY <1>0, <1>1 DEF Quiet, records, TablesAgree, Found
<1>2. ASSUME NEW t \in Callers, NEW s \in Services, Register(t, s)
      PROVE  TablesAgree'
  <2>1. /\ Found(s) = {} /\ services' = services \cup {s}
        /\ nameServices' = [nameServices EXCEPT ![NameOfService[s]] = @ \cup {s}]
        /\ modServices' = [modServices EXCEPT ![ModOfService[s]] = @ \cup {s}]
    BY <1>2 DEF Register
  <2>2. \A n \in ServiceNames : nameServices'[n] = {u \in services' : NameOfService[u] = n}
    BY <1>0, <1>n, <2>1 DEF TablesAgree, ServiceTypeOK
  <2>3. \A m \in ServiceMods : modServices'[m] = {u \in services' : ModOfService[u] = m}
    BY <1>0, <1>n, <2>1 DEF TablesAgree, ServiceTypeOK
  <2>4. \A u \in services : ~ SameId(u, s) /\ ~ SameId(s, u)
    BY <2>1 DEF Found, SameId
  <2>5. SameId(s, s)
    BY DEF SameId
  <2>6. ASSUME NEW u \in services' PROVE Found(u)' = {u}
    <3>1. Found(u)' = {v \in services' : SameId(u, v)}
      BY DEF Found, SameId
    <3>2. CASE u = s
      BY <2>1, <2>4, <2>5, <3>1, <3>2
    <3>3. CASE u \in services
      <4>1. {v \in services : SameId(u, v)} = {u}
        BY <1>0, <3>3 DEF TablesAgree, Found
      <4>. QED BY <2>1, <2>4, <3>1, <3>3, <4>1
    <3>. QED BY <2>1, <3>2, <3>3
  <2>. QED BY <2>2, <2>3, <2>6 DEF TablesAgree
<1>3. ASSUME NEW t \in Callers, UnregisterReturns(t)
      PROVE  TablesAgree'
  <2>. DEFINE s == Top(t).it
  <2>1. /\ s \in services /\ s \in Services /\ services' = services \ {s}
        /\ nameServices' = [nameServices EXCEPT ![NameOfService[s]] = @ \ {s}]
        /\ modServices' = [modServices EXCEPT ![ModOfService[s]] = @ \ {s}]
    BY <1>3, Removed DEF UnregisterReturns
  <2>. HIDE DEF s
  <2>2. \A n \in ServiceNames : nameServices'[n] = {u \in services' : NameOfService[u] = n}
    BY <1>0, <1>n, <2>1 DEF TablesAgree, ServiceTypeOK
  <2>3. \A m \in ServiceMods : modServices'[m] = {u \in services' : ModOfService[u] = m}
    BY <1>0, <1>n, <2>1 DEF TablesAgree, ServiceTypeOK
  <2>4. ASSUME NEW u \in services' PROVE Found(u)' = {u}
    <3>1. Found(u)' = {v \in services' : SameId(u, v)}
      BY DEF Found, SameId
    <3>2. {v \in services : SameId(u, v)} = {u}
      BY <1>0, <2>1 DEF TablesAgree, Found
    <3>. QED BY <2>1, <3>1, <3>2
  <2>. QED BY <2>2, <2>3, <2>4 DEF TablesAgree
<1>. QED BY <1>1, <1>2, <1>3, StepKinds

LEMMA StepType ==
  ASSUME ServiceInv, [ServiceNext]_serviceVars
  PROVE  ServiceTypeOK'
<1>0. ServiceTypeOK
  BY DEF ServiceInv
<1>1. stack' \in [Callers -> Seq(Frames)]
  BY StepFits DEF StackFits, FramesFit
<1>. DEFINE Tables == /\ services' \subseteq Services /\ invalid' \subseteq Services
                      /\ nameServices' \in [ServiceNames -> SUBSET Services]
                      /\ modServices' \in [ServiceMods -> SUBSET Services]
            Known == listening' \in [Publishing -> Seq(Subs)] /\ view' \in [Subs -> Services \cup {Nothing}]
<1>2. Tables
  <2>1. Quiet => Tables
    BY <1>0 DEF Quiet, records, ServiceTypeOK
  <2>2. ASSUME NEW t \in Callers, NEW s \in Services, Register(t, s) PROVE Tables
    BY <1>0, <2>2 DEF Register, ServiceTypeOK
  <2>3. ASSUME NEW t \in Callers, UnregisterReturns(t) PROVE Tables
    BY <1>0, <2>3, Removed DEF UnregisterReturns, ServiceTypeOK
  <2>. HIDE DEF Tables
  <2>. QED BY <2>1, <2>2, <2>3, StepKinds
<1>3. Known
  <2>0. UNCHANGED <<listening, view>> => Known
    BY <1>0 DEF ServiceTypeOK
  <2>1. ASSUME NEW t \in Callers, NEW s \in Services, Register(t, s) \/ Unregister(t, s) PROVE Known
    BY <2>0, <2>1 DEF Register, Unregister
  <2>2. ASSUME NEW t \in Callers, NEW m \in ServiceMods, UnregisterMod(t, m) PROVE Known
    BY <2>0, <2>2 DEF UnregisterMod
  <2>3. ASSUME NEW t \in Callers, RegisterReturns(t) \/ UnregisterReturns(t) \/ NextOfMod(t) \/ ModReturns(t)
        PROVE  Known
    BY <2>0, <2>3 DEF RegisterReturns, UnregisterReturns, NextOfMod, ModReturns
  <2>4. ASSUME NEW t \in Callers, NEW b \in Subs, Subscribe(t, b) PROVE Known
    BY <1>0, <2>4 DEF Subscribe, Found, ServiceTypeOK
  <2>5. ASSUME NEW t \in Callers, Tell(t) PROVE Known
    <3>1. FrameFits(Top(t)) /\ Top(t).op \in Publishing
      BY <2>5, Innermost DEF ServiceInv, StackFits, Tell, In, Top
    <3>2. Top(t).it \in Services
      BY <3>1 DEF FrameFits
    <3>. QED BY <1>0, <2>5, <3>2 DEF Tell, ServiceTypeOK
  <2>6. ASSUME NEW t \in Callers, Listen(t) PROVE Known
    <3>1. FrameFits(Top(t)) /\ Top(t).op \in {"subscribe", "subscribed"}
      BY <2>6, Innermost DEF ServiceInv, StackFits, Listen, In, Top
    <3>2. Top(t).it \in Subs
      BY <3>1 DEF FrameFits
    <3>3. \A e \in Publishing : Append(listening[e], Top(t).it) \in Seq(Subs)
      BY <1>0, <3>2 DEF ServiceTypeOK
    <3>. QED BY <1>0, <2>6, <3>3 DEF Listen, ServiceTypeOK
  <2>7. UNCHANGED serviceVars => Known
    BY <2>0 DEF serviceVars
  <2>. HIDE DEF Known
  <2>. QED BY <2>1, <2>2, <2>3, <2>4, <2>5, <2>6, <2>7 DEF ServiceNext
<1>. QED BY <1>1, <1>2, <1>3 DEF ServiceTypeOK

-----------------------------------------------------------------------------
LEMMA InvInit == ServiceInit => ServiceInv
<1>. SUFFICES ASSUME ServiceInit PROVE ServiceInv
  OBVIOUS
<1>1. stack \in [Callers -> Seq(Frames)] /\ \A t \in Callers : DOMAIN stack[t] = {}
  BY EmptySeq DEF ServiceInit
<1>2. ServiceTypeOK
  BY <1>1, EmptySeq DEF ServiceInit, ServiceTypeOK
<1>3. TablesAgree
  BY DEF ServiceInit, TablesAgree
<1>4. StackFits(stack, services, listening, view)
  BY <1>1 DEF StackFits, FramesFit, OneLocks, RemovedOnce, NotAddedMeanwhile,
              ModRemovesOthers, CopiesListen, ToldSoFar
<1>. QED BY <1>2, <1>3, <1>4 DEF ServiceInv

LEMMA InvNext == ServiceInv /\ [ServiceNext]_serviceVars => ServiceInv'
<1>. SUFFICES ASSUME ServiceInv, [ServiceNext]_serviceVars PROVE ServiceInv'
  OBVIOUS
<1>1. StackFits(stack, services, listening, view)'
  BY StepFits DEF StackFits, FramesFit, OneLocks, RemovedOnce, NotAddedMeanwhile,
                  ModRemovesOthers, CopiesListen, ToldSoFar
<1>. QED BY <1>1, StepType, StepTables DEF ServiceInv

\* Every call of the service manager keeps its tables in their types, and what
\* the calls under way know of each other: the mutex is one thread's, and a
\* service that is being removed is there, is not registered or removed again
\* below, and was forgotten by everyone told so far.
THEOREM ServiceInvariance == ServiceSpec => []ServiceInv
<1>. QED BY InvInit, InvNext, PTL DEF ServiceSpec

\* The tables, the subscriptions and the calls under way stay in their types.
THEOREM ServiceTypeCorrect == ServiceSpec => []ServiceTypeOK
<1>1. ServiceInv => ServiceTypeOK
  BY DEF ServiceInv
<1>. QED BY <1>1, ServiceInvariance, PTL

\* Found by id, by name or by mod, a service is the same one, however calls of
\* subscribers nest.
THEOREM TablesStayInStep == ServiceSpec => []TablesAgree
<1>1. ServiceInv => TablesAgree
  BY DEF ServiceInv
<1>. QED BY <1>1, ServiceInvariance, PTL

LEMMA ToldStep ==
  ASSUME ServiceInv, [ServiceNext]_serviceVars, NEW s \in Services, s \in invalid' \ invalid,
         NEW b \in Subs, view[b] = s
  PROVE  \E t \in Callers : In(t, {"unregister"}) /\ Top(t).it = s /\ b \notin ToSet(Top(t).to)
<1>1. ~ Quiet
  BY DEF Quiet
<1>2. ~ \E t \in Callers, u \in Services : Register(t, u)
  BY DEF Register
<1>3. PICK t \in Callers : UnregisterReturns(t)
  BY <1>1, <1>2, StepKinds
<1>4. In(t, {"unregister"}) /\ stack[t] # <<>> /\ Top(t).op = "unregister" /\ Top(t).todo = <<>> /\ Top(t).it = s
  BY <1>3 DEF UnregisterReturns, In
<1>5. Len(stack[t]) \in DOMAIN stack[t] /\ Top(t) = stack[t][Len(stack[t])]
  BY <1>4, Innermost DEF ServiceInv, StackFits, Top
<1>6. Removes(stack[t][Len(stack[t])], s)
  BY <1>4, <1>5 DEF Removes
<1>7. b \notin ToSet(Top(t).to)
  <2>1. ToSet(<<>>) = {}
    BY DEF ToSet
  <2>. QED BY <1>4, <1>5, <1>6, <2>1 DEF ServiceInv, StackFits, ToldSoFar
<1>. QED BY <1>4, <1>7

\* Whoever listened when the removal of a service began has been told, and is
\* left without it, before the service is invalidated.
THEOREM ToldFirst == ServiceSpec => ToldBeforeInvalid
<1>1. ServiceInv /\ [ServiceNext]_serviceVars =>
        [\A s \in Services : s \in invalid' \ invalid =>
           \A b \in Subs : view[b] = s =>
               \E t \in Callers : /\ In(t, {"unregister"}) /\ Top(t).it = s
                                  /\ b \notin ToSet(Top(t).to)]_serviceVars
  BY ToldStep
<1>. QED BY <1>1, ServiceInvariance, PTL DEF ServiceSpec, ToldBeforeInvalid
=============================================================================
