---------------------------- MODULE ServiceManager ----------------------------
(***************************************************************************)
(* ll::service::ServiceManager: services by id, name and mod, and those    *)
(* who subscribed to one.  A registration or removal holds a recursive     *)
(* mutex while it publishes its event, so the code of a subscriber may call *)
(* the manager again on the same thread; a subscription holds it only while *)
(* it looks the service up.                                                *)
(* Left out, because what they do to the iterator that removeServiceUnlocked*)
(* keeps is undefined: to remove again what is being removed, and to let    *)
(* the table grow while it removes.                                        *)
(***************************************************************************)
EXTENDS Integers, Sequences, FiniteSets, SequencesExt, Selections

CONSTANTS
    Services,   \* Service objects
    NameOfService, VersionOf, ModOfService,   \* of each of them
    Subs,       \* calls of subscribeService
    Wants,      \* a service with the id that each of them is about
    Nothing,    \* nullptr, and that no service was found
    Callers,
    MaxDepth    \* bound: how deep calls nest on a thread

ASSUME ServiceManagerAssumption ==
    /\ IsFiniteSet(Services) /\ VersionOf \in [Services -> Nat]
    /\ DOMAIN NameOfService = Services /\ DOMAIN ModOfService = Services
    /\ Wants \in [Subs -> Services] /\ Nothing \notin Services
    /\ MaxDepth >= 1

VARIABLES
    services,       \* Impl::services
    nameServices, modServices,
    invalid,        \* services that were told they are removed
    listening,      \* the subscriptions among the listeners of each event
    view,           \* what each subscriber was told last
    stack           \* the calls each thread is in, the innermost last

records == <<services, nameServices, modServices>>
serviceVars == <<records, invalid, listening, view, stack>>

ServiceNames == {NameOfService[s] : s \in Services}
ServiceMods == {ModOfService[s] : s \in Services}
SameId(s, u) == NameOfService[s] = NameOfService[u] /\ VersionOf[s] = VersionOf[u]
Found(s) == {u \in services : SameId(s, u)}
Publishing == {"register", "unregister"}

\* `to` is the copy of the listeners, `todo` what is left of it; for
\* "unregisterMod" todo has the services whose ids are left.
Frames == [op : Publishing \cup {"unregisterMod", "subscribe", "subscribed"},
           it : Services \cup Subs \cup ServiceMods,
           to : Seq(Subs \cup Services), todo : Seq(Subs \cup Services)]

ServiceTypeOK ==
    /\ services \subseteq Services
    /\ nameServices \in [ServiceNames -> SUBSET Services]
    /\ modServices \in [ServiceMods -> SUBSET Services]
    /\ invalid \subseteq Services
    /\ listening \in [Publishing -> Seq(Subs)]
    /\ view \in [Subs -> Services \cup {Nothing}]
    /\ stack \in [Callers -> Seq(Frames)]

ServiceInit ==
    /\ services = {} /\ invalid = {}
    /\ nameServices = [n \in ServiceNames |-> {}] /\ modServices = [m \in ServiceMods |-> {}]
    /\ listening = [e \in Publishing |-> <<>>]
    /\ view = [b \in Subs |-> Nothing]
    /\ stack = [t \in Callers |-> <<>>]

-----------------------------------------------------------------------------
Frame(op, it, todo) == [op |-> op, it |-> it, to |-> todo, todo |-> todo]
Top(t) == Last(stack[t])
In(t, ops) == stack[t] # <<>> /\ Top(t).op \in ops

Push(t, frame) == stack' = [stack EXCEPT ![t] = Append(@, frame)]
Pop(t) == stack' = [stack EXCEPT ![t] = Front(@)]

\* The mutex is free or this thread's already.
MayLock(t) == \A u \in Callers \ {t} :
    \A k \in DOMAIN stack[u] : stack[u][k].op \in {"subscribe", "subscribed"}

\* A mod calls from nowhere, or as a subscriber that was just told something.
MayCall(t) ==
    /\ Len(stack[t]) < MaxDepth
    /\ stack[t] # <<>> => \/ Top(t).op \in Publishing /\ Top(t).todo # Top(t).to
                          \/ Top(t).op = "subscribe" /\ view[Top(t).it] # Nothing

\* The copy of the listeners that publish makes; a listener for another id
\* does nothing.
Copy(e, s) == Selected(listening[e], {b \in Subs : SameId(Wants[b], s)})

\* addService.
Register(t, s) ==
    /\ MayCall(t) /\ MayLock(t)
    /\ Found(s) = {}
    /\ services' = services \cup {s}
    /\ nameServices' = [nameServices EXCEPT ![NameOfService[s]] = @ \cup {s}]
    /\ modServices' = [modServices EXCEPT ![ModOfService[s]] = @ \cup {s}]
    /\ invalid' = invalid \ {s}
    /\ Push(t, Frame("register", s, Copy("register", s)))
    /\ UNCHANGED <<listening, view>>

Tell(t) ==
    /\ In(t, Publishing) /\ Top(t).todo # <<>>
    /\ view' = [view EXCEPT ![Head(Top(t).todo)] =
                    IF Top(t).op = "register" THEN Top(t).it ELSE Nothing]
    /\ stack' = [stack EXCEPT ![t][Len(stack[t])].todo = Tail(@)]
    /\ UNCHANGED <<records, invalid, listening>>

RegisterReturns(t) ==
    /\ In(t, {"register"}) /\ Top(t).todo = <<>>
    /\ Pop(t)
    /\ UNCHANGED <<records, invalid, listening, view>>

BeingRemoved(s) ==
    \E t \in Callers : \E k \in DOMAIN stack[t] :
        stack[t][k].op = "unregister" /\ stack[t][k].it = s

\* (Mutant: the service is invalidated first.)
BugUnregister(t, s) ==
    /\ MayCall(t) /\ MayLock(t)
    /\ s \in services /\ ~ BeingRemoved(s)
    /\ Push(t, Frame("unregister", s, Copy("unregister", s)))
    /\ invalid' = invalid \cup {s}
    /\ UNCHANGED <<records, listening, view>>
\* removeService(id), up to the copy of the listeners of its event.
Unregister(t, s) ==
    /\ MayCall(t) /\ MayLock(t)
    /\ s \in services /\ ~ BeingRemoved(s)
    /\ Push(t, Frame("unregister", s, Copy("unregister", s)))
    /\ UNCHANGED <<records, invalid, listening, view>>

\* (Mutant: the name goes with one of its versions.)
BugUnregisterReturns(t) ==
    /\ In(t, {"unregister"}) /\ Top(t).todo = <<>>
    /\ LET s == Top(t).it IN
           /\ invalid' = invalid \cup {s}
           /\ modServices' = [modServices EXCEPT ![ModOfService[s]] = @ \ {s}]
           /\ nameServices' = [nameServices EXCEPT ![NameOfService[s]] = {}]
           /\ services' = services \ {s}
    /\ Pop(t)
    /\ UNCHANGED <<listening, view>>
UnregisterReturns(t) ==
    /\ In(t, {"unregister"}) /\ Top(t).todo = <<>>
    /\ LET s == Top(t).it IN
           /\ invalid' = invalid \cup {s}
           /\ modServices' = [modServices EXCEPT ![ModOfService[s]] = @ \ {s}]
           /\ nameServices' = [nameServices EXCEPT ![NameOfService[s]] = @ \ {s}]
           /\ services' = services \ {s}
    /\ Pop(t)
    /\ UNCHANGED <<listening, view>>

\* removeService(modName) removes by the ids it copied first.
UnregisterMod(t, m) ==
    /\ MayCall(t) /\ MayLock(t)
    /\ modServices[m] # {} /\ \A s \in modServices[m] : ~ BeingRemoved(s)
    /\ \E order \in SetToSeqs(modServices[m]) : Push(t, Frame("unregisterMod", m, order))
    /\ UNCHANGED <<records, invalid, listening, view>>

NextOfMod(t) ==
    /\ In(t, {"unregisterMod"}) /\ Top(t).todo # <<>>
    /\ Len(stack[t]) < MaxDepth + 1
    /\ LET found == Found(Head(Top(t).todo))
           rest  == [Top(t) EXCEPT !.todo = Tail(@)]
       IN  \/ found = {} /\ stack' = [stack EXCEPT ![t] = Append(Front(@), rest)]
           \/ \E s \in found : stack' = [stack EXCEPT ![t] =
                  Front(@) \o <<rest, Frame("unregister", s, Copy("unregister", s))>>]
    /\ UNCHANGED <<records, invalid, listening, view>>

ModReturns(t) ==
    /\ In(t, {"unregisterMod"}) /\ Top(t).todo = <<>>
    /\ Pop(t)
    /\ UNCHANGED <<records, invalid, listening, view>>

-----------------------------------------------------------------------------
\* subscribeService looks the service up and passes it to the subscriber ...
Subscribe(t, b) ==
    /\ MayCall(t) /\ MayLock(t)
    /\ \A e \in Publishing : b \notin ToSet(listening[e])
    /\ \A u \in Callers : \A k \in DOMAIN stack[u] :
           stack[u][k].op \in {"subscribe", "subscribed"} => stack[u][k].it # b
    /\ Push(t, Frame("subscribe", b, <<>>))
    /\ \/ Found(Wants[b]) = {} /\ UNCHANGED view
       \/ \E s \in Found(Wants[b]) : view' = [view EXCEPT ![b] = s]
    /\ UNCHANGED <<records, invalid, listening>>

\* ... and then adds the listener to one event after the other.
Listen(t) ==
    /\ In(t, {"subscribe", "subscribed"})
    /\ LET first == Top(t).op = "subscribe"
           event == IF first THEN "register" ELSE "unregister"
       IN  /\ listening' = [listening EXCEPT ![event] = Append(@, Top(t).it)]
           /\ stack' = [stack EXCEPT ![t] = IF first
                            THEN Append(Front(@), [Top(t) EXCEPT !.op = "subscribed"])
                            ELSE Front(@)]
    /\ UNCHANGED <<records, invalid, view>>

ServiceNext ==
    \E t \in Callers :
        \/ \E s \in Services : Register(t, s) \/ Unregister(t, s)
        \/ \E m \in ServiceMods : UnregisterMod(t, m)
        \/ \E b \in Subs : Subscribe(t, b)
        \/ Tell(t) \/ RegisterReturns(t) \/ UnregisterReturns(t)
        \/ NextOfMod(t) \/ ModReturns(t) \/ Listen(t)

ServiceSpec == ServiceInit /\ [][ServiceNext]_serviceVars

-----------------------------------------------------------------------------
\* The three tables have the same services, whatever subscribers did while
\* they were told: the service asked for by id is found by its name and by its
\* mod, a name keeps its other versions, and no id is there twice.
TablesAgree ==
    /\ \A n \in ServiceNames : nameServices[n] = {s \in services : NameOfService[s] = n}
    /\ \A m \in ServiceMods : modServices[m] = {s \in services : ModOfService[s] = m}
    /\ \A s \in services : Found(s) = {s}

\* A service is not invalidated before everyone who listened when its removal
\* began was told, and by then none of them is left with it, whatever a
\* subscriber called in between.
ToldBeforeInvalid ==
    [][\A s \in Services : s \in invalid' \ invalid =>
           \A b \in Subs : view[b] = s =>
               \E t \in Callers : /\ In(t, {"unregister"}) /\ Top(t).it = s
                                  /\ b \notin ToSet(Top(t).to)]_serviceVars

\* src-test/server/ServiceTest.cpp:110-111: a subscriber is told of the instance
\* when the service is registered, and of nullptr when it is removed.  So once
\* no call is under way it knows what is registered.
SubscribersAgree ==
    (\A t \in Callers : stack[t] = <<>>) =>
        \A b \in ToSet(listening["unregister"]) :
            Found(Wants[b]) = IF view[b] = Nothing THEN {} ELSE {view[b]}
=============================================================================
