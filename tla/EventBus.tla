------------------------------ MODULE EventBus ------------------------------
(***************************************************************************)
(* ll::event::EventBus: who listens to what, through loads, failed loads,  *)
(* disables and unloads of mods, while events are being published.         *)
(* A call that changes the records holds infoMutex throughout and is one    *)
(* step.  A publication copies the listeners of the event under a lock and *)
(* then calls them without one, so anything may happen between two calls:  *)
(* by another thread, or by a listener that was called.                     *)
(***************************************************************************)
EXTENDS Integers, Sequences, FiniteSets, SequencesExt

CONSTANTS
    Names,      \* names of mods
    Objs,       \* Mod objects, one for each attempt to load a mod
    NameOf,     \* the name of each object
    Listeners,
    OwnerOf,    \* the object a listener's modPtr refers to
    Rank,       \* the order of listeners by (priority, id)
    Events,
    CoreEvents, \* events registered by LeviLamina itself
    Core,       \* LeviLamina as the owner of those
    Nobody,     \* the owner of an event that is not registered
    Everyone,   \* the addressee of a publication to all mods
    Threads

ASSUME EventBusAssumption ==
    /\ NameOf \in [Objs -> Names]
    /\ OwnerOf \in [Listeners -> Objs]
    /\ IsFiniteSet(Listeners)
    /\ Rank \in [Listeners -> Nat]
    /\ \A k, l \in Listeners : Rank[k] = Rank[l] => k = l
    /\ CoreEvents \subseteq Events
    /\ Core \notin Names /\ Nobody \notin Names \cup {Core} /\ Everyone \notin Names

VARIABLES
    life,      \* the life of each Mod object
    status,    \* GamingStatus
    owner,     \* events and modInfos.ownedEvents: who registered the event
    stream,    \* the listeners in the CallbackStream of each event
    attached,  \* listenerInfos.attachedEvents; an empty entry is erased
    held,      \* modInfos.listeners of each name
    pub        \* the publication each thread is in

vars == <<life, status, owner, stream, attached, held, pub>>
busVars == <<owner, stream, attached, held>>

Lives == {"unborn", "loading", "disabled", "enabled", "unloaded", "failed"}
Idle == [event |-> Nobody, to |-> Everyone, todo |-> <<>>, missed |-> {}]

TypeOK ==
    /\ life \in [Objs -> Lives]
    /\ status \in {"Starting", "Running", "Stopping"}
    /\ owner \in [Events -> Names \cup {Core, Nobody}]
    /\ stream \in [Events -> SUBSET Listeners]
    /\ attached \in [Listeners -> SUBSET Events]
    /\ held \in [Names -> SUBSET Listeners]
    /\ pub \in [Threads -> [event : Events \cup {Nobody}, to : Names \cup {Everyone},
                            todo : Seq(Listeners), missed : SUBSET Listeners]]

Alive(o) == life[o] \in {"loading", "disabled", "enabled"}
ModOf(l) == NameOf[OwnerOf[l]]

-----------------------------------------------------------------------------
Init ==
    /\ life = [o \in Objs |-> "unborn"]
    /\ status = "Starting"
    /\ owner = [e \in Events |-> IF e \in CoreEvents THEN Core ELSE Nobody]
    /\ stream = [e \in Events |-> {}]
    /\ attached = [l \in Listeners |-> {}]
    /\ held = [n \in Names |-> {}]
    /\ pub = [t \in Threads |-> Idle]

SetStatus ==
    /\ \/ status = "Starting" /\ status' = "Running"
       \/ status = "Running" /\ status' = "Stopping"
    /\ UNCHANGED <<life, busVars, pub>>

\* setEventEmitter from the code of o; a registered event stays as it is.
SetEventEmitter(o, e) ==
    /\ Alive(o)
    /\ owner[e] = Nobody
    /\ owner' = [owner EXCEPT ![e] = NameOf[o]]
    /\ UNCHANGED <<life, status, stream, attached, held, pub>>

AddListener(l, e) ==
    /\ Alive(OwnerOf[l])
    /\ owner[e] # Nobody
    /\ l \notin stream[e]
    /\ stream' = [stream EXCEPT ![e] = @ \cup {l}]
    /\ attached' = [attached EXCEPT ![l] = @ \cup {e}]
    /\ held' = [held EXCEPT ![ModOf(l)] = @ \cup {l}]
    /\ UNCHANGED <<life, status, owner, pub>>

\* The effect of removing the listeners of L from all their events.
Detach(L) ==
    /\ stream' = [e \in Events |-> stream[e] \ L]
    /\ attached' = [l \in Listeners |-> IF l \in L THEN {} ELSE attached[l]]

\* (Mutant: the mod forgets the listener although it is still attached.)
BugRemoveListener(l, e) ==
    /\ Alive(OwnerOf[l])
    /\ e \in attached[l]
    /\ stream' = [stream EXCEPT ![e] = @ \ {l}]
    /\ attached' = [attached EXCEPT ![l] = @ \ {e}]
    /\ held' = [held EXCEPT ![ModOf(l)] = @ \ {l}]
    /\ UNCHANGED <<life, status, owner, pub>>
\* removeListener for one event: the listener's entries go with its last one.
RemoveListener(l, e) ==
    /\ Alive(OwnerOf[l])
    /\ e \in attached[l]
    /\ stream' = [stream EXCEPT ![e] = @ \ {l}]
    /\ attached' = [attached EXCEPT ![l] = @ \ {e}]
    /\ held' = [held EXCEPT ![ModOf(l)] = IF attached[l] = {e} THEN @ \ {l} ELSE @]
    /\ UNCHANGED <<life, status, owner, pub>>

\* removeListener for all events.
RemoveListenerEverywhere(l) ==
    /\ Alive(OwnerOf[l])
    /\ attached[l] # {}
    /\ Detach({l})
    /\ held' = [held EXCEPT ![ModOf(l)] = @ \ {l}]
    /\ UNCHANGED <<life, status, owner, pub>>

\* What removeModListeners finds: removeListener refuses a listener whose Mod
\* object is gone, and getListener one that is attached nowhere.
Removable(n) == {l \in held[n] : attached[l] # {} /\ Alive(OwnerOf[l])}

-----------------------------------------------------------------------------
\* NativeModManager::load: a new Mod object, whose onLoad runs.
LoadBegins(o) ==
    /\ life[o] = "unborn"
    /\ \A x \in Objs : NameOf[x] = NameOf[o] => ~ Alive(x)
    /\ life' = [life EXCEPT ![o] = "loading"]
    /\ UNCHANGED <<status, busVars, pub>>

\* Mod::onLoad enables the mod at once if the game runs.
LoadEnds(o) ==
    /\ life[o] = "loading"
    /\ life' = [life EXCEPT ![o] = IF status = "Running" THEN "enabled" ELSE "disabled"]
    /\ UNCHANGED <<status, busVars, pub>>

\* onLoad, onEnable or a subscriber failed: the object is destroyed and its
\* library freed, and nobody tells the bus.
LoadFails(o) ==
    /\ life[o] = "loading"
    /\ life' = [life EXCEPT ![o] = "failed"]
    /\ UNCHANGED <<status, busVars, pub>>

Enable(o) ==
    /\ life[o] = "disabled"
    /\ life' = [life EXCEPT ![o] = "enabled"]
    /\ UNCHANGED <<status, busVars, pub>>

\* (Mutant: nothing is removed.)
BugDisable(o) ==
    /\ life[o] = "enabled"
    /\ life' = [life EXCEPT ![o] = "disabled"]
    /\ UNCHANGED <<status, busVars, pub>>
\* The callback of executeOnModDisable removes the mod's listeners, but only
\* while the game runs.
Disable(o) ==
    /\ life[o] = "enabled"
    /\ life' = [life EXCEPT ![o] = "disabled"]
    /\ LET L == IF status = "Running" THEN Removable(NameOf[o]) ELSE {} IN
           /\ Detach(L)
           /\ held' = [held EXCEPT ![NameOf[o]] = @ \ L]
    /\ UNCHANGED <<status, owner, pub>>

\* (Mutant: listeners of other mods keep their entries of the lost event.)
BugUnloadKeepsEntries(o) ==
    /\ life[o] = "disabled"
    /\ life' = [life EXCEPT ![o] = "unloaded"]
    /\ LET gone == {e \in Events : owner[e] = NameOf[o]}
           L    == Removable(NameOf[o])
       IN  /\ owner' = [e \in Events |-> IF e \in gone THEN Nobody ELSE owner[e]]
           /\ stream' = [e \in Events |-> IF e \in gone THEN {} ELSE stream[e] \ L]
           /\ attached' = [l \in Listeners |-> IF l \in L THEN {} ELSE attached[l]]
           /\ held' = [held EXCEPT ![NameOf[o]] = {}]
    /\ UNCHANGED <<status, pub>>
\* clearMod, called by Mod::onUnload after the mod was disabled and its own
\* callback returned: its listeners, and the events it registered with all
\* their listeners.  Other mods' listener lists keep the ids of those.  When
\* the library cannot be freed after that, the mod stays loaded.
Unload(o) ==
    /\ life[o] = "disabled"
    /\ \E l \in {"unloaded", "disabled"} : life' = [life EXCEPT ![o] = l]
    /\ LET gone == {e \in Events : owner[e] = NameOf[o]}
           L    == Removable(NameOf[o])
       IN  /\ owner' = [e \in Events |-> IF e \in gone THEN Nobody ELSE owner[e]]
           /\ stream' = [e \in Events |-> IF e \in gone THEN {} ELSE stream[e] \ L]
           /\ attached' = [l \in Listeners |-> IF l \in L THEN {} ELSE attached[l] \ gone]
           /\ held' = [held EXCEPT ![NameOf[o]] = {}]
    /\ UNCHANGED <<status, pub>>

-----------------------------------------------------------------------------
\* The order of a stream's listeners.
InOrder(L) ==
    CHOOSE s \in SetToSeqs(L) : \A i, j \in DOMAIN s : i < j => Rank[s[i]] < Rank[s[j]]

\* publish: `missed` notes who was in the stream when it began and was not
\* yet called.
Publish(t, e, to) ==
    /\ pub[t] = Idle
    /\ stream[e] # {}
    /\ pub' = [pub EXCEPT ![t] =
           [event |-> e, to |-> to, missed |-> stream[e],
            todo |-> InOrder(stream[e])]]
    /\ UNCHANGED <<life, status, busVars>>

\* A publication to one mod passes over others, and over objects that are gone.
Addressed(p, l) == p.to = Everyone \/ (Alive(OwnerOf[l]) /\ ModOf(l) = p.to)

\* (Mutant: the listeners that follow are looked up in the stream again, by
\* their place in it.)
BugCall(t) ==
    /\ pub[t].todo # <<>>
    /\ LET p    == pub[t]
           l    == Head(p.todo)
           now  == InOrder(stream[p.event])
           next == Cardinality(p.missed \ {l})
       IN  pub' = [pub EXCEPT ![t] =
                      [p EXCEPT !.todo = SubSeq(now, Len(now) - next + 2, Len(now)),
                                !.missed = @ \ {l}]]
    /\ UNCHANGED <<life, status, busVars>>
\* The next listener is called; it may cancel the event, or throw.
Call(t) ==
    /\ pub[t].todo # <<>>
    /\ LET p == pub[t]
           l == Head(p.todo)
       IN  \/ pub' = [pub EXCEPT ![t] = [p EXCEPT !.todo = Tail(@), !.missed = @ \ {l}]]
           \/ Addressed(p, l) /\ pub' = [pub EXCEPT ![t] = Idle]
    /\ UNCHANGED <<life, status, busVars>>

PublishEnds(t) ==
    /\ pub[t] # Idle
    /\ pub[t].todo = <<>>
    /\ pub' = [pub EXCEPT ![t] = Idle]
    /\ UNCHANGED <<life, status, busVars>>

ModCalls(o) == LoadBegins(o) \/ LoadEnds(o) \/ LoadFails(o) \/ Enable(o) \/ Disable(o) \/ Unload(o)
BusCalls ==
    \/ \E o \in Objs, e \in Events : SetEventEmitter(o, e)
    \/ \E l \in Listeners : \/ RemoveListenerEverywhere(l)
                            \/ \E e \in Events : AddListener(l, e) \/ RemoveListener(l, e)
Publications ==
    \E t \in Threads : \/ \E e \in Events, to \in Names \cup {Everyone} : Publish(t, e, to)
                       \/ Call(t) \/ PublishEnds(t)

Next == SetStatus \/ (\E o \in Objs : ModCalls(o)) \/ BusCalls \/ Publications
Spec == Init /\ [][Next]_vars

-----------------------------------------------------------------------------
\* The two records of an attachment agree: a stream holds a listener if and
\* only if listenerInfos says so.  removeListener and clearMod change them in
\* different ways.
RecordsAgree == \A l \in Listeners, e \in Events : l \in stream[e] <=> e \in attached[l]

\* A mod's attached listeners can be found by its name as long as it lives:
\* disabling or unloading it misses none.
ListenersFound ==
    \A l \in Listeners : attached[l] # {} /\ Alive(OwnerOf[l]) => l \in held[ModOf(l)]

\* Only a failed load leaves a listener attached whose mod is gone.
OnlyFailedLoadsLeave ==
    \A l \in Listeners : attached[l] # {} => Alive(OwnerOf[l]) \/ life[OwnerOf[l]] = "failed"

\* Disabling a mod while the game runs leaves it with no listener.
Silences ==
    \A o \in Objs : life[o] = "enabled" /\ life'[o] = "disabled" /\ status = "Running" =>
        \A l \in Listeners : OwnerOf[l] = o => attached'[l] = {}
DisableSilences == [][Silences]_vars

\* A publication that is not cancelled comes to every listener that was attached
\* when it began, once and in their order, though others come and go while it
\* runs: the next is the first of those it has missed, and it ends when there
\* are none.
Delivers ==
    \A t \in Threads : pub[t] # Idle =>
        LET next == Head(pub[t].todo) IN
        IF pub[t].todo = <<>> THEN pub[t].missed = {}
        ELSE /\ next \in pub[t].missed
             /\ \A l \in pub[t].missed : Rank[next] <= Rank[l]

\* A listener is never called once its mod was unloaded, its code gone.
NotCalledAfterUnload ==
    \A t \in Threads : pub[t].todo # <<>> =>
        LET l == Head(pub[t].todo) IN
            Addressed(pub[t], l) => life[OwnerOf[l]] # "unloaded"
=============================================================================
