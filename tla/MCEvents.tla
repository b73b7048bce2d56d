------------------------------ MODULE MCEvents ------------------------------
(* The event bus, the overloads of a command, which see the same lives of     *)
(* mods, and the service manager, which publishes on the bus.  They share no  *)
(* other state: in a behaviour one of them moves.                             *)
(* Two mods on the bus; x may be loaded twice.  One event is LeviLamina's,    *)
(* one is left for a mod to register.  Two versions of a service, a second    *)
(* object with the id of the first, from two mods; two subscribers.           *)
EXTENDS CommandHandle, ServiceManager

CONSTANTS x, y, x1, x2, y1, lx1, lx2, ly, tick, custom, t1,
          s1, s2, s3, m1, m2,
          Parts   \* what moves: one of these in each behaviour

VARIABLE part

MCInit == Init /\ CommandInit /\ ServiceInit /\ part \in Parts
MCNext ==
    \/ part = "bus" /\ Next /\ UNCHANGED <<commandVars, serviceVars, part>>
    \/ part = "commands" /\ CommandNext /\ UNCHANGED <<serviceVars, part>>
    \/ part = "services" /\ ServiceNext /\ UNCHANGED <<vars, commandVars, part>>
MCSpec == MCInit /\ [][MCNext]_<<vars, commandVars, serviceVars, part>>

MCNames == {x, y}
MCObjs == {x1, x2, y1}
MCNameOf == (x1 :> x) @@ (x2 :> x) @@ (y1 :> y)
MCListeners == {lx1, lx2, ly}
MCOwnerOf == (lx1 :> x1) @@ (lx2 :> x2) @@ (ly :> y1)
MCRank == (ly :> 1) @@ (lx1 :> 2) @@ (lx2 :> 3)
MCEvents == {tick, custom}
MCCoreEvents == {tick}
MCThreads == {t1}

MCServices == {s1, s2, s3}
MCNameOfService == [s \in Services |-> "service"]
MCVersionOf == [s \in Services |-> IF s = s2 THEN 2 ELSE 1]
MCModOfService == [s \in Services |-> IF s = s3 THEN m2 ELSE m1]
MCWants == [b \in Subs |-> s1]
=============================================================================
