-------------------------- MODULE LifecycleContract --------------------------
(***************************************************************************)
(* What the life cycle promises to a mod that depends on another: the mod   *)
(* it was bound to when it loaded does not go away before it does, and is   *)
(* not switched off under it.                                               *)
(***************************************************************************)
CONSTANT Mods

VARIABLES
    present,   \* mods that are loaded
    active,    \* mods that are enabled
    bound      \* <<m, d>>: m relies on d

vars == <<present, active, bound>>

Init == present = {} /\ active = {} /\ bound = {}

\* m appears, relying on some mods that are already there.
Appear(m, deps) ==
    /\ m \notin present
    /\ deps \subseteq present
    /\ present' = present \cup {m}
    /\ bound' = bound \cup ({m} \X deps)
    /\ active' \in {active, active \cup {m}}

\* m disappears; nothing present relies on it.
Disappear(m) ==
    /\ m \in present
    /\ \A x \in present : <<x, m>> \notin bound
    /\ present' = present \ {m}
    /\ active' = active \ {m}
    /\ bound' = {e \in bound : e[1] # m}

Activate(m) ==
    /\ m \in present
    /\ active' = active \cup {m}
    /\ UNCHANGED <<present, bound>>

\* m is switched off; nothing active relies on it.
Deactivate(m) ==
    /\ \A x \in active : <<x, m>> \notin bound
    /\ active' = active \ {m}
    /\ UNCHANGED <<present, bound>>

Next ==
    \E m \in Mods :
        \/ \E deps \in SUBSET present : Appear(m, deps)
        \/ Disappear(m)
        \/ Activate(m)
        \/ Deactivate(m)

Spec == Init /\ [][Next]_vars
=============================================================================
