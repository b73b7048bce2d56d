--------------------------- MODULE MCModRegistrar ---------------------------
(* A small world: three mods, each with manifests that differ in version and *)
(* in what they declare, as they would after an update on disk; on a server   *)
(* or client, whose hooks call enableAllMods, or on Android, where none does  *)
(* and the loader may be launched again.                                      *)
EXTENDS ModRegistrar

CONSTANTS a, b, c, Script

VARIABLE android

OnAndroid == INSTANCE ModRegistrar WITH HasEnableHook <- FALSE

MCInit == Init /\ android \in BOOLEAN
MCNext == \/ ~ android /\ Next
          \/ android /\ OnAndroid!Next
MCSpec == MCInit /\ [][MCNext /\ UNCHANGED android]_<<vars, android>>

MCMods == {a, b, c}
MCVersions == {1, 2}
MCTypes == {Native, Script}

Dep(m, r) == [name |-> m, range |-> r]
Plain(m, v) ==
    [name |-> m, version |-> v, type |-> Native, platformCompatible |-> TRUE,
     passive |-> FALSE, dependencies |-> {}, optionalDependencies |-> {},
     conflicts |-> {}, loadBefore |-> {}]

A1 == [Plain(a, 1) EXCEPT !.passive = TRUE, !.type = Script]
A2 == [Plain(a, 2) EXCEPT !.optionalDependencies = {Dep(c, NoRange)}]
B1 == [Plain(b, 1) EXCEPT !.dependencies = {Dep(a, {1})}]
B2 == [Plain(b, Unversioned) EXCEPT !.optionalDependencies = {Dep(a, NoRange)},
                                    !.conflicts = {Dep(c, {2})}]
C1 == [Plain(c, 1) EXCEPT !.dependencies = {Dep(b, NoRange)}]
C2 == [Plain(c, 2) EXCEPT !.conflicts = {Dep(a, {2})}, !.loadBefore = {Dep(b, NoRange)}]

MCManifests == {A1, A2, B1, B2, C1, C2}

=============================================================================
