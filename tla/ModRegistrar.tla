---------------------------- MODULE ModRegistrar ----------------------------
(***************************************************************************)
(* The life cycle of mods: ll::mod::ModRegistrar with the registry, manager *)
(* and Mod calls it makes.  A registrar call holds a recursive mutex from   *)
(* its first line to its last, so an operation on one mod is one step.  The *)
(* loops of loadAllMods, enableAllMods and disableAllMods take a step per   *)
(* mod; while the main thread is in one (`main`), it holds the mutex.       *)
(* Every callback a mod or a subscriber supplies may fail.                  *)
(***************************************************************************)
EXTENDS ModManifest, SequencesExt

CONSTANTS
    NoMod,          \* the absence of a mod
    Native,         \* the type of NativeModManager
    HasEnableHook   \* FALSE on Android, where no hook calls enableAllMods

ASSUME RegistrarAssumption ==
    /\ NoMod \notin Manifests
    /\ Native \in Types
    /\ HasEnableHook \in BOOLEAN

VARIABLES
    managers,     \* types whose manager is registered
    loaded,       \* the manifest of each mod the registry finds, else NoMod
    enabled,      \* mods in Mod::State::Enabled
    nodes,        \* nodes of lifecycleDependencies
    dependOn,     \* its edges: <<m, d>> when m is bound to its dependency d
    loadedOrder,
    status,       \* GamingStatus
    main,         \* where the main thread is
    plan,         \* what loadAllMods has still to load
    todo,         \* the names enableAllMods or disableAllMods has still to visit
    failed        \* mods whose own callback failed during that loop

vars == <<managers, loaded, enabled, nodes, dependOn, loadedOrder,
          status, main, plan, todo, failed>>
graphVars == <<nodes, dependOn, loadedOrder>>
loopVars == <<main, plan, todo, failed>>

MainStates == {"boot", "loading", "ready", "enabling", "enabled", "running",
               "stopping", "disabling", "stopped"}
LockFree == main \notin {"loading", "enabling", "disabling"}

TypeOK ==
    /\ managers \subseteq Types
    /\ loaded \in [Mods -> Manifests \cup {NoMod}]
    /\ enabled \subseteq Mods
    /\ nodes \subseteq Mods
    /\ dependOn \subseteq Mods \X Mods
    /\ loadedOrder \in Seq(Mods)
    /\ status \in {"Default", "Starting", "Running", "Stopping"}
    /\ main \in MainStates
    /\ plan \in Seq(Manifests)
    /\ todo \in Seq(Mods)
    /\ failed \subseteq Mods

-----------------------------------------------------------------------------
HasMod(m) == loaded[m] # NoMod
LoadedMods == {m \in Mods : HasMod(m)}
LoadedManifests == {loaded[m] : m \in LoadedMods}

DependenciesPresent(mf) ==
    \A d \in mf.dependencies :
        HasMod(d.name) /\ MatchesDependency(loaded[d.name], d)
DependenciesEnabled(m) ==
    \A d \in loaded[m].dependencies : HasMod(d.name) /\ d.name \in enabled

DependentBy(m) == {x \in Mods : <<x, m>> \in dependOn}
EnabledDependents(m) == {x \in DependentBy(m) : HasMod(x) /\ x \in enabled}

\* Impl::commitLoadedMod: declared dependencies that are loaded now, and
\* match, are bound; a mod is never bound to itself.
BoundAmong(mf, declared) ==
    {d.name : d \in {e \in declared :
                        /\ e.name # mf.name
                        /\ HasMod(e.name)
                        /\ MatchesDependency(loaded[e.name], e)}}
\* (Mutants, each a bug the properties must notice, stand before what they
\* replace: here, optional dependencies are the only ones bound.)
BugBindsOptionalOnly(mf) == BoundAmong(mf, mf.optionalDependencies)
BoundBy(mf) == BoundAmong(mf, mf.dependencies \cup mf.optionalDependencies)
\* (Mutant: the newest mod is put first.)
BugCommitFirst(mf) ==
    /\ nodes' = nodes \cup {mf.name}
    /\ loadedOrder' = IF mf.name \in Range(loadedOrder)
                      THEN loadedOrder ELSE <<mf.name>> \o loadedOrder
    /\ dependOn' = dependOn \cup ({mf.name} \X BoundBy(mf))
ListLoadedMod(mf) ==
    /\ nodes' = nodes \cup {mf.name}
    /\ loadedOrder' = IF mf.name \in Range(loadedOrder)
                      THEN loadedOrder ELSE Append(loadedOrder, mf.name)
CommitLoadedMod(mf) ==
    /\ ListLoadedMod(mf)
    /\ dependOn' = dependOn \cup ({mf.name} \X BoundBy(mf))

\* Impl::eraseLoadedMod: the graph drops a node only if nothing is bound to
\* it; a name is in loadedOrder once at most.
Without(s, m) ==
    IF m \in Range(s)
    THEN RemoveAt(s, CHOOSE i \in DOMAIN s : s[i] = m) ELSE s
\* (Mutant: the node stays in the graph.)
BugEraseKeepsNode(m) ==
    /\ UNCHANGED <<nodes, dependOn>>
    /\ loadedOrder' = Without(loadedOrder, m)
EraseLoadedMod(m) ==
    /\ IF DependentBy(m) = {}
       THEN /\ nodes' = nodes \ {m}
            /\ dependOn' = {e \in dependOn : e[1] # m}
       ELSE UNCHANGED <<nodes, dependOn>>
    /\ loadedOrder' = Without(loadedOrder, m)

\* ModManagerRegistry::loadMod where every callback succeeds.  The new Mod is
\* Disabled, and Mod::onLoad enables it at once if the game already runs.
RegistryLoadMod(mf) ==
    /\ mf.type \in managers
    /\ ~ HasMod(mf.name)
    /\ loaded' = [loaded EXCEPT ![mf.name] = mf]
    /\ enabled' = IF status = "Running" THEN enabled \cup {mf.name}
                                        ELSE enabled \ {mf.name}
LoadsMod(mf) == RegistryLoadMod(mf) /\ CommitLoadedMod(mf)

-----------------------------------------------------------------------------
Init ==
    /\ managers = {}
    /\ loaded = [m \in Mods |-> NoMod]
    /\ enabled = {}
    /\ nodes = {}
    /\ dependOn = {}
    /\ loadedOrder = <<>>
    /\ status = "Starting"
    /\ main = "boot"
    /\ plan = <<>>
    /\ todo = <<>>
    /\ failed = {}

\* loadAllMods up to its loop.  A second call finds the manager registered,
\* and returns.
LoadAllMods ==
    /\ main = "boot"
    /\ IF Native \in managers
       THEN main' = "ready" /\ UNCHANGED <<managers, plan>>
       ELSE /\ managers' = managers \cup {Native}
            /\ \E disk \in SUBSET Manifests :
                   IsDisk(disk) /\ \E p \in Plans(disk) : plan' = p
            /\ main' = "loading"
    /\ UNCHANGED <<loaded, enabled, graphVars, status, todo, failed>>

LoadNext ==
    /\ main = "loading"
    /\ plan # <<>>
    /\ DependenciesPresent(Head(plan))
    /\ LoadsMod(Head(plan))
    /\ plan' = Tail(plan)
    /\ UNCHANGED <<managers, status, main, todo, failed>>

\* A dependency failed to load, the type is unknown, or the load itself fails.
SkipNext ==
    /\ main = "loading"
    /\ plan # <<>>
    /\ plan' = Tail(plan)
    /\ UNCHANGED <<managers, loaded, enabled, graphVars, status, main, todo, failed>>

LoadAllDone ==
    /\ main = "loading"
    /\ plan = <<>>
    /\ main' = "ready"
    /\ UNCHANGED <<managers, loaded, enabled, graphVars, status, plan, todo, failed>>

\* getSortedModNames leaves out names the registry lost; so does the loop, and
\* none comes back in between, so it is left to the loop.
EnableAllMods ==
    /\ HasEnableHook
    /\ main = "ready"
    /\ main' = "enabling"
    /\ todo' = loadedOrder
    /\ failed' = {}
    /\ UNCHANGED <<managers, loaded, enabled, graphVars, status, plan>>

\* One mod of the loop: skipped, refused by enableMod, enabled, or its own
\* onEnable (or a subscriber's onModEnable) fails.
EnableNext ==
    /\ main = "enabling"
    /\ todo # <<>>
    /\ LET m == Head(todo) IN
           IF ~ HasMod(m) \/ m \in enabled \/ ~ DependenciesEnabled(m)
           THEN UNCHANGED <<enabled, failed>>
           ELSE \/ enabled' = enabled \cup {m} /\ UNCHANGED failed
                \/ failed' = failed \cup {m} /\ UNCHANGED enabled
    /\ todo' = Tail(todo)
    /\ UNCHANGED <<managers, loaded, graphVars, status, main, plan>>

EnableAllDone ==
    /\ main = "enabling"
    /\ todo = <<>>
    /\ main' = "enabled"
    /\ UNCHANGED <<managers, loaded, enabled, graphVars, status, plan, todo, failed>>

SetRunning ==
    /\ main = "enabled"
    /\ main' = "running"
    /\ status' = "Running"
    /\ UNCHANGED <<managers, loaded, enabled, graphVars, plan, todo, failed>>

SetStopping ==
    /\ main = (IF HasEnableHook THEN "running" ELSE "ready")
    /\ main' = "stopping"
    /\ status' = "Stopping"
    /\ UNCHANGED <<managers, loaded, enabled, graphVars, plan, todo, failed>>

\* (Mutant: the loop runs in load order.)
BugDisableInLoadOrder ==
    /\ main = "stopping"
    /\ main' = "disabling"
    /\ todo' = loadedOrder
    /\ failed' = {}
    /\ UNCHANGED <<managers, loaded, enabled, graphVars, status, plan>>
DisableAllMods ==
    /\ main = "stopping"
    /\ main' = "disabling"
    /\ todo' = Reverse(loadedOrder)
    /\ failed' = {}
    /\ UNCHANGED <<managers, loaded, enabled, graphVars, status, plan>>

DisableNext ==
    /\ main = "disabling"
    /\ todo # <<>>
    /\ LET m == Head(todo) IN
           IF ~ HasMod(m) \/ m \notin enabled \/ EnabledDependents(m) # {}
           THEN UNCHANGED <<enabled, failed>>
           ELSE \/ enabled' = enabled \ {m} /\ UNCHANGED failed
                \/ failed' = failed \cup {m} /\ UNCHANGED enabled
    /\ todo' = Tail(todo)
    /\ UNCHANGED <<managers, loaded, graphVars, status, main, plan>>

DisableAllDone ==
    /\ main = "disabling"
    /\ todo = <<>>
    /\ main' = "stopped"
    /\ status' = "Default"
    /\ UNCHANGED <<managers, loaded, enabled, graphVars, plan, todo, failed>>

\* On Android the launcher may disable and enable the loader again.
Relaunch ==
    /\ ~ HasEnableHook
    /\ main = "stopped"
    /\ main' = "boot"
    /\ status' = "Starting"
    /\ UNCHANGED <<managers, loaded, enabled, graphVars, plan, todo, failed>>

-----------------------------------------------------------------------------
\* (Mutant: conflicts that loaded mods declare are not looked at.)
BugLoadOneSidedConflict(mf) ==
    /\ LockFree
    /\ mf.platformCompatible
    /\ DependenciesPresent(mf)
    /\ \A x \in LoadedManifests : ~ Declares(mf.conflicts, x)
    /\ LoadsMod(mf)
    /\ UNCHANGED <<managers, status, loopVars>>

\* A conflict that either of the two declares.
ConflictsWithLoaded(mf) ==
    \E x \in LoadedManifests : Declares(mf.conflicts, x) \/ Declares(x.conflicts, mf)
\* `ll load`.  The manifest is read from disk now, so it need not be the one
\* an earlier load saw; loadBefore only warns.  A failing load leaves no trace.
LoadMod(mf) ==
    /\ LockFree
    /\ mf.platformCompatible
    /\ DependenciesPresent(mf)
    /\ ~ ConflictsWithLoaded(mf)
    /\ LoadsMod(mf)
    /\ UNCHANGED <<managers, status, loopVars>>

UnloadMod(m) ==
    /\ LockFree
    /\ HasMod(m)
    /\ DependentBy(m) = {}
    /\ loaded' = [loaded EXCEPT ![m] = NoMod]
    /\ enabled' = enabled \ {m}
    /\ EraseLoadedMod(m)
    /\ UNCHANGED <<managers, status, loopVars>>

\* Mod::onUnload disables first; when a later step fails (onUnload, a
\* subscriber, freeing the library) the mod stays loaded, Disabled.
UnloadModFails(m) ==
    /\ LockFree
    /\ HasMod(m)
    /\ DependentBy(m) = {}
    /\ enabled' = enabled \ {m}
    /\ UNCHANGED <<managers, loaded, graphVars, status, loopVars>>

EnableMod(m) ==
    /\ LockFree
    /\ HasMod(m)
    /\ m \notin enabled
    /\ DependenciesEnabled(m)
    /\ enabled' = enabled \cup {m}
    /\ UNCHANGED <<managers, loaded, graphVars, status, loopVars>>

\* (Mutant: dependents are not looked at.)
BugDisableUnchecked(m) ==
    /\ LockFree
    /\ HasMod(m)
    /\ m \in enabled
    /\ enabled' = enabled \ {m}
    /\ UNCHANGED <<managers, loaded, graphVars, status, loopVars>>

DisableMod(m) ==
    /\ LockFree
    /\ HasMod(m)
    /\ m \in enabled
    /\ EnabledDependents(m) = {}
    /\ enabled' = enabled \ {m}
    /\ UNCHANGED <<managers, loaded, graphVars, status, loopVars>>

\* Called from a mod's code, at any moment, also during a pass: so not before
\* loadAllMods has registered the first manager.
AddManager(t) ==
    /\ main # "boot" \/ managers # {}
    /\ t \notin managers
    /\ managers' = managers \cup {t}
    /\ UNCHANGED <<loaded, enabled, graphVars, status, loopVars>>

MainThread ==
    \/ LoadAllMods \/ LoadNext \/ SkipNext \/ LoadAllDone
    \/ EnableAllMods \/ EnableNext \/ EnableAllDone \/ SetRunning
    \/ SetStopping \/ DisableAllMods \/ DisableNext \/ DisableAllDone
    \/ Relaunch

Commands ==
    \/ \E mf \in Manifests : LoadMod(mf)
    \/ \E m \in Mods : \/ UnloadMod(m) \/ UnloadModFails(m)
                       \/ EnableMod(m) \/ DisableMod(m)

Next == MainThread \/ Commands \/ \E t \in Types : AddManager(t)

Spec == Init /\ [][Next]_vars

-----------------------------------------------------------------------------
(* What the life cycle must keep. *)

\* The three records of what is loaded agree: the registry, the nodes of the
\* graph (whose edges join loaded mods) and loadedOrder (each mod once).
\* commitLoadedMod and eraseLoadedMod update two of them after the first.
RecordsAgree ==
    /\ nodes = LoadedMods
    /\ Range(loadedOrder) = nodes
    /\ IsInjective(loadedOrder)
    /\ dependOn \subseteq nodes \X nodes

\* A loaded mod's required dependencies stay loaded, in a version it accepts,
\* and it stays bound to them, through any unloading and reloading.
RequiredStayBound ==
    \A m \in LoadedMods : \A d \in loaded[m].dependencies :
        /\ HasMod(d.name)
        /\ MatchesDependency(loaded[d.name], d)
        /\ <<m, d.name>> \in dependOn

Precedes(s, x, y) == \E i, j \in DOMAIN s : i < j /\ s[i] = x /\ s[j] = y

\* loadedOrder lists a dependency before whatever is bound to it, so one pass
\* of enableAllMods, or a reverse one of disableAllMods, suffices; it also
\* means the graph has no cycle, in which no mod could be unloaded.
DependenciesFirst ==
    \A e \in dependOn : Precedes(loadedOrder, e[2], e[1])

\* No two loaded mods are in a conflict either declares, whichever of them
\* loaded first and whether at startup or later.
NoLoadedConflict == ConflictFree(LoadedManifests)

\* Each mod is loaded under its own name, and nothing is loaded, or could be,
\* before loadAllMods has registered the native manager.
NamesMatch == \A m \in LoadedMods : loaded[m].name = m
NothingBeforeNative ==
    Native \notin managers => main = "boot" /\ managers = {} /\ LoadedMods = {}

\* While loadAllMods runs, what it has still to load fits what is loaded.
NoConflictAhead ==
    main = "loading" => ConflictFree(LoadedManifests \cup Range(plan))

\* The inductive invariant of Spec.
IInv ==
    /\ TypeOK
    /\ RecordsAgree
    /\ NamesMatch
    /\ enabled \subseteq LoadedMods
    /\ NothingBeforeNative
    /\ RequiredStayBound
    /\ DependenciesFirst
    /\ NoLoadedConflict
    /\ NoConflictAhead

\* No step disables, unloads or replaces a mod while an enabled mod is bound
\* to it ("Disable and unload protection").
Protected ==
    \A m \in enabled : (m \notin enabled' \/ ~ HasMod(m)') => EnabledDependents(m) = {}
DependenciesProtected == [][Protected]_vars

\* An enabled mod one of whose required dependencies is not enabled.
Outruns(m) == HasMod(m) /\ m \in enabled /\ ~ DependenciesEnabled(m)

\* Only a load while the game runs brings that about (Mod::onLoad enables the
\* new mod without looking at its dependencies); no enabling or disabling does.
OutrunByHotLoad ==
    \A m \in Mods : ~ Outruns(m) /\ Outruns(m)' => ~ HasMod(m) /\ status = "Running"
OnlyHotLoadOutruns == [][OutrunByHotLoad]_vars

\* enableAllMods ends with every loaded mod enabled, but for those whose own
\* callback failed and those that wait for such a one.
Settled(m) == m \in enabled \cup failed \/ ~ DependenciesEnabled(m)
EnablePass ==
    main = "enabling" /\ main' = "enabled" =>
        \A m \in LoadedMods : Settled(m)
EnableAllSucceeds == [][EnablePass]_vars

\* disableAllMods ends with every mod disabled, but for those whose own callback
\* failed and those a mod that is still enabled is bound to.
Released(m) == m \notin enabled \/ m \in failed \/ EnabledDependents(m) # {}
DisablePass ==
    main = "disabling" /\ main' = "stopped" =>
        \A m \in enabled : Released(m)
DisableAllSucceeds == [][DisablePass]_vars
\* How far the two loops have got; with IInv, inductive.
EnableLoop ==
    main = "enabling" =>
        LET done == Len(loadedOrder) - Len(todo) IN
            /\ done >= 0
            /\ \A j \in 1 .. Len(todo) : todo[j] = loadedOrder[done + j]
            /\ \A i \in 1 .. done : Settled(loadedOrder[i])
DisableLoop ==
    main = "disabling" =>
        /\ Len(todo) <= Len(loadedOrder)
        /\ \A j \in 1 .. Len(todo) : todo[j] = loadedOrder[Len(todo) + 1 - j]
        /\ \A i \in Len(todo) + 1 .. Len(loadedOrder) : Released(loadedOrder[i])

\* The registrar implements the contract: bound edges are those of the graph.
Contract == INSTANCE LifecycleContract
                WITH present <- LoadedMods, active <- enabled, bound <- dependOn
ContractKept == Contract!Spec
=============================================================================
