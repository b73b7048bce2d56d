------------------------- MODULE ManagerWithdrawal -------------------------
(***************************************************************************)
(* ModRegistrar while mods withdraw the managers of mods they have added.   *)
(* ModManagerRegistry::eraseManager holds the mutex of the registry alone,  *)
(* and neither the registrar's mutex nor its records: it comes at any       *)
(* moment, from another thread or from a mod's callback, also in mid-pass.  *)
(*                                                                         *)
(* A call into the registry holds the registry's mutex for its length, so   *)
(* erasures fall between such calls.  Loading makes several, whose answers  *)
(* an erasure turns stale, and is taken apart here (`call`).  Enabling,     *)
(* disabling and unloading stay one step: an erasure in their midst has the *)
(* outcome of one right before or right after them.                         *)
(***************************************************************************)
EXTENDS ModRegistrar

VARIABLES
    call,      \* the load in progress, of which there is one at most
    together   \* history: <<m, d>> when d was loaded as m was, and both still are

wvars == <<vars, call, together>>

Idle == [stage |-> "none", mod |-> NoMod, left |-> {}]
Stages == {"none", "checked", "loaded", "binding"}

Declared(mf) == mf.dependencies \cup mf.optionalDependencies

-----------------------------------------------------------------------------
InitWithdrawal ==
    /\ Init
    /\ call = Idle
    /\ together = {}

\* The dependencies are found in the registry.  Mods can only go until the call
\* ends, so whichever is looked up last, all were there at the first look.
BeginLoad(mf) ==
    /\ call = Idle
    /\ DependenciesPresent(mf)
    /\ call' = [stage |-> "checked", mod |-> mf, left |-> {}]

BeginNext ==
    /\ main = "loading"
    /\ plan # <<>>
    /\ BeginLoad(Head(plan))
    /\ plan' = Tail(plan)
    /\ UNCHANGED <<managers, loaded, enabled, graphVars, status, main, todo, failed>>

BeginCommand(mf) ==
    /\ LockFree
    /\ mf.platformCompatible
    /\ BeginLoad(mf)
    /\ UNCHANGED vars

\* ModManagerRegistry::loadMod.  The conflicts a command looks for by then are
\* those with mods that are still loaded; a pass looks for none.
LoadInRegistry ==
    /\ call.stage = "checked"
    /\ LockFree => ~ ConflictsWithLoaded(call.mod)
    /\ RegistryLoadMod(call.mod)
    /\ call' = [call EXCEPT !.stage = "loaded"]
    /\ UNCHANGED <<managers, graphVars, status, loopVars>>

\* A conflict, a manager that is gone, a mod of that name, or a failing load.
RefuseLoad ==
    /\ call.stage = "checked"
    /\ call' = Idle
    /\ UNCHANGED vars

\* (Mutant: a mod the graph knows already is not committed again.)
BugCommitUnknownOnly ==
    /\ call.stage = "loaded"
    /\ IF HasMod(call.mod.name) /\ call.mod.name \notin nodes
       THEN /\ ListLoadedMod(call.mod)
            /\ call' = [call EXCEPT !.stage = "binding", !.left = Declared(call.mod)]
       ELSE call' = Idle /\ UNCHANGED <<nodes, loadedOrder>>
    /\ UNCHANGED <<managers, loaded, enabled, dependOn, status, loopVars>>

\* commitLoadedMod looks the mod up, and does nothing if it is gone by now.
Commit ==
    /\ call.stage = "loaded"
    /\ IF HasMod(call.mod.name)
       THEN /\ ListLoadedMod(call.mod)
            /\ call' = [call EXCEPT !.stage = "binding", !.left = Declared(call.mod)]
       ELSE call' = Idle /\ UNCHANGED <<nodes, loadedOrder>>
    /\ UNCHANGED <<managers, loaded, enabled, dependOn, status, loopVars>>

\* One look-up of a declared dependency, which binds the mod to it.  (Any order:
\* the code's goes through dependencies first.)
BindNext ==
    /\ call.stage = "binding"
    /\ \E d \in call.left :
           /\ dependOn' = dependOn \cup ({call.mod.name} \X BoundAmong(call.mod, {d}))
           /\ call' = [call EXCEPT !.left = @ \ {d}]
    /\ UNCHANGED <<managers, loaded, enabled, nodes, loadedOrder, status, loopVars>>

EndCommit ==
    /\ call.stage = "binding"
    /\ call.left = {}
    /\ call' = Idle
    /\ UNCHANGED vars

Loading ==
    \/ BeginNext \/ \E mf \in Manifests : BeginCommand(mf)
    \/ LoadInRegistry \/ RefuseLoad \/ Commit \/ BindNext \/ EndCommit

\* What else needs the registrar's mutex, which a load in progress holds.
Guarded ==
    \/ LoadAllMods \/ SkipNext \/ LoadAllDone
    \/ EnableAllMods \/ EnableNext \/ EnableAllDone
    \/ DisableAllMods \/ DisableNext \/ DisableAllDone
    \/ \E m \in Mods : \/ UnloadMod(m) \/ UnloadModFails(m)
                       \/ EnableMod(m) \/ DisableMod(m)

\* ModManagerRegistry::eraseManager: the manager's mods go with it, and the
\* registrar is not told.
EraseManager(t) ==
    /\ t \in managers
    /\ managers' = managers \ {t}
    /\ loaded' = [m \in Mods |-> IF HasMod(m) /\ loaded[m].type = t
                                 THEN NoMod ELSE loaded[m]]
    /\ enabled' = {m \in enabled : HasMod(m) => loaded[m].type # t}
    /\ UNCHANGED <<graphVars, status, loopVars>>

\* What needs no mutex of the registrar, and comes in between.
Unguarded ==
    \/ SetRunning \/ SetStopping \/ Relaunch
    \/ \E t \in Types : AddManager(t) \/ EraseManager(t)

\* The history goes along with every step.
KeepsTogether ==
    together' = {p \in together : HasMod(p[1])' /\ HasMod(p[2])'}
                    \cup ((LoadedMods' \ LoadedMods) \X (LoadedMods \cap LoadedMods'))

NextWithdrawal ==
    /\ \/ Loading
       \/ call = Idle /\ Guarded /\ UNCHANGED call
       \/ Unguarded /\ UNCHANGED call
    /\ KeepsTogether

SpecWithdrawal == InitWithdrawal /\ [][NextWithdrawal]_wvars

-----------------------------------------------------------------------------
\* The mod a load in progress has still to commit, or to bind.
ToCommit == IF call.stage = "loaded" THEN {call.mod.name} ELSE {}
ToBind == IF call.stage \in {"loaded", "binding"} THEN {call.mod.name} ELSE {}

DependsOn(m, d) ==
    \E e \in Declared(loaded[m]) : e.name = d /\ MatchesDependency(loaded[d], e)

\* The records may name mods that are gone, but every mod the registry finds is
\* in the graph and once in loadedOrder, where unloadMod, disableMod and the
\* passes see it.
AllListed ==
    /\ LoadedMods \subseteq nodes \cup ToCommit
    /\ Range(loadedOrder) = nodes
    /\ IsInjective(loadedOrder)
    /\ dependOn \subseteq nodes \X nodes

\* A mod that has been loaded beside a dependency of its own, both of them ever
\* since, is bound to it, whatever the graph remembered of either of them.
AllBound ==
    \A p \in together :
        p[1] \notin ToBind /\ DependsOn(p[1], p[2]) => p \in dependOn

\* Managers may be withdrawn at any moment, in the middle of a pass or a load,
\* and no loaded mod is hidden from the registrar's checks: neither as a mod to
\* visit, nor as the dependent for which a dependency must stay
\* (eraseManager leaves the graph and loadedOrder as they are).
NothingHidden == AllListed /\ AllBound

CallType ==
    /\ call \in [stage : Stages, mod : Manifests \cup {NoMod}, left : SUBSET Dependency]
    /\ call.stage # "none" => call.mod \in Manifests

\* The inductive invariant: what a load in progress knows, and how far it is.
CallOK ==
    /\ CallType
    /\ call.stage \in {"loaded", "binding"} /\ HasMod(call.mod.name)
           => loaded[call.mod.name] = call.mod
    /\ call.stage = "binding" => call.mod.name \in nodes
HistoryOK ==
    /\ together \subseteq LoadedMods \X LoadedMods
    /\ \A p \in together : p[1] # p[2]
    /\ call.stage = "binding" =>
           \A p \in together : \A e \in Declared(call.mod) \ call.left :
               p[1] = call.mod.name /\ e.name = p[2] /\ MatchesDependency(loaded[p[2]], e)
                   => p \in dependOn
WithdrawalInv == TypeOK /\ CallOK /\ HistoryOK /\ AllListed /\ AllBound
=============================================================================
