------------------------ MODULE ModRegistrar_proofs ------------------------
(* Theorems about ModRegistrar, for every world of mods and manifests. *)
EXTENDS ManagerWithdrawal, TLAPS, SequenceTheorems, FiniteSetTheorems

(***************************************************************************)
(* Removing one position from a sequence.                                  *)
(***************************************************************************)
LEMMA RemoveAtProperties ==
    ASSUME NEW S, NEW s \in Seq(S), NEW i \in 1 .. Len(s)
    PROVE  /\ RemoveAt(s, i) \in Seq(S)
           /\ Len(RemoveAt(s, i)) = Len(s) - 1
           /\ \A j \in 1 .. Len(s) - 1 :
                  RemoveAt(s, i)[j] = IF j < i THEN s[j] ELSE s[j + 1]
<1> DEFINE front == SubSeq(s, 1, i - 1)
           back  == SubSeq(s, i + 1, Len(s))
<1>0. Len(s) \in Nat
  BY LenProperties
<1>1. /\ front \in Seq(S)
      /\ Len(front) = i - 1
      /\ \A j \in 1 .. i - 1 : front[j] = s[j]
  BY <1>0, SubSeqProperties
<1>2. /\ back \in Seq(S)
      /\ Len(back) = Len(s) - i
      /\ \A j \in 1 .. Len(s) - i : back[j] = s[i + j]
  BY <1>0, SubSeqProperties
<1> HIDE DEF front, back
<1>3. /\ front \o back \in Seq(S)
      /\ Len(front \o back) = Len(s) - 1
      /\ \A j \in 1 .. Len(s) - 1 :
             (front \o back)[j] = IF j <= i - 1 THEN front[j] ELSE back[j - (i - 1)]
  <2>1. Len(front) + Len(back) = Len(s) - 1
    BY <1>0, <1>1, <1>2
  <2>2. /\ front \o back \in Seq(S)
        /\ Len(front \o back) = Len(front) + Len(back)
        /\ \A j \in 1 .. Len(front) + Len(back) :
              (front \o back)[j] = IF j <= Len(front) THEN front[j] ELSE back[j - Len(front)]
    BY <1>1, <1>2, ConcatProperties, Zenon
  <2> QED BY <2>1, <2>2, <1>1
<1>4. \A j \in 1 .. Len(s) - 1 :
          (front \o back)[j] = IF j < i THEN s[j] ELSE s[j + 1]
  BY <1>0, <1>1, <1>2, <1>3
<1> QED
  BY <1>3, <1>4 DEF RemoveAt, front, back

(***************************************************************************)
(* What commitLoadedMod's append and eraseLoadedMod's erase do to an order. *)
(***************************************************************************)
LEMMA AppendProps ==
    ASSUME NEW s \in Seq(Mods), NEW m \in Mods
    PROVE  /\ Append(s, m) \in Seq(Mods)
           /\ Range(Append(s, m)) = Range(s) \cup {m}
           /\ IsInjective(s) /\ m \notin Range(s) => IsInjective(Append(s, m))
           /\ \A x, y : Precedes(s, x, y) => Precedes(Append(s, m), x, y)
           /\ \A x \in Range(s) : Precedes(Append(s, m), x, m)
<1> DEFINE t == Append(s, m)
<1>1. /\ t \in Seq(Mods)
      /\ Len(s) \in Nat
      /\ DOMAIN s = 1 .. Len(s)
      /\ DOMAIN t = 1 .. Len(s) + 1
      /\ \A i \in 1 .. Len(s) : t[i] = s[i]
      /\ t[Len(s) + 1] = m
  OBVIOUS
<1>2. \A i \in DOMAIN s : i \in DOMAIN t /\ t[i] = s[i] /\ i < Len(s) + 1
  BY <1>1
<1>3. \A i \in DOMAIN t : i \in DOMAIN s \/ i = Len(s) + 1
  BY <1>1
<1>4. Len(s) + 1 \in DOMAIN t
  BY <1>1
<1> HIDE DEF t
<1>5. Range(t) = Range(s) \cup {m}
  BY <1>1, <1>2, <1>3, <1>4 DEF Range
<1>6. IsInjective(s) /\ m \notin Range(s) => IsInjective(t)
  BY <1>1, <1>2, <1>3, <1>4 DEF IsInjective, Range
<1>7. \A x, y : Precedes(s, x, y) => Precedes(t, x, y)
  BY <1>2 DEF Precedes
<1>8. \A x \in Range(s) : Precedes(t, x, m)
  BY <1>1, <1>2, <1>4 DEF Precedes, Range
<1> QED
  BY <1>1, <1>5, <1>6, <1>7, <1>8 DEF t

LEMMA WithoutProps ==
    ASSUME NEW s \in Seq(Mods), IsInjective(s), NEW m \in Mods
    PROVE  /\ Without(s, m) \in Seq(Mods)
           /\ Range(Without(s, m)) = Range(s) \ {m}
           /\ IsInjective(Without(s, m))
           /\ \A x, y : Precedes(s, x, y) /\ x # m /\ y # m
                          => Precedes(Without(s, m), x, y)
<1> DEFINE t == Without(s, m)
<1>1. CASE m \notin Range(s)
  BY <1>1 DEF Without, Range
<1>2. CASE m \in Range(s)
  <2>0. Len(s) \in Nat /\ DOMAIN s = 1 .. Len(s)
    OBVIOUS
  <2>1. PICK p \in 1 .. Len(s) : s[p] = m /\ t = RemoveAt(s, p)
    BY <1>2, <2>0 DEF Without, Range
  <2>2. /\ t \in Seq(Mods)
        /\ Len(t) = Len(s) - 1
        /\ \A j \in 1 .. Len(s) - 1 : t[j] = IF j < p THEN s[j] ELSE s[j + 1]
    BY <2>1, RemoveAtProperties
  <2>3. DOMAIN t = 1 .. Len(s) - 1
    BY <2>2
  <2> HIDE DEF t
  <2>4. \A i \in 1 .. Len(s) : s[i] = m => i = p
    BY <2>0, <2>1 DEF IsInjective
  <2> DEFINE Old(j) == IF j < p THEN j ELSE j + 1
             New(i) == IF i < p THEN i ELSE i - 1
  <2>5. \A j \in DOMAIN t : Old(j) \in DOMAIN s /\ t[j] = s[Old(j)] /\ Old(j) # p
    BY <2>0, <2>1, <2>2, <2>3
  <2>6. \A i \in DOMAIN s : i # p => New(i) \in DOMAIN t /\ t[New(i)] = s[i]
    BY <2>0, <2>1, <2>2, <2>3
  <2>7. \A j, k \in DOMAIN t : Old(j) = Old(k) => j = k
    BY <2>0, <2>1, <2>3
  <2>8. \A i, k \in DOMAIN s : i # p /\ k # p /\ i < k => New(i) < New(k)
    BY <2>0, <2>1
  <2> HIDE DEF Old, New
  <2>9. Range(t) = Range(s) \ {m}
    BY <2>0, <2>1, <2>4, <2>5, <2>6 DEF Range
  <2>10. IsInjective(t)
    BY <2>5, <2>7 DEF IsInjective
  <2>11. \A x, y : Precedes(s, x, y) /\ x # m /\ y # m => Precedes(t, x, y)
    BY <2>1, <2>6, <2>8 DEF Precedes
  <2> QED
    BY <2>2, <2>9, <2>10, <2>11 DEF t
<1> QED
  BY <1>1, <1>2

-----------------------------------------------------------------------------
(***************************************************************************)
(* Type correctness.                                                       *)
(***************************************************************************)
LEMMA ManifestFields ==
    ASSUME NEW mf \in Manifests
    PROVE  /\ mf.name \in Mods
           /\ \A d \in mf.dependencies \cup mf.optionalDependencies : d.name \in Mods
BY ManifestAssumption DEF Manifest, Dependency

LEMMA BoundByType ==
    ASSUME NEW mf \in Manifests
    PROVE  BoundBy(mf) \subseteq Mods
BY ManifestFields DEF BoundBy, BoundAmong

LEMMA WithoutType ==
    ASSUME NEW s \in Seq(Mods), NEW m \in Mods
    PROVE  Without(s, m) \in Seq(Mods)
<1>1. CASE m \notin Range(s)
  BY <1>1 DEF Without
<1>2. CASE m \in Range(s)
  <2>0. DOMAIN s = 1 .. Len(s)
    OBVIOUS
  <2>1. PICK p \in 1 .. Len(s) : s[p] = m /\ Without(s, m) = RemoveAt(s, p)
    BY <1>2, <2>0 DEF Without, Range
  <2> QED BY <2>1, RemoveAtProperties
<1> QED BY <1>1, <1>2

LEMMA RegistryLoadType ==
    ASSUME TypeOK, NEW mf \in Manifests, LoadsMod(mf)
    PROVE  /\ loaded' \in [Mods -> Manifests \cup {NoMod}]
           /\ enabled' \subseteq Mods
           /\ nodes' \subseteq Mods
           /\ dependOn' \subseteq Mods \X Mods
           /\ loadedOrder' \in Seq(Mods)
<1>1. mf.name \in Mods /\ BoundBy(mf) \subseteq Mods
  BY ManifestFields, BoundByType
<1>2. loadedOrder' \in Seq(Mods)
  BY <1>1, AppendProps DEF TypeOK, LoadsMod, RegistryLoadMod, CommitLoadedMod, ListLoadedMod
<1> QED
  BY <1>1, <1>2 DEF TypeOK, LoadsMod, RegistryLoadMod, CommitLoadedMod, ListLoadedMod

LEMMA SurvivorsAreOnDisk ==
    ASSUME NEW disk PROVE Survivors(disk) \subseteq disk
BY DEF Survivors, Available, Candidates, LeastClosed

LEMMA PlanType ==
    ASSUME NEW disk \in SUBSET Manifests, IsDisk(disk), NEW p \in Plans(disk)
    PROVE  p \in Seq(Manifests) /\ Range(p) \subseteq Survivors(disk)
<1> DEFINE n == Cardinality(Survivors(disk))
<1>1. n \in Nat
  BY SurvivorsAreOnDisk, FS_Subset, FS_CardinalityType DEF IsDisk
<1>2. p \in [1 .. n -> Survivors(disk)]
  BY DEF Plans, Orderings
<1> HIDE DEF n
<1>3. p \in Seq(Survivors(disk)) /\ DOMAIN p = 1 .. n
  BY <1>1, <1>2
<1> QED BY <1>2, <1>3, SurvivorsAreOnDisk DEF Range

\* TypeOK is preserved by every step.
LEMMA TypeInv ==
    ASSUME TypeOK, [Next]_vars
    PROVE  TypeOK'
<1> USE RegistrarAssumption DEF TypeOK
<1>1. CASE LoadAllMods
  BY <1>1, PlanType DEF LoadAllMods, MainStates, graphVars
<1>2. CASE LoadNext
  <2>1. Head(plan) \in Manifests /\ Tail(plan) \in Seq(Manifests)
    BY <1>2, HeadTailProperties DEF LoadNext
  <2> QED BY <1>2, <2>1, RegistryLoadType DEF LoadNext
<1>3. CASE SkipNext
  <2>1. Tail(plan) \in Seq(Manifests)
    BY <1>3, HeadTailProperties DEF SkipNext
  <2> QED BY <1>3, <2>1 DEF SkipNext, graphVars
<1>4. CASE LoadAllDone
  BY <1>4 DEF LoadAllDone, MainStates, graphVars
<1>5. CASE EnableAllMods
  BY <1>5 DEF EnableAllMods, MainStates, graphVars
<1>6. CASE EnableNext
  <2>1. Head(todo) \in Mods /\ Tail(todo) \in Seq(Mods)
    BY <1>6, HeadTailProperties DEF EnableNext
  <2> QED BY <1>6, <2>1 DEF EnableNext, graphVars
<1>7. CASE EnableAllDone
  BY <1>7 DEF EnableAllDone, MainStates, graphVars
<1>8. CASE SetRunning
  BY <1>8 DEF SetRunning, MainStates, graphVars
<1>9. CASE SetStopping
  BY <1>9 DEF SetStopping, MainStates, graphVars
<1>10. CASE DisableAllMods
  <2>1. Reverse(loadedOrder) \in Seq(Mods)
    BY DEF Reverse
  <2> QED BY <1>10, <2>1 DEF DisableAllMods, MainStates, graphVars
<1>11. CASE DisableNext
  <2>1. Head(todo) \in Mods /\ Tail(todo) \in Seq(Mods)
    BY <1>11, HeadTailProperties DEF DisableNext
  <2> QED BY <1>11, <2>1 DEF DisableNext, graphVars
<1>12. CASE DisableAllDone
  BY <1>12 DEF DisableAllDone, MainStates, graphVars
<1>13. CASE Relaunch
  BY <1>13 DEF Relaunch, MainStates, graphVars
<1>14. CASE \E mf \in Manifests : LoadMod(mf)
  <2>1. PICK mf \in Manifests : LoadMod(mf)
    BY <1>14
  <2> QED BY <2>1, RegistryLoadType DEF LoadMod, loopVars
<1>15. CASE \E m \in Mods : UnloadMod(m)
  <2>1. PICK m \in Mods : UnloadMod(m)
    BY <1>15
  <2>2. loadedOrder' \in Seq(Mods)
    BY <2>1, WithoutType DEF UnloadMod, EraseLoadedMod
  <2> QED BY <2>1, <2>2 DEF UnloadMod, EraseLoadedMod, loopVars
<1>16. CASE \E m \in Mods : UnloadModFails(m) \/ EnableMod(m) \/ DisableMod(m)
  BY <1>16 DEF UnloadModFails, EnableMod, DisableMod, loopVars, graphVars
<1>17. CASE \E t \in Types : AddManager(t)
  BY <1>17 DEF AddManager, loopVars, graphVars
<1>18. CASE UNCHANGED vars
  BY <1>18 DEF vars, graphVars
<1> QED
  BY <1>1, <1>2, <1>3, <1>4, <1>5, <1>6, <1>7, <1>8, <1>9, <1>10, <1>11, <1>12,
     <1>13, <1>14, <1>15, <1>16, <1>17, <1>18
  DEF Next, MainThread, Commands

\* Every state of the registrar is well typed.
THEOREM TypeCorrect == Spec => []TypeOK
<1>1. Init => TypeOK
  BY DEF Init, TypeOK, MainStates
<1>2. TypeOK /\ [Next]_vars => TypeOK'
  BY TypeInv
<1> QED
  BY <1>1, <1>2, PTL DEF Spec

-----------------------------------------------------------------------------
(***************************************************************************)
(* The inductive invariant.  Only three kinds of step touch what is loaded. *)
(***************************************************************************)
LEMMA StepKinds ==
    ASSUME TypeOK, [Next]_vars
    PROVE  \/ UNCHANGED <<loaded, graphVars>>
           \/ \E mf \in Manifests : DependenciesPresent(mf) /\ LoadsMod(mf)
           \/ \E m \in Mods : UnloadMod(m)
<1>1. CASE LoadNext
  BY <1>1, HeadTailProperties DEF LoadNext, TypeOK
<1>2. CASE \E mf \in Manifests : LoadMod(mf)
  BY <1>2 DEF LoadMod
<1>3. CASE MainThread /\ ~ LoadNext
  BY <1>3 DEF MainThread, LoadAllMods, SkipNext, LoadAllDone, EnableAllMods,
     EnableNext, EnableAllDone, SetRunning, SetStopping, DisableAllMods,
     DisableNext, DisableAllDone, Relaunch
<1>4. CASE \E m \in Mods : UnloadModFails(m) \/ EnableMod(m) \/ DisableMod(m)
  BY <1>4 DEF UnloadModFails, EnableMod, DisableMod
<1>5. CASE \E t \in Types : AddManager(t)
  BY <1>5 DEF AddManager
<1>6. CASE UNCHANGED vars
  BY <1>6 DEF vars, graphVars
<1> QED
  BY <1>1, <1>2, <1>3, <1>4, <1>5, <1>6 DEF Next, Commands

\* What a load does to the registry's view.
LEMMA RegistryLoadEffect ==
    ASSUME TypeOK, NEW mf \in Manifests, RegistryLoadMod(mf)
    PROVE  /\ mf.name \in Mods /\ mf.name \notin LoadedMods
           /\ LoadedMods' = LoadedMods \cup {mf.name}
           /\ loaded'[mf.name] = mf
           /\ \A m \in LoadedMods : loaded'[m] = loaded[m]
           /\ LoadedManifests' = LoadedManifests \cup {mf}
           /\ BoundBy(mf) \subseteq LoadedMods
<1>1. mf.name \in Mods /\ mf # NoMod
  BY ManifestFields, RegistrarAssumption
<1>2. loaded' = [loaded EXCEPT ![mf.name] = mf] /\ ~ HasMod(mf.name)
  BY DEF LoadsMod, RegistryLoadMod
<1>3. \A m \in Mods : loaded'[m] = IF m = mf.name THEN mf ELSE loaded[m]
  BY <1>1, <1>2 DEF TypeOK
<1>4. LoadedMods' = LoadedMods \cup {mf.name} /\ mf.name \notin LoadedMods
  BY <1>1, <1>2, <1>3 DEF LoadedMods, HasMod
<1>5. LoadedManifests' = LoadedManifests \cup {mf}
  BY <1>1, <1>3, <1>4 DEF LoadedManifests, LoadedMods
<1>6. BoundBy(mf) \subseteq LoadedMods
  BY BoundByType DEF BoundBy, BoundAmong, LoadedMods
<1> QED BY <1>1, <1>3, <1>4, <1>5, <1>6 DEF LoadedMods

LEMMA LoadEffect ==
    ASSUME TypeOK, NEW mf \in Manifests, LoadsMod(mf)
    PROVE  /\ mf.name \in Mods /\ mf.name \notin LoadedMods
           /\ LoadedMods' = LoadedMods \cup {mf.name}
           /\ loaded'[mf.name] = mf
           /\ \A m \in LoadedMods : loaded'[m] = loaded[m]
           /\ LoadedManifests' = LoadedManifests \cup {mf}
           /\ BoundBy(mf) \subseteq LoadedMods
BY RegistryLoadEffect DEF LoadsMod

\* What an unload does to it.
LEMMA UnloadEffect ==
    ASSUME TypeOK, NEW m \in Mods, UnloadMod(m)
    PROVE  /\ m \in LoadedMods
           /\ LoadedMods' = LoadedMods \ {m}
           /\ \A x \in Mods \ {m} : loaded'[x] = loaded[x]
           /\ LoadedManifests' \subseteq LoadedManifests
           /\ DependentBy(m) = {}
           /\ nodes' = nodes \ {m}
           /\ dependOn' = {e \in dependOn : e[1] # m}
           /\ loadedOrder' = Without(loadedOrder, m)
<1>1. loaded' = [loaded EXCEPT ![m] = NoMod] /\ HasMod(m) /\ DependentBy(m) = {}
  BY DEF UnloadMod
<1>2. \A x \in Mods : loaded'[x] = IF x = m THEN NoMod ELSE loaded[x]
  BY <1>1 DEF TypeOK
<1>3. LoadedMods' = LoadedMods \ {m} /\ m \in LoadedMods
  BY <1>1, <1>2 DEF LoadedMods, HasMod
<1>4. LoadedManifests' \subseteq LoadedManifests
  BY <1>2, <1>3 DEF LoadedManifests, LoadedMods
<1>5. /\ nodes' = nodes \ {m}
      /\ dependOn' = {e \in dependOn : e[1] # m}
      /\ loadedOrder' = Without(loadedOrder, m)
  BY <1>1 DEF UnloadMod, EraseLoadedMod
<1> QED BY <1>1, <1>2, <1>3, <1>4, <1>5

LEMMA RecordsInv ==
    ASSUME TypeOK, RecordsAgree, [Next]_vars
    PROVE  RecordsAgree'
<1>1. CASE UNCHANGED <<loaded, graphVars>>
  BY <1>1 DEF graphVars, RecordsAgree, LoadedMods, HasMod
<1>2. ASSUME NEW mf \in Manifests, LoadsMod(mf)
      PROVE  RecordsAgree'
  <2>1. mf.name \notin Range(loadedOrder)
    BY <1>2, LoadEffect DEF RecordsAgree
  <2>2. /\ nodes' = nodes \cup {mf.name}
        /\ loadedOrder' = Append(loadedOrder, mf.name)
        /\ dependOn' = dependOn \cup ({mf.name} \X BoundBy(mf))
    BY <1>2, <2>1 DEF LoadsMod, RegistryLoadMod, CommitLoadedMod, ListLoadedMod
  <2>3. Range(loadedOrder') = nodes' /\ IsInjective(loadedOrder')
    BY <2>1, <2>2, AppendProps, ManifestFields DEF RecordsAgree, TypeOK
  <2> QED BY <1>2, <2>2, <2>3, LoadEffect DEF RecordsAgree
<1>3. ASSUME NEW m \in Mods, UnloadMod(m)
      PROVE  RecordsAgree'
  <2>0. loadedOrder \in Seq(Mods) /\ IsInjective(loadedOrder) /\ Range(loadedOrder) = nodes
    BY DEF RecordsAgree, TypeOK
  <2>a. /\ Range(Without(loadedOrder, m)) = Range(loadedOrder) \ {m}
        /\ IsInjective(Without(loadedOrder, m))
    BY <2>0, WithoutProps
  <2>b. loadedOrder' = Without(loadedOrder, m) /\ nodes' = nodes \ {m}
    BY <1>3, UnloadEffect
  <2>1. Range(loadedOrder') = nodes' /\ IsInjective(loadedOrder')
    BY <2>0, <2>a, <2>b
  <2>2. dependOn' \subseteq nodes' \X nodes'
    BY <1>3, UnloadEffect DEF RecordsAgree, DependentBy, TypeOK
  <2> QED BY <1>3, <2>1, <2>2, UnloadEffect DEF RecordsAgree
<1> QED BY <1>1, <1>2, <1>3, StepKinds

LEMMA NamesInv ==
    ASSUME TypeOK, NamesMatch, [Next]_vars
    PROVE  NamesMatch'
<1>1. CASE UNCHANGED <<loaded, graphVars>>
  BY <1>1 DEF NamesMatch, LoadedMods, HasMod
<1>2. ASSUME NEW mf \in Manifests, LoadsMod(mf)
      PROVE  NamesMatch'
  BY <1>2, LoadEffect DEF NamesMatch
<1>3. ASSUME NEW m \in Mods, UnloadMod(m)
      PROVE  NamesMatch'
  BY <1>3, UnloadEffect DEF NamesMatch, LoadedMods
<1> QED BY <1>1, <1>2, <1>3, StepKinds

LEMMA EnabledInv ==
    ASSUME TypeOK, enabled \subseteq LoadedMods, [Next]_vars
    PROVE  (enabled \subseteq LoadedMods)'
<1>1. ASSUME NEW mf \in Manifests, LoadsMod(mf)
      PROVE  (enabled \subseteq LoadedMods)'
  BY <1>1, LoadEffect DEF LoadsMod, RegistryLoadMod
<1>2. ASSUME NEW m \in Mods, UnloadMod(m)
      PROVE  (enabled \subseteq LoadedMods)'
  BY <1>2, UnloadEffect DEF UnloadMod
<1>3. CASE UNCHANGED <<loaded, graphVars>>
  <2>0. LoadedMods' = LoadedMods
    BY <1>3 DEF LoadedMods, HasMod
  <2>1. CASE EnableNext
    BY <2>1, <2>0, HeadTailProperties DEF EnableNext, LoadedMods, TypeOK
  <2>2. CASE DisableNext
    BY <2>2, <2>0 DEF DisableNext
  <2>3. CASE MainThread /\ ~ LoadNext /\ ~ EnableNext /\ ~ DisableNext
    BY <2>3, <2>0 DEF MainThread, LoadAllMods, SkipNext, LoadAllDone, EnableAllMods,
       EnableAllDone, SetRunning, SetStopping, DisableAllMods, DisableAllDone, Relaunch
  <2>4. CASE \E m \in Mods : UnloadModFails(m) \/ EnableMod(m) \/ DisableMod(m)
    BY <2>4, <2>0 DEF UnloadModFails, EnableMod, DisableMod, LoadedMods
  <2>5. CASE (\E t \in Types : AddManager(t)) \/ UNCHANGED vars
    BY <2>5, <2>0 DEF AddManager, vars
  <2>6. CASE LoadNext
    BY <2>6, <1>1, HeadTailProperties DEF LoadNext, TypeOK
  <2>7. CASE (\E mf \in Manifests : LoadMod(mf)) \/ \E m \in Mods : UnloadMod(m)
    BY <2>7, <1>1, <1>2 DEF LoadMod
  <2> QED BY <2>1, <2>2, <2>3, <2>4, <2>5, <2>6, <2>7 DEF Next, Commands
<1> QED BY <1>1, <1>2, <1>3, StepKinds

LEMMA NativeInv ==
    ASSUME TypeOK, NothingBeforeNative, [Next]_vars
    PROVE  NothingBeforeNative'
<1>1. ASSUME NEW mf \in Manifests, LoadsMod(mf), UNCHANGED managers
      PROVE  NothingBeforeNative'
  BY <1>1 DEF NothingBeforeNative, LoadsMod, RegistryLoadMod
<1>2. CASE LoadNext
  BY <1>1, <1>2, HeadTailProperties DEF LoadNext, TypeOK
<1>3. CASE \E mf \in Manifests : LoadMod(mf)
  BY <1>1, <1>3 DEF LoadMod
<1>4. CASE \E m \in Mods : UnloadMod(m)
  <2>1. LoadedMods' \subseteq LoadedMods /\ managers' = managers
    BY <1>4, UnloadEffect DEF UnloadMod
  <2>2. main' = main
    BY <1>4 DEF UnloadMod, loopVars
  <2> QED BY <2>1, <2>2 DEF NothingBeforeNative
<1>5. CASE LoadAllMods
  BY <1>5 DEF LoadAllMods, NothingBeforeNative, LoadedMods, HasMod
<1>6. CASE \E t \in Types : AddManager(t)
  BY <1>6 DEF AddManager, NothingBeforeNative
<1>7. CASE UNCHANGED <<loaded, managers>> /\ (main = "boot" => main' = "boot")
  BY <1>7 DEF NothingBeforeNative, LoadedMods, HasMod
<1>8. CASE MainThread /\ ~ LoadNext /\ ~ LoadAllMods
  BY <1>8, <1>7 DEF MainThread, SkipNext, LoadAllDone, EnableAllMods, EnableNext,
     EnableAllDone, SetRunning, SetStopping, DisableAllMods, DisableNext,
     DisableAllDone, Relaunch
<1>9. CASE \E m \in Mods : UnloadModFails(m) \/ EnableMod(m) \/ DisableMod(m)
  BY <1>9, <1>7 DEF UnloadModFails, EnableMod, DisableMod, loopVars
<1>10. CASE UNCHANGED vars
  BY <1>10, <1>7 DEF vars
<1> QED
  BY <1>2, <1>3, <1>4, <1>5, <1>6, <1>8, <1>9, <1>10 DEF Next, Commands

LEMMA RequiredInv ==
    ASSUME TypeOK, RecordsAgree, NamesMatch, RequiredStayBound, [Next]_vars
    PROVE  RequiredStayBound'
<1>1. CASE UNCHANGED <<loaded, graphVars>>
  BY <1>1 DEF graphVars, RequiredStayBound, LoadedMods, HasMod
<1>2. ASSUME NEW mf \in Manifests, DependenciesPresent(mf), LoadsMod(mf)
      PROVE  RequiredStayBound'
  <2> SUFFICES ASSUME NEW m \in LoadedMods', NEW d \in loaded'[m].dependencies
               PROVE  /\ HasMod(d.name)'
                      /\ MatchesDependency(loaded'[d.name], d)
                      /\ <<m, d.name>> \in dependOn'
    BY DEF RequiredStayBound, MatchesDependency
  <2>1. dependOn' = dependOn \cup ({mf.name} \X BoundBy(mf))
    BY <1>2 DEF LoadsMod, RegistryLoadMod, CommitLoadedMod, ListLoadedMod
  <2>2. CASE m = mf.name
    <3>1. d \in mf.dependencies
      BY <1>2, <2>2, LoadEffect
    <3>2. d.name \in LoadedMods /\ MatchesDependency(loaded[d.name], d)
      BY <1>2, <3>1, ManifestFields DEF DependenciesPresent, LoadedMods
    <3>3. d.name # mf.name
      BY <1>2, <3>2, LoadEffect
    <3>4. d.name \in BoundBy(mf)
      BY <3>1, <3>2, <3>3 DEF BoundBy, BoundAmong, LoadedMods
    <3>5. d.name \in LoadedMods' /\ loaded'[d.name] = loaded[d.name]
      BY <1>2, <3>2, LoadEffect
    <3> QED BY <2>1, <2>2, <3>2, <3>4, <3>5 DEF LoadedMods
  <2>3. CASE m # mf.name
    <3>1. m \in LoadedMods /\ loaded'[m] = loaded[m]
      BY <1>2, <2>3, LoadEffect
    <3>2. /\ HasMod(d.name)
          /\ MatchesDependency(loaded[d.name], d)
          /\ <<m, d.name>> \in dependOn
      BY <3>1 DEF RequiredStayBound
    <3>3. d.name \in LoadedMods
      BY <3>2 DEF RecordsAgree
    <3>4. d.name \in LoadedMods' /\ loaded'[d.name] = loaded[d.name]
      BY <1>2, <3>3, LoadEffect
    <3> QED BY <2>1, <3>2, <3>4 DEF LoadedMods
  <2> QED BY <2>2, <2>3
<1>3. ASSUME NEW x \in Mods, UnloadMod(x)
      PROVE  RequiredStayBound'
  <2> SUFFICES ASSUME NEW m \in LoadedMods', NEW d \in loaded'[m].dependencies
               PROVE  /\ HasMod(d.name)'
                      /\ MatchesDependency(loaded'[d.name], d)
                      /\ <<m, d.name>> \in dependOn'
    BY DEF RequiredStayBound, MatchesDependency
  <2>1. m \in LoadedMods /\ m # x /\ loaded'[m] = loaded[m]
    BY <1>3, UnloadEffect DEF LoadedMods
  <2>2. /\ HasMod(d.name)
        /\ MatchesDependency(loaded[d.name], d)
        /\ <<m, d.name>> \in dependOn
    BY <2>1 DEF RequiredStayBound
  <2>3. d.name \in LoadedMods /\ d.name # x
    BY <1>3, <2>1, <2>2, UnloadEffect DEF RecordsAgree, DependentBy, LoadedMods
  <2>4. d.name \in LoadedMods' /\ loaded'[d.name] = loaded[d.name]
    BY <1>3, <2>3, UnloadEffect DEF LoadedMods
  <2>5. <<m, d.name>> \in dependOn'
    BY <1>3, <2>1, <2>2, UnloadEffect
  <2> QED BY <2>2, <2>4, <2>5 DEF LoadedMods
<1> QED BY <1>1, <1>2, <1>3, StepKinds

LEMMA DependenciesFirstInv ==
    ASSUME TypeOK, RecordsAgree, DependenciesFirst, [Next]_vars
    PROVE  DependenciesFirst'
<1>0. loadedOrder \in Seq(Mods) /\ IsInjective(loadedOrder) /\ Range(loadedOrder) = nodes
  BY DEF RecordsAgree, TypeOK
<1>1. CASE UNCHANGED <<loaded, graphVars>>
  BY <1>1 DEF graphVars, DependenciesFirst
<1>2. ASSUME NEW mf \in Manifests, LoadsMod(mf)
      PROVE  DependenciesFirst'
  <2>1. mf.name \in Mods /\ mf.name \notin Range(loadedOrder) /\ BoundBy(mf) \subseteq Range(loadedOrder)
    BY <1>2, LoadEffect DEF RecordsAgree
  <2>2. /\ loadedOrder' = Append(loadedOrder, mf.name)
        /\ dependOn' = dependOn \cup ({mf.name} \X BoundBy(mf))
    BY <1>2, <2>1 DEF LoadsMod, RegistryLoadMod, CommitLoadedMod, ListLoadedMod
  <2>3. \A e \in dependOn : Precedes(Append(loadedOrder, mf.name), e[2], e[1])
    BY <1>0, <2>1, AppendProps DEF DependenciesFirst
  <2>4. \A d \in BoundBy(mf) : Precedes(Append(loadedOrder, mf.name), d, mf.name)
    BY <1>0, <2>1, AppendProps
  <2>5. \A e \in dependOn' : Precedes(Append(loadedOrder, mf.name), e[2], e[1])
    BY <2>2, <2>3, <2>4
  <2> QED BY <2>2, <2>5 DEF DependenciesFirst, Precedes
<1>3. ASSUME NEW m \in Mods, UnloadMod(m)
      PROVE  DependenciesFirst'
  <2>1. /\ DependentBy(m) = {}
        /\ loadedOrder' = Without(loadedOrder, m)
        /\ dependOn' = {e \in dependOn : e[1] # m}
    BY <1>3, UnloadEffect
  <2>2. \A e \in dependOn' : e \in dependOn /\ e[1] # m /\ e[2] # m
    BY <2>1 DEF DependentBy, TypeOK
  <2>3. \A e \in dependOn' : Precedes(Without(loadedOrder, m), e[2], e[1])
    BY <1>0, <2>2, WithoutProps DEF DependenciesFirst
  <2> QED BY <2>1, <2>3 DEF DependenciesFirst, Precedes
<1> QED BY <1>1, <1>2, <1>3, StepKinds

LEMMA SurvivorsConflictFree ==
    ASSUME NEW disk
    PROVE  ConflictFree(Survivors(disk))
<1>1. Survivors(disk) \subseteq Candidates(disk) \ SelfRejected(disk)
  BY DEF Survivors, Available
<1>2. \A x \in Candidates(disk) \ SelfRejected(disk), y \in Candidates(disk) :
          ~ Declares(x.conflicts, y)
  BY DEF SelfRejected, Targets
<1> QED BY <1>1, <1>2 DEF ConflictFree

LEMMA ConflictInv ==
    ASSUME TypeOK, NothingBeforeNative, NoLoadedConflict, NoConflictAhead, [Next]_vars
    PROVE  NoLoadedConflict' /\ NoConflictAhead'
<1>1. CASE LoadAllMods
  <2>1. LoadedManifests' = LoadedManifests
    BY <1>1 DEF LoadAllMods, LoadedManifests, LoadedMods, HasMod
  <2>2. ASSUME Native \notin managers
        PROVE  NoConflictAhead'
    <3>1. LoadedManifests = {}
      BY <2>2 DEF NothingBeforeNative, LoadedManifests
    <3>2. PICK disk \in SUBSET Manifests : IsDisk(disk) /\ plan' \in Plans(disk)
      BY <1>1, <2>2 DEF LoadAllMods
    <3>3. Range(plan') \subseteq Survivors(disk)
      BY <3>2, PlanType
    <3> QED BY <2>1, <3>1, <3>3, SurvivorsConflictFree DEF NoConflictAhead, ConflictFree
  <2>3. ASSUME Native \in managers
        PROVE  NoConflictAhead'
    BY <1>1, <2>3 DEF LoadAllMods, NoConflictAhead
  <2> QED BY <2>1, <2>2, <2>3 DEF NoLoadedConflict, ConflictFree
<1>2. CASE LoadNext
  <2>1. Head(plan) \in Range(plan) /\ Range(plan') \subseteq Range(plan)
    BY <1>2, HeadTailProperties DEF LoadNext, Range, TypeOK
  <2>2. LoadedManifests' = LoadedManifests \cup {Head(plan)} /\ main = "loading"
    BY <1>2, LoadEffect, HeadTailProperties DEF LoadNext, TypeOK
  <2> QED BY <2>1, <2>2 DEF NoLoadedConflict, NoConflictAhead, ConflictFree
<1>3. CASE SkipNext
  <2>1. Range(plan') \subseteq Range(plan) /\ LoadedManifests' = LoadedManifests
    BY <1>3, HeadTailProperties DEF SkipNext, Range, TypeOK, LoadedManifests, LoadedMods, HasMod
  <2> QED BY <1>3, <2>1 DEF SkipNext, NoLoadedConflict, NoConflictAhead, ConflictFree
<1>4. CASE \E mf \in Manifests : LoadMod(mf)
  <2>1. PICK mf \in Manifests : LoadMod(mf)
    BY <1>4
  <2>2. LoadedManifests' = LoadedManifests \cup {mf}
    BY <2>1, LoadEffect DEF LoadMod
  <2>3. ConflictFree(LoadedManifests \cup {mf})
    BY <2>1 DEF LoadMod, ConflictsWithLoaded, NoLoadedConflict, ConflictFree
  <2> QED BY <2>1, <2>2, <2>3 DEF LoadMod, loopVars, LockFree, NoLoadedConflict, NoConflictAhead, ConflictFree
<1>5. CASE \E m \in Mods : UnloadMod(m)
  <2>1. LoadedManifests' \subseteq LoadedManifests
    BY <1>5, UnloadEffect
  <2> QED BY <1>5, <2>1 DEF UnloadMod, loopVars, LockFree, NoLoadedConflict, NoConflictAhead, ConflictFree
<1>6. CASE UNCHANGED <<loaded, plan, main>> \/ (UNCHANGED loaded /\ main' # "loading")
  BY <1>6 DEF NoLoadedConflict, NoConflictAhead, ConflictFree, LoadedManifests, LoadedMods, HasMod
<1>7. CASE MainThread /\ ~ LoadAllMods /\ ~ LoadNext /\ ~ SkipNext
  BY <1>7, <1>6 DEF MainThread, LoadAllDone, EnableAllMods, EnableNext, EnableAllDone,
     SetRunning, SetStopping, DisableAllMods, DisableNext, DisableAllDone, Relaunch
<1>8. CASE \E m \in Mods : UnloadModFails(m) \/ EnableMod(m) \/ DisableMod(m)
  BY <1>8, <1>6 DEF UnloadModFails, EnableMod, DisableMod, loopVars
<1>9. CASE \E t \in Types : AddManager(t)
  BY <1>9, <1>6 DEF AddManager, loopVars
<1>10. CASE UNCHANGED vars
  BY <1>10, <1>6 DEF vars
<1> QED
  BY <1>1, <1>2, <1>3, <1>4, <1>5, <1>7, <1>8, <1>9, <1>10 DEF Next, Commands

\* IInv holds initially and is preserved, so it always holds.
THEOREM Invariance == Spec => []IInv
<1>1. Init => IInv
  <2> SUFFICES ASSUME Init PROVE IInv
    OBVIOUS
  <2>1. LoadedMods = {} /\ LoadedManifests = {}
    BY DEF Init, LoadedMods, LoadedManifests, HasMod
  <2>2. TypeOK
    BY DEF Init, TypeOK, MainStates
  <2>3. RecordsAgree
    BY <2>1 DEF Init, RecordsAgree, Range, IsInjective
  <2>4. main = "boot" /\ enabled = {} /\ dependOn = {} /\ managers = {}
    BY DEF Init
  <2> QED BY <2>1, <2>2, <2>3, <2>4 DEF IInv, NamesMatch, NothingBeforeNative,
     RequiredStayBound, DependenciesFirst, NoLoadedConflict, NoConflictAhead, ConflictFree
<1>2. IInv /\ [Next]_vars => IInv'
  BY TypeInv, RecordsInv, NamesInv, EnabledInv, NativeInv, RequiredInv,
     DependenciesFirstInv, ConflictInv DEF IInv
<1> QED BY <1>1, <1>2, PTL DEF Spec

\* The registry, the graph and the load order agree in every state.
THEOREM RecordsAlwaysAgree == Spec => []RecordsAgree
BY Invariance, PTL DEF IInv

\* Required dependencies of a loaded mod stay loaded, matching and bound.
THEOREM RequiredAlwaysBound == Spec => []RequiredStayBound
BY Invariance, PTL DEF IInv

\* A dependency always precedes what is bound to it in loadedOrder.
THEOREM DependenciesAlwaysFirst == Spec => []DependenciesFirst
BY Invariance, PTL DEF IInv

\* Two mods in conflict are never loaded together.
THEOREM ConflictsNeverLoaded == Spec => []NoLoadedConflict
BY Invariance, PTL DEF IInv

-----------------------------------------------------------------------------
(***************************************************************************)
(* What no step may do.                                                    *)
(***************************************************************************)

\* No step takes a mod away from, or disables it under, an enabled dependent.
THEOREM ProtectionHolds == Spec => DependenciesProtected
<1>1. IInv /\ IInv' /\ [Next]_vars => [Protected]_vars
  <2> SUFFICES ASSUME IInv, [Next]_vars, NEW m \in enabled,
                      m \notin enabled' \/ ~ HasMod(m)'
               PROVE  EnabledDependents(m) = {}
    BY DEF Protected
  <2>0. TypeOK /\ m \in LoadedMods /\ m \in Mods
    BY DEF IInv, LoadedMods
  <2>1. ASSUME NEW mf \in Manifests, LoadsMod(mf)
        PROVE  FALSE
    BY <2>0, <2>1, LoadEffect DEF LoadsMod, RegistryLoadMod, LoadedMods
  <2>2. CASE \E x \in Mods : UnloadMod(x) \/ UnloadModFails(x) \/ DisableMod(x)
    <3>1. PICK x \in Mods : UnloadMod(x) \/ UnloadModFails(x) \/ DisableMod(x)
      BY <2>2
    <3>2. x = m
      BY <3>1, <2>0 DEF UnloadMod, UnloadModFails, DisableMod, LoadedMods, HasMod, TypeOK
    <3> QED BY <3>1, <3>2 DEF UnloadMod, UnloadModFails, DisableMod, EnabledDependents
  <2>3. CASE DisableNext
    BY <2>3, <2>0 DEF DisableNext, LoadedMods, HasMod
  <2>4. CASE EnableNext
    BY <2>4, <2>0 DEF EnableNext, LoadedMods, HasMod
  <2>5. CASE UNCHANGED <<loaded, enabled>>
    BY <2>5, <2>0 DEF LoadedMods, HasMod
  <2>6. CASE LoadNext \/ \E mf \in Manifests : LoadMod(mf)
    BY <2>6, <2>0, <2>1, HeadTailProperties DEF LoadNext, LoadMod, TypeOK
  <2>7. CASE \E x \in Mods : EnableMod(x)
    BY <2>7, <2>0 DEF EnableMod, LoadedMods, HasMod
  <2>8. CASE MainThread /\ ~ LoadNext /\ ~ EnableNext /\ ~ DisableNext
    BY <2>8, <2>5 DEF MainThread, LoadAllMods, SkipNext, LoadAllDone, EnableAllMods,
       EnableAllDone, SetRunning, SetStopping, DisableAllMods, DisableAllDone, Relaunch
  <2>9. CASE (\E t \in Types : AddManager(t)) \/ UNCHANGED vars
    BY <2>9, <2>5 DEF AddManager, vars
  <2> QED BY <2>2, <2>3, <2>4, <2>6, <2>7, <2>8, <2>9 DEF Next, Commands
<1> QED BY <1>1, Invariance, PTL DEF Spec, DependenciesProtected

\* What the steps on the registry do in the terms of the contract.
LEMMA ContractStep ==
    ASSUME IInv, [Next]_vars
    PROVE  Contract!Next \/ UNCHANGED <<LoadedMods, enabled, dependOn>>
<1>0. TypeOK /\ RecordsAgree /\ enabled \subseteq LoadedMods
  BY DEF IInv
<1>1. ASSUME NEW mf \in Manifests, LoadsMod(mf)
      PROVE  Contract!Next
  <2>1. /\ mf.name \notin LoadedMods
        /\ BoundBy(mf) \subseteq LoadedMods
        /\ LoadedMods' = LoadedMods \cup {mf.name}
    BY <1>0, <1>1, LoadEffect
  <2>2. dependOn' = dependOn \cup ({mf.name} \X BoundBy(mf))
    BY <1>1 DEF LoadsMod, RegistryLoadMod, CommitLoadedMod, ListLoadedMod
  <2>3. enabled' \in {enabled, enabled \cup {mf.name}}
    <3>1. enabled' = enabled \cup {mf.name} \/ enabled' = enabled \ {mf.name}
      BY <1>1 DEF LoadsMod, RegistryLoadMod
    <3>2. enabled \ {mf.name} = enabled
      BY <1>0, <2>1
    <3> QED BY <3>1, <3>2
  <2>4. Contract!Appear(mf.name, BoundBy(mf))
    BY <2>1, <2>2, <2>3 DEF Contract!Appear
  <2> QED BY <1>0, <1>1, <2>1, <2>4, ManifestFields DEF Contract!Next
<1>2. ASSUME NEW m \in Mods, UnloadMod(m)
      PROVE  Contract!Next
  <2>1. /\ m \in LoadedMods
        /\ LoadedMods' = LoadedMods \ {m}
        /\ DependentBy(m) = {}
        /\ dependOn' = {e \in dependOn : e[1] # m}
    BY <1>0, <1>2, UnloadEffect
  <2>2. enabled' = enabled \ {m}
    BY <1>2 DEF UnloadMod
  <2>3. \A x \in LoadedMods : <<x, m>> \notin dependOn
    BY <2>1 DEF DependentBy, LoadedMods
  <2>4. Contract!Disappear(m)
    BY <2>1, <2>2, <2>3 DEF Contract!Disappear
  <2> QED BY <2>4 DEF Contract!Next
<1>3. ASSUME NEW m \in Mods, UNCHANGED <<loaded, dependOn>>,
             enabled' = enabled \ {m}, EnabledDependents(m) = {}
      PROVE  Contract!Next
  <2>1. Contract!Deactivate(m)
    BY <1>0, <1>3 DEF Contract!Deactivate, EnabledDependents, DependentBy, LoadedMods, HasMod
  <2> QED BY <2>1 DEF Contract!Next
<1>4. ASSUME NEW m \in LoadedMods, UNCHANGED <<loaded, dependOn>>,
             enabled' = enabled \cup {m}
      PROVE  Contract!Next
  <2>1. Contract!Activate(m)
    BY <1>4 DEF Contract!Activate, LoadedMods, HasMod
  <2> QED BY <2>1 DEF Contract!Next, LoadedMods
<1>5. CASE UNCHANGED <<loaded, enabled, dependOn>>
  BY <1>5 DEF LoadedMods, HasMod
<1>6. CASE LoadNext \/ \E mf \in Manifests : LoadMod(mf)
  BY <1>0, <1>1, <1>6, HeadTailProperties DEF LoadNext, LoadMod, TypeOK
<1>7. CASE \E m \in Mods : UnloadModFails(m) \/ DisableMod(m)
  BY <1>3, <1>7 DEF UnloadModFails, DisableMod, graphVars, EnabledDependents
<1>8. CASE \E m \in Mods : EnableMod(m)
  BY <1>4, <1>8 DEF EnableMod, graphVars, LoadedMods
<1>9. CASE EnableNext
  <2>1. Head(todo) \in Mods
    BY <1>0, <1>9, HeadTailProperties DEF EnableNext, TypeOK
  <2> QED BY <1>4, <1>5, <1>9, <2>1 DEF EnableNext, graphVars, LoadedMods
<1>10. CASE DisableNext
  <2>1. Head(todo) \in Mods
    BY <1>0, <1>10, HeadTailProperties DEF DisableNext, TypeOK
  <2> QED BY <1>3, <1>5, <1>10, <2>1 DEF DisableNext, graphVars
<1>11. CASE MainThread /\ ~ LoadNext /\ ~ EnableNext /\ ~ DisableNext
  BY <1>5, <1>11 DEF MainThread, LoadAllMods, SkipNext, LoadAllDone, EnableAllMods, graphVars,
     EnableAllDone, SetRunning, SetStopping, DisableAllMods, DisableAllDone, Relaunch
<1>12. CASE (\E t \in Types : AddManager(t)) \/ UNCHANGED vars
  BY <1>5, <1>12 DEF AddManager, vars, graphVars
<1> QED
  BY <1>2, <1>6, <1>7, <1>8, <1>9, <1>10, <1>11, <1>12 DEF Next, Commands

\* The registrar implements LifecycleContract.
THEOREM ImplementsContract == Spec => ContractKept
<1>1. Init => Contract!Init
  BY DEF Init, Contract!Init, LoadedMods, HasMod
<1>2. IInv /\ [Next]_vars => [Contract!Next]_Contract!vars
  BY ContractStep DEF Contract!vars
<1> QED BY <1>1, <1>2, Invariance, PTL DEF Spec, ContractKept, Contract!Spec

\* Only a load while the game runs lets a mod be enabled before a required
\* dependency is; enabling and disabling never do.
THEOREM OnlyHotLoad == Spec => OnlyHotLoadOutruns
<1>1. IInv /\ [Next]_vars => [OutrunByHotLoad]_vars
  <2> SUFFICES ASSUME IInv, [Next]_vars, NEW m \in Mods,
                      ~ Outruns(m), Outruns(m)'
               PROVE  ~ HasMod(m) /\ status = "Running"
    BY DEF OutrunByHotLoad
  <2>0. TypeOK /\ RecordsAgree /\ RequiredStayBound /\ enabled \subseteq LoadedMods
    BY DEF IInv
  <2>1. m \in enabled' /\ HasMod(m)' /\ ~ DependenciesEnabled(m)'
    BY DEF Outruns
  <2>2. HasMod(m) /\ m \in enabled => DependenciesEnabled(m)
    BY DEF Outruns
  <2>3. ASSUME NEW mf \in Manifests, LoadsMod(mf)
        PROVE  ~ HasMod(m) /\ status = "Running"
    <3>1. CASE m = mf.name
      BY <2>0, <2>1, <2>3, <3>1, LoadEffect DEF LoadsMod, RegistryLoadMod
    <3>2. CASE m # mf.name
      <4>1. m \in LoadedMods /\ m \in enabled /\ loaded'[m] = loaded[m]
        BY <2>0, <2>1, <2>3, <3>2, LoadEffect DEF LoadsMod, RegistryLoadMod, LoadedMods
      <4>2. \A d \in loaded[m].dependencies : d.name \in LoadedMods' /\ d.name \in enabled'
        BY <2>0, <2>2, <2>3, <4>1, LoadEffect
        DEF LoadsMod, RegistryLoadMod, DependenciesEnabled, LoadedMods
      <4> QED BY <2>1, <4>1, <4>2 DEF DependenciesEnabled, LoadedMods
    <3> QED BY <3>1, <3>2
  <2>4. ASSUME NEW x \in Mods, UNCHANGED loaded,
               HasMod(x) /\ enabled' = enabled \cup {x} /\ DependenciesEnabled(x)
        PROVE  FALSE
    BY <2>1, <2>2, <2>4 DEF DependenciesEnabled, HasMod
  <2>5. ASSUME NEW x \in Mods, enabled' = enabled \ {x}, EnabledDependents(x) = {},
               \A y \in Mods \ {x} : loaded'[y] = loaded[y]
        PROVE  FALSE
    <3>1. m # x /\ m \in enabled /\ m \in LoadedMods /\ loaded'[m] = loaded[m]
      BY <2>0, <2>1, <2>5
    <3>2. DependenciesEnabled(m)
      BY <2>2, <3>1 DEF LoadedMods
    <3>3. PICK d \in loaded[m].dependencies : ~ (HasMod(d.name)' /\ d.name \in enabled')
      BY <2>1, <3>1 DEF DependenciesEnabled
    <3>4. HasMod(d.name) /\ d.name \in enabled /\ d.name \in Mods
      BY <2>0, <3>2, <3>3 DEF DependenciesEnabled, LoadedMods
    <3>5. d.name = x
      BY <2>5, <3>3, <3>4 DEF HasMod
    <3>6. <<m, x>> \in dependOn
      BY <2>0, <3>1, <3>3, <3>5 DEF RequiredStayBound
    <3> QED BY <2>5, <3>1, <3>6 DEF EnabledDependents, DependentBy, LoadedMods
  <2>6. ASSUME UNCHANGED <<loaded, enabled>>
        PROVE  FALSE
    BY <2>1, <2>2, <2>6 DEF DependenciesEnabled, HasMod
  <2>7. CASE LoadNext \/ \E mf \in Manifests : LoadMod(mf)
    BY <2>0, <2>3, <2>7, HeadTailProperties DEF LoadNext, LoadMod, TypeOK
  <2>8. CASE \E x \in Mods : UnloadMod(x)
    <3>1. PICK x \in Mods : UnloadMod(x)
      BY <2>8
    <3>2. enabled' = enabled \ {x} /\ EnabledDependents(x) = {}
      BY <3>1 DEF UnloadMod, EnabledDependents
    <3> QED BY <2>0, <2>5, <3>1, <3>2, UnloadEffect
  <2>9. CASE \E x \in Mods : UnloadModFails(x) \/ DisableMod(x)
    BY <2>5, <2>9 DEF UnloadModFails, DisableMod, EnabledDependents
  <2>10. CASE \E x \in Mods : EnableMod(x)
    BY <2>4, <2>10 DEF EnableMod
  <2>11. CASE EnableNext
    <3>1. Head(todo) \in Mods
      BY <2>0, <2>11, HeadTailProperties DEF EnableNext, TypeOK
    <3> QED BY <2>4, <2>6, <2>11, <3>1 DEF EnableNext
  <2>12. CASE DisableNext
    <3>1. Head(todo) \in Mods
      BY <2>0, <2>12, HeadTailProperties DEF DisableNext, TypeOK
    <3> QED BY <2>5, <2>6, <2>12, <3>1 DEF DisableNext
  <2>13. CASE MainThread /\ ~ LoadNext /\ ~ EnableNext /\ ~ DisableNext
    BY <2>6, <2>13 DEF MainThread, LoadAllMods, SkipNext, LoadAllDone, EnableAllMods,
       EnableAllDone, SetRunning, SetStopping, DisableAllMods, DisableAllDone, Relaunch
  <2>14. CASE (\E t \in Types : AddManager(t)) \/ UNCHANGED vars
    BY <2>6, <2>14 DEF AddManager, vars
  <2> QED
    BY <2>7, <2>8, <2>9, <2>10, <2>11, <2>12, <2>13, <2>14 DEF Next, Commands
<1> QED BY <1>1, Invariance, PTL DEF Spec, OnlyHotLoadOutruns

-----------------------------------------------------------------------------
(***************************************************************************)
(* One pass over loadedOrder suffices.                                     *)
(***************************************************************************)

\* While the main thread is in a loop the mutex keeps every other call out.
LEMMA InsideLoop ==
    ASSUME [Next]_vars, main \in {"enabling", "disabling"}
    PROVE  \/ main = "enabling" /\ (EnableNext \/ EnableAllDone)
           \/ main = "disabling" /\ (DisableNext \/ DisableAllDone)
           \/ UNCHANGED <<loaded, enabled, graphVars, main, todo, failed>>
<1>1. CASE MainThread
  BY <1>1 DEF MainThread, LoadAllMods, LoadNext, SkipNext, LoadAllDone, EnableAllMods,
     EnableNext, EnableAllDone, SetRunning, SetStopping, DisableAllMods,
     DisableNext, DisableAllDone, Relaunch
<1>2. ~ Commands
  BY DEF Commands, LoadMod, UnloadMod, UnloadModFails, EnableMod, DisableMod, LockFree
<1>3. CASE \E t \in Types : AddManager(t)
  BY <1>3 DEF AddManager, loopVars, graphVars
<1>4. CASE UNCHANGED vars
  BY <1>4 DEF vars, graphVars
<1> QED BY <1>1, <1>2, <1>3, <1>4 DEF Next

\* A mod that is enabled later in the pass is no dependency of a settled one.
LEMMA EnableLoopInv ==
    ASSUME IInv, IInv', EnableLoop, [Next]_vars
    PROVE  EnableLoop'
<1>0. /\ TypeOK /\ RecordsAgree /\ RequiredStayBound /\ DependenciesFirst
      /\ Len(loadedOrder) \in Nat /\ Len(todo) \in Nat /\ DOMAIN loadedOrder = 1 .. Len(loadedOrder)
  BY DEF IInv, TypeOK
<1>1. CASE EnableNext
  <2>a. PICK lo, n, x : /\ lo = loadedOrder /\ n = Len(loadedOrder) - Len(todo)
                        /\ x = Head(todo)
    OBVIOUS
  <2>1. /\ n >= 0
        /\ \A j \in 1 .. Len(todo) : todo[j] = lo[n + j]
        /\ \A i \in 1 .. n : Settled(lo[i])
        /\ main' = "enabling" /\ todo # <<>>
    BY <1>1, <2>a DEF EnableNext, EnableLoop
  <2>2. /\ todo' = Tail(todo) /\ Len(todo') = Len(todo) - 1
        /\ \A j \in 1 .. Len(todo') : todo'[j] = todo[j + 1]
        /\ x = todo[1] /\ Len(todo) >= 1
    BY <1>0, <1>1, <2>a, HeadTailProperties DEF EnableNext, TypeOK
  <2>3. loadedOrder' = lo /\ loaded' = loaded /\ failed \subseteq failed'
    BY <1>1, <2>a DEF EnableNext, graphVars
  <2>4. /\ n \in Nat /\ n + 1 \in DOMAIN lo /\ x = lo[n + 1]
        /\ DOMAIN lo = 1 .. Len(lo) /\ Len(lo) \in Nat
    BY <1>0, <2>a, <2>1, <2>2
  <2>5. HasMod(x) /\ x \in Mods
    BY <1>0, <2>a, <2>4 DEF RecordsAgree, Range, LoadedMods
  <2>6. Settled(x)'
    BY <1>1, <2>a, <2>5 DEF EnableNext, Settled, DependenciesEnabled, HasMod
  <2>7. ASSUME NEW i \in 1 .. n
        PROVE  Settled(lo[i])'
    <3>0. PICK m : m = lo[i]
      OBVIOUS
    <3>a. i \in DOMAIN lo
      BY <2>4
    <3>b. Settled(m)
      BY <2>1, <3>0
    <3>c. Range(lo) = LoadedMods
      BY <1>0, <2>a DEF RecordsAgree
    <3>1. Settled(m) /\ i \in DOMAIN lo /\ m \in LoadedMods
      BY <3>0, <3>a, <3>b, <3>c DEF Range
    <3>2. enabled' = enabled \/ enabled' = enabled \cup {x}
      BY <1>1, <2>a DEF EnableNext
    <3>3. ASSUME NEW d \in loaded[m].dependencies
          PROVE  d.name # x
      <4>1. Precedes(lo, d.name, m)
        BY <1>0, <2>a, <3>1 DEF RequiredStayBound, DependenciesFirst
      <4>2. PICK a, b \in DOMAIN lo : a < b /\ lo[a] = d.name /\ lo[b] = m
        BY <4>1 DEF Precedes
      <4>3. IsInjective(lo)
        BY <1>0, <2>a DEF RecordsAgree
      <4>4. b = i
        BY <3>0, <3>1, <4>2, <4>3 DEF IsInjective
      <4>5. a # n + 1
        BY <2>4, <4>2, <4>4
      <4> QED BY <2>4, <4>2, <4>3, <4>5 DEF IsInjective
    <3>4. ~ DependenciesEnabled(m) => ~ DependenciesEnabled(m)'
      BY <2>3, <3>2, <3>3 DEF DependenciesEnabled, HasMod
    <3>5. Settled(m)'
      BY <2>3, <3>1, <3>2, <3>4 DEF Settled
    <3> QED BY <3>0, <3>5
  <2>8. Len(loadedOrder') - Len(todo') = n + 1
    <3>1. Len(loadedOrder') = Len(lo)
      BY <2>3
    <3>2. n = Len(lo) - Len(todo) /\ Len(todo') = Len(todo) - 1
      BY <2>a, <2>2
    <3> QED BY <1>0, <2>4, <3>1, <3>2
  <2>9. \A j \in 1 .. Len(todo') : todo'[j] = loadedOrder'[(n + 1) + j]
    <3> SUFFICES ASSUME NEW j \in 1 .. Len(todo')
                 PROVE  todo'[j] = lo[(n + 1) + j]
      BY <2>3
    <3>1. todo'[j] = todo[j + 1] /\ j + 1 \in 1 .. Len(todo)
      BY <1>0, <2>2
    <3>2. todo[j + 1] = lo[n + (j + 1)]
      BY <2>1, <3>1
    <3>3. n + (j + 1) = (n + 1) + j
      BY <1>0, <2>4, <2>2
    <3> QED BY <3>1, <3>2, <3>3
  <2>10. \A i \in 1 .. n + 1 : Settled(lo[i])'
    <3>1. \A i \in 1 .. n + 1 : i \in 1 .. n \/ i = n + 1
      BY <2>4
    <3>2. Settled(lo[n + 1])'
      BY <2>4, <2>6
    <3> QED BY <2>7, <3>1, <3>2
  <2>11. /\ n + 1 >= 0
         /\ \A i \in 1 .. n + 1 : Settled(loadedOrder[i])'
    BY <2>3, <2>4, <2>10
  <2>12. LET done == Len(loadedOrder') - Len(todo') IN
             /\ done >= 0
             /\ \A j \in 1 .. Len(todo') : todo'[j] = loadedOrder'[done + j]
             /\ \A i \in 1 .. done : Settled(loadedOrder[i])'
    BY <2>8, <2>9, <2>11, Zenon
  <2> QED BY <2>12, Zenon DEF EnableLoop
<1>2. CASE EnableAllMods
  <2>1. loadedOrder' = loadedOrder /\ todo' = loadedOrder
    BY <1>2 DEF EnableAllMods, graphVars
  <2> QED BY <1>0, <2>1 DEF EnableLoop
<1>3. CASE main = "enabling" /\ ~ EnableNext /\ main' = "enabling"
  <2>1. UNCHANGED <<loaded, enabled, graphVars, main, todo, failed>>
    BY <1>3, InsideLoop DEF EnableAllDone
  <2> QED BY <1>3, <2>1 DEF EnableLoop, Settled, DependenciesEnabled, HasMod, graphVars
<1>4. CASE main # "enabling" /\ ~ EnableAllMods
  <2>1. main' # "enabling"
    BY <1>4 DEF Next, MainThread, Commands, LoadAllMods, LoadNext, SkipNext, LoadAllDone,
       EnableNext, EnableAllDone, SetRunning, SetStopping, DisableAllMods, DisableNext,
       DisableAllDone, Relaunch, LoadMod, UnloadMod, UnloadModFails, EnableMod,
       DisableMod, AddManager, loopVars, vars
  <2> QED BY <2>1 DEF EnableLoop
<1> QED BY <1>1, <1>2, <1>3, <1>4 DEF EnableLoop

\* enableAllMods leaves no mod that could have been enabled and did not fail.
THEOREM EnableAllComplete == Spec => EnableAllSucceeds
<1>1. Init => EnableLoop
  BY DEF Init, EnableLoop
<1>2. IInv /\ IInv' /\ EnableLoop /\ [Next]_vars => EnableLoop'
  BY EnableLoopInv
<1>3. IInv /\ EnableLoop /\ [Next]_vars => [EnablePass]_vars
  <2> SUFFICES ASSUME IInv, EnableLoop, [Next]_vars, main = "enabling", main' = "enabled",
                      NEW m \in LoadedMods
               PROVE  Settled(m)
    BY DEF EnablePass
  <2>1. todo = <<>>
    BY InsideLoop DEF EnableNext, EnableAllDone
  <2>2. RecordsAgree /\ loadedOrder \in Seq(Mods)
    BY DEF IInv, TypeOK
  <2>3. PICK i \in DOMAIN loadedOrder : m = loadedOrder[i]
    BY <2>2 DEF RecordsAgree, Range
  <2>4. i \in 1 .. Len(loadedOrder) - Len(todo)
    BY <2>1, <2>2, <2>3
  <2> QED BY <2>3, <2>4 DEF EnableLoop
<1> QED BY <1>1, <1>2, <1>3, Invariance, PTL DEF Spec, EnableAllSucceeds

\* A mod that is disabled later in the pass is bound to no mod already visited,
\* so what kept such a mod enabled is still enabled.
LEMMA DisableLoopInv ==
    ASSUME IInv, IInv', DisableLoop, [Next]_vars
    PROVE  DisableLoop'
<1>0. /\ TypeOK /\ RecordsAgree /\ DependenciesFirst
      /\ Len(loadedOrder) \in Nat /\ Len(todo) \in Nat /\ DOMAIN loadedOrder = 1 .. Len(loadedOrder)
  BY DEF IInv, TypeOK
<1>1. CASE DisableNext
  <2>a. PICK lo, k, x : lo = loadedOrder /\ k = Len(todo) /\ x = Head(todo)
    OBVIOUS
  <2>1. /\ k <= Len(lo)
        /\ \A j \in 1 .. k : todo[j] = lo[k + 1 - j]
        /\ \A i \in k + 1 .. Len(lo) : Released(lo[i])
        /\ main' = "disabling" /\ todo # <<>>
    BY <1>1, <2>a DEF DisableNext, DisableLoop
  <2>2. /\ todo' = Tail(todo) /\ Len(todo') = k - 1
        /\ \A j \in 1 .. Len(todo') : todo'[j] = todo[j + 1]
        /\ x = todo[1] /\ k >= 1
    BY <1>0, <1>1, <2>a, HeadTailProperties DEF DisableNext, TypeOK
  <2>3. loadedOrder' = lo /\ loaded' = loaded /\ dependOn' = dependOn /\ failed \subseteq failed'
    BY <1>1, <2>a DEF DisableNext, graphVars
  <2>4. /\ k \in Nat /\ k \in DOMAIN lo /\ x = lo[k]
        /\ DOMAIN lo = 1 .. Len(lo) /\ Len(lo) \in Nat
    <3>1. x = lo[k + 1 - 1]
      BY <1>0, <2>a, <2>1, <2>2
    <3> QED BY <1>0, <2>a, <2>1, <2>2, <3>1
  <2>5. HasMod(x) /\ x \in Mods
    BY <1>0, <2>a, <2>4 DEF RecordsAgree, Range, LoadedMods
  <2>6. Released(x)'
    <3>1. CASE x \notin enabled \/ EnabledDependents(x) # {}
      BY <1>1, <2>a, <2>3, <3>1 DEF DisableNext, Released, EnabledDependents, DependentBy, HasMod
    <3>2. CASE ~ (x \notin enabled \/ EnabledDependents(x) # {})
      BY <1>1, <2>a, <2>5, <3>2 DEF DisableNext, Released
    <3> QED BY <3>1, <3>2
  <2>7. ASSUME NEW i \in k + 1 .. Len(lo)
        PROVE  Released(lo[i])'
    <3>0. PICK m : m = lo[i]
      OBVIOUS
    <3>1. i \in DOMAIN lo /\ i > k /\ Released(m)
      BY <2>1, <2>4, <3>0
    <3>2. enabled' = enabled \/ enabled' = enabled \ {x}
      BY <1>1, <2>a DEF DisableNext
    <3>3. x \notin DependentBy(m)
      <4>1. SUFFICES ASSUME x \in DependentBy(m) PROVE FALSE
        OBVIOUS
      <4>2. Precedes(lo, m, x)
        BY <1>0, <2>a, <4>1 DEF DependentBy, DependenciesFirst
      <4>3. PICK a, b \in DOMAIN lo : a < b /\ lo[a] = m /\ lo[b] = x
        BY <4>2 DEF Precedes
      <4>4. IsInjective(lo)
        BY <1>0, <2>a DEF RecordsAgree
      <4>5. a = i /\ b = k
        BY <2>4, <3>0, <3>1, <4>3, <4>4 DEF IsInjective
      <4> QED BY <2>4, <3>1, <4>3, <4>5
    <3>4. EnabledDependents(m) # {} => EnabledDependents(m)' # {}
      BY <2>3, <3>2, <3>3 DEF EnabledDependents, DependentBy, HasMod
    <3>5. Released(m)'
      BY <2>3, <3>1, <3>2, <3>4 DEF Released
    <3> QED BY <3>0, <3>5
  <2>8. \A j \in 1 .. Len(todo') : todo'[j] = loadedOrder'[Len(todo') + 1 - j]
    <3> SUFFICES ASSUME NEW j \in 1 .. Len(todo')
                 PROVE  todo'[j] = lo[k - j]
      <4>1. \A j \in 1 .. Len(todo') : Len(todo') + 1 - j = k - j
        BY <2>2, <2>4
      <4> QED BY <2>3, <4>1
    <3>1. todo'[j] = todo[j + 1] /\ j + 1 \in 1 .. k
      BY <2>2, <2>4
    <3>2. todo[j + 1] = lo[k + 1 - (j + 1)]
      BY <2>1, <3>1
    <3>3. k + 1 - (j + 1) = k - j
      BY <2>2, <2>4
    <3> QED BY <3>1, <3>2, <3>3
  <2>9. \A i \in k .. Len(lo) : Released(lo[i])'
    <3>1. \A i \in k .. Len(lo) : i = k \/ i \in k + 1 .. Len(lo)
      BY <2>4
    <3>2. Released(lo[k])'
      BY <2>4, <2>6
    <3> QED BY <2>7, <3>1, <3>2
  <2>10. Len(todo') + 1 = k /\ Len(todo') <= Len(loadedOrder')
    BY <2>1, <2>2, <2>3, <2>4
  <2> QED BY <2>3, <2>8, <2>9, <2>10 DEF DisableLoop
<1>2. CASE DisableAllMods
  <2>1. loadedOrder' = loadedOrder /\ todo' = Reverse(loadedOrder)
    BY <1>2 DEF DisableAllMods, graphVars
  <2>2. /\ Len(todo') = Len(loadedOrder)
        /\ \A j \in 1 .. Len(todo') : todo'[j] = loadedOrder[Len(todo') + 1 - j]
    BY <1>0, <2>1 DEF Reverse
  <2> QED BY <1>0, <2>1, <2>2 DEF DisableLoop
<1>3. CASE main = "disabling" /\ ~ DisableNext /\ main' = "disabling"
  <2>1. UNCHANGED <<loaded, enabled, graphVars, main, todo, failed>>
    BY <1>3, InsideLoop DEF DisableAllDone
  <2> QED BY <1>3, <2>1 DEF DisableLoop, Released, EnabledDependents, DependentBy, HasMod, graphVars
<1>4. CASE main # "disabling" /\ ~ DisableAllMods
  <2>1. main' # "disabling"
    BY <1>4 DEF Next, MainThread, Commands, LoadAllMods, LoadNext, SkipNext, LoadAllDone,
       EnableAllMods, EnableNext, EnableAllDone, SetRunning, SetStopping, DisableNext,
       DisableAllDone, Relaunch, LoadMod, UnloadMod, UnloadModFails, EnableMod,
       DisableMod, AddManager, loopVars, vars
  <2> QED BY <2>1 DEF DisableLoop
<1> QED BY <1>1, <1>2, <1>3, <1>4 DEF DisableLoop

\* disableAllMods leaves no mod that could have been disabled and did not fail.
THEOREM DisableAllComplete == Spec => DisableAllSucceeds
<1>1. Init => DisableLoop
  BY DEF Init, DisableLoop
<1>2. IInv /\ IInv' /\ DisableLoop /\ [Next]_vars => DisableLoop'
  BY DisableLoopInv
<1>3. IInv /\ DisableLoop /\ [Next]_vars => [DisablePass]_vars
  <2> SUFFICES ASSUME IInv, DisableLoop, [Next]_vars, main = "disabling", main' = "stopped",
                      NEW m \in enabled
               PROVE  Released(m)
    BY DEF DisablePass
  <2>1. todo = <<>>
    BY InsideLoop DEF DisableNext, DisableAllDone
  <2>2. RecordsAgree /\ loadedOrder \in Seq(Mods) /\ enabled \subseteq LoadedMods
    BY DEF IInv, TypeOK
  <2>3. PICK i \in DOMAIN loadedOrder : m = loadedOrder[i]
    BY <2>2 DEF RecordsAgree, Range
  <2>4. i \in Len(todo) + 1 .. Len(loadedOrder)
    BY <2>1, <2>2, <2>3
  <2> QED BY <2>3, <2>4 DEF DisableLoop
<1> QED BY <1>1, <1>2, <1>3, Invariance, PTL DEF Spec, DisableAllSucceeds


-----------------------------------------------------------------------------
(***************************************************************************)
(* Managers withdrawn at any moment.  Only five kinds of step matter to the *)
(* records: mods that go, a load into the registry, its commit, one binding *)
(* and an unload; the others leave registry and records alone.              *)
(***************************************************************************)

\* The history: pairs stay while both mods do, and a load adds its own.
LEMMA PairsStay ==
    ASSUME together \subseteq LoadedMods \X LoadedMods, KeepsTogether,
           LoadedMods' \subseteq LoadedMods
    PROVE  /\ together' \subseteq together
           /\ together' \subseteq LoadedMods' \X LoadedMods'
BY DEF KeepsTogether, LoadedMods, HasMod

\* Mods only go, and nothing else changes: erasures, and all quiet steps.
LEMMA ModsGo ==
    ASSUME WithdrawalInv, KeepsTogether, UNCHANGED <<graphVars, call>>,
           \A m \in Mods : loaded'[m] \in {loaded[m], NoMod}
    PROVE  /\ CallOK' /\ AllListed' /\ HistoryOK' /\ AllBound'
<1>1. LoadedMods' \subseteq LoadedMods
  BY DEF LoadedMods, HasMod
<1>2. \A m \in LoadedMods' : m \in LoadedMods /\ loaded'[m] = loaded[m]
  BY DEF LoadedMods, HasMod
<1>3. /\ together' \subseteq together
      /\ together' \subseteq LoadedMods' \X LoadedMods'
  BY <1>1, PairsStay DEF WithdrawalInv, HistoryOK
<1>4. nodes' = nodes /\ dependOn' = dependOn /\ loadedOrder' = loadedOrder /\ call' = call
  BY DEF graphVars
<1>5. CallOK'
  BY <1>2, <1>4, ManifestFields DEF WithdrawalInv, CallOK, CallType, LoadedMods
<1>6. AllListed'
  BY <1>1, <1>4 DEF WithdrawalInv, AllListed, ToCommit
<1>7. \A p \in together' : loaded'[p[1]] = loaded[p[1]] /\ loaded'[p[2]] = loaded[p[2]]
  BY <1>2, <1>3
<1>8. HistoryOK'
  BY <1>3, <1>4, <1>7 DEF WithdrawalInv, HistoryOK
<1>9. AllBound'
  BY <1>3, <1>4, <1>7 DEF WithdrawalInv, AllBound, ToBind, DependsOn
<1> QED BY <1>5, <1>6, <1>8, <1>9

\* A load passes a stage without touching registry or records.
LEMMA StageOnly ==
    ASSUME WithdrawalInv, KeepsTogether, UNCHANGED <<loaded, graphVars>>, CallOK',
           \/ call.stage \in {"none", "checked"} /\ call'.stage \in {"none", "checked"}
           \/ call.stage = "loaded" /\ ~ HasMod(call.mod.name) /\ call' = Idle
           \/ call.stage = "binding" /\ call.left = {} /\ call' = Idle
    PROVE  AllListed' /\ HistoryOK' /\ AllBound'
<1>1. LoadedMods' = LoadedMods
  BY DEF LoadedMods, HasMod
<1>2. together' \subseteq together /\ together' \subseteq LoadedMods \X LoadedMods
  BY <1>1, PairsStay DEF WithdrawalInv, HistoryOK
<1>3. nodes' = nodes /\ dependOn' = dependOn /\ loadedOrder' = loadedOrder /\ loaded' = loaded
  BY DEF graphVars
<1>4. call'.stage \in {"none", "checked"}
  BY DEF Idle
<1>5. ToCommit' = {} /\ ToBind' = {}
  BY <1>4 DEF ToCommit, ToBind
<1>6. AllListed'
  <2>1. LoadedMods \subseteq nodes
    BY DEF WithdrawalInv, AllListed, ToCommit, LoadedMods
  <2> QED BY <1>1, <1>3, <2>1 DEF WithdrawalInv, AllListed
<1>7. HistoryOK'
  BY <1>1, <1>2, <1>3, <1>4 DEF WithdrawalInv, HistoryOK
<1>8. ASSUME NEW p \in together', DependsOn(p[1], p[2])
      PROVE  p \in dependOn
  <2>0. p \in together /\ p[1] \in LoadedMods
    BY <1>2
  <2>1. CASE p[1] \notin ToBind
    BY <1>8, <2>0, <2>1 DEF WithdrawalInv, AllBound
  <2>2. CASE p[1] \in ToBind
    <3>1. call.stage = "binding" /\ call.left = {} /\ p[1] = call.mod.name
      BY <2>0, <2>2 DEF ToBind, LoadedMods
    <3>2. loaded[p[1]] = call.mod
      BY <2>0, <3>1 DEF WithdrawalInv, CallOK, LoadedMods
    <3> QED BY <1>8, <2>0, <3>1, <3>2 DEF WithdrawalInv, HistoryOK, DependsOn
  <2> QED BY <2>1, <2>2
<1>9. AllBound'
  BY <1>3, <1>5, <1>8 DEF AllBound, DependsOn
<1> QED BY <1>6, <1>7, <1>9

\* A load reaches the registry: the mod has still to be committed.
LEMMA ReachesRegistry ==
    ASSUME WithdrawalInv, KeepsTogether, LoadInRegistry
    PROVE  CallOK' /\ AllListed' /\ HistoryOK' /\ AllBound'
<1>0. PICK mf \in Manifests : mf = call.mod
  BY DEF WithdrawalInv, CallOK, CallType, LoadInRegistry
<1>1. /\ mf.name \in Mods /\ mf.name \notin LoadedMods
      /\ LoadedMods' = LoadedMods \cup {mf.name}
      /\ loaded'[mf.name] = mf
      /\ \A m \in LoadedMods : loaded'[m] = loaded[m]
  BY <1>0, RegistryLoadEffect DEF WithdrawalInv, LoadInRegistry
<1>2. nodes' = nodes /\ dependOn' = dependOn /\ loadedOrder' = loadedOrder
  BY DEF LoadInRegistry, graphVars
<1>3. call'.stage = "loaded" /\ call'.mod = mf /\ CallType'
  BY <1>0 DEF WithdrawalInv, CallOK, CallType, LoadInRegistry, Stages
<1>4. call.stage = "checked" /\ ToCommit = {} /\ ToBind = {}
  BY DEF LoadInRegistry, ToCommit, ToBind
<1>5. ToCommit' = {mf.name} /\ ToBind' = {mf.name}
  BY <1>3 DEF ToCommit, ToBind
<1>6. together \subseteq LoadedMods \X LoadedMods
  BY DEF WithdrawalInv, HistoryOK
<1>7. /\ together' \subseteq together \cup ({mf.name} \X LoadedMods)
      /\ together' \subseteq LoadedMods' \X LoadedMods'
  BY <1>1, <1>6 DEF KeepsTogether
<1>8. CallOK'
  BY <1>1, <1>3 DEF CallOK
<1>9. AllListed'
  BY <1>1, <1>2, <1>4, <1>5 DEF WithdrawalInv, AllListed
<1>10. HistoryOK'
  <2>1. \A p \in together' : p[1] # p[2]
    BY <1>1, <1>7 DEF WithdrawalInv, HistoryOK
  <2> QED BY <1>3, <1>7, <2>1 DEF HistoryOK
<1>11. ASSUME NEW p \in together', p[1] # mf.name, DependsOn(p[1], p[2])'
       PROVE  p \in dependOn
  <2>1. p \in together /\ p[1] \in LoadedMods /\ p[2] \in LoadedMods
    BY <1>6, <1>7, <1>11
  <2>2. DependsOn(p[1], p[2])
    BY <1>1, <1>11, <2>1 DEF DependsOn
  <2> QED BY <1>4, <2>1, <2>2 DEF WithdrawalInv, AllBound
<1>12. AllBound'
  BY <1>2, <1>5, <1>11 DEF AllBound
<1> QED BY <1>8, <1>9, <1>10, <1>12

\* commitLoadedMod lists a mod that is there, also one the records name already.
LEMMA CommitLists ==
    ASSUME WithdrawalInv, KeepsTogether, Commit, HasMod(call.mod.name)
    PROVE  CallOK' /\ AllListed' /\ HistoryOK' /\ AllBound'
<1>0. PICK mf \in Manifests : mf = call.mod
  BY DEF WithdrawalInv, CallOK, CallType, Commit
<1>1. /\ call.stage = "loaded" /\ mf.name \in Mods
      /\ Declared(mf) \subseteq Dependency
  BY <1>0, ManifestFields, ManifestAssumption DEF Commit, Declared, Manifest
<1>2. /\ nodes' = nodes \cup {mf.name}
      /\ loadedOrder' = IF mf.name \in Range(loadedOrder)
                        THEN loadedOrder ELSE Append(loadedOrder, mf.name)
      /\ dependOn' = dependOn /\ loaded' = loaded
      /\ call' = [call EXCEPT !.stage = "binding", !.left = Declared(mf)]
  BY <1>0 DEF Commit, ListLoadedMod
<1>3. call'.stage = "binding" /\ call'.mod = mf /\ call'.left = Declared(mf) /\ CallType'
  BY <1>0, <1>1, <1>2 DEF WithdrawalInv, CallOK, CallType, Stages
<1>4. LoadedMods' = LoadedMods
  BY <1>2 DEF LoadedMods, HasMod
<1>5. together' \subseteq together /\ together' \subseteq LoadedMods' \X LoadedMods'
  BY <1>4, PairsStay DEF WithdrawalInv, HistoryOK
<1>6. /\ loadedOrder \in Seq(Mods)
      /\ Range(loadedOrder) = nodes
      /\ IsInjective(loadedOrder)
  BY DEF WithdrawalInv, TypeOK, AllListed
<1>7. Range(loadedOrder') = nodes' /\ IsInjective(loadedOrder')
  <2>1. CASE mf.name \in nodes
    BY <2>1, <1>2, <1>6
  <2>2. CASE mf.name \notin nodes
    <3>1. loadedOrder' = Append(loadedOrder, mf.name)
      BY <2>2, <1>2, <1>6
    <3> QED BY <2>2, <3>1, <1>1, <1>2, <1>6, AppendProps
  <2> QED BY <2>1, <2>2
<1>8. CallOK'
  BY <1>0, <1>1, <1>2, <1>3 DEF WithdrawalInv, CallOK, HasMod
<1>9. AllListed'
  BY <1>0, <1>1, <1>2, <1>4, <1>7 DEF WithdrawalInv, AllListed, ToCommit
<1>10. HistoryOK'
  <2>1. \A p \in together' : p[1] # p[2]
    BY <1>5 DEF WithdrawalInv, HistoryOK
  <2> QED BY <1>3, <1>5, <2>1 DEF HistoryOK
<1>11. AllBound'
  BY <1>0, <1>1, <1>2, <1>3, <1>5 DEF WithdrawalInv, AllBound, ToBind, DependsOn
<1> QED BY <1>8, <1>9, <1>10, <1>11

\* One dependency is looked up, and the mod bound to it if it is there.
LEMMA BindsOne ==
    ASSUME WithdrawalInv, KeepsTogether, BindNext
    PROVE  CallOK' /\ AllListed' /\ HistoryOK' /\ AllBound'
<1>0. PICK mf \in Manifests : mf = call.mod
  BY DEF WithdrawalInv, CallOK, CallType, BindNext
<1>1. PICK d \in call.left :
          /\ dependOn' = dependOn \cup ({mf.name} \X BoundAmong(mf, {d}))
          /\ call' = [call EXCEPT !.left = @ \ {d}]
  BY <1>0 DEF BindNext
<1>2. /\ call.stage = "binding" /\ mf.name \in nodes /\ mf.name \in Mods
      /\ d.name \in Mods
      /\ UNCHANGED <<loaded, nodes, loadedOrder>>
  BY <1>0, <1>1, ManifestFields DEF WithdrawalInv, CallOK, CallType, Dependency, BindNext
<1>3. call'.stage = "binding" /\ call'.mod = mf /\ call'.left = call.left \ {d} /\ CallType'
  BY <1>0, <1>1, <1>2 DEF WithdrawalInv, CallOK, CallType
<1>4. LoadedMods' = LoadedMods
  BY <1>2 DEF LoadedMods, HasMod
<1>5. /\ together' \subseteq together
      /\ together' \subseteq LoadedMods' \X LoadedMods'
      /\ together \subseteq LoadedMods \X LoadedMods
  BY <1>4, PairsStay DEF WithdrawalInv, HistoryOK
<1>6. BoundAmong(mf, {d}) \subseteq nodes
  <2>1. LoadedMods \subseteq nodes
    BY <1>2 DEF WithdrawalInv, AllListed, ToCommit
  <2> QED BY <1>2, <2>1 DEF BoundAmong, LoadedMods
<1>7. CallOK'
  BY <1>0, <1>2, <1>3 DEF WithdrawalInv, CallOK, HasMod
<1>8. AllListed'
  BY <1>1, <1>2, <1>3, <1>4, <1>6 DEF WithdrawalInv, AllListed, ToCommit
<1>9. ASSUME NEW p \in together', NEW e \in Declared(mf) \ call'.left,
             p[1] = mf.name, e.name = p[2], MatchesDependency(loaded[p[2]], e)
      PROVE  p \in dependOn'
  <2>1. p \in together /\ p[2] \in LoadedMods /\ p = <<p[1], p[2]>>
    BY <1>5
  <2>2. CASE e \notin call.left
    BY <1>0, <1>1, <1>2, <1>9, <2>1, <2>2 DEF WithdrawalInv, HistoryOK
  <2>3. CASE e = d
    <3>1. p[2] # mf.name
      BY <1>9, <2>1 DEF WithdrawalInv, HistoryOK
    <3>2. p[2] \in BoundAmong(mf, {d})
      BY <1>9, <2>1, <2>3, <3>1 DEF BoundAmong, LoadedMods
    <3> QED BY <1>1, <1>9, <2>1, <3>2
  <2> QED BY <1>3, <1>9, <2>2, <2>3
<1>10. HistoryOK'
  <2>1. \A p \in together' : p[1] # p[2]
    BY <1>5 DEF WithdrawalInv, HistoryOK
  <2> QED BY <1>2, <1>3, <1>5, <1>9, <2>1 DEF HistoryOK
<1>11. AllBound'
  BY <1>0, <1>1, <1>2, <1>3, <1>5 DEF WithdrawalInv, AllBound, ToBind, DependsOn
<1> QED BY <1>7, <1>8, <1>10, <1>11

\* An unload takes the mod's node, its edges and its place in the order, and
\* none that is left is bound to it.
LEMMA UnloadUnlists ==
    ASSUME WithdrawalInv, KeepsTogether, call = Idle, UNCHANGED call,
           NEW m \in Mods, UnloadMod(m)
    PROVE  CallOK' /\ AllListed' /\ HistoryOK' /\ AllBound'
<1>1. /\ LoadedMods' = LoadedMods \ {m}
      /\ \A x \in Mods \ {m} : loaded'[x] = loaded[x]
      /\ DependentBy(m) = {}
      /\ nodes' = nodes \ {m}
      /\ dependOn' = {e \in dependOn : e[1] # m}
      /\ loadedOrder' = Without(loadedOrder, m)
  BY UnloadEffect DEF WithdrawalInv
<1>2. call.stage = "none" /\ call' = call
  BY DEF Idle
<1>3. /\ together' \subseteq together
      /\ together' \subseteq LoadedMods' \X LoadedMods'
      /\ \A p \in together' : loaded'[p[1]] = loaded[p[1]] /\ loaded'[p[2]] = loaded[p[2]]
  <2>1. /\ together' \subseteq together
        /\ together' \subseteq LoadedMods' \X LoadedMods'
    BY <1>1, PairsStay DEF WithdrawalInv, HistoryOK
  <2>2. \A x \in LoadedMods' : x \in Mods \ {m}
    BY <1>1 DEF LoadedMods
  <2> QED BY <1>1, <2>1, <2>2
<1>4. /\ loadedOrder \in Seq(Mods)
      /\ Range(loadedOrder) = nodes
      /\ IsInjective(loadedOrder)
  BY DEF WithdrawalInv, TypeOK, AllListed
<1>5. /\ Range(Without(loadedOrder, m)) = Range(loadedOrder) \ {m}
      /\ IsInjective(Without(loadedOrder, m))
  BY <1>4, WithoutProps
<1>6. CallOK'
  BY <1>2 DEF WithdrawalInv, CallOK, CallType
<1>7. AllListed'
  <2>1. Range(loadedOrder') = nodes' /\ IsInjective(loadedOrder')
    BY <1>1, <1>4, <1>5
  <2>2. dependOn' \subseteq nodes' \X nodes'
    BY <1>1 DEF WithdrawalInv, AllListed, DependentBy, TypeOK
  <2> QED BY <1>1, <1>2, <2>1, <2>2 DEF WithdrawalInv, AllListed, ToCommit
<1>8. HistoryOK'
  BY <1>2, <1>3 DEF WithdrawalInv, HistoryOK
<1>9. AllBound'
  <2> SUFFICES ASSUME NEW p \in together', DependsOn(p[1], p[2])'
               PROVE  p \in dependOn'
    BY DEF AllBound
  <2>1. p \in together /\ p[1] # m /\ DependsOn(p[1], p[2])
    BY <1>1, <1>3 DEF DependsOn
  <2>2. p \in dependOn
    BY <1>2, <2>1 DEF WithdrawalInv, AllBound, ToBind
  <2> QED BY <1>1, <2>1, <2>2
<1> QED BY <1>6, <1>7, <1>8, <1>9

\* Every step is of one of these kinds.
LEMMA WithdrawalStep ==
    ASSUME WithdrawalInv, NextWithdrawal
    PROVE  CallOK' /\ AllListed' /\ HistoryOK' /\ AllBound'
<1>0. /\ loaded \in [Mods -> Manifests \cup {NoMod}]
      /\ Idle \in [stage : Stages, mod : Manifests \cup {NoMod}, left : SUBSET Dependency]
      /\ call \in [stage : Stages, mod : Manifests \cup {NoMod}, left : SUBSET Dependency]
      /\ KeepsTogether
  BY DEF WithdrawalInv, TypeOK, CallOK, CallType, Idle, Stages, NextWithdrawal
<1>1. ASSUME UNCHANGED <<loaded, graphVars, call>>
      PROVE  CallOK' /\ AllListed' /\ HistoryOK' /\ AllBound'
  <2>1. \A m \in Mods : loaded'[m] \in {loaded[m], NoMod}
    BY <1>1
  <2> QED BY <1>0, <1>1, <2>1, ModsGo
<1>2. ASSUME NEW mf \in Manifests, BeginLoad(mf), UNCHANGED <<loaded, graphVars>>
      PROVE  CallOK' /\ AllListed' /\ HistoryOK' /\ AllBound'
  <2>1. call.stage = "none" /\ call'.stage = "checked" /\ call'.mod = mf
    BY <1>2 DEF BeginLoad, Idle
  <2>2. CallOK'
    BY <1>2, <2>1 DEF CallOK, CallType, BeginLoad, Stages
  <2> QED BY <1>0, <1>2, <2>1, <2>2, StageOnly
<1>3. CASE BeginNext
  <2>1. Head(plan) \in Manifests
    BY <1>3, HeadTailProperties DEF BeginNext, WithdrawalInv, TypeOK
  <2> QED BY <1>2, <1>3, <2>1 DEF BeginNext
<1>4. CASE \E mf \in Manifests : BeginCommand(mf)
  BY <1>2, <1>4 DEF BeginCommand, vars, graphVars
<1>5. CASE RefuseLoad \/ EndCommit \/ (Commit /\ ~ HasMod(call.mod.name))
  <2>1. call' = Idle /\ UNCHANGED <<loaded, graphVars>>
    BY <1>5 DEF RefuseLoad, EndCommit, Commit, vars, graphVars
  <2>2. CallOK'
    BY <1>0, <2>1 DEF CallOK, CallType, Idle
  <2>3. \/ call.stage \in {"none", "checked"} /\ call'.stage \in {"none", "checked"}
        \/ call.stage = "loaded" /\ ~ HasMod(call.mod.name) /\ call' = Idle
        \/ call.stage = "binding" /\ call.left = {} /\ call' = Idle
    BY <1>5 DEF RefuseLoad, EndCommit, Commit, Idle
  <2> QED BY <1>0, <2>1, <2>2, <2>3, StageOnly
<1>6. CASE LoadInRegistry
  BY <1>0, <1>6, ReachesRegistry
<1>7. CASE Commit /\ HasMod(call.mod.name)
  BY <1>0, <1>7, CommitLists
<1>8. CASE BindNext
  BY <1>0, <1>8, BindsOne
<1>9. CASE call = Idle /\ Guarded /\ UNCHANGED call
  <2>1. CASE \E m \in Mods : UnloadMod(m)
    BY <1>0, <1>9, <2>1, UnloadUnlists
  <2>2. CASE ~ \E m \in Mods : UnloadMod(m)
    <3>1. UNCHANGED <<loaded, graphVars>>
      BY <1>9, <2>2 DEF Guarded, LoadAllMods, SkipNext, LoadAllDone, EnableAllMods,
         EnableNext, EnableAllDone, DisableAllMods, DisableNext, DisableAllDone,
         UnloadModFails, EnableMod, DisableMod
    <3> QED BY <1>1, <1>9, <3>1
  <2> QED BY <2>1, <2>2
<1>10. CASE (SetRunning \/ SetStopping \/ Relaunch \/ \E t \in Types : AddManager(t)) /\ UNCHANGED call
  <2>1. UNCHANGED <<loaded, graphVars, call>>
    BY <1>10 DEF SetRunning, SetStopping, Relaunch, AddManager
  <2> QED BY <1>1, <2>1
<1>11. CASE (\E t \in Types : EraseManager(t)) /\ UNCHANGED call
  <2>1. /\ \A m \in Mods : loaded'[m] \in {loaded[m], NoMod}
        /\ UNCHANGED <<graphVars, call>>
    BY <1>11 DEF EraseManager
  <2> QED BY <1>0, <2>1, ModsGo
<1> QED
  BY <1>3, <1>4, <1>5, <1>6, <1>7, <1>8, <1>9, <1>10, <1>11
  DEF NextWithdrawal, Loading, Unguarded

\* Types are kept too: but for the load in progress and the erasures, every
\* step is one of ModRegistrar.
LEMMA WithdrawalTypes ==
    ASSUME WithdrawalInv, NextWithdrawal
    PROVE  TypeOK'
<1>1. TypeOK /\ CallType
  BY DEF WithdrawalInv, CallOK
<1>2. CASE Guarded
  <2>1. [Next]_vars
    BY <1>2 DEF Guarded, Next, MainThread, Commands
  <2> QED BY <1>1, <2>1, TypeInv
<1>3. CASE SetRunning \/ SetStopping \/ Relaunch \/ \E t \in Types : AddManager(t)
  <2>1. [Next]_vars
    BY <1>3 DEF Next, MainThread
  <2> QED BY <1>1, <2>1, TypeInv
<1>4. CASE \E t \in Types : EraseManager(t)
  BY <1>1, <1>4, RegistrarAssumption DEF EraseManager, TypeOK, loopVars, graphVars
<1>5. CASE BeginNext
  <2>1. Tail(plan) \in Seq(Manifests)
    BY <1>1, <1>5, HeadTailProperties DEF BeginNext, TypeOK
  <2> QED BY <1>1, <1>5, <2>1 DEF BeginNext, TypeOK, graphVars
<1>6. CASE RefuseLoad \/ EndCommit \/ \E mf \in Manifests : BeginCommand(mf)
  BY <1>1, <1>6 DEF RefuseLoad, EndCommit, BeginCommand, vars, TypeOK, graphVars
<1>7. CASE LoadInRegistry
  <2>1. call.mod \in Manifests /\ call.mod.name \in Mods
    BY <1>1, <1>7, ManifestFields DEF LoadInRegistry, CallType
  <2> QED BY <1>1, <1>7, <2>1 DEF LoadInRegistry, RegistryLoadMod, TypeOK, loopVars, graphVars
<1>8. CASE Commit
  <2>1. call.mod \in Manifests /\ call.mod.name \in Mods
    BY <1>1, <1>8, ManifestFields DEF Commit, CallType
  <2>2. loadedOrder' \in Seq(Mods)
    BY <1>1, <1>8, <2>1, AppendProps DEF Commit, ListLoadedMod, TypeOK
  <2>3. nodes' \subseteq Mods
    BY <1>1, <1>8, <2>1 DEF Commit, ListLoadedMod, TypeOK
  <2>4. UNCHANGED <<managers, loaded, enabled, dependOn, status, main, plan, todo, failed>>
    BY <1>8 DEF Commit, loopVars
  <2> QED BY ONLY <1>1, <2>2, <2>3, <2>4 DEF TypeOK
<1>9. CASE BindNext
  <2>1. call.mod \in Manifests /\ call.mod.name \in Mods
    BY <1>1, <1>9, ManifestFields DEF BindNext, CallType
  <2>2. \A d \in call.left : BoundAmong(call.mod, {d}) \subseteq Mods
    BY <1>1 DEF BoundAmong, CallType, Dependency
  <2>3. dependOn' \subseteq Mods \X Mods
    BY <1>1, <1>9, <2>1, <2>2 DEF BindNext, TypeOK
  <2> QED BY <1>1, <1>9, <2>3 DEF BindNext, TypeOK, loopVars
<1> QED
  BY <1>2, <1>3, <1>4, <1>5, <1>6, <1>7, <1>8, <1>9
  DEF NextWithdrawal, Loading, Unguarded

\* Managers may be withdrawn at any moment: what a load in progress knows stays
\* right, and the records cover what is loaded.  WithdrawalInv is inductive.
THEOREM WithdrawalInvariance == SpecWithdrawal => []WithdrawalInv
<1>1. InitWithdrawal => WithdrawalInv
  <2> SUFFICES ASSUME InitWithdrawal PROVE WithdrawalInv
    OBVIOUS
  <2>1. TypeOK /\ LoadedMods = {}
    BY DEF InitWithdrawal, Init, TypeOK, MainStates, LoadedMods, HasMod
  <2>2. call = Idle /\ together = {} /\ call.stage = "none"
    BY DEF InitWithdrawal, Idle
  <2>3. CallOK
    BY <2>2 DEF CallOK, CallType, Idle, Stages
  <2>4. HistoryOK /\ AllBound
    BY <2>2 DEF HistoryOK, AllBound
  <2>5. AllListed
    BY <2>1 DEF AllListed, InitWithdrawal, Init, Range, IsInjective
  <2> QED BY <2>1, <2>3, <2>4, <2>5 DEF WithdrawalInv
<1>2. WithdrawalInv /\ NextWithdrawal => WithdrawalInv'
  BY WithdrawalStep, WithdrawalTypes DEF WithdrawalInv
<1>3. WithdrawalInv /\ UNCHANGED wvars => WithdrawalInv'
  <2> SUFFICES ASSUME WithdrawalInv, UNCHANGED wvars PROVE WithdrawalInv'
    OBVIOUS
  <2>1. UNCHANGED vars /\ UNCHANGED <<call, together>>
    BY DEF wvars
  <2>2. TypeOK'
    BY <2>1, TypeInv DEF WithdrawalInv
  <2>3. UNCHANGED <<managers, loaded, nodes, dependOn, loadedOrder, call, together>>
    BY <2>1 DEF vars
  <2>4. LoadedMods' = LoadedMods /\ ToCommit' = ToCommit /\ ToBind' = ToBind
    BY <2>3 DEF LoadedMods, HasMod, ToCommit, ToBind
  <2>5. CallOK'
    BY <2>3 DEF WithdrawalInv, CallOK, CallType, HasMod
  <2>6. HistoryOK'
    BY <2>3, <2>4 DEF WithdrawalInv, HistoryOK
  <2>7. AllListed' /\ AllBound'
    BY <2>3, <2>4 DEF WithdrawalInv, AllListed, AllBound, DependsOn
  <2> QED BY <2>2, <2>5, <2>6, <2>7 DEF WithdrawalInv
<1> QED BY <1>1, <1>2, <1>3, PTL DEF SpecWithdrawal

\* Whichever managers mods withdraw and whenever, also in the middle of a pass
\* or of a load, no mod the registry finds is missing from the graph or from
\* loadedOrder, and none that stands beside a dependency it was loaded with is
\* unbound from it.
THEOREM NothingEverHidden == SpecWithdrawal => []NothingHidden
<1>1. WithdrawalInv => NothingHidden
  BY DEF WithdrawalInv, NothingHidden
<1> QED BY <1>1, WithdrawalInvariance, PTL

=============================================================================
