\* On every platform; no manager is erased.
SPECIFICATION MCSpec
CONSTANTS
    a = a
    b = b
    c = c
    Native = Native
    Script = Script
    NoMod = NoMod
    NoRange = NoRange
    Unversioned = Unversioned
    HasEnableHook = TRUE
    Mods <- MCMods
    Versions <- MCVersions
    Types <- MCTypes
    Manifests <- MCManifests
INVARIANTS
    RecordsAgree
    RequiredStayBound
    DependenciesFirst
    NoLoadedConflict
PROPERTIES
    EnableAllSucceeds
    DisableAllSucceeds
    ContractKept
CHECK_DEADLOCK FALSE
