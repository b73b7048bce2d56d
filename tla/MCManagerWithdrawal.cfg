\* Mods also withdraw managers, at any moment.
SPECIFICATION MCSpecWithdrawal
CONSTANTS
    a = a
    b = b
    c = c
    Native = Native
    Script = Script
    NoMod = NoMod
    NoRange = NoRange
    Unversioned = Unversioned
    HasEnableHook = TRUE
    Mods <- MCMods
    Versions <- MCVersions
    Types <- MCTypes
    Manifests <- MCFewManifests
INVARIANT NothingHidden
CHECK_DEADLOCK FALSE
