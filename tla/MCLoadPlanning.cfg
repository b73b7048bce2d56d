SPECIFICATION MCSpec
CONSTANTS
    a = a
    b = b
    c = c
    d = d
    NativeType = NativeType
    Mods <- MCMods
    Versions <- MCVersions
    Unversioned = Unversioned
    NoRange = NoRange
    Types <- MCTypes
    Manifests <- MCManifests
    NoManifest = NoManifest
    Rank <- MCRank
    Nodes <- MCNodes
    NodeRank <- MCNodeRank
    Unset <- MCUnset
    Graphs <- MCGraphs
INVARIANTS
    PlanMeetsContract
    OrderIsFirst
    IssuesGenuine
    FindsCycles
PROPERTY ResolveReturns
CHECK_DEADLOCK FALSE
