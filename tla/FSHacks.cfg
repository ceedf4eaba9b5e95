SPECIFICATION FairSpec
CONSTANTS
    A = A
    B = B
    v1 = v1
    v2 = v2
    Absent = Absent
    Torn = Torn
    NoHash = NoHash
    Names <- MCNames
    Versions <- MCVersions
    Content <- MCContent
    Mods <- AllMods
    Base <- MCBase
    Hash <- MCHash
    NameHash <- MCNameHash
    MaxPatches = 3
    BarInstalled = TRUE
    MaxBars = 2
    MaxOutages = 2
    MaxFaults = 1
    MaxChanges = 2
INVARIANTS
    TypeOK
    CacheInv
    ServesCurrentMod
    ServesNoOtherMod
    AlignmentsServed
    BootLeavesNoBar
PROPERTIES
    ImplementsPromise
    BootSettles
    EventuallyCached
