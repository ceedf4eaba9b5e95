SPECIFICATION Spec
CONSTANTS
    A = A
    B = B
    v1 = v1
    v2 = v2
    Absent = Absent
    Torn = Torn
    NoHash = NoHash
    Names <- MCNames
    Versions <- MCVersions
    Content <- MCContent
    Mods <- AllMods
    Base <- MCBase
    Hash <- MCHash
    NameHash <- MCNameHash
    MaxPatches = 3
    BarInstalled = FALSE
    MaxBars = 1
    MaxOutages = 1
    MaxFaults = 0
    MaxChanges = 0
INVARIANT IncompleteMetaRejected
