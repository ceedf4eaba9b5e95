SPECIFICATION FairSpec
CONSTANTS
    t1 = t1
    t2 = t2
    a = a
    ev = ev
    None = None
    Threads <- MCThreads
    Waitables <- MCWaitables
    Events = {ev}
    Objects <- MCObjects
    AutoClear = {ev}
    Timers = {a}
    Impatient = {t2}
    SpuriousCas = TRUE
    MaxFires = 1
INVARIANTS
    TypeOK
    ListsIntact
    NoLostWakeUp
    OneTakerPerFiring
PROPERTIES
    DeadlineKept
    SignalWakes
