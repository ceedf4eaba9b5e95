SPECIFICATION Spec
CONSTANTS
    t1 = t1
    t2 = t2
    a = a
    ev = ev
    None = None
    Threads <- MCThreads
    Waitables <- MCWaitables
    Events = {ev}
    Objects <- SharedObjects
    AutoClear = {ev}
    Timers = {}
    Impatient = {t2}
    SpuriousCas = FALSE
    MaxFires = 1
INVARIANT EveryListIntact
