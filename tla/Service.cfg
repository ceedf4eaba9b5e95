SPECIFICATION Spec
CONSTANTS
    t1 = t1
    t2 = t2
    Threads = {t1, t2}
    NoThread = NoThread
    Handles = {1, 2, 3, 4}
    ObjectIds = {1, 2}
    PointerSizes = {3}
    CommandsOf <- MCCommandsOf
    Converts = {TRUE, FALSE}
INVARIANTS
    TypeOK OwnedOnce GuardCounts NoDeadTarget RequestFits RequestUnderstood PointersFit
PROPERTY CallsReturn
