SPECIFICATION Spec
CONSTANTS
    u1 = u1
    u2 = u2
    u3 = u3
    Users = {u1, u2, u3}
    NicknameOf <- MCNicknameOf
    NameSize = 3
    Disallowed = {"<", "/"}
    CardForbids = {"<", "/", "quote"}
    MaxSaves <- MCMaxSaves
    MaxFaults = 2
    w1 = w1
    w2 = w2
    Walls = {w1, w2}
    NoWall = NoWall
INVARIANTS ReadsOwnSave SaveReachesCard
PROPERTIES CarComesBack WallOnce
