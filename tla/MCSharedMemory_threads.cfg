SPECIFICATION FairSpec
CONSTANTS
    c1 = c1
    c2 = c2
    Cores = {c1, c2}
    User = user
    Addrs = {0, 1}
    Program <- UpdateAndRead
    Levels = 3
    Size = 2
    PageSize = 2
    LockPageSize = 1
    MaxValue = 1
    LockedMem = {c1}
    Nodes = {n0, n1, n2, n3, n4, n5}
    Root = n0
    Mutexes = {x1, x2}
    None = None
INVARIANTS TypeOK NodesHeldOnce LockedAccessesExclude
PROPERTIES IsAtomicMemory AccessesEnd
