\* HMAC-SHA256 context (tfm tested), two threads of one connection: the dispatcher serializes them.
CONSTANTS
    t1 = t1
    t2 = t2
    k1 = k1
    k2 = k2
    m1 = m1
    m2 = m2
    c1 = c1
    c2 = c2
    Threads <- MCThreads
    ThreadKey <- MCThreadKey
    ThreadData <- MCThreadData
    ThreadConn <- MCSerialConn
    SlotTested = "tfm"
SPECIFICATION Spec
INVARIANT SlotNeverReallocated NoOops MacUsesOwnKey
PROPERTY ImplementsMacService
