\* HMAC-MD5 context (descriptor tested), t2 on a channel bound from c1: NoOops.
CONSTANTS
    t1 = t1
    t2 = t2
    k1 = k1
    k2 = k2
    m1 = m1
    m2 = m2
    c1 = c1
    c2 = c2
    Threads <- MCThreads
    ThreadKey <- MCThreadKey
    ThreadData <- MCThreadData
    ThreadConn <- MCBoundConn
    SlotTested = "desc"
SPECIFICATION Spec
INVARIANT NoOops
\* An oops ends the run: the faulting state has no successor.
CHECK_DEADLOCK FALSE
