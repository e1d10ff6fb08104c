\* Three callers of the mutex of one key that finish before their lock expires.
CONSTANTS
    Procs = {p1, p2, p3}
    Expiration = 2
    AcquireTimeout = 2
    Overrun = FALSE
    MaxPending = 1
SPECIFICATION MutexFairSpec
INVARIANTS MutualExclusion
PROPERTIES LockReturns LockIsReleased
