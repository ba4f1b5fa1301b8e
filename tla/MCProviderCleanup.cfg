CONSTANTS
    Requests = {u1}
    Providers = {apple}
    Workers = {w1, w2}
    Tokens = {t1, t2}
    Lease = 3
    CallTime = 1
    MaxFailures = 1
    None = None
SPECIFICATION CleanupFairSpec
INVARIANTS CleanupTypeOK RevokedAtMostOnce ErasedAfterCleanup LeaseCoversCall
PROPERTIES ErasedOrInDoubt
CHECK_DEADLOCK FALSE
