CONSTANTS
    Users = {u1}
    Guests = {g1}
    Sessions = {s1}
    Keys = {k1, k2}
    Sheets = {blank}
    Blank = blank
    Mistaken = {blank}
    SessionTTL = 1
    SubmitRetention = 1
    DraftRetention = 1
    RetryRetention = 1
    GuestRenewal = 3
    Grace = 2
    MaxLag = 0
    MaxTime = 0
    MaxRevision = 1
    None = None
    MaxCalls = 4
    Kinds = {"CREATE", "SAVE", "SUBMIT", "CLEAR"}
    MaxAttempts = 3
SPECIFICATION FairSpec
INVARIANTS
    OnlyDeletionsDeadlock
PROPERTIES
    Atomic
    EveryCallAnswered
CHECK_DEADLOCK FALSE
