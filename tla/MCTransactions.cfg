CONSTANTS
    Users = {}
    Guests = {g1}
    Sessions = {s1, s2}
    Keys = {k1}
    Sheets = {blank}
    Blank = blank
    Mistaken = {blank}
    SessionTTL = 1
    SubmitRetention = 1
    DraftRetention = 1
    RetryRetention = 1
    GuestRenewal = 2
    Grace = 1
    MaxLag = 1
    MaxTime = 3
    MaxRevision = 1
    None = None
    MaxCalls = 4
    Kinds = {"CREATE", "SAVE", "SUBMIT", "READ", "CANCEL", "RETRY", "CLEAN"}
    MaxAttempts = 2
SPECIFICATION Spec
SYMMETRY Interchangeable
INVARIANTS
    TypeOK
    OnlyDeletionsDeadlock
PROPERTIES
    Atomic
CHECK_DEADLOCK FALSE
