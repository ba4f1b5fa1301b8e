CONSTANTS
    Users = {}
    Guests = {g1}
    Sessions = {s1, s2}
    Keys = {k1}
    Sheets = {blank}
    Blank = blank
    Mistaken = {}
    SessionTTL = 2
    SubmitRetention = 1
    DraftRetention = 1
    RetryRetention = 1
    GuestRenewal = 3
    Grace = 3
    MaxLag = 1
    MaxTime = 3
    MaxRevision = 1
    None = None
SPECIFICATION Spec
INVARIANTS
    GuestCanStart
CHECK_DEADLOCK FALSE
