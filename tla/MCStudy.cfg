CONSTANTS
    Users = {u1}
    Guests = {g1}
    Sessions = {s1, s2}
    Keys = {k1}
    Sheets = {blank, filled}
    Blank = blank
    Mistaken = {blank}
    SessionTTL = 2
    SubmitRetention = 1
    DraftRetention = 1
    RetryRetention = 2
    GuestRenewal = 2
    Grace = 1
    MaxLag = 1
    MaxTime = 3
    MaxRevision = 2
    None = None
SPECIFICATION FairSpec
INVARIANTS
    TypeOK
    RowsAgree
    ReplayableWithinRetention
    LineageKept
    GuestOutlivesSessions
    OneOutcomePerKey
    OneSubmissionPerSession
    NoLostUpdate
PROPERTIES
    GuestRenewalMonotonic
    GuestDataErased
CHECK_DEADLOCK FALSE
