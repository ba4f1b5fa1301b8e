CONSTANTS
    Questions = {q1, q2}
    Sessions = {s1, s2, s3}
    Day = 1
    MaxLag = 1
    MaxTime = 1
    MaxVersion = 2
    None = None
SPECIFICATION Spec
SYMMETRY Interchangeable
INVARIANTS
    TypeOK
    HistoryAgrees
    SubmissionNeverRefused
    PointerNeverAhead
PROPERTIES
    PointerMonotonic
CHECK_DEADLOCK FALSE
