CONSTANTS
    Admins = {a1, a2}
    Contents = {x, y}
    MaxVersions = 2
    MaxQuestionRow = 4
    MaxVersionRow = 5
    None = None
SPECIFICATION Spec
SYMMETRY Interchangeable
INVARIANTS TypeOK AggregateConsistent PublishedAsApproved
PROPERTIES AuthorityAtCommit
CHECK_DEADLOCK FALSE
