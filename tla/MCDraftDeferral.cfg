CONSTANTS
    Tabs = {t1}
    Fields = {f1}
    Values = {a, b}
    Blank = a
    MaxEdits = 2
    MaxFailures = 2
    MaxReloads = 0
    MaxDevice = 0
    None = None
SPECIFICATION FairSpec
CHECK_DEADLOCK FALSE
PROPERTIES DeferralEnds
