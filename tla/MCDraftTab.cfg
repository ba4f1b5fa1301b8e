CONSTANTS
    Tabs = {t1}
    Fields = {f1}
    Values = {a, b}
    Blank = a
    MaxEdits = 2
    MaxFailures = 2
    MaxReloads = 1
    MaxDevice = 1
    None = None
SPECIFICATION FairSpec
CHECK_DEADLOCK FALSE
INVARIANTS AttemptsRemembered
PROPERTIES Converges
