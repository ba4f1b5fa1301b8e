CONSTANTS
    Tabs = {t1}
    Fields = {f1}
    Values = {a, b}
    Blank = a
    MaxEdits = 1
    MaxFailures = 1
    MaxReloads = 1
    MaxDevice = 0
    None = None
SPECIFICATION Spec
CHECK_DEADLOCK FALSE
PROPERTIES StoredWorkComesBack
