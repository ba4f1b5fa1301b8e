CONSTANTS
    Tabs = {t1, t2}
    Fields = {f1, f2}
    Values = {a, b, c}
    Blank = a
    MaxEdits = 2
    MaxFailures = 1
    MaxReloads = 1
    MaxDevice = 0
    None = None
SPECIFICATION Spec
SYMMETRY Interchangeable
CONSTRAINT OneMishap
CHECK_DEADLOCK FALSE
INVARIANTS TypeOK BasesReal
PROPERTIES SavesOnlyWhatWasTyped GradedAsShown KeepsWhatIsShown
