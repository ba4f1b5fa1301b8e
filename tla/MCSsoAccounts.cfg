CONSTANTS
    Requests = {u1}
    Providers = {"apple", "google"}
    apple1 = apple1
    google1 = google1
    Identities = {apple1, google1}
    ProviderOf <- ByName
    Browsers = {b1, b2}
    MaxSessions = 2
    MaxFlows = 3
    Workers = {w1}
    Tokens = {t1}
    Lease = 5
    CallTime = 2
    MaxFailures = 0
    None = None
SPECIFICATION AccountsSpec
SYMMETRY Interchangeable
INVARIANTS AccountsTypeOK CleanupListsAccounts SessionsCurrent
CHECK_DEADLOCK FALSE
