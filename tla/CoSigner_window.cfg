\* One policy; the clock advances and steps back; the enclave restarts once.
SPECIFICATION Spec
CONSTANTS
    safe = safe
    friend = friend
    stranger = stranger
    framework = framework
    d1 = d1
    d2 = d2
    d3 = d3
    c1 = c1
    c2 = c2
    c3 = c3
    None = None
    Accounts = {safe, friend, stranger, framework}
    ShortAccounts = {framework}
    Digests = {d1, d2, d3}
    U64Max = 50000
    TotalMist = 4
    Window = 2
    Calls = {c1, c2, c3}
    Requests <- SpendRequests
    PolicyObjects <- OnePolicy
    FallbackPolicy <- LocalPolicy
    HasPolicyObject = TRUE
    FetchMayFail = TRUE
    AllowCallerFacts = TRUE
    ClockMayStepBack = TRUE
    MaxTime = 3
    MaxBoots = 1
SYMMETRY Symmetry
INVARIANTS TypeOK LedgerSound LedgerComplete
PROPERTIES SignedWithinRollingCap RetryNotRefused
CHECK_DEADLOCK FALSE
