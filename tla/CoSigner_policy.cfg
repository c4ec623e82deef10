\* The owner changes the policy; callers may state facts; amounts reach the limit of u64.
SPECIFICATION Spec
CONSTANTS
    safe = safe
    friend = friend
    stranger = stranger
    framework = framework
    d1 = d1
    d2 = d2
    d3 = d3
    c1 = c1
    c2 = c2
    c3 = c3
    None = None
    Accounts = {safe, friend, stranger, framework}
    ShortAccounts = {framework}
    Digests = {d1, d2, d3}
    U64Max = 10000
    TotalMist = 0
    Window = 2
    Calls = {c1, c2, c3}
    Requests <- ClaimedRequests
    PolicyObjects <- ChangingPolicy
    FallbackPolicy <- LocalPolicy
    HasPolicyObject = TRUE
    FetchMayFail = FALSE
    AllowCallerFacts = TRUE
    ClockMayStepBack = FALSE
    MaxTime = 1
    MaxBoots = 0
SYMMETRY Symmetry
INVARIANTS SignedUnderOwnersPolicy ListedAsSpelled
PROPERTIES SignedWithinRollingCap
CHECK_DEADLOCK FALSE
