\* Every method, from the page and back, under fairness; two accounts are set
\* up, from two popups.
SPECIFICATION ProviderSpec
CONSTANTS
    a1 = a1
    a2 = a2
    i1 = i1
    o1 = o1
    p1 = p1
    r1 = r1
    toolbar = toolbar
    None = None
    Toolbar = toolbar
    Popups <- RequestsAndToolbar
    Handlers = {r1}
    Requests = {r1}
    Ids = {i1}
    Accounts = {a1, a2}
    Passwords = {p1}
    Origins = {o1}
    WalletRequests <- AllMethods
    Summaries <- Drain
    Verdicts = {"low"}
    Balance = 10
    BalanceMayFail = FALSE
    WindowsMayFail = FALSE
    Adopters = {toolbar, r1}
    MaxStops = 1
    MaxLeaves = 1
INVARIANTS AccountsWereGiven AccountsBacked
PROPERTY EveryPromiseSettles
CHECK_DEADLOCK FALSE
