\* Two requests to sign, of the same account.
SPECIFICATION Spec
CONSTANTS
    a1 = a1
    a2 = a2
    i1 = i1
    i2 = i2
    o1 = o1
    o2 = o2
    p1 = p1
    p2 = p2
    r1 = r1
    r2 = r2
    toolbar = toolbar
    None = None
    Toolbar = toolbar
    Popups <- RequestsAndToolbar
    Handlers = {r1, r2}
    Requests = {r1, r2}
    Ids = {i1, i2}
    Accounts = {a1}
    Passwords = {p1}
    Origins = {o1}
    WalletRequests <- SignatureRequests
    Summaries <- Drain
    Verdicts = {"low"}
    Balance = 10
    BalanceMayFail = FALSE
    WindowsMayFail = FALSE
    Adopters = {}
    MaxStops = 1
SYMMETRY Symmetry
INVARIANTS TypeOK ConsentBeforeSignature DrainShownCritical
PROPERTIES DecidedOnce
CHECK_DEADLOCK FALSE
