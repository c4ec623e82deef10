SPECIFICATION Spec
CONSTANTS
    None = None
    a1 = a1
    a2 = a2
    Tabs = {t1, t2}
    Dashboards = {t1}
    Accounts = {a1, a2}
    Importable = {a2}
    Balance <- BalanceDef
    Recipients = {r}
    Validators = {v}
    Amounts = {5, 19}
    Gas = 1
    MinStake = 10
    MaxHaste = 1
    MaxSends = 1
INVARIANTS
    NoAccountLost
    SignerIsActive
    BalanceIsActives
    SentWasReviewed
    KnownWereSentTo
