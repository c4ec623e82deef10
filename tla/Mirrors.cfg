\* A sub-account's budget, and the readers of a dry run.
SPECIFICATION MirrorSpec
CONSTANTS
    user = user
    other = other
    pool = pool
    USD = USD
    SUI = SUI
    Nobody = Nobody
    Dapp = dapp
    Owner = owner
    Others = {other}
    Budgets = {0, 2, 3}
    Expiries = {0, 1, 3}
    Spends = {0, 1, 2, 3}
    U64Max = 3
    OutflowMax = 3
    MaxTime = 4
    MaxSpends = 3
    Accounts = {user, other}
    Objects = {pool}
    Coins = {SUI, USD}
    Amounts <- SmallAmounts
    DryRuns <- SmallDryRuns
    Users <- SpelledUsers
INVARIANTS BudgetKept ClientForeseesChain EnclaveSeesWhatIsShown ReadersAgree
CHECK_DEADLOCK FALSE
