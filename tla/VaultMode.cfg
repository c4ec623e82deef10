SPECIFICATION FairSpec
CONSTANTS
    None = None
    alice = alice
    bob = bob
    Configs = {home, foreign}
    Home = home
    Addresses = {alice, bob}
    GuardianLists <- MCGuardianLists
    Timelocks <- MCTimelocks
    U64Max = 15
    MaxTime = 1
    MaxRequests = 2
    Passkey = passkey
    Enclave = enclave
    Recovery = recovery
    Txs = {within, outside}
    Allowed = {within}
INVARIANTS TypeOK GuardrailHolds PanelAgreesWithChain
PROPERTIES TimelockRespected EscapeReached
CHECK_DEADLOCK FALSE
