SPECIFICATION C6LegalSpec

CONSTANTS
    wifi = wifi
    ble = ble
    ieee802154 = ieee802154
    coexist = coexist
    None = None
    NoGrant = NoGrant
    Protocol <- MCProtocol
    Priority <- MCPriority
    Airtime <- MCAirtime
    MacPriority <- MCMacPriority
    ArbMaxTime = 3
    ArbMaxId = 2

INVARIANTS
    LegalDriverNotDiagnosed

CHECK_DEADLOCK FALSE
