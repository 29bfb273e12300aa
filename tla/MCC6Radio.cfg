SPECIFICATION C6Spec

CONSTANTS
    wifi = wifi
    ble = ble
    ieee802154 = ieee802154
    coexist = coexist
    None = None
    NoGrant = NoGrant
    Protocol <- MCProtocol
    Priority <- MCPriority
    Airtime <- MCAirtime
    MacPriority <- MCMacPriority
    ArbMaxTime = 4
    ArbMaxId = 3

INVARIANTS
    C6TypeOK
    AirtimeMatchesTenure
    OwnershipNeverContradicted
    OperationsMatchActivity

CHECK_DEADLOCK FALSE
