CONSTANTS
    wifi = wifi
    ble = ble
    Protocol <- MCProtocols
    Priority <- MCPriorities
    ArbMaxTime = 2
    ArbMaxId = 3
    NoGrant = NoGrant
SYMMETRY MCSymmetry
SPECIFICATION ArbSpec
INVARIANTS
    ExclusiveOwnership
    EvidenceMatchesOwner
    PreemptedOnlyByHigher
PROPERTY ClosedIsFinal
CHECK_DEADLOCK FALSE
