SPECIFICATION StationSpec

CONSTANTS
    None = None
    MaxLosses = 1
    MaxForeign = 1
    MaxCommands = 2
    Injected <- MCInjected

INVARIANTS
    OneCompletionPerKick
    NoHardError
    CopiedOnce
    ReceiverAlive
    AnswerOnItsWay

PROPERTIES
    ExchangeReachesCcmp
    ReceiverRearms

CHECK_DEADLOCK FALSE
