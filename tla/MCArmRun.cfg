SPECIFICATION ArmSpec

CONSTANTS
    None = None
    BoardPins = 1
    ChipPins = 1
    PC = {"main", "rom"}
    RomPC = {"rom"}
    SioValue = {"1"}
    PioValue = {"0"}
    PullValue = {"1"}
    Limits <- MCLongLimits
    StimulusLists <- MCLongStimuli
    DebugSetups <- MCSetups
    MaxRuns = 1
    HostValue = {"0", "1"}
    HostAccesses = 0

INVARIANTS
    ArmTypeOK
    SignalStopExact
    PadsCurrent
    StimuliCurrent

PROPERTIES
    BreakpointBeforeExecution
    RunEnds
