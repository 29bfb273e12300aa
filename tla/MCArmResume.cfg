SPECIFICATION ArmSpec

CONSTANTS
    None = None
    BoardPins = 1
    ChipPins = 1
    PC = {"main", "rom"}
    RomPC = {"rom"}
    SioValue = {"1"}
    PioValue = {"0"}
    PullValue = {"1"}
    Limits <- MCShortLimits
    StimulusLists <- MCShortStimuli
    DebugSetups <- MCSetups
    MaxRuns = 2
    HostValue = {"0", "1"}
    HostAccesses = 1

INVARIANTS
    TraceFaithful
    WatchpointFromCpu

PROPERTIES
    LaunchSurvivesStops
