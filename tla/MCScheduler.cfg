CONSTANTS
    MaxTime = 2
    MaxSequence = 3
SPECIFICATION Spec
INVARIANTS DispatchOrder EveryEventOnce
PROPERTIES ImplementsTimeline
