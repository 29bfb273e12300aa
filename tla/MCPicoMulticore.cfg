SPECIFICATION PicoSpec

CONSTANTS
    Depth = 3
    Modulus = 8
    Lock = {"div", "other"}
    NoLaunch = NoLaunch
    Programs <- MCPrograms
    Operand <- MCOperand
    DivLock = "div"
    Vector = 2
    Stack = 3
    Entry = 4

INVARIANTS
    LaunchHandshake
    ExchangeFaithful
    FifoWithinDepth
    LockedDivisionExact

PROPERTIES
    ExchangeCompletes

CHECK_DEADLOCK FALSE
