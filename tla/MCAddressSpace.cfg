SPECIFICATION BusSpec

CONSTANTS
    AddressMax = 6
    Width <- MCWidth
    FetchWidth = 2
    FullWidth = 2
    Base = 2
    BigEndian = TRUE
    Regions <- MCRegions
    MaxRegions = 3
    Watchable <- MCWatchable
    Masks <- MCMasks
    Guards <- MCGuards
    None = None

INVARIANTS
    RegionsDisjoint
    CacheTransparent
    NotesFaithful
    EncodingsAgree
