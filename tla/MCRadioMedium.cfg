CONSTANTS
    chip = chip
    peer = peer
    wifi = wifi
    ieee802154 = ieee802154
    Emission <- MCEmission
    ReceiverConfig <- MCReceivers
    PathLoss <- MCPathLoss
    CaptureThreshold = 2
    Lost <- MCLost
    MediumMaxTime = 3
    MediumMaxId = 3
    NoReply = NoReply
SPECIFICATION MediumSpec
INVARIANTS
    MediumTypeOK
    OutcomesMatchHistory
    TruncatedNeverReceived
    SensingMatchesHistory
CHECK_DEADLOCK FALSE
