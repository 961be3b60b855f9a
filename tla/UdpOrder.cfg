\* Messages that pass the sequence number filter.
CONSTANTS
    A = A
    B = B
    Peers = {A, B}
    Magic <- MagicOf
    Bits = {x}
    Zero = zero
    Randoms = {1}
    NumSyncPackets = 1
    SeqMod = 16
    MaxSeqDistance = 8
    DefaultAckFrame = 1
    MaxCompressedBits = 12
    ChangedInputBits = 10
    SyncRetryInterval = 1
    RunningRetryInterval = 0
    NetworkStatsInterval = 1
    DisconnectNotifyStart = 1
    DisconnectTimeout = 2
    OverflowChecks = FALSE
    InfoLogging = FALSE
    Due = {}
    Active = {B}
    NetworkCap = 3
    EventCap = 1
    FrameCap = 2
SPECIFICATION OrderSpec
PROPERTY FilteredInOrder
CHECK_DEADLOCK FALSE
