\* Games up to the frame that no encoding has room for.
CONSTANTS
    A = A
    B = B
    Peers = {A, B}
    Magic <- MagicOf
    Bits = {x, y}
    Zero = zero
    Randoms = {1}
    NumSyncPackets = 1
    SeqMod = 1
    MaxSeqDistance = 0
    DefaultAckFrame = 1
    MaxCompressedBits = 3
    ChangedInputBits = 1
    SyncRetryInterval = 0
    RunningRetryInterval = 0
    NetworkStatsInterval = 0
    DisconnectNotifyStart = 0
    DisconnectTimeout = 0
    OverflowChecks = FALSE
    InfoLogging = FALSE
    Due = {}
    Active = {A}
    NetworkCap = 2
    EventCap = 1
    FrameCap = 5
    MaxSeq = 0
SPECIFICATION Spec
CONSTRAINT Bounded
INVARIANT GamesAreShort
CHECK_DEADLOCK FALSE
