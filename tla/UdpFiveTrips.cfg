\* The handshake with the number of round trips the code asks for.
CONSTANTS
    A = A
    B = B
    Peers = {A, B}
    Magic <- MagicOf
    Bits = {x}
    Zero = zero
    Randoms = {1, 2}
    NumSyncPackets = 5
    SeqMod = 1
    MaxSeqDistance = 0
    DefaultAckFrame = 1
    MaxCompressedBits = 12
    ChangedInputBits = 10
    SyncRetryInterval = 0
    RunningRetryInterval = 0
    NetworkStatsInterval = 0
    DisconnectNotifyStart = 0
    DisconnectTimeout = 0
    OverflowChecks = FALSE
    InfoLogging = FALSE
    Due = {}
    Active = {A, B}
    NetworkCap = 1
    EventCap = 1
    FrameCap = 0
    MaxSeq = 3
SPECIFICATION FairSpec
PROPERTY
    HandshakeCompletes
CHECK_DEADLOCK FALSE
