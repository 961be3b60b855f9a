\* A session whose handshake takes one round trip.
CONSTANTS
    A = A
    B = B
    Peers = {A, B}
    Magic <- MagicOf
    Bits = {x}
    Zero = zero
    Randoms = {1}
    NumSyncPackets = 1
    SeqMod = 16
    MaxSeqDistance = 8
    DefaultAckFrame = 1
    MaxCompressedBits = 12
    ChangedInputBits = 10
    SyncRetryInterval = 1
    RunningRetryInterval = 0
    NetworkStatsInterval = 1
    DisconnectNotifyStart = 1
    DisconnectTimeout = 2
    OverflowChecks = FALSE
    InfoLogging = FALSE
    Due = {"quality", "shutdown"}
    Active = {A}
    NetworkCap = 2
    EventCap = 1
    FrameCap = 2
    MaxSeq = 3
SPECIFICATION Spec
CONSTRAINT Bounded
INVARIANTS
    TypeOK
    PendingOutputIsContiguous
    
    InterruptionsAreSilences
PROPERTIES
    NoEventAfterDisconnect
    
    EventsAreInOrder
CHECK_DEADLOCK FALSE
