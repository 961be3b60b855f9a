\* A window of four frames, which wraps; waits of up to three frames.
CONSTANTS
    Bits = {b1, b2}
    Blank = b1
    FrameWindowSize = 4
    MinUniqueFrames = 3
    MinFrameAdvantage = 2
    MaxFrameAdvantage = 3
    RoundTrips = {0, 1, 3}
    MaxFrame = 16
SPECIFICATION Spec
INVARIANTS
    TypeOK
    WindowHoldsTheNewest
    WaitIsHalfTheLead
    LongGamesAreToldToWait
    
CHECK_DEADLOCK FALSE
