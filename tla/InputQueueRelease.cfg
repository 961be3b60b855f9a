\* A release build: frame arithmetic wraps.
CONSTANTS
    Bits = {blank, x}
    Blank = blank
    QLen = 5
    FrameMod = 32
    UsizeMod = 64
    OverflowChecks = FALSE
    MaxPrediction = 3
    MaxLead = 1
    MaxFrame = 7
SPECIFICATION Spec
CONSTRAINT Bounded
INVARIANTS
    TypeOK
    RingHoldsNewestInputs
    RollbackInputsKept
    ConfirmedInputIsTheOneReceived
    PredictionIsWhatTheGameWasGiven
    EveryPredictionIsJudged
    
    ConfirmedAnswersMatchTheLog
PROPERTY ImplementsHistory
CHECK_DEADLOCK FALSE
