\* A correct verdict on a prediction, as the comment in input_queue.rs states it.
CONSTANTS
    Bits = {blank, x}
    Blank = blank
    QLen = 5
    FrameMod = 32
    UsizeMod = 64
    OverflowChecks = FALSE
    MaxPrediction = 3
    MaxLead = 1
    MaxFrame = 7
SPECIFICATION Spec
CONSTRAINT Bounded
INVARIANT MispredictionsAreRemembered
CHECK_DEADLOCK FALSE
