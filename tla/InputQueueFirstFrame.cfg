\* A prediction before the first input, as get_input says it makes one.
CONSTANTS
    Bits = {blank, x}
    Blank = blank
    QLen = 5
    FrameMod = 32
    UsizeMod = 64
    OverflowChecks = FALSE
    MaxPrediction = 3
    MaxLead = 1
    MaxFrame = 7
SPECIFICATION Spec
CONSTRAINT Bounded
INVARIANT PredictsBeforeTheFirstInput
CHECK_DEADLOCK FALSE
