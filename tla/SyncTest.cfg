\* A ring of five saved frames; three handles of which two have input.
CONSTANTS
    MaxPrediction = 3
    NumPlayers = 3
    MaxPlayers = 2
    a = a
    b = b
    Buttons = {a, b}
    Blank = {a}
SPECIFICATION FairSpec
INVARIANTS
    TypeOK
    NewestSaveIsTheCurrentFrame
    FoundFrameIsTheOneBefore
PROPERTIES
    GameNeverGoesBack
    ButtonsAreNeverReleased
    EverySyncTestFails
CHECK_DEADLOCK FALSE
