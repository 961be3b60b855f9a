\* Delays of one and two milliseconds, and a rogue now and then.
CONSTANTS
    Delays = {1, 2}
    OopPercent = 30
    MaxMessages = 4
SPECIFICATION FairSpec
INVARIANTS
    TypeOK
    OnlyRoguesAreOvertaken
PROPERTIES
    IsAMedium
    EveryMessageLeaves
CHECK_DEADLOCK FALSE
