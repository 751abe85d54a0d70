SPECIFICATION FairSpec
CONSTANTS
    Clock <- MCClock
    Freqs <- MCFreqs
    MaxPsc = 65535
INVARIANTS
    TypeOK
    FoundIsOneTickShort
    WaitIsHalfACycle
PROPERTY SearchEnds
CHECK_DEADLOCK FALSE
