SPECIFICATION FairSpec
CONSTANTS
    Period = 11
    Count = 5
    MaxGap = 1
    MaxWork = 26
    Word <- MCWord
    Leftover <- MCLeftover
    Horizon <- MCHorizon
INVARIANTS
    TypeOK
    EarlyOnlyIfTorn
    MeasuresElapsed
    ReturnsInTime
PROPERTY WaitEnds
CHECK_DEADLOCK TRUE
