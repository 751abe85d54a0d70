SPECIFICATION Spec
CONSTANTS
    Period = 11
    Count = 5
    MaxGap = 1
    MaxWork = 26
    Word <- MCWord
    Leftover <- MCLeftover
    Horizon <- MCHorizon
INVARIANT MeasuredDelayEnsured
