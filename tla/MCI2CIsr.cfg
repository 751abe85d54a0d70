SPECIFICATION Spec
CONSTANTS
    acc = acc
    gyro = gyro
    compass = compass
    Devices <- MCDevices
    Present <- MCPresent
    NRegs = 4
    Values <- MCValues
    Calls <- MCCalls
    MaxIsr = 2
INVARIANTS
    OnlyTheWriteAskedFor
    SeveralRegistersHeal
PROPERTY AddrIsNotThrownAway
