SPECIFICATION FairSpec
CONSTANTS
    acc = acc
    gyro = gyro
    compass = compass
    Devices <- MCDevices
    Present <- MCPresent
    NRegs = 4
    Values <- MCValues
    Calls <- MCCalls
    MaxIsr = 0
INVARIANT TypeOK
PROPERTIES
    KeepsPromise
    CallsReturn
