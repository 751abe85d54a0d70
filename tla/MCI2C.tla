--------------------------------- MODULE MCI2C ---------------------------------
(***************************************************************************)
(* I2C on three sensors of four registers, one of them missing.  The calls *)
(* are those of 10dof.c in small: writes, the one-byte read of an          *)
(* identification register, and reads of several registers, one of them    *)
(* across the end of the register file.                                    *)
(***************************************************************************)
EXTENDS I2C

CONSTANTS acc, gyro, compass

MCDevices == {acc, gyro, compass}
MCPresent == {acc, gyro}

Write(d, r, v) == [fn |-> "I2C_Write_Reg", dev |-> d, reg |-> r, data |-> v, count |-> 1]
Read(d, r) == [fn |-> "I2C_Read_Reg", dev |-> d, reg |-> r, data |-> 0, count |-> 1]
ReadMulti(d, r, n) == [fn |-> "I2C_Read_Multi_Reg", dev |-> d, reg |-> r, data |-> 0,
                       count |-> n]

MCValues == {0, 7}
MCCalls == {Write(acc, 1, 7), Write(gyro, 2, 7), Write(compass, 0, 7),
            Read(acc, 0), Read(gyro, 3), Read(compass, 3),
            ReadMulti(acc, 2, 3), ReadMulti(gyro, 1, 2)}
=============================================================================
