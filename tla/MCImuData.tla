------------------------------- MODULE MCImuData -------------------------------
(* ImuData on the bytes around the sign boundary. *)
EXTENDS ImuData

MCBytes == {0, 127, 128, 255}
=============================================================================
