---------------------------- MODULE MCSampleTimer ----------------------------
(***************************************************************************)
(* Instances of SampleTimer small enough for TLC.  Period = 11, Count = 5  *)
(* are the values InitializeTimer computes for a 200 Hz loop.  The stack   *)
(* garbage is one value on each side of Count.                             *)
(***************************************************************************)
EXTENDS SampleTimer

MCWord == 64
MCLeftover == {0, 63}
MCHorizon == 40
=============================================================================
