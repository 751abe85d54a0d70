----------------------------- MODULE MCTimerSetup -----------------------------
(* TimerSetup with the clock of the source, for 50 Hz (main.c:29) and others. *)
EXTENDS TimerSetup

MCClock == 168000000
MCFreqs == {10, 20, 25, 50, 100, 200, 400, 1000, 1280}
=============================================================================
