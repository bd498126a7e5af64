------------------------------ MODULE MCImuPath ------------------------------
(* A small instance of ImuPath.  The ages are half the code's 20 and 40 ms  *)
(* (a tick is one period of the supervisor, 10 ms); the series of 5, 10, 20 *)
(* and 200 readings are shorter: STUCK comes no later than HOLD, HOLD       *)
(* before LOST, LOST before the re-initialisation.                          *)
EXTENDS ImuPath
=============================================================================
