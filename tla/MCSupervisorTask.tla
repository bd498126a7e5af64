-------------------------- MODULE MCSupervisorTask --------------------------
(* A small instance of SupervisorTask.  The time-outs keep the order of    *)
(* the code: fresh sample, IMU, loop, and a period shorter than any.       *)
EXTENDS SupervisorTask
=============================================================================
