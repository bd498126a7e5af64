---------------------------- MODULE MCSupervisor ----------------------------
(* A small instance of Supervisor.  The shortest time-outs that a report   *)
(* can still meet, and a burst long enough for one to strike inside it.    *)
EXTENDS Supervisor
=============================================================================
