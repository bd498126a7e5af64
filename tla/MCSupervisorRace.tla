-------------------------- MODULE MCSupervisorRace --------------------------
(* A small instance of SupervisorRace.                                     *)
EXTENDS SupervisorRace
=============================================================================
