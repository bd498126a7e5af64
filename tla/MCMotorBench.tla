---------------------------- MODULE MCMotorBench ----------------------------
(* A small instance of MotorBench: two currents tell the halves apart, and *)
(* a run outlasts a flight.                                                *)
EXTENDS MotorBench
=============================================================================
