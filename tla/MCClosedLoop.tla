---------------------------- MODULE MCClosedLoop ----------------------------
(* A small instance of ClosedLoop: the supervisor's task runs every second *)
(* tick, so the gate meets a deadline the supervisor has not yet seen.     *)
EXTENDS ClosedLoop
=============================================================================
