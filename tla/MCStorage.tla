------------------------------ MODULE MCStorage ------------------------------
(* A small instance of Storage: a word of Refloat, a word of the           *)
(* calibration, and two values each.                                       *)
EXTENDS Storage
=============================================================================
