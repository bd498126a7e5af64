----------------------------- MODULE MotorResume -----------------------------
(***************************************************************************)
(* MotorBench with one question more: does a fault of the supervisor take  *)
(* the operator's arming away?                                             *)
(***************************************************************************)
EXTENDS MotorBench

VARIABLE faulted  \* history: the supervisor was in FAULT since the last arming

resumeVars == <<allVars, faulted>>

ResumeInit == BenchInit /\ faulted = FALSE

ResumeNext ==
    /\ BenchNext
    /\ faulted' = (state' = "FAULT" \/ (faulted /\ (armed \/ ~armed')))

ResumeSpec == ResumeInit /\ [][ResumeNext]_resumeVars

\* After any fault the system is disarmed, and inputs that recover do not arm
\* it: no pair is granted on an arming that is older than the last fault.
FaultNeedsNewArming ==
    [][\A o \in Origins : At(o, "passed") /\ call'[o].at = "send" => ~faulted]_resumeVars
=============================================================================
