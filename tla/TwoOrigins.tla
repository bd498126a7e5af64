----------------------------- MODULE TwoOrigins -----------------------------
(***************************************************************************)
(* ClosedLoop with an operator who also uses the bench source.  cl-ready   *)
(* refuses while the source runs; motor-run asks nothing of a burst that   *)
(* is about to begin, and cl-burst does not look at the source again.      *)
(* The module begins where cl-ready has succeeded; the sensor never fails  *)
(* and the operator gives no command but motor-run and cl-burst, for one   *)
(* behaviour is enough.                                                    *)
(***************************************************************************)
EXTENDS ClosedLoop

TwoInit ==
    /\ state = "ARMED" /\ faults = {}
    /\ in = [platform |-> TRUE, config |-> TRUE, loop |-> TRUE, imu |-> TRUE,
             watchdog |-> TRUE, footpad |-> FALSE, simulated |-> FALSE,
             calibration |-> TRUE]
    /\ loopAge = 0 /\ imuAge = 0 /\ burst = NoBurst /\ lastPermit = "OK"
    /\ Quiet
    /\ armed = TRUE /\ token = TRUE

BenchUse ==
    /\ cl = "free" /\ ConsoleFree
    /\ \E l \in Levels, t \in 0 .. RunMax + 1 : MotorRun(l, t)
    /\ UNCHANGED <<driverVars, grant, clVars, refRunning>>
    /\ Instant /\ ClInstant

\* The producer has a task of its own, on core 0 and above the console.
ProducerStep ==
    /\ ProducerAsks \/ ProducerEnds \/ Request("experiment")
    /\ UNCHANGED <<driverVars, grant, clVars, refRunning>>
    /\ Instant /\ ClInstant

TwoNext ==
    \/ imuAge > 0 /\ LoopStep
    \/ /\ imuAge = 0
       /\ \/ BenchUse \/ ProducerStep \/ (Procedure /\ cl' # "revoke")
          \/ SupervisorTaskStep \/ RefloatReads \/ RefloatAsks \/ EscStep \/ ClosedTick

TwoSpec == TwoInit /\ [][TwoNext]_closedVars

\* ClosedLoop whole, with every command of the bench source between bursts.
BenchCommand ==
    /\ cl = "free" /\ ConsoleFree
    /\ \/ MotorStop
       \/ \E l \in Levels : OneShot(l)
       \/ \E l \in Levels, t \in 0 .. RunMax + 1 : MotorRun(l, t)
    /\ UNCHANGED <<driverVars, grant, clVars, refRunning>>
    /\ Instant /\ ClInstant

BothNext == ClosedNext \/ BenchCommand \/ ProducerStep

BothSpec == ClosedInit /\ [][BothNext]_closedVars

\* Each half gets the whole value of one request: while no request is on its
\* way, two driven halves hold the same current, or the coordinator has
\* noticed that they do not.
HalvesAgree ==
    (Flying = {} /\ Driven = Halves /\ half["A"].amps # half["B"].amps) => latched
=============================================================================
