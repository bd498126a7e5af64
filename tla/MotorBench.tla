----------------------------- MODULE MotorBench -----------------------------
(***************************************************************************)
(* The bench of the experimental build: the operator arms the coordinator  *)
(* and runs the source of fc_motor_experiment.c, while the sensor fails    *)
(* and recovers, frames are refused by the bus, and the supervisor falls   *)
(* into FAULT and is cleared.  The gate lets no current of Refloat pass in *)
(* this build, so Refloat does not appear.                                 *)
(***************************************************************************)
EXTENDS MotorPath

VARIABLES
    barred,    \* history: for how long some barrier has stood without a break
    owed,      \* history: what the operator owes since a pair was split
    sinceClear \* history: time since the latch was last cleared

benchHistory == <<barred, owed, sinceClear>>
allVars == <<motorVars, benchHistory>>

\* The wheels are free this long after the last source was cut off.
LetGo == Flight + EscMax

\* A barrier: any condition of the path that forbids a pair by itself.
Barrier == state = "FAULT" \/ ~armed \/ latched \/ ~whole \/ imuAge > ImuFresh

BenchInit == MotorInit /\ barred = 0 /\ owed = "nothing" /\ sinceClear = LetGo

Counts(n) == IF n <= LetGo THEN n + 1 ELSE n

\* The step reports a pair of which one half got its frame and one did not.
Splits == whole /\ ~whole'

Instant ==
    /\ barred' = IF Barrier' THEN barred ELSE 0
    /\ UNCHANGED sinceClear

\* The control loop accepts a sample.
LoopIteration ==
    /\ loopAge' = 0 /\ imuAge' = 0
    /\ in' = [in EXCEPT !.loop = TRUE]
    /\ UNCHANGED <<state, faults, burst, lastPermit>>

SupervisorStep ==
    /\ \/ \E p \in {"OK", "LOST"} : ReportImuPermit(p)
       \/ Poll \/ ClearFault \/ LoopIteration
    /\ UNCHANGED <<gateVars, coordVars, benchVars, call, half>>

SourceStep ==
    /\ ProducerAsks \/ ProducerEnds \/ Request("experiment")
    /\ owed' = IF Splits THEN "clear" ELSE owed
    /\ Instant

CommandStep ==
    /\ \/ MotorStop \/ MotorDisarm \/ (\E l \in Levels : OneShot(l))
       \/ \E l \in Levels, t \in 0 .. RunMax + 1 : MotorRun(l, t)
    /\ UNCHANGED owed
    /\ Instant

ArmStep ==
    /\ MotorArm
    /\ owed' = IF owed = "arm" THEN "nothing" ELSE owed
    /\ Instant

ClearStep ==
    /\ MotorClear
    /\ owed' = IF owed = "clear" THEN "arm" ELSE owed
    /\ barred' = IF Barrier' THEN barred ELSE 0
    /\ sinceClear' = 0

TimeStep ==
    /\ MotorTick
    /\ barred' = IF Barrier' THEN Counts(barred) ELSE 0
    /\ sinceClear' = Counts(sinceClear)
    /\ UNCHANGED owed

OtherStep ==
    /\ SupervisorStep \/ \E h \in Halves : EscReleases(h)
    /\ UNCHANGED owed
    /\ Instant

BenchNext == SourceStep \/ CommandStep \/ ArmStep \/ ClearStep \/ TimeStep \/ OtherStep

BenchSpec == BenchInit /\ [][BenchNext]_allVars

-----------------------------------------------------------------------------
(* Properties.                                                             *)

BenchTypeOK ==
    /\ MotorTypeOK
    /\ barred \in 0 .. LetGo + 1 /\ sinceClear \in 0 .. LetGo + 1
    /\ owed \in {"nothing", "clear", "arm"}

\* Whichever barrier falls, and whatever was on its way when it fell, both
\* wheels are free once the last request has landed and the ESCs have timed
\* out: a barrier means silence, and silence is enough.
BarrierFreesWheels == barred > LetGo => Driven = {}

\* While no pair is on its way the halves hold one and the same current, or
\* the coordinator is latched.  Clearing the latch may precede the end of the
\* stale half by no more than the ESC's time-out.
SplitIsLatched ==
    (Flying = {} /\ Driven = Halves /\ half["A"].amps # half["B"].amps)
        => latched \/ sinceClear <= EscMax

\* After a split pair no further pair is granted before the operator has
\* cleared the latch and, as a second act, armed again.
SplitOwesTwoActs ==
    [][\A o \in Origins : At(o, "passed") /\ call'[o].at = "send" => owed = "nothing"]_allVars
=============================================================================
