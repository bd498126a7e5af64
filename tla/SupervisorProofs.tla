-------------------------- MODULE SupervisorProofs --------------------------
(***************************************************************************)
(* What is proved of the supervisor for every choice of its time-outs, of  *)
(* the causes raised from outside and of the policy's reasons.             *)
(*                                                                         *)
(* FaultIffCause and the type invariant support each other, and            *)
(* BurstNeverExtended needs to know that a running burst has a deadline:   *)
(* SupInv is their conjunction and is inductive.  At the end, what a step  *)
(* of MotorPath does to the types, for the proofs of its compositions.     *)
(***************************************************************************)
EXTENDS MotorPath, TLAPS

\* A burst that runs has a deadline.
RunningHasDeadline == state = "RUNNING" => burst \in 0 .. BurstMax

SupInv == TypeOK /\ FaultIffCause /\ RunningHasDeadline

-----------------------------------------------------------------------------
(* Lemmas about the conditions.                                            *)

\* clear_fault finds nothing wrong only when every input that can raise a
\* fault is good and no sticky cause is recorded.
LEMMA StillFaultyEmpty ==
    ASSUME NEW i, NEW f, StillFaulty(i, f) = {}
    PROVE  i.config /\ i.imu /\ i.loop /\ i.watchdog /\ f \cap StickyFaults = {}
  BY DEF StillFaulty

\* clear_fault never invents a cause.
LEMMA StillFaultyType ==
    ASSUME NEW i, NEW f \in SUBSET Faults
    PROVE  StillFaulty(i, f) \in SUBSET Faults
  BY DEF StillFaulty, Faults

LEMMA OlderType ==
    ASSUME NEW age \in Never .. AgeCap
    PROVE  Older(age) \in Never .. AgeCap
  BY TimesAssumption DEF Older, Never

\* The inputs stay inputs when one field is set.
LEMMA InputsType ==
    ASSUME in \in Inputs, NEW b \in BOOLEAN
    PROVE  /\ [in EXCEPT !.platform = b] \in Inputs
           /\ [in EXCEPT !.config = b] \in Inputs
           /\ [in EXCEPT !.loop = b] \in Inputs
           /\ [in EXCEPT !.imu = b] \in Inputs
           /\ [in EXCEPT !.watchdog = b] \in Inputs
           /\ [in EXCEPT !.footpad = b] \in Inputs
           /\ [in EXCEPT !.simulated = b] \in Inputs
           /\ [in EXCEPT !.calibration = b] \in Inputs
  BY DEF Inputs

LEMMA PolledInputsType ==
    ASSUME in \in Inputs, loopAge \in Int, imuAge \in Int
    PROVE  PolledInputs \in Inputs
<1>1. LoopStale \in BOOLEAN /\ ImuStale \in BOOLEAN
  BY TimesAssumption DEF LoopStale, ImuStale
<1>2. in.loop \in BOOLEAN /\ in.imu \in BOOLEAN
  BY DEF Inputs
<1>3. (in.loop /\ ~LoopStale) \in BOOLEAN /\ (in.imu /\ ~ImuStale) \in BOOLEAN
  BY <1>1, <1>2
<1>4. PolledInputs = [[in EXCEPT !.loop = in.loop /\ ~LoopStale]
                          EXCEPT !.imu = in.imu /\ ~ImuStale]
  BY DEF PolledInputs, Inputs
<1> QED
  BY <1>3, <1>4 DEF Inputs

-----------------------------------------------------------------------------
(* The invariant.                                                          *)

LEMMA InitInv == SupInit => SupInv
  BY TimesAssumption
  DEF SupInit, SupInv, TypeOK, FaultIffCause, RunningHasDeadline, States, Faults, Inputs,
      Never, NoBurst, Permits

LEMMA NextInv == SupInv /\ [SupNext]_supVars => SupInv'
<1> SUFFICES ASSUME SupInv, [SupNext]_supVars
             PROVE  SupInv'
  OBVIOUS
<1> USE TimesAssumption DEF SupInv, TypeOK, FaultIffCause, RunningHasDeadline, Never, NoBurst
<1>1. CASE OperatorCall
  <2>1. CASE RequestReady \/ RequestClosedLoopReady \/ Disarm
    BY <2>1 DEF RequestReady, RequestClosedLoopReady, Disarm, States
  <2>2. CASE ClearFault
    BY <2>2, StillFaultyType DEF ClearFault, States
  <2>3. CASE \E d \in 0 .. BurstMax + 1, lag \in 0 .. SampleLag : BeginBurst(d, lag)
    BY <2>3 DEF BeginBurst, Remainder, States
  <2> QED
    BY <1>1, <2>1, <2>2, <2>3 DEF OperatorCall
<1>2. CASE BootCall
  <2>1. CASE BeginSelfTest
    BY <2>1 DEF BeginSelfTest, States
  <2>2. ASSUME NEW b \in BOOLEAN, SelfTestResult(b)
        PROVE  SupInv'
    BY <2>2 DEF SelfTestResult, EnterFault, States, Faults, StickyFaults
  <2>3. CASE ReportPlatformReady
    BY <2>3, InputsType DEF ReportPlatformReady
  <2>4. ASSUME NEW b \in BOOLEAN, ReportConfigValid(b)
        PROVE  SupInv'
    BY <2>4, InputsType DEF ReportConfigValid, EnterFault, States, Faults
  <2> QED
    BY <1>2, <2>1, <2>2, <2>3, <2>4 DEF BootCall
<1>3. CASE LoopCall
  <2>1. ASSUME NEW lag \in 0 .. SampleLag, ReportLoopTick(lag)
        PROVE  SupInv'
    <3>1. in' \in Inputs
      BY <2>1, InputsType DEF ReportLoopTick
    <3> QED
      BY <2>1, <3>1 DEF ReportLoopTick
  <2>2. ASSUME NEW lag \in 0 .. SampleLag, ReportImuSample(lag)
        PROVE  SupInv'
    BY <2>2 DEF ReportImuSample
  <2> QED
    BY <1>3, <2>1, <2>2 DEF LoopCall
<1>4. CASE TaskCall
  <2>1. ASSUME NEW p \in Permits, ReportImuPermit(p)
        PROVE  SupInv'
    <3>1. in' \in Inputs /\ lastPermit' \in Permits
      BY <2>1, InputsType DEF ReportImuPermit
    <3> QED
      BY <2>1, <3>1 DEF ReportImuPermit, EnterFault, States, Faults
  <2>2. ASSUME NEW b \in BOOLEAN, ReportWatchdog(b)
        PROVE  SupInv'
    <3>1. in' \in Inputs
      BY <2>2, InputsType DEF ReportWatchdog
    <3> QED
      BY <2>2, <3>1 DEF ReportWatchdog, EnterFault, States, Faults
  <2>6. ASSUME NEW b \in BOOLEAN, ReportImu(b)
        PROVE  SupInv'
    <3>1. in' \in Inputs
      BY <2>6, InputsType DEF ReportImu
    <3> QED
      BY <2>6, <3>1 DEF ReportImu, EnterFault, States, Faults
  <2>3. ASSUME NEW b \in BOOLEAN, ReportCalibrationValid(b)
        PROVE  SupInv'
    <3>1. in' \in Inputs
      BY <2>3, InputsType DEF ReportCalibrationValid
    <3> QED
      BY <2>3, <3>1 DEF ReportCalibrationValid, States
  <2>4. ASSUME NEW b \in BOOLEAN, ReportFootpad(b)
        PROVE  SupInv'
    <3>1. in' \in Inputs
      BY <2>4, InputsType DEF ReportFootpad
    <3> QED
      BY <2>4, <3>1 DEF ReportFootpad, States
  <2>5. ASSUME NEW b \in BOOLEAN, ReportFootpadSimulated(b)
        PROVE  SupInv'
    BY <2>5, InputsType DEF ReportFootpadSimulated
  <2> QED
    BY <1>4, <2>1, <2>2, <2>3, <2>4, <2>5, <2>6 DEF TaskCall
<1>5. CASE AnyRaise
  BY <1>5 DEF AnyRaise, RaiseFault, EnterFault, States, Faults
<1>6. CASE Poll
  <2>1. in' \in Inputs
    BY <1>6, PolledInputsType DEF Poll
  <2>2. faults' \in SUBSET Faults /\ state' \in States /\ burst' \in NoBurst .. BurstMax
    BY <1>6 DEF Poll, EnterFault, StaleFault, States, Faults
  <2>3. FaultIffCause'
    BY <1>6 DEF Poll, EnterFault, StaleFault, PollDisarms, LostConditions
  <2>4. RunningHasDeadline'
    BY <1>6 DEF Poll, EnterFault
  <2> QED
    BY <1>6, <2>1, <2>2, <2>3, <2>4 DEF Poll
<1>7. CASE Tick
  <2>1. loopAge' \in Never .. AgeCap /\ imuAge' \in Never .. AgeCap
    BY <1>7, OlderType DEF Tick
  <2> QED
    BY <1>7, <2>1 DEF Tick
<1>8. CASE UNCHANGED supVars
  BY <1>8 DEF supVars
<1> QED
  BY <1>1, <1>2, <1>3, <1>4, <1>5, <1>6, <1>7, <1>8 DEF SupNext

-----------------------------------------------------------------------------
(* The theorems.                                                           *)

\* Every reachable state is typed and records a cause exactly in FAULT.
THEOREM InvHolds == SupSpec => []SupInv
  BY InitInv, NextInv, PTL DEF SupSpec

THEOREM TypeCorrect == SupSpec => []TypeOK
  BY InvHolds, PTL DEF SupInv

\* Whatever calls are made in whatever order, as long as one call does not
\* overlap another: a cause is on record exactly while the machine is in FAULT.
THEOREM FaultIffCauseHolds == SupSpec => []FaultIffCause
  BY InvHolds, PTL DEF SupInv

\* FAULT is left only through clear_fault, with nothing left wrong.
THEOREM FaultSticksHolds == SupSpec => FaultSticks
<1> DEFINE Step == state = "FAULT" /\ state' # "FAULT" =>
                     /\ state' = "DISARMED" /\ faults' = {}
                     /\ in.config /\ in.imu /\ in.loop /\ in.watchdog
                     /\ faults \cap StickyFaults = {}
<1>1. ASSUME SupInv, [SupNext]_supVars
      PROVE  [Step]_supVars
  <2> SUFFICES ASSUME state = "FAULT", state' # "FAULT"
               PROVE  /\ state' = "DISARMED" /\ faults' = {}
                      /\ in.config /\ in.imu /\ in.loop /\ in.watchdog
                      /\ faults \cap StickyFaults = {}
    OBVIOUS
  <2>1. ClearFault
    <3>1. ~(RequestReady \/ RequestClosedLoopReady \/ Disarm)
      BY DEF RequestReady, RequestClosedLoopReady, Disarm
    <3>2. ~\E d \in 0 .. BurstMax + 1, lag \in 0 .. SampleLag : BeginBurst(d, lag)
      BY DEF BeginBurst
    <3>3. ~BootCall
      BY DEF BootCall, BeginSelfTest, ReportPlatformReady, SelfTestResult,
             ReportConfigValid, EnterFault
    <3>4. ~LoopCall
      BY DEF LoopCall, ReportLoopTick, ReportImuSample
    <3>5. ~TaskCall
      BY DEF TaskCall, ReportImuPermit, ReportImu, ReportWatchdog, ReportCalibrationValid,
             ReportFootpad, ReportFootpadSimulated, EnterFault
    <3>6. ~AnyRaise /\ ~Poll /\ ~Tick
      BY DEF AnyRaise, RaiseFault, EnterFault, Poll, PollDisarms, LostConditions, Tick
    <3> QED
      BY <1>1, <3>1, <3>2, <3>3, <3>4, <3>5, <3>6 DEF SupNext, OperatorCall, supVars
  <2>2. state' = "DISARMED" /\ faults' = {} /\ StillFaulty(in, faults) = {}
    BY <2>1 DEF ClearFault
  <2> QED
    BY <2>2, StillFaultyEmpty
<1>2. SupSpec => [][Step]_supVars
  BY <1>1, InvHolds, PTL DEF SupSpec
<1> QED
  BY <1>2 DEF FaultSticks

\* RUNNING always has a deadline within the limit, is entered without a fault
\* and on good conditions only, and its deadline never moves.
THEOREM BurstNeverExtendedHolds == SupSpec => BurstNeverExtended
<1> DEFINE Step == state' = "RUNNING" =>
                     /\ burst' \in 0 .. BurstMax
                     /\ state = "RUNNING" => burst' <= burst
                     /\ state # "RUNNING" => faults = {} /\ ArmedConditionsMet(in)
<1>1. ASSUME SupInv, [SupNext]_supVars
      PROVE  [Step]_supVars
  <2> SUFFICES ASSUME state' = "RUNNING", SupNext
               PROVE  /\ state = "RUNNING" => burst' <= burst
                      /\ state # "RUNNING" => faults = {} /\ ArmedConditionsMet(in)
    BY <1>1, NextInv DEF SupInv, RunningHasDeadline
  <2>1. CASE OperatorCall
    BY <1>1, <2>1 DEF OperatorCall, RequestReady, RequestClosedLoopReady, Disarm,
                ClearFault, BeginBurst, Remainder, SupInv, TypeOK, NoBurst
  <2>2. CASE BootCall
    BY <1>1, <2>2 DEF BootCall, BeginSelfTest, ReportPlatformReady, SelfTestResult,
                ReportConfigValid, EnterFault, SupInv, TypeOK, NoBurst
  <2>3. CASE LoopCall
    BY <1>1, <2>3 DEF LoopCall, ReportLoopTick, ReportImuSample, SupInv, TypeOK, NoBurst
  <2>4. CASE TaskCall
    BY <1>1, <2>4 DEF TaskCall, ReportImuPermit, ReportImu, ReportWatchdog,
                ReportCalibrationValid, ReportFootpad, ReportFootpadSimulated, EnterFault, SupInv, TypeOK, NoBurst
  <2>5. CASE AnyRaise
    BY <2>5 DEF AnyRaise, RaiseFault, EnterFault
  <2>6. CASE Poll
    BY <1>1, <2>6 DEF Poll, EnterFault, SupInv, TypeOK, NoBurst
  <2>7. CASE Tick
    BY <1>1, <2>7, TimesAssumption DEF Tick, SupInv, TypeOK, NoBurst
  <2> QED
    BY <2>1, <2>2, <2>3, <2>4, <2>5, <2>6, <2>7 DEF SupNext
<1>2. SupSpec => [][Step]_supVars
  BY <1>1, InvHolds, PTL DEF SupSpec
<1> QED
  BY <1>2 DEF BurstNeverExtended

-----------------------------------------------------------------------------
(* The supervisor implements BurstPermit.                                  *)

\* What a call does to the promise depends only on the state and the burst it
\* begins and ends with: these are the pairs the promise allows.
LEMMA PermitStep ==
    ASSUME state \in States, state' \in States,
           \/ state' = state /\ (state = "RUNNING" => burst' = burst)
           \/ state' = "FAULT"
           \/ state = "FAULT" /\ state' = "DISARMED"
           \/ state \in {"BOOT", "SELF_TEST"} /\ state' \in {"SELF_TEST", "DISARMED"}
           \/ state = "DISARMED" /\ state' = "READY"
           \/ state = "READY" /\ state' = "ARMED"
           \/ state \in {"READY", "ARMED", "RUNNING"} /\ state' = "DISARMED"
           \/ state = "ARMED" /\ state' = "RUNNING" /\ burst' \in 0 .. BurstMax
           \/ state = "RUNNING" /\ state' = "RUNNING" /\ burst > 0 /\ burst' = burst - 1
    PROVE  [Permit!Next]_(Permit!vars)
  BY DEF States, PermitMode, Permit!vars, Permit!Next, Permit!Prepare, Permit!Grant,
         Permit!RunDown, Permit!Withdraw, Permit!Fail, Permit!Recover

\* Every call of the supervisor is a step of the promise or changes nothing in
\* it: no call makes output permitted except after a preparation, and a fault
\* leads to rest.
THEOREM KeepsPromiseSafelyHolds == SupSpec => KeepsPromiseSafely
<1>1. SupInit => Permit!Init
  BY DEF SupInit, Permit!Init, PermitMode
<1>2. ASSUME SupInv, SupInv', [SupNext]_supVars
      PROVE  [Permit!Next]_(Permit!vars)
  <2>1. state \in States /\ state' \in States /\ burst \in Int
    BY <1>2, TimesAssumption DEF SupInv, TypeOK, NoBurst
  <2>2. CASE OperatorCall
    BY <2>1, <2>2, PermitStep, TimesAssumption
    DEF OperatorCall, RequestReady, RequestClosedLoopReady, Disarm, ClearFault, BeginBurst, Remainder
  <2>3. CASE BootCall
    BY <2>1, <2>3, PermitStep
    DEF BootCall, BeginSelfTest, ReportPlatformReady, SelfTestResult, ReportConfigValid,
        EnterFault
  <2>4. CASE LoopCall
    BY <2>1, <2>4, PermitStep DEF LoopCall, ReportLoopTick, ReportImuSample
  <2>5. CASE TaskCall
    BY <2>1, <2>5, PermitStep
    DEF TaskCall, ReportImuPermit, ReportImu, ReportWatchdog, ReportCalibrationValid,
        ReportFootpad, ReportFootpadSimulated, EnterFault
  <2>6. CASE AnyRaise
    BY <2>1, <2>6, PermitStep DEF AnyRaise, RaiseFault, EnterFault
  <2>7. CASE Poll
    BY <2>1, <2>7, PermitStep DEF Poll, EnterFault, PollDisarms, LostConditions
  <2>8. CASE Tick
    BY <2>1, <2>8, PermitStep DEF Tick
  <2>9. CASE UNCHANGED supVars
    BY <2>1, <2>9, PermitStep DEF supVars
  <2> QED
    BY <1>2, <2>2, <2>3, <2>4, <2>5, <2>6, <2>7, <2>8, <2>9 DEF SupNext
<1> QED
  BY <1>1, <1>2, InvHolds, PTL DEF SupSpec, KeepsPromiseSafely, Permit!SafeSpec

-----------------------------------------------------------------------------
(* The path of a request, for the modules that compose it with the         *)
(* supervisor: MotorBench and ClosedLoop.                                  *)

Calls    == [at : Stages, age : 0 .. Flight, amps : Levels]
Currents == [by : Origins, amps : Levels, quiet : 0 .. EscMax]

LEMMA LevelExists == NoCall \in Calls
  BY PathAssumption DEF NoCall, Calls, Stages

\* Moving a request on keeps it a request.
LEMMA GoesType ==
    ASSUME call \in [Origins -> Calls], NEW o \in Origins, NEW stage \in Stages,
           Goes(o, stage)
    PROVE  /\ call' \in [Origins -> Calls]
           /\ call'[o].at = stage
           /\ stage # "idle" => call'[o].age = call[o].age
           /\ call'[o].amps = call[o].amps
           /\ \A p \in Origins : p # o => call'[p] = call[p]
<1> DEFINE age == IF stage = "idle" THEN 0 ELSE call[o].age
           next == [[call[o] EXCEPT !.at = stage] EXCEPT !.age = age]
<1>1. call[o] \in Calls /\ age \in 0 .. Flight
  BY PathAssumption DEF Calls
<1>2. next \in Calls /\ next.at = stage /\ next.age = age /\ next.amps = call[o].amps
  BY <1>1 DEF Calls
<1>3. call' = [call EXCEPT ![o] = next]
  BY DEF Goes
<1> QED
  BY <1>2, <1>3

LEMMA AskType ==
    ASSUME call \in [Origins -> Calls], NEW o \in Origins, NEW amps \in Levels,
           Ask(o, amps)
    PROVE  /\ call' \in [Origins -> Calls]
           /\ call'[o].at = "asked"
           /\ \A p \in Origins : p # o => call'[p] = call[p]
  BY PathAssumption DEF Ask, Calls, Stages

\* A frame that reaches a half makes it obey that frame, and nothing else.
LEMMA ReachedType ==
    ASSUME call \in [Origins -> Calls], half \in [Halves -> Currents \cup {Free}],
           NEW o \in Origins, NEW h \in Halves, NEW ok \in BOOLEAN, Reached(h, ok, o)
    PROVE  /\ half' \in [Halves -> Currents \cup {Free}]
           /\ \A k \in Halves : half'[k] = half[k] \/ half'[k].quiet = 0
  BY PathAssumption DEF Reached, Commanded, Calls, Currents

\* The part of the type invariant that is not the supervisor's.
PathType ==
    /\ allowed \in BOOLEAN /\ gateLeft \in GateGone .. BurstMax
    /\ armed \in BOOLEAN /\ latched \in BOOLEAN /\ whole \in BOOLEAN
    /\ call \in [Origins -> Calls]
    /\ run \in BOOLEAN /\ stopReq \in BOOLEAN /\ runLeft \in 0 .. RunMax
    /\ half \in [Halves -> Currents \cup {Free}]

LEMMA SupUntouched ==
    ASSUME SupInv, UNCHANGED supVars
    PROVE  SupInv'
  BY DEF supVars, SupInv, TypeOK, FaultIffCause, RunningHasDeadline

LEMMA RequestType ==
    ASSUME PathType, NEW o \in Origins, Request(o)
    PROVE  PathType' /\ UNCHANGED supVars
<1> USE DEF PathType, gateVars, coordVars, benchVars
<1>1. CASE Gate(o)
  <2>1. call' \in [Origins -> Calls]
    BY <1>1, GoesType DEF Gate, Stages
  <2>2. UNCHANGED gateVars \/ RevokeBurst
    BY <1>1 DEF Gate
  <2>3. allowed' \in BOOLEAN
    BY <2>2 DEF RevokeBurst
  <2>4. gateLeft' = gateLeft \/ gateLeft' = GateGone
    BY <2>2 DEF RevokeBurst
  <2>5. GateGone \in GateGone .. BurstMax
    BY PathAssumption, TimesAssumption DEF GateGone
  <2>6. gateLeft' \in GateGone .. BurstMax
    BY <2>4, <2>5
  <2> QED
    BY <1>1, <2>1, <2>3, <2>6 DEF Gate
<1>2. CASE Plan(o)
  BY <1>2, GoesType DEF Plan, Stages
<1>3. CASE SendA(o)
  <2>1. PICK ok \in BOOLEAN : Reached("A", ok, o) /\ Goes(o, IF ok THEN "sentA" ELSE "missedA")
    BY <1>3 DEF SendA
  <2>2. half' \in [Halves -> Currents \cup {Free}]
    BY <2>1, ReachedType DEF Halves
  <2>3. call' \in [Origins -> Calls]
    BY <2>1, GoesType DEF Stages
  <2> QED
    BY <1>3, <2>2, <2>3 DEF SendA
<1>4. CASE SendB(o)
  <2>1. PICK ok \in BOOLEAN : Reached("B", ok, o) /\ ReportSend(At(o, "sentA"), ok)
    BY <1>4 DEF SendB
  <2>2. half' \in [Halves -> Currents \cup {Free}]
    BY <2>1, ReachedType DEF Halves
  <2>3. call' \in [Origins -> Calls]
    BY <1>4, GoesType DEF SendB, Stages
  <2>4. whole' \in BOOLEAN /\ latched' \in BOOLEAN
    BY <2>1 DEF ReportSend
  <2> QED
    BY <1>4, <2>2, <2>3, <2>4 DEF SendB
<1> QED
  BY <1>1, <1>2, <1>3, <1>4 DEF Request

LEMMA CommandType ==
    ASSUME PathType,
           \/ MotorStop \/ MotorDisarm \/ MotorArm \/ MotorClear
           \/ \E l \in Levels : OneShot(l)
           \/ \E l \in Levels, t \in 0 .. RunMax + 1 : MotorRun(l, t)
    PROVE  PathType' /\ UNCHANGED supVars
<1> USE DEF PathType, gateVars, coordVars, benchVars
<1>1. CASE MotorStop \/ MotorDisarm \/ MotorArm \/ MotorClear
  <2>1. CASE MotorStop \/ MotorArm
    BY <2>1 DEF MotorStop, MotorArm, TryArm
  <2>2. CASE MotorDisarm \/ MotorClear
    BY <2>2 DEF MotorDisarm, MotorClear, ExperimentDisarm
  <2> QED
    BY <1>1, <2>1, <2>2
<1>2. CASE \E l \in Levels : OneShot(l)
  <2>1. PICK l \in Levels : OneShot(l)
    BY <1>2
  <2>2. call' \in [Origins -> Calls]
    BY <2>1, AskType DEF OneShot, Origins
  <2> QED
    BY <2>1, <2>2 DEF OneShot
<1>3. CASE \E l \in Levels, t \in 0 .. RunMax + 1 : MotorRun(l, t)
  <2>1. PICK l \in Levels, t \in 0 .. RunMax + 1 : MotorRun(l, t)
    BY <1>3
  <2>2. [call["experiment"] EXCEPT !.amps = l] \in Calls
    BY DEF Calls, Origins
  <2>3. call' = [call EXCEPT !["experiment"] = [call["experiment"] EXCEPT !.amps = l]]
    BY <2>1 DEF MotorRun
  <2>4. call' \in [Origins -> Calls]
    BY <2>2, <2>3 DEF Origins
  <2>5. runLeft' \in 0 .. RunMax
    BY <2>1, PathAssumption DEF MotorRun
  <2> QED
    BY <2>1, <2>4, <2>5 DEF MotorRun
<1> QED
  BY <1>1, <1>2, <1>3

\* What a tick does to a request.
LEMMA TickCalls ==
    ASSUME PathType, MotorTick, NEW o \in Origins
    PROVE  /\ call'[o] \in Calls /\ call'[o].at = call[o].at
           /\ call[o].at # "idle" => call'[o].age = call[o].age + 1
<1>1. CASE o \in Flying
  <2>1. call[o].age \in 0 .. Flight /\ call[o].age < Flight
    BY <1>1 DEF MotorTick, PathType, Calls
  <2>2. call'[o] = [call[o] EXCEPT !.age = call[o].age + 1]
    BY <1>1 DEF MotorTick
  <2> QED
    BY <2>1, <2>2, PathAssumption DEF PathType, Calls
<1>2. CASE o \notin Flying
  BY <1>2 DEF MotorTick, PathType, Calls, Flying, At
<1> QED
  BY <1>1, <1>2

\* ... and to a half.
LEMMA TickType ==
    ASSUME PathType, MotorTick
    PROVE  /\ PathType'
           /\ \A h \in Halves : half'[h] # Free =>
                  half[h] # Free /\ half'[h].quiet = half[h].quiet + 1
<1>1. ASSUME NEW h \in Halves
      PROVE  /\ half'[h] \in Currents \cup {Free}
             /\ half'[h] # Free => half[h] # Free /\ half'[h].quiet = half[h].quiet + 1
  <2>1. CASE h \in Driven
    <3>1. half[h] \in Currents /\ half[h].quiet < EscMax
      BY <2>1 DEF MotorTick, PathType, Driven
    <3>2. half'[h] = [half[h] EXCEPT !.quiet = half[h].quiet + 1]
      BY <2>1 DEF MotorTick
    <3> QED
      BY <2>1, <3>1, <3>2, PathAssumption DEF Currents, Driven
  <2>2. CASE h \notin Driven
    BY <2>2 DEF MotorTick, PathType, Driven
  <2> QED
    BY <2>1, <2>2
<1>2. call' \in [Origins -> Calls] /\ half' \in [Halves -> Currents \cup {Free}]
  BY <1>1, TickCalls DEF MotorTick
<1>3. gateLeft' \in GateGone .. BurstMax /\ runLeft' \in 0 .. RunMax
  BY PathAssumption, TimesAssumption DEF MotorTick, PathType, GateGone
<1> QED
  BY <1>1, <1>2, <1>3 DEF MotorTick, PathType, coordVars

\* An ESC that lets its half go does nothing else.
LEMMA ReleaseType ==
    ASSUME PathType, NEW h \in Halves, EscReleases(h)
    PROVE  /\ PathType' /\ UNCHANGED <<supVars, gateVars, coordVars, benchVars, call>>
           /\ \A k \in Halves : half'[k] = half[k] \/ half'[k] = Free
<1>1. UNCHANGED <<supVars, gateVars, coordVars, benchVars, call>>
  BY DEF EscReleases
<1>2. half' = [half EXCEPT ![h] = Free]
  BY DEF EscReleases
<1>3. half' \in [Halves -> Currents \cup {Free}]
  BY <1>2 DEF PathType
<1>4. \A k \in Halves : half'[k] = half[k] \/ half'[k] = Free
  BY <1>2 DEF PathType
<1> QED
  BY <1>1, <1>3, <1>4 DEF PathType, gateVars, coordVars, benchVars

-----------------------------------------------------------------------------
(* The promise of WheelPair, for the modules in which one source is in use. *)

Sending == {"sentA", "missedA"}

\* The other source is silent, and a granted pair has no latch before it.
Single(o) ==
    /\ \A p \in Origins : p # o => call[p].at = "idle"
    /\ call[o].at = "send" => ~latched

\* A step of the promise, or none.
PairStep == [Pair!Next]_(Pair!vars)

\* With one source there is at most one open pair.
LEMMA OpenOf ==
    ASSUME NEW o \in Origins, Single(o)
    PROVE  /\ call[o].at \in Sending =>
                  OpenPairs = {[command |-> Command(o), reached |-> At(o, "sentA")]}
           /\ call[o].at \notin Sending => OpenPairs = {}
<1> DEFINE senders == {p \in Origins : call[p].at \in {"sentA", "missedA"}}
<1>1. call[o].at \in Sending => senders = {o}
  BY DEF Single, Sending
<1>2. call[o].at \notin Sending => senders = {}
  BY DEF Single, Sending
<1>3. OpenPairs = {[command |-> Command(p), reached |-> At(p, "sentA")] : p \in senders}
  BY DEF OpenPairs
<1> HIDE DEF senders
<1> QED
  BY <1>1, <1>2, <1>3

\* A frame that reaches a half is all that half then obeys.
LEMMA ReachedObeyed ==
    ASSUME PathType, NEW o \in Origins, NEW h \in Halves, NEW ok \in BOOLEAN, Reached(h, ok, o)
    PROVE  Obeyed' = IF ok THEN [Obeyed EXCEPT ![h] = Command(o)] ELSE Obeyed
<1>1. CASE ok
  <2>1. half' = [half EXCEPT ![h] = Commanded(o)]
    BY <1>1 DEF Reached
  <2>2. ASSUME NEW k \in Halves
        PROVE  [by |-> half'[k].by, amps |-> half'[k].amps]
                   = IF k = h THEN Command(o) ELSE [by |-> half[k].by, amps |-> half[k].amps]
    BY <2>1 DEF PathType, Commanded, Command
  <2> QED
    BY <1>1, <2>2 DEF Obeyed
<1>2. CASE ~ok
  BY <1>2 DEF Reached, Obeyed
<1> QED
  BY <1>1, <1>2

\* Where a request may go.
LEMMA RequestGoes ==
    ASSUME PathType, NEW o \in Origins, Request(o)
    PROVE  /\ \A p \in Origins : p # o => call'[p] = call[p]
           /\ call'[o].amps = call[o].amps
           /\ \/ /\ call[o].at \in {"asked", "passed"} /\ call'[o].at \in {"idle", "passed"}
                 /\ UNCHANGED <<half, latched>>
              \/ /\ call[o].at = "passed" /\ call'[o].at = "send" /\ ~latched
                 /\ UNCHANGED <<half, latched>>
              \/ /\ call[o].at = "send" /\ latched' = latched
                 /\ \E ok \in BOOLEAN : /\ Reached("A", ok, o)
                                        /\ call'[o].at = IF ok THEN "sentA" ELSE "missedA"
              \/ /\ call[o].at \in Sending /\ call'[o].at = "idle"
                 /\ \E ok \in BOOLEAN : Reached("B", ok, o) /\ ReportSend(At(o, "sentA"), ok)
<1> USE GoesType DEF PathType, Stages
<1>1. CASE Gate(o)
  BY <1>1 DEF Gate, At, coordVars
<1>2. CASE Plan(o)
  BY <1>2 DEF Plan, At, MayPlan, coordVars
<1>3. CASE SendA(o)
  <2>1. PICK ok \in BOOLEAN : Reached("A", ok, o) /\ Goes(o, IF ok THEN "sentA" ELSE "missedA")
    BY <1>3 DEF SendA
  <2> QED
    BY <1>3, <2>1 DEF SendA, At, coordVars
<1>4. CASE SendB(o)
  BY <1>4 DEF SendB, Sending
<1> QED
  BY <1>1, <1>2, <1>3, <1>4 DEF Request

LEMMA RequestSingle ==
    ASSUME PathType, NEW o \in Origins, Single(o), Request(o)
    PROVE  Single(o)'
  BY RequestGoes DEF Single, Sending

\* A request sends its pair to both halves, the one after the other, or not at all.
LEMMA RequestPair ==
    ASSUME PathType, NEW o \in Origins, Single(o), Request(o)
    PROVE  PairStep
<1>0. Single(o)'
  BY RequestSingle
<1>1. /\ call'[o].at \in Sending =>
             OpenPairs' = {[command |-> Command(o)', reached |-> (call'[o].at = "sentA")]}
      /\ call'[o].at \notin Sending => OpenPairs' = {}
  <2> DEFINE senders == {p \in Origins : call'[p].at \in {"sentA", "missedA"}}
  <2>1. call'[o].at \in Sending => senders = {o}
    BY <1>0 DEF Single, Sending
  <2>2. call'[o].at \notin Sending => senders = {}
    BY <1>0 DEF Single, Sending
  <2>3. OpenPairs' = {[command |-> Command(p)', reached |-> (call'[p].at = "sentA")] : p \in senders}
    BY DEF OpenPairs, At, Command
  <2> HIDE DEF senders
  <2> QED
    BY <2>1, <2>2, <2>3
<1>2. Command(o)' = Command(o) /\ Command(o) \in [by : Origins, amps : Levels]
  BY RequestGoes DEF Command, PathType, Calls
<1>3. CASE call[o].at \notin Sending /\ call'[o].at \notin Sending /\ UNCHANGED <<half, latched>>
  BY <1>1, <1>3, OpenOf DEF PairStep, Pair!vars, Obeyed
<1>4. CASE call[o].at = "send" /\ call'[o].at \in Sending
  <2>1. PICK ok \in BOOLEAN : Reached("A", ok, o) /\ call'[o].at = IF ok THEN "sentA" ELSE "missedA"
    BY <1>4, RequestGoes DEF Sending
  <2>2. latched' = latched /\ ~latched
    BY <1>4, RequestGoes DEF Sending, Single
  <2>3. Obeyed' = IF ok THEN [Obeyed EXCEPT !["A"] = Command(o)] ELSE Obeyed
    BY <2>1, ReachedObeyed DEF Halves
  <2>4. OpenPairs = {} /\ OpenPairs' = {[command |-> Command(o), reached |-> ok]}
    BY <1>1, <1>2, <1>4, <2>1, OpenOf DEF Sending
  <2>5. Pair!Begin(Command(o), ok)
    BY <2>2, <2>3, <2>4 DEF Pair!Begin, Pair!Reach
  <2> QED
    BY <1>2, <2>5 DEF PairStep, Pair!Next
<1>5. CASE call[o].at \in Sending
  <2>1. PICK ok \in BOOLEAN : Reached("B", ok, o) /\ ReportSend(At(o, "sentA"), ok)
    BY <1>5, RequestGoes DEF Sending
  <2> DEFINE pair == [command |-> Command(o), reached |-> At(o, "sentA")]
  <2>2. latched' = (latched \/ ok # At(o, "sentA"))
    BY <2>1 DEF ReportSend
  <2>3. Obeyed' = IF ok THEN [Obeyed EXCEPT !["B"] = Command(o)] ELSE Obeyed
    BY <2>1, ReachedObeyed DEF Halves
  <2>4. OpenPairs = {pair} /\ OpenPairs' = {}
    BY <1>1, <1>5, RequestGoes, OpenOf DEF Sending
  <2>5. Pair!End(pair, ok)
    BY <2>2, <2>3, <2>4 DEF Pair!End, Pair!Reach
  <2> QED
    BY <2>4, <2>5 DEF PairStep, Pair!Next
<1> QED
  BY <1>3, <1>4, <1>5, RequestGoes DEF Sending

\* The rest of the path: wheels let go, the operator clears the latch, and nothing else
\* reaches a wheel.
LEMMA ReleasePair ==
    ASSUME PathType, NEW h \in Halves, EscReleases(h)
    PROVE  PairStep
<1>1. half' = [half EXCEPT ![h] = Free] /\ UNCHANGED <<call, latched>>
  BY DEF EscReleases, coordVars
<1>2. ASSUME NEW k \in Halves
      PROVE  [by |-> half'[k].by, amps |-> half'[k].amps]
                 = IF k = h THEN [by |-> "nobody", amps |-> 0]
                   ELSE [by |-> half[k].by, amps |-> half[k].amps]
  BY <1>1 DEF PathType, Free
<1>3. Obeyed' = [Obeyed EXCEPT ![h] = [by |-> "nobody", amps |-> 0]]
  BY <1>2 DEF Obeyed
<1>4. OpenPairs' = OpenPairs
  BY <1>1 DEF OpenPairs, Command, At
<1>5. Pair!LetGo(h)
  BY <1>1, <1>3, <1>4 DEF Pair!LetGo
<1> QED
  BY <1>5 DEF PairStep, Pair!Next, Pair!Halves, Halves

LEMMA StillPair ==
    ASSUME UNCHANGED <<Obeyed, OpenPairs>>, latched' = latched \/ latched' = FALSE
    PROVE  PairStep
  BY DEF PairStep, Pair!Next, Pair!Clear, Pair!vars

\* What no request does keeps the pairs, and the one source.
LEMMA StillSingle ==
    ASSUME NEW s \in Origins, Single(s), UNCHANGED half, latched' = latched \/ latched' = FALSE,
           \A o \in Origins : \/ call'[o].at = call[o].at /\ call'[o].amps = call[o].amps
                             \/ /\ o = s /\ call[o].at \notin Sending
                                /\ call'[o].at \in {"idle", "asked"}
    PROVE  Single(s)' /\ PairStep
<1>1. Single(s)'
  BY DEF Single
<1>2. ASSUME NEW o \in Origins
      PROVE  /\ call'[o].at \in Sending <=> call[o].at \in Sending
             /\ call[o].at \in Sending => call'[o].at = call[o].at /\ call'[o].amps = call[o].amps
  BY DEF Sending
<1>3. OpenPairs' = OpenPairs
  <2>1. {p \in Origins : call'[p].at \in {"sentA", "missedA"}} =
            {p \in Origins : call[p].at \in {"sentA", "missedA"}}
    BY <1>2 DEF Sending
  <2> QED
    BY <1>2, <2>1 DEF OpenPairs, Command, At, Sending
<1>4. Obeyed' = Obeyed
  BY DEF Obeyed
<1> QED
  BY <1>1, <1>3, <1>4, StillPair

LEMMA TickPair ==
    ASSUME PathType, MotorTick
    PROVE  PairStep
<1>1. ASSUME NEW h \in Halves
      PROVE  half'[h].by = half[h].by /\ half'[h].amps = half[h].amps
  BY DEF MotorTick, PathType, Currents, Free
<1>2. Obeyed' = Obeyed
  BY <1>1 DEF Obeyed
<1>3. ASSUME NEW o \in Origins
      PROVE  call'[o].at = call[o].at /\ call'[o].amps = call[o].amps
  BY DEF MotorTick, PathType, Calls
<1>4. OpenPairs' = OpenPairs
  <2>1. {p \in Origins : call'[p].at \in {"sentA", "missedA"}} =
            {p \in Origins : call[p].at \in {"sentA", "missedA"}}
    BY <1>3
  <2> QED
    BY <1>3, <2>1 DEF OpenPairs, Command, At
<1> QED
  BY <1>2, <1>4, StillPair DEF MotorTick, coordVars
=============================================================================
