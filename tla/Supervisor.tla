----------------------------- MODULE Supervisor -----------------------------
(***************************************************************************)
(* The safety supervisor (compat/safety/fc_supervisor.c): the state        *)
(* machine that alone decides whether a current may reach the motors.      *)
(* Each public call of the file is one action.  The calls arrive from the  *)
(* boot code, the control loop, the supervisor's task and the console;     *)
(* here any of them may come next, which is more than any one of these     *)
(* callers does.  Calls are atomic in this module: SupervisorRace takes    *)
(* them apart.                                                             *)
(*                                                                         *)
(* Time.  The code keeps time stamps and subtracts them from `now'.  The   *)
(* model keeps the differences: loopAge and imuAge are `now' minus the     *)
(* last report, counted up to AgeCap, and burst is the deadline of the     *)
(* burst minus `now', floored at 0.  Tick makes one unit of time pass.     *)
(* Nothing else the code does with a time stamp decides anything.          *)
(*                                                                         *)
(* Left out: faults_latched, transitions, fault_entries, state_since and   *)
(* the worst ages, the snapshot imu_fault and its time line (written for   *)
(* display, never read by the machine), the inputs nothing reads           *)
(* (esc_a_alive, esc_b_alive, can_fresh, battery_ok, thermal_ok).          *)
(***************************************************************************)
EXTENDS Integers

CONSTANTS
    LoopTimeout,   \* FC_SUP_LOOP_TIMEOUT_US, in ticks of the model
    ImuTimeout,    \* FC_SUP_IMU_TIMEOUT_US
    BurstMax,      \* FC_SUP_BURST_MAX_US
    AgeCap,        \* ages are counted up to this bound
    SampleLag,     \* a report is stamped at most this long before it is made
    RaisedFaults   \* the causes fc_supervisor_raise_fault is given

Never   == -1      \* loop_tick_seen, imu_sample_seen are false
NoBurst == -1      \* burst_deadline_us = 0

SelfTestFault == "SELF_TEST"
ConfigFault   == "CONFIG_INVALID"
LoopFault     == "LOOP_STALL"
ImuFault      == "IMU_UNHEALTHY"
WatchdogFault == "WATCHDOG"

\* FC_FAULT_SELF_TEST | FC_FAULT_INTERNAL | FC_FAULT_STORAGE in clear_fault.
StickyFaults == {SelfTestFault, "INTERNAL", "STORAGE"}

Faults == StickyFaults \cup RaisedFaults
              \cup {ConfigFault, LoopFault, ImuFault, WatchdogFault}

ASSUME TimesAssumption ==
    /\ LoopTimeout \in Nat \ {0} /\ ImuTimeout \in Nat \ {0}
    /\ BurstMax \in Nat \ {0} /\ SampleLag \in Nat
    /\ AgeCap \in Nat /\ AgeCap > LoopTimeout /\ AgeCap > ImuTimeout
    /\ SampleLag <= AgeCap

VARIABLES
    state,       \* S.state
    faults,      \* S.faults, as a set of causes
    in,          \* S.in: the inputs the conditions read
    loopAge,     \* now - S.last_loop_tick_us, or Never
    imuAge,      \* now - S.last_imu_sample_us, or Never
    burst,       \* S.burst_deadline_us - now, or NoBurst
    lastPermit   \* S.last_imu_permit

supVars == <<state, faults, in, loopAge, imuAge, burst, lastPermit>>

States == {"BOOT", "SELF_TEST", "DISARMED", "READY", "ARMED", "RUNNING", "FAULT"}

\* Mutant: a disarmed machine is not watched.
OperationalButDisarmed == {"READY", "ARMED", "RUNNING"}

\* The states in which poll turns a stale loop or IMU into a fault.
Operational == {"DISARMED", "READY", "ARMED", "RUNNING"}

Permits == {"OK", "HOLD", "LOST"}

Inputs == [platform : BOOLEAN, config : BOOLEAN, loop : BOOLEAN, imu : BOOLEAN,
           watchdog : BOOLEAN, footpad : BOOLEAN, simulated : BOOLEAN,
           calibration : BOOLEAN]

TypeOK ==
    /\ state \in States
    /\ faults \in SUBSET Faults
    /\ in \in Inputs
    /\ loopAge \in Never .. AgeCap
    /\ imuAge \in Never .. AgeCap
    /\ burst \in NoBurst .. BurstMax
    /\ lastPermit \in Permits

-----------------------------------------------------------------------------
(* Conditions.                                                             *)

BaseConditionsMet(i) ==
    i.platform /\ i.config /\ i.loop /\ i.imu /\ i.watchdog /\ i.calibration

\* Ready may be declared on a free board only.
ReadyConditionsMet(i) == BaseConditionsMet(i) /\ ~i.footpad

\* Armed and running also survive a simulated press of the footpad.
ArmedConditionsMet(i) == BaseConditionsMet(i) /\ (i.footpad => i.simulated)

\* Mutant: only READY is given up when its conditions go.
LostConditionsOfReady(s, i) == s = "READY" /\ ~ReadyConditionsMet(i)

\* The states whose own conditions are gone.
LostConditions(s, i) ==
    \/ s = "READY" /\ ~ReadyConditionsMet(i)
    \/ s \in {"ARMED", "RUNNING"} /\ ~ArmedConditionsMet(i)

\* Mutant: a bad watchdog does not keep the fault.
StillFaultyButWatchdog(i, f) ==
    (IF i.config THEN {} ELSE {ConfigFault})
        \cup (IF i.imu THEN {} ELSE {ImuFault})
        \cup (IF i.loop THEN {} ELSE {LoopFault})
        \cup (f \cap StickyFaults)

\* What clear_fault finds still wrong.
StillFaulty(i, f) ==
    (IF i.config THEN {} ELSE {ConfigFault})
        \cup (IF i.imu THEN {} ELSE {ImuFault})
        \cup (IF i.loop THEN {} ELSE {LoopFault})
        \cup (IF i.watchdog THEN {} ELSE {WatchdogFault})
        \cup (f \cap StickyFaults)

MotorOutputPermitted == state = "RUNNING"
ConfigWriteAllowed   == state = "DISARMED"

EnterFault(mask) == faults' = faults \cup mask /\ state' = "FAULT"

-----------------------------------------------------------------------------
SupInit ==
    /\ state = "BOOT"
    /\ faults = {}
    /\ in = [platform |-> FALSE, config |-> FALSE, loop |-> FALSE, imu |-> FALSE,
             watchdog |-> TRUE, footpad |-> FALSE, simulated |-> FALSE,
             calibration |-> FALSE]
    /\ loopAge = Never
    /\ imuAge = Never
    /\ burst = NoBurst
    /\ lastPermit = "OK"

(* Boot.                                                                   *)

BeginSelfTest ==
    /\ state = "BOOT"
    /\ state' = "SELF_TEST"
    /\ UNCHANGED <<faults, in, loopAge, imuAge, burst, lastPermit>>

\* Mutant: the verdict of the self-test is not looked at.
SelfTestResultIgnored(passed) ==
    /\ state = "SELF_TEST"
    /\ state' = "DISARMED"
    /\ UNCHANGED <<faults, in, loopAge, imuAge, burst, lastPermit>>

SelfTestResult(passed) ==
    /\ state = "SELF_TEST"
    /\ IF passed THEN state' = "DISARMED" /\ UNCHANGED faults
                 ELSE EnterFault({SelfTestFault})
    /\ UNCHANGED <<in, loopAge, imuAge, burst, lastPermit>>

(* Requests of the operator.  A refused request changes nothing.           *)

RequestReady ==
    /\ state = "DISARMED" /\ faults = {} /\ ReadyConditionsMet(in)
    /\ state' = "READY"
    /\ UNCHANGED <<faults, in, loopAge, imuAge, burst, lastPermit>>

RequestClosedLoopReady ==
    /\ state = "READY" /\ faults = {} /\ ReadyConditionsMet(in)
    /\ state' = "ARMED"
    /\ UNCHANGED <<faults, in, loopAge, imuAge, burst, lastPermit>>

\* What is left of a duration that began lag ago.
Remainder(duration, lag) == IF lag < duration THEN duration - lag ELSE 0

\* Mutant: the duration is not limited.
BeginBurstUnlimited(duration, lag) ==
    /\ state = "ARMED" /\ faults = {} /\ ArmedConditionsMet(in)
    /\ 0 < duration
    /\ burst' = Remainder(duration, lag)
    /\ state' = "RUNNING"
    /\ UNCHANGED <<faults, in, loopAge, imuAge, lastPermit>>

\* Mutant: a burst may be begun again while it runs.
BeginBurstAgain(duration, lag) ==
    /\ state \in {"ARMED", "RUNNING"} /\ faults = {} /\ ArmedConditionsMet(in)
    /\ 0 < duration /\ duration <= BurstMax
    /\ burst' = Remainder(duration, lag)
    /\ state' = "RUNNING"
    /\ UNCHANGED <<faults, in, loopAge, imuAge, lastPermit>>

\* The caller took `now' lag ago.
BeginBurst(duration, lag) ==
    /\ state = "ARMED" /\ faults = {} /\ ArmedConditionsMet(in)
    /\ 0 < duration /\ duration <= BurstMax
    /\ burst' = Remainder(duration, lag)
    /\ state' = "RUNNING"
    /\ UNCHANGED <<faults, in, loopAge, imuAge, lastPermit>>

\* Mutant: disarming also leaves FAULT.
DisarmFromFault ==
    /\ state \in {"READY", "ARMED", "RUNNING", "FAULT"}
    /\ burst' = NoBurst
    /\ state' = "DISARMED"
    /\ UNCHANGED <<faults, in, loopAge, imuAge, lastPermit>>

Disarm ==
    /\ state \in {"READY", "ARMED", "RUNNING"}
    /\ burst' = NoBurst
    /\ state' = "DISARMED"
    /\ UNCHANGED <<faults, in, loopAge, imuAge, lastPermit>>

\* Outside FAULT clear_fault has nothing to clear.
ClearFault ==
    /\ state = "FAULT"
    /\ faults' = StillFaulty(in, faults)
    /\ state' = IF faults' = {} THEN "DISARMED" ELSE "FAULT"
    /\ UNCHANGED <<in, loopAge, imuAge, burst, lastPermit>>

(* Reports of the control loop.                                            *)

ReportLoopTick(lag) ==
    /\ loopAge' = lag
    /\ in' = [in EXCEPT !.loop = TRUE]
    /\ UNCHANGED <<state, faults, imuAge, burst, lastPermit>>

ReportImuSample(lag) ==
    /\ imuAge' = lag
    /\ UNCHANGED <<state, faults, in, loopAge, burst, lastPermit>>

(* Reports of the supervisor's task and of the boot code.                  *)

ReportImuPermit(permit) ==
    /\ lastPermit' = permit
    /\ in' = [in EXCEPT !.imu = (permit = "OK")]
    /\ IF permit = "LOST" THEN EnterFault({ImuFault}) ELSE UNCHANGED <<state, faults>>
    /\ UNCHANGED <<loopAge, imuAge, burst>>

\* The older form, without the policy; no code of the firmware calls it.
ReportImu(healthy) ==
    /\ in' = [in EXCEPT !.imu = healthy]
    /\ IF healthy THEN UNCHANGED <<state, faults>> ELSE EnterFault({ImuFault})
    /\ UNCHANGED <<loopAge, imuAge, burst, lastPermit>>

ReportConfigValid(valid) ==
    /\ in' = [in EXCEPT !.config = valid]
    /\ IF valid THEN UNCHANGED <<state, faults>> ELSE EnterFault({ConfigFault})
    /\ UNCHANGED <<loopAge, imuAge, burst, lastPermit>>

ReportPlatformReady ==
    /\ in' = [in EXCEPT !.platform = TRUE]
    /\ UNCHANGED <<state, faults, loopAge, imuAge, burst, lastPermit>>

ReportWatchdog(healthy) ==
    /\ in' = [in EXCEPT !.watchdog = healthy]
    /\ IF healthy THEN UNCHANGED <<state, faults>> ELSE EnterFault({WatchdogFault})
    /\ UNCHANGED <<loopAge, imuAge, burst, lastPermit>>

ReportCalibrationValid(valid) ==
    /\ in' = [in EXCEPT !.calibration = valid]
    /\ state' = IF ~valid /\ state = "READY" THEN "DISARMED" ELSE state
    /\ UNCHANGED <<faults, loopAge, imuAge, burst, lastPermit>>

\* A real press ends a burst at once, without waiting for the next poll.
ReportFootpad(engaged) ==
    /\ in' = [in EXCEPT !.footpad = engaged]
    /\ LET ends == engaged /\ ~in.simulated /\ state \in {"ARMED", "RUNNING"}
       IN  /\ state' = IF ends \/ (engaged /\ state = "READY") THEN "DISARMED" ELSE state
           /\ burst' = IF ends THEN NoBurst ELSE burst
    /\ UNCHANGED <<faults, loopAge, imuAge, lastPermit>>

ReportFootpadSimulated(simulated) ==
    /\ in' = [in EXCEPT !.simulated = simulated]
    /\ UNCHANGED <<state, faults, loopAge, imuAge, burst, lastPermit>>

RaiseFault(mask) ==
    /\ mask # {}
    /\ EnterFault(mask)
    /\ UNCHANGED <<in, loopAge, imuAge, burst, lastPermit>>

(* The poll.                                                               *)

LoopStale == loopAge > LoopTimeout
ImuStale  == imuAge > ImuTimeout

\* The inputs once the two ages have been looked at.
PolledInputs == [in EXCEPT !.loop = @ /\ ~LoopStale, !.imu = @ /\ ~ImuStale]

\* A stale loop is found first, and hides a stale IMU: by then the state is
\* FAULT and the second check no longer adds its own cause.
StaleFault == IF LoopStale THEN {LoopFault} ELSE {ImuFault}

\* Mutants: the deadline, or the conditions, are not looked at.
PollDisarmsOnLoss == LostConditions(state, PolledInputs)
PollDisarmsOnDeadline == state = "RUNNING" /\ burst <= 0

\* The burst has run its time, or a condition went without a fault.
PollDisarms ==
    \/ state = "RUNNING" /\ burst <= 0
    \/ LostConditions(state, PolledInputs)

Poll ==
    /\ in' = PolledInputs
    /\ \/ /\ (LoopStale \/ ImuStale) /\ state \in Operational
          /\ EnterFault(StaleFault)
          /\ UNCHANGED burst
       \/ /\ ~((LoopStale \/ ImuStale) /\ state \in Operational)
          /\ UNCHANGED faults
          /\ IF PollDisarms THEN state' = "DISARMED" /\ burst' = NoBurst
                            ELSE UNCHANGED <<state, burst>>
    /\ UNCHANGED <<loopAge, imuAge, lastPermit>>

(* Time.                                                                   *)

Older(age) == IF 0 <= age /\ age < AgeCap THEN age + 1 ELSE age

Tick ==
    /\ loopAge' = Older(loopAge)
    /\ imuAge' = Older(imuAge)
    /\ burst' = IF burst > 0 THEN burst - 1 ELSE burst
    /\ UNCHANGED <<state, faults, in, lastPermit>>

-----------------------------------------------------------------------------
OperatorCall ==
    \/ RequestReady \/ RequestClosedLoopReady \/ Disarm \/ ClearFault
    \/ \E d \in 0 .. BurstMax + 1, lag \in 0 .. SampleLag : BeginBurst(d, lag)

BootCall ==
    \/ BeginSelfTest \/ ReportPlatformReady
    \/ \E b \in BOOLEAN : SelfTestResult(b) \/ ReportConfigValid(b)

LoopCall == \E lag \in 0 .. SampleLag : ReportLoopTick(lag) \/ ReportImuSample(lag)

TaskCall ==
    \/ \E p \in Permits : ReportImuPermit(p)
    \/ \E b \in BOOLEAN : \/ ReportImu(b) \/ ReportWatchdog(b)
                          \/ ReportCalibrationValid(b)
                          \/ ReportFootpad(b) \/ ReportFootpadSimulated(b)

AnyRaise == \E f \in RaisedFaults : RaiseFault({f})

SupNext == OperatorCall \/ BootCall \/ LoopCall \/ TaskCall \/ AnyRaise \/ Poll \/ Tick

\* Time passes, and the task keeps polling.  Nothing is assumed of the loop,
\* of the console or of the inputs.
SupFairness == WF_supVars(Tick) /\ WF_supVars(Poll)

SupSpec == SupInit /\ [][SupNext]_supVars /\ SupFairness

-----------------------------------------------------------------------------
(* Properties.                                                             *)

\* The machine is in FAULT exactly while a cause is recorded.  A cause left
\* behind in another state would make the supervisor refuse READY for ever,
\* because clear_fault does nothing outside FAULT.
FaultIffCause == state = "FAULT" <=> faults # {}

\* FAULT is left only by clear_fault, for DISARMED, with every cause that
\* the inputs can tell gone and no sticky cause on record.
FaultSticks ==
    [][state = "FAULT" /\ state' # "FAULT" =>
         /\ state' = "DISARMED" /\ faults' = {}
         /\ in.config /\ in.imu /\ in.loop /\ in.watchdog
         /\ faults \cap StickyFaults = {}]_supVars

\* Output is permitted only inside a burst with a deadline, and no call moves
\* the deadline of a burst that runs: a longer run needs a new arming.
BurstNeverExtended ==
    [][state' = "RUNNING" =>
         /\ burst' \in 0 .. BurstMax
         /\ state = "RUNNING" => burst' <= burst
         /\ state # "RUNNING" => faults = {} /\ ArmedConditionsMet(in)]_supVars

\* Every burst ends, whatever the console, the loop and the inputs do.
BurstEnds == state = "RUNNING" ~> state # "RUNNING"

\* A loop that stays silent while the board is in service is found out, also
\* when the silence begins inside a burst.
SilenceFound ==
    (state \notin {"BOOT", "SELF_TEST", "FAULT"} /\ loopAge > LoopTimeout)
        ~> (state = "FAULT" \/ loopAge <= LoopTimeout)

(* The promise to the rest of the system.                                  *)

PermitMode ==
    CASE state \in {"READY", "ARMED"} -> "prepared"
      [] state = "RUNNING"            -> "live"
      [] state = "FAULT"              -> "failed"
      [] OTHER                        -> "rest"

Permit == INSTANCE BurstPermit
              WITH mode <- PermitMode, left <- IF state = "RUNNING" THEN burst ELSE 0

\* The supervisor keeps the promise of BurstPermit, the end of every burst
\* included.
KeepsPromise == Permit!Spec

\* The part of the promise that says what may never happen.
KeepsPromiseSafely == Permit!SafeSpec
=============================================================================
