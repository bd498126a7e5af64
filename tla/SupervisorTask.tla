--------------------------- MODULE SupervisorTask ---------------------------
(***************************************************************************)
(* The supervisor as the firmware drives it: app_main boots it, the        *)
(* control loop stamps it, the supervisor's task (fc_supervisor_task.c)    *)
(* feeds and polls it once a period, and the console asks it for READY,    *)
(* ARMED, RUNNING and back.                                                *)
(*                                                                         *)
(* Who can run when.  The task (priority 15), the control loop (14) and    *)
(* Refloat (12) share core 1, so no loop step and no Refloat step falls    *)
(* inside an iteration of the task.  The console runs on core 0: its calls *)
(* fall between any two calls of the iteration, and so do the samples of   *)
(* the stress test.  One call is atomic here.                              *)
(*                                                                         *)
(* Time.  vTaskDelayUntil wakes the task every PollPeriod; nothing on      *)
(* core 1 outranks it, so time does not pass a due iteration.              *)
(***************************************************************************)
EXTENDS Supervisor

CONSTANTS
    PollPeriod,  \* 1 / FC_SUPERVISOR_HZ
    Fresh,       \* torque_freshness_us: an older IMU sample is at best HOLD
    HistoryCap   \* the histories are counted up to this bound

ASSUME TaskAssumption ==
    /\ PollPeriod \in Nat \ {0}
    /\ Fresh \in Nat /\ Fresh < ImuTimeout /\ Fresh <= LoopTimeout
    /\ AgeCap > LoopTimeout + PollPeriod
    /\ HistoryCap \in Nat

VARIABLES
    phase,       \* how far app_main has come
    registered,  \* fc_config_registered(): Refloat registered a configuration
    cleanReset,  \* esp_reset_reason() is not a watchdog
    step,        \* the next call of the task's iteration
    sinceRun,    \* time since the task last woke
    lineAge,     \* now - TL.last_valid_us of the IMU pipeline, or Never
    ahead,       \* a sample was reported after the iteration took its time
    simActive,   \* g_sim_active: the bench presses the footpad
    engaged,     \* refloat_facade_footpad_state() # 0
    ran,         \* history: how long the state has been RUNNING
    grant,       \* history: the duration begin_burst was last given
    pressAge     \* history: how long a press has been a real one

driverVars == <<phase, registered, cleanReset, step, sinceRun, lineAge, ahead,
                simActive, engaged>>
historyVars == <<ran, grant, pressAge>>
taskVars == <<supVars, driverVars, historyVars>>

Phases == {"storage", "refloat", "platform", "config", "watchdog", "footpad",
           "service", "halted"}

\* Mutant: the press is reported before the flag that explains it.
AfterPressFirst ==
    [permit |-> "watchdog", watchdog |-> "footpad", footpad |-> "simulated",
     simulated |-> "calibration", calibration |-> "poll", poll |-> "idle"]

\* The calls of one iteration, each with the call that follows it.
After == [permit |-> "watchdog", watchdog |-> "simulated", simulated |-> "footpad",
          footpad |-> "calibration", calibration |-> "poll", poll |-> "idle"]

RealPress == engaged /\ ~simActive

TaskTypeOK ==
    /\ TypeOK
    /\ phase \in Phases /\ step \in DOMAIN After \cup {"idle"}
    /\ registered \in BOOLEAN /\ cleanReset \in BOOLEAN
    /\ sinceRun \in 0 .. PollPeriod /\ lineAge \in Never .. AgeCap /\ ahead \in BOOLEAN
    /\ simActive \in BOOLEAN /\ engaged \in BOOLEAN
    /\ ran \in 0 .. HistoryCap /\ grant \in 0 .. BurstMax /\ pressAge \in 0 .. HistoryCap

TaskInit ==
    /\ SupInit
    /\ phase = "storage" /\ step = "idle" /\ sinceRun = 0 /\ lineAge = Never /\ ahead = FALSE
    /\ registered \in BOOLEAN /\ cleanReset \in BOOLEAN
    /\ simActive = FALSE /\ engaged \in BOOLEAN
    /\ ran = 0 /\ grant = 0 /\ pressAge = 0

\* What the histories become in a step that takes no time.
Instant ==
    /\ ran' = IF state' = "RUNNING" THEN ran ELSE 0
    /\ pressAge' = IF RealPress' THEN pressAge ELSE 0

-----------------------------------------------------------------------------
(* app_main.                                                               *)

Boot(next) ==
    /\ phase' = next
    /\ UNCHANGED <<registered, cleanReset, step, sinceRun, lineAge, ahead, simActive,
                   engaged, grant>>

\* Without storage the boot stops before the self-test has begun.
BootStorage ==
    /\ phase = "storage"
    /\ \/ BeginSelfTest /\ Boot("refloat")
       \/ UNCHANGED supVars /\ Boot("halted")

\* Refloat does not start: the boot stops in FAULT, with no task and no console.
BootRefloat ==
    /\ phase = "refloat"
    /\ \/ SelfTestResult(FALSE) /\ Boot("halted")
       \/ SelfTestResult(registered) /\ Boot("platform")

BootPlatform == phase = "platform" /\ ReportPlatformReady /\ Boot("config")
BootConfig   == phase = "config" /\ ReportConfigValid(registered) /\ Boot("watchdog")
BootWatchdog == phase = "watchdog" /\ ReportWatchdog(TRUE) /\ Boot("footpad")
BootFootpad  == phase = "footpad" /\ ReportFootpad(engaged) /\ Boot("service")

AppMain ==
    /\ \/ BootStorage \/ BootRefloat \/ BootPlatform
       \/ BootConfig \/ BootWatchdog \/ BootFootpad
    /\ Instant

-----------------------------------------------------------------------------
(* The supervisor's task.                                                  *)

Wake ==
    /\ phase = "service" /\ step = "idle" /\ sinceRun = PollPeriod
    /\ step' = "permit"
    /\ sinceRun' = 0
    /\ UNCHANGED <<supVars, phase, registered, cleanReset, lineAge, ahead, simActive,
                   engaged, grant>>

Call(name) ==
    /\ step = name
    /\ step' = After[name]
    /\ ahead' = (ahead /\ step' # "idle")
    /\ UNCHANGED <<phase, registered, cleanReset, sinceRun, lineAge, simActive, engaged, grant>>

\* The policy's verdict on the age of the pipeline's last sample.  Series of bad
\* samples and a bus that does not come back can make it worse than the age does;
\* a sensor that has not been read since its start is not reported at all.
Verdicts ==
    IF lineAge > ImuTimeout THEN {"LOST"}
    ELSE IF lineAge > Fresh \/ lineAge = Never THEN {"HOLD", "LOST"} ELSE Permits

CallPermit ==
    /\ Call("permit")
    /\ \/ \E p \in Verdicts : ReportImuPermit(p)
       \/ lineAge = Never /\ UNCHANGED supVars

\* Mutant: the simulation flag is set but never taken back.
CallSimulatedLatched ==
    Call("simulated") /\ ReportFootpadSimulated(simActive \/ in.simulated)

CallWatchdog    == Call("watchdog") /\ ReportWatchdog(cleanReset)
CallSimulated   == Call("simulated") /\ ReportFootpadSimulated(simActive)
CallFootpad     == Call("footpad") /\ ReportFootpad(engaged)
CallCalibration == Call("calibration") /\ \E b \in BOOLEAN : ReportCalibrationValid(b)
CallPoll        == Call("poll") /\ ~ahead /\ Poll

\* The poll subtracts a sample's stamp from the time of the iteration without asking
\* which is later: a sample reported in between counts as stale.
CallPollBehind ==
    /\ Call("poll") /\ ahead
    /\ in' = [PolledInputs EXCEPT !.imu = FALSE]
    /\ IF state \in Operational THEN EnterFault(StaleFault)
                               ELSE UNCHANGED <<state, faults>>
    /\ UNCHANGED <<loopAge, imuAge, burst, lastPermit>>
    /\ Instant

Task ==
    /\ \/ Wake \/ CallPermit \/ CallWatchdog \/ CallSimulated
       \/ CallFootpad \/ CallCalibration \/ CallPoll
    /\ Instant

-----------------------------------------------------------------------------
(* The other tasks of core 1, which run between iterations.                *)

\* One accepted sample is one iteration of the loop: both reports carry its
\* time stamp.  The sensor starts before Refloat does; it may also fall silent.
LoopIteration ==
    /\ step = "idle" /\ phase # "storage"
    /\ loopAge' = 0 /\ imuAge' = 0 /\ lineAge' = 0
    /\ in' = [in EXCEPT !.loop = TRUE]
    /\ UNCHANGED <<state, faults, burst, lastPermit, phase, registered, cleanReset, step,
                   sinceRun, ahead, simActive, engaged, grant>>
    /\ Instant

\* Refloat reads the footpad: a simulated press is all it then sees.
RefloatReadsFootpad ==
    /\ step = "idle"
    /\ engaged' \in IF simActive THEN {TRUE} ELSE BOOLEAN
    /\ UNCHANGED <<supVars, phase, registered, cleanReset, step, sinceRun, lineAge, ahead,
                   simActive, grant>>
    /\ Instant

(* The sensor, from core 0: between any two calls of the iteration.        *)

\* imu-start, and the end of the stress test: the pipeline forgets that it ever had a
\* sample, the supervisor does not.
SensorRestarts ==
    /\ phase = "service"
    /\ lineAge' = Never
    /\ UNCHANGED <<supVars, phase, registered, cleanReset, step, sinceRun, ahead, simActive,
                   engaged, grant>>
    /\ Instant

\* The stress test reads in place of the loop: the supervisor is told of the sample,
\* the pipeline is not, and the loop does not turn.
StressSample ==
    /\ phase = "service"
    /\ ReportImuSample(0)
    /\ ahead' = (step # "idle")
    /\ UNCHANGED <<phase, registered, cleanReset, step, sinceRun, lineAge, simActive, engaged,
                   grant>>
    /\ Instant

(* The console.                                                            *)

AskReady  == RequestReady /\ UNCHANGED grant
AskArmed  == RequestClosedLoopReady /\ UNCHANGED grant
AskBurst  == \E d \in 0 .. BurstMax + 1, lag \in 0 .. SampleLag :
                 BeginBurst(d, lag) /\ grant' = d
AskDisarm == Disarm /\ UNCHANGED grant
AskClear  == ClearFault /\ UNCHANGED grant

Operator ==
    /\ phase = "service"
    /\ AskReady \/ AskArmed \/ AskBurst \/ AskDisarm \/ AskClear
    /\ UNCHANGED driverVars
    /\ Instant

SimulateFootpad ==
    /\ phase = "service"
    /\ simActive' \in BOOLEAN
    /\ UNCHANGED <<supVars, phase, registered, cleanReset, step, sinceRun, lineAge, ahead, engaged,
                   grant>>
    /\ Instant

(* Time.                                                                   *)

Later(n) == IF n < HistoryCap THEN n + 1 ELSE n

TimePasses ==
    /\ step = "idle"
    /\ phase = "service" => sinceRun < PollPeriod
    /\ Tick
    /\ sinceRun' = IF phase = "service" THEN sinceRun + 1 ELSE 0
    /\ lineAge' = Older(lineAge)
    /\ ran' = IF state = "RUNNING" THEN Later(ran) ELSE 0
    /\ pressAge' = IF RealPress THEN Later(pressAge) ELSE 0
    /\ UNCHANGED <<phase, registered, cleanReset, step, ahead, simActive, engaged, grant>>

TaskNext == AppMain \/ Task \/ CallPollBehind \/ LoopIteration \/ RefloatReadsFootpad
                \/ SensorRestarts \/ StressSample \/ Operator \/ SimulateFootpad \/ TimePasses

TaskSpec == TaskInit /\ [][TaskNext]_taskVars

-----------------------------------------------------------------------------
(* Properties.                                                             *)

Engageable == {"READY", "ARMED", "RUNNING"}

\* A machine that has left DISARMED never serves on a loop, or on samples, that have been
\* silent for longer than their time-out and one period of the task.  The last sample of
\* the loop is stale for no longer than one period: only a restart of the sensor, of
\* which the policy makes nothing, leaves it to the time-out.
SilenceBounded ==
    state \in Engageable => /\ loopAge <= LoopTimeout + PollPeriod
                            /\ imuAge <= ImuTimeout + PollPeriod
                            /\ lineAge <= Fresh + PollPeriod

\* The supervisor alone ends a burst less than one period past its duration.
OverrunBounded == state = "RUNNING" => ran < grant + PollPeriod

\* A real press of the footpad is out of READY, ARMED and RUNNING within one
\* period, also when it began behind a simulated one.
PressBounded == state \in Engageable /\ RealPress => pressAge <= PollPeriod

\* Nothing but a passed self-test on a registered configuration leads into
\* service, and a watchdog reset keeps the machine out of it.
ServiceAfterBoot ==
    /\ state \in Operational => registered /\ phase \notin {"storage", "refloat", "halted"}
    /\ state \in Engageable => phase = "service" /\ cleanReset

\* Between iterations the conditions of the state hold in the inputs.
ConditionsAtRest ==
    step = "idle" => ~LostConditions(state, in)
=============================================================================
