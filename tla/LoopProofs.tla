------------------------------ MODULE LoopProofs ------------------------------
(***************************************************************************)
(* What is proved of the supervisor as the firmware drives it, and of a    *)
(* burst of the closed loop, for every period of the task, every length of *)
(* the settling and of the tail, every flight of a request and every       *)
(* time-out of the ESCs; and of the motion sensor in front of the          *)
(* supervisor, for every policy and every limit of its series.             *)
(*                                                                         *)
(* TaskInv, of SupervisorTask:                                             *)
(*   BootInv     what each phase of the boot has reached;                  *)
(*   ResetInv    after a watchdog reset the machine stays out of service;  *)
(*   AgesInv     how old the ages behind the inputs are, step by step;     *)
(*   PressInv    a real press is in the inputs within a period;            *)
(*   BurstInv    run time and remaining time make up the grant.            *)
(*                                                                         *)
(* ClInv, of ClosedLoop:                                                   *)
(*   OpenInv     where in the procedure the gate may be open and the       *)
(*               supervisor may run;                                       *)
(*   DeadlineInv the gate's deadline is start + ms, and the supervisor's;  *)
(*   LateInv     a request under way is as old as the deadline is past,    *)
(*               and a wheel as quiet, up to one flight;                   *)
(*   SettleInv   what an iteration of the task, at whatever call it is,    *)
(*               has made of the inputs while the console waits;           *)
(*   PressedInv  from the press on the flag explains it.                   *)
(*                                                                         *)
(* ChainInv, of SensorChain, is TaskInv and:                               *)
(*   ReadInv     what the series know of the words the loop read last;     *)
(*   IllInv      a verdict worse than OK is in the inputs within a period; *)
(*   ServedInv   data are as old as the acceptances that prolonged them.   *)
(***************************************************************************)
EXTENDS TwoOrigins, SupervisorProofs, SensorChain

-----------------------------------------------------------------------------
(* The supervisor as the firmware drives it.                               *)

Names == DOMAIN After

DriverType ==
    /\ phase \in Phases /\ step \in Names \cup {"idle"}
    /\ registered \in BOOLEAN /\ cleanReset \in BOOLEAN
    /\ sinceRun \in 0 .. PollPeriod /\ lineAge \in Never .. AgeCap /\ ahead \in BOOLEAN
    /\ simActive \in BOOLEAN /\ engaged \in BOOLEAN
    /\ ran \in 0 .. HistoryCap /\ grant \in 0 .. BurstMax /\ pressAge \in 0 .. HistoryCap

\* What each phase of the boot has reached.
BootInv ==
    /\ phase = "storage" => state = "BOOT"
    /\ phase = "refloat" => state = "SELF_TEST"
    /\ phase = "halted" => state \in {"BOOT", "FAULT"}
    /\ phase \notin {"storage", "refloat", "halted"} =>
          /\ state \in Operational \cup {"FAULT"}
          /\ registered \/ SelfTestFault \in faults
    /\ step # "idle" => phase = "service"
    /\ phase # "service" =>
          sinceRun = 0 /\ ~in.imu /\ ~in.calibration /\ state \notin Engageable
    /\ step # "idle" => sinceRun = 0

\* A watchdog reset is reported before the calibration is.
ResetInv ==
    /\ ~cleanReset /\ in.calibration => ~in.watchdog
    /\ ~cleanReset /\ step \in {"simulated", "footpad", "calibration", "poll"} => ~in.watchdog
    /\ ~cleanReset => state \notin Engageable

\* How long ago the task took a verdict of the policy, and how long ago it polled, at most.
Slack == IF step = "idle" THEN sinceRun ELSE IF step = "permit" THEN PollPeriod ELSE 0

PollSlack == IF step = "idle" THEN sinceRun ELSE PollPeriod

\* Without a restart the three ages are one; the stress test makes imuAge the least,
\* a restart forgets lineAge.
AgesInv ==
    /\ lineAge # Never => lineAge = loopAge
    /\ loopAge # Never => imuAge <= loopAge
    /\ in.imu => /\ lineAge <= Fresh + Slack
                 /\ imuAge <= ImuTimeout + PollSlack
                 /\ in.loop => loopAge <= LoopTimeout + PollSlack
    /\ step \in {"idle", "permit"} => ~LostConditions(state, in)
    /\ SilenceBounded

PressSlack ==
    IF step = "idle" THEN sinceRun ELSE IF step \in {"calibration", "poll"} THEN 0 ELSE PollPeriod

PressInv ==
    /\ ~RealPress => pressAge = 0
    /\ step = "footpad" /\ pressAge > 0 => ~in.simulated
    /\ phase = "service" /\ pressAge > PressSlack => in.footpad /\ state \notin Engageable

BurstInv ==
    /\ state # "RUNNING" => ran = 0
    /\ state = "RUNNING" =>
          /\ grant >= 1 /\ ran <= (grant - 1) + PollSlack
          /\ burst > 0 => ran + burst <= grant

TaskInv ==
    /\ SupInv /\ DriverType /\ BootInv
    /\ ResetInv /\ AgesInv /\ PressInv /\ BurstInv

-----------------------------------------------------------------------------
LEMMA AfterNames ==
    /\ Names = {"permit", "watchdog", "simulated", "footpad", "calibration", "poll"}
    /\ After["permit"] = "watchdog" /\ After["watchdog"] = "simulated"
    /\ After["simulated"] = "footpad" /\ After["footpad"] = "calibration"
    /\ After["calibration"] = "poll" /\ After["poll"] = "idle"
  BY DEF Names, After

LEMMA InitTask == TaskInit => TaskInv
<1> SUFFICES ASSUME TaskInit PROVE TaskInv
  OBVIOUS
<1>1. SupInv
  BY InitInv DEF TaskInit
<1>2. DriverType
  <2>1. registered \in BOOLEAN /\ cleanReset \in BOOLEAN /\ engaged \in BOOLEAN
    BY DEF TaskInit
  <2>2. /\ phase \in Phases /\ step \in Names \cup {"idle"}
        /\ simActive \in BOOLEAN /\ ahead \in BOOLEAN
    BY DEF TaskInit, Phases
  <2>3. /\ sinceRun \in 0 .. PollPeriod /\ ran \in 0 .. HistoryCap /\ grant \in 0 .. BurstMax
        /\ pressAge \in 0 .. HistoryCap /\ lineAge \in Never .. AgeCap
    BY TimesAssumption, TaskAssumption DEF TaskInit, Never
  <2> QED
    BY <2>1, <2>2, <2>3 DEF DriverType
<1>3. BootInv /\ ResetInv
  BY DEF TaskInit, SupInit, BootInv, ResetInv, Engageable
<1>4. AgesInv
  BY TaskAssumption DEF TaskInit, SupInit, AgesInv, LostConditions, Engageable, SilenceBounded
<1>5. PressInv /\ BurstInv
  BY TaskAssumption DEF TaskInit, SupInit, PressInv, BurstInv, PressSlack
<1> QED
  BY <1>1, <1>2, <1>3, <1>4, <1>5 DEF TaskInv

\* A restart of the sensor and a sample of the stress test touch the ages alone.
LEMMA SensorFrame ==
    ASSUME SensorRestarts \/ StressSample
    PROVE  /\ UNCHANGED <<state, faults, in, loopAge, burst, lastPermit>>
           /\ UNCHANGED <<phase, registered, cleanReset, step, sinceRun, simActive, engaged, grant>>
           /\ Instant
           /\ \/ lineAge' = Never /\ UNCHANGED <<imuAge, ahead>>
              \/ imuAge' = 0 /\ UNCHANGED lineAge /\ ahead' = (step # "idle")
  BY DEF SensorRestarts, StressSample, ReportImuSample, supVars

\* A poll that a sample is ahead of ends in FAULT, whatever the sample says.
LEMMA BehindFrame ==
    ASSUME SupInv, BootInv, CallPollBehind
    PROVE  /\ step = "poll" /\ step' = "idle" /\ phase = "service" /\ sinceRun = 0
           /\ ahead' = FALSE
           /\ UNCHANGED <<phase, registered, cleanReset, sinceRun, lineAge, simActive, engaged, grant,
                          loopAge, imuAge, burst, lastPermit>>
           /\ Instant
           /\ in' \in Inputs /\ in'.imu = FALSE
           /\ in'.watchdog = in.watchdog /\ in'.footpad = in.footpad
           /\ in'.calibration = in.calibration
           /\ state' = "FAULT" /\ faults \subseteq faults'
           /\ SupInv'
<1>1. /\ step = "poll" /\ step' = "idle"
      /\ UNCHANGED <<phase, registered, cleanReset, sinceRun, lineAge, simActive, engaged, grant,
                     loopAge, imuAge, burst, lastPermit>>
      /\ Instant
  BY AfterNames DEF CallPollBehind, Call
<1>2. ahead' = FALSE
  BY <1>1 DEF CallPollBehind, Call
<1>3. phase = "service" /\ sinceRun = 0 /\ state \in Operational \cup {"FAULT"}
  BY <1>1 DEF BootInv
<1>4. /\ in' \in Inputs /\ in'.imu = FALSE
      /\ in'.watchdog = in.watchdog /\ in'.footpad = in.footpad
      /\ in'.calibration = in.calibration
  BY DEF CallPollBehind, PolledInputs, SupInv, TypeOK, Inputs
<1>5. state' = "FAULT" /\ faults \subseteq faults'
  BY <1>3 DEF CallPollBehind, EnterFault, Operational
<1>6. SupInv'
  <2>1. StaleFault # {} /\ StaleFault \in SUBSET Faults
    BY DEF StaleFault, Faults
  <2>2. faults' # {} /\ faults' \in SUBSET Faults
    BY <1>3, <2>1 DEF CallPollBehind, EnterFault, SupInv, TypeOK, FaultIffCause, Operational
  <2> QED
    BY <1>1, <1>4, <1>5, <2>2 DEF SupInv, TypeOK, FaultIffCause, RunningHasDeadline, States
<1> QED
  BY <1>1, <1>2, <1>3, <1>4, <1>5, <1>6

LEMMA LoopSup ==
    ASSUME SupInv, LoopIteration
    PROVE  SupInv'
<1>1. in' \in Inputs
  BY InputsType DEF SupInv, TypeOK, LoopIteration
<1>2. 0 \in Never .. AgeCap
  BY TimesAssumption DEF Never
<1> QED
  BY <1>1, <1>2 DEF LoopIteration, SupInv, TypeOK, FaultIffCause, RunningHasDeadline

\* The steps are calls of the supervisor, but for the two reports of the loop at once.
LEMMA TaskSupInv ==
    ASSUME TaskInv, TaskNext
    PROVE  SupInv'
<1>0. SupInv
  BY DEF TaskInv
<1>1. CASE SupNext \/ UNCHANGED supVars
  BY <1>0, <1>1, NextInv
<1>2. CASE LoopIteration
  BY <1>0, <1>2, LoopSup
<1>3. CASE AppMain
  <2>1. registered \in BOOLEAN /\ engaged \in BOOLEAN
    BY DEF TaskInv, DriverType
  <2>2. CASE BootStorage
    BY <1>1, <2>2 DEF BootStorage, SupNext, BootCall
  <2>3. CASE BootRefloat
    BY <1>1, <2>1, <2>3 DEF BootRefloat, SupNext, BootCall
  <2>4. CASE BootPlatform \/ BootConfig
    BY <1>1, <2>1, <2>4 DEF BootPlatform, BootConfig, SupNext, BootCall
  <2>5. CASE BootWatchdog \/ BootFootpad
    BY <1>1, <2>1, <2>5 DEF BootWatchdog, BootFootpad, SupNext, TaskCall
  <2> QED
    BY <1>3, <2>2, <2>3, <2>4, <2>5 DEF AppMain
<1>4. CASE Task
  <2>1. cleanReset \in BOOLEAN /\ engaged \in BOOLEAN /\ simActive \in BOOLEAN
    BY DEF TaskInv, DriverType
  <2>2. CASE Wake
    BY <1>1, <2>2 DEF Wake
  <2>3. CASE CallPermit
    <3>1. Verdicts \subseteq Permits
      BY DEF Verdicts, Permits
    <3> QED
      BY <1>1, <2>3, <3>1 DEF CallPermit, SupNext, TaskCall
  <2>4. CASE CallWatchdog \/ CallSimulated \/ CallFootpad \/ CallCalibration
    BY <1>1, <2>1, <2>4
    DEF CallWatchdog, CallSimulated, CallFootpad, CallCalibration, SupNext, TaskCall
  <2>5. CASE CallPoll
    BY <1>1, <2>5 DEF CallPoll, SupNext
  <2> QED
    BY <1>4, <2>2, <2>3, <2>4, <2>5 DEF Task
<1>5. CASE Operator
  <2>1. CASE AskReady \/ AskArmed \/ AskDisarm \/ AskClear
    BY <1>1, <2>1 DEF AskReady, AskArmed, AskDisarm, AskClear, SupNext, OperatorCall
  <2>2. CASE AskBurst
    BY <1>1, <2>2 DEF AskBurst, SupNext, OperatorCall
  <2> QED
    BY <1>5, <2>1, <2>2 DEF Operator
<1>6. CASE RefloatReadsFootpad \/ SimulateFootpad
  BY <1>1, <1>6 DEF RefloatReadsFootpad, SimulateFootpad
<1>7. CASE TimePasses
  BY <1>1, <1>7 DEF TimePasses, SupNext
<1>8. CASE SensorRestarts \/ StressSample
  <2>1. imuAge' \in Never .. AgeCap
    BY <1>0, <1>8, SensorFrame, TimesAssumption DEF SupInv, TypeOK, Never
  <2> QED
    BY <1>0, <1>8, <2>1, SensorFrame DEF SupInv, TypeOK, FaultIffCause, RunningHasDeadline
<1>9. CASE CallPollBehind
  BY <1>9, BehindFrame DEF TaskInv
<1> QED
  BY <1>2, <1>3, <1>4, <1>5, <1>6, <1>7, <1>8, <1>9 DEF TaskNext

LEMMA TaskDriverType ==
    ASSUME DriverType, TaskNext
    PROVE  DriverType'
<1>0. /\ PollPeriod \in Nat /\ HistoryCap \in Nat /\ BurstMax \in Nat
      /\ 0 \in 0 .. HistoryCap /\ 0 \in 0 .. PollPeriod
  BY TimesAssumption, TaskAssumption
<1>1. ASSUME Instant
      PROVE  ran' \in 0 .. HistoryCap /\ pressAge' \in 0 .. HistoryCap
  BY <1>0, <1>1 DEF Instant, DriverType
<1>2. CASE AppMain
  <2>1. phase' \in Phases
    BY <1>2 DEF AppMain, BootStorage, BootRefloat, BootPlatform, BootConfig, BootWatchdog,
                BootFootpad, Boot, Phases
  <2>2. UNCHANGED <<registered, cleanReset, step, sinceRun, lineAge, ahead, simActive, engaged, grant>>
    BY <1>2 DEF AppMain, BootStorage, BootRefloat, BootPlatform, BootConfig, BootWatchdog,
                BootFootpad, Boot
  <2> QED
    BY <1>0, <1>1, <1>2, <2>1, <2>2 DEF AppMain, DriverType
<1>3. CASE Task
  <2>1. step' \in Names \cup {"idle"} /\ sinceRun' \in 0 .. PollPeriod
    BY <1>0, <1>3, AfterNames
    DEF Task, Wake, CallPermit, CallWatchdog, CallSimulated, CallFootpad, CallCalibration,
        CallPoll, Call, DriverType
  <2>2. /\ UNCHANGED <<phase, registered, cleanReset, lineAge, simActive, engaged, grant>>
        /\ ahead' = ahead \/ ahead' = (ahead /\ step' # "idle")
    BY <1>3 DEF Task, Wake, CallPermit, CallWatchdog, CallSimulated, CallFootpad,
                CallCalibration, CallPoll, Call
  <2>3. ahead' \in BOOLEAN
    BY <1>0, <2>2 DEF DriverType
  <2> QED
    BY <1>0, <1>1, <1>3, <2>1, <2>2, <2>3 DEF Task, DriverType
<1>4. CASE LoopIteration
  <2>1. lineAge' \in Never .. AgeCap
    BY <1>4, TimesAssumption DEF LoopIteration, Never
  <2> QED
    BY <1>0, <1>1, <1>4, <2>1 DEF LoopIteration, DriverType
<1>5. CASE RefloatReadsFootpad
  <2>1. engaged' \in BOOLEAN
    BY <1>5 DEF RefloatReadsFootpad
  <2> QED
    BY <1>0, <1>1, <1>5, <2>1 DEF RefloatReadsFootpad, DriverType
<1>6. CASE Operator
  <2>1. grant' \in 0 .. BurstMax
    BY <1>0, <1>6 DEF Operator, AskReady, AskArmed, AskBurst, AskDisarm, AskClear, BeginBurst, DriverType
  <2> QED
    BY <1>0, <1>1, <1>6, <2>1 DEF Operator, driverVars, DriverType
<1>7. CASE SimulateFootpad
  <2>1. simActive' \in BOOLEAN
    BY <1>7 DEF SimulateFootpad
  <2> QED
    BY <1>0, <1>1, <1>7, <2>1 DEF SimulateFootpad, DriverType
<1>8. CASE TimePasses
  <2>1. ran' \in 0 .. HistoryCap /\ pressAge' \in 0 .. HistoryCap
    BY <1>0, <1>8 DEF TimePasses, Later, DriverType
  <2>2. sinceRun' \in 0 .. PollPeriod
    BY <1>0, <1>8 DEF TimePasses, DriverType
  <2>3. lineAge' \in Never .. AgeCap
    BY <1>0, <1>8, TimesAssumption DEF TimePasses, DriverType, Older, Never
  <2> QED
    BY <1>0, <1>8, <2>1, <2>2, <2>3 DEF TimePasses, DriverType
<1>9. CASE SensorRestarts \/ StressSample
  <2>1. lineAge' \in Never .. AgeCap
    BY <1>9, SensorFrame, TimesAssumption DEF DriverType, Never
  <2>2. ahead' \in BOOLEAN
    BY <1>9, SensorFrame DEF DriverType
  <2> QED
    BY <1>1, <1>9, <2>1, <2>2, SensorFrame DEF DriverType
<1>10. CASE CallPollBehind
  <2>1. /\ step' \in Names \cup {"idle"} /\ Instant
        /\ UNCHANGED <<phase, registered, cleanReset, sinceRun, lineAge, simActive, engaged, grant>>
    BY <1>10, AfterNames DEF CallPollBehind, Call
  <2>2. ahead' \in BOOLEAN
    BY <1>10 DEF CallPollBehind, Call
  <2> QED
    BY <1>1, <2>1, <2>2 DEF DriverType
<1> QED
  BY <1>2, <1>3, <1>4, <1>5, <1>6, <1>7, <1>8, <1>9, <1>10 DEF TaskNext

\* The task's calls, by name.
LEMMA TaskCalls ==
    ASSUME Task
    PROVE  \/ Wake
           \/ step = "permit" /\ step' = "watchdog" /\ CallPermit
           \/ step = "watchdog" /\ step' = "simulated" /\ CallWatchdog
           \/ step = "simulated" /\ step' = "footpad" /\ CallSimulated
           \/ step = "footpad" /\ step' = "calibration" /\ CallFootpad
           \/ step = "calibration" /\ step' = "poll" /\ CallCalibration
           \/ step = "poll" /\ step' = "idle" /\ CallPoll
  BY AfterNames
  DEF Task, CallPermit, CallWatchdog, CallSimulated, CallFootpad, CallCalibration, CallPoll, Call

LEMMA TaskBootInv ==
    ASSUME TaskInv, TaskNext
    PROVE  BootInv'
<1> USE DEF BootInv, Engageable, Operational
<1>0. BootInv /\ SupInv
  BY DEF TaskInv
<1>1. CASE AppMain
  <2>0. /\ UNCHANGED <<registered, step, sinceRun>> /\ phase # "service"
        /\ step = "idle" /\ sinceRun = 0 /\ ~in.imu /\ ~in.calibration /\ in \in Inputs
    BY <1>0, <1>1 DEF AppMain, BootStorage, BootRefloat, BootPlatform, BootConfig, BootWatchdog,
                      BootFootpad, Boot, SupInv, TypeOK
  <2>1. CASE BootStorage
    BY <1>0, <2>0, <2>1 DEF BootStorage, Boot, BeginSelfTest, supVars
  <2>2. CASE BootRefloat
    BY <1>0, <2>0, <2>2 DEF BootRefloat, Boot, SelfTestResult, EnterFault
  <2>3. CASE BootPlatform
    BY <1>0, <2>0, <2>3 DEF BootPlatform, Boot, ReportPlatformReady, Inputs
  <2>4. CASE BootConfig
    BY <1>0, <2>0, <2>4 DEF BootConfig, Boot, ReportConfigValid, EnterFault, Inputs
  <2>5. CASE BootWatchdog
    BY <1>0, <2>0, <2>5 DEF BootWatchdog, Boot, ReportWatchdog, Inputs
  <2>6. CASE BootFootpad
    BY <1>0, <2>0, <2>6 DEF BootFootpad, Boot, ReportFootpad, Inputs
  <2> QED
    BY <1>1, <2>1, <2>2, <2>3, <2>4, <2>5, <2>6 DEF AppMain
<1>2. CASE Task
  <2>1. /\ phase = "service" /\ UNCHANGED <<phase, registered>> /\ sinceRun' = 0
    BY <1>0, <1>2, TaskCalls DEF Wake, CallPermit, CallWatchdog, CallSimulated, CallFootpad, CallCalibration,
                                 CallPoll, Call
  <2>2. /\ state' \in Operational \cup {"FAULT"}
        /\ faults \subseteq faults'
    BY <1>0, <1>2, <2>1
    DEF Task, Wake, CallPermit, CallWatchdog, CallSimulated, CallFootpad, CallCalibration,
        CallPoll, ReportImuPermit, ReportWatchdog, ReportFootpadSimulated, ReportFootpad,
        ReportCalibrationValid, Poll, EnterFault, supVars
  <2> QED
    BY <1>0, <2>1, <2>2
<1>3. CASE LoopIteration
  BY <1>0, <1>3 DEF LoopIteration, SupInv, TypeOK, Inputs
<1>4. CASE RefloatReadsFootpad \/ SimulateFootpad \/ SensorRestarts \/ StressSample
  BY <1>0, <1>4, SensorFrame DEF RefloatReadsFootpad, SimulateFootpad, supVars
<1>5. CASE Operator
  <2>1. phase = "service" /\ UNCHANGED driverVars
    BY <1>5 DEF Operator
  <2>2. CASE AskReady \/ AskArmed \/ AskBurst \/ AskDisarm
    BY <1>0, <2>1, <2>2 DEF AskReady, AskArmed, AskBurst, AskDisarm, RequestReady,
                            RequestClosedLoopReady, BeginBurst, Disarm, driverVars
  <2>3. CASE AskClear
    <3>1. SelfTestFault \in faults => SelfTestFault \in faults'
      BY <2>3 DEF AskClear, ClearFault, StillFaulty, StickyFaults
    <3>2. state' \in Operational \cup {"FAULT"}
      BY <2>3 DEF AskClear, ClearFault
    <3> QED
      BY <1>0, <2>1, <3>1, <3>2 DEF driverVars
  <2> QED
    BY <1>5, <2>2, <2>3 DEF Operator
<1>6. CASE TimePasses
  BY <1>0, <1>6 DEF TimePasses, Tick
<1>7. CASE CallPollBehind
  BY <1>0, <1>7, BehindFrame
<1> QED
  BY <1>1, <1>2, <1>3, <1>4, <1>5, <1>6, <1>7 DEF TaskNext

LEMMA TaskResetInv ==
    ASSUME TaskInv, TaskNext
    PROVE  ResetInv'
<1> USE DEF ResetInv
<1>0. ResetInv /\ BootInv /\ in \in Inputs
  BY DEF TaskInv, SupInv, TypeOK
<1>1. CASE AppMain
  <2>1. phase # "service" /\ UNCHANGED <<step, cleanReset>>
    BY <1>1 DEF AppMain, BootStorage, BootRefloat, BootPlatform, BootConfig, BootWatchdog,
                BootFootpad, Boot
  <2>2. ~in.calibration /\ state \notin Engageable /\ step = "idle"
    BY <1>0, <2>1 DEF BootInv
  <2>3. ~in'.calibration
    BY <1>0, <1>1, <2>2
    DEF AppMain, BootStorage, BootRefloat, BootPlatform, BootConfig, BootWatchdog,
        BootFootpad, BeginSelfTest, SelfTestResult, ReportPlatformReady, ReportConfigValid,
        ReportWatchdog, ReportFootpad, supVars, Inputs
  <2>4. state' \notin Engageable
    BY <1>1, <2>2
    DEF AppMain, BootStorage, BootRefloat, BootPlatform, BootConfig, BootWatchdog,
        BootFootpad, BeginSelfTest, SelfTestResult, ReportPlatformReady, ReportConfigValid,
        ReportWatchdog, ReportFootpad, supVars, EnterFault, Engageable
  <2> QED
    BY <2>1, <2>2, <2>3, <2>4
<1>2. CASE Task
  <2> SUFFICES ASSUME ~cleanReset PROVE ResetInv'
    BY <1>2, TaskCalls DEF Wake, CallPermit, CallWatchdog, CallSimulated, CallFootpad, CallCalibration,
                           CallPoll, Call
  <2>1. CASE Wake
    BY <1>0, <2>1 DEF Wake, supVars
  <2>2. CASE step = "permit" /\ step' = "watchdog" /\ CallPermit
    BY <1>0, <2>2 DEF CallPermit, ReportImuPermit, EnterFault, Engageable, Inputs, supVars
  <2>3. CASE step = "watchdog" /\ step' = "simulated" /\ CallWatchdog
    BY <1>0, <2>3 DEF CallWatchdog, ReportWatchdog, EnterFault, Engageable, Inputs
  <2>4. CASE step = "simulated" /\ step' = "footpad" /\ CallSimulated
    BY <1>0, <2>4 DEF CallSimulated, ReportFootpadSimulated, Inputs
  <2>5. CASE step = "footpad" /\ step' = "calibration" /\ CallFootpad
    BY <1>0, <2>5 DEF CallFootpad, ReportFootpad, Engageable, Inputs
  <2>6. CASE step = "calibration" /\ step' = "poll" /\ CallCalibration
    BY <1>0, <2>6 DEF CallCalibration, ReportCalibrationValid, Engageable, Inputs
  <2>7. CASE step = "poll" /\ step' = "idle" /\ CallPoll
    BY <1>0, <2>7 DEF CallPoll, Poll, PolledInputs, EnterFault, Engageable, Inputs
  <2> QED
    BY <1>2, <2>1, <2>2, <2>3, <2>4, <2>5, <2>6, <2>7, TaskCalls
<1>3. CASE LoopIteration
  BY <1>0, <1>3 DEF LoopIteration, Inputs
<1>4. CASE RefloatReadsFootpad \/ SimulateFootpad \/ SensorRestarts \/ StressSample
  BY <1>0, <1>4, SensorFrame DEF RefloatReadsFootpad, SimulateFootpad, supVars
<1>5. CASE Operator
  <2>1. UNCHANGED driverVars /\ in' = in
    BY <1>5 DEF Operator, AskReady, AskArmed, AskBurst, AskDisarm, AskClear, RequestReady,
                RequestClosedLoopReady, BeginBurst, Disarm, ClearFault
  <2>2. ~cleanReset => state' \notin Engageable
    BY <1>0, <1>5
    DEF Operator, AskReady, AskArmed, AskBurst, AskDisarm, AskClear, RequestReady,
        RequestClosedLoopReady, BeginBurst, Disarm, ClearFault, Engageable,
        ReadyConditionsMet, BaseConditionsMet
  <2> QED
    BY <1>0, <2>1, <2>2 DEF driverVars
<1>6. CASE TimePasses
  BY <1>0, <1>6 DEF TimePasses, Tick
<1>7. CASE CallPollBehind
  BY <1>0, <1>7, BehindFrame DEF TaskInv, Engageable
<1> QED
  BY <1>1, <1>2, <1>3, <1>4, <1>5, <1>6, <1>7 DEF TaskNext

\* Time passes only between two iterations.
LEMMA TimeFacts ==
    ASSUME TaskInv, TimePasses
    PROVE  /\ step = "idle" /\ step' = "idle"
           /\ phase = "service" => sinceRun' = sinceRun + 1 /\ sinceRun < PollPeriod
           /\ phase # "service" => sinceRun' = 0
           /\ sinceRun \in Nat /\ PollPeriod \in Nat
           /\ UNCHANGED <<state, in, phase, grant, engaged, simActive>>
  BY TaskAssumption DEF TimePasses, Tick, TaskInv, DriverType

\* What the ages, the inputs and the two slacks are of.
LEMMA AgesTypes ==
    ASSUME TaskInv
    PROVE  /\ in \in Inputs /\ loopAge \in Never .. AgeCap /\ imuAge \in Never .. AgeCap
           /\ lineAge \in Never .. AgeCap /\ sinceRun \in 0 .. PollPeriod
           /\ PollPeriod \in Nat /\ Fresh \in Nat /\ AgeCap \in Nat
           /\ ImuTimeout \in Nat /\ LoopTimeout \in Nat
           /\ Fresh < ImuTimeout /\ Fresh <= LoopTimeout
           /\ Slack \in 0 .. PollPeriod /\ PollSlack \in 0 .. PollPeriod
  BY TimesAssumption, TaskAssumption DEF TaskInv, SupInv, TypeOK, DriverType, Slack, PollSlack

\* The conditions of a state that may be engaged.
LEMMA ConditionsOfEngageable ==
    ASSUME state \in Engageable, ~LostConditions(state, in)
    PROVE  in.imu /\ in.loop
<1>1. state = "READY" => ReadyConditionsMet(in)
  BY DEF LostConditions
<1>2. state \in {"ARMED", "RUNNING"} => ArmedConditionsMet(in)
  BY DEF LostConditions
<1> QED
  BY <1>1, <1>2 DEF ReadyConditionsMet, ArmedConditionsMet, BaseConditionsMet, Engageable

\* The ages in a step that does not touch them.
LEMMA AgesKept ==
    ASSUME TaskInv, UNCHANGED <<loopAge, imuAge, lineAge>>,
           in'.imu => in.imu /\ Slack' = Slack /\ PollSlack' = PollSlack,
           in'.imu /\ in'.loop => in.loop,
           step' \in {"idle", "permit"} => ~LostConditions(state', in'),
           state' \in Engageable => SilenceBounded /\ state \in Engageable
    PROVE  AgesInv'
<1>1. AgesInv
  BY DEF TaskInv
<1>2. SilenceBounded'
  BY DEF SilenceBounded
<1> QED
  BY <1>1, <1>2 DEF AgesInv

LEMMA TaskAgesInv ==
    ASSUME TaskInv, TaskNext
    PROVE  AgesInv'
<1> USE AgesTypes
<1>0. AgesInv /\ SilenceBounded
  BY DEF TaskInv, AgesInv
<1>1. CASE AppMain
  <2>1. UNCHANGED <<imuAge, loopAge, lineAge>> /\ phase # "service"
    BY <1>1 DEF AppMain, BootStorage, BootRefloat, BootPlatform, BootConfig, BootWatchdog,
                BootFootpad, BeginSelfTest, SelfTestResult, ReportPlatformReady, ReportConfigValid,
                ReportWatchdog, ReportFootpad, supVars, Boot
  <2>2. state \notin Engageable /\ ~in.imu
    BY <2>1 DEF TaskInv, BootInv
  <2>3. state' \notin Engageable /\ ~in'.imu
    BY <1>1, <2>2
    DEF AppMain, BootStorage, BootRefloat, BootPlatform, BootConfig, BootWatchdog,
        BootFootpad, BeginSelfTest, SelfTestResult, ReportPlatformReady, ReportConfigValid,
        ReportWatchdog, ReportFootpad, supVars, EnterFault, Engageable, Inputs
  <2> QED
    BY <1>0, <2>1, <2>3 DEF AgesInv, SilenceBounded, LostConditions, Engageable
<1>2. CASE Task
  <2>0. UNCHANGED <<imuAge, loopAge, lineAge>>
    BY <1>2 DEF Task, Wake, CallPermit, CallWatchdog, CallSimulated, CallFootpad, CallCalibration,
                CallPoll, Call, ReportImuPermit, ReportWatchdog, ReportFootpadSimulated, ReportFootpad,
                ReportCalibrationValid, Poll, supVars
  <2>1. CASE Wake
    <3>1. Slack' = Slack /\ PollSlack' = PollSlack /\ UNCHANGED <<in, state>> /\ step = "idle"
      BY <2>1 DEF Wake, supVars, Slack, PollSlack
    <3> QED
      BY <1>0, <2>0, <3>1, AgesKept DEF AgesInv
  <2>2. CASE step = "permit" /\ step' = "watchdog" /\ CallPermit
    <3>1. Slack' = 0 /\ PollSlack' = PollPeriod /\ PollSlack = PollPeriod
      BY <2>2 DEF Slack, PollSlack
    <3>2. CASE UNCHANGED supVars /\ lineAge = Never
      BY <1>0, <2>0, <2>2, <3>1, <3>2 DEF AgesInv, SilenceBounded, supVars, Never
    <3>3. ASSUME NEW p \in Verdicts, ReportImuPermit(p)
          PROVE  AgesInv'
      <4>1. in'.imu => p = "OK"
        BY <3>3 DEF ReportImuPermit, Inputs
      <4>2. p = "OK" => lineAge <= Fresh /\ lineAge # Never
        BY <3>3 DEF Verdicts
      <4>3. state' \in Engageable => state \in Engageable
        BY <3>3 DEF ReportImuPermit, EnterFault, Engageable
      <4>4. lineAge <= Fresh /\ lineAge # Never =>
                lineAge <= Fresh + 0 /\ imuAge <= ImuTimeout + PollPeriod
                    /\ loopAge <= LoopTimeout + PollPeriod
        BY <1>0 DEF AgesInv, Never
      <4>5. SilenceBounded'
        BY <1>0, <2>0, <4>3 DEF SilenceBounded
      <4> QED
        BY <1>0, <2>0, <2>2, <3>1, <4>1, <4>2, <4>4, <4>5 DEF AgesInv
    <3> QED
      BY <2>2, <3>2, <3>3 DEF CallPermit
  <2>3. CASE step \in {"watchdog", "simulated", "footpad", "calibration"} /\ step' # "idle"
    <3>1. step' # "permit" /\ Slack' = Slack /\ PollSlack' = PollSlack
          /\ in'.imu = in.imu /\ in'.loop = in.loop
          /\ (state' \in Engageable => state \in Engageable)
      BY <1>2, <2>3, TaskCalls
      DEF Slack, PollSlack, Wake, CallPermit, CallWatchdog, CallSimulated, CallFootpad,
          CallCalibration, CallPoll, ReportWatchdog, ReportFootpadSimulated, ReportFootpad,
          ReportCalibrationValid, EnterFault, Engageable, Inputs
    <3> QED
      BY <1>0, <2>0, <2>3, <3>1, AgesKept
  <2>4. CASE step = "poll" /\ step' = "idle" /\ CallPoll
    <3>1. sinceRun = 0 /\ sinceRun' = 0
      BY <2>4 DEF TaskInv, BootInv, CallPoll, Call
    <3>2. Slack = 0 /\ Slack' = 0 /\ PollSlack' = 0
      BY <2>4, <3>1 DEF Slack, PollSlack
    <3>3. /\ in'.imu => in.imu /\ imuAge <= ImuTimeout
          /\ in'.loop => loopAge <= LoopTimeout
      <4>1. in' = PolledInputs
        BY <2>4 DEF CallPoll, Poll
      <4>2. in'.imu = (in.imu /\ ~ImuStale) /\ in'.loop = (in.loop /\ ~LoopStale)
        BY <4>1 DEF PolledInputs, Inputs
      <4>3. ImuStale \/ imuAge <= ImuTimeout
        BY DEF ImuStale, Never
      <4>4. LoopStale \/ loopAge <= LoopTimeout
        BY DEF LoopStale, Never
      <4> QED
        BY <4>2, <4>3, <4>4
    <3>4. state' \in Engageable => state \in Engageable
      BY <2>4 DEF CallPoll, Poll, EnterFault, Engageable
    <3>5. ~LostConditions(state', in')
      BY <2>4 DEF CallPoll, Poll, EnterFault, LostConditions, PollDisarms
    <3>6. SilenceBounded'
      BY <1>0, <2>0, <3>4 DEF SilenceBounded
    <3>7. in'.imu => /\ lineAge <= Fresh + 0 /\ imuAge <= ImuTimeout + 0
                     /\ in'.loop => loopAge <= LoopTimeout + 0
      BY <1>0, <3>2, <3>3 DEF AgesInv, Never
    <3> QED
      BY <1>0, <2>0, <3>2, <3>5, <3>6, <3>7 DEF AgesInv
  <2> QED
    BY <1>2, <2>1, <2>2, <2>3, <2>4, TaskCalls
<1>3. CASE LoopIteration
  <2>1. state' = state /\ in'.imu = in.imu /\ UNCHANGED <<step, sinceRun>>
    BY <1>3 DEF LoopIteration, Inputs
  <2>2. ~LostConditions(state, in) => ~LostConditions(state', in')
    BY <1>3, <2>1
    DEF LoopIteration, Inputs, LostConditions, ReadyConditionsMet, ArmedConditionsMet, BaseConditionsMet
  <2>3. imuAge' = 0 /\ loopAge' = 0 /\ lineAge' = 0 /\ Slack' = Slack /\ PollSlack' = PollSlack
    BY <1>3, <2>1 DEF LoopIteration, Slack, PollSlack
  <2>4. SilenceBounded'
    BY <2>3 DEF SilenceBounded
  <2>5. 0 <= Fresh + Slack /\ 0 <= ImuTimeout + PollSlack /\ 0 <= LoopTimeout + PollSlack /\ 0 <= 0
    OBVIOUS
  <2> QED
    BY <1>0, <2>1, <2>2, <2>3, <2>4, <2>5 DEF AgesInv
<1>4. CASE RefloatReadsFootpad \/ SimulateFootpad
  <2>1. Slack' = Slack /\ PollSlack' = PollSlack /\ UNCHANGED <<state, in, step, imuAge, loopAge, lineAge>>
    BY <1>4 DEF Slack, PollSlack, RefloatReadsFootpad, SimulateFootpad, supVars
  <2> QED
    BY <1>0, <2>1, AgesKept DEF AgesInv
<1>5. CASE Operator
  <2>1. UNCHANGED <<in, imuAge, loopAge, lineAge, step, sinceRun>>
    BY <1>5 DEF Operator, AskReady, AskArmed, AskBurst, AskDisarm, AskClear, RequestReady,
                RequestClosedLoopReady, BeginBurst, Disarm, ClearFault, driverVars
  <2>2. state' \in Engageable => in.imu /\ in.loop
    BY <1>5
    DEF Operator, AskReady, AskArmed, AskBurst, AskDisarm, AskClear, RequestReady,
        RequestClosedLoopReady, BeginBurst, Disarm, ClearFault, Engageable,
        ReadyConditionsMet, ArmedConditionsMet, BaseConditionsMet
  <2>3. ~LostConditions(state', in')
    BY <1>5, <2>1
    DEF Operator, AskReady, AskArmed, AskBurst, AskDisarm, AskClear, RequestReady,
        RequestClosedLoopReady, BeginBurst, Disarm, ClearFault, LostConditions,
        ReadyConditionsMet, ArmedConditionsMet
  <2>4. Slack' = Slack /\ PollSlack' = PollSlack
    BY <2>1 DEF Slack, PollSlack
  <2>5. in.imu /\ in.loop => /\ loopAge <= LoopTimeout + PollPeriod
                             /\ imuAge <= ImuTimeout + PollPeriod /\ lineAge <= Fresh + PollPeriod
    BY <1>0 DEF AgesInv, Never
  <2>6. SilenceBounded'
    BY <2>1, <2>2, <2>5 DEF SilenceBounded
  <2> QED
    BY <1>0, <2>1, <2>3, <2>4, <2>6 DEF AgesInv
<1>6. CASE TimePasses
  <2>1. imuAge' = Older(imuAge) /\ loopAge' = Older(loopAge) /\ lineAge' = Older(lineAge)
    BY <1>6 DEF TimePasses, Tick
  <2>2. Slack = sinceRun /\ Slack' = sinceRun' /\ PollSlack = sinceRun /\ PollSlack' = sinceRun'
    BY <1>6, TimeFacts DEF Slack, PollSlack
  <2>3. UNCHANGED <<state, in>> /\ step = "idle" /\ step' = "idle" /\ ~LostConditions(state, in)
    BY <1>0, <1>6, TimeFacts DEF AgesInv
  <2>4. state \in Engageable => in.imu /\ in.loop
    BY <2>3, ConditionsOfEngageable
  <2>5. in.imu => sinceRun' = sinceRun + 1 /\ sinceRun < PollPeriod
    BY <1>6, TimeFacts DEF TaskInv, BootInv
  <2>6. /\ Older(lineAge) <= lineAge + 1 /\ Older(imuAge) <= imuAge + 1 /\ Older(loopAge) <= loopAge + 1
        /\ Older(lineAge) \in Int /\ Older(imuAge) \in Int /\ Older(loopAge) \in Int
        /\ Older(lineAge) # Never => lineAge # Never
        /\ Older(loopAge) # Never => loopAge # Never
        /\ imuAge <= loopAge => Older(imuAge) <= Older(loopAge)
    BY DEF Older, Never
  <2>7. in.imu => /\ Older(lineAge) <= Fresh + (sinceRun + 1)
                  /\ Older(imuAge) <= ImuTimeout + (sinceRun + 1)
                  /\ in.loop => Older(loopAge) <= LoopTimeout + (sinceRun + 1)
    <3>1. in.imu => /\ lineAge <= Fresh + sinceRun /\ imuAge <= ImuTimeout + sinceRun
                    /\ in.loop => loopAge <= LoopTimeout + sinceRun
      BY <1>0, <2>2 DEF AgesInv
    <3> QED
      BY <2>6, <3>1 DEF Never
  <2>8. in.imu /\ in.loop => /\ Older(loopAge) <= LoopTimeout + PollPeriod
                             /\ Older(imuAge) <= ImuTimeout + PollPeriod
                             /\ Older(lineAge) <= Fresh + PollPeriod
    BY <2>5, <2>6, <2>7
  <2>9. SilenceBounded'
    BY <2>1, <2>3, <2>4, <2>8 DEF SilenceBounded
  <2>10. /\ lineAge' # Never => lineAge' = loopAge'
         /\ loopAge' # Never => imuAge' <= loopAge'
    BY <1>0, <2>1, <2>6 DEF AgesInv
  <2>11. in'.imu => /\ lineAge' <= Fresh + Slack' /\ imuAge' <= ImuTimeout + PollSlack'
                    /\ in'.loop => loopAge' <= LoopTimeout + PollSlack'
    BY <2>1, <2>2, <2>3, <2>5, <2>7
  <2> QED
    BY <2>3, <2>9, <2>10, <2>11 DEF AgesInv
<1>7. CASE SensorRestarts \/ StressSample
  <2>1. UNCHANGED <<in, state, loopAge, step>> /\ Slack' = Slack /\ PollSlack' = PollSlack
    BY <1>7, SensorFrame DEF Slack, PollSlack
  <2>2. CASE lineAge' = Never /\ imuAge' = imuAge
    <3>1. Never <= Fresh + Slack /\ Never <= Fresh + PollPeriod
      BY DEF Never
    <3> QED
      BY <1>0, <2>1, <2>2, <3>1 DEF AgesInv, SilenceBounded
  <2>3. CASE imuAge' = 0 /\ lineAge' = lineAge
    <3>1. 0 <= ImuTimeout + PollSlack /\ 0 <= ImuTimeout + PollPeriod /\ (loopAge # Never => 0 <= loopAge)
      BY DEF Never
    <3> QED
      BY <1>0, <2>1, <2>3, <3>1 DEF AgesInv, SilenceBounded
  <2> QED
    BY <1>7, <2>2, <2>3, SensorFrame
<1>8. CASE CallPollBehind
  BY <1>0, <1>8, BehindFrame DEF TaskInv, AgesInv, SilenceBounded, LostConditions, Engageable
<1> QED
  BY <1>1, <1>2, <1>3, <1>4, <1>5, <1>6, <1>7, <1>8 DEF TaskNext

LEMMA TaskPressInv ==
    ASSUME TaskInv, TaskNext
    PROVE  PressInv'
<1> USE DEF PressInv
<1>0. /\ PressInv /\ in \in Inputs /\ sinceRun \in 0 .. PollPeriod /\ pressAge \in Nat
      /\ PollPeriod \in Nat /\ PressSlack \in Nat /\ simActive \in BOOLEAN /\ engaged \in BOOLEAN
  BY TaskAssumption DEF TaskInv, SupInv, TypeOK, DriverType, PressSlack
<1>1. CASE AppMain
  <2>1. UNCHANGED <<step, sinceRun, engaged, simActive>> /\ phase # "service" /\ Instant
    BY <1>1 DEF AppMain, BootStorage, BootRefloat, BootPlatform, BootConfig, BootWatchdog,
                BootFootpad, Boot
  <2>2. step = "idle" /\ state \notin Engageable
    BY <2>1 DEF TaskInv, BootInv
  <2>3. state' \notin Engageable
    BY <1>1, <2>2
    DEF AppMain, BootStorage, BootRefloat, BootPlatform, BootConfig, BootWatchdog,
        BootFootpad, BeginSelfTest, SelfTestResult, ReportPlatformReady, ReportConfigValid,
        ReportWatchdog, ReportFootpad, supVars, EnterFault, Engageable
  <2>4. phase' = "service" => in'.footpad = engaged
    BY <1>0, <1>1
    DEF AppMain, BootStorage, BootRefloat, BootPlatform, BootConfig, BootWatchdog,
        BootFootpad, Boot, ReportFootpad, Inputs
  <2>5. ~RealPress' => pressAge' = 0
    BY <2>1 DEF Instant
  <2>6. RealPress' => engaged
    BY <2>1 DEF RealPress
  <2>7. PressSlack' \in Nat /\ step' = "idle"
    BY <1>0, <2>1, <2>2 DEF PressSlack
  <2> QED
    BY <2>3, <2>4, <2>5, <2>6, <2>7
<1>2. CASE Task
  <2>0. UNCHANGED <<engaged, simActive, phase>> /\ phase = "service"
    BY <1>2, TaskCalls DEF Wake, CallPermit, CallWatchdog, CallSimulated, CallFootpad, CallCalibration,
                CallPoll, Call, TaskInv, BootInv
  <2>1. pressAge' = pressAge /\ RealPress' = RealPress
    BY <1>0, <1>2, <2>0 DEF Task, Instant, RealPress
  <2>2. CASE Wake
    BY <1>0, <2>0, <2>1, <2>2 DEF Wake, supVars, PressSlack
  <2>3. CASE step \in {"permit", "watchdog"} /\ step' \in {"watchdog", "simulated"}
    <3>1. /\ PressSlack' = PressSlack /\ in'.footpad = in.footpad
          /\ state' \in Engageable => state \in Engageable
      BY <1>0, <1>2, <2>3, TaskCalls
      DEF PressSlack, Wake, CallPermit, CallWatchdog, CallSimulated, CallFootpad, CallCalibration,
          CallPoll, ReportImuPermit, ReportWatchdog, EnterFault, Engageable, Inputs, supVars
    <3> QED
      BY <1>0, <2>0, <2>1, <2>3, <3>1
  <2>4. CASE step = "simulated" /\ step' = "footpad" /\ CallSimulated
    <3>1. in'.simulated = simActive /\ in'.footpad = in.footpad /\ state' = state
      BY <1>0, <2>4 DEF CallSimulated, ReportFootpadSimulated, Inputs
    <3>2. PressSlack' = PressSlack
      BY <2>4 DEF PressSlack
    <3>3. pressAge > 0 => ~simActive
      BY <1>0 DEF RealPress
    <3> QED
      BY <1>0, <2>0, <2>1, <2>4, <3>1, <3>2, <3>3
  <2>5. CASE step = "footpad" /\ step' = "calibration" /\ CallFootpad
    <3>1. pressAge > 0 => engaged /\ ~in.simulated
      BY <1>0, <2>5 DEF RealPress
    <3>2. pressAge > 0 => in'.footpad /\ state' \notin Engageable
      BY <1>0, <2>5, <3>1 DEF CallFootpad, ReportFootpad, Inputs, Engageable
    <3>3. PressSlack' = 0
      BY <2>5 DEF PressSlack
    <3> QED
      BY <1>0, <2>1, <2>5, <3>2, <3>3
  <2>6. CASE step = "calibration" /\ step' = "poll" /\ CallCalibration
    <3>1. in'.footpad = in.footpad /\ (state' \in Engageable => state \in Engageable)
      BY <1>0, <2>6 DEF CallCalibration, ReportCalibrationValid, Inputs, Engageable
    <3>2. PressSlack' = PressSlack
      BY <2>6 DEF PressSlack
    <3> QED
      BY <1>0, <2>0, <2>1, <2>6, <3>1, <3>2
  <2>7. CASE step = "poll" /\ step' = "idle" /\ CallPoll
    <3>1. in'.footpad = in.footpad
      BY <1>0, <2>7 DEF CallPoll, Poll, PolledInputs, Inputs
    <3>2. state' \in Engageable => state \in Engageable
      BY <2>7 DEF CallPoll, Poll, EnterFault, Engageable
    <3>3. PressSlack = 0 /\ PressSlack' = 0
      BY <2>7 DEF PressSlack, TaskInv, BootInv, CallPoll, Call
    <3> QED
      BY <1>0, <2>0, <2>1, <2>7, <3>1, <3>2, <3>3
  <2> QED
    BY <1>2, <2>2, <2>3, <2>4, <2>5, <2>6, <2>7, TaskCalls
<1>3. CASE LoopIteration
  <2>1. /\ UNCHANGED <<state, step, sinceRun, phase>> /\ in'.footpad = in.footpad /\ step = "idle"
    BY <1>0, <1>3 DEF LoopIteration, Inputs
  <2>2. pressAge' = pressAge /\ RealPress' = RealPress
    BY <1>0, <1>3 DEF LoopIteration, Instant, RealPress
  <2>3. PressSlack' = PressSlack
    BY <2>1 DEF PressSlack
  <2> QED
    BY <1>0, <2>1, <2>2, <2>3
<1>4. CASE RefloatReadsFootpad \/ SimulateFootpad \/ SensorRestarts \/ StressSample
  <2>1. UNCHANGED <<state, in, step, sinceRun, phase>> /\ Instant
    BY <1>4, SensorFrame DEF RefloatReadsFootpad, SimulateFootpad, supVars
  <2>2. PressSlack' = PressSlack
    BY <2>1 DEF PressSlack
  <2>3. pressAge' \in {0, pressAge} /\ (~RealPress' => pressAge' = 0)
    BY <2>1 DEF Instant
  <2> QED
    BY <1>0, <2>1, <2>2, <2>3
<1>5. CASE Operator
  <2>1. UNCHANGED <<in, step, sinceRun, phase, engaged, simActive>> /\ Instant
    BY <1>5 DEF Operator, AskReady, AskArmed, AskBurst, AskDisarm, AskClear, RequestReady,
                RequestClosedLoopReady, BeginBurst, Disarm, ClearFault, driverVars
  <2>2. state' \in Engageable => state \in Engageable \/ ~in.footpad
    BY <1>5
    DEF Operator, AskReady, AskArmed, AskBurst, AskDisarm, AskClear, RequestReady,
        RequestClosedLoopReady, BeginBurst, Disarm, ClearFault, Engageable, ReadyConditionsMet
  <2>3. PressSlack' = PressSlack
    BY <2>1 DEF PressSlack
  <2>4. pressAge' = pressAge /\ RealPress' = RealPress
    BY <1>0, <2>1 DEF Instant, RealPress
  <2> QED
    BY <1>0, <2>1, <2>2, <2>3, <2>4
<1>6. CASE TimePasses
  <2>1. pressAge' <= pressAge + 1 /\ pressAge' \in Nat /\ (~RealPress => pressAge' = 0)
    BY <1>0, <1>6 DEF TimePasses, Later
  <2>2. PressSlack = sinceRun /\ PressSlack' = sinceRun'
    BY <1>6, TimeFacts DEF PressSlack
  <2>3. RealPress' = RealPress
    BY <1>6 DEF TimePasses, RealPress
  <2>4. phase = "service" /\ pressAge' > sinceRun' => pressAge > sinceRun
    BY <1>0, <1>6, <2>1, TimeFacts
  <2>5. UNCHANGED <<state, in, phase>> /\ step' = "idle"
    BY <1>6, TimeFacts
  <2> QED
    BY <1>0, <2>1, <2>2, <2>3, <2>4, <2>5
<1>7. CASE CallPollBehind
  <2>1. /\ UNCHANGED <<phase, engaged, simActive, sinceRun>> /\ in'.footpad = in.footpad /\ Instant
        /\ step = "poll" /\ step' = "idle" /\ sinceRun = 0 /\ state' \notin Engageable
    BY <1>7, BehindFrame DEF TaskInv, Engageable
  <2>2. PressSlack = 0 /\ PressSlack' = 0
    BY <2>1 DEF PressSlack
  <2>3. pressAge' = pressAge /\ RealPress' = RealPress
    BY <1>0, <2>1 DEF Instant, RealPress
  <2> QED
    BY <1>0, <2>1, <2>2, <2>3
<1> QED
  BY <1>1, <1>2, <1>3, <1>4, <1>5, <1>6, <1>7 DEF TaskNext

LEMMA TaskBurstInv ==
    ASSUME TaskInv, TaskNext
    PROVE  BurstInv'
<1> USE DEF BurstInv
<1>0. /\ BurstInv /\ sinceRun \in 0 .. PollPeriod /\ ran \in Nat /\ grant \in Nat /\ burst \in Int
      /\ PollPeriod \in Nat /\ PollSlack \in Nat /\ PollSlack <= PollPeriod
      /\ BurstMax \in Nat
  BY TimesAssumption, TaskAssumption DEF TaskInv, SupInv, TypeOK, DriverType, PollSlack, NoBurst
<1>1. ASSUME state' # "RUNNING", Instant
      PROVE  BurstInv'
  BY <1>1 DEF Instant
<1>2. ASSUME state' = "RUNNING" => state = "RUNNING" /\ UNCHANGED <<burst, grant>> /\ PollSlack' = PollSlack,
             Instant
      PROVE  BurstInv'
  BY <1>0, <1>1, <1>2 DEF Instant
<1>3. CASE AppMain
  <2>1. Instant /\ phase # "service"
    BY <1>3 DEF AppMain, BootStorage, BootRefloat, BootPlatform, BootConfig, BootWatchdog,
                BootFootpad
  <2>2. state # "RUNNING"
    BY <2>1 DEF TaskInv, BootInv, Engageable
  <2>3. state' # "RUNNING"
    BY <1>3, <2>2
    DEF AppMain, BootStorage, BootRefloat, BootPlatform, BootConfig, BootWatchdog,
        BootFootpad, BeginSelfTest, SelfTestResult, ReportPlatformReady, ReportConfigValid,
        ReportWatchdog, ReportFootpad, supVars, EnterFault
  <2> QED
    BY <1>1, <2>1, <2>3
<1>4. CASE Task
  <2>0. Instant /\ grant' = grant
    BY <1>4 DEF Task, Wake, CallPermit, CallWatchdog, CallSimulated, CallFootpad, CallCalibration,
                CallPoll, Call
  <2>1. CASE Wake
    BY <1>0, <2>0, <2>1 DEF Wake, supVars, PollSlack, Instant
  <2>2. CASE step # "idle" /\ step' # "idle"
    <3>1. PollSlack' = PollSlack
      BY <2>2 DEF PollSlack
    <3>2. state' = "RUNNING" => state = "RUNNING" /\ burst' = burst
      BY <1>4, <2>2, TaskCalls
      DEF Wake, CallPermit, CallWatchdog, CallSimulated, CallFootpad, CallCalibration, CallPoll,
          ReportImuPermit, ReportWatchdog, ReportFootpadSimulated, ReportFootpad,
          ReportCalibrationValid, EnterFault, supVars
    <3> QED
      BY <1>2, <2>0, <3>1, <3>2
  <2>3. CASE step = "poll" /\ step' = "idle" /\ CallPoll
    <3>1. CASE state' = "RUNNING"
      <4>1. state = "RUNNING" /\ burst' = burst /\ burst > 0
        BY <1>0, <2>3, <3>1 DEF CallPoll, Poll, EnterFault, PollDisarms
      <4>2. ran' = ran /\ ran + burst <= grant
        BY <1>0, <2>0, <3>1, <4>1 DEF Instant
      <4>3. PollSlack' = 0
        BY <2>3 DEF PollSlack, CallPoll, Call, TaskInv, BootInv
      <4>4. burst' \in Int /\ grant' \in Int /\ ran' \in Int /\ burst' > 0
        BY <1>0, <2>0, <4>1, <4>2
      <4> QED
        BY <1>0, <2>0, <3>1, <4>1, <4>2, <4>3, <4>4
    <3> QED
      BY <1>1, <2>0, <3>1
  <2> QED
    BY <1>4, <2>1, <2>2, <2>3, TaskCalls
<1>5. CASE \/ LoopIteration \/ RefloatReadsFootpad \/ SimulateFootpad
          \/ SensorRestarts \/ StressSample
  <2>1. UNCHANGED <<state, burst, grant, step, sinceRun>> /\ Instant
    BY <1>5, SensorFrame DEF LoopIteration, RefloatReadsFootpad, SimulateFootpad, supVars
  <2> QED
    BY <1>2, <2>1 DEF PollSlack
<1>6. CASE Operator
  <2>1. Instant /\ PollSlack' = PollSlack
    BY <1>6 DEF Operator, driverVars, PollSlack
  <2>2. CASE AskReady \/ AskArmed \/ AskDisarm \/ AskClear
    BY <1>1, <2>1, <2>2 DEF AskReady, AskArmed, AskDisarm, AskClear, RequestReady,
                RequestClosedLoopReady, Disarm, ClearFault
  <2>3. CASE AskBurst
    <3>1. PICK d \in 0 .. BurstMax + 1, lag \in 0 .. SampleLag : BeginBurst(d, lag) /\ grant' = d
      BY <2>3 DEF AskBurst
    <3>2. state = "ARMED" /\ state' = "RUNNING" /\ 0 < d /\ burst' = Remainder(d, lag)
      BY <3>1 DEF BeginBurst
    <3>3. ran' = 0
      BY <1>0, <2>1, <3>2 DEF Instant
    <3>4. Remainder(d, lag) \in Int /\ Remainder(d, lag) <= d /\ d \in Int /\ d >= 1
      BY <1>0, <3>2, TimesAssumption DEF Remainder
    <3>5. PollSlack' = PollSlack /\ PollSlack \in Nat
      BY <1>0, <2>1
    <3>6. 0 <= (d - 1) + PollSlack /\ 0 + Remainder(d, lag) <= d
      BY <3>4, <3>5
    <3> QED
      BY <3>1, <3>2, <3>3, <3>4, <3>5, <3>6
  <2> QED
    BY <1>6, <2>2, <2>3 DEF Operator
<1>7. CASE TimePasses
  <2>1. CASE state # "RUNNING"
    BY <1>7, <2>1 DEF TimePasses, Tick
  <2>2. CASE state = "RUNNING"
    <3>1. ran' = Later(ran) /\ state' = state /\ grant' = grant
      BY <1>7, <2>2 DEF TimePasses, Tick
    <3>2. Later(ran) \in Nat /\ Later(ran) <= ran + 1
      BY <1>0 DEF Later
    <3>3. burst' = (IF burst > 0 THEN burst - 1 ELSE burst)
      BY <1>7 DEF TimePasses, Tick
    <3>4. phase = "service"
      BY <2>2 DEF TaskInv, BootInv, Engageable
    <3>5. PollSlack' = PollSlack + 1
      BY <1>7, <3>4, TimeFacts DEF PollSlack
    <3>6. grant >= 1 /\ Later(ran) <= (grant - 1) + (PollSlack + 1)
      BY <1>0, <2>2, <3>2
    <3>7. burst > 0 => Later(ran) + (burst - 1) <= grant
      BY <1>0, <2>2, <3>2
    <3>8. burst' > 0 => burst > 0 /\ burst' = burst - 1
      BY <1>0, <3>3
    <3> QED
      BY <2>2, <3>1, <3>5, <3>6, <3>7, <3>8
  <2> QED
    BY <2>1, <2>2
<1>8. CASE CallPollBehind
  BY <1>1, <1>8, BehindFrame DEF TaskInv
<1> QED
  BY <1>3, <1>4, <1>5, <1>6, <1>7, <1>8 DEF TaskNext

-----------------------------------------------------------------------------
LEMMA NextTask == TaskInv /\ [TaskNext]_taskVars => TaskInv'
<1> SUFFICES ASSUME TaskInv, [TaskNext]_taskVars PROVE TaskInv'
  OBVIOUS
<1>1. CASE TaskNext
  BY <1>1, TaskSupInv, TaskDriverType, TaskBootInv, TaskResetInv, TaskAgesInv, TaskPressInv,
     TaskBurstInv DEF TaskInv
<1>2. CASE UNCHANGED taskVars
  <2>1. UNCHANGED supVars
    BY <1>2 DEF taskVars
  <2>2. SupInv'
    BY <2>1, NextInv DEF TaskInv
  <2>3. DriverType' /\ BootInv' /\ ResetInv'
    BY <1>2 DEF TaskInv, taskVars, supVars, driverVars, historyVars, DriverType, BootInv, ResetInv
  <2>4. AgesInv' /\ PressInv' /\ BurstInv'
    BY <1>2 DEF TaskInv, taskVars, supVars, driverVars, historyVars, AgesInv, PressInv, BurstInv,
                Slack, PressSlack, PollSlack, RealPress, SilenceBounded
  <2> QED
    BY <2>2, <2>3, <2>4 DEF TaskInv
<1> QED
  BY <1>1, <1>2

LEMMA TaskAlways == TaskSpec => []TaskInv
  BY InitTask, NextTask, PTL DEF TaskSpec

\* Whatever the console, the loop and Refloat do between the calls of an iteration, the
\* supervisor and those who call it stay typed.
THEOREM TaskTypeCorrect == TaskSpec => []TaskTypeOK
<1>1. TaskInv => TaskTypeOK
  BY DEF TaskInv, SupInv, DriverType, TaskTypeOK, Names
<1> QED
  BY <1>1, TaskAlways, PTL

\* Service begins with a passed self-test on a registered configuration, and not
\* after a watchdog reset.
THEOREM ServiceAfterBootHolds == TaskSpec => []ServiceAfterBoot
<1>1. TaskInv => ServiceAfterBoot
  <2> SUFFICES ASSUME TaskInv PROVE ServiceAfterBoot
    OBVIOUS
  <2>1. state \in Engageable => phase = "service" /\ cleanReset
    BY DEF TaskInv, BootInv, ResetInv
  <2>2. state \in Operational => phase \notin {"storage", "refloat", "halted"}
    BY DEF TaskInv, BootInv, Operational
  <2>3. state \in Operational => registered
    BY <2>2 DEF TaskInv, BootInv, SupInv, FaultIffCause, Operational
  <2> QED
    BY <2>1, <2>2, <2>3 DEF ServiceAfterBoot
<1> QED
  BY <1>1, TaskAlways, PTL

\* Between two iterations no state is held whose conditions are gone.
THEOREM ConditionsAtRestHolds == TaskSpec => []ConditionsAtRest
<1>1. TaskInv => ConditionsAtRest
  BY DEF TaskInv, AgesInv, ConditionsAtRest
<1> QED
  BY <1>1, TaskAlways, PTL

\* A machine that has left DISARMED is never served by a loop or by samples that have
\* been silent for longer than their time-out and one period, nor, but for a restart of
\* the sensor, by a sample that has been stale for a period.
THEOREM SilenceBoundedHolds == TaskSpec => []SilenceBounded
<1>1. TaskInv => SilenceBounded
  BY DEF TaskInv, AgesInv
<1> QED
  BY <1>1, TaskAlways, PTL

\* A real press ends whatever is prepared or runs within one period, whenever between
\* the calls of an iteration it begins.
THEOREM PressBoundedHolds == TaskSpec => []PressBounded
<1>1. TaskInv => PressBounded
  <2> SUFFICES ASSUME TaskInv, state \in Engageable PROVE pressAge <= PollPeriod
    BY DEF PressBounded
  <2>1. phase = "service"
    BY DEF TaskInv, BootInv
  <2>2. /\ PressSlack \in Int /\ PressSlack <= PollPeriod /\ pressAge \in Int /\ PollPeriod \in Int
    BY TaskAssumption DEF TaskInv, DriverType, PressSlack
  <2> QED
    BY <2>1, <2>2 DEF TaskInv, PressInv
<1> QED
  BY <1>1, TaskAlways, PTL

\* The supervisor alone ends a burst less than one period past its duration.
THEOREM OverrunBoundedHolds == TaskSpec => []OverrunBounded
<1>1. TaskInv => OverrunBounded
  <2> SUFFICES ASSUME TaskInv, state = "RUNNING" PROVE ran < grant + PollPeriod
    BY DEF OverrunBounded
  <2>1. /\ PollSlack \in Int /\ PollSlack <= PollPeriod /\ ran \in Int /\ grant \in Int
        /\ PollPeriod \in Int
    BY TaskAssumption DEF TaskInv, DriverType, PollSlack
  <2> QED
    BY <2>1 DEF TaskInv, BurstInv
<1> QED
  BY <1>1, TaskAlways, PTL

-----------------------------------------------------------------------------
(* A burst of the closed loop.                                             *)

ClType ==
    /\ cl \in Places /\ token \in BOOLEAN /\ ms \in 0 .. BurstMax
    /\ since \in 0 .. Span /\ refRunning \in BOOLEAN
    /\ offFor \in 0 .. LetGo + 1 /\ lateBy \in 0 .. LetGo + 1

\* Where the gate is open, and where the supervisor runs.
OpenInv ==
    /\ allowed => cl \in {"gated", "burst", "revoke"}
    /\ state = "RUNNING" => cl \in {"burst", "revoke", "release", "disarm", "stand"}
    /\ state = "RUNNING" => offFor = 0

\* The gate's deadline is start + ms; the supervisor's is the same.
DeadlineInv ==
    /\ allowed /\ gateLeft > 0 => since + gateLeft = ms
    /\ cl = "gated" /\ allowed /\ gateLeft <= 0 => since >= ms
    /\ DeadlinesAgree

Under == {"passed", "send", "sentA", "missedA"}

\* How long the deadline is past, or no output has been permitted, is bounded by what is
\* still on its way.
LateInv ==
    /\ cl = "start" => lateBy = 0 \/ lateBy <= since - ms \/ since = Span
    /\ allowed /\ gateLeft > GateGone => lateBy = 0 \/ lateBy <= -gateLeft
    /\ call["refloat"].at \in Under => lateBy <= call["refloat"].age /\ offFor <= call["refloat"].age
    /\ \A h \in Halves : half[h].by = "refloat" =>
           lateBy <= Flight + half[h].quiet /\ offFor <= Flight + half[h].quiet

\* The inputs tell the bench's press from a rider's.
Explained == (simActive => in.simulated) /\ (~simActive => ~in.footpad)

\* During the settling at least one iteration is made, from its first call to its last.
SettleInv ==
    cl = "settle" =>
        /\ engaged => simActive
        /\ step = "idle" /\ since > sinceRun => Explained
        /\ step \in {"permit", "watchdog", "simulated", "footpad"} /\ since > PollPeriod => Explained
        /\ step = "footpad" /\ since > 0 => (in.simulated <=> simActive)
        /\ step \in {"calibration", "poll"} /\ since > 0 => Explained

BurstPlaces == {"wait", "start", "gated", "burst"}

PressedInv ==
    cl \in BurstPlaces =>
        /\ simActive
        /\ BenchPressNotRider
        /\ step = "footpad" => in.simulated \/ ~engaged

ServiceInv == phase = "service" /\ (step # "idle" => sinceRun = 0)

ClTypes == SupInv /\ DriverType /\ PathType /\ ClType

ClInv == ClTypes /\ ServiceInv /\ OpenInv /\ DeadlineInv /\ LateInv /\ SettleInv /\ PressedInv

LEMMA ClosedParts == ClTypes => ClosedTypeOK
  BY DEF ClTypes, SupInv, DriverType, PathType, ClType, ClosedTypeOK, TaskTypeOK, MotorTypeOK,
         Calls, Currents, Names

LEMMA Numbers ==
    /\ BurstMax \in Nat /\ Flight \in Nat /\ EscMax \in Nat /\ LetGo \in Nat /\ Tail \in Nat
    /\ Span \in Nat /\ Span > BurstMax + Flight /\ GateGone \in Int /\ GateGone = -(Flight + 1)
    /\ PollPeriod \in Nat /\ Settle \in Nat /\ Settle > PollPeriod
  BY TimesAssumption, TaskAssumption, PathAssumption, BurstAssumption DEF LetGo, Span, GateGone

LEMMA InitClosed == ClosedInit => ClInv
<1> SUFFICES ASSUME ClosedInit PROVE ClInv
  OBVIOUS
<1>1. SupInv
  BY TimesAssumption
  DEF ClosedInit, MotorInit, SupInv, TypeOK, FaultIffCause, RunningHasDeadline, States, Faults,
      Inputs, Never, NoBurst, Permits
<1>2. DriverType
  <2>1. phase \in Phases /\ step \in Names \cup {"idle"}
    BY DEF ClosedInit, Quiet, Phases
  <2>2. /\ registered \in BOOLEAN /\ cleanReset \in BOOLEAN /\ simActive \in BOOLEAN
        /\ engaged \in BOOLEAN /\ ahead \in BOOLEAN
    BY DEF ClosedInit, Quiet
  <2>3. /\ sinceRun \in 0 .. PollPeriod /\ ran \in 0 .. HistoryCap /\ grant \in 0 .. BurstMax
        /\ pressAge \in 0 .. HistoryCap /\ lineAge \in Never .. AgeCap
    BY TimesAssumption, TaskAssumption DEF ClosedInit, MotorInit, Quiet, Never
  <2> QED
    BY <2>1, <2>2, <2>3 DEF DriverType
<1>3. PathType
  <2>1. gateLeft \in GateGone .. BurstMax /\ runLeft \in 0 .. RunMax
    BY PathAssumption, Numbers DEF ClosedInit, MotorInit
  <2>2. call \in [Origins -> Calls] /\ half \in [Halves -> Currents \cup {Free}]
    BY LevelExists DEF ClosedInit, MotorInit
  <2> QED
    BY <2>1, <2>2 DEF ClosedInit, MotorInit, PathType
<1>4. ClType
  <2>1. ms \in 0 .. BurstMax /\ since \in 0 .. Span
    BY Numbers DEF ClosedInit, Quiet
  <2>2. offFor \in 0 .. LetGo + 1 /\ lateBy \in 0 .. LetGo + 1
    BY Numbers DEF ClosedInit, Quiet
  <2>3. cl \in Places /\ token \in BOOLEAN /\ refRunning \in BOOLEAN
    BY DEF ClosedInit, Quiet, Places
  <2> QED
    BY <2>1, <2>2, <2>3 DEF ClType
<1>5. ServiceInv /\ OpenInv /\ SettleInv /\ PressedInv
  BY DEF ClosedInit, Quiet, MotorInit, ServiceInv, OpenInv, SettleInv, PressedInv, BurstPlaces
<1>6. DeadlineInv
  BY DEF ClosedInit, Quiet, MotorInit, DeadlineInv, DeadlinesAgree
<1>7. LateInv
  BY DEF ClosedInit, Quiet, MotorInit, LateInv, Under, NoCall, Free, Origins
<1> QED
  BY <1>1, <1>2, <1>3, <1>4, <1>5, <1>6, <1>7 DEF ClInv, ClTypes

\* What each kind of step leaves alone.
LEMMA ProcedureFrame ==
    ASSUME Procedure
    PROVE  /\ UNCHANGED <<call, half, phase, registered, cleanReset, step, sinceRun, engaged,
                          latched, whole, run, runLeft, refRunning, in>>
           /\ Instant /\ ClInstant
  BY DEF Procedure, ClReady, ClReadyRefused, ClBurst, Press, Engaged, NotEngaged, ArmBurst, Begin,
         Waited, Revoke, Release, DisarmPath, Stand, Moves, RequestClosedLoopReady, BeginBurst,
         Disarm, ExperimentDisarm, RevokeBurst, supVars, driverVars, pathVars, gateVars, coordVars, benchVars

LEMMA OtherFrame ==
    ASSUME OtherCommand
    PROVE  /\ UNCHANGED <<allowed, gateLeft, call, half, phase, registered, cleanReset, step, sinceRun,
                          engaged, grant, cl, token, ms, since, refRunning, in, burst>> \/ AskDisarm
           /\ UNCHANGED <<allowed, gateLeft, call, half, phase, registered, cleanReset, step, sinceRun,
                          engaged, grant, cl, token, ms, since, refRunning, in>>
           /\ cl = "free" /\ Instant /\ ClInstant
           /\ state' = "RUNNING" => state = "RUNNING"
  BY DEF OtherCommand, AskReady, AskDisarm, AskClear, RequestReady, Disarm, ClearFault,
         SimulateFootpad, MotorArm, MotorDisarm, MotorClear, TryArm, ExperimentDisarm,
         supVars, driverVars, pathVars, gateVars, coordVars, benchVars, clVars

LEMMA SupervisorTaskFrame ==
    ASSUME SupervisorTaskStep \/ LoopStep \/ RefloatReads
    PROVE  /\ UNCHANGED <<pathVars, clVars>> /\ UNCHANGED <<phase, registered, cleanReset, simActive, grant>>
           /\ Instant /\ ClInstant
           /\ state' = "RUNNING" => state = "RUNNING" /\ burst' = burst
  BY DEF SupervisorTaskStep, LoopStep, RefloatReads, Task, Wake, CallPermit, CallWatchdog,
         CallSimulated, CallFootpad, CallCalibration, CallPoll, Call, ReportImuPermit,
         ReportWatchdog, ReportFootpadSimulated, ReportFootpad, ReportCalibrationValid, Poll,
         EnterFault, LoopIteration, RefloatReadsFootpad, supVars, driverVars

LEMMA RefloatFrame ==
    ASSUME RefloatAsks
    PROVE  /\ UNCHANGED supVars /\ UNCHANGED driverVars /\ UNCHANGED <<grant, clVars, refRunning>>
           /\ Instant /\ ClInstant
  BY DEF RefloatAsks, Request, Gate, Plan, SendA, SendB

LEMMA EscFrame ==
    ASSUME EscStep
    PROVE  /\ UNCHANGED supVars /\ UNCHANGED driverVars /\ UNCHANGED <<grant, clVars, refRunning>>
           /\ UNCHANGED <<gateVars, coordVars, benchVars, call>>
           /\ Instant /\ ClInstant
  BY DEF EscStep, EscReleases

-----------------------------------------------------------------------------
(* Types.                                                                  *)

LEMMA InstantTypes ==
    ASSUME DriverType, Instant
    PROVE  ran' \in 0 .. HistoryCap /\ pressAge' \in 0 .. HistoryCap
  BY TaskAssumption DEF Instant, DriverType

LEMMA ClInstantTypes ==
    ASSUME ClType, ClInstant
    PROVE  /\ offFor' \in 0 .. LetGo + 1 /\ lateBy' \in 0 .. LetGo + 1
           /\ offFor' \in {0, offFor} /\ lateBy' \in {0, lateBy}
           /\ state' = "RUNNING" => offFor' = 0
           /\ cl' = "start" => lateBy' = 0
<1>1. 0 \in 0 .. LetGo + 1
  BY Numbers
<1> QED
  BY <1>1 DEF ClInstant, ClType, MotorOutputPermitted

LEMMA ProcedureSup ==
    ASSUME ClTypes, Procedure
    PROVE  SupInv'
<1>0. SupInv /\ ms \in 0 .. BurstMax /\ since \in Nat
  BY Numbers DEF ClTypes, ClType
<1>1. CASE SupNext \/ UNCHANGED supVars
  BY <1>0, <1>1, NextInv
<1>2. CASE BeginBurst(ms, since)
  <2>1. Remainder(ms, since) \in 0 .. BurstMax
    BY <1>0, Numbers DEF Remainder
  <2>2. burst' \in 0 .. BurstMax /\ burst' \in NoBurst .. BurstMax
    BY <1>2, <2>1, Numbers DEF BeginBurst, NoBurst
  <2> QED
    BY <1>0, <1>2, <2>2 DEF BeginBurst, SupInv, TypeOK, FaultIffCause, RunningHasDeadline, States
<1>3. CASE ClReady
  BY <1>1, <1>3 DEF ClReady, SupNext, OperatorCall
<1>4. CASE ClReadyRefused \/ ClBurst \/ Press \/ Engaged \/ NotEngaged \/ ArmBurst \/ Waited \/ Revoke
              \/ Release
  BY <1>1, <1>4 DEF ClReadyRefused, ClBurst, Press, Engaged, NotEngaged, ArmBurst, Waited, Revoke, Release
<1>5. CASE Begin
  BY <1>1, <1>2, <1>5 DEF Begin
<1>6. CASE DisarmPath
  BY <1>1, <1>6 DEF DisarmPath
<1>7. CASE Stand
  BY <1>1, <1>7 DEF Stand, SupNext, OperatorCall
<1> QED
  BY <1>3, <1>4, <1>5, <1>6, <1>7 DEF Procedure

LEMMA ProcedureTypes ==
    ASSUME ClTypes, Procedure
    PROVE  ClTypes'
<1>0. DriverType /\ PathType /\ ClType
  BY DEF ClTypes
<1>1. SupInv'
  BY ProcedureSup
<1>2. DriverType'
  <2>1. simActive' \in BOOLEAN
    BY <1>0 DEF DriverType, Procedure, ClReady, ClReadyRefused, ClBurst, Press, Engaged,
                NotEngaged, ArmBurst, Begin, Waited, Revoke, Release, DisarmPath, Stand, Moves, driverVars
  <2>2. 0 \in 0 .. BurstMax
    BY Numbers
  <2>3. grant' \in {grant, ms, 0}
    BY DEF Procedure, ClReady, ClReadyRefused, ClBurst, Press, Engaged,
           NotEngaged, ArmBurst, Begin, Waited, Revoke, Release, DisarmPath, Stand
  <2>4. grant' \in 0 .. BurstMax
    BY <1>0, <2>2, <2>3 DEF DriverType, ClType
  <2>5. ran' \in 0 .. HistoryCap /\ pressAge' \in 0 .. HistoryCap
    BY <1>0, ProcedureFrame, InstantTypes
  <2>6. lineAge' = lineAge /\ ahead' = ahead
    BY DEF Procedure, ClReady, ClReadyRefused, ClBurst, Press, Engaged, NotEngaged, ArmBurst, Begin,
           Waited, Revoke, Release, DisarmPath, Stand, Moves, driverVars
  <2> QED
    BY <1>0, <2>1, <2>4, <2>5, <2>6, ProcedureFrame DEF DriverType
<1>3. PathType'
  <2>1. allowed' \in BOOLEAN
    BY <1>0 DEF PathType, Procedure, ClReady, ClReadyRefused, ClBurst, Press, Engaged,
                NotEngaged, ArmBurst, Begin, Waited, Revoke, Release, DisarmPath, Stand,
                RevokeBurst, pathVars, gateVars
  <2>2. gateLeft' \in {gateLeft, GateLeft(ms - since), GateGone}
    BY DEF Procedure, ClReady, ClReadyRefused, ClBurst, Press, Engaged,
           NotEngaged, ArmBurst, Begin, Waited, Revoke, Release, DisarmPath, Stand,
           RevokeBurst, pathVars, gateVars
  <2>3. GateLeft(ms - since) \in GateGone .. BurstMax /\ GateGone \in GateGone .. BurstMax
    BY <1>0, Numbers DEF GateLeft, ClType
  <2>4. gateLeft' \in GateGone .. BurstMax
    BY <1>0, <2>2, <2>3 DEF PathType
  <2>5. armed' \in BOOLEAN /\ stopReq' \in BOOLEAN
    BY <1>0 DEF PathType, Procedure, ClReady, ClReadyRefused, ClBurst, Press, Engaged,
                NotEngaged, ArmBurst, Begin, Waited, Revoke, Release, DisarmPath, Stand, Moves,
                ExperimentDisarm, pathVars, coordVars, benchVars
  <2> QED
    BY <1>0, <2>1, <2>4, <2>5, ProcedureFrame DEF PathType
<1>4. ClType'
  <2>1. cl' \in Places /\ token' \in BOOLEAN
    BY <1>0 DEF ClType, Places, Procedure, ClReady, ClReadyRefused, ClBurst, Press, Engaged,
                NotEngaged, ArmBurst, Begin, Waited, Revoke, Release, DisarmPath, Stand, Moves
  <2>2. 0 \in 0 .. BurstMax /\ Durations \subseteq 0 .. BurstMax /\ 0 \in 0 .. Span
    BY Numbers DEF Durations
  <2>3. ms' \in 0 .. BurstMax /\ since' \in 0 .. Span
    BY <1>0, <2>2 DEF ClType, Procedure, ClReady, ClReadyRefused, ClBurst, Press, Engaged,
                NotEngaged, ArmBurst, Begin, Waited, Revoke, Release, DisarmPath, Stand
  <2>4. refRunning' = refRunning
    BY ProcedureFrame
  <2> QED
    BY <1>0, <2>1, <2>3, <2>4, ProcedureFrame, ClInstantTypes DEF ClType
<1> QED
  BY <1>1, <1>2, <1>3, <1>4 DEF ClTypes

LEMMA OtherTypes ==
    ASSUME ClTypes, OtherCommand
    PROVE  ClTypes'
<1>0. SupInv /\ DriverType /\ PathType /\ ClType
  BY DEF ClTypes
<1>1. SupInv'
  <2>1. SupNext \/ UNCHANGED supVars
    BY DEF OtherCommand, AskReady, AskDisarm, AskClear, SimulateFootpad, MotorArm, MotorDisarm, MotorClear,
           SupNext, OperatorCall
  <2> QED
    BY <1>0, <2>1, NextInv
<1>2. DriverType'
  <2>1. simActive' \in BOOLEAN
    BY <1>0 DEF DriverType, OtherCommand, SimulateFootpad, driverVars
  <2>2. lineAge' = lineAge /\ ahead' = ahead
    BY DEF OtherCommand, SimulateFootpad, driverVars
  <2> QED
    BY <1>0, <2>1, <2>2, OtherFrame, InstantTypes DEF DriverType
<1>3. PathType'
  <2>1. CASE UNCHANGED pathVars
    BY <1>0, <2>1 DEF PathType, pathVars, gateVars, coordVars, benchVars
  <2>2. CASE MotorArm \/ MotorDisarm \/ MotorClear
    BY <1>0, <2>2, CommandType
  <2> QED
    BY <2>1, <2>2 DEF OtherCommand
<1>4. ClType'
  BY <1>0, OtherFrame, ClInstantTypes DEF ClType
<1> QED
  BY <1>1, <1>2, <1>3, <1>4 DEF ClTypes

LEMMA CoreTypes ==
    ASSUME ClTypes, SupervisorTaskStep \/ LoopStep \/ RefloatReads
    PROVE  ClTypes'
<1>0. SupInv /\ DriverType /\ PathType /\ ClType
  BY DEF ClTypes
<1>1. SupInv'
  <2>1. CASE SupervisorTaskStep
    <3>1. cleanReset \in BOOLEAN /\ engaged \in BOOLEAN /\ simActive \in BOOLEAN /\ Verdicts \subseteq Permits
      BY <1>0 DEF DriverType, Verdicts, Permits
    <3>2. CASE Wake
      BY <1>0, <3>2, SupUntouched DEF Wake
    <3>3. CASE CallPermit \/ CallPoll
      BY <1>0, <3>1, <3>3, NextInv, SupUntouched DEF CallPermit, CallPoll, SupNext, TaskCall
    <3>4. CASE CallWatchdog \/ CallSimulated \/ CallFootpad \/ CallCalibration
      <4>1. SupNext
        BY <3>1, <3>4
        DEF CallWatchdog, CallSimulated, CallFootpad, CallCalibration, SupNext, TaskCall
      <4> QED
        BY <1>0, <4>1, NextInv
    <3> QED
      BY <2>1, <3>2, <3>3, <3>4 DEF SupervisorTaskStep, Task
  <2>2. CASE LoopStep
    BY <1>0, <2>2, LoopSup DEF LoopStep
  <2>3. CASE RefloatReads
    BY <1>0, <2>3, SupUntouched DEF RefloatReads, RefloatReadsFootpad
  <2> QED
    BY <2>1, <2>2, <2>3
<1>2. DriverType'
  BY <1>0, TaskDriverType
  DEF SupervisorTaskStep, LoopStep, RefloatReads, TaskNext
<1>3. PathType'
  BY <1>0, SupervisorTaskFrame DEF PathType, pathVars, gateVars, coordVars, benchVars
<1>4. ClType'
  <2>1. refRunning' \in BOOLEAN
    BY <1>0 DEF SupervisorTaskStep, LoopStep, RefloatReads, ClType
  <2> QED
    BY <1>0, <2>1, SupervisorTaskFrame, ClInstantTypes DEF ClType, clVars
<1> QED
  BY <1>1, <1>2, <1>3, <1>4 DEF ClTypes

LEMMA RequestTypes ==
    ASSUME ClTypes, RefloatAsks \/ EscStep
    PROVE  ClTypes'
<1>0. SupInv /\ DriverType /\ PathType /\ ClType
  BY DEF ClTypes
<1>1. UNCHANGED supVars /\ UNCHANGED driverVars /\ UNCHANGED <<grant, clVars, refRunning>> /\ Instant /\ ClInstant
  BY RefloatFrame, EscFrame
<1>2. SupInv'
  BY <1>0, <1>1, SupUntouched
<1>3. DriverType'
  BY <1>0, <1>1, InstantTypes DEF DriverType, driverVars
<1>4. PathType'
  <2>1. ASSUME NEW l \in Levels, Ask("refloat", l), UNCHANGED <<gateVars, coordVars, benchVars, half>>
        PROVE  PathType'
    <3>1. call' \in [Origins -> Calls]
      BY <1>0, <2>1, AskType DEF PathType, Origins
    <3> QED
      BY <1>0, <2>1, <3>1 DEF PathType, gateVars, coordVars, benchVars
  <2>2. CASE Request("refloat")
    BY <1>0, <2>2, RequestType DEF Origins
  <2>3. ASSUME NEW h \in Halves, EscReleases(h)
        PROVE  PathType'
    BY <1>0, <2>3, ReleaseType
  <2> QED
    BY <2>1, <2>2, <2>3 DEF RefloatAsks, EscStep
<1>5. ClType'
  BY <1>0, <1>1, ClInstantTypes DEF ClType, clVars
<1> QED
  BY <1>2, <1>3, <1>4, <1>5 DEF ClTypes

\* What a tick does to the clocks of a burst.
LEMMA TickClocks ==
    ASSUME ClTypes, ClosedTick
    PROVE  /\ since' \in 0 .. Span
           /\ since' = since \/ since' = since + 1
           /\ cl # "free" /\ since < Span => since' = since + 1
           /\ offFor' \in 0 .. LetGo + 1 /\ lateBy' \in 0 .. LetGo + 1
           /\ offFor' \in {0, Counts(offFor)} /\ lateBy' \in {0, Counts(lateBy)}
           /\ Counts(offFor) \in Nat /\ Counts(offFor) <= offFor + 1
           /\ Counts(lateBy) \in Nat /\ Counts(lateBy) <= lateBy + 1
           /\ state = "RUNNING" => offFor' = 0
           /\ cl \notin {"free", "settle", "wait"} /\ since' <= ms => lateBy' = 0
<1>1. since \in 0 .. Span /\ offFor \in 0 .. LetGo + 1 /\ lateBy \in 0 .. LetGo + 1
  BY DEF ClTypes, ClType
<1>2. /\ since' = IF cl # "free" /\ since < Span THEN since + 1 ELSE since
      /\ offFor' = IF state = "RUNNING" THEN 0 ELSE Counts(offFor)
      /\ lateBy' = IF cl \notin {"free", "settle", "wait"} /\ since' <= ms THEN 0 ELSE Counts(lateBy)
  BY DEF ClosedTick, MotorOutputPermitted
<1>3. /\ Counts(offFor) \in 0 .. LetGo + 1 /\ Counts(offFor) <= offFor + 1
      /\ Counts(lateBy) \in 0 .. LetGo + 1 /\ Counts(lateBy) <= lateBy + 1
      /\ 0 \in 0 .. LetGo + 1
  BY <1>1, Numbers DEF Counts
<1>4. since' \in 0 .. Span
  BY <1>1, <1>2, Numbers
<1>5. Counts(offFor) \in Nat /\ Counts(lateBy) \in Nat
  BY <1>3, Numbers
<1> QED
  BY <1>2, <1>3, <1>4, <1>5

LEMMA TickTypes ==
    ASSUME ClTypes, ClosedTick
    PROVE  ClTypes'
<1>0. SupInv /\ DriverType /\ PathType /\ ClType
  BY DEF ClTypes
<1>1. SupInv'
  BY <1>0, NextInv DEF ClosedTick, TimePasses, SupNext
<1>2. DriverType'
  BY <1>0, TaskDriverType DEF ClosedTick, TaskNext
<1>3. PathType'
  BY <1>0, TickType DEF ClosedTick
<1>4. ClType'
  BY <1>0, TickClocks DEF ClosedTick, ClType
<1> QED
  BY <1>1, <1>2, <1>3, <1>4 DEF ClTypes

LEMMA StutterTypes ==
    ASSUME ClTypes, UNCHANGED closedVars
    PROVE  ClTypes'
<1>0. SupInv /\ DriverType /\ PathType /\ ClType
  BY DEF ClTypes
<1>1. SupInv'
  BY <1>0, SupUntouched DEF closedVars, taskVars
<1>2. DriverType' /\ PathType' /\ ClType'
  BY <1>0 DEF closedVars, taskVars, driverVars, historyVars, gateVars, coordVars, benchVars,
              clVars, clHistory, DriverType, PathType, ClType
<1> QED
  BY <1>1, <1>2 DEF ClTypes

LEMMA NextTypes ==
    ASSUME ClTypes, [ClosedNext]_closedVars
    PROVE  ClTypes'
  BY ProcedureTypes, OtherTypes, CoreTypes, RequestTypes, TickTypes, StutterTypes DEF ClosedNext

-----------------------------------------------------------------------------
(* The places of the procedure, the two deadlines and the two histories.   *)

\* What every step but those of the procedure and of time leaves alone.
LEMMA Elsewhere ==
    ASSUME ClTypes,
           OtherCommand \/ SupervisorTaskStep \/ LoopStep \/ RefloatReads \/ RefloatAsks \/ EscStep
               \/ UNCHANGED closedVars
    PROVE  /\ UNCHANGED <<cl, ms, since, phase>>
           /\ allowed' => allowed /\ gateLeft' = gateLeft
           /\ state' = "RUNNING" => state = "RUNNING" /\ burst' = burst
           /\ offFor' \in {0, offFor} /\ lateBy' \in {0, lateBy}
<1>0. ClType
  BY DEF ClTypes
<1>1. CASE OtherCommand
  <2>1. state' = "RUNNING" => state = "RUNNING" /\ burst' = burst
    BY <1>1 DEF OtherCommand, AskReady, AskDisarm, AskClear, RequestReady, Disarm, ClearFault,
                SimulateFootpad, MotorArm, MotorDisarm, MotorClear, supVars
  <2> QED
    BY <1>0, <1>1, <2>1, OtherFrame, ClInstantTypes
<1>2. CASE SupervisorTaskStep \/ LoopStep \/ RefloatReads
  BY <1>0, <1>2, SupervisorTaskFrame, ClInstantTypes DEF pathVars, gateVars, clVars
<1>3. CASE RefloatAsks
  <2>1. allowed' => allowed /\ gateLeft' = gateLeft
    BY <1>3 DEF RefloatAsks, Request, Gate, Plan, SendA, SendB, RevokeBurst, gateVars
  <2> QED
    BY <1>0, <1>3, <2>1, RefloatFrame, ClInstantTypes DEF clVars, supVars, driverVars
<1>4. CASE EscStep
  BY <1>0, <1>4, EscFrame, ClInstantTypes DEF clVars, supVars, driverVars, gateVars
<1>5. CASE UNCHANGED closedVars
  BY <1>5 DEF closedVars, taskVars, supVars, driverVars, gateVars, clVars, clHistory
<1> QED
  BY <1>1, <1>2, <1>3, <1>4, <1>5

\* The supervisor's state, where the procedure changes it.
LEMMA ProcedureState ==
    ASSUME Procedure, state' = "RUNNING"
    PROVE  \/ cl = "gated" /\ cl' = "burst" /\ burst' = Remainder(ms, since)
              /\ UNCHANGED <<gateVars, ms, since>>
           \/ cl \notin {"free", "stand"} /\ state = "RUNNING" /\ burst' = burst
           \/ cl = "free" /\ state = "RUNNING"
  BY DEF Procedure, ClReady, ClReadyRefused, ClBurst, Press, Engaged, NotEngaged, ArmBurst, Begin,
         Waited, Revoke, Release, DisarmPath, Stand, Moves, RequestClosedLoopReady, BeginBurst,
         Disarm, supVars

\* The gate's bit, where the procedure changes it, and where the procedure goes.
LEMMA ProcedureGate ==
    ASSUME Procedure, allowed'
    PROVE  \/ cl = "start" /\ cl' = "gated" /\ gateLeft' = GateLeft(ms - since)
              /\ UNCHANGED <<ms, since, supVars>>
           \/ allowed /\ gateLeft' = gateLeft /\ cl \notin {"start", "revoke"}
  BY DEF Procedure, ClReady, ClReadyRefused, ClBurst, Press, Engaged, NotEngaged, ArmBurst, Begin,
         Waited, Revoke, Release, DisarmPath, Stand, Moves, RevokeBurst, pathVars, gateVars

LEMMA ProcedureGoes ==
    ASSUME Procedure
    PROVE  /\ cl = "gated" => cl' \in {"burst", "revoke"} /\ UNCHANGED <<ms, since>>
           /\ cl = "burst" => cl' = "revoke" /\ UNCHANGED <<ms, since>>
           /\ cl = "revoke" => cl' = "release" /\ UNCHANGED <<ms, since>>
           /\ cl = "release" => cl' = "disarm" /\ UNCHANGED <<ms, since>>
           /\ cl = "disarm" => cl' = "stand" /\ UNCHANGED <<ms, since>>
           /\ cl' = "start" => cl = "wait"
           /\ cl' = "gated" => cl = "start"
           /\ cl' = "burst" => cl = "gated"
           /\ cl' = "settle" => cl = "free"
           /\ cl' = "wait" => cl = "settle"
  BY DEF Procedure, ClReady, ClReadyRefused, ClBurst, Press, Engaged, NotEngaged, ArmBurst, Begin,
         Waited, Revoke, Release, DisarmPath, Stand, Moves

LEMMA NextService ==
    ASSUME ClTypes, ServiceInv, [ClosedNext]_closedVars
    PROVE  ServiceInv'
<1>1. CASE Procedure
  BY <1>1, ProcedureFrame DEF ServiceInv
<1>2. CASE OtherCommand
  BY <1>2, OtherFrame DEF ServiceInv
<1>3. CASE SupervisorTaskStep
  BY <1>3 DEF SupervisorTaskStep, Task, Wake, CallPermit, CallWatchdog, CallSimulated, CallFootpad,
              CallCalibration, CallPoll, Call, ServiceInv
<1>4. CASE LoopStep \/ RefloatReads
  BY <1>4 DEF LoopStep, LoopIteration, RefloatReads, RefloatReadsFootpad, driverVars, ServiceInv
<1>5. CASE RefloatAsks \/ EscStep
  BY <1>5, RefloatFrame, EscFrame DEF driverVars, ServiceInv
<1>6. CASE ClosedTick
  BY <1>6 DEF ClosedTick, TimePasses, ServiceInv
<1>7. CASE UNCHANGED closedVars
  BY <1>7 DEF closedVars, taskVars, driverVars, ServiceInv
<1> QED
  BY <1>1, <1>2, <1>3, <1>4, <1>5, <1>6, <1>7 DEF ClosedNext

LEMMA NextOpen ==
    ASSUME ClTypes, OpenInv, [ClosedNext]_closedVars
    PROVE  OpenInv'
<1>0. ClType
  BY DEF ClTypes
<1>1. CASE Procedure
  <2>1. allowed' => cl' \in {"gated", "burst", "revoke"}
    BY <1>1, ProcedureGate, ProcedureGoes DEF OpenInv
  <2>2. state' = "RUNNING" => cl' \in {"burst", "revoke", "release", "disarm", "stand"}
    BY <1>1, ProcedureState, ProcedureGoes DEF OpenInv
  <2>3. state' = "RUNNING" => offFor' = 0
    BY <1>0, <1>1, ProcedureFrame, ClInstantTypes
  <2> QED
    BY <2>1, <2>2, <2>3 DEF OpenInv
<1>2. CASE ~Procedure /\ ~ClosedTick
  BY <1>2, Elsewhere DEF OpenInv, ClosedNext
<1>3. CASE ClosedTick
  <2>1. UNCHANGED <<allowed, cl, state>>
    BY <1>3 DEF ClosedTick, MotorTick, Tick
  <2> QED
    BY <1>3, <2>1, TickClocks DEF OpenInv
<1> QED
  BY <1>1, <1>2, <1>3

\* What a tick does to the deadlines.
LEMMA TickDeadlines ==
    ASSUME ClosedTick
    PROVE  /\ UNCHANGED <<allowed, cl, ms, state>>
           /\ gateLeft' = IF gateLeft > GateGone THEN gateLeft - 1 ELSE gateLeft
           /\ burst' = IF burst > 0 THEN burst - 1 ELSE burst
  BY DEF ClosedTick, MotorTick, Tick

LEMMA NextDeadline ==
    ASSUME ClTypes, OpenInv, DeadlineInv, [ClosedNext]_closedVars
    PROVE  DeadlineInv'
<1>0. /\ ms \in 0 .. BurstMax /\ since \in 0 .. Span /\ gateLeft \in GateGone .. BurstMax
      /\ burst \in NoBurst .. BurstMax /\ (state = "RUNNING" => burst \in 0 .. BurstMax)
  BY DEF ClTypes, ClType, PathType, SupInv, TypeOK, RunningHasDeadline
<1>1. CASE Procedure
  <2>1. ASSUME allowed', cl = "start", cl' = "gated", gateLeft' = GateLeft(ms - since),
               UNCHANGED <<ms, since, supVars>>
        PROVE  DeadlineInv'
    <3>1. state' # "RUNNING"
      BY <2>1 DEF OpenInv, supVars
    <3>2. gateLeft' > 0 => gateLeft' = ms - since
      BY <1>0, <2>1, Numbers DEF GateLeft
    <3>3. gateLeft' <= 0 => ms <= since
      BY <1>0, <2>1, Numbers DEF GateLeft
    <3>4. gateLeft' > 0 => since + gateLeft' = ms
      BY <1>0, <3>2, Numbers
    <3> QED
      BY <1>0, <2>1, <3>1, <3>3, <3>4 DEF DeadlineInv, DeadlinesAgree
  <2>2. ASSUME allowed', allowed, gateLeft' = gateLeft
        PROVE  DeadlineInv'
    <3>1. cl \in {"gated", "burst", "revoke"} /\ UNCHANGED <<ms, since>> /\ cl' # "gated"
      BY <1>1, <2>2, ProcedureGoes DEF OpenInv
    <3>2. CASE state' = "RUNNING" /\ cl = "gated" /\ burst' = Remainder(ms, since)
      <4>1. CASE gateLeft > 0
        <5>1. since + gateLeft = ms
          BY <2>2, <4>1 DEF DeadlineInv
        <5>2. burst' = gateLeft
          BY <1>0, <3>2, <4>1, <5>1, Numbers DEF Remainder
        <5> QED
          BY <2>2, <3>1, <5>1, <5>2 DEF DeadlineInv, DeadlinesAgree
      <4>2. CASE ~(gateLeft > 0)
        <5>1. gateLeft <= 0
          BY <1>0, <4>2, Numbers
        <5>2. since >= ms
          BY <2>2, <3>2, <5>1 DEF DeadlineInv
        <5>3. burst' = 0
          BY <1>0, <3>2, <5>2, Numbers DEF Remainder
        <5> QED
          BY <2>2, <3>1, <4>2, <5>1, <5>3 DEF DeadlineInv, DeadlinesAgree
      <4> QED
        BY <4>1, <4>2
    <3>3. CASE state' = "RUNNING" => state = "RUNNING" /\ burst' = burst
      BY <2>2, <3>1, <3>3 DEF DeadlineInv, DeadlinesAgree
    <3> QED
      BY <1>1, <3>1, <3>2, <3>3, ProcedureState
  <2>3. CASE ~allowed'
    BY <2>3 DEF DeadlineInv, DeadlinesAgree
  <2> QED
    BY <1>1, <2>1, <2>2, <2>3, ProcedureGate
<1>2. CASE ~Procedure /\ ~ClosedTick
  <2>1. /\ UNCHANGED <<cl, ms, since>>
        /\ allowed' => allowed /\ gateLeft' = gateLeft
        /\ state' = "RUNNING" => state = "RUNNING" /\ burst' = burst
    BY <1>2, Elsewhere DEF ClosedNext
  <2> QED
    BY <2>1 DEF DeadlineInv, DeadlinesAgree
<1>3. CASE ClosedTick
  <2>1. /\ UNCHANGED <<allowed, cl, ms, state>>
        /\ gateLeft' = IF gateLeft > GateGone THEN gateLeft - 1 ELSE gateLeft
        /\ burst' = IF burst > 0 THEN burst - 1 ELSE burst
        /\ since' = since \/ since' = since + 1
    BY <1>3, TickDeadlines, TickClocks
  <2>2. ASSUME allowed
        PROVE  cl # "free" /\ (since < Span => since' = since + 1)
    BY <1>3, <2>2, TickClocks DEF OpenInv
  <2>3. ASSUME allowed, gateLeft > 0
        PROVE  since' = since + 1 /\ since + gateLeft = ms
    <3>1. since + gateLeft = ms
      BY <2>3 DEF DeadlineInv
    <3>2. since < Span
      BY <1>0, <2>3, <3>1, Numbers
    <3> QED
      BY <2>2, <2>3, <3>1, <3>2
  <2>4. ASSUME allowed, gateLeft' > 0
        PROVE  since' + gateLeft' = ms
    <3>1. gateLeft > 0 /\ gateLeft' = gateLeft - 1
      BY <1>0, <2>1, <2>4, Numbers
    <3>2. (since + 1) + (gateLeft - 1) = ms
      BY <1>0, <2>3, <2>4, <3>1, Numbers
    <3> QED
      BY <2>3, <2>4, <3>1, <3>2
  <2>5. ASSUME allowed, cl = "gated", gateLeft' <= 0
        PROVE  since' >= ms
    <3>1. CASE gateLeft > 0
      <4>1. gateLeft = 1 /\ since' = since + 1 /\ since + gateLeft = ms
        BY <1>0, <2>1, <2>3, <2>5, <3>1, Numbers
      <4> QED
        BY <1>0, <4>1, Numbers
    <3>2. CASE ~(gateLeft > 0)
      <4>1. gateLeft <= 0
        BY <1>0, <3>2, Numbers
      <4>2. since >= ms
        BY <2>5, <4>1 DEF DeadlineInv
      <4> QED
        BY <1>0, <2>1, <4>2, Numbers
    <3> QED
      BY <3>1, <3>2
  <2>6. ASSUME allowed, state = "RUNNING"
        PROVE  gateLeft' = burst' \/ (gateLeft' <= 0 /\ burst' = 0)
    <3>1. gateLeft = burst \/ (gateLeft <= 0 /\ burst = 0)
      BY <2>6 DEF DeadlineInv, DeadlinesAgree
    <3>2. burst \in 0 .. BurstMax
      BY <1>0, <2>6
    <3>3. CASE burst > 0
      <4>1. gateLeft = burst /\ gateLeft > GateGone
        BY <1>0, <3>1, <3>2, <3>3, Numbers
      <4> QED
        BY <2>1, <3>3, <4>1
    <3>4. CASE ~(burst > 0)
      <4>1. burst = 0 /\ gateLeft <= 0
        BY <1>0, <3>1, <3>2, <3>4, Numbers
      <4>2. burst' = 0 /\ gateLeft' <= 0
        BY <1>0, <2>1, <3>4, <4>1, Numbers
      <4> QED
        BY <4>2
    <3> QED
      BY <3>3, <3>4
  <2> QED
    BY <2>1, <2>4, <2>5, <2>6 DEF DeadlineInv, DeadlinesAgree
<1> QED
  BY <1>1, <1>2, <1>3

-----------------------------------------------------------------------------
(* A current on its way, and a wheel that turns.                           *)

\* Only a request of Refloat that passes the gate comes under way, and it
\* passes while the supervisor runs and the deadline has not come.
LEMMA RefloatComes ==
    ASSUME ClTypes, OpenInv, LateInv, RefloatAsks, call'["refloat"].at \in Under
    PROVE  lateBy <= call'["refloat"].age /\ offFor <= call'["refloat"].age
<1>0. /\ call["refloat"] \in Calls /\ call["refloat"].age \in 0 .. Flight
      /\ call \in [Origins -> Calls] /\ "refloat" \in Origins
      /\ lateBy \in 0 .. LetGo + 1 /\ offFor \in 0 .. LetGo + 1 /\ gateLeft \in GateGone .. BurstMax
  BY DEF ClTypes, PathType, ClType, Calls, Origins
<1>1. ASSUME NEW l \in Levels, Ask("refloat", l)
      PROVE  call'["refloat"].at = "asked"
  BY <1>0, <1>1 DEF Ask
<1>2. CASE Gate("refloat")
  <2>1. ~GateRefuses("refloat") /\ ~GateExpired("refloat") /\ Goes("refloat", "passed")
    <3>1. ~Goes("refloat", "idle")
      <4>1. "idle" \in Stages /\ "idle" \notin Under
        BY DEF Stages, Under
      <4> QED
        BY <1>0, <4>1, GoesType
    <3> QED
      BY <1>2, <3>1 DEF Gate
  <2>2. state = "RUNNING" /\ allowed
    BY <2>1 DEF GateRefuses, MotorOutputPermitted
  <2>3. ~(gateLeft + call["refloat"].age <= 0)
    BY <2>1 DEF GateExpired
  <2>4. gateLeft > GateGone /\ -gateLeft < call["refloat"].age
    BY <1>0, <2>3, Numbers
  <2>5. lateBy = 0 \/ lateBy <= -gateLeft
    BY <2>2, <2>4 DEF LateInv
  <2>6. lateBy <= call["refloat"].age
    BY <1>0, <2>4, <2>5, Numbers
  <2>7. offFor = 0 /\ 0 <= call["refloat"].age
    BY <1>0, <2>2, Numbers DEF OpenInv
  <2>8. call'["refloat"].age = call["refloat"].age
    BY <1>0, <2>1 DEF Goes, Calls
  <2> QED
    BY <2>6, <2>7, <2>8
<1>3. CASE Plan("refloat") \/ SendA("refloat") \/ SendB("refloat")
  <2>1. call["refloat"].at \in Under
    BY <1>3 DEF Plan, SendA, SendB, At, Under
  <2>2. call'["refloat"].age = call["refloat"].age
    <3>1. PICK s \in Stages : Goes("refloat", s)
      BY <1>3 DEF Plan, SendA, SendB, Stages
    <3>2. s # "idle"
      BY <1>0, <3>1 DEF Goes, Under
    <3> QED
      BY <1>0, <3>1, <3>2 DEF Goes, Calls
  <2> QED
    BY <2>1, <2>2 DEF LateInv
<1> QED
  BY <1>1, <1>2, <1>3 DEF RefloatAsks, Request, Under

\* A wheel that is Refloat's was so before, or is reached by a request under way.
LEMMA RefloatReaches ==
    ASSUME ClTypes, LateInv, RefloatAsks, NEW h \in Halves, half'[h].by = "refloat"
    PROVE  lateBy <= Flight + half'[h].quiet /\ offFor <= Flight + half'[h].quiet
<1>0. /\ call["refloat"].age \in 0 .. Flight /\ half \in [Halves -> Currents \cup {Free}]
      /\ lateBy \in 0 .. LetGo + 1 /\ offFor \in 0 .. LetGo + 1
  BY DEF ClTypes, PathType, ClType, Calls, Origins
<1>1. CASE half'[h] = half[h]
  BY <1>1 DEF LateInv
<1>2. CASE half'[h] # half[h]
  <2>1. call["refloat"].at \in Under /\ half'[h] = Commanded("refloat")
    BY <1>0, <1>2 DEF RefloatAsks, Request, Gate, Plan, SendA, SendB, Reached, At, Under
  <2>2. lateBy <= call["refloat"].age /\ offFor <= call["refloat"].age /\ half'[h].quiet = 0
    BY <2>1 DEF LateInv, Commanded
  <2> QED
    BY <1>0, <2>2, Numbers
<1> QED
  BY <1>1, <1>2

LEMMA NextLate ==
    ASSUME ClTypes, OpenInv, DeadlineInv, LateInv, [ClosedNext]_closedVars
    PROVE  LateInv'
<1>0. /\ ms \in 0 .. BurstMax /\ since \in 0 .. Span /\ gateLeft \in GateGone .. BurstMax
      /\ lateBy \in 0 .. LetGo + 1 /\ offFor \in 0 .. LetGo + 1
      /\ call["refloat"] \in Calls /\ call["refloat"].age \in 0 .. Flight
      /\ half \in [Halves -> Currents \cup {Free}]
  BY DEF ClTypes, ClType, PathType, Calls, Origins
<1>q. \A h \in Halves : half[h].by = "refloat" => half[h].quiet \in 0 .. EscMax
  BY <1>0 DEF Currents, Free
<1>1. ASSUME Procedure \/ ~ClosedTick
      PROVE  offFor' \in {0, offFor} /\ lateBy' \in {0, lateBy}
  <2>1. CASE Procedure
    BY <2>1, ProcedureFrame, ClInstantTypes DEF ClTypes
  <2> QED
    BY <1>1, <2>1, Elsewhere DEF ClosedNext
<1>2. \* The request and the wheels, in a step that takes no time.
      ASSUME Procedure \/ ~ClosedTick
      PROVE  /\ call'["refloat"].at \in Under =>
                    lateBy' <= call'["refloat"].age /\ offFor' <= call'["refloat"].age
             /\ \A h \in Halves : half'[h].by = "refloat" =>
                    lateBy' <= Flight + half'[h].quiet /\ offFor' <= Flight + half'[h].quiet
  <2>0. call'["refloat"].age \in 0 .. Flight /\ half' \in [Halves -> Currents \cup {Free}]
    BY NextTypes DEF ClTypes, PathType, Calls, Origins
  <2>1. CASE RefloatAsks
    <3>1. ASSUME call'["refloat"].at \in Under
          PROVE  lateBy' <= call'["refloat"].age /\ offFor' <= call'["refloat"].age
      BY <1>1, <1>2, <2>0, <2>1, <3>1, RefloatComes, Numbers
    <3>2. ASSUME NEW h \in Halves, half'[h].by = "refloat"
          PROVE  lateBy' <= Flight + half'[h].quiet /\ offFor' <= Flight + half'[h].quiet
      <4>1. half'[h].quiet \in 0 .. EscMax
        BY <2>0, <3>2 DEF Currents, Free
      <4>2. lateBy <= Flight + half'[h].quiet /\ offFor <= Flight + half'[h].quiet
        BY <2>1, <3>2, RefloatReaches
      <4>3. 0 <= Flight + half'[h].quiet
        BY <4>1, Numbers
      <4> QED
        BY <1>1, <1>2, <4>2, <4>3
    <3> QED
      BY <3>1, <3>2
  <2>2. CASE UNCHANGED call /\ \A h \in Halves : half'[h] \in {half[h], Free}
    <3>1. \A h \in Halves : half'[h].by = "refloat" => half'[h] = half[h]
      BY <2>2 DEF Free
    <3>2. \A h \in Halves : half[h].by = "refloat" => 0 <= Flight + half[h].quiet
      BY <1>q, Numbers
    <3>3. 0 <= call["refloat"].age
      BY <1>0, Numbers
    <3> QED
      BY <1>1, <1>2, <2>2, <3>1, <3>2, <3>3 DEF LateInv
  <2>3. CASE EscStep
    <3>1. PICK e \in Halves : EscReleases(e)
      BY <2>3 DEF EscStep
    <3>2. UNCHANGED call /\ \A h \in Halves : half'[h] \in {half[h], Free}
      BY <1>0, <3>1 DEF EscReleases
    <3> QED
      BY <2>2, <3>2
  <2>4. CASE ~RefloatAsks /\ ~EscStep
    <3>1. UNCHANGED <<call, half>>
      BY <1>2, <2>4, ProcedureFrame, OtherFrame, SupervisorTaskFrame DEF ClosedNext, pathVars, closedVars
    <3> QED
      BY <2>2, <3>1
  <2> QED
    BY <2>1, <2>3, <2>4
<1>3. CASE Procedure
  <2>1. ASSUME cl' = "start"
        PROVE  lateBy' = 0
    BY <1>3, <2>1, ProcedureFrame, ClInstantTypes DEF ClTypes
  <2>2. ASSUME allowed', gateLeft' > GateGone
        PROVE  lateBy' = 0 \/ lateBy' <= -gateLeft'
    <3>1. CASE cl = "start" /\ gateLeft' = GateLeft(ms - since)
      <4>1. gateLeft' = ms - since /\ ms - since > GateGone
        BY <1>0, <2>2, <3>1, Numbers DEF GateLeft
      <4>2. since # Span
        BY <1>0, <4>1, Numbers
      <4>3. lateBy = 0 \/ lateBy <= since - ms
        BY <3>1, <4>2 DEF LateInv
      <4>4. since - ms = -(ms - since)
        BY <1>0, Numbers
      <4> QED
        BY <1>1, <1>3, <3>1, <4>1, <4>3, <4>4
    <3>2. CASE allowed /\ gateLeft' = gateLeft
      BY <1>1, <1>3, <2>2, <3>2 DEF LateInv
    <3> QED
      BY <1>3, <2>2, <3>1, <3>2, ProcedureGate
  <2> QED
    BY <1>2, <1>3, <2>1, <2>2 DEF LateInv
<1>4. CASE ~Procedure /\ ~ClosedTick
  <2>1. UNCHANGED <<cl, ms, since>> /\ (allowed' => allowed /\ gateLeft' = gateLeft)
    BY <1>4, Elsewhere DEF ClosedNext
  <2> QED
    BY <1>1, <1>2, <1>4, <2>1 DEF LateInv
<1>5. CASE ClosedTick
  <2>1. /\ UNCHANGED <<allowed, cl, ms>>
        /\ gateLeft' = IF gateLeft > GateGone THEN gateLeft - 1 ELSE gateLeft
        /\ since' \in 0 .. Span
        /\ since' = since \/ since' = since + 1
        /\ cl # "free" /\ since < Span => since' = since + 1
        /\ offFor' \in {0, Counts(offFor)} /\ lateBy' \in {0, Counts(lateBy)}
        /\ Counts(offFor) \in Nat /\ Counts(offFor) <= offFor + 1
        /\ Counts(lateBy) \in Nat /\ Counts(lateBy) <= lateBy + 1
        /\ cl \notin {"free", "settle", "wait"} /\ since' <= ms => lateBy' = 0
    BY <1>5, TickDeadlines, TickClocks
  <2>2. lateBy' \in Nat /\ offFor' \in Nat /\ lateBy' <= lateBy + 1 /\ offFor' <= offFor + 1
    BY <1>0, <2>1, Numbers
  <2>3. ASSUME cl = "start"
        PROVE  lateBy' = 0 \/ lateBy' <= since' - ms \/ since' = Span
    <3>1. CASE since' <= ms
      BY <2>1, <2>3, <3>1
    <3>2. CASE ~(since' <= ms) /\ since < Span
      <4>1. since' = since + 1 /\ since' > ms
        BY <1>0, <2>1, <2>3, <3>2, Numbers
      <4>2. lateBy = 0 \/ lateBy <= since - ms
        BY <1>0, <2>3, <3>2 DEF LateInv
      <4>3. lateBy' <= (since + 1) - ms
        BY <1>0, <2>2, <4>1, <4>2, Numbers
      <4> QED
        BY <4>1, <4>3
    <3>3. CASE ~(since < Span)
      <4>1. since = Span
        BY <1>0, <3>3, Numbers
      <4>2. since' = Span
        BY <2>1, <4>1, Numbers
      <4> QED
        BY <4>2
    <3> QED
      BY <3>1, <3>2, <3>3
  <2>4. ASSUME allowed, gateLeft' > GateGone
        PROVE  lateBy' = 0 \/ lateBy' <= -gateLeft'
    <3>1. gateLeft > GateGone /\ gateLeft' = gateLeft - 1
      BY <1>0, <2>1, <2>4, Numbers
    <3>2. lateBy = 0 \/ lateBy <= -gateLeft
      BY <2>4, <3>1 DEF LateInv
    <3>3. CASE gateLeft > 0
      <4>1. since + gateLeft = ms
        BY <2>4, <3>3 DEF DeadlineInv
      <4>2. since' <= ms
        BY <1>0, <2>1, <3>3, <4>1, Numbers
      <4> QED
        BY <2>1, <2>4, <4>2 DEF OpenInv
    <3>4. CASE ~(gateLeft > 0)
      <4>1. lateBy <= -gateLeft
        BY <1>0, <3>2, <3>4, Numbers
      <4>2. lateBy + 1 <= -(gateLeft - 1)
        BY <1>0, <4>1, Numbers
      <4>3. lateBy' <= -(gateLeft - 1)
        BY <1>0, <2>2, <4>2, Numbers
      <4> QED
        BY <3>1, <4>3
    <3> QED
      BY <3>3, <3>4
  <2>5. ASSUME call'["refloat"].at \in Under
        PROVE  lateBy' <= call'["refloat"].age /\ offFor' <= call'["refloat"].age
    <3>1. call["refloat"].at \in Under /\ call'["refloat"].age = call["refloat"].age + 1
      BY <1>5, <2>5, TickCalls DEF ClosedTick, ClTypes, Under, Origins
    <3>2. lateBy <= call["refloat"].age /\ offFor <= call["refloat"].age
      BY <3>1 DEF LateInv
    <3>3. lateBy' <= call["refloat"].age + 1 /\ offFor' <= call["refloat"].age + 1
      BY <1>0, <2>2, <3>2, Numbers
    <3> QED
      BY <3>1, <3>3
  <2>6. ASSUME NEW h \in Halves, half'[h].by = "refloat"
        PROVE  lateBy' <= Flight + half'[h].quiet /\ offFor' <= Flight + half'[h].quiet
    <3>1. half'[h] # Free /\ half[h] # Free /\ half'[h].quiet = half[h].quiet + 1
      BY <1>5, <2>6, TickType DEF ClosedTick, ClTypes, Free
    <3>2. half[h].by = "refloat"
      BY <1>0, <1>5, <2>6, <3>1 DEF ClosedTick, MotorTick, Driven, Currents
    <3>3. lateBy <= Flight + half[h].quiet /\ offFor <= Flight + half[h].quiet
      BY <3>2 DEF LateInv
    <3>4. half[h].quiet \in 0 .. EscMax
      BY <1>q, <3>2
    <3>5. lateBy' <= Flight + (half[h].quiet + 1) /\ offFor' <= Flight + (half[h].quiet + 1)
      BY <1>0, <2>2, <3>3, <3>4, Numbers
    <3> QED
      BY <3>1, <3>5
  <2> QED
    BY <2>1, <2>3, <2>4, <2>5, <2>6 DEF LateInv
<1> QED
  BY <1>3, <1>4, <1>5

-----------------------------------------------------------------------------
(* The press of the bench.                                                 *)

\* What the steps that take no part in the press leave alone.
LEMMA PressKeeps ==
    ASSUME OtherCommand \/ LoopStep \/ RefloatAsks \/ EscStep \/ UNCHANGED closedVars
    PROVE  /\ UNCHANGED <<cl, since, step, sinceRun, engaged, in.simulated, in.footpad>>
           /\ cl # "free" => UNCHANGED simActive
<1>1. CASE OtherCommand
  BY <1>1, OtherFrame
<1>2. CASE LoopStep
  BY <1>2 DEF LoopStep, LoopIteration, driverVars, clVars
<1>3. CASE RefloatAsks \/ EscStep
  BY <1>3, RefloatFrame, EscFrame DEF driverVars, supVars, clVars
<1>4. CASE UNCHANGED closedVars
  BY <1>4 DEF closedVars, taskVars, driverVars, supVars, clVars
<1> QED
  BY <1>1, <1>2, <1>3, <1>4

\* One iteration of the supervisor's task, as far as the press is concerned.
LEMMA PressCalls ==
    ASSUME in \in Inputs, SupervisorTaskStep
    PROVE  /\ UNCHANGED <<cl, since, engaged, simActive>>
           /\ \/ /\ step = "idle" /\ step' = "permit" /\ sinceRun = PollPeriod
                 /\ UNCHANGED <<in.simulated, in.footpad>>
              \/ /\ step = "permit" /\ step' = "watchdog" /\ UNCHANGED sinceRun
                 /\ UNCHANGED <<in.simulated, in.footpad>>
              \/ /\ step = "watchdog" /\ step' = "simulated" /\ UNCHANGED sinceRun
                 /\ UNCHANGED <<in.simulated, in.footpad>>
              \/ /\ step = "simulated" /\ step' = "footpad" /\ UNCHANGED sinceRun
                 /\ in'.simulated = simActive /\ UNCHANGED in.footpad
              \/ /\ step = "footpad" /\ step' = "calibration" /\ UNCHANGED sinceRun
                 /\ in'.footpad = engaged /\ UNCHANGED in.simulated
              \/ /\ step = "calibration" /\ step' = "poll" /\ UNCHANGED sinceRun
                 /\ UNCHANGED <<in.simulated, in.footpad>>
              \/ /\ step = "poll" /\ step' = "idle" /\ UNCHANGED sinceRun
                 /\ UNCHANGED <<in.simulated, in.footpad>>
<1>0. UNCHANGED <<cl, since, simActive>>
  BY SupervisorTaskFrame DEF clVars
<1>1. CASE Wake
  BY <1>0, <1>1 DEF Wake, supVars
<1>2. CASE CallPermit
  BY <1>0, <1>2, AfterNames DEF CallPermit, Call, After, ReportImuPermit, supVars, Inputs
<1>3. CASE CallWatchdog
  BY <1>0, <1>3, AfterNames DEF CallWatchdog, Call, After, ReportWatchdog, Inputs
<1>4. CASE CallSimulated
  BY <1>0, <1>4, AfterNames DEF CallSimulated, Call, After, ReportFootpadSimulated, Inputs
<1>5. CASE CallFootpad
  BY <1>0, <1>5, AfterNames DEF CallFootpad, Call, After, ReportFootpad, Inputs
<1>6. CASE CallCalibration
  BY <1>0, <1>6, AfterNames DEF CallCalibration, Call, After, ReportCalibrationValid, Inputs
<1>7. CASE CallPoll
  BY <1>0, <1>7, AfterNames DEF CallPoll, Call, After, Poll, PolledInputs, Inputs
<1> QED
  BY <1>1, <1>2, <1>3, <1>4, <1>5, <1>6, <1>7 DEF SupervisorTaskStep, Task

\* What the procedure and the clock do to it.
LEMMA PressProcedure ==
    ASSUME Procedure
    PROVE  /\ UNCHANGED <<step, sinceRun, engaged, in>>
           /\ cl' = "settle" => since' = 0 /\ (~engaged \/ simActive) /\ UNCHANGED simActive
           /\ cl' = "wait" => cl = "settle" /\ since >= Settle /\ simActive'
           /\ cl' \in {"start", "gated", "burst"} => cl \in BurstPlaces /\ UNCHANGED simActive
<1>1. cl' = "settle" => since' = 0 /\ (~engaged \/ simActive) /\ UNCHANGED simActive
  BY DEF Procedure, ClReady, ClReadyRefused, ClBurst, MayEnter, ClInputs, Press, Engaged, NotEngaged,
         ArmBurst, Begin, Waited, Revoke, Release, DisarmPath, Stand, Moves, driverVars
<1>2. cl' = "wait" => cl = "settle" /\ since >= Settle /\ simActive'
  BY DEF Procedure, ClReady, ClReadyRefused, ClBurst, Press, Engaged, NotEngaged,
         ArmBurst, Begin, Waited, Revoke, Release, DisarmPath, Stand, Moves
<1>3. cl' \in {"start", "gated", "burst"} => cl \in BurstPlaces /\ UNCHANGED simActive
  BY DEF Procedure, ClReady, ClReadyRefused, ClBurst, Press, Engaged, NotEngaged, ArmBurst, Begin,
         Waited, Revoke, Release, DisarmPath, Stand, Moves, driverVars, BurstPlaces
<1> QED
  BY <1>1, <1>2, <1>3, ProcedureFrame

LEMMA NextSettle ==
    ASSUME ClTypes, ServiceInv, SettleInv, [ClosedNext]_closedVars
    PROVE  SettleInv'
<1>0. /\ since \in 0 .. Span /\ sinceRun \in 0 .. PollPeriod /\ in \in Inputs
      /\ simActive \in BOOLEAN /\ engaged \in BOOLEAN
  BY DEF ClTypes, ClType, DriverType, SupInv, TypeOK
<1>1. CASE Procedure
  <2>1. ASSUME cl' = "settle"
        PROVE  since' = 0 /\ (engaged' => simActive') /\ sinceRun' \in 0 .. PollPeriod
    BY <1>0, <1>1, <2>1, PressProcedure
  <2>2. ~(0 > PollPeriod) /\ ~(0 > 0) /\ \A n \in 0 .. PollPeriod : ~(0 > n)
    BY Numbers
  <2> QED
    BY <2>1, <2>2 DEF SettleInv
<1>2. CASE OtherCommand \/ LoopStep \/ RefloatAsks \/ EscStep \/ UNCHANGED closedVars
  <2>1. SUFFICES ASSUME cl' = "settle"
                 PROVE  SettleInv'
    BY DEF SettleInv
  <2>2. /\ cl = "settle"
        /\ UNCHANGED <<since, step, sinceRun, engaged, simActive, in.simulated, in.footpad>>
    BY <1>2, <2>1, PressKeeps
  <2> QED
    BY <2>2 DEF SettleInv, Explained
<1>3. CASE SupervisorTaskStep
  <2>1. SUFFICES ASSUME cl = "settle"
                 PROVE  SettleInv'
    BY <1>0, <1>3, PressCalls DEF SettleInv
  <2>2. UNCHANGED <<cl, since, engaged, simActive>>
    BY <1>0, <1>3, PressCalls
  <2>3. CASE step = "idle" /\ step' = "permit" /\ sinceRun = PollPeriod
             /\ UNCHANGED <<in.simulated, in.footpad>>
    BY <2>1, <2>2, <2>3 DEF SettleInv, Explained
  <2>4. CASE \/ step = "permit" /\ step' = "watchdog" /\ UNCHANGED <<in.simulated, in.footpad>>
             \/ step = "watchdog" /\ step' = "simulated" /\ UNCHANGED <<in.simulated, in.footpad>>
             \/ step = "calibration" /\ step' = "poll" /\ UNCHANGED <<in.simulated, in.footpad>>
    BY <2>1, <2>2, <2>4 DEF SettleInv, Explained
  <2>5. CASE step = "simulated" /\ step' = "footpad" /\ in'.simulated = simActive /\ UNCHANGED in.footpad
    BY <2>1, <2>2, <2>5 DEF SettleInv, Explained
  <2>6. CASE step = "footpad" /\ step' = "calibration" /\ in'.footpad = engaged /\ UNCHANGED in.simulated
    BY <2>1, <2>2, <2>6 DEF SettleInv, Explained
  <2>7. CASE step = "poll" /\ step' = "idle" /\ UNCHANGED sinceRun /\ UNCHANGED <<in.simulated, in.footpad>>
    <3>1. sinceRun' = 0
      BY <2>7 DEF ServiceInv
    <3> QED
      BY <2>1, <2>2, <2>7, <3>1 DEF SettleInv, Explained
  <2> QED
    BY <1>0, <1>3, PressCalls, <2>3, <2>4, <2>5, <2>6, <2>7
<1>4. CASE RefloatReads
  BY <1>4 DEF RefloatReads, RefloatReadsFootpad, clVars, supVars, SettleInv, Explained
<1>5. CASE ClosedTick
  <2>1. /\ UNCHANGED <<cl, engaged, simActive, in, step>> /\ step = "idle"
        /\ phase = "service" => sinceRun' = sinceRun + 1
    BY <1>5 DEF ClosedTick, TimePasses, Tick
  <2>2. since' = since \/ since' = since + 1
    BY <1>5, TickClocks
  <2>3. sinceRun' = sinceRun + 1
    BY <2>1 DEF ServiceInv
  <2>4. since' > sinceRun' => since > sinceRun
    <3>1. since > sinceRun + 1 => since > sinceRun
      BY <1>0, Numbers
    <3>2. since + 1 > sinceRun + 1 => since > sinceRun
      BY <1>0, Numbers
    <3> QED
      BY <2>2, <2>3, <3>1, <3>2
  <2> QED
    BY <2>1, <2>4 DEF SettleInv, Explained
<1> QED
  BY <1>1, <1>2, <1>3, <1>4, <1>5 DEF ClosedNext

\* When the console presses, the settling is over.
LEMMA Settled ==
    ASSUME ClTypes, ServiceInv, SettleInv, cl = "settle", since >= Settle
    PROVE  Explained /\ (step = "footpad" => in.simulated \/ ~engaged)
<1>0. since \in 0 .. Span /\ sinceRun \in 0 .. PollPeriod /\ step \in Names \cup {"idle"}
  BY DEF ClTypes, ClType, DriverType
<1>1. since > PollPeriod /\ since > 0 /\ since > sinceRun
  BY <1>0, Numbers
<1>2. step \in {"idle", "permit", "watchdog", "simulated", "footpad", "calibration", "poll"}
  BY <1>0, AfterNames
<1>3. Explained
  BY <1>1, <1>2 DEF SettleInv
<1>4. step = "footpad" => in.simulated \/ ~engaged
  BY <1>1 DEF SettleInv
<1> QED
  BY <1>3, <1>4

LEMMA NextPressed ==
    ASSUME ClTypes, ServiceInv, SettleInv, PressedInv, [ClosedNext]_closedVars
    PROVE  PressedInv'
<1>0. in \in Inputs
  BY DEF ClTypes, SupInv, TypeOK
<1>1. CASE Procedure
  <2>1. UNCHANGED <<step, engaged, in>>
    BY <1>1, PressProcedure
  <2>2. CASE cl' = "wait"
    <3>1. cl = "settle" /\ since >= Settle /\ simActive'
      BY <1>1, <2>2, PressProcedure
    <3> QED
      BY <2>1, <3>1, Settled DEF PressedInv, BenchPressNotRider, Explained
  <2>3. CASE cl' \in {"start", "gated", "burst"}
    <3>1. cl \in BurstPlaces /\ UNCHANGED simActive
      BY <1>1, <2>3, PressProcedure
    <3> QED
      BY <2>1, <3>1 DEF PressedInv, BenchPressNotRider, BurstPlaces
  <2>4. CASE cl' \notin BurstPlaces
    BY <2>4 DEF PressedInv
  <2> QED
    BY <2>2, <2>3, <2>4 DEF BurstPlaces
<1>2. CASE OtherCommand \/ LoopStep \/ RefloatAsks \/ EscStep \/ UNCHANGED closedVars
  <2>1. CASE cl' \notin BurstPlaces
    BY <2>1 DEF PressedInv
  <2>2. CASE cl' \in BurstPlaces
    <3>1. UNCHANGED <<cl, step, engaged, simActive, in.simulated, in.footpad>>
      BY <1>2, <2>2, PressKeeps DEF BurstPlaces
    <3> QED
      BY <2>2, <3>1 DEF PressedInv, BenchPressNotRider
  <2> QED
    BY <2>1, <2>2
<1>3. CASE SupervisorTaskStep
  <2>1. CASE cl \notin BurstPlaces
    BY <1>0, <1>3, <2>1, PressCalls DEF PressedInv
  <2>2. CASE cl \in BurstPlaces
    BY <1>0, <1>3, <2>2, PressCalls DEF PressedInv, BenchPressNotRider, BurstPlaces
  <2> QED
    BY <2>1, <2>2
<1>4. CASE RefloatReads
  BY <1>4 DEF RefloatReads, RefloatReadsFootpad, clVars, supVars, PressedInv, BenchPressNotRider
<1>5. CASE ClosedTick
  BY <1>5 DEF ClosedTick, TimePasses, Tick, PressedInv, BenchPressNotRider
<1> QED
  BY <1>1, <1>2, <1>3, <1>4, <1>5 DEF ClosedNext

-----------------------------------------------------------------------------
(* The promise of WheelPair: in a burst the one source is Refloat.         *)

LEMMA InitBurstPair == ClosedInit => Single("refloat") /\ Pair!Init
<1> SUFFICES ASSUME ClosedInit PROVE Single("refloat") /\ Pair!Init
  OBVIOUS
<1>1. \A o \in Origins : call[o].at = "idle"
  BY DEF ClosedInit, MotorInit, NoCall
<1>2. Single("refloat")
  BY <1>1 DEF Single, Origins
<1>3. OpenPairs = {}
  BY <1>1, <1>2, OpenOf DEF Sending, Origins
<1>4. Obeyed = [h \in Pair!Halves |-> [by |-> "nobody", amps |-> 0]]
  BY DEF ClosedInit, MotorInit, Obeyed, Free, Halves, Pair!Halves
<1> QED
  BY <1>2, <1>3, <1>4 DEF Pair!Init, ClosedInit, MotorInit

LEMMA NextBurstPair ==
    ASSUME ClTypes, Single("refloat"), [ClosedNext]_closedVars
    PROVE  Single("refloat")' /\ PairStep
<1>0. PathType /\ "refloat" \in Origins
  BY DEF ClTypes, Origins
<1>1. CASE UNCHANGED <<call, half>> /\ (latched' = latched \/ latched' = FALSE)
  BY <1>0, <1>1, StillSingle
<1>2. CASE Procedure
  BY <1>1, <1>2, ProcedureFrame
<1>3. CASE OtherCommand
  <2>1. latched' = latched \/ latched' = FALSE
    BY <1>3 DEF OtherCommand, SimulateFootpad, MotorArm, MotorDisarm, MotorClear, TryArm,
                ExperimentDisarm, pathVars, coordVars
  <2> QED
    BY <1>1, <1>3, <2>1, OtherFrame
<1>4. CASE SupervisorTaskStep \/ LoopStep \/ RefloatReads
  BY <1>1, <1>4, SupervisorTaskFrame DEF pathVars, coordVars
<1>5. ASSUME NEW l \in Levels, Ask("refloat", l), UNCHANGED <<coordVars, half>>
      PROVE  Single("refloat")' /\ PairStep
  <2>1. /\ call["refloat"].at = "idle" /\ call'["refloat"].at = "asked"
        /\ call'["experiment"] = call["experiment"] /\ UNCHANGED <<half, latched>>
    BY <1>0, <1>5, AskType DEF PathType, Ask, At, coordVars, Origins
  <2> QED
    BY <1>0, <2>1, StillSingle DEF Sending, Origins
<1>6. CASE Request("refloat")
  BY <1>0, <1>6, RequestSingle, RequestPair
<1>7. CASE RefloatAsks
  BY <1>5, <1>6, <1>7 DEF RefloatAsks
<1>8. ASSUME NEW h \in Halves, EscReleases(h)
      PROVE  Single("refloat")' /\ PairStep
  <2>1. UNCHANGED <<call, latched>>
    BY <1>8 DEF EscReleases, coordVars
  <2> QED
    BY <1>0, <1>8, <2>1, ReleasePair DEF Single
<1>9. CASE ClosedTick
  <2>1. MotorTick
    BY <1>9 DEF ClosedTick
  <2>2. Single("refloat")'
    <3>1. ASSUME NEW o \in Origins
          PROVE  call'[o].at = call[o].at
      BY <1>0, <2>1 DEF MotorTick, PathType, Calls
    <3> QED
      BY <1>0, <2>1, <3>1 DEF MotorTick, coordVars, Single
  <2> QED
    BY <1>0, <2>1, <2>2, TickPair
<1>10. CASE UNCHANGED closedVars
  BY <1>1, <1>10 DEF closedVars, coordVars
<1> QED
  BY <1>2, <1>3, <1>4, <1>7, <1>8, <1>9, <1>10 DEF ClosedNext, EscStep

-----------------------------------------------------------------------------
LEMMA NextClosed == ClInv /\ [ClosedNext]_closedVars => ClInv'
  BY NextTypes, NextService, NextOpen, NextDeadline, NextLate, NextSettle, NextPressed DEF ClInv

-----------------------------------------------------------------------------
(* The bench source beside a burst: its commands and its task touch nothing *)
(* of what ClInv says.                                                      *)

BenchStep == BenchCommand \/ ProducerStep

LEMMA BenchFrame ==
    ASSUME ClTypes, BenchStep
    PROVE  /\ UNCHANGED supVars /\ UNCHANGED driverVars /\ UNCHANGED <<grant, clVars, refRunning>>
           /\ Instant /\ ClInstant
           /\ PathType'
           /\ allowed' => allowed /\ gateLeft' = gateLeft
           /\ call'["refloat"] = call["refloat"]
           /\ \A h \in Halves : half'[h].by = "refloat" => half'[h] = half[h]
<1>0. PathType /\ Origins = {"experiment", "refloat"}
  BY DEF ClTypes, Origins
<1>1. UNCHANGED driverVars /\ UNCHANGED <<grant, clVars, refRunning>> /\ Instant /\ ClInstant
  BY DEF BenchStep, BenchCommand, ProducerStep
<1>2. ASSUME NEW l \in Levels, Ask("experiment", l), UNCHANGED <<supVars, gateVars, coordVars, benchVars, half>>
      PROVE  /\ UNCHANGED supVars /\ PathType' /\ UNCHANGED <<gateVars, half>>
             /\ call'["refloat"] = call["refloat"]
  BY <1>0, <1>2, AskType DEF PathType, gateVars, coordVars, benchVars
<1>3. CASE BenchCommand
  <2>1. PathType' /\ UNCHANGED supVars
    BY <1>0, <1>3, CommandType DEF BenchCommand
  <2>2. UNCHANGED <<gateVars, half>>
    BY <1>3 DEF BenchCommand, MotorStop, OneShot, MotorRun
  <2>3. call'["refloat"] = call["refloat"]
    <3>1. ASSUME NEW l \in Levels, OneShot(l)
          PROVE  call'["refloat"] = call["refloat"]
      BY <1>2, <3>1 DEF OneShot
    <3>2. ASSUME NEW l \in Levels, NEW t \in 0 .. RunMax + 1, MotorRun(l, t)
          PROVE  call'["refloat"] = call["refloat"]
      BY <1>0, <3>2 DEF MotorRun, PathType
    <3> QED
      BY <1>3, <3>1, <3>2 DEF BenchCommand, MotorStop
  <2> QED
    BY <1>1, <2>1, <2>2, <2>3 DEF gateVars
<1>4. CASE ProducerAsks
  <2>1. call["experiment"].amps \in Levels
    BY <1>0 DEF PathType, Calls
  <2> QED
    BY <1>1, <1>2, <1>4, <2>1 DEF ProducerAsks, gateVars
<1>5. CASE ProducerEnds
  <2>1. PathType'
    BY <1>0, <1>5 DEF ProducerEnds, PathType, gateVars, coordVars
  <2> QED
    BY <1>1, <1>5, <2>1 DEF ProducerEnds, gateVars
<1>6. CASE Request("experiment")
  <2>1. PathType' /\ UNCHANGED supVars
    BY <1>0, <1>6, RequestType
  <2>2. allowed' => allowed /\ gateLeft' = gateLeft
    BY <1>6 DEF Request, Gate, Plan, SendA, SendB, RevokeBurst, gateVars
  <2>3. call'["refloat"] = call["refloat"]
    BY <1>0, <1>6, RequestGoes
  <2>4. ASSUME NEW h \in Halves, half'[h].by = "refloat"
        PROVE  half'[h] = half[h]
    <3>1. half \in [Halves -> Currents \cup {Free}] /\ Commanded("experiment").by # "refloat"
      BY <1>0 DEF PathType, Commanded
    <3>2. \/ half' = half
          \/ \E k \in Halves : half' = [half EXCEPT ![k] = Commanded("experiment")]
      BY <1>6 DEF Request, Gate, Plan, SendA, SendB, Reached, Halves
    <3> QED
      BY <2>4, <3>1, <3>2
  <2> QED
    BY <1>1, <2>1, <2>2, <2>3, <2>4
<1> QED
  BY <1>3, <1>4, <1>5, <1>6 DEF BenchStep, ProducerStep

LEMMA BenchKeeps ==
    ASSUME ClInv, BenchStep
    PROVE  ClInv'
<1>0. ClTypes /\ SupInv /\ DriverType /\ PathType /\ ClType
  BY DEF ClInv, ClTypes
<1>1. /\ UNCHANGED supVars /\ UNCHANGED driverVars /\ UNCHANGED <<grant, clVars, refRunning>>
      /\ Instant /\ ClInstant /\ PathType'
      /\ allowed' => allowed /\ gateLeft' = gateLeft
      /\ call'["refloat"] = call["refloat"]
      /\ \A h \in Halves : half'[h].by = "refloat" => half'[h] = half[h]
  BY <1>0, BenchFrame
<1>2. /\ offFor' \in {0, offFor} /\ lateBy' \in {0, lateBy}
      /\ state' = "RUNNING" => offFor' = 0
      /\ cl' = "start" => lateBy' = 0
      /\ offFor' \in 0 .. LetGo + 1 /\ lateBy' \in 0 .. LetGo + 1
  BY <1>0, <1>1, ClInstantTypes
<1>3. ClTypes'
  <2>1. SupInv'
    BY <1>0, <1>1, SupUntouched
  <2>2. DriverType'
    BY <1>0, <1>1, InstantTypes DEF DriverType, driverVars
  <2>3. ClType'
    BY <1>0, <1>1, <1>2 DEF ClType, clVars
  <2> QED
    BY <1>1, <2>1, <2>2, <2>3 DEF ClTypes
<1>4. ServiceInv' /\ SettleInv' /\ PressedInv'
  BY <1>1 DEF ClInv, ServiceInv, SettleInv, PressedInv, Explained, BenchPressNotRider,
              supVars, driverVars, clVars
<1>5. OpenInv' /\ DeadlineInv'
  BY <1>1, <1>2 DEF ClInv, OpenInv, DeadlineInv, DeadlinesAgree, supVars, clVars
<1>6. LateInv'
  <2>1. /\ call["refloat"].age \in 0 .. Flight
        /\ \A h \in Halves : half[h].by = "refloat" => half[h].quiet \in 0 .. EscMax
    BY <1>0 DEF PathType, Calls, Currents, Free, Origins
  <2>2. 0 <= call["refloat"].age
        /\ \A h \in Halves : half[h].by = "refloat" => 0 <= Flight + half[h].quiet
    BY <2>1, Numbers
  <2>3. allowed' /\ gateLeft' > GateGone => lateBy' = 0 \/ lateBy' <= -gateLeft'
    BY <1>1, <1>2 DEF ClInv, LateInv
  <2>4. call'["refloat"].at \in Under =>
            lateBy' <= call'["refloat"].age /\ offFor' <= call'["refloat"].age
    BY <1>1, <1>2, <2>2 DEF ClInv, LateInv
  <2>5. ASSUME NEW h \in Halves, half'[h].by = "refloat"
        PROVE  lateBy' <= Flight + half'[h].quiet /\ offFor' <= Flight + half'[h].quiet
    BY <1>1, <1>2, <2>2, <2>5 DEF ClInv, LateInv
  <2> QED
    BY <1>2, <2>3, <2>4, <2>5 DEF LateInv
<1> QED
  BY <1>3, <1>4, <1>5, <1>6 DEF ClInv

-----------------------------------------------------------------------------
LEMMA ClosedAlways == ClosedSpec => []ClInv
  BY InitClosed, NextClosed, PTL DEF ClosedSpec

\* ClosedTypeOK (cl_burst and its console state): every variable of a burst keeps its type.
THEOREM ClosedTypeCorrect == ClosedSpec => []ClosedTypeOK
<1>1. ClInv => ClosedTypeOK
  BY ClosedParts DEF ClInv
<1> QED
  BY <1>1, ClosedAlways, PTL

\* A wheel of Refloat's that has been fed since is quiet for at most EscMax.
LEMMA QuietSoon ==
    ASSUME ClInv, NEW n \in 0 .. LetGo + 1, n > LetGo,
           \A h \in Halves : half[h].by = "refloat" => n <= Flight + half[h].quiet
    PROVE  ~RefloatDrives
<1>1. SUFFICES ASSUME NEW h \in Halves, half[h].by = "refloat"
               PROVE  FALSE
  BY DEF RefloatDrives
<1>2. half[h].quiet \in 0 .. EscMax
  BY <1>1 DEF ClInv, ClTypes, PathType, Currents, Free
<1>3. n <= Flight + half[h].quiet
  BY <1>1
<1> QED
  BY <1>2, <1>3, Numbers DEF LetGo

\* Whatever takes the supervisor out of RUNNING, no wheel is Refloat's any more once a request
\* under way and the ESCs' own time-out have gone by.
THEOREM QuietAfterRunningHolds == ClosedSpec => []QuietAfterRunning
<1>1. ASSUME ClInv
      PROVE  QuietAfterRunning
  BY <1>1, QuietSoon DEF ClInv, ClTypes, ClType, LateInv, QuietAfterRunning
<1> QED
  BY <1>1, ClosedAlways, PTL

\* The same from the deadline of the gate on, for the gate alone and however late the
\* supervisor finds the burst to be over.
THEOREM QuietAfterDeadlineHolds == ClosedSpec => []QuietAfterDeadline
<1>1. ASSUME ClInv
      PROVE  QuietAfterDeadline
  BY <1>1, QuietSoon DEF ClInv, ClTypes, ClType, LateInv, QuietAfterDeadline
<1> QED
  BY <1>1, ClosedAlways, PTL

\* The gate and the supervisor, armed one after the other from one start, end the burst at
\* the same instant.
THEOREM DeadlinesAgreeHolds == ClosedSpec => []DeadlinesAgree
<1>1. ClInv => DeadlinesAgree
  BY DEF ClInv, DeadlineInv
<1> QED
  BY <1>1, ClosedAlways, PTL

\* From the press to the end of the burst the supervisor never takes the bench's press for a
\* rider's: the settling is longer than a period of its task.
THEOREM BenchPressNotRiderHolds == ClosedSpec => []BenchPressNotRider
<1>1. ClInv => BenchPressNotRider
  BY DEF ClInv, PressedInv, BenchPressNotRider, BurstPlaces
<1> QED
  BY <1>1, ClosedAlways, PTL

\* A burst implements the promise of WheelPair (fc_dual_motor.c): each current of Refloat's is
\* sent to half A and to half B with nothing in between, or latches, and when its permission
\* ends the wheels only let go.
THEOREM BurstKeepsPairs == ClosedSpec => KeepsPairs
<1>1. ClosedInit => Single("refloat") /\ Pair!Init
  BY InitBurstPair
<1>2. ClInv /\ Single("refloat") /\ [ClosedNext]_closedVars
          => Single("refloat")' /\ [Pair!Next]_(Pair!vars)
  BY NextBurstPair DEF PairStep, ClInv
<1> QED
  BY <1>1, <1>2, ClosedAlways, PTL DEF ClosedSpec, KeepsPairs, Pair!Spec

\* The bench source may run, fire and stop beside a burst (fc_console.c:1451, :2158): its pairs
\* then mix with Refloat's, and KeepsPairs is lost.  What is not lost is what Refloat is bound
\* to: its current leaves the wheels in time, and the two deadlines stay one.
THEOREM TwoOriginsStayBound ==
    BothSpec => [](QuietAfterRunning /\ QuietAfterDeadline /\ DeadlinesAgree /\ BenchPressNotRider)
<1>1. ClosedInit => ClInv
  BY InitClosed
<1>2. ClInv /\ [BothNext]_closedVars => ClInv'
  BY NextClosed, BenchKeeps DEF BothNext, BenchStep
<1>3. ASSUME ClInv
      PROVE  QuietAfterRunning /\ QuietAfterDeadline /\ DeadlinesAgree /\ BenchPressNotRider
  <2>1. QuietAfterRunning /\ QuietAfterDeadline
    BY <1>3, QuietSoon DEF ClInv, ClTypes, ClType, LateInv, QuietAfterRunning, QuietAfterDeadline
  <2> QED
    BY <1>3, <2>1 DEF ClInv, DeadlineInv, PressedInv, BenchPressNotRider, BurstPlaces
<1> QED
  BY <1>1, <1>2, <1>3, PTL DEF BothSpec

-----------------------------------------------------------------------------
(* The motion sensor and the supervisor together.                          *)

ChainSized ==
    /\ HoldSamples \in Nat /\ LatchSamples \in Nat
    /\ StuckLimit \in Nat \ {0} /\ Residual \in Nat

HealthRecords ==
    [inited : BOOLEAN, errs : Nat, inv : Nat, lows : Nat,
     prev : BOOLEAN, same : BOOLEAN, ident : 0 .. StuckLimit, ahead : BOOLEAN]

\* Once the loop has a line it knows what was read last; a sample found stuck
\* completed a series.
ReadInv ==
    /\ health \in HealthRecords /\ words \in Pipe!Kinds
    /\ served \in Nat /\ ill \in Nat
    /\ lineAge # Never => health.inited
    /\ health.ahead => health.ident = StuckLimit /\ health.prev
    /\ reader = "loop" /\ lineAge # Never => health.prev /\ (words # "bad" => health.same)

\* What the policy found worse than OK is in the inputs within a period.
IllInv == (in.imu => ill <= Slack) /\ IllBounded

\* How long n acceptances of the same words prolong them.
Prolonged(n) == n * StaleBound

\* The words in use are as old as the acceptances that prolonged them.
ServedInv ==
    /\ lineAge = Never => served = 0
    /\ served > 0 => lineAge <= StaleBound
    /\ lineAge # Never => served <= Prolonged(StuckLimit - 1) + lineAge
    /\ reader = "loop" /\ lineAge # Never /\ health.ident < StuckLimit =>
          served <= Prolonged(health.ident) + lineAge

LEMMA SensorReadings ==
    ASSUME words \in Pipe!Kinds, NEW r \in Readings
    PROVE  /\ r.ok \in BOOLEAN /\ r.kind \in Pipe!Kinds /\ r.changed \in BOOLEAN
           /\ r.ok /\ ~r.changed => r.kind = words
<1>1. CASE r = Pipe!Failed
  BY <1>1 DEF Pipe!Failed, Pipe!Kinds
<1>2. CASE r \in [ok : {TRUE}, kind : Pipe!Kinds, changed : {TRUE}]
  BY <1>2
<1>3. CASE r = [ok |-> TRUE, kind |-> words, changed |-> FALSE]
  BY <1>3
<1> QED
  BY <1>1, <1>2, <1>3 DEF Readings

LEMMA SeriesFails ==
    ASSUME ChainSized, health \in HealthRecords, Pipe!HealthFails
    PROVE  /\ health' \in HealthRecords
           /\ health'.inited = TRUE /\ health'.prev = health.prev /\ health'.same = health.same
           /\ health'.ident = health.ident /\ health'.ahead = health.ahead
<1>1. Pipe!Up(health.errs, LatchSamples) \in Nat
  BY DEF Pipe!Up, ChainSized, HealthRecords
<1> QED
  BY <1>1 DEF Pipe!HealthFails, HealthRecords

LEMMA SeriesInvalid ==
    ASSUME ChainSized, health \in HealthRecords, NEW r, Pipe!HealthInvalid(r)
    PROVE  /\ health' \in HealthRecords
           /\ health'.inited = TRUE /\ health'.prev = health.prev
           /\ health'.ident = health.ident /\ health'.ahead = health.ahead
<1>1. Pipe!Up(health.inv, LatchSamples) \in Nat
  BY DEF Pipe!Up, ChainSized, HealthRecords
<1>2. (health.same /\ ~r.changed) \in BOOLEAN
  OBVIOUS
<1> QED
  BY <1>1, <1>2 DEF Pipe!HealthInvalid, HealthRecords

\* A sample found stuck completes the series; one that is not makes it longer by one,
\* or begins it anew.
LEMMA SeriesUsable ==
    ASSUME ChainSized, health \in HealthRecords, NEW r, NEW moved \in BOOLEAN,
           Pipe!HealthUsable(r, moved)
    PROVE  /\ health' \in HealthRecords
           /\ health'.inited = TRUE /\ health'.prev = TRUE /\ health'.same = TRUE
           /\ health'.ahead = Pipe!Stuck(r, moved)
           /\ Pipe!Stuck(r, moved) => health'.ident = StuckLimit
           /\ ~Pipe!Stuck(r, moved) /\ Pipe!Identical(r, moved) => health'.ident = health.ident + 1
           /\ ~Pipe!Stuck(r, moved) => health'.ident < StuckLimit
<1> DEFINE ident == IF Pipe!Identical(r, moved) THEN Pipe!Up(health.ident, StuckLimit) ELSE 0
           lows  == IF r.kind = "low" THEN Pipe!Up(health.lows, LatchSamples) ELSE 0
<1>1. lows \in Nat /\ ident \in 0 .. StuckLimit
  BY DEF Pipe!Up, ChainSized, HealthRecords
<1>2. Pipe!Stuck(r, moved) \in BOOLEAN
  BY DEF Pipe!Stuck, Pipe!Identical
<1>3. /\ Pipe!Stuck(r, moved) => ident = StuckLimit
      /\ ~Pipe!Stuck(r, moved) /\ Pipe!Identical(r, moved) => ident = health.ident + 1
      /\ ~Pipe!Stuck(r, moved) => ident < StuckLimit
  BY DEF Pipe!Stuck, Pipe!Up, ChainSized, HealthRecords
<1>4. health' = [health EXCEPT !.inited = TRUE, !.errs = 0, !.inv = 0, !.lows = lows,
                               !.ident = ident, !.prev = TRUE, !.same = TRUE,
                               !.ahead = Pipe!Stuck(r, moved)]
  BY DEF Pipe!HealthUsable, Pipe!Ahead
<1> HIDE DEF ident, lows
<1>5. /\ health' \in HealthRecords
      /\ health'.inited = TRUE /\ health'.prev = TRUE /\ health'.same = TRUE
      /\ health'.ahead = Pipe!Stuck(r, moved) /\ health'.ident = ident
  BY <1>1, <1>2, <1>4 DEF HealthRecords
<1> QED
  BY <1>3, <1>5

LEMMA SeriesNext ==
    ASSUME ChainSized, ReadInv, NEW r, NEW moved \in BOOLEAN,
           Pipe!HealthFails \/ Pipe!HealthSample(r, moved)
    PROVE  /\ health' \in HealthRecords /\ health'.inited = TRUE
           /\ health'.ahead => health'.ident = StuckLimit /\ health'.prev
<1>1. health \in HealthRecords /\ (health.ahead => health.ident = StuckLimit /\ health.prev)
  BY DEF ReadInv
<1>2. CASE Pipe!HealthFails
  BY <1>1, <1>2, SeriesFails
<1>3. CASE Pipe!HealthInvalid(r)
  BY <1>1, <1>3, SeriesInvalid
<1>4. CASE Pipe!HealthUsable(r, moved)
  BY <1>1, <1>4, SeriesUsable
<1> QED
  BY <1>2, <1>3, <1>4 DEF Pipe!HealthSample

\* What a reading of the loop leaves behind: an accepted sample of the words of before
\* makes the series longer by one, a refused one leaves it or completes it.
LEMMA SubmitShape ==
    ASSUME ChainSized, ReadInv, NEW r \in Readings, Pipe!Submit(r)
    PROVE  /\ health' \in HealthRecords
           /\ health'.ahead => health'.ident = StuckLimit /\ health'.prev
           /\ health.inited => health'.inited
           /\ Pipe!Accepted(r) => /\ r.ok /\ r.kind # "bad" /\ health'.ident < StuckLimit
                                  /\ health'.inited /\ health'.prev /\ health'.same
           /\ Pipe!Accepted(r) /\ ~r.changed /\ health.prev /\ health.same =>
                 health'.ident = health.ident + 1
           /\ ~Pipe!Accepted(r) => /\ health.prev => health'.prev
                                   /\ r.ok /\ r.changed /\ r.kind # "bad" => health'.same
                                   /\ ~r.ok \/ ~r.changed => (health.same => health'.same)
                                   /\ health'.ident < StuckLimit => health'.ident = health.ident
<1> DEFINE moved == Pipe!CounterMoved
<1>0. /\ r.ok \in BOOLEAN /\ r.changed \in BOOLEAN
      /\ health \in HealthRecords /\ (health.ahead => health.ident = StuckLimit /\ health.prev)
  BY SensorReadings DEF ReadInv
<1>1. CASE ~r.ok \/ Pipe!Duplicate(r)
  <2>1. ~Pipe!Accepted(r) /\ ~(r.ok /\ r.changed)
    BY <1>1 DEF Pipe!Accepted, Pipe!Duplicate
  <2>2. Pipe!HealthFails \/ UNCHANGED health
    BY <1>1 DEF Pipe!Submit, Pipe!ReadFailed, Pipe!TakeDuplicate
  <2>3. CASE Pipe!HealthFails
    BY <1>0, <2>1, <2>3, SeriesFails
  <2>4. CASE UNCHANGED health
    BY <1>0, <2>1, <2>4
  <2> QED
    BY <2>2, <2>3, <2>4
<1>2. CASE r.ok /\ ~Pipe!Duplicate(r)
  <2>1. Pipe!HealthSample(r, moved) /\ moved \in BOOLEAN
    BY <1>0, <1>2 DEF Pipe!Submit, Pipe!TakeSample, Pipe!CounterMoved, HealthRecords
  <2>2. /\ health' \in HealthRecords /\ health'.inited = TRUE
        /\ health'.ahead => health'.ident = StuckLimit /\ health'.prev
    BY <2>1, SeriesNext
  <2>3. CASE r.kind = "bad"
    <3>1. Pipe!HealthInvalid(r) /\ ~Pipe!Accepted(r)
      BY <2>1, <2>3 DEF Pipe!HealthSample, Pipe!Accepted, Pipe!HealthAccepts
    <3>2. health'.same = (health.same /\ ~r.changed)
      BY <1>0, <3>1 DEF Pipe!HealthInvalid, HealthRecords
    <3>3. health'.prev = health.prev /\ health'.ident = health.ident
      BY <1>0, <3>1, SeriesInvalid
    <3>4. (health.prev => health'.prev) /\ (health.same /\ ~r.changed => health'.same)
      BY <3>2, <3>3
    <3> QED
      BY <1>0, <1>2, <2>2, <2>3, <3>1, <3>3, <3>4
  <2>4. CASE r.kind # "bad"
    <3>1. Pipe!HealthUsable(r, moved)
      BY <2>1, <2>4 DEF Pipe!HealthSample
    <3>2. Pipe!Accepted(r) <=> ~Pipe!Stuck(r, moved)
      BY <1>2, <2>4 DEF Pipe!Accepted, Pipe!HealthAccepts
    <3>3. health.prev /\ health.same /\ ~r.changed => Pipe!Identical(r, moved)
      BY DEF Pipe!Identical
    <3> HIDE DEF moved
    <3>4. /\ health'.prev = TRUE /\ health'.same = TRUE
          /\ Pipe!Stuck(r, moved) => health'.ident = StuckLimit
          /\ ~Pipe!Stuck(r, moved) /\ Pipe!Identical(r, moved) => health'.ident = health.ident + 1
          /\ ~Pipe!Stuck(r, moved) => health'.ident < StuckLimit
      BY <1>0, <2>1, <3>1, SeriesUsable
    <3> QED
      BY <1>2, <2>2, <2>4, <3>2, <3>3, <3>4 DEF ChainSized
  <2> QED
    BY <2>3, <2>4
<1> QED
  BY <1>0, <1>1, <1>2

LEMMA InitChain == ChainSized /\ ChainInit => TaskInit /\ ReadInv /\ IllInv /\ ServedInv
<1> SUFFICES ASSUME ChainSized, ChainInit PROVE TaskInit /\ ReadInv /\ IllInv /\ ServedInv
  OBVIOUS
<1>1. TaskInit /\ lineAge = Never /\ state = "BOOT" /\ ~in.imu /\ ill = 0 /\ served = 0
  BY DEF ChainInit, TaskInit, SupInit
<1>2. ReadInv
  BY <1>1 DEF ChainInit, ReadInv, Pipe!HealthEmpty, HealthRecords, Pipe!Kinds, ChainSized
<1>3. IllInv
  BY <1>1 DEF IllInv, IllBounded, Engageable
<1>4. ServedInv
  BY <1>1 DEF ServedInv
<1> QED
  BY <1>1, <1>2, <1>3, <1>4

LEMMA LoopReadsShape ==
    ASSUME in \in Inputs, NEW r \in Readings, LoopReads(r)
    PROVE  /\ reader = "loop" /\ reader' = "loop" /\ step = "idle" /\ step' = "idle"
           /\ UNCHANGED <<state, sinceRun, phase>> /\ in'.imu = in.imu
           /\ Pipe!Accepted(r) => LoopIteration /\ lineAge' = 0
           /\ ~Pipe!Accepted(r) => UNCHANGED taskVars
<1>1. CASE Pipe!Accepted(r)
  BY <1>1 DEF LoopReads, LoopIteration, Inputs
<1>2. CASE ~Pipe!Accepted(r)
  BY <1>2 DEF LoopReads, taskVars, driverVars, supVars
<1> QED
  BY <1>1, <1>2

LEMMA ChainTypes == TaskInv => in \in Inputs /\ lineAge \in Never .. AgeCap
  BY DEF TaskInv, SupInv, TypeOK, DriverType

LEMMA VerdictShape ==
    ASSUME lineAge \in Never .. AgeCap
    PROVE  Verdict \in Permits /\ (Verdict = "OK" => lineAge # Never /\ lineAge <= Fresh)
<1> DEFINE p == Pipe!Permit(unrecoverable, lineAge # Never, lineAge)
<1>1. p \in {"lost", "hold", "ok"}
  BY DEF Pipe!Permit
<1>2. p = "ok" => lineAge # Never /\ ~(lineAge > Fresh)
  BY DEF Pipe!Permit
<1>3. p = "ok" => lineAge <= Fresh
  BY <1>2, TimesAssumption, TaskAssumption DEF Never
<1>4. Verdict = [lost |-> "LOST", hold |-> "HOLD", ok |-> "OK"][p]
  BY DEF Verdict
<1> HIDE DEF p
<1> QED
  BY <1>1, <1>2, <1>3, <1>4 DEF Permits

\* The verdict is one of those that SupervisorTask allows.
LEMMA VerdictAllowed ==
    ASSUME lineAge \in Never .. AgeCap
    PROVE  Verdict \in Verdicts
<1>1. CASE lineAge > ImuTimeout
  <2>1. lineAge # Never
    BY <1>1, TimesAssumption DEF Never
  <2>2. Pipe!Permit(unrecoverable, lineAge # Never, lineAge) = "lost"
    BY <1>1, <2>1 DEF Pipe!Permit
  <2> QED
    BY <1>1, <2>2 DEF Verdict, Verdicts
<1>2. CASE ~(lineAge > ImuTimeout)
  BY <1>2, VerdictShape, TimesAssumption, TaskAssumption DEF Verdicts, Permits, Never
<1> QED
  BY <1>1, <1>2

\* Whatever the sensor does, the supervisor sees steps of SupervisorTask.
LEMMA ChainStep ==
    ASSUME TaskInv, ReadInv, [ChainNext]_chainVars
    PROVE  [TaskNext]_taskVars
<1>1. ASSUME NEW r \in Readings, LoopReads(r) PROVE [TaskNext]_taskVars
  BY <1>1, ChainTypes, LoopReadsShape DEF TaskNext
<1>2. ASSUME NEW r \in Readings, StressReads(r) PROVE [TaskNext]_taskVars
  BY <1>2 DEF StressReads, PassedOn, NotPassedOn, TaskNext
<1>3. CASE StressBegins
  BY <1>3 DEF StressBegins, taskVars, supVars, driverVars, historyVars
<1>4. CASE LoopStarts
  BY <1>4 DEF LoopStarts, TaskNext
<1>5. CASE CallPermitOf
  <2>1. CASE health.inited
    <3>1. Verdict \in Verdicts
      BY ChainTypes, VerdictAllowed
    <3>2. CallPermit /\ Instant
      BY <1>5, <2>1, <3>1 DEF CallPermitOf, CallPermit
    <3> QED
      BY <3>2 DEF TaskNext, Task
  <2>2. CASE ~health.inited
    <3>1. lineAge = Never
      BY <2>2 DEF ReadInv
    <3>2. CallPermit /\ Instant
      BY <1>5, <2>2, <3>1 DEF CallPermitOf, CallPermit
    <3> QED
      BY <3>2 DEF TaskNext, Task
  <2> QED
    BY <2>1, <2>2
<1>6. CASE OtherCalls
  BY <1>6 DEF OtherCalls, TaskNext, Task
<1>7. CASE ChainTime
  BY <1>7 DEF ChainTime, TaskNext
<1>8. CASE UNCHANGED chainVars
  BY <1>8 DEF chainVars, taskVars, supVars, driverVars, historyVars
<1> QED
  BY <1>1, <1>2, <1>3, <1>4, <1>5, <1>6, <1>7, <1>8 DEF ChainNext

LEMMA NextRead ==
    ASSUME ChainSized, TaskInv, ReadInv, [ChainNext]_chainVars
    PROVE  ReadInv'
<1> DEFINE Known == health \in HealthRecords /\ words \in Pipe!Kinds /\ served \in Nat /\ ill \in Nat
           Begun == lineAge # Never => health.inited
           Full  == health.ahead => health.ident = StuckLimit /\ health.prev
           Held  == reader = "loop" /\ lineAge # Never => health.prev /\ (words # "bad" => health.same)
<1>1. Known /\ Begun /\ Full /\ Held /\ in \in Inputs /\ lineAge \in Never .. AgeCap
  BY ChainTypes DEF ReadInv
<1>2. Recovers => ill' \in Nat
  BY <1>1 DEF Recovers
<1>3. "bad" \in Pipe!Kinds
  BY DEF Pipe!Kinds
<1>4. ASSUME NEW r \in Readings, LoopReads(r) PROVE ReadInv'
  <2>1. /\ r.ok \in BOOLEAN /\ r.kind \in Pipe!Kinds /\ r.changed \in BOOLEAN
        /\ r.ok /\ ~r.changed => r.kind = words
    BY <1>1, SensorReadings
  <2>2. Pipe!Submit(r) /\ WordsAfter(r) /\ Recovers
    BY <1>4 DEF LoopReads
  <2>3. Known'
    BY <1>1, <1>2, <1>3, <1>4, <2>1, <2>2, SubmitShape DEF LoopReads, WordsAfter
  <2>4. Begun'
    BY <1>1, <1>4, <2>2, SubmitShape, LoopReadsShape DEF taskVars, driverVars
  <2>5. Full'
    BY <2>2, SubmitShape
  <2>6. Held'
    <3>1. CASE Pipe!Accepted(r)
      BY <2>2, <3>1, SubmitShape
    <3>2. CASE ~Pipe!Accepted(r) /\ lineAge' # Never
      <4>1. reader = "loop" /\ lineAge # Never
        BY <1>1, <1>4, <3>2, LoopReadsShape DEF taskVars, driverVars
      <4>2. health'.prev
        BY <1>1, <2>2, <3>2, <4>1, SubmitShape
      <4>3. words' # "bad" => health'.same
        BY <1>1, <2>1, <2>2, <3>2, <4>1, SubmitShape DEF WordsAfter
      <4> QED
        BY <4>2, <4>3
    <3> QED
      BY <3>1, <3>2
  <2> QED
    BY <2>3, <2>4, <2>5, <2>6 DEF ReadInv
<1>5. ASSUME NEW r \in Readings, StressReads(r) PROVE ReadInv'
  <2>1. /\ r.ok \in BOOLEAN /\ r.kind \in Pipe!Kinds /\ r.changed \in BOOLEAN
    BY <1>1, SensorReadings
  <2>2. /\ UNCHANGED <<reader, served, lineAge>> /\ reader = "test" /\ WordsAfter(r) /\ Recovers
    BY <1>5 DEF StressReads, PassedOn, NotPassedOn, StressSample, taskVars, driverVars
  <2>3. health' \in HealthRecords /\ (health.inited => health'.inited) /\ Full'
    <3>1. CASE Pipe!HealthFails \/ Pipe!HealthSample(r, TRUE)
      BY <3>1, SeriesNext
    <3>2. CASE NotPassedOn(r)
      <4>1. (health.same /\ ~r.changed) \in BOOLEAN
        OBVIOUS
      <4>2. health' = [health EXCEPT !.same = health.same /\ ~r.changed]
        BY <3>2 DEF NotPassedOn
      <4> QED
        BY <1>1, <4>1, <4>2 DEF HealthRecords
    <3> QED
      BY <1>5, <3>1, <3>2 DEF StressReads, PassedOn
  <2> QED
    BY <1>1, <1>2, <1>3, <2>1, <2>2, <2>3 DEF ReadInv, WordsAfter
<1>6. CASE StressBegins
  BY <1>1, <1>2, <1>3, <1>6 DEF StressBegins, ReadInv, taskVars, driverVars
<1>7. CASE LoopStarts
  <2>1. health' \in HealthRecords /\ ~health'.ahead
    BY <1>7 DEF LoopStarts, Pipe!HealthEmpty, HealthRecords, ChainSized
  <2> QED
    BY <1>1, <1>2, <1>3, <1>7, <2>1 DEF LoopStarts, SensorRestarts, ReadInv
<1>8. CASE CallPermitOf \/ OtherCalls
  <2>1. SensorKept /\ UNCHANGED <<served, lineAge>> /\ Recovers
    BY <1>8 DEF CallPermitOf, OtherCalls, Call, AppMain, BootStorage, BootRefloat, BootPlatform,
                BootConfig, BootWatchdog, BootFootpad, Boot, Wake, CallWatchdog, CallSimulated,
                CallFootpad, CallCalibration, CallPoll, CallPollBehind, RefloatReadsFootpad,
                Operator, SimulateFootpad, driverVars
  <2> QED
    BY <1>1, <1>2, <2>1 DEF SensorKept, ReadInv
<1>9. CASE ChainTime
  <2>1. SensorKept /\ lineAge' = Older(lineAge)
    BY <1>9 DEF ChainTime, TimePasses
  <2>2. lineAge' # Never => lineAge # Never
    BY <2>1 DEF Older, Never
  <2>3. ServedBound + 1 \in Nat
    BY TaskAssumption DEF ServedBound, StaleBound, ChainSized
  <2>4. served' \in Nat /\ ill' \in Nat
    BY <1>1, <1>9, <2>3, TaskAssumption DEF ChainTime, Pipe!Up, Later
  <2> QED
    BY <1>1, <2>1, <2>2, <2>4 DEF SensorKept, ReadInv
<1>10. CASE UNCHANGED chainVars
  BY <1>1, <1>10 DEF chainVars, taskVars, driverVars, ReadInv
<1> QED
  BY <1>4, <1>5, <1>6, <1>7, <1>8, <1>9, <1>10 DEF ChainNext

-----------------------------------------------------------------------------
\* Outside the policy's own call a step of no time does not set in.imu or move the slack,
\* and a machine comes into service with in.imu only.
LEMMA OthersKeepImu ==
    ASSUME TaskInv, OtherCalls
    PROVE  /\ in'.imu => in.imu
           /\ Slack' = Slack
           /\ state' \in Engageable => state \in Engageable \/ in.imu
<1>0. in \in Inputs /\ (step # "idle" => sinceRun = 0)
  BY ChainTypes DEF TaskInv, BootInv
<1>1. CASE AppMain
  <2>1. UNCHANGED <<step, sinceRun>> /\ in'.imu = in.imu
    BY <1>0, <1>1
    DEF AppMain, BootStorage, BootRefloat, BootPlatform, BootConfig, BootWatchdog, BootFootpad,
        BeginSelfTest, SelfTestResult, ReportPlatformReady, ReportConfigValid, ReportWatchdog,
        ReportFootpad, supVars, Boot, EnterFault, Inputs
  <2>2. state' \in Engageable => state \in Engageable
    BY <1>1
    DEF AppMain, BootStorage, BootRefloat, BootPlatform, BootConfig, BootWatchdog, BootFootpad,
        BeginSelfTest, SelfTestResult, ReportPlatformReady, ReportConfigValid, ReportWatchdog,
        ReportFootpad, supVars, EnterFault, Engageable
  <2> QED
    BY <2>1, <2>2 DEF Slack
<1>2. CASE Wake
  BY <1>2 DEF Wake, supVars, Slack
<1>3. CASE CallWatchdog \/ CallSimulated \/ CallFootpad \/ CallCalibration
  <2>1. in'.imu = in.imu /\ step \notin {"idle", "permit"} /\ step' \notin {"idle", "permit"}
    BY <1>0, <1>3, AfterNames
    DEF CallWatchdog, CallSimulated, CallFootpad, CallCalibration, Call, ReportWatchdog,
        ReportFootpadSimulated, ReportFootpad, ReportCalibrationValid, Inputs
  <2>2. state' \in Engageable => state \in Engageable
    BY <1>3
    DEF CallWatchdog, CallSimulated, CallFootpad, CallCalibration, ReportWatchdog,
        ReportFootpadSimulated, ReportFootpad, ReportCalibrationValid, EnterFault, Engageable
  <2> QED
    BY <2>1, <2>2 DEF Slack
<1>4. CASE CallPoll \/ CallPollBehind
  <2>1. step = "poll" /\ step' = "idle" /\ sinceRun' = 0
    BY <1>0, <1>4, AfterNames DEF CallPoll, CallPollBehind, Call
  <2>2. in'.imu => in.imu
    BY <1>0, <1>4 DEF CallPoll, CallPollBehind, Poll, PolledInputs, Inputs
  <2>3. state' \in Engageable => state \in Engageable
    BY <1>4 DEF CallPoll, CallPollBehind, Poll, EnterFault, Engageable
  <2> QED
    BY <2>1, <2>2, <2>3 DEF Slack
<1>5. CASE RefloatReadsFootpad \/ SimulateFootpad
  BY <1>5 DEF RefloatReadsFootpad, SimulateFootpad, supVars, Slack
<1>6. CASE Operator
  <2>1. UNCHANGED <<in, step, sinceRun>>
    BY <1>6 DEF Operator, AskReady, AskArmed, AskBurst, AskDisarm, AskClear, RequestReady,
                RequestClosedLoopReady, BeginBurst, Disarm, ClearFault, driverVars
  <2>2. state' \in Engageable => in.imu
    BY <1>6
    DEF Operator, AskReady, AskArmed, AskBurst, AskDisarm, AskClear, RequestReady,
        RequestClosedLoopReady, BeginBurst, Disarm, ClearFault, Engageable,
        ReadyConditionsMet, ArmedConditionsMet, BaseConditionsMet
  <2> QED
    BY <2>1, <2>2 DEF Slack
<1> QED
  BY <1>1, <1>2, <1>3, <1>4, <1>5, <1>6 DEF OtherCalls

LEMMA NextIll ==
    ASSUME TaskInv, ReadInv, IllInv, [ChainNext]_chainVars
    PROVE  IllInv'
<1>1. /\ in \in Inputs /\ lineAge \in Never .. AgeCap /\ ill \in Nat
      /\ Slack \in 0 .. PollPeriod /\ PollPeriod \in Nat /\ HistoryCap \in Nat
      /\ in.imu => ill <= Slack
      /\ state \in Engageable => ill <= PollPeriod
  BY ChainTypes, AgesTypes, TaskAssumption DEF ReadInv, IllInv, IllBounded
<1>2. ASSUME Recovers, in'.imu => in.imu, Slack' = Slack,
             state' \in Engageable => state \in Engageable \/ in.imu
      PROVE  IllInv'
  <2>1. ill' <= ill /\ ill' \in Nat
    BY <1>1, <1>2 DEF Recovers
  <2>2. in'.imu => ill' <= Slack'
    BY <1>1, <1>2, <2>1
  <2>3. state' \in Engageable => ill' <= PollPeriod
    BY <1>1, <1>2, <2>1
  <2> QED
    BY <2>2, <2>3 DEF IllInv, IllBounded
<1>3. ASSUME NEW r \in Readings, LoopReads(r) PROVE IllInv'
  <2>1. Recovers
    BY <1>3 DEF LoopReads
  <2>2. in'.imu = in.imu /\ UNCHANGED <<state, step, sinceRun>>
    BY <1>1, <1>3, LoopReadsShape
  <2> QED
    BY <1>2, <2>1, <2>2 DEF Slack
<1>4. ASSUME NEW r \in Readings, StressReads(r) PROVE IllInv'
  <2>1. Recovers /\ UNCHANGED <<in, state, step, sinceRun>>
    BY <1>4, SensorFrame DEF StressReads, PassedOn, NotPassedOn, taskVars, driverVars, supVars
  <2> QED
    BY <1>2, <2>1 DEF Slack
<1>5. CASE StressBegins \/ LoopStarts
  <2>1. Recovers /\ UNCHANGED <<in, state, step, sinceRun>>
    BY <1>5, SensorFrame DEF StressBegins, LoopStarts, taskVars, driverVars, supVars
  <2> QED
    BY <1>2, <2>1 DEF Slack
<1>6. CASE CallPermitOf
  <2>1. /\ step = "permit" /\ step' = "watchdog" /\ Recovers /\ SensorKept
        /\ UNCHANGED lineAge /\ Slack' = 0
    BY <1>6, AfterNames DEF CallPermitOf, Call, Slack
  <2>2. CASE ~health.inited
    <3>1. UNCHANGED <<in, state>> /\ ~Ill'
      BY <1>6, <2>1, <2>2 DEF CallPermitOf, supVars, SensorKept, Ill
    <3>2. ill' = 0
      BY <2>1, <3>1 DEF Recovers
    <3> QED
      BY <1>1, <2>1, <3>2 DEF IllInv, IllBounded
  <2>3. CASE health.inited
    <3>1. ReportImuPermit(Verdict)
      BY <1>6, <2>3 DEF CallPermitOf
    <3>2. in'.imu => Verdict = "OK"
      BY <1>1, <3>1 DEF ReportImuPermit, Inputs
    <3>3. Ill' => Verdict # "OK"
      BY <2>1 DEF Ill, Verdict, SensorKept, Pipe!Permit, Pipe!Series
    <3>4. in'.imu => ill' = 0
      BY <2>1, <3>2, <3>3 DEF Recovers
    <3>5. state' \in Engageable => state \in Engageable
      BY <3>1 DEF ReportImuPermit, EnterFault, Engageable
    <3>6. ill' <= ill
      BY <1>1, <2>1 DEF Recovers
    <3>7. ill' \in Nat
      BY <1>1, <2>1 DEF Recovers
    <3>8. state' \in Engageable => ill' <= PollPeriod
      BY <1>1, <3>5, <3>6, <3>7
    <3> QED
      BY <2>1, <3>4, <3>8 DEF IllInv, IllBounded
  <2> QED
    BY <2>2, <2>3
<1>7. CASE OtherCalls
  BY <1>2, <1>7, OthersKeepImu DEF OtherCalls
<1>8. CASE ChainTime
  <2>1. TimePasses /\ ill' = IF Ill THEN Later(ill) ELSE 0
    BY <1>8 DEF ChainTime
  <2>2. ill' <= ill + 1 /\ ill' \in Nat
    BY <1>1, <2>1 DEF Later
  <2>3. UNCHANGED <<state, in>> /\ step = "idle" /\ step' = "idle" /\ ~LostConditions(state, in)
    BY <2>1, TimeFacts DEF TaskInv, AgesInv
  <2>4. Slack = sinceRun /\ Slack' = sinceRun'
    BY <2>3 DEF Slack
  <2>5. in.imu => sinceRun' = sinceRun + 1 /\ sinceRun < PollPeriod
    BY <2>1, TimeFacts DEF TaskInv, BootInv
  <2>6. sinceRun \in Nat
    BY <2>1, TimeFacts
  <2>7. in.imu => ill' <= Slack' /\ ill' <= PollPeriod
    BY <1>1, <2>2, <2>4, <2>5, <2>6
  <2>8. state \in Engageable => in.imu
    BY <2>3, ConditionsOfEngageable
  <2> QED
    BY <2>3, <2>7, <2>8 DEF IllInv, IllBounded
<1>9. CASE UNCHANGED chainVars
  <2>1. UNCHANGED <<in, state, step, sinceRun, ill>>
    BY <1>9 DEF chainVars, taskVars, supVars, driverVars
  <2> QED
    BY <2>1 DEF IllInv, IllBounded, Slack
<1> QED
  BY <1>3, <1>4, <1>5, <1>6, <1>7, <1>8, <1>9 DEF ChainNext

LEMMA ProlongedGrows ==
    ASSUME NEW n \in Nat
    PROVE  /\ StaleBound \in Nat /\ Prolonged(n) \in Nat
           /\ Prolonged(n + 1) = Prolonged(n) + StaleBound
<1>1. StaleBound \in Nat
  BY TaskAssumption DEF StaleBound
<1> HIDE DEF StaleBound
<1> QED
  BY <1>1 DEF Prolonged

LEMMA ProlongedMonotone ==
    ASSUME NEW n \in Nat, NEW m \in Nat, n <= m
    PROVE  Prolonged(n) <= Prolonged(m)
<1>1. StaleBound \in Nat
  BY TaskAssumption DEF StaleBound
<1>2. PICK k \in Nat : m = n + k
  <2>1. m - n \in Nat /\ m = n + (m - n)
    OBVIOUS
  <2> QED
    BY <2>1
<1>3. m * StaleBound = n * StaleBound + k * StaleBound /\ k * StaleBound \in Nat
  BY <1>1, <1>2
<1>4. n * StaleBound \in Nat
  BY <1>1
<1> QED
  BY <1>3, <1>4 DEF Prolonged

LEMMA LastProlonged ==
    ASSUME ChainSized
    PROVE  /\ StuckLimit - 1 \in Nat /\ Prolonged(StuckLimit - 1) \in Nat
           /\ Prolonged(StuckLimit - 1) + StaleBound = ServedBound /\ ServedBound \in Nat
<1>1. StuckLimit - 1 \in Nat /\ StuckLimit \in Nat /\ (StuckLimit - 1) + 1 = StuckLimit
  BY DEF ChainSized
<1>2. Prolonged((StuckLimit - 1) + 1) = Prolonged(StuckLimit - 1) + StaleBound
  BY <1>1, ProlongedGrows
<1>3. Prolonged(StuckLimit) \in Nat /\ Prolonged(StuckLimit) = ServedBound
  BY <1>1, ProlongedGrows DEF Prolonged, ServedBound
<1> QED
  BY <1>1, <1>2, <1>3, ProlongedGrows

\* A machine in service works with a line no older than StaleBound, and a tick makes it
\* older by one.
LEMMA LineInService ==
    ASSUME TaskInv, TaskInv', TimePasses
    PROVE  /\ lineAge' # Never => lineAge # Never /\ lineAge' \in Nat /\ lineAge' >= lineAge
           /\ state \in Engageable => lineAge' <= StaleBound
           /\ state \in Engageable /\ lineAge # Never => lineAge' = lineAge + 1
<1>1. /\ lineAge \in Never .. AgeCap /\ lineAge' = Older(lineAge) /\ state' = state
      /\ AgeCap \in Nat /\ AgeCap > LoopTimeout + PollPeriod
      /\ Fresh \in Nat /\ PollPeriod \in Nat /\ LoopTimeout \in Nat /\ Fresh <= LoopTimeout
  BY AgesTypes, TaskAssumption, TimeFacts DEF TimePasses
<1>2. state \in Engageable => lineAge <= Fresh + PollPeriod /\ lineAge' <= Fresh + PollPeriod
  BY <1>1 DEF TaskInv, AgesInv, SilenceBounded
<1> QED
  BY <1>1, <1>2 DEF Older, Never, StaleBound

LEMMA NextServed ==
    ASSUME ChainSized, TaskInv, TaskInv', ReadInv, ServedInv, [ChainNext]_chainVars
    PROVE  ServedInv'
<1>1. /\ in \in Inputs /\ lineAge \in Never .. AgeCap /\ served \in Nat
      /\ health \in HealthRecords /\ words \in Pipe!Kinds
      /\ StuckLimit \in Nat /\ StuckLimit > 0 /\ AgeCap \in Nat
  BY ChainTypes, AgesTypes DEF ReadInv, ChainSized
<1>2. /\ health.ident \in 0 .. StuckLimit
      /\ StuckLimit - 1 \in Nat /\ Prolonged(StuckLimit - 1) \in Nat /\ StaleBound \in Nat
  BY <1>1, LastProlonged, ProlongedGrows DEF HealthRecords
<1>3. ASSUME served' = 0, lineAge' # Never => lineAge' \in Nat, health' \in HealthRecords
      PROVE  ServedInv'
  <2>1. health'.ident \in Nat
    BY <1>1, <1>3 DEF HealthRecords
  <2>2. Prolonged(health'.ident) \in Nat
    BY <2>1, ProlongedGrows
  <2> QED
    BY <1>2, <1>3, <2>2 DEF ServedInv
<1>4. ASSUME UNCHANGED <<served, lineAge>>,
             reader' = "loop" => reader = "loop" /\ (health'.ident < StuckLimit => health'.ident = health.ident)
      PROVE  ServedInv'
  BY <1>4 DEF ServedInv
<1>5. ASSUME NEW r \in Readings, LoopReads(r) PROVE ServedInv'
  <2>1. Pipe!Submit(r) /\ WordsAfter(r) /\ reader = "loop"
    BY <1>5 DEF LoopReads
  <2>2. health' \in HealthRecords
    BY <2>1, SubmitShape
  <2>3. CASE Pipe!Accepted(r)
    <3>1. lineAge' = 0 /\ served' = IF r.changed THEN 0 ELSE served
      BY <1>1, <1>5, <2>3, LoopReadsShape DEF LoopReads
    <3>2. CASE served' = 0
      BY <1>3, <2>2, <3>1, <3>2
    <3>3. CASE served' # 0
      <4>1. served' = served /\ ~r.changed /\ served > 0 /\ lineAge # Never /\ lineAge <= StaleBound
        BY <1>1, <3>1, <3>3 DEF ServedInv
      <4>2. r.ok /\ r.kind # "bad" /\ health'.ident < StuckLimit
        BY <2>1, <2>3, SubmitShape
      <4>3. words # "bad"
        BY <1>1, <4>1, <4>2, SensorReadings
      <4>4. health.prev /\ health.same
        BY <2>1, <4>1, <4>3 DEF ReadInv
      <4>5. health'.ident = health.ident + 1
        BY <2>1, <2>3, <4>1, <4>4, SubmitShape
      <4>6. served <= Prolonged(health.ident) + lineAge
        <5>1. health.ident < StuckLimit
          BY <1>1, <1>2, <4>2, <4>5
        <5> QED
          BY <2>1, <4>1, <5>1 DEF ServedInv
      <4>7. /\ Prolonged(health.ident) \in Nat /\ health.ident \in Nat
            /\ Prolonged(health'.ident) = Prolonged(health.ident) + StaleBound
        BY <1>1, <1>2, <4>5, ProlongedGrows
      <4>8. served' <= Prolonged(health'.ident)
        BY <1>1, <1>2, <4>1, <4>6, <4>7 DEF Never
      <4>9. Prolonged(health'.ident) <= Prolonged(StuckLimit - 1)
        <5>1. health'.ident \in Nat /\ health'.ident <= StuckLimit - 1
          BY <1>1, <4>2, <4>5, <4>7
        <5> QED
          BY <1>2, <5>1, ProlongedMonotone
      <4>10. served' <= Prolonged(StuckLimit - 1)
        BY <1>1, <1>2, <4>1, <4>7, <4>8, <4>9
      <4>11. /\ lineAge' = 0 /\ lineAge' # Never /\ 0 <= StaleBound
             /\ served' <= Prolonged(StuckLimit - 1) + 0
             /\ served' <= Prolonged(health'.ident) + 0
        BY <1>1, <1>2, <3>1, <4>1, <4>7, <4>8, <4>10 DEF Never
      <4> QED
        BY <4>11 DEF ServedInv
    <3> QED
      BY <3>2, <3>3
  <2>4. CASE ~Pipe!Accepted(r)
    <3>1. UNCHANGED <<served, lineAge>>
      BY <1>1, <1>5, <2>4, LoopReadsShape DEF LoopReads, taskVars, driverVars
    <3>2. health'.ident < StuckLimit => health'.ident = health.ident
      BY <2>1, <2>4, SubmitShape
    <3> QED
      BY <1>4, <2>1, <3>1, <3>2
  <2> QED
    BY <2>3, <2>4
<1>6. ASSUME NEW r \in Readings, StressReads(r) PROVE ServedInv'
  <2>1. UNCHANGED <<served, lineAge>> /\ reader' = "test"
    BY <1>6 DEF StressReads, PassedOn, NotPassedOn, StressSample, taskVars, driverVars
  <2> QED
    BY <1>4, <2>1
<1>7. CASE StressBegins
  <2>1. UNCHANGED <<served, lineAge>> /\ reader' = "test"
    BY <1>7 DEF StressBegins, taskVars, driverVars
  <2> QED
    BY <1>4, <2>1
<1>8. CASE LoopStarts
  <2>1. health' \in HealthRecords
    BY <1>8 DEF LoopStarts, Pipe!HealthEmpty, HealthRecords, ChainSized
  <2> QED
    BY <1>3, <1>8, <2>1 DEF LoopStarts, SensorRestarts
<1>9. CASE CallPermitOf \/ OtherCalls
  <2>1. SensorKept /\ UNCHANGED <<served, lineAge>>
    BY <1>9 DEF CallPermitOf, OtherCalls, Call, AppMain, BootStorage, BootRefloat, BootPlatform,
                BootConfig, BootWatchdog, BootFootpad, Boot, Wake, CallWatchdog, CallSimulated,
                CallFootpad, CallCalibration, CallPoll, CallPollBehind, RefloatReadsFootpad,
                Operator, SimulateFootpad, driverVars
  <2> QED
    BY <1>4, <2>1 DEF SensorKept
<1>10. CASE ChainTime
  <2>1. /\ TimePasses /\ SensorKept
        /\ served' = IF state \in Engageable /\ lineAge # Never
                     THEN Pipe!Up(served, ServedBound + 1) ELSE 0
    BY <1>10 DEF ChainTime
  <2>2. /\ lineAge' # Never => lineAge # Never /\ lineAge' \in Nat /\ lineAge' >= lineAge
        /\ state \in Engageable => lineAge' <= StaleBound
        /\ state \in Engageable /\ lineAge # Never => lineAge' = lineAge + 1
    BY <2>1, LineInService
  <2>3. CASE ~(state \in Engageable /\ lineAge # Never)
    BY <1>1, <1>3, <2>1, <2>2, <2>3 DEF SensorKept
  <2>4. CASE state \in Engageable /\ lineAge # Never
    <3>1. served' <= served + 1 /\ served' \in Nat
      BY <1>1, <2>1, <2>4, LastProlonged DEF Pipe!Up
    <3>2. lineAge \in Nat /\ lineAge' = lineAge + 1 /\ lineAge' <= StaleBound /\ lineAge' # Never
      BY <1>1, <2>2, <2>4 DEF Never
    <3>3. served' <= Prolonged(StuckLimit - 1) + lineAge'
      BY <1>1, <1>2, <2>4, <3>1, <3>2 DEF ServedInv
    <3>4. reader = "loop" /\ health.ident < StuckLimit => served' <= Prolonged(health.ident) + lineAge'
      <4>1. Prolonged(health.ident) \in Nat
        BY <1>1, <1>2, ProlongedGrows
      <4> QED
        BY <1>1, <2>4, <3>1, <3>2, <4>1 DEF ServedInv
    <3> QED
      BY <2>1, <3>2, <3>3, <3>4 DEF ServedInv, SensorKept
  <2> QED
    BY <2>3, <2>4
<1>11. CASE UNCHANGED chainVars
  BY <1>4, <1>11 DEF chainVars, taskVars, driverVars
<1> QED
  BY <1>5, <1>6, <1>7, <1>8, <1>9, <1>10, <1>11 DEF ChainNext

ChainInv == TaskInv /\ ReadInv /\ IllInv /\ ServedInv

LEMMA NextChain ==
    ASSUME ChainSized
    PROVE  ChainInv /\ [ChainNext]_chainVars => ChainInv' /\ [TaskNext]_taskVars
<1> SUFFICES ASSUME ChainInv, [ChainNext]_chainVars PROVE ChainInv' /\ [TaskNext]_taskVars
  OBVIOUS
<1>1. TaskInv /\ ReadInv /\ IllInv /\ ServedInv
  BY DEF ChainInv
<1>2. [TaskNext]_taskVars
  BY <1>1, ChainStep
<1>3. TaskInv'
  BY <1>1, <1>2, NextTask
<1> QED
  BY <1>1, <1>2, <1>3, NextRead, NextIll, NextServed DEF ChainInv

\* The supervisor with the sensor's path in front of it is the one of SupervisorTask, so
\* all that is proved there holds with the verdicts that fc_imu_policy.c computes.
THEOREM ChainImplementsTask ==
    ASSUME ChainSized
    PROVE  ChainSpec => TaskSpec /\ []ChainInv
<1>1. ChainInit => TaskInit /\ ChainInv
  BY InitChain, InitTask DEF ChainInv
<1>2. ChainInv /\ [ChainNext]_chainVars => ChainInv' /\ [TaskNext]_taskVars
  BY NextChain
<1> QED
  BY <1>1, <1>2, PTL DEF ChainSpec, TaskSpec

\* The supervisor's task finds out in time what fc_imu_policy_evaluate says, for any reason
\* and any lengths of its series: a machine that may be engaged is at most a period behind.
THEOREM IllBoundedHolds ==
    ASSUME ChainSized
    PROVE  ChainSpec => []IllBounded
<1>1. ChainInv => IllBounded
  BY DEF ChainInv, IllInv
<1> QED
  BY <1>1, ChainImplementsTask, PTL

\* A sensor that repeats itself does not keep a machine in service beyond ServedBound,
\* whatever reads fail in between (fc_imu_health.c, fc_imu_policy.c).
THEOREM FrozenOutHolds ==
    ASSUME ChainSized
    PROVE  ChainSpec => []FrozenOut
<1>1. ChainInv => FrozenOut
  <2> SUFFICES ASSUME ChainInv PROVE FrozenOut
    OBVIOUS
  <2>1. /\ ServedInv /\ served \in Nat /\ lineAge \in Never .. AgeCap /\ AgeCap \in Nat
    BY ChainTypes, AgesTypes DEF ChainInv, ReadInv
  <2>2. StaleBound \in Nat
    BY TaskAssumption DEF StaleBound
  <2>3. CASE served = 0
    BY <2>3, LastProlonged DEF FrozenOut
  <2>4. CASE served > 0
    <3>1. lineAge # Never /\ lineAge <= StaleBound /\ served <= Prolonged(StuckLimit - 1) + lineAge
      BY <2>1, <2>4 DEF ServedInv
    <3> QED
      BY <2>1, <2>2, <3>1, LastProlonged DEF FrozenOut, Never
  <2> QED
    BY <2>1, <2>3, <2>4
<1> QED
  BY <1>1, ChainImplementsTask, PTL
=============================================================================
