------------------------------ MODULE ClosedLoop ------------------------------
(***************************************************************************)
(* A burst of the closed loop (fc_console.c: cl-ready, cl-burst;           *)
(* fc_closed_loop.c; fc_cl_burst.c): the only time a current of Refloat    *)
(* may reach the wheels.  The module puts SupervisorTask and MotorPath     *)
(* together.  Four tasks take part:                                        *)
(*   - the console, on core 0, walks through the procedure and waits;      *)
(*   - Refloat asks for a current whenever it likes;                       *)
(*   - the supervisor's task polls, and keeps Refloat and the control loop *)
(*     off core 1 for the length of an iteration;                          *)
(*   - the control loop stamps samples, or falls silent.                   *)
(*                                                                         *)
(* The bench has no rider: the ADC pins read 0 V unless the console        *)
(* simulates a press, so what Refloat reads is the simulation.             *)
(*                                                                         *)
(* Reduced to a free choice to refuse or to abort: the age of the token,   *)
(* the limit that grows from burst to burst, the freshness of the nodes,   *)
(* the models, the windows on pitch and rate, the telemetry, the report of *)
(* the last burst.  Left out: the log of the burst.                        *)
(***************************************************************************)
EXTENDS SupervisorTask, MotorPath

CONSTANTS
    Settle,  \* cl-burst reads the halves at least this long before the press
    Tail     \* the console waits this long past the deadline

ASSUME BurstAssumption == Settle \in Nat /\ Settle > PollPeriod /\ Tail \in Nat

VARIABLES
    cl,          \* where the console is in cl-burst
    token,       \* CL.token
    ms,          \* the duration asked for
    since,       \* time since cl-burst began; from `start' on, since start_us
    refRunning,  \* Refloat is in its RUNNING
    offFor,      \* history: for how long no output has been permitted
    lateBy       \* history: how long the deadline of the last burst is past

clVars == <<cl, token, ms, since>>
clHistory == <<offFor, lateBy>>
closedVars == <<taskVars, gateVars, coordVars, benchVars, call, half,
                clVars, refRunning, clHistory>>
pathVars == <<gateVars, coordVars, benchVars, call, half>>

\* The procedure; the last four are the way out, also of an abort.
Places == {"free", "settle", "wait", "start", "gated", "burst",
           "revoke", "release", "disarm", "stand"}

LetGo == Flight + EscMax
Span  == BurstMax + Tail + Flight + 1

ClosedTypeOK ==
    /\ TaskTypeOK /\ MotorTypeOK
    /\ cl \in Places /\ token \in BOOLEAN /\ ms \in 0 .. BurstMax
    /\ since \in 0 .. Span /\ refRunning \in BOOLEAN
    /\ offFor \in 0 .. LetGo + 1 /\ lateBy \in 0 .. LetGo + 1

\* Everything but the supervisor, the arming and the token, before a burst.
Quiet ==
    /\ allowed = FALSE /\ gateLeft = GateGone
    /\ latched = FALSE /\ whole = TRUE
    /\ call = [o \in Origins |-> NoCall]
    /\ run = FALSE /\ stopReq = FALSE /\ runLeft = 0
    /\ half = [h \in Halves |-> Free]
    /\ phase = "service" /\ step = "idle" /\ sinceRun = 0 /\ lineAge = loopAge /\ ahead = FALSE
    /\ registered = TRUE /\ cleanReset = TRUE
    /\ simActive = FALSE /\ engaged = FALSE
    /\ ran = 0 /\ grant = 0 /\ pressAge = 0
    /\ cl = "free" /\ ms = 0 /\ since = 0
    /\ refRunning = FALSE
    /\ offFor = LetGo + 1 /\ lateBy = LetGo + 1

ClosedInit == MotorInit /\ Quiet /\ token = FALSE

\* What these histories become in a step that takes no time.
ClInstant ==
    /\ offFor' = IF MotorOutputPermitted' THEN 0 ELSE offFor
    /\ lateBy' = IF cl' = "start" THEN 0 ELSE lateBy

-----------------------------------------------------------------------------
(* cl-ready.                                                               *)

\* The checks that are modelled.  Those of READY and of the faults are made
\* again by the supervisor after the telemetry has been read, and no one but
\* the console changes the others.
ClReady ==
    /\ cl = "free" /\ ConsoleFree
    /\ RequestClosedLoopReady
    /\ armed /\ ~run /\ ~allowed
    /\ ~refRunning /\ ~simActive /\ ~engaged
    /\ lastPermit = "OK"
    /\ token' = TRUE
    /\ UNCHANGED <<driverVars, grant, pathVars, cl, ms, since, refRunning>>

ClReadyRefused ==
    /\ cl = "free" /\ ConsoleFree
    /\ token' = FALSE
    /\ UNCHANGED <<supVars, driverVars, grant, pathVars, cl, ms, since, refRunning>>

(* cl-burst.                                                               *)

\* The console moves on, by a step that neither commands nor reports.
Moves(from, to) ==
    /\ cl = from /\ cl' = to
    /\ UNCHANGED <<driverVars, benchVars, call, half, token, refRunning>>

\* cl_inputs and cl_config.  The nodes, the bus, the models, the limits, the
\* calibration and the windows of pitch and rate may be wrong as well.
ClInputs ==
    [gate_closed_loop_enabled |-> ~allowed,
     coordinator_armed |-> armed,
     supervisor_entry_allowed |-> state = "ARMED" /\ faults = {},
     imu_permit |-> lastPermit,
     realtime_qualified |-> in.watchdog /\ in.loop,
     test_condition_explicit |-> ~engaged \/ simActive]

\* fc_closed_loop_may_enter.
MayEnter ==
    LET i == ClInputs IN
    /\ i.gate_closed_loop_enabled /\ i.coordinator_armed
    /\ i.supervisor_entry_allowed /\ i.imu_permit = "OK"
    /\ i.realtime_qualified /\ i.test_condition_explicit
    /\ ~refRunning

\* Mutant: the duration is not limited.
DurationsUnlimited == 1 .. BurstMax + 1

\* What cl-burst accepts; the first burst and the growth from one to the next
\* are limited further.
Durations == 1 .. BurstMax

ClBurst ==
    /\ cl = "free" /\ ConsoleFree /\ token
    /\ token' = FALSE
    /\ \/ MayEnter /\ cl' = "settle" /\ ms' \in Durations
       \/ cl' = "revoke" /\ UNCHANGED ms
    /\ since' = 0
    /\ UNCHANGED <<supVars, driverVars, grant, pathVars, refRunning>>

Press ==
    /\ cl = "settle" /\ since >= Settle
    /\ cl' = "wait"
    /\ simActive' = TRUE
    /\ UNCHANGED <<supVars, phase, registered, cleanReset, step, sinceRun, lineAge, ahead, engaged,
                   grant, pathVars, token, ms, since, refRunning>>

\* Refloat has engaged: from here on the duration is counted.
Engaged ==
    /\ Moves("wait", "start")
    /\ refRunning /\ state = "ARMED"
    /\ since' = 0
    /\ UNCHANGED <<supVars, grant, gateVars, coordVars, ms>>

\* No engagement in time, or pitch, rate or supervisor outside the conditions.
NotEngaged ==
    /\ Moves("wait", "revoke")
    /\ UNCHANGED <<supVars, grant, gateVars, coordVars, ms, since>>

\* Time left of the burst, as far as the gate's clock is counted.
GateLeft(left) == IF left > GateGone THEN left ELSE GateGone

\* Mutant: the deadline is counted from the time of the call.
ArmBurstFromNow ==
    /\ Moves("start", "gated")
    /\ allowed' = TRUE /\ gateLeft' = ms
    /\ UNCHANGED <<supVars, grant, coordVars, ms, since>>

\* fc_motor_gate_arm_burst(start + ms).
ArmBurst ==
    /\ Moves("start", "gated")
    /\ allowed' = TRUE /\ gateLeft' = GateLeft(ms - since)
    /\ UNCHANGED <<supVars, grant, coordVars, ms, since>>

\* fc_supervisor_begin_burst(ms, start); a refusal aborts.
Begin ==
    /\ \/ Moves("gated", "burst") /\ BeginBurst(ms, since) /\ grant' = ms
       \/ /\ Moves("gated", "revoke")
          /\ ~(state = "ARMED" /\ faults = {} /\ ArmedConditionsMet(in))
          /\ UNCHANGED <<supVars, grant>>
    /\ UNCHANGED <<gateVars, coordVars, ms, since>>

\* The console has slept through the burst and the tail.
Waited ==
    /\ Moves("burst", "revoke")
    /\ since > ms + Tail
    /\ UNCHANGED <<supVars, grant, gateVars, coordVars, ms, since>>

(* The way out, after a burst and after an abort alike.                    *)

Revoke ==
    /\ Moves("revoke", "release")
    /\ RevokeBurst
    /\ UNCHANGED <<supVars, grant, coordVars, ms, since>>

Release ==
    /\ cl = "release" /\ cl' = "disarm"
    /\ simActive' = FALSE
    /\ UNCHANGED <<supVars, phase, registered, cleanReset, step, sinceRun, lineAge, ahead, engaged,
                   grant, pathVars, token, ms, since, refRunning>>

DisarmPath ==
    /\ cl = "disarm" /\ cl' = "stand"
    /\ ExperimentDisarm
    /\ UNCHANGED <<supVars, driverVars, grant, gateVars, latched, whole, run, runLeft, call,
                   half, token, ms, since, refRunning>>

\* The burst is over; what is not needed any more is forgotten.
Stand ==
    /\ cl = "stand" /\ cl' = "free"
    /\ IF state \in {"READY", "ARMED", "RUNNING"} THEN Disarm ELSE UNCHANGED supVars
    /\ ms' = 0 /\ since' = 0 /\ grant' = 0
    /\ UNCHANGED <<driverVars, pathVars, token, refRunning>>

Procedure ==
    /\ \/ ClReady \/ ClReadyRefused \/ ClBurst \/ Press \/ Engaged \/ NotEngaged
       \/ ArmBurst \/ Begin \/ Waited \/ Revoke \/ Release \/ DisarmPath \/ Stand
    /\ Instant /\ ClInstant

(* The other commands of the console, between bursts.  The bench source    *)
(* stays unused here: TwoOrigins lets the operator use it as well.         *)

OtherCommand ==
    /\ cl = "free" /\ ConsoleFree
    /\ \/ /\ AskReady \/ AskDisarm \/ AskClear
          /\ UNCHANGED <<driverVars, pathVars>> /\ Instant
       \/ SimulateFootpad /\ UNCHANGED pathVars
       \/ (MotorArm \/ MotorDisarm \/ MotorClear) /\ UNCHANGED <<driverVars, grant>> /\ Instant
    /\ UNCHANGED <<clVars, refRunning>>
    /\ ClInstant

-----------------------------------------------------------------------------
(* Core 1.                                                                 *)

\* The calibration stays valid; SupervisorTask takes it away.
SupervisorTaskStep ==
    /\ Task /\ in'.calibration
    /\ UNCHANGED <<pathVars, clVars, refRunning>>
    /\ ClInstant

LoopStep ==
    /\ LoopIteration
    /\ UNCHANGED <<pathVars, clVars, refRunning>>
    /\ ClInstant

\* Refloat reads the footpad, and may enter or leave its own RUNNING.
RefloatReads ==
    /\ RefloatReadsFootpad /\ engaged' = simActive
    /\ refRunning' \in BOOLEAN /\ (refRunning' => refRunning \/ engaged')
    /\ UNCHANGED <<pathVars, clVars>>
    /\ ClInstant

\* Refloat asks for a current in its RUNNING only; a request under way is
\* not taken back.
RefloatAsks ==
    /\ step = "idle"
    /\ \/ /\ refRunning
          /\ \E l \in Levels : Ask("refloat", l)
          /\ UNCHANGED <<supVars, gateVars, coordVars, benchVars, half>>
       \/ Request("refloat")
    /\ UNCHANGED <<driverVars, grant, clVars, refRunning>>
    /\ Instant /\ ClInstant

(* The ESCs, and time.                                                     *)

EscStep ==
    /\ \E h \in Halves : EscReleases(h)
    /\ UNCHANGED <<driverVars, grant, clVars, refRunning>>
    /\ Instant /\ ClInstant

Counts(n) == IF n <= LetGo THEN n + 1 ELSE n

ClosedTick ==
    /\ TimePasses /\ MotorTick
    /\ since' = IF cl # "free" /\ since < Span THEN since + 1 ELSE since
    /\ offFor' = IF MotorOutputPermitted THEN 0 ELSE Counts(offFor)
    /\ lateBy' = IF cl \notin {"free", "settle", "wait"} /\ since' <= ms THEN 0
                 ELSE Counts(lateBy)
    /\ UNCHANGED <<cl, token, ms, refRunning>>

ClosedNext == Procedure \/ OtherCommand \/ SupervisorTaskStep \/ LoopStep \/ RefloatReads
                  \/ RefloatAsks \/ EscStep \/ ClosedTick

ClosedSpec == ClosedInit /\ [][ClosedNext]_closedVars

-----------------------------------------------------------------------------
(* Properties.                                                             *)

RefloatDrives == \E h \in Halves : half[h].by = "refloat"

\* Whatever ends the burst - its time, a fault, a lost condition, the operator
\* or an abort - and whatever Refloat had under way: its current is gone from
\* both wheels once the last request has landed and the ESCs have timed out.
QuietAfterRunning == offFor > LetGo => ~RefloatDrives

\* The same, counted from the deadline: the gate alone keeps it, also while
\* the supervisor has not yet found the burst to be over.
QuietAfterDeadline == lateBy > LetGo => ~RefloatDrives

\* The two independent deadlines of one burst are the same instant.
DeadlinesAgree ==
    (state = "RUNNING" /\ allowed) => (gateLeft = burst \/ (gateLeft <= 0 /\ burst = 0))

\* The bench's own press is never taken for a rider's while a burst is being
\* prepared or runs: the flag is reported before the press it explains.
BenchPressNotRider ==
    cl \in {"wait", "start", "gated", "burst"} => (in.footpad => in.simulated)
=============================================================================
