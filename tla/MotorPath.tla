------------------------------ MODULE MotorPath ------------------------------
(***************************************************************************)
(* The way of a current request from its source to the two ESCs:           *)
(*                                                                         *)
(*   source -> Motor Gate -> dual-motor coordinator -> CAN -> half A, B    *)
(*                                                                         *)
(* (fc_motor_gate.c, fc_dual_motor.c, fc_motor_experiment.c), with the     *)
(* bench source of fc_motor_experiment.c and its console commands.  Each   *)
(* source runs in a task of its own and may be preempted between any two   *)
(* of the steps asked, passed, send, sentA/missedA; nothing on the way     *)
(* holds a lock.  The supervisor is the module Supervisor.                 *)
(*                                                                         *)
(* Reduced to a free choice: the reasons of the coordinator to refuse that *)
(* come from the CAN statistics, the age and the fault code of the nodes,  *)
(* the age of the command and the injected faults, and the result of each  *)
(* transmission.  A frame accepted for transmission reaches its half.      *)
(* Left out: the statistics, the skew histogram, the sign inversion.       *)
(***************************************************************************)
EXTENDS Supervisor

CONSTANTS
    ImuFresh,  \* FC_DUAL_IMU_FRESH_US
    Flight,    \* no request is on its way for longer than this
    EscHold,   \* an ESC holds a current this long without a new frame ...
    EscMax,    \* ... and, by the tick of its own timer, at most this long
    Levels,    \* the currents asked for
    RunMax,    \* the longest run of the bench source
    MayFail    \* the halves whose transmission may fail

ASSUME PathAssumption ==
    /\ ImuFresh \in Nat /\ Flight \in Nat /\ RunMax \in Nat
    /\ EscHold \in Nat \ {0} /\ EscMax \in Nat /\ EscHold <= EscMax
    /\ Levels # {}

Origins == {"refloat", "experiment"}
Halves  == {"A", "B"}

VARIABLES
    allowed,   \* the REFLOAT bit of G.allowed_origins (EXPERIMENT's never goes)
    gateLeft,  \* B.deadline_us - now, or GateGone
    armed,     \* ST.armed
    latched,   \* ST.latched
    whole,     \* PREV_PAIR_WHOLE
    call,      \* the request of each source: how far it is, its age, its current
    run,       \* E.run: the bench source runs
    stopReq,   \* E.stop_req
    runLeft,   \* what is left of its time
    half       \* what each ESC does: whose current, which, and the frame's age

gateVars  == <<allowed, gateLeft>>
coordVars == <<armed, latched, whole>>
benchVars == <<run, stopReq, runLeft>>
motorVars == <<supVars, gateVars, coordVars, benchVars, call, half>>

\* B.deadline_us = 0, or so long past that no request can be older.
GateGone == -(Flight + 1)

Free == [by |-> "nobody", amps |-> 0, quiet |-> 0]

NoCall == [at |-> "idle", age |-> 0, amps |-> CHOOSE l \in Levels : TRUE]

Stages == {"idle", "asked", "passed", "send", "sentA", "missedA"}

MotorTypeOK ==
    /\ TypeOK
    /\ allowed \in BOOLEAN /\ gateLeft \in GateGone .. BurstMax
    /\ armed \in BOOLEAN /\ latched \in BOOLEAN /\ whole \in BOOLEAN
    /\ call \in [Origins -> [at : Stages, age : 0 .. Flight, amps : Levels]]
    /\ run \in BOOLEAN /\ stopReq \in BOOLEAN /\ runLeft \in 0 .. RunMax
    /\ half \in [Halves -> [by : Origins, amps : Levels, quiet : 0 .. EscMax] \cup {Free}]

\* After fc_motor_gate_init and fc_motor_experiment_init, and a good boot.
MotorInit ==
    /\ state = "DISARMED" /\ faults = {}
    /\ in = [platform |-> TRUE, config |-> TRUE, loop |-> TRUE, imu |-> TRUE,
             watchdog |-> TRUE, footpad |-> FALSE, simulated |-> FALSE,
             calibration |-> TRUE]
    /\ loopAge = 0 /\ imuAge = 0 /\ burst = NoBurst /\ lastPermit = "OK"
    /\ allowed = FALSE /\ gateLeft = GateGone
    /\ armed = FALSE /\ latched = FALSE /\ whole = TRUE
    /\ call = [o \in Origins |-> NoCall]
    /\ run = FALSE /\ stopReq = FALSE /\ runLeft = 0
    /\ half = [h \in Halves |-> Free]

-----------------------------------------------------------------------------
(* One request.                                                            *)

At(o, stage) == call[o].at = stage

\* The request of o goes on to the next stage, or is over.
Goes(o, stage) ==
    call' = [call EXCEPT ![o].at = stage,
                         ![o].age = IF stage = "idle" THEN 0 ELSE @]

\* The source notes the time and calls the gate.
Ask(o, amps) ==
    /\ At(o, "idle")
    /\ call' = [call EXCEPT ![o] = [at |-> "asked", age |-> 0, amps |-> amps]]

(* The gate, in the order of its checks.                                   *)

\* Mutant: the state is looked at for FAULT only.
GateRefusesInFault(o) ==
    \/ state = "FAULT"
    \/ o = "refloat" /\ ~allowed

GateRefuses(o) ==
    \/ state = "FAULT"
    \/ o = "refloat" /\ (~MotorOutputPermitted \/ ~allowed)

\* The deadline is compared with the time the source noted.  Mutant: never.
GateExpiredNever(o) == FALSE
GateExpired(o) == o = "refloat" /\ gateLeft + call[o].age <= 0

\* fc_motor_gate_revoke_burst.
RevokeBurst == allowed' = FALSE /\ gateLeft' = GateGone

\* A senseless value is refused before all other checks; a request that is no
\* current is refused after the deadline, and does not get past the gate.
Gate(o) ==
    /\ At(o, "asked")
    /\ \/ Goes(o, "idle") /\ UNCHANGED gateVars
       \/ ~GateRefuses(o) /\ GateExpired(o) /\ Goes(o, "idle") /\ RevokeBurst
       \/ ~GateRefuses(o) /\ ~GateExpired(o) /\ Goes(o, "passed") /\ UNCHANGED gateVars
    /\ UNCHANGED <<supVars, coordVars, benchVars, half>>

(* The coordinator.                                                        *)

\* gather: no READY or ARMED is asked for, only a system in order.
SupervisorAllows == state # "FAULT" /\ in.loop /\ in.platform /\ in.config

\* Never is a last sample at time 0, which is stale.
ImuIsFresh == imuAge # Never /\ imuAge <= ImuFresh

\* Mutant: the arming of the operator is not asked for.
MayPlanUnarmed == ~latched /\ whole /\ SupervisorAllows /\ ImuIsFresh

MayPlan == armed /\ ~latched /\ whole /\ SupervisorAllows /\ ImuIsFresh

\* The coordinator grants a pair or refuses it; it has reasons to refuse that
\* are not modelled.
Plan(o) ==
    /\ At(o, "passed")
    /\ Goes(o, "idle") \/ (MayPlan /\ Goes(o, "send"))
    /\ UNCHANGED <<supVars, gateVars, coordVars, benchVars, half>>

Commanded(o) == [by |-> o, amps |-> call[o].amps, quiet |-> 0]

Reached(h, ok, o) == half' = IF ok THEN [half EXCEPT ![h] = Commanded(o)] ELSE half

SendA(o) ==
    /\ At(o, "send")
    /\ \E ok \in BOOLEAN :
           /\ ~ok => "A" \in MayFail
           /\ Reached("A", ok, o)
           /\ Goes(o, IF ok THEN "sentA" ELSE "missedA")
    /\ UNCHANGED <<supVars, gateVars, coordVars, benchVars>>

\* Mutant: only a pair whose second half failed is noticed.
ReportSendOfB(sentA, sentB) ==
    /\ whole' = ~(sentA /\ ~sentB)
    /\ latched' = (latched \/ (sentA /\ ~sentB))

\* Mutant: what became of the first half is not looked at.
ReportSendLast(sentA, sentB) ==
    /\ whole' = sentB
    /\ latched' = (latched \/ ~sentB)

\* fc_dual_motor_report_send: a pair both of whose halves failed is whole.
ReportSend(sentA, sentB) ==
    /\ whole' = (sentA = sentB)
    /\ latched' = (latched \/ sentA # sentB)

\* The second half, and the report of the pair in the same breath.
SendB(o) ==
    /\ call[o].at \in {"sentA", "missedA"}
    /\ \E ok \in BOOLEAN :
           /\ ~ok => "B" \in MayFail
           /\ Reached("B", ok, o)
           /\ ReportSend(At(o, "sentA"), ok)
    /\ Goes(o, "idle")
    /\ UNCHANGED <<supVars, gateVars, armed, benchVars>>

Request(o) == Gate(o) \/ Plan(o) \/ SendA(o) \/ SendB(o)

-----------------------------------------------------------------------------
(* The bench source and its console commands.                              *)

\* The console is one task: while it fires a single pair it does nothing else.
ConsoleFree == run \/ At("experiment", "idle")

ProducerAsks ==
    /\ run /\ ~stopReq /\ runLeft > 0
    /\ Ask("experiment", call["experiment"].amps)
    /\ UNCHANGED <<supVars, gateVars, coordVars, benchVars, half>>

ProducerEnds ==
    /\ run /\ (stopReq \/ runLeft = 0) /\ At("experiment", "idle")
    /\ run' = FALSE
    /\ UNCHANGED <<supVars, gateVars, coordVars, stopReq, runLeft, call, half>>

MotorRun(amps, time) ==
    /\ ConsoleFree /\ ~run /\ 0 < time /\ time <= RunMax
    /\ run' = TRUE /\ stopReq' = FALSE /\ runLeft' = time
    /\ call' = [call EXCEPT !["experiment"].amps = amps]
    /\ UNCHANGED <<supVars, gateVars, coordVars, half>>

MotorStop ==
    /\ ConsoleFree
    /\ stopReq' = TRUE
    /\ UNCHANGED <<supVars, gateVars, coordVars, run, runLeft, call, half>>

\* motor-oneshot-fire: one pair, by the gate, from the console itself.
OneShot(amps) ==
    /\ ConsoleFree /\ ~run /\ armed
    /\ Ask("experiment", amps)
    /\ UNCHANGED <<supVars, gateVars, coordVars, benchVars, half>>

\* fc_dual_motor_try_arm: the latch refuses whatever the board looks like.
TryArm(healthy) ==
    /\ healthy /\ ~latched /\ whole
    /\ armed' = TRUE
    /\ UNCHANGED <<latched, whole>>

\* fc_motor_experiment_arm.  The nodes, the bus, the models and the boot phase may
\* refuse as well.
MotorArm ==
    /\ ConsoleFree
    /\ TryArm(/\ state # "FAULT" /\ faults = {}
              /\ in.platform /\ in.config /\ in.loop /\ in.imu /\ in.watchdog)
    /\ UNCHANGED <<supVars, gateVars, benchVars, call, half>>

\* fc_motor_experiment_disarm.
ExperimentDisarm == stopReq' = TRUE /\ armed' = FALSE

MotorDisarm ==
    /\ ConsoleFree
    /\ ExperimentDisarm
    /\ UNCHANGED <<supVars, gateVars, latched, whole, run, runLeft, call, half>>

\* Mutant: clearing the latch leaves the arming alone.
MotorClearStaysArmed ==
    /\ ConsoleFree
    /\ latched' = FALSE /\ whole' = TRUE
    /\ UNCHANGED <<supVars, gateVars, armed, benchVars, call, half>>

MotorClear ==
    /\ ConsoleFree
    /\ latched' = FALSE /\ whole' = TRUE /\ armed' = FALSE
    /\ UNCHANGED <<supVars, gateVars, benchVars, call, half>>

-----------------------------------------------------------------------------
(* The rest of the system.                                                 *)

\* An ESC that hears nothing lets its half go.
EscReleases(h) ==
    /\ half[h] # Free /\ half[h].quiet >= EscHold
    /\ half' = [half EXCEPT ![h] = Free]
    /\ UNCHANGED <<supVars, gateVars, coordVars, benchVars, call>>

Flying == {o \in Origins : ~At(o, "idle")}

Driven == {h \in Halves : half[h] # Free}

\* Time passes no request that has flown for Flight, and no ESC that has been
\* left alone for EscMax.
MotorTick ==
    /\ \A o \in Flying : call[o].age < Flight
    /\ \A h \in Driven : half[h].quiet < EscMax
    /\ Tick
    /\ gateLeft' = IF gateLeft > GateGone THEN gateLeft - 1 ELSE gateLeft
    /\ runLeft' = IF run /\ runLeft > 0 THEN runLeft - 1 ELSE runLeft
    /\ call' = [o \in Origins |-> IF o \in Flying THEN [call[o] EXCEPT !.age = @ + 1]
                                  ELSE call[o]]
    /\ half' = [h \in Halves |-> IF h \in Driven THEN [half[h] EXCEPT !.quiet = @ + 1]
                                 ELSE half[h]]
    /\ UNCHANGED <<allowed, coordVars, run, stopReq>>

-----------------------------------------------------------------------------
(* The promise of WheelPair: what is on the wire, without how it came there. *)

Command(o) == [by |-> o, amps |-> call[o].amps]

\* The pairs of which half A has had its frame, or missed it, and half B has not.
OpenPairs ==
    {[command |-> Command(o), reached |-> At(o, "sentA")] :
         o \in {p \in Origins : call[p].at \in {"sentA", "missedA"}}}

Obeyed == [h \in Halves |-> [by |-> half[h].by, amps |-> half[h].amps]]

Pair == INSTANCE WheelPair WITH
            Commands <- [by : Origins, amps : Levels], Nothing <- [by |-> "nobody", amps |-> 0],
            wheel <- Obeyed, open <- OpenPairs

\* The wheels are commanded in pairs that no other pair falls into, and a pair that
\* reached one half alone is the last before the operator's act.
KeepsPairs == Pair!Spec
=============================================================================
