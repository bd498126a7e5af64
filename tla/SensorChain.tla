----------------------------- MODULE SensorChain -----------------------------
(***************************************************************************)
(* The motion sensor and the supervisor together.  In SupervisorTask the   *)
(* policy's verdict is any that the age of the last sample allows; here it *)
(* is the one that fc_imu_policy.c computes from what ImuPipeline makes of *)
(* the readings, those of the loop (fc_imu_rt.c) and those of the stress   *)
(* test (fc_imu_stress.c).                                                 *)
(*                                                                         *)
(* The chip, the bus and the driver are any: ImuPath has them.  One reader *)
(* at a time, as ImuPath!OneReader shows of an operator who takes care.    *)
(* When the loop ends or does not run, no reading comes.                   *)
(***************************************************************************)
EXTENDS SupervisorTask

CONSTANTS
    HoldSamples, LatchSamples,  \* hold_samples, latch_samples of the policy
    StuckLimit,                 \* stuck_duplicate_limit and stuck_limit
    Residual                    \* still samples the residual is measured from

VARIABLES
    pipe, health,   \* the pipeline and the series: see ImuPipeline
    words,          \* the kind of the words the driver read last
    reader,         \* who reads the sensor
    unrecoverable,  \* the bus is stuck, or an initialisation is known to have failed
    served,         \* history: for how long a machine in service has lived on the same words
    ill             \* history: for how long the policy has not said OK

chainVars == <<taskVars, pipe, health, words, reader, unrecoverable, served, ill>>

\* The pipeline's time line is what SupervisorTask knows of it.
Pipe == INSTANCE ImuPipeline
            WITH Freshness <- Fresh, Latch <- ImuTimeout,
                 line <- [seen |-> lineAge # Never, age |-> lineAge, old |-> served]

\* A line older than this serves in no state but DISARMED and FAULT.
StaleBound == Fresh + PollPeriod

\* Each acceptance of the same words prolongs them by that much.
ServedBound == StuckLimit * StaleBound

ChainInit ==
    /\ TaskInit
    /\ pipe = Pipe!PipeEmpty /\ health = Pipe!HealthEmpty
    /\ words = "bad" /\ reader = "loop" /\ unrecoverable = FALSE
    /\ served = 0 /\ ill = 0

-----------------------------------------------------------------------------
\* fc_imu_policy_evaluate, in the words of the supervisor.
Verdict ==
    [lost |-> "LOST", hold |-> "HOLD", ok |-> "OK"]
        [Pipe!Permit(unrecoverable, lineAge # Never, lineAge)]

\* A sensor that has not been read since its start is not judged.
Ill == health.inited /\ Verdict # "OK"

Recovers == ill' = IF Ill' THEN ill ELSE 0

(* The readings.                                                           *)

Readings ==
    {Pipe!Failed} \cup [ok : {TRUE}, kind : Pipe!Kinds, changed : {TRUE}]
                  \cup {[ok |-> TRUE, kind |-> words, changed |-> FALSE]}

\* After a series of failures the chip may be reset, and the outcome is noted.
WordsAfter(r) ==
    \/ r.ok /\ words' = r.kind /\ UNCHANGED unrecoverable
    \/ ~r.ok /\ words' \in {words, "bad"} /\ unrecoverable' \in BOOLEAN

\* An accepted sample is an iteration of the loop.
LoopReads(r) ==
    /\ reader = "loop" /\ step = "idle" /\ phase # "storage"
    /\ IF Pipe!Accepted(r) THEN LoopIteration ELSE UNCHANGED taskVars
    /\ served' = IF Pipe!Accepted(r) /\ r.changed THEN 0 ELSE served
    /\ Pipe!Submit(r)
    /\ WordsAfter(r)
    /\ UNCHANGED reader
    /\ Recovers

\* Of the readings of the test that succeed one in a period is passed on.
PassedOn(r) ==
    /\ Pipe!HealthSample(r, TRUE)
    /\ IF Pipe!HealthAccepts(r, TRUE) THEN StressSample ELSE UNCHANGED taskVars

NotPassedOn(r) ==
    /\ health' = [health EXCEPT !.same = @ /\ ~r.changed]
    /\ UNCHANGED taskVars

StressReads(r) ==
    /\ reader = "test" /\ phase = "service"
    /\ IF r.ok THEN PassedOn(r) \/ NotPassedOn(r) ELSE Pipe!HealthFails /\ UNCHANGED taskVars
    /\ WordsAfter(r)
    /\ UNCHANGED <<pipe, reader, served>>
    /\ Recovers

\* The loop has ended.  The driver may be initialised for another rate of the bus.
StressBegins ==
    /\ reader = "loop" /\ phase = "service"
    /\ reader' = "test"
    /\ words' \in {words, "bad"} /\ unrecoverable' \in BOOLEAN
    /\ UNCHANGED <<taskVars, pipe, health, served>>
    /\ Recovers

\* The loop starts, after the test or without one.
LoopStarts ==
    /\ SensorRestarts
    /\ pipe' = Pipe!PipeEmpty /\ health' = Pipe!HealthEmpty
    /\ reader' = "loop" /\ served' = 0
    /\ words' \in {words, "bad"} /\ unrecoverable' \in BOOLEAN
    /\ Recovers

-----------------------------------------------------------------------------
(* The supervisor's task, and all the rest.                                *)

SensorKept == UNCHANGED <<pipe, health, words, reader, unrecoverable>>

CallPermitOf ==
    /\ Call("permit")
    /\ IF health.inited THEN ReportImuPermit(Verdict) ELSE UNCHANGED supVars
    /\ Instant
    /\ SensorKept /\ UNCHANGED served /\ Recovers

OtherCalls ==
    /\ \/ AppMain
       \/ (Wake \/ CallWatchdog \/ CallSimulated \/ CallFootpad
                \/ CallCalibration \/ CallPoll) /\ Instant
       \/ CallPollBehind \/ RefloatReadsFootpad \/ Operator \/ SimulateFootpad
    /\ SensorKept /\ UNCHANGED served /\ Recovers

ChainTime ==
    /\ TimePasses
    /\ SensorKept
    /\ served' = IF state \in Engageable /\ lineAge # Never
                 THEN Pipe!Up(served, ServedBound + 1) ELSE 0
    /\ ill' = IF Ill THEN Later(ill) ELSE 0

ChainNext ==
    \/ \E r \in Readings : LoopReads(r) \/ StressReads(r)
    \/ StressBegins \/ LoopStarts
    \/ CallPermitOf \/ OtherCalls \/ ChainTime

ChainSpec == ChainInit /\ [][ChainNext]_chainVars

-----------------------------------------------------------------------------
(* Properties.                                                             *)

\* A machine that has left DISARMED is out of service within a period of the moment at
\* which the policy would no longer say OK, for whichever of its reasons.
IllBounded == state \in Engageable => ill <= PollPeriod

\* A frozen sensor serves no longer than the repetitions that the series forgives, also
\* when reads fail in between, and each no longer than a line stays fresh enough.
FrozenOut == served <= ServedBound
=============================================================================
