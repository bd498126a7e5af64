------------------------------- MODULE ImuPath -------------------------------
(***************************************************************************)
(* The path of the motion sensor: the driver that brings it up             *)
(* (icm20948.c), the task that reads it for the control loop               *)
(* (fc_imu_rt.c), the stress test that takes its place (fc_imu_stress.c)   *)
(* and the commands of the console that start and stop them.               *)
(*                                                                         *)
(* The driver has no lock: it is meant for one reader at a time.           *)
(* "careless" is a command the code lets through although a reader may be  *)
(* at work: imu-start while the loop or the test runs, i2cscan during the  *)
(* test.  What two readers do to the bus is not modelled.                  *)
(***************************************************************************)
EXTENDS ImuPipeline

CONSTANT ReinitAfter  \* FC_IMU_RT_REINIT_AFTER_FAILURES

ASSUME PathAssumption == ReinitAfter \in Nat \ {0} /\ LatchSamples <= ReinitAfter

VARIABLES
    driver,   \* the chip, its last words, whether the driver talks past it; BUS: stuck, reinit_failed
    rt,       \* R: the task and its handle, run, startup_done, driver_ok, failures in a row
    start,    \* who is inside fc_imu_rt_start
    test,     \* the stress test: off, asked for and waiting for the loop to end, reading
    careless  \* history

pathVars == <<pipelineVars, driver, rt, start, test, careless>>

\* "asleep" is the chip after a reset or a loss of power; "wrong" is awake with
\* the scales of the reset, half those the driver divides by.
Chips == {"asleep", "wrong", "right"}

RtEmpty == [alive |-> FALSE, run |-> FALSE, startup |-> FALSE, ok |-> FALSE, fails |-> 0]

PathTypeOK ==
    /\ PipelineTypeOK
    /\ driver \in [chip : Chips, words : Kinds, astray : BOOLEAN, stuck : BOOLEAN, failed : BOOLEAN]
    /\ rt \in [alive : BOOLEAN, run : BOOLEAN, startup : BOOLEAN, ok : BOOLEAN,
               fails : 0 .. ReinitAfter]
    /\ start \in {"nobody", "boot", "console", "test"}
    /\ test \in {"off", "asked", "reading"}
    /\ careless \in BOOLEAN

PathInit ==
    /\ driver = [chip |-> "asleep", words |-> "bad", astray |-> TRUE, stuck |-> FALSE, failed |-> FALSE]
    /\ rt = RtEmpty /\ start = "boot" /\ test = "off" /\ careless = FALSE
    /\ pipe = PipeEmpty /\ health = HealthEmpty /\ line = LineEmpty

Unrecoverable == driver.stuck \/ driver.failed

-----------------------------------------------------------------------------
(* icm20948.c.                                                             *)

Outcome(chip, astray, stuck, ok) ==
    [chip |-> chip, astray |-> astray, stuck |-> stuck, ok |-> ok]

\* No attempt finds the chip: the driver is left with the address of the last one.
BusFails == {Outcome(driver.chip, TRUE, s, FALSE) : s \in BOOLEAN}

\* The chip is reset, if the command reached it, and not heard of again.
ResetFails == {Outcome(c, FALSE, FALSE, FALSE) : c \in {driver.chip, "asleep"}}

\* A step of the configuration fails after all its tries.
ConfigureFails == {Outcome(c, FALSE, FALSE, FALSE) : c \in Chips}

InitOutcomes == BusFails \cup ResetFails \cup ConfigureFails \cup {Outcome("right", FALSE, FALSE, TRUE)}

\* The driver after icm20948_init; the words of a chip that was reset are new.
DriverAfter(o, words) ==
    [driver EXCEPT !.chip = o.chip, !.astray = o.astray, !.stuck = o.stuck,
                   !.words = IF o.chip = driver.chip /\ ~o.ok THEN words ELSE "bad"]

\* Mutant: the outcome of an initialisation is thrown away.
NoteReinitDiscarded(d, ok) == d

NoteReinit(d, ok) == [d EXCEPT !.failed = ~ok]

\* icm20948_read.  A chip asleep answers zeros, one with the wrong scales twice
\* what is there; any chip may freeze.
Readable ==
    CASE driver.chip = "asleep" -> {"bad"}
      [] driver.chip = "wrong"  -> {"moving", "low", "bad"}
      [] driver.chip = "right"  -> Kinds

Read == [ok : {TRUE}, kind : Readable, changed : {TRUE}]
            \cup {[ok |-> TRUE, kind |-> driver.words, changed |-> FALSE]}

Readings == {Failed} \cup (IF driver.astray THEN {} ELSE Read)

WordsAfter(r) == IF r.ok THEN r.kind ELSE driver.words

-----------------------------------------------------------------------------
(* fc_imu_rt.c.                                                            *)

\* The bus is brought up again after a series of failures, seldom enough, and the
\* outcome is noted.
Reinitialise(r) ==
    /\ ~r.ok /\ rt.fails + 1 >= ReinitAfter
    /\ \E o \in InitOutcomes : driver' = NoteReinit(DriverAfter(o, driver.words), o.ok)
    /\ rt' = [rt EXCEPT !.fails = 0]

\* Refloat is called from the sample on with which the residual is known.
StartupDone(r) == rt.startup \/ (Accepted(r) /\ ResidualReady')

Iterate(r) ==
    /\ rt.alive /\ rt.run /\ r \in Readings
    /\ Submit(r)
    /\ \/ Reinitialise(r)
       \/ /\ driver' = [driver EXCEPT !.words = WordsAfter(r)]
          /\ rt' = [rt EXCEPT !.fails = IF r.ok THEN 0 ELSE Up(@, ReinitAfter),
                              !.startup = StartupDone(r)]
    /\ UNCHANGED <<start, test, careless>>

\* Half-read words and the residual are of no use once the task has ended.
TaskEnds ==
    /\ rt.alive /\ ~rt.run
    /\ rt' = [rt EXCEPT !.alive = FALSE, !.fails = 0]
    /\ pipe' = PipeEmpty
    /\ UNCHANGED <<health, line, driver, start, test, careless>>

\* fc_imu_rt_start forgets all it knew and brings the chip up on the other core.
StartBegins(who) == start' = who /\ rt' = RtEmpty

StartEnds ==
    /\ start # "nobody"
    /\ \E o \in InitOutcomes :
        /\ driver' = DriverAfter(o, driver.words)
        /\ rt' = [RtEmpty EXCEPT !.alive = TRUE, !.run = TRUE, !.ok = o.ok]
    /\ PipelineInit
    /\ start' = "nobody"
    /\ test' = IF start = "test" THEN "off" ELSE test
    /\ UNCHANGED careless

-----------------------------------------------------------------------------
(* The commands.  The console waits for what it starts.                    *)

ConsoleFree == start \notin {"boot", "console"} /\ test # "asked"

ImuStop ==
    /\ ConsoleFree /\ rt.run
    /\ rt' = [rt EXCEPT !.run = FALSE]
    /\ UNCHANGED <<pipelineVars, driver, start, test, careless>>

\* A reader is at work: the task, the test, or whoever starts the task again.
Reading == rt.alive \/ test = "reading" \/ start # "nobody"

ImuStart ==
    /\ ConsoleFree
    /\ IF Reading THEN careless' = TRUE /\ UNCHANGED <<rt, start>>
                  ELSE StartBegins("console") /\ UNCHANGED careless
    /\ UNCHANGED <<pipelineVars, driver, test>>

\* i2cscan looks for the loop only.
Scan ==
    /\ ConsoleFree /\ ~rt.alive /\ Reading
    /\ careless' = TRUE
    /\ UNCHANGED <<pipelineVars, driver, rt, start, test>>

\* imu-cal-save and imu-cal-clear, where they are allowed: fc_imu_pipeline_reset_ahrs.
CalibrationChanged ==
    /\ ConsoleFree
    /\ pipe' = [pipe EXCEPT !.still = 0]
    /\ UNCHANGED <<health, line, driver, rt, start, test, careless>>

-----------------------------------------------------------------------------
(* fc_imu_stress.c.                                                        *)

\* No test runs, and the last start of the loop found the sensor.
StressAllowed == test = "off" /\ rt.ok

StressAsked ==
    /\ ConsoleFree /\ StressAllowed
    /\ rt' = [rt EXCEPT !.run = FALSE]
    /\ test' = "asked"
    /\ UNCHANGED <<pipelineVars, driver, start, careless>>

\* Mutant: the loop was told to end, which is enough.
LoopGoneTold == ~rt.run

LoopGone == ~rt.alive

\* The test may read at another rate of the bus, for which it initialises the driver
\* anew; it goes on as well when that has failed.
AtAnotherRate == \E o \in InitOutcomes : driver' = DriverAfter(o, driver.words)

StressBegins ==
    /\ test = "asked" /\ LoopGone
    /\ test' = "reading"
    /\ UNCHANGED driver \/ AtAnotherRate
    /\ UNCHANGED <<pipelineVars, rt, start, careless>>

\* The task of the test could not be created: the loop is started again.
StressNotCreated ==
    /\ test = "asked" /\ LoopGone
    /\ test' = "off" /\ StartBegins("console")
    /\ UNCHANGED <<pipelineVars, driver, careless>>

\* The loop did not end in time: the test is refused, and the loop ends all the same.
StressRefused ==
    /\ test = "asked" /\ ~LoopGone
    /\ test' = "off"
    /\ UNCHANGED <<pipelineVars, driver, rt, start, careless>>

\* A reading of the test; of those that succeed one in a period is passed on, with
\* the driver's own number.
StressReads(r) ==
    /\ test = "reading" /\ start = "nobody" /\ r \in Readings
    /\ IF ~r.ok THEN HealthFails
       ELSE HealthSample(r, TRUE) \/ health' = [health EXCEPT !.same = @ /\ ~r.changed]
    /\ driver' = [driver EXCEPT !.words = WordsAfter(r)]
    /\ UNCHANGED <<pipe, line, rt, start, test, careless>>

\* The bus at another rate, or after a series of failures: nobody is told how it went.
StressResets ==
    /\ test = "reading" /\ start = "nobody"
    /\ \E o \in InitOutcomes : driver' = DriverAfter(o, driver.words)
    /\ UNCHANGED <<pipelineVars, rt, start, test, careless>>

\* The time is over or imu_stress-stop was typed: the loop is started again.
StressEnds ==
    /\ test = "reading" /\ start = "nobody"
    /\ StartBegins("test")
    /\ UNCHANGED <<pipelineVars, driver, test, careless>>

-----------------------------------------------------------------------------
\* The supply of the chip fails for a moment.
PowerDip ==
    /\ driver.chip # "asleep"
    /\ driver' = [driver EXCEPT !.chip = "asleep"]
    /\ UNCHANGED <<pipelineVars, rt, start, test, careless>>

\* A period of the supervisor.
Tick ==
    /\ LineAged(Unrecoverable)
    /\ UNCHANGED <<pipe, health, driver, rt, start, test, careless>>

\* Two readers: left out.
Beyond == careless /\ UNCHANGED pathVars

PathStep ==
    \/ \E r \in Readings : Iterate(r) \/ StressReads(r)
    \/ TaskEnds \/ StartEnds
    \/ ImuStop \/ ImuStart \/ Scan \/ CalibrationChanged
    \/ StressAsked \/ StressBegins \/ StressNotCreated \/ StressRefused
    \/ StressResets \/ StressEnds
    \/ PowerDip \/ Tick

PathNext == (~careless /\ PathStep) \/ Beyond

PathSpec == PathInit /\ [][PathNext]_pathVars

-----------------------------------------------------------------------------
(* Properties.                                                             *)

\* The variables keep their types, and a sample found stuck is one in a series.
ImuTypeOK == PathTypeOK /\ (health.ahead => health.ident = StuckLimit \/ test = "reading")

\* The data behind a thrust that was not latched away is never older than each
\* acceptance of the same words allows (fc_imu_pipeline.c:103, fc_imu_health.c:157,
\* fc_imu_policy.c:47): a frozen sensor between failed reads is caught.
FrozenBounded == line.old <= OldBound

\* After a sample was found stuck none is accepted until the loop is started again,
\* whatever the sensor does (fc_imu_health.c:162): its number stays behind.
StuckForGood ==
    [][health.ahead /\ rt.alive /\ rt'.alive => line'.age >= line.age]_pathVars

\* As long as the operator takes care, the driver has one reader: the loop, the test
\* or the start of the loop (fc_imu_stress.c:614).
OneReader ==
    /\ rt.alive => start = "nobody" /\ test # "reading"
    /\ test = "reading" => start \in {"nobody", "test"}

\* Refloat is fed from a chip with the wrong scales only when the supervisor knows.
MisscaledBlocked == rt.alive /\ rt.startup /\ driver.chip = "wrong" /\ ~driver.astray => driver.failed
=============================================================================
