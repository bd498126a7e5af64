---------------------------- MODULE CoreOneProofs ----------------------------
(***************************************************************************)
(* What is proved of the control loop's core below the supervisor: of the  *)
(* motion sensor's path, for every policy, every limit of duplicates and   *)
(* every length of the residual, and of what Refloat is given there: its   *)
(* configuration, for every set of coefficients, every multiplier and      *)
(* every rounding of the serialiser, and its threads, for every number of  *)
(* them, every period and every clock.                                     *)
(*                                                                         *)
(* The sensor:                                                             *)
(*   ReaderInv   who may be inside the driver: the loop, a start of the    *)
(*               loop or the test; a start forgets what the test goes by;  *)
(*   HealthInv   a sample found stuck was one in a series;                 *)
(*   ScalesInv   a chip with the wrong scales has not fed the residual,    *)
(*               unless its initialisation was seen to fail;               *)
(*   FrozenInv   data are as old as the acceptances that prolonged them.   *)
(*                                                                         *)
(* Refloat: BenchStaysInMemory leans on BenchComesBack (what set_cfg       *)
(* stores while nothing is changed are the chosen gains) and on the        *)
(* console having one call at a time: no edit falls between two words of a *)
(* store.  The integral needs what a loop in mid-iteration will write:     *)
(* HeldInv.  PaceInv carries the mark of a thread through its sleep;       *)
(* ClockInv counts alarms; the table of threads needs only itself.         *)
(***************************************************************************)
EXTENDS ImuPath, RefloatConfig, RefloatThreads, TLAPS

Readers == {"nobody", "boot", "console", "test"}

ReaderInv ==
    /\ rt.alive => start = "nobody" /\ test # "reading"
    /\ start # "nobody" => rt = RtEmpty
    /\ start = "test" => test = "reading"
    /\ start \in {"boot", "console"} => test = "off"

HealthInv ==
    health.ahead => health.ident = StuckLimit /\ health.prev

ScalesInv ==
    /\ driver.chip = "wrong" => driver.words # "still"
    /\ rt.alive /\ driver.chip = "wrong" /\ ~driver.failed => ~rt.startup /\ pipe.still = 0

\* How long n acceptances of the same words prolong them.
Prolonged(n) == n * Latch

FrozenInv ==
    /\ line.seen => health.inited
    /\ ~line.seen \/ line.age > Latch => line.old = 0
    /\ rt.alive /\ line.seen => health.prev /\ (driver.words # "bad" => health.same)
    /\ line.old <= Prolonged(StuckLimit - 1) + line.age
    /\ rt.alive /\ health.ident < StuckLimit => line.old <= Prolonged(health.ident) + line.age

-----------------------------------------------------------------------------
(* Numbers, readings and outcomes.                                         *)

LEMMA Numbers ==
    /\ Freshness \in Nat /\ Latch \in Nat /\ Latch > 0
    /\ LatchSamples \in Nat /\ StuckLimit \in Nat /\ StuckLimit > 0
    /\ Residual \in Nat /\ Residual > 0 /\ ReinitAfter \in Nat /\ ReinitAfter > 0
    /\ OldBound \in Nat
<1>1. {Freshness, Latch, HoldSamples, LatchSamples, StuckLimit, Residual} \subseteq Nat \ {0}
  BY PipelineAssumption
<1>2. OldBound \in Nat
  BY <1>1 DEF OldBound
<1> QED
  BY <1>1, <1>2, PathAssumption

LEMMA UpBounded ==
    ASSUME NEW limit \in Nat, NEW n \in 0 .. limit
    PROVE  Up(n, limit) \in 0 .. limit /\ Up(n, limit) >= n /\ Up(n, limit) <= n + 1
  BY DEF Up

\* What a reading is: a failure, the words of before, or new words the chip can give.
LEMMA ReadingShape ==
    ASSUME PathTypeOK, NEW r \in Readings
    PROVE  /\ r.ok \in BOOLEAN /\ r.kind \in Kinds /\ r.changed \in BOOLEAN
           /\ r.ok /\ ~r.changed => r.kind = driver.words
           /\ r.ok /\ r.changed /\ driver.chip = "wrong" => r.kind # "still"
<1>1. driver.words \in Kinds /\ driver.chip \in Chips
  BY DEF PathTypeOK
<1>2. CASE r = Failed
  BY <1>2 DEF Failed, Kinds
<1>3. CASE r \in Read
  <2>1. Readable \subseteq Kinds /\ (driver.chip = "wrong" => "still" \notin Readable)
    BY <1>1 DEF Readable, Kinds, Chips
  <2>2. CASE r \in [ok : {TRUE}, kind : Readable, changed : {TRUE}]
    BY <2>1, <2>2
  <2>3. CASE r = [ok |-> TRUE, kind |-> driver.words, changed |-> FALSE]
    BY <1>1, <2>3
  <2> QED
    BY <1>3, <2>2, <2>3 DEF Read
<1> QED
  BY <1>2, <1>3 DEF Readings

LEMMA BusOutcome ==
    ASSUME NEW o \in BusFails
    PROVE  o.chip = driver.chip /\ o.astray = TRUE /\ o.stuck \in BOOLEAN /\ o.ok = FALSE
<1>1. PICK s \in BOOLEAN : o = Outcome(driver.chip, TRUE, s, FALSE)
  BY DEF BusFails
<1> QED
  BY <1>1 DEF Outcome

\* The driver after an initialisation: the right scales if it went well, and new
\* words wherever the chip is another one.
LEMMA DriverAfterShape ==
    ASSUME PathTypeOK, NEW o \in InitOutcomes
    PROVE  /\ DriverAfter(o, driver.words) \in
                [chip : Chips, words : Kinds, astray : BOOLEAN, stuck : BOOLEAN, failed : BOOLEAN]
           /\ DriverAfter(o, driver.words).failed = driver.failed
           /\ DriverAfter(o, driver.words).words \in {driver.words, "bad"}
           /\ DriverAfter(o, driver.words).chip = "wrong" =>
                ~o.ok /\ (driver.chip = "wrong" \/ DriverAfter(o, driver.words).words = "bad")
           /\ o.ok \in BOOLEAN
<1> DEFINE d == DriverAfter(o, driver.words)
<1>1. /\ driver \in [chip : Chips, words : Kinds, astray : BOOLEAN, stuck : BOOLEAN, failed : BOOLEAN]
      /\ driver.words \in Kinds /\ driver.chip \in Chips
  BY DEF PathTypeOK
<1>2. /\ o.chip \in Chips /\ o.astray \in BOOLEAN /\ o.stuck \in BOOLEAN /\ o.ok \in BOOLEAN
      /\ o.chip = "wrong" => ~o.ok
  <2>1. CASE o \in BusFails
    BY <1>1, <2>1, BusOutcome DEF Chips
  <2>2. CASE o \in ResetFails \cup ConfigureFails
    <3>1. PICK c \in Chips : o = Outcome(c, FALSE, FALSE, FALSE)
      BY <1>1, <2>2 DEF ResetFails, ConfigureFails, Chips
    <3> QED
      BY <3>1 DEF Outcome
  <2>3. CASE o = Outcome("right", FALSE, FALSE, TRUE)
    BY <2>3 DEF Outcome, Chips
  <2> QED
    BY <2>1, <2>2, <2>3 DEF InitOutcomes
<1>3. /\ d.chip = o.chip /\ d.failed = driver.failed
      /\ d.words = IF o.chip = driver.chip /\ ~o.ok THEN driver.words ELSE "bad"
  BY <1>1 DEF DriverAfter
<1>4. d \in [chip : Chips, words : Kinds, astray : BOOLEAN, stuck : BOOLEAN, failed : BOOLEAN]
  BY <1>1, <1>2 DEF DriverAfter, Kinds
<1> QED
  BY <1>2, <1>3, <1>4

-----------------------------------------------------------------------------
(* What a reading does to the series and to the line.                      *)

Healths == [inited : BOOLEAN, errs : 0 .. LatchSamples, inv : 0 .. LatchSamples,
            lows : 0 .. LatchSamples,
            prev : BOOLEAN, same : BOOLEAN, ident : 0 .. StuckLimit, ahead : BOOLEAN]

Pipes == [prev : BOOLEAN, dups : 0 .. StuckLimit, still : 0 .. Residual]

Lines == [seen : BOOLEAN, age : 0 .. Latch + 1, old : 0 .. OldBound + 1]

LEMMA HealthFields ==
    ASSUME PathTypeOK
    PROVE  /\ health \in Healths
           /\ health.inited \in BOOLEAN /\ health.prev \in BOOLEAN
           /\ health.same \in BOOLEAN /\ health.ahead \in BOOLEAN
           /\ health.errs \in 0 .. LatchSamples /\ health.inv \in 0 .. LatchSamples
           /\ health.lows \in 0 .. LatchSamples /\ health.ident \in 0 .. StuckLimit
<1>1. health \in Healths
  BY DEF PathTypeOK, PipelineTypeOK, Healths
<1> QED
  BY <1>1 DEF Healths

LEMMA FailsShape ==
    ASSUME PathTypeOK, HealthFails
    PROVE  /\ health' \in Healths
           /\ health'.inited = TRUE /\ health'.prev = health.prev /\ health'.same = health.same
           /\ health'.ident = health.ident /\ health'.ahead = health.ahead
<1>1. Up(health.errs, LatchSamples) \in 0 .. LatchSamples
  BY HealthFields, Numbers DEF Up
<1> QED
  BY <1>1, HealthFields DEF HealthFails, Healths

LEMMA InvalidShape ==
    ASSUME PathTypeOK, NEW r \in Readings, HealthInvalid(r)
    PROVE  /\ health' \in Healths
           /\ health'.inited = TRUE /\ health'.prev = health.prev
           /\ health'.same = (health.same /\ ~r.changed)
           /\ health'.ident = health.ident /\ health'.ahead = health.ahead
<1>1. Up(health.inv, LatchSamples) \in 0 .. LatchSamples /\ 0 \in 0 .. LatchSamples
  BY HealthFields, Numbers DEF Up
<1>2. (health.same /\ ~r.changed) \in BOOLEAN
  OBVIOUS
<1> QED
  BY <1>1, <1>2, HealthFields DEF HealthInvalid, Healths

\* A sample found stuck completes the series; one that is not makes it longer by one,
\* or begins it anew.
LEMMA UsableShape ==
    ASSUME PathTypeOK, NEW r \in Readings, NEW moved \in BOOLEAN, HealthUsable(r, moved)
    PROVE  /\ health' \in Healths
           /\ health'.inited = TRUE /\ health'.prev = TRUE /\ health'.same = TRUE
           /\ health'.ahead = Stuck(r, moved)
           /\ Stuck(r, moved) => health'.ident = StuckLimit
           /\ ~Stuck(r, moved) /\ Identical(r, moved) => health'.ident = health.ident + 1
           /\ ~Stuck(r, moved) => health'.ident < StuckLimit
           /\ ~Identical(r, moved) => health'.ident = 0
<1> DEFINE ident == IF Identical(r, moved) THEN Up(health.ident, StuckLimit) ELSE 0
           lows  == IF r.kind = "low" THEN Up(health.lows, LatchSamples) ELSE 0
<1>1. /\ lows \in 0 .. LatchSamples /\ ident \in 0 .. StuckLimit
      /\ 0 \in 0 .. LatchSamples
  BY HealthFields, Numbers DEF Up
<1>2. Stuck(r, moved) \in BOOLEAN
  BY DEF Stuck, Identical
<1>3. /\ Stuck(r, moved) => ident = StuckLimit
      /\ ~Stuck(r, moved) /\ Identical(r, moved) => ident = health.ident + 1
      /\ ~Stuck(r, moved) => ident < StuckLimit
      /\ ~Identical(r, moved) => ident = 0
  BY HealthFields, Numbers DEF Stuck, Up
<1>4. health' = [health EXCEPT !.inited = TRUE, !.errs = 0, !.inv = 0, !.lows = lows,
                               !.ident = ident, !.prev = TRUE, !.same = TRUE,
                               !.ahead = Stuck(r, moved)]
  BY DEF HealthUsable, Ahead
<1> HIDE DEF ident, lows
<1>5. /\ health' \in Healths
      /\ health'.inited = TRUE /\ health'.prev = TRUE /\ health'.same = TRUE
      /\ health'.ahead = Stuck(r, moved) /\ health'.ident = ident
  BY <1>1, <1>2, <1>4, HealthFields DEF Healths
<1> QED
  BY <1>3, <1>5

LEMMA HealthNext ==
    ASSUME PathTypeOK, HealthInv, NEW r \in Readings, NEW moved \in BOOLEAN,
           HealthFails \/ HealthSample(r, moved)
    PROVE  health' \in Healths /\ HealthInv' /\ health'.inited = TRUE
<1>1. CASE HealthFails
  BY <1>1, FailsShape DEF HealthInv
<1>2. CASE HealthInvalid(r)
  BY <1>2, InvalidShape DEF HealthInv
<1>3. CASE HealthUsable(r, moved)
  BY <1>3, UsableShape DEF HealthInv
<1> QED
  BY <1>1, <1>2, <1>3 DEF HealthSample

LEMMA PipeFields ==
    ASSUME PathTypeOK
    PROVE  /\ pipe \in Pipes /\ pipe.dups \in 0 .. StuckLimit /\ pipe.still \in 0 .. Residual
           /\ pipe.prev \in BOOLEAN
           /\ line \in Lines /\ line.seen \in BOOLEAN /\ line.age \in 0 .. Latch + 1
           /\ line.old \in 0 .. OldBound + 1
<1>1. pipe \in Pipes /\ line \in Lines
  BY DEF PathTypeOK, PipelineTypeOK, Pipes, Lines
<1> QED
  BY <1>1 DEF Pipes, Lines

\* Nothing is accepted once a sample was found stuck.
LEMMA AheadRefuses ==
    ASSUME PathTypeOK, HealthInv, NEW r \in Readings, health.ahead
    PROVE  ~Accepted(r)
<1>1. ~CounterMoved /\ health.prev /\ health.ident = StuckLimit
  BY DEF HealthInv, CounterMoved
<1>2. Stuck(r, CounterMoved)
  BY <1>1, HealthFields, Numbers DEF Stuck, Identical
<1> QED
  BY <1>2 DEF Accepted, HealthAccepts

LEMMA SubmitKeepsTypes ==
    ASSUME PathTypeOK, HealthInv, NEW r \in Readings, Submit(r)
    PROVE  /\ pipe' \in Pipes /\ health' \in Healths /\ line' \in Lines /\ HealthInv'
           /\ ~Accepted(r) => line' = line
           /\ ~Accepted(r) => pipe'.still = pipe.still
           /\ Accepted(r) => pipe'.still = ResidualAfter(r)
<1>1. CASE ~r.ok
  <2>1. ReadFailed /\ ~Accepted(r)
    BY <1>1 DEF Submit, Accepted
  <2>2. pipe' \in Pipes /\ pipe'.still = pipe.still /\ line' = line
    BY <2>1, PipeFields DEF ReadFailed, Pipes
  <2>3. health' \in Healths /\ HealthInv'
    BY <2>1, HealthNext DEF ReadFailed
  <2> QED
    BY <2>1, <2>2, <2>3, PipeFields
<1>2. CASE r.ok /\ Duplicate(r)
  <2>1. TakeDuplicate /\ ~Accepted(r)
    BY <1>2 DEF Submit, Accepted
  <2>2. Up(pipe.dups, StuckLimit) \in 0 .. StuckLimit
    BY PipeFields, Numbers, UpBounded
  <2>3. pipe' \in Pipes /\ pipe'.still = pipe.still /\ line' = line
    BY <2>1, <2>2, PipeFields DEF TakeDuplicate, Pipes
  <2>4. health' \in Healths /\ HealthInv'
    <3>1. CASE HealthFails
      BY <3>1, HealthNext
    <3>2. CASE UNCHANGED health
      BY <3>2, HealthFields DEF HealthInv
    <3> QED
      BY <2>1, <3>1, <3>2 DEF TakeDuplicate
  <2> QED
    BY <2>1, <2>3, <2>4, PipeFields
<1>3. CASE r.ok /\ ~Duplicate(r)
  <2>1. TakeSample(r)
    BY <1>3 DEF Submit
  <2>2. CounterMoved \in BOOLEAN
    BY HealthFields DEF CounterMoved
  <2>3. health' \in Healths /\ HealthInv'
    BY <2>1, <2>2, HealthNext DEF TakeSample
  <2>4. ResidualAfter(r) \in 0 .. Residual
    BY PipeFields, Numbers DEF ResidualAfter
  <2>5. /\ pipe' \in Pipes
        /\ pipe'.still = IF Accepted(r) THEN ResidualAfter(r) ELSE pipe.still
    BY <2>1, <2>4, PipeFields, Numbers DEF TakeSample, Pipes
  <2>6. line' \in Lines /\ (~Accepted(r) => line' = line)
    BY <2>1, PipeFields, Numbers DEF TakeSample, Lines
  <2> QED
    BY <2>3, <2>5, <2>6
<1>4. r.ok \in BOOLEAN
  BY ReadingShape
<1> QED
  BY <1>1, <1>2, <1>3, <1>4

LEMMA LineAges ==
    ASSUME PathTypeOK, NEW u \in BOOLEAN, LineAged(u)
    PROVE  /\ line' \in Lines /\ line'.seen = line.seen
           /\ ~line.seen => line' = line
           /\ line.seen => line'.age = Up(line.age, Latch + 1)
           /\ line'.age >= line.age
           /\ line.seen => \/ line'.old = 0
                           \/ line'.old = Up(line.old, OldBound + 1)
           /\ line.seen /\ health.inited /\ line'.age > Latch => line'.old = 0
<1> DEFINE age == Up(line.age, Latch + 1)
           lost == health.inited /\ Permit(u, TRUE, age) = "lost"
           old == IF lost THEN 0 ELSE Up(line.old, OldBound + 1)
<1>1. Latch + 1 \in Nat /\ OldBound + 1 \in Nat
  BY Numbers
<1>2. age \in 0 .. Latch + 1 /\ age >= line.age
  BY <1>1, PipeFields, UpBounded
<1>3. old \in 0 .. OldBound + 1 /\ old \in {0, Up(line.old, OldBound + 1)}
  <2>1. Up(line.old, OldBound + 1) \in 0 .. OldBound + 1
    BY <1>1, PipeFields DEF Up
  <2>2. 0 \in 0 .. OldBound + 1
    BY <1>1
  <2> QED
    BY <2>1, <2>2
<1>4. health.inited /\ age > Latch => lost
  BY DEF Permit
<1>5. line' = IF ~line.seen THEN line ELSE [seen |-> TRUE, age |-> age, old |-> old]
  BY DEF LineAged
<1>6. lost => old = 0
  OBVIOUS
<1> HIDE DEF age, old, lost
<1>7. CASE line.seen
  <2>1. line' \in Lines /\ line'.seen /\ line'.age = age /\ line'.old = old
    BY <1>2, <1>3, <1>5, <1>7 DEF Lines
  <2> QED
    BY <1>2, <1>3, <1>4, <1>6, <1>7, <2>1 DEF age
<1>8. CASE ~line.seen
  BY <1>5, <1>8, PipeFields
<1> QED
  BY <1>7, <1>8

-----------------------------------------------------------------------------
(* Types, and one reader.                                                  *)

Drivers == [chip : Chips, words : Kinds, astray : BOOLEAN, stuck : BOOLEAN, failed : BOOLEAN]

Tasks == [alive : BOOLEAN, run : BOOLEAN, startup : BOOLEAN, ok : BOOLEAN,
          fails : 0 .. ReinitAfter]

LEMMA PathFields ==
    ASSUME PathTypeOK
    PROVE  /\ driver \in Drivers /\ rt \in Tasks
           /\ rt.alive \in BOOLEAN /\ rt.run \in BOOLEAN /\ rt.startup \in BOOLEAN
           /\ rt.ok \in BOOLEAN /\ rt.fails \in 0 .. ReinitAfter
           /\ driver.chip \in Chips /\ driver.words \in Kinds /\ driver.astray \in BOOLEAN
           /\ driver.stuck \in BOOLEAN /\ driver.failed \in BOOLEAN
           /\ test \in {"off", "asked", "reading"} /\ start \in Readers
           /\ careless \in BOOLEAN
<1>1. driver \in Drivers /\ rt \in Tasks
  BY DEF PathTypeOK, Drivers, Tasks
<1> QED
  BY <1>1 DEF PathTypeOK, Drivers, Tasks, Readers

LEMMA EmptyTask ==
    /\ RtEmpty \in Tasks
    /\ ~RtEmpty.alive /\ ~RtEmpty.run /\ ~RtEmpty.ok /\ ~RtEmpty.startup
  BY Numbers DEF RtEmpty, Tasks

LEMMA EmptyPipeline ==
    /\ PipeEmpty \in Pipes /\ HealthEmpty \in Healths /\ LineEmpty \in Lines
    /\ PipeEmpty.still = 0 /\ ~HealthEmpty.ahead /\ HealthEmpty.ident = 0
    /\ ~LineEmpty.seen /\ LineEmpty.age = 0 /\ LineEmpty.old = 0
<1>1. OldBound + 1 \in Nat /\ Latch + 1 \in Nat
  BY Numbers
<1>2. PipeEmpty \in Pipes
  BY Numbers DEF PipeEmpty, Pipes
<1>3. HealthEmpty \in Healths
  BY Numbers DEF HealthEmpty, Healths
<1>4. LineEmpty \in Lines
  BY <1>1 DEF LineEmpty, Lines
<1> QED
  BY <1>2, <1>3, <1>4 DEF PipeEmpty, HealthEmpty, LineEmpty

BaseInv == PathTypeOK /\ ReaderInv /\ HealthInv

LEMMA InitBase == PathInit => BaseInv
<1> SUFFICES ASSUME PathInit PROVE BaseInv
  OBVIOUS
<1>1. driver \in Drivers
  BY DEF PathInit, Drivers, Chips, Kinds
<1>2. PathTypeOK
  BY <1>1, EmptyTask, EmptyPipeline
     DEF PathInit, PathTypeOK, PipelineTypeOK, Pipes, Healths, Lines, Drivers,
         Tasks, Readers
<1>3. ReaderInv /\ HealthInv
  BY EmptyTask, EmptyPipeline DEF PathInit, ReaderInv, HealthInv
<1> QED
  BY <1>2, <1>3 DEF BaseInv

LEMMA WordsTyped ==
    ASSUME PathTypeOK, NEW r \in Readings
    PROVE  /\ WordsAfter(r) \in Kinds
           /\ [driver EXCEPT !.words = WordsAfter(r)] \in Drivers
<1>1. WordsAfter(r) \in Kinds
  BY PathFields, ReadingShape DEF WordsAfter
<1> QED
  BY <1>1, PathFields DEF Drivers

\* The loop: a reading that is made use of, or after which the bus is brought up anew.
LEMMA IterateBase ==
    ASSUME BaseInv, NEW r \in Readings, Iterate(r)
    PROVE  BaseInv'
<1>1. PathTypeOK /\ ReaderInv /\ HealthInv
  BY DEF BaseInv
<1>2. pipe' \in Pipes /\ health' \in Healths /\ line' \in Lines /\ HealthInv'
  BY <1>1, SubmitKeepsTypes DEF Iterate
<1>3. rt.alive /\ start' = start /\ test' = test /\ careless' = careless
  BY DEF Iterate
<1>4. driver' \in Drivers /\ rt' \in Tasks /\ rt'.alive = rt.alive
  <2>1. CASE Reinitialise(r)
    <3>1. PICK o \in InitOutcomes : driver' = NoteReinit(DriverAfter(o, driver.words), o.ok)
      BY <2>1 DEF Reinitialise
    <3>2. driver' \in Drivers
      BY <1>1, <3>1, DriverAfterShape DEF NoteReinit, Drivers
    <3>3. rt' \in Tasks /\ rt'.alive = rt.alive
      BY <1>1, <2>1, PathFields, Numbers DEF Reinitialise, Tasks
    <3> QED
      BY <3>2, <3>3
  <2>2. CASE /\ driver' = [driver EXCEPT !.words = WordsAfter(r)]
             /\ rt' = [rt EXCEPT !.fails = IF r.ok THEN 0 ELSE Up(@, ReinitAfter),
                                 !.startup = StartupDone(r)]
    <3>1. driver' \in Drivers
      BY <1>1, <2>2, WordsTyped
    <3>2. (IF r.ok THEN 0 ELSE Up(rt.fails, ReinitAfter)) \in 0 .. ReinitAfter
      BY <1>1, PathFields, Numbers DEF Up
    <3>3. StartupDone(r) \in BOOLEAN
      BY <1>1, PathFields DEF StartupDone
    <3>4. rt' \in Tasks /\ rt'.alive = rt.alive
      BY <1>1, <2>2, <3>2, <3>3, PathFields DEF Tasks
    <3> QED
      BY <3>1, <3>4
  <2> QED
    BY <2>1, <2>2 DEF Iterate
<1>5. start = "nobody" /\ test # "reading"
  BY <1>1, <1>3 DEF ReaderInv
<1>6. PathTypeOK'
  BY <1>1, <1>2, <1>3, <1>4, PathFields
     DEF PathTypeOK, PipelineTypeOK, Pipes, Healths, Lines, Drivers,
         Tasks, Readers
<1>7. ReaderInv'
  BY <1>3, <1>4, <1>5 DEF ReaderInv
<1> QED
  BY <1>2, <1>6, <1>7 DEF BaseInv

LEMMA StartEndsBase ==
    ASSUME BaseInv, StartEnds
    PROVE  BaseInv'
<1>1. PathTypeOK /\ ReaderInv /\ HealthInv
  BY DEF BaseInv
<1>2. PICK o \in InitOutcomes :
        /\ driver' = DriverAfter(o, driver.words)
        /\ rt' = [RtEmpty EXCEPT !.alive = TRUE, !.run = TRUE, !.ok = o.ok]
  BY DEF StartEnds
<1>3. driver' \in Drivers
  BY <1>1, <1>2, DriverAfterShape DEF Drivers
<1>4. rt' \in Tasks
  BY <1>1, <1>2, EmptyTask, DriverAfterShape DEF Tasks
<1>5. pipe' \in Pipes /\ health' \in Healths /\ line' \in Lines /\ ~health'.ahead
  BY EmptyPipeline DEF StartEnds, PipelineInit
<1>6. start' = "nobody" /\ test' \in {"off", "asked"} /\ careless' = careless
  BY <1>1, PathFields DEF StartEnds, ReaderInv, Readers
<1>7. PathTypeOK'
  BY <1>1, <1>3, <1>4, <1>5, <1>6, PathFields
     DEF PathTypeOK, PipelineTypeOK, Pipes, Healths, Lines, Drivers,
         Tasks, Readers
<1>8. ReaderInv' /\ HealthInv'
  BY <1>5, <1>6 DEF ReaderInv, HealthInv
<1> QED
  BY <1>7, <1>8 DEF BaseInv

LEMMA StressReadsBase ==
    ASSUME BaseInv, NEW r \in Readings, StressReads(r)
    PROVE  BaseInv'
<1>1. PathTypeOK /\ ReaderInv /\ HealthInv
  BY DEF BaseInv
<1>2. health' \in Healths /\ HealthInv'
  <2>1. CASE HealthFails \/ HealthSample(r, TRUE)
    BY <1>1, <2>1, HealthNext
  <2>2. CASE health' = [health EXCEPT !.same = @ /\ ~r.changed]
    <3>1. (health.same /\ ~r.changed) \in BOOLEAN
      OBVIOUS
    <3> QED
      BY <1>1, <2>2, <3>1, HealthFields DEF Healths, HealthInv
  <2> QED
    BY <2>1, <2>2 DEF StressReads
<1>3. driver' \in Drivers
  BY <1>1, WordsTyped DEF StressReads
<1>4. UNCHANGED <<pipe, line, rt, start, test, careless>>
  BY DEF StressReads
<1>5. PathTypeOK'
  BY <1>1, <1>2, <1>3, <1>4, PathFields, PipeFields
     DEF PathTypeOK, PipelineTypeOK, Pipes, Healths, Lines, Drivers,
         Tasks, Readers
<1>6. ReaderInv'
  BY <1>1, <1>4 DEF ReaderInv
<1> QED
  BY <1>2, <1>5, <1>6 DEF BaseInv

\* A step that leaves the pipeline alone keeps the types when it keeps the driver's
\* and the task's.
LEMMA CommandTypes ==
    ASSUME PathTypeOK, UNCHANGED pipelineVars, driver' \in Drivers, rt' \in Tasks,
           start' \in Readers, test' \in {"off", "asked", "reading"}, careless' \in BOOLEAN
    PROVE  PathTypeOK'
<1>1. UNCHANGED <<pipe, health, line>>
  BY DEF pipelineVars
<1> QED
  BY <1>1, HealthFields, PipeFields
     DEF PathTypeOK, PipelineTypeOK, Pipes, Healths, Lines, Drivers,
         Tasks, Readers

\* The commands of the console and of the test move rt, start, test and driver only.
LEMMA CommandBase ==
    ASSUME BaseInv,
           \/ ImuStop \/ ImuStart \/ Scan
           \/ StressAsked \/ StressBegins \/ StressNotCreated \/ StressRefused
           \/ StressResets \/ StressEnds \/ PowerDip
    PROVE  BaseInv'
<1>1. PathTypeOK /\ ReaderInv /\ HealthInv
  BY DEF BaseInv
<1>2. UNCHANGED pipelineVars
  BY DEF ImuStop, ImuStart, Scan, StressAsked, StressBegins, StressNotCreated,
         StressRefused, StressResets, StressEnds, PowerDip
<1>3. HealthInv'
  BY <1>1, <1>2 DEF HealthInv, pipelineVars
<1>4. [rt EXCEPT !.run = FALSE] \in Tasks /\ [rt EXCEPT !.run = FALSE].alive = rt.alive
  BY <1>1, PathFields DEF Tasks
<1>5. (\E o \in InitOutcomes : driver' = DriverAfter(o, driver.words)) => driver' \in Drivers
  BY <1>1, DriverAfterShape DEF Drivers
<1>6. CASE ImuStop
  <2>1. rt' = [rt EXCEPT !.run = FALSE] /\ UNCHANGED <<driver, start, test, careless>> /\ rt.run
    BY <1>6 DEF ImuStop
  <2>2. start = "nobody"
    BY <1>1, <2>1, EmptyTask DEF ReaderInv
  <2>3. ReaderInv'
    BY <1>1, <1>4, <2>1, <2>2 DEF ReaderInv
  <2> QED
    BY <1>1, <1>2, <1>3, <1>4, <2>1, <2>3, CommandTypes, PathFields DEF BaseInv
<1>7. CASE ImuStart \/ Scan
  <2>1. CASE Reading
    <3>1. UNCHANGED <<driver, rt, start, test>> /\ careless' \in BOOLEAN
      BY <1>7, <2>1 DEF ImuStart, Scan
    <3>2. ReaderInv'
      BY <1>1, <3>1 DEF ReaderInv
    <3> QED
      BY <1>1, <1>2, <1>3, <3>1, <3>2, CommandTypes, PathFields DEF BaseInv
  <2>2. CASE ~Reading
    <3>1. /\ start' = "console" /\ rt' = RtEmpty /\ UNCHANGED <<driver, test, careless>>
          /\ test = "off"
      BY <1>1, <1>7, <2>2, PathFields
         DEF ImuStart, Scan, StartBegins, ConsoleFree, Reading
    <3>2. ReaderInv'
      BY <3>1, EmptyTask DEF ReaderInv
    <3> QED
      BY <1>1, <1>2, <1>3, <3>1, <3>2, CommandTypes, EmptyTask, PathFields
         DEF BaseInv, Readers
  <2> QED
    BY <2>1, <2>2
<1>8. CASE StressAsked
  <2>1. /\ rt' = [rt EXCEPT !.run = FALSE] /\ test' = "asked" /\ rt.ok
        /\ UNCHANGED <<driver, start, careless>>
    BY <1>8 DEF StressAsked, StressAllowed
  <2>2. start = "nobody"
    BY <1>1, <2>1, EmptyTask DEF ReaderInv
  <2>3. ReaderInv'
    BY <1>4, <2>1, <2>2 DEF ReaderInv
  <2> QED
    BY <1>1, <1>2, <1>3, <1>4, <2>1, <2>3, CommandTypes, PathFields DEF BaseInv
<1>9. CASE StressBegins
  <2>1. test = "asked" /\ ~rt.alive /\ test' = "reading" /\ UNCHANGED <<rt, start, careless>>
    BY <1>9 DEF StressBegins, LoopGone
  <2>2. driver' \in Drivers
    BY <1>1, <1>5, <1>9, PathFields DEF StressBegins, AtAnotherRate
  <2>3. ReaderInv'
    BY <1>1, <2>1, PathFields DEF ReaderInv, Readers
  <2> QED
    BY <1>1, <1>2, <1>3, <2>1, <2>2, <2>3, CommandTypes, PathFields DEF BaseInv
<1>10. CASE StressNotCreated
  <2>1. /\ test' = "off" /\ start' = "console" /\ rt' = RtEmpty
        /\ UNCHANGED <<driver, careless>>
    BY <1>10 DEF StressNotCreated, StartBegins
  <2>2. ReaderInv'
    BY <2>1, EmptyTask DEF ReaderInv
  <2> QED
    BY <1>1, <1>2, <1>3, <2>1, <2>2, CommandTypes, EmptyTask, PathFields
       DEF BaseInv, Readers
<1>11. CASE StressRefused
  <2>1. test = "asked" /\ test' = "off" /\ UNCHANGED <<driver, rt, start, careless>>
    BY <1>11 DEF StressRefused
  <2>2. ReaderInv'
    BY <1>1, <2>1 DEF ReaderInv
  <2> QED
    BY <1>1, <1>2, <1>3, <2>1, <2>2, CommandTypes, PathFields DEF BaseInv
<1>12. CASE StressResets \/ PowerDip
  <2>1. UNCHANGED <<rt, start, test, careless>>
    BY <1>12 DEF StressResets, PowerDip
  <2>2. driver' \in Drivers
    <3>1. CASE StressResets
      BY <1>5, <3>1 DEF StressResets
    <3>2. CASE PowerDip
      BY <1>1, <3>2, PathFields DEF PowerDip, Drivers, Chips
    <3> QED
      BY <1>12, <3>1, <3>2
  <2>3. ReaderInv'
    BY <1>1, <2>1 DEF ReaderInv
  <2> QED
    BY <1>1, <1>2, <1>3, <2>1, <2>2, <2>3, CommandTypes, PathFields DEF BaseInv
<1>13. CASE StressEnds
  <2>1. /\ test = "reading" /\ start' = "test" /\ rt' = RtEmpty
        /\ UNCHANGED <<driver, test, careless>>
    BY <1>13 DEF StressEnds, StartBegins
  <2>2. ReaderInv'
    BY <2>1, EmptyTask DEF ReaderInv
  <2> QED
    BY <1>1, <1>2, <1>3, <2>1, <2>2, CommandTypes, EmptyTask, PathFields
       DEF BaseInv, Readers
<1> QED
  BY <1>6, <1>7, <1>8, <1>9, <1>10, <1>11, <1>12, <1>13

LEMMA NextBase == BaseInv /\ [PathNext]_pathVars => BaseInv'
<1> SUFFICES ASSUME BaseInv, [PathNext]_pathVars PROVE BaseInv'
  OBVIOUS
<1>1. PathTypeOK /\ ReaderInv /\ HealthInv
  BY DEF BaseInv
<1>2. CASE UNCHANGED pathVars
  BY <1>1, <1>2, PathFields, HealthFields, PipeFields
     DEF BaseInv, ReaderInv, HealthInv, pathVars, pipelineVars,
         PathTypeOK, PipelineTypeOK, Pipes, Healths, Lines, Drivers,
         Tasks, Readers
<1>3. CASE TaskEnds
  <2>1. /\ rt.alive /\ rt' = [rt EXCEPT !.alive = FALSE, !.fails = 0] /\ pipe' = PipeEmpty
        /\ UNCHANGED <<health, line, driver, start, test, careless>>
    BY <1>3 DEF TaskEnds
  <2>2. rt' \in Tasks /\ ~rt'.alive /\ pipe' \in Pipes
    <3>1. 0 \in 0 .. ReinitAfter
      BY Numbers
    <3>2. rt' \in Tasks /\ rt'.alive = FALSE
      BY <1>1, <2>1, <3>1, PathFields DEF Tasks
    <3> QED
      BY <2>1, <3>2, EmptyPipeline
  <2>3. PathTypeOK'
    BY <1>1, <2>1, <2>2, PathFields, HealthFields, PipeFields
       DEF PathTypeOK, PipelineTypeOK, Pipes, Healths, Lines, Drivers,
         Tasks, Readers
  <2>4. ReaderInv' /\ HealthInv'
    BY <1>1, <2>1, <2>2 DEF ReaderInv, HealthInv
  <2> QED
    BY <2>3, <2>4 DEF BaseInv
<1>4. CASE CalibrationChanged
  <2>1. /\ pipe' = [pipe EXCEPT !.still = 0]
        /\ UNCHANGED <<health, line, driver, rt, start, test, careless>>
    BY <1>4 DEF CalibrationChanged
  <2>2. pipe' \in Pipes
    BY <1>1, <2>1, PipeFields, Numbers DEF Pipes
  <2>3. PathTypeOK'
    BY <1>1, <2>1, <2>2, PathFields, HealthFields, PipeFields
       DEF PathTypeOK, PipelineTypeOK, Pipes, Healths, Lines, Drivers,
         Tasks, Readers
  <2>4. ReaderInv' /\ HealthInv'
    BY <1>1, <2>1 DEF ReaderInv, HealthInv
  <2> QED
    BY <2>3, <2>4 DEF BaseInv
<1>5. CASE Tick
  <2>1. /\ LineAged(Unrecoverable)
        /\ UNCHANGED <<pipe, health, driver, rt, start, test, careless>>
    BY <1>5 DEF Tick
  <2>2. Unrecoverable \in BOOLEAN
    BY <1>1, PathFields DEF Unrecoverable
  <2>3. line' \in Lines
    BY <1>1, <2>1, <2>2, LineAges
  <2>4. PathTypeOK'
    BY <1>1, <2>1, <2>3, PathFields, HealthFields, PipeFields
       DEF PathTypeOK, PipelineTypeOK, Pipes, Healths, Lines, Drivers,
         Tasks, Readers
  <2>5. ReaderInv' /\ HealthInv'
    BY <1>1, <2>1 DEF ReaderInv, HealthInv
  <2> QED
    BY <2>4, <2>5 DEF BaseInv
<1> QED
  BY <1>2, <1>3, <1>4, <1>5, IterateBase, StressReadsBase, StartEndsBase, CommandBase
     DEF PathNext, PathStep, Beyond

LEMMA BaseAlways == PathSpec => []BaseInv
  BY InitBase, NextBase, PTL DEF PathSpec

\* The variables keep their types, and a sample found stuck is one in a series.
THEOREM ImuTypeCorrect == PathSpec => []ImuTypeOK
<1>1. BaseInv => ImuTypeOK
  BY DEF BaseInv, HealthInv, ImuTypeOK
<1> QED
  BY <1>1, BaseAlways, PTL

\* As long as the operator takes care, the driver has one reader: whatever the console
\* starts and stops, the loop, its start and the test never overlap.
THEOREM OneReaderHolds == PathSpec => []OneReader
<1>1. BaseInv => OneReader
  BY PathFields DEF BaseInv, ReaderInv, OneReader, Readers
<1> QED
  BY <1>1, BaseAlways, PTL

-----------------------------------------------------------------------------
(* After a sample was found stuck.                                         *)

\* Only a reading of the loop, the start of the loop and time move the line.
LEMMA LineMoves ==
    ASSUME PathNext
    PROVE  \/ UNCHANGED line
           \/ StartEnds
           \/ \E r \in Readings : Iterate(r)
           \/ Tick
<1>1. CASE \/ ImuStop \/ ImuStart \/ Scan \/ CalibrationChanged \/ TaskEnds
           \/ StressAsked \/ StressBegins \/ StressNotCreated \/ StressRefused
           \/ StressResets \/ StressEnds \/ PowerDip \/ Beyond
  BY <1>1 DEF ImuStop, ImuStart, Scan, CalibrationChanged, TaskEnds, StressAsked,
     StressBegins, StressNotCreated, StressRefused, StressResets, StressEnds, PowerDip,
     Beyond, pathVars, pipelineVars
<1>2. CASE \E r \in Readings : StressReads(r)
  BY <1>2 DEF StressReads
<1> QED
  BY <1>1, <1>2 DEF PathNext, PathStep

\* A sample found stuck is the last: until the loop is started again the line only ages.
THEOREM StuckForGoodHolds == PathSpec => StuckForGood
<1>1. BaseInv /\ [PathNext]_pathVars =>
        [health.ahead /\ rt.alive /\ rt'.alive => line'.age >= line.age]_pathVars
  <2> SUFFICES ASSUME BaseInv, PathNext, health.ahead, rt.alive
               PROVE  line'.age >= line.age
    OBVIOUS
  <2>1. PathTypeOK /\ ReaderInv /\ HealthInv
    BY DEF BaseInv
  <2>2. line' = line => line'.age >= line.age
    BY <2>1, PipeFields, Numbers
  <2>3. CASE \E r \in Readings : Iterate(r)
    BY <2>1, <2>2, <2>3, AheadRefuses, SubmitKeepsTypes DEF Iterate
  <2>4. CASE Tick
    <3>1. Unrecoverable \in BOOLEAN
      BY <2>1, PathFields DEF Unrecoverable
    <3> QED
      BY <2>1, <2>4, <3>1, LineAges DEF Tick
  <2>5. ~StartEnds
    BY <2>1 DEF StartEnds, ReaderInv
  <2> QED
    BY <2>2, <2>3, <2>4, <2>5, LineMoves
<1> QED
  BY <1>1, BaseAlways, PTL DEF PathSpec, StuckForGood

-----------------------------------------------------------------------------
(* The scales.                                                             *)

LEMMA InitScales == PathInit => ScalesInv
  BY EmptyTask DEF PathInit, ScalesInv

\* A step that leaves the loop alone, or ends it.
LEMMA ScalesKept ==
    ASSUME BaseInv, ScalesInv, rt'.alive => rt.alive /\ rt'.startup = rt.startup,
           pipe'.still \in {pipe.still, 0} \/ ~rt'.alive,
           \/ driver' = driver
           \/ ~rt'.alive /\ \E o \in InitOutcomes : driver' = DriverAfter(o, driver.words)
           \/ driver' = [driver EXCEPT !.chip = "asleep"]
    PROVE  ScalesInv'
<1>1. PathTypeOK
  BY DEF BaseInv
<1>2. CASE driver' = driver
  BY <1>2 DEF ScalesInv
<1>3. CASE ~rt'.alive /\ \E o \in InitOutcomes : driver' = DriverAfter(o, driver.words)
  <2>1. PICK o \in InitOutcomes : driver' = DriverAfter(o, driver.words)
    BY <1>3
  <2>2. driver'.chip = "wrong" => driver'.words # "still"
    BY <1>1, <2>1, DriverAfterShape DEF ScalesInv
  <2> QED
    BY <1>3, <2>2 DEF ScalesInv
<1>4. CASE driver' = [driver EXCEPT !.chip = "asleep"]
  <2>1. driver'.chip = "asleep"
    BY <1>1, <1>4, PathFields DEF Drivers
  <2> QED
    BY <2>1 DEF ScalesInv
<1> QED
  BY <1>2, <1>3, <1>4

LEMMA IterateScales ==
    ASSUME BaseInv, ScalesInv, NEW r \in Readings, Iterate(r)
    PROVE  ScalesInv'
<1>1. PathTypeOK /\ HealthInv
  BY DEF BaseInv
<1>2. CASE Reinitialise(r)
  <2>1. PICK o \in InitOutcomes : driver' = NoteReinit(DriverAfter(o, driver.words), o.ok)
    BY <1>2 DEF Reinitialise
  <2>2. /\ driver'.chip = DriverAfter(o, driver.words).chip
        /\ driver'.words = DriverAfter(o, driver.words).words
        /\ driver'.failed = ~o.ok
    BY <1>1, <2>1, DriverAfterShape DEF NoteReinit
  <2> QED
    BY <1>1, <2>2, DriverAfterShape DEF ScalesInv
<1>3. CASE /\ driver' = [driver EXCEPT !.words = WordsAfter(r)]
           /\ rt' = [rt EXCEPT !.fails = IF r.ok THEN 0 ELSE Up(@, ReinitAfter),
                               !.startup = StartupDone(r)]
  <2>1. /\ driver'.chip = driver.chip /\ driver'.failed = driver.failed
        /\ driver'.words = WordsAfter(r)
        /\ rt'.alive = rt.alive /\ rt'.startup = StartupDone(r)
    BY <1>1, <1>3, PathFields DEF Drivers, Tasks
  <2>2. driver.chip = "wrong" => WordsAfter(r) # "still" /\ (r.ok => r.kind # "still")
    BY <1>1, ReadingShape DEF ScalesInv, WordsAfter
  <2>3. ASSUME driver.chip = "wrong", ~driver.failed, rt.alive
        PROVE  ~StartupDone(r) /\ pipe'.still = 0
    <3>1. pipe.still = 0 /\ ~rt.startup
      BY <2>3 DEF ScalesInv
    <3>2. Accepted(r) => ResidualAfter(r) = 0
      BY <2>2, <2>3, <3>1, Numbers DEF ResidualAfter, Accepted
    <3>3. pipe'.still = 0
      BY <1>1, <3>1, <3>2, SubmitKeepsTypes DEF Iterate
    <3> QED
      BY <3>1, <3>3, Numbers DEF StartupDone, ResidualReady
  <2> QED
    BY <2>1, <2>2, <2>3 DEF ScalesInv
<1> QED
  BY <1>2, <1>3 DEF Iterate

LEMMA NextScales == BaseInv /\ ScalesInv /\ [PathNext]_pathVars => ScalesInv'
<1> SUFFICES ASSUME BaseInv, ScalesInv, [PathNext]_pathVars PROVE ScalesInv'
  OBVIOUS
<1>1. PathTypeOK /\ ReaderInv
  BY DEF BaseInv
<1>2. CASE UNCHANGED pathVars
  BY <1>2 DEF ScalesInv, pathVars, pipelineVars
<1>3. CASE StartEnds
  <2>1. PICK o \in InitOutcomes :
          /\ driver' = DriverAfter(o, driver.words)
          /\ rt' = [RtEmpty EXCEPT !.alive = TRUE, !.run = TRUE, !.ok = o.ok]
    BY <1>3 DEF StartEnds
  <2>2. ~rt'.startup /\ pipe'.still = 0
    BY <1>3, <2>1, EmptyTask, EmptyPipeline DEF StartEnds, PipelineInit, Tasks
  <2> QED
    BY <1>1, <2>1, <2>2, DriverAfterShape DEF ScalesInv
<1>4. CASE TaskEnds
  <2>1. ~rt'.alive /\ driver' = driver
    BY <1>1, <1>4, PathFields DEF TaskEnds, Tasks
  <2> QED
    BY <2>1 DEF ScalesInv
<1>5. CASE CalibrationChanged
  <2>1. pipe'.still = 0 /\ UNCHANGED <<driver, rt>>
    BY <1>1, <1>5, PipeFields DEF CalibrationChanged, Pipes
  <2> QED
    BY <2>1 DEF ScalesInv
<1>6. CASE Tick
  BY <1>6 DEF Tick, ScalesInv
<1>7. CASE ImuStop \/ StressAsked
  <2>1. /\ rt' = [rt EXCEPT !.run = FALSE] /\ UNCHANGED <<pipe, driver>>
    BY <1>7 DEF ImuStop, StressAsked, pipelineVars
  <2>2. rt'.alive = rt.alive /\ rt'.startup = rt.startup
    BY <1>1, <2>1, PathFields DEF Tasks
  <2> QED
    BY <2>1, <2>2 DEF ScalesInv
<1>8. CASE ImuStart \/ Scan \/ StressNotCreated \/ StressRefused \/ StressEnds
  <2>1. UNCHANGED <<pipe, driver>> /\ (rt' = rt \/ rt' = RtEmpty)
    BY <1>8 DEF ImuStart, Scan, StressNotCreated, StressRefused, StressEnds, StartBegins,
                pipelineVars
  <2> QED
    BY <2>1, EmptyTask DEF ScalesInv
<1>9. CASE StressBegins
  <2>1. UNCHANGED <<pipe, rt>> /\ ~rt.alive
    BY <1>9 DEF StressBegins, LoopGone, pipelineVars
  <2> QED
    BY <1>9, <2>1, ScalesKept DEF StressBegins, AtAnotherRate
<1>10. CASE StressResets
  <2>1. UNCHANGED <<pipe, rt>> /\ ~rt.alive
    BY <1>1, <1>10, PathFields DEF StressResets, pipelineVars, ReaderInv
  <2> QED
    BY <1>10, <2>1, ScalesKept DEF StressResets
<1>11. CASE PowerDip
  BY <1>11, ScalesKept DEF PowerDip, pipelineVars
<1>12. ASSUME NEW r \in Readings, StressReads(r) PROVE ScalesInv'
  <2>1. /\ ~rt.alive /\ UNCHANGED <<pipe, rt>>
        /\ driver' = [driver EXCEPT !.words = WordsAfter(r)]
    BY <1>1, <1>12, PathFields DEF StressReads, ReaderInv
  <2>2. driver'.chip = driver.chip /\ driver'.words = WordsAfter(r)
    BY <1>1, <2>1, PathFields DEF Drivers
  <2>3. driver.chip = "wrong" => WordsAfter(r) # "still"
    BY <1>1, ReadingShape DEF ScalesInv, WordsAfter
  <2> QED
    BY <2>1, <2>2, <2>3 DEF ScalesInv
<1> QED
  BY <1>2, <1>3, <1>4, <1>5, <1>6, <1>7, <1>8, <1>9, <1>10, <1>11, <1>12, IterateScales
     DEF PathNext, PathStep, Beyond

\* Refloat is not fed from a chip with the wrong scales behind the supervisor's back.
THEOREM MisscaledBlockedHolds == PathSpec => []MisscaledBlocked
<1>1. ScalesInv => MisscaledBlocked
  BY DEF ScalesInv, MisscaledBlocked
<1> QED
  BY <1>1, BaseAlways, InitScales, NextScales, PTL DEF PathSpec

-----------------------------------------------------------------------------
(* Frozen data.                                                            *)

LEMMA ProlongedGrows ==
    ASSUME NEW n \in Nat
    PROVE  /\ Prolonged(n) \in Nat /\ Prolonged(0) = 0
           /\ Prolonged(n + 1) = Prolonged(n) + Latch
<1> QED
  BY Numbers DEF Prolonged

LEMMA ProlongedMonotone ==
    ASSUME NEW m \in Nat, NEW n \in Nat, n <= m
    PROVE  Prolonged(n) <= Prolonged(m)
<1>1. PICK d \in Nat : m = n + d
  <2>1. m - n \in Nat /\ m = n + (m - n)
    OBVIOUS
  <2> QED
    BY <2>1
<1>2. d * Latch \in Nat /\ (n + d) * Latch = n * Latch + d * Latch
  BY Numbers
<1>3. n * Latch \in Nat
  BY Numbers
<1> QED
  BY <1>1, <1>2, <1>3 DEF Prolonged

LEMMA LastProlonged ==
    /\ StuckLimit - 1 \in Nat /\ Prolonged(StuckLimit - 1) \in Nat
    /\ Prolonged(StuckLimit - 1) + Latch = OldBound
<1>1. StuckLimit - 1 \in Nat /\ StuckLimit - 1 + 1 = StuckLimit
  BY Numbers
<1>2. Prolonged(StuckLimit - 1 + 1) = Prolonged(StuckLimit - 1) + Latch
  BY <1>1, ProlongedGrows
<1> QED
  BY <1>1, <1>2, ProlongedGrows DEF Prolonged, OldBound

LEMMA InitFrozen == PathInit => FrozenInv
  BY EmptyTask, EmptyPipeline, LastProlonged DEF PathInit, FrozenInv

\* An acceptance of the same words makes the series longer; one of new words has
\* new data.
LEMMA AcceptedShape ==
    ASSUME BaseInv, FrozenInv, NEW r \in Readings, Submit(r), Accepted(r), rt.alive
    PROVE  /\ line'.seen /\ line'.age = 0 /\ line'.old \in {0, line.old}
           /\ health'.prev /\ health'.same /\ health'.inited
           /\ \/ line'.old = 0
              \/ /\ line'.old = line.old /\ line.seen /\ line.age <= Latch
                 /\ health.ident < StuckLimit
                 /\ health'.ident = health.ident + 1 /\ health'.ident < StuckLimit
<1>1. PathTypeOK /\ HealthInv
  BY DEF BaseInv
<1>2. TakeSample(r) /\ r.kind # "bad" /\ ~Stuck(r, CounterMoved) /\ r.ok
  BY DEF Submit, Accepted, HealthAccepts
<1>3. CounterMoved \in BOOLEAN
  BY <1>1, HealthFields DEF CounterMoved
<1>4. HealthUsable(r, CounterMoved)
  BY <1>2 DEF TakeSample, HealthSample
<1>5. line' = [seen |-> TRUE, age |-> 0, old |-> IF r.changed THEN 0 ELSE line.old]
  BY <1>2 DEF TakeSample
<1>6. /\ health'.prev = TRUE /\ health'.same = TRUE /\ health'.inited = TRUE
      /\ health'.ident < StuckLimit
      /\ Identical(r, CounterMoved) => health'.ident = health.ident + 1
  BY <1>1, <1>2, <1>3, <1>4, UsableShape
<1>7. CASE r.changed \/ line.old = 0
  BY <1>5, <1>6, <1>7
<1>8. CASE ~r.changed /\ line.old # 0
  <2>1. line.seen /\ ~(line.age > Latch)
    BY <1>8, <1>1, PipeFields DEF FrozenInv
  <2>2. r.kind = driver.words
    BY <1>1, <1>2, <1>8, ReadingShape
  <2>3. Identical(r, CounterMoved)
    BY <1>2, <1>8, <2>1, <2>2 DEF FrozenInv, Identical
  <2>4. health'.ident = health.ident + 1 /\ health.ident < StuckLimit
    BY <1>1, <1>6, <2>3, HealthFields, Numbers
  <2>5. line.age <= Latch
    BY <1>1, <2>1, PipeFields, Numbers
  <2> QED
    BY <1>5, <1>6, <1>8, <2>1, <2>4, <2>5
<1> QED
  BY <1>7, <1>8

\* A reading that is not accepted leaves the series alone, or completes it.
LEMMA RefusedShape ==
    ASSUME BaseInv, NEW r \in Readings, Submit(r), ~Accepted(r)
    PROVE  /\ line' = line
           /\ health.inited => health'.inited
           /\ health.prev => health'.prev
           /\ health'.ident \in {health.ident, StuckLimit}
           /\ health.same => health'.same \/ (r.ok /\ r.kind = "bad")
           /\ r.ok /\ ~Duplicate(r) /\ r.kind # "bad" => health'.same
<1>1. PathTypeOK /\ HealthInv
  BY DEF BaseInv
<1>2. line' = line
  BY <1>1, SubmitKeepsTypes
<1>3. CASE ~r.ok \/ Duplicate(r)
  <2>1. HealthFails \/ UNCHANGED health
    BY <1>3 DEF Submit, ReadFailed, TakeDuplicate
  <2> QED
    BY <1>1, <1>2, <1>3, <2>1, FailsShape
<1>4. CASE r.ok /\ ~Duplicate(r)
  <2>1. CounterMoved \in BOOLEAN
    BY <1>1, HealthFields DEF CounterMoved
  <2>2. HealthSample(r, CounterMoved)
    BY <1>4 DEF Submit, TakeSample
  <2>3. CASE r.kind = "bad"
    BY <1>1, <1>2, <1>4, <2>2, <2>3, InvalidShape DEF HealthSample
  <2>4. CASE r.kind # "bad"
    <3>1. HealthUsable(r, CounterMoved) /\ Stuck(r, CounterMoved)
      BY <1>4, <2>2, <2>4 DEF HealthSample, Accepted, HealthAccepts
    <3> QED
      BY <1>1, <1>2, <2>1, <3>1, UsableShape
  <2> QED
    BY <2>3, <2>4
<1> QED
  BY <1>3, <1>4

LEMMA IterateFrozen ==
    ASSUME BaseInv, FrozenInv, NEW r \in Readings, Iterate(r)
    PROVE  FrozenInv'
<1>1. PathTypeOK /\ HealthInv /\ rt.alive /\ Submit(r)
  BY DEF BaseInv, Iterate
<1>2. \/ ~r.ok /\ driver'.words \in {driver.words, "bad"}
      \/ driver'.words = WordsAfter(r)
  <2>1. CASE Reinitialise(r)
    <3>1. PICK o \in InitOutcomes : driver' = NoteReinit(DriverAfter(o, driver.words), o.ok)
      BY <2>1 DEF Reinitialise
    <3> QED
      BY <1>1, <2>1, <3>1, DriverAfterShape DEF NoteReinit, Reinitialise
  <2>2. CASE driver' = [driver EXCEPT !.words = WordsAfter(r)]
    BY <1>1, <2>2, PathFields DEF Drivers
  <2> QED
    BY <2>1, <2>2 DEF Iterate
<1>3. CASE Accepted(r)
  <2>1. /\ line'.seen /\ line'.age = 0 /\ line'.old \in {0, line.old}
        /\ health'.prev /\ health'.same /\ health'.inited
        /\ \/ line'.old = 0
           \/ /\ line'.old = line.old /\ line.seen /\ line.age <= Latch
              /\ health.ident < StuckLimit
              /\ health'.ident = health.ident + 1 /\ health'.ident < StuckLimit
    BY <1>1, <1>3, AcceptedShape
  <2>2. health'.ident \in Nat
    BY <1>1, Numbers, SubmitKeepsTypes DEF Healths
  <2>3. CASE line'.old = 0
    <3>1. Prolonged(health'.ident) \in Nat
      BY <2>2, ProlongedGrows
    <3> QED
      BY <2>1, <2>3, <3>1, LastProlonged, Numbers DEF FrozenInv
  <2>4. CASE line'.old # 0
    <3>1. line.old <= Prolonged(health.ident) + line.age
      BY <1>1, <2>1, <2>4 DEF FrozenInv
    <3>2. health.ident \in Nat /\ Prolonged(health'.ident) = Prolonged(health.ident) + Latch
      BY <1>1, <2>1, <2>4, HealthFields, Numbers, ProlongedGrows
    <3>3. Prolonged(health.ident) \in Nat /\ Prolonged(health'.ident) \in Nat
      BY <2>2, <3>2, ProlongedGrows
    <3>4. line'.old <= Prolonged(health'.ident)
      BY <1>1, <2>1, <2>4, <3>1, <3>2, <3>3, PipeFields, Numbers
    <3>5. Prolonged(health'.ident) <= Prolonged(StuckLimit - 1)
      <4>1. health'.ident <= StuckLimit - 1
        BY <2>1, <2>2, <2>4, Numbers
      <4> QED
        BY <2>2, <4>1, LastProlonged, ProlongedMonotone
    <3>6. line'.old \in Nat
      BY <1>1, <2>1, <2>4, PipeFields, Numbers
    <3>7. line'.old <= Prolonged(StuckLimit - 1)
      BY <3>3, <3>4, <3>5, <3>6, LastProlonged
    <3> QED
      BY <2>1, <3>3, <3>4, <3>6, <3>7, LastProlonged, Numbers DEF FrozenInv
  <2> QED
    BY <2>3, <2>4
<1>4. CASE ~Accepted(r)
  <2>1. /\ line' = line
        /\ health.inited => health'.inited
        /\ health.prev => health'.prev
        /\ health'.ident \in {health.ident, StuckLimit}
        /\ health.same => health'.same \/ (r.ok /\ r.kind = "bad")
    BY <1>1, <1>4, RefusedShape
  <2>2. line.seen /\ driver'.words # "bad" => health'.same
    <3>1. CASE r.ok /\ ~Duplicate(r)
      <4>1. r.kind # "bad" => health'.same
        BY <1>1, <1>4, <3>1, RefusedShape
      <4> QED
        BY <1>2, <3>1, <4>1 DEF WordsAfter
    <3>2. CASE ~r.ok \/ Duplicate(r)
      <4>1. r.ok => r.kind = driver.words
        BY <1>1, <3>2, ReadingShape DEF Duplicate
      <4> QED
        BY <1>1, <1>2, <2>1, <3>2, <4>1 DEF FrozenInv, WordsAfter
    <3>3. r.ok \in BOOLEAN
      BY <1>1, ReadingShape
    <3> QED
      BY <3>1, <3>2, <3>3
  <2>3. health'.ident < StuckLimit => health'.ident = health.ident
    BY <2>1, Numbers
  <2> QED
    BY <1>1, <2>1, <2>2, <2>3 DEF FrozenInv
<1> QED
  BY <1>3, <1>4

LEMMA TickFrozen ==
    ASSUME BaseInv, FrozenInv, Tick
    PROVE  FrozenInv'
<1>1. PathTypeOK /\ Unrecoverable \in BOOLEAN
  BY PathFields DEF BaseInv, Unrecoverable
<1>2. LineAged(Unrecoverable) /\ UNCHANGED <<health, driver, rt>>
  BY DEF Tick
<1>3. CASE ~line.seen
  BY <1>1, <1>2, <1>3, LineAges DEF FrozenInv
<1>4. CASE line.seen
  <2>1. /\ line'.seen /\ line'.age = Up(line.age, Latch + 1) /\ health.inited
        /\ line'.old = 0 \/ line'.old = Up(line.old, OldBound + 1)
        /\ line'.age > Latch => line'.old = 0
    BY <1>1, <1>2, <1>4, LineAges, PipeFields DEF FrozenInv
  <2>2. line'.age \in Nat /\ (line'.age <= Latch => line'.age = line.age + 1)
    BY <1>1, <2>1, PipeFields, Numbers DEF Up
  <2>3. line'.old = 0 \/ (line'.age <= Latch /\ line'.old \in Nat /\ line'.old <= line.old + 1)
    <3>1. OldBound + 1 \in Nat /\ line.old \in 0 .. OldBound + 1
      BY <1>1, Numbers, PipeFields
    <3>2. Up(line.old, OldBound + 1) \in Nat /\ Up(line.old, OldBound + 1) <= line.old + 1
      BY <3>1 DEF Up
    <3> QED
      BY <2>1, <2>2, <3>2, Numbers
  <2>4. health.ident \in Nat /\ Prolonged(health.ident) \in Nat
    BY <1>1, HealthFields, Numbers, ProlongedGrows
  <2>5. line.age \in Nat /\ line.old \in Nat
    BY <1>1, PipeFields, Numbers
  <2>6. line'.old <= Prolonged(StuckLimit - 1) + line'.age
    BY <2>2, <2>3, <2>5, LastProlonged, Numbers DEF FrozenInv
  <2>7. rt.alive /\ health.ident < StuckLimit =>
          line'.old <= Prolonged(health.ident) + line'.age
    BY <2>2, <2>3, <2>4, <2>5, Numbers DEF FrozenInv
  <2> QED
    BY <1>2, <1>4, <2>1, <2>6, <2>7 DEF FrozenInv
<1> QED
  BY <1>3, <1>4

\* A step that leaves the line alone: with the loop gone only what is said of the line
\* counts, with the loop there the series and the words are left alone as well.
LEMMA FrozenKept ==
    ASSUME FrozenInv, UNCHANGED line, health.inited => health'.inited,
           \/ ~rt'.alive
           \/ rt'.alive = rt.alive /\ UNCHANGED health /\ driver'.words = driver.words
    PROVE  FrozenInv'
  BY DEF FrozenInv

LEMMA NextFrozen == BaseInv /\ FrozenInv /\ [PathNext]_pathVars => FrozenInv'
<1> SUFFICES ASSUME BaseInv, FrozenInv, [PathNext]_pathVars PROVE FrozenInv'
  OBVIOUS
<1>1. PathTypeOK /\ ReaderInv /\ HealthInv
  BY DEF BaseInv
<1>2. CASE UNCHANGED pathVars
  BY <1>2, FrozenKept DEF pathVars, pipelineVars
<1>3. CASE StartEnds
  <2>1. /\ line' = LineEmpty /\ health' = HealthEmpty
    BY <1>3 DEF StartEnds, PipelineInit
  <2>2. /\ ~line'.seen /\ line'.age = 0 /\ line'.old = 0 /\ health'.ident = 0
    BY <2>1, EmptyPipeline
  <2>3. Prolonged(health'.ident) = 0
    BY <2>2, ProlongedGrows
  <2> QED
    BY <2>2, <2>3, LastProlonged, Numbers DEF FrozenInv
<1>4. CASE TaskEnds
  <2>1. rt'.alive = FALSE /\ UNCHANGED <<line, health>>
    BY <1>1, <1>4, PathFields DEF TaskEnds, Tasks
  <2> QED
    BY <2>1, FrozenKept
<1>5. CASE CalibrationChanged
  BY <1>5, FrozenKept DEF CalibrationChanged
<1>6. CASE ImuStop \/ StressAsked
  <2>1. rt' = [rt EXCEPT !.run = FALSE] /\ UNCHANGED <<line, health, driver>>
    BY <1>6 DEF ImuStop, StressAsked, pipelineVars
  <2>2. rt'.alive = rt.alive
    BY <1>1, <2>1, PathFields DEF Tasks
  <2> QED
    BY <2>1, <2>2, FrozenKept
<1>7. CASE ImuStart \/ Scan \/ StressNotCreated \/ StressRefused \/ StressEnds
  <2>1. UNCHANGED <<line, health, driver>> /\ (rt' = rt \/ rt' = RtEmpty)
    BY <1>7 DEF ImuStart, Scan, StressNotCreated, StressRefused, StressEnds, StartBegins,
                pipelineVars
  <2> QED
    BY <2>1, EmptyTask, FrozenKept
<1>8. CASE StressBegins
  BY <1>8, FrozenKept DEF StressBegins, LoopGone, pipelineVars
<1>9. CASE StressResets
  <2>1. ~rt'.alive /\ UNCHANGED <<line, health>>
    BY <1>1, <1>9, PathFields DEF StressResets, pipelineVars, ReaderInv
  <2> QED
    BY <2>1, FrozenKept
<1>10. CASE PowerDip
  <2>1. driver' = [driver EXCEPT !.chip = "asleep"] /\ UNCHANGED <<line, health, rt>>
    BY <1>10 DEF PowerDip, pipelineVars
  <2>2. driver'.words = driver.words
    BY <1>1, <2>1, PathFields DEF Drivers
  <2> QED
    BY <2>1, <2>2, FrozenKept
<1>11. ASSUME NEW r \in Readings, StressReads(r) PROVE FrozenInv'
  <2>1. ~rt'.alive /\ UNCHANGED line
    BY <1>1, <1>11, PathFields DEF StressReads, ReaderInv
  <2>2. health.inited => health'.inited
    <3>1. CASE HealthFails \/ HealthSample(r, TRUE)
      BY <1>1, <1>11, <3>1, HealthNext
    <3>2. CASE health' = [health EXCEPT !.same = @ /\ ~r.changed]
      BY <1>1, <3>2, HealthFields DEF Healths
    <3> QED
      BY <1>11, <3>1, <3>2 DEF StressReads
  <2> QED
    BY <2>1, <2>2, FrozenKept
<1> QED
  BY <1>2, <1>3, <1>4, <1>5, <1>6, <1>7, <1>8, <1>9, <1>10, <1>11, IterateFrozen, TickFrozen
     DEF PathNext, PathStep, Beyond

\* The data behind a thrust that was not latched away are never older than StuckLimit
\* acceptances of the same words allow, for every policy: a sensor that freezes is
\* found, whatever reads fail in between.
THEOREM FrozenBoundedHolds == PathSpec => []FrozenBounded
<1>1. BaseInv /\ FrozenInv => FrozenBounded
  <2> SUFFICES ASSUME BaseInv, FrozenInv PROVE FrozenBounded
    OBVIOUS
  <2>1. line.age \in Nat /\ line.old \in Nat
    BY PipeFields, Numbers DEF BaseInv
  <2>2. CASE line.age > Latch
    BY <2>2, Numbers DEF FrozenInv, FrozenBounded
  <2>3. CASE line.age <= Latch
    BY <2>1, <2>3, LastProlonged, Numbers DEF FrozenInv, FrozenBounded
  <2> QED
    BY <2>1, <2>2, <2>3, Numbers
<1> QED
  BY <1>1, BaseAlways, InitFrozen, NextFrozen, PTL DEF PathSpec

-----------------------------------------------------------------------------
(* Refloat.                                                                *)

GainsInv ==
    /\ baseline = [f \in GainFields |-> baseline[f]]
    /\ \A f \in GainFields : chosen[f] \in everChosen
    /\ console = "store" => started /\ (~leaked => ~saved)
    /\ BenchComesBack
    /\ BenchStaysInMemory

HeldInv ==
    /\ IntegralOfItsGains
    /\ loop.reading /\ console # "reset" /\ ~torn =>
           loop.sum \subseteq {epoch} /\ loop.under = epoch

-----------------------------------------------------------------------------
(* The gains.                                                              *)

\* An edit changes neither what was chosen nor what is stored.
LEMMA SetGainsKeeps ==
    ASSUME GainsInv, NEW g, SetGains(g)
    PROVE  /\ \A f \in GainFields : chosen'[f] \in everChosen'
           /\ console' # "store" /\ started' = started
           /\ chosen' = chosen
           /\ BenchStaysInMemory'
  BY DEF GainsInv, SetGains, BenchStaysInMemory, storeVars, history

\* What save_baseline leaves is the chosen gains.
LEMMA BaseIsChosen ==
    ASSUME GainsInv, started
    PROVE  /\ Base = chosen
           /\ Base = [f \in GainFields |-> Base[f]]
  BY DEF GainsInv, BenchComesBack, Base, Gains

LEMMA EditKeepsGains ==
    ASSUME GainsInv, started, NEW g, SaveBaseline, SetGains(g)
    PROVE  GainsInv'
<1>1. baseline' = chosen /\ baseline' = [f \in GainFields |-> baseline'[f]] /\ saved'
  BY BaseIsChosen DEF SaveBaseline
<1> QED
  BY <1>1, SetGainsKeeps DEF GainsInv, BenchComesBack

LEMMA RestoreKeepsGains ==
    ASSUME GainsInv, RestoreGains
    PROVE  GainsInv'
<1>1. baseline' = baseline /\ ~saved' /\ started /\ SetGains(baseline) /\ baseline = chosen
  BY DEF RestoreGains, GainsInv, BenchComesBack
<1>2. Gains(live') = [f \in GainFields |-> baseline[f]]
  BY <1>1 DEF SetGains, Gains, Fields
<1> QED
  BY <1>1, <1>2, SetGainsKeeps DEF GainsInv, BenchComesBack

LEMMA StartKeepsGains ==
    ASSUME GainsInv, Start, ~saved
    PROVE  GainsInv'
<1>1. /\ chosen' = Gains(live') /\ everChosen \subseteq everChosen'
      /\ everChosen' = everChosen \cup {live'[f] : f \in GainFields}
      /\ \A f \in GainFields : chosen'[f] \in everChosen'
  BY DEF Start, Choose, Gains
<1>2. BenchStaysInMemory'
  BY <1>1 DEF GainsInv, BenchStaysInMemory, Start, storeVars
<1> QED
  BY <1>1, <1>2 DEF GainsInv, BenchComesBack, Start, callVars

LEMMA WriteKeepsGains ==
    ASSUME GainsInv, NEW field, NEW v, WriteConfig(field, v)
    PROVE  GainsInv'
<1>1. CASE saved
  <2>1. leaked' /\ saved' /\ baseline' = baseline /\ chosen' = chosen
        /\ everChosen' = everChosen /\ started' = started /\ started
    BY <1>1 DEF WriteConfig
  <2> QED
    BY <1>1, <2>1 DEF GainsInv, BenchComesBack, BenchStaysInMemory
<1>2. CASE ~saved
  <2>1. /\ chosen' = Gains(live') /\ everChosen \subseteq everChosen'
        /\ \A f \in GainFields : chosen'[f] \in everChosen'
    BY <1>2 DEF WriteConfig, Choose, Gains
  <2>2. /\ (~leaked' => ~leaked) /\ ~saved' /\ started' /\ started
        /\ baseline' = baseline /\ stored' = stored /\ flash' = flash
    BY <1>2 DEF WriteConfig, storeVars
  <2> QED
    BY <2>1, <2>2 DEF GainsInv, BenchComesBack, BenchStaysInMemory
<1> QED
  BY <1>1, <1>2

\* A write that fails changes a field that is no gain.
LEMMA FailureKeepsGains ==
    ASSUME GainsInv, NEW field \in OtherFields, NEW v, WriteFails(field, v)
    PROVE  GainsInv'
<1>1. \A f \in GainFields : live'[f] = live[f]
  BY DEF WriteFails, Fields, GainFields, OtherFields
<1>2. Gains(live') = Gains(live)
  BY <1>1 DEF Gains
<1> QED
  BY <1>2 DEF WriteFails, GainsInv, BenchComesBack, BenchStaysInMemory, Gains,
              callVars, storeVars, history

\* A word stored while nothing was changed is one of the chosen gains.
LEMMA StoreKeepsGains ==
    ASSUME GainsInv, NEW f \in Fields, StoreEepromVar(f)
    PROVE  GainsInv'
<1>1. UNCHANGED <<started, live, baseline, saved, console, flash, chosen, everChosen, leaked>>
  BY DEF StoreEepromVar, confVars, history
<1>2. ASSUME ~leaked, NEW h \in GainFields
      PROVE  stored'[h] \in everChosen
  <2>1. Gains(live) = chosen
    BY <1>2 DEF GainsInv, BenchComesBack, StoreEepromVar
  <2>2. live[h] \in everChosen
    BY <2>1, <1>2 DEF Gains, GainsInv
  <2>3. stored[h] \in everChosen
    BY <1>2 DEF GainsInv, BenchStaysInMemory
  <2>4. stored'[h] \in {stored[h], live[h]}
    BY DEF StoreEepromVar
  <2> QED
    BY <2>2, <2>3, <2>4
<1> QED
  BY <1>1, <1>2 DEF GainsInv, BenchComesBack, BenchStaysInMemory

\* ~started comes with ~saved: a restart clears both.
StartInv == ~started => ~saved

LEMMA InitGains == ConfigInit => GainsInv /\ StartInv /\ HeldInv
  BY DEF ConfigInit, GainsInv, StartInv, HeldInv, BenchComesBack, BenchStaysInMemory,
         IntegralOfItsGains, Gains, AtRest

LEMMA NextKeepsGains ==
    ASSUME GainsInv, StartInv, [ConfigNext]_vars
    PROVE  GainsInv' /\ StartInv'
<1> USE DEF confVars, callVars, storeVars, loopVars, history
<1>1. CASE Start
  BY <1>1, StartKeepsGains DEF StartInv, Start
<1>2. CASE DisableIntegral
  BY <1>2, EditKeepsGains DEF DisableIntegral, StartInv, SaveBaseline, SetGains
<1>3. CASE RestoreGains
  BY <1>3, RestoreKeepsGains DEF RestoreGains, StartInv
<1>4. CASE ResetIntegral
  BY <1>4 DEF ResetIntegral, GainsInv, StartInv, BenchComesBack, BenchStaysInMemory
<1>5. ASSUME NEW k \in Multipliers, ScaleGains(k)
      PROVE  GainsInv' /\ StartInv'
  BY <1>5, EditKeepsGains DEF ScaleGains, StartInv, SaveBaseline, SetGains
<1>6. ASSUME NEW v \in Coefficients, SetVoltageTiltback(v) \/ ConfigSaveTest(v)
      PROVE  GainsInv' /\ StartInv'
  <2>1. PICK field : WriteConfig(field, v)
    BY <1>6 DEF SetVoltageTiltback, ConfigSaveTest
  <2> QED
    BY <2>1, WriteKeepsGains DEF WriteConfig, StartInv
<1>7. ASSUME NEW f \in Fields, StoreEepromVar(f)
      PROVE  GainsInv' /\ StartInv'
  BY <1>7, StoreKeepsGains DEF StoreEepromVar, StartInv
<1>8. CASE ConfigWritten \/ LoopReads \/ LoopWrites \/ PermissionChanges
  BY <1>8 DEF ConfigWritten, LoopReads, LoopWrites, PermissionChanges,
              GainsInv, StartInv, BenchComesBack, BenchStaysInMemory
<1>9. CASE Commit
  BY <1>9 DEF Commit, GainsInv, StartInv, BenchComesBack, BenchStaysInMemory
<1>10. CASE Restart
  BY <1>10 DEF Restart, GainsInv, StartInv, BenchComesBack, BenchStaysInMemory
<1>11. CASE UNCHANGED vars
  BY <1>11 DEF vars, GainsInv, StartInv, BenchComesBack, BenchStaysInMemory
<1>12. ASSUME NEW given, SetSomeGains(given)
       PROVE  GainsInv' /\ StartInv'
  BY <1>12, EditKeepsGains DEF SetSomeGains, StartInv, SaveBaseline, SetGains
<1>13. ASSUME NEW f \in OtherFields, NEW v \in Coefficients, WriteFails(f, v)
       PROVE  GainsInv' /\ StartInv'
  BY <1>13, FailureKeepsGains DEF WriteFails, StartInv
<1> QED
  BY <1>1, <1>2, <1>3, <1>4, <1>5, <1>6, <1>7, <1>8, <1>9, <1>10, <1>11, <1>12, <1>13
  DEF ConfigNext

\* gain-restore gives back the gains of before the first edit, whatever edits
\* and written configurations came in between (refloat_facade.c:141-211).
THEOREM BenchAlwaysComesBack == ConfigSpec => []BenchComesBack
<1>1. GainsInv => BenchComesBack
  BY DEF GainsInv
<1> QED
  BY <1>1, InitGains, NextKeepsGains, PTL DEF ConfigSpec

\* No gain of the bench is stored, unless a tiltback or a persist wrote the
\* configuration while the gains were changed (fc_console.c:2951).
THEOREM BenchOnlyInMemory == ConfigSpec => []BenchStaysInMemory
<1>1. GainsInv => BenchStaysInMemory
  BY DEF GainsInv
<1> QED
  BY <1>1, InitGains, NextKeepsGains, PTL DEF ConfigSpec

-----------------------------------------------------------------------------
(* The integral.                                                           *)

LEMMA NextKeepsHeld ==
    ASSUME HeldInv, [ConfigNext]_vars
    PROVE  HeldInv'
<1> USE DEF HeldInv, IntegralOfItsGains, confVars, callVars, storeVars, loopVars, history
<1>1. CASE Start
  BY <1>1 DEF Start
<1>2. CASE DisableIntegral \/ RestoreGains \/ \E k \in Multipliers : ScaleGains(k)
  BY <1>2 DEF DisableIntegral, RestoreGains, ScaleGains, SetGains
<1>3. CASE ResetIntegral
  BY <1>3 DEF ResetIntegral
<1>4. ASSUME NEW v \in Coefficients, SetVoltageTiltback(v) \/ ConfigSaveTest(v)
      PROVE  HeldInv'
  BY <1>4 DEF SetVoltageTiltback, ConfigSaveTest, WriteConfig
<1>5. ASSUME NEW f \in Fields, StoreEepromVar(f)
      PROVE  HeldInv'
  BY <1>5 DEF StoreEepromVar
<1>6. CASE LoopReads
  BY <1>6 DEF LoopReads
<1>7. CASE LoopWrites
  BY <1>7 DEF LoopWrites, AtRest
<1>8. CASE ConfigWritten
  BY <1>8 DEF ConfigWritten
<1>9. CASE PermissionChanges \/ Commit
  BY <1>9 DEF PermissionChanges, Commit
<1>10. CASE Restart
  BY <1>10 DEF Restart, AtRest
<1>11. CASE UNCHANGED vars
  BY <1>11 DEF vars
<1>12. ASSUME NEW given, SetSomeGains(given)
       PROVE  HeldInv'
  BY <1>12 DEF SetSomeGains, SetGains
<1>13. ASSUME NEW f, NEW v, WriteFails(f, v)
       PROVE  HeldInv'
  BY <1>13 DEF WriteFails
<1> QED
  BY <1>1, <1>2, <1>3, <1>4, <1>5, <1>6, <1>7, <1>8, <1>9, <1>10, <1>11, <1>12, <1>13
  DEF ConfigNext

\* An old integral survives an edit of the gains only where the reset fell
\* between the loop's read of it and its write (refloat_facade.c:124-135).
THEOREM IntegralIsFresh == ConfigSpec => []IntegralOfItsGains
<1>1. HeldInv => IntegralOfItsGains
  BY DEF HeldInv
<1> QED
  BY <1>1, InitGains, NextKeepsHeld, PTL DEF ConfigSpec

-----------------------------------------------------------------------------
(* The threads.                                                            *)

Sized == MaxThreads \in Nat /\ Nominal \in Nat /\ WaitTicks \in Nat

Places == {"absent", "working", "delay", "tick", "clock", "ended"}

TableInv ==
    /\ thread_count \in 0 .. MaxThreads /\ spawning \in BOOLEAN
    /\ spawning => thread_count < MaxThreads
    /\ handle \in [Threads -> BOOLEAN] /\ terminate \in [Threads -> BOOLEAN]
    /\ finished \in [Threads -> BOOLEAN]
    /\ at \in [Threads -> Places]
    /\ SlotIsHeld

PaceInv ==
    /\ now \in Nat
    /\ period_ticks \in [Threads -> Nat] /\ last_wake \in [Threads -> Nat]
    /\ until \in [Threads -> Nat] /\ at \in [Threads -> Places]
    /\ thread_count \in Nat
    /\ PeriodOfRequests /\ NeverAhead
    /\ \A t \in Threads :
         /\ at[t] = "delay" => last_wake[t] <= now
         /\ at[t] = "tick" => last_wake[t] = until[t]

ClockInv == pending \in Nat /\ begun \in Nat /\ alarms \in Nat /\ NoneCaughtUp

-----------------------------------------------------------------------------
(* The table.                                                              *)

LEMMA TableStep ==
    ASSUME Sized, TableInv, [ThreadsNext]_threadsVars
    PROVE  TableInv'
<1>0. Threads = 1 .. MaxThreads
  BY DEF Threads
<1>1. CASE Spawn
  <2>1. PICK made \in BOOLEAN :
          /\ ClearSlot(thread_count + 1, made) /\ spawning' = made
          /\ at' = [at EXCEPT ![thread_count + 1] = IF made THEN "working" ELSE "absent"]
    BY <1>1 DEF Spawn
  <2>2. /\ thread_count + 1 \in Threads /\ thread_count' = thread_count
        /\ thread_count \in 0 .. MaxThreads /\ thread_count < MaxThreads /\ ~spawning
    BY <1>0, <1>1 DEF Spawn, TableInv, Sized
  <2>3. /\ handle' \in [Threads -> BOOLEAN] /\ terminate' \in [Threads -> BOOLEAN]
        /\ finished' \in [Threads -> BOOLEAN]
    BY <2>1, <2>2 DEF ClearSlot, TableInv
  <2>4. at' \in [Threads -> Places]
    BY <2>1, <2>2 DEF TableInv, Places
  <2>5. SlotIsHeld'
    <3> SUFFICES ASSUME NEW t \in Threads
                 PROVE  /\ at'[t] \notin {"absent", "ended"} =>
                             /\ handle'[t]
                             /\ t <= thread_count' \/ (spawning' /\ t = thread_count' + 1)
                        /\ finished'[t] => terminate'[t]
      BY DEF SlotIsHeld
    <3>1. CASE t = thread_count + 1
      BY <2>1, <2>2, <3>1 DEF ClearSlot, TableInv
    <3>2. CASE t # thread_count + 1
      <4>1. /\ at'[t] = at[t] /\ handle'[t] = handle[t]
            /\ finished'[t] = finished[t] /\ terminate'[t] = terminate[t]
        BY <2>1, <2>2, <3>2 DEF ClearSlot, TableInv
      <4>2. /\ at[t] \notin {"absent", "ended"} =>
                  handle[t] /\ (t <= thread_count \/ (spawning /\ t = thread_count + 1))
            /\ finished[t] => terminate[t]
        BY DEF TableInv, SlotIsHeld
      <4> QED
        BY <2>2, <3>2, <4>1, <4>2
    <3> QED
      BY <3>1, <3>2
  <2> QED
    BY <2>1, <2>2, <2>3, <2>4, <2>5 DEF TableInv
<1>2. CASE SpawnCounts
  <2>1. /\ thread_count' = thread_count + 1 /\ spawning /\ spawning' = FALSE
        /\ thread_count \in 0 .. MaxThreads /\ thread_count < MaxThreads
        /\ UNCHANGED <<handle, terminate, finished, at>>
    BY <1>2 DEF SpawnCounts, paceVars, TableInv
  <2>2. SlotIsHeld'
    BY <2>1 DEF TableInv, SlotIsHeld, Threads
  <2>3. thread_count' \in 0 .. MaxThreads
    BY <2>1 DEF Sized
  <2>4. spawning' \in BOOLEAN /\ (spawning' => thread_count' < MaxThreads)
    BY <2>1
  <2>5. /\ handle' \in [Threads -> BOOLEAN] /\ terminate' \in [Threads -> BOOLEAN]
        /\ finished' \in [Threads -> BOOLEAN] /\ at' \in [Threads -> Places]
    BY <2>1 DEF TableInv
  <2> QED
    BY <2>2, <2>3, <2>4, <2>5 DEF TableInv
<1>3. ASSUME NEW t \in Threads, Ends(t)
      PROVE  TableInv'
  BY <1>3 DEF Ends, Found, TableInv, SlotIsHeld, Places
<1>4. ASSUME NEW t \in Threads, RequestTerminate(t)
      PROVE  TableInv'
  BY <1>4 DEF RequestTerminate, paceVars, TableInv, SlotIsHeld
<1>5. ASSUME NEW t \in Threads, Sleep(t)
      PROVE  TableInv'
  <2>1. PICK place \in {"delay", "clock", "tick", "working"} :
            at' = [at EXCEPT ![t] = place] /\ at[t] = "working"
    BY <1>5 DEF Sleep, SleepUnknown, SleepByClock, SleepByTick
  <2>2. UNCHANGED tableVars
    BY <1>5 DEF Sleep, SleepUnknown, SleepByClock, SleepByTick
  <2> QED
    BY <2>1, <2>2 DEF tableVars, TableInv, SlotIsHeld, Places
<1>6. ASSUME NEW t \in Threads, WakesByTick(t) \/ WakesByClock(t) \/ WaitTimesOut(t)
      PROVE  TableInv'
  <2>1. at' = [at EXCEPT ![t] = "working"] /\ at[t] \in {"delay", "tick", "clock"}
    BY <1>6 DEF WakesByTick, WakesByClock, WaitTimesOut
  <2>2. UNCHANGED tableVars
    BY <1>6 DEF WakesByTick, WakesByClock, WaitTimesOut
  <2> QED
    BY <2>1, <2>2 DEF tableVars, TableInv, SlotIsHeld, Places
<1>7. CASE StopReturns \/ ClockStarts \/ Alarm \/ ClockTick \/ UNCHANGED threadsVars
  <2>1. UNCHANGED <<tableVars, at>>
    BY <1>7 DEF StopReturns, ClockStarts, Alarm, ClockTick, paceVars, threadsVars
  <2> QED
    BY <2>1 DEF tableVars, TableInv, SlotIsHeld
<1> QED
  BY <1>1, <1>2, <1>3, <1>4, <1>5, <1>6, <1>7 DEF ThreadsNext

-----------------------------------------------------------------------------
(* The pace.                                                               *)

LEMMA PeriodFacts ==
    ASSUME Sized, PaceInv, NEW t \in Threads, NEW ticks \in 0 .. Nominal
    PROVE  /\ Period(t, ticks) \in Nat /\ Period(t, ticks) \in 0 .. Nominal \cup {1}
           /\ Period(t, ticks) >= period_ticks[t]
           /\ Mark(t, ticks) \in Nat
<1>1. period_ticks[t] \in Nat /\ last_wake[t] \in Nat /\ now \in Nat
  BY DEF PaceInv
<1>2. Wanted(ticks) \in Nat /\ Wanted(ticks) \in 0 .. Nominal \cup {1}
  BY DEF Wanted, Sized
<1>3. period_ticks[t] \in 0 .. Nominal \cup {1}
  BY DEF PaceInv, PeriodOfRequests
<1> QED
  BY <1>1, <1>2, <1>3 DEF Period, Mark

LEMMA SleepKeepsPace ==
    ASSUME Sized, PaceInv, NEW t \in Threads, Sleep(t)
    PROVE  PaceInv'
<1>1. PICK ticks \in 0 .. Nominal :
        SleepUnknown(t, ticks) \/ SleepByClock(t, ticks) \/ SleepByTick(t, ticks)
  BY DEF Sleep
<1>2. ticks \in Nat /\ Period(t, ticks) \in Nat /\ Period(t, ticks) \in 0 .. Nominal \cup {1}
      /\ Mark(t, ticks) \in Nat
  BY <1>1, PeriodFacts DEF Sized
<1>3. CASE SleepUnknown(t, ticks)
  <2>1. last_wake[t] <= now
    BY <1>3 DEF SleepUnknown, PaceInv, NeverAhead
  <2> QED
    BY <1>2, <1>3, <2>1 DEF SleepUnknown, tableVars, PaceInv, NeverAhead, PeriodOfRequests, Places
<1>4. CASE SleepByClock(t, ticks)
  BY <1>2, <1>4 DEF SleepByClock, tableVars, PaceInv, NeverAhead, PeriodOfRequests, Places, Sized
<1>5. CASE SleepByTick(t, ticks)
  <2> DEFINE wake == Mark(t, ticks) + Period(t, ticks)
  <2>1. wake \in Nat
    BY <1>2
  <2>2. /\ period_ticks' = [period_ticks EXCEPT ![t] = Period(t, ticks)]
        /\ last_wake' = [last_wake EXCEPT ![t] = wake]
        /\ until' = [until EXCEPT ![t] = wake]
        /\ at' = [at EXCEPT ![t] = IF wake > now THEN "tick" ELSE "working"]
        /\ now' = now /\ thread_count' = thread_count
    BY <1>5 DEF SleepByTick, tableVars
  <2> HIDE DEF wake
  <2>3. /\ period_ticks' \in [Threads -> Nat] /\ last_wake' \in [Threads -> Nat]
        /\ until' \in [Threads -> Nat] /\ at' \in [Threads -> Places]
    BY <1>2, <2>1, <2>2 DEF PaceInv, Places
  <2>4. PeriodOfRequests'
    BY <1>2, <2>2 DEF PaceInv, PeriodOfRequests
  <2>5. NeverAhead' /\ \A s \in Threads :
             /\ at'[s] = "delay" => last_wake'[s] <= now'
             /\ at'[s] = "tick" => last_wake'[s] = until'[s]
    BY <2>1, <2>2 DEF PaceInv, NeverAhead
  <2> QED
    BY <2>2, <2>3, <2>4, <2>5 DEF PaceInv
<1> QED
  BY <1>1, <1>3, <1>4, <1>5

LEMMA PaceStep ==
    ASSUME Sized, PaceInv, [ThreadsNext]_threadsVars
    PROVE  PaceInv'
<1>1. CASE Spawn
  BY <1>1 DEF Spawn, ClearSlot, PaceInv, NeverAhead, PeriodOfRequests, Places, Threads, Sized
<1>2. CASE SpawnCounts
  BY <1>2 DEF SpawnCounts, PaceInv, NeverAhead, PeriodOfRequests, paceVars,
              Sized
<1>3. ASSUME NEW t \in Threads, Ends(t)
      PROVE  PaceInv'
  BY <1>3 DEF Ends, PaceInv, NeverAhead, PeriodOfRequests, Places
<1>4. ASSUME NEW t \in Threads, WakesByTick(t) \/ WakesByClock(t) \/ WaitTimesOut(t)
      PROVE  PaceInv'
  <2>1. now' = now /\ UNCHANGED <<thread_count, period_ticks, until>>
        /\ at' = [at EXCEPT ![t] = "working"]
    BY <1>4 DEF WakesByTick, WakesByClock, WaitTimesOut, tableVars
  <2>2. \/ last_wake' = last_wake /\ last_wake[t] <= now
        \/ last_wake' = [last_wake EXCEPT ![t] = now]
    BY <1>4 DEF WakesByTick, WakesByClock, WaitTimesOut, PaceInv
  <2> QED
    BY <2>1, <2>2 DEF PaceInv, NeverAhead, PeriodOfRequests, Places
<1>5. CASE ClockTick
  BY <1>5 DEF ClockTick, tableVars, paceVars, PaceInv, NeverAhead, PeriodOfRequests
<1>6. ASSUME NEW t \in Threads, RequestTerminate(t)
      PROVE  PaceInv'
  BY <1>6 DEF RequestTerminate, paceVars, PaceInv, NeverAhead, PeriodOfRequests
<1>7. CASE StopReturns \/ ClockStarts \/ Alarm \/ UNCHANGED threadsVars
  BY <1>7 DEF StopReturns, ClockStarts, Alarm, tableVars, paceVars, threadsVars, PaceInv, NeverAhead,
              PeriodOfRequests
<1> QED
  BY <1>1, <1>2, <1>3, <1>4, <1>5, <1>6, <1>7, SleepKeepsPace DEF ThreadsNext

-----------------------------------------------------------------------------
(* The theorems.                                                           *)

\* The table always holds the slot of a task that works, its task counted or
\* about to be, and a thread ends only when it was told to (fc_vesc_if.c:358-435).
THEOREM SlotsAreHeld ==
    ASSUME Sized
    PROVE  ThreadsSpec => []SlotIsHeld
<1>1. ASSUME ThreadsInit
      PROVE  TableInv
  <2>1. thread_count \in 0 .. MaxThreads /\ spawning = FALSE
    BY <1>1 DEF ThreadsInit, Sized
  <2>2. /\ handle = [t \in Threads |-> FALSE] /\ terminate = [t \in Threads |-> FALSE]
        /\ finished = [t \in Threads |-> FALSE] /\ at = [t \in Threads |-> "absent"]
    BY <1>1 DEF ThreadsInit
  <2>3. /\ handle \in [Threads -> BOOLEAN] /\ terminate \in [Threads -> BOOLEAN]
        /\ finished \in [Threads -> BOOLEAN] /\ at \in [Threads -> Places]
    BY <2>2 DEF Places
  <2>4. SlotIsHeld
    BY <2>2 DEF SlotIsHeld
  <2> QED
    BY <2>1, <2>3, <2>4 DEF TableInv
<1>2. TableInv /\ [ThreadsNext]_threadsVars => TableInv'
  BY TableStep
<1>3. TableInv => SlotIsHeld
  BY DEF TableInv
<1> QED
  BY <1>1, <1>2, <1>3, PTL DEF ThreadsSpec

LEMMA PaceAlways ==
    ASSUME Sized
    PROVE  ThreadsSpec => []PaceInv
<1>1. ThreadsInit => PaceInv
  BY DEF ThreadsInit, PaceInv, NeverAhead, PeriodOfRequests, Places, Sized
<1>2. PaceInv /\ [ThreadsNext]_threadsVars => PaceInv'
  BY PaceStep
<1> QED
  BY <1>1, <1>2, PTL DEF ThreadsSpec

\* No thread works before the end of its sleep, by ticks, by the clock or across
\* a change from one to the other (fc_vesc_if.c:152-224).
THEOREM ThreadsNeverAhead ==
    ASSUME Sized
    PROVE  ThreadsSpec => []NeverAhead
<1>1. PaceInv => NeverAhead
  BY DEF PaceInv
<1> QED
  BY <1>1, PaceAlways, PTL

\* The period stays within what Refloat asks for, and does not shrink
\* (fc_vesc_if.c:165-198).
THEOREM PeriodIsFound ==
    ASSUME Sized
    PROVE  ThreadsSpec => []PeriodOfRequests /\ PeriodOnlyGrows
<1>1. PaceInv => PeriodOfRequests
  BY DEF PaceInv
<1>2. PaceInv /\ [ThreadsNext]_threadsVars =>
        [\A t \in Threads : t <= thread_count => period_ticks'[t] >= period_ticks[t]]_threadsVars
  <2> SUFFICES ASSUME PaceInv, [ThreadsNext]_threadsVars, ~UNCHANGED threadsVars,
                      NEW t \in Threads, t <= thread_count
               PROVE  period_ticks'[t] >= period_ticks[t]
    OBVIOUS
  <2>0. period_ticks \in [Threads -> Nat] /\ thread_count \in Nat
    BY DEF PaceInv
  <2>1. CASE Spawn
    BY <2>0, <2>1 DEF Spawn, ClearSlot, Sized, Threads
  <2>2. ASSUME NEW s \in Threads, Sleep(s)
        PROVE  period_ticks'[t] >= period_ticks[t]
    <3>1. PICK ticks \in 0 .. Nominal :
             \/ period_ticks' = period_ticks
             \/ period_ticks' = [period_ticks EXCEPT ![s] = Period(s, ticks)]
      BY <2>2 DEF Sleep, SleepUnknown, SleepByClock, SleepByTick
    <3>2. Period(s, ticks) >= period_ticks[s]
      BY <2>2, PeriodFacts
    <3> QED
      BY <2>0, <3>1, <3>2
  <2>3. CASE \/ SpawnCounts \/ StopReturns \/ ClockStarts \/ Alarm \/ ClockTick
             \/ \E s \in Threads : Ends(s) \/ RequestTerminate(s) \/ WakesByTick(s)
                                   \/ WakesByClock(s) \/ WaitTimesOut(s)
    <3>1. period_ticks' = period_ticks
      BY <2>3 DEF SpawnCounts, StopReturns, ClockStarts, Alarm, ClockTick, Ends, RequestTerminate,
                  WakesByTick, WakesByClock, WaitTimesOut, paceVars
    <3> QED
      BY <2>0, <3>1
  <2> QED
    BY <2>1, <2>2, <2>3 DEF ThreadsNext
<1> QED
  BY <1>1, <1>2, PaceAlways, PTL DEF ThreadsSpec, PeriodOnlyGrows

\* An alarm begins one iteration or none: what a long iteration has missed is
\* taken together (fc_rt_clock.c:71-77).
THEOREM ClockNeverCatchesUp ==
    ThreadsSpec => []NoneCaughtUp
<1>1. ThreadsInit => ClockInv
  BY DEF ThreadsInit, ClockInv, NoneCaughtUp
<1>2. ASSUME ClockInv, [ThreadsNext]_threadsVars
      PROVE  ClockInv'
  <2>1. CASE Alarm
    BY <1>2, <2>1 DEF Alarm, ClockInv, NoneCaughtUp
  <2>2. ASSUME NEW t \in Threads, WakesByClock(t)
        PROVE  ClockInv'
    BY <1>2, <2>2 DEF WakesByClock, ClockInv, NoneCaughtUp
  <2>3. CASE \/ Spawn \/ SpawnCounts \/ StopReturns \/ ClockStarts \/ ClockTick \/ UNCHANGED threadsVars
             \/ \E t \in Threads : Ends(t) \/ RequestTerminate(t) \/ Sleep(t)
                                   \/ WakesByTick(t) \/ WaitTimesOut(t)
    <3>1. UNCHANGED <<pending, begun, alarms>>
      BY <2>3 DEF Spawn, SpawnCounts, StopReturns, ClockStarts, ClockTick, Ends, RequestTerminate,
                  Sleep, SleepUnknown, SleepByClock, SleepByTick, WakesByTick, WaitTimesOut,
                  clockVars, threadsVars
    <3> QED
      BY <1>2, <3>1 DEF ClockInv, NoneCaughtUp
  <2> QED
    BY <1>2, <2>1, <2>2, <2>3 DEF ThreadsNext
<1>3. ClockInv => NoneCaughtUp
  BY DEF ClockInv
<1> QED
  BY <1>1, <1>2, <1>3, PTL DEF ThreadsSpec
=============================================================================
