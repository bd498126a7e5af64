----------------------------- MODULE ImuPipeline -----------------------------
(***************************************************************************)
(* What becomes of a reading of the motion sensor (fc_imu_pipeline.c,      *)
(* fc_imu_health.c) and what the supervisor makes of it                    *)
(* (fc_imu_policy.c).                                                      *)
(*                                                                         *)
(* A reading fails, or brings words: their kind, and whether they differ   *)
(* from the words before them.  One tick is a period of the supervisor.    *)
(* The orientation filter, the calibration, the temperature and the        *)
(* statistics are left out, and so are samples that are not finite or go   *)
(* back in time: the driver divides integers and stamps them itself.       *)
(***************************************************************************)
EXTENDS Naturals

CONSTANTS
    Freshness,   \* torque_freshness_us, in ticks
    Latch,       \* latch_age_us, in ticks
    HoldSamples, \* hold_samples
    LatchSamples,\* latch_samples
    StuckLimit,  \* stuck_duplicate_limit and stuck_limit
    Residual     \* still samples the residual is measured from

ASSUME PipelineAssumption ==
    /\ {Freshness, Latch, HoldSamples, LatchSamples, StuckLimit, Residual} \subseteq Nat \ {0}
    /\ Freshness < Latch /\ HoldSamples < LatchSamples

VARIABLES
    pipe,    \* P: have_prev_words, duplicates in a row, still samples of the residual
    health,  \* H: initialised, the series, have_prev and whether H.prev is what was read last
    line     \* TL: a sample was accepted, its age; history: the age of its data

pipelineVars == <<pipe, health, line>>

Kinds == {"still", "moving", "low", "bad"}

Failed == [ok |-> FALSE, kind |-> "bad", changed |-> FALSE]

\* How long data may serve: each of StuckLimit acceptances for Latch ticks.
OldBound == StuckLimit * Latch

Up(n, limit) == IF n < limit THEN n + 1 ELSE limit

PipeEmpty   == [prev |-> FALSE, dups |-> 0, still |-> 0]
HealthEmpty == [inited |-> FALSE, errs |-> 0, inv |-> 0, lows |-> 0, prev |-> FALSE,
                same |-> FALSE, ident |-> 0, ahead |-> FALSE]
LineEmpty   == [seen |-> FALSE, age |-> 0, old |-> 0]

PipelineTypeOK ==
    /\ pipe \in [prev : BOOLEAN, dups : 0 .. StuckLimit, still : 0 .. Residual]
    /\ health \in [inited : BOOLEAN, errs : 0 .. LatchSamples, inv : 0 .. LatchSamples,
                   lows : 0 .. LatchSamples,
                   prev : BOOLEAN, same : BOOLEAN, ident : 0 .. StuckLimit, ahead : BOOLEAN]
    /\ line \in [seen : BOOLEAN, age : 0 .. Latch + 1, old : 0 .. OldBound + 1]

-----------------------------------------------------------------------------
(* fc_imu_health_update.  "ahead": H.prev holds a sample that was not      *)
(* accepted, with the number the next sample will carry too.               *)

HealthFails == health' = [health EXCEPT !.inited = TRUE, !.errs = Up(@, LatchSamples)]

HealthInvalid(r) ==
    health' = [health EXCEPT !.inited = TRUE, !.errs = 0, !.inv = Up(@, LatchSamples),
                             !.same = @ /\ ~r.changed]

\* Mutant: the series of equal samples is not counted across failed reads.
IdenticalInARow(r, moved) ==
    health.prev /\ health.errs = 0 /\ ((health.same /\ ~r.changed) \/ ~moved)

Identical(r, moved) == health.prev /\ ((health.same /\ ~r.changed) \/ ~moved)

Stuck(r, moved) == Identical(r, moved) /\ health.ident + 1 >= StuckLimit

\* H.prev takes the sample that is found stuck, P.sample does not.
Ahead(r, moved) == Stuck(r, moved)

HealthUsable(r, moved) ==
    health' = [health EXCEPT
        !.inited = TRUE, !.errs = 0, !.inv = 0,
        !.lows  = IF r.kind = "low" THEN Up(@, LatchSamples) ELSE 0,
        !.ident = IF Identical(r, moved) THEN Up(@, StuckLimit) ELSE 0,
        !.prev = TRUE, !.same = TRUE,
        !.ahead = Ahead(r, moved)]

HealthSample(r, moved) == IF r.kind = "bad" THEN HealthInvalid(r) ELSE HealthUsable(r, moved)

HealthAccepts(r, moved) == r.kind # "bad" /\ ~Stuck(r, moved)

-----------------------------------------------------------------------------
(* fc_imu_pipeline_submit.                                                 *)

ReadFailed ==
    /\ HealthFails
    /\ pipe' = [pipe EXCEPT !.prev = FALSE]
    /\ UNCHANGED line

Duplicate(r) == r.ok /\ pipe.prev /\ ~r.changed

TakeDuplicate ==
    /\ pipe' = [pipe EXCEPT !.dups = Up(@, StuckLimit)]
    /\ IF pipe.dups + 1 >= StuckLimit THEN HealthFails ELSE UNCHANGED health
    /\ UNCHANGED line

\* Mutant: samples carry the driver's number.
CounterMovedAlways == TRUE

\* The number of a sample follows that of the last one accepted.
CounterMoved == ~health.ahead

Accepted(r) == r.ok /\ ~Duplicate(r) /\ HealthAccepts(r, CounterMoved)

\* Mutant: samples are counted past the end of the measurement.
ResidualAfterUnbounded(r) == IF r.kind = "still" THEN pipe.still + 1 ELSE 0

\* Still samples in a row, until there are enough.
ResidualAfter(r) ==
    IF pipe.still = Residual THEN Residual ELSE IF r.kind = "still" THEN pipe.still + 1 ELSE 0

ResidualReady == pipe.still = Residual

TakeSample(r) ==
    /\ HealthSample(r, CounterMoved)
    /\ pipe' = [prev |-> TRUE, dups |-> 0,
                still |-> IF Accepted(r) THEN ResidualAfter(r) ELSE pipe.still]
    /\ line' = IF Accepted(r)
               THEN [seen |-> TRUE, age |-> 0, old |-> IF r.changed THEN 0 ELSE line.old]
               ELSE line

Submit(r) == IF ~r.ok THEN ReadFailed ELSE IF Duplicate(r) THEN TakeDuplicate ELSE TakeSample(r)

PipelineInit == pipe' = PipeEmpty /\ health' = HealthEmpty /\ line' = LineEmpty

-----------------------------------------------------------------------------
(* fc_imu_policy_evaluate: what the supervisor is told of a line this old. *)

Series == {health.errs, health.inv, health.lows}

Permit(unrecoverable, seen, age) ==
    IF unrecoverable THEN "lost"
    ELSE IF ~seen THEN "hold"
    ELSE IF age > Latch \/ \E n \in Series : n >= LatchSamples THEN "lost"
    ELSE IF age > Freshness \/ \E n \in Series : n >= HoldSamples THEN "hold"
    ELSE "ok"

\* A tick: samples age, and the supervisor evaluates them.  What LOST latches stays
\* latched until the operator acts, so the history begins anew.
LineAged(unrecoverable) ==
    LET age == Up(line.age, Latch + 1) IN
    line' = IF ~line.seen THEN line
            ELSE [seen |-> TRUE, age |-> age,
                  old |-> IF health.inited /\ Permit(unrecoverable, TRUE, age) = "lost"
                          THEN 0 ELSE Up(line.old, OldBound + 1)]
=============================================================================
