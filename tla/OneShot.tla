------------------------------- MODULE OneShot -------------------------------
(***************************************************************************)
(* One command of the motors by hand, in two steps of the console          *)
(* (motor-oneshot-prep and motor-oneshot-fire, fc_console.c; and           *)
(* fc_motor_experiment_oneshot, fc_motor_experiment.c).                    *)
(*                                                                         *)
(* The preparation looks at the board, spends a while on the telemetry of  *)
(* both halves and leaves a token; the second step looks again, at less,   *)
(* and asks the gate for one pair of frames.  Meanwhile the board tilts,   *)
(* Refloat computes, other tasks arm, stop and spoil.  Both steps run in   *)
(* the console's task, so there is one of them at a time.  What one step   *)
(* looks at is taken as one moment; the properties speak of what it saw.   *)
(* The fields of the token are written at the look, before it is valid.    *)
(* Left out: what is printed, and values that are not numbers.             *)
(***************************************************************************)
EXTENDS Integers

CONSTANTS
    Ttl,                \* ONESHOT_TTL_US
    Envelope,           \* ONESHOT_ENVELOPE_A
    LeastTilt, MostTilt, \* ONESHOT_MIN_ERR_DEG, ONESHOT_MAX_ERR_DEG
    Tilts, Currents     \* setpoint less balance pitch, Refloat's current

VARIABLES
    tilt, wanted, riding,    \* Refloat: its error, its current, RUNNING
    permitted,               \* the coordinator armed
    driving, shown,          \* the 500 Hz source: E.run; E.st.running, which is wiped
                             \* with the statistics (motor-reset) while the source runs
    sound,                   \* every other check of the preparation
    step,                    \* the console: "free", "telemetry", "firing"
    fits,                    \* no check has failed in this preparation
    valid, waited, amps, err_deg,    \* ONESHOT; its age instead of prepared_us
    checked,                 \* what the second step has looked at
    passed, pairs            \* preparations passed, pairs the gate let through

boardVars == <<tilt, wanted, riding, permitted, driving, shown, sound>>
tokenVars == <<valid, waited, amps, err_deg>>
oneShotVars == <<boardVars, step, fits, tokenVars, checked, passed, pairs>>

-----------------------------------------------------------------------------
Sign(x) == IF x > 0 THEN 1 ELSE IF x < 0 THEN -1 ELSE 0

\* The second step has two signs: none counts as negative.
TwoSign(x) == IF x > 0 THEN 1 ELSE -1

Magnitude(x) == IF x < 0 THEN -x ELSE x

OneShotInit ==
    /\ tilt \in Tilts /\ wanted \in Currents /\ riding = FALSE
    /\ permitted = FALSE /\ driving = FALSE /\ shown = FALSE /\ sound = FALSE
    /\ step = "free" /\ fits = FALSE
    /\ valid = FALSE /\ waited = 0 /\ amps = 0 /\ err_deg = 0
    /\ checked = [tilt |-> 0, wanted |-> 0, waited |-> 0, permitted |-> FALSE]
    /\ passed = 0 /\ pairs = 0

-----------------------------------------------------------------------------
(* The board goes on; Refloat's current is only renewed in RUNNING.        *)

BoardMoves ==
    /\ tilt' \in Tilts /\ wanted' \in Currents
    /\ ~riding => wanted' = wanted
    /\ riding' \in BOOLEAN /\ permitted' \in BOOLEAN
    /\ driving' \in BOOLEAN /\ shown' \in BOOLEAN /\ sound' \in BOOLEAN
    /\ UNCHANGED <<step, fits, tokenVars, checked, passed, pairs>>

TimePasses ==
    /\ waited' = waited + 1
    /\ UNCHANGED <<boardVars, step, fits, valid, amps, err_deg, checked, passed, pairs>>

-----------------------------------------------------------------------------
(* cmd_oneshot_prep: the checks, then the telemetry, then the token.       *)

Fits ==
    /\ riding /\ sound /\ permitted /\ ~shown
    /\ Magnitude(tilt) >= LeastTilt /\ Magnitude(tilt) <= MostTilt
    /\ Magnitude(wanted) >= Envelope
    /\ Sign(tilt) # 0 /\ Sign(wanted) = Sign(tilt)

PrepLooks ==
    /\ step = "free"
    /\ step' = "telemetry" /\ valid' = FALSE /\ fits' = Fits
    /\ amps' = IF wanted > 0 THEN Envelope ELSE -Envelope
    /\ err_deg' = tilt
    /\ UNCHANGED <<boardVars, waited, checked, passed, pairs>>

PrepEnds(halves) ==
    /\ step = "telemetry"
    /\ step' = "free" /\ fits' = FALSE
    /\ IF fits /\ halves
       THEN valid' = TRUE /\ waited' = 0 /\ passed' = passed + 1
       ELSE UNCHANGED <<valid, waited, passed>>
    /\ UNCHANGED <<boardVars, amps, err_deg, checked, pairs>>

-----------------------------------------------------------------------------
(* cmd_oneshot_fire.                                                       *)

StillFits ==
    /\ permitted
    /\ Magnitude(wanted) >= Envelope
    /\ TwoSign(wanted) = TwoSign(amps) /\ TwoSign(tilt) = TwoSign(amps)

FireRefused ==
    /\ step = "free" /\ valid
    /\ waited > Ttl \/ ~StillFits
    /\ valid' = FALSE
    /\ UNCHANGED <<boardVars, step, fits, waited, amps, err_deg, checked, passed, pairs>>

\* The token is put out before the pair is asked for.
FirePasses ==
    /\ step = "free" /\ valid /\ waited <= Ttl /\ StillFits
    /\ step' = "firing" /\ valid' = FALSE
    /\ checked' = [tilt |-> tilt, wanted |-> wanted, waited |-> waited,
                   permitted |-> permitted]
    /\ UNCHANGED <<boardVars, fits, waited, amps, err_deg, passed, pairs>>

\* fc_motor_experiment_oneshot: not beside the source, and the gate decides.
Oneshot(allowed) ==
    /\ step = "firing" /\ step' = "free"
    /\ pairs' = IF ~driving /\ allowed THEN pairs + 1 ELSE pairs
    /\ UNCHANGED <<boardVars, fits, tokenVars, checked, passed>>

OneShotNext ==
    \/ BoardMoves \/ TimePasses
    \/ PrepLooks \/ \E halves \in BOOLEAN : PrepEnds(halves)
    \/ FireRefused \/ FirePasses \/ \E allowed \in BOOLEAN : Oneshot(allowed)

OneShotSpec == OneShotInit /\ [][OneShotNext]_oneShotVars

-----------------------------------------------------------------------------
(* Properties.                                                             *)

\* A preparation that has passed is good for one pair at most, whatever is refused,
\* expires, or fails between the steps (fc_console.c:1648-1672).
PairPerPreparation == pairs + (IF valid \/ step = "firing" THEN 1 ELSE 0) <= passed

\* Every pair is the one of the envelope, rights the tilt that was prepared, which was
\* not large, and was looked at again, not later than the token allows, with the
\* coordinator armed and Refloat's own current of the same sign and no smaller; it does
\* not go beside the source (fc_console.c:1653-1672, fc_motor_experiment.c:509-521).
PairRightsBoard == [][
    pairs' # pairs =>
        /\ ~driving
        /\ checked.permitted /\ checked.waited <= Ttl
        /\ Magnitude(err_deg) >= LeastTilt /\ Magnitude(err_deg) <= MostTilt
        /\ \/ amps = Envelope /\ err_deg > 0 /\ checked.tilt > 0 /\ checked.wanted >= Envelope
           \/ amps = -Envelope /\ err_deg < 0 /\ checked.tilt <= 0 /\ checked.wanted <= -Envelope
    ]_oneShotVars
=============================================================================
