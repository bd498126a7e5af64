----------------------------- MODULE Calibration -----------------------------
(***************************************************************************)
(* The calibration of the resting orientation: the measurement fed by the  *)
(* sensor's task on core 1 (fc_imu_detect.c), the console's commands on    *)
(* core 0 that start it, store what it found and erase it (fc_console.c,   *)
(* fc_imu_cal_store.c), the words in RAM that the storage task copies to   *)
(* flash, and what a restart makes of them (fc_imu_calibration.c).         *)
(*                                                                         *)
(* A sample is still or not, and late or not.  A record is a model value;  *)
(* a word that belongs to a record holds its name, so that the checksum    *)
(* and the magic word are: every word is of one record.                    *)
(*                                                                         *)
(* Nothing locks the measurement: a feed has looked at the state (feed =   *)
(* "in") and goes on whatever the console has done to it since.            *)
(***************************************************************************)
EXTENDS Integers

CONSTANTS
    Needed,     \* cfg.samples
    Last,       \* FC_IMU_CAL_WORDS - 1, the word of the checksum
    Records,    \* what a measurement may find
    Erased      \* 0xFFFFFFFF in a word; the calibration that changes nothing

Words == 0 .. Last
Contents == Records \cup {Erased}

VARIABLES
    state, samples, needed, have_last, result,  \* D of fc_imu_detect.c
    feed,                                       \* "in": the sensor's task is past the look at the state
    con, record, next,                          \* the console's command, and the word it stores next
    mirror, blob, copied, flash,                \* words in RAM; their copy and how far it goes; NVS
    status, applied,                            \* R.cal_status; the pipeline's calibration
    streak,                                     \* history: still samples in a row
    torn,                                       \* history: a start fell into a feed
    measured, spoiled, stored                   \* history: records found by a whole run, by a torn one;
                                                \* records of which every word was stored

detectVars == <<state, samples, needed, have_last, result, feed>>
conVars == <<con, record, next>>
storeVars == <<mirror, blob, copied, flash>>
useVars == <<status, applied>>
historyVars == <<streak, torn, measured, spoiled, stored>>
calVars == <<detectVars, conVars, storeVars, useVars, historyVars>>

\* fc_imu_calibration_deserialize.
IsRecord(words, r) == \A w \in Words : words[w] = r
Parsed(words) ==
    IF \E r \in Records : IsRecord(words, r) THEN "VALID"
    ELSE IF words[0] = Erased /\ IsRecord(words, Erased) THEN "NOT_CALIBRATED" ELSE "INVALID"
Loaded(words) ==
    IF Parsed(words) = "VALID" THEN CHOOSE r \in Records : IsRecord(words, r) ELSE Erased

CalInit ==
    /\ state = "idle" /\ samples = 0 /\ needed = 0 /\ have_last = FALSE /\ result = Erased
    /\ feed = "out"
    /\ con = "free" /\ record = Erased /\ next = 0
    /\ mirror = [w \in Words |-> Erased] /\ blob = mirror /\ copied = 0 /\ flash = mirror
    /\ status = "NOT_CALIBRATED" /\ applied = Erased
    /\ streak = 0 /\ torn = FALSE /\ measured = {} /\ spoiled = {} /\ stored = {}

-----------------------------------------------------------------------------
(* fc_imu_detect_feed, by the sensor's task.                               *)

FeedEnters ==
    /\ feed = "out" /\ state = "collecting"
    /\ feed' = "in"
    /\ UNCHANGED <<state, samples, needed, have_last, result, conVars, storeVars, useVars, historyVars>>

\* restart(): the run begins anew.
Restarts(haveLast) ==
    /\ samples' = 0 /\ have_last' = haveLast
    /\ UNCHANGED <<state, result, measured, spoiled>>

\* The spread of the run decides: restless, implausible, or a record.
Decides ==
    \/ Restarts(FALSE)
    \/ /\ samples' = samples + 1 /\ have_last' = TRUE
       /\ state' = "failed" /\ UNCHANGED <<result, measured, spoiled>>
    \/ \E r \in Records :
         /\ samples' = samples + 1 /\ have_last' = TRUE
         /\ state' = "done" /\ result' = r
         /\ measured' = IF streak' >= Needed THEN measured \cup {r} ELSE measured
         /\ spoiled' = IF torn THEN spoiled \cup {r} ELSE spoiled

Gap(late) == late /\ have_last

FeedEnds(still, late) ==
    /\ feed = "in" /\ feed' = "out"
    /\ streak' = IF ~still THEN 0 ELSE IF late THEN 1 ELSE streak + 1
    /\ \/ Gap(late) /\ Restarts(TRUE)
       \/ ~Gap(late) /\ ~still /\ Restarts(FALSE)
       \/ /\ ~Gap(late) /\ still /\ samples + 1 < needed
          /\ samples' = samples + 1 /\ have_last' = TRUE
          /\ UNCHANGED <<state, result, measured, spoiled>>
       \/ ~Gap(late) /\ still /\ samples + 1 >= needed /\ Decides
    /\ UNCHANGED <<needed, conVars, storeVars, useVars, torn, stored>>

-----------------------------------------------------------------------------
(* imu-cal-detect: fc_imu_detect_start wipes D, its configuration too,     *)
(* and then opens it.                                                      *)

StartWipes ==
    /\ con = "free" /\ con' = "wiped"
    /\ state' = "idle" /\ samples' = 0 /\ needed' = 0 /\ have_last' = FALSE /\ result' = Erased
    /\ streak' = 0 /\ torn' = (feed = "in")
    /\ UNCHANGED <<feed, record, next, storeVars, useVars, measured, spoiled, stored>>

\* Opened and cleared; of a feed that begins between the two nothing is left.
StartOpens ==
    /\ con = "wiped" /\ con' = "free"
    /\ state' = "collecting" /\ needed' = Needed
    /\ samples' = 0 /\ have_last' = FALSE /\ result' = Erased
    /\ torn' = (torn \/ feed = "in")
    /\ UNCHANGED <<feed, record, next, storeVars, useVars, streak, measured, spoiled, stored>>

-----------------------------------------------------------------------------
(* imu-cal-save and imu-cal-clear: one permission, which the supervisor may *)
(* refuse, and then word after word.                                       *)

SaveBegins ==
    /\ con = "free" /\ state = "done"
    /\ con' = "saving" /\ record' = result /\ next' = 0
    /\ UNCHANGED <<detectVars, storeVars, useVars, historyVars>>

ClearBegins ==
    /\ con = "free"
    /\ con' = "clearing" /\ record' = Erased /\ next' = 0
    /\ UNCHANGED <<detectVars, storeVars, useVars, historyVars>>

StoresWord ==
    /\ con \in {"saving", "clearing"} /\ next <= Last
    /\ mirror' = [mirror EXCEPT ![next] = record]
    /\ next' = next + 1
    /\ stored' = IF con = "saving" /\ next = Last THEN stored \cup {record} ELSE stored
    /\ UNCHANGED <<detectVars, con, record, blob, copied, flash, useVars,
                   streak, torn, measured, spoiled>>

\* The pipeline has the new calibration before the status is set.
CalApplies ==
    /\ con \in {"saving", "clearing"} /\ next > Last
    /\ con' = IF con = "saving" THEN "saved" ELSE "cleared"
    /\ applied' = record
    /\ UNCHANGED <<detectVars, record, next, storeVars, status, historyVars>>

CalSaid ==
    /\ con \in {"saved", "cleared"} /\ con' = "free"
    /\ status' = IF con = "saved" THEN "VALID" ELSE "NOT_CALIBRATED"
    /\ state' = IF con = "saved" THEN state ELSE "idle"  \* fc_imu_detect_abort
    /\ UNCHANGED <<samples, needed, have_last, result, feed, record, next, storeVars, applied,
                   historyVars>>

-----------------------------------------------------------------------------
(* The storage task copies the words one by one, and writes the copy as a  *)
(* whole; power may be lost at any point.                                  *)

Copies ==
    /\ copied <= Last
    /\ blob' = [blob EXCEPT ![copied] = mirror[copied]] /\ copied' = copied + 1
    /\ UNCHANGED <<detectVars, conVars, mirror, flash, useVars, historyVars>>

Commits ==
    /\ copied > Last /\ copied' = 0
    /\ flash' \in {blob, flash}
    /\ UNCHANGED <<detectVars, conVars, mirror, blob, useVars, historyVars>>

\* fc_imu_cal_store_load when the sensor's task starts.
PowerLoss ==
    /\ state' = "idle" /\ samples' = 0 /\ needed' = 0 /\ have_last' = FALSE /\ result' = Erased
    /\ feed' = "out"
    /\ con' = "free" /\ record' = Erased /\ next' = 0
    /\ mirror' = flash /\ blob' = flash /\ copied' = 0
    /\ status' = Parsed(flash) /\ applied' = Loaded(flash)
    /\ streak' = 0 /\ torn' = FALSE
    /\ UNCHANGED <<flash, measured, spoiled, stored>>

-----------------------------------------------------------------------------
CalNext ==
    \/ FeedEnters \/ \E still, late \in BOOLEAN : FeedEnds(still, late)
    \/ StartWipes \/ StartOpens
    \/ SaveBegins \/ ClearBegins \/ StoresWord \/ CalApplies \/ CalSaid
    \/ Copies \/ Commits \/ PowerLoss

CalSpec == CalInit /\ [][CalNext]_calVars

-----------------------------------------------------------------------------
(* Properties.                                                             *)

\* A record that was ever stored was found by a run of Needed still samples
\* without a gap, or by a feed that a start fell into (fc_imu_detect.c:51-195).
StoredWasMeasured == stored \subseteq measured \cup spoiled

\* Whatever comes into a save half-way - a copy taken in between, the loss of power -
\* a calibration that is VALID was stored to its last word; but for the moment in
\* which imu-cal-clear has taken it back and has not yet said so
\* (fc_imu_cal_store.c:42-81, fc_imu_calibration.c:177-226, fc_console.c:1266-1268).
ValidIsWhole == status = "VALID" /\ con # "cleared" => applied \in stored
=============================================================================
