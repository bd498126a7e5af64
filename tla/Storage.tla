------------------------------- MODULE Storage -------------------------------
(***************************************************************************)
(* The non-volatile store (fc_storage_nvs.c, fc_flash_policy.c): a mirror  *)
(* of words in RAM, written by Refloat and by the calibration commands,    *)
(* and a task that copies it to flash.  A flash operation stops both cores *)
(* for several periods of the loop, so it is meant for DISARMED alone; the *)
(* supervisor is the module Supervisor.                                    *)
(*                                                                         *)
(* The storage task runs on core 0 below the console and takes no lock:    *)
(* whatever the console, Refloat and the supervisor do may fall between    *)
(* any two of its steps, also inside a flash operation.                    *)
(*                                                                         *)
(* Reduced: NVS replaces the blob as a whole or not at all; a word is      *)
(* stored in one step; the loop is alive throughout, so the supervisor's   *)
(* ages stay 0, and its faults are those of the IMU policy.  Left out: the *)
(* statistics and the ring of events, words that were never stored.        *)
(***************************************************************************)
EXTENDS Supervisor

CONSTANTS
    Words,      \* the addresses
    CalWords,   \* those of the calibration; the others are Refloat's
    Values,     \* what a word may hold
    FlushWait,  \* FC_STORAGE_FLUSH_MS, in ticks
    MaxErrors   \* NVS fails at most this often

ASSUME StoreAssumption ==
    /\ CalWords \subseteq Words /\ Values # {}
    /\ FlushWait \in Nat /\ MaxErrors \in Nat

VARIABLES
    words,      \* g_st.words
    dirty,      \* g_st.dirty
    requested,  \* g_st.commit_requested
    quiet,      \* now - g_st.last_write_us, up to FlushWait
    pending,    \* P.st.pending
    flash,      \* the blob in NVS
    at,         \* where the storage task is
    blob,       \* what it is writing; the content of flash when it is not
    errors,     \* NVS errors so far
    benchArmed, \* ST.armed of the coordinator
    con,        \* what the console is doing
    calLeft,    \* the words the calibration command has yet to store
    missed      \* history: words stored since the blob was taken

mirrorVars  == <<words, dirty, requested, quiet>>
flushVars   == <<pending, flash, at, blob, errors>>
consoleVars == <<benchArmed, con, calLeft>>
storeVars   == <<supVars, mirrorVars, flushVars, consoleVars, missed>>

Contents == [Words -> Values]

\* The task, step by step of its loop; "writing" and "written" lie between
\* nvs_set_blob and the end of fc_storage_commit.
Places == {"asleep", "asked", "decide", "commit", "set", "writing", "written",
           "good", "bad"}

Errands == {"free", "saving", "checked", "burst", "parting"}

StorageTypeOK ==
    /\ TypeOK
    /\ words \in Contents /\ flash \in Contents /\ blob \in Contents
    /\ dirty \in BOOLEAN /\ requested \in BOOLEAN /\ pending \in BOOLEAN
    /\ quiet \in 0 .. FlushWait /\ errors \in 0 .. MaxErrors
    /\ at \in Places
    /\ benchArmed \in BOOLEAN /\ con \in Errands
    /\ calLeft \in SUBSET CalWords
    /\ missed \in SUBSET Words

\* g_busy.
Busy == at \in {"set", "writing"}

\* fc_flash_write_allowed.
FlashWriteAllowed == ConfigWriteAllowed /\ ~benchArmed

\* The inputs after a good boot, with the loop running.
BootedInputs ==
    [platform |-> TRUE, config |-> TRUE, loop |-> TRUE, imu |-> TRUE, watchdog |-> TRUE,
     footpad |-> FALSE, simulated |-> FALSE, calibration |-> TRUE]

\* fc_storage_init after a good boot; the boot counter is stored and committed.
StorageInit ==
    /\ state = "DISARMED" /\ faults = {} /\ in = BootedInputs
    /\ loopAge = 0 /\ imuAge = 0 /\ burst = NoBurst /\ lastPermit = "OK"
    /\ flash \in Contents /\ words = flash /\ blob = flash
    /\ dirty = FALSE /\ requested = FALSE /\ quiet = 0
    /\ pending = FALSE /\ at = "asleep" /\ errors = 0
    /\ benchArmed = FALSE /\ con = "free" /\ calLeft = {}
    /\ missed = {}

-----------------------------------------------------------------------------
(* The mirror.                                                             *)

\* fc_storage_write.
Write(w, v) ==
    /\ words' = [words EXCEPT ![w] = v]
    /\ dirty' = (dirty \/ words[w] # v)
    /\ quiet' = 0
    /\ missed' = IF words[w] # v /\ at \in {"writing", "written"}
                 THEN missed \cup {w} ELSE missed

\* store_eeprom_var and store_backup_data; refused, they change nothing.
RefloatStores ==
    /\ FlashWriteAllowed
    /\ \/ \E w \in Words \ CalWords, v \in Values : Write(w, v) /\ UNCHANGED requested
       \/ requested' = TRUE /\ UNCHANGED <<words, dirty, quiet, missed>>
    /\ UNCHANGED <<supVars, flushVars, consoleVars>>

\* Mutant: the calibration runs over into the words of Refloat.
CalBeginsOverrun ==
    /\ con = "free" /\ FlashWriteAllowed
    /\ con' = "saving" /\ calLeft' = Words
    /\ UNCHANGED <<supVars, mirrorVars, flushVars, benchArmed, missed>>

\* imu-cal-save and imu-cal-clear ask for permission once, then store word
\* after word and ask for a commit.
CalBegins ==
    /\ con = "free" /\ FlashWriteAllowed
    /\ con' = "saving" /\ calLeft' = CalWords
    /\ UNCHANGED <<supVars, mirrorVars, flushVars, benchArmed, missed>>

CalStores ==
    /\ con = "saving"
    /\ \E w \in calLeft, v \in Values : Write(w, v) /\ calLeft' = calLeft \ {w}
    /\ UNCHANGED <<supVars, flushVars, requested, benchArmed, con>>

CalEnds ==
    /\ con = "saving" /\ calLeft = {}
    /\ con' = "free" /\ requested' = TRUE
    /\ UNCHANGED <<supVars, flushVars, words, dirty, quiet, benchArmed, calLeft, missed>>

-----------------------------------------------------------------------------
(* flush_task.                                                             *)

Step(from, to) == at = from /\ at' = to

TaskSteps(from, to) ==
    /\ Step(from, to)
    /\ UNCHANGED <<supVars, words, quiet, errors, consoleVars>>

\* Mutant: the task commits on request only.
DueNever == FALSE
Due == dirty /\ quiet >= FlushWait

\* fc_flash_policy_request is made by this task alone.
Wake ==
    /\ TaskSteps("asleep", "asked")
    /\ pending' = (pending \/ requested \/ Due)
    /\ UNCHANGED <<dirty, requested, flash, blob, missed>>

ForgetRequest ==
    /\ TaskSteps("asked", "decide")
    /\ requested' = FALSE
    /\ UNCHANGED <<dirty, pending, flash, blob, missed>>

\* Mutant: deciding to execute takes the request off the books.
DecideForgets ==
    /\ \/ (~pending \/ ~FlashWriteAllowed) /\ TaskSteps("decide", "asleep") /\ UNCHANGED pending
       \/ pending /\ FlashWriteAllowed /\ TaskSteps("decide", "commit") /\ pending' = FALSE
    /\ UNCHANGED <<dirty, requested, flash, blob, missed>>

\* fc_flash_policy_decide: IDLE and DEFER put the task back to sleep.
Decide ==
    /\ \/ (~pending \/ ~FlashWriteAllowed) /\ TaskSteps("decide", "asleep")
       \/ pending /\ FlashWriteAllowed /\ TaskSteps("decide", "commit")
    /\ UNCHANGED <<dirty, requested, pending, flash, blob, missed>>

(* fc_storage_commit.                                                      *)

\* A clean mirror counts as saved.
CommitBegins ==
    /\ \/ dirty /\ TaskSteps("commit", "set")
       \/ ~dirty /\ TaskSteps("commit", "good")
    /\ UNCHANGED <<dirty, requested, pending, flash, blob, missed>>

SetBlob ==
    /\ TaskSteps("set", "writing")
    /\ blob' = words /\ missed' = {}
    /\ UNCHANGED <<dirty, requested, pending, flash>>

Written ==
    /\ TaskSteps("writing", "written")
    /\ flash' = blob
    /\ UNCHANGED <<dirty, requested, pending, blob, missed>>

\* Mutant: an operation that failed clears the flag as well.
NvsFailsClean ==
    /\ Step("writing", "bad")
    /\ errors < MaxErrors /\ errors' = errors + 1
    /\ blob' = flash /\ dirty' = FALSE
    /\ UNCHANGED <<supVars, words, requested, quiet, pending, flash, consoleVars, missed>>

NvsFails ==
    /\ Step("writing", "bad")
    /\ errors < MaxErrors /\ errors' = errors + 1
    /\ blob' = flash
    /\ UNCHANGED <<supVars, mirrorVars, pending, flash, consoleVars, missed>>

ClearDirty ==
    /\ TaskSteps("written", "good")
    /\ dirty' = FALSE
    /\ UNCHANGED <<requested, pending, flash, blob, missed>>

\* fc_flash_policy_report: an error leaves the request pending.
Report ==
    /\ \/ TaskSteps("good", "asleep") /\ pending' = FALSE
       \/ TaskSteps("bad", "asleep") /\ UNCHANGED pending
    /\ UNCHANGED <<dirty, requested, flash, blob, missed>>

FlushStep ==
    \/ Wake \/ ForgetRequest \/ Decide \/ CommitBegins \/ SetBlob
    \/ Written \/ NvsFails \/ ClearDirty \/ Report

-----------------------------------------------------------------------------
(* The console's way to a burst, and the supervisor.                       *)

Elsewhere == UNCHANGED <<mirrorVars, flushVars, calLeft, missed>>

MotorArm ==
    /\ con = "free" /\ state # "FAULT" /\ in.imu
    /\ benchArmed' = TRUE
    /\ UNCHANGED <<supVars, con>>

MotorDisarm == con = "free" /\ benchArmed' = FALSE /\ UNCHANGED <<supVars, con>>

\* The checks of cl-ready, and the transition after the telemetry.
ClReadyChecks ==
    /\ con = "free" /\ con' = "checked"
    /\ state = "READY" /\ benchArmed /\ ~pending /\ ~Busy /\ ~FlashWriteAllowed
    /\ UNCHANGED <<supVars, benchArmed>>

ClReadyArms ==
    /\ con = "checked" /\ con' = "free"
    /\ RequestClosedLoopReady \/ UNCHANGED supVars
    /\ UNCHANGED benchArmed

ClBurst ==
    /\ con = "free" /\ con' = "burst"
    /\ benchArmed
    /\ \E d \in 1 .. BurstMax, lag \in 0 .. SampleLag : BeginBurst(d, lag)
    /\ UNCHANGED benchArmed

\* The way out disarms the coordinator before the supervisor.
ClBurstOver ==
    /\ \/ con = "burst" /\ con' = "parting" /\ benchArmed' = FALSE /\ UNCHANGED supVars
       \/ /\ con = "parting" /\ con' = "free" /\ UNCHANGED benchArmed
          /\ Disarm \/ (state \notin {"READY", "ARMED", "RUNNING"} /\ UNCHANGED supVars)

ConsoleStep ==
    /\ \/ MotorArm \/ MotorDisarm \/ ClReadyChecks \/ ClReadyArms \/ ClBurst \/ ClBurstOver
       \/ con = "free" /\ (RequestReady \/ Disarm \/ ClearFault) /\ UNCHANGED <<benchArmed, con>>
    /\ Elsewhere

SupervisorStep ==
    /\ \/ \E p \in Permits : ReportImuPermit(p)
       \/ \E b \in BOOLEAN : ReportFootpad(b)
       \/ Poll
    /\ Elsewhere
    /\ UNCHANGED <<benchArmed, con>>

TimePasses ==
    /\ quiet < FlushWait \/ burst > 0
    /\ quiet' = IF quiet < FlushWait THEN quiet + 1 ELSE quiet
    /\ burst' = IF burst > 0 THEN burst - 1 ELSE burst
    /\ UNCHANGED <<state, faults, in, loopAge, imuAge, lastPermit, words, dirty, requested,
                   flushVars, consoleVars, missed>>

\* The power goes, at any moment: NVS holds the old blob or the new one.
Restart ==
    /\ flash' \in {flash} \cup (IF at = "writing" THEN {blob} ELSE {})
    /\ words' = flash' /\ blob' = flash'
    /\ dirty' = FALSE /\ requested' = FALSE /\ quiet' = 0
    /\ pending' = FALSE /\ at' = "asleep"
    /\ benchArmed' = FALSE /\ con' = "free" /\ calLeft' = {}
    /\ state' = "DISARMED" /\ faults' = {} /\ in' = BootedInputs
    /\ burst' = NoBurst /\ lastPermit' = "OK"
    /\ missed' = {}
    /\ UNCHANGED <<loopAge, imuAge, errors>>

StorageNext ==
    \/ RefloatStores \/ CalBegins \/ CalStores \/ CalEnds
    \/ FlushStep \/ ConsoleStep \/ SupervisorStep \/ TimePasses \/ Restart

\* The task is scheduled and time passes.  Nothing is assumed of the writers,
\* of the console or of the supervisor.
StorageFairness == WF_storeVars(FlushStep) /\ WF_storeVars(TimePasses)

StorageSpec == StorageInit /\ [][StorageNext]_storeVars /\ StorageFairness

-----------------------------------------------------------------------------
(* Properties.                                                             *)

\* No flash operation stops the cores while the closed loop is armed or runs,
\* though the task decides long before it writes: the request stays pending
\* until the write is over, and cl-ready looks at just that.
NoFlashUnderTorque == Busy => state \notin {"ARMED", "RUNNING"}

\* A word that differs from its copy in flash is on the books of the task, but
\* for the words stored while a commit was under way.
NothingForgotten ==
    \A w \in Words : words[w] # flash[w] => dirty \/ w \in missed

\* A change that is left alone where writing is allowed is copied to flash, or
\* at least taken for copied, whatever refusals, errors and lost requests came
\* before.
QuietChangeSaved ==
    <>[]FlashWriteAllowed => []<>(~dirty \/ quiet < FlushWait)

\* What the store says of itself: a mirror that is not dirty is in flash.
CleanMeansSaved == at = "asleep" /\ ~dirty => words = flash
=============================================================================
