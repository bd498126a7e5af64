---------------------------- MODULE RefloatThreads ----------------------------
(***************************************************************************)
(* The threads of Refloat on the board (fc_vesc_if.c) and the hardware     *)
(* clock that paces the first of them (fc_rt_clock.c).  Refloat spawns a   *)
(* thread, the thread sleeps once an iteration, and is asked to end.       *)
(*                                                                         *)
(* Time counts ticks.  A request to sleep is the whole ticks it rounds to. *)
(* What a thread does in an iteration, its name, stack and core, the       *)
(* measurements of the sleep and the task watchdog are left out.           *)
(***************************************************************************)
EXTENDS Integers

CONSTANTS
    MaxThreads,   \* FC_MAX_THREADS
    Nominal,      \* the longest sleep Refloat asks for
    ClockTicks,   \* the period of the hardware clock
    WaitTicks     \* fc_rt_clock_wait(10)

Threads == 1 .. MaxThreads

VARIABLES
    now,
    thread_count, spawning,                    \* S.thread_count; a task not yet counted
    handle, terminate, finished,               \* FcThread: has a handle; the two flags
    period_ticks, last_wake,                   \* FcThread
    at, until,                                 \* where each task stands; when its sleep ends
    running, subscribed, pending,              \* C.st.running, C.sub[REFLOAT], its notifications
    stopper,                                   \* the slot if_request_terminate waits for, 0: none
    alarms, begun                              \* history: alarms and iterations since the subscription

tableVars == <<thread_count, spawning, handle, terminate, finished>>
paceVars == <<period_ticks, last_wake, at, until>>
clockVars == <<running, subscribed, pending, alarms, begun>>
threadsVars == <<now, tableVars, paceVars, clockVars, stopper>>

ThreadsInit ==
    /\ now = 1
    /\ thread_count = 0 /\ spawning = FALSE
    /\ handle = [t \in Threads |-> FALSE]
    /\ terminate = [t \in Threads |-> FALSE] /\ finished = [t \in Threads |-> FALSE]
    /\ period_ticks = [t \in Threads |-> 0] /\ last_wake = [t \in Threads |-> 0]
    /\ at = [t \in Threads |-> "absent"] /\ until = [t \in Threads |-> 0]
    /\ running = FALSE /\ subscribed = FALSE /\ pending = 0 /\ alarms = 0 /\ begun = 0
    /\ stopper = 0

\* The search by handle in if_sleep_us and if_should_terminate: a task that runs
\* before it is counted does not find itself.
Found(t) == t <= thread_count /\ handle[t]

-----------------------------------------------------------------------------
(* if_spawn and thread_trampoline.  The slot is cleared; the task may run  *)
(* before it is counted, and a slot whose task could not be made is used   *)
(* again.                                                                  *)

ClearSlot(t, made) ==
    /\ handle' = [handle EXCEPT ![t] = made]
    /\ terminate' = [terminate EXCEPT ![t] = FALSE]
    /\ finished' = [finished EXCEPT ![t] = FALSE]
    /\ period_ticks' = [period_ticks EXCEPT ![t] = 0]
    /\ last_wake' = [last_wake EXCEPT ![t] = 0]
    /\ until' = [until EXCEPT ![t] = 0]

Spawn ==
    /\ ~spawning /\ thread_count < MaxThreads
    /\ \E made \in BOOLEAN :
         /\ ClearSlot(thread_count + 1, made)
         /\ spawning' = made
         /\ at' = [at EXCEPT ![thread_count + 1] = IF made THEN "working" ELSE "absent"]
    /\ UNCHANGED <<now, thread_count, clockVars, stopper>>

SpawnCounts ==
    /\ spawning
    /\ thread_count' = thread_count + 1 /\ spawning' = FALSE
    /\ UNCHANGED <<now, handle, terminate, finished, paceVars, clockVars, stopper>>

\* The thread's function returns: only when if_should_terminate says so.
Ends(t) ==
    /\ at[t] = "working" /\ Found(t) /\ terminate[t]
    /\ finished' = [finished EXCEPT ![t] = TRUE]
    /\ handle' = [handle EXCEPT ![t] = FALSE]
    /\ at' = [at EXCEPT ![t] = "ended"]
    /\ UNCHANGED <<now, thread_count, spawning, terminate, period_ticks, last_wake, until,
                   clockVars, stopper>>

\* if_request_terminate: it waits for the end, and not for ever.
RequestTerminate(t) ==
    /\ stopper = 0 /\ t <= thread_count
    /\ terminate' = [terminate EXCEPT ![t] = TRUE]
    /\ stopper' = t
    /\ UNCHANGED <<now, thread_count, spawning, handle, finished, paceVars, clockVars>>

StopReturns ==
    /\ stopper # 0 /\ stopper' = 0
    /\ UNCHANGED <<now, tableVars, paceVars, clockVars>>

-----------------------------------------------------------------------------
(* if_sleep_us.                                                            *)

\* The period is the longest request so far, and a tick at least.
Wanted(ticks) == IF ticks = 0 THEN 1 ELSE ticks
Period(t, ticks) == IF Wanted(ticks) > period_ticks[t] THEN Wanted(ticks) ELSE period_ticks[t]
Mark(t, ticks) ==
    IF Wanted(ticks) > period_ticks[t] /\ last_wake[t] = 0 THEN now ELSE last_wake[t]

\* The first thread takes its pace from the clock where the clock has its period.
ByClock(t, ticks) == t = 1 /\ running /\ Period(t, ticks) = ClockTicks

\* A task that is not in the table: vTaskDelay.
SleepUnknown(t, ticks) ==
    /\ at[t] = "working" /\ ~Found(t)
    /\ until' = [until EXCEPT ![t] = now + ticks]
    /\ at' = [at EXCEPT ![t] = "delay"]
    /\ UNCHANGED <<now, tableVars, period_ticks, last_wake, clockVars, stopper>>

\* fc_rt_clock_subscribe, fc_rt_clock_wait.
SleepByClock(t, ticks) ==
    /\ at[t] = "working" /\ Found(t) /\ ByClock(t, ticks)
    /\ period_ticks' = [period_ticks EXCEPT ![t] = Period(t, ticks)]
    /\ last_wake' = [last_wake EXCEPT ![t] = Mark(t, ticks)]
    /\ until' = [until EXCEPT ![t] = now + WaitTicks]
    /\ at' = [at EXCEPT ![t] = "clock"]
    /\ subscribed' = TRUE
    /\ UNCHANGED <<now, tableVars, running, pending, alarms, begun, stopper>>

\* xTaskDelayUntil: the mark moves by one period, and where that is in the past
\* the task goes on at once.
SleepByTick(t, ticks) ==
    LET wake == Mark(t, ticks) + Period(t, ticks) IN
    /\ at[t] = "working" /\ Found(t) /\ ~ByClock(t, ticks)
    /\ period_ticks' = [period_ticks EXCEPT ![t] = Period(t, ticks)]
    /\ last_wake' = [last_wake EXCEPT ![t] = wake]
    /\ until' = [until EXCEPT ![t] = wake]
    /\ at' = [at EXCEPT ![t] = IF wake > now THEN "tick" ELSE "working"]
    /\ UNCHANGED <<now, tableVars, clockVars, stopper>>

Sleep(t) == \E ticks \in 0 .. Nominal :
    SleepUnknown(t, ticks) \/ SleepByClock(t, ticks) \/ SleepByTick(t, ticks)

\* The end of a sleep by ticks.
WakesByTick(t) ==
    /\ at[t] \in {"delay", "tick"} /\ now >= until[t]
    /\ at' = [at EXCEPT ![t] = "working"]
    /\ UNCHANGED <<now, tableVars, period_ticks, last_wake, until, clockVars, stopper>>

\* ulTaskNotifyTake(pdTRUE, ..): every alarm that waits is taken at once.
WakesByClock(t) ==
    /\ at[t] = "clock" /\ pending > 0
    /\ pending' = 0 /\ begun' = begun + 1
    /\ last_wake' = [last_wake EXCEPT ![t] = now]
    /\ at' = [at EXCEPT ![t] = "working"]
    /\ UNCHANGED <<now, tableVars, period_ticks, until, running, subscribed, alarms, stopper>>

WaitTimesOut(t) ==
    /\ at[t] = "clock" /\ pending = 0 /\ now >= until[t]
    /\ last_wake' = [last_wake EXCEPT ![t] = now]
    /\ at' = [at EXCEPT ![t] = "working"]
    /\ UNCHANGED <<now, tableVars, period_ticks, until, clockVars, stopper>>

-----------------------------------------------------------------------------
(* The clock: fc_rt_clock_start from the sensor's task, once; on_alarm.    *)

ClockStarts ==
    /\ ~running /\ running' = TRUE
    /\ UNCHANGED <<now, tableVars, paceVars, subscribed, pending, alarms, begun, stopper>>

Alarm ==
    /\ running
    /\ IF subscribed THEN pending' = pending + 1 /\ alarms' = alarms + 1
                     ELSE UNCHANGED <<pending, alarms>>
    /\ UNCHANGED <<now, tableVars, paceVars, running, subscribed, begun, stopper>>

ClockTick ==
    /\ now' = now + 1
    /\ UNCHANGED <<tableVars, paceVars, clockVars, stopper>>

-----------------------------------------------------------------------------
ThreadsNext ==
    \/ Spawn \/ SpawnCounts \/ StopReturns \/ ClockStarts \/ Alarm \/ ClockTick
    \/ \E t \in Threads :
         \/ Ends(t) \/ RequestTerminate(t) \/ Sleep(t)
         \/ WakesByTick(t) \/ WakesByClock(t) \/ WaitTimesOut(t)

ThreadsSpec == ThreadsInit /\ [][ThreadsNext]_threadsVars

-----------------------------------------------------------------------------
(* Properties.                                                             *)

\* A thread that works is never ahead of its mark: whichever way it slept, and
\* whichever request changed its period, it has slept to the end
\* (fc_vesc_if.c:152-224).
NeverAhead == \A t \in Threads : at[t] = "working" => last_wake[t] <= now

\* The period is found from requests that Refloat has shortened by its own time,
\* so it must not pass the longest of them, and once found it must not shrink:
\* no iteration can be late because the period of an earlier one was latched
\* (fc_vesc_if.c:165-198).
PeriodOfRequests == \A t \in Threads : period_ticks[t] \in 0 .. Nominal \cup {1}
PeriodOnlyGrows == [][\A t \in Threads : t <= thread_count => period_ticks'[t] >= period_ticks[t]]_threadsVars

\* Alarms missed during a long iteration are not made up for: there are never
\* more iterations than alarms, and an alarm that has been taken together with
\* others begins none (fc_rt_clock.h:46-52).
NoneCaughtUp == begun + pending <= alarms

\* A thread that has not been told to end is in the table for good, and the slot
\* of one that works is not given to another (fc_vesc_if.c:358-412).
SlotIsHeld == \A t \in Threads :
    /\ at[t] \notin {"absent", "ended"} =>
         /\ handle[t]
         /\ t <= thread_count \/ (spawning /\ t = thread_count + 1)
    /\ finished[t] => terminate[t]
=============================================================================
