------------------------------ MODULE GapTrace ------------------------------
(***************************************************************************)
(* The trace of long gaps between samples (fc_gap_trace.c, fc_gap_port.c). *)
(* The sensor's task on core 1 captures a snapshot of the moment, the      *)
(* first events only; the supervisor's task adds later what is dear to     *)
(* measure; the console prints, changes the threshold and resets.          *)
(*                                                                         *)
(* There is no lock.  A reset that falls into a capture or into a fill     *)
(* leaves an empty event in the trace, or measurements in an event that    *)
(* came after them: `crossed' remembers it until the next quiet reset.     *)
(* The compiler may use a number again that it has read, or read it anew.  *)
(*                                                                         *)
(* A snapshot is the time it was taken; the numbers copied into it and the *)
(* longest gap are left out.                                               *)
(***************************************************************************)
EXTENDS Integers

CONSTANTS
    GapSlots,           \* FC_GAP_TRACE_SLOTS
    DefaultThreshold,   \* FC_GAP_TRACE_DEFAULT_THRESHOLD_US
    Unacceptable,       \* FC_GAP_TRACE_UNACCEPTABLE_US
    Gaps, Thresholds    \* what is measured; what the console may ask for

VARIABLES
    clock,
    events, stored, threshold,          \* T: the slots, and how many are taken
    total, over20, overflown,           \* T.st: events_total, events_over_20ms, dropped
    capture, gap, counted, room,        \* the sensor's task: its step, the gap; total and stored
                                        \* as it has read them
    fill, chosen, measuredAt,           \* the supervisor's task: its step, the index, the time
    reset, kept,                        \* the console's reset: its step; the threshold it keeps
    crossed                             \* history: a reset fell into a capture or a fill

slotVars == <<events, stored>>
statVars == <<total, over20, overflown>>
captureVars == <<capture, gap, counted, room>>
fillVars == <<fill, chosen, measuredAt>>
resetVars == <<reset, kept, crossed>>
gapVars == <<clock, slotVars, threshold, statVars, captureVars, fillVars, resetVars>>

Empty == [seq |-> 0, taken |-> 0, filled |-> FALSE, measured |-> 0]
Indices == 0 .. GapSlots - 1

\* fc_gap_trace_init, before there are tasks.
GapInit ==
    /\ clock = 1
    /\ events = [i \in Indices |-> Empty] /\ stored = 0 /\ threshold = DefaultThreshold
    /\ total = 0 /\ over20 = 0 /\ overflown = 0
    /\ capture = "out" /\ gap = 0 /\ counted = 0 /\ room = 0
    /\ fill = "out" /\ chosen = 0 /\ measuredAt = 0
    /\ reset = "out" /\ kept = 0 /\ crossed = FALSE

ClockTicks ==
    /\ clock' = clock + 1
    /\ UNCHANGED <<slotVars, threshold, statVars, captureVars, fillVars, resetVars>>

-----------------------------------------------------------------------------
(* fc_gap_port_capture, fc_gap_trace_capture.                              *)

Detects(g) ==
    /\ capture = "out" /\ g >= threshold
    /\ capture' = "event" /\ gap' = g /\ counted' = total
    /\ UNCHANGED <<clock, slotVars, threshold, statVars, room, fillVars, resetVars>>

Counts ==
    /\ capture = "event"
    /\ \E n \in {counted, total} : total' = n + 1
    /\ over20' = IF gap >= Unacceptable THEN over20 + 1 ELSE over20
    /\ room' = stored
    /\ IF stored >= GapSlots
       THEN capture' = "out" /\ overflown' = overflown + 1
       ELSE capture' = "room" /\ overflown' = overflown
    /\ UNCHANGED <<clock, slotVars, threshold, gap, counted, fillVars, resetVars>>

Writes ==
    /\ capture = "room"
    /\ \E i \in {room, stored} :
         events' = [events EXCEPT ![i] = [seq |-> total, taken |-> clock,
                                          filled |-> FALSE, measured |-> 0]]
    /\ capture' = "written"
    /\ UNCHANGED <<clock, stored, threshold, statVars, gap, counted, room, fillVars, resetVars>>

Raises ==
    /\ capture = "written"
    /\ \E i \in {room, stored} : stored' = i + 1
    /\ capture' = "out"
    /\ UNCHANGED <<clock, events, threshold, statVars, gap, counted, room, fillVars, resetVars>>

-----------------------------------------------------------------------------
(* fc_gap_port_fill_deferred: the first that is not filled; measured; and  *)
(* if it is still there, filled and then said to be.                       *)

Unfilled(i) == i < stored /\ ~events[i].filled

Picks ==
    /\ fill = "out"
    /\ \E i \in Indices :
         /\ Unfilled(i) /\ \A j \in Indices : Unfilled(j) => i <= j
         /\ chosen' = i
    /\ fill' = "picked"
    /\ UNCHANGED <<clock, slotVars, threshold, statVars, captureVars, measuredAt, resetVars>>

Measures ==
    /\ fill = "picked"
    /\ measuredAt' = clock
    /\ fill' = "measured"
    /\ UNCHANGED <<clock, slotVars, threshold, statVars, captureVars, chosen, resetVars>>

Fills ==
    /\ fill = "measured"
    /\ IF chosen < stored
       THEN fill' = "filled" /\ events' = [events EXCEPT ![chosen].measured = measuredAt]
       ELSE fill' = "out" /\ events' = events
    /\ UNCHANGED <<clock, stored, threshold, statVars, captureVars, chosen, measuredAt, resetVars>>

Marks ==
    /\ fill = "filled"
    /\ events' = [events EXCEPT ![chosen].filled = TRUE]
    /\ fill' = "out"
    /\ UNCHANGED <<clock, stored, threshold, statVars, captureVars, chosen, measuredAt, resetVars>>

-----------------------------------------------------------------------------
(* The console: imu-gaps with a threshold; imu-gaps-reset, which wipes the *)
(* slots, then the counters and the threshold, and puts the threshold back.*)

SetsThreshold ==
    /\ reset = "out"
    /\ threshold' \in Thresholds
    /\ UNCHANGED <<clock, slotVars, statVars, captureVars, fillVars, resetVars>>

Midway == capture # "out" \/ fill # "out"

WipesSlots ==
    /\ reset = "out" /\ reset' = "slots"
    /\ kept' = threshold
    /\ events' = [i \in Indices |-> Empty]
    /\ crossed' = Midway
    /\ UNCHANGED <<clock, stored, threshold, statVars, captureVars, fillVars>>

WipesCounters ==
    /\ reset = "slots" /\ reset' = "wiped"
    /\ stored' = 0 /\ threshold' = 0
    /\ total' = 0 /\ over20' = 0 /\ overflown' = 0
    /\ crossed' = (crossed \/ Midway)
    /\ UNCHANGED <<clock, events, captureVars, fillVars, kept>>

\* Until then every sample is an event.
RestoresThreshold ==
    /\ reset = "wiped" /\ reset' = "out"
    /\ threshold' = kept
    /\ UNCHANGED <<clock, slotVars, statVars, captureVars, fillVars, kept, crossed>>

-----------------------------------------------------------------------------
GapNext ==
    \/ ClockTicks
    \/ \E g \in Gaps : Detects(g)
    \/ Counts \/ Writes \/ Raises
    \/ Picks \/ Measures \/ Fills \/ Marks
    \/ SetsThreshold \/ WipesSlots \/ WipesCounters \/ RestoresThreshold

GapSpec == GapInit /\ [][GapNext]_gapVars

-----------------------------------------------------------------------------
(* Properties.                                                             *)

\* No reset, wherever it falls, makes a capture write or count past the last slot
\* (fc_gap_trace.c:30-55, 69-73).
CaptureStaysInside == stored \in 0 .. GapSlots /\ (capture = "room" => room < GapSlots)

\* With no reset across it, the trace holds the first events since the last reset,
\* in their order, and every other event is counted as dropped
\* (fc_gap_trace.c:43-54).
FirstEventsKept ==
    ~crossed /\ reset # "slots" =>
        /\ \A i \in Indices : i < stored => events[i].seq = i + 1
        /\ capture \in {"out", "event"} => total = stored + overflown

\* With no reset across it, what an event says was measured after it
\* (fc_gap_trace.h:19-22, fc_gap_port.c:164-169).
FilledAfterwards ==
    ~crossed => \A i \in Indices : events[i].filled => events[i].measured >= events[i].taken
=============================================================================
