----------------------------- MODULE BurstJournal -----------------------------
(***************************************************************************)
(* The journal of a burst (fc_cl_burst.c): each request of Refloat leaves  *)
(* a record, from the press of the sensors (a ring, before the start) to   *)
(* the end of the tail after the deadline (a linear buffer).  Refloat's    *)
(* task on core 1 writes, the console on core 0 switches and reads; there  *)
(* is no lock, only the two flags.                                         *)
(*                                                                         *)
(* A record is the time of its request, the one field by which the two     *)
(* parts differ, and whether all of it has been written.  Left out: what   *)
(* else it holds, the dry planning, the request's own way through the gate *)
(* (MotorPath).  The console prepares a journal only when the last one has *)
(* been stopped; between the two lies a command of the operator, and a     *)
(* record under way is finished by then.                                   *)
(***************************************************************************)
EXTENDS Integers

CONSTANTS PreSlots, MainSlots,  \* FC_CL_LOG_PRE, FC_CL_LOG_MAX
          Windows               \* deadline plus tail, counted from the start

VARIABLES
    preOn, mainOn,          \* L.pre_on, L.main_on
    start, end,             \* L.start_us, L.end_us
    pre, preHead, preTotal, \* the ring
    main, mainN, dropped,   \* the buffer
    now,
    request,                \* the request under way: its time, or NoRequest
    slot,                   \* the record it is filling, "pre", "main" or "none"
    console,                \* "off", "armed", "clocked", "started"
    opened                  \* history: when fc_cl_log_start was called

flagVars == <<preOn, mainOn, start, end>>
preVars == <<pre, preHead, preTotal>>
mainVars == <<main, mainN, dropped>>
vars == <<flagVars, preVars, mainVars, now, request, slot, console, opened>>

NoRequest == -1
Blank == [t |-> 0, whole |-> FALSE]
Record(t, w) == [t |-> t, whole |-> w]
Following(i) == IF i + 1 = PreSlots THEN 0 ELSE i + 1
Preceding(i) == IF i = 0 THEN PreSlots - 1 ELSE i - 1

JournalInit ==
    /\ preOn = FALSE /\ mainOn = FALSE
    /\ start = 0 /\ end = 0
    /\ pre = [i \in 0 .. PreSlots - 1 |-> Blank] /\ preHead = 0 /\ preTotal = 0
    /\ main = [i \in 0 .. MainSlots - 1 |-> Blank] /\ mainN = 0 /\ dropped = 0
    /\ now = 0
    /\ request = NoRequest /\ slot = "none"
    /\ console = "off" /\ opened = 0

-----------------------------------------------------------------------------
(* The console.                                                            *)

LogArm ==
    /\ console = "off" /\ request = NoRequest
    /\ console' = "armed"
    /\ preOn' = TRUE /\ mainOn' = FALSE
    /\ start' = 0 /\ end' = 0
    /\ preHead' = 0 /\ preTotal' = 0 /\ mainN' = 0 /\ dropped' = 0
    /\ UNCHANGED <<pre, main, now, request, slot, opened>>

\* cl-burst reads the clock first and opens the journal a few calls later.
StartRead ==
    /\ console = "armed" /\ console' = "clocked"
    /\ opened' = now
    /\ UNCHANGED <<flagVars, preVars, mainVars, now, request, slot>>

LogStart(w) ==
    /\ console = "clocked" /\ console' = "started"
    /\ start' = opened /\ end' = opened + w
    /\ mainOn' = TRUE
    /\ opened' = now
    /\ UNCHANGED <<preOn, preVars, mainVars, now, request, slot>>

\* After the burst, or by cl_abort from anywhere.
LogStop ==
    /\ console # "off" /\ console' = "off"
    /\ preOn' = FALSE /\ mainOn' = FALSE
    /\ UNCHANGED <<start, end, preVars, mainVars, now, request, slot, opened>>

-----------------------------------------------------------------------------
(* fc_cl_request_current.                                                  *)

RequestBegins ==
    /\ request = NoRequest /\ (preOn \/ mainOn)
    /\ request' = now /\ slot' = "none"
    /\ UNCHANGED <<flagVars, preVars, mainVars, now, console, opened>>

InMain == mainOn /\ request >= start

\* The slot is taken: in the buffer from the start on, otherwise in the ring.
TakeMain ==
    /\ request # NoRequest /\ slot = "none" /\ InMain /\ request <= end
    /\ mainN < MainSlots
    /\ main' = [main EXCEPT ![mainN] = Record(request, FALSE)]
    /\ mainN' = mainN + 1 /\ slot' = "main"
    /\ UNCHANGED <<flagVars, preVars, dropped, now, request, console, opened>>

TakePre ==
    /\ request # NoRequest /\ slot = "none" /\ ~InMain /\ preOn
    /\ pre' = [pre EXCEPT ![preHead] = Record(request, FALSE)]
    /\ preHead' = Following(preHead) /\ preTotal' = preTotal + 1 /\ slot' = "pre"
    /\ UNCHANGED <<flagVars, mainVars, now, request, console, opened>>

\* No record: past the tail, no room, or switched off meanwhile.
TakeNone ==
    /\ request # NoRequest /\ slot = "none"
    /\ \/ InMain /\ request > end /\ mainOn' = FALSE /\ UNCHANGED dropped
       \/ InMain /\ request <= end /\ mainN >= MainSlots
          /\ dropped' = dropped + 1 /\ UNCHANGED mainOn
       \/ ~InMain /\ ~preOn /\ UNCHANGED <<mainOn, dropped>>
    /\ request' = NoRequest
    /\ UNCHANGED <<preOn, start, end, preVars, main, mainN, now, slot, console, opened>>

\* The fields are filled in.
RecordFilled ==
    /\ request # NoRequest /\ slot # "none"
    /\ IF slot = "main"
       THEN main' = [main EXCEPT ![mainN - 1] = Record(request, TRUE)] /\ UNCHANGED pre
       ELSE pre' = [pre EXCEPT ![Preceding(preHead)] = Record(request, TRUE)] /\ UNCHANGED main
    /\ request' = NoRequest /\ slot' = "none"
    /\ UNCHANGED <<flagVars, preHead, preTotal, mainN, dropped, now, console, opened>>

TimePasses ==
    /\ now' = now + 1
    /\ UNCHANGED <<flagVars, preVars, mainVars, request, slot, console, opened>>

JournalNext ==
    \/ LogArm \/ StartRead \/ (\E w \in Windows : LogStart(w)) \/ LogStop
    \/ RequestBegins \/ TakeMain \/ TakePre \/ TakeNone \/ RecordFilled \/ TimePasses

JournalSpec == JournalInit /\ [][JournalNext]_vars

-----------------------------------------------------------------------------
(* Properties.                                                             *)

Recorded == 0 .. mainN - 1

\* The buffer holds requests of the burst and its tail, in the order in which
\* they were made, and no other; all but the one under way are complete.
MainIsTheWindow ==
    /\ \A i \in Recorded : main[i].t >= start /\ main[i].t <= end
    /\ \A i \in Recorded : i > 0 => main[i - 1].t <= main[i].t
    /\ \A i \in Recorded : main[i].whole \/ (slot = "main" /\ i = mainN - 1)

\* The ring is meant for the requests before the start.  While the burst and its
\* tail run it gets none of theirs; but a request made after the tail goes there:
\* the writer has closed the buffer by then, and the ring stays open until the
\* console stops the journal (fc_cl_burst.c:74-88).
RingOutsideTheWindow ==
    [][preTotal' # preTotal /\ console = "started" => request < start \/ request > end]_vars
=============================================================================
