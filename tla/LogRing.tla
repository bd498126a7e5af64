------------------------------- MODULE LogRing -------------------------------
(***************************************************************************)
(* The log (fc_log.c, fc_log_port.c).  Any task may emit a line: it never  *)
(* waits.  A ring under a mutex takes the line, or the line is dropped -   *)
(* the newest one when the ring is full, and this one when the mutex is    *)
(* busy.  One task of core 0 takes the lines out and prints them.          *)
(*                                                                         *)
(* A line is its number, given under the mutex.  What it says, its stamp   *)
(* and the counters of the longest line are left out.  The counter of the  *)
(* dropped lines is the point: a busy mutex is counted outside of it, so   *)
(* that two increments may meet.                                           *)
(***************************************************************************)
EXTENDS Integers

CONSTANTS Tasks, Slots  \* those who emit; FC_LOG_SLOTS

VARIABLES
    slot, head, tail, count, seq,   \* FcLog: the ring
    dropped,                        \* FcLog.dropped
    ready,                          \* the ring and its mutex exist
    mutex,                          \* who holds it: a task, "drain" or "nobody"
    doing, held,                    \* each task in its emit, and the count it has read
    drain,                          \* the printing task: "asleep", "taking", "printing"
    popped,                         \* history: the last line taken out
    lost                            \* history: lines dropped since the start

ringVars == <<slot, head, tail, count, seq>>
vars == <<ringVars, dropped, ready, mutex, doing, held, drain, popped, lost>>

Next(i) == IF i + 1 = Slots THEN 0 ELSE i + 1
\* The slot of the k-th line that waits.
Place(k) == IF tail + k < Slots THEN tail + k ELSE tail + k - Slots

LogInit ==
    /\ slot = [i \in 0 .. Slots - 1 |-> 0]
    /\ head = 0 /\ tail = 0 /\ count = 0 /\ seq = 0
    /\ dropped = 0
    /\ ready = FALSE /\ mutex = "nobody"
    /\ doing = [p \in Tasks |-> "out"] /\ held = [p \in Tasks |-> 0]
    /\ drain = "asleep"
    /\ popped = 0 /\ lost = 0

\* Before this, a line is printed by the task that emits it.
PortInit ==
    /\ ~ready /\ ready' = TRUE
    /\ UNCHANGED <<ringVars, dropped, mutex, doing, held, drain, popped, lost>>

-----------------------------------------------------------------------------
(* fc_log_port_emit.                                                       *)

\* xSemaphoreTake(.., 0) and the look at the ring.
EmitLocks(p) ==
    /\ ready /\ doing[p] = "out" /\ mutex = "nobody"
    /\ mutex' = p
    /\ doing' = [doing EXCEPT ![p] = IF count >= Slots THEN "full" ELSE "room"]
    /\ UNCHANGED <<ringVars, dropped, ready, held, drain, popped, lost>>

Push(p) ==
    /\ doing[p] = "room"
    /\ seq' = seq + 1
    /\ slot' = [slot EXCEPT ![head] = seq']
    /\ head' = Next(head)
    /\ count' = count + 1
    /\ mutex' = "nobody" /\ doing' = [doing EXCEPT ![p] = "out"]
    /\ UNCHANGED <<tail, dropped, ready, held, drain, popped, lost>>

\* ++dropped is a read and a write; a full ring makes it under the mutex, a
\* busy mutex without.
CountsDrop(p) ==
    /\ \/ doing[p] = "full"
       \/ ready /\ doing[p] = "out" /\ mutex # "nobody"
    /\ held' = [held EXCEPT ![p] = dropped]
    /\ lost' = lost + 1
    /\ doing' = [doing EXCEPT ![p] = IF doing[p] = "full" THEN "fullRead" ELSE "busyRead"]
    /\ UNCHANGED <<ringVars, dropped, ready, mutex, drain, popped>>

CountedDrop(p) ==
    /\ doing[p] \in {"fullRead", "busyRead"}
    /\ dropped' = held[p] + 1
    /\ doing' = [doing EXCEPT ![p] = "out"]
    /\ mutex' = IF doing[p] = "fullRead" THEN "nobody" ELSE mutex
    /\ UNCHANGED <<ringVars, ready, held, drain, popped, lost>>

-----------------------------------------------------------------------------
(* drain_task: line by line, and to sleep when there is none left.         *)

DrainLocks ==
    /\ ready /\ drain \in {"asleep", "printing"} /\ mutex = "nobody"
    /\ drain' = "taking" /\ mutex' = "drain"
    /\ UNCHANGED <<ringVars, dropped, ready, doing, held, popped, lost>>

Pop ==
    /\ drain = "taking"
    /\ IF count = 0
       THEN drain' = "asleep" /\ UNCHANGED <<tail, count, popped>>
       ELSE /\ drain' = "printing"
            /\ popped' = slot[tail]
            /\ tail' = Next(tail) /\ count' = count - 1
    /\ mutex' = "nobody"
    /\ UNCHANGED <<slot, head, seq, dropped, ready, doing, held, lost>>

\* The console's reset: one store, with no mutex.
ResetStats ==
    /\ dropped' = 0
    /\ UNCHANGED <<ringVars, ready, mutex, doing, held, drain, popped, lost>>

LogNext ==
    \/ PortInit \/ DrainLocks \/ Pop \/ ResetStats
    \/ \E p \in Tasks : EmitLocks(p) \/ Push(p) \/ CountsDrop(p) \/ CountedDrop(p)

LogSpec == LogInit /\ [][LogNext]_vars

-----------------------------------------------------------------------------
(* Properties.                                                             *)

\* The lines that wait are the ones after the last that was taken out, in the
\* order in which they were pushed and without a gap: what is printed is the
\* numbers 1, 2, 3, ... however the ring wraps round (fc_log.c:12-56).
LinesInOrder ==
    /\ seq = popped + count
    /\ \A k \in 0 .. Slots - 1 : k < count => slot[Place(k)] = popped + 1 + k

\* One in the ring at a time, the printing task included.
OneInTheRing ==
    /\ \A p \in Tasks : doing[p] \in {"room", "full", "fullRead"} => mutex = p
    /\ drain = "taking" => mutex = "drain"

\* The counter of dropped lines is never more than what was lost; it may be less,
\* where two increments meet (fc_log_port.c:89-93).
NeverOverstated == dropped <= lost
=============================================================================
