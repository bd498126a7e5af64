---------------------------- MODULE CommandStream ----------------------------
(***************************************************************************)
(* The watch over the stream of motor commands (fc_command_watchdog.c):    *)
(* the policy, its check, and the observer that says whether commands are  *)
(* sent in time; and, outside the program, the bus and the ESC, whose own  *)
(* thread takes the thrust away when commands stop.                        *)
(*                                                                         *)
(* The chain has an order: FloatCore finds the loss first, the ESC only    *)
(* after it.  The observer sees what is sent, not what arrives.  No        *)
(* production code calls this module yet; the moments of sending and of    *)
(* polling are left open.  Left out: the counters of transitions.          *)
(***************************************************************************)
EXTENDS Integers

CONSTANTS
    Period, Misses, EscTimeout, SupTimeout, EscTick,  \* FcCommandWatchdogPolicy
    DefaultTick,    \* FC_ESC_TIMEOUT_TICK_US
    LongestHold,    \* 200 ms
    Wrap            \* 2^32: the fields and their sums are of 32 bits

VARIABLES
    clock,
    last_command, armed, stream, max_gap,    \* FcCommandStream
    older, lastIs,      \* commands under way but for the last; the last: "none", "sent",
                        \* "heard", "lost"
    escLast, escHolds, woke  \* the ESC: its last timeout_reset, whether it drives, its thread

streamVars == <<last_command, armed, stream, max_gap>>
busVars == <<older, lastIs>>
escVars == <<escLast, escHolds, woke>>
commandVars == <<clock, streamVars, busVars, escVars>>

-----------------------------------------------------------------------------
(* The policy.                                                             *)

Tick == IF EscTick = 0 THEN DefaultTick ELSE EscTick

\* Misses + 1 turns over before it is widened.
Tolerated == Period * ((Misses + 1) % Wrap)

PolicyValid ==
    /\ Period # 0
    /\ EscTimeout # 0
    /\ EscTimeout >= (2 * Tick) % Wrap
    /\ SupTimeout < EscTimeout
    /\ Tolerated <= SupTimeout
    /\ EscTimeout <= LongestHold

WorstCase == (EscTimeout + Tick) % Wrap

-----------------------------------------------------------------------------
(* The observer.                                                           *)

CommandInit ==
    /\ clock = 0
    /\ last_command = 0 /\ armed = FALSE /\ stream = "IDLE" /\ max_gap = 0
    /\ older = 0 /\ lastIs = "none"
    /\ escLast = 0 /\ escHolds = FALSE /\ woke = 0

Polled ==
    IF ~armed THEN "IDLE"
    ELSE IF clock - last_command >= SupTimeout THEN "LOST"
    ELSE IF clock - last_command > Tolerated THEN "LATE" ELSE "OK"

Sent ==
    LET gap == (clock - last_command) % Wrap IN
    /\ max_gap' = IF armed /\ gap > max_gap THEN gap ELSE max_gap
    /\ last_command' = clock /\ armed' = TRUE
    /\ older' = IF lastIs = "sent" THEN older + 1 ELSE older
    /\ lastIs' = "sent"
    /\ UNCHANGED <<clock, stream, escVars>>

Polls ==
    /\ stream' = Polled
    /\ UNCHANGED <<clock, last_command, armed, max_gap, busVars, escVars>>

-----------------------------------------------------------------------------
(* The bus, in order, and the ESC: every command that arrives restarts its *)
(* time-out, which its thread looks at once in a tick.                     *)

EscHears ==
    /\ escLast' = clock /\ escHolds' = TRUE
    /\ UNCHANGED <<clock, streamVars, woke>>

OlderArrives == older > 0 /\ older' = older - 1 /\ UNCHANGED lastIs /\ EscHears
LastArrives == older = 0 /\ lastIs = "sent" /\ lastIs' = "heard" /\ UNCHANGED older /\ EscHears

OlderLost == older > 0 /\ older' = older - 1 /\ UNCHANGED <<clock, streamVars, lastIs, escVars>>
LastLost == lastIs = "sent" /\ lastIs' = "lost" /\ UNCHANGED <<clock, streamVars, older, escVars>>

EscWakes ==
    /\ clock = woke + Tick
    /\ woke' = clock
    /\ escHolds' = (escHolds /\ ~(EscTimeout # 0 /\ clock - escLast > EscTimeout))
    /\ UNCHANGED <<clock, streamVars, busVars, escLast>>

ClockTicks ==
    /\ clock < woke + Tick
    /\ clock' = clock + 1
    /\ UNCHANGED <<streamVars, busVars, escVars>>

CommandNext ==
    \/ Sent \/ Polls
    \/ OlderArrives \/ LastArrives \/ OlderLost \/ LastLost
    \/ EscWakes \/ ClockTicks

CommandSpec == CommandInit /\ [][CommandNext]_commandVars

-----------------------------------------------------------------------------
(* Properties.                                                             *)

\* When the ESC takes the thrust away by itself, a poll of FloatCore says LOST
\* already - unless the last command was sent and has not been heard, which the
\* observer cannot know (fc_command_watchdog.c:35-42, 91-119).
LostComesFirst == [][
    escHolds /\ ~escHolds' => Polled = "LOST" \/ lastIs \in {"sent", "lost"}]_commandVars

\* With FloatCore silent, the ESC drives for no longer than worst_case_us says
\* (fc_command_watchdog.c:64-70).
HoldIsBounded == escHolds => clock - escLast <= WorstCase

\* The stream is found LOST only when all the misses that the policy tolerates have
\* been used up (fc_command_watchdog.c:44-51).
ToleratedFirst == [][
    stream' = "LOST" /\ stream # "LOST" => clock - last_command >= Period * (Misses + 1)]_commandVars
=============================================================================
