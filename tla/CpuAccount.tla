----------------------------- MODULE CpuAccount -----------------------------
(***************************************************************************)
(* The processor time of the tasks of one core (fc_cpu_account.c and the   *)
(* windows of fc_timing.c).  A task opens a window when it has work and    *)
(* closes it when it has done; what other windows have added to the core's *)
(* account in the meantime is taken off, and only the rest is added.       *)
(*                                                                         *)
(* Nothing is locked: a task of a higher priority may come in between the  *)
(* look at the clock and the look at the account, or between the two       *)
(* halves of the addition, whose result is then lost.  And a task may wait *)
(* inside its window, for the bus of the sensor or a port, and one of a    *)
(* lower priority run.  `spoilt' remembers either until no window is open. *)
(*                                                                         *)
(* A window is named by the priority of its task.  Left out: the maxima    *)
(* and sums of each channel, and walls past 2^32 us.                       *)
(***************************************************************************)
EXTENDS Integers

CONSTANT Levels     \* priorities are 1 .. Levels

Prios == 1 .. Levels

VARIABLES
    time,
    busy,                   \* FcCpuAccount
    step,                   \* each window: "none", "begun" (it has the time), "open" (and the
                            \* account), "ended" (the clock is read), "taken" (the sum is made)
    begin, before, ended,   \* FcCpuWindow; the time of its end
    net, sum,               \* FcCpuSample; the new account, not yet written
    asleep,                 \* waiting inside its window
    own,                    \* history: the time in its window and in no other
    due,                    \* history: the own time of the window that is closing
    spoilt                  \* history: see above

windowVars == <<step, begin, before, ended, net, sum, asleep>>
cpuVars == <<time, busy, windowVars, own, due, spoilt>>

Live(p) == step[p] \in {"begun", "open"}
Closing(p) == step[p] \in {"ended", "taken"}

\* The task that runs, and the window its time is in.
Runs(p) == step[p] # "none" /\ ~asleep[p] /\ \A q \in Prios : q > p => step[q] = "none" \/ asleep[q]
Owner(p) == Live(p) /\ ~asleep[p] /\ \A q \in Prios : q > p => ~Live(q) \/ asleep[q]

CpuInit ==
    /\ time = 0 /\ busy = 0
    /\ step = [p \in Prios |-> "none"]
    /\ begin = [p \in Prios |-> 0] /\ before = [p \in Prios |-> 0] /\ ended = [p \in Prios |-> 0]
    /\ net = [p \in Prios |-> 0] /\ sum = [p \in Prios |-> 0]
    /\ asleep = [p \in Prios |-> FALSE]
    /\ own = [p \in Prios |-> 0] /\ due = 0 /\ spoilt = FALSE

ClockRuns ==
    /\ time' = time + 1
    /\ own' = [p \in Prios |-> IF Owner(p) THEN own[p] + 1 ELSE own[p]]
    /\ UNCHANGED <<busy, windowVars, due, spoilt>>

-----------------------------------------------------------------------------
(* fc_timing_exec_begin, fc_cpu_window_begin.                              *)

WindowBegins(p) ==
    /\ step[p] = "none"
    /\ \A q \in Prios : q > p => step[q] = "none" \/ asleep[q]
    /\ step' = [step EXCEPT ![p] = "begun"]
    /\ begin' = [begin EXCEPT ![p] = time]
    /\ own' = [own EXCEPT ![p] = 0]
    /\ IF \A q \in Prios : step[q] = "none"
       THEN due' = 0 /\ spoilt' = FALSE
       ELSE due' = due /\ spoilt' = (spoilt \/ \E q \in Prios : step[q] \notin {"none", "open"})
    /\ UNCHANGED <<time, busy, before, ended, net, sum, asleep>>

WindowOpens(p) ==
    /\ Runs(p) /\ step[p] = "begun"
    /\ step' = [step EXCEPT ![p] = "open"]
    /\ before' = [before EXCEPT ![p] = busy]
    /\ UNCHANGED <<time, busy, begin, ended, net, sum, asleep, own, due, spoilt>>

-----------------------------------------------------------------------------
(* fc_timing_exec_end, fc_cpu_window_end.                                  *)

WindowEnds(p) ==
    /\ Runs(p) /\ step[p] = "open"
    /\ step' = [step EXCEPT ![p] = "ended"]
    /\ ended' = [ended EXCEPT ![p] = time]
    /\ due' = own[p]
    /\ UNCHANGED <<time, busy, begin, before, net, sum, asleep, own, spoilt>>

Wall(p) == ended[p] - begin[p]
\* A difference of 64 bits; cut off at the wall.
Preempted(p) == IF busy - before[p] \in 0 .. Wall(p) THEN busy - before[p] ELSE Wall(p)

WindowTaken(p) ==
    /\ Runs(p) /\ step[p] = "ended"
    /\ step' = [step EXCEPT ![p] = "taken"]
    /\ net' = [net EXCEPT ![p] = Wall(p) - Preempted(p)]
    /\ sum' = [sum EXCEPT ![p] = busy + Wall(p) - Preempted(p)]
    /\ UNCHANGED <<time, busy, begin, before, ended, asleep, own, due, spoilt>>

WindowAdded(p) ==
    /\ Runs(p) /\ step[p] = "taken"
    /\ step' = [step EXCEPT ![p] = "none"]
    /\ busy' = sum[p]
    /\ due' = 0
    /\ UNCHANGED <<time, begin, before, ended, net, sum, asleep, own, spoilt>>

-----------------------------------------------------------------------------
Waits(p) ==
    /\ Runs(p) /\ step[p] = "open"
    /\ asleep' = [asleep EXCEPT ![p] = TRUE]
    /\ spoilt' = TRUE
    /\ UNCHANGED <<time, busy, step, begin, before, ended, net, sum, own, due>>

Wakes(p) ==
    /\ asleep[p]
    /\ asleep' = [asleep EXCEPT ![p] = FALSE]
    /\ UNCHANGED <<time, busy, step, begin, before, ended, net, sum, own, due, spoilt>>

CpuNext ==
    \/ ClockRuns
    \/ \E p \in Prios :
         \/ WindowBegins(p) \/ WindowOpens(p)
         \/ WindowEnds(p) \/ WindowTaken(p) \/ WindowAdded(p)
         \/ Waits(p) \/ Wakes(p)

CpuSpec == CpuInit /\ [][CpuNext]_cpuVars

-----------------------------------------------------------------------------
(* Properties.                                                             *)

\* Nothing is counted twice: however deep tasks have preempted one another, a window's
\* own time is what the clock ran in it and in no other - unless one came in between
\* two looks, or a task waited in its window (fc_cpu_account.h:3-12).
NetIsOwn == ~spoilt => \A p \in Prios : step[p] = "taken" => net[p] = own[p]

\* And just that is added to the account (fc_cpu_account.c:18-22).
AccountGrowsByOwn == [][
    ~spoilt /\ busy' # busy => \E p \in Prios : step[p] = "taken" /\ busy' = busy + own[p]]_cpuVars

\* A window never claims more than its wall, whatever came in between
\* (fc_cpu_account.c:19-21).
NetWithinWall == \A p \in Prios : step[p] = "taken" => 0 <= net[p] /\ net[p] <= Wall(p)
=============================================================================
