---------------------------- MODULE BurstPermit -----------------------------
(***************************************************************************)
(* What the supervisor promises the rest of the system, without its        *)
(* inputs, its causes and its time-outs: output is permitted in bursts,    *)
(* each granted anew after the machine was prepared for it, each no longer *)
(* than BurstMax, none extended, and all of them over in the end.  A fault *)
(* may strike at any moment and is followed by rest, never by output.      *)
(***************************************************************************)
EXTENDS Integers

CONSTANT BurstMax

VARIABLES
    mode,  \* at rest, prepared for a burst, live (output permitted) or failed
    left   \* what is left of the burst

vars == <<mode, left>>

Init == mode = "rest" /\ left = 0

Prepare == mode = "rest" /\ mode' = "prepared" /\ UNCHANGED left

Grant == mode = "prepared" /\ mode' = "live" /\ left' \in 0 .. BurstMax

RunDown == mode = "live" /\ left > 0 /\ left' = left - 1 /\ UNCHANGED mode

Withdraw == mode \in {"prepared", "live"} /\ mode' = "rest" /\ left' = 0

Fail == mode' = "failed" /\ left' = 0

Recover == mode = "failed" /\ mode' = "rest" /\ left' = 0

Expire == left = 0 /\ mode = "live" /\ Withdraw

Next == Prepare \/ Grant \/ RunDown \/ Withdraw \/ Fail \/ Recover

SafeSpec == Init /\ [][Next]_vars

Spec == SafeSpec /\ WF_vars(RunDown) /\ WF_vars(Expire)
=============================================================================
