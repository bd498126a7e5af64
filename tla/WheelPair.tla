------------------------------ MODULE WheelPair ------------------------------
(***************************************************************************)
(* What the coordinator promises of the two wheels, without the sources,   *)
(* the gate, the arming and the reasons to refuse: the wheels are          *)
(* commanded in pairs.  A pair is sent to half A, then to half B, and no   *)
(* other pair falls in between; one that reaches one half alone latches,   *)
(* and under the latch no pair begins, until the operator clears it.       *)
(* Otherwise a wheel does nothing but let go.                              *)
(***************************************************************************)
CONSTANTS
    Commands,  \* what a half may be commanded
    Nothing    \* what a half that is left alone obeys

VARIABLES
    wheel,   \* the command each half obeys
    open,    \* the pair half A has been sent and half B has not, if any
    latched  \* no pair may begin

vars == <<wheel, open, latched>>

Halves == {"A", "B"}

Init == wheel = [h \in Halves |-> Nothing] /\ open = {} /\ latched = FALSE

Reach(h, command, ok) == wheel' = IF ok THEN [wheel EXCEPT ![h] = command] ELSE wheel

Begin(command, ok) ==
    /\ open = {} /\ ~latched
    /\ Reach("A", command, ok)
    /\ open' = {[command |-> command, reached |-> ok]}
    /\ UNCHANGED latched

End(pair, ok) ==
    /\ Reach("B", pair.command, ok)
    /\ open' = {}
    /\ latched' = (latched \/ ok # pair.reached)

LetGo(h) == wheel' = [wheel EXCEPT ![h] = Nothing] /\ UNCHANGED <<open, latched>>

Clear == latched' = FALSE /\ UNCHANGED <<wheel, open>>

Next ==
    \/ \E ok \in BOOLEAN : \/ \E command \in Commands : Begin(command, ok)
                           \/ \E pair \in open : End(pair, ok)
    \/ \E h \in Halves : LetGo(h)
    \/ Clear

Spec == Init /\ [][Next]_vars
=============================================================================
