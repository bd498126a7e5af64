--------------------------- MODULE SupervisorRace ---------------------------
(***************************************************************************)
(* SupervisorTask with the console's calls taken apart.  fc_supervisor.c   *)
(* holds no lock and masks no interrupt, the console runs on core 0 and    *)
(* the supervisor's task on core 1, so calls of the task fall between the  *)
(* check and the write of a request of the operator.  The task's own calls *)
(* stay atomic: one split is enough to show what the missing lock costs.   *)
(***************************************************************************)
EXTENDS SupervisorTask

VARIABLES
    request,  \* the request whose checks have passed, or "none"
    asked     \* the duration begin_burst was given

raceVars == <<taskVars, request, asked>>

RaceInit == TaskInit /\ request = "none" /\ asked = 0

\* The checks of each request: the conditions above its first write.
Passes(r) ==
    \/ r = "ready"  /\ state = "DISARMED" /\ faults = {} /\ ReadyConditionsMet(in)
    \/ r = "armed"  /\ state = "READY" /\ faults = {} /\ ReadyConditionsMet(in)
    \/ r = "burst"  /\ state = "ARMED" /\ faults = {} /\ ArmedConditionsMet(in)
    \/ r = "disarm" /\ state \in {"READY", "ARMED", "RUNNING"}
    \/ r = "clear"  /\ state = "FAULT" /\ StillFaulty(in, faults) = {}

Check ==
    /\ phase = "service" /\ request = "none"
    /\ \E r \in {"ready", "armed", "burst", "disarm", "clear"} :
           Passes(r) /\ request' = r
    /\ asked' \in 1 .. BurstMax
    /\ UNCHANGED taskVars

\* Where each request takes the machine, whatever has happened since its check.
Target == [ready |-> "READY", armed |-> "ARMED", burst |-> "RUNNING",
           disarm |-> "DISARMED", clear |-> "DISARMED"]

Write ==
    /\ request # "none"
    /\ request' = "none"
    /\ state' = Target[request]
    /\ faults' = IF request = "clear" THEN {} ELSE faults
    /\ burst' = CASE request = "burst"  -> asked
                  [] request = "disarm" -> NoBurst
                  [] OTHER              -> burst
    /\ grant' = IF request = "burst" THEN asked ELSE grant
    /\ UNCHANGED <<in, loopAge, imuAge, lastPermit, asked, driverVars>>
    /\ Instant

Others ==
    /\ \/ AppMain \/ Task \/ LoopIteration \/ RefloatReadsFootpad
       \/ SimulateFootpad \/ TimePasses
    /\ UNCHANGED <<request, asked>>

RaceNext == Check \/ Write \/ Others

RaceSpec == RaceInit /\ [][RaceNext]_raceVars
=============================================================================
