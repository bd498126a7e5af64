------------------------------ MODULE NodeHealth ------------------------------
(***************************************************************************)
(* When each ESC was last heard of (fc_can_health.c), and what is made of  *)
(* it: `healthy', kept by whoever looks, and the age the coordinator       *)
(* decides on (fc_motor_experiment.c, fc_dual_motor.c).                    *)
(*                                                                         *)
(* Nothing is locked.  The receive task and the task of a diagnostic       *)
(* request each take the time and note it a little later, so that stamps   *)
(* may be noted out of order; a task that looks takes the time before it   *)
(* judges, so that a node may have been heard of after `now'.              *)
(*                                                                         *)
(* Left out: the counters, and nodes past the size of the table.           *)
(***************************************************************************)
EXTENDS Integers

CONSTANTS
    Nodes,      \* the two halves that are expected
    Hearers,    \* can_rx_task and the task of a request
    Lookers,    \* the tasks that call fc_can_bus_health
    Stale,      \* FC_CAN_NODE_STALE_US
    Fresh,      \* FC_DUAL_NODE_FRESH_US
    Turn        \* 2^32 us

VARIABLES
    now,
    last_status, last_seen, ever_seen, healthy,  \* FcCanNode
    heard, heardAt,                 \* a frame not yet noted: from whom, of what kind, and when
    asked, lookedAt,                \* a judgement under way: the caller's now, the clock's
    looking,
    fresh,                          \* the coordinator's judgement of each node
    silence                         \* history: how long it had been silent at that judgement

nodeVars == <<last_status, last_seen, ever_seen, healthy>>
hearVars == <<heard, heardAt>>
lookVars == <<looking, asked, lookedAt>>
judgeVars == <<fresh, silence>>
healthVars == <<now, nodeVars, hearVars, lookVars, judgeVars>>

\* A status arrives by itself, a reply to a diagnostic request.
Kinds == {"status", "diag"}

NobodyYet == [from |-> "nobody", kind |-> "diag"]

\* fc_can_health_init and fc_can_health_expect.
HealthInit ==
    /\ now = 1
    /\ last_status = [n \in Nodes |-> 0] /\ last_seen = [n \in Nodes |-> 0]
    /\ ever_seen = [n \in Nodes |-> FALSE] /\ healthy = [n \in Nodes |-> FALSE]
    /\ heard = [h \in Hearers |-> NobodyYet] /\ heardAt = [h \in Hearers |-> 0]
    /\ looking = [l \in Lookers |-> "out"]
    /\ asked = [l \in Lookers |-> 0] /\ lookedAt = [l \in Lookers |-> 0]
    /\ fresh = [n \in Nodes |-> FALSE] /\ silence = [n \in Nodes |-> 0]

Hears(h, n, kind) ==
    /\ heard[h] = NobodyYet
    /\ heard' = [heard EXCEPT ![h] = [from |-> n, kind |-> kind]] /\ heardAt' = [heardAt EXCEPT ![h] = now]
    /\ UNCHANGED <<now, nodeVars, lookVars, judgeVars>>

\* fc_can_health_on_status, fc_can_health_on_diag_response.
Notes(h) ==
    LET n == heard[h].from IN
    /\ n \in Nodes
    /\ last_status' = IF heard[h].kind = "status"
                      THEN [last_status EXCEPT ![n] = heardAt[h]] ELSE last_status
    /\ last_seen' = [last_seen EXCEPT ![n] = heardAt[h]]
    /\ ever_seen' = [ever_seen EXCEPT ![n] = TRUE]
    /\ healthy' = [healthy EXCEPT ![n] = TRUE]
    /\ heard' = [heard EXCEPT ![h] = NobodyYet]
    /\ UNCHANGED <<now, heardAt, lookVars, judgeVars>>

\* The caller has taken its own time, fc_can_bus_health the one it ticks with.
Asks(l) ==
    /\ looking[l] = "out"
    /\ looking' = [looking EXCEPT ![l] = "asked"] /\ asked' = [asked EXCEPT ![l] = now]
    /\ UNCHANGED <<now, nodeVars, hearVars, lookedAt, judgeVars>>

Looks(l) ==
    /\ looking[l] = "asked"
    /\ looking' = [looking EXCEPT ![l] = "looked"] /\ lookedAt' = [lookedAt EXCEPT ![l] = now]
    /\ UNCHANGED <<now, nodeVars, hearVars, asked, judgeVars>>

\* A difference of 64 bits: seen after the look, a node is as good as never seen.
SeenWithin(n, t) == ever_seen[n] /\ last_seen[n] <= t /\ t - last_seen[n] < Stale

\* node_age_us: since the later of the two stamps, the difference cut to 32 bits.
LastHeard(n) == IF last_status[n] > last_seen[n] THEN last_status[n] ELSE last_seen[n]
Silent(n, t) == IF t > LastHeard(n) THEN t - LastHeard(n) ELSE 0
Age(n, t) == Silent(n, t) % Turn

\* fc_can_health_tick, and the age of each node.
Judges(l) ==
    /\ looking[l] = "looked"
    /\ looking' = [looking EXCEPT ![l] = "out"]
    /\ healthy' = [n \in Nodes |-> SeenWithin(n, lookedAt[l])]
    /\ fresh' = [n \in Nodes |-> ever_seen[n] /\ Age(n, asked[l]) < Fresh]
    /\ silence' = [n \in Nodes |-> Silent(n, asked[l])]
    /\ UNCHANGED <<now, last_status, last_seen, ever_seen, hearVars, asked, lookedAt>>

Passes ==
    /\ now' = now + 1
    /\ UNCHANGED <<nodeVars, hearVars, lookVars, judgeVars>>

HealthNext ==
    \/ Passes
    \/ \E h \in Hearers : Notes(h) \/ \E n \in Nodes, kind \in Kinds : Hears(h, n, kind)
    \/ \E l \in Lookers : Asks(l) \/ Looks(l) \/ Judges(l)

HealthSpec == HealthInit /\ [][HealthNext]_healthVars

-----------------------------------------------------------------------------
(* Properties.                                                             *)

\* No stamp is of a time to come, whatever the order in which they are noted.
StampsArePast ==
    /\ \A n \in Nodes : last_status[n] <= now /\ last_seen[n] <= now
    /\ \A l \in Lookers : lookedAt[l] <= now /\ asked[l] <= now

\* A healthy node is dropped for one of two reasons: it has been silent for Stale,
\* or it was heard of after the look that drops it (fc_can_health.c:84-93,
\* fc_can_bus.c:83-86).
DropsHaveReason == [][
    \A n \in Nodes : healthy[n] /\ ~healthy'[n] =>
        \/ now - last_seen[n] >= Stale
        \/ \E l \in Lookers : looking[l] = "looked" /\ last_seen[n] > lookedAt[l]]_healthVars

\* The coordinator takes a node for live only if it has been heard of within Fresh
\* - or has been silent for a turn of the 32-bit clock and more, when silence may
\* be taken for life again (fc_motor_experiment.c:92-100).
FreshWithinTurn ==
    \A n \in Nodes : fresh[n] => silence[n] < Fresh \/ silence[n] >= Turn
=============================================================================
