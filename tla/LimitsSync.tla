------------------------------ MODULE LimitsSync ------------------------------
(***************************************************************************)
(* The limits of both halves (fc_limits_sync.c, floatcore_limits.c), read  *)
(* by diagnostic requests (CanDiag) when the system boots and when the     *)
(* operator asks, and what Refloat is then told of them.                   *)
(*                                                                         *)
(* A configuration is the limit of the motor current and the number of     *)
(* poles; the other limits take the same way.  NoConfig is a configuration *)
(* that is not valid: not read yet, or a reply that does not decode for a  *)
(* foreign signature, implausible numbers or too few bytes.                *)
(***************************************************************************)
EXTENDS CanDiag

CONSTANTS
    Limits,      \* limits an ESC may be configured with
    Poles,       \* numbers of poles
    OwnLimit,    \* FloatCore's own limit
    StubLimit,   \* what Refloat is told before the first synchronisation
    Attempts,    \* tries per half
    RetryDelay   \* the pause between them, in ticks

ASSUME LimitsAssumption ==
    /\ Limits \subseteq Nat \ {0} /\ OwnLimit \in Nat /\ StubLimit \in Nat
    /\ Attempts \in Nat \ {0} /\ RetryDelay \in Nat
    /\ Nothing = [limit |-> 0, poles |-> 0]

VARIABLES
    sync,    \* where the synchronisation is, its attempt and its pause
    half,    \* ST.half: what it has read of each half
    status,  \* ST.common and ST.applied
    esc,     \* L.esc: the limit of each half, or none
    seen,    \* S.cfg_float: what Refloat sees
    clean    \* history: it began on a quiet bus, and each request let through was answered well

limitVars == <<status, esc, seen>>
syncVars  == <<sync, half, limitVars, clean>>
allVars   == <<canVars, syncVars>>

Configs  == [limit : Limits, poles : Poles]
NoConfig == [limit |-> 0, poles |-> 0]
NoLimit  == 0

First  == CHOOSE n \in Nodes : TRUE
Second == CHOOSE n \in Nodes : n # First

SyncSteps == {"off", "reading", "join", "escA", "escB", "refresh", "apply"}

SyncInit ==
    /\ CanInit
    /\ sync = [step |-> "off", of |-> First, attempt |-> 0, pause |-> 0]
    /\ half = [n \in Nodes |-> NoConfig]
    /\ status = [common |-> NoConfig, applied |-> FALSE]
    /\ esc = [n \in Nodes |-> NoLimit]
    /\ seen = StubLimit
    /\ clean = FALSE

\* floatcore_limits: the strictest of the sources that are present.
Effective == Min({OwnLimit} \cup {esc[n] : n \in {m \in Nodes : esc[m] # NoLimit}})

\* fc_vesc_mcconf_limits on what a request returned.
Decoded == IF result.body[1] \in Configs THEN result.body[1] ELSE NoConfig

\* fc_vesc_mcconf_intersect.
Intersection ==
    IF half[First].poles = half[Second].poles
    THEN [limit |-> Min({half[First].limit, half[Second].limit}), poles |-> half[First].poles]
    ELSE NoConfig

\* Nobody is at work: the console is free for a command, can-stop included.
Idle == sync.step = "off" /\ asker = Nobody /\ ~(installed /\ task # "running")

\* What a request returned is read, and is of no use afterwards.
TakesResult == asker.fresh /\ asker' = Nobody /\ result' = NoResult

SyncBegins ==
    /\ Idle
    /\ sync' = [step |-> "reading", of |-> First, attempt |-> 0, pause |-> 0]
    /\ half' = [n \in Nodes |-> NoConfig]
    /\ clean' = (installed /\ \A n \in Nodes : wire[n] = <<>>)
    /\ UNCHANGED <<canVars, limitVars>>

\* read_half asks, unless it pauses; a request too soon after the last is refused.
SyncAsks ==
    /\ sync.step = "reading" /\ sync.pause = 0 /\ ~asker.fresh
    /\ Prepare("mcconf", sync.of) \/ Refused
    /\ UNCHANGED syncVars

\* read_half: the next attempt after a pause, or the half is done.
HalfDone(value) ==
    /\ half' = [half EXCEPT ![sync.of] = value]
    /\ sync' = IF sync.of = First
               THEN [step |-> "reading", of |-> Second, attempt |-> 0, pause |-> 0]
               ELSE [sync EXCEPT !.step = "join", !.attempt = 0, !.pause = 0]

\* Mutant: the next attempt follows at once.
RetryAtOnce ==
    /\ sync' = [sync EXCEPT !.attempt = @ + 1, !.pause = 0]
    /\ UNCHANGED half

\* Mutant: the attempt is not counted.
RetryUncounted ==
    /\ sync' = [sync EXCEPT !.pause = RetryDelay]
    /\ UNCHANGED half

Retry ==
    /\ sync' = [sync EXCEPT !.attempt = @ + 1, !.pause = RetryDelay]
    /\ UNCHANGED half

SyncReads ==
    /\ sync.step = "reading" /\ TakesResult
    /\ \/ result.ok /\ HalfDone(Decoded)
       \/ ~result.ok /\ sync.attempt + 1 < Attempts /\ Retry
       \/ ~result.ok /\ sync.attempt + 1 = Attempts /\ HalfDone(NoConfig)
    /\ clean' = (clean /\ (result.ok => Decoded # NoConfig))
    /\ UNCHANGED <<busVars, since, replyVars, wire, limitVars>>

\* fc_limits_sync once both halves are asked: all or nothing.
SyncJoins ==
    /\ sync.step = "join"
    /\ IF \E n \in Nodes : half[n] = NoConfig
       THEN sync' = [sync EXCEPT !.step = "off"] /\ UNCHANGED status
       ELSE /\ status' = [status EXCEPT !.common = Intersection]
            /\ sync' = [sync EXCEPT !.step = IF Intersection = NoConfig THEN "off" ELSE "escA"]
    /\ UNCHANGED <<canVars, half, esc, seen, clean>>

\* Mutant: the record of the second half is copied from the first and not filled in.
SetEscCopied(step, n, next) ==
    /\ sync.step = step
    /\ esc' = [esc EXCEPT ![n] = half[First].limit]
    /\ sync' = [sync EXCEPT !.step = next]
    /\ UNCHANGED <<canVars, half, status, seen, clean>>

\* floatcore_limits_set_esc of each half.
SetEsc(step, n, next) ==
    /\ sync.step = step
    /\ esc' = [esc EXCEPT ![n] = half[n].limit]
    /\ sync' = [sync EXCEPT !.step = next]
    /\ UNCHANGED <<canVars, half, status, seen, clean>>

\* fc_vesc_if_refresh_limits: Refloat, on the other core, sees them from here on.
SyncRefreshes ==
    /\ sync.step = "refresh"
    /\ seen' = Effective
    /\ sync' = [sync EXCEPT !.step = "apply"]
    /\ UNCHANGED <<canVars, half, status, esc, clean>>

SyncApplies ==
    /\ sync.step = "apply"
    /\ status' = [status EXCEPT !.applied = TRUE]
    /\ sync' = [sync EXCEPT !.step = "off"]
    /\ UNCHANGED <<canVars, half, esc, seen, clean>>

SyncStep ==
    \/ SyncAsks \/ SyncReads \/ SyncJoins \/ SyncRefreshes \/ SyncApplies
    \/ SetEsc("escA", First, "escB") \/ SetEsc("escB", Second, "refresh")

\* A command that asks one thing, can-diag and the like; its answer is printed.
CommandAsks ==
    /\ Idle
    /\ \E req \in Requests, n \in Nodes : Prepare(req, n)
    /\ UNCHANGED syncVars

CommandPrints ==
    /\ sync.step = "off" /\ TakesResult
    /\ UNCHANGED <<busVars, since, replyVars, wire, syncVars>>

\* A request let through that comes back without an answer is not clean.
RequestProceeds ==
    /\ RequestStep
    /\ clean' = (clean /\ (asker'.step = "idle" => result'.ok))
    /\ UNCHANGED <<sync, half, limitVars>>

TimePasses ==
    /\ Tick
    /\ asker.left > 0 \/ since < MinInterval \/ sync.pause > 0
    /\ sync' = [sync EXCEPT !.pause = IF @ > 0 THEN @ - 1 ELSE 0]
    /\ UNCHANGED <<half, limitVars, clean>>

\* can-stop and can-start are commands, so no synchronisation is under way.
BusProceeds ==
    /\ BusStep \/ FrameStep
    /\ installed' # installed \/ task' # task => sync.step = "off"
    /\ UNCHANGED syncVars

SyncNext == SyncBegins \/ SyncStep \/ CommandAsks \/ CommandPrints \/ RequestProceeds \/ TimePasses \/ BusProceeds

\* The tasks run, and time passes: the bus and the ESCs owe nothing.
SyncFairness == WF_allVars(SyncStep \/ RequestProceeds \/ TimePasses)

SyncSpec == SyncInit /\ [][SyncNext]_allVars /\ SyncFairness

-----------------------------------------------------------------------------
LimitsTypeOK ==
    /\ CanTypeOK
    /\ sync \in [step : SyncSteps, of : Nodes, attempt : 0 .. Attempts, pause : 0 .. RetryDelay]
    /\ half \in [Nodes -> Configs \cup {NoConfig}]
    /\ status \in [common : Configs \cup {NoConfig}, applied : BOOLEAN]
    /\ esc \in [Nodes -> Limits \cup {NoLimit}]
    /\ seen \in Limits \cup {OwnLimit, StubLimit}
    /\ clean \in BOOLEAN

\* Refloat works with the stub, or with the strictest limit of two halves read in
\* one synchronisation; never with those of one half alone, whatever failed half
\* way.  What cl-ready takes for the common limits are the ones in force.
LimitsTogether ==
    /\ sync.step \notin {"escB", "refresh"} =>
          IF \E n \in Nodes : esc[n] = NoLimit
          THEN esc = [n \in Nodes |-> NoLimit] /\ seen = StubLimit /\ ~status.applied
          ELSE seen = Effective
    /\ sync.step = "off" /\ status.applied /\ status.common # NoConfig =>
          status.common.limit = Min({esc[n] : n \in Nodes})

\* The limiter of requests refuses the first attempt for the second half as a
\* matter of course; the pauses and the number of attempts must outlast it: on a
\* bus that answers, a synchronisation that is over has been applied, unless the
\* halves are unlike.
CleanSyncApplies ==
    sync.step = "off" /\ clean =>
        /\ \A n \in Nodes : half[n] \in Configs
        /\ Intersection # NoConfig => status.applied /\ \A n \in Nodes : esc[n] = half[n].limit

\* A synchronisation ends, however silent the bus and whatever the driver does.
SyncEnds == sync.step # "off" ~> sync.step = "off"

=============================================================================
