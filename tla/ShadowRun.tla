------------------------------ MODULE ShadowRun ------------------------------
(***************************************************************************)
(* The observer of what Refloat asks for (fc_shadow.c): each request is    *)
(* counted on Refloat's task on core 1, before the gate decides on it      *)
(* (fc_vesc_if.c), and each tenth is kept in a ring.  The console on core  *)
(* 0 sets the envelope of the experiment and resets; limits_sync gives the *)
(* limit of the ESC.                                                       *)
(*                                                                         *)
(* There is no lock.  A reset that meets a record under way wipes a part   *)
(* of it: `mixed' remembers it until the next quiet reset.  A reset also   *)
(* puts the limit of the ESC back to its default.                          *)
(*                                                                         *)
(* A request is the modulus of its current, which may be no number, its    *)
(* integral and the bin of its angle; a record in the ring is the number   *)
(* of its request.  Left out: peaks, sums, crossings of zero, extremes.    *)
(***************************************************************************)
EXTENDS Integers

CONSTANTS
    RingSize, Decimation,   \* FC_SHADOW_RING, FC_SHADOW_DECIMATION
    Low, High, Eps,         \* the dead zone; FC_SHADOW_LIMIT_EPS_A
    AnyEnvelope, AnyEsc,    \* 0.5 A and 5 A, until somebody says otherwise
    Currents, Limits, Integrals

NotANumber == -1

VARIABLES
    requests, below, inBand, above,             \* S.st: the dead zone
    ineffective, transition, effective, envSaturated,
    escSaturated, inBins,                       \* S.st: the bins, taken together
    inZone, zoneEntry, growth,                  \* the integral in the dead zone
    ring, ringHead, ringCount, ringLost, decim,
    envelope, esc_limit,
    record,                                     \* Refloat's task: "out", "counted", "kept"
    wiping, keptEnv,                            \* the console's reset
    synced,                                     \* history: the last limit of limits_sync
    mixed                                       \* history: a reset met a record

zoneVars == <<requests, below, inBand, above, inZone, zoneEntry, growth>>
envVars == <<ineffective, transition, effective, envSaturated>>
binVars == <<escSaturated, inBins>>
shadowRingVars == <<ring, ringHead, ringCount, ringLost, decim>>
limitVars == <<envelope, esc_limit, synced>>
wipeVars == <<wiping, keptEnv, mixed>>
shadowVars == <<zoneVars, envVars, binVars, shadowRingVars, limitVars, record, wipeVars>>

After(i) == IF i + 1 = RingSize THEN 0 ELSE i + 1
Before(i) == IF i = 0 THEN RingSize - 1 ELSE i - 1

\* fc_shadow_init.
ShadowInit ==
    /\ requests = 0 /\ below = 0 /\ inBand = 0 /\ above = 0
    /\ inZone = FALSE /\ zoneEntry = 0 /\ growth = 0
    /\ ineffective = 0 /\ transition = 0 /\ effective = 0 /\ envSaturated = 0
    /\ escSaturated = 0 /\ inBins = 0
    /\ ring = [i \in 0 .. RingSize - 1 |-> 0] /\ ringHead = 0 /\ ringCount = 0 /\ ringLost = 0
    /\ decim = 0
    /\ envelope = AnyEnvelope /\ esc_limit = AnyEsc /\ synced = AnyEsc
    /\ record = "out" /\ wiping = "out" /\ keptEnv = 0 /\ mixed = FALSE

-----------------------------------------------------------------------------
(* shadow_observe, fc_shadow_record.  No comparison holds of what is no    *)
(* number.                                                                 *)

Below(a, x) == a # NotANumber /\ a < x
UpTo(a, x) == a # NotANumber /\ a <= x
AtLeast(a, x) == a # NotANumber /\ a >= x
Modulus(x) == IF x < 0 THEN -x ELSE x

CountsZone(a, i) ==
    /\ requests' = requests + 1
    /\ below' = IF Below(a, Low) THEN below + 1 ELSE below
    /\ inBand' = IF ~Below(a, Low) /\ UpTo(a, High) THEN inBand + 1 ELSE inBand
    /\ above' = IF ~Below(a, Low) /\ ~UpTo(a, High) THEN above + 1 ELSE above
    /\ inZone' = Below(a, Low)
    /\ zoneEntry' = IF Below(a, Low) /\ ~inZone THEN i ELSE zoneEntry
    /\ growth' = IF Below(a, Low) /\ inZone /\ Modulus(i - zoneEntry) > growth
                 THEN Modulus(i - zoneEntry) ELSE growth

\* What the envelope would let through.
CountsEnvelope(a) ==
    LET eff == IF Below(a, envelope) THEN a ELSE envelope IN
    /\ envSaturated' = IF eff >= envelope THEN envSaturated + 1 ELSE envSaturated
    /\ ineffective' = IF eff < envelope /\ eff < Low THEN ineffective + 1 ELSE ineffective
    /\ transition' = IF eff < envelope /\ eff >= Low /\ eff <= High
                     THEN transition + 1 ELSE transition
    /\ effective' = IF eff < envelope /\ eff >= Low /\ eff > High THEN effective + 1 ELSE effective

\* An angle that is no number falls into no bin.
CountsBin(a, inBin) ==
    /\ inBins' = IF inBin THEN inBins + 1 ELSE inBins
    /\ escSaturated' = IF inBin /\ AtLeast(a, esc_limit - Eps)
                       THEN escSaturated + 1 ELSE escSaturated

Observes(a, i, inBin) ==
    /\ record = "out"
    /\ CountsZone(a, i) /\ CountsEnvelope(a) /\ CountsBin(a, inBin)
    /\ record' = "counted"
    /\ UNCHANGED <<shadowRingVars, limitVars, wipeVars>>

Skips ==
    /\ record = "counted" /\ decim + 1 < Decimation
    /\ decim' = decim + 1
    /\ record' = "out"
    /\ UNCHANGED <<zoneVars, envVars, binVars, ring, ringHead, ringCount, ringLost, limitVars, wipeVars>>

Keeps ==
    /\ record = "counted" /\ decim + 1 >= Decimation
    /\ decim' = 0
    /\ ring' = [ring EXCEPT ![ringHead] = requests]
    /\ record' = "kept"
    /\ UNCHANGED <<zoneVars, envVars, binVars, ringHead, ringCount, ringLost, limitVars, wipeVars>>

Advances ==
    /\ record = "kept"
    /\ ringHead' = After(ringHead)
    /\ IF ringCount < RingSize
       THEN ringCount' = ringCount + 1 /\ UNCHANGED ringLost
       ELSE ringLost' = ringLost + 1 /\ UNCHANGED ringCount
    /\ record' = "out"
    /\ UNCHANGED <<zoneVars, envVars, binVars, ring, decim, limitVars, wipeVars>>

-----------------------------------------------------------------------------
(* The limits, and the reset: the envelope is kept, the rest wiped, and    *)
(* the limits set again.                                                   *)

SetsEnvelope(x) ==
    /\ wiping = "out" /\ x > 0
    /\ envelope' = x
    /\ UNCHANGED <<zoneVars, envVars, binVars, shadowRingVars, esc_limit, synced, record, wipeVars>>

\* Another task may do so in the middle of a reset.
SyncsLimit(x) ==
    /\ synced' = x
    /\ esc_limit' = IF x > 0 THEN x ELSE esc_limit
    /\ UNCHANGED <<zoneVars, envVars, binVars, shadowRingVars, envelope, record, wipeVars>>

WipesRing ==
    /\ wiping = "out" /\ wiping' = "ring"
    /\ keptEnv' = envelope
    /\ ring' = [i \in 0 .. RingSize - 1 |-> 0] /\ ringHead' = 0 /\ ringCount' = 0
    /\ mixed' = (record # "out")
    /\ UNCHANGED <<zoneVars, envVars, binVars, ringLost, decim, limitVars, record>>

WipesStats ==
    /\ wiping = "ring" /\ wiping' = "stats"
    /\ requests' = 0 /\ below' = 0 /\ inBand' = 0 /\ above' = 0
    /\ inZone' = FALSE /\ zoneEntry' = 0 /\ growth' = 0
    /\ ineffective' = 0 /\ transition' = 0 /\ effective' = 0 /\ envSaturated' = 0
    /\ escSaturated' = 0 /\ inBins' = 0
    /\ ringLost' = 0 /\ decim' = 0
    /\ envelope' = 0 /\ esc_limit' = 0
    /\ mixed' = (mixed \/ record # "out" \/ ringCount # 0)
    /\ UNCHANGED <<ring, ringHead, ringCount, synced, record, keptEnv>>

SetsDefaults ==
    /\ wiping = "stats" /\ wiping' = "out"
    /\ envelope' = IF keptEnv > 0 THEN keptEnv ELSE AnyEnvelope
    /\ esc_limit' = AnyEsc
    /\ UNCHANGED <<zoneVars, envVars, binVars, shadowRingVars, synced, record, keptEnv, mixed>>

-----------------------------------------------------------------------------
ShadowNext ==
    \/ \E a \in Currents, i \in Integrals, inBin \in BOOLEAN : Observes(a, i, inBin)
    \/ Skips \/ Keeps \/ Advances
    \/ \E x \in Limits : SetsEnvelope(x) \/ SyncsLimit(x)
    \/ WipesRing \/ WipesStats \/ SetsDefaults

ShadowSpec == ShadowInit /\ [][ShadowNext]_shadowVars

-----------------------------------------------------------------------------
(* Properties.                                                             *)

\* With no reset across a record, the history holds each tenth request and no other,
\* from the newest back to where it was overwritten (fc_shadow.c:159-172, 178-189).
HistoryIsEveryTenth ==
    ~mixed /\ wiping # "ring" /\ record = "out" =>
        /\ ringCount > 0 => ring[Before(ringHead)] = requests - decim
        /\ \A i \in 0 .. RingSize - 1 :
             i # ringHead /\ (i < ringCount) =>
                 IF i = 0 /\ ringCount < RingSize THEN ring[i] = Decimation
                 ELSE ring[i] = ring[Before(i)] + Decimation

\* With no reset across a record, each request is counted once against the dead
\* zone, once against the envelope, and at most once in the bins; what is no number
\* too (fc_shadow.c:54-63, 108-142).
EachCountedOnce ==
    ~mixed /\ wiping # "ring" =>
        /\ below + inBand + above = requests
        /\ ineffective + transition + effective + envSaturated = requests
        /\ escSaturated <= inBins /\ inBins <= requests
=============================================================================
