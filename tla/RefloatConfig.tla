---------------------------- MODULE RefloatConfig ----------------------------
(***************************************************************************)
(* Refloat's configuration as the bench changes it.  The console (core 0)  *)
(* writes the balance gains straight into Refloat's memory (gain-scale,    *)
(* gain-noi, gain-restore) and writes the whole configuration through      *)
(* Refloat's own path (tiltback, persist); Refloat's loop (core 1) adds to *)
(* the integral it also finds there, with no lock between them.            *)
(*                                                                         *)
(* A coefficient is an abstract value; Packed is what one becomes when the *)
(* configuration is serialised and read back.  The stored words are one    *)
(* per field, each written under its own permission.  The integral is the  *)
(* set of the settings of the gains (epochs) it has been accumulated       *)
(* under.  Refloat itself is a git submodule that is empty here: what its  *)
(* set_cfg and its loop do is taken from how the code uses them.           *)
(***************************************************************************)
EXTENDS Naturals

CONSTANTS Coefficients, Zero,   \* values of a field, and 0.0f
          Times(_, _),          \* a coefficient times the console's multiplier
          Packed(_),            \* serialised and read back
          Multipliers,          \* 0 < k <= 10
          Factory               \* Refloat's defaults: field -> coefficient

GainFields == {"kp", "kp2", "ki", "ki_limit"}
OtherFields == {"tiltback", "headlights"}
Fields == GainFields \cup OtherFields

VARIABLES
    started,        \* Refloat's init succeeded
    live,           \* Data.float_conf
    baseline,       \* BASELINE, without its flag
    saved,          \* BASELINE.saved
    console,        \* where the console's call is: "idle", "reset" or "store"
    todo,           \* the words set_cfg has yet to store
    stored,         \* the words in RAM that a commit takes to the flash
    flash,
    allowed,        \* fc_flash_write_allowed: the supervisor is DISARMED
    integral, epoch,
    loop            \* Refloat's iteration: what it has read, if it is between
                    \* its read of the integral and its write

confVars == <<started, live, baseline, saved>>
storeVars == <<stored, flash, allowed>>
loopVars == <<integral, epoch, loop>>
callVars == <<console, todo>>

\* What the properties speak of, and the code does not keep: the gains Refloat
\* had when nothing was changed, the gains it ever had so, whether a
\* configuration was written over changed gains, and whether the last reset of
\* the integral fell inside an iteration.
VARIABLES chosen, everChosen, leaked, torn
history == <<chosen, everChosen, leaked, torn>>

vars == <<confVars, callVars, storeVars, loopVars, history>>

Gains(c) == [f \in GainFields |-> c[f]]
AtRest == [reading |-> FALSE, sum |-> {}, under |-> 0]

\* What the gains are now is what Refloat shall be given back.
Choose(c) ==
    /\ chosen' = Gains(c)
    /\ everChosen' = everChosen \cup {c[f] : f \in GainFields}

ConfigInit ==
    /\ started = FALSE
    /\ live = Factory /\ stored = Factory /\ flash = Factory
    /\ baseline = Gains(Factory) /\ saved = FALSE
    /\ console = "idle" /\ todo = {}
    /\ allowed \in BOOLEAN
    /\ integral = {} /\ epoch = 0 /\ loop = AtRest
    /\ chosen = Gains(Factory) /\ everChosen = {Factory[f] : f \in GainFields}
    /\ leaked = FALSE /\ torn = FALSE

-----------------------------------------------------------------------------
(* The start: Refloat's init reads its words.                              *)

Start ==
    /\ ~started /\ started' = TRUE
    /\ live' = [f \in Fields |-> Packed(stored[f])]
    /\ Choose(live')
    /\ UNCHANGED <<baseline, saved, callVars, storeVars, loopVars, leaked, torn>>

-----------------------------------------------------------------------------
(* The console's edits of the gains.  Each ends with a reset of the        *)
(* integral, a store of its own that the loop does not wait for.           *)

Base == IF saved THEN baseline ELSE Gains(live)

SetGains(g) ==
    /\ live' = [f \in Fields |-> IF f \in GainFields THEN g[f] ELSE live[f]]
    /\ epoch' = epoch + 1
    /\ console' = "reset"
    /\ UNCHANGED <<started, todo, storeVars, integral, loop, history>>

SaveBaseline == baseline' = Base /\ saved' = TRUE

ScaleGains(k) ==
    /\ started /\ console = "idle"
    /\ SaveBaseline
    /\ SetGains([f \in GainFields |-> Times(Base[f], k)])

DisableIntegral ==
    /\ started /\ console = "idle"
    /\ SaveBaseline
    /\ SetGains([Gains(live) EXCEPT !.ki = Zero, !.ki_limit = Zero])

\* refloat_facade_set_gains: of kp, kp2 and ki those that are given, the others
\* being negative; ki_limit stays.  No command of the console calls it yet.
SetSomeGains(given) ==
    /\ started /\ console = "idle"
    /\ SaveBaseline
    /\ SetGains([f \in GainFields |-> IF f \in DOMAIN given THEN given[f] ELSE live[f]])

RestoreGains ==
    /\ started /\ console = "idle" /\ saved
    /\ saved' = FALSE /\ UNCHANGED baseline
    /\ SetGains(baseline)

ResetIntegral ==
    /\ console = "reset" /\ console' = "idle"
    /\ integral' = {}
    /\ torn' = loop.reading
    /\ UNCHANGED <<confVars, todo, storeVars, epoch, loop, chosen, everChosen, leaked>>

-----------------------------------------------------------------------------
(* tiltback and persist: the field is changed in the live configuration    *)
(* first, then all of it goes through Refloat's set_cfg, which reads it    *)
(* back and stores it word by word.                                        *)

WriteConfig(field, v) ==
    /\ started /\ console = "idle" /\ console' = "store"
    /\ live' = [f \in Fields |-> Packed(IF f = field THEN v ELSE live[f])]
    /\ todo' = Fields
    /\ leaked' = (leaked \/ saved)
    /\ IF saved THEN UNCHANGED <<chosen, everChosen>> ELSE Choose(live')
    /\ UNCHANGED <<started, baseline, saved, storeVars, loopVars, torn>>

\* The configuration does not go into the buffer, or there is no set_cfg: the
\* field has been changed all the same, and nothing is read back or stored.
WriteFails(field, v) ==
    /\ started /\ console = "idle"
    /\ live' = [f \in Fields |-> IF f = field THEN v ELSE live[f]]
    /\ UNCHANGED <<started, baseline, saved, callVars, storeVars, loopVars, history>>

SetVoltageTiltback(v) == WriteConfig("tiltback", v)
ConfigSaveTest(v) == WriteConfig("headlights", v)

\* A word is refused where the supervisor has left DISARMED meanwhile.
StoreEepromVar(f) ==
    /\ console = "store" /\ f \in todo
    /\ todo' = todo \ {f}
    /\ stored' = IF allowed THEN [stored EXCEPT ![f] = live[f]] ELSE stored
    /\ UNCHANGED <<confVars, console, flash, allowed, loopVars, history>>

ConfigWritten ==
    /\ console = "store" /\ todo = {} /\ console' = "idle"
    /\ UNCHANGED <<confVars, todo, storeVars, loopVars, history>>

-----------------------------------------------------------------------------
(* Refloat's loop, and the world.                                          *)

LoopReads ==
    /\ started /\ ~loop.reading
    /\ loop' = [reading |-> TRUE, sum |-> integral, under |-> epoch]
    /\ UNCHANGED <<confVars, callVars, storeVars, integral, epoch, history>>

LoopWrites ==
    /\ loop.reading /\ loop' = AtRest
    /\ integral' = loop.sum \cup {loop.under}
    /\ UNCHANGED <<confVars, callVars, storeVars, epoch, history>>

PermissionChanges ==
    /\ allowed' = ~allowed
    /\ UNCHANGED <<confVars, callVars, stored, flash, loopVars, history>>

Commit ==
    /\ flash' = stored
    /\ UNCHANGED <<confVars, callVars, stored, allowed, loopVars, history>>

\* A reset of the chip: what was only in memory is gone.
Restart ==
    /\ started' = FALSE /\ saved' = FALSE
    /\ stored' = flash
    /\ console' = "idle" /\ todo' = {}
    /\ integral' = {} /\ loop' = AtRest /\ torn' = FALSE
    /\ UNCHANGED <<live, baseline, flash, allowed, epoch, chosen, everChosen, leaked>>

ConfigNext ==
    \/ Start \/ DisableIntegral \/ RestoreGains \/ ResetIntegral
    \/ \E k \in Multipliers : ScaleGains(k)
    \/ \E F \in SUBSET {"kp", "kp2", "ki"} : \E given \in [F -> Coefficients] : SetSomeGains(given)
    \/ \E v \in Coefficients : SetVoltageTiltback(v) \/ ConfigSaveTest(v)
    \/ \E f \in OtherFields, v \in Coefficients : WriteFails(f, v)
    \/ \E f \in Fields : StoreEepromVar(f)
    \/ ConfigWritten \/ LoopReads \/ LoopWrites
    \/ PermissionChanges \/ Commit \/ Restart

ConfigSpec == ConfigInit /\ [][ConfigNext]_vars

-----------------------------------------------------------------------------
(* Properties.                                                             *)

\* Whatever scalings, switched-off integrals and written configurations came
\* after the first edit, gain-restore gives back the gains Refloat had before
\* it, and while nothing is changed Refloat works with those gains
\* (refloat_facade.c:117-149, fc_console.c:2952).
BenchComesBack ==
    started => IF saved THEN baseline = chosen ELSE Gains(live) = chosen

\* "Only in Refloat's memory" (fc_console.c:2951): as long as no tiltback and no
\* persist ran while the gains were changed, no word of the store and of the
\* flash ever holds a gain of the bench, whatever was refused half-way.
BenchStaysInMemory ==
    ~leaked => \A f \in GainFields : stored[f] \in everChosen /\ flash[f] \in everChosen

\* After an edit the integral is accumulated under the present gains alone
\* (refloat_facade.c:124-135), unless the reset fell between the loop's read
\* and its write: the only order in which an old integral survives.
IntegralOfItsGains ==
    console # "reset" /\ ~torn => integral \subseteq {epoch}
=============================================================================
