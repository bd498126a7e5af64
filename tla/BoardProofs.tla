------------------------------ MODULE BoardProofs ------------------------------
(***************************************************************************)
(* What is proved of four small parts of the board: the calibration, for   *)
(* every length of the run, of the record and every set of records; the    *)
(* health of the nodes, for every set of nodes and tasks and all the       *)
(* times; the watch over the commands, for every policy that passes its    *)
(* check and is small enough for the check to be what it says; and the     *)
(* one command by hand, for every envelope, window and life of a token.    *)
(* A record is whole when its last word is its own: the order in which     *)
(* words are stored and copied is what WholeInv rests on.                  *)
(***************************************************************************)
EXTENDS Calibration, NodeHealth, CommandStream, OneShot, TLAPS

Sized == Needed \in Nat /\ Last \in Nat /\ Erased \notin Records

Timed == Stale \in Nat /\ Fresh \in Nat /\ Turn \in Nat \ {0}

\* A measurement that no start has fallen into counts no more samples than were
\* still in a row.
RunInv ==
    /\ samples \in Nat /\ streak \in Nat /\ torn \in BOOLEAN
    /\ samples = 0 \/ have_last
    /\ ~torn /\ (feed = "in" \/ state = "collecting") => needed = Needed /\ samples <= streak
    /\ state = "done" => result \in measured \cup spoiled
    /\ con \in {"saving", "saved"} => record \in measured \cup spoiled
    /\ StoredWasMeasured

WholeInv ==
    /\ mirror \in [Words -> Contents] /\ blob \in [Words -> Contents]
    /\ flash \in [Words -> Contents]
    /\ result \in Contents /\ record \in Contents
    /\ next \in Nat /\ copied \in Nat
    /\ mirror[Last] \in Records => mirror[Last] \in stored
    /\ blob[Last] \in Records => blob[Last] \in stored
    /\ flash[Last] \in Records => flash[Last] \in stored
    /\ con = "saving" /\ next > Last => record \in stored
    /\ con = "saved" => applied \in stored
    /\ con = "clearing" => record = Erased
    /\ ValidIsWhole

SeenInv ==
    /\ now \in Nat
    /\ last_status \in [Nodes -> Nat] /\ last_seen \in [Nodes -> Nat]
    /\ ever_seen \in [Nodes -> BOOLEAN]
    /\ healthy \in [Nodes -> BOOLEAN]
    /\ heardAt \in [Hearers -> Nat] /\ asked \in [Lookers -> Nat] /\ lookedAt \in [Lookers -> Nat]
    /\ fresh \in [Nodes -> BOOLEAN] /\ silence \in [Nodes -> Nat]
    /\ \A h \in Hearers : heardAt[h] <= now
    /\ \A n \in Nodes : healthy[n] => ever_seen[n]
    /\ StampsArePast /\ FreshWithinTurn

-----------------------------------------------------------------------------
(* The calibration.                                                        *)

LEMMA FeedKeepsRun ==
    ASSUME Sized, RunInv, NEW still \in BOOLEAN, NEW late \in BOOLEAN, FeedEnds(still, late)
    PROVE  RunInv'
<1>1. /\ feed = "in" /\ feed' = "out" /\ needed' = needed /\ torn' = torn
      /\ con' = con /\ record' = record /\ stored' = stored
      /\ streak' = IF ~still THEN 0 ELSE IF late THEN 1 ELSE streak + 1
  BY DEF FeedEnds, conVars
<1>2. streak' \in Nat /\ samples \in Nat
  BY <1>1 DEF RunInv
<1>3. CASE \E kept \in BOOLEAN : Restarts(kept)
  BY <1>1, <1>2, <1>3 DEF Restarts, RunInv, StoredWasMeasured
<1>4. CASE /\ ~Gap(late) /\ still
           /\ samples' = samples + 1 /\ have_last' = TRUE
           /\ UNCHANGED <<state, result, measured, spoiled>>
  <2>1. samples' \in Nat
    BY <1>2, <1>4
  <2>2. ~torn => samples' <= streak'
    BY <1>1, <1>2, <1>4 DEF Gap, RunInv
  <2> QED
    BY <1>1, <1>2, <1>4, <2>1, <2>2 DEF RunInv, StoredWasMeasured
<1>5. CASE ~Gap(late) /\ still /\ samples + 1 >= needed /\ Decides /\ have_last' = TRUE
  <2>1. samples' = samples + 1 /\ (~torn => samples' <= streak' /\ needed = Needed)
    BY <1>1, <1>2, <1>5 DEF Decides, Restarts, Gap, RunInv
  <2>2. CASE state' = "failed" /\ UNCHANGED <<result, measured, spoiled>>
    BY <1>1, <1>2, <1>5, <2>1, <2>2 DEF RunInv, StoredWasMeasured
  <2>3. CASE \E r \in Records :
                /\ state' = "done" /\ result' = r
                /\ measured' = IF streak' >= Needed THEN measured \cup {r} ELSE measured
                /\ spoiled' = IF torn THEN spoiled \cup {r} ELSE spoiled
    <3>1. PICK r \in Records :
                /\ state' = "done" /\ result' = r
                /\ measured' = IF streak' >= Needed THEN measured \cup {r} ELSE measured
                /\ spoiled' = IF torn THEN spoiled \cup {r} ELSE spoiled
      BY <2>3
    <3>2. ~torn => streak' >= Needed
      BY <1>2, <1>5, <2>1 DEF Sized
    <3>3. r \in measured' \cup spoiled' /\ measured \subseteq measured' /\ spoiled \subseteq spoiled'
      BY <3>1, <3>2
    <3>4. record \in measured \cup spoiled => record' \in measured' \cup spoiled'
      BY <1>1, <3>3
    <3>5. StoredWasMeasured'
      BY <1>1, <3>3 DEF RunInv, StoredWasMeasured
    <3> QED
      BY <1>1, <1>2, <1>5, <2>1, <3>1, <3>3, <3>4, <3>5 DEF RunInv
  <2> QED
    BY <1>5, <2>1, <2>2, <2>3 DEF Decides, Restarts
<1> QED
  BY <1>3, <1>4, <1>5 DEF FeedEnds, Decides, Restarts

LEMMA RunStep ==
    ASSUME Sized, RunInv, [CalNext]_calVars
    PROVE  RunInv'
<1>1. CASE FeedEnters
  BY <1>1 DEF FeedEnters, conVars, historyVars, RunInv, StoredWasMeasured
<1>2. CASE StartWipes
  BY <1>2 DEF StartWipes, RunInv, StoredWasMeasured
<1>3. CASE StartOpens
  BY <1>3 DEF StartOpens, RunInv, StoredWasMeasured, Sized
<1>4. CASE SaveBegins
  BY <1>4 DEF SaveBegins, detectVars, historyVars, RunInv, StoredWasMeasured
<1>5. CASE ClearBegins
  BY <1>5 DEF ClearBegins, detectVars, historyVars, RunInv, StoredWasMeasured
<1>6. CASE StoresWord
  BY <1>6 DEF StoresWord, detectVars, RunInv, StoredWasMeasured
<1>7. CASE CalApplies
  BY <1>7 DEF CalApplies, detectVars, historyVars, RunInv, StoredWasMeasured
<1>8. CASE CalSaid
  BY <1>8 DEF CalSaid, historyVars, RunInv, StoredWasMeasured
<1>9. CASE Copies \/ Commits \/ UNCHANGED calVars
  BY <1>9 DEF Copies, Commits, calVars, detectVars, conVars, historyVars, RunInv, StoredWasMeasured
<1>10. CASE PowerLoss
  BY <1>10 DEF PowerLoss, RunInv, StoredWasMeasured
<1> QED
  BY <1>1, <1>2, <1>3, <1>4, <1>5, <1>6, <1>7, <1>8, <1>9, <1>10, FeedKeepsRun DEF CalNext

LEMMA WholeStep ==
    ASSUME Sized, WholeInv, [CalNext]_calVars
    PROVE  WholeInv'
<1>0. Last \in Words
  BY DEF Words, Sized
<1>1. CASE FeedEnters \/ \E still, late \in BOOLEAN : FeedEnds(still, late)
  <2>1. result' \in Contents
    BY <1>1 DEF FeedEnters, FeedEnds, Restarts, Decides, Contents, WholeInv
  <2>2. UNCHANGED <<conVars, storeVars, useVars, stored>>
    BY <1>1 DEF FeedEnters, FeedEnds, historyVars
  <2> QED
    BY <2>1, <2>2 DEF conVars, storeVars, useVars, WholeInv, ValidIsWhole
<1>2. CASE StartWipes \/ StartOpens
  BY <1>2 DEF StartWipes, StartOpens, storeVars, useVars, WholeInv, ValidIsWhole, Contents
<1>3. CASE SaveBegins \/ ClearBegins
  BY <1>3 DEF SaveBegins, ClearBegins, detectVars, storeVars, useVars, historyVars, WholeInv,
              ValidIsWhole, Contents, Sized
<1>4. CASE StoresWord
  <2>1. /\ con \in {"saving", "clearing"} /\ next <= Last /\ con' = con /\ record' = record
        /\ mirror' = [mirror EXCEPT ![next] = record] /\ next' = next + 1
        /\ stored' = IF con = "saving" /\ next = Last THEN stored \cup {record} ELSE stored
        /\ UNCHANGED <<blob, copied, flash, status, applied, result>>
    BY <1>4 DEF StoresWord, useVars, detectVars
  <2>2. next \in Words /\ next' \in Nat
    BY <2>1 DEF WholeInv, Words, Sized
  <2>3. mirror' \in [Words -> Contents]
    BY <2>1, <2>2 DEF WholeInv
  <2>4. stored \subseteq stored'
    BY <2>1
  <2>5. mirror'[Last] \in Records => mirror'[Last] \in stored'
    <3>1. CASE next = Last
      BY <1>0, <2>1, <3>1 DEF WholeInv, Sized
    <3>2. CASE next # Last
      BY <1>0, <2>1, <2>2, <2>4, <3>2 DEF WholeInv
    <3> QED
      BY <3>1, <3>2
  <2>6. con' = "saving" /\ next' > Last => record' \in stored'
    BY <2>1 DEF WholeInv, Sized
  <2>7. ValidIsWhole'
    BY <2>1, <2>4 DEF WholeInv, ValidIsWhole
  <2> QED
    BY <2>1, <2>2, <2>3, <2>4, <2>5, <2>6, <2>7 DEF WholeInv
<1>5. CASE CalApplies
  BY <1>5 DEF CalApplies, detectVars, storeVars, historyVars, WholeInv, ValidIsWhole
<1>6. CASE CalSaid
  BY <1>6 DEF CalSaid, storeVars, historyVars, WholeInv, ValidIsWhole
<1>7. CASE Copies
  <2>1. copied \in Words /\ copied' \in Nat
    BY <1>7 DEF Copies, WholeInv, Words, Sized
  <2>2. blob' = [blob EXCEPT ![copied] = mirror[copied]]
        /\ UNCHANGED <<detectVars, conVars, mirror, flash, useVars, historyVars>>
    BY <1>7 DEF Copies
  <2>3. blob' \in [Words -> Contents]
    BY <2>1, <2>2 DEF WholeInv
  <2>4. blob'[Last] = blob[Last] \/ blob'[Last] = mirror[Last]
    BY <1>0, <2>1, <2>2 DEF WholeInv
  <2> QED
    BY <2>1, <2>2, <2>3, <2>4 DEF detectVars, conVars, useVars, historyVars, WholeInv, ValidIsWhole
<1>8. CASE Commits
  BY <1>8 DEF Commits, detectVars, conVars, useVars, historyVars, WholeInv, ValidIsWhole
<1>9. CASE PowerLoss
  <2>1. status' = "VALID" => applied' \in stored
    <3> SUFFICES ASSUME status' = "VALID"
                 PROVE  applied' \in stored
      OBVIOUS
    <3>1. Parsed(flash) = "VALID" /\ applied' = Loaded(flash)
      BY <1>9 DEF PowerLoss
    <3>2. \E r \in Records : IsRecord(flash, r)
      BY <3>1 DEF Parsed
    <3>3. applied' \in Records /\ IsRecord(flash, applied')
      BY <3>1, <3>2 DEF Loaded
    <3> QED
      BY <1>0, <3>3 DEF IsRecord, WholeInv
  <2>2. con' = "free" /\ record' = Erased /\ result' = Erased /\ next' = 0 /\ copied' = 0
        /\ mirror' = flash /\ blob' = flash /\ flash' = flash /\ stored' = stored
    BY <1>9 DEF PowerLoss
  <2> QED
    BY <2>1, <2>2 DEF WholeInv, ValidIsWhole, Contents
<1>10. CASE UNCHANGED calVars
  BY <1>10 DEF calVars, detectVars, conVars, storeVars, useVars, historyVars, WholeInv, ValidIsWhole
<1> QED
  BY <1>1, <1>2, <1>3, <1>4, <1>5, <1>6, <1>7, <1>8, <1>9, <1>10 DEF CalNext

\* What was stored was measured over a run of its full length without movement
\* or gap, wherever the commands and the power fall, unless a start fell into a
\* feed (fc_imu_detect.c:51-195).
THEOREM CalibrationWasMeasured ==
    ASSUME Sized
    PROVE  CalSpec => []StoredWasMeasured
<1>1. ASSUME CalInit
      PROVE  RunInv
  <2>1. /\ samples = 0 /\ streak = 0 /\ torn = FALSE /\ feed = "out" /\ state = "idle"
        /\ con = "free" /\ stored = {}
    BY <1>1 DEF CalInit
  <2>2. torn \in BOOLEAN
    BY <2>1
  <2> QED
    BY <2>1, <2>2 DEF RunInv, StoredWasMeasured
<1>2. RunInv /\ [CalNext]_calVars => RunInv'
  BY RunStep
<1>3. RunInv => StoredWasMeasured
  BY DEF RunInv
<1> QED
  BY <1>1, <1>2, <1>3, PTL DEF CalSpec

\* A calibration that is in use as VALID was stored to its last word, whatever
\* the storage task copied half-way and whenever the power failed
\* (fc_imu_cal_store.c:42-81, fc_imu_calibration.c:177-226).
THEOREM CalibrationIsWhole ==
    ASSUME Sized
    PROVE  CalSpec => []ValidIsWhole
<1>1. CalInit => WholeInv
  BY DEF CalInit, WholeInv, ValidIsWhole, Contents, Words, Sized
<1>2. WholeInv /\ [CalNext]_calVars => WholeInv'
  BY WholeStep
<1>3. WholeInv => ValidIsWhole
  BY DEF WholeInv
<1> QED
  BY <1>1, <1>2, <1>3, PTL DEF CalSpec

-----------------------------------------------------------------------------
(* The nodes.                                                              *)

\* An age is the silence itself until the clock has gone round.
LEMMA AgeIsSilence ==
    ASSUME Timed, NEW d \in Nat, d < Turn
    PROVE  d % Turn = d
  BY SMT DEF Timed

LEMMA SeenStep ==
    ASSUME Timed, SeenInv, [HealthNext]_healthVars
    PROVE  SeenInv'
<1>1. ASSUME NEW h \in Hearers, Notes(h)
      PROVE  SeenInv'
  BY <1>1 DEF Notes, lookVars, judgeVars, SeenInv, StampsArePast, FreshWithinTurn
<1>2. ASSUME NEW h \in Hearers, NEW n \in Nodes, NEW kind \in Kinds, Hears(h, n, kind)
      PROVE  SeenInv'
  BY <1>2 DEF Hears, nodeVars, lookVars, judgeVars, SeenInv, StampsArePast, FreshWithinTurn
<1>3. ASSUME NEW l \in Lookers, Asks(l) \/ Looks(l)
      PROVE  SeenInv'
  BY <1>3 DEF Asks, Looks, nodeVars, hearVars, judgeVars, SeenInv, StampsArePast, FreshWithinTurn
<1>4. ASSUME NEW l \in Lookers, Judges(l)
      PROVE  SeenInv'
  <2>1. /\ healthy' = [n \in Nodes |-> SeenWithin(n, lookedAt[l])]
        /\ fresh' = [n \in Nodes |-> ever_seen[n] /\ Age(n, asked[l]) < Fresh]
        /\ silence' = [n \in Nodes |-> Silent(n, asked[l])]
        /\ UNCHANGED <<now, last_status, last_seen, ever_seen, heardAt, asked, lookedAt>>
    BY <1>4 DEF Judges, hearVars
  <2>2. \A n \in Nodes : Silent(n, asked[l]) \in Nat
    BY DEF Silent, LastHeard, SeenInv
  <2>3. silence' \in [Nodes -> Nat]
    BY <2>1, <2>2
  <2>4. healthy' \in [Nodes -> BOOLEAN] /\ \A n \in Nodes : healthy'[n] => ever_seen'[n]
    BY <2>1 DEF SeenWithin
  <2>5. fresh' \in [Nodes -> BOOLEAN]
    BY <2>1
  <2>6. ASSUME NEW n \in Nodes, fresh'[n], silence'[n] < Turn
        PROVE  silence'[n] < Fresh
    <3>1. silence'[n] = Silent(n, asked[l]) /\ Silent(n, asked[l]) \in Nat
      BY <2>1, <2>2
    <3>2. Silent(n, asked[l]) % Turn = Silent(n, asked[l])
      BY <2>6, <3>1, AgeIsSilence
    <3>3. Age(n, asked[l]) < Fresh
      BY <2>1, <2>6
    <3> QED
      BY <3>1, <3>2, <3>3 DEF Age
  <2>7. FreshWithinTurn'
    <3>1. \A n \in Nodes : silence'[n] \in Nat
      BY <2>3
    <3> QED
      BY <2>6, <3>1 DEF FreshWithinTurn, Timed
  <2>8. StampsArePast'
    BY <2>1 DEF StampsArePast, SeenInv
  <2> QED
    BY <2>1, <2>3, <2>4, <2>5, <2>7, <2>8 DEF SeenInv
<1>5. CASE Passes \/ UNCHANGED healthVars
  BY <1>5 DEF Passes, healthVars, nodeVars, hearVars, lookVars, judgeVars, SeenInv,
              StampsArePast, FreshWithinTurn
<1> QED
  BY <1>1, <1>2, <1>3, <1>4, <1>5 DEF HealthNext

LEMMA SeenAlways ==
    ASSUME Timed
    PROVE  HealthSpec => []SeenInv
<1>1. HealthInit => SeenInv
  BY DEF HealthInit, SeenInv, StampsArePast, FreshWithinTurn
<1>2. SeenInv /\ [HealthNext]_healthVars => SeenInv'
  BY SeenStep
<1> QED
  BY <1>1, <1>2, PTL DEF HealthSpec

\* For less than a turn of the 32-bit clock the coordinator's age of a node is
\* true, in whatever order stamps and looks come (fc_motor_experiment.c:92-100).
THEOREM FreshIsTrueWithinTurn ==
    ASSUME Timed
    PROVE  HealthSpec => []FreshWithinTurn
<1>1. SeenInv => FreshWithinTurn
  BY DEF SeenInv
<1> QED
  BY <1>1, SeenAlways, PTL

\* A drop of a node that has not been silent is of a look made before it was
\* heard of, and of nothing else (fc_can_health.c:84-93).
THEOREM NodesDropForReason ==
    ASSUME Timed
    PROVE  HealthSpec => DropsHaveReason
<1>1. SeenInv /\ [HealthNext]_healthVars =>
        [\A n \in Nodes : healthy[n] /\ ~healthy'[n] =>
           \/ now - last_seen[n] >= Stale
           \/ \E l \in Lookers : looking[l] = "looked" /\ last_seen[n] > lookedAt[l]]_healthVars
  <2> SUFFICES ASSUME SeenInv, [HealthNext]_healthVars, ~UNCHANGED healthVars,
                      NEW n \in Nodes, healthy[n], ~healthy'[n]
               PROVE  \/ now - last_seen[n] >= Stale
                      \/ \E l \in Lookers : looking[l] = "looked" /\ last_seen[n] > lookedAt[l]
    OBVIOUS
  <2>1. PICK l \in Lookers : Judges(l)
    <3>1. healthy' # healthy
      OBVIOUS
    <3>2. ASSUME NEW h \in Hearers, Notes(h)
          PROVE  FALSE
      BY <3>2 DEF Notes, SeenInv
    <3> QED
      BY <3>1, <3>2 DEF HealthNext, Passes, Hears, Asks, Looks, nodeVars
  <2>2. looking[l] = "looked" /\ ~SeenWithin(n, lookedAt[l])
    BY <2>1 DEF Judges
  <2>3. ever_seen[n] /\ last_seen[n] \in Nat /\ lookedAt[l] \in Nat /\ now \in Nat
        /\ lookedAt[l] <= now
    BY DEF SeenInv, StampsArePast
  <2>4. CASE last_seen[n] <= lookedAt[l]
    <3>1. ~(lookedAt[l] - last_seen[n] < Stale)
      BY <2>2, <2>3, <2>4 DEF SeenWithin
    <3> QED
      BY <2>3, <2>4, <3>1 DEF Timed
  <2> QED
    BY <2>2, <2>3, <2>4
<1> QED
  BY <1>1, SeenAlways, PTL DEF HealthSpec, DropsHaveReason

-----------------------------------------------------------------------------
(* The stream of commands.                                                 *)

\* The check is made in 32 bits: it is of worth as long as nothing in it turns over.
\* The ESC takes the default tick for none.
SmallPolicy ==
    /\ Period \in Nat /\ Misses \in Nat /\ EscTimeout \in Nat /\ SupTimeout \in Nat
    /\ EscTick \in Nat /\ DefaultTick \in Nat /\ LongestHold \in Nat /\ Wrap \in Nat
    /\ Misses + 1 < Wrap /\ 2 * Tick < Wrap /\ 2 * LongestHold < Wrap

CommandInv ==
    /\ clock \in Nat /\ last_command \in Nat /\ max_gap \in Nat /\ older \in Nat
    /\ escLast \in Nat /\ woke \in Nat
    /\ armed \in BOOLEAN /\ escHolds \in BOOLEAN
    /\ lastIs \in {"none", "sent", "heard", "lost"}
    /\ last_command <= clock /\ escLast <= clock
    /\ woke <= clock /\ clock <= woke + Tick
    /\ lastIs # "none" => armed
    /\ lastIs = "heard" => last_command <= escLast
    /\ escHolds => lastIs # "none" /\ woke - escLast <= EscTimeout
    /\ older > 0 => lastIs # "none"

\* What the check of the policy comes to.
LEMMA PolicyMeans ==
    ASSUME SmallPolicy, PolicyValid
    PROVE  /\ Tick \in Nat /\ Tolerated = Period * (Misses + 1) /\ Tolerated \in Nat
           /\ Tolerated <= SupTimeout /\ SupTimeout < EscTimeout
           /\ 2 * Tick <= EscTimeout /\ WorstCase = EscTimeout + Tick
<1>1. Tick \in Nat
  BY DEF Tick, SmallPolicy
<1>2. \A x \in Nat : x < Wrap => x % Wrap = x
  BY SMT DEF SmallPolicy
<1>3. (Misses + 1) % Wrap = Misses + 1 /\ (2 * Tick) % Wrap = 2 * Tick
  BY <1>1, <1>2 DEF SmallPolicy
<1>4. 2 * Tick <= EscTimeout /\ EscTimeout <= LongestHold /\ SupTimeout < EscTimeout
      /\ Tolerated <= SupTimeout
  BY <1>3 DEF PolicyValid
<1>5. EscTimeout + Tick \in Nat /\ EscTimeout + Tick < Wrap
  BY <1>1, <1>4 DEF SmallPolicy
<1>6. WorstCase = EscTimeout + Tick
  BY <1>2, <1>5 DEF WorstCase
<1>7. Tolerated = Period * (Misses + 1) /\ Period * (Misses + 1) \in Nat
  BY <1>3 DEF Tolerated, SmallPolicy
<1> QED
  BY <1>1, <1>4, <1>6, <1>7

LEMMA CommandStep ==
    ASSUME SmallPolicy, PolicyValid, CommandInv, [CommandNext]_commandVars
    PROVE  CommandInv'
<1>1. Tick \in Nat /\ EscTimeout \in Nat /\ 2 * Tick <= EscTimeout
  BY PolicyMeans DEF SmallPolicy
<1>2. CASE Sent
  <2>1. clock - last_command \in Nat /\ Wrap \in Nat \ {0}
    BY <1>1 DEF CommandInv, SmallPolicy
  <2>2. \A x, y \in Nat : y # 0 => x % y \in Nat
    BY SMT
  <2>3. (clock - last_command) % Wrap \in Nat
    BY <2>1, <2>2
  <2>4. max_gap' \in Nat
    BY <1>2, <2>3 DEF Sent, CommandInv
  <2> QED
    BY <1>1, <1>2, <2>4 DEF Sent, escVars, CommandInv
<1>3. CASE Polls
  BY <1>1, <1>3 DEF Polls, busVars, escVars, CommandInv
<1>4. CASE OlderArrives \/ LastArrives
  <2>1. /\ escHolds' = TRUE /\ escLast' = clock /\ lastIs' # "none" /\ older' \in Nat
        /\ lastIs' \in {"sent", "heard", "lost"} /\ armed = TRUE
    BY <1>4 DEF OlderArrives, LastArrives, EscHears, CommandInv
  <2>2. UNCHANGED <<clock, last_command, armed, max_gap, woke>>
    BY <1>4 DEF OlderArrives, LastArrives, EscHears, streamVars
  <2> QED
    BY <1>1, <2>1, <2>2 DEF CommandInv
<1>5. CASE OlderLost \/ LastLost
  BY <1>1, <1>5 DEF OlderLost, LastLost, streamVars, escVars, CommandInv
<1>6. CASE EscWakes
  <2>1. UNCHANGED <<clock, last_command, armed, max_gap, older, lastIs, escLast>>
    BY <1>6 DEF EscWakes, streamVars, busVars
  <2>2. woke' = clock /\ escHolds' \in BOOLEAN
    BY <1>6 DEF EscWakes
  <2>3. escHolds' => escHolds /\ clock - escLast <= EscTimeout
    <3>1. escHolds' => escHolds /\ ~(EscTimeout # 0 /\ clock - escLast > EscTimeout)
      BY <1>6 DEF EscWakes
    <3>2. EscTimeout # 0
      BY DEF PolicyValid
    <3>3. clock - escLast \in Int /\ EscTimeout \in Int
      BY <1>1 DEF CommandInv
    <3> QED
      BY <3>1, <3>2, <3>3
  <2> QED
    BY <1>1, <2>1, <2>2, <2>3 DEF CommandInv
<1>7. CASE ClockTicks
  BY <1>1, <1>7 DEF ClockTicks, streamVars, busVars, escVars, CommandInv
<1>8. CASE UNCHANGED commandVars
  BY <1>1, <1>8 DEF commandVars, streamVars, busVars, escVars, CommandInv
<1> QED
  BY <1>2, <1>3, <1>4, <1>5, <1>6, <1>7, <1>8 DEF CommandNext

LEMMA CommandAlways ==
    ASSUME SmallPolicy, PolicyValid
    PROVE  CommandSpec => []CommandInv
<1>1. ASSUME CommandInit
      PROVE  CommandInv
  <2>1. Tick \in Nat
    BY PolicyMeans
  <2>2. armed \in BOOLEAN /\ escHolds \in BOOLEAN /\ ~escHolds
    BY <1>1 DEF CommandInit
  <2>3. /\ clock = 0 /\ last_command = 0 /\ max_gap = 0 /\ older = 0 /\ escLast = 0 /\ woke = 0
        /\ lastIs = "none"
    BY <1>1 DEF CommandInit
  <2> QED
    BY <2>1, <2>2, <2>3 DEF CommandInv
<1>2. CommandInv /\ [CommandNext]_commandVars => CommandInv'
  BY CommandStep
<1> QED
  BY <1>1, <1>2, PTL DEF CommandSpec

\* FloatCore says LOST before the ESC takes the thrust away by itself, for every
\* valid policy, unless the bus has kept the last command (fc_command_watchdog.c:35-42).
THEOREM LossIsFoundFirst ==
    ASSUME SmallPolicy, PolicyValid
    PROVE  CommandSpec => LostComesFirst
<1>1. CommandInv /\ [CommandNext]_commandVars =>
        [escHolds /\ ~escHolds' => Polled = "LOST" \/ lastIs \in {"sent", "lost"}]_commandVars
  <2> SUFFICES ASSUME CommandInv, [CommandNext]_commandVars, ~UNCHANGED commandVars,
                      escHolds, ~escHolds', lastIs \notin {"sent", "lost"}
               PROVE  Polled = "LOST"
    OBVIOUS
  <2>1. EscWakes
    BY DEF CommandNext, Sent, Polls, OlderArrives, LastArrives, EscHears, OlderLost, LastLost,
           ClockTicks, escVars
  <2>2. clock - escLast > EscTimeout /\ lastIs = "heard"
    BY <2>1 DEF EscWakes, CommandInv
  <2>3. SupTimeout \in Nat /\ EscTimeout \in Nat /\ SupTimeout < EscTimeout
    BY PolicyMeans DEF SmallPolicy
  <2>4. armed /\ clock - last_command >= SupTimeout
    BY <2>2, <2>3 DEF CommandInv
  <2> QED
    BY <2>4 DEF Polled
<1> QED
  BY <1>1, CommandAlways, PTL DEF CommandSpec, LostComesFirst

\* The last command drives the motor for no longer than worst_case_us says
\* (fc_command_watchdog.c:64-70).
THEOREM HoldBounded ==
    ASSUME SmallPolicy, PolicyValid
    PROVE  CommandSpec => []HoldIsBounded
<1>1. CommandInv => HoldIsBounded
  BY PolicyMeans DEF CommandInv, HoldIsBounded, SmallPolicy
<1> QED
  BY <1>1, CommandAlways, PTL

\* No loss is declared while a miss that the policy tolerates is left
\* (fc_command_watchdog.c:44-51).
THEOREM MissesAreTolerated ==
    ASSUME SmallPolicy, PolicyValid
    PROVE  CommandSpec => ToleratedFirst
<1>1. CommandInv /\ [CommandNext]_commandVars =>
        [stream' = "LOST" /\ stream # "LOST" =>
           clock - last_command >= Period * (Misses + 1)]_commandVars
  <2> SUFFICES ASSUME CommandInv, [CommandNext]_commandVars, ~UNCHANGED commandVars,
                      stream' = "LOST", stream # "LOST"
               PROVE  clock - last_command >= Period * (Misses + 1)
    OBVIOUS
  <2>1. Polls
    BY DEF CommandNext, Sent, OlderArrives, LastArrives, EscHears, OlderLost, LastLost,
           ClockTicks, EscWakes, streamVars
  <2>2. clock - last_command >= SupTimeout
    BY <2>1 DEF Polls, Polled
  <2>3. Tolerated = Period * (Misses + 1) /\ Tolerated \in Nat /\ Tolerated <= SupTimeout
        /\ SupTimeout \in Nat
    BY PolicyMeans DEF SmallPolicy
  <2> QED
    BY <2>2, <2>3 DEF CommandInv
<1> QED
  BY <1>1, CommandAlways, PTL DEF CommandSpec, ToleratedFirst

-----------------------------------------------------------------------------
(* The one command by hand.                                                *)

Measures ==
    /\ Ttl \in Nat /\ Envelope \in Nat \ {0} /\ LeastTilt \in Nat /\ MostTilt \in Nat
    /\ Tilts \subseteq Int /\ Currents \subseteq Int

\* What a token says: a tilt in the window and the current that rights it.
TokenRights ==
    /\ Magnitude(err_deg) >= LeastTilt /\ Magnitude(err_deg) <= MostTilt
    /\ \/ amps = Envelope /\ err_deg > 0
       \/ amps = -Envelope /\ err_deg < 0

\* What the second step has seen agrees with the token.
CheckedAgrees ==
    /\ checked.permitted /\ checked.waited <= Ttl
    /\ \/ amps > 0 /\ checked.tilt > 0 /\ checked.wanted >= Envelope
       \/ amps < 0 /\ checked.tilt <= 0 /\ checked.wanted <= -Envelope

OneShotInv ==
    /\ tilt \in Int /\ wanted \in Int /\ amps \in Int /\ err_deg \in Int
    /\ waited \in Nat /\ passed \in Nat /\ pairs \in Nat
    /\ valid \in BOOLEAN /\ fits \in BOOLEAN
    /\ valid => step = "free"
    /\ valid \/ step = "firing" \/ (step = "telemetry" /\ fits) => TokenRights
    /\ step = "firing" => CheckedAgrees
    /\ PairPerPreparation

LEMMA OneShotStep ==
    ASSUME Measures, OneShotInv, [OneShotNext]_oneShotVars
    PROVE  OneShotInv'
<1>1. CASE BoardMoves
  BY <1>1 DEF BoardMoves, tokenVars, Measures, OneShotInv, TokenRights, CheckedAgrees,
              PairPerPreparation, Magnitude
<1>2. CASE TimePasses
  BY <1>2 DEF TimePasses, boardVars, OneShotInv, TokenRights, CheckedAgrees,
              PairPerPreparation, Magnitude
<1>3. CASE PrepLooks
  <2>1. Fits \in BOOLEAN
    BY DEF Fits
  <2>2. Fits => TokenRights'
    BY <1>3 DEF PrepLooks, Fits, Sign, TokenRights, Magnitude, OneShotInv, Measures
  <2>3. amps' \in Int /\ err_deg' \in Int
    BY <1>3 DEF PrepLooks, OneShotInv, Measures
  <2>4. PairPerPreparation'
    BY <1>3 DEF PrepLooks, OneShotInv, PairPerPreparation
  <2> QED
    BY <1>3, <2>1, <2>2, <2>3, <2>4 DEF PrepLooks, boardVars, OneShotInv
<1>4. ASSUME NEW halves \in BOOLEAN, PrepEnds(halves)
      PROVE  OneShotInv'
  <2>1. CASE fits /\ halves
    <3>1. step' = "free" /\ fits' = FALSE /\ valid = FALSE /\ valid' = TRUE
      BY <1>4, <2>1 DEF PrepEnds, OneShotInv
    <3>2. /\ tilt' \in Int /\ wanted' \in Int /\ amps' \in Int /\ err_deg' \in Int
          /\ waited' \in Nat /\ passed' \in Nat /\ pairs' \in Nat
      BY <1>4, <2>1 DEF PrepEnds, boardVars, OneShotInv
    <3>3. TokenRights'
      BY <1>4, <2>1 DEF PrepEnds, OneShotInv, TokenRights, Magnitude
    <3>4. PairPerPreparation'
      BY <1>4, <2>1, <3>1 DEF PrepEnds, OneShotInv, PairPerPreparation
    <3> QED
      BY <3>1, <3>2, <3>3, <3>4 DEF OneShotInv
  <2>2. CASE ~(fits /\ halves)
    <3>1. step' = "free" /\ fits' = FALSE /\ valid = FALSE /\ valid' = FALSE
      BY <1>4, <2>2 DEF PrepEnds, OneShotInv
    <3>2. /\ tilt' \in Int /\ wanted' \in Int /\ amps' \in Int /\ err_deg' \in Int
          /\ waited' \in Nat /\ passed' \in Nat /\ pairs' \in Nat
      BY <1>4, <2>2 DEF PrepEnds, boardVars, OneShotInv
    <3>3. PairPerPreparation'
      BY <1>4, <2>2, <3>1 DEF PrepEnds, OneShotInv, PairPerPreparation
    <3> QED
      BY <3>1, <3>2, <3>3 DEF OneShotInv
  <2> QED
    BY <2>1, <2>2
<1>5. CASE FireRefused
  <2>1. step = "free" /\ step' = "free" /\ fits' = fits /\ valid' = FALSE
    BY <1>5 DEF FireRefused
  <2>2. fits' \in BOOLEAN
    BY <2>1 DEF OneShotInv
  <2>3. /\ tilt' \in Int /\ wanted' \in Int /\ amps' \in Int /\ err_deg' \in Int
        /\ waited' \in Nat /\ passed' \in Nat /\ pairs' \in Nat
    BY <1>5 DEF FireRefused, boardVars, OneShotInv
  <2>4. PairPerPreparation'
    BY <1>5 DEF FireRefused, OneShotInv, PairPerPreparation
  <2> QED
    BY <2>1, <2>2, <2>3, <2>4 DEF OneShotInv
<1>6. CASE FirePasses
  <2>1. TokenRights /\ TokenRights'
    BY <1>6 DEF FirePasses, OneShotInv, TokenRights, Magnitude
  <2>2. CheckedAgrees'
    BY <1>6, <2>1 DEF FirePasses, StillFits, TwoSign, CheckedAgrees, TokenRights, Magnitude,
                      OneShotInv, Measures
  <2>3. PairPerPreparation'
    BY <1>6 DEF FirePasses, OneShotInv, PairPerPreparation
  <2>4. valid' = FALSE /\ fits' = fits /\ step' = "firing"
    BY <1>6 DEF FirePasses
  <2>5. valid' \in BOOLEAN /\ fits' \in BOOLEAN
    BY <2>4 DEF OneShotInv
  <2>6. /\ tilt' \in Int /\ wanted' \in Int /\ amps' \in Int /\ err_deg' \in Int
        /\ waited' \in Nat /\ passed' \in Nat /\ pairs' \in Nat
    BY <1>6 DEF FirePasses, boardVars, OneShotInv
  <2> QED
    BY <2>1, <2>2, <2>3, <2>4, <2>5, <2>6 DEF OneShotInv
<1>7. ASSUME NEW allowed \in BOOLEAN, Oneshot(allowed)
      PROVE  OneShotInv'
  <2>1. step = "firing" /\ step' = "free" /\ valid = FALSE /\ valid' = valid /\ fits' = fits
    BY <1>7 DEF Oneshot, tokenVars, OneShotInv
  <2>2. valid' \in BOOLEAN /\ fits' \in BOOLEAN
    BY <2>1 DEF OneShotInv
  <2>3. /\ tilt' \in Int /\ wanted' \in Int /\ amps' \in Int /\ err_deg' \in Int
        /\ waited' \in Nat /\ passed' \in Nat /\ pairs' \in Nat
    BY <1>7 DEF Oneshot, boardVars, tokenVars, OneShotInv
  <2>4. PairPerPreparation'
    BY <1>7, <2>1 DEF Oneshot, OneShotInv, PairPerPreparation
  <2> QED
    BY <2>1, <2>2, <2>3, <2>4 DEF OneShotInv
<1>8. CASE UNCHANGED oneShotVars
  BY <1>8 DEF oneShotVars, boardVars, tokenVars, OneShotInv, TokenRights, CheckedAgrees,
              PairPerPreparation, Magnitude
<1> QED
  BY <1>1, <1>2, <1>3, <1>4, <1>5, <1>6, <1>7, <1>8 DEF OneShotNext

LEMMA OneShotAlways ==
    ASSUME Measures
    PROVE  OneShotSpec => []OneShotInv
<1>1. ASSUME OneShotInit
      PROVE  OneShotInv
  <2>1. valid \in BOOLEAN /\ fits \in BOOLEAN
    BY <1>1 DEF OneShotInit
  <2>2. ~valid /\ step = "free"
    BY <1>1 DEF OneShotInit
  <2>3. /\ tilt \in Int /\ wanted \in Int /\ amps \in Int /\ err_deg \in Int
        /\ waited \in Nat /\ passed \in Nat /\ pairs \in Nat
    BY <1>1 DEF OneShotInit, Measures
  <2>4. PairPerPreparation
    BY <1>1, <2>2 DEF OneShotInit, PairPerPreparation
  <2> QED
    BY <2>1, <2>2, <2>3, <2>4 DEF OneShotInv
<1> QED
  BY <1>1, OneShotStep, PTL DEF OneShotSpec

\* One preparation, one pair at most (fc_console.c:1648-1672).
THEOREM OnePairPerPreparation ==
    ASSUME Measures
    PROVE  OneShotSpec => []PairPerPreparation
<1>1. OneShotInv => PairPerPreparation
  BY DEF OneShotInv
<1> QED
  BY <1>1, OneShotAlways, PTL

\* A pair goes the way that rights the board, as prepared and as seen again
\* (fc_console.c:1653-1672).
THEOREM PairsRightTheBoard ==
    ASSUME Measures
    PROVE  OneShotSpec => PairRightsBoard
<1> DEFINE Righted ==
      /\ ~driving
      /\ checked.permitted /\ checked.waited <= Ttl
      /\ Magnitude(err_deg) >= LeastTilt /\ Magnitude(err_deg) <= MostTilt
      /\ \/ amps = Envelope /\ err_deg > 0 /\ checked.tilt > 0 /\ checked.wanted >= Envelope
         \/ amps = -Envelope /\ err_deg < 0 /\ checked.tilt <= 0 /\ checked.wanted <= -Envelope
<1>1. Measures /\ OneShotInv /\ [OneShotNext]_oneShotVars =>
        [pairs' # pairs => Righted]_oneShotVars
  <2> SUFFICES ASSUME Measures, OneShotInv, [OneShotNext]_oneShotVars, pairs' # pairs,
                      ~UNCHANGED oneShotVars
               PROVE  Righted
    OBVIOUS
  <2>1. PICK allowed \in BOOLEAN : Oneshot(allowed)
    BY DEF OneShotNext, BoardMoves, TimePasses, PrepLooks, PrepEnds, FireRefused, FirePasses
  <2>2. step = "firing" /\ ~driving
    BY <2>1 DEF Oneshot
  <2>3. TokenRights /\ CheckedAgrees
    BY <2>2 DEF OneShotInv
  <2>4. Envelope \in Nat \ {0}
    BY DEF Measures
  <2>5. \/ amps = Envelope /\ err_deg > 0 /\ checked.tilt > 0 /\ checked.wanted >= Envelope
        \/ amps = -Envelope /\ err_deg < 0 /\ checked.tilt <= 0 /\ checked.wanted <= -Envelope
    BY <2>3, <2>4 DEF TokenRights, CheckedAgrees
  <2> QED
    BY <2>2, <2>3, <2>5 DEF TokenRights, CheckedAgrees
<1> QED
  BY <1>1, OneShotAlways, PTL DEF OneShotSpec, PairRightsBoard
=============================================================================
