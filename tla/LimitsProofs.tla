---------------------------- MODULE LimitsProofs ----------------------------
(***************************************************************************)
(* What is proved of the diagnostic requests and of the synchronisation of *)
(* the limits, for every set of contents, number of parts, time-out and    *)
(* number of tries, and any two ESCs.                                      *)
(*                                                                         *)
(* HalvesInv  once limits are handed on, both halves have been read.       *)
(* ForceInv   what each ESC is held to follows, step by step; between the  *)
(*            two halves only the first has the new limit.                 *)
(* CommonInv  what is called common is still in force while the next       *)
(*            synchronisation reads.                                       *)
(* WaitInv    the receive task and the request take turns: while the       *)
(*            answer is not complete the first may write, then the second  *)
(*            reads; so a complete answer is never one of two.             *)
(* CleanInv   on a bus that answers, a second try is always let through:   *)
(*            the pause has outlasted the limiter.                         *)
(***************************************************************************)
EXTENDS LimitsSync, TLAPS

-----------------------------------------------------------------------------
(* The limits.                                                             *)

\* The synchronisation holds two valid halves once it has begun to hand them on.
HalvesInv ==
    sync.step \in {"escA", "escB", "refresh", "apply"} =>
        /\ \A n \in Nodes : half[n] \in Configs
        /\ Intersection # NoConfig /\ status.common = Intersection

\* What is in force: nothing yet, or both halves; between the two halves what was.
ForceInv ==
    /\ sync.step \notin {"escB", "refresh", "apply"} =>
          \/ /\ \A n \in Nodes : esc[n] = NoLimit
             /\ seen = StubLimit /\ ~status.applied
          \/ (\A n \in Nodes : esc[n] # NoLimit) /\ seen = Effective
    /\ sync.step = "escB" => esc[First] = half[First].limit
    /\ sync.step \in {"refresh", "apply"} => \A n \in Nodes : esc[n] = half[n].limit
    /\ sync.step = "apply" => seen = Effective

\* What is taken for the common limits is in force, until the next ones are joined.
CommonInv ==
    sync.step \in {"off", "reading", "join"} /\ status.applied /\ status.common # NoConfig =>
        status.common.limit = Min({esc[n] : n \in Nodes})

SyncRecords == [step : SyncSteps, of : Nodes, attempt : 0 .. Attempts, pause : 0 .. RetryDelay]

SyncTypeOK ==
    /\ sync \in SyncRecords
    /\ half \in [Nodes -> Configs \cup {NoConfig}]
    /\ status \in [common : Configs \cup {NoConfig}, applied : BOOLEAN]
    /\ esc \in [Nodes -> Limits \cup {NoLimit}]
    /\ seen \in Limits \cup {OwnLimit, StubLimit}
    /\ clean \in BOOLEAN

LimitsInv == SyncTypeOK /\ HalvesInv /\ ForceInv /\ CommonInv

LEMMA TwoNodes == First \in Nodes /\ Second \in Nodes /\ First # Second /\ Nodes = {First, Second}
<1>1. PICK a \in Nodes, b \in Nodes : a # b /\ Nodes = {a, b}
  BY CanAssumption
<1>2. First \in Nodes
  BY <1>1 DEF First
<1>3. Second \in Nodes /\ Second # First
  BY <1>1, <1>2 DEF Second
<1> QED
  BY <1>1, <1>2, <1>3

LEMMA MinOfTwo ==
    ASSUME NEW a \in Nat, NEW b \in Nat
    PROVE  Min({a, b}) \in {a, b}
<1>1. \E x \in {a, b} : \A y \in {a, b} : x <= y
  BY a <= b \/ b <= a
<1> QED
  BY <1>1 DEF Min

LEMMA MinOfThree ==
    ASSUME NEW a \in Nat, NEW b \in Nat, NEW c \in Nat
    PROVE  Min({a, b, c}) \in {a, b, c}
<1>1. \E x \in {a, b, c} : \A y \in {a, b, c} : x <= y
  BY a <= b \/ b <= a, b <= c \/ c <= b, a <= c \/ c <= a
<1> QED
  BY <1>1 DEF Min

\* The limit Refloat is told, once both halves are known.
LEMMA EffectiveType ==
    ASSUME SyncTypeOK, \A n \in Nodes : esc[n] # NoLimit
    PROVE  Effective \in Limits \cup {OwnLimit}
<1>1. esc[First] \in Limits /\ esc[Second] \in Limits
  BY TwoNodes DEF SyncTypeOK
<1>2. {n \in Nodes : esc[n] # NoLimit} = {First, Second}
  BY TwoNodes
<1>3. {OwnLimit} \cup {esc[n] : n \in {m \in Nodes : esc[m] # NoLimit}}
        = {OwnLimit, esc[First], esc[Second]}
  BY <1>2
<1>4. Min({OwnLimit, esc[First], esc[Second]}) \in {OwnLimit, esc[First], esc[Second]}
  BY <1>1, MinOfThree, LimitsAssumption
<1> QED
  BY <1>1, <1>3, <1>4 DEF Effective

LEMMA IntersectionType ==
    ASSUME SyncTypeOK, \A n \in Nodes : half[n] # NoConfig
    PROVE  /\ \A n \in Nodes : half[n] \in Configs
           /\ Intersection \in Configs \cup {NoConfig}
           /\ Intersection # NoConfig =>
                Intersection.limit = Min({half[First].limit, half[Second].limit})
<1>1. \A n \in Nodes : half[n] \in Configs
  BY DEF SyncTypeOK
<1>2. /\ half[First].limit \in Limits /\ half[Second].limit \in Limits
      /\ half[First].poles \in Poles
  BY <1>1, TwoNodes DEF Configs
<1>3. Min({half[First].limit, half[Second].limit}) \in Limits
  BY <1>2, MinOfTwo, LimitsAssumption
<1> QED
  BY <1>1, <1>2, <1>3 DEF Intersection, Configs

LEMMA DecodedType == Decoded \in Configs \cup {NoConfig}
  BY DEF Decoded

LEMMA InitLimits == SyncInit => LimitsInv
<1> SUFFICES ASSUME SyncInit PROVE LimitsInv
  OBVIOUS
<1>1. sync \in SyncRecords
  BY TwoNodes, LimitsAssumption DEF SyncInit, SyncRecords, SyncSteps
<1>2. SyncTypeOK
  BY <1>1, LimitsAssumption DEF SyncInit, SyncTypeOK
<1>3. sync.step = "off" /\ ~status.applied
  BY DEF SyncInit
<1> QED
  BY <1>2, <1>3, TwoNodes DEF SyncInit, LimitsInv, HalvesInv, ForceInv, CommonInv

\* Steps that leave what was read and what is in force alone, and do not hand on.
LEMMA QuietSync ==
    ASSUME LimitsInv, sync' \in SyncRecords, UNCHANGED <<half, limitVars>>, clean' \in BOOLEAN,
           sync'.step = sync.step \/ {sync.step, sync'.step} \subseteq {"off", "reading", "join"}
    PROVE  LimitsInv'
<1>1. UNCHANGED <<half, status, esc, seen>>
  BY DEF limitVars
<1>2. Intersection' = Intersection /\ Effective' = Effective
  BY <1>1 DEF Intersection, Effective
<1> QED
  BY <1>1, <1>2 DEF LimitsInv, SyncTypeOK, HalvesInv, ForceInv, CommonInv

LEMMA SyncReadsKeeps ==
    ASSUME LimitsInv, SyncReads
    PROVE  LimitsInv'
<1>1. /\ sync.step = "reading" /\ sync \in SyncRecords /\ SyncTypeOK
      /\ UNCHANGED <<status, esc, seen>> /\ clean' \in BOOLEAN
  BY DEF LimitsInv, SyncReads, SyncTypeOK, limitVars
<1>2. /\ sync.of \in Nodes /\ sync.attempt \in 0 .. Attempts /\ sync.pause \in 0 .. RetryDelay
      /\ 0 \in 0 .. Attempts /\ 0 \in 0 .. RetryDelay /\ RetryDelay \in 0 .. RetryDelay
  BY <1>1, LimitsAssumption DEF SyncRecords
<1>3. /\ half' \in [Nodes -> Configs \cup {NoConfig}]
      /\ sync' \in SyncRecords /\ sync'.step \in {"reading", "join"}
  <2>1. ASSUME NEW value \in Configs \cup {NoConfig}, HalfDone(value)
        PROVE  /\ half' \in [Nodes -> Configs \cup {NoConfig}]
               /\ sync' \in SyncRecords /\ sync'.step \in {"reading", "join"}
    <3>1. half' \in [Nodes -> Configs \cup {NoConfig}]
      BY <1>1, <2>1 DEF HalfDone, SyncTypeOK
    <3>2. sync' \in SyncRecords /\ sync'.step \in {"reading", "join"}
      BY <1>1, <1>2, <2>1, TwoNodes DEF HalfDone, SyncRecords, SyncSteps
    <3> QED
      BY <3>1, <3>2
  <2>2. CASE sync.attempt + 1 < Attempts /\ Retry
    <3>1. sync.attempt + 1 \in 0 .. Attempts
      BY <1>2, <2>2, LimitsAssumption
    <3>2. sync' \in SyncRecords /\ sync'.step = sync.step
      BY <1>1, <1>2, <2>2, <3>1 DEF Retry, SyncRecords
    <3> QED
      BY <1>1, <2>2, <3>2 DEF Retry, SyncTypeOK
  <2>3. NoConfig \in Configs \cup {NoConfig}
    OBVIOUS
  <2> QED
    BY <2>1, <2>2, <2>3, DecodedType DEF SyncReads
<1>4. Effective' = Effective
  BY <1>1 DEF Effective
<1> QED
  BY <1>1, <1>3, <1>4 DEF LimitsInv, SyncTypeOK, HalvesInv, ForceInv, CommonInv

LEMMA SyncJoinsKeeps ==
    ASSUME LimitsInv, SyncJoins
    PROVE  LimitsInv'
<1>1. /\ sync.step = "join" /\ sync \in SyncRecords /\ SyncTypeOK
      /\ UNCHANGED <<half, esc, seen, clean>>
  BY DEF LimitsInv, SyncJoins, SyncTypeOK
<1>2. Effective' = Effective /\ Intersection' = Intersection
  BY <1>1 DEF Effective, Intersection
<1>3. CASE \E n \in Nodes : half[n] = NoConfig
  <2>1. sync' \in SyncRecords /\ sync'.step = "off" /\ UNCHANGED status
    BY <1>1, <1>3 DEF SyncJoins, SyncRecords, SyncSteps
  <2> QED
    BY <1>1, <1>2, <2>1 DEF LimitsInv, SyncTypeOK, HalvesInv, ForceInv, CommonInv
<1>4. CASE \A n \in Nodes : half[n] # NoConfig
  <2>1. /\ \A n \in Nodes : half[n] \in Configs
        /\ Intersection \in Configs \cup {NoConfig}
    BY <1>1, <1>4, IntersectionType
  <2>2. /\ status' = [status EXCEPT !.common = Intersection]
        /\ sync' = [sync EXCEPT !.step = IF Intersection = NoConfig THEN "off" ELSE "escA"]
    BY <1>4 DEF SyncJoins
  <2>3. /\ status' \in [common : Configs \cup {NoConfig}, applied : BOOLEAN]
        /\ status'.common = Intersection /\ status'.applied = status.applied
    BY <1>1, <2>1, <2>2 DEF SyncTypeOK
  <2>4. /\ sync' \in SyncRecords
        /\ sync'.step = IF Intersection = NoConfig THEN "off" ELSE "escA"
    BY <1>1, <2>2 DEF SyncRecords, SyncSteps
  <2> HIDE DEF NoConfig
  <2> QED
    BY <1>1, <1>2, <2>1, <2>3, <2>4 DEF LimitsInv, SyncTypeOK, HalvesInv, ForceInv, CommonInv
<1> QED
  BY <1>3, <1>4

LEMMA SetEscKeeps ==
    ASSUME LimitsInv,
           SetEsc("escA", First, "escB") \/ SetEsc("escB", Second, "refresh")
    PROVE  LimitsInv'
<1>1. /\ sync.step \in {"escA", "escB"} /\ sync \in SyncRecords /\ SyncTypeOK
      /\ UNCHANGED <<half, status, seen, clean>>
  BY DEF LimitsInv, SetEsc, SyncTypeOK
<1>2. /\ Intersection' = Intersection
      /\ \A n \in Nodes : half[n] \in Configs /\ half[n].limit \in Limits
  BY <1>1 DEF Intersection, LimitsInv, HalvesInv, Configs
<1>3. /\ sync' \in SyncRecords
      /\ sync.step = "escA" => sync'.step = "escB" /\ esc' = [esc EXCEPT ![First] = half[First].limit]
      /\ sync.step = "escB" => sync'.step = "refresh" /\ esc' = [esc EXCEPT ![Second] = half[Second].limit]
  BY <1>1 DEF SetEsc, SyncRecords, SyncSteps
<1>4. /\ esc' \in [Nodes -> Limits \cup {NoLimit}]
      /\ sync.step = "escA" => esc'[First] = half[First].limit
      /\ sync.step = "escB" => \A n \in Nodes : esc'[n] = half[n].limit
  BY <1>1, <1>2, <1>3, TwoNodes DEF SyncTypeOK, LimitsInv, ForceInv
<1> QED
  BY <1>1, <1>2, <1>3, <1>4 DEF LimitsInv, SyncTypeOK, HalvesInv, ForceInv, CommonInv

LEMMA SyncRefreshesKeeps ==
    ASSUME LimitsInv, SyncRefreshes
    PROVE  LimitsInv'
<1>1. /\ sync.step = "refresh" /\ sync \in SyncRecords /\ SyncTypeOK
      /\ UNCHANGED <<half, status, esc, clean>> /\ seen' = Effective
  BY DEF LimitsInv, SyncRefreshes, SyncTypeOK
<1>2. sync' \in SyncRecords /\ sync'.step = "apply"
  BY <1>1 DEF SyncRefreshes, SyncRecords, SyncSteps
<1>3. Effective' = Effective /\ Intersection' = Intersection
  BY <1>1 DEF Effective, Intersection
<1>4. \A n \in Nodes : esc[n] # NoLimit
  BY <1>1, LimitsAssumption DEF LimitsInv, HalvesInv, ForceInv, Configs, NoLimit
<1>5. seen' \in Limits \cup {OwnLimit}
  BY <1>1, <1>4, EffectiveType
<1> QED
  BY <1>1, <1>2, <1>3, <1>5 DEF LimitsInv, SyncTypeOK, HalvesInv, ForceInv, CommonInv

LEMMA SyncAppliesKeeps ==
    ASSUME LimitsInv, SyncApplies
    PROVE  LimitsInv'
<1>1. /\ sync.step = "apply" /\ sync \in SyncRecords /\ SyncTypeOK
      /\ UNCHANGED <<half, esc, seen, clean>>
      /\ status' = [status EXCEPT !.applied = TRUE]
  BY DEF LimitsInv, SyncApplies, SyncTypeOK
<1>2. sync' \in SyncRecords /\ sync'.step = "off"
  BY <1>1 DEF SyncApplies, SyncRecords, SyncSteps
<1>3. /\ status' \in [common : Configs \cup {NoConfig}, applied : BOOLEAN]
      /\ status'.common = status.common
  BY <1>1 DEF SyncTypeOK
<1>4. Effective' = Effective
  BY <1>1 DEF Effective
<1>5. /\ \A n \in Nodes : half[n] \in Configs /\ esc[n] = half[n].limit
      /\ Intersection # NoConfig /\ status.common = Intersection /\ seen = Effective
  BY <1>1 DEF LimitsInv, HalvesInv, ForceInv
<1>6. \A n \in Nodes : esc[n] # NoLimit /\ half[n] # NoConfig
  BY <1>5, LimitsAssumption DEF Configs, NoLimit, NoConfig
<1>7. {esc[n] : n \in Nodes} = {half[First].limit, half[Second].limit}
  BY <1>5, TwoNodes
<1>8. status.common.limit = Min({esc[n] : n \in Nodes})
  BY <1>1, <1>5, <1>6, <1>7, IntersectionType
<1>9. Min({esc[n] : n \in Nodes})' = Min({esc[n] : n \in Nodes})
  BY <1>1
<1>10. CommonInv'
  BY <1>3, <1>8, <1>9 DEF CommonInv
<1>11. SyncTypeOK' /\ HalvesInv' /\ ForceInv'
  BY <1>1, <1>2, <1>3, <1>4, <1>5, <1>6 DEF SyncTypeOK, HalvesInv, ForceInv
<1> QED
  BY <1>10, <1>11 DEF LimitsInv

LEMMA NextLimits == LimitsInv /\ [SyncNext]_allVars => LimitsInv'
<1> SUFFICES ASSUME LimitsInv, [SyncNext]_allVars PROVE LimitsInv'
  OBVIOUS
<1>1. sync \in SyncRecords /\ SyncTypeOK
  BY DEF LimitsInv, SyncTypeOK
<1>2. CASE UNCHANGED syncVars
  BY <1>1, <1>2, QuietSync DEF syncVars, SyncTypeOK
<1>3. CASE SyncBegins
  <2>1. /\ sync.step = "off" /\ UNCHANGED <<status, esc, seen>>
        /\ sync' = [step |-> "reading", of |-> First, attempt |-> 0, pause |-> 0]
        /\ half' = [n \in Nodes |-> NoConfig] /\ clean' \in BOOLEAN
    BY <1>3 DEF SyncBegins, Idle, limitVars
  <2>2. sync' \in SyncRecords /\ sync'.step = "reading"
    BY <2>1, TwoNodes, LimitsAssumption DEF SyncRecords, SyncSteps
  <2>3. Effective' = Effective
    BY <2>1 DEF Effective
  <2> QED
    BY <2>1, <2>2, <2>3 DEF LimitsInv, SyncTypeOK, HalvesInv, ForceInv, CommonInv
<1>4. CASE RequestProceeds
  <2>1. UNCHANGED <<sync, half, limitVars>> /\ clean' \in BOOLEAN
    BY <1>4 DEF RequestProceeds
  <2> QED
    BY <1>1, <2>1, QuietSync
<1>5. CASE TimePasses
  <2>1. /\ UNCHANGED <<half, limitVars, clean>>
        /\ sync' = [sync EXCEPT !.pause = IF sync.pause > 0 THEN sync.pause - 1 ELSE 0]
    BY <1>5 DEF TimePasses
  <2>2. (IF sync.pause > 0 THEN sync.pause - 1 ELSE 0) \in 0 .. RetryDelay
    BY <1>1, LimitsAssumption DEF SyncRecords
  <2>3. sync' \in SyncRecords /\ sync'.step = sync.step
    BY <1>1, <2>1, <2>2 DEF SyncRecords
  <2> QED
    BY <1>1, <2>1, <2>3, QuietSync DEF SyncTypeOK
<1>6. CASE SyncAsks \/ CommandAsks \/ CommandPrints \/ BusProceeds
  <2>1. UNCHANGED syncVars
    BY <1>6 DEF SyncAsks, CommandAsks, CommandPrints, BusProceeds
  <2> QED
    BY <1>2, <2>1
<1>7. CASE UNCHANGED allVars
  BY <1>2, <1>7 DEF allVars
<1> QED
  BY <1>3, <1>4, <1>5, <1>6, <1>7, SyncReadsKeeps, SyncJoinsKeeps, SetEscKeeps,
     SyncRefreshesKeeps, SyncAppliesKeeps DEF SyncNext, SyncStep

\* Refloat works with the stub, or with the strictest of two halves read in one
\* synchronisation, whatever fails half way.
THEOREM LimitsTogetherHolds == SyncSpec => []LimitsTogether
<1>1. LimitsInv => LimitsTogether
  <2> SUFFICES ASSUME LimitsInv PROVE LimitsTogether
    OBVIOUS
  <2>1. sync.step = "apply" => \A n \in Nodes : esc[n] # NoLimit
    BY LimitsAssumption DEF LimitsInv, HalvesInv, ForceInv, Configs, NoLimit
  <2>2. esc = [n \in Nodes |-> esc[n]]
    BY DEF LimitsInv, SyncTypeOK
  <2> QED
    BY <2>1, <2>2, TwoNodes DEF LimitsInv, ForceInv, CommonInv, LimitsTogether
<1> QED
  BY <1>1, InitLimits, NextLimits, PTL DEF SyncSpec

-----------------------------------------------------------------------------
(* Requests over CAN.                                                      *)

Bytes  == Contents \cup {Nothing, Blank}
Said   == Contents \cup {Nothing}
Askers == [step : Steps, req : Requests, to : Nodes, left : 0 .. Timeout, fresh : BOOLEAN]
Rxs    == [buf : [1 .. Parts -> Bytes], filled : 0 .. Parts, body : Seq(Said)]
Results == [ok : BOOLEAN, body : Seq(Said)]

\* One reply, all of it and nothing else.
One(body) == \E says \in Said : body \in {<<says>>, [i \in 1 .. Parts |-> says]}

\* The request and the receive task: a reply is awaited from Await on and until it is
\* complete, the semaphore is given from then on.
WaitInv ==
    /\ asker.fresh => asker.step = "idle"
    /\ awaiting => asker.step \in {"send", "wait"}
    /\ asker.step = "await" => ~done
    /\ asker.step \in {"send", "wait"} => (done <=> ~awaiting)
    /\ asker.step \in {"send", "wait"} /\ done => One(rx.body)
    /\ asker.step = "copy" => One(rx.body)
    /\ result.ok => One(result.body)

CanInv == CanTypeOK /\ WaitInv

LEMMA CanNumbers == Parts \in Nat /\ Parts > 0 /\ Timeout \in Nat /\ MinInterval \in Nat
  BY CanAssumption

LEMMA CanFields ==
    ASSUME CanTypeOK
    PROVE  /\ asker \in Askers /\ asker.step \in Steps /\ asker.left \in 0 .. Timeout
           /\ asker.req \in Requests /\ asker.to \in Nodes /\ asker.fresh \in BOOLEAN
           /\ rx \in Rxs /\ rx.buf \in [1 .. Parts -> Bytes] /\ rx.filled \in 0 .. Parts
           /\ rx.body \in Seq(Said)
           /\ awaiting \in BOOLEAN /\ done \in BOOLEAN
           /\ result \in Results
<1>1. asker \in Askers /\ rx \in Rxs /\ result \in Results
  BY DEF CanTypeOK, Askers, Rxs, Results, Bytes, Said
<1> QED
  BY <1>1 DEF CanTypeOK, Askers, Rxs

LEMMA Constants ==
    /\ EmptyRx \in Rxs /\ EmptyRx.body = <<>>
    /\ NoResult \in Results /\ ~NoResult.ok
    /\ Nobody \in Askers /\ Nobody.step = "idle"
    /\ [Nobody EXCEPT !.fresh = TRUE] \in Askers
    /\ [Nobody EXCEPT !.fresh = TRUE].step = "idle"
<1>1. [i \in 1 .. Parts |-> Blank] \in [1 .. Parts -> Bytes] /\ <<>> \in Seq(Said)
  BY DEF Bytes
<1>2. EmptyRx \in Rxs
  BY <1>1, CanNumbers DEF EmptyRx, Rxs
<1>3. NoResult \in Results
  BY <1>1 DEF NoResult, Results
<1>4. (CHOOSE n \in Nodes : TRUE) \in Nodes
  BY CanAssumption
<1>5. Nobody \in Askers
  BY <1>4, CanNumbers DEF Nobody, Askers, Steps, Requests
<1>6. [Nobody EXCEPT !.fresh = TRUE] \in Askers
  BY <1>5 DEF Askers
<1> QED
  BY <1>2, <1>3, <1>5, <1>6 DEF EmptyRx, NoResult, Nobody

\* What the assembler makes of a frame: a complete reply is one, and only a complete
\* one changes what the last was.
LEMMA FrameTaken ==
    ASSUME CanTypeOK, NEW f \in Frames
    PROVE  /\ TakeFrame(f).rx \in Rxs /\ TakeFrame(f).complete \in BOOLEAN
           /\ TakeFrame(f).complete => One(TakeFrame(f).rx.body)
<1>1. /\ f.says \in Said /\ f.part \in 1 .. Parts
      /\ f.type \in {"single", "fill", "process"}
  BY DEF Frames, Said
<1>2. CASE f.type = "single"
  <2> DEFINE new == [rx EXCEPT !.body = <<f.says>>]
  <2>1. <<f.says>> \in Seq(Said)
    BY <1>1
  <2>2. new \in Rxs /\ new.body = <<f.says>>
    BY <2>1, CanFields DEF Rxs
  <2>3. One(<<f.says>>)
    BY <1>1 DEF One
  <2>4. TakeFrame(f) = [rx |-> new, complete |-> TRUE]
    BY <1>2 DEF TakeFrame, TakeSingle, Complete
  <2> HIDE DEF new
  <2> QED
    BY <2>2, <2>3, <2>4
<1>3. CASE f.type = "fill"
  <2> DEFINE filled == IF f.part > rx.filled THEN f.part ELSE rx.filled
             buf == [rx.buf EXCEPT ![f.part] = f.says]
             new == [[rx EXCEPT !.buf = buf] EXCEPT !.filled = filled]
  <2>1. filled \in 0 .. Parts
    BY <1>1, CanFields, CanNumbers
  <2>2. buf \in [1 .. Parts -> Bytes]
    BY <1>1, CanFields DEF Bytes, Said
  <2>3. new \in Rxs
    BY <2>1, <2>2, CanFields DEF Rxs
  <2>4. TakeFrame(f) = [rx |-> new, complete |-> FALSE]
    BY <1>3, CanFields DEF TakeFrame, TakeFill, Keep, Rxs
  <2> HIDE DEF new
  <2> QED
    BY <2>3, <2>4
<1>4. CASE f.type = "process"
  <2>1. CASE rx.filled < Parts \/ ~CrcFits(f)
    <3>1. [rx EXCEPT !.filled = 0] \in Rxs
      BY CanFields, CanNumbers DEF Rxs
    <3>2. TakeFrame(f) = [rx |-> [rx EXCEPT !.filled = 0], complete |-> FALSE]
      BY <1>4, <2>1 DEF TakeFrame, TakeProcess, Keep
    <3> QED
      BY <3>1, <3>2
  <2>2. CASE ~(rx.filled < Parts) /\ CrcFits(f)
    <3> DEFINE new == [rx EXCEPT !.filled = 0, !.body = rx.buf]
    <3>1. rx.buf = [i \in 1 .. Parts |-> f.says]
      BY <2>2, CanFields DEF CrcFits
    <3>2. rx.buf \in Seq(Said)
      BY <1>1, <3>1, CanNumbers
    <3>3. new \in Rxs /\ new.body = rx.buf
      <4>1. 0 \in 0 .. Parts
        BY CanNumbers
      <4>2. new = [rx EXCEPT !.filled = 0, !.body = rx.buf]
        OBVIOUS
      <4> HIDE DEF new
      <4> QED
        BY <3>2, <4>1, <4>2, CanFields DEF Rxs
    <3>4. One(rx.buf)
      BY <1>1, <3>1 DEF One
    <3>5. TakeFrame(f) = [rx |-> new, complete |-> TRUE]
      BY <1>4, <2>2 DEF TakeFrame, TakeProcess, Complete
    <3> HIDE DEF new
    <3> QED
      BY <3>3, <3>4, <3>5
  <2> QED
    BY <2>1, <2>2
<1> QED
  BY <1>1, <1>2, <1>3, <1>4

\* A frame that is received: it counts only while a reply is awaited.
LEMMA AccountKeeps ==
    ASSUME CanInv, NEW f \in Frames, Account(f), UNCHANGED <<busVars, askVars>>,
           wire' \in [Nodes -> Seq(Frames)]
    PROVE  CanInv'
<1>1. UNCHANGED <<driver, installed, task, asker, since, result>> /\ CanTypeOK /\ WaitInv
  BY DEF busVars, askVars, CanInv
<1>2. CASE awaiting
  <2> DEFINE c == TakeFrame(f).complete
  <2>1. c \in BOOLEAN /\ rx' = TakeFrame(f).rx /\ awaiting' = ~c /\ done' = (done \/ c)
    BY <1>1, <1>2, FrameTaken DEF Account
  <2>2. rx' \in Rxs /\ (c => One(rx'.body))
    BY <1>1, <2>1, FrameTaken
  <2>3. ~done /\ asker.step \in {"send", "wait"}
    BY <1>1, <1>2 DEF WaitInv
  <2> HIDE DEF c
  <2>4. awaiting' \in BOOLEAN /\ done' \in BOOLEAN /\ (done' <=> c) /\ (awaiting' <=> ~c)
    BY <1>1, <2>1, <2>3, CanFields
  <2>5. CanTypeOK'
    BY <1>1, <2>2, <2>4 DEF CanTypeOK, Rxs, Bytes, Said
  <2>6. WaitInv'
    BY <1>1, <2>2, <2>3, <2>4 DEF WaitInv, One
  <2> QED
    BY <2>5, <2>6 DEF CanInv
<1>3. CASE ~awaiting
  <2>1. UNCHANGED <<rx, awaiting, done>>
    BY <1>3 DEF Account, replyVars
  <2> QED
    BY <1>1, <2>1 DEF CanInv, CanTypeOK, WaitInv, One
<1> QED
  BY <1>2, <1>3

\* A step that ends a request leaves nothing awaited.
LEMMA ReturnsKeeps ==
    ASSUME CanInv, NEW r \in Results, r.ok => One(r.body), Returns(r),
           UNCHANGED <<busVars, done, since, wire>>, awaiting' = FALSE
    PROVE  CanInv'
<1>1. UNCHANGED <<driver, installed, task>> /\ CanTypeOK /\ WaitInv
  BY DEF busVars, CanInv
<1>2. /\ asker' \in Askers /\ asker'.step = "idle" /\ rx' \in Rxs /\ result' = r
  BY Constants DEF Returns
<1>3. CanTypeOK'
  BY <1>1, <1>2 DEF CanTypeOK, Askers, Rxs, Results, Bytes, Said
<1>4. WaitInv'
  BY <1>2 DEF WaitInv, One
<1> QED
  BY <1>3, <1>4 DEF CanInv

\* The frames of a reply are frames.
LEMMA ReplyIsFrames ==
    ASSUME CanTypeOK, NEW n \in Nodes, NEW req \in Requests, Answered(n, req)
    PROVE  wire' \in [Nodes -> Seq(Frames)]
<1>1. wire \in [Nodes -> Seq(Frames)]
  BY DEF CanTypeOK
<1>2. ASSUME NEW says \in Said PROVE FramesOf(req, says) \in Seq(Frames)
  <2>1. CASE req = "ping"
    <3>1. [type |-> "single", says |-> says, part |-> 1] \in Frames
      BY CanNumbers DEF Frames, Said
    <3> QED
      BY <2>1, <3>1 DEF FramesOf
  <2>2. CASE req # "ping"
    <3> DEFINE F(i) == IF i > Parts THEN [type |-> "process", says |-> says, part |-> 1]
                                    ELSE [type |-> "fill", says |-> says, part |-> i]
    <3>1. \A i \in 1 .. Parts + 1 : F(i) \in Frames
      BY CanNumbers DEF Frames, Said
    <3>2. [i \in 1 .. Parts + 1 |-> F(i)] \in Seq(Frames)
      <4>1. Parts + 1 \in Nat
        BY CanNumbers
      <4> HIDE DEF F
      <4> QED
        BY <3>1, <4>1
    <3> QED
      BY <2>2, <3>2 DEF FramesOf
  <2> QED
    BY <2>1, <2>2
<1>3. (IF req = "ping" THEN {Nothing} ELSE Answers[n]) \subseteq Said
  BY CanAssumption DEF Said
<1>4. CASE UNCHANGED wire
  BY <1>1, <1>4
<1>5. ASSUME NEW says \in Said, wire' = [wire EXCEPT ![n] = @ \o FramesOf(req, says)]
      PROVE  wire' \in [Nodes -> Seq(Frames)]
  <2>1. wire[n] \o FramesOf(req, says) \in Seq(Frames)
    BY <1>1, <1>2
  <2> QED
    BY <1>1, <1>5, <2>1
<1> QED
  BY <1>3, <1>4, <1>5 DEF Answered

\* A step of the asker that leaves the bus and the assembler alone.
LEMMA AskerMoves ==
    ASSUME CanTypeOK, UNCHANGED <<busVars, rx, result>>, asker' \in Askers,
           awaiting' \in BOOLEAN, done' \in BOOLEAN, since' \in 0 .. MinInterval,
           wire' \in [Nodes -> Seq(Frames)]
    PROVE  CanTypeOK'
<1>1. UNCHANGED <<driver, installed, task, rx, result>>
  BY DEF busVars
<1> QED
  BY <1>1 DEF CanTypeOK, Askers

LEMMA RequestKeeps ==
    ASSUME CanInv, RequestStep
    PROVE  CanInv'
<1>1. /\ CanTypeOK /\ WaitInv /\ since \in 0 .. MinInterval
      /\ wire \in [Nodes -> Seq(Frames)]
  BY DEF CanInv, CanTypeOK
<1>2. CASE Drain
  <2>1. /\ done' = FALSE /\ asker' = [asker EXCEPT !.step = "await"] /\ asker.step = "drain"
        /\ UNCHANGED <<busVars, rx, awaiting, since, wire, result>>
    BY <1>2 DEF Drain, After
  <2>2. asker' \in Askers /\ asker'.step = "await" /\ asker'.fresh = asker.fresh
    BY <1>1, <2>1, CanFields DEF Askers, Steps
  <2>3. CanTypeOK'
    BY <1>1, <2>1, <2>2, CanFields, AskerMoves
  <2>4. ~awaiting
    BY <1>1, <2>1 DEF WaitInv
  <2> QED
    BY <1>1, <2>1, <2>2, <2>3, <2>4 DEF CanInv, WaitInv, One
<1>3. CASE Await
  <2>1. /\ awaiting' = TRUE /\ asker' = [asker EXCEPT !.step = "send"] /\ asker.step = "await"
        /\ UNCHANGED <<busVars, rx, done, since, wire, result>>
    BY <1>3 DEF Await, After
  <2>2. asker' \in Askers /\ asker'.step = "send" /\ asker'.fresh = asker.fresh
    BY <1>1, <2>1, CanFields DEF Askers, Steps
  <2>3. CanTypeOK'
    BY <1>1, <2>1, <2>2, CanFields, AskerMoves
  <2> QED
    BY <1>1, <2>1, <2>2, <2>3 DEF CanInv, WaitInv, One
<1>4. CASE Send
  <2>1. CASE /\ asker' = [asker EXCEPT !.step = "wait", !.left = Timeout]
             /\ Answered(asker.to, asker.req)
             /\ UNCHANGED <<awaiting, rx, result>>
    <3>1. asker.step = "send" /\ UNCHANGED <<busVars, done, since>>
      BY <1>4 DEF Send
    <3>2. Timeout \in 0 .. Timeout
      BY CanNumbers
    <3>3. asker' \in Askers /\ asker'.step = "wait" /\ asker'.fresh = asker.fresh
      BY <1>1, <2>1, <3>2, CanFields DEF Askers, Steps
    <3>4. wire' \in [Nodes -> Seq(Frames)]
      BY <1>1, <2>1, CanFields, ReplyIsFrames
    <3>5. CanTypeOK'
      BY <1>1, <2>1, <3>1, <3>3, <3>4, CanFields, AskerMoves
    <3> QED
      BY <1>1, <2>1, <3>1, <3>3, <3>5 DEF CanInv, WaitInv, One
  <2>2. CASE awaiting' = FALSE /\ Returns(NoResult) /\ UNCHANGED wire
    BY <1>4, <2>2, Constants, ReturnsKeeps DEF Send
  <2> QED
    BY <1>4, <2>1, <2>2 DEF Send
<1>5. CASE Wake
  <2>1. /\ done /\ done' = FALSE /\ asker' = [asker EXCEPT !.step = "copy"]
        /\ asker.step = "wait"
        /\ UNCHANGED <<busVars, rx, awaiting, since, wire, result>>
    BY <1>5 DEF Wake
  <2>2. asker' \in Askers /\ asker'.step = "copy" /\ asker'.fresh = asker.fresh
    BY <1>1, <2>1, CanFields DEF Askers, Steps
  <2>3. CanTypeOK'
    BY <1>1, <2>1, <2>2, CanFields, AskerMoves
  <2>4. ~awaiting /\ One(rx.body)
    BY <1>1, <2>1 DEF WaitInv
  <2> QED
    BY <1>1, <2>1, <2>2, <2>3, <2>4 DEF CanInv, WaitInv, One
<1>6. CASE TimeOut
  BY <1>6, Constants, ReturnsKeeps DEF TimeOut
<1>7. CASE Copy
  <2> DEFINE r == [ok |-> TRUE, body |-> rx.body]
  <2>1. r \in Results /\ r.body = rx.body
    BY <1>1, CanFields DEF Results
  <2>2. One(rx.body) /\ ~awaiting
    BY <1>1, <1>7 DEF Copy, WaitInv
  <2>3. Returns(r) /\ UNCHANGED <<busVars, awaiting, done, since, wire>>
    BY <1>7 DEF Copy
  <2>4. awaiting' = FALSE
    BY <1>1, <2>2, <2>3, CanFields
  <2> HIDE DEF r
  <2> QED
    BY <2>1, <2>2, <2>3, <2>4, ReturnsKeeps
<1> QED
  BY <1>2, <1>3, <1>4, <1>5, <1>6, <1>7 DEF RequestStep

\* Steps of the bus move none of what a request and its reply share.
LEMMA BusKeeps ==
    ASSUME CanInv,
           driver' \in {"none", "running", "busoff", "recovering", "stopped"},
           installed' \in BOOLEAN, task' \in {"running", "stopping", "gone"},
           UNCHANGED <<askVars, replyVars>>, wire' \in [Nodes -> Seq(Frames)]
    PROVE  CanInv'
<1>1. UNCHANGED <<asker, since, result, rx, awaiting, done>>
  BY DEF askVars, replyVars
<1> QED
  BY <1>1 DEF CanInv, CanTypeOK, WaitInv, One

LEMMA BusStepKeeps ==
    ASSUME CanInv, BusStep
    PROVE  CanInv'
<1>1. /\ CanTypeOK /\ driver \in {"none", "running", "busoff", "recovering", "stopped"}
      /\ installed \in BOOLEAN /\ task \in {"running", "stopping", "gone"}
      /\ wire \in [Nodes -> Seq(Frames)]
  BY DEF CanInv, CanTypeOK
<1>2. [n \in Nodes |-> <<>>] \in [Nodes -> Seq(Frames)]
  OBVIOUS
<1>3. CASE BusOff \/ TaskRefreshes \/ TaskEnds \/ Recovered \/ StopBegins \/ StopEnds
  <2>1. UNCHANGED <<askVars, replyVars>>
    BY <1>3 DEF BusOff, TaskRefreshes, TaskEnds, Recovered, StopBegins, StopEnds
  <2>2. driver' \in {"none", "running", "busoff", "recovering", "stopped"}
    BY <1>1, <1>3 DEF BusOff, TaskRefreshes, TaskEnds, Recovered, StopBegins, StopEnds, Refresh
  <2>3. installed' \in BOOLEAN /\ task' \in {"running", "stopping", "gone"}
    BY <1>1, <1>3 DEF BusOff, TaskRefreshes, TaskEnds, Recovered, StopBegins, StopEnds
  <2>4. wire' \in [Nodes -> Seq(Frames)]
    BY <1>1, <1>2, <1>3 DEF BusOff, TaskRefreshes, TaskEnds, Recovered, StopBegins, StopEnds
  <2> QED
    BY <2>1, <2>2, <2>3, <2>4, BusKeeps
<1>4. CASE Start
  <2>1. /\ asker = Nobody /\ rx' = EmptyRx /\ awaiting' = FALSE /\ since' = MinInterval
        /\ UNCHANGED <<asker, result, done, wire>>
    BY <1>4 DEF Start
  <2>2. /\ driver' \in {"none", "running", "busoff", "recovering", "stopped"}
        /\ installed' \in BOOLEAN /\ task' \in {"running", "stopping", "gone"}
    BY <1>1, <1>4 DEF Start, busVars
  <2>3. asker'.step = "idle" /\ asker' \in Askers /\ rx' \in Rxs
    BY <2>1, Constants
  <2>4. MinInterval \in 0 .. MinInterval
    BY CanNumbers
  <2>5. CanTypeOK'
    BY <1>1, <2>1, <2>2, <2>3, <2>4 DEF CanTypeOK, Askers, Rxs, Bytes, Said
  <2>6. WaitInv'
    BY <2>1, <2>3 DEF WaitInv, CanInv, One
  <2> QED
    BY <2>5, <2>6 DEF CanInv
<1> QED
  BY <1>3, <1>4 DEF BusStep

LEMMA FrameKeeps ==
    ASSUME CanInv, FrameStep
    PROVE  CanInv'
<1>1. /\ CanTypeOK /\ driver \in {"none", "running", "busoff", "recovering", "stopped"}
      /\ installed \in BOOLEAN /\ task \in {"running", "stopping", "gone"}
      /\ wire \in [Nodes -> Seq(Frames)]
  BY DEF CanInv, CanTypeOK
<1>2. PICK n \in Nodes : Receive(n) \/ Lose(n)
  BY DEF FrameStep
<1>3. wire[n] \in Seq(Frames) /\ wire[n] # <<>> /\ wire' = [wire EXCEPT ![n] = Tail(wire[n])]
  BY <1>1, <1>2 DEF Receive, Lose
<1>4. Head(wire[n]) \in Frames /\ Tail(wire[n]) \in Seq(Frames)
  BY <1>3
<1>5. wire' \in [Nodes -> Seq(Frames)]
  BY <1>1, <1>3, <1>4
<1>6. CASE Receive(n)
  BY <1>4, <1>5, <1>6, AccountKeeps DEF Receive
<1>7. CASE Lose(n)
  <2>1. UNCHANGED <<driver, installed, task, askVars, replyVars>>
    BY <1>7 DEF Lose, busVars
  <2> QED
    BY <1>1, <1>5, <2>1, BusKeeps
<1> QED
  BY <1>2, <1>6, <1>7

\* A result is read, a request is prepared, time passes.
LEMMA AskKeeps ==
    ASSUME CanInv,
           \/ Refused
           \/ \E req \in Requests, n \in Nodes : Prepare(req, n)
           \/ TakesResult /\ UNCHANGED <<busVars, since, replyVars, wire>>
           \/ Tick
           \/ UNCHANGED canVars
    PROVE  CanInv'
<1>1. /\ CanTypeOK /\ WaitInv /\ since \in 0 .. MinInterval
      /\ wire \in [Nodes -> Seq(Frames)]
  BY DEF CanInv, CanTypeOK
<1>2. CASE Refused
  <2>1. ~awaiting
    BY <1>1, <1>2 DEF Refused, WaitInv
  <2>2. awaiting' = FALSE
    BY <1>1, <1>2, <2>1, CanFields DEF Refused
  <2> QED
    BY <1>2, <2>2, Constants, ReturnsKeeps DEF Refused
<1>3. ASSUME NEW req \in Requests, NEW n \in Nodes, Prepare(req, n) PROVE CanInv'
  <2>1. /\ asker' = [step |-> "drain", req |-> req, to |-> n, left |-> 0, fresh |-> FALSE]
        /\ since' = 0 /\ rx' = EmptyRx /\ result' = NoResult /\ asker.step = "idle"
        /\ UNCHANGED <<busVars, awaiting, done, wire>>
    BY <1>3 DEF Prepare, After
  <2>2. 0 \in 0 .. Timeout /\ 0 \in 0 .. MinInterval
    BY CanNumbers
  <2>3. asker' \in Askers /\ asker'.step = "drain" /\ asker'.fresh = FALSE
    BY <2>1, <2>2 DEF Askers, Steps
  <2>4. rx' \in Rxs /\ result' \in Results /\ ~result'.ok
    BY <2>1, Constants
  <2>5. CanTypeOK'
    BY <1>1, <2>1, <2>2, <2>3, <2>4
       DEF CanTypeOK, busVars, Askers, Rxs, Results, Bytes, Said
  <2>6. WaitInv'
    BY <1>1, <2>1, <2>3, <2>4 DEF WaitInv, One
  <2> QED
    BY <2>5, <2>6 DEF CanInv
<1>4. CASE TakesResult /\ UNCHANGED <<busVars, since, replyVars, wire>>
  <2>1. /\ asker' \in Askers /\ asker'.step = "idle" /\ result' \in Results /\ ~result'.ok
        /\ UNCHANGED <<driver, installed, task, since, rx, awaiting, done, wire>>
    BY <1>4, Constants DEF TakesResult, busVars, replyVars
  <2>2. CanTypeOK'
    BY <1>1, <2>1 DEF CanTypeOK, Askers, Results, Said
  <2>3. asker.step = "idle"
    BY <1>1, <1>4 DEF TakesResult, WaitInv
  <2> QED
    BY <1>1, <2>1, <2>2, <2>3 DEF CanInv, WaitInv, One
<1>5. CASE Tick
  <2> DEFINE left == IF asker.left > 0 THEN asker.left - 1 ELSE 0
  <2>1. left \in 0 .. Timeout /\ since' \in 0 .. MinInterval
    BY <1>1, <1>5, CanFields, CanNumbers DEF Tick
  <2>2. asker' = [asker EXCEPT !.left = left] /\ UNCHANGED <<busVars, replyVars, wire, result>>
    BY <1>5 DEF Tick
  <2> HIDE DEF left
  <2>3. asker' \in Askers /\ asker'.step = asker.step /\ asker'.fresh = asker.fresh
    BY <1>1, <2>1, <2>2, CanFields DEF Askers
  <2>4. UNCHANGED <<rx, awaiting, done>>
    BY <2>2 DEF replyVars
  <2>5. CanTypeOK'
    BY <1>1, <2>1, <2>2, <2>3, <2>4, CanFields, AskerMoves
  <2> QED
    BY <1>1, <2>2, <2>3, <2>4, <2>5 DEF CanInv, WaitInv, One
<1>6. CASE UNCHANGED canVars
  BY <1>1, <1>6 DEF CanInv, CanTypeOK, WaitInv, One, canVars, busVars, askVars, replyVars
<1> QED
  BY <1>2, <1>3, <1>4, <1>5, <1>6

LEMMA InitRequests == SyncInit => CanInv
<1> SUFFICES ASSUME SyncInit PROVE CanInv
  OBVIOUS
<1>1. CanInit
  BY DEF SyncInit
<1>2. [n \in Nodes |-> <<>>] \in [Nodes -> Seq(Frames)]
  OBVIOUS
<1>3. asker \in Askers /\ asker.step = "idle" /\ rx \in Rxs /\ result \in Results /\ ~result.ok
  BY <1>1, Constants DEF CanInit
<1>4. since \in 0 .. MinInterval
  BY <1>1, CanNumbers DEF CanInit
<1>5. CanTypeOK
  BY <1>1, <1>2, <1>3, <1>4 DEF CanInit, CanTypeOK, Askers, Rxs, Results, Bytes, Said
<1>6. WaitInv
  BY <1>1, <1>3 DEF CanInit, WaitInv
<1> QED
  BY <1>5, <1>6 DEF CanInv

LEMMA NextRequests == CanInv /\ LimitsInv /\ [SyncNext]_allVars => CanInv'
<1> SUFFICES ASSUME CanInv, LimitsInv, [SyncNext]_allVars PROVE CanInv'
  OBVIOUS
<1>1. CASE SyncAsks
  <2>1. sync.of \in Nodes /\ "mcconf" \in Requests
    BY DEF LimitsInv, SyncTypeOK, SyncRecords, Requests
  <2> QED
    BY <1>1, <2>1, AskKeeps DEF SyncAsks
<1>2. CASE CommandAsks
  BY <1>2, AskKeeps DEF CommandAsks
<1>3. CASE SyncReads \/ CommandPrints
  BY <1>3, AskKeeps DEF SyncReads, CommandPrints
<1>4. CASE RequestProceeds
  BY <1>4, RequestKeeps DEF RequestProceeds
<1>5. CASE TimePasses
  BY <1>5, AskKeeps DEF TimePasses
<1>6. CASE BusProceeds
  BY <1>6, BusStepKeeps, FrameKeeps DEF BusProceeds
<1>7. CASE \/ SyncBegins \/ SyncJoins \/ SyncRefreshes \/ SyncApplies
           \/ SetEsc("escA", First, "escB") \/ SetEsc("escB", Second, "refresh")
           \/ UNCHANGED allVars
  <2>1. UNCHANGED canVars
    BY <1>7 DEF SyncBegins, SyncJoins, SyncRefreshes, SyncApplies, SetEsc, allVars
  <2> QED
    BY <2>1, AskKeeps
<1> QED
  BY <1>1, <1>2, <1>3, <1>4, <1>5, <1>6, <1>7 DEF SyncNext, SyncStep

LEMMA SyncAlways == SyncSpec => [](CanInv /\ LimitsInv)
  BY InitRequests, NextRequests, InitLimits, NextLimits, PTL DEF SyncSpec

\* Every state of the bus, of a request and of the synchronisation is well typed.
THEOREM LimitsTypeCorrect == SyncSpec => []LimitsTypeOK
<1>1. CanInv /\ LimitsInv => LimitsTypeOK
  BY DEF CanInv, LimitsInv, SyncTypeOK, SyncRecords, LimitsTypeOK
<1> QED
  BY <1>1, SyncAlways, PTL

\* A reply that came is never lost between the flag and the semaphore, whenever the
\* receive task takes it.
THEOREM AnswerNotLostHolds == SyncSpec => []AnswerNotLost
<1>1. CanInv => AnswerNotLost
  BY DEF CanInv, WaitInv, AnswerNotLost
<1> QED
  BY <1>1, SyncAlways, PTL

\* What a request returns is one reply, all of it and nothing else, for replies of any
\* length and whatever is lost or late.
THEOREM AnswerIsOneHolds == SyncSpec => []AnswerIsOne
<1>1. CanInv => AnswerIsOne
  BY DEF CanInv, WaitInv, AnswerIsOne, One, Said
<1> QED
  BY <1>1, SyncAlways, PTL

-----------------------------------------------------------------------------
(* A synchronisation nobody disturbed.                                     *)

\* There is a second try, and the pause before it outlasts the limiter of requests.
Paced == Attempts > 1 /\ RetryDelay >= MinInterval

\* The second try is let through: it is due, under way, or was answered well.
SecondTry ==
    \/ asker.step # "idle"
    \/ asker.fresh /\ result.ok
    \/ ~asker.fresh /\ since + sync.pause >= MinInterval

CleanInv ==
    clean =>
        /\ sync.step = "reading" =>
              /\ installed /\ sync.attempt \in {0, 1}
              /\ sync.of = Second => half[First] \in Configs
              /\ sync.attempt = 1 => SecondTry
        /\ sync.step = "join" => \A n \in Nodes : half[n] \in Configs
        /\ sync.step = "off" => CleanSyncApplies

AllInv == CanInv /\ LimitsInv /\ CleanInv

\* A step that leaves the synchronisation and what it reads alone.
LEMMA CleanKept ==
    ASSUME AllInv, UNCHANGED <<half, status, esc>>, clean' => clean,
           sync'.step = sync.step /\ sync'.of = sync.of /\ sync'.attempt = sync.attempt,
           sync.step = "reading" /\ clean' =>
              installed' = installed /\ (sync.attempt = 1 /\ SecondTry => SecondTry')
    PROVE  CleanInv'
<1>1. Intersection' = Intersection
  BY DEF Intersection
<1> QED
  BY <1>1 DEF AllInv, CleanInv, CleanSyncApplies

LEMMA SyncReadsClean ==
    ASSUME Paced, AllInv, SyncReads
    PROVE  CleanInv'
<1> SUFFICES ASSUME clean' PROVE CleanInv'
  BY DEF CleanInv
<1>1. /\ clean /\ sync.step = "reading" /\ (result.ok => Decoded # NoConfig)
      /\ asker.fresh /\ asker' = Nobody /\ UNCHANGED <<busVars, since>>
  BY DEF SyncReads, TakesResult
<1>2. /\ installed /\ sync.attempt \in {0, 1} /\ (sync.of = Second => half[First] \in Configs)
      /\ sync.attempt = 1 => result.ok
      /\ asker.step = "idle" /\ installed' = installed
  BY <1>1 DEF AllInv, CleanInv, SecondTry, CanInv, WaitInv, busVars
<1>3. /\ sync \in SyncRecords /\ sync.of \in Nodes /\ SyncTypeOK /\ CanTypeOK
  BY DEF AllInv, LimitsInv, CanInv, SyncTypeOK, SyncRecords
<1>4. CASE result.ok /\ HalfDone(Decoded)
  <2>1. Decoded \in Configs
    BY <1>1, <1>4, DecodedType
  <2>2. half' = [half EXCEPT ![sync.of] = Decoded] /\ half'[sync.of] = Decoded
    BY <1>3, <1>4 DEF HalfDone, SyncTypeOK
  <2>3. CASE sync.of = First
    <3>1. sync'.step = "reading" /\ sync'.of = Second /\ sync'.attempt = 0
      BY <1>4, <2>3 DEF HalfDone
    <3> QED
      BY <1>2, <2>1, <2>2, <2>3, <3>1 DEF CleanInv
  <2>4. CASE sync.of # First
    <3>1. sync.of = Second /\ sync'.step = "join"
      BY <1>3, <1>4, <2>4, TwoNodes DEF HalfDone, SyncRecords
    <3>2. half'[First] = half[First]
      BY <1>3, <2>2, <2>4, TwoNodes DEF SyncTypeOK
    <3>3. \A n \in Nodes : half'[n] \in Configs
      BY <1>2, <2>1, <2>2, <3>1, <3>2, TwoNodes
    <3> QED
      BY <3>1, <3>3 DEF CleanInv
  <2> QED
    BY <2>3, <2>4
<1>5. CASE ~result.ok /\ Retry
  <2>1. sync.attempt = 0
    BY <1>2, <1>5
  <2>2. /\ sync'.step = "reading" /\ sync'.of = sync.of /\ sync'.attempt = 1
        /\ sync'.pause = RetryDelay /\ half' = half
    BY <1>1, <1>3, <1>5, <2>1 DEF Retry, SyncRecords
  <2>3. since' \in Nat
    BY <1>1, <1>3, CanNumbers DEF CanTypeOK
  <2>4. ~asker'.fresh /\ since' + sync'.pause >= MinInterval
    BY <1>1, <2>2, <2>3, CanNumbers, LimitsAssumption DEF Paced, Nobody
  <2>5. SecondTry'
    BY <2>4 DEF SecondTry
  <2> QED
    BY <1>2, <2>2, <2>5 DEF CleanInv
<1>6. ~(~result.ok /\ sync.attempt + 1 = Attempts)
  BY <1>2, LimitsAssumption DEF Paced
<1> QED
  BY <1>4, <1>5, <1>6 DEF SyncReads

\* A step of a request leaves it under way or answered.
LEMMA RequestGoesOn ==
    ASSUME CanTypeOK, RequestStep
    PROVE  asker'.step # "idle" \/ asker'.fresh
<1>1. ASSUME NEW r, Returns(r) PROVE asker'.fresh
  BY <1>1, Constants DEF Returns, Askers, Nobody
<1>2. CASE Drain \/ Await \/ Wake
  BY <1>2, CanFields DEF Drain, Await, Wake, After, Askers
<1>3. CASE Send
  <2>1. CASE asker' = [asker EXCEPT !.step = "wait", !.left = Timeout]
    BY <2>1, CanFields DEF Askers
  <2> QED
    BY <1>1, <1>3, <2>1 DEF Send
<1>4. CASE TimeOut \/ Copy
  BY <1>1, <1>4 DEF TimeOut, Copy
<1> QED
  BY <1>2, <1>3, <1>4 DEF RequestStep

LEMMA NextClean == Paced /\ AllInv /\ [SyncNext]_allVars => CleanInv'
<1> SUFFICES ASSUME Paced, AllInv, [SyncNext]_allVars PROVE CleanInv'
  OBVIOUS
<1>1. /\ sync \in SyncRecords /\ SyncTypeOK /\ CanTypeOK /\ sync.of \in Nodes
      /\ sync.pause \in Nat /\ sync.attempt \in Nat
  BY LimitsAssumption DEF AllInv, LimitsInv, CanInv, SyncTypeOK, SyncRecords
<1>2. since \in 0 .. MinInterval /\ MinInterval \in Nat
  BY <1>1, CanNumbers DEF CanTypeOK
<1>3. CASE UNCHANGED allVars
  BY <1>3, CleanKept DEF allVars, canVars, syncVars, limitVars, askVars, busVars, SecondTry
<1>4. CASE SyncBegins
  <2>1. /\ sync'.step = "reading" /\ sync'.of = First /\ sync'.attempt = 0
        /\ clean' => installed'
    BY <1>4 DEF SyncBegins, canVars, busVars
  <2> QED
    BY <2>1, TwoNodes DEF CleanInv
<1>5. CASE SyncAsks
  <2>1. sync.step = "reading" /\ sync.pause = 0 /\ ~asker.fresh /\ UNCHANGED syncVars
    BY <1>5 DEF SyncAsks
  <2>2. UNCHANGED <<sync, half, status, esc, clean>>
    BY <2>1 DEF syncVars, limitVars
  <2>3. CASE Prepare("mcconf", sync.of)
    <3>1. asker'.step # "idle" /\ installed' = installed
      BY <2>3 DEF Prepare, After, busVars
    <3>2. SecondTry'
      BY <3>1 DEF SecondTry
    <3> QED
      BY <2>2, <3>1, <3>2, CleanKept
  <2>4. CASE Refused
    <3>1. clean => sync.attempt # 1
      <4>1. asker.step = "idle" /\ (~installed \/ ~(since >= MinInterval))
        BY <2>4 DEF Refused, RateAllows
      <4>2. since + sync.pause = since
        BY <1>2, <2>1
      <4> QED
        BY <2>1, <4>1, <4>2 DEF AllInv, CleanInv, SecondTry
    <3>2. installed' = installed
      BY <2>4 DEF Refused, busVars
    <3> QED
      BY <2>2, <3>1, <3>2, CleanKept
  <2> QED
    BY <1>5, <2>3, <2>4 DEF SyncAsks
<1>6. CASE SyncJoins
  <2>1. /\ UNCHANGED <<half, esc, clean>> /\ sync.step = "join"
    BY <1>6 DEF SyncJoins
  <2>2. Intersection' = Intersection
    BY <2>1 DEF Intersection
  <2>3. clean => \A n \in Nodes : half[n] # NoConfig /\ half[n] \in Configs
    BY <2>1, LimitsAssumption DEF AllInv, CleanInv, Configs, NoConfig
  <2>4. clean => sync'.step = IF Intersection = NoConfig THEN "off" ELSE "escA"
    BY <1>1, <1>6, <2>3 DEF SyncJoins, SyncRecords
  <2> HIDE DEF NoConfig
  <2> QED
    BY <2>1, <2>2, <2>3, <2>4 DEF CleanInv, CleanSyncApplies
<1>7. CASE SetEsc("escA", First, "escB") \/ SetEsc("escB", Second, "refresh") \/ SyncRefreshes
  <2>1. sync'.step \in {"escB", "refresh", "apply"}
    BY <1>1, <1>7 DEF SetEsc, SyncRefreshes, SyncRecords
  <2> QED
    BY <2>1 DEF CleanInv
<1>8. CASE SyncApplies
  <2>1. /\ sync.step = "apply" /\ UNCHANGED <<half, esc>>
        /\ status' = [status EXCEPT !.applied = TRUE]
    BY <1>8 DEF SyncApplies
  <2>2. sync'.step = "off" /\ status'.applied
    BY <1>1, <1>8, <2>1 DEF SyncApplies, SyncRecords, SyncTypeOK
  <2>3. \A n \in Nodes : half[n] \in Configs /\ esc[n] = half[n].limit
    BY <2>1 DEF AllInv, LimitsInv, HalvesInv, ForceInv
  <2> QED
    BY <2>1, <2>2, <2>3 DEF CleanInv, CleanSyncApplies
<1>9. CASE CommandAsks \/ CommandPrints
  <2>1. sync.step = "off" /\ UNCHANGED <<sync, half, status, esc, clean>>
    BY <1>9 DEF CommandAsks, CommandPrints, Idle, syncVars, limitVars
  <2> QED
    BY <2>1, CleanKept
<1>10. CASE RequestProceeds
  <2>1. /\ UNCHANGED <<sync, half, status, esc, installed>>
        /\ clean' = (clean /\ (asker'.step = "idle" => result'.ok))
        /\ RequestStep
    BY <1>10 DEF RequestProceeds, limitVars, RequestStep, Drain, Await, Send, Wake, TimeOut,
                 Copy, busVars
  <2>2. asker'.step # "idle" \/ asker'.fresh
    BY <1>1, <2>1, RequestGoesOn
  <2>3. clean' => SecondTry'
    BY <2>1, <2>2 DEF SecondTry
  <2> QED
    BY <2>1, <2>3, CleanKept
<1>11. CASE TimePasses
  <2>1. /\ UNCHANGED <<half, status, esc, clean, busVars, result>>
        /\ asker' = [asker EXCEPT !.left = IF @ > 0 THEN @ - 1 ELSE 0]
        /\ since' = IF since < MinInterval THEN since + 1 ELSE since
        /\ sync' = [sync EXCEPT !.pause = IF sync.pause > 0 THEN sync.pause - 1 ELSE 0]
    BY <1>11 DEF TimePasses, Tick, limitVars
  <2>2. /\ sync'.step = sync.step /\ sync'.of = sync.of /\ sync'.attempt = sync.attempt
        /\ sync'.pause = IF sync.pause > 0 THEN sync.pause - 1 ELSE 0
    BY <1>1, <2>1 DEF SyncRecords
  <2>3. asker'.step = asker.step /\ asker'.fresh = asker.fresh
    BY <1>1, <2>1, CanFields DEF Askers
  <2>4. since + sync.pause >= MinInterval => since' + sync'.pause >= MinInterval
    BY <1>1, <1>2, <2>1, <2>2
  <2>5. SecondTry => SecondTry'
    BY <2>1, <2>3, <2>4 DEF SecondTry
  <2> QED
    BY <2>1, <2>2, <2>5, CleanKept DEF busVars
<1>12. CASE BusProceeds
  <2>1. UNCHANGED <<sync, half, status, esc, clean>>
    BY <1>12 DEF BusProceeds, syncVars, limitVars
  <2>2. sync.step = "reading" => installed' = installed
    BY <1>12 DEF BusProceeds
  <2>3. Start \/ UNCHANGED askVars
    BY <1>12 DEF BusProceeds, BusStep, FrameStep, BusOff, TaskRefreshes, TaskEnds, Recovered,
       StopBegins, StopEnds, Receive, Lose
  <2>4. sync.step = "reading" /\ clean => ~Start
    BY DEF AllInv, CleanInv, Start
  <2>5. UNCHANGED askVars => (SecondTry => SecondTry')
    BY <2>1 DEF SecondTry, askVars
  <2> QED
    BY <2>1, <2>2, <2>3, <2>4, <2>5, CleanKept
<1> QED
  BY <1>3, <1>4, <1>5, <1>6, <1>7, <1>8, <1>9, <1>10, <1>11, <1>12, SyncReadsClean
     DEF SyncNext, SyncStep

\* On a bus that answers, a synchronisation that is over has been applied, unless the
\* halves are unlike: the pause outlasts the limiter that refuses the first try.
THEOREM CleanSyncAppliesHolds ==
    ASSUME Paced
    PROVE  SyncSpec => []CleanSyncApplies
<1>1. SyncInit => CleanInv
  BY DEF SyncInit, CleanInv
<1>2. AllInv /\ [SyncNext]_allVars => CleanInv'
  BY NextClean
<1>3. AllInv => CleanSyncApplies
  BY DEF AllInv, CleanInv, CleanSyncApplies
<1> QED
  BY <1>1, <1>2, <1>3, SyncAlways, PTL DEF SyncSpec, AllInv
=============================================================================
