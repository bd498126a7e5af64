---------------------------- MODULE MotorProofs ----------------------------
(***************************************************************************)
(* What is proved of the bench for every choice of the time-outs, of the   *)
(* currents and of the halves that may miss a frame, the promise of        *)
(* WheelPair included; and, at the end, of the journal of a burst.         *)
(*                                                                         *)
(* The bench has four, the last three inductive on top of the first:       *)
(*   BenchType   every variable is typed;                                  *)
(*   LatchInv    a split pair leaves the coordinator latched until it is   *)
(*               cleared, and clearing takes the arming away;              *)
(*   BarrierInv  a barrier has stood no longer than a granted request has  *)
(*               flown, and no longer than that and the age of the frame   *)
(*               a driven half obeys;                                      *)
(*   SplitInv    halves of unlike currents that are not latched have heard *)
(*               nothing since the latch was cleared.                      *)
(***************************************************************************)
EXTENDS MotorBench, BurstJournal, SupervisorProofs

BenchType == SupInv /\ BenchTypeOK

LatchInv ==
    /\ ~whole => latched
    /\ owed = "clear" => latched
    /\ owed = "arm" => ~armed

Granted == {"send", "sentA", "missedA"}

BarrierInv ==
    /\ ~Barrier => barred = 0
    /\ \A o \in Origins : call[o].at \in Granted => barred <= call[o].age
    /\ \A h \in Halves : half[h] # Free => barred <= Flight + half[h].quiet

-----------------------------------------------------------------------------
(* Types.                                                                  *)

\* The steps of the supervisor keep its invariant here as well.
LEMMA LoopKeepsSup ==
    ASSUME SupInv, LoopIteration
    PROVE  SupInv'
<1>1. in' \in Inputs
  BY InputsType DEF LoopIteration, SupInv, TypeOK
<1> QED
  BY <1>1, TimesAssumption
  DEF LoopIteration, SupInv, TypeOK, FaultIffCause, RunningHasDeadline, Never

HistoryType ==
    /\ barred \in 0 .. LetGo + 1 /\ sinceClear \in 0 .. LetGo + 1
    /\ owed \in {"nothing", "clear", "arm"}

LEMMA TypeParts == BenchType <=> SupInv /\ PathType /\ HistoryType
  BY DEF BenchType, BenchTypeOK, MotorTypeOK, PathType, HistoryType, SupInv, Calls, Currents

\* The histories keep their type in a step that takes no time.
LEMMA InstantType ==
    ASSUME HistoryType, Instant, owed' \in {"nothing", "clear", "arm"}
    PROVE  HistoryType'
<1>1. barred' \in 0 .. LetGo + 1
  BY PathAssumption DEF HistoryType, Instant, LetGo
<1> QED
  BY <1>1 DEF HistoryType, Instant, LetGo

LEMMA CountsType ==
    ASSUME NEW n \in 0 .. LetGo + 1
    PROVE  Counts(n) \in 0 .. LetGo + 1 /\ Counts(n) <= n + 1
  BY PathAssumption DEF Counts, LetGo

LEMMA SupervisorStepType ==
    ASSUME SupInv, PathType, SupervisorStep
    PROVE  SupInv' /\ PathType' /\ UNCHANGED <<gateVars, coordVars, benchVars, call, half>>
<1>1. SupInv'
  <2>1. CASE \E q \in {"OK", "LOST"} : ReportImuPermit(q)
    <3>1. SupNext
      BY <2>1 DEF SupNext, TaskCall, Permits
    <3> QED
      BY <3>1, NextInv
  <2>2. CASE Poll
    BY <2>2, NextInv DEF SupNext
  <2>3. CASE ClearFault
    BY <2>3, NextInv DEF SupNext, OperatorCall
  <2>4. CASE LoopIteration
    BY <2>4, LoopKeepsSup
  <2> QED
    BY <2>1, <2>2, <2>3, <2>4 DEF SupervisorStep
<1>2. UNCHANGED <<gateVars, coordVars, benchVars, call, half>>
  BY DEF SupervisorStep
<1>3. PathType'
  BY <1>2 DEF PathType, gateVars, coordVars, benchVars
<1> QED
  BY <1>1, <1>2, <1>3

LEMMA InitType == BenchInit => BenchType
<1> SUFFICES ASSUME BenchInit
             PROVE  BenchType
  OBVIOUS
<1>1. SupInv
  BY TimesAssumption
  DEF BenchInit, MotorInit, SupInv, TypeOK, FaultIffCause, RunningHasDeadline, States, Faults,
      Inputs, Never, NoBurst, Permits
<1>2. gateLeft \in GateGone .. BurstMax
  BY PathAssumption, TimesAssumption DEF BenchInit, MotorInit, GateGone
<1>3. runLeft \in 0 .. RunMax
  BY PathAssumption DEF BenchInit, MotorInit
<1>4. call \in [Origins -> Calls] /\ half \in [Halves -> Currents \cup {Free}]
  BY LevelExists DEF BenchInit, MotorInit
<1>5. HistoryType
  BY PathAssumption DEF BenchInit, HistoryType, LetGo
<1>6. PathType
  BY <1>2, <1>3, <1>4 DEF BenchInit, MotorInit, PathType
<1> QED
  BY <1>1, <1>5, <1>6, TypeParts

LEMMA NextType == BenchType /\ [BenchNext]_allVars => BenchType'
<1> SUFFICES ASSUME SupInv, PathType, HistoryType, [BenchNext]_allVars
             PROVE  SupInv' /\ PathType' /\ HistoryType'
  BY TypeParts, PTL
<1>1. CASE SourceStep
  <2>1. PathType' /\ UNCHANGED supVars
    <3>1. CASE ProducerAsks
      <4>1. call["experiment"].amps \in Levels
        BY DEF PathType, Calls, Origins
      <4>2. call' \in [Origins -> Calls]
        BY <3>1, <4>1, AskType DEF ProducerAsks, PathType, Origins
      <4> QED
        BY <3>1, <4>2 DEF ProducerAsks, PathType, gateVars, coordVars, benchVars
    <3>2. CASE ProducerEnds
      BY <3>2 DEF ProducerEnds, PathType, gateVars, coordVars
    <3>3. CASE Request("experiment")
      BY <3>3, RequestType DEF Origins
    <3> QED
      BY <1>1, <3>1, <3>2, <3>3 DEF SourceStep
  <2>2. owed' \in {"nothing", "clear", "arm"} /\ Instant
    BY <1>1 DEF SourceStep, HistoryType
  <2> QED
    BY <2>1, <2>2, SupUntouched, InstantType
<1>2. CASE CommandStep
  <2>1. PathType' /\ UNCHANGED supVars
    BY <1>2, CommandType DEF CommandStep
  <2> QED
    BY <1>2, <2>1, SupUntouched, InstantType DEF CommandStep, HistoryType
<1>3. CASE ArmStep
  <2>1. PathType' /\ UNCHANGED supVars
    BY <1>3, CommandType DEF ArmStep
  <2>2. owed' \in {"nothing", "clear", "arm"} /\ Instant
    BY <1>3 DEF ArmStep, HistoryType
  <2> QED
    BY <2>1, <2>2, SupUntouched, InstantType
<1>4. CASE ClearStep
  <2>1. PathType' /\ UNCHANGED supVars
    BY <1>4, CommandType DEF ClearStep
  <2>2. owed' \in {"nothing", "clear", "arm"}
    BY <1>4 DEF ClearStep, HistoryType
  <2>3. barred' \in 0 .. LetGo + 1 /\ sinceClear' \in 0 .. LetGo + 1
    BY <1>4, PathAssumption DEF ClearStep, HistoryType, LetGo
  <2> QED
    BY <2>1, <2>2, <2>3, SupUntouched DEF HistoryType, LetGo
<1>5. CASE TimeStep
  <2>1. PathType'
    BY <1>5, TickType DEF TimeStep
  <2>2. SupInv'
    BY <1>5, NextInv DEF TimeStep, MotorTick, SupNext
  <2>3. barred' \in 0 .. LetGo + 1 /\ sinceClear' \in 0 .. LetGo + 1
    BY <1>5, CountsType, PathAssumption DEF TimeStep, HistoryType, LetGo
  <2> QED
    BY <1>5, <2>1, <2>2, <2>3 DEF TimeStep, HistoryType, LetGo
<1>6. CASE OtherStep
  <2>1. owed' \in {"nothing", "clear", "arm"} /\ Instant
    BY <1>6 DEF OtherStep, HistoryType
  <2>2. CASE SupervisorStep
    BY <2>1, <2>2, SupervisorStepType, InstantType
  <2>3. CASE \E h \in Halves : EscReleases(h)
    BY <2>1, <2>3, ReleaseType, SupUntouched, InstantType
  <2> QED
    BY <1>6, <2>2, <2>3 DEF OtherStep
<1>7. CASE UNCHANGED allVars
  <2>1. UNCHANGED supVars
    BY <1>7 DEF allVars, motorVars
  <2>2. PathType'
    BY <1>7 DEF allVars, motorVars, PathType, gateVars, coordVars, benchVars
  <2>3. HistoryType'
    BY <1>7 DEF allVars, benchHistory, HistoryType, LetGo
  <2> QED
    BY <2>1, <2>2, <2>3, SupUntouched
<1> QED
  BY <1>1, <1>2, <1>3, <1>4, <1>5, <1>6, <1>7 DEF BenchNext

\* Every variable of the bench keeps its type, the supervisor's invariant
\* included.
THEOREM BenchTypeHolds == BenchSpec => []BenchType
  BY InitType, NextType, PTL DEF BenchSpec

THEOREM BenchTypeCorrect == BenchSpec => []BenchTypeOK
  BY BenchTypeHolds, PTL DEF BenchType

-----------------------------------------------------------------------------
(* The latch.                                                              *)

LEMMA InitLatch == BenchInit => LatchInv
  BY DEF BenchInit, MotorInit, LatchInv

\* A request touches the latch only where it reports a pair; it never arms.
LEMMA RequestLatch ==
    ASSUME NEW o \in Origins, Request(o), ~whole => latched
    PROVE  /\ armed' = armed
           /\ ~whole' => latched'
           /\ latched => latched'
<1>1. CASE Gate(o) \/ Plan(o) \/ SendA(o)
  BY <1>1 DEF Gate, Plan, SendA, coordVars
<1>2. CASE SendB(o)
  BY <1>2 DEF SendB, ReportSend
<1> QED
  BY <1>1, <1>2 DEF Request

LEMMA NextLatch == LatchInv /\ [BenchNext]_allVars => LatchInv'
<1> SUFFICES ASSUME LatchInv, [BenchNext]_allVars
             PROVE  LatchInv'
  OBVIOUS
<1> USE DEF LatchInv
<1>1. CASE SourceStep
  <2>1. armed' = armed /\ (~whole' => latched') /\ (latched => latched')
    <3>1. CASE ProducerAsks \/ ProducerEnds
      BY <3>1 DEF ProducerAsks, ProducerEnds, coordVars
    <3>2. CASE Request("experiment")
      BY <3>2, RequestLatch DEF Origins
    <3> QED
      BY <1>1, <3>1, <3>2 DEF SourceStep
  <2>2. owed' = IF Splits THEN "clear" ELSE owed
    BY <1>1 DEF SourceStep
  <2> QED
    BY <2>1, <2>2 DEF Splits
<1>2. CASE CommandStep
  BY <1>2 DEF CommandStep, MotorStop, MotorDisarm, ExperimentDisarm, OneShot, MotorRun,
              coordVars
<1>3. CASE ArmStep
  BY <1>3 DEF ArmStep, MotorArm, TryArm
<1>4. CASE ClearStep
  BY <1>4 DEF ClearStep, MotorClear
<1>5. CASE TimeStep
  BY <1>5 DEF TimeStep, MotorTick, coordVars
<1>6. CASE OtherStep
  BY <1>6 DEF OtherStep, SupervisorStep, EscReleases, coordVars
<1>7. CASE UNCHANGED allVars
  BY <1>7 DEF allVars, motorVars, benchHistory, coordVars
<1> QED
  BY <1>1, <1>2, <1>3, <1>4, <1>5, <1>6, <1>7 DEF BenchNext

THEOREM LatchHolds == BenchSpec => []LatchInv
  BY InitLatch, NextLatch, PTL DEF BenchSpec

\* A pair is granted only by the coordinator's decision.
LEMMA GrantIsPlanned ==
    ASSUME BenchType, [BenchNext]_allVars, NEW o \in Origins,
           call[o].at = "passed", call'[o].at = "send"
    PROVE  MayPlan
<1>0. call \in [Origins -> Calls]
  BY TypeParts DEF PathType
<1>1. CASE SourceStep
  <2>1. CASE ProducerAsks
    <3>1. Ask("experiment", call["experiment"].amps) /\ call["experiment"].amps \in Levels
      BY <1>0, <2>1 DEF ProducerAsks, Calls, Origins
    <3> QED
      BY <1>0, <3>1, AskType DEF Origins
  <2>2. CASE ProducerEnds
    BY <2>2 DEF ProducerEnds
  <2>3. CASE Request("experiment")
    <3>1. CASE Gate("experiment")
      <4>1. Goes("experiment", "idle") \/ Goes("experiment", "passed")
        BY <3>1 DEF Gate
      <4> QED
        BY <1>0, <4>1, GoesType DEF Origins, Stages
    <3>2. CASE Plan("experiment")
      <4>1. Goes("experiment", "idle") \/ MayPlan
        BY <3>2 DEF Plan
      <4> QED
        BY <1>0, <4>1, GoesType DEF Origins, Stages
    <3>3. CASE SendA("experiment") \/ SendB("experiment")
      <4>1. \/ Goes("experiment", "sentA") \/ Goes("experiment", "missedA")
            \/ Goes("experiment", "idle")
        BY <3>3 DEF SendA, SendB
      <4> QED
        BY <1>0, <4>1, GoesType DEF Origins, Stages
    <3> QED
      BY <2>3, <3>1, <3>2, <3>3 DEF Request
  <2> QED
    BY <1>1, <2>1, <2>2, <2>3 DEF SourceStep
<1>2. CASE CommandStep
  <2>1. CASE MotorStop \/ MotorDisarm
    BY <2>1 DEF MotorStop, MotorDisarm
  <2>2. ASSUME NEW l \in Levels, OneShot(l)
        PROVE  FALSE
    <3>1. Ask("experiment", l)
      BY <2>2 DEF OneShot
    <3> QED
      BY <1>0, <3>1, AskType DEF Origins
  <2>3. ASSUME NEW l \in Levels, NEW t \in 0 .. RunMax + 1, MotorRun(l, t)
        PROVE  FALSE
    <3>1. call' = [call EXCEPT !["experiment"].amps = l]
      BY <2>3 DEF MotorRun
    <3>2. call'[o].at = call[o].at
      BY <1>0, <3>1 DEF Calls
    <3> QED
      BY <3>2
  <2> QED
    BY <1>2, <2>1, <2>2, <2>3 DEF CommandStep
<1>3. CASE ArmStep \/ ClearStep
  BY <1>3 DEF ArmStep, ClearStep, MotorArm, TryArm, MotorClear
<1>4. CASE TimeStep
  <2>1. PathType
    BY TypeParts
  <2>2. call'[o].at = call[o].at
    BY <1>4, <2>1, TickCalls DEF TimeStep
  <2> QED
    BY <2>2
<1>5. CASE OtherStep
  BY <1>5 DEF OtherStep, SupervisorStep, EscReleases
<1>6. CASE UNCHANGED allVars
  BY <1>6 DEF allVars, motorVars
<1> QED
  BY <1>1, <1>2, <1>3, <1>4, <1>5, <1>6 DEF BenchNext

\* After a split pair the operator owes two acts before the next one.
THEOREM SplitOwesTwoActsHolds == BenchSpec => SplitOwesTwoActs
<1> DEFINE Step == \A o \in Origins :
                       At(o, "passed") /\ call'[o].at = "send" => owed = "nothing"
<1>1. ASSUME BenchType, LatchInv, [BenchNext]_allVars
      PROVE  [Step]_allVars
  <2> SUFFICES ASSUME NEW o \in Origins, At(o, "passed"), call'[o].at = "send"
               PROVE  owed = "nothing"
    OBVIOUS
  <2>1. armed /\ ~latched
    BY <1>1, GrantIsPlanned DEF At, MayPlan
  <2> QED
    BY <1>1, <2>1 DEF LatchInv, BenchType, BenchTypeOK
<1>2. BenchSpec => [][Step]_allVars
  BY <1>1, BenchTypeHolds, LatchHolds, PTL DEF BenchSpec
<1> QED
  BY <1>2 DEF SplitOwesTwoActs

-----------------------------------------------------------------------------
(* The barrier.                                                            *)

\* What a step that takes no time does to the requests: none is granted anew
\* under a barrier, and none grows younger.
Abides == \A o \in Origins : call'[o].at \in Granted =>
              barred = 0 \/ (call[o].at \in Granted /\ call'[o].age = call[o].age)

\* ... and to the halves: a half obeys a new frame only of a granted request.
Obeys == \A h \in Halves : half'[h] # Free =>
             half'[h] = half[h] \/ (half'[h].quiet = 0 /\ barred <= Flight)

LEMMA NoBarrierWhenPlanned ==
    ASSUME BenchType, BarrierInv, MayPlan
    PROVE  barred = 0
<1>1. imuAge \in Int
  BY TimesAssumption DEF BenchType, SupInv, TypeOK, Never
<1>2. state # "FAULT" /\ armed /\ ~latched /\ whole
  BY DEF MayPlan, SupervisorAllows
<1>3. ~(imuAge > ImuFresh)
  BY <1>1, PathAssumption DEF MayPlan, ImuIsFresh
<1>4. ~Barrier
  BY <1>2, <1>3 DEF Barrier
<1> QED
  BY <1>4 DEF BarrierInv

\* A granted request has flown for at least as long as the barrier stands.
LEMMA GrantedBounds ==
    ASSUME BenchType, BarrierInv, NEW o \in Origins, call[o].at \in Granted
    PROVE  barred <= Flight
<1>1. call[o].age \in 0 .. Flight
  BY TypeParts DEF PathType, Calls
<1>2. barred \in 0 .. LetGo + 1
  BY TypeParts DEF HistoryType
<1>3. barred <= call[o].age
  BY DEF BarrierInv
<1> QED
  BY <1>1, <1>2, <1>3, PathAssumption DEF LetGo

LEMMA InstantBarrier ==
    ASSUME BenchType, BenchType', BarrierInv, Abides, Obeys,
           barred' = IF Barrier' THEN barred ELSE 0
    PROVE  BarrierInv'
<1>1. ~Barrier' => barred' = 0
  OBVIOUS
<1>2. barred \in Nat /\ barred' <= barred
  <2>1. barred \in Nat
    BY TypeParts, PathAssumption DEF HistoryType, LetGo
  <2>2. barred' = barred \/ barred' = 0
    OBVIOUS
  <2> QED
    BY <2>1, <2>2
<1>5. barred' \in Nat
  BY <1>2
<1>3. ASSUME NEW o \in Origins, call'[o].at \in Granted
      PROVE  barred' <= call'[o].age
  <2>1. call'[o].age \in Nat
    BY TypeParts, PathAssumption DEF BenchType, BenchTypeOK, MotorTypeOK
  <2>2. CASE barred = 0
    BY <1>2, <1>5, <2>1, <2>2
  <2>3. CASE call[o].at \in Granted /\ call'[o].age = call[o].age
    BY <1>2, <1>5, <2>1, <2>3 DEF BarrierInv
  <2> QED
    BY <1>3, <2>2, <2>3 DEF Abides
<1>4. ASSUME NEW h \in Halves, half'[h] # Free
      PROVE  barred' <= Flight + half'[h].quiet
  <2>1. CASE half'[h] = half[h]
    <3>1. half[h].quiet \in Nat
      BY <1>4, <2>1, TypeParts, PathAssumption DEF PathType, Currents
    <3>2. barred <= Flight + half[h].quiet
      BY <1>4, <2>1 DEF BarrierInv
    <3> QED
      BY <1>2, <1>5, <2>1, <3>1, <3>2, PathAssumption
  <2>2. CASE half'[h].quiet = 0 /\ barred <= Flight
    BY <1>2, <1>5, <2>2, PathAssumption
  <2> QED
    BY <1>4, <2>1, <2>2 DEF Obeys
<1> QED
  BY <1>1, <1>3, <1>4 DEF BarrierInv

\* One step of a request on its way.
LEMMA RequestAbides ==
    ASSUME BenchType, BarrierInv, NEW o \in Origins, Request(o)
    PROVE  Abides /\ Obeys
<1>0. call \in [Origins -> Calls] /\ half \in [Halves -> Currents \cup {Free}]
  BY TypeParts DEF PathType
<1>1. CASE Gate(o)
  <2>1. Goes(o, "idle") \/ Goes(o, "passed")
    BY <1>1 DEF Gate
  <2>2. Abides
    BY <1>0, <2>1, GoesType DEF Abides, Granted, Stages
  <2> QED
    BY <1>1, <2>2 DEF Gate, Obeys
<1>2. CASE Plan(o)
  <2>1. Goes(o, "idle") \/ (barred = 0 /\ Goes(o, "send"))
    BY <1>2, NoBarrierWhenPlanned DEF Plan
  <2>2. Abides
    BY <1>0, <2>1, GoesType DEF Abides, Granted, Stages
  <2> QED
    BY <1>2, <2>2 DEF Plan, Obeys
<1>3. CASE SendA(o)
  <2>1. call[o].at \in Granted /\ barred <= Flight
    BY <1>3, GrantedBounds DEF SendA, At, Granted
  <2>2. Goes(o, "sentA") \/ Goes(o, "missedA")
    BY <1>3 DEF SendA
  <2>3. Abides
    BY <1>0, <2>1, <2>2, GoesType DEF Abides, Stages
  <2>4. \A h \in Halves : half'[h] = half[h] \/ half'[h].quiet = 0
    BY <1>0, <1>3, ReachedType DEF SendA, Halves
  <2> QED
    BY <2>1, <2>3, <2>4 DEF Obeys
<1>4. CASE SendB(o)
  <2>1. barred <= Flight
    BY <1>4, GrantedBounds DEF SendB, Granted
  <2>2. Goes(o, "idle")
    BY <1>4 DEF SendB
  <2>3. Abides
    BY <1>0, <2>2, GoesType DEF Abides, Granted, Stages
  <2>4. \A h \in Halves : half'[h] = half[h] \/ half'[h].quiet = 0
    BY <1>0, <1>4, ReachedType DEF SendB, Halves
  <2> QED
    BY <2>1, <2>3, <2>4 DEF Obeys
<1> QED
  BY <1>1, <1>2, <1>3, <1>4 DEF Request

\* The console, the producer and the supervisor move no granted request.
LEMMA OthersAbide ==
    ASSUME BenchType,
           \/ ProducerAsks \/ ProducerEnds \/ CommandStep \/ ArmStep \/ ClearStep \/ OtherStep
    PROVE  Abides /\ Obeys
<1>0. call \in [Origins -> Calls] /\ half \in [Halves -> Currents \cup {Free}]
  BY TypeParts DEF PathType
<1>1. ASSUME NEW l \in Levels, Ask("experiment", l)
      PROVE  Abides
  BY <1>0, <1>1, AskType DEF Abides, Granted, Origins
<1>2. CASE ProducerAsks
  <2>1. call["experiment"].amps \in Levels
    BY <1>0 DEF Calls, Origins
  <2> QED
    BY <1>1, <1>2, <2>1 DEF ProducerAsks, Obeys
<1>3. CASE ProducerEnds
  BY <1>3 DEF ProducerEnds, Abides, Obeys
<1>4. CASE CommandStep
  <2>1. CASE MotorStop \/ MotorDisarm
    BY <2>1 DEF MotorStop, MotorDisarm, Abides, Obeys
  <2>2. ASSUME NEW l \in Levels, OneShot(l)
        PROVE  Abides /\ Obeys
    BY <1>1, <2>2 DEF OneShot, Obeys
  <2>3. ASSUME NEW l \in Levels, NEW t \in 0 .. RunMax + 1, MotorRun(l, t)
        PROVE  Abides /\ Obeys
    <3>1. call' = [call EXCEPT !["experiment"].amps = l] /\ half' = half
      BY <2>3 DEF MotorRun
    <3>2. \A o \in Origins : call'[o].at = call[o].at /\ call'[o].age = call[o].age
      BY <1>0, <3>1 DEF Calls
    <3> QED
      BY <3>1, <3>2 DEF Abides, Obeys
  <2> QED
    BY <1>4, <2>1, <2>2, <2>3 DEF CommandStep
<1>5. CASE ArmStep \/ ClearStep
  BY <1>5 DEF ArmStep, ClearStep, MotorArm, TryArm, MotorClear, Abides, Obeys
<1>6. CASE OtherStep
  <2>1. CASE SupervisorStep
    BY <2>1 DEF SupervisorStep, Abides, Obeys
  <2>2. ASSUME NEW h \in Halves, EscReleases(h)
        PROVE  Abides /\ Obeys
    <3>1. PathType
      BY TypeParts
    <3>2. call' = call /\ \A k \in Halves : half'[k] = half[k] \/ half'[k] = Free
      BY <2>2, <3>1, ReleaseType
    <3> QED
      BY <3>2 DEF Abides, Obeys
  <2> QED
    BY <1>6, <2>1, <2>2 DEF OtherStep
<1> QED
  BY <1>2, <1>3, <1>4, <1>5, <1>6

\* While time passes, the barrier, the request and the frame age together.
LEMMA TimeBarrier ==
    ASSUME BenchType, BarrierInv, TimeStep
    PROVE  BarrierInv'
<1>0. PathType /\ PathType' /\ barred \in 0 .. LetGo + 1
  <2>1. PathType /\ HistoryType
    BY TypeParts
  <2> QED
    BY <2>1, TickType DEF TimeStep, HistoryType
<1>1. ~Barrier' => barred' = 0
  BY DEF TimeStep
<1>2. barred \in Nat /\ barred' \in Nat /\ barred' <= barred + 1
  <2>1. Counts(barred) \in 0 .. LetGo + 1 /\ Counts(barred) <= barred + 1
    BY <1>0, CountsType
  <2>2. barred' = Counts(barred) \/ barred' = 0
    BY DEF TimeStep
  <2> QED
    BY <1>0, <2>1, <2>2, PathAssumption DEF LetGo
<1>3. ASSUME NEW o \in Origins, call'[o].at \in Granted
      PROVE  barred' <= call'[o].age
  <2>1. call'[o].at = call[o].at /\ (call[o].at # "idle" => call'[o].age = call[o].age + 1)
    BY <1>0, TickCalls DEF TimeStep
  <2>2. call[o].at \in Granted /\ call'[o].age = call[o].age + 1
    BY <1>3, <2>1 DEF Granted
  <2>3. barred <= call[o].age /\ call[o].age \in Nat
    BY <1>0, <2>2, PathAssumption DEF BarrierInv, PathType, Calls
  <2> QED
    BY <1>2, <2>2, <2>3
<1>4. ASSUME NEW h \in Halves, half'[h] # Free
      PROVE  barred' <= Flight + half'[h].quiet
  <2>1. half[h] # Free /\ half'[h].quiet = half[h].quiet + 1
    BY <1>0, <1>4, TickType DEF TimeStep
  <2>2. barred <= Flight + half[h].quiet /\ half[h].quiet \in Nat
    BY <1>0, <2>1, PathAssumption DEF BarrierInv, PathType, Currents
  <2> QED
    BY <1>2, <2>1, <2>2, PathAssumption
<1> QED
  BY <1>1, <1>3, <1>4 DEF BarrierInv

LEMMA InitBarrier == BenchInit => BarrierInv
  BY DEF BenchInit, MotorInit, BarrierInv, Granted, NoCall

LEMMA NextBarrier == BenchType /\ BenchType' /\ BarrierInv /\ [BenchNext]_allVars => BarrierInv'
<1> SUFFICES ASSUME BenchType, BenchType', BarrierInv, [BenchNext]_allVars
             PROVE  BarrierInv'
  OBVIOUS
<1>1. CASE SourceStep
  <2>1. Abides /\ Obeys
    BY <1>1, RequestAbides, OthersAbide DEF SourceStep, Origins
  <2> QED
    BY <1>1, <2>1, InstantBarrier DEF SourceStep, Instant
<1>2. CASE CommandStep \/ ArmStep \/ ClearStep \/ OtherStep
  <2>1. Abides /\ Obeys
    BY <1>2, OthersAbide
  <2>2. barred' = IF Barrier' THEN barred ELSE 0
    BY <1>2 DEF CommandStep, ArmStep, ClearStep, OtherStep, Instant
  <2> QED
    BY <2>1, <2>2, InstantBarrier
<1>3. CASE TimeStep
  BY <1>3, TimeBarrier
<1>4. CASE UNCHANGED allVars
  BY <1>4 DEF allVars, motorVars, supVars, coordVars, benchHistory, BarrierInv, Barrier
<1> QED
  BY <1>1, <1>2, <1>3, <1>4 DEF BenchNext

\* Whichever barrier falls, both wheels are free once it has stood for the
\* flight of a request and the longest hold of an ESC.
THEOREM BarrierFreesWheelsHolds == BenchSpec => []BarrierFreesWheels
<1>1. BenchType /\ BarrierInv => BarrierFreesWheels
  <2> SUFFICES ASSUME BenchType, BarrierInv, barred > LetGo, NEW h \in Halves, half[h] # Free
               PROVE  FALSE
    BY DEF BarrierFreesWheels, Driven
  <2>1. half[h].quiet \in 0 .. EscMax
    BY TypeParts DEF PathType, Currents
  <2>2. barred \in 0 .. LetGo + 1 /\ barred <= Flight + half[h].quiet
    BY TypeParts DEF HistoryType, BarrierInv
  <2> QED
    BY <2>1, <2>2, PathAssumption DEF LetGo
<1> QED
  BY <1>1, BenchTypeHolds, InitBarrier, NextBarrier, PTL DEF BenchSpec

-----------------------------------------------------------------------------
(* The split pair.                                                         *)

\* Between the two frames of a pair the first half obeys the new one.  Outside
\* of them, halves of unlike currents that nothing latches have been so since
\* before the latch was cleared: no frame has reached them after it.
SplitInv ==
    /\ At("experiment", "sentA") /\ half["A"] # Free =>
           half["A"].amps = call["experiment"].amps
    /\ ~At("experiment", "sentA") /\ Driven = Halves /\ half["A"].amps # half["B"].amps =>
           latched \/ sinceClear <= half["A"].quiet

LEMMA InitSplit == BenchInit => SplitInv
  BY DEF BenchInit, MotorInit, SplitInv, At, NoCall, Driven, Halves, Origins

\* A step that moves no request of the source keeps this: the halves it drives it
\* drives as before, and the latch falls only as it is cleared.
LEMMA QuietStepSplit ==
    ASSUME SplitInv, call'["experiment"].at = call["experiment"].at,
           At("experiment", "sentA") => call'["experiment"].amps = call["experiment"].amps,
           \A h \in Halves : half'[h] = half[h] \/ half'[h] = Free,
           latched => latched', sinceClear' = sinceClear
    PROVE  SplitInv'
<1>1. Driven' = Halves => Driven = Halves /\ half'["A"] = half["A"] /\ half'["B"] = half["B"]
  BY DEF Driven, Halves
<1>2. half'["A"] # Free => half'["A"] = half["A"] /\ half["A"] # Free
  BY DEF Halves
<1> QED
  BY <1>1, <1>2 DEF SplitInv, At

\* So does a request that is not between its frames before or after.
LEMMA StageStepSplit ==
    ASSUME SplitInv, ~At("experiment", "sentA"), call'["experiment"].at # "sentA",
           UNCHANGED <<half, latched, sinceClear>>
    PROVE  SplitInv'
  BY DEF SplitInv, At, Driven

LEMMA RequestSplit ==
    ASSUME BenchType, SplitInv, Request("experiment"), UNCHANGED sinceClear
    PROVE  SplitInv'
<1>0. call \in [Origins -> Calls] /\ half \in [Halves -> Currents \cup {Free}] /\ "experiment" \in Origins
  BY TypeParts DEF PathType, Origins
<1>1. CASE Gate("experiment")
  <2>1. Goes("experiment", "idle") \/ Goes("experiment", "passed")
    BY <1>1 DEF Gate
  <2>2. ~At("experiment", "sentA") /\ call'["experiment"].at # "sentA"
    BY <1>0, <1>1, <2>1, GoesType DEF Gate, At, Stages
  <2> QED
    BY <1>1, <2>2, StageStepSplit DEF Gate, coordVars
<1>2. CASE Plan("experiment")
  <2>1. Goes("experiment", "idle") \/ Goes("experiment", "send")
    BY <1>2 DEF Plan
  <2>2. ~At("experiment", "sentA") /\ call'["experiment"].at # "sentA"
    BY <1>0, <1>2, <2>1, GoesType DEF Plan, At, Stages
  <2> QED
    BY <1>2, <2>2, StageStepSplit DEF Plan, coordVars
<1>3. CASE SendA("experiment")
  <2>1. PICK ok \in BOOLEAN : /\ Reached("A", ok, "experiment")
                              /\ Goes("experiment", IF ok THEN "sentA" ELSE "missedA")
    BY <1>3 DEF SendA
  <2>2. CASE ok
    <3>1. call'["experiment"].at = "sentA" /\ call'["experiment"].amps = call["experiment"].amps
      BY <1>0, <2>1, <2>2 DEF Goes, Calls
    <3>2. half'["A"].amps = call["experiment"].amps
      BY <1>0, <2>1, <2>2 DEF Reached, Commanded, Halves
    <3> QED
      BY <3>1, <3>2 DEF SplitInv, At
  <2>3. CASE ~ok
    <3>1. call'["experiment"].at # "sentA"
      BY <1>0, <2>1, <2>3, GoesType DEF Stages
    <3>2. half' = half /\ ~At("experiment", "sentA")
      BY <1>3, <2>1, <2>3 DEF Reached, SendA, At
    <3> QED
      BY <1>3, <3>1, <3>2, StageStepSplit DEF SendA, coordVars
  <2> QED
    BY <2>2, <2>3
<1>4. CASE SendB("experiment")
  <2>1. PICK ok \in BOOLEAN : Reached("B", ok, "experiment") /\ ReportSend(At("experiment", "sentA"), ok)
    BY <1>4 DEF SendB
  <2>2. call'["experiment"].at = "idle"
    BY <1>0, <1>4, GoesType DEF SendB, Stages
  <2>3. CASE At("experiment", "sentA") # ok
    <3>1. latched'
      BY <2>1, <2>3 DEF ReportSend
    <3> QED
      BY <2>2, <3>1 DEF SplitInv, At
  <2>4. CASE At("experiment", "sentA") /\ ok
    <3>1. half'["B"].amps = call["experiment"].amps /\ half'["A"] = half["A"]
      BY <1>0, <2>1, <2>4 DEF Reached, Commanded, Halves
    <3>2. half["A"] # Free => half["A"].amps = call["experiment"].amps
      BY <2>4 DEF SplitInv
    <3>3. Driven' = Halves => half'["A"] # Free
      BY DEF Driven, Halves
    <3> QED
      BY <2>2, <3>1, <3>2, <3>3 DEF SplitInv, At
  <2>5. CASE ~At("experiment", "sentA") /\ ~ok
    <3>1. half' = half
      BY <2>1, <2>5 DEF Reached
    <3>2. latched' = latched
      <4>1. ReportSend(FALSE, FALSE) /\ latched \in BOOLEAN
        BY <2>1, <2>5, TypeParts DEF PathType, At
      <4>2. latched' = (latched \/ FALSE # FALSE)
        BY <4>1 DEF ReportSend
      <4> QED
        BY <4>1, <4>2
    <3> QED
      BY <2>2, <2>5, <3>1, <3>2, StageStepSplit
  <2> QED
    BY <2>3, <2>4, <2>5
<1> QED
  BY <1>1, <1>2, <1>3, <1>4 DEF Request

\* A half that is driven and the time since the clearing age together.
LEMMA TimeSplit ==
    ASSUME BenchType, SplitInv, TimeStep
    PROVE  SplitInv'
<1>0. PathType /\ PathType' /\ sinceClear \in 0 .. LetGo + 1 /\ MotorTick
  BY TypeParts, TickType DEF TimeStep, HistoryType
<1>1. call'["experiment"].at = call["experiment"].at
  BY <1>0, TickCalls DEF Origins
<1>2. call'["experiment"].amps = call["experiment"].amps
  <2>1. \/ call'["experiment"] = call["experiment"]
        \/ call'["experiment"] = [call["experiment"] EXCEPT !.age = @ + 1]
    BY <1>0 DEF MotorTick, Origins
  <2> QED
    BY <1>0, <2>1 DEF PathType, Calls, Origins
<1>3. ASSUME NEW h \in Halves, half'[h] # Free
      PROVE  /\ half[h] # Free /\ half'[h].amps = half[h].amps
             /\ half[h].quiet \in Nat /\ half'[h].quiet = half[h].quiet + 1
  <2>1. half[h] # Free /\ half'[h].quiet = half[h].quiet + 1
    BY <1>0, <1>3, TickType
  <2>2. half'[h] = [half[h] EXCEPT !.quiet = @ + 1] /\ half[h] \in Currents
    BY <1>0, <2>1 DEF MotorTick, Driven, PathType
  <2> QED
    BY <2>1, <2>2, PathAssumption DEF Currents
<1>4. sinceClear' \in Nat /\ sinceClear' <= sinceClear + 1
  <2>1. Counts(sinceClear) \in 0 .. LetGo + 1 /\ Counts(sinceClear) <= sinceClear + 1
    BY <1>0, CountsType
  <2> QED
    BY <2>1, PathAssumption DEF TimeStep, LetGo
<1>5. latched' = latched
  BY <1>0 DEF MotorTick, coordVars
<1>6. At("experiment", "sentA")' /\ half'["A"] # Free => half'["A"].amps = call'["experiment"].amps
  BY <1>1, <1>2, <1>3 DEF SplitInv, At, Halves
<1>7. ASSUME ~At("experiment", "sentA")', Driven' = Halves,
             half'["A"].amps # half'["B"].amps, ~latched'
      PROVE  sinceClear' <= half'["A"].quiet
  <2>1. half'["A"] # Free /\ half'["B"] # Free
    BY <1>7 DEF Driven, Halves
  <2>2. Driven = Halves /\ half["A"].amps # half["B"].amps
    BY <1>3, <1>7, <2>1 DEF Driven, Halves
  <2>3. sinceClear <= half["A"].quiet
    BY <1>1, <1>5, <1>7, <2>2 DEF SplitInv, At
  <2>4. half["A"].quiet \in Nat /\ half'["A"].quiet = half["A"].quiet + 1
    BY <1>3, <2>1 DEF Halves
  <2>5. sinceClear \in Nat
    BY <1>0, PathAssumption DEF LetGo
  <2> QED
    BY <1>4, <2>3, <2>4, <2>5
<1> QED
  BY <1>6, <1>7 DEF SplitInv

LEMMA NextSplit == BenchType /\ SplitInv /\ [BenchNext]_allVars => SplitInv'
<1> SUFFICES ASSUME BenchType, SplitInv, [BenchNext]_allVars
             PROVE  SplitInv'
  OBVIOUS
<1>0. call \in [Origins -> Calls] /\ half \in [Halves -> Currents \cup {Free}] /\ "experiment" \in Origins
  BY TypeParts DEF PathType, Origins
<1>1. CASE SourceStep
  <2>1. CASE ProducerAsks
    <3>1. call["experiment"].amps \in Levels
      BY <1>0 DEF Calls
    <3>2. At("experiment", "idle") /\ call'["experiment"].at = "asked"
      BY <1>0, <2>1, <3>1, AskType DEF ProducerAsks, Ask
    <3> QED
      BY <1>1, <2>1, <3>2, StageStepSplit DEF ProducerAsks, At, SourceStep, Instant, coordVars
  <2>2. CASE ProducerEnds
    BY <1>1, <2>2, QuietStepSplit DEF ProducerEnds, SourceStep, Instant, coordVars
  <2>3. CASE Request("experiment")
    BY <1>1, <2>3, RequestSplit DEF SourceStep, Instant
  <2> QED
    BY <1>1, <2>1, <2>2, <2>3 DEF SourceStep
<1>2. CASE CommandStep
  <2>1. CASE MotorStop \/ MotorDisarm
    BY <1>2, <2>1, QuietStepSplit DEF MotorStop, MotorDisarm, CommandStep, Instant, coordVars
  <2>2. ASSUME NEW l \in Levels, OneShot(l)
        PROVE  SplitInv'
    <3>1. At("experiment", "idle") /\ call'["experiment"].at = "asked"
      BY <1>0, <2>2, AskType DEF OneShot, Ask
    <3> QED
      BY <1>2, <2>2, <3>1, StageStepSplit DEF OneShot, At, CommandStep, Instant, coordVars
  <2>3. ASSUME NEW l \in Levels, NEW t \in 0 .. RunMax + 1, MotorRun(l, t)
        PROVE  SplitInv'
    <3>1. At("experiment", "idle")
      BY <2>3 DEF MotorRun, ConsoleFree
    <3>2. call'["experiment"].at = call["experiment"].at
      BY <1>0, <2>3 DEF MotorRun, Calls
    <3> QED
      BY <1>2, <2>3, <3>1, <3>2, StageStepSplit DEF MotorRun, At, CommandStep, Instant, coordVars
  <2> QED
    BY <1>2, <2>1, <2>2, <2>3 DEF CommandStep
<1>3. CASE ArmStep
  BY <1>3, QuietStepSplit DEF ArmStep, MotorArm, TryArm, Instant
<1>4. CASE ClearStep
  <2>1. call' = call /\ half' = half /\ sinceClear' = 0
    BY <1>4 DEF ClearStep, MotorClear
  <2>2. Driven = Halves => half["A"].quiet \in Nat
    BY <1>0, PathAssumption DEF Driven, Halves, Currents
  <2> QED
    BY <2>1, <2>2 DEF SplitInv, At, Driven
<1>5. CASE TimeStep
  BY <1>5, TimeSplit
<1>6. CASE OtherStep
  <2>1. CASE SupervisorStep
    BY <1>6, <2>1, QuietStepSplit DEF SupervisorStep, OtherStep, Instant, coordVars
  <2>2. ASSUME NEW h \in Halves, EscReleases(h)
        PROVE  SplitInv'
    <3>1. PathType
      BY TypeParts
    <3> QED
      BY <1>6, <2>2, <3>1, ReleaseType, QuietStepSplit DEF OtherStep, Instant, coordVars
  <2> QED
    BY <1>6, <2>1, <2>2 DEF OtherStep
<1>7. CASE UNCHANGED allVars
  BY <1>7, QuietStepSplit DEF allVars, motorVars, benchHistory, coordVars
<1> QED
  BY <1>1, <1>2, <1>3, <1>4, <1>5, <1>6, <1>7 DEF BenchNext

\* Halves that hold unlike currents at rest are latched, or the latch was cleared
\* no longer ago than an ESC holds a current (fc_dual_motor.c:192-214).
THEOREM SplitIsLatchedHolds == BenchSpec => []SplitIsLatched
<1>1. BenchType /\ SplitInv => SplitIsLatched
  <2> SUFFICES ASSUME BenchType, SplitInv, Flying = {}, Driven = Halves,
                      half["A"].amps # half["B"].amps, ~latched
               PROVE  sinceClear <= EscMax
    BY DEF SplitIsLatched
  <2>1. ~At("experiment", "sentA")
    BY DEF Flying, At, Origins
  <2>2. half["A"].quiet \in 0 .. EscMax
    BY TypeParts DEF PathType, Driven, Halves, Currents
  <2>3. sinceClear \in Nat
    BY TypeParts, PathAssumption DEF HistoryType, LetGo
  <2>4. sinceClear <= half["A"].quiet
    BY <2>1 DEF SplitInv
  <2> QED
    BY <2>2, <2>3, <2>4, PathAssumption
<1> QED
  BY <1>1, BenchTypeHolds, InitSplit, NextSplit, PTL DEF BenchSpec

-----------------------------------------------------------------------------
(* The promise of WheelPair.                                               *)

LEMMA InitPair == BenchInit => Single("experiment") /\ Pair!Init
<1> SUFFICES ASSUME BenchInit PROVE Single("experiment") /\ Pair!Init
  OBVIOUS
<1>1. \A o \in Origins : call[o].at = "idle"
  BY DEF BenchInit, MotorInit, NoCall
<1>2. Single("experiment")
  BY <1>1 DEF Single, Origins
<1>3. OpenPairs = {}
  BY <1>1, <1>2, OpenOf DEF Sending, Origins
<1>4. Obeyed = [h \in Pair!Halves |-> [by |-> "nobody", amps |-> 0]]
  BY DEF BenchInit, MotorInit, Obeyed, Free, Halves, Pair!Halves
<1> QED
  BY <1>2, <1>3, <1>4 DEF Pair!Init, BenchInit, MotorInit

LEMMA NextPair ==
    ASSUME BenchType, BenchType', Single("experiment"), [BenchNext]_allVars
    PROVE  Single("experiment")' /\ PairStep
<1>0. PathType /\ PathType' /\ "experiment" \in Origins
  <2>1. PathType
    BY TypeParts
  <2>2. PathType'
    BY DEF BenchType, BenchTypeOK, MotorTypeOK, PathType, Calls, Currents
  <2> QED
    BY <2>1, <2>2 DEF Origins
<1>1. CASE UNCHANGED <<call, half, latched>>
  BY <1>0, <1>1, StillSingle
<1>2. CASE SourceStep
  <2>1. CASE ProducerAsks
    <3>1. /\ call["experiment"].at = "idle" /\ call'["experiment"].at = "asked"
          /\ call'["refloat"] = call["refloat"] /\ UNCHANGED <<half, latched>>
      <4>1. Ask("experiment", call["experiment"].amps) /\ call["experiment"].amps \in Levels
        BY <1>0, <2>1 DEF ProducerAsks, PathType, Calls
      <4> QED
        BY <1>0, <2>1, <4>1, AskType DEF ProducerAsks, PathType, Ask, At, coordVars, Origins
    <3> QED
      BY <1>0, <3>1, StillSingle DEF Sending, Origins
  <2>2. CASE ProducerEnds
    BY <1>1, <2>2 DEF ProducerEnds, coordVars
  <2>3. CASE Request("experiment")
    BY <1>0, <2>3, RequestSingle, RequestPair
  <2> QED
    BY <1>2, <2>1, <2>2, <2>3 DEF SourceStep
<1>3. CASE CommandStep
  <2>1. CASE MotorStop \/ MotorDisarm
    BY <1>1, <2>1 DEF MotorStop, MotorDisarm, coordVars
  <2>2. ASSUME NEW l \in Levels, OneShot(l)
        PROVE  Single("experiment")' /\ PairStep
    <3>1. /\ call["experiment"].at = "idle" /\ call'["experiment"].at = "asked"
          /\ call'["refloat"] = call["refloat"] /\ UNCHANGED <<half, latched>>
      BY <1>0, <2>2, AskType DEF OneShot, PathType, Ask, At, coordVars, Origins
    <3> QED
      BY <1>0, <3>1, StillSingle DEF Sending, Origins
  <2>3. ASSUME NEW l \in Levels, NEW t \in 0 .. RunMax + 1, MotorRun(l, t)
        PROVE  Single("experiment")' /\ PairStep
    <3>1. ~run /\ call' = [call EXCEPT !["experiment"].amps = l] /\ UNCHANGED <<half, latched>>
      BY <2>3 DEF MotorRun, coordVars
    <3>2. call["experiment"].at = "idle"
      BY <2>3, <3>1 DEF MotorRun, ConsoleFree, At
    <3>3. call'["experiment"].at = "idle" /\ call'["refloat"] = call["refloat"]
      BY <1>0, <3>1, <3>2 DEF PathType, Calls, Origins
    <3> QED
      BY <1>0, <3>1, <3>2, <3>3, StillSingle DEF Sending, Origins
  <2> QED
    BY <1>3, <2>1, <2>2, <2>3 DEF CommandStep
<1>4. CASE ArmStep
  BY <1>1, <1>4 DEF ArmStep, MotorArm, TryArm
<1>5. CASE ClearStep
  <2>1. UNCHANGED <<call, half>> /\ latched' = FALSE
    BY <1>5 DEF ClearStep, MotorClear
  <2> QED
    BY <1>0, <2>1, StillSingle
<1>6. CASE TimeStep
  <2>1. PairStep
    BY <1>0, <1>6, TickPair DEF TimeStep
  <2>2. Single("experiment")'
    <3>1. latched' = latched /\ \A o \in Origins : call'[o].at = call[o].at
      BY <1>0, <1>6, TickCalls DEF TimeStep, MotorTick, coordVars
    <3> QED
      BY <3>1 DEF Single, Origins
  <2> QED
    BY <2>1, <2>2
<1>7. CASE OtherStep
  <2>1. CASE SupervisorStep
    BY <1>1, <2>1 DEF SupervisorStep, coordVars
  <2>2. ASSUME NEW h \in Halves, EscReleases(h)
        PROVE  Single("experiment")' /\ PairStep
    <3>1. UNCHANGED <<call, latched>>
      BY <2>2 DEF EscReleases, coordVars
    <3> QED
      BY <1>0, <2>2, <3>1, ReleasePair DEF Single
  <2> QED
    BY <1>7, <2>1, <2>2 DEF OtherStep
<1>8. CASE UNCHANGED allVars
  BY <1>1, <1>8 DEF allVars, motorVars, coordVars
<1> QED
  BY <1>2, <1>3, <1>4, <1>5, <1>6, <1>7, <1>8 DEF BenchNext

\* The bench commands its wheels in pairs: whichever barrier, command, refusal of the bus
\* or fault falls between its steps, and whatever the operator clears meanwhile.
THEOREM KeepsPairsHolds == BenchSpec => KeepsPairs
<1>1. BenchInit => Single("experiment") /\ Pair!Init
  BY InitPair
<1>2. BenchType /\ BenchType' /\ Single("experiment") /\ [BenchNext]_allVars
          => Single("experiment")' /\ [Pair!Next]_(Pair!vars)
  BY NextPair DEF PairStep
<1> QED
  BY <1>1, <1>2, BenchTypeHolds, PTL DEF BenchSpec, KeepsPairs, Pair!Spec

-----------------------------------------------------------------------------
(* The journal of a burst, for every length of the two parts and every     *)
(* duration.  The records lie in the window because the window moves only  *)
(* while the buffer is empty (ConsoleInv); their order comes from the one  *)
(* writer, whose request is never older than the last record (WriterInv);  *)
(* and what goes to the ring once the writer has closed the buffer is past *)
(* the tail (ClosedInv).                                                   *)

Sized == PreSlots \in Nat \ {0} /\ MainSlots \in Nat /\ Windows \subseteq Nat

Records == [t : Int, whole : BOOLEAN]

TypeInv ==
    /\ preOn \in BOOLEAN /\ mainOn \in BOOLEAN
    /\ start \in Int /\ end \in Int /\ opened \in Int
    /\ main \in [0 .. MainSlots - 1 -> Records] /\ mainN \in 0 .. MainSlots
    /\ dropped \in Int /\ preTotal \in Int
    /\ now \in Nat /\ request \in Nat \cup {NoRequest}
    /\ slot \in {"pre", "main", "none"}
    /\ console \in {"off", "armed", "clocked", "started"}

ConsoleInv ==
    /\ mainOn => console = "started"
    /\ console \in {"armed", "clocked"} => mainN = 0
    /\ slot # "none" => request # NoRequest
    /\ slot = "main" => console # "armed" /\ console # "clocked"

WriterInv ==
    /\ request <= now
    /\ mainN > 0 => main[mainN - 1].t <= now
    /\ mainN > 0 /\ request # NoRequest => main[mainN - 1].t <= request
    /\ slot = "main" => mainN > 0 /\ main[mainN - 1].t = request
    /\ opened <= now

ClosedInv ==
    console = "started" /\ ~mainOn =>
        end < now /\ (request # NoRequest => slot # "none" \/ end < request)

JournalInv == TypeInv /\ ConsoleInv /\ WriterInv /\ ClosedInv /\ MainIsTheWindow

-----------------------------------------------------------------------------
LEMMA InitHolds ==
    ASSUME Sized, JournalInit
    PROVE  JournalInv
<1>1. TypeInv
  <2>1. Blank \in Records
    BY DEF Records, Blank
  <2>2. main \in [0 .. MainSlots - 1 -> Records]
    BY <2>1 DEF JournalInit
  <2>3. mainN \in 0 .. MainSlots /\ 0 \in Int /\ 0 \in Nat
    BY DEF Sized, JournalInit
  <2> QED
    BY <2>2, <2>3 DEF JournalInit, TypeInv
<1>2. ConsoleInv /\ WriterInv /\ ClosedInv
  BY DEF JournalInit, ConsoleInv, WriterInv, ClosedInv, NoRequest
<1>3. Recorded = {}
  BY DEF JournalInit, Recorded
<1>4. MainIsTheWindow
  BY <1>3 DEF MainIsTheWindow
<1> QED
  BY <1>1, <1>2, <1>4 DEF JournalInv

\* A step that touches neither the buffer nor the window.
LEMMA WindowStays ==
    ASSUME MainIsTheWindow, UNCHANGED <<main, mainN, start, end>>,
           slot = "main" => slot' = "main"
    PROVE  MainIsTheWindow'
  BY DEF MainIsTheWindow, Recorded

\* An emptied buffer, or one not yet used.
LEMMA WindowEmpty ==
    ASSUME mainN' = 0
    PROVE  MainIsTheWindow'
<1>1. Recorded' = {}
  BY DEF Recorded
<1> QED
  BY <1>1 DEF MainIsTheWindow

\* A record begun: it is the last one, in the window, and not older than the rest.
LEMMA TakeMainKeeps ==
    ASSUME Sized, JournalInv, TakeMain
    PROVE  JournalInv'
<1> USE DEF JournalInv, TypeInv, Records, NoRequest, Sized
<1>1. /\ mainN < MainSlots /\ mainN' = mainN + 1 /\ slot' = "main"
      /\ main' = [main EXCEPT ![mainN] = Record(request, FALSE)]
      /\ request \in Nat /\ mainOn /\ request >= start /\ request <= end /\ slot = "none"
      /\ UNCHANGED <<flagVars, preVars, dropped, now, request, console, opened>>
  BY DEF TakeMain, InMain
<1>2. main'[mainN] = [t |-> request, whole |-> FALSE]
  BY <1>1 DEF Record
<1>3. \A i \in 0 .. MainSlots - 1 : i # mainN => main'[i] = main[i]
  BY <1>1
<1>4. TypeInv'
  BY <1>1 DEF flagVars, preVars, Record
<1>5. MainIsTheWindow'
  <2>1. ASSUME NEW i \in Recorded'
        PROVE  /\ main'[i].t >= start /\ main'[i].t <= end
               /\ i > 0 => main'[i - 1].t <= main'[i].t
               /\ main'[i].whole \/ i = mainN
    <3>1. CASE i = mainN
      <4>1. main'[i].t = request /\ i = mainN
        BY <1>2, <3>1
      <4>2. ASSUME i > 0
            PROVE  main'[i - 1].t <= request
        <5>1. mainN - 1 \in 0 .. MainSlots - 1 /\ mainN - 1 # mainN /\ mainN > 0
          BY <1>1, <3>1, <4>2
        <5>2. main'[mainN - 1] = main[mainN - 1]
          BY <1>3, <5>1
        <5>3. main[mainN - 1].t <= request
          BY <1>1, <5>1 DEF WriterInv
        <5> QED
          BY <3>1, <5>2, <5>3
      <4>3. main'[i].t >= start /\ main'[i].t <= end
        BY <1>1, <4>1
      <4> QED
        BY <4>1, <4>2, <4>3
    <3>2. CASE i # mainN
      <4>0. i \in 0 .. mainN - 1 /\ i \in 0 .. MainSlots - 1
        BY <1>1, <2>1, <3>2 DEF Recorded
      <4>1. i \in Recorded /\ main'[i] = main[i]
        BY <1>3, <3>2, <4>0 DEF Recorded
      <4>2. ASSUME i > 0
            PROVE  main'[i - 1] = main[i - 1]
        <5>1. i - 1 \in 0 .. MainSlots - 1 /\ i - 1 # mainN
          BY <4>0, <4>2
        <5> QED
          BY <1>3, <5>1
      <4>3. main'[i].whole
        BY <1>1, <4>1 DEF MainIsTheWindow
      <4>4. main'[i].t >= start /\ main'[i].t <= end
        BY <4>1 DEF MainIsTheWindow
      <4>5. i > 0 => main'[i - 1].t <= main'[i].t
        BY <4>1, <4>2 DEF MainIsTheWindow
      <4> QED
        BY <4>3, <4>4, <4>5
    <3> QED
      BY <3>1, <3>2
  <2>2. UNCHANGED <<start, end>> /\ slot' = "main" /\ mainN' - 1 = mainN
    BY <1>1 DEF flagVars
  <2> QED
    BY <2>1, <2>2 DEF MainIsTheWindow
<1>6. ConsoleInv' /\ ClosedInv'
  BY <1>1 DEF ConsoleInv, ClosedInv, flagVars
<1>7. WriterInv'
  <2>1. mainN' - 1 = mainN /\ mainN' > 0
    BY <1>1
  <2>2. main'[mainN' - 1].t = request'
    <3>1. request' = request
      BY <1>1
    <3>2. main'[mainN' - 1] = main'[mainN]
      BY <2>1
    <3>3. main'[mainN].t = request
      BY <1>2
    <3> QED
      BY <3>1, <3>2, <3>3
  <2>3. request' <= now' /\ opened' <= now'
    BY <1>1 DEF WriterInv
  <2>4. request' \in Nat
    BY <1>1
  <2>5. main'[mainN' - 1].t <= now' /\ main'[mainN' - 1].t <= request'
    BY <2>2, <2>3, <2>4
  <2> QED
    BY ONLY <2>1, <2>2, <2>3, <2>5 DEF WriterInv
<1> QED
  BY <1>4, <1>5, <1>6, <1>7

\* The record under way is completed, and keeps its time.
LEMMA FilledKeeps ==
    ASSUME Sized, JournalInv, RecordFilled
    PROVE  JournalInv'
<1> USE DEF JournalInv, TypeInv, Records, NoRequest, Sized
<1>0. /\ slot' = "none" /\ request' = NoRequest /\ request \in Nat
      /\ UNCHANGED <<flagVars, preHead, preTotal, mainN, dropped, now, console, opened>>
  BY DEF RecordFilled
<1>1. CASE slot = "main"
  <2>1. /\ mainN > 0 /\ main[mainN - 1].t = request /\ mainN - 1 \in 0 .. MainSlots - 1
        /\ main' = [main EXCEPT ![mainN - 1] = [t |-> request, whole |-> TRUE]]
    BY <1>1 DEF RecordFilled, WriterInv, Record
  <2>2. \A i \in 0 .. MainSlots - 1 :
           main'[i].t = main[i].t /\ (main[i].whole => main'[i].whole)
    BY <2>1
  <2>3. main'[mainN - 1].whole
    BY <2>1
  <2>4. TypeInv'
    BY <1>0, <2>1 DEF flagVars
  <2>5. MainIsTheWindow'
    <3>1. ASSUME NEW i \in Recorded
          PROVE  /\ main'[i].t >= start /\ main'[i].t <= end
                 /\ i > 0 => main'[i - 1].t <= main'[i].t
                 /\ main'[i].whole
      <4>1. i \in 0 .. MainSlots - 1 /\ (i > 0 => i - 1 \in 0 .. MainSlots - 1)
        BY <3>1 DEF Recorded
      <4>2. main'[i].t = main[i].t /\ (i > 0 => main'[i - 1].t = main[i - 1].t)
        BY <2>2, <4>1
      <4>3. main'[i].t >= start /\ main'[i].t <= end
        BY <4>2 DEF MainIsTheWindow
      <4>4. i > 0 => main'[i - 1].t <= main'[i].t
        BY <4>2 DEF MainIsTheWindow
      <4>5. main'[i].whole
        <5>1. main[i].whole \/ i = mainN - 1
          BY DEF MainIsTheWindow
        <5> QED
          BY <2>2, <2>3, <4>1, <5>1
      <4> QED
        BY <4>3, <4>4, <4>5
    <3> QED
      BY <1>0, <3>1 DEF MainIsTheWindow, Recorded, flagVars
  <2> QED
    BY <1>0, <2>1, <2>2, <2>4, <2>5 DEF ConsoleInv, WriterInv, ClosedInv, flagVars
<1>2. CASE slot # "main"
  <2>1. UNCHANGED main
    BY <1>2 DEF RecordFilled
  <2>2. MainIsTheWindow'
    BY <1>0, <1>2, <2>1 DEF MainIsTheWindow, Recorded, flagVars
  <2> QED
    BY <1>0, <2>1, <2>2 DEF ConsoleInv, WriterInv, ClosedInv, flagVars
<1> QED
  BY <1>1, <1>2

LEMMA NextKeeps ==
    ASSUME Sized, JournalInv, [JournalNext]_vars
    PROVE  JournalInv'
<1> USE DEF JournalInv, TypeInv, Records, NoRequest, Sized, flagVars, preVars, mainVars
<1>1. CASE LogArm
  <2>1. MainIsTheWindow'
    BY <1>1, WindowEmpty DEF LogArm
  <2>2. TypeInv'
    <3>1. main' \in [0 .. MainSlots - 1 -> Records] /\ mainN' \in 0 .. MainSlots
      BY <1>1 DEF LogArm
    <3>2. start' \in Int /\ end' \in Int /\ opened' \in Int /\ dropped' \in Int /\ preTotal' \in Int
      BY <1>1 DEF LogArm
    <3>3. now' \in Nat /\ request' \in Nat \cup {NoRequest} /\ slot' \in {"pre", "main", "none"}
      BY <1>1 DEF LogArm
    <3> QED
      BY <1>1, <3>1, <3>2, <3>3 DEF LogArm
  <2>3. slot = "none" /\ slot' = "none" /\ console' = "armed" /\ mainN' = 0 /\ ~mainOn'
        /\ request' = NoRequest /\ opened' = opened /\ now' = now
    BY <1>1 DEF LogArm, ConsoleInv
  <2>4. ConsoleInv' /\ ClosedInv'
    BY <2>3 DEF ConsoleInv, ClosedInv
  <2>5. WriterInv'
    BY <2>3 DEF WriterInv
  <2> QED
    BY <2>1, <2>2, <2>4, <2>5
<1>2. CASE StartRead
  BY <1>2, WindowStays DEF StartRead, ConsoleInv, WriterInv, ClosedInv
<1>3. ASSUME NEW w \in Windows, LogStart(w)
      PROVE  JournalInv'
  <2>1. MainIsTheWindow'
    BY <1>3, WindowEmpty DEF LogStart, ConsoleInv
  <2> QED
    BY <1>3, <2>1 DEF LogStart, ConsoleInv, WriterInv, ClosedInv
<1>4. CASE LogStop
  BY <1>4, WindowStays DEF LogStop, ConsoleInv, WriterInv, ClosedInv
<1>5. CASE RequestBegins
  BY <1>5, WindowStays DEF RequestBegins, ConsoleInv, WriterInv, ClosedInv
<1>6. CASE TakeMain
  BY <1>6, TakeMainKeeps
<1>7. CASE TakePre
  BY <1>7, WindowStays DEF TakePre, ConsoleInv, WriterInv, ClosedInv
<1>8. CASE TakeNone
  <2>1. MainIsTheWindow'
    BY <1>8, WindowStays DEF TakeNone
  <2>2. mainOn' # mainOn => end < request /\ ~mainOn'
    BY <1>8 DEF TakeNone, InMain
  <2>0. /\ slot = "none" /\ slot' = "none" /\ request' = NoRequest
        /\ UNCHANGED <<preOn, start, end, pre, preHead, preTotal, main, mainN, now, console, opened>>
    BY <1>8 DEF TakeNone
  <2>9. mainOn' \in BOOLEAN /\ dropped' \in Int
    <3>1. CASE mainOn' = mainOn /\ dropped' = dropped
      BY <3>1
    <3>2. CASE mainOn' = FALSE /\ dropped' = dropped
      BY <3>2
    <3>3. CASE dropped' = dropped + 1 /\ mainOn' = mainOn
      BY <3>3
    <3> QED
      BY <1>8, <3>1, <3>2, <3>3 DEF TakeNone
  <2>3. /\ TypeInv' /\ slot = "none" /\ slot' = "none" /\ request' = NoRequest
        /\ UNCHANGED <<start, end, main, mainN, now, console, opened>>
    BY <2>0, <2>9
  <2>4. ConsoleInv' /\ WriterInv'
    BY <2>2, <2>3 DEF ConsoleInv, WriterInv
  <2>5. ClosedInv'
    BY <2>2, <2>3 DEF WriterInv, ClosedInv
  <2> QED
    BY <2>1, <2>3, <2>4, <2>5
<1>9. CASE RecordFilled
  BY <1>9, FilledKeeps
<1>10. CASE TimePasses
  BY <1>10, WindowStays DEF TimePasses, ConsoleInv, WriterInv, ClosedInv
<1>11. CASE UNCHANGED vars
  BY <1>11, WindowStays DEF vars, ConsoleInv, WriterInv, ClosedInv
<1> QED
  BY <1>1, <1>2, <1>3, <1>4, <1>5, <1>6, <1>7, <1>8, <1>9, <1>10, <1>11 DEF JournalNext

LEMMA RingStep ==
    ASSUME Sized, JournalInv, [JournalNext]_vars
    PROVE  [preTotal' # preTotal /\ console = "started" => request < start \/ request > end]_vars
<1> USE DEF JournalInv, TypeInv, NoRequest, flagVars, preVars, mainVars
<1>1. CASE TakePre
  BY <1>1 DEF TakePre, InMain, ClosedInv
<1>2. CASE LogArm
  BY <1>2 DEF LogArm
<1>3. CASE UNCHANGED preTotal
  BY <1>3
<1> QED
  BY <1>1, <1>2, <1>3 DEF JournalNext, vars, StartRead, LogStart, LogStop, RequestBegins,
                          TakeMain, TakeNone, RecordFilled, TimePasses

-----------------------------------------------------------------------------
(* Theorems.                                                               *)

\* What the report prints as the burst is the burst: requests of the window in
\* the order in which they were made, all complete but the one under way
\* (fc_cl_burst.c:58-129).
THEOREM BurstIsTheWindow ==
    ASSUME Sized
    PROVE  JournalSpec => []MainIsTheWindow
<1>1. JournalInit => JournalInv
  BY InitHolds
<1>2. JournalInv /\ [JournalNext]_vars => JournalInv'
  BY NextKeeps
<1>3. JournalInv => MainIsTheWindow
  BY DEF JournalInv
<1> QED
  BY <1>1, <1>2, <1>3, PTL DEF JournalSpec

\* No request of the burst or its tail is taken for one from before the start;
\* those after the tail are (fc_cl_burst.c:74-88).
THEOREM RingIsOutside ==
    ASSUME Sized
    PROVE  JournalSpec => RingOutsideTheWindow
<1>1. JournalInit => JournalInv
  BY InitHolds
<1>2. JournalInv /\ [JournalNext]_vars => JournalInv'
  BY NextKeeps
<1>3. JournalInv /\ [JournalNext]_vars =>
          [preTotal' # preTotal /\ console = "started" => request < start \/ request > end]_vars
  BY RingStep
<1> QED
  BY <1>1, <1>2, <1>3, PTL DEF JournalSpec, RingOutsideTheWindow
=============================================================================
