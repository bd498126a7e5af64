--------------------------- MODULE ServicesProofs ---------------------------
(***************************************************************************)
(* What is proved of the services beside the control loop.                 *)
(*                                                                         *)
(* The store, for every set of words, every wait and every number of NVS   *)
(* errors.  NoFlashUnderTorque is not inductive: that the closed loop is   *)
(* not armed during a flash operation follows from what was true when the  *)
(* task decided, which TorqueInv carries along: the request stays pending, *)
(* and a cl-ready whose checks have passed implies an armed coordinator.   *)
(* NothingForgotten needs to know how the blob under way relates to the    *)
(* mirror: BooksInv.                                                       *)
(*                                                                         *)
(* The log, for every set of tasks.  LinesInOrder needs the places of the  *)
(* ring to be told apart (PlacesDiffer), and that a line let in under the  *)
(* mutex finds room (MutexInv).  The counter of dropped lines needs what   *)
(* each task holds between its read and its write: HeldInv.                *)
(*                                                                         *)
(* The trace of gaps, which nothing protects: what a reset across a        *)
(* capture may do to it (GapTypes) and what holds with none (TraceInv).    *)
(*                                                                         *)
(* The account of the processor, for every number of tasks.  Windows nest, *)
(* and a sum over all that are open would have to be followed; CleanInv    *)
(* needs only each open window and the next one above it.                  *)
(*                                                                         *)
(* The observer of the requests, for every ring of two places or more: the *)
(* accounts (EachCountedOnce is inductive over their types), and the ring  *)
(* (HistoryClean), whose newest record each phase dates differently.       *)
(***************************************************************************)
EXTENDS Storage, LogRing, GapTrace, CpuAccount, ShadowRun, TLAPS

Critical == at \in {"commit", "set", "writing"}

TorqueInv ==
    /\ Critical => pending /\ con # "checked" /\ state \notin {"ARMED", "RUNNING"}
    /\ con = "checked" => benchArmed

BooksInv ==
    /\ words \in Contents /\ flash \in Contents /\ blob \in Contents
    /\ calLeft \in SUBSET CalWords
    /\ NothingForgotten
    /\ at \in {"set", "writing"} => dirty
    /\ at = "writing" => \A w \in Words : words[w] # blob[w] => w \in missed
    /\ at = "written" => \A w \in Words : words[w] # flash[w] => w \in missed

-----------------------------------------------------------------------------
(* No flash under torque.                                                  *)

\* The supervisor's own calls lead into ARMED and RUNNING from nowhere.
LEMMA SupervisorStepNeverArms ==
    ASSUME SupervisorStep, state \notin {"ARMED", "RUNNING"}
    PROVE  state' \notin {"ARMED", "RUNNING"}
<1>1. ASSUME NEW p \in Permits, ReportImuPermit(p)
      PROVE  state' \notin {"ARMED", "RUNNING"}
  BY <1>1 DEF ReportImuPermit, EnterFault
<1>2. ASSUME NEW b \in BOOLEAN, ReportFootpad(b)
      PROVE  state' \notin {"ARMED", "RUNNING"}
  BY <1>2 DEF ReportFootpad
<1>3. ASSUME Poll
      PROVE  state' \notin {"ARMED", "RUNNING"}
  BY <1>3 DEF Poll, EnterFault
<1> QED
  BY <1>1, <1>2, <1>3 DEF SupervisorStep

\* The console arms the closed loop only when cl-ready's checks have passed.
LEMMA ConsoleStepKeepsTorque ==
    ASSUME TorqueInv, ConsoleStep
    PROVE  TorqueInv'
<1> USE DEF TorqueInv, Critical
<1>0. at' = at /\ pending' = pending
  BY DEF ConsoleStep, Elsewhere, mirrorVars, flushVars
<1>1. CASE MotorArm
  BY <1>0, <1>1 DEF MotorArm, supVars
<1>2. CASE MotorDisarm
  BY <1>0, <1>2 DEF MotorDisarm, supVars
<1>3. CASE ClReadyChecks
  BY <1>0, <1>3 DEF ClReadyChecks, supVars
<1>4. CASE ClReadyArms
  BY <1>0, <1>4 DEF ClReadyArms, RequestClosedLoopReady, supVars
<1>5. CASE ClBurst
  BY <1>0, <1>5 DEF ClBurst, BeginBurst
<1>6. CASE ClBurstOver
  BY <1>0, <1>6 DEF ClBurstOver, Disarm, supVars
<1>7. CASE con = "free" /\ (RequestReady \/ Disarm \/ ClearFault) /\ UNCHANGED <<benchArmed, con>>
  BY <1>0, <1>7 DEF RequestReady, Disarm, ClearFault
<1> QED
  BY <1>1, <1>2, <1>3, <1>4, <1>5, <1>6, <1>7 DEF ConsoleStep

\* The task enters the critical steps only where writing is allowed, and keeps
\* the request pending until it has left them.
LEMMA FlushStepKeepsTorque ==
    ASSUME TorqueInv, FlushStep
    PROVE  TorqueInv'
<1> USE DEF TorqueInv, Critical, TaskSteps, Step, consoleVars, supVars
<1>1. CASE Wake
  BY <1>1 DEF Wake
<1>2. CASE ForgetRequest
  BY <1>2 DEF ForgetRequest
<1>3. CASE Decide
  BY <1>3 DEF Decide, FlashWriteAllowed, ConfigWriteAllowed
<1>4. CASE CommitBegins
  BY <1>4 DEF CommitBegins
<1>5. CASE SetBlob
  BY <1>5 DEF SetBlob
<1>6. CASE Written
  BY <1>6 DEF Written
<1>7. CASE NvsFails
  BY <1>7 DEF NvsFails
<1>8. CASE ClearDirty
  BY <1>8 DEF ClearDirty
<1>9. CASE Report
  BY <1>9 DEF Report
<1> QED
  BY <1>1, <1>2, <1>3, <1>4, <1>5, <1>6, <1>7, <1>8, <1>9 DEF FlushStep

LEMMA StepKeepsTorque ==
    ASSUME TorqueInv, [StorageNext]_storeVars
    PROVE  TorqueInv'
<1> USE DEF TorqueInv, Critical, consoleVars, flushVars, supVars
<1>1. CASE RefloatStores
  BY <1>1 DEF RefloatStores
<1>2. CASE CalBegins
  BY <1>2 DEF CalBegins
<1>3. CASE CalStores
  BY <1>3 DEF CalStores
<1>4. CASE CalEnds
  BY <1>4 DEF CalEnds
<1>5. CASE FlushStep
  BY <1>5, FlushStepKeepsTorque
<1>6. CASE ConsoleStep
  BY <1>6, ConsoleStepKeepsTorque
<1>7. CASE SupervisorStep
  BY <1>7, SupervisorStepNeverArms DEF SupervisorStep, Elsewhere
<1>8. CASE TimePasses
  BY <1>8 DEF TimePasses
<1>9. CASE Restart
  BY <1>9 DEF Restart
<1>10. CASE UNCHANGED storeVars
  BY <1>10 DEF storeVars
<1> QED
  BY <1>1, <1>2, <1>3, <1>4, <1>5, <1>6, <1>7, <1>8, <1>9, <1>10 DEF StorageNext

\* No flash operation runs while the closed loop is armed or runs, however the
\* console, the supervisor and the storage task interleave.
THEOREM NoFlashUnderTorqueHolds == StorageSpec => []NoFlashUnderTorque
<1>1. StorageInit => TorqueInv
  BY DEF StorageInit, TorqueInv, Critical
<1>2. TorqueInv /\ [StorageNext]_storeVars => TorqueInv'
  BY StepKeepsTorque
<1>3. TorqueInv => NoFlashUnderTorque
  BY DEF TorqueInv, Critical, NoFlashUnderTorque, Busy
<1> QED
  BY <1>1, <1>2, <1>3, PTL DEF StorageSpec

-----------------------------------------------------------------------------
(* The books of the task.                                                  *)

\* Storing a word puts it on the books, or on the list of the missed.
LEMMA WriteKeepsBooks ==
    ASSUME BooksInv, NEW w \in Words, NEW v \in Values, Write(w, v),
           UNCHANGED <<flash, blob, at>>, calLeft' \in SUBSET CalWords
    PROVE  BooksInv'
<1> USE DEF BooksInv
<1>1. words' \in Contents
  BY DEF Write, Contents
<1>2. \A u \in Words : words'[u] = IF u = w THEN v ELSE words[u]
  BY DEF Write, Contents
<1>3. missed \subseteq missed'
  BY DEF Write
<1>4. dirty => dirty'
  BY DEF Write
<1>5. CASE words[w] = v
  <2>1. \A u \in Words : words'[u] = words[u]
    BY <1>2, <1>5
  <2> QED
    BY <1>1, <1>3, <1>4, <2>1 DEF NothingForgotten
<1>6. CASE words[w] # v
  <2>1. dirty'
    BY <1>6 DEF Write
  <2>2. at \in {"writing", "written"} => w \in missed'
    BY <1>6 DEF Write
  <2> QED
    BY <1>1, <1>2, <1>3, <2>1, <2>2 DEF NothingForgotten
<1> QED
  BY <1>5, <1>6

LEMMA FlushStepKeepsBooks ==
    ASSUME BooksInv, FlushStep
    PROVE  BooksInv'
<1> USE DEF BooksInv, NothingForgotten, TaskSteps, Step, consoleVars
<1>1. CASE Wake
  BY <1>1 DEF Wake
<1>2. CASE ForgetRequest
  BY <1>2 DEF ForgetRequest
<1>3. CASE Decide
  BY <1>3 DEF Decide
<1>4. CASE CommitBegins
  BY <1>4 DEF CommitBegins
<1>5. CASE SetBlob
  BY <1>5 DEF SetBlob
<1>6. CASE Written
  BY <1>6 DEF Written
<1>7. CASE NvsFails
  BY <1>7 DEF NvsFails, mirrorVars
<1>8. CASE ClearDirty
  BY <1>8 DEF ClearDirty
<1>9. CASE Report
  BY <1>9 DEF Report
<1> QED
  BY <1>1, <1>2, <1>3, <1>4, <1>5, <1>6, <1>7, <1>8, <1>9 DEF FlushStep

LEMMA StepKeepsBooks ==
    ASSUME BooksInv, [StorageNext]_storeVars
    PROVE  BooksInv'
<1>1. CASE RefloatStores
  <2>1. CASE \E w \in Words \ CalWords, v \in Values : Write(w, v) /\ UNCHANGED requested
    BY <1>1, <2>1, WriteKeepsBooks DEF RefloatStores, flushVars, consoleVars, BooksInv
  <2>2. CASE requested' = TRUE /\ UNCHANGED <<words, dirty, quiet, missed>>
    BY <1>1, <2>2 DEF RefloatStores, flushVars, consoleVars, BooksInv, NothingForgotten
  <2> QED
    BY <1>1, <2>1, <2>2 DEF RefloatStores
<1>2. CASE CalBegins
  BY <1>2 DEF CalBegins, mirrorVars, flushVars, BooksInv, NothingForgotten
<1>3. CASE CalStores
  <2>1. PICK w \in calLeft, v \in Values : Write(w, v) /\ calLeft' = calLeft \ {w}
    BY <1>3 DEF CalStores
  <2>2. w \in Words
    BY <2>1, StoreAssumption DEF BooksInv
  <2>3. UNCHANGED <<flash, blob, at>> /\ calLeft' \in SUBSET CalWords
    BY <1>3, <2>1 DEF CalStores, flushVars, BooksInv
  <2> QED
    BY <2>1, <2>2, <2>3, WriteKeepsBooks
<1>4. CASE CalEnds
  BY <1>4 DEF CalEnds, flushVars, BooksInv, NothingForgotten
<1>5. CASE FlushStep
  BY <1>5, FlushStepKeepsBooks
<1>6. CASE ConsoleStep \/ SupervisorStep
  BY <1>6 DEF ConsoleStep, SupervisorStep, Elsewhere, mirrorVars, flushVars, BooksInv,
              NothingForgotten
<1>7. CASE TimePasses
  BY <1>7 DEF TimePasses, flushVars, consoleVars, BooksInv, NothingForgotten
<1>8. CASE Restart
  BY <1>8 DEF Restart, BooksInv, NothingForgotten
<1>9. CASE UNCHANGED storeVars
  BY <1>9 DEF storeVars, mirrorVars, flushVars, consoleVars, BooksInv, NothingForgotten
<1> QED
  BY <1>1, <1>2, <1>3, <1>4, <1>5, <1>6, <1>7, <1>8, <1>9 DEF StorageNext

\* A word that differs from its copy in flash is known to be dirty, or was
\* stored while a commit was under way: nothing else is ever forgotten, also
\* across refusals, NVS errors, lost requests and restarts.
THEOREM NothingForgottenHolds == StorageSpec => []NothingForgotten
<1>1. StorageInit => BooksInv
  BY DEF StorageInit, BooksInv, NothingForgotten
<1>2. BooksInv /\ [StorageNext]_storeVars => BooksInv'
  BY StepKeepsBooks
<1>3. BooksInv => NothingForgotten
  BY DEF BooksInv
<1> QED
  BY <1>1, <1>2, <1>3, PTL DEF StorageSpec

-----------------------------------------------------------------------------
(* Types.                                                                  *)

LEMMA ConditionsGone ==
    ASSUME NEW f \in SUBSET Faults, NEW i \in Inputs
    PROVE  StillFaulty(i, f) \in SUBSET Faults
  BY DEF StillFaulty, Faults

\* The calls of the supervisor that the console and the task make.
LEMMA CallsKeepType ==
    ASSUME TypeOK,
           \/ RequestReady \/ RequestClosedLoopReady \/ Disarm \/ ClearFault \/ Poll
           \/ \E d \in 1 .. BurstMax, lag \in 0 .. SampleLag : BeginBurst(d, lag)
           \/ \E p \in Permits : ReportImuPermit(p)
           \/ \E b \in BOOLEAN : ReportFootpad(b)
    PROVE  TypeOK'
<1>1. NoBurst \in NoBurst .. BurstMax
  BY TimesAssumption DEF NoBurst
<1>2. CASE RequestReady \/ RequestClosedLoopReady \/ Disarm
  BY <1>1, <1>2 DEF RequestReady, RequestClosedLoopReady, Disarm, TypeOK, States
<1>3. CASE ClearFault
  BY <1>3, ConditionsGone DEF ClearFault, TypeOK, States
<1>4. CASE Poll
  <2>1. PolledInputs \in Inputs /\ StaleFault \in SUBSET Faults
    BY DEF PolledInputs, StaleFault, TypeOK, Inputs, Faults
  <2> QED
    BY <1>1, <1>4, <2>1 DEF Poll, EnterFault, TypeOK, States
<1>5. ASSUME NEW d \in 1 .. BurstMax, NEW lag \in 0 .. SampleLag, BeginBurst(d, lag)
      PROVE  TypeOK'
  <2>1. Remainder(d, lag) \in NoBurst .. BurstMax
    BY TimesAssumption DEF Remainder, NoBurst
  <2> QED
    BY <1>5, <2>1 DEF BeginBurst, TypeOK, States
<1>6. ASSUME NEW p \in Permits, ReportImuPermit(p)
      PROVE  TypeOK'
  <2>1. in' \in Inputs /\ {ImuFault} \in SUBSET Faults
    BY <1>6 DEF ReportImuPermit, TypeOK, Inputs, Faults
  <2> QED
    BY <1>6, <2>1 DEF ReportImuPermit, EnterFault, TypeOK, States
<1>7. ASSUME NEW b \in BOOLEAN, ReportFootpad(b)
      PROVE  TypeOK'
  <2>1. in' \in Inputs
    BY <1>7 DEF ReportFootpad, TypeOK, Inputs
  <2> QED
    BY <1>1, <1>7, <2>1 DEF ReportFootpad, TypeOK, States
<1> QED
  BY <1>2, <1>3, <1>4, <1>5, <1>6, <1>7

LEMMA ConsoleStepKeepsTypes ==
    ASSUME StorageTypeOK, ConsoleStep
    PROVE  StorageTypeOK'
<1>1. TypeOK'
  <2>1. CASE UNCHANGED supVars
    BY <2>1 DEF StorageTypeOK, TypeOK, supVars
  <2> QED
    BY <2>1, CallsKeepType
    DEF StorageTypeOK, ConsoleStep, MotorArm, MotorDisarm, ClReadyChecks, ClReadyArms, ClBurst, ClBurstOver
<1>2. benchArmed' \in BOOLEAN /\ con' \in Errands
  BY DEF StorageTypeOK, Errands, ConsoleStep, MotorArm, MotorDisarm, ClReadyChecks, ClReadyArms,
         ClBurst, ClBurstOver
<1> QED
  BY <1>1, <1>2 DEF StorageTypeOK, ConsoleStep, Elsewhere, mirrorVars, flushVars

LEMMA FlushStepKeepsTypes ==
    ASSUME StorageTypeOK, FlushStep
    PROVE  StorageTypeOK'
<1>1. TypeOK'
  BY DEF StorageTypeOK, TypeOK, FlushStep, Wake, ForgetRequest, Decide, CommitBegins, SetBlob,
         Written, NvsFails, ClearDirty, Report, TaskSteps, supVars
<1>2. /\ dirty' \in BOOLEAN /\ requested' \in BOOLEAN
      /\ at' \in Places
  BY DEF StorageTypeOK, Places, FlushStep, Wake, ForgetRequest, Decide, CommitBegins, SetBlob,
         Written, NvsFails, ClearDirty, Report, TaskSteps, Step, mirrorVars
<1>3. pending' \in BOOLEAN
  BY DEF StorageTypeOK, FlushStep, Wake, ForgetRequest, Decide, CommitBegins, SetBlob,
         Written, NvsFails, ClearDirty, Report
<1>4. flash' \in Contents /\ blob' \in Contents /\ missed' \in SUBSET Words
  BY DEF StorageTypeOK, FlushStep, Wake, ForgetRequest, Decide, CommitBegins, SetBlob,
         Written, NvsFails, ClearDirty, Report
<1>5. errors' \in 0 .. MaxErrors
  BY StoreAssumption
  DEF StorageTypeOK, FlushStep, Wake, ForgetRequest, Decide, CommitBegins, SetBlob,
      Written, NvsFails, ClearDirty, Report, TaskSteps
<1>6. UNCHANGED <<words, quiet, benchArmed, con, calLeft>>
  BY DEF FlushStep, Wake, ForgetRequest, Decide, CommitBegins, SetBlob,
         Written, NvsFails, ClearDirty, Report, TaskSteps, mirrorVars, consoleVars
<1> QED
  BY <1>1, <1>2, <1>3, <1>4, <1>5, <1>6 DEF StorageTypeOK

\* What the writers do to the mirror.
LEMMA WritersKeepTypes ==
    ASSUME StorageTypeOK, RefloatStores \/ CalBegins \/ CalStores \/ CalEnds
    PROVE  StorageTypeOK'
<1>0. 0 \in 0 .. FlushWait /\ CalWords \subseteq Words
  BY StoreAssumption
<1>1. ASSUME NEW w \in Words, NEW v \in Values, Write(w, v)
      PROVE  words' \in Contents /\ dirty' \in BOOLEAN /\ quiet' \in 0 .. FlushWait
             /\ missed' \in SUBSET Words
  <2>1. words' \in Contents
    BY <1>1 DEF Write, StorageTypeOK, Contents
  <2>2. dirty' \in BOOLEAN
    BY <1>1 DEF Write, StorageTypeOK
  <2>3. quiet' \in 0 .. FlushWait /\ missed' \in SUBSET Words
    BY <1>0, <1>1 DEF Write, StorageTypeOK
  <2> QED
    BY <2>1, <2>2, <2>3
<1>2. words' \in Contents /\ dirty' \in BOOLEAN /\ quiet' \in 0 .. FlushWait /\ missed' \in SUBSET Words
  <2>1. CASE UNCHANGED <<words, dirty, quiet, missed>>
    BY <2>1 DEF StorageTypeOK
  <2>2. CASE \E w \in Words, v \in Values : Write(w, v)
    BY <1>1, <2>2
  <2>3. calLeft \subseteq Words
    BY <1>0 DEF StorageTypeOK
  <2> QED
    BY <2>1, <2>2, <2>3 DEF RefloatStores, CalBegins, CalStores, CalEnds, mirrorVars
<1>3. UNCHANGED supVars /\ UNCHANGED flushVars /\ UNCHANGED benchArmed
  BY DEF RefloatStores, CalBegins, CalStores, CalEnds, consoleVars
<1>4. con' \in Errands /\ calLeft' \in SUBSET CalWords /\ requested' \in BOOLEAN
  BY DEF StorageTypeOK, RefloatStores, CalBegins, CalStores, CalEnds, consoleVars, mirrorVars, Errands
<1>5. TypeOK'
  BY <1>3 DEF StorageTypeOK, TypeOK, supVars
<1> QED
  BY <1>2, <1>3, <1>4, <1>5 DEF StorageTypeOK, flushVars

LEMMA RestsKeepTypes ==
    ASSUME StorageTypeOK, SupervisorStep \/ TimePasses \/ Restart \/ UNCHANGED storeVars
    PROVE  StorageTypeOK'
<1>1. CASE SupervisorStep
  <2>1. TypeOK'
    BY <1>1, CallsKeepType DEF SupervisorStep, StorageTypeOK
  <2> QED
    BY <1>1, <2>1 DEF SupervisorStep, Elsewhere, StorageTypeOK, mirrorVars, flushVars
<1>2. CASE TimePasses
  <2>1. quiet' \in 0 .. FlushWait /\ burst' \in NoBurst .. BurstMax
    BY <1>2, StoreAssumption, TimesAssumption DEF TimePasses, StorageTypeOK, TypeOK, NoBurst
  <2> QED
    BY <1>2, <2>1 DEF TimePasses, StorageTypeOK, TypeOK, flushVars, consoleVars
<1>3. CASE Restart
  <2>1. TypeOK'
    BY <1>3, TimesAssumption
    DEF Restart, BootedInputs, StorageTypeOK, TypeOK, States, Faults, Inputs, NoBurst, Permits
  <2>2. words' \in Contents /\ flash' \in Contents /\ blob' \in Contents
    BY <1>3 DEF Restart, StorageTypeOK
  <2>3. at' \in Places /\ con' \in Errands
    BY <1>3 DEF Restart, Places, Errands
  <2>4. quiet' \in 0 .. FlushWait /\ errors' \in 0 .. MaxErrors
    BY <1>3, StoreAssumption DEF Restart, StorageTypeOK
  <2>5. dirty' \in BOOLEAN /\ requested' \in BOOLEAN /\ pending' \in BOOLEAN /\ benchArmed' \in BOOLEAN
    BY <1>3 DEF Restart
  <2>6. calLeft' = {} /\ missed' = {}
    BY <1>3 DEF Restart
  <2> QED
    BY <2>1, <2>2, <2>3, <2>4, <2>5, <2>6 DEF StorageTypeOK
<1>4. CASE UNCHANGED storeVars
  BY <1>4 DEF storeVars, supVars, mirrorVars, flushVars, consoleVars, StorageTypeOK, TypeOK
<1> QED
  BY <1>1, <1>2, <1>3, <1>4

\* StorageTypeOK (fc_storage_nvs.c): the store and the supervisor keep their types; for every
\* set of words and values, also across restarts.
THEOREM StorageTypeCorrect == StorageSpec => []StorageTypeOK
<1>1. StorageInit => StorageTypeOK
  <2> SUFFICES ASSUME StorageInit PROVE StorageTypeOK
    OBVIOUS
  <2>1. TypeOK
    BY TimesAssumption
    DEF StorageInit, BootedInputs, TypeOK, States, Faults, Inputs, NoBurst, Permits, Never
  <2>2. 0 \in 0 .. FlushWait /\ 0 \in 0 .. MaxErrors
    BY StoreAssumption
  <2> QED
    BY <2>1, <2>2 DEF StorageInit, StorageTypeOK, Places, Errands
<1>2. StorageTypeOK /\ [StorageNext]_storeVars => StorageTypeOK'
  BY ConsoleStepKeepsTypes, FlushStepKeepsTypes, WritersKeepTypes, RestsKeepTypes DEF StorageNext
<1> QED
  BY <1>1, <1>2, PTL DEF StorageSpec

-----------------------------------------------------------------------------
(* The log.                                                                *)

Sized == Slots \in Nat \ {0}

\* The ring: where the next line goes, and that there is room for one that has
\* been let in.
RingInv ==
    /\ slot \in [0 .. Slots - 1 -> Int]
    /\ tail \in 0 .. Slots - 1 /\ count \in 0 .. Slots
    /\ seq \in Int /\ popped \in Int
    /\ head = Place(count)
    /\ LinesInOrder

MutexInv ==
    /\ OneInTheRing
    /\ mutex \in Tasks \cup {"drain", "nobody"}
    /\ \A p \in Tasks : doing[p] = "room" => count < Slots
    /\ doing \in [Tasks -> {"out", "room", "full", "fullRead", "busyRead"}]

HeldInv ==
    /\ dropped \in Int /\ lost \in Nat
    /\ held \in [Tasks -> Int]
    /\ doing \in [Tasks -> {"out", "room", "full", "fullRead", "busyRead"}]
    /\ NeverOverstated
    /\ \A p \in Tasks : doing[p] \in {"fullRead", "busyRead"} => held[p] < lost

-----------------------------------------------------------------------------
(* Places.                                                                 *)

LEMMA PlaceIn ==
    ASSUME Sized, tail \in 0 .. Slots - 1, NEW k \in 0 .. Slots
    PROVE  Place(k) \in 0 .. Slots - 1
  BY DEF Place, Sized

LEMMA PlacesDiffer ==
    ASSUME Sized, tail \in 0 .. Slots - 1, NEW c \in 0 .. Slots - 1, NEW k \in 0 .. Slots - 1, k < c
    PROVE  Place(k) # Place(c)
  BY DEF Place, Sized

-----------------------------------------------------------------------------
(* Each step.                                                              *)

LEMMA PushKeeps ==
    ASSUME Sized, RingInv, NEW p \in Tasks, doing[p] = "room" => count < Slots, Push(p)
    PROVE  RingInv'
<1>1. /\ count \in 0 .. Slots - 1 /\ count' = count + 1 /\ seq' = seq + 1
      /\ tail' = tail /\ popped' = popped
      /\ slot' = [slot EXCEPT ![head] = seq + 1] /\ head' = Next(head)
  BY DEF Push, RingInv, Sized
<1>2. head \in 0 .. Slots - 1
  BY <1>1, PlaceIn DEF RingInv, Sized
<1>3. head' = Place(count)'
  BY <1>1 DEF RingInv, Place, Next, Sized
<1>4. ASSUME NEW k \in 0 .. Slots - 1
      PROVE  Place(k)' = Place(k)
  BY <1>1 DEF Place
<1>5. ASSUME NEW k \in 0 .. Slots - 1, k < count'
      PROVE  slot'[Place(k)] = popped' + 1 + k
  <2>1. CASE k = count
    BY <1>1, <1>2, <2>1 DEF RingInv, LinesInOrder
  <2>2. CASE k < count
    <3>0. k \in 0 .. Slots /\ tail \in 0 .. Slots - 1 /\ head = Place(count)
      BY <1>5 DEF RingInv, Sized
    <3>1. Place(k) # head /\ Place(k) \in 0 .. Slots - 1
      BY <1>1, <1>5, <2>2, <3>0, PlacesDiffer, PlaceIn
    <3> QED
      BY <1>1, <2>2, <3>1 DEF RingInv, LinesInOrder
  <2> QED
    BY <1>1, <1>5, <2>1, <2>2
<1>6. LinesInOrder'
  BY <1>1, <1>4, <1>5 DEF LinesInOrder, RingInv
<1>7. slot' \in [0 .. Slots - 1 -> Int] /\ count' \in 0 .. Slots /\ seq' \in Int
  BY <1>1, <1>2 DEF RingInv, Sized
<1> QED
  BY <1>1, <1>3, <1>6, <1>7 DEF RingInv

LEMMA PopKeeps ==
    ASSUME Sized, RingInv, Pop
    PROVE  RingInv'
<1>1. CASE count = 0
  BY <1>1 DEF Pop, RingInv, LinesInOrder, Place
<1>2. CASE count > 0
  <2>1. /\ count' = count - 1 /\ tail' = Next(tail) /\ popped' = slot[tail]
        /\ slot' = slot /\ head' = head /\ seq' = seq
    BY <1>2 DEF Pop
  <2>2. Place(0) = tail
    BY DEF Place, RingInv, Sized
  <2>3. popped' = popped + 1
    BY <1>2, <2>1, <2>2 DEF RingInv, LinesInOrder, Sized
  <2>4. tail' \in 0 .. Slots - 1
    BY <2>1 DEF RingInv, Next, Sized
  <2>5. ASSUME NEW k \in 0 .. Slots - 1
        PROVE  Place(k)' = Place(k + 1)
    BY <2>1 DEF Place, Next, RingInv, Sized
  <2>6. head' = Place(count)'
    BY <1>2, <2>1, <2>5 DEF RingInv, Sized
  <2>7. ASSUME NEW k \in 0 .. Slots - 1, k < count'
        PROVE  slot'[Place(k)'] = popped' + 1 + k
    <3>1. k + 1 \in 0 .. Slots - 1 /\ k + 1 < count
      BY <2>1, <2>7 DEF RingInv, Sized
    <3>2. slot[Place(k + 1)] = popped + 1 + (k + 1)
      BY <3>1 DEF RingInv, LinesInOrder
    <3> QED
      BY <2>1, <2>3, <2>5, <3>2 DEF RingInv
  <2>8. LinesInOrder'
    BY <1>2, <2>1, <2>3, <2>7 DEF LinesInOrder, RingInv
  <2> QED
    BY <1>2, <2>1, <2>3, <2>4, <2>6, <2>8 DEF RingInv, Sized
<1> QED
  BY <1>1, <1>2 DEF RingInv, Sized

LEMMA NextKeepsRing ==
    ASSUME Sized, RingInv, MutexInv, [LogNext]_vars
    PROVE  RingInv'
<1>1. CASE UNCHANGED ringVars /\ UNCHANGED popped
  BY <1>1 DEF RingInv, LinesInOrder, Place, ringVars
<1>2. CASE Pop
  BY <1>2, PopKeeps
<1>3. ASSUME NEW p \in Tasks, Push(p)
      PROVE  RingInv'
  BY <1>3, PushKeeps DEF MutexInv
<1> QED
  BY <1>1, <1>2, <1>3 DEF LogNext, vars, PortInit, DrainLocks, ResetStats, EmitLocks,
                         CountsDrop, CountedDrop

LEMMA NextKeepsMutex ==
    ASSUME Sized, "drain" \notin Tasks, "nobody" \notin Tasks,
           RingInv, MutexInv, [LogNext]_vars
    PROVE  MutexInv'
<1> USE DEF MutexInv, OneInTheRing, ringVars
<1>1. CASE PortInit \/ ResetStats \/ UNCHANGED vars
  BY <1>1 DEF PortInit, ResetStats, vars
<1>2. CASE DrainLocks
  BY <1>2 DEF DrainLocks
<1>3. CASE Pop
  <2>1. \A p \in Tasks : doing[p] \notin {"room", "full", "fullRead"}
    BY <1>3 DEF Pop
  <2> QED
    BY <1>3, <2>1 DEF Pop
<1>4. ASSUME NEW p \in Tasks, EmitLocks(p)
      PROVE  MutexInv'
  <2>1. count < Slots \/ count >= Slots
    BY DEF RingInv, Sized
  <2> QED
    BY <1>4, <2>1 DEF EmitLocks
<1>5. ASSUME NEW p \in Tasks, Push(p)
      PROVE  MutexInv'
  <2>1. \A q \in Tasks \ {p} : doing[q] \notin {"room", "full", "fullRead"}
    BY <1>5 DEF Push
  <2> QED
    BY <1>5, <2>1 DEF Push
<1>6. ASSUME NEW p \in Tasks, CountsDrop(p)
      PROVE  MutexInv'
  BY <1>6 DEF CountsDrop
<1>7. ASSUME NEW p \in Tasks, CountedDrop(p)
      PROVE  MutexInv'
  <2>1. CASE doing[p] = "fullRead"
    <3>1. \A q \in Tasks \ {p} : doing[q] \notin {"room", "full", "fullRead"}
      BY <2>1
    <3> QED
      BY <1>7, <2>1, <3>1 DEF CountedDrop
  <2>2. CASE doing[p] # "fullRead"
    BY <1>7, <2>2 DEF CountedDrop
  <2> QED
    BY <2>1, <2>2
<1> QED
  BY <1>1, <1>2, <1>3, <1>4, <1>5, <1>6, <1>7 DEF LogNext

LEMMA NextKeepsHeld ==
    ASSUME HeldInv, [LogNext]_vars
    PROVE  HeldInv'
<1> USE DEF HeldInv, NeverOverstated, ringVars
<1>1. CASE PortInit \/ DrainLocks \/ Pop \/ UNCHANGED vars
  BY <1>1 DEF PortInit, DrainLocks, Pop, vars
<1>2. CASE ResetStats
  BY <1>2 DEF ResetStats
<1>3. ASSUME NEW p \in Tasks, EmitLocks(p)
      PROVE  HeldInv'
  BY <1>3 DEF EmitLocks
<1>4. ASSUME NEW p \in Tasks, Push(p)
      PROVE  HeldInv'
  BY <1>4 DEF Push
<1>5. ASSUME NEW p \in Tasks, CountsDrop(p)
      PROVE  HeldInv'
  BY <1>5 DEF CountsDrop
<1>6. ASSUME NEW p \in Tasks, CountedDrop(p)
      PROVE  HeldInv'
  BY <1>6 DEF CountedDrop
<1> QED
  BY <1>1, <1>2, <1>3, <1>4, <1>5, <1>6 DEF LogNext

LEMMA InitHolds ==
    ASSUME Sized, LogInit
    PROVE  RingInv /\ MutexInv /\ HeldInv
  BY DEF Sized, LogInit, RingInv, MutexInv, HeldInv, LinesInOrder, OneInTheRing,
         NeverOverstated, Place

-----------------------------------------------------------------------------
(* Theorems.                                                               *)

\* However many tasks emit and however often the ring wraps round, the lines are
\* taken out in the order of their numbers and none that was let in is missing
\* (fc_log.c:12-56).
THEOREM LogInOrder ==
    ASSUME Sized, "drain" \notin Tasks, "nobody" \notin Tasks
    PROVE  LogSpec => [](LinesInOrder /\ OneInTheRing)
<1>1. LogInit => RingInv /\ MutexInv
  BY InitHolds
<1>2. RingInv /\ MutexInv /\ [LogNext]_vars => RingInv' /\ MutexInv'
  BY NextKeepsRing, NextKeepsMutex
<1>3. RingInv /\ MutexInv => LinesInOrder /\ OneInTheRing
  BY DEF RingInv, MutexInv
<1> QED
  BY <1>1, <1>2, <1>3, PTL DEF LogSpec

\* The count of dropped lines is never too high, though its increments are not
\* protected: two that meet lose one (fc_log_port.c:89-93).
THEOREM DroppedNeverOverstated ==
    ASSUME Sized
    PROVE  LogSpec => []NeverOverstated
<1>1. LogInit => HeldInv
  BY InitHolds
<1>2. HeldInv /\ [LogNext]_vars => HeldInv'
  BY NextKeepsHeld
<1>3. HeldInv => NeverOverstated
  BY DEF HeldInv
<1> QED
  BY <1>1, <1>2, <1>3, PTL DEF LogSpec

-----------------------------------------------------------------------------
(* The trace of gaps.                                                      *)

GapSized == GapSlots \in Nat \ {0} /\ DefaultThreshold \in Nat

Events == [seq : Nat, taken : Nat, filled : BOOLEAN, measured : Nat]

GapTypes ==
    /\ clock \in Nat /\ total \in Nat /\ counted \in Nat /\ overflown \in Nat /\ measuredAt \in Nat
    /\ events \in [Indices -> Events]
    /\ stored \in 0 .. GapSlots /\ room \in 0 .. GapSlots /\ chosen \in Indices
    /\ capture \in {"out", "event", "room", "written"}
    /\ fill \in {"out", "picked", "measured", "filled"}
    /\ reset \in {"out", "slots", "wiped"}
    /\ capture \in {"room", "written"} => room < GapSlots /\ stored \in {0, room}

\* What holds as long as no reset has fallen into a capture or a fill.
TraceInv ==
    /\ \A i \in Indices : events[i].taken <= clock
    /\ measuredAt <= clock
    /\ ~crossed =>
         /\ FilledAfterwards
         /\ capture = "event" => counted = total
         /\ capture \in {"room", "written"} => room = stored
         /\ fill # "out" => chosen < stored
         /\ fill = "measured" => measuredAt >= events[chosen].taken
         /\ fill = "filled" => events[chosen].measured >= events[chosen].taken
    /\ ~crossed /\ reset # "slots" =>
         /\ \A i \in Indices : i < stored => events[i].seq = i + 1
         /\ capture \in {"out", "event"} => total = stored + overflown
         /\ capture \in {"room", "written"} => total = stored + overflown + 1
         /\ overflown > 0 => stored = GapSlots
         /\ capture = "written" => events[stored].seq = stored + 1

LEMMA GapTypesStep ==
    ASSUME GapSized, GapTypes, [GapNext]_gapVars
    PROVE  GapTypes'
<1> USE DEF Indices, GapSized
<1>1. CASE ClockTicks \/ SetsThreshold \/ RestoresThreshold \/ UNCHANGED gapVars
  BY <1>1 DEF ClockTicks, SetsThreshold, RestoresThreshold, gapVars, slotVars, statVars,
              captureVars, fillVars, resetVars, GapTypes
<1>2. ASSUME NEW g \in Gaps, Detects(g)
      PROVE  GapTypes'
  BY <1>2 DEF Detects, slotVars, statVars, fillVars, resetVars, GapTypes
<1>3. CASE Counts
  BY <1>3 DEF Counts, slotVars, fillVars, resetVars, GapTypes
<1>4. CASE Writes
  <2>1. PICK i \in {room, stored} :
          events' = [events EXCEPT ![i] = [seq |-> total, taken |-> clock,
                                           filled |-> FALSE, measured |-> 0]]
    BY <1>4 DEF Writes
  <2>2. [seq |-> total, taken |-> clock, filled |-> FALSE, measured |-> 0] \in Events
    BY DEF GapTypes, Events
  <2>3. events' \in [Indices -> Events]
    BY <2>1, <2>2 DEF GapTypes
  <2> QED
    BY <1>4, <2>3 DEF Writes, statVars, fillVars, resetVars, GapTypes
<1>5. CASE Raises
  BY <1>5 DEF Raises, statVars, fillVars, resetVars, GapTypes
<1>6. CASE Picks
  BY <1>6 DEF Picks, slotVars, statVars, captureVars, resetVars, GapTypes
<1>7. CASE Measures
  BY <1>7 DEF Measures, slotVars, statVars, captureVars, resetVars, GapTypes
<1>8. CASE Fills
  <2>1. [events EXCEPT ![chosen].measured = measuredAt] \in [Indices -> Events]
    BY DEF GapTypes, Events
  <2>2. events' \in [Indices -> Events]
    BY <1>8, <2>1 DEF Fills, GapTypes
  <2> QED
    BY <1>8, <2>2 DEF Fills, statVars, captureVars, resetVars, GapTypes
<1>9. CASE Marks
  <2>1. [events EXCEPT ![chosen].filled = TRUE] \in [Indices -> Events]
    BY DEF GapTypes, Events
  <2> QED
    BY <1>9, <2>1 DEF Marks, statVars, captureVars, resetVars, GapTypes
<1>10. CASE WipesSlots
  <2>1. Empty \in Events
    BY DEF Empty, Events
  <2>2. events' \in [Indices -> Events]
    BY <1>10, <2>1 DEF WipesSlots
  <2> QED
    BY <1>10, <2>2 DEF WipesSlots, statVars, captureVars, fillVars, GapTypes
<1>11. CASE WipesCounters
  BY <1>11 DEF WipesCounters, captureVars, fillVars, GapTypes
<1> QED
  BY <1>1, <1>2, <1>3, <1>4, <1>5, <1>6, <1>7, <1>8, <1>9, <1>10, <1>11 DEF GapNext

LEMMA TraceStep ==
    ASSUME GapSized, GapTypes, TraceInv, [GapNext]_gapVars
    PROVE  TraceInv'
<1> USE DEF Indices, GapSized
<1>1. CASE ClockTicks
  <2>1. /\ clock' = clock + 1
        /\ UNCHANGED <<events, stored, total, overflown, capture, counted, room, fill, chosen,
                       measuredAt, reset, crossed>>
    BY <1>1 DEF ClockTicks, slotVars, statVars, captureVars, fillVars, resetVars
  <2>2. measuredAt <= clock + 1
    BY DEF GapTypes, TraceInv
  <2>3. ASSUME NEW i \in Indices
        PROVE  events[i].taken <= clock + 1
    <3>1. events[i] \in Events /\ events[i].taken <= clock /\ clock \in Nat
      BY DEF GapTypes, TraceInv
    <3> QED
      BY <3>1 DEF Events
  <2> QED
    BY <2>1, <2>2, <2>3 DEF TraceInv, FilledAfterwards
<1>2. CASE SetsThreshold \/ UNCHANGED gapVars
  BY <1>2 DEF SetsThreshold, gapVars, slotVars, statVars, captureVars, fillVars, resetVars,
              TraceInv, FilledAfterwards
<1>3. CASE RestoresThreshold
  BY <1>3 DEF RestoresThreshold, slotVars, statVars, captureVars, fillVars, TraceInv,
              FilledAfterwards
<1>4. ASSUME NEW g \in Gaps, Detects(g)
      PROVE  TraceInv'
  BY <1>4 DEF Detects, slotVars, statVars, fillVars, resetVars, TraceInv, FilledAfterwards
<1>5. CASE Counts
  <2>1. /\ total' \in {counted + 1, total + 1} /\ room' = stored /\ capture = "event"
        /\ UNCHANGED <<clock, events, stored, fill, chosen, measuredAt, reset, crossed>>
    BY <1>5 DEF Counts, slotVars, fillVars, resetVars
  <2>2. \/ stored >= GapSlots /\ capture' = "out" /\ overflown' = overflown + 1
        \/ stored < GapSlots /\ capture' = "room" /\ overflown' = overflown
    BY <1>5 DEF Counts, GapTypes
  <2>3. ~crossed => total' = total + 1
    BY <2>1 DEF TraceInv
  <2>4. ASSUME ~crossed, reset # "slots"
        PROVE  /\ capture' = "out" => total' = stored + overflown'
               /\ capture' = "room" => total' = stored + overflown' + 1
               /\ overflown' > 0 => stored = GapSlots
    <3>1. total = stored + overflown /\ (overflown > 0 => stored = GapSlots)
      BY <2>1, <2>4 DEF TraceInv
    <3> QED
      BY <2>2, <2>3, <2>4, <3>1 DEF GapTypes
  <2>5. (~crossed => FilledAfterwards) /\ (FilledAfterwards' <=> FilledAfterwards)
    BY <2>1 DEF TraceInv, FilledAfterwards
  <2> QED
    BY <2>1, <2>2, <2>4, <2>5 DEF TraceInv
<1>6. CASE Writes
  <2> DEFINE event == [seq |-> total, taken |-> clock, filled |-> FALSE, measured |-> 0]
  <2>1. PICK i \in {room, stored} : events' = [events EXCEPT ![i] = event]
    BY <1>6 DEF Writes
  <2>2. /\ UNCHANGED <<clock, stored, total, overflown, counted, room, fill, chosen, measuredAt,
                       reset, crossed>>
        /\ capture = "room" /\ capture' = "written"
    BY <1>6 DEF Writes, statVars, fillVars, resetVars
  <2>3. i \in Indices /\ (~crossed => i = stored)
    BY <2>1, <2>2 DEF GapTypes, TraceInv
  <2>4. /\ events'[i] = event
        /\ \A j \in Indices : j # i => events'[j] = events[j]
    BY <2>1, <2>3 DEF GapTypes
  <2>5. \A j \in Indices : events'[j].taken <= clock
    <3>1. \A j \in Indices : events[j].taken <= clock
      BY DEF TraceInv
    <3>2. event.taken <= clock
      BY DEF GapTypes
    <3> QED
      BY <2>4, <3>1, <3>2
  <2>6. ASSUME ~crossed
        PROVE  FilledAfterwards'
    <3>1. \A j \in Indices : events[j].filled => events[j].measured >= events[j].taken
      BY <2>6 DEF TraceInv, FilledAfterwards
    <3>2. ~event.filled
      OBVIOUS
    <3> QED
      BY <2>4, <3>1, <3>2 DEF FilledAfterwards
  <2>7. ASSUME ~crossed, fill # "out"
        PROVE  chosen # i
    BY <2>3, <2>7 DEF TraceInv, GapTypes
  <2>8. ASSUME ~crossed, reset # "slots"
        PROVE  /\ \A j \in Indices : j < stored => events'[j].seq = j + 1
               /\ events'[stored].seq = stored + 1
               /\ total = stored + overflown + 1
    <3>1. stored < GapSlots /\ overflown = 0 /\ total = stored + 1
      BY <2>2, <2>8 DEF TraceInv, GapTypes
    <3>2. i = stored /\ event.seq = total
      BY <2>3, <2>8
    <3>3. \A j \in Indices : j < stored => events[j].seq = j + 1
      BY <2>8 DEF TraceInv
    <3> QED
      BY <2>4, <3>1, <3>2, <3>3 DEF GapTypes
  <2>9. chosen \in Indices
    BY DEF GapTypes
  <2> QED
    BY <2>2, <2>4, <2>5, <2>6, <2>7, <2>8, <2>9 DEF TraceInv
<1>7. CASE Raises
  BY <1>7 DEF Raises, statVars, fillVars, resetVars, GapTypes, TraceInv, FilledAfterwards
<1>8. CASE Picks
  BY <1>8 DEF Picks, Unfilled, slotVars, statVars, captureVars, resetVars, TraceInv,
              FilledAfterwards
<1>9. CASE Measures
  <2>1. clock >= events[chosen].taken
    BY DEF GapTypes, TraceInv, Events
  <2> QED
    BY <1>9, <2>1 DEF Measures, slotVars, statVars, captureVars, resetVars, GapTypes, TraceInv,
                      FilledAfterwards
<1>10. CASE Fills
  <2>1. CASE chosen < stored
    <3>1. /\ events' = [events EXCEPT ![chosen].measured = measuredAt] /\ fill' = "filled"
          /\ UNCHANGED <<clock, stored, total, overflown, counted, room, capture, chosen,
                         measuredAt, reset, crossed>>
      BY <1>10, <2>1 DEF Fills, statVars, captureVars, resetVars
    <3>2. /\ events'[chosen] = [events[chosen] EXCEPT !.measured = measuredAt]
          /\ \A j \in Indices : j # chosen => events'[j] = events[j]
      BY <3>1 DEF GapTypes
    <3>3. /\ events'[chosen].measured = measuredAt
          /\ events'[chosen].taken = events[chosen].taken
          /\ events'[chosen].seq = events[chosen].seq
          /\ events'[chosen].filled = events[chosen].filled
      BY <3>2 DEF GapTypes, Events
    <3>4. \A j \in Indices : events'[j].taken = events[j].taken /\ events'[j].seq = events[j].seq
      BY <3>2, <3>3
    <3>5. ASSUME ~crossed
          PROVE  FilledAfterwards' /\ events'[chosen].measured >= events'[chosen].taken
      <4>1. measuredAt >= events[chosen].taken
        BY <1>10, <3>5 DEF Fills, TraceInv
      <4>2. \A j \in Indices : events[j].filled => events[j].measured >= events[j].taken
        BY <3>5 DEF TraceInv, FilledAfterwards
      <4> QED
        BY <3>2, <3>3, <4>1, <4>2 DEF FilledAfterwards
    <3>6. capture = "written" /\ ~crossed /\ reset # "slots" => stored \in Indices
      BY DEF GapTypes, TraceInv
    <3> QED
      BY <1>10, <3>1, <3>4, <3>5, <3>6 DEF Fills, TraceInv, GapTypes
  <2>2. CASE ~(chosen < stored)
    BY <1>10, <2>2 DEF Fills, statVars, captureVars, resetVars, TraceInv, FilledAfterwards
  <2> QED
    BY <2>1, <2>2
<1>11. CASE Marks
  <2>1. /\ events' = [events EXCEPT ![chosen].filled = TRUE] /\ fill = "filled" /\ fill' = "out"
        /\ UNCHANGED <<clock, stored, total, overflown, counted, room, capture, chosen,
                       measuredAt, reset, crossed>>
    BY <1>11 DEF Marks, statVars, captureVars, resetVars
  <2>2. /\ events'[chosen] = [events[chosen] EXCEPT !.filled = TRUE]
        /\ \A j \in Indices : j # chosen => events'[j] = events[j]
    BY <2>1 DEF GapTypes
  <2>3. /\ events'[chosen].measured = events[chosen].measured
        /\ events'[chosen].taken = events[chosen].taken
        /\ events'[chosen].seq = events[chosen].seq
    BY <2>2 DEF GapTypes, Events
  <2>4. \A j \in Indices : events'[j].taken = events[j].taken /\ events'[j].seq = events[j].seq
    BY <2>2, <2>3
  <2>5. ASSUME ~crossed
        PROVE  FilledAfterwards'
    <3>1. \A j \in Indices : events[j].filled => events[j].measured >= events[j].taken
      BY <2>5 DEF TraceInv, FilledAfterwards
    <3>2. events[chosen].measured >= events[chosen].taken
      BY <2>1, <2>5 DEF TraceInv
    <3> QED
      BY <2>2, <2>3, <3>1, <3>2 DEF FilledAfterwards
  <2>6. capture = "written" /\ ~crossed /\ reset # "slots" => stored \in Indices
    BY DEF GapTypes, TraceInv
  <2> QED
    BY <2>1, <2>4, <2>5, <2>6 DEF TraceInv
<1>12. CASE WipesSlots
  <2>1. events' = [i \in Indices |-> Empty] /\ reset' = "slots" /\ (~crossed' => capture = "out" /\ fill = "out")
    BY <1>12 DEF WipesSlots, Midway
  <2>2. UNCHANGED <<clock, measuredAt, capture, fill>>
    BY <1>12 DEF WipesSlots, captureVars, fillVars
  <2>3. \A i \in Indices : events'[i].taken = 0 /\ ~events'[i].filled
    BY <2>1 DEF Empty
  <2> QED
    BY <2>1, <2>2, <2>3 DEF TraceInv, GapTypes, FilledAfterwards
<1>13. CASE WipesCounters
  <2>1. /\ stored' = 0 /\ total' = 0 /\ overflown' = 0
        /\ ~crossed' => ~crossed /\ capture = "out" /\ fill = "out"
    BY <1>13 DEF WipesCounters, Midway
  <2>2. UNCHANGED <<clock, events, measuredAt, capture, fill>>
    BY <1>13 DEF WipesCounters, captureVars, fillVars
  <2> QED
    BY <2>1, <2>2 DEF TraceInv, FilledAfterwards
<1> QED
  BY <1>1, <1>2, <1>3, <1>4, <1>5, <1>6, <1>7, <1>8, <1>9, <1>10, <1>11, <1>12, <1>13 DEF GapNext

LEMMA GapAlways ==
    ASSUME GapSized
    PROVE  GapSpec => [](GapTypes /\ TraceInv)
<1>1. ASSUME GapInit
      PROVE  GapTypes /\ TraceInv
  <2>1. Empty \in Events /\ Empty.taken = 0 /\ ~Empty.filled
    BY DEF Empty, Events
  <2>2. events \in [Indices -> Events] /\ \A i \in Indices : events[i] = Empty
    BY <1>1, <2>1 DEF GapInit
  <2> QED
    BY <1>1, <2>1, <2>2 DEF GapInit, GapTypes, TraceInv, FilledAfterwards, GapSized, Indices
<1>2. GapTypes /\ TraceInv /\ [GapNext]_gapVars => GapTypes' /\ TraceInv'
  BY GapTypesStep, TraceStep
<1> QED
  BY <1>1, <1>2, PTL DEF GapSpec

\* Wherever a reset falls, a capture stays inside the trace (fc_gap_trace.c:30-55).
THEOREM GapCapturesStayInside ==
    ASSUME GapSized
    PROVE  GapSpec => []CaptureStaysInside
<1>1. GapTypes => CaptureStaysInside
  BY DEF GapTypes, CaptureStaysInside
<1> QED
  BY <1>1, GapAlways, PTL

\* With no reset across it, the trace holds the first events in their order, drops
\* the rest and says so, and what it adds to an event was measured after it
\* (fc_gap_trace.c:43-54, 75-96; fc_gap_trace.h:19-30).
THEOREM GapTraceIsTrue ==
    ASSUME GapSized
    PROVE  GapSpec => [](FirstEventsKept /\ FilledAfterwards)
<1>1. TraceInv => FirstEventsKept /\ FilledAfterwards
  BY DEF TraceInv, FirstEventsKept, FilledAfterwards
<1> QED
  BY <1>1, GapAlways, PTL

-----------------------------------------------------------------------------
(* The account of the processor.                                           *)

CpuTypes ==
    /\ time \in Int /\ busy \in Int /\ due \in Int /\ spoilt \in BOOLEAN
    /\ step \in [Prios -> {"none", "begun", "open", "ended", "taken"}]
    /\ begin \in [Prios -> Int] /\ before \in [Prios -> Int] /\ ended \in [Prios -> Int]
    /\ net \in [Prios -> Int] /\ sum \in [Prios -> Int]
    /\ asleep \in [Prios -> BOOLEAN]
    /\ own \in [Prios -> Int]

WindowInv ==
    \A p \in Prios :
        /\ own[p] >= 0
        /\ asleep[p] => step[p] = "open"
        /\ step[p] # "none" => begin[p] <= time
        /\ Closing(p) => begin[p] <= ended[p] /\ ended[p] <= time
        /\ step[p] = "taken" => 0 <= net[p] /\ net[p] <= Wall(p)

\* The next window that is open above another.
NextAbove(p, q) ==
    /\ p < q /\ Live(p) /\ Live(q)
    /\ \A r \in Prios : p < r /\ r < q => ~Live(r)
Highest(p) == Live(p) /\ \A q \in Prios : q > p => ~Live(q)
\* Where a window counts the account from.
Base(q) == IF step[q] = "begun" THEN busy ELSE before[q]
\* What others have spent since it began, the window that closes included.
Spent(p) == IF step[p] = "begun" THEN 0 ELSE busy + due - before[p]

\* Only the highest window is between two looks; of the time since a window began,
\* what is not its own is in the account, in the window above it or about to be added.
CleanInv ==
    /\ \A p \in Prios : ~asleep[p]
    /\ \A p, q \in Prios : p < q /\ step[p] \notin {"none", "open"} => step[q] = "none"
    /\ \A p \in Prios : step[p] \notin {"none", "begun"} => before[p] <= busy
    /\ (\A p \in Prios : ~Closing(p)) => due = 0
    /\ \A p \in Prios : Closing(p) => due = own[p] /\ ended[p] - begin[p] = own[p] + busy - before[p]
    /\ \A p \in Prios : step[p] = "taken" => net[p] = own[p] /\ sum[p] = busy + own[p]
    /\ \A p, q \in Prios : NextAbove(p, q) =>
         begin[q] - begin[p] = own[p] + Base(q) - before[p]
    /\ \A p \in Prios : Highest(p) =>
         time - begin[p] = own[p] + Spent(p)

LEMMA CpuTypesStep ==
    ASSUME Levels \in Nat, CpuTypes, WindowInv, [CpuNext]_cpuVars
    PROVE  CpuTypes' /\ WindowInv'
<1>1. CASE ClockRuns
  <2>1. /\ time' = time + 1
        /\ own' = [p \in Prios |-> IF Owner(p) THEN own[p] + 1 ELSE own[p]]
        /\ UNCHANGED <<busy, step, begin, before, ended, net, sum, asleep, due, spoilt>>
    BY <1>1 DEF ClockRuns, windowVars
  <2>2. own' \in [Prios -> Int] /\ \A p \in Prios : own'[p] >= own[p]
    BY <2>1 DEF CpuTypes
  <2>3. CpuTypes'
    BY <2>1, <2>2 DEF CpuTypes
  <2>4. WindowInv'
    BY <2>1, <2>2 DEF CpuTypes, WindowInv, Closing, Wall
  <2> QED
    BY <2>3, <2>4
<1>2. ASSUME NEW p \in Prios, WindowBegins(p)
      PROVE  CpuTypes' /\ WindowInv'
  <2>1. spoilt' \in BOOLEAN
    BY <1>2, Zenon DEF WindowBegins
  <2>2. due' \in Int
    BY <1>2 DEF WindowBegins, CpuTypes
  <2>3. /\ UNCHANGED <<time, busy, before, ended, net, sum, asleep>>
        /\ step' = [step EXCEPT ![p] = "begun"] /\ begin' = [begin EXCEPT ![p] = time]
        /\ own' = [own EXCEPT ![p] = 0]
    BY <1>2 DEF WindowBegins
  <2>4. CpuTypes'
    BY <2>1, <2>2, <2>3 DEF CpuTypes
  <2>5. WindowInv'
    BY <1>2, <2>3 DEF WindowBegins, CpuTypes, WindowInv, Closing, Wall
  <2> QED
    BY <2>4, <2>5
<1>3. ASSUME NEW p \in Prios, WindowOpens(p)
      PROVE  CpuTypes' /\ WindowInv'
  <2>1. CpuTypes'
    BY <1>3 DEF WindowOpens, CpuTypes
  <2>2. WindowInv'
    BY <1>3 DEF WindowOpens, CpuTypes, WindowInv, Closing, Wall
  <2> QED
    BY <2>1, <2>2
<1>4. ASSUME NEW p \in Prios, WindowEnds(p)
      PROVE  CpuTypes' /\ WindowInv'
  <2>1. CpuTypes'
    BY <1>4 DEF WindowEnds, CpuTypes
  <2>2. WindowInv'
    BY <1>4 DEF WindowEnds, Runs, CpuTypes, WindowInv, Closing, Wall
  <2> QED
    BY <2>1, <2>2
<1>5. ASSUME NEW p \in Prios, WindowTaken(p)
      PROVE  CpuTypes' /\ WindowInv'
  <2>1. Wall(p) \in Nat /\ Preempted(p) \in Int /\ 0 <= Preempted(p) /\ Preempted(p) <= Wall(p)
    BY <1>5 DEF WindowTaken, Runs, CpuTypes, WindowInv, Closing, Wall, Preempted
  <2>2. CpuTypes'
    BY <1>5, <2>1 DEF WindowTaken, CpuTypes
  <2>3. WindowInv'
    BY <1>5, <2>1 DEF WindowTaken, Runs, CpuTypes, WindowInv, Closing, Wall
  <2> QED
    BY <2>2, <2>3
<1>6. ASSUME NEW p \in Prios, WindowAdded(p)
      PROVE  CpuTypes' /\ WindowInv'
  <2>1. CpuTypes'
    BY <1>6 DEF WindowAdded, CpuTypes
  <2>2. WindowInv'
    BY <1>6 DEF WindowAdded, Runs, CpuTypes, WindowInv, Closing, Wall
  <2> QED
    BY <2>1, <2>2
<1>7. ASSUME NEW p \in Prios, Waits(p) \/ Wakes(p)
      PROVE  CpuTypes' /\ WindowInv'
  <2>1. CpuTypes'
    BY <1>7 DEF Waits, Wakes, CpuTypes
  <2>2. WindowInv'
    BY <1>7 DEF Waits, Wakes, CpuTypes, WindowInv, Closing, Wall
  <2> QED
    BY <2>1, <2>2
<1>8. CASE UNCHANGED cpuVars
  BY <1>8 DEF cpuVars, windowVars, CpuTypes, WindowInv, Closing, Wall
<1> QED
  BY <1>1, <1>2, <1>3, <1>4, <1>5, <1>6, <1>7, <1>8 DEF CpuNext

LEMMA CleanTime ==
    ASSUME Levels \in Nat, CpuTypes, WindowInv, CleanInv, ClockRuns
    PROVE  CleanInv'
<1> USE DEF Prios
<1>1. /\ time' = time + 1
      /\ own' = [p \in Prios |-> IF Owner(p) THEN own[p] + 1 ELSE own[p]]
      /\ UNCHANGED <<busy, step, begin, before, ended, net, sum, asleep, due, spoilt>>
  BY DEF ClockRuns, windowVars
<1>2. \A p \in Prios : Owner(p) <=> Highest(p)
  BY DEF Owner, Highest, CleanInv
<1>3. \A p \in Prios : own'[p] = IF Highest(p) THEN own[p] + 1 ELSE own[p]
  BY <1>1, <1>2 DEF CpuTypes
<1>4. \A p \in Prios : Closing(p) => ~Highest(p)
  BY DEF Closing, Live, Highest
<1>5. \A p, q \in Prios : NextAbove(p, q) => ~Highest(p)
  BY DEF NextAbove, Highest
<1>6. ASSUME NEW p \in Prios, NEW q \in Prios, NextAbove(p, q)
      PROVE  begin'[q] - begin'[p] = own'[p] + Base(q)' - before'[p]
  BY <1>1, <1>3, <1>5, <1>6 DEF CleanInv, Base
<1>7. ASSUME NEW p \in Prios, Highest(p)
      PROVE  time' - begin'[p] = own'[p] + Spent(p)'
  <2>1. own'[p] = own[p] + 1 /\ own[p] \in Int /\ begin[p] \in Int /\ time \in Int
    BY <1>1, <1>3, <1>7 DEF CpuTypes
  <2>2. Spent(p)' = Spent(p) /\ Spent(p) \in Int
    BY <1>1 DEF Spent, CpuTypes
  <2>3. time - begin[p] = own[p] + Spent(p)
    BY <1>7 DEF CleanInv
  <2> QED
    BY <1>1, <2>1, <2>2, <2>3
<1>8. \A p \in Prios : Closing(p) => due' = own'[p] /\ ended'[p] - begin'[p] = own'[p] + busy' - before'[p]
  BY <1>1, <1>3, <1>4 DEF CleanInv
<1>9. \A p \in Prios : step'[p] = "taken" => net'[p] = own'[p] /\ sum'[p] = busy' + own'[p]
  BY <1>1, <1>3, <1>4 DEF CleanInv, Closing
<1>10. \A p, q \in Prios : (NextAbove(p, q)' <=> NextAbove(p, q)) /\ (Highest(p)' <=> Highest(p))
                           /\ (Closing(p)' <=> Closing(p))
  BY <1>1 DEF NextAbove, Highest, Closing, Live
<1>11. /\ \A p \in Prios : ~asleep'[p]
       /\ \A p, q \in Prios : p < q /\ step'[p] \notin {"none", "open"} => step'[q] = "none"
       /\ \A p \in Prios : step'[p] \notin {"none", "begun"} => before'[p] <= busy'
       /\ (\A p \in Prios : ~Closing(p)) => due' = 0
  BY <1>1 DEF CleanInv
<1> QED
  BY <1>6, <1>7, <1>8, <1>9, <1>10, <1>11 DEF CleanInv

\* A window begins on top of windows that are all open, or as the only one.
LEMMA CleanBegins ==
    ASSUME Levels \in Nat, CpuTypes, WindowInv, NEW p \in Prios, WindowBegins(p), ~spoilt',
           ~spoilt => CleanInv
    PROVE  CleanInv'
<1> USE DEF Prios
<1>1. /\ UNCHANGED <<time, busy, before, ended, net, sum, asleep>>
      /\ step' = [step EXCEPT ![p] = "begun"] /\ begin' = [begin EXCEPT ![p] = time]
      /\ own' = [own EXCEPT ![p] = 0] /\ step[p] = "none"
      /\ \A q \in Prios : q > p => step[q] = "none" \/ asleep[q]
  BY DEF WindowBegins
<1>2. /\ \A q \in Prios : ~asleep[q]
      /\ \A q \in Prios : step[q] \in {"none", "open"}
      /\ due' = 0
      /\ \A q \in Prios : step[q] = "open" => before[q] <= busy
      /\ \A q, r \in Prios : NextAbove(q, r) => begin[r] - begin[q] = own[q] + Base(r) - before[q]
      /\ \A q \in Prios : Highest(q) => time - begin[q] = own[q] + busy - before[q]
  <2>1. CASE \A q \in Prios : step[q] = "none"
    BY <2>1 DEF WindowBegins, WindowInv, NextAbove, Highest, Live
  <2>2. CASE ~(\A q \in Prios : step[q] = "none")
    <3>1. ~spoilt /\ due' = due /\ ~(\E q \in Prios : step[q] \notin {"none", "open"})
      BY <2>2 DEF WindowBegins
    <3>2. due = 0
      BY <3>1 DEF CleanInv, Closing
    <3>3. ASSUME NEW q \in Prios, Highest(q)
          PROVE  time - begin[q] = own[q] + busy - before[q]
      <4>1. step[q] # "begun"
        BY <3>1, <3>3 DEF Highest
      <4>2. time - begin[q] = own[q] + (busy + due - before[q])
        BY <3>1, <3>3, <4>1 DEF CleanInv, Spent
      <4>3. own[q] \in Int /\ busy \in Int /\ before[q] \in Int
        BY DEF CpuTypes
      <4> QED
        BY <3>2, <4>2, <4>3
    <3> QED
      BY <3>1, <3>2, <3>3 DEF CleanInv
  <2> QED
    BY <2>1, <2>2
<1>3. \A q \in Prios : q > p => step[q] = "none"
  BY <1>1, <1>2
<1>4. /\ step'[p] = "begun" /\ begin'[p] = time /\ own'[p] = 0
      /\ \A q \in Prios : q # p => step'[q] = step[q] /\ begin'[q] = begin[q] /\ own'[q] = own[q]
  BY <1>1 DEF CpuTypes
<1>5. \A q \in Prios : Highest(q)' <=> q = p
  BY <1>3, <1>4 DEF Highest, Live
<1>6. ASSUME NEW q \in Prios, NEW r \in Prios, NextAbove(q, r)'
      PROVE  begin'[r] - begin'[q] = own'[q] + Base(r)' - before'[q]
  <2>1. q < r /\ Live(q)' /\ Live(r)' /\ \A x \in Prios : q < x /\ x < r => ~Live(x)'
    BY <1>6 DEF NextAbove
  <2>2. q # p /\ r <= p /\ Live(q)
    BY <2>1, <1>3, <1>4 DEF Live
  <2>3. CASE r = p
    <3>1. Highest(q)
      BY <2>1, <2>2, <2>3, <1>1, <1>3, <1>4 DEF Highest, Live
    <3>2. Base(r)' = busy
      BY <1>1, <1>4, <2>3 DEF Base
    <3> QED
      BY <1>1, <1>2, <1>4, <2>2, <2>3, <3>1, <3>2
  <2>4. CASE r # p
    <3>1. NextAbove(q, r)
      BY <2>1, <2>2, <2>4, <1>4 DEF NextAbove, Live
    <3>2. Base(r)' = Base(r)
      BY <1>1, <1>4, <2>4 DEF Base
    <3> QED
      BY <1>1, <1>2, <1>4, <2>2, <2>4, <3>1, <3>2
  <2> QED
    BY <2>3, <2>4
<1>7. \A q, r \in Prios : q < r /\ step'[q] \notin {"none", "open"} => step'[r] = "none"
  BY <1>2, <1>3, <1>4
<1>8. \A q \in Prios : ~Closing(q)' /\ step'[q] # "taken"
  BY <1>2, <1>4 DEF Closing
<1>9. \A q \in Prios : step'[q] \notin {"none", "begun"} => before'[q] <= busy'
  BY <1>1, <1>2, <1>4
<1>10. time' - begin'[p] = own'[p] + Spent(p)'
  <2>1. Spent(p)' = 0
    BY <1>4 DEF Spent
  <2> QED
    BY <1>1, <1>4, <2>1 DEF CpuTypes
<1>11. (\A q \in Prios : ~asleep'[q]) /\ due' = 0
  BY <1>1, <1>2
<1>12. \A q \in Prios : Highest(q)' => time' - begin'[q] = own'[q] + Spent(q)'
  BY <1>5, <1>10
<1> QED
  BY <1>6, <1>7, <1>8, <1>9, <1>11, <1>12 DEF CleanInv

LEMMA CleanOpens ==
    ASSUME Levels \in Nat, CpuTypes, WindowInv, CleanInv, NEW p \in Prios, WindowOpens(p)
    PROVE  CleanInv'
<1> USE DEF Prios
<1>1. /\ UNCHANGED <<time, busy, begin, ended, net, sum, asleep, own, due>>
      /\ step' = [step EXCEPT ![p] = "open"] /\ before' = [before EXCEPT ![p] = busy]
      /\ step[p] = "begun"
  BY DEF WindowOpens
<1>2. /\ step'[p] = "open" /\ before'[p] = busy
      /\ \A q \in Prios : q # p => step'[q] = step[q] /\ before'[q] = before[q]
  BY <1>1 DEF CpuTypes
<1>3. \A q \in Prios : q > p => step[q] = "none"
  BY <1>1 DEF CleanInv
<1>4. \A q \in Prios : ~Closing(q)
  BY <1>1, <1>3 DEF CleanInv, Closing
<1>5. \A q, r \in Prios : /\ Live(q)' <=> Live(q)
                          /\ Highest(q)' <=> Highest(q)
                          /\ NextAbove(q, r)' <=> NextAbove(q, r)
                          /\ Closing(q)' <=> Closing(q)
  BY <1>1, <1>2 DEF Live, Highest, NextAbove, Closing
<1>6. \A q \in Prios : Base(q)' = Base(q)
  BY <1>1, <1>2 DEF Base
<1>7. \A q, r \in Prios : NextAbove(q, r) => q # p
  BY <1>3 DEF NextAbove, Live
<1>8. \A q, r \in Prios : NextAbove(q, r)' =>
        begin'[r] - begin'[q] = own'[q] + Base(r)' - before'[q]
  BY <1>1, <1>2, <1>5, <1>6, <1>7 DEF CleanInv
<1>9. due = 0
  BY <1>4 DEF CleanInv
<1>10. \A q \in Prios : Spent(q)' = Spent(q)
  BY <1>1, <1>2, <1>9 DEF Spent, CpuTypes
<1>11. \A q \in Prios : Highest(q)' => time' - begin'[q] = own'[q] + Spent(q)'
  BY <1>1, <1>5, <1>10 DEF CleanInv
<1>12. /\ \A q \in Prios : ~asleep'[q]
       /\ \A q, r \in Prios : q < r /\ step'[q] \notin {"none", "open"} => step'[r] = "none"
       /\ \A q \in Prios : step'[q] # "taken"
  BY <1>1, <1>2, <1>4 DEF CleanInv, Closing
<1>13. \A q \in Prios : step'[q] \notin {"none", "begun"} => before'[q] <= busy'
  BY <1>1, <1>2 DEF CleanInv, CpuTypes
<1> QED
  BY <1>1, <1>4, <1>5, <1>8, <1>9, <1>11, <1>12, <1>13 DEF CleanInv

LEMMA CleanEnds ==
    ASSUME Levels \in Nat, CpuTypes, WindowInv, CleanInv, NEW p \in Prios, WindowEnds(p)
    PROVE  CleanInv'
<1> USE DEF Prios
<1>1. /\ UNCHANGED <<time, busy, begin, before, net, sum, asleep, own>>
      /\ step' = [step EXCEPT ![p] = "ended"] /\ ended' = [ended EXCEPT ![p] = time]
      /\ due' = own[p] /\ step[p] = "open"
  BY DEF WindowEnds
<1>2. /\ step'[p] = "ended" /\ ended'[p] = time
      /\ \A q \in Prios : q # p => step'[q] = step[q] /\ ended'[q] = ended[q]
  BY <1>1 DEF CpuTypes
<1>3. \A q \in Prios : q > p => step[q] = "none"
  BY DEF WindowEnds, Runs, CleanInv
<1>4. \A q \in Prios : ~Closing(q)
  BY <1>1, <1>3 DEF CleanInv, Closing
<1>5. due = 0
  BY <1>4 DEF CleanInv
<1>6. Highest(p) /\ time - begin[p] = own[p] + busy - before[p]
  <2>1. Highest(p)
    BY <1>1, <1>3 DEF Highest, Live
  <2>2. time - begin[p] = own[p] + Spent(p)
    BY <2>1 DEF CleanInv
  <2>3. Spent(p) = busy + due - before[p]
    BY <1>1 DEF Spent
  <2>4. time \in Int /\ begin[p] \in Int /\ own[p] \in Int /\ busy \in Int /\ before[p] \in Int
    BY DEF CpuTypes
  <2> QED
    BY <1>5, <2>1, <2>2, <2>3, <2>4
<1>7. \A q \in Prios : Live(q)' <=> Live(q) /\ q # p
  BY <1>1, <1>2 DEF Live
<1>8. \A q, r \in Prios : NextAbove(q, r)' => NextAbove(q, r) /\ r # p
  BY <1>3, <1>7 DEF NextAbove, Live
<1>9. ASSUME NEW q \in Prios, Highest(q)'
      PROVE  time' - begin'[q] = own'[q] + Spent(q)'
  <2>1. q # p /\ Live(q) /\ q < p
    BY <1>3, <1>7, <1>9 DEF Highest, Live
  <2>2. NextAbove(q, p)
    BY <1>1, <1>7, <1>9, <2>1 DEF NextAbove, Highest, Live
  <2>3. begin[p] - begin[q] = own[q] + before[p] - before[q]
    BY <1>1, <2>2 DEF CleanInv, Base, CpuTypes
  <2>4. step'[q] = "open"
    <3>1. step[q] # "begun"
      BY <1>1, <2>1 DEF CleanInv
    <3> QED
      BY <1>2, <2>1, <3>1 DEF Live
  <2>5. Spent(q)' = busy + own[p] - before[q]
    BY <1>1, <2>4 DEF Spent
  <2>6. /\ time \in Int /\ busy \in Int
        /\ begin[p] \in Int /\ own[p] \in Int /\ before[p] \in Int
        /\ begin[q] \in Int /\ own[q] \in Int /\ before[q] \in Int
    BY DEF CpuTypes
  <2>7. time - begin[q] = own[q] + (busy + own[p] - before[q])
    BY <1>6, <2>3, <2>6
  <2>8. time' = time /\ begin'[q] = begin[q] /\ own'[q] = own[q]
    BY <1>1
  <2> QED
    BY <2>5, <2>7, <2>8
<1>10. \A q \in Prios : Closing(q)' <=> q = p
  BY <1>2, <1>4 DEF Closing
<1>11. \A q \in Prios : Base(q)' = Base(q) \/ q = p
  BY <1>1, <1>2 DEF Base
<1>12. \A q, r \in Prios : NextAbove(q, r)' =>
        begin'[r] - begin'[q] = own'[q] + Base(r)' - before'[q]
  BY <1>1, <1>8, <1>11 DEF CleanInv
<1>13. \A q \in Prios : Closing(q)' =>
         due' = own'[q] /\ ended'[q] - begin'[q] = own'[q] + busy' - before'[q]
  BY <1>1, <1>2, <1>6, <1>10
<1>14. /\ \A q \in Prios : ~asleep'[q]
       /\ \A q, r \in Prios : q < r /\ step'[q] \notin {"none", "open"} => step'[r] = "none"
       /\ \A q \in Prios : step'[q] # "taken"
       /\ \A q \in Prios : step'[q] \notin {"none", "begun"} => before'[q] <= busy'
  BY <1>1, <1>2, <1>3, <1>4 DEF CleanInv, Closing
<1> QED
  BY <1>9, <1>10, <1>12, <1>13, <1>14 DEF CleanInv

LEMMA CleanTaken ==
    ASSUME Levels \in Nat, CpuTypes, WindowInv, CleanInv, NEW p \in Prios, WindowTaken(p)
    PROVE  CleanInv'
<1> USE DEF Prios
<1>1. /\ UNCHANGED <<time, busy, begin, before, ended, asleep, own, due>>
      /\ step' = [step EXCEPT ![p] = "taken"] /\ step[p] = "ended"
      /\ net' = [net EXCEPT ![p] = Wall(p) - Preempted(p)]
      /\ sum' = [sum EXCEPT ![p] = busy + Wall(p) - Preempted(p)]
  BY DEF WindowTaken
<1>2. /\ step'[p] = "taken" /\ net'[p] = Wall(p) - Preempted(p)
      /\ sum'[p] = busy + Wall(p) - Preempted(p)
      /\ \A q \in Prios : q # p => step'[q] = step[q]
  BY <1>1 DEF CpuTypes
<1>3. \A q \in Prios : q # p => step[q] \in {"none", "open"}
  BY <1>1 DEF CleanInv, WindowTaken, Runs
<1>4. Wall(p) = own[p] + busy - before[p] /\ before[p] <= busy /\ own[p] >= 0
  BY <1>1 DEF CleanInv, WindowInv, Closing, Wall
<1>5. Preempted(p) = busy - before[p]
  <2>1. own[p] \in Int /\ busy \in Int /\ before[p] \in Int
    BY DEF CpuTypes
  <2>2. busy - before[p] \in 0 .. (own[p] + busy - before[p])
    BY <1>4, <2>1
  <2>3. busy - before[p] \in 0 .. Wall(p)
    BY <1>4, <2>2
  <2> QED
    BY <2>3 DEF Preempted
<1>6. Wall(p) - Preempted(p) = own[p] /\ busy + Wall(p) - Preempted(p) = busy + own[p]
  <2>1. own[p] \in Int /\ busy \in Int /\ before[p] \in Int
    BY DEF CpuTypes
  <2> QED
    BY <1>4, <1>5, <2>1
<1>7. \A q, r \in Prios : /\ Live(q)' <=> Live(q)
                          /\ Highest(q)' <=> Highest(q)
                          /\ NextAbove(q, r)' <=> NextAbove(q, r)
                          /\ Closing(q)' <=> Closing(q)
  BY <1>1, <1>2 DEF Live, Highest, NextAbove, Closing
<1>8. \A q \in Prios : Live(q) => Base(q)' = Base(q) /\ Spent(q)' = Spent(q)
  BY <1>1, <1>2 DEF Live, Base, Spent
<1>9. \A q \in Prios : step'[q] = "taken" => net'[q] = own'[q] /\ sum'[q] = busy' + own'[q]
  BY <1>1, <1>2, <1>3, <1>6
<1>10. /\ \A q, r \in Prios : NextAbove(q, r)' =>
            begin'[r] - begin'[q] = own'[q] + Base(r)' - before'[q]
       /\ \A q \in Prios : Highest(q)' => time' - begin'[q] = own'[q] + Spent(q)'
  BY <1>1, <1>7, <1>8 DEF CleanInv, NextAbove, Highest
<1>11. /\ \A q \in Prios : ~asleep'[q]
       /\ \A q, r \in Prios : q < r /\ step'[q] \notin {"none", "open"} => step'[r] = "none"
       /\ \A q \in Prios : step'[q] \notin {"none", "begun"} => before'[q] <= busy'
       /\ (\A q \in Prios : ~Closing(q)) => due' = 0
       /\ \A q \in Prios : Closing(q) =>
            due' = own'[q] /\ ended'[q] - begin'[q] = own'[q] + busy' - before'[q]
  BY <1>1, <1>2, <1>3 DEF CleanInv
<1> QED
  BY <1>7, <1>9, <1>10, <1>11 DEF CleanInv

LEMMA CleanAdded ==
    ASSUME Levels \in Nat, CpuTypes, WindowInv, CleanInv, NEW p \in Prios, WindowAdded(p)
    PROVE  CleanInv' /\ busy' = busy + own[p]
<1> USE DEF Prios
<1>1. /\ UNCHANGED <<time, begin, before, ended, net, sum, asleep, own>>
      /\ step' = [step EXCEPT ![p] = "none"] /\ step[p] = "taken" /\ busy' = sum[p] /\ due' = 0
  BY DEF WindowAdded
<1>2. /\ step'[p] = "none"
      /\ \A q \in Prios : q # p => step'[q] = step[q]
  BY <1>1 DEF CpuTypes
<1>3. \A q \in Prios : q # p => step[q] \in {"none", "open"}
  BY <1>1 DEF CleanInv, WindowAdded, Runs
<1>4. busy' = busy + own[p] /\ due = own[p] /\ own[p] >= 0
  BY <1>1 DEF CleanInv, Closing, WindowInv
<1>5. \A q, r \in Prios : /\ Live(q)' <=> Live(q)
                          /\ Highest(q)' <=> Highest(q)
                          /\ NextAbove(q, r)' <=> NextAbove(q, r)
  BY <1>1, <1>2 DEF Live, Highest, NextAbove
<1>6. \A q \in Prios : Live(q) => Base(q)' = Base(q) /\ Spent(q)' = Spent(q)
  BY <1>1, <1>2, <1>3, <1>4 DEF Live, Base, Spent, CpuTypes
<1>7. /\ \A q, r \in Prios : NextAbove(q, r)' =>
            begin'[r] - begin'[q] = own'[q] + Base(r)' - before'[q]
      /\ \A q \in Prios : Highest(q)' => time' - begin'[q] = own'[q] + Spent(q)'
  BY <1>1, <1>5, <1>6 DEF CleanInv, NextAbove, Highest
<1>8. \A q \in Prios : ~Closing(q)' /\ step'[q] # "taken"
  BY <1>2, <1>3 DEF Closing
<1>9. \A q \in Prios : step'[q] \notin {"none", "begun"} => before'[q] <= busy'
  <2>1. \A q \in Prios : step'[q] \notin {"none", "begun"} => before[q] <= busy
    BY <1>2 DEF CleanInv
  <2> QED
    BY <1>1, <1>4, <2>1 DEF CpuTypes
<1>10. /\ \A q \in Prios : ~asleep'[q]
       /\ \A q, r \in Prios : q < r /\ step'[q] \notin {"none", "open"} => step'[r] = "none"
  BY <1>1, <1>2, <1>3 DEF CleanInv
<1> QED
  BY <1>1, <1>4, <1>7, <1>8, <1>9, <1>10 DEF CleanInv

LEMMA CleanStep ==
    ASSUME Levels \in Nat, CpuTypes, WindowInv, ~spoilt => CleanInv, [CpuNext]_cpuVars
    PROVE  ~spoilt' => CleanInv'
<1> SUFFICES ASSUME ~spoilt'
             PROVE  CleanInv'
  OBVIOUS
<1>1. CASE ClockRuns
  BY <1>1, CleanTime DEF ClockRuns
<1>2. ASSUME NEW p \in Prios, WindowBegins(p)
      PROVE  CleanInv'
  BY <1>2, CleanBegins
<1>3. ASSUME NEW p \in Prios, WindowOpens(p)
      PROVE  CleanInv'
  BY <1>3, CleanOpens DEF WindowOpens
<1>4. ASSUME NEW p \in Prios, WindowEnds(p)
      PROVE  CleanInv'
  BY <1>4, CleanEnds DEF WindowEnds
<1>5. ASSUME NEW p \in Prios, WindowTaken(p)
      PROVE  CleanInv'
  BY <1>5, CleanTaken DEF WindowTaken
<1>6. ASSUME NEW p \in Prios, WindowAdded(p)
      PROVE  CleanInv'
  BY <1>6, CleanAdded DEF WindowAdded
<1>7. ASSUME NEW p \in Prios, Waits(p) \/ Wakes(p)
      PROVE  CleanInv'
  BY <1>7 DEF Waits, Wakes, CleanInv
<1>8. CASE UNCHANGED cpuVars
  BY <1>8 DEF cpuVars, windowVars, CleanInv, Closing, NextAbove, Highest, Live, Base, Spent
<1> QED
  BY <1>1, <1>2, <1>3, <1>4, <1>5, <1>6, <1>7, <1>8 DEF CpuNext

LEMMA CpuAlways ==
    ASSUME Levels \in Nat
    PROVE  CpuSpec => [](CpuTypes /\ WindowInv /\ (~spoilt => CleanInv))
<1>1. ASSUME CpuInit
      PROVE  CpuTypes /\ WindowInv /\ CleanInv
  <2>1. \A p \in Prios : /\ step[p] = "none" /\ begin[p] = 0 /\ before[p] = 0 /\ ended[p] = 0
                          /\ net[p] = 0 /\ sum[p] = 0 /\ own[p] = 0
    BY <1>1 DEF CpuInit
  <2>2. \A p \in Prios : ~asleep[p]
    BY <1>1 DEF CpuInit
  <2>3. CpuTypes
    <3>1. asleep \in [Prios -> BOOLEAN] /\ spoilt \in BOOLEAN
      BY <1>1, Zenon DEF CpuInit
    <3>2. /\ time \in Int /\ busy \in Int /\ due \in Int
          /\ step \in [Prios -> {"none", "begun", "open", "ended", "taken"}]
          /\ begin \in [Prios -> Int] /\ before \in [Prios -> Int] /\ ended \in [Prios -> Int]
          /\ net \in [Prios -> Int] /\ sum \in [Prios -> Int] /\ own \in [Prios -> Int]
      BY <1>1 DEF CpuInit
    <3> QED
      BY <3>1, <3>2 DEF CpuTypes
  <2>4. WindowInv
    BY <1>1, <2>1 DEF CpuInit, WindowInv
  <2>5. \A p \in Prios : ~Closing(p) /\ ~Live(p)
    BY <2>1 DEF Closing, Live
  <2>6. CleanInv
    BY <1>1, <2>1, <2>2, <2>5 DEF CpuInit, CleanInv, NextAbove, Highest
  <2> QED
    BY <2>3, <2>4, <2>6
<1>2. CpuTypes /\ WindowInv /\ (~spoilt => CleanInv) /\ [CpuNext]_cpuVars =>
        CpuTypes' /\ WindowInv' /\ (~spoilt => CleanInv)'
  BY CpuTypesStep, CleanStep
<1> QED
  BY <1>1, <1>2, PTL DEF CpuSpec

\* However deep tasks preempt one another, a window that nobody disturbed between two
\* looks counts its own time, and none twice (fc_cpu_account.h:3-12).
THEOREM NothingCountedTwice ==
    ASSUME Levels \in Nat
    PROVE  CpuSpec => [](NetIsOwn /\ NetWithinWall)
<1>1. WindowInv /\ (~spoilt => CleanInv) => NetIsOwn /\ NetWithinWall
  BY DEF WindowInv, CleanInv, NetIsOwn, NetWithinWall
<1> QED
  BY <1>1, CpuAlways, PTL

\* And what the account of the core grows by is that own time
\* (fc_cpu_account.c:18-22).
THEOREM AccountIsOwn ==
    ASSUME Levels \in Nat
    PROVE  CpuSpec => AccountGrowsByOwn
<1>1. CpuTypes /\ WindowInv /\ (~spoilt => CleanInv) /\ [CpuNext]_cpuVars =>
        [~spoilt /\ busy' # busy => \E p \in Prios : step[p] = "taken" /\ busy' = busy + own[p]]_cpuVars
  <2> SUFFICES ASSUME CpuTypes, WindowInv, CleanInv, CpuNext, busy' # busy
               PROVE  \E p \in Prios : step[p] = "taken" /\ busy' = busy + own[p]
    BY DEF cpuVars
  <2>1. PICK p \in Prios : WindowAdded(p)
    BY DEF CpuNext, ClockRuns, WindowBegins, WindowOpens, WindowEnds, WindowTaken, Waits, Wakes
  <2> QED
    BY <2>1, CleanAdded DEF WindowAdded
<1> QED
  BY <1>1, CpuAlways, PTL DEF CpuSpec, AccountGrowsByOwn

-----------------------------------------------------------------------------
(* ShadowRun.                                                              *)

ShadowCounts ==
    /\ requests \in Int /\ below \in Int /\ inBand \in Int /\ above \in Int
    /\ ineffective \in Int /\ transition \in Int /\ effective \in Int /\ envSaturated \in Int
    /\ escSaturated \in Int /\ inBins \in Int
    /\ envelope \in Int /\ esc_limit \in Int /\ keptEnv \in Int

ShadowPlaces ==
    /\ ring \in [0 .. RingSize - 1 -> Int]
    /\ ringHead \in 0 .. RingSize - 1 /\ ringCount \in 0 .. RingSize
    /\ ringCount < RingSize => ringHead = ringCount
    /\ decim \in 0 .. Decimation - 1
    /\ record \in {"out", "counted", "kept"}
    /\ record = "kept" => decim = 0

\* The number of the newest record that counts.
Newest == IF record = "out" THEN requests - decim
          ELSE IF record = "counted" THEN requests - 1 - decim
          ELSE requests - Decimation

\* The record after the oldest, once the oldest is overwritten.
Overtaken(i) == record = "kept" /\ ringCount = RingSize /\ i = After(ringHead)

HistoryClean ==
    /\ ringCount = 0 => Newest = 0
    /\ ringCount > 0 => ring[Before(ringHead)] = Newest
    /\ record = "kept" => ring[ringHead] = requests
    /\ \A i \in 0 .. RingSize - 1 :
         i # ringHead /\ i < ringCount /\ ~Overtaken(i) =>
             IF i = 0 /\ ringCount < RingSize THEN ring[i] = Decimation
             ELSE ring[i] = ring[Before(i)] + Decimation

ShadowClean == ~mixed /\ wiping # "ring" => HistoryClean

ShadowBounds ==
    /\ RingSize \in Nat /\ RingSize > 1 /\ Decimation \in Nat /\ Decimation > 0
    /\ Low \in Int /\ High \in Int /\ Low <= High /\ AnyEnvelope \in Int /\ AnyEsc \in Int
    /\ Currents \subseteq Int /\ Limits \subseteq Int

LEMMA ShadowCountsStep ==
    ASSUME ShadowBounds, ShadowCounts, [ShadowNext]_shadowVars
    PROVE  ShadowCounts'
<1> USE DEF ShadowBounds, ShadowCounts
<1>1. ASSUME NEW a \in Currents, NEW i \in Integrals, NEW inBin \in BOOLEAN, Observes(a, i, inBin)
      PROVE  ShadowCounts'
  <2>1. /\ requests' \in Int /\ below' \in Int /\ inBand' \in Int /\ above' \in Int
    BY <1>1 DEF Observes, CountsZone
  <2>2. /\ ineffective' \in Int /\ transition' \in Int /\ effective' \in Int /\ envSaturated' \in Int
    BY <1>1 DEF Observes, CountsEnvelope
  <2>3. escSaturated' \in Int /\ inBins' \in Int
    BY <1>1 DEF Observes, CountsBin
  <2>4. envelope' \in Int /\ esc_limit' \in Int /\ keptEnv' \in Int
    BY <1>1 DEF Observes, limitVars, wipeVars
  <2> QED
    BY <2>1, <2>2, <2>3, <2>4
<1>2. CASE Skips \/ Keeps \/ Advances
  BY <1>2 DEF Skips, Keeps, Advances, zoneVars, envVars, binVars, limitVars, wipeVars
<1>3. ASSUME NEW x \in Limits, SetsEnvelope(x) \/ SyncsLimit(x)
      PROVE  ShadowCounts'
  BY <1>3 DEF SetsEnvelope, SyncsLimit, zoneVars, envVars, binVars, wipeVars
<1>4. CASE WipesRing \/ SetsDefaults
  BY <1>4 DEF WipesRing, SetsDefaults, zoneVars, envVars, binVars, limitVars
<1>5. CASE WipesStats
  BY <1>5 DEF WipesStats
<1>6. CASE UNCHANGED shadowVars
  BY <1>6 DEF shadowVars, zoneVars, envVars, binVars, limitVars, wipeVars
<1> QED
  BY <1>1, <1>2, <1>3, <1>4, <1>5, <1>6 DEF ShadowNext

LEMMA CountedOnceStep ==
    ASSUME ShadowBounds, ShadowCounts, EachCountedOnce, [ShadowNext]_shadowVars
    PROVE  EachCountedOnce'
<1> USE DEF ShadowBounds, ShadowCounts
<1>1. ASSUME NEW a \in Currents, NEW i \in Integrals, NEW inBin \in BOOLEAN, Observes(a, i, inBin)
      PROVE  EachCountedOnce'
  <2> SUFFICES ASSUME ~mixed', wiping' # "ring"
               PROVE  /\ below' + inBand' + above' = requests'
                      /\ ineffective' + transition' + effective' + envSaturated' = requests'
                      /\ escSaturated' <= inBins' /\ inBins' <= requests'
    BY DEF EachCountedOnce
  <2>1. ~mixed /\ wiping # "ring"
    BY <1>1 DEF Observes, wipeVars
  <2>2. /\ below + inBand + above = requests
        /\ ineffective + transition + effective + envSaturated = requests
        /\ escSaturated <= inBins /\ inBins <= requests
    BY <2>1 DEF EachCountedOnce
  <2>3. requests' = requests + 1
    BY <1>1 DEF Observes, CountsZone
  <2>4. below' + inBand' + above' = below + inBand + above + 1
    BY <1>1 DEF Observes, CountsZone, Below, UpTo
  <2>5. ineffective' + transition' + effective' + envSaturated'
          = ineffective + transition + effective + envSaturated + 1
    <3> DEFINE eff == IF Below(a, envelope) THEN a ELSE envelope
    <3>1. eff \in Int
      BY DEF Below
    <3>2. /\ envSaturated' = IF eff >= envelope THEN envSaturated + 1 ELSE envSaturated
          /\ ineffective' = IF eff < envelope /\ eff < Low THEN ineffective + 1 ELSE ineffective
          /\ transition' = IF eff < envelope /\ eff >= Low /\ eff <= High
                           THEN transition + 1 ELSE transition
          /\ effective' = IF eff < envelope /\ eff >= Low /\ eff > High
                          THEN effective + 1 ELSE effective
      BY <1>1 DEF Observes, CountsEnvelope
    <3> HIDE DEF eff
    <3> QED
      BY <3>1, <3>2
  <2>6. escSaturated' <= inBins' /\ inBins' <= inBins + 1
    BY <1>1, <2>2 DEF Observes, CountsBin
  <2>7. inBins' \in Int /\ escSaturated' \in Int
    BY <1>1 DEF Observes, CountsBin
  <2> QED
    BY <2>2, <2>3, <2>4, <2>5, <2>6, <2>7
<1>2. CASE Skips \/ Keeps \/ Advances
  BY <1>2 DEF EachCountedOnce, Skips, Keeps, Advances, zoneVars, envVars, binVars, wipeVars
<1>3. ASSUME NEW x \in Limits, SetsEnvelope(x) \/ SyncsLimit(x)
      PROVE  EachCountedOnce'
  BY <1>3 DEF EachCountedOnce, SetsEnvelope, SyncsLimit, zoneVars, envVars, binVars, wipeVars
<1>4. CASE WipesRing \/ SetsDefaults
  BY <1>4 DEF EachCountedOnce, WipesRing, SetsDefaults, zoneVars, envVars, binVars
<1>5. CASE WipesStats
  BY <1>5 DEF EachCountedOnce, WipesStats
<1>6. CASE UNCHANGED shadowVars
  BY <1>6 DEF EachCountedOnce, shadowVars, zoneVars, envVars, binVars, wipeVars
<1> QED
  BY <1>1, <1>2, <1>3, <1>4, <1>5, <1>6 DEF ShadowNext

\* Over any envelope and any current, one that is no number included, each request the
\* observer sees is counted once in each account of it (fc_shadow.c:54-63, 108-142).
THEOREM RequestsCountedOnce ==
    ASSUME ShadowBounds
    PROVE  ShadowSpec => []EachCountedOnce
<1>1. ShadowInit => ShadowCounts /\ EachCountedOnce
  BY DEF ShadowBounds, ShadowInit, ShadowCounts, EachCountedOnce
<1>2. ShadowCounts /\ EachCountedOnce /\ [ShadowNext]_shadowVars => (ShadowCounts /\ EachCountedOnce)'
  BY ShadowCountsStep, CountedOnceStep
<1> QED
  BY <1>1, <1>2, PTL DEF ShadowSpec

LEMMA ShadowPlacesStep ==
    ASSUME ShadowBounds, ShadowCounts, ShadowPlaces, [ShadowNext]_shadowVars
    PROVE  ShadowPlaces'
<1> USE DEF ShadowBounds, ShadowCounts, ShadowPlaces
<1>1. ASSUME NEW a \in Currents, NEW i \in Integrals, NEW inBin \in BOOLEAN, Observes(a, i, inBin)
      PROVE  ShadowPlaces'
  BY <1>1 DEF Observes, shadowRingVars
<1>2. CASE Skips
  BY <1>2 DEF Skips
<1>3. CASE Keeps
  BY <1>3 DEF Keeps
<1>4. CASE Advances
  BY <1>4 DEF Advances, After
<1>5. ASSUME NEW x \in Limits, SetsEnvelope(x) \/ SyncsLimit(x)
      PROVE  ShadowPlaces'
  BY <1>5 DEF SetsEnvelope, SyncsLimit, shadowRingVars
<1>6. CASE WipesRing
  BY <1>6 DEF WipesRing
<1>7. CASE WipesStats
  BY <1>7 DEF WipesStats
<1>8. CASE SetsDefaults
  BY <1>8 DEF SetsDefaults, shadowRingVars
<1>9. CASE UNCHANGED shadowVars
  BY <1>9 DEF shadowVars, shadowRingVars
<1> QED
  BY <1>1, <1>2, <1>3, <1>4, <1>5, <1>6, <1>7, <1>8, <1>9 DEF ShadowNext

LEMMA HistoryGoesOn ==
    ASSUME ShadowBounds, ShadowCounts, ShadowPlaces, HistoryClean, Skips \/ Keeps
    PROVE  HistoryClean'
<1> USE DEF ShadowBounds, ShadowCounts, ShadowPlaces
<1>1. CASE Skips
  <2>1. UNCHANGED <<requests, ring, ringHead, ringCount>> /\ record = "counted" /\ record' = "out"
        /\ decim' = decim + 1
    BY <1>1 DEF Skips, zoneVars
  <2>2. Newest' = Newest
    BY <2>1 DEF Newest
  <2>3. \A i \in 0 .. RingSize - 1 : ~Overtaken(i)
    BY <2>1 DEF Overtaken
  <2> QED
    BY <2>1, <2>2, <2>3 DEF HistoryClean, Before
<1>2. CASE Keeps
  <2>1. /\ UNCHANGED <<requests, ringHead, ringCount>> /\ record = "counted" /\ record' = "kept"
        /\ decim = Decimation - 1 /\ decim' = 0
        /\ ring' = [ring EXCEPT ![ringHead] = requests]
    BY <1>2 DEF Keeps, zoneVars
  <2>2. Newest' = Newest
    BY <2>1 DEF Newest
  <2>3. ring'[ringHead] = requests /\ \A i \in 0 .. RingSize - 1 : i # ringHead => ring'[i] = ring[i]
    BY <2>1
  <2>4. Before(ringHead) # ringHead /\ Before(ringHead) \in 0 .. RingSize - 1
    BY DEF Before
  <2>5. ASSUME NEW i \in 0 .. RingSize - 1, i # ringHead, i < ringCount, ~Overtaken(i)'
        PROVE  IF i = 0 /\ ringCount < RingSize THEN ring'[i] = Decimation
               ELSE ring'[i] = ring'[Before(i)] + Decimation
    <3>1. IF i = 0 /\ ringCount < RingSize THEN ring[i] = Decimation
          ELSE ring[i] = ring[Before(i)] + Decimation
      BY <2>1, <2>5 DEF HistoryClean, Overtaken
    <3>2. CASE i = 0 /\ ringCount < RingSize
      BY <2>3, <2>5, <3>1, <3>2
    <3>3. CASE ~(i = 0 /\ ringCount < RingSize)
      <4>1. Before(i) \in 0 .. RingSize - 1 /\ Before(i) # ringHead
        BY <2>1, <2>5, <3>3 DEF Before, After, Overtaken
      <4> QED
        BY <2>3, <2>5, <3>1, <3>3, <4>1
    <3> QED
      BY <3>2, <3>3
  <2>6. ringCount = 0 => Newest' = 0
    BY <2>2 DEF HistoryClean
  <2>7. ringCount > 0 => ring'[Before(ringHead)] = Newest'
    BY <2>2, <2>3, <2>4 DEF HistoryClean
  <2> QED
    BY <2>1, <2>3, <2>5, <2>6, <2>7 DEF HistoryClean, Before
<1> QED
  BY <1>1, <1>2

LEMMA HistoryAdvances ==
    ASSUME ShadowBounds, ShadowCounts, ShadowPlaces, HistoryClean, Advances
    PROVE  HistoryClean'
<1> USE DEF ShadowBounds, ShadowCounts, ShadowPlaces
<1>1. /\ UNCHANGED <<requests, ring, decim>> /\ record = "kept" /\ record' = "out" /\ decim = 0
      /\ ringHead' = After(ringHead)
      /\ ringCount' = IF ringCount < RingSize THEN ringCount + 1 ELSE ringCount
  BY DEF Advances, zoneVars
<1>2. Newest' = requests /\ Newest = requests - Decimation
  BY <1>1 DEF Newest
<1>3. Before(After(ringHead)) = ringHead
  BY DEF Before, After
<1>4. ringCount' > 0
  BY <1>1
<1>5. ring'[Before(ringHead')] = Newest'
  BY <1>1, <1>2, <1>3 DEF HistoryClean
<1>6. ASSUME NEW i \in 0 .. RingSize - 1, i # ringHead', i < ringCount'
      PROVE  IF i = 0 /\ ringCount' < RingSize THEN ring[i] = Decimation
             ELSE ring[i] = ring[Before(i)] + Decimation
  <2>1. CASE i = ringHead
    <3>1. ring[i] = requests
      BY <1>1, <2>1 DEF HistoryClean
    <3>2. CASE ringCount = 0
      BY <1>1, <1>2, <2>1, <3>1, <3>2 DEF HistoryClean
    <3>3. CASE ringCount > 0
      <4>1. ring[Before(i)] = requests - Decimation
        BY <1>2, <2>1, <3>3 DEF HistoryClean
      <4>2. ~(i = 0 /\ ringCount' < RingSize)
        BY <1>1, <2>1, <3>3
      <4> QED
        BY <3>1, <4>1, <4>2
    <3> QED
      BY <3>2, <3>3
  <2>2. CASE i # ringHead
    <3>1. ~Overtaken(i) /\ i < ringCount
      BY <1>1, <1>6, <2>2 DEF Overtaken
    <3>2. IF i = 0 /\ ringCount < RingSize THEN ring[i] = Decimation
          ELSE ring[i] = ring[Before(i)] + Decimation
      BY <2>2, <3>1 DEF HistoryClean
    <3>3. ~(i = 0 /\ ringCount < RingSize /\ ringCount' = RingSize)
      BY <1>1, <1>6, <2>2 DEF After
    <3> QED
      BY <1>1, <3>2, <3>3
  <2> QED
    BY <2>1, <2>2
<1>7. \A i \in 0 .. RingSize - 1 : ~Overtaken(i)'
  BY <1>1 DEF Overtaken
<1>8. \A i : Before(i)' = Before(i)
  BY DEF Before
<1> QED
  BY <1>1, <1>4, <1>5, <1>6, <1>7, <1>8 DEF HistoryClean

LEMMA HistoryStep ==
    ASSUME ShadowBounds, ShadowCounts, ShadowPlaces, ShadowClean, [ShadowNext]_shadowVars
    PROVE  ShadowClean'
<1> USE DEF ShadowBounds, ShadowCounts, ShadowPlaces
<1>1. ASSUME NEW a \in Currents, NEW i \in Integrals, NEW inBin \in BOOLEAN, Observes(a, i, inBin)
      PROVE  ShadowClean'
  <2>1. /\ record = "out" /\ record' = "counted" /\ requests' = requests + 1
        /\ UNCHANGED <<ring, ringHead, ringCount, decim, mixed, wiping>>
    BY <1>1 DEF Observes, CountsZone, shadowRingVars, wipeVars
  <2>2. Newest' = Newest
    BY <2>1 DEF Newest
  <2> QED
    BY <2>1, <2>2 DEF ShadowClean, HistoryClean, Overtaken, Before
<1>2. CASE Skips \/ Keeps
  BY <1>2, HistoryGoesOn DEF ShadowClean, Skips, Keeps, wipeVars
<1>3. CASE Advances
  BY <1>3, HistoryAdvances DEF ShadowClean, Advances, wipeVars
<1>4. ASSUME UNCHANGED <<requests, ring, ringHead, ringCount, decim, mixed, record>>,
             wiping' # "ring" => wiping # "ring"
      PROVE  ShadowClean'
  BY <1>4 DEF ShadowClean, HistoryClean, Newest, Overtaken, Before, After
<1>5. ASSUME NEW x \in Limits, SetsEnvelope(x) \/ SyncsLimit(x)
      PROVE  ShadowClean'
  BY <1>4, <1>5 DEF SetsEnvelope, SyncsLimit, zoneVars, shadowRingVars, wipeVars
<1>6. CASE WipesRing
  BY <1>6 DEF WipesRing, ShadowClean
<1>7. CASE WipesStats
  <2>1. /\ wiping = "ring" /\ requests' = 0 /\ decim' = 0
        /\ UNCHANGED <<ring, ringHead, ringCount, record>>
        /\ mixed' = (mixed \/ record # "out" \/ ringCount # 0)
    BY <1>7 DEF WipesStats
  <2> SUFFICES ASSUME ~mixed'
               PROVE  HistoryClean'
    BY DEF ShadowClean
  <2>2. record' = "out" /\ ringCount' = 0
    BY <2>1
  <2>3. Newest' = 0
    BY <2>1, <2>2 DEF Newest
  <2> QED
    BY <2>2, <2>3 DEF HistoryClean
<1>8. CASE SetsDefaults
  BY <1>4, <1>8 DEF SetsDefaults, zoneVars, shadowRingVars
<1>9. CASE UNCHANGED shadowVars
  BY <1>4, <1>9 DEF shadowVars, zoneVars, shadowRingVars, wipeVars
<1> QED
  BY <1>1, <1>2, <1>3, <1>5, <1>6, <1>7, <1>8, <1>9 DEF ShadowNext

\* For a ring of any size: unless a reset met a record, the history is each tenth
\* request, none missing and none out of place (fc_shadow.c:159-172, 178-189).
THEOREM HistoryIsTrue ==
    ASSUME ShadowBounds
    PROVE  ShadowSpec => []HistoryIsEveryTenth
<1>1. ShadowInit => ShadowCounts /\ ShadowPlaces /\ ShadowClean
  BY DEF ShadowBounds, ShadowInit, ShadowCounts, ShadowPlaces, ShadowClean, HistoryClean, Newest
<1>2. ShadowCounts /\ ShadowPlaces /\ ShadowClean /\ [ShadowNext]_shadowVars =>
        (ShadowCounts /\ ShadowPlaces /\ ShadowClean)'
  BY ShadowCountsStep, ShadowPlacesStep, HistoryStep
<1>3. ShadowClean => HistoryIsEveryTenth
  BY DEF ShadowClean, HistoryClean, HistoryIsEveryTenth, Newest, Overtaken
<1> QED
  BY <1>1, <1>2, <1>3, PTL DEF ShadowSpec
=============================================================================
