# FloatCore: a TLA+ development

FloatCore is the firmware of a one-wheeled board on an ESP32: it reads an IMU,
runs the balancing package Refloat, and commands two motor controllers (ESCs)
over CAN.  This directory holds TLA+ models of the parts of the firmware that
decide whether a current may reach the motors, whether a change reaches flash,
whether the motion sensor is to be trusted, and whether limits, answers and
measurements are what they are taken for; the TLC configurations that check them, and theorems about them that the
TLAPS proof system checks.  Comments and documents of the firmware are Russian;
the names of definitions follow the C names.

Contents: 1 the system, 2 the modules, 3 the runs and their bounds,
4 fairness, 5 what is proved, 6 findings, 7 what is not modelled, 8 plan.

## 1. The system

Tasks and their priorities (`platform/esp32/main/fc_platform.h:21-31`):

| core | task (priority) | does |
|---|---|---|
| 1 | supervisor (15) | feeds the supervisor's inputs and polls it, once a period |
| 1 | control loop (14) | accepts an IMU sample, stamps the supervisor, runs the filter |
| 1 | IMU hardware (13) | reads the sensor over I2C |
| 1 | Refloat (12) | balances, asks for motor currents, reads the footpad |
| 0 | CAN receive (6), bench source (6) | receive frames; send a constant current on the bench |
| 0 | IMU stress (5), console (4) | bench tests; the operator's commands |
| 0 | log drain (3), storage (3) | write the log; copy the mirror to flash |

No module of the safety path holds a lock.  What protects its state is the
order of writes, the priorities on one core, and nothing at all between cores.

Components, with state, operations, interactions, and what makes each correct:

* **Safety supervisor** (`compat/safety/fc_supervisor.c`). State: the machine's
  state (BOOT, SELF_TEST, DISARMED, READY, ARMED, RUNNING, FAULT), a set of
  fault causes, the inputs, the time of the last loop tick and of the last IMU
  sample, the deadline of the burst. Operations: requests of the operator,
  reports of all other tasks, `poll`, `clear_fault`. Hard: calls from two cores
  without a lock; silence is found by age only; nobody calls back at a deadline.
  Correct when FAULT sticks, a burst is never prolonged and always ends, and a
  silent loop is found out in time.
* **Supervisor task and boot** (`fc_supervisor_task.c`, `app_main.c`). State: the
  position in the iteration, the boot phase. Hard: an iteration is six calls, and
  the console runs between any two of them. Correct when each hazard is found
  within one period, and service begins only after a whole boot.
* **Motor Gate** (`fc_motor_gate.c`). State: allowed origins, deadline of the
  burst. Every request passes it. Hard: what it checked may have changed by the
  time the frame leaves.
* **Dual-motor coordinator** (`compat/motor/fc_dual_motor.c`). State: armed,
  latched, whether the last pair was whole. Makes two frames of one request.
  Hard: one half of a pair fails; two sources at once. Correct when the halves
  agree or the coordinator is latched, and the latch needs two acts to undo.
* **Bench source** (`fc_motor_experiment.c`). State: running, stop request, time
  left. A task that asks for a constant current, and the operator's commands.
* **Closed-loop procedure** (`fc_console.c` cl-ready and cl-burst,
  `fc_closed_loop.c`, `fc_cl_burst.c`). State: the token, the position in the
  procedure. Two deadlines are set by two calls; five things are undone on every
  way out. Correct when Refloat's current is gone in time however a burst ends.
* **Storage and flash policy** (`fc_storage_nvs.c`, `fc_flash_policy.c`,
  `fc_imu_cal_store.c`). State: the mirror of words, dirty, commit requested,
  pending. A flash operation stops both cores for milliseconds. Hard: the
  permission is asked long before the write; words are stored while the blob is
  written; NVS fails; power goes. Correct when no flash operation meets torque
  and no change is forgotten.
* **IMU driver, loop, pipeline, health, policy, stress test** (`icm20948.c`,
  `fc_imu_rt.c`, `fc_imu_pipeline.c`, `fc_imu_health.c`, `fc_imu_policy.c`,
  `fc_imu_stress.c`). State: the chip, the words read last, four series of bad
  samples, the age of the last good one, who reads. Hard: a sensor that fails,
  freezes, loses power or is half configured, in any mixture; a driver without a
  lock and two tasks that may read. Correct when old or mis-scaled data never
  pass for good ones for long, and one task reads at a time.
* **CAN bus, diagnostics, node health** (`fc_can_bus.c`, `fc_can_diag.c`,
  `fc_can_health.c`). State: the outstanding request, the assembler, the stamps
  of the nodes. Hard: late replies, lost fragments, stamps noted out of order by
  two tasks, a bus that is stopped or goes off. Correct when an answer is neither
  lost nor put together of two.
* **Limits** (`fc_limits_sync.c`, `floatcore_limits.c`). State: the limits read
  from each half, those in force. Correct when limits are applied for both halves
  or for none, and the retries outlast the bus's own refusals.
* **Calibration** (`fc_imu_calibration.c`, `fc_imu_detect.c`,
  `fc_imu_cal_store.c`). Fed on core 1, started and saved from core 0, copied to
  flash by a third task. Correct when what is used was measured and stored whole.
* **One-shot command** (`fc_console.c` motor-oneshot-prep and -fire,
  `fc_motor_experiment.c`). State: a token. Hard: a minute lies between the two
  looks. Correct when one preparation gives one pair at most, and that pair rights
  the board.
* **Bench edits of Refloat** (`refloat_facade.c`, `fc_vesc_if.c`). State: gains in
  Refloat's memory, the baseline, the stored words. Correct when the bench can
  always be put back, and an experiment does not reach flash by itself.
* **Threads of Refloat** (`fc_vesc_if.c`, `fc_rt_clock.c`). A table of tasks
  whose period is found from what they ask to sleep; a hardware clock.
* **Diagnostics** (`fc_log.c`, `fc_log_port.c`, `fc_gap_trace.c`, `fc_gap_port.c`,
  `fc_cpu_account.c`, `fc_timing.c`, `fc_shadow.c`, `fc_cl_burst.c`). Rings,
  counters and accounts, written on one core and reset on the other, mostly
  without a lock. Nothing decides on them but the people who read them; correct
  when what they say is true, or is known not to be.
* **Command watchdog** (`fc_command_watchdog.c`). The policy by which FloatCore
  notices the loss of its own command stream before the ESC does.
* **VESC Tool protocol and host build** (`compat/vesc_protocol/`,
  `platform/host/`). Bytes from a TCP client through an incremental decoder to a
  command server, beside a simulation thread and one mutex. Correct when every
  request is handled once, and no thread waits for ever.

The hazards of the code, each at its line and with the property that covers it,
are listed in `PROJECT.json`.

## 2. The modules

```
BurstPermit <-- implemented by -- Supervisor
                                     |    \ \
                             SupervisorTask  MotorPath -- implements --> WheelPair
                              |        \     /     \        Storage -- ServicesProofs
                    SupervisorRace    ClosedLoop   MotorBench -- MotorProofs
                                       /   |           |
                             LoopProofs TwoOrigins MotorResume

Supervisor, MotorPath <- SupervisorProofs <- MotorProofs, LoopProofs
SupervisorTask, ImuPipeline <- SensorChain <- LoopProofs
ImuPipeline <- ImuPath <- CoreOneProofs    CanDiag <- LimitsSync <- LimitsProofs
VescPacket <- VescHost <- ProtocolProofs

proved only:
  Calibration, NodeHealth, CommandStream, OneShot <- BoardProofs
  LogRing, GapTrace, CpuAccount, ShadowRun        <- ServicesProofs
  BurstJournal                                    <- MotorProofs
  RefloatConfig, RefloatThreads                   <- CoreOneProofs
  SensorChain                                     <- LoopProofs
```

* **Supervisor**: `fc_supervisor.c`, each public call one action, any call at any
  time. Time stamps become ages: `loopAge`, `imuAge` count up to `AgeCap`, `burst`
  is the deadline minus now. `Tick` is one unit of time. `SampleLag` lets a
  report carry a stamp older than the call, as `fc_supervisor_begin_burst(ms,
  start)` does. The causes in `S.faults` are a set, the bit mask's meaning.
* **BurstPermit**: what the rest of the system may rely on: permission to
  drive comes in bursts, each prepared anew, each bounded, none extended, all
  of them over in the end. `Supervisor!KeepsPromise` is the refinement: READY
  and ARMED map to "prepared", RUNNING to "live", FAULT to "failed", the rest to
  "rest".
* **SupervisorTask**: who calls the supervisor and when. One action per call of
  an iteration; the loop and Refloat cannot run inside an iteration (same core,
  lower priority), the console can (other core), and so can the two things core 0 does
  to the sensor: a restart (`SensorRestarts`: the pipeline forgets its last sample, the
  supervisor does not) and the samples of the stress test (`StressSample`: the
  supervisor is told, the pipeline is not). `ahead` is the one trace of time stamps that
  ages do not keep: a sample reported after the iteration took its time
  (`CallPollBehind`). `phase` follows `app_main`.
  Histories `ran`, `grant`, `pressAge` measure how late a hazard is found.
* **SupervisorRace**: SupervisorTask with a request of the console split into
  its check and its write, as the missing lock allows.
* **MotorPath**: the way of one request: asked, passed (by the gate), send
  (granted by the coordinator), sentA or missedA, done. Each stage is a step of its
  own, since each source may be preempted between any two. `half` is what each
  ESC does: whose current, which, and for how long no new frame has come. An ESC
  lets go between `EscHold` and `EscMax` (time-out plus a tick of its timer).
* **WheelPair**: what the coordinator promises of the two wheels, without sources, gate,
  arming or reasons to refuse: a pair is sent to half A, then to half B, with no other
  pair between; one that reached one half alone latches, and no pair begins under the
  latch; apart from that a wheel only lets go. `MotorPath!KeepsPairs` is the refinement:
  a wheel obeys what `half` says of source and current, and the open pair is the
  request in sentA or missedA. MotorBench and ClosedLoop implement it, TwoOrigins does
  not: there a second pair begins inside the first, as its finding shows.
* **MotorBench**: MotorPath with the bench source and commands, a failing sensor,
  a failing bus and the supervisor. **MotorResume** adds one history: a fault
  since the last arming.
* **ClosedLoop**: SupervisorTask and MotorPath together, with cl-ready, cl-burst
  and Refloat. The procedure's way out (revoke, release, disarm, stand) is four
  steps, taken after a burst and after an abort alike. **TwoOrigins** lets the
  operator use the bench source as well: `TwoSpec` by the one behaviour its finding needs,
  `BothSpec` with all of ClosedLoop and every command of the source.
* **Storage**: the mirror, the flush task step by step, the flash policy, the
  writers (Refloat, calibration), the operator's way to a burst, NVS errors,
  restarts at any moment. `missed` is a history: the words stored since the blob
  was taken.
* **ImuPipeline**: what a reading becomes: failed, duplicate, sample; the series
  of `fc_imu_health.c`; the permit of `fc_imu_policy.c`. Readings are a kind and
  whether they differ from the last. `line.old` is a history: the age of the words
  behind the line the loop works with.
* **ImuPath** extends it with the chip (asleep, wrong or right scales), the
  driver's initialisation and its failures, the loop's start, stop and recovery,
  the stress test and the commands. `careless` marks commands the code lets
  through although a reader is at work.
* **SensorChain** puts ImuPipeline in front of SupervisorTask. There the policy's verdict is
  any that the age of the last sample allows; here `Verdict` is what `fc_imu_policy.c`
  computes of the series the readings left, the loop's and the stress test's. The line of
  ImuPipeline is not a variable of its own: INSTANCE substitutes `lineAge`, so both modules
  speak of one age. `served` and `ill` are histories: for how long a machine in service has
  lived on the same words, and for how long the policy has not said OK. The chip and the
  driver are any; what they do is ImuPath's matter.
* **CanDiag**: one request at a time, in the steps of `fc_can_bus_diag_request`:
  drain, await, send, wait, copy; the receive task may take a frame between any
  two. The wire of each ESC is a queue that loses and delays. A CRC fits the bytes
  it was made of. The bus goes off, recovers, is stopped and started.
* **LimitsSync** extends it with the synchronisation: attempts, pauses, both
  halves, the comparison, and what Refloat is told.
* **VescPacket**: what a frame is, and what the decoder makes of a buffer, as
  operators over sequences of small bytes. `Requests[bytes]` is the reference
  definition: the frames in a whole stream, a recursive function of it. **VescHost** is the network thread,
  the simulation thread, the mutex, the client and Ctrl-C.
* **Calibration, NodeHealth, CommandStream, OneShot, BurstJournal, RefloatConfig,
  RefloatThreads, LogRing, GapTrace, CpuAccount, ShadowRun**: small state machines
  of a few variables each, written to be proved about. Where the code has no lock,
  a read and its use are two steps; a history variable (`torn`, `crossed`,
  `spoilt`, `mixed`, `leaked`) marks the one interleaving under which the promise
  is not kept, so that the theorem says exactly when it is.
* **...Proofs**: theorems, section 5.
* **MC***: one module per checked specification, but `motor_resume` and `two_origins` check
  theirs as they are; the values of the constants are in the `.cfg`.

Definitions marked `Mutant:` are faulty variants of the definition after them;
each property of each passing run is shown to fail when one of them stands in.

Abstractions that hold throughout: a current, a word or a node is a member of a
small set; a check of a number against a limit that no property tells apart is a
free choice to refuse; statistics, texts and logs are left out; a call is atomic
unless the module says otherwise.

## 3. The runs and their bounds

| run | module | checks | shows |
|---|---|---|---|
| `supervisor` | Supervisor | TypeOK, FaultIffCause, FaultSticks, BurstNeverExtended, BurstEnds, SilenceFound, KeepsPromise (477,232 states) | Every public call of the supervisor in every order: FAULT sticks, no burst is extended, every burst ends, and the machine implements BurstPermit. |
| `supervisor_task` | SupervisorTask | TaskTypeOK, SilenceBounded, OverrunBounded, PressBounded, ServiceAfterBoot, ConditionsAtRest (3,471,841 states) | The supervisor driven by app_main, its periodic task, the control loop, Refloat's footpad and the console: how late each hazard is found. |
| `supervisor_race` | SupervisorRace | FaultSticks (stops at the violation) | A console request whose check passed before the supervisor's task declared FAULT, and which writes its state after it, takes the machine out of FAULT. |
| `motor_bench` | MotorBench | BarrierFreesWheels, SplitIsLatched, SplitOwesTwoActs, KeepsPairs (1,281,327 states) | The bench: whichever barrier falls while requests are on their way, both wheels come free in time, and a pair of which one half failed latches the coordinator until two acts of the operator, and the path implements WheelPair. |
| `motor_resume` | MotorResume | FaultNeedsNewArming (stops at the violation) | The supervisor falls into FAULT while the bench source runs, the operator clears the fault, and the source drives the wheels again on the old arming. |
| `closed_loop` | ClosedLoop | ClosedTypeOK, QuietAfterRunning, QuietAfterDeadline, DeadlinesAgree, BenchPressNotRider (3,446,190 states) | cl-ready and cl-burst against Refloat, the supervisor's task, the control loop and the ESCs: however a burst ends, Refloat's current leaves both wheels in time, and its two deadlines are one instant. |
| `two_origins` | TwoOrigins | HalvesAgree (stops at the violation) | motor-run between cl-ready and cl-burst: the bench source and Refloat drive at once, their pairs interleave, and the halves end up with currents of two sources without a latch. |
| `storage` | Storage | StorageTypeOK, NoFlashUnderTorque, NothingForgotten, QuietChangeSaved (1,403,728 states) | The storage task against Refloat, the calibration commands, the supervisor, NVS errors and restarts: no flash operation under an armed closed loop, no change forgotten but those made inside a commit, and every change left alone is saved. |
| `storage_loss` | Storage | CleanMeansSaved (stops at the violation) | A word stored between nvs_set_blob and the clearing of the dirty flag: the flag is cleared over it, and the word never reaches flash. |
| `limits_sync` | LimitsSync | LimitsTypeOK, AnswerNotLost, AnswerIsOne, LimitsTogether, CleanSyncApplies, SyncEnds (1,765,224 states) | Diagnostic requests over a bus that loses and delays frames, goes off and is stopped and started, and the synchronisation of the limits built on them: an answer is neither lost nor mixed, limits are applied for both halves or none, every synchronisation ends. |
| `imu` | ImuPath | ImuTypeOK, FrozenBounded, OneReader, MisscaledBlocked, StuckForGood (8,499,681 states) | The sensor from the chip to the permit: failing, freezing, unpowered and half-configured sensors, recovery, and the stress test that takes the loop's place. |
| `protocol` | VescHost | DecoderAgrees, AnswersMatch, ThreadsGoOn (477,756 states) | VESC Tool over TCP: requests among damaged frames and false starts, two sessions, a client that leaves at any moment, Ctrl-C at any step. |

`StuckForGood` and `FrozenBounded` belong together. The first says what the
code does and a reader would not expect: once a sample was found STUCK, the numbers
of later samples stay behind and none is accepted until the loop is started again,
so a freeze of a few milliseconds costs the sensor. The second says that the price
buys something: whatever mixture of failed reads and repeated words, data older
than `StuckLimit * Latch` ticks never stand behind a thrust.

Bounds, and why they are enough:

* `supervisor`: time-outs of 1 tick, bursts of up to 2, ages up to 2. The code
  compares an age with its time-out by `>` and a deadline with now by `>=`, so
  one value on either side of each bound is reached; a burst of 2 lets a time-out
  strike inside it. `begin_burst` is also offered 0 and `BurstMax + 1`. One raised
  cause, INTERNAL, is enough: it is sticky, and the other causes come from reports.
* `supervisor_task`: the task's period is 2, the loop's time-out 4, the IMU's 3,
  so a time-out may run out at each phase of the period. The firmware's values are
  10 ms, 50 ms and 40 ms (20 ms for `Fresh`): the properties are stated with the constants,
  never with the numbers.
* `motor_bench`, `motor_resume`: two currents, so that halves can differ; flights
  of one tick, ESC time-outs of 1 to 2 ticks, runs of up to 2. A pair may be cut
  off by each barrier at each of its stages.
* `closed_loop`: bursts of 1 and 2 ticks and a period of 2, so that the gate's
  deadline falls before, at and after a poll; either half's transmission may
  fail. The bench source is unused (`RunMax = 0`): `motor_bench` covers it alone,
  `two_origins` covers it together with a burst. The histories of SupervisorTask
  are switched off (`HistoryCap = 0`), none of the properties reads them. Refloat
  asks for one current: the properties ask whose current drives, not which.
* `storage`: one word of each writer, two values, one NVS error, a wait of one
  tick. Two words are enough for one to be stored while the other is written;
  restarts are unlimited.
* `limits_sync`: replies of two fragments, so that one can be lost, and one of an
  older request fall between; a time-out of one tick and a backlog of one reply per
  ESC, so that a late reply meets the next request; two attempts with a pause no
  shorter than the limiter's interval, as in the code (250 and 200 ms; the code's
  five attempts only repeat). One half answers at times with other poles, so that the halves may
  be unlike.
* `imu`: a tick is one period of the supervisor. Ages of 1 and 2 ticks for the code's
  2 and 4; series of 2, 2, 3 and 4 readings for the code's 5, 10, 20 and 200:
  STUCK no later than HOLD, HOLD before LOST, LOST before the re-initialisation.
  Any number of readings may fall into a tick. Recovery, power loss and the stress
  test may repeat without limit.
* `protocol`: bytes to the base 6, payloads of up to 5 bytes, so that the short and
  the long form, the largest frame and a full buffer occur; three pieces of stream,
  cut anywhere by `recv`; two sessions, so that half a frame outlives its client.

Deadlock is checked but in `supervisor_task` and `supervisor_race`, where a boot
without storage or without Refloat halts, and in `protocol`, where the program ends
after Ctrl-C; the code does so too.

## 4. Fairness

* `SupFairness`: weak fairness of `Tick` and `Poll`: time passes, and the
  highest-priority task of core 1 is scheduled. Nothing is assumed of the loop,
  the console or the inputs. It is what `BurstEnds`, `SilenceFound` and the
  liveness half of `KeepsPromise` need.
* `StorageFairness`: weak fairness of the flush task's next step and of time.
  The console above it on core 0 waits for input, so the task is not starved; NVS
  errors are finitely many (`MaxErrors`), which stands for a medium that works
  again in the end. Nothing is assumed of writers and supervisor: `QuietChangeSaved`
  says only what follows if writing stays allowed.
* `SyncFairness`: weak fairness of the synchronisation's own step, of a request's,
  and of time, together: the task runs and the clock ticks. Nothing is assumed of
  the bus or the ESCs: `SyncEnds` holds on a silent one.
* `HostFairness`: strong fairness of each thread's step. Each thread gets the mutex
  in the end because the other gives it up while it sleeps or waits for the
  network; `pthread` mutexes are not fair, but a thread that sleeps most of the time
  loses such a race only finitely often. Nothing is assumed of the client.
* The other specifications have safety properties only, and no fairness. In them
  time cannot pass a due iteration of the task, a request older than `Flight`, or an
  ESC older than `EscMax`: these are the real-time assumptions, stated as
  guards of the time step.

## 5. What is proved

TLAPS proves the following for every value of the constants that satisfies the
named assumptions (`TimesAssumption`, `TaskAssumption`, `PathAssumption`, `BurstAssumption`,
`StoreAssumption`, `PipelineAssumption`, `PacketAssumption`, `HostAssumption`).

* **SupervisorProofs**. The inductive invariant `SupInv` is `TypeOK`,
  `FaultIffCause` and `RunningHasDeadline` (a running machine has a deadline in
  `0 .. BurstMax`). FaultIffCause alone is not inductive without the types, and
  the deadline is what `BurstNeverExtended` and the refinement need. From it:
  `TypeCorrect`, `FaultIffCauseHolds`, `FaultSticksHolds`, `BurstNeverExtendedHolds`,
  and `KeepsPromiseSafelyHolds`: the initial state maps to one of BurstPermit and
  each step to a step or a stutter of it. At the end, what the steps of MotorPath
  preserve (`PathType`, `TickCalls`, `RequestType`, ...), for the two modules built on it,
  and how each of these steps maps to one of WheelPair (`RequestPair`, `ReleasePair`,
  `StillPair`, `TickPair`) while `Single` holds: one source is in use, and a granted
  pair has no latch before it. Without `Single` the mapping fails, in the code as well.
* **LoopProofs**, for every period of the task, every settling and tail, every flight
  and every time-out of the ESCs: all invariants of the runs `supervisor_task` and
  `closed_loop`. None of them is inductive, because an iteration of the task is seven
  steps and the console may act between any two. `AgesInv` and `PressInv` therefore
  say at each step how old the knowledge behind an input can be (`Slack`,
  `PressSlack`); `BurstInv` adds run time and remaining time up to the grant. They give
  `SilenceBounded`, `PressBounded`, `OverrunBounded`. `SilenceBounded` has three bounds,
  each reached: the time-outs of the loop and of the samples, and the policy's `Fresh` for the
  last sample of the loop, each plus a period. Without a restart and the stress test the
  three ages are one and the third bound is the sharpest; a restart of the sensor makes
  the policy forget, and only the time-outs are left. `AgesInv` therefore relates the three
  ages, and measures two of them from the poll and one from the policy's verdict.
  For a burst, `OpenInv` places the open gate and RUNNING in the procedure, and
  `DeadlineInv` counts both deadlines from `start`. `LateInv` is the core: a request
  passes the gate only while RUNNING and before the deadline of the time it noted, so
  the deadline can be past by no more than the request's age; a wheel it reaches has
  been quiet for at least as long, less one flight; so after `Flight + EscMax` no wheel is
  Refloat's. It does not use that the supervisor polls at all. `SettleInv` follows one
  iteration through the settling, to show that `in.simulated` and `in.footpad` are of
  one iteration when the console presses, which gives `BenchPressNotRider`.
  `BurstKeepsPairs` adds that a burst implements WheelPair. `TwoOriginsStayBound` says what is
  left of all this when the bench source is used beside a burst (`BothSpec`): the pairs
  mix, so neither WheelPair nor `HalvesAgree` holds, but `ClInv` survives every step of
  the source (`BenchKeeps`), and with it the time within which Refloat's current is gone.
  *The sensor's chain*: `ReadInv` says what the series know of the words the loop read last,
  which is what `ChainImplementsTask` needs: every verdict of the policy is one that
  SupervisorTask allows, so a step of SensorChain is one of SupervisorTask or none, and
  `TaskInv` is at hand for the rest. `IllInv` counts from the verdict as `AgesInv` counts
  from the age, and gives `IllBoundedHolds`, for all reasons of the policy at once: a
  machine that may be engaged is at most one period behind it. `ServedInv` says that n
  acceptances of the same words prolong them by n times `Fresh + PollPeriod`, because only
  a line no older than that is in service; it gives `FrozenOutHolds`. TLC explored 12
  million states of a small instance, not all there are, without an error; both bounds are
  reached, and both break with a fault seeded into the series.
* **MotorProofs**. Four layers. `BenchType` types the path. `LatchInv` relates
  what the operator owes to the coordinator: a pair that was not whole is latched;
  who owes the clearing is latched; who owes the arming is not armed: it gives
  `SplitOwesTwoActs`. `BarrierInv` bounds how long a barrier can have stood by what
  is still on its way: a granted request is at least as old as the barrier, and a
  driven half has been quiet for at least the barrier's age less one flight; with
  both bounds on ages it gives `BarrierFreesWheels`. `SplitInv` follows a pair
  through its two frames: between them half A obeys the new one, and halves of unlike
  currents that are not latched have heard nothing since the latch was cleared; it
  gives `SplitIsLatched`. `KeepsPairsHolds` is the refinement of WheelPair. The lemma `GrantIsPlanned`
  says that a pair is granted by `Plan` alone, which asks every barrier.
  At the end, the journal of a burst, for every length of its two parts:
  `BurstIsTheWindow`, `RingIsOutside`.
* **ServicesProofs**. *The store*: `TorqueInv`: from the decision to write until the report,
  the request is pending, the console is not past the checks of cl-ready, and the
  machine is neither ARMED nor RUNNING; past the checks the coordinator is armed,
  so no decision to write can be taken. It is needed because `NoFlashUnderTorque`
  itself looks at the write only, while the race is between the decision and the
  checks. `BooksInv` carries the words: between taking the blob and the end of
  the commit the mirror differs from the blob only in the words of `missed`.
  `StorageTypeCorrect` types the store with the supervisor beside it.
  *Log, trace, accounts and observer*, for every size of the rings and every number of tasks:
  `LogInOrder`, `DroppedNeverOverstated`; `GapCapturesStayInside`, `GapTraceIsTrue`;
  `NothingCountedTwice`, `AccountIsOwn`; `RequestsCountedOnce`, `HistoryIsTrue`.
* **BoardProofs**. *Calibration*, for every length of a run and a record:
  `CalibrationWasMeasured` counts samples against a streak (`RunInv`);
  `CalibrationIsWhole` rests on the order of words, `WholeInv`: the checksum is
  stored last, copied with the rest, and a record is whole when its last word is
  its own. *NodeHealth*, for every set of nodes and tasks: `FreshIsTrueWithinTurn`
  and `NodesDropForReason`. *CommandStream*, for every policy that passes the
  code's own check and is small enough for 32-bit sums not to wrap
  (`SmallPolicy`): `LossIsFoundFirst`, `HoldBounded`, `MissesAreTolerated`.
  *OneShot*, for every envelope and window: `OnePairPerPreparation`,
  `PairsRightTheBoard`.
* **CoreOneProofs**. *The motion sensor*, for every policy, every limit of duplicates and
  every length of the residual: all five properties of the run `imu`. `ReaderInv` says who may be inside
  the driver; above all that a start of the loop forgets the outcome of the last one,
  by which the stress test is allowed. `HealthInv` makes a sample found stuck the last
  of a series. `ScalesInv` keeps the residual at nought while the scales are wrong and
  nobody was told. `FrozenInv` bounds the age of the data by the acceptances that
  prolonged them: the words of a series of n are no older than n times `Latch` and the
  age of the line, and an acceptance that does not count has new words.
  *Refloat's configuration*, for every set of coefficients, every multiplier
  and every rounding of the serialiser: `BenchAlwaysComesBack`, `BenchOnlyInMemory` and
  `IntegralIsFresh`. The second leans on the first and on the console having one
  call at a time. *Refloat's threads*, for every number of them and every period:
  `SlotsAreHeld`, `ThreadsNeverAhead`, `PeriodIsFound`, `ClockNeverCatchesUp`.
* **LimitsProofs**, for any two ESCs, every set of contents, number of parts, time-out
  and number of tries: the five safety properties of the run `limits_sync`. `WaitInv`
  says who may touch the answer when, so that it is one and is not lost. `HalvesInv`,
  `ForceInv` and `CommonInv` follow the limits from the two halves to what Refloat
  sees; the interesting state is the one between the two halves. `CleanSyncApplies`
  needs `Paced`: a second try exists, and the pause before it outlasts the limiter.
* **ProtocolProofs**, for every base of bytes, every longest payload that a header of
  two bytes can state, every set of configurations and whatever pieces the clients send.
  The promise is stated by recursive functions: the requests of a stream, the
  configuration after them, the answers to them. Their equations are not assumed:
  `RecursionExists` shows that a function whose value asks only for values at smaller
  arguments exists, and `SizeInduction` reaches every argument. `FramesAreRead`: a frame
  the encoder made is found whole, whatever follows it, and the rest is read as if it
  stood alone. `DecoderAgrees` speaks of the moments between two bytes and is not
  inductive; `DecoderInv` says at every step that, whatever comes, the format makes
  the same of the whole stream as of the unread bytes behind the requests handled. It
  rests on `VerdictStays` (a verdict is not changed by later bytes), `OneLess` (the decoder is
  not asked before the bytes it counts have come) and `DecodeType` (what it waits for
  fits the buffer), which also gives `NeverFullHolds`: the branch of the code for a full
  buffer is never taken. `AnswersInv` adds what the handler still owes for the request in hand,
  and gives `AnswersMatchHolds`.
The proofs assume what the modules assume: atomic calls of the supervisor (the
run `supervisor_race` shows what happens without), and frames that reach the half
they were accepted for. The small state machines have no named assumption of a
checked run; each of their theorems carries its own hypotheses (`Sized`, `Timed`,
`Measures`, ...), which say that sizes are natural numbers and windows in order, and so
do those about SensorChain (`ChainSized`). Their small instances were explored with TLC before they were proved, seeded faults
included; no run is kept for them, because the theorems say more.

Left to TLC alone: all liveness (`BurstEnds`, `SilenceFound`, `QuietChangeSaved`,
`SyncEnds`, `ThreadsGoOn`, the fairness of `KeepsPromise`), because the provers do
not reason about fairness and ENABLED. Every invariant and action property
that a passing run checks is proved. No module declares a RECURSIVE operator:
recursion is by recursive functions of one argument.

## 6. Findings

Four runs each check a statement the repository makes of itself and find a
behaviour of the code that contradicts it; the details, with quotations, are in
`PROJECT.json`.

* `supervisor_race`: FAULT may be overwritten by a console request whose check
  passed before the fault.
* `motor_resume`: the arming survives a fault; the source resumes when it is
  cleared.
* `two_origins`: cl-ready, motor-run, cl-burst: two sources drive at once and the
  halves diverge without a latch.
* `storage_loss`: a word stored during a commit is marked as saved.

Met while modelling, each at its line, and left without a run of its own:

* `fc_console.c:1658` says that what may have changed while the operator waited is
  checked again. Checked are the arming, Refloat's current and the two signs; not how
  far the board is tilted, RUNNING, FAULT, the permit of the IMU, the calibration or
  the limits. `PairsRightTheBoard` states what remains.
* `fc_motor_experiment.c:583`: motor-reset clears `st.running` while the source
  drives; cl-ready and motor-oneshot-prep then take the source for stopped.
* `fc_supervisor.c:331`: a sample that the stress test reports during an iteration has a
  stamp later than the `now` of that iteration's poll; the difference wraps round and the
  poll raises IMU_UNHEALTHY for a sample that is fresh. Line 325 guards the worst age against this,
  line 331 does not. It can only stop the board, never let it run (`CallPollBehind`).
* `fc_shadow.c:27`: a reset of the observer puts the ESC's limit back to 5 A, over
  the real one that `fc_limits_sync.c` has set and line 25 has just kept; it counts against the default until the
  next synchronisation (`SetsDefaults`, `SyncsLimit` in ShadowRun).
* `fc_can_bus.c:484`: the node that answered is noted and not compared with the one
  asked. A reply of one half that comes after its request timed out (a console command,
  say) is returned to the next request, and `fc_limits_sync` keeps it as the limits of
  the other half. LimitsSync has these behaviours; `AnswerIsOne` says that an answer is
  one reply, not whose.
* `fc_log_port.c:92` and `fc_gap_trace.c`: the count of dropped lines may be too
  low, and a reset across a capture spoils the trace, as the history variables say.

## 7. What is not modelled, and why

* Silent loss of an accepted CAN frame: the firmware cannot see it; the ESC's
  time-out covers it, and a lost frame only ages a half faster.
* The snapshot of an IMU fault, the counters and histograms, the log of a burst,
  the texts of the console, the LED: nothing decides on them.
* Torn configurations: that Refloat's 80 words belong together is knowledge of
  Refloat, whose source is a submodule absent here.
* Wrap-around of time stamps: ages replace stamps. The one place where a stamp of
  another core may be later than the poll's own time is kept (`ahead`).
* Floating-point arithmetic (filter, rotation of the calibration, motor and battery
  models, windows of the closed loop, scaling of CAN values): out of TLC's reach; its
  verdicts are free choices.
* Registers and timing of the I2C bus, the ESP-IDF drivers, NVS, sockets: external,
  modelled by their outcomes.
* A second start of the recovery from bus-off (`fc_can_bus.c:254`): ESP-IDF refuses
  it, and only a counter differs.
* What two readers of the motion sensor do to the bus: the code lets two commands
  through at the operator's risk (`careless`); `OneReader` is stated for the rest.
* Samples that are not finite or go back in time (`fc_imu_health.c:123`): the
  driver divides integers and takes the time itself.
* Printing: most of `fc_console.c`, `fc_safety_report.c`, the LED, histograms. The
  mock sensor, scripts, tests, data and generated files. Refloat, whose submodule is
  empty here.

## 8. Plan

Done, in the order of importance: Supervisor with BurstPermit, SupervisorTask and
SupervisorRace; MotorPath, MotorBench, MotorResume; ClosedLoop, TwoOrigins; Storage;
CanDiag and LimitsSync; ImuPipeline, ImuPath and SensorChain; VescPacket and VescHost; the small
state machines with their proofs.

Next:

1. VescPacket: that a stream put together of frames is read as these frames, whatever
   the buffer cuts it into (`Requests` of a concatenation); one frame at a time is proved.
2. SensorChain with ImuPath in the place of its free driver and its one reader.
