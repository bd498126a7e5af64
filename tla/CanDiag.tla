------------------------------- MODULE CanDiag -------------------------------
(***************************************************************************)
(* Diagnostic requests over CAN (fc_can_bus.c, fc_can_diag.c): one request *)
(* at a time, asked by the console or by a task it waits for, and answered *)
(* by an ESC in one frame or in several that the receive task puts         *)
(* together.                                                               *)
(*                                                                         *)
(* The receive task stands above the asker: it takes a frame whole, and it *)
(* may do so between any two steps of a request.  Frames of one ESC come   *)
(* in order, at any time after the request, or never.                      *)
(*                                                                         *)
(* Reduced: every long reply has Parts fragments; a CRC fits the bytes it  *)
(* was made of and no others; frames the ESCs send each other, the table   *)
(* of identifiers, the ring of frames, the health of the nodes and the     *)
(* counters are left out.                                                  *)
(***************************************************************************)
EXTENDS Naturals, Sequences, FiniteSetsExt

CONSTANTS
    Nodes,       \* the two ESCs, 118 and 100
    Contents,    \* what long replies may say: well-formed or not
    Answers,     \* which of them each ESC may send
    Nothing,     \* what a PONG says; also the answer that does not decode
    Blank,       \* bytes nobody wrote
    Parts,       \* fragments of a long reply
    Timeout,     \* the time-out of a request, in ticks
    Backlog,     \* frames of older replies still on their way when a reply follows
    MinInterval  \* FC_CAN_DIAG_MIN_INTERVAL_US, in ticks, rounded up

ASSUME CanAssumption ==
    /\ \E a, b \in Nodes : a # b /\ Nodes = {a, b}
    /\ Answers \in [Nodes -> SUBSET Contents]
    /\ Nothing \notin Contents /\ Blank \notin Contents \cup {Nothing}
    /\ {Parts, Timeout, MinInterval} \subseteq Nat \ {0} /\ Backlog \in Nat

VARIABLES
    driver,    \* the TWAI driver
    installed, \* C.installed
    task,      \* the receive task: running, told to stop (C.run is down), gone
    asker,     \* where the request is, to whom it went, what is left of its time-out
    rx,        \* C.rx: the assembler and the last complete reply
    awaiting,  \* C.awaiting
    done,      \* the semaphore
    since,     \* time since the last request let through, up to MinInterval
    wire,      \* frames on their way, by sender
    result     \* what the last request returned

busVars   == <<driver, installed, task>>
askVars   == <<asker, since, result>>
replyVars == <<rx, awaiting, done>>
canVars   == <<busVars, askVars, replyVars, wire>>

Requests == {"ping", "mcconf"}

\* PONG and short replies are one frame; a long reply is its fragments and a
\* frame with their length and CRC.
FramesOf(req, says) ==
    IF req = "ping"
    THEN <<[type |-> "single", says |-> says, part |-> 1]>>
    ELSE [i \in 1 .. Parts + 1 |->
            IF i > Parts THEN [type |-> "process", says |-> says, part |-> 1]
                         ELSE [type |-> "fill", says |-> says, part |-> i]]

Frames == [type : {"single", "fill", "process"}, says : Contents \cup {Nothing}, part : 1 .. Parts]

Steps == {"idle", "drain", "await", "send", "wait", "copy"}

Nobody   == [step |-> "idle", req |-> "ping", to |-> CHOOSE n \in Nodes : TRUE, left |-> 0,
             fresh |-> FALSE]
NoResult == [ok |-> FALSE, body |-> <<>>]

\* fc_can_diag_rx_init.
EmptyRx == [buf |-> [i \in 1 .. Parts |-> Blank], filled |-> 0, body |-> <<>>]

\* How a request ends: with this result, which is fresh until it is read.  What
\* the assembler held is of no use from here on: the next request empties it.
Returns(r) ==
    /\ asker' = [Nobody EXCEPT !.fresh = TRUE]
    /\ rx' = EmptyRx
    /\ result' = r

CanInit ==
    /\ driver = "running" /\ installed = TRUE /\ task = "running"
    /\ asker = Nobody /\ rx = EmptyRx /\ awaiting = FALSE /\ done = FALSE
    /\ since = MinInterval
    /\ wire = [n \in Nodes |-> <<>>]
    /\ result = NoResult

-----------------------------------------------------------------------------
(* The assembler, fc_can_diag_rx_frame: what it holds after a frame, and   *)
(* whether the reply is complete.                                          *)

Keep(r)     == [rx |-> r, complete |-> FALSE]
Complete(r) == [rx |-> r, complete |-> TRUE]

TakeSingle(f) == Complete([rx EXCEPT !.body = <<f.says>>])

\* Mutant: the fragments are counted.
TakeFillCounted(f) == Keep([rx EXCEPT !.buf[f.part] = f.says, !.filled = @ + 1])

\* fill: the highest end is counted, gaps are not.
TakeFill(f) ==
    Keep([rx EXCEPT !.buf[f.part] = f.says,
                    !.filled = IF f.part > @ THEN f.part ELSE @])

\* Mutant: the length alone is checked.
CrcFitsUnchecked(f) == TRUE

\* The CRC of the frame fits the buffer.
CrcFits(f) == \A i \in 1 .. Parts : rx.buf[i] = f.says

TakeProcess(f) ==
    IF rx.filled < Parts \/ ~CrcFits(f)
    THEN Keep([rx EXCEPT !.filled = 0])
    ELSE Complete([rx EXCEPT !.filled = 0, !.body = rx.buf])

TakeFrame(f) == CASE f.type = "single"  -> TakeSingle(f)
                  [] f.type = "fill"    -> TakeFill(f)
                  [] f.type = "process" -> TakeProcess(f)

\* account: a frame for us reaches the assembler only while a reply is awaited.
Account(f) ==
    IF awaiting
    THEN /\ rx' = TakeFrame(f).rx
         /\ awaiting' = ~TakeFrame(f).complete
         /\ done' = (done \/ TakeFrame(f).complete)
    ELSE UNCHANGED replyVars

Receive(n) ==
    /\ task # "gone" /\ driver = "running" /\ wire[n] # <<>>
    /\ Account(Head(wire[n]))
    /\ wire' = [wire EXCEPT ![n] = Tail(@)]
    /\ UNCHANGED <<busVars, askVars>>

\* A frame is lost on the bus or in a full receive queue.
Lose(n) ==
    /\ wire[n] # <<>>
    /\ wire' = [wire EXCEPT ![n] = Tail(@)]
    /\ UNCHANGED <<busVars, askVars, replyVars>>

-----------------------------------------------------------------------------
(* A request, fc_can_bus_diag_request, step by step.                       *)

\* Mutant: a reply is awaited before the semaphore is emptied.
AfterAwaitingFirst(step) == CASE step = "idle"  -> "await"
                              [] step = "await" -> "drain"
                              [] step = "drain" -> "send"

\* The order of its first steps.
After(step) == CASE step = "idle"  -> "drain"
                 [] step = "drain" -> "await"
                 [] step = "await" -> "send"

\* fc_can_diag_rate_allow.
RateAllows == since >= MinInterval

\* Refused at once: no bus, or the last request was too short a time ago.
Refused ==
    /\ asker.step = "idle" /\ (~installed \/ ~RateAllows)
    /\ Returns(NoResult)
    /\ UNCHANGED <<busVars, awaiting, done, since, wire>>

\* fc_can_diag_build: a request of the table, to one node that is not this one.
Built(req, n) == req \in Requests /\ n \in Nodes

\* Let through: the frame is built and the assembler emptied.
Prepare(req, n) ==
    /\ asker.step = "idle" /\ installed /\ RateAllows /\ Built(req, n)
    /\ asker' = [step |-> After("idle"), req |-> req, to |-> n, left |-> 0, fresh |-> FALSE]
    /\ since' = 0 /\ rx' = EmptyRx /\ result' = NoResult
    /\ UNCHANGED <<busVars, awaiting, done, wire>>

Drain ==
    /\ asker.step = "drain"
    /\ done' = FALSE
    /\ asker' = [asker EXCEPT !.step = After("drain")]
    /\ UNCHANGED <<busVars, rx, awaiting, since, wire, result>>

Await ==
    /\ asker.step = "await"
    /\ awaiting' = TRUE
    /\ asker' = [asker EXCEPT !.step = After("await")]
    /\ UNCHANGED <<busVars, rx, done, since, wire, result>>

Underway == MapThenSumSet(LAMBDA n : Len(wire[n]), Nodes)

\* The ESC's answer: nothing, or a reply on its way.
Answered(n, req) ==
    \/ UNCHANGED wire
    \/ /\ Underway <= Backlog
       /\ \E says \in IF req = "ping" THEN {Nothing} ELSE Answers[n] :
            wire' = [wire EXCEPT ![n] = @ \o FramesOf(req, says)]

\* transmit_whitelisted: the driver takes the frame or refuses it.
Send ==
    /\ asker.step = "send"
    /\ \/ /\ driver = "running"
          /\ asker' = [asker EXCEPT !.step = "wait", !.left = Timeout]
          /\ Answered(asker.to, asker.req)
          /\ UNCHANGED <<awaiting, rx, result>>
       \/ /\ awaiting' = FALSE /\ Returns(NoResult)
          /\ UNCHANGED wire
    /\ UNCHANGED <<busVars, done, since>>

Wake ==
    /\ asker.step = "wait" /\ done
    /\ done' = FALSE
    /\ asker' = [asker EXCEPT !.step = "copy"]
    /\ UNCHANGED <<busVars, rx, awaiting, since, wire, result>>

TimeOut ==
    /\ asker.step = "wait" /\ ~done /\ asker.left = 0
    /\ awaiting' = FALSE
    /\ Returns(NoResult)
    /\ UNCHANGED <<busVars, done, since, wire>>

Copy ==
    /\ asker.step = "copy"
    /\ Returns([ok |-> TRUE, body |-> rx.body])
    /\ UNCHANGED <<busVars, awaiting, done, since, wire>>

RequestStep == Drain \/ Await \/ Send \/ Wake \/ TimeOut \/ Copy

-----------------------------------------------------------------------------
(* The bus and its driver.                                                 *)

\* The controller leaves the bus; what was on its way is lost.
BusOff ==
    /\ driver = "running"
    /\ driver' = "busoff"
    /\ wire' = [n \in Nodes |-> <<>>]
    /\ UNCHANGED <<installed, task, askVars, replyVars>>

\* refresh_status: a bus found off is told to recover; it is off again only after
\* it was found running, so once a time is what prev_state makes of it.
Refresh == driver' = IF driver = "busoff" THEN "recovering" ELSE driver

\* The receive task looks at the state now and then, and once more when it ends.
TaskRefreshes ==
    /\ task # "gone" /\ driver = "busoff"
    /\ Refresh
    /\ UNCHANGED <<installed, task, askVars, replyVars, wire>>

TaskEnds ==
    /\ task = "stopping"
    /\ Refresh /\ task' = "gone"
    /\ UNCHANGED <<installed, askVars, replyVars, wire>>

\* The driver recovers, and is then stopped: it would have to be started again.
Recovered ==
    /\ driver = "recovering"
    /\ driver' = "stopped"
    /\ UNCHANGED <<installed, task, askVars, replyVars, wire>>

\* can-stop, fc_can_bus_stop: the task is told to end, and waited for.
StopBegins ==
    /\ installed /\ task = "running" /\ asker = Nobody
    /\ task' = "stopping"
    /\ UNCHANGED <<driver, installed, askVars, replyVars, wire>>

\* The driver is removed, unless it is recovering.
StopEnds ==
    /\ installed /\ task = "gone" /\ asker = Nobody
    /\ installed' = FALSE
    /\ driver' = IF driver = "recovering" THEN driver ELSE "none"
    /\ wire' = [n \in Nodes |-> <<>>]
    /\ UNCHANGED <<task, askVars, replyVars>>

\* can-start, fc_can_bus_start: C is cleared but for the semaphore, then the driver installed.
Start ==
    /\ ~installed /\ asker = Nobody
    /\ rx' = EmptyRx /\ awaiting' = FALSE /\ since' = MinInterval
    /\ IF driver = "none"
       THEN driver' = "running" /\ installed' = TRUE /\ task' = "running"
       ELSE UNCHANGED busVars
    /\ UNCHANGED <<asker, result, done, wire>>

BusStep == BusOff \/ TaskRefreshes \/ TaskEnds \/ Recovered \/ StopBegins \/ StopEnds \/ Start

FrameStep == \E n \in Nodes : Receive(n) \/ Lose(n)

\* Time passes while somebody counts it, and not past the time-out of a request.
Tick ==
    /\ ~(asker.step = "wait" /\ asker.left = 0)
    /\ asker' = [asker EXCEPT !.left = IF @ > 0 THEN @ - 1 ELSE 0]
    /\ since' = IF since < MinInterval THEN since + 1 ELSE since
    /\ UNCHANGED <<busVars, replyVars, wire, result>>

CanTypeOK ==
    /\ driver \in {"none", "running", "busoff", "recovering", "stopped"}
    /\ installed \in BOOLEAN /\ task \in {"running", "stopping", "gone"}
    /\ asker \in [step : Steps, req : Requests, to : Nodes, left : 0 .. Timeout,
                   fresh : BOOLEAN]
    /\ rx \in [buf : [1 .. Parts -> Contents \cup {Nothing, Blank}], filled : 0 .. Parts,
                body : Seq(Contents \cup {Nothing})]
    /\ awaiting \in BOOLEAN /\ done \in BOOLEAN
    /\ since \in 0 .. MinInterval
    /\ wire \in [Nodes -> Seq(Frames)]
    /\ result \in [ok : BOOLEAN, body : Seq(Contents \cup {Nothing})]

\* The receive task and the asker share one flag and one semaphore.  Whoever
\* waits either still has the assembler's ear or finds the semaphore given: a
\* reply that came is never lost between the two, whenever it comes.
AnswerNotLost == asker.step = "wait" /\ ~awaiting => done

\* What a request returns is one reply, all of it and nothing else, although
\* fragments are lost and those of older requests may come in at any step.
AnswerIsOne ==
    result.ok =>
        \E says \in Contents \cup {Nothing} :
            result.body \in {<<says>>, [i \in 1 .. Parts |-> says]}

=============================================================================
