------------------------------ MODULE VescHost ------------------------------
(***************************************************************************)
(* The host build (platform/host/floatcore_host.c, tcp_transport.c) with   *)
(* the command server behind it (vesc_protocol/commands.c, packet.c): VESC *)
(* Tool talks to Refloat over TCP, one client at a time, while a second    *)
(* thread runs the simulation.  One mutex, refloat_lock, keeps the two     *)
(* apart inside Refloat.                                                   *)
(*                                                                         *)
(* The network thread goes from accept to recv, feeds what it received     *)
(* byte by byte to the decoder, and handles each frame where it ends: the  *)
(* handler runs inside the decoder's loop and may wait for the mutex.      *)
(* Ctrl-C may come at any step and be taken by either thread.              *)
(*                                                                         *)
(* Reduced: a request is one command of each way of answering, with an     *)
(* argument of a byte; Refloat's configuration is a byte of Confs.  Left   *)
(* out: tx_lock, since Refloat sends only while it answers app data, so    *)
(* that the network thread is the only sender; statistics and traces; a    *)
(* client that stops reading.                                              *)
(***************************************************************************)
EXTENDS VescPacket

CONSTANTS
    Confs,        \* the configurations Refloat accepts
    Loaded,       \* the one in the eeprom file
    Pieces,       \* what a client may send at a time
    MaxPieces,    \* pieces sent
    MaxSessions   \* connections

ASSUME HostAssumption ==
    /\ Confs \subseteq Bytes /\ Loaded \in Confs /\ IsFiniteSet(Pieces)
    /\ \A p \in Pieces : p \in Seq(Bytes) /\ p # <<>>
    /\ MaxPieces \in Nat /\ MaxSessions \in Nat

VARIABLES
    running,  \* H.running
    conf,     \* Refloat's configuration
    lock,     \* refloat_lock: "free" or the thread that has it
    net,      \* where the network thread is
    sim,      \* where the simulation thread is
    fd,       \* client_fd >= 0
    client,   \* the peer: "none", "open" or "closed"
    sent,     \* bytes of the client not yet received
    chunk,    \* bytes received and not yet fed
    rx,       \* rx_buffer up to rx_write_ptr
    rd,       \* rx_read_ptr
    left,     \* bytes_left
    todo,     \* what is left of the request in hand
    scratch,  \* the configuration an answer carries
    got,      \* history: the answers this client received
    fed,      \* history: the bytes fed in this session
    handled,  \* history: the requests handled in this session
    before,   \* history: the configuration when the session began
    pieces,   \* history: pieces sent
    sessions  \* history: connections

decoderVars == <<rx, rd, left>>
peerVars    == <<client, sent, pieces, sessions>>
workVars    == <<todo, scratch, conf>>
sessionVars == <<got, fed, handled, before>>
hostVars    == <<running, lock, net, sim, fd, chunk, decoderVars, peerVars, workVars, sessionVars>>

-----------------------------------------------------------------------------
(* Commands.  One id for each way of answering.                            *)

FW_VERSION        == 0
SET_CUSTOM_CONFIG == 1
CUSTOM_APP_DATA   == 2
SET_CURRENT       == 3  \* with all the commands to the motor
GET_CUSTOM_CONFIG == 4  \* with all the requests that read

\* Mutant: the configuration is read back before it is set.
PlanReadsFirst(p) ==
    CASE p[1] = FW_VERSION -> <<"send_fw", "send_mcconf">>
      [] p[1] = SET_CUSTOM_CONFIG /\ Len(p) > 1 -> <<"read", "set", "send_conf">>
      [] p[1] = CUSTOM_APP_DATA -> <<"lock", "send_app", "unlock">>
      [] p[1] = GET_CUSTOM_CONFIG /\ Len(p) > 1 /\ p[2] = 0 -> <<"read", "send_conf">>
      [] OTHER -> <<>>

\* handle_payload: what a request has the network thread do.  A command to the
\* motor is counted and dropped, and so are unknown, truncated and other
\* requests; a version is followed by the motor configuration.
Plan(p) ==
    CASE p[1] = FW_VERSION -> <<"send_fw", "send_mcconf">>
      [] p[1] = SET_CUSTOM_CONFIG /\ Len(p) > 1 -> <<"set", "read", "send_conf">>
      [] p[1] = CUSTOM_APP_DATA -> <<"lock", "send_app", "unlock">>
      [] p[1] = GET_CUSTOM_CONFIG /\ Len(p) > 1 /\ p[2] = 0 -> <<"read", "send_conf">>
      [] OTHER -> <<>>

\* The promise: the configuration after a request, and the answers to it.
ConfAfter(p, c) ==
    IF p[1] = SET_CUSTOM_CONFIG /\ Len(p) > 1 /\ p[2] \in Confs THEN p[2] ELSE c

Answers(p, c) ==
    CASE p[1] = FW_VERSION -> <<"fw", "mcconf">>
      [] p[1] = SET_CUSTOM_CONFIG /\ Len(p) > 1 -> <<c>>
      [] p[1] = CUSTOM_APP_DATA -> <<"app">>
      [] p[1] = GET_CUSTOM_CONFIG /\ Len(p) > 1 /\ p[2] = 0 -> <<c>>
      [] OTHER -> <<>>

\* Both of a whole stream of requests, as functions of the configuration before it.
ConfAfterAll[ps \in Seq(Seq(Bytes))] ==
    [c \in Confs |-> IF ps = <<>> THEN c ELSE ConfAfter(Last(ps), ConfAfterAll[Front(ps)][c])]

AnswersToAll[ps \in Seq(Seq(Bytes))] ==
    [c \in Confs |->
        IF ps = <<>> THEN <<>>
        ELSE AnswersToAll[Front(ps)][c] \o Answers(Last(ps), ConfAfterAll[ps][c])]

-----------------------------------------------------------------------------
(* Where the threads start.                                                *)

HostInit ==
    /\ running = TRUE /\ conf = Loaded /\ lock = "free"
    /\ net = "top" /\ sim = "asleep"
    /\ fd = FALSE /\ client = "none" /\ sent = <<>> /\ chunk = <<>>
    /\ rx = <<>> /\ rd = 0 /\ left = 0
    /\ todo = <<>> /\ scratch = conf
    /\ got = <<>> /\ fed = <<>> /\ handled = <<>> /\ before = conf
    /\ pieces = 0 /\ sessions = 0

Goes(from, to) == net = from /\ net' = to

-----------------------------------------------------------------------------
(* network_loop.                                                           *)

\* The loop looks at H.running before accept.
Top ==
    /\ \/ running /\ Goes("top", "accept")
       \/ ~running /\ Goes("top", "ended")
    /\ UNCHANGED <<running, lock, sim, fd, chunk, decoderVars, peerVars, workVars, sessionVars>>

\* Mutant: the decoder keeps what the last client left.
AcceptNoReset ==
    /\ Goes("accept", "loop") /\ client # "none"
    /\ fd' = TRUE
    /\ got' = <<>> /\ fed' = <<>> /\ handled' = <<>> /\ before' = conf
    /\ UNCHANGED <<running, lock, sim, chunk, decoderVars, peerVars, workVars>>

\* tcp_accept and vesc_packet_reset.  A signal restarts accept: only a client
\* ends it.
Accept ==
    /\ Goes("accept", "loop") /\ client # "none"
    /\ fd' = TRUE
    /\ rx' = <<>> /\ rd' = 0 /\ left' = 0
    /\ got' = <<>> /\ fed' = <<>> /\ handled' = <<>> /\ before' = conf
    /\ UNCHANGED <<running, lock, sim, chunk, peerVars, workVars>>

\* The look at H.running before recv, and at client_fd inside tcp_recv.
Loop ==
    /\ \/ running /\ fd /\ Goes("loop", "recv")
       \/ ~(running /\ fd) /\ Goes("loop", "over")
    /\ UNCHANGED <<running, lock, sim, fd, chunk, decoderVars, peerVars, workVars, sessionVars>>

\* tcp_recv returns what there is.  It may be blocked on a descriptor that a
\* signal to the other thread has closed.
RecvData ==
    /\ Goes("recv", "feed") /\ sent # <<>>
    /\ chunk' = sent /\ sent' = <<>>
    /\ UNCHANGED <<running, lock, sim, fd, decoderVars, client, pieces, sessions, workVars,
                   sessionVars>>

\* The client has closed, or the descriptor has been closed under recv.
RecvEnds ==
    /\ Goes("recv", "over")
    /\ (client = "closed" /\ sent = <<>>) \/ ~fd
    /\ UNCHANGED <<running, lock, sim, fd, chunk, decoderVars, peerVars, workVars, sessionVars>>

\* tcp_disconnect.
Over ==
    /\ Goes("over", "top")
    /\ fd' = FALSE /\ client' = "none" /\ sent' = <<>>
    /\ UNCHANGED <<running, lock, sim, chunk, decoderVars, pieces, sessions, workVars, sessionVars>>

\* The rest of main: wait for the simulation, then stop Refloat under the lock.
Stopped ==
    /\ Goes("ended", "stopped")
    /\ sim = "ended" /\ lock = "free"
    /\ UNCHANGED <<running, lock, sim, fd, chunk, decoderVars, peerVars, workVars, sessionVars>>

-----------------------------------------------------------------------------
(* vesc_packet_process_byte.                                               *)

Overfull == Len(rx) - rd >= BufferLen

\* Unread bytes that fill the buffer are thrown away; else they are moved to its
\* beginning when the end is reached.
Room ==
    CASE Overfull                            -> <<>>
      [] ~Overfull /\ Len(rx) >= BufferLen   -> SubSeq(rx, rd + 1, Len(rx))
      [] OTHER                               -> rx

\* A byte is stored; the decoder is not asked before as many have come as it
\* found missing.
Feed ==
    /\ net = "feed" /\ chunk # <<>>
    /\ chunk' = Tail(chunk) /\ fed' = Append(fed, Head(chunk))
    /\ rx' = Append(Room, Head(chunk))
    /\ rd' = IF Len(rx) >= BufferLen THEN 0 ELSE rd
    /\ CASE Overfull              -> left' = 0 /\ net' = "feed"
         [] ~Overfull /\ left > 1 -> left' = left - 1 /\ net' = "feed"
         [] OTHER                 -> UNCHANGED left /\ net' = "decode"
    /\ UNCHANGED <<running, lock, sim, fd, peerVars, workVars, got, handled, before>>

Fed ==
    /\ Goes("feed", "loop") /\ chunk = <<>>
    /\ UNCHANGED <<running, lock, sim, fd, chunk, decoderVars, peerVars, workVars, sessionVars>>

Unread == SubSeq(rx, rd + 1, Len(rx))

\* A frame is handled before it is taken off the buffer; the rest of the loop
\* finds the same bytes, since the handler feeds nothing.
DecodeFrame ==
    LET r == TryDecode(Unread) IN
    /\ Goes("decode", "work") /\ r.says = "frame"
    /\ todo' = Plan(Payload(Unread))
    /\ scratch' = IF Len(Payload(Unread)) > 1 THEN Payload(Unread)[2] ELSE 0
    /\ handled' = Append(handled, Payload(Unread))
    /\ rd' = rd + r.size /\ left' = 0
    /\ UNCHANGED <<running, lock, sim, fd, chunk, rx, peerVars, conf, got, fed, before>>

DecodeWrong ==
    /\ net = "decode" /\ TryDecode(Unread).says = "wrong"
    /\ rd' = rd + 1 /\ left' = 0
    /\ UNCHANGED <<running, lock, net, sim, fd, chunk, rx, peerVars, workVars, sessionVars>>

\* With nothing unread the pointers go back to the beginning.
DecodeWaits ==
    LET r == TryDecode(Unread) IN
    /\ Goes("decode", "feed") /\ r.says = "wait"
    /\ left' = r.bytes
    /\ IF Unread = <<>> THEN rx' = <<>> /\ rd' = 0 ELSE UNCHANGED <<rx, rd>>
    /\ UNCHANGED <<running, lock, sim, fd, chunk, peerVars, workVars, sessionVars>>

-----------------------------------------------------------------------------
(* The handler's steps.                                                    *)

Does(step) ==
    /\ net = "work" /\ todo # <<>> /\ Head(todo) = step
    /\ todo' = Tail(todo) /\ net' = "work"

WorkDone ==
    /\ Goes("work", "decode") /\ todo = <<>>
    /\ UNCHANGED <<running, lock, sim, fd, chunk, decoderVars, peerVars, workVars, sessionVars>>

\* cfg_set: the argument is still in scratch.
SetConf ==
    /\ Does("set") /\ lock = "free"
    /\ conf' = IF scratch \in Confs THEN scratch ELSE conf
    /\ UNCHANGED <<running, lock, sim, fd, chunk, decoderVars, peerVars, scratch, sessionVars>>

\* cfg_get.
ReadConf ==
    /\ Does("read") /\ lock = "free"
    /\ scratch' = conf
    /\ UNCHANGED <<running, lock, sim, fd, chunk, decoderVars, peerVars, conf, sessionVars>>

\* custom_app_to_firmware keeps the lock while Refloat answers.
AppLock ==
    /\ Does("lock") /\ lock = "free" /\ lock' = "net"
    /\ UNCHANGED <<running, sim, fd, chunk, decoderVars, peerVars, scratch, conf, sessionVars>>

AppUnlock ==
    /\ Does("unlock") /\ lock' = "free"
    /\ UNCHANGED <<running, sim, fd, chunk, decoderVars, peerVars, scratch, conf, sessionVars>>

\* A client that is gone may be noticed now or at a later frame.
TcpSend(answer) ==
    \/ client = "open" /\ got' = Append(got, answer) /\ UNCHANGED fd
    \/ client # "open" /\ fd' \in BOOLEAN /\ UNCHANGED got

\* server_send: a frame that cannot be sent closes the connection.
Sends(step, answer) ==
    /\ Does(step)
    /\ \/ fd /\ TcpSend(answer)
       \/ ~fd /\ UNCHANGED <<fd, got>>
    /\ UNCHANGED <<running, lock, sim, chunk, decoderVars, peerVars, scratch, conf,
                   fed, handled, before>>

\* Mutant: Refloat's answer asks for the lock that its caller has.
AppSendLocks == lock = "free" /\ Sends("send_app", "app")

\* app_data_from_firmware: Refloat answers from inside its handler.
AppSend == Sends("send_app", "app")

Reply == Sends("send_fw", "fw") \/ Sends("send_conf", scratch)

\* vesc_server_send_mcconf, without being asked: VESC Tool never asks a custom
\* module for it.
PushMcconf == Sends("send_mcconf", "mcconf")

-----------------------------------------------------------------------------
(* sim_thread.                                                             *)

SimSteps(from, to) ==
    /\ sim = from /\ sim' = to
    /\ UNCHANGED <<running, net, fd, chunk, decoderVars, peerVars, workVars, sessionVars>>

\* The thread looks at H.running when a tick is over, then sleeps.
SimLocks == lock = "free" /\ lock' = "sim" /\ SimSteps("asleep", "ticks")
SimTicks == lock' = "free" /\ SimSteps("ticks", IF running THEN "asleep" ELSE "ended")

-----------------------------------------------------------------------------
(* on_sigint, and the client.                                              *)

\* The connection is closed whatever the network thread is at.
Sigint ==
    /\ running /\ running' = FALSE
    /\ fd' = FALSE
    /\ UNCHANGED <<lock, net, sim, chunk, decoderVars, peerVars, workVars, sessionVars>>

ClientElsewhere ==
    UNCHANGED <<running, lock, net, sim, fd, chunk, decoderVars, workVars, sessionVars>>

Connect ==
    /\ client = "none" /\ net \in {"top", "accept"} /\ sessions < MaxSessions
    /\ client' = "open" /\ sessions' = sessions + 1
    /\ ClientElsewhere /\ UNCHANGED <<sent, pieces>>

SendPiece ==
    /\ client = "open" /\ pieces < MaxPieces
    /\ \E p \in Pieces : sent' = sent \o p
    /\ pieces' = pieces + 1
    /\ ClientElsewhere /\ UNCHANGED <<client, sessions>>

Close ==
    /\ client = "open" /\ client' = "closed"
    /\ ClientElsewhere /\ UNCHANGED <<sent, pieces, sessions>>

-----------------------------------------------------------------------------

NetStep ==
    \/ Top \/ Accept \/ Loop \/ RecvData \/ RecvEnds \/ Over \/ Stopped
    \/ Feed \/ Fed \/ DecodeFrame \/ DecodeWrong \/ DecodeWaits
    \/ WorkDone \/ SetConf \/ ReadConf \/ AppLock \/ AppUnlock \/ AppSend \/ Reply
    \/ PushMcconf

SimStep == SimLocks \/ SimTicks

HostNext == NetStep \/ SimStep \/ Sigint \/ Connect \/ SendPiece \/ Close

\* Both threads are scheduled; each gets the mutex in the end, for the other
\* sleeps or waits for the network without it.  Nothing is assumed of the client.
HostFairness == SF_hostVars(NetStep) /\ SF_hostVars(SimStep)

HostSpec == HostInit /\ [][HostNext]_hostVars /\ HostFairness

-----------------------------------------------------------------------------
(* Properties.                                                             *)

\* Between two bytes the requests handled in a session are those the format
\* finds in the whole of its stream: whatever a buffer of this size, the
\* skipped attempts and the noise before a frame do, no request is lost,
\* handled twice, or made of the bytes of an earlier client.
DecoderAgrees == net \in {"feed", "loop", "recv"} => handled = Requests[fed]

\* A client gets the answers to its own requests, in their order, each with the
\* configuration then in force; when the thread is back at recv none is missing
\* and every accepted change has been made, also those of a client that is gone.
AnswersMatch ==
    LET asked == Requests[fed]
    IN  /\ IsPrefix(got, AnswersToAll[asked][before])
        /\ net = "recv" => /\ conf = ConfAfterAll[asked][before]
                           /\ fd /\ client = "open" => got = AnswersToAll[asked][before]

\* No thread is held up for good: the network thread comes back to a wait for
\* a client, or ends, and the simulation ticks for as long as it runs.
ThreadsGoOn ==
    /\ []<>(net \in {"accept", "recv", "stopped"})
    /\ []<>(sim = "ticks" \/ ~running)
=============================================================================
