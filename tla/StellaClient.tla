----------------------------- MODULE StellaClient -----------------------------
(***************************************************************************)
(* The TCP client that receives telemetry: receive (its constructor and    *)
(* the update_data thread), StellaClient, StellaSocketSession and          *)
(* StellaSessionManager, with boost::asio and the server as environment.   *)
(*                                                                         *)
(* One thread runs io_service.run(), so handlers are atomic and are called *)
(* in the order in which their operations completed (variable ready).      *)
(* Completions are steps of the environment.  A frame is an int32 length,  *)
(* read by one async_read, and a body, read by the next.                   *)
(***************************************************************************)
EXTENDS Naturals, Sequences, FiniteSets

CONSTANTS
  Kinds,      \* the kinds of frames the server may send
  MaxFrames   \* bound: the frames the server sends

(* "heartbeat" stands for an unknown command too, "empty" is a length of   *)
(* zero, "corrupt" a body that does not deserialise, "badsize" a negative  *)
(* length.                                                                 *)
AllKinds == {"regist", "normal", "heartbeat", "empty", "corrupt", "badsize"}

ASSUME KindsAssumption == Kinds \subseteq AllKinds
ASSUME BoundAssumption == MaxFrames \in Nat

VARIABLES
  ctor,        \* the GUI thread: "static", "create", "flag", "done" or "failed"
  thread_flag, \* receive::thread_flag
  thread,      \* the update_data thread: "none", "test", "connect", "run" or "over"
  timer,       \* m_timer is armed
  m_session,   \* StellaSessionManager::m_session is set
  socket,      \* "none", "connecting", "connected" or "closed"
  started,     \* start() has set m_last_op_time
  pending,     \* handlers of the operations the socket still works on
  writes,      \* writes the socket still works on
  ready,       \* completed handlers that io_service.run() has not called yet
  m_data,      \* the frame StellaSocketSession::m_data holds (kind "empty" = no data)
  newest,      \* number of the frame in StellaClient::m_receive_data, 0 = none
  server,      \* external: "down" or "listening"
  push,        \* external: the server sends without being asked
  peer,        \* external: the server's end, "none", "open" or "gone"
  asked,       \* external: requests received and not answered yet
  inbound,     \* external: frames sent and not read completely
  sent         \* external: number of frames sent

startVars == <<ctor, thread_flag, thread>>
ioVars    == <<socket, started, pending, writes, ready>>
dataVars  == <<m_data, newest>>
peerVars  == <<server, push, peer, asked, inbound, sent>>
vars == <<startVars, timer, m_session, ioVars, dataVars, peerVars>>
-----------------------------------------------------------------------------
Reads    == {"read_data", "read_size"}          \* handle_read_data, handle_read_size
Handlers == Reads \cup {"connect", "write", "close"}
Handler  == [op : Handlers, ok : BOOLEAN]
Frame    == [kind : AllKinds, n : 0..MaxFrames]
NoData   == [kind |-> "empty", n |-> 0]

Done(op)   == [op |-> op, ok |-> TRUE]
Failed(op) == [op |-> op, ok |-> FALSE]

(* StellaSocketSession::close posts handle_close.                          *)
MutClose == Done("reconnect")
Close == Done("close")

Init ==
  /\ ctor = "static" /\ thread_flag = FALSE /\ thread = "none"
  /\ timer = FALSE /\ m_session = FALSE
  /\ socket = "none" /\ started = FALSE /\ pending = {} /\ writes = 0 /\ ready = <<>>
  /\ m_data = NoData /\ newest = 0
  /\ server = "down" /\ push \in BOOLEAN /\ peer = "none" /\ asked = 0 /\ inbound = <<>> /\ sent = 0
-----------------------------------------------------------------------------
(* Starting an operation: the socket works on it, or, when it is closed,   *)
(* its handler is queued with an error.                                    *)
Open == socket = "connected"
StartOp(op) == pending' = IF Open THEN pending \cup {op} ELSE pending
StartFailed(op) == IF Open THEN <<>> ELSE <<Failed(op)>>

(* check_connection, called by the constructor of the static m_client and  *)
(* from then on by the timer it arms itself.                               *)
CheckConnection ==
  /\ ctor = "static" \/ timer
  /\ ctor' = IF ctor = "static" THEN "create" ELSE ctor
  /\ IF ~m_session
     THEN UNCHANGED <<timer, writes, ready>>
     ELSE /\ timer' = TRUE
          /\ LET is_open == socket \in {"connecting", "connected"}
             IN /\ writes' = IF is_open THEN writes + 1 ELSE writes
                /\ ready' = IF is_open THEN ready ELSE Append(ready, Close)
  /\ UNCHANGED <<thread_flag, thread, m_session, socket, started, pending, dataVars, peerVars>>

(* The constructor of receive creates the thread before it sets the flag   *)
(* that the thread tests.                                                  *)
CreateThread ==
  /\ ctor = "create"
  /\ \/ ctor' = "flag" /\ thread' = "test"
     \/ ctor' = "failed" /\ UNCHANGED thread
  /\ UNCHANGED <<thread_flag, timer, m_session, ioVars, dataVars, peerVars>>

SetFlag ==
  /\ ctor = "flag"
  /\ thread_flag' = TRUE
  /\ ctor' = "done"
  /\ UNCHANGED <<thread, timer, m_session, ioVars, dataVars, peerVars>>

(* update_data has no return statement: when the test fails the thread     *)
(* ends, or, in a build that drops the impossible exit, goes on.           *)
TestFlag ==
  /\ thread = "test"
  /\ thread' \in IF thread_flag THEN {"connect"} ELSE {"over", "connect"}
  /\ UNCHANGED <<ctor, thread_flag, timer, m_session, ioVars, dataVars, peerVars>>

(* StellaClient::connect, then io_service.run(), which never returns since *)
(* m_work keeps it busy.  resolve may throw before the session is set.     *)
Connect ==
  /\ thread = "connect"
  /\ thread' = "run"
  /\ \/ /\ m_session' = TRUE
        /\ socket' = "connecting"
        /\ pending' = {"connect"}
     \/ UNCHANGED <<m_session, socket, pending>>
  /\ UNCHANGED <<ctor, thread_flag, timer, started, writes, ready, dataVars, peerVars>>
-----------------------------------------------------------------------------
(* io_service.run() calls the oldest ready handler.                        *)
Calls(op, ok) ==
  /\ thread = "run"
  /\ ready # <<>>
  /\ Head(ready) = [op |-> op, ok |-> ok]

(* handle_connect: start() reads a first length, then the client registers.*)
(* start() may throw while it sets options, which leaves an idle socket.   *)
HandleConnect ==
  /\ Calls("connect", TRUE)
  /\ \/ /\ started' = TRUE
        /\ StartOp("read_data")
        /\ writes' = writes + 1
     \/ UNCHANGED <<started, pending, writes>>
  /\ ready' = Tail(ready)
  /\ UNCHANGED <<startVars, timer, m_session, socket, dataVars, peerVars>>

(* A failed connection attempt is repeated with the same endpoint.         *)
MutReconnect == UNCHANGED pending
Reconnect == pending' = {"connect"}
HandleConnectFailed ==
  /\ Calls("connect", FALSE)
  /\ ready' = Tail(ready)
  /\ Reconnect
  /\ UNCHANGED <<startVars, timer, m_session, socket, started, writes, dataVars, peerVars>>

(* handle_read_data: the length has arrived; resize throws when it is      *)
(* negative, else the body is read into m_data.  Reading nothing is done   *)
(* at once, even on a closed socket.                                       *)
ReadBody(kind) ==
  \/ /\ kind = "badsize"
     /\ ready' = Append(Tail(ready), Close)
     /\ UNCHANGED <<pending, inbound>>
  \/ /\ kind = "empty"
     /\ ready' = Append(Tail(ready), Done("read_size"))
     /\ inbound' = Tail(inbound)
     /\ UNCHANGED pending
  \/ /\ kind \notin {"badsize", "empty"}
     /\ ready' = Tail(ready) \o StartFailed("read_size")
     /\ StartOp("read_size")
     /\ UNCHANGED inbound
HandleReadData ==
  /\ Calls("read_data", TRUE)
  /\ ReadBody(Head(inbound).kind)
  /\ UNCHANGED <<startVars, timer, m_session, socket, started, writes, dataVars,
                 server, push, peer, asked, sent>>

(* handle_read_size: the body has arrived.  The next length is read first, *)
(* then the frame is deserialised and read_data_callback replies to it and *)
(* stores it.                                                              *)
MutRepliesTwice(kind) == IF kind = "regist" THEN 2 ELSE IF kind = "normal" THEN 1 ELSE 0
MutRepliesNormalOnly(kind) == IF kind = "normal" THEN 1 ELSE 0
Replies(kind) == IF kind \in {"regist", "normal"} THEN 1 ELSE 0
HandleReadSize ==
  /\ Calls("read_size", TRUE)
  /\ m_data' = NoData
  /\ StartOp("read_data")
  /\ writes' = IF Open THEN writes + Replies(m_data.kind) ELSE writes
  /\ ready' = Tail(ready) \o StartFailed("read_data")
               \o (IF Replies(m_data.kind) > 0 THEN StartFailed("write") ELSE <<>>)
               \o (IF m_data.kind = "corrupt" THEN <<Close>> ELSE <<>>)
  /\ newest' = IF m_data.kind = "normal" THEN m_data.n ELSE newest
  /\ UNCHANGED <<startVars, timer, m_session, socket, started, peerVars>>

HandleWrite ==
  /\ Calls("write", TRUE)
  /\ ready' = Tail(ready)
  /\ UNCHANGED <<startVars, timer, m_session, socket, started, pending, writes, dataVars, peerVars>>

(* Every handler of the session answers an error with close().             *)
MutOnErrorIgnored == Tail(ready)
MutOnErrorRetried == Append(Tail(ready), Head(ready))
OnError == Append(Tail(ready), Close)
HandleError ==
  /\ \E op \in Reads \cup {"write"} : Calls(op, FALSE)
  /\ ready' = OnError
  /\ UNCHANGED <<startVars, timer, m_session, socket, started, pending, writes, dataVars, peerVars>>

(* handle_close: what the socket works on will end with an error.  Line 32 *)
(* does not call the close callback.                                       *)
MutAfterClose == socket' = "connecting" /\ pending' = {"connect"}
AfterClose == socket' = "closed" /\ UNCHANGED pending
HandleClose ==
  /\ Calls("close", TRUE)
  /\ ready' = Tail(ready)
  /\ AfterClose
  /\ peer' = IF peer = "open" THEN "gone" ELSE peer
  /\ UNCHANGED <<startVars, timer, m_session, started, writes, dataVars,
                 server, push, asked, inbound, sent>>
-----------------------------------------------------------------------------
(* External: the operating system and the server.  A read or write fails   *)
(* when the connection is gone or the client has closed it.                *)
Completes(op, ok) ==
  /\ op \in pending
  /\ pending' = pending \ {op}
  /\ ready' = Append(ready, [op |-> op, ok |-> ok])
  /\ UNCHANGED <<startVars, timer, m_session, started>>

Connected ==
  /\ server = "listening"
  /\ Completes("connect", TRUE)
  /\ socket' = "connected" /\ peer' = "open"
  /\ UNCHANGED <<writes, dataVars, server, push, asked, inbound, sent>>

Refused ==
  /\ server = "down"
  /\ Completes("connect", FALSE)
  /\ UNCHANGED <<socket, writes, dataVars, peerVars>>

LengthRead ==
  /\ Open /\ inbound # <<>>
  /\ Completes("read_data", TRUE)
  /\ UNCHANGED <<socket, writes, dataVars, peerVars>>

BodyRead ==
  /\ Open /\ inbound # <<>>
  /\ Completes("read_size", TRUE)
  /\ m_data' = Head(inbound)
  /\ inbound' = Tail(inbound)
  /\ UNCHANGED <<socket, writes, newest, server, push, peer, asked, sent>>

ReadFails ==
  /\ peer = "gone"
  /\ \E op \in Reads : Completes(op, FALSE)
  /\ UNCHANGED <<socket, writes, dataVars, peerVars>>

Written ==
  /\ writes > 0 /\ peer = "open"
  /\ writes' = writes - 1
  /\ ready' = Append(ready, Done("write"))
  /\ asked' = asked + 1
  /\ UNCHANGED <<startVars, timer, m_session, socket, started, pending, dataVars,
                 server, push, peer, inbound, sent>>

WriteFails ==
  /\ writes > 0 /\ peer = "gone"
  /\ writes' = writes - 1
  /\ ready' = Append(ready, Failed("write"))
  /\ UNCHANGED <<startVars, timer, m_session, socket, started, pending, dataVars, peerVars>>

ServerSends(kind) ==
  /\ peer = "open" /\ sent < MaxFrames
  /\ push \/ asked > 0
  /\ asked' = IF asked > 0 THEN asked - 1 ELSE 0
  /\ sent' = sent + 1
  /\ inbound' = Append(inbound, [kind |-> kind, n |-> sent + 1])
  /\ UNCHANGED <<startVars, timer, m_session, ioVars, dataVars, server, push, peer>>

ServerToggles ==
  /\ server' = IF server = "down" THEN "listening" ELSE "down"
  /\ UNCHANGED <<startVars, timer, m_session, ioVars, dataVars, push, peer, asked, inbound, sent>>

PeerLeaves ==
  /\ peer = "open"
  /\ peer' = "gone"
  /\ UNCHANGED <<startVars, timer, m_session, ioVars, dataVars, server, push, asked, inbound, sent>>

Startup == CheckConnection \/ CreateThread \/ SetFlag \/ TestFlag \/ Connect
RunHandler ==
  \/ HandleConnect \/ HandleConnectFailed \/ HandleReadData \/ HandleReadSize
  \/ HandleWrite \/ HandleError \/ HandleClose
Completion ==
  \/ Connected \/ Refused \/ LengthRead \/ BodyRead \/ ReadFails \/ Written \/ WriteFails
ServerAnswers == \E kind \in Kinds : ServerSends(kind)
Server == ServerAnswers \/ ServerToggles \/ PeerLeaves

Next == Startup \/ RunHandler \/ Completion \/ Server

Spec == Init /\ [][Next]_vars

(* Threads are scheduled, the operating system completes what it can, and  *)
(* a server that may send does.  The server may leave at any time and need *)
(* not listen.                                                             *)
ConnectCompletes == Connected \/ Refused
ReadCompletes    == LengthRead \/ BodyRead \/ ReadFails
WriteCompletes   == Written \/ WriteFails
FairSpec ==
  /\ Spec
  /\ WF_vars(Startup) /\ WF_vars(RunHandler)
  /\ WF_vars(ConnectCompletes) /\ WF_vars(ReadCompletes) /\ WF_vars(WriteCompletes)
  /\ WF_vars(ServerAnswers)
-----------------------------------------------------------------------------
TypeOK ==
  /\ ctor \in {"static", "create", "flag", "done", "failed"}
  /\ thread_flag \in BOOLEAN
  /\ thread \in {"none", "test", "connect", "run", "over"}
  /\ timer \in BOOLEAN /\ m_session \in BOOLEAN /\ started \in BOOLEAN
  /\ socket \in {"none", "connecting", "connected", "closed"}
  /\ pending \in SUBSET (Reads \cup {"connect"})
  /\ writes \in Nat
  /\ ready \in Seq(Handler)
  /\ m_data \in Frame /\ newest \in 0..MaxFrames
  /\ server \in {"down", "listening"} /\ push \in BOOLEAN /\ peer \in {"none", "open", "gone"}
  /\ asked \in Nat /\ inbound \in Seq(Frame) /\ sent \in 0..MaxFrames

(* Reading is a chain with one link: at most one read is outstanding or    *)
(* waits to be called, so nothing else touches m_data or m_data_size; and  *)
(* a started connection that has lost its link is about to be closed.      *)
InReady(ops) == {i \in DOMAIN ready : ready[i].op \in ops}
Links == Cardinality(pending \cap Reads) + Cardinality(InReady(Reads))
ReadChain ==
  /\ Links <= 1
  /\ started /\ Open => Links = 1 \/ InReady({"close"}) # {}

(* async_write is never called while another write is outstanding on the   *)
(* socket, as asio demands, if the server only answers: the session has no *)
(* queue of writes, only the ping-pong of the protocol orders them.        *)
OneWriter == ~push => writes + (IF Open THEN Cardinality(InReady({"write"})) ELSE 0) <= 1

(* Client and server never begin to wait for each other: while the         *)
(* connection is up there is a request or an answer on its way, at one of  *)
(* the two ends or in the line, until a frame arrives that                 *)
(* read_data_callback does not answer.  It may come to that with a server  *)
(* that pushes too.                                                        *)
Stalled ==
  /\ started /\ Open /\ peer = "open"
  /\ writes = 0 /\ asked = 0 /\ inbound = <<>>
  /\ InReady({"read_size", "close"}) = {}
HeardInVain == Calls("read_size", TRUE) /\ m_data.kind \in {"heartbeat", "empty"}
StallsOnlyUnanswered == [][Stalled' => Stalled \/ HeardInVain]_vars

(* The client implements the abstract connection: dialled once, newer and  *)
(* newer frames while it is up, and lost for ever.  A body read before the *)
(* close still counts.                                                     *)
BodyWaits ==
  m_data.kind = "normal" /\ Done("read_size") \in {ready[i] : i \in DOMAIN ready}
Phase ==
  CASE socket = "none" -> "idle"
    [] socket = "connecting" -> "dialing"
    [] Open \/ BodyWaits -> "up"
    [] OTHER -> "down"
Link == INSTANCE TelemetryLink WITH phase <- Phase
LinkImplemented == Link!LinkSpec

(* A refused connection is tried again until the server listens.           *)
Retries == <>[](server = "listening") => (socket = "connecting" ~> Open)

(* A connection whose peer has left is closed.                             *)
BrokenIsClosed == (started /\ peer = "gone") ~> socket = "closed"

(* Closing settles: the operations that the close aborts post close again, *)
(* but in the end nothing is left to call.                                 *)
CloseSettles == socket = "closed" ~> [](ready = <<>> /\ pending = {} /\ writes = 0)

(* With a server that only answers, and answers every request by a regist *)
(* or normal frame or by one that ends the session, the exchange never     *)
(* stalls: neither side waits for the other while both could go on.  A     *)
(* heartbeat or an empty frame is not answered.                            *)
Unanswered(frames) == \E i \in DOMAIN frames : frames[i].kind \in {"heartbeat", "empty"}
TalkGoesOn ==
  [](~push /\ ~Unanswered(inbound)) => (started ~> (sent = MaxFrames \/ peer = "gone"))
-----------------------------------------------------------------------------
(* StellaSessionManager.cpp:26 reconnects by closing the session.          *)
Reconnects == (started /\ socket = "closed") ~> socket = "connecting"
=============================================================================
