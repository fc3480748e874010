-------------------------- MODULE StellaClientProofs --------------------------
(***************************************************************************)
(* Proofs about StellaClient, for every number and choice of frames.       *)
(***************************************************************************)
EXTENDS StellaClient, Integers, SequenceTheorems, FiniteSetTheorems, TLAPS

(* The queue of completed handlers: what is in it.                         *)
Chain == Reads \cup {"connect"}
Has(s, h)      == \E i \in DOMAIN s : s[i] = h
HasOp(s, op)   == \E i \in DOMAIN s : s[i].op = op
Quiet(s)       == \A i \in DOMAIN s : s[i].op \notin Chain
Single(s)      == \A i, j \in DOMAIN s : s[i].op \in Chain /\ s[j].op \in Chain => i = j
OnlyConnect(s) == \A i \in DOMAIN s : s[i].op = "connect"
OneWrite(s)    == \A i, j \in DOMAIN s : s[i].op = "write" /\ s[j].op = "write" => i = j
Ordered(s)     == \A i, j \in DOMAIN s :
                    s[i].op = "write" /\ s[j] = Done("read_size") => i < j

LEMMA HandlerTypes ==
  /\ Close \in Handler
  /\ \A op \in Handlers : Done(op) \in Handler /\ Failed(op) \in Handler
  /\ Handlers = Chain \cup {"write", "close"} /\ Reads \subseteq Chain
BY DEF Close, Done, Failed, Handler, Handlers, Chain

(* What a handler that is queued adds to each of these.                    *)
LEMMA Queued ==
  ASSUME NEW s \in Seq(Handler), NEW h \in Handler
  PROVE  LET t == Append(s, h)
         IN /\ t \in Seq(Handler)
            /\ \A g : Has(t, g) <=> Has(s, g) \/ h = g
            /\ \A op : HasOp(t, op) <=> HasOp(s, op) \/ h.op = op
            /\ Quiet(t) <=> Quiet(s) /\ h.op \notin Chain
            /\ Single(s) /\ h.op \notin Chain => Single(t)
            /\ Quiet(s) => Single(t)
            /\ OnlyConnect(s) /\ h.op = "connect" => OnlyConnect(t)
            /\ OneWrite(s) /\ h.op # "write" => OneWrite(t)
            /\ ~HasOp(s, "write") => OneWrite(t)
            /\ Ordered(s) /\ h.op # "write" => Ordered(t)
            /\ Ordered(s) /\ ~Has(s, Done("read_size")) => Ordered(t)
<1> DEFINE t == Append(s, h)
<1>1. t \in Seq(Handler)
  OBVIOUS
<1>2. /\ DOMAIN s = 1..Len(s) /\ DOMAIN t = 1..(Len(s) + 1) /\ Len(s) \in Nat
      /\ \A i \in 1..Len(s) : t[i] = s[i]
      /\ t[Len(s) + 1] = h
  BY LenProperties
<1> HIDE DEF t
<1>3. /\ \A g : Has(t, g) <=> Has(s, g) \/ h = g
      /\ \A op : HasOp(t, op) <=> HasOp(s, op) \/ h.op = op
  BY <1>2 DEF Has, HasOp
<1>4. Quiet(t) <=> Quiet(s) /\ h.op \notin Chain
  BY <1>2 DEF Quiet
<1>5. /\ Single(s) /\ h.op \notin Chain => Single(t)
      /\ Quiet(s) => Single(t)
  BY <1>2 DEF Single, Quiet
<1>6. OnlyConnect(s) /\ h.op = "connect" => OnlyConnect(t)
  BY <1>2 DEF OnlyConnect
<1>7. /\ OneWrite(s) /\ h.op # "write" => OneWrite(t)
      /\ ~HasOp(s, "write") => OneWrite(t)
  BY <1>2 DEF OneWrite, HasOp
<1>8. Ordered(s) /\ h.op # "write" => Ordered(t)
  BY <1>2 DEF Ordered
<1>9. Ordered(s) /\ ~Has(s, Done("read_size")) => Ordered(t)
  <2> SUFFICES ASSUME Ordered(s), ~Has(s, Done("read_size")),
                      NEW i \in DOMAIN t, NEW j \in DOMAIN t,
                      t[i].op = "write", t[j] = Done("read_size")
               PROVE  i < j
    BY DEF Ordered
  <2>1. j = Len(s) + 1 /\ h = Done("read_size")
    BY <1>2 DEF Has
  <2>2. i # j
    BY <2>1, <1>2 DEF Done
  <2> QED
    BY <1>2, <2>1, <2>2
<1> QED
  BY <1>1, <1>3, <1>4, <1>5, <1>6, <1>7, <1>8, <1>9 DEF t

(* What taking the oldest handler leaves.                                  *)
LEMMA Taken ==
  ASSUME NEW s \in Seq(Handler), s # <<>>
  PROVE  LET t == Tail(s)
             h == Head(s)
         IN /\ t \in Seq(Handler) /\ h \in Handler
            /\ \A g : Has(t, g) => Has(s, g)
            /\ \A g : Has(s, g) => Has(t, g) \/ h = g
            /\ \A op : HasOp(t, op) => HasOp(s, op)
            /\ \A op : HasOp(s, op) => HasOp(t, op) \/ h.op = op
            /\ Has(s, h) /\ HasOp(s, h.op)
            /\ Quiet(s) => Quiet(t) /\ h.op \notin Chain
            /\ Single(s) => Single(t) /\ (h.op \in Chain => Quiet(t))
            /\ Quiet(t) /\ h.op \notin Chain => Quiet(s)
            /\ OnlyConnect(s) => OnlyConnect(t) /\ h.op = "connect"
            /\ OneWrite(s) => OneWrite(t) /\ (h.op = "write" => ~HasOp(t, "write"))
            /\ Ordered(s) => Ordered(t) /\ (h = Done("read_size") => ~HasOp(s, "write"))
<1> DEFINE t == Tail(s)
           h == Head(s)
<1>1. t \in Seq(Handler) /\ h \in Handler
  BY HeadTailProperties
<1>2. /\ Len(s) \in Nat /\ Len(s) > 0
      /\ DOMAIN s = 1..Len(s) /\ DOMAIN t = 1..(Len(s) - 1)
      /\ \A i \in 1..(Len(s) - 1) : t[i] = s[i + 1]
      /\ s[1] = h
  BY LenProperties, HeadTailProperties, EmptySeq
<1> HIDE DEF t, h
<1>3. \A i \in DOMAIN t : i + 1 \in DOMAIN s /\ t[i] = s[i + 1]
  BY <1>2
<1>4. \A i \in DOMAIN s : i = 1 \/ (i - 1 \in DOMAIN t /\ s[i] = t[i - 1])
  BY <1>2
<1>5. 1 \in DOMAIN s
  BY <1>2
<1>6. /\ \A g : Has(t, g) => Has(s, g)
      /\ \A g : Has(s, g) => Has(t, g) \/ h = g
      /\ \A op : HasOp(t, op) => HasOp(s, op)
      /\ \A op : HasOp(s, op) => HasOp(t, op) \/ h.op = op
      /\ Has(s, h) /\ HasOp(s, h.op)
  BY <1>2, <1>3, <1>4, <1>5 DEF Has, HasOp
<1>7. /\ Quiet(s) => Quiet(t) /\ h.op \notin Chain
      /\ Quiet(t) /\ h.op \notin Chain => Quiet(s)
  BY <1>2, <1>3, <1>4, <1>5 DEF Quiet
<1>8. Single(s) => Single(t) /\ (h.op \in Chain => Quiet(t))
  BY <1>2, <1>3, <1>5 DEF Single, Quiet
<1>9. OnlyConnect(s) => OnlyConnect(t) /\ h.op = "connect"
  BY <1>2, <1>3, <1>5 DEF OnlyConnect
<1>10. OneWrite(s) => OneWrite(t) /\ (h.op = "write" => ~HasOp(t, "write"))
  BY <1>2, <1>3, <1>5 DEF OneWrite, HasOp
<1>11. Ordered(s) => Ordered(t) /\ (h = Done("read_size") => ~HasOp(s, "write"))
  <2>1. Ordered(s) => Ordered(t)
    BY <1>2, <1>3 DEF Ordered
  <2>2. ASSUME Ordered(s), h = Done("read_size"), NEW i \in DOMAIN s, s[i].op = "write"
        PROVE  FALSE
    <3>1. i < 1
      BY <1>2, <1>5, <2>2 DEF Ordered
    <3> QED
      BY <1>2, <3>1
  <2> QED
    BY <2>1, <2>2 DEF HasOp
<1> QED
  BY <1>1, <1>6, <1>7, <1>8, <1>9, <1>10, <1>11 DEF t, h

LEMMA OneMoreHandler ==
  ASSUME NEW s \in Seq(Handler), NEW h \in Handler
  PROVE  s \o <<h>> = Append(s, h)
OBVIOUS

-----------------------------------------------------------------------------
(* One token goes round: the operation that the socket works on, or its    *)
(* handler in the queue.                                                   *)
Token ==
  /\ Single(ready)
  /\ \A a, b \in pending : a = b
  /\ pending # {} => Quiet(ready)

(* Nothing happens before update_data connects, and nothing but the        *)
(* attempt to connect before start().                                      *)
Before ==
  /\ ~timer
  /\ ctor \in {"static", "create"} => thread = "none"
  /\ thread # "run" => /\ ready = <<>> /\ pending = {} /\ socket = "none"
                       /\ ~started /\ ~m_session
  /\ ~started => OnlyConnect(ready) /\ pending \subseteq {"connect"} /\ writes = 0
  /\ started => /\ "connect" \notin pending /\ ~HasOp(ready, "connect")
                /\ socket \in {"connected", "closed"}
  /\ "connect" \in pending \/ Has(ready, Failed("connect")) => socket = "connecting"
  /\ Has(ready, Done("connect")) => socket = "connected"

(* A started connection reads, or is about to be closed.                   *)
Reading ==
  started /\ Open => pending # {} \/ ~Quiet(ready) \/ HasOp(ready, "close")

(* A length or a body that was announced is there.                         *)
Arrived ==
  /\ Has(ready, Done("read_data")) => inbound # <<>>
  /\ m_data.kind # "empty" => Has(ready, Done("read_size"))

ClientInv == TypeOK /\ Token /\ Before /\ Reading /\ Arrived

LEMMA InitClient == Init => ClientInv
<1> SUFFICES ASSUME Init PROVE ClientInv
  OBVIOUS
<1>1. DOMAIN ready = {} /\ ready \in Seq(Handler) /\ inbound \in Seq(Frame)
  BY EmptySeq DEF Init
<1>2. TypeOK
  <2>1. m_data \in Frame /\ newest \in 0..MaxFrames /\ sent \in 0..MaxFrames
    BY BoundAssumption DEF Init, NoData, Frame, AllKinds
  <2>2. writes \in Nat /\ asked \in Nat
    BY DEF Init
  <2> QED
    BY <1>1, <2>1, <2>2, Zenon DEF Init, TypeOK
<1>3. /\ \A h : ~Has(ready, h) /\ \A op : ~HasOp(ready, op)
      /\ Single(ready) /\ OnlyConnect(ready)
  BY <1>1 DEF Single, OnlyConnect, Has, HasOp
<1>4. Token /\ Reading
  BY <1>3 DEF Init, Token, Reading
<1>5. Before
  BY <1>3 DEF Init, Before
<1>6. Arrived
  BY <1>3 DEF Init, Arrived, NoData
<1> QED
  BY <1>2, <1>4, <1>5, <1>6 DEF ClientInv

(* Who calls a handler runs, and what it calls was in the queue.           *)
LEMMA Called ==
  ASSUME ClientInv, NEW op \in Handlers, NEW ok \in BOOLEAN, Calls(op, ok)
  PROVE  /\ thread = "run" /\ ready # <<>> /\ ready \in Seq(Handler)
         /\ Head(ready).op = op /\ Has(ready, [op |-> op, ok |-> ok]) /\ HasOp(ready, op)
         /\ op # "connect" => started /\ socket \in {"connected", "closed"}
         /\ op \in Chain => pending = {} /\ Quiet(Tail(ready))
<1>1. thread = "run" /\ ready # <<>> /\ Head(ready) = [op |-> op, ok |-> ok] /\ ready \in Seq(Handler)
  BY DEF Calls, ClientInv, TypeOK
<1>2. Head(ready).op = op /\ Has(ready, [op |-> op, ok |-> ok]) /\ HasOp(ready, op)
  BY <1>1, Taken
<1>3. ~started => op = "connect"
  BY <1>1, <1>2, Taken DEF ClientInv, Before
<1>4. op \in Chain => ~Quiet(ready) /\ Quiet(Tail(ready))
  BY <1>1, <1>2, Taken DEF ClientInv, Token
<1> QED
  BY <1>1, <1>2, <1>3, <1>4 DEF ClientInv, Token, Before

(* An operation completes: its handler is the only one of the chain.       *)
LEMMA Completed ==
  ASSUME ClientInv, NEW op \in Chain, NEW ok \in BOOLEAN, Completes(op, ok)
  PROVE  /\ ready' = Append(ready, [op |-> op, ok |-> ok]) /\ ready' \in Seq(Handler)
         /\ ready \in Seq(Handler) /\ [op |-> op, ok |-> ok] \in Handler
         /\ pending = {op} /\ pending' = {} /\ Quiet(ready)
         /\ Single(ready') /\ ~Quiet(ready')
         /\ thread = "run" /\ ctor \notin {"static", "create"}
         /\ op = "connect" <=> ~started
         /\ op = "connect" => socket = "connecting"
         /\ op \in Reads => socket \in {"connected", "closed"}
<1>1. op \in pending /\ ready' = Append(ready, [op |-> op, ok |-> ok]) /\ pending' = pending \ {op}
  BY DEF Completes
<1>2. ready \in Seq(Handler) /\ [op |-> op, ok |-> ok] \in Handler
  BY HandlerTypes DEF ClientInv, TypeOK, Handler
<1>3. pending = {op} /\ pending' = {} /\ Quiet(ready)
  BY <1>1 DEF ClientInv, Token
<1>4. ready' \in Seq(Handler) /\ Single(ready') /\ ~Quiet(ready')
  BY <1>1, <1>2, <1>3, Queued
<1>5. thread = "run" /\ ctor \notin {"static", "create"}
  BY <1>3 DEF ClientInv, Before
<1>6. op = "connect" <=> ~started
  BY <1>3 DEF ClientInv, Before
<1>7. "connect" \notin Reads
  BY DEF Reads
<1> QED
  BY <1>1, <1>2, <1>3, <1>4, <1>5, <1>6, <1>7 DEF ClientInv, Before

(* Completions preserve the invariant.                                     *)
LEMMA StepCompletes ==
  ASSUME ClientInv, Completion
  PROVE  ClientInv'
<1> USE DEF ioVars, startVars, dataVars, peerVars
<1>1. CASE Connected
  <2> DEFINE h == [op |-> "connect", ok |-> TRUE]
  <2>1. Completes("connect", TRUE) /\ "connect" \in Chain /\ h = Done("connect")
    BY <1>1 DEF Connected, Chain, Done
  <2>2. /\ ready' = Append(ready, h) /\ ready \in Seq(Handler) /\ h \in Handler
        /\ pending' = {} /\ Quiet(ready) /\ Single(ready') /\ ~started /\ socket = "connecting"
        /\ thread = "run" /\ ctor \notin {"static", "create"}
        /\ pending = {"connect"} /\ ready' \in Seq(Handler)
    BY <2>1, Completed
  <2>3. OnlyConnect(ready) /\ ~Has(ready, Done("read_data")) /\ ~Has(ready, Done("read_size"))
        /\ ~Has(ready, Failed("connect"))
    BY <2>2 DEF ClientInv, Before, OnlyConnect, Has, Done, Failed, Quiet, Chain
  <2>4. OnlyConnect(ready')
    BY <2>2, <2>3, Queued
  <2>5. ~Has(ready', Failed("connect")) /\ ~Has(ready', Done("read_data"))
    BY <2>2, <2>3, Queued DEF Done, Failed
  <2>6. UNCHANGED <<ctor, thread_flag, thread, timer, m_session, started, writes, m_data, newest,
                    server, push, asked, inbound, sent>>
        /\ socket' = "connected" /\ peer' = "open"
    BY <1>1 DEF Connected, Completes
  <2>7. TypeOK'
    BY <2>2, <2>6 DEF ClientInv, TypeOK
  <2>8. Token'
    BY <2>2 DEF Token
  <2>9. Before'
    BY <2>2, <2>4, <2>5, <2>6 DEF ClientInv, Before
  <2>10. Reading' /\ Arrived'
    BY <2>2, <2>3, <2>5, <2>6 DEF ClientInv, Reading, Arrived
  <2> QED
    BY <2>7, <2>8, <2>9, <2>10 DEF ClientInv
<1>2. CASE Refused
  <2> DEFINE h == [op |-> "connect", ok |-> FALSE]
  <2>1. Completes("connect", FALSE) /\ "connect" \in Chain /\ h = Failed("connect")
    BY <1>2 DEF Refused, Chain, Failed
  <2>2. /\ ready' = Append(ready, h) /\ ready \in Seq(Handler) /\ h \in Handler
        /\ pending' = {} /\ Quiet(ready) /\ Single(ready') /\ ~started /\ socket = "connecting"
        /\ thread = "run" /\ ctor \notin {"static", "create"}
        /\ pending = {"connect"} /\ ready' \in Seq(Handler)
    BY <2>1, Completed
  <2>3. OnlyConnect(ready) /\ ~Has(ready, Done("read_data")) /\ ~Has(ready, Done("read_size"))
        /\ ~Has(ready, Done("connect"))
    BY <2>2 DEF ClientInv, Before, OnlyConnect, Has, Done, Failed, Quiet, Chain
  <2>4. OnlyConnect(ready')
    BY <2>2, <2>3, Queued
  <2>5. ~Has(ready', Done("connect")) /\ ~Has(ready', Done("read_data"))
    BY <2>2, <2>3, Queued DEF Done, Failed
  <2>6. UNCHANGED <<ctor, thread_flag, thread, timer, m_session, started, writes, m_data, newest,
                    server, push, peer, asked, inbound, sent, socket>>
    BY <1>2 DEF Refused, Completes
  <2>7. TypeOK'
    BY <2>2, <2>6 DEF ClientInv, TypeOK
  <2>8. Token'
    BY <2>2 DEF Token
  <2>9. Before'
    BY <2>2, <2>4, <2>5, <2>6 DEF ClientInv, Before
  <2>10. Reading' /\ Arrived'
    BY <2>2, <2>3, <2>5, <2>6 DEF ClientInv, Reading, Arrived
  <2> QED
    BY <2>7, <2>8, <2>9, <2>10 DEF ClientInv
<1>3. ASSUME NEW op \in Reads, NEW ok \in BOOLEAN, Completes(op, ok),
             op = "read_data" /\ ok => inbound' # <<>>,
             UNCHANGED <<socket, writes, newest, server, push, peer, asked, sent>>,
             inbound' \in Seq(Frame), m_data' \in Frame,
             m_data'.kind = m_data.kind \/ (op = "read_size" /\ ok)
      PROVE  ClientInv'
  <2> DEFINE h == [op |-> op, ok |-> ok]
  <2>1. op \in Chain /\ op # "connect"
    BY <1>3 DEF Chain, Reads
  <2>2. /\ ready' = Append(ready, h) /\ ready \in Seq(Handler) /\ h \in Handler
        /\ pending' = {} /\ Quiet(ready) /\ Single(ready') /\ started
        /\ socket \in {"connected", "closed"}
        /\ thread = "run" /\ ctor \notin {"static", "create"}
        /\ pending = {op} /\ ready' \in Seq(Handler) /\ ~Quiet(ready')
    BY <1>3, <2>1, Completed
  <2>3. ~HasOp(ready, "connect") /\ ~Has(ready, Done("read_data"))
    BY <2>2 DEF Has, HasOp, Quiet, Chain, Reads, Done
  <2>4. ~HasOp(ready', "connect") /\ (Has(ready', Done("read_data")) => h = Done("read_data"))
        /\ (Has(ready, Done("read_size")) => Has(ready', Done("read_size")))
    BY <2>1, <2>2, <2>3, Queued
  <2>5. ~Has(ready', Done("connect")) /\ ~Has(ready', Failed("connect"))
    BY <2>4 DEF Has, HasOp, Done, Failed
  <2>6. UNCHANGED <<ctor, thread_flag, thread, timer, m_session, started>>
    BY <1>3 DEF Completes
  <2>7. TypeOK'
    BY <1>3, <2>2, <2>6 DEF ClientInv, TypeOK
  <2>8. Token'
    BY <2>2 DEF Token
  <2>9. Before'
    BY <1>3, <2>2, <2>4, <2>5, <2>6 DEF ClientInv, Before
  <2>10. Reading'
    BY <2>2 DEF Reading
  <2>11. h = Done("read_data") => inbound' # <<>>
    BY <1>3 DEF Done
  <2>12. op = "read_size" /\ ok => Has(ready', Done("read_size"))
    BY <2>2, Queued DEF Done
  <2>13. Arrived'
    BY <1>3, <2>4, <2>11, <2>12 DEF ClientInv, Arrived
  <2> QED
    BY <2>7, <2>8, <2>9, <2>10, <2>13 DEF ClientInv
<1>4. CASE LengthRead
  BY <1>3, <1>4 DEF LengthRead, Reads, ClientInv, TypeOK
<1>5. CASE BodyRead
  <2>1. inbound' \in Seq(Frame) /\ m_data' \in Frame
    BY <1>5, HeadTailProperties DEF BodyRead, ClientInv, TypeOK
  <2> QED
    BY <1>3, <1>5, <2>1 DEF BodyRead, Reads
<1>6. CASE ReadFails
  BY <1>3, <1>6 DEF ReadFails, ClientInv, TypeOK
<1>7. ASSUME writes' \in Nat, asked' \in Nat, NEW h \in Handler, h.op = "write",
             ready' = Append(ready, h), writes > 0,
             UNCHANGED <<startVars, timer, m_session, socket, started, pending, dataVars,
                         server, push, peer, inbound, sent>>
      PROVE  ClientInv'
  <2>1. ready \in Seq(Handler) /\ h.op \notin Chain
    BY <1>7 DEF ClientInv, TypeOK, Chain, Reads
  <2>2. started /\ socket \in {"connected", "closed"} /\ thread = "run"
    BY <1>7 DEF ClientInv, Before, TypeOK
  <2>3. /\ ready' \in Seq(Handler)
        /\ \A g : g.op # "write" => (Has(ready', g) <=> Has(ready, g))
        /\ \A op : op # "write" => (HasOp(ready', op) <=> HasOp(ready, op))
        /\ Quiet(ready') <=> Quiet(ready)
        /\ Single(ready) => Single(ready')
    BY <1>7, <2>1, Queued
  <2>4. \A op \in {"connect", "read_data", "read_size"} :
          Done(op).op # "write" /\ Failed(op).op # "write"
    BY DEF Done, Failed
  <2>5. TypeOK'
    BY <1>7, <2>3 DEF ClientInv, TypeOK
  <2>6. Token'
    BY <1>7, <2>3 DEF ClientInv, Token
  <2>7. Before'
    BY <1>7, <2>2, <2>3, <2>4 DEF ClientInv, Before
  <2>8. Reading' /\ Arrived'
    BY <1>7, <2>3, <2>4 DEF ClientInv, Reading, Arrived, Open
  <2> QED
    BY <2>5, <2>6, <2>7, <2>8 DEF ClientInv
<1>8. CASE Written
  BY <1>7, <1>8, HandlerTypes DEF Written, ClientInv, TypeOK, Done
<1>9. CASE WriteFails
  BY <1>7, <1>9, HandlerTypes DEF WriteFails, ClientInv, TypeOK, Failed
<1> QED
  BY <1>1, <1>2, <1>4, <1>5, <1>6, <1>8, <1>9 DEF Completion

(* Start-up.                                                               *)
LEMMA StepStartup ==
  ASSUME ClientInv, Startup
  PROVE  ClientInv'
<1> USE DEF ioVars, dataVars, peerVars
<1>1. CASE CheckConnection
  <2>1. UNCHANGED <<thread_flag, thread, timer, m_session, ioVars, dataVars, peerVars>>
        /\ ctor = "static" /\ ctor' = "create"
    BY <1>1 DEF CheckConnection, ClientInv, Before, TypeOK
  <2>2. TypeOK' /\ Token' /\ Reading' /\ Arrived'
    BY <2>1 DEF ClientInv, TypeOK, Token, Reading, Arrived, Open
  <2> QED
    BY <2>1, <2>2 DEF ClientInv, Before
<1>2. CASE CreateThread
  <2>1. UNCHANGED <<thread_flag, timer, m_session, ioVars, dataVars, peerVars>>
        /\ ctor = "create" /\ ctor' \in {"flag", "failed"} /\ thread' \in {"none", "test"}
        /\ thread = "none"
    BY <1>2 DEF CreateThread, ClientInv, Before
  <2>2. TypeOK' /\ Token' /\ Reading' /\ Arrived'
    BY <2>1 DEF ClientInv, TypeOK, Token, Reading, Arrived, Open
  <2> QED
    BY <2>1, <2>2 DEF ClientInv, Before
<1>3. CASE SetFlag
  <2>1. UNCHANGED <<thread, timer, m_session, ioVars, dataVars, peerVars>>
        /\ ctor' = "done" /\ thread_flag' = TRUE
    BY <1>3 DEF SetFlag
  <2>2. TypeOK' /\ Token' /\ Reading' /\ Arrived'
    BY <2>1 DEF ClientInv, TypeOK, Token, Reading, Arrived, Open
  <2> QED
    BY <2>1, <2>2 DEF ClientInv, Before
<1>4. CASE TestFlag
  <2>1. UNCHANGED <<ctor, thread_flag, timer, m_session, ioVars, dataVars, peerVars>>
        /\ thread = "test" /\ thread' \in {"over", "connect"}
    BY <1>4 DEF TestFlag
  <2>2. TypeOK' /\ Token' /\ Reading' /\ Arrived'
    BY <2>1 DEF ClientInv, TypeOK, Token, Reading, Arrived, Open
  <2> QED
    BY <2>1, <2>2 DEF ClientInv, Before
<1>5. CASE Connect
  <2>1. /\ thread = "connect" /\ thread' = "run"
        /\ UNCHANGED <<ctor, thread_flag, timer, started, writes, ready, dataVars, peerVars>>
        /\ \/ m_session' = TRUE /\ socket' = "connecting" /\ pending' = {"connect"}
           \/ UNCHANGED <<m_session, socket, pending>>
    BY <1>5 DEF Connect
  <2>2. ready = <<>> /\ pending = {} /\ socket = "none" /\ ~started /\ ctor \notin {"static", "create"}
    BY <2>1 DEF ClientInv, Before
  <2>3. \A h : ~Has(ready, h)
    BY <2>2, EmptySeq, LenProperties DEF Has
  <2>4. Quiet(ready)
    BY <2>2, EmptySeq, LenProperties DEF Quiet
  <2>5. TypeOK'
    <3>1. /\ pending' \in SUBSET (Reads \cup {"connect"}) /\ m_session' \in BOOLEAN
          /\ socket' \in {"none", "connecting", "connected", "closed"}
      BY <2>1 DEF ClientInv, TypeOK
    <3> QED
      BY <2>1, <3>1 DEF ClientInv, TypeOK
  <2>6. Token'
    BY <2>1, <2>4 DEF ClientInv, Token
  <2>7. Reading' /\ Arrived'
    BY <2>1, <2>2 DEF ClientInv, Reading, Arrived
  <2> QED
    BY <2>1, <2>2, <2>3, <2>5, <2>6, <2>7 DEF ClientInv, Before
<1> QED
  BY <1>1, <1>2, <1>3, <1>4, <1>5 DEF Startup

(* The server.                                                             *)
LEMMA StepServer ==
  ASSUME ClientInv, Server \/ UNCHANGED vars
  PROVE  ClientInv'
<1> USE DEF ioVars, dataVars, startVars, peerVars
<1>1. /\ UNCHANGED <<startVars, timer, m_session, ioVars, dataVars, push>>
      /\ inbound # <<>> => inbound' # <<>>
      /\ TypeOK'
  <2>1. CASE ServerAnswers
    <3> PICK kind \in Kinds : ServerSends(kind)
      BY <2>1 DEF ServerAnswers
    <3>1. sent + 1 \in 0..MaxFrames /\ [kind |-> kind, n |-> sent + 1] \in Frame
      BY BoundAssumption, KindsAssumption DEF ServerSends, ClientInv, TypeOK, Frame
    <3>2. inbound' \in Seq(Frame) /\ inbound' # <<>> /\ asked' \in Nat
      BY <3>1, AppendProperties DEF ServerSends, ClientInv, TypeOK
    <3> QED
      BY <3>1, <3>2 DEF ServerSends, ClientInv, TypeOK
  <2>2. CASE ServerToggles
    BY <2>2 DEF ServerToggles, ClientInv, TypeOK
  <2>3. CASE PeerLeaves
    BY <2>3 DEF PeerLeaves, ClientInv, TypeOK
  <2>4. CASE UNCHANGED vars
    BY <2>4 DEF vars, ClientInv, TypeOK
  <2> QED
    BY <2>1, <2>2, <2>3, <2>4 DEF Server
<1>2. Token' /\ Before' /\ Reading' /\ Arrived'
  BY <1>1 DEF ClientInv, Token, Before, Reading, Arrived, Open
<1> QED
  BY <1>1, <1>2 DEF ClientInv

(* A handler that runs after start() leaves the chain as it is, or turns   *)
(* its link into the next one, or into a close.  Here op is what it        *)
(* starts, and queue what it leaves to call.                               *)
LEMMA StepLinked ==
  ASSUME ClientInv, TypeOK', started, UNCHANGED <<startVars, timer, m_session, started>>,
         thread = "run", socket' \in {"connected", "closed"},
         Token', ~HasOp(ready', "connect"), "connect" \notin pending',
         Reading', Arrived'
  PROVE  ClientInv'
<1>1. ~Has(ready', Done("connect")) /\ ~Has(ready', Failed("connect"))
  BY DEF Has, HasOp, Done, Failed
<1>2. ctor \notin {"static", "create"} /\ ~timer
  BY DEF ClientInv, Before
<1> QED
  BY <1>1, <1>2 DEF ClientInv, Before, startVars

(* What a handler of the chain leaves of the queue.                        *)
LEMMA Rest ==
  ASSUME ClientInv, NEW op \in Handlers, NEW ok \in BOOLEAN, Calls(op, ok)
  PROVE  LET rest == Tail(ready)
         IN /\ rest \in Seq(Handler)
            /\ Single(rest)
            /\ started => ~HasOp(rest, "connect")
            /\ \A g : Has(rest, g) => Has(ready, g)
            /\ \A g : Has(ready, g) => Has(rest, g) \/ g = [op |-> op, ok |-> ok]
            /\ op \in Chain => Quiet(rest) /\ pending = {}
            /\ op \notin Chain => (Quiet(rest) <=> Quiet(ready))
            /\ op # "close" => (HasOp(ready, "close") <=> HasOp(rest, "close"))
<1>1. /\ ready # <<>> /\ ready \in Seq(Handler) /\ Head(ready).op = op
      /\ Head(ready) = [op |-> op, ok |-> ok]
      /\ op \in Chain => pending = {} /\ Quiet(Tail(ready))
  BY Called DEF Calls
<1> QED
  BY <1>1, Taken DEF ClientInv, Token, Before

(* A handler changes this much of the state.                               *)
LEMMA TypeNext ==
  ASSUME TypeOK, UNCHANGED <<startVars, timer, m_session, server, push, asked, sent>>,
         started' \in BOOLEAN, writes' \in Nat, ready' \in Seq(Handler),
         socket' \in {"none", "connecting", "connected", "closed"},
         pending' \in SUBSET (Reads \cup {"connect"}),
         m_data' \in Frame, newest' \in 0..MaxFrames,
         peer' \in {"none", "open", "gone"}, inbound' \in Seq(Frame)
  PROVE  TypeOK'
<1>1. /\ ctor' = ctor /\ thread_flag' = thread_flag /\ thread' = thread /\ timer' = timer
      /\ m_session' = m_session /\ server' = server /\ push' = push /\ asked' = asked
      /\ sent' = sent
  BY DEF startVars
<1> QED
  BY <1>1, Zenon DEF TypeOK

(* The first handler: start(), or another attempt to connect.              *)
LEMMA StepConnect ==
  ASSUME ClientInv, HandleConnect \/ HandleConnectFailed
  PROVE  ClientInv'
<1> USE DEF ioVars, dataVars, startVars, peerVars
<1> DEFINE rest == Tail(ready)
<1>1. PICK ok \in BOOLEAN : Calls("connect", ok) /\ ready' = rest
                            /\ (ok => HandleConnect) /\ (~ok => HandleConnectFailed)
  BY DEF HandleConnect, HandleConnectFailed
<1>2. /\ "connect" \in Handlers /\ "connect" \in Chain /\ "connect" \notin Reads
      /\ "read_data" \in Reads
  BY DEF Handlers, Chain, Reads
<1>3. /\ rest \in Seq(Handler) /\ Quiet(rest) /\ Single(rest) /\ pending = {}
      /\ \A g : Has(rest, g) => Has(ready, g)
  BY <1>1, <1>2, Rest
<1>4. thread = "run" /\ Has(ready, [op |-> "connect", ok |-> ok])
  BY <1>1, <1>2, Called
<1>5. ~started /\ ~timer /\ ctor \notin {"static", "create"} /\ writes = 0 /\ OnlyConnect(ready)
  BY <1>1, <1>2, <1>4, Called DEF ClientInv, Before
<1>6. ready # <<>> /\ ready \in Seq(Handler)
  BY <1>1, <1>2, Called
<1>7. OnlyConnect(rest)
  BY <1>5, <1>6, Taken
<1>8. \A h : ~Has(rest, h)
  BY <1>3, <1>7, <1>2 DEF Has, OnlyConnect, Quiet
<1>9. \A op : ~HasOp(rest, op)
  BY <1>3, <1>7, <1>2 DEF HasOp, OnlyConnect, Quiet
<1> HIDE DEF rest
<1>10. CASE HandleConnect /\ ok
  <2>1. /\ UNCHANGED <<startVars, timer, m_session, socket, dataVars, peerVars>>
        /\ ready' = rest
        /\ \/ /\ started' = TRUE /\ StartOp("read_data") /\ writes' = writes + 1
           \/ UNCHANGED <<started, pending, writes>>
    BY <1>1, <1>10 DEF HandleConnect
  <2>2. socket = "connected"
    BY <1>4, <1>10 DEF ClientInv, Before, Done
  <2>3. pending' = {} \/ pending' = {"read_data"}
    BY <1>3, <2>1 DEF StartOp
  <2>4. started' => pending' = {"read_data"}
    BY <1>3, <1>5, <2>1, <2>2 DEF StartOp, Open
  <2>5. TypeOK'
    <3>1. writes' \in Nat
      BY <2>1 DEF ClientInv, TypeOK
    <3>3. started' \in BOOLEAN
      BY <2>1, Zenon DEF ClientInv, TypeOK
    <3>2. pending' \in SUBSET (Reads \cup {"connect"})
      BY <1>2, <2>3
    <3> QED
      BY <1>3, <2>1, <3>1, <3>2, <3>3, TypeNext DEF ClientInv, TypeOK
  <2>6. Token'
    BY <1>3, <2>1, <2>3 DEF Token
  <2>7. Before'
    <3>1. OnlyConnect(ready') /\ "connect" \notin pending' /\ (~started' => pending' = {} /\ writes' = 0)
      BY <1>3, <1>5, <1>7, <2>1, <2>3
    <3> QED
      BY <1>2, <1>4, <1>5, <1>8, <1>9, <2>1, <2>2, <3>1 DEF Before
  <2>8. Reading' /\ Arrived'
    BY <1>4, <1>5, <1>8, <2>1, <2>4 DEF ClientInv, Reading, Arrived, OnlyConnect, Has, Done
  <2> QED
    BY <2>5, <2>6, <2>7, <2>8 DEF ClientInv
<1>11. CASE HandleConnectFailed /\ ~ok
  <2>1. /\ UNCHANGED <<startVars, timer, m_session, socket, started, writes, dataVars, peerVars>>
        /\ ready' = rest /\ pending' = {"connect"}
    BY <1>1, <1>11 DEF HandleConnectFailed, Reconnect
  <2>2. socket = "connecting"
    BY <1>4, <1>11 DEF ClientInv, Before, Failed
  <2>3. TypeOK' /\ Token'
    BY <1>3, <2>1 DEF ClientInv, TypeOK, Token
  <2>4. Before'
    BY <1>4, <1>5, <1>7, <1>8, <2>1, <2>2 DEF Before
  <2>5. Reading' /\ Arrived'
    BY <1>4, <1>5, <1>8, <2>1 DEF ClientInv, Reading, Arrived, OnlyConnect, Has, Done
  <2> QED
    BY <2>3, <2>4, <2>5 DEF ClientInv
<1> QED
  BY <1>1, <1>10, <1>11

(* A length has arrived: the body is read next, or the session closes.     *)
LEMMA StepReadData ==
  ASSUME ClientInv, HandleReadData
  PROVE  ClientInv'
<1> USE DEF ioVars, dataVars, startVars, peerVars
<1> DEFINE rest == Tail(ready)
           kind == Head(inbound).kind
<1>1. /\ Calls("read_data", TRUE) /\ ReadBody(kind)
      /\ UNCHANGED <<startVars, timer, m_session, socket, started, writes, dataVars,
                     server, push, peer, asked, sent>>
  BY DEF HandleReadData
<1>2. /\ "read_data" \in Handlers /\ "read_data" \in Chain /\ "read_size" \in Chain
      /\ "read_size" \in Reads /\ "close" \notin Chain /\ "connect" \notin Reads
      /\ Reads \subseteq Chain
  BY DEF Handlers, Chain, Reads
<1>3. /\ rest \in Seq(Handler) /\ Quiet(rest) /\ Single(rest) /\ pending = {}
      /\ \A g : Has(rest, g) => Has(ready, g)
      /\ \A g : Has(ready, g) => Has(rest, g) \/ g = [op |-> "read_data", ok |-> TRUE]
      /\ started => ~HasOp(rest, "connect")
  BY <1>1, <1>2, Rest
<1>4. /\ thread = "run" /\ Has(ready, Done("read_data"))
      /\ started /\ socket \in {"connected", "closed"}
  BY <1>1, <1>2, Called DEF Done
<1>5. inbound # <<>> /\ inbound \in Seq(Frame)
  BY <1>4 DEF ClientInv, Arrived, TypeOK
<1>6. ~Has(rest, Done("read_data")) /\ ~Has(rest, Done("read_size"))
  BY <1>2, <1>3 DEF Has, Quiet, Done
<1>7. m_data.kind = "empty"
  BY <1>3, <1>6 DEF ClientInv, Arrived, Done
<1> HIDE DEF rest, kind
<1>8. /\ Close \in Handler /\ Close.op = "close"
      /\ Done("read_size") \in Handler /\ Done("read_size").op = "read_size"
      /\ Failed("read_size") \in Handler /\ Failed("read_size").op = "read_size"
      /\ Done("read_size") # Done("read_data") /\ Failed("read_size") # Done("read_data")
      /\ Close # Done("read_data")
  BY HandlerTypes, <1>2 DEF Close, Done, Failed, Reads
<1>9. ASSUME pending' \subseteq Reads, inbound' \in Seq(Frame), ready' \in Seq(Handler),
             Token', ~HasOp(ready', "connect"), ~Has(ready', Done("read_data")), Reading'
      PROVE  ClientInv'
  <2>1. TypeOK'
    BY <1>1, <1>9, TypeNext DEF ClientInv, TypeOK
  <2>2. Arrived'
    BY <1>1, <1>7, <1>9 DEF Arrived
  <2>3. "connect" \notin pending'
    BY <1>2, <1>9
  <2> QED
    BY <1>1, <1>4, <1>9, <2>1, <2>2, <2>3, StepLinked
<1>10. CASE kind \in {"badsize", "empty"}
  <2> DEFINE h == IF kind = "badsize" THEN Close ELSE Done("read_size")
  <2>1. /\ ready' = Append(rest, h) /\ pending' = {}
        /\ inbound' = inbound \/ inbound' = Tail(inbound)
    BY <1>1, <1>3, <1>10 DEF ReadBody, rest
  <2>2. inbound' \in Seq(Frame)
    BY <1>5, <2>1, HeadTailProperties
  <2>3. h \in Handler /\ h # Done("read_data") /\ (h.op = "close" \/ h.op = "read_size")
    BY <1>8
  <2> HIDE DEF h
  <2>4. /\ ready' \in Seq(Handler) /\ Single(ready')
        /\ Has(ready', Done("read_data")) <=> Has(rest, Done("read_data"))
        /\ HasOp(ready', "connect") <=> HasOp(rest, "connect")
        /\ HasOp(ready', "close") \/ ~Quiet(ready')
    BY <1>2, <1>3, <2>1, <2>3, Queued
  <2>5. Token' /\ Reading'
    BY <2>1, <2>4 DEF Token, Reading
  <2> QED
    BY <1>3, <1>4, <1>6, <1>9, <2>1, <2>2, <2>4, <2>5
<1>11. CASE kind \notin {"badsize", "empty"}
  <2>1. /\ ready' = rest \o StartFailed("read_size") /\ StartOp("read_size") /\ inbound' = inbound
    BY <1>1, <1>11 DEF ReadBody, rest
  <2>2. CASE Open
    <3>1. ready' = rest /\ pending' = {"read_size"}
      BY <1>3, <2>1, <2>2, ConcatEmptySeq DEF StartFailed, StartOp
    <3>2. Token' /\ Reading'
      BY <1>3, <3>1 DEF Token, Reading
    <3> QED
      BY <1>2, <1>3, <1>4, <1>5, <1>6, <1>9, <2>1, <3>1, <3>2
  <2>3. CASE ~Open
    <3>1. ready' = Append(rest, Failed("read_size")) /\ pending' = {}
      BY <1>3, <1>8, <2>1, <2>3, OneMoreHandler DEF StartFailed, StartOp
    <3>2. /\ ready' \in Seq(Handler) /\ Single(ready')
          /\ Has(ready', Done("read_data")) <=> Has(rest, Done("read_data"))
          /\ HasOp(ready', "connect") <=> HasOp(rest, "connect")
          /\ ~Quiet(ready')
      BY <1>2, <1>3, <1>8, <3>1, Queued
    <3>3. Token' /\ Reading'
      BY <3>1, <3>2 DEF Token, Reading
    <3> QED
      BY <1>3, <1>4, <1>5, <1>6, <1>9, <2>1, <3>1, <3>2, <3>3
  <2> QED
    BY <2>2, <2>3
<1> QED
  BY <1>10, <1>11

(* A body has arrived: the next length is read, the frame is answered.     *)
LEMMA StepReadSize ==
  ASSUME ClientInv, HandleReadSize
  PROVE  ClientInv'
<1> USE DEF ioVars, dataVars, startVars, peerVars
<1> DEFINE rest == Tail(ready)
           next == StartFailed("read_data")
           reply == IF Replies(m_data.kind) > 0 THEN StartFailed("write") ELSE <<>>
           bad  == IF m_data.kind = "corrupt" THEN <<Close>> ELSE <<>>
<1>1. /\ Calls("read_size", TRUE) /\ m_data' = NoData /\ StartOp("read_data")
      /\ writes' = IF Open THEN writes + Replies(m_data.kind) ELSE writes
      /\ ready' = rest \o next \o reply \o bad
      /\ newest' = IF m_data.kind = "normal" THEN m_data.n ELSE newest
      /\ UNCHANGED <<startVars, timer, m_session, socket, started, peerVars>>
  BY DEF HandleReadSize
<1>2. /\ "read_size" \in Handlers /\ "read_size" \in Chain /\ "read_data" \in Chain
      /\ "read_data" \in Reads /\ "close" \notin Chain /\ "write" \notin Chain
      /\ "connect" \notin Reads /\ Reads \subseteq Chain
  BY DEF Handlers, Chain, Reads
<1>3. /\ rest \in Seq(Handler) /\ Quiet(rest) /\ Single(rest) /\ pending = {}
      /\ started => ~HasOp(rest, "connect")
  BY <1>1, <1>2, Rest
<1>4. /\ thread = "run" /\ started /\ socket \in {"connected", "closed"}
  BY <1>1, <1>2, Called
<1>5. ~Has(rest, Done("read_data"))
  BY <1>2, <1>3 DEF Has, Quiet, Done
<1> HIDE DEF rest
<1>6. /\ Close \in Handler /\ Close.op = "close"
      /\ Failed("read_data") \in Handler /\ Failed("read_data").op = "read_data"
      /\ Failed("write") \in Handler /\ Failed("write").op = "write"
      /\ Failed("read_data") # Done("read_data") /\ Failed("write") # Done("read_data")
      /\ Close # Done("read_data")
  BY HandlerTypes, <1>2 DEF Close, Done, Failed
(* s1, s2, s3: the queue with the next read, the reply and the close.      *)
<1> DEFINE s1 == rest \o next
           s2 == s1 \o reply
           s3 == s2 \o bad
           Good(s) == /\ s \in Seq(Handler) /\ Single(s) /\ ~HasOp(s, "connect")
                      /\ ~Has(s, Done("read_data"))
                      /\ IF Open THEN Quiet(s) ELSE ~Quiet(s)
<1>7. Good(s1)
  <2>1. CASE Open
    BY <1>3, <1>4, <1>5, <2>1, ConcatEmptySeq DEF StartFailed
  <2>2. CASE ~Open
    <3>1. s1 = Append(rest, Failed("read_data"))
      BY <1>3, <1>6, <2>2, OneMoreHandler DEF StartFailed
    <3>2. /\ s1 \in Seq(Handler) /\ Single(s1)
          /\ HasOp(s1, "connect") <=> HasOp(rest, "connect")
          /\ Has(s1, Done("read_data")) <=> Has(rest, Done("read_data"))
          /\ ~Quiet(s1)
      <4> HIDE DEF s1
      <4> QED
        BY <1>2, <1>3, <1>6, <3>1, Queued
    <3> HIDE DEF s1
    <3> QED
      BY <1>3, <1>4, <1>5, <2>2, <3>2
  <2> QED
    BY <2>1, <2>2
<1>8. ASSUME NEW s, Good(s), NEW h \in {Failed("write"), Close}
      PROVE  Good(s \o <<h>>) /\ Good(s \o <<>>)
  <2>1. s \o <<h>> = Append(s, h) /\ s \o <<>> = s
    BY <1>6, <1>8, OneMoreHandler, ConcatEmptySeq
  <2>2. /\ h \in Handler /\ h # Done("read_data") /\ h.op \notin Chain /\ h.op # "connect"
    BY <1>2, <1>6, <1>8
  <2> DEFINE t == Append(s, h)
  <2>3. /\ t \in Seq(Handler) /\ Single(t)
        /\ HasOp(t, "connect") <=> HasOp(s, "connect")
        /\ Has(t, Done("read_data")) <=> Has(s, Done("read_data"))
        /\ Quiet(t) <=> Quiet(s)
    <3>1. s \in Seq(Handler) /\ Single(s)
      BY <1>8
    <3> QED
      BY <2>2, <3>1, Queued
  <2> HIDE DEF t
  <2>4. Good(t)
    BY <1>8, <2>3
  <2> QED
    BY <1>8, <2>1, <2>4 DEF t
<1>9. reply \in {<<>>, <<Failed("write")>>} /\ bad \in {<<>>, <<Close>>}
  BY DEF StartFailed
<1> HIDE DEF Good, reply, bad, s1
<1>10. Good(s2)
  BY <1>7, <1>8, <1>9
<1> HIDE DEF s2
<1>11. Good(s3)
  BY <1>8, <1>9, <1>10
<1>12. ready' = s3
  BY <1>1 DEF s1, s2
<1> HIDE DEF s3
<1>13. /\ ready' \in Seq(Handler) /\ Single(ready') /\ ~HasOp(ready', "connect")
       /\ ~Has(ready', Done("read_data"))
       /\ IF Open THEN Quiet(ready') ELSE ~Quiet(ready')
  BY <1>11, <1>12 DEF Good
<1>14. pending' = IF Open THEN {"read_data"} ELSE {}
  BY <1>1, <1>3 DEF StartOp
<1>15. Token' /\ Reading' /\ "connect" \notin pending'
  BY <1>2, <1>13, <1>14 DEF Token, Reading
<1>16. Arrived'
  BY <1>1, <1>13 DEF Arrived, NoData
<1>17. TypeOK'
  <2>1. m_data' \in Frame
    BY <1>1, BoundAssumption DEF NoData, Frame, AllKinds
  <2>2. newest' \in 0..MaxFrames
    BY <1>1 DEF ClientInv, TypeOK, Frame
  <2>3. writes' \in Nat
    BY <1>1 DEF ClientInv, TypeOK, Replies
  <2>4. pending' \in SUBSET (Reads \cup {"connect"})
    BY <1>2, <1>14
  <2> QED
    BY <1>1, <1>13, <2>1, <2>2, <2>3, <2>4, TypeNext DEF ClientInv, TypeOK
<1> QED
  BY <1>1, <1>4, <1>13, <1>15, <1>16, <1>17, StepLinked

(* The rest of the handlers: a write, an error, a close.                   *)
LEMMA StepOthers ==
  ASSUME ClientInv, HandleWrite \/ HandleError \/ HandleClose
  PROVE  ClientInv'
<1> USE DEF ioVars, dataVars, startVars, peerVars
<1> DEFINE rest == Tail(ready)
<1>1. PICK op \in Handlers, ok \in BOOLEAN :
        /\ Calls(op, ok)
        /\ \/ HandleWrite /\ op = "write" /\ ok
           \/ HandleError /\ op \in Reads \cup {"write"} /\ ~ok
           \/ HandleClose /\ op = "close" /\ ok
  BY DEF HandleWrite, HandleError, HandleClose, Handlers
<1>2. /\ "close" \notin Chain /\ "write" \notin Chain /\ "connect" \notin Reads
      /\ Reads \subseteq Chain
  BY DEF Chain, Reads
<1>3. /\ rest \in Seq(Handler) /\ Single(rest)
      /\ started => ~HasOp(rest, "connect")
      /\ \A g : Has(rest, g) => Has(ready, g)
      /\ \A g : Has(ready, g) => Has(rest, g) \/ g = [op |-> op, ok |-> ok]
      /\ op \in Chain => Quiet(rest) /\ pending = {}
      /\ op \notin Chain => (Quiet(rest) <=> Quiet(ready))
      /\ op # "close" => (HasOp(ready, "close") <=> HasOp(rest, "close"))
  BY <1>1, Rest
<1>4. op # "connect"
  BY <1>1, <1>2
<1>5. thread = "run" /\ started /\ socket \in {"connected", "closed"}
  BY <1>1, <1>4, Called
<1>6. /\ UNCHANGED <<startVars, timer, m_session, started, pending, writes, dataVars,
                     server, push, asked, inbound, sent>>
      /\ socket' \in {"connected", "closed"} /\ peer' \in {"none", "open", "gone"}
      /\ socket' = socket \/ socket' = "closed"
  BY <1>1, <1>5 DEF HandleWrite, HandleError, HandleClose, AfterClose, ClientInv, TypeOK
<1>7. "connect" \notin pending
  BY <1>5 DEF ClientInv, Before
<1>8. [op |-> op, ok |-> ok] # Done("read_size")
  BY <1>1 DEF Done
<1> HIDE DEF rest
<1>9. ASSUME ready' \in Seq(Handler), Token', ~HasOp(ready', "connect"), Reading',
             \A g \in {Done("read_size"), Done("read_data")} : Has(ready', g) <=> Has(rest, g)
      PROVE  ClientInv'
  <2>1. TypeOK'
    BY <1>6, <1>9, TypeNext DEF ClientInv, TypeOK
  <2>2. Arrived'
    BY <1>3, <1>6, <1>8, <1>9 DEF ClientInv, Arrived
  <2> QED
    BY <1>5, <1>6, <1>7, <1>9, <2>1, <2>2, StepLinked
<1>10. CASE HandleWrite /\ op = "write"
  <2>1. ready' = rest /\ socket' = socket
    BY <1>10 DEF HandleWrite, rest
  <2>2. Quiet(rest) <=> Quiet(ready)
    BY <1>2, <1>3, <1>10
  <2>3. Token'
    BY <1>3, <1>6, <2>1, <2>2 DEF ClientInv, Token
  <2>4. Reading'
    BY <1>3, <1>6, <1>10, <2>1, <2>2 DEF ClientInv, Reading, Open
  <2> QED
    BY <1>3, <1>5, <1>9, <2>1, <2>3, <2>4
<1>11. CASE HandleError
  <2>1. ready' = Append(rest, Close) /\ Close \in Handler /\ Close.op = "close"
    BY <1>11, HandlerTypes DEF HandleError, OnError, rest, Close, Done
  <2>2. /\ ready' \in Seq(Handler) /\ HasOp(ready', "close")
        /\ \A g : g # Close => (Has(ready', g) <=> Has(rest, g))
        /\ HasOp(ready', "connect") <=> HasOp(rest, "connect")
        /\ Quiet(ready') <=> Quiet(rest)
        /\ Single(ready')
    BY <1>2, <1>3, <2>1, Queued
  <2>3. Token'
    BY <1>3, <1>6, <2>2 DEF ClientInv, Token
  <2>4. Reading'
    BY <2>2 DEF Reading
  <2> QED
    BY <1>3, <1>5, <1>9, <2>2, <2>3, <2>4 DEF Close, Done
<1>12. CASE HandleClose /\ op = "close"
  <2>1. ready' = rest /\ socket' = "closed"
    BY <1>12 DEF HandleClose, AfterClose, rest
  <2>2. Token'
    BY <1>2, <1>3, <1>6, <1>12, <2>1 DEF ClientInv, Token
  <2>3. Reading'
    BY <2>1 DEF Reading, Open
  <2> QED
    BY <1>3, <1>5, <1>9, <2>1, <2>2, <2>3
<1> QED
  BY <1>1, <1>10, <1>11, <1>12

(* Every step preserves the invariant.                                     *)
LEMMA StepClient == ClientInv /\ [Next]_vars => ClientInv'
BY StepStartup, StepCompletes, StepServer, StepConnect, StepReadData, StepReadSize, StepOthers
   DEF Next, RunHandler

LEMMA AlwaysClient == Spec => []ClientInv
BY InitClient, StepClient, PTL DEF Spec
-----------------------------------------------------------------------------
(* Every variable of the client keeps its type.                            *)
THEOREM TypeCorrect == Spec => []TypeOK
<1>1. ClientInv => TypeOK
  BY DEF ClientInv
<1> QED
  BY AlwaysClient, <1>1, PTL

(* At most one read is outstanding or waits to be called, and a started    *)
(* connection has it or is about to be closed.                             *)
THEOREM ReadChainCorrect == Spec => []ReadChain
<1>1. ClientInv => ReadChain
  <2> SUFFICES ASSUME ClientInv PROVE ReadChain
    OBVIOUS
  <2> DEFINE P == pending \cap Reads
             R == InReady(Reads)
  <2>1. /\ Reads \subseteq Chain /\ Chain = Reads \cup {"connect"}
    BY DEF Chain
  <2>2. /\ \A a, b \in P : a = b
        /\ \A i, j \in R : i = j
        /\ P # {} => R = {}
    BY <2>1 DEF ClientInv, Token, Single, Quiet, InReady
  <2>3. ASSUME NEW S, \A a, b \in S : a = b
        PROVE  /\ Cardinality(S) \in Nat /\ Cardinality(S) = IF S = {} THEN 0 ELSE 1
    <3>1. CASE S = {}
      BY <3>1, FS_EmptySet
    <3>2. CASE S # {}
      <4>1. PICK x : S = {x}
        BY <2>3, <3>2
      <4>2. Cardinality({x}) = 1
        BY FS_Singleton
      <4> QED
        BY <3>2, <4>1, <4>2
    <3> QED
      BY <3>1, <3>2
  <2> HIDE DEF P, R
  <2>4. /\ Cardinality(P) = IF P = {} THEN 0 ELSE 1
        /\ Cardinality(R) = IF R = {} THEN 0 ELSE 1
    BY <2>2, <2>3
  <2>5. Links = Cardinality(P) + Cardinality(R)
    BY DEF Links, P, R
  <2>6. Links <= 1
    BY <2>2, <2>4, <2>5
  <2>7. ASSUME started, Open
        PROVE  Links = 1 \/ InReady({"close"}) # {}
    <3>1. pending # {} \/ ~Quiet(ready) \/ HasOp(ready, "close")
      BY <2>7 DEF ClientInv, Reading
    <3>2. "connect" \notin pending /\ ~HasOp(ready, "connect")
      BY <2>7 DEF ClientInv, Before
    <3>3. pending # {} => P # {}
      BY <3>2 DEF P, ClientInv, TypeOK
    <3>4. ~Quiet(ready) => R # {}
      BY <2>1, <3>2 DEF R, Quiet, HasOp, InReady
    <3>5. HasOp(ready, "close") => InReady({"close"}) # {}
      BY DEF HasOp, InReady
    <3> QED
      BY <2>2, <2>4, <2>5, <3>1, <3>3, <3>4, <3>5
  <2> QED
    BY <2>6, <2>7 DEF ReadChain
<1> QED
  BY AlwaysClient, <1>1, PTL
-----------------------------------------------------------------------------
(* With a server that only answers, one message is under way at a time:    *)
(* in a write, at the server, on its way back, or in m_data.  A write that *)
(* is queued comes before the body of the frame that answers it.           *)
Held    == IF m_data.kind = "empty" THEN 0 ELSE 1
Traffic == writes + asked + Len(inbound) + Held
Silent  == writes = 0 /\ asked = 0 /\ inbound = <<>>
Talk(s) ==
  /\ Traffic <= 1
  /\ ~started => asked = 0 /\ inbound = <<>>
  /\ Has(s, Done("read_size")) => Silent
  /\ Ordered(s)
  /\ Open => OneWrite(s) /\ (writes > 0 => ~HasOp(s, "write"))
TalkInv == ~push => Talk(ready)

LEMMA Sizes ==
  ASSUME ClientInv
  PROVE  /\ Len(inbound) \in Nat /\ writes \in Nat /\ asked \in Nat
         /\ Held \in {0, 1} /\ (Held = 0 <=> m_data.kind = "empty")
         /\ inbound = <<>> <=> Len(inbound) = 0
         /\ inbound # <<>> => Len(Tail(inbound)) = Len(inbound) - 1
<1>1. inbound \in Seq(Frame)
  BY DEF ClientInv, TypeOK
<1>2. Len(inbound) \in Nat /\ (inbound = <<>> <=> Len(inbound) = 0)
  BY <1>1, EmptySeq, LenProperties
<1>3. inbound # <<>> => Len(Tail(inbound)) = Len(inbound) - 1
  BY <1>1, HeadTailProperties
<1> QED
  BY <1>2, <1>3 DEF Held, ClientInv, TypeOK

LEMMA TalkQueued ==
  ASSUME NEW s \in Seq(Handler), NEW h \in Handler, Talk(s),
         h.op # "write", h # Done("read_size")
  PROVE  Talk(Append(s, h))
<1> DEFINE t == Append(s, h)
<1>1. /\ \A g : Has(t, g) <=> Has(s, g) \/ h = g
      /\ \A op : HasOp(t, op) <=> HasOp(s, op) \/ h.op = op
      /\ OneWrite(s) => OneWrite(t)
      /\ Ordered(s) => Ordered(t)
  BY Queued
<1> HIDE DEF t
<1>2. Talk(t)
  BY <1>1 DEF Talk
<1> QED
  BY <1>2 DEF t

LEMMA TalkTaken ==
  ASSUME NEW s \in Seq(Handler), s # <<>>, Talk(s)
  PROVE  Talk(Tail(s))
<1> DEFINE t == Tail(s)
<1>1. /\ \A g : Has(t, g) => Has(s, g)
      /\ \A op : HasOp(t, op) => HasOp(s, op)
      /\ OneWrite(s) => OneWrite(t)
      /\ Ordered(s) => Ordered(t)
  BY Taken
<1> HIDE DEF t
<1>2. Talk(t)
  BY <1>1 DEF Talk
<1> QED
  BY <1>2 DEF t

(* A step that leaves the messages alone.                                  *)
LEMMA TalkStill ==
  ASSUME Talk(ready'), UNCHANGED <<writes, asked, inbound, m_data, started>>, Open' => Open
  PROVE  Talk(ready)'
BY DEF Talk, Traffic, Held, Silent

(* Before start() nothing is under way.                                    *)
LEMMA NothingYet ==
  ASSUME ClientInv, Talk(ready), ~started
  PROVE  /\ Silent /\ Held = 0 /\ ~HasOp(ready, "write") /\ ~Has(ready, Done("read_size"))
         /\ OneWrite(ready)
<1>1. writes = 0 /\ OnlyConnect(ready) /\ asked = 0 /\ inbound = <<>>
  BY DEF ClientInv, Before, Talk
<1>2. ~HasOp(ready, "write") /\ ~Has(ready, Done("read_size")) /\ OneWrite(ready)
  BY <1>1 DEF HasOp, Has, Done, OnlyConnect, OneWrite
<1> QED
  BY <1>1, <1>2 DEF Silent, Held, ClientInv, Arrived

LEMMA TalkOutside ==
  ASSUME ClientInv, Talk(ready), ~push, Startup \/ Server \/ UNCHANGED vars
  PROVE  Talk(ready)'
<1> USE DEF ioVars, dataVars, startVars, peerVars
<1>1. CASE Startup \/ ServerToggles \/ PeerLeaves \/ UNCHANGED vars
  <2>1. ~timer /\ (ctor = "static" => ~m_session)
    BY DEF ClientInv, Before
  <2>2. /\ UNCHANGED <<writes, asked, inbound, m_data, started, ready>>
        /\ socket' = socket \/ socket' = "connecting"
    BY <1>1, <2>1 DEF Startup, CheckConnection, CreateThread, SetFlag, TestFlag, Connect,
                      ServerToggles, PeerLeaves, vars
  <2> QED
    BY <2>2, TalkStill DEF Open
<1>2. CASE ServerAnswers
  <2> PICK kind \in Kinds : ServerSends(kind)
    BY <1>2 DEF ServerAnswers
  <2>1. /\ asked > 0 /\ asked' = asked - 1
        /\ UNCHANGED <<writes, m_data, started, ready, socket>>
        /\ inbound' = Append(inbound, [kind |-> kind, n |-> sent + 1])
    BY Sizes DEF ServerSends
  <2>2. Len(inbound') = Len(inbound) + 1
    <3>1. inbound \in Seq(Frame) /\ [kind |-> kind, n |-> sent + 1] \in Frame
      BY BoundAssumption, KindsAssumption DEF ServerSends, ClientInv, TypeOK, Frame
    <3> QED
      BY <2>1, <3>1, AppendProperties
  <2>3. started /\ ~Has(ready, Done("read_size"))
    BY <2>1, Sizes DEF Talk, Silent
  <2>4. Traffic' = Traffic
    <3> DEFINE n == Len(inbound)
    <3>1. n \in Nat /\ writes \in Nat /\ asked \in Nat /\ Held \in {0, 1}
      BY Sizes
    <3>2. Len(inbound') = n + 1 /\ Held' = Held /\ writes' = writes /\ asked' = asked - 1
      BY <2>1, <2>2 DEF Held
    <3>3. Traffic = writes + asked + n + Held
      BY DEF Traffic
    <3>4. Traffic' = writes' + asked' + Len(inbound') + Held'
      BY DEF Traffic
    <3> HIDE DEF n
    <3> QED
      BY <3>1, <3>2, <3>3, <3>4
  <2> QED
    BY <2>1, <2>3, <2>4 DEF Talk, Open
<1> QED
  BY <1>1, <1>2 DEF Server

LEMMA TalkCompletes ==
  ASSUME ClientInv, ClientInv', Talk(ready), ~push, Completion
  PROVE  Talk(ready)'
<1> USE DEF ioVars, dataVars, startVars, peerVars
<1>0. ready \in Seq(Handler)
  BY DEF ClientInv, TypeOK
<1>1. ASSUME NEW op \in Chain, NEW ok \in BOOLEAN, Completes(op, ok),
             [op |-> op, ok |-> ok] # Done("read_size"),
             UNCHANGED <<writes, asked, inbound, m_data>>,
             Open' => Open \/ ~started
      PROVE  Talk(ready)'
  <2> DEFINE h == [op |-> op, ok |-> ok]
  <2>1. ready' = Append(ready, h) /\ h \in Handler /\ started' = started
    BY <1>1, Completed DEF Completes
  <2>2. h.op # "write"
    BY <1>1 DEF Chain, Reads
  <2>3. Talk(ready')
    BY <1>0, <1>1, <2>1, <2>2, TalkQueued
  <2>4. CASE Open' => Open
    BY <1>1, <2>1, <2>3, <2>4, TalkStill
  <2>5. CASE ~started
    <3>1. writes = 0 /\ OneWrite(ready) /\ OneWrite(ready')
      BY <1>0, <2>1, <2>2, <2>5, NothingYet, Queued DEF Silent
    <3> QED
      BY <1>1, <2>1, <2>3, <3>1 DEF Talk, Traffic, Held, Silent
  <2> QED
    BY <1>1, <2>4, <2>5
<1>2. /\ Reads \subseteq Chain /\ "connect" \in Chain
      /\ "read_data" \in Reads /\ "read_size" \in Reads
  BY DEF Chain, Reads
<1>3. CASE Connected \/ Refused
  <2>1. PICK ok \in BOOLEAN : Completes("connect", ok)
                              /\ UNCHANGED <<writes, asked, inbound, m_data>>
    BY <1>3 DEF Connected, Refused
  <2>2. ~started
    BY <1>2, <2>1, Completed
  <2> QED
    BY <1>1, <1>2, <2>1, <2>2 DEF Done
<1>4. CASE LengthRead \/ ReadFails
  <2>1. PICK op \in Reads, ok \in BOOLEAN :
          /\ Completes(op, ok) /\ (op = "read_size" => ~ok)
          /\ UNCHANGED <<writes, asked, inbound, m_data, socket>>
    BY <1>2, <1>4 DEF LengthRead, ReadFails
  <2> QED
    BY <1>1, <1>2, <2>1 DEF Done, Open
<1>5. CASE BodyRead
  <2> DEFINE h == Done("read_size")
  <2>1. /\ Completes("read_size", TRUE) /\ inbound # <<>>
        /\ inbound' = Tail(inbound) /\ UNCHANGED <<socket, writes, asked>>
        /\ ready' = Append(ready, h) /\ started' = started
    BY <1>5 DEF BodyRead, Completes, Done
  <2>2. h \in Handler /\ h.op # "write" /\ started
    BY <1>2, <2>1, Completed DEF Done
  <2>3. /\ OneWrite(ready) => OneWrite(ready')
        /\ Ordered(ready')
        /\ HasOp(ready', "write") <=> HasOp(ready, "write")
    BY <1>0, <2>1, <2>2, Queued DEF Talk, Done
  <2>4. writes = 0 /\ asked = 0 /\ Len(inbound) = 1 /\ Len(inbound') = 0
    BY <2>1, Sizes DEF Talk, Traffic
  <2>5. inbound' = <<>>
    <3>1. inbound' \in Seq(Frame)
      BY DEF ClientInv, TypeOK
    <3> QED
      BY <2>4, <3>1, EmptySeq
  <2>6. Held' \in {0, 1}
    BY DEF Held
  <2> QED
    BY <2>1, <2>2, <2>3, <2>4, <2>5, <2>6 DEF Talk, Traffic, Silent, Open
<1>6. CASE Written \/ WriteFails
  <2>1. PICK h \in {Done("write"), Failed("write")} :
          /\ writes > 0 /\ writes' = writes - 1 /\ ready' = Append(ready, h)
          /\ UNCHANGED <<socket, started, m_data, inbound>>
          /\ asked' = asked \/ asked' = asked + 1
    BY <1>6 DEF Written, WriteFails
  <2>2. h \in Handler /\ h.op = "write" /\ h # Done("read_size")
    <3>1. "write" \in Handlers /\ \A x : Done(x).op = x /\ Failed(x).op = x
      BY DEF Handlers, Done, Failed
    <3>2. Done("write") \in Handler /\ Failed("write") \in Handler
      BY <3>1, HandlerTypes
    <3>3. Done("read_size").op = "read_size"
      BY <3>1
    <3>4. h \in Handler /\ h.op = "write"
      BY <2>1, <3>1, <3>2
    <3> QED
      BY <3>3, <3>4
  <2>3. writes = 1 /\ writes' = 0 /\ ~Has(ready, Done("read_size")) /\ started
    BY <2>1, Sizes DEF Talk, Traffic, Silent, ClientInv, Before
  <2>4. /\ Open => OneWrite(ready')
        /\ Ordered(ready')
        /\ ~Has(ready', Done("read_size"))
    BY <1>0, <2>1, <2>2, <2>3, Queued DEF Talk
  <2>5. Traffic' <= Traffic
    BY <2>1, Sizes DEF Traffic, Held
  <2>6. Traffic \in Nat /\ Traffic' \in Int
    BY <2>1, Sizes DEF Traffic, Held
  <2> QED
    BY <2>1, <2>3, <2>4, <2>5, <2>6 DEF Talk, Open
<1> QED
  BY <1>3, <1>4, <1>5, <1>6 DEF Completion

LEMMA TalkReadSize ==
  ASSUME ClientInv, ClientInv', Talk(ready), ~push, HandleReadSize
  PROVE  Talk(ready)'
<1> USE DEF ioVars, dataVars, startVars, peerVars
<1> DEFINE rest == Tail(ready)
           replies == Replies(m_data.kind) > 0
           bad  == IF m_data.kind = "corrupt" THEN <<Close>> ELSE <<>>
<1>1. /\ Calls("read_size", TRUE) /\ m_data' = NoData
      /\ writes' = IF Open THEN writes + Replies(m_data.kind) ELSE writes
      /\ ready' = rest \o StartFailed("read_data")
                   \o (IF replies THEN StartFailed("write") ELSE <<>>) \o bad
      /\ UNCHANGED <<asked, inbound, started, socket>>
  BY DEF HandleReadSize
<1>2. /\ "read_size" \in Handlers /\ "read_size" \in Chain
  BY DEF Handlers, Chain, Reads
<1>3. /\ ready # <<>> /\ ready \in Seq(Handler) /\ rest \in Seq(Handler) /\ Quiet(rest)
      /\ Has(ready, Done("read_size")) /\ Head(ready) = Done("read_size") /\ started
  BY <1>1, <1>2, Called, Rest DEF Calls, Done
<1>4. ~HasOp(ready, "write") /\ ~HasOp(rest, "write")
  BY <1>3, Taken DEF Talk
<1>5. ~Has(rest, Done("read_size"))
  BY <1>2, <1>3 DEF Quiet, Has, Done
<1>6. Silent
  BY <1>3 DEF Talk
<1>7. replies => Held = 1 /\ Replies(m_data.kind) = 1
  BY DEF Replies, Held
<1>8. /\ Held' = 0 /\ Replies(m_data.kind) \in {0, 1}
  BY <1>1 DEF Held, NoData, Replies
<1>9. Traffic' <= 1
  BY <1>1, <1>6, <1>8, Sizes DEF Traffic, Silent
<1> DEFINE Good(s) == /\ s \in Seq(Handler) /\ ~Has(s, Done("read_size"))
                      /\ Ordered(s) /\ (Open => ~HasOp(s, "write"))
<1> HIDE DEF rest, bad, replies
<1>10. Good(rest)
  <2>1. Ordered(rest)
    BY <1>4 DEF Ordered, HasOp
  <2> QED
    BY <1>3, <1>4, <1>5, <2>1
<1>11. ASSUME NEW s, Good(s), NEW h \in Handler, h # Done("read_size"), Open => h.op # "write"
       PROVE  Good(s \o <<h>>)
  <2> DEFINE t == Append(s, h)
  <2>1. s \o <<h>> = t
    BY <1>11, OneMoreHandler
  <2>2. /\ t \in Seq(Handler)
        /\ Has(t, Done("read_size")) <=> Has(s, Done("read_size"))
        /\ HasOp(t, "write") <=> HasOp(s, "write") \/ h.op = "write"
        /\ Ordered(t)
    <3>1. s \in Seq(Handler) /\ Ordered(s) /\ ~Has(s, Done("read_size"))
      BY <1>11
    <3> QED
      BY <1>11, <3>1, Queued
  <2> HIDE DEF t
  <2>3. Good(t)
    BY <1>11, <2>2
  <2> QED
    BY <2>1, <2>3
<1>12. ASSUME NEW s, Good(s) PROVE Good(s \o <<>>)
  BY <1>12, ConcatEmptySeq
<1>13. /\ \A h \in {Close, Failed("read_data"), Failed("write")} :
             h \in Handler /\ h # Done("read_size")
       /\ Close.op # "write" /\ Failed("read_data").op # "write"
  BY HandlerTypes DEF Close, Done, Failed, Handlers, Reads
<1> HIDE DEF Good
<1>14. Good(rest \o StartFailed("read_data"))
  BY <1>10, <1>11, <1>12, <1>13 DEF StartFailed
<1>15. Good(rest \o StartFailed("read_data") \o (IF replies THEN StartFailed("write") ELSE <<>>))
  BY <1>14, <1>11, <1>12, <1>13 DEF StartFailed
<1>16. Good(ready')
  BY <1>1, <1>15, <1>11, <1>12, <1>13 DEF bad
<1>17. Ordered(ready') /\ ~Has(ready', Done("read_size")) /\ (Open' => ~HasOp(ready', "write"))
  BY <1>1, <1>16 DEF Good, Open
<1>18. Open' => OneWrite(ready')
  BY <1>17 DEF OneWrite, HasOp
<1> QED
  BY <1>1, <1>3, <1>9, <1>17, <1>18 DEF Talk

LEMMA TalkHandles ==
  ASSUME ClientInv, ClientInv', Talk(ready), ~push, RunHandler
  PROVE  Talk(ready)'
<1> USE DEF ioVars, dataVars, startVars, peerVars
<1> DEFINE rest == Tail(ready)
<1>1. ready # <<>> /\ ready \in Seq(Handler) /\ rest \in Seq(Handler)
  <2>1. ready # <<>>
    BY DEF RunHandler, HandleConnect, HandleConnectFailed, HandleReadData, HandleReadSize,
           HandleWrite, HandleError, HandleClose, Calls
  <2> QED
    BY <2>1, HeadTailProperties DEF ClientInv, TypeOK
<1>2. Talk(rest)
  BY <1>1, TalkTaken
<1>3. \A h \in {Close, Failed("read_data"), Failed("read_size")} :
        h \in Handler /\ h.op # "write" /\ h # Done("read_size")
  <2>1. Close.op = "close" /\ Failed("read_data").op = "read_data"
        /\ Failed("read_size").op = "read_size" /\ ~Failed("read_size").ok
        /\ Done("read_size").op = "read_size" /\ Done("read_size").ok
    BY DEF Close, Done, Failed
  <2>2. "read_data" \in Handlers /\ "read_size" \in Handlers
    BY DEF Handlers, Reads
  <2> QED
    BY <2>1, <2>2, HandlerTypes
<1>4. \A h \in {Close, Failed("read_data"), Failed("read_size")} : Talk(Append(rest, h))
  BY <1>1, <1>2, <1>3, TalkQueued
<1>5. CASE HandleConnectFailed \/ HandleWrite \/ HandleError \/ HandleClose
  <2>1. /\ UNCHANGED <<writes, asked, inbound, m_data, started>>
        /\ ready' = rest \/ ready' = Append(rest, Close)
        /\ Open' => Open
    BY <1>5 DEF HandleConnectFailed, HandleWrite, HandleError, OnError, HandleClose, AfterClose, Open
  <2>2. Talk(ready')
    BY <1>2, <1>4, <2>1
  <2> QED
    BY <2>1, <2>2, TalkStill
<1>6. CASE HandleConnect
  <2>1. Calls("connect", TRUE) /\ ready' = rest
        /\ UNCHANGED <<asked, inbound, m_data, socket>>
        /\ \/ started' = TRUE /\ writes' = writes + 1
           \/ UNCHANGED <<started, writes>>
    BY <1>6 DEF HandleConnect
  <2>2. ~started
    <3>1. HasOp(ready, "connect")
      BY <2>1, Called DEF Handlers
    <3> QED
      BY <3>1 DEF ClientInv, Before
  <2>3. /\ Silent /\ Held = 0 /\ ~HasOp(ready, "write") /\ ~Has(ready, Done("read_size"))
    BY <2>2, NothingYet
  <2>4. ~HasOp(rest, "write") /\ ~Has(rest, Done("read_size"))
    BY <1>1, <2>3, Taken
  <2>5. Ordered(rest) /\ OneWrite(rest)
    BY <2>4 DEF Ordered, OneWrite, HasOp
  <2>6. Traffic' <= 1
    BY <2>1, <2>3, Sizes DEF Traffic, Silent, Held
  <2> HIDE DEF rest
  <2> QED
    BY <2>1, <2>3, <2>4, <2>5, <2>6 DEF Talk, Silent
<1>7. CASE HandleReadData
  <2>1. /\ Calls("read_data", TRUE) /\ ReadBody(Head(inbound).kind)
        /\ UNCHANGED <<socket, started, writes, m_data, asked>>
    BY <1>7 DEF HandleReadData
  <2>2. CASE inbound' = inbound
    <3>1. \/ ready' = Append(rest, Close) \/ ready' = rest \o StartFailed("read_size")
          \/ ready' = Append(rest, Done("read_size")) /\ inbound = Tail(inbound)
      BY <2>1, <2>2 DEF ReadBody
    <3>2. inbound # <<>>
      <4>1. Has(ready, Done("read_data"))
        BY <2>1, HandlerTypes, Called DEF Done, Handlers, Reads
      <4> QED
        BY <4>1 DEF ClientInv, Arrived
    <3>3. Len(inbound) # Len(Tail(inbound))
      <4> DEFINE n == Len(inbound)
      <4>1. n \in Nat /\ Len(Tail(inbound)) = n - 1
        BY <3>2, Sizes
      <4> HIDE DEF n
      <4>2. n # Len(Tail(inbound))
        BY <4>1
      <4> QED
        BY <4>2 DEF n
    <3>4. rest \o <<Failed("read_size")>> = Append(rest, Failed("read_size")) /\ rest \o <<>> = rest
      BY <1>1, <1>3, OneMoreHandler, ConcatEmptySeq
    <3>5. ready' \in {rest, Append(rest, Close), Append(rest, Failed("read_size"))}
      BY <3>1, <3>3, <3>4 DEF StartFailed
    <3>6. Talk(ready')
      BY <1>2, <1>4, <3>5
    <3> QED
      BY <2>1, <2>2, <3>6, TalkStill DEF Open
  <2>3. CASE inbound' # inbound
    <3> DEFINE h == Done("read_size")
    <3>1. ready' = Append(rest, h) /\ inbound' = Tail(inbound)
      BY <2>1, <2>3 DEF ReadBody
    <3>2. inbound # <<>>
      <4>1. Has(ready, Done("read_data"))
        BY <2>1, HandlerTypes, Called DEF Done, Handlers, Reads
      <4> QED
        BY <4>1 DEF ClientInv, Arrived
    <3>3. writes = 0 /\ asked = 0 /\ Len(inbound) = 1 /\ Len(inbound') = 0 /\ Held = 0
      BY <3>1, <3>2, Sizes DEF Talk, Traffic
    <3>4. inbound' = <<>>
      <4>1. inbound' \in Seq(Frame)
        BY DEF ClientInv, TypeOK
      <4> QED
        BY <3>3, <4>1, EmptySeq
    <3>5. h \in Handler /\ h.op # "write"
      BY HandlerTypes DEF Done, Handlers, Reads
    <3>6. /\ OneWrite(rest) => OneWrite(ready')
          /\ Ordered(rest) => Ordered(ready')
      BY <1>1, <3>1, <3>5, Queued
    <3> HIDE DEF rest
    <3> QED
      BY <1>2, <2>1, <3>3, <3>4, <3>6 DEF Talk, Traffic, Silent, Held, Open
  <2> QED
    BY <2>2, <2>3
<1>8. CASE HandleReadSize
  BY <1>8, TalkReadSize
<1> QED
  BY <1>5, <1>6, <1>7, <1>8 DEF RunHandler

LEMMA StepTalk == ClientInv /\ TalkInv /\ [Next]_vars => TalkInv'
<1> SUFFICES ASSUME ClientInv, TalkInv, [Next]_vars, ~push' PROVE Talk(ready)'
  BY DEF TalkInv
<1>1. ClientInv'
  BY StepClient
<1>2. push' = push
  BY DEF Next, Startup, CheckConnection, CreateThread, SetFlag, TestFlag, Connect, RunHandler,
         HandleConnect, HandleConnectFailed, HandleReadData, HandleReadSize, HandleWrite,
         HandleError, HandleClose, Completion, Connected, Refused, LengthRead, BodyRead,
         ReadFails, Written, WriteFails, Server, ServerAnswers, ServerSends, ServerToggles,
         PeerLeaves, vars, peerVars
<1>3. Talk(ready)
  BY <1>2 DEF TalkInv
<1> QED
  BY <1>1, <1>2, <1>3, TalkOutside, TalkCompletes, TalkHandles DEF Next

LEMMA InitTalk == Init => TalkInv
<1> SUFFICES ASSUME Init PROVE Talk(ready)
  BY DEF TalkInv
<1>1. DOMAIN ready = {} /\ Len(inbound) = 0
  BY EmptySeq DEF Init
<1> QED
  BY <1>1 DEF Init, Talk, Traffic, Held, NoData, Silent, Has, HasOp, Ordered, Open

(* With a server that only answers, no write is started while another is   *)
(* outstanding: the ping-pong of the protocol alone keeps the writes apart.*)
THEOREM OneWriterCorrect == Spec => []OneWriter
<1>1. ClientInv /\ TalkInv => OneWriter
  <2> SUFFICES ASSUME ClientInv, Talk(ready)
               PROVE  writes + (IF Open THEN Cardinality(InReady({"write"})) ELSE 0) <= 1
    BY DEF TalkInv, OneWriter
  <2>1. writes \in Nat /\ writes <= 1
    BY Sizes DEF Talk, Traffic
  <2> DEFINE W == InReady({"write"})
  <2>2. CASE ~Open
    BY <2>1, <2>2
  <2>3. CASE Open
    <3>1. \A i, j \in W : i = j
      BY <2>3 DEF Talk, OneWrite, InReady
    <3>2. writes > 0 => W = {}
      BY <2>3 DEF Talk, HasOp, InReady
    <3> HIDE DEF W
    <3>3. Cardinality(W) \in {0, 1} /\ (W = {} => Cardinality(W) = 0)
      <4>1. CASE W = {}
        BY <4>1, FS_EmptySet
      <4>2. CASE W # {}
        <5>1. PICK x : W = {x}
          BY <3>1, <4>2
        <5>2. Cardinality({x}) = 1
          BY FS_Singleton
        <5> QED
          BY <4>2, <5>1, <5>2
      <4> QED
        BY <4>1, <4>2
    <3> QED
      BY <2>1, <2>3, <3>2, <3>3 DEF W
  <2> QED
    BY <2>2, <2>3
<1>2. Spec => []TalkInv
  BY AlwaysClient, InitTalk, StepTalk, PTL DEF Spec
<1> QED
  BY AlwaysClient, <1>1, <1>2, PTL
-----------------------------------------------------------------------------
(* Frames are numbered as they are sent, and read in that order.           *)
Numbered ==
  /\ newest <= sent
  /\ \A i \in DOMAIN inbound : newest < inbound[i].n /\ inbound[i].n <= sent
  /\ \A i, j \in DOMAIN inbound : i < j => inbound[i].n < inbound[j].n
  /\ m_data.kind # "empty" =>
       /\ newest < m_data.n /\ m_data.n <= sent
       /\ \A i \in DOMAIN inbound : m_data.n < inbound[i].n

LEMMA Frames ==
  ASSUME NEW s \in Seq(Frame)
  PROVE  /\ Len(s) \in Nat /\ DOMAIN s = 1..Len(s)
         /\ \A i \in DOMAIN s : s[i] \in Frame /\ s[i].n \in Nat
         /\ s # <<>> => /\ Tail(s) \in Seq(Frame) /\ Head(s) = s[1] /\ 1 \in DOMAIN s
                        /\ \A i \in DOMAIN Tail(s) : i \in Nat /\ i + 1 \in DOMAIN s
                                                     /\ i > 0 /\ Tail(s)[i] = s[i + 1]
<1>1. /\ Len(s) \in Nat /\ DOMAIN s = 1..Len(s) /\ \A i \in DOMAIN s : s[i] \in Frame
  BY LenProperties, ElementOfSeq
<1>2. \A f \in Frame : f.n \in Nat
  BY BoundAssumption DEF Frame
<1>3. ASSUME s # <<>>
      PROVE  /\ Tail(s) \in Seq(Frame) /\ Head(s) = s[1] /\ 1 \in DOMAIN s
             /\ DOMAIN Tail(s) = 1..(Len(s) - 1)
             /\ \A i \in 1..(Len(s) - 1) : Tail(s)[i] = s[i + 1]
  <2>1. Len(s) > 0
    BY <1>1, <1>3, EmptySeq
  <2>2. Tail(s) \in Seq(Frame) /\ Len(Tail(s)) = Len(s) - 1
        /\ \A i \in 1..Len(Tail(s)) : Tail(s)[i] = s[i + 1]
    BY <1>3, HeadTailProperties
  <2>3. DOMAIN Tail(s) = 1..Len(Tail(s))
    BY <2>2, LenProperties
  <2> QED
    BY <1>1, <2>1, <2>2, <2>3
<1>4. ASSUME s # <<>>, NEW i \in DOMAIN Tail(s)
      PROVE  i \in Nat /\ i + 1 \in DOMAIN s /\ i > 0 /\ Tail(s)[i] = s[i + 1]
  <2>1. i \in 1..(Len(s) - 1)
    BY <1>3, <1>4
  <2> QED
    BY <1>1, <1>3, <1>4, <2>1
<1> QED
  BY <1>1, <1>2, <1>3, <1>4

(* Taking the oldest frame, whether it is kept in m_data or not.           *)
LEMMA NumberedTaken ==
  ASSUME ClientInv, Numbered, inbound # <<>>, inbound' = Tail(inbound),
         UNCHANGED <<newest, sent>>,
         m_data' = Head(inbound) \/ (m_data' = m_data /\ m_data.kind = "empty")
  PROVE  Numbered'
<1>1. inbound \in Seq(Frame) /\ newest \in Nat /\ sent \in Nat
  BY BoundAssumption DEF ClientInv, TypeOK
<1>2. /\ DOMAIN inbound = 1..Len(inbound) /\ Len(inbound) \in Nat
      /\ \A i \in DOMAIN inbound : inbound[i].n \in Nat
      /\ Head(inbound) = inbound[1] /\ 1 \in DOMAIN inbound
      /\ \A i \in DOMAIN inbound' : i \in Nat /\ i + 1 \in DOMAIN inbound
                                   /\ i > 0 /\ inbound'[i] = inbound[i + 1]
  BY <1>1, Frames
<1>3. \A i \in DOMAIN inbound' : newest < inbound'[i].n /\ inbound'[i].n <= sent
  BY <1>2 DEF Numbered
<1>4. \A i, j \in DOMAIN inbound' : i < j => inbound'[i].n < inbound'[j].n
  <2> SUFFICES ASSUME NEW i \in DOMAIN inbound', NEW j \in DOMAIN inbound', i < j
               PROVE  inbound[i + 1].n < inbound[j + 1].n
    BY <1>2
  <2>1. i + 1 \in DOMAIN inbound /\ j + 1 \in DOMAIN inbound /\ i + 1 < j + 1
    BY <1>2
  <2> QED
    BY <2>1 DEF Numbered
<1>5. \A i \in DOMAIN inbound' : inbound[1].n < inbound'[i].n
  <2> SUFFICES ASSUME NEW i \in DOMAIN inbound' PROVE inbound[1].n < inbound[i + 1].n
    BY <1>2
  <2>1. i + 1 \in DOMAIN inbound /\ 1 < i + 1
    BY <1>2
  <2> QED
    BY <1>2, <2>1 DEF Numbered
<1>6. newest < inbound[1].n /\ inbound[1].n <= sent
  BY <1>2 DEF Numbered
<1> QED
  BY <1>2, <1>3, <1>4, <1>5, <1>6 DEF Numbered

LEMMA NumberedSent ==
  ASSUME ClientInv, Numbered, NEW kind \in Kinds, ServerSends(kind)
  PROVE  Numbered'
<1> USE DEF dataVars
<1> DEFINE f == [kind |-> kind, n |-> sent + 1]
<1>1. /\ inbound' = Append(inbound, f) /\ sent' = sent + 1 /\ UNCHANGED <<m_data, newest>>
      /\ f.n = sent + 1
  BY DEF ServerSends
<1>2. inbound \in Seq(Frame) /\ newest \in Nat /\ sent \in Nat /\ f \in Frame
  BY BoundAssumption, KindsAssumption DEF ServerSends, ClientInv, TypeOK, Frame
<1> HIDE DEF f
<1>3. /\ DOMAIN inbound = 1..Len(inbound) /\ Len(inbound) \in Nat
      /\ \A i \in DOMAIN inbound : inbound[i].n \in Nat
  BY <1>2, Frames
<1>4. /\ DOMAIN inbound' = 1..(Len(inbound) + 1)
      /\ \A i \in 1..Len(inbound) : inbound'[i] = inbound[i]
      /\ inbound'[Len(inbound) + 1] = f
  <2>1. inbound' \in Seq(Frame) /\ Len(inbound') = Len(inbound) + 1
        /\ \A i \in 1..Len(inbound) : inbound'[i] = inbound[i]
        /\ inbound'[Len(inbound) + 1] = f
    BY <1>1, <1>2, AppendProperties
  <2>2. DOMAIN inbound' = 1..Len(inbound')
    BY <2>1, LenProperties
  <2>3. 1..Len(inbound') = 1..(Len(inbound) + 1)
    BY <2>1
  <2>4. DOMAIN inbound' = 1..(Len(inbound) + 1)
    BY <2>2, <2>3, Zenon
  <2>5. \A i \in 1..Len(inbound) : inbound'[i] = inbound[i]
    BY <2>1
  <2>6. inbound'[Len(inbound) + 1] = f
    BY <1>1, <1>2, AppendProperties
  <2> QED
    BY <2>4, <2>5, <2>6
<1> DEFINE k == Len(inbound)
<1> HIDE DEF k
<1>5. /\ DOMAIN inbound = 1..k /\ k \in Nat /\ DOMAIN inbound' = 1..(k + 1)
      /\ \A i \in 1..k : inbound'[i] = inbound[i] /\ inbound[i].n \in Nat
      /\ inbound'[k + 1].n = sent + 1
  BY <1>1, <1>3, <1>4 DEF k
<1>6. newest <= sent' /\ newest < sent + 1
  BY <1>1, <1>2 DEF Numbered
<1>7. ASSUME NEW i \in 1..(k + 1)
      PROVE  newest < inbound'[i].n /\ inbound'[i].n <= sent'
  <2>1. CASE i \in 1..k
    <3>1. newest < inbound[i].n /\ inbound[i].n <= sent
      BY <1>5, <2>1 DEF Numbered
    <3>2. inbound'[i] = inbound[i] /\ inbound[i].n \in Nat /\ sent' = sent + 1
      BY <1>1, <1>5, <2>1
    <3> DEFINE n == inbound[i].n
    <3>3. n \in Nat /\ newest < n /\ n <= sent /\ inbound'[i].n = n
      BY <3>1, <3>2
    <3> HIDE DEF n
    <3> QED
      BY <1>2, <3>2, <3>3
  <2>2. CASE i = k + 1
    BY <1>1, <1>2, <1>5, <1>6, <2>2
  <2> QED
    BY <1>5, <2>1, <2>2
<1>8. ASSUME NEW i \in 1..(k + 1), NEW j \in 1..(k + 1), i < j
      PROVE  inbound'[i].n < inbound'[j].n
  <2>1. i \in 1..k
    BY <1>5, <1>8
  <2>2. CASE j \in 1..k
    BY <1>5, <1>8, <2>1, <2>2 DEF Numbered
  <2>3. CASE j = k + 1
    <3>1. inbound[i].n <= sent /\ inbound[i].n \in Nat
      BY <1>5, <2>1 DEF Numbered
    <3> QED
      BY <1>2, <1>5, <2>1, <2>3, <3>1
  <2> QED
    BY <1>5, <2>2, <2>3
<1>9. ASSUME m_data.kind # "empty"
      PROVE  /\ newest < m_data.n /\ m_data.n <= sent'
             /\ \A i \in 1..(k + 1) : m_data.n < inbound'[i].n
  <2>1. newest < m_data.n /\ m_data.n <= sent /\ m_data.n \in Nat
    BY <1>9, BoundAssumption DEF Numbered, ClientInv, TypeOK, Frame
  <2>2. ASSUME NEW i \in 1..(k + 1) PROVE m_data.n < inbound'[i].n
    <3>1. CASE i \in 1..k
      BY <1>5, <1>9, <3>1 DEF Numbered
    <3>2. CASE i = k + 1
      BY <1>2, <1>5, <2>1, <3>2
    <3> QED
      BY <1>5, <3>1, <3>2
  <2>3. m_data.n <= sent'
    BY <1>1, <1>2, <2>1
  <2> QED
    BY <2>1, <2>2, <2>3
<1> QED
  BY <1>1, <1>5, <1>6, <1>7, <1>8, <1>9 DEF Numbered

(* Which steps touch the frames.                                           *)
LEMMA FramesMove ==
  ASSUME ClientInv, [Next]_vars
  PROVE  \/ UNCHANGED <<inbound, sent, m_data, newest>>
         \/ \E kind \in Kinds : ServerSends(kind)
         \/ BodyRead
         \/ HandleReadSize
         \/ HandleReadData /\ inbound' = Tail(inbound)
<1> USE DEF dataVars, peerVars, startVars
<1>1. CASE Startup
  BY <1>1 DEF Startup, CheckConnection, CreateThread, SetFlag, TestFlag, Connect
<1>2. CASE HandleConnect \/ HandleConnectFailed \/ HandleWrite \/ HandleError \/ HandleClose
  BY <1>2 DEF HandleConnect, HandleConnectFailed, HandleWrite, HandleError, HandleClose
<1>3. CASE HandleReadData
  BY <1>3 DEF HandleReadData, ReadBody
<1>4. CASE Completion
  BY <1>4 DEF Completion, Connected, Refused, LengthRead, ReadFails, Written, WriteFails
<1>5. CASE Server
  BY <1>5 DEF Server, ServerAnswers, ServerToggles, PeerLeaves
<1>6. CASE UNCHANGED vars
  BY <1>6 DEF vars
<1> QED
  BY <1>1, <1>2, <1>3, <1>4, <1>5, <1>6 DEF Next, RunHandler

LEMMA StepNumbered == ClientInv /\ Numbered /\ [Next]_vars => Numbered'
<1> SUFFICES ASSUME ClientInv, Numbered, [Next]_vars PROVE Numbered'
  OBVIOUS
<1> USE DEF dataVars, peerVars
<1>1. CASE UNCHANGED <<inbound, sent, m_data, newest>>
  BY <1>1 DEF Numbered
<1>2. CASE \E kind \in Kinds : ServerSends(kind)
  BY <1>2, NumberedSent
<1>3. CASE BodyRead
  BY <1>3, NumberedTaken DEF BodyRead
<1>4. CASE HandleReadSize
  <2>1. /\ UNCHANGED <<inbound, sent>> /\ m_data'.kind = "empty"
        /\ newest' = newest \/ (m_data.kind = "normal" /\ newest' = m_data.n)
    BY <1>4 DEF HandleReadSize, NoData
  <2> QED
    BY <2>1 DEF Numbered
<1>5. CASE HandleReadData /\ inbound' = Tail(inbound)
  <2>1. Has(ready, Done("read_data")) /\ Quiet(Tail(ready))
    BY <1>5, Called DEF HandleReadData, Done, Handlers, Reads, Chain
  <2>2. inbound # <<>>
    BY <2>1 DEF ClientInv, Arrived
  <2>3. ~Has(ready, Done("read_size"))
    <3>1. ~Has(Tail(ready), Done("read_size"))
      BY <2>1 DEF Has, Quiet, Done, Chain, Reads
    <3>2. Has(ready, Done("read_size")) => Has(Tail(ready), Done("read_size"))
      <4>1. Calls("read_data", TRUE) /\ "read_data" \in Handlers
        BY <1>5 DEF HandleReadData, Handlers, Reads
      <4>2. [op |-> "read_data", ok |-> TRUE] # Done("read_size")
        BY DEF Done
      <4> QED
        BY <4>1, <4>2, Rest
    <3> QED
      BY <3>1, <3>2
  <2>4. m_data.kind = "empty"
    BY <2>3 DEF ClientInv, Arrived
  <2> QED
    BY <1>5, <2>2, <2>4, NumberedTaken DEF HandleReadData
<1> QED
  BY <1>1, <1>2, <1>3, <1>4, <1>5, FramesMove

(* The phase of the connection: a body that waits is a normal one in       *)
(* m_data.                                                                 *)
PhaseFacts ==
  /\ socket = "none" => Phase = "idle"
  /\ socket = "connecting" => Phase = "dialing"
  /\ socket = "connected" => Phase = "up"
  /\ socket = "closed" => Phase = IF m_data.kind = "normal" THEN "up" ELSE "down"
  /\ m_data.kind = "normal" => started

LEMMA PhaseKnown == ClientInv => PhaseFacts
<1> SUFFICES ASSUME ClientInv PROVE PhaseFacts
  OBVIOUS
<1>1. BodyWaits <=> m_data.kind = "normal"
  BY DEF BodyWaits, ClientInv, Arrived, Has
<1>2. m_data.kind = "normal" => started
  <2> SUFFICES ASSUME m_data.kind = "normal", OnlyConnect(ready) PROVE FALSE
    BY DEF ClientInv, Before
  <2> QED
    BY DEF ClientInv, Arrived, Has, Done, OnlyConnect
<1>7. BodyWaits => socket \in {"connected", "closed"}
  BY <1>1, <1>2 DEF ClientInv, Before
<1>3. socket = "none" => Phase = "idle"
  BY <1>7 DEF Phase, Open
<1>4. socket = "connecting" => Phase = "dialing"
  BY <1>7 DEF Phase, Open
<1>5. socket = "connected" => Phase = "up"
  BY DEF Phase, Open
<1>6. socket = "closed" => Phase = IF m_data.kind = "normal" THEN "up" ELSE "down"
  BY <1>1 DEF Phase, Open
<1> QED
  BY <1>2, <1>3, <1>4, <1>5, <1>6 DEF PhaseFacts

LEMMA PhaseKnownNext == ClientInv' => PhaseFacts'
BY PhaseKnown, PTL

(* Each step of the client is a step of the abstract connection.           *)
LEMMA StepLink ==
  ClientInv /\ Numbered /\ [Next]_vars => [Link!LinkNext]_(Link!linkVars)
<1> SUFFICES ASSUME ClientInv, Numbered, [Next]_vars
             PROVE  Link!LinkNext \/ (Phase' = Phase /\ newest' = newest)
  BY DEF Link!linkVars
<1>1. ClientInv' /\ PhaseFacts /\ PhaseFacts'
  BY StepClient, PhaseKnown, PhaseKnownNext
<1>2. socket \in {"none", "connecting", "connected", "closed"}
  BY DEF ClientInv, TypeOK
<1>3. ASSUME UNCHANGED <<socket, m_data, newest>>
      PROVE  Phase' = Phase /\ newest' = newest
  BY <1>1, <1>2, <1>3 DEF PhaseFacts
<1> USE DEF dataVars, startVars, peerVars, ioVars
<1>4. CASE Startup
  <2>1. CASE Connect
    <3>1. socket = "none" /\ UNCHANGED <<m_data, newest>>
          /\ (socket' = "connecting" \/ socket' = socket)
      BY <2>1 DEF Connect, ClientInv, Before
    <3> QED
      BY <1>1, <3>1 DEF PhaseFacts, Link!LinkNext, Link!Dial
  <2>2. CASE CheckConnection \/ CreateThread \/ SetFlag \/ TestFlag
    BY <1>3, <2>2 DEF CheckConnection, CreateThread, SetFlag, TestFlag
  <2> QED
    BY <1>4, <2>1, <2>2 DEF Startup
<1>5. CASE RunHandler
  <2>1. CASE HandleReadSize
    <3>1. UNCHANGED socket /\ m_data' = NoData
          /\ newest' = IF m_data.kind = "normal" THEN m_data.n ELSE newest
      BY <2>1 DEF HandleReadSize
    <3>2. started /\ socket \in {"connected", "closed"}
      <4>1. Calls("read_size", TRUE) /\ "read_size" \in Handlers
        BY <2>1 DEF HandleReadSize, Handlers, Reads
      <4> QED
        BY <4>1, Called
    <3>3. CASE m_data.kind # "normal"
      BY <1>1, <3>1, <3>2, <3>3 DEF PhaseFacts, NoData
    <3>4. CASE m_data.kind = "normal"
      <4>1. newest < m_data.n /\ newest' = m_data.n
        BY <3>1, <3>4 DEF Numbered
      <4>2. newest' \in (newest + 1)..MaxFrames
        BY <1>1, <4>1, BoundAssumption DEF ClientInv, TypeOK
      <4>3. Phase = "up" /\ Phase' \in {"up", "down"}
        BY <1>1, <3>1, <3>2, <3>4 DEF PhaseFacts
      <4> QED
        BY <4>2, <4>3 DEF Link!LinkNext, Link!Store
    <3> QED
      BY <3>3, <3>4
  <2>2. CASE HandleClose
    <3>1. socket' = "closed" /\ UNCHANGED <<m_data, newest>>
      BY <2>2 DEF HandleClose, AfterClose
    <3>2. socket \in {"connected", "closed"}
      <4>1. Calls("close", TRUE) /\ "close" \in Handlers
        BY <2>2 DEF HandleClose, Handlers
      <4> QED
        BY <4>1, Called
    <3> QED
      BY <1>1, <3>1, <3>2 DEF PhaseFacts, Link!LinkNext, Link!GoDown
  <2>3. CASE \/ HandleConnect \/ HandleConnectFailed \/ HandleReadData \/ HandleWrite
             \/ HandleError
    BY <1>3, <2>3 DEF HandleConnect, HandleConnectFailed, HandleReadData, HandleWrite, HandleError
  <2> QED
    BY <1>5, <2>1, <2>2, <2>3 DEF RunHandler
<1>6. CASE Completion
  <2>1. CASE Connected
    <3>1. socket' = "connected" /\ UNCHANGED <<m_data, newest>>
      BY <2>1 DEF Connected
    <3>2. socket = "connecting"
      BY <2>1, Completed DEF Connected, Chain
    <3> QED
      BY <1>1, <3>1, <3>2 DEF PhaseFacts, Link!LinkNext, Link!ComeUp
  <2>2. CASE BodyRead
    BY <1>1, <2>2 DEF BodyRead, Open, PhaseFacts
  <2>3. CASE Refused \/ LengthRead \/ ReadFails \/ Written \/ WriteFails
    BY <1>3, <2>3 DEF Refused, LengthRead, ReadFails, Written, WriteFails
  <2> QED
    BY <1>6, <2>1, <2>2, <2>3 DEF Completion
<1>7. CASE Server \/ UNCHANGED vars
  BY <1>3, <1>7 DEF Server, ServerAnswers, ServerSends, ServerToggles, PeerLeaves, vars
<1> QED
  BY <1>4, <1>5, <1>6, <1>7 DEF Next

(* The client implements the abstract connection: dialled once, never      *)
(* again after a loss, and every frame that is stored is newer than the    *)
(* one before.                                                             *)
THEOREM LinkImplementedCorrect == Spec => LinkImplemented
<1>1. Init => Link!LinkInit
  <2>1. Init => Phase = "idle"
    BY DEF Init, Phase, Open, BodyWaits, NoData
  <2> QED
    BY <2>1 DEF Init, Link!LinkInit
<1>2. Init => Numbered
  <2> SUFFICES ASSUME Init PROVE Numbered
    OBVIOUS
  <2>1. DOMAIN inbound = {}
    BY EmptySeq DEF Init
  <2> QED
    BY <2>1 DEF Init, Numbered, NoData
<1>3. Spec => []Numbered
  BY <1>2, AlwaysClient, StepNumbered, PTL DEF Spec
<1> QED
  BY <1>1, <1>3, AlwaysClient, StepLink, PTL DEF Spec, LinkImplemented, Link!LinkSpec
-----------------------------------------------------------------------------
(* The body that is read next is there, and is one that can be read.       *)
Expected ==
  /\ "read_size" \in pending =>
       inbound # <<>> /\ Head(inbound).kind \notin {"badsize", "empty"}
  /\ m_data.kind # "badsize"

LEMMA StepExpected == ClientInv /\ Expected /\ [Next]_vars => Expected'
<1> SUFFICES ASSUME ClientInv, Expected, [Next]_vars PROVE Expected'
  OBVIOUS
<1> USE DEF startVars, ioVars, dataVars, peerVars
<1>1. /\ "read_size" \in Chain /\ "read_data" \in Chain /\ "connect" \in Chain
      /\ Reads \subseteq Chain /\ Chain \subseteq Handlers
  BY DEF Chain, Reads, Handlers
<1>2. ASSUME UNCHANGED <<inbound, m_data>>, "read_size" \in pending' => "read_size" \in pending
      PROVE  Expected'
  BY <1>2 DEF Expected
<1>3. CASE Startup
  BY <1>2, <1>3 DEF Startup, CheckConnection, CreateThread, SetFlag, TestFlag, Connect
<1>4. CASE HandleConnect \/ HandleConnectFailed \/ HandleWrite \/ HandleError \/ HandleClose
  <2>1. UNCHANGED <<inbound, m_data>>
    BY <1>4 DEF HandleConnect, HandleConnectFailed, HandleWrite, HandleError, HandleClose
  <2>2. CASE HandleConnect
    BY <1>2, <2>1, <2>2 DEF HandleConnect, StartOp
  <2>3. CASE HandleConnectFailed
    BY <1>2, <2>1, <2>3 DEF HandleConnectFailed, Reconnect
  <2>4. CASE HandleWrite \/ HandleError \/ HandleClose
    BY <1>2, <2>1, <2>4 DEF HandleWrite, HandleError, HandleClose, AfterClose
  <2> QED
    BY <1>4, <2>2, <2>3, <2>4
<1>5. CASE HandleReadData
  <2>1. Calls("read_data", TRUE) /\ ReadBody(Head(inbound).kind) /\ UNCHANGED m_data
    BY <1>5 DEF HandleReadData
  <2>2. pending = {} /\ Has(ready, Done("read_data"))
    BY <1>1, <2>1, Called DEF Done
  <2>3. inbound # <<>>
    BY <2>2 DEF ClientInv, Arrived
  <2>4. "read_size" \in pending'
          => Head(inbound).kind \notin {"badsize", "empty"} /\ inbound' = inbound
    BY <2>1, <2>2 DEF ReadBody
  <2> QED
    BY <2>1, <2>3, <2>4 DEF Expected
<1>6. CASE HandleReadSize
  <2>1. Calls("read_size", TRUE) /\ m_data' = NoData /\ StartOp("read_data")
    BY <1>6 DEF HandleReadSize
  <2>2. pending = {}
    BY <1>1, <2>1, Called
  <2>3. "read_size" \notin pending'
    BY <2>1, <2>2 DEF StartOp
  <2> QED
    BY <2>1, <2>3 DEF Expected, NoData
<1>7. CASE BodyRead
  <2>1. Completes("read_size", TRUE) /\ "read_size" \in pending /\ m_data' = Head(inbound)
    BY <1>7 DEF BodyRead, Completes
  <2>2. pending' = {}
    BY <1>1, <2>1, Completed
  <2> QED
    BY <2>1, <2>2 DEF Expected
<1>8. CASE Connected \/ Refused \/ LengthRead \/ ReadFails \/ Written \/ WriteFails
  BY <1>2, <1>8 DEF Connected, Refused, LengthRead, ReadFails, Written, WriteFails, Completes
<1>9. ASSUME NEW kind \in Kinds, ServerSends(kind) PROVE Expected'
  <2> DEFINE f == [kind |-> kind, n |-> sent + 1]
  <2>1. inbound' = Append(inbound, f) /\ UNCHANGED <<pending, m_data>>
    BY <1>9 DEF ServerSends
  <2>2. inbound \in Seq(Frame) /\ f \in Frame
    BY <1>9, BoundAssumption, KindsAssumption DEF ServerSends, ClientInv, TypeOK, Frame
  <2> HIDE DEF f
  <2>3. ASSUME inbound # <<>> PROVE inbound' # <<>> /\ Head(inbound') = Head(inbound)
    <3>1. /\ Len(inbound) \in Nat /\ 1 \in 1..Len(inbound) /\ Head(inbound) = inbound[1]
      BY <2>2, <2>3, Frames
    <3>2. inbound' \in Seq(Frame) /\ Len(inbound') = Len(inbound) + 1 /\ inbound'[1] = inbound[1]
      BY <2>1, <2>2, <3>1, AppendProperties
    <3>3. inbound' # <<>>
      BY <3>1, <3>2, EmptySeq
    <3> QED
      BY <3>1, <3>2, <3>3, Frames
  <2> QED
    BY <2>1, <2>3 DEF Expected
<1>10. CASE ServerToggles \/ PeerLeaves
  BY <1>2, <1>10 DEF ServerToggles, PeerLeaves
<1>11. CASE UNCHANGED vars
  BY <1>2, <1>11 DEF vars
<1> QED
  BY <1>3, <1>4, <1>5, <1>6, <1>7, <1>8, <1>9, <1>10, <1>11
  DEF Next, RunHandler, Completion, Server, ServerAnswers

(* Nothing in the queue keeps the exchange going.                          *)
LEMMA NothingInQueue ==
  /\ InReady({"read_size", "close"}) = {}
       <=> ~HasOp(ready, "read_size") /\ ~HasOp(ready, "close")
  /\ InReady({"read_size", "close"})' = {}
       <=> ~HasOp(ready', "read_size") /\ ~HasOp(ready', "close")
BY DEF InReady, HasOp

(* The steps that may leave both sides waiting: only the handler of a body *)
(* takes away what there was to do without putting something in its place. *)
LEMMA StepStalls ==
  ASSUME ClientInv, Expected, [Next]_vars, Stalled'
  PROVE  Stalled \/ HeardInVain
<1> USE DEF startVars, ioVars, dataVars, peerVars
<1>1. /\ started' /\ socket' = "connected" /\ peer' = "open"
      /\ writes' = 0 /\ asked' = 0 /\ inbound' = <<>>
      /\ ~HasOp(ready', "read_size") /\ ~HasOp(ready', "close")
  BY NothingInQueue DEF Stalled, Open
<1>2. ASSUME UNCHANGED <<started, socket, peer, writes, asked, inbound>>,
             \A op \in {"read_size", "close"} : HasOp(ready, op) => HasOp(ready', op)
      PROVE  Stalled
  BY <1>1, <1>2, NothingInQueue DEF Stalled, Open
<1>3. /\ {"read_data", "read_size", "connect"} \subseteq Chain
      /\ {"write", "close"} \subseteq Handlers /\ Chain \subseteq Handlers
      /\ Reads = {"read_data", "read_size"}
  BY DEF Chain, Reads, Handlers
<1>4. ready \in Seq(Handler) /\ writes \in Nat /\ asked \in Nat
  BY DEF ClientInv, TypeOK
<1>5. ASSUME NEW s \in Seq(Handler), NEW h \in Handler, ready' = Append(s, h)
      PROVE  h.op \notin {"read_size", "close"}
  BY <1>1, <1>5, Queued
<1>6. Close \in Handler /\ Close.op = "close"
  BY HandlerTypes DEF Close, Done
<1>7. CASE Startup
  <2>1. CASE CheckConnection \/ CreateThread \/ TestFlag \/ Connect
    <3>1. ~started /\ started' = started
      BY <2>1 DEF CheckConnection, CreateThread, TestFlag, Connect, ClientInv, Before
    <3> QED
      BY <1>1, <3>1
  <2>2. CASE SetFlag
    BY <1>2, <2>2 DEF SetFlag
  <2> QED
    BY <1>7, <2>1, <2>2 DEF Startup
<1>8. CASE HandleConnect \/ HandleConnectFailed
  <2>1. PICK ok \in BOOLEAN : Calls("connect", ok)
    BY <1>8 DEF HandleConnect, HandleConnectFailed
  <2>2. ~started
    BY <1>3, <2>1, Called DEF ClientInv, Before
  <2>3. (started' <=> started) \/ writes' = writes + 1
    BY <1>8 DEF HandleConnect, HandleConnectFailed
  <2>4. writes' # writes + 1
    BY <1>1, <1>4
  <2> QED
    BY <1>1, <2>2, <2>3, <2>4
<1>9. CASE HandleReadData
  <2>1. Calls("read_data", TRUE) /\ ReadBody(Head(inbound).kind)
    BY <1>9 DEF HandleReadData
  <2>2. Has(ready, Done("read_data")) /\ Tail(ready) \in Seq(Handler)
    BY <1>3, <2>1, Called, Rest DEF Done
  <2>3. inbound # <<>>
    BY <2>2 DEF ClientInv, Arrived
  <2>4. Done("read_size") \in Handler /\ Done("read_size").op = "read_size"
    BY <1>3, HandlerTypes DEF Done
  <2> QED
    BY <1>1, <1>5, <1>6, <2>1, <2>2, <2>3, <2>4 DEF ReadBody
<1>10. CASE HandleReadSize
  <2> DEFINE s == Tail(ready) \o StartFailed("read_data")
                   \o (IF Replies(m_data.kind) > 0 THEN StartFailed("write") ELSE <<>>)
  <2>1. /\ Calls("read_size", TRUE) /\ socket' = socket
        /\ writes' = IF Open THEN writes + Replies(m_data.kind) ELSE writes
        /\ ready' = s \o (IF m_data.kind = "corrupt" THEN <<Close>> ELSE <<>>)
    BY <1>10 DEF HandleReadSize
  <2>2. m_data.kind \in AllKinds /\ m_data.kind # "badsize"
    BY DEF ClientInv, TypeOK, Frame, Expected
  <2>3. m_data.kind \notin {"regist", "normal"}
    BY <1>1, <1>4, <2>1 DEF Open, Replies
  <2>4. s \in Seq(Handler)
    <3>1. Tail(ready) \in Seq(Handler)
      BY <1>3, <2>1, Rest
    <3>2. /\ StartFailed("read_data") = <<>> /\ StartFailed("write") = <<>>
      BY <1>1, <2>1 DEF StartFailed, Open
    <3> QED
      BY <3>1, <3>2, ConcatEmptySeq
  <2> HIDE DEF s
  <2>5. m_data.kind # "corrupt"
    <3> SUFFICES ASSUME m_data.kind = "corrupt" PROVE FALSE
      OBVIOUS
    <3>1. ready' = Append(s, Close)
      BY <1>6, <2>1, <2>4, OneMoreHandler
    <3> QED
      BY <1>5, <1>6, <2>4, <3>1
  <2> QED
    BY <2>1, <2>2, <2>3, <2>5 DEF HeardInVain, AllKinds
<1>11. CASE HandleWrite
  <2>1. /\ Calls("write", TRUE) /\ ready' = Tail(ready)
        /\ UNCHANGED <<started, socket, peer, writes, asked, inbound>>
    BY <1>11 DEF HandleWrite
  <2>2. ready # <<>> /\ Head(ready).op = "write"
    BY <1>3, <2>1, Called
  <2>3. \A op \in {"read_size", "close"} : HasOp(ready, op) => HasOp(ready', op)
    BY <1>4, <2>1, <2>2, Taken
  <2> QED
    BY <1>2, <2>1, <2>3
<1>12. CASE HandleError
  <2>1. PICK op \in Reads \cup {"write"} : Calls(op, FALSE)
    BY <1>12 DEF HandleError
  <2>2. Tail(ready) \in Seq(Handler) /\ ready' = Append(Tail(ready), Close)
    BY <1>3, <1>12, <2>1, Rest DEF HandleError, OnError
  <2> QED
    BY <1>5, <1>6, <2>2
<1>13. CASE HandleClose
  BY <1>1, <1>13 DEF HandleClose, AfterClose
<1>14. CASE Connected \/ Refused
  <2>1. PICK ok \in BOOLEAN : Completes("connect", ok)
    BY <1>14 DEF Connected, Refused
  <2>2. ~started /\ started' = started
    BY <1>3, <2>1, Completed DEF Completes
  <2> QED
    BY <1>1, <2>2
<1>15. CASE BodyRead
  <2>1. Completes("read_size", TRUE)
    BY <1>15 DEF BodyRead
  <2>2. /\ ready' = Append(ready, [op |-> "read_size", ok |-> TRUE])
        /\ [op |-> "read_size", ok |-> TRUE] \in Handler
    BY <1>3, <2>1, Completed
  <2> QED
    BY <1>4, <1>5, <2>2
<1>16. CASE LengthRead \/ ReadFails \/ Written \/ WriteFails
  <2>1. ~LengthRead
    BY <1>1 DEF LengthRead
  <2>2. ~ReadFails /\ ~WriteFails
    BY <1>1 DEF ReadFails, WriteFails
  <2>3. Written => asked' = asked + 1
    BY DEF Written
  <2>4. asked' # asked + 1
    BY <1>1, <1>4
  <2> QED
    BY <1>16, <2>1, <2>2, <2>3, <2>4
<1>17. ASSUME NEW kind \in Kinds, ServerSends(kind) PROVE FALSE
  <2> DEFINE f == [kind |-> kind, n |-> sent + 1]
  <2>1. inbound' = Append(inbound, f)
    BY <1>17 DEF ServerSends
  <2>2. inbound \in Seq(Frame) /\ f \in Frame
    BY <1>17, BoundAssumption, KindsAssumption DEF ServerSends, ClientInv, TypeOK, Frame
  <2> HIDE DEF f
  <2>3. Len(inbound) \in Nat /\ Len(inbound') = Len(inbound) + 1 /\ inbound' \in Seq(Frame)
    BY <2>1, <2>2, AppendProperties, LenProperties
  <2> QED
    BY <1>1, <2>3, EmptySeq
<1>18. CASE ServerToggles \/ PeerLeaves
  BY <1>1, <1>2, <1>18 DEF ServerToggles, PeerLeaves
<1>19. CASE UNCHANGED vars
  BY <1>2, <1>19 DEF vars
<1> QED
  BY <1>7, <1>8, <1>9, <1>10, <1>11, <1>12, <1>13, <1>14, <1>15, <1>16, <1>17, <1>18, <1>19
  DEF Next, RunHandler, Completion, Server, ServerAnswers

(* Client and server begin to wait for each other only when a frame comes  *)
(* that read_data_callback does not answer.                                *)
THEOREM StallsOnlyUnansweredCorrect == Spec => StallsOnlyUnanswered
<1>1. Init => Expected
  BY DEF Init, Expected, NoData
<1>2. Spec => []Expected
  BY <1>1, AlwaysClient, StepExpected, PTL DEF Spec
<1>3. ClientInv /\ Expected /\ [Next]_vars => (Stalled' => Stalled \/ HeardInVain)
  BY StepStalls
<1> QED
  BY <1>2, <1>3, AlwaysClient, PTL DEF Spec, StallsOnlyUnanswered
===============================================================================
