-------------------------------- MODULE Archive --------------------------------
(***************************************************************************)
(* The boost text archives that carry frames from the server and datagrams *)
(* to the vehicle: what serialize() lists for each structure, what a       *)
(* reader gets back, and what it does with an archive that is cut, of      *)
(* another structure, or holds a number that has no text to be read from.  *)
(*                                                                         *)
(* An archive is a sequence of tokens, and a token is a number: texts are  *)
(* numbered, a flag is 0 or 1, a vector is its length and its items.  The  *)
(* header of the archive and the class versions are left out: they are the *)
(* same in every archive.                                                  *)
(***************************************************************************)
EXTENDS Integers, SequencesExt

CONSTANTS
  ReceiveDatas,   \* external: messages the server may send
  SendMsgs        \* messages the Widget may hand to the sender

VARIABLES
  frame,           \* the body of the frame on its way, <<>> = none
  told,            \* external: the message the server made it of
  damaged,         \* external: something has happened to it
  session,         \* the session is "open", "closing" (the close is posted) or "closed"
  m_receive_data,  \* StellaClient::m_receive_data
  datagram,        \* the datagram on its way, <<>> = none
  order,           \* external: the last message the vehicle read
  send_msg         \* sender::send_msg

vars == <<frame, told, damaged, session, m_receive_data, datagram, order, send_msg>>
-----------------------------------------------------------------------------
(* A double that is not finite: a text archive writes nan or inf for it,   *)
(* which no stream reads as a number.                                      *)
NaN == -1
Token == Nat \cup {NaN}

(* The structures of StellaType.h.                                         *)
Double  == Token
Integer == Nat
Text    == Nat
Flag    == {0, 1}

StellaStopStation == [name : Text, lat : Double, lon : Double]
StellaRoute ==
  [name : Text, start_lat : Double, start_lon : Double, end_lat : Double, end_lon : Double,
   stop_stations : Seq(StellaStopStation)]
StellaMap == [name : Text, routes : Seq(StellaRoute)]
StellaSocketReceiveMsg ==
  [timestamp : Double, frame_id : Integer, maps : Seq(StellaMap), current_frame_id : Integer,
   vehicle_position_x : Double, vehicle_position_y : Double, vehicle_theta : Double,
   vehicle_speed : Double, vehicle_torque : Double, vehicle_deceleration : Double,
   steer_wheel_speed : Double, steer_wheel_angle : Double, vehicle_yaw_rate : Double,
   canvas_size : Integer, data_encode : Seq(Integer),
   stop_size : Integer, stop_passed_status : Seq(Flag)]
StellaSocketReceiveData == [command : Integer, msg : StellaSocketReceiveMsg]
StellaSocketSendData == [command : Integer]
StellaSocketSendMsg ==
  [timestamp : Double, frame_id : Integer, scenario_name : Text, route_name : Text,
   stop_size : Integer, stop_enable_status : Seq(Flag), start_stella_system : Flag,
   stop_stella_system : Flag, exit_stella_system : Flag, enable_auto_drive : Flag,
   close_the_door : Flag, vehicle_scenario_type : Integer]

heartbeat == 0
regist    == 1
normal    == 2

(* The desk takes the time stamp of an order from telemetry it has read,   *)
(* so that it is a number.                                                 *)
ASSUME MessagesAssumption ==
  /\ ReceiveDatas \subseteq StellaSocketReceiveData
  /\ SendMsgs \subseteq {msg \in StellaSocketSendMsg : msg.timestamp # NaN}
-----------------------------------------------------------------------------
(* How boost writes and reads values of a type: save is operator <<, load  *)
(* is operator >>.  A reader leaves the rest of the text; it fails when a  *)
(* number is missing or is none, and leaves what it has read so far.       *)
Texts == Seq(Token)
Read(value, rest) == [ok |-> TRUE, value |-> value, rest |-> rest]
Fails(value, rest) == [ok |-> FALSE, value |-> value, rest |-> rest]

Scalar(type) ==
  [type |-> type, default |-> 0,
   save |-> [x \in type |-> <<x>>],
   load |-> [text \in Texts |->
               IF text # <<>> /\ Head(text) \in type \ {NaN}
               THEN Read(Head(text), Tail(text)) ELSE Fails(0, text)]]

(* Values written one after the other, and read the same way: what has     *)
(* been read after each, up to the first that fails.                       *)
Row(codecs, values) == FlattenSeq([i \in DOMAIN codecs |-> codecs[i].save[values[i]]])
Reads(codecs, text) ==
  LET after[k \in 0..Len(codecs)] ==
        IF k = 0 THEN Read(<<>>, text)
        ELSE LET before == after[k - 1]
                 item   == codecs[k].load[before.rest]
             IN IF before.ok THEN [item EXCEPT !.value = Append(before.value, @)] ELSE before
  IN after
ReadRow(codecs, text) == Reads(codecs, text)[Len(codecs)]

(* A vector is its length and its items.                                   *)
Copies(n, codec) == [i \in 1..n |-> codec]
Vector(codec) ==
  [type |-> Seq(codec.type), default |-> <<>>,
   save |-> [x \in Seq(codec.type) |-> <<Len(x)>> \o Row(Copies(Len(x), codec), x)],
   load |-> [text \in Texts |->
               IF text # <<>> /\ Head(text) \in Nat
               THEN ReadRow(Copies(Head(text), codec), Tail(text)) ELSE Fails(<<>>, text)]]

(* A structure is the members that its serialize() lists, in that order.   *)
Member(name, codec) == [name |-> name, codec |-> codec]
Names(members) == {members[i].name : i \in DOMAIN members}
Place(members, name) == CHOOSE i \in DOMAIN members : members[i].name = name
Codecs(members) == [i \in DOMAIN members |-> members[i].codec]
Values(members, x) == [i \in DOMAIN members |-> x[members[i].name]]
Struct(type, members) ==
  LET Fill(values) ==
        [name \in Names(members) |->
           LET i == Place(members, name)
           IN IF i \in DOMAIN values THEN values[i] ELSE members[i].codec.default]
  IN [type |-> type, default |-> Fill(<<>>),
      save |-> [x \in type |-> Row(Codecs(members), Values(members, x))],
      load |-> [text \in Texts |->
                  LET r == ReadRow(Codecs(members), text)
                  IN [r EXCEPT !.value = Fill(r.value)]]]
-----------------------------------------------------------------------------
(* serialize(): the members that travel, in their order.                   *)
DoubleIO  == Scalar(Double)
IntegerIO == Scalar(Integer)
TextIO    == Scalar(Text)
FlagIO    == Scalar(Flag)

StopStationMembers ==
  << Member("name", TextIO), Member("lat", DoubleIO), Member("lon", DoubleIO) >>
StopStationIO == Struct(StellaStopStation, StopStationMembers)

MutRouteMembers ==
  << Member("name", TextIO), Member("start_lat", DoubleIO), Member("start_lon", DoubleIO),
     Member("end_lat", DoubleIO), Member("stop_stations", Vector(StopStationIO)) >>
RouteMembers ==
  << Member("name", TextIO), Member("start_lat", DoubleIO), Member("start_lon", DoubleIO),
     Member("end_lat", DoubleIO), Member("end_lon", DoubleIO),
     Member("stop_stations", Vector(StopStationIO)) >>
RouteIO == Struct(StellaRoute, RouteMembers)

MapMembers ==
  << Member("name", TextIO), Member("routes", Vector(RouteIO)) >>
MapIO == Struct(StellaMap, MapMembers)

MutReceiveMsgMembers ==
  << Member("timestamp", DoubleIO), Member("frame_id", IntegerIO),
     Member("maps", Vector(MapIO)), Member("current_frame_id", IntegerIO),
     Member("vehicle_position_x", DoubleIO), Member("vehicle_position_y", DoubleIO),
     Member("vehicle_theta", DoubleIO), Member("vehicle_speed", DoubleIO),
     Member("vehicle_torque", DoubleIO), Member("vehicle_deceleration", DoubleIO),
     Member("steer_wheel_speed", DoubleIO), Member("steer_wheel_angle", DoubleIO),
     Member("vehicle_yaw_rate", DoubleIO), Member("canvas_size", IntegerIO),
     Member("data_encode", Vector(IntegerIO)),
     Member("stop_passed_status", Vector(FlagIO)), Member("stop_size", IntegerIO) >>
ReceiveMsgMembers ==
  << Member("timestamp", DoubleIO), Member("frame_id", IntegerIO),
     Member("maps", Vector(MapIO)), Member("current_frame_id", IntegerIO),
     Member("vehicle_position_x", DoubleIO), Member("vehicle_position_y", DoubleIO),
     Member("vehicle_theta", DoubleIO), Member("vehicle_speed", DoubleIO),
     Member("vehicle_torque", DoubleIO), Member("vehicle_deceleration", DoubleIO),
     Member("steer_wheel_speed", DoubleIO), Member("steer_wheel_angle", DoubleIO),
     Member("vehicle_yaw_rate", DoubleIO), Member("canvas_size", IntegerIO),
     Member("data_encode", Vector(IntegerIO)), Member("stop_size", IntegerIO),
     Member("stop_passed_status", Vector(FlagIO)) >>
ReceiveMsgIO == Struct(StellaSocketReceiveMsg, ReceiveMsgMembers)

ReceiveDataMembers ==
  << Member("command", IntegerIO), Member("msg", ReceiveMsgIO) >>
ReceiveDataIO == Struct(StellaSocketReceiveData, ReceiveDataMembers)

SendDataMembers ==
  << Member("command", IntegerIO) >>
SendDataIO == Struct(StellaSocketSendData, SendDataMembers)

MutSendMsgMembers ==
  << Member("timestamp", DoubleIO), Member("frame_id", IntegerIO),
     Member("scenario_name", TextIO), Member("route_name", TextIO),
     Member("stop_size", IntegerIO), Member("stop_enable_status", Vector(FlagIO)),
     Member("start_stella_system", FlagIO), Member("stop_stella_system", FlagIO),
     Member("exit_stella_system", FlagIO), Member("close_the_door", FlagIO),
     Member("vehicle_scenario_type", IntegerIO) >>
SendMsgMembers ==
  << Member("timestamp", DoubleIO), Member("frame_id", IntegerIO),
     Member("scenario_name", TextIO), Member("route_name", TextIO),
     Member("stop_size", IntegerIO), Member("stop_enable_status", Vector(FlagIO)),
     Member("start_stella_system", FlagIO), Member("stop_stella_system", FlagIO),
     Member("exit_stella_system", FlagIO), Member("enable_auto_drive", FlagIO),
     Member("close_the_door", FlagIO), Member("vehicle_scenario_type", IntegerIO) >>
SendMsgIO == Struct(StellaSocketSendMsg, SendMsgMembers)

(* What the constructors leave, and nothing at all.                        *)
SendData == [command |-> normal]
NoData   == [ReceiveDataIO.default EXCEPT !.command = normal]
None     == <<>>

(* The three conversions of StellaSerialization.h that are used; the       *)
(* program never calls char_to_struct.                                     *)
struct_to_str(send_data) == SendDataIO.save[send_data]
str_to_struct(str) == ReceiveDataIO.load[str]
struct_to_char(msg) == SendMsgIO.save[msg]
-----------------------------------------------------------------------------
Init ==
  /\ frame = <<>> /\ told = NoData /\ damaged = FALSE
  /\ session = "open" /\ m_receive_data = NoData
  /\ send_msg = None /\ datagram = <<>> /\ order = None

ServerSends(data) ==
  /\ session # "closed" /\ frame = <<>>
  /\ frame' = ReceiveDataIO.save[data]
  /\ told' = data
  /\ damaged' = FALSE
  /\ UNCHANGED <<session, m_receive_data, send_msg, datagram, order>>

(* External: a frame whose length is wrong is cut between two characters,  *)
(* of a number too; or the client's own answer comes back.                 *)
Cuts(text) ==
  {SubSeq(text, 1, n) : n \in 1..(Len(text) - 1)}
  \cup {[SubSeq(text, 1, n) EXCEPT ![n] = @ \div 10] : n \in {k \in DOMAIN text : text[k] >= 10}}
Damage ==
  /\ frame # <<>> /\ ~damaged
  /\ frame' \in Cuts(frame) \cup {struct_to_str(SendData)}
  /\ damaged' = TRUE
  /\ UNCHANGED <<told, session, m_receive_data, send_msg, datagram, order>>

(* handle_read_size: a frame that cannot be read posts the close of the    *)
(* session, and handle_read_data stores one with the command normal.  The  *)
(* read of the next frame was started before, so that one more frame may   *)
(* be read and stored; the read after that finds the socket closed.        *)
MutStored(r) == r.value
Stored(r) == IF r.ok /\ r.value.command = normal THEN r.value ELSE m_receive_data
After(ok) ==
  IF session = "closing" THEN "closed" ELSE IF ok THEN "open" ELSE "closing"
Receive ==
  /\ session # "closed" /\ frame # <<>>
  /\ LET r == str_to_struct(frame)
     IN session' = After(r.ok) /\ m_receive_data' = Stored(r)
  /\ frame' = <<>>
  /\ UNCHANGED <<told, damaged, send_msg, datagram, order>>

(* handle_close, when no more of the next frame has been read.             *)
HandleClose ==
  /\ session = "closing"
  /\ session' = "closed"
  /\ UNCHANGED <<frame, told, damaged, m_receive_data, send_msg, datagram, order>>

(* sender::send_to_struct; sender::run, which is started after its first   *)
(* call; and the vehicle, which may miss a datagram.                       *)
SendToStruct(msg) ==
  /\ send_msg' = msg
  /\ UNCHANGED <<frame, told, damaged, session, m_receive_data, datagram, order>>

SenderTurn ==
  /\ send_msg # None
  /\ datagram = <<>>
  /\ datagram' = struct_to_char(send_msg)
  /\ UNCHANGED <<frame, told, damaged, session, m_receive_data, send_msg, order>>

VehicleReads ==
  /\ datagram # <<>>
  /\ datagram' = <<>>
  /\ order' \in {order, SendMsgIO.load[datagram].value}
  /\ UNCHANGED <<frame, told, damaged, session, m_receive_data, send_msg>>

Next ==
  \/ \E data \in ReceiveDatas : ServerSends(data)
  \/ Damage \/ Receive \/ HandleClose
  \/ \E msg \in SendMsgs : SendToStruct(msg)
  \/ SenderTurn \/ VehicleReads

Spec == Init /\ [][Next]_vars
-----------------------------------------------------------------------------
Taken == frame # <<>> /\ frame' = <<>>
Readable == ~damaged /\ \A i \in DOMAIN frame : frame[i] # NaN

(* A frame that arrives whole is stored as the server built it, every      *)
(* member of every structure in it, and an open session stays open.        *)
WholeFramesArrive ==
  [][Taken /\ Readable =>
       /\ session = "open" => session' = "open"
       /\ told.command = normal => m_receive_data' = told]_vars

(* A frame that is cut anywhere, is another structure, or holds a number   *)
(* that is not finite is never taken for a message: nothing of it is       *)
(* stored, and the session is closed, at once or after one more frame.     *)
BrokenFramesEndSession ==
  [][Taken /\ ~Readable => session' # "open" /\ m_receive_data' = m_receive_data]_vars

(* Nothing that has been read in part is stored or obeyed: what the client *)
(* holds, and what the vehicle holds, is a message as it was built.        *)
StoredIsWhole ==
  m_receive_data \in {data \in ReceiveDatas : data.command = normal} \cup {NoData}
OrderIsWhole == order \in SendMsgs \cup {None}

(* The archives implement links of messages: nobody who sends or reads one *)
(* can tell it from a line that carries whole messages or breaks, and the  *)
(* vehicle hears the order that was in force when the datagram was sent.   *)
Line ==
  IF frame = <<>> THEN "free" ELSE IF Readable THEN "whole" ELSE "broken"
Carrier ==
  INSTANCE MessageLink WITH
    Messages <- ReceiveDatas,
    Legible  <- {data \in ReceiveDatas :
                   LET text == ReceiveDataIO.save[data]
                   IN \A i \in DOMAIN text : text[i] # NaN},
    Kept     <- {data \in ReceiveDatas : data.command = normal},
    Unread   <- NoData,
    Orders   <- SendMsgs,
    None     <- None,
    line     <- Line,
    message  <- told,
    session  <- session,
    stored   <- m_receive_data,
    given    <- send_msg,
    air      <- IF datagram = <<>> THEN <<>> ELSE <<SendMsgIO.load[datagram].value>>,
    obeyed   <- order
MessagesCarried == Carrier!LinkSpec
=============================================================================
