----------------------------- MODULE MCRoutePlan -----------------------------
(***************************************************************************)
(* Small instances of RoutePlan.                                           *)
(***************************************************************************)
EXTENDS RoutePlan

Map(name, rs) == [name |-> name, routes |-> rs]
Route(name, stations) == [name |-> name, stations |-> stations]

(* Map 2 comes first in one message, so that message order and name order  *)
(* differ; route 11 belongs to both maps; a route has no stations; a map   *)
(* has no routes; a message names a map twice.                             *)
IrregularMessages ==
  { << Map(2, <<Route(21, <<1, 2>>), Route(11, <<3>>)>>),
       Map(1, <<Route(11, <<1>>), Route(12, <<>>)>>) >>,
    << Map(1, <<Route(11, <<1, 2>>), Route(12, <<3>>)>>),
       Map(3, <<>>) >>,
    << Map(1, <<>>), Map(2, <<Route(21, <<1>>)>>) >>,
    << Map(1, <<Route(11, <<1>>)>>), Map(1, <<Route(12, <<1, 2>>)>>) >> }

(* Messages whose routes all have the stations of the first.               *)
RegularMessages ==
  { << Map(2, <<Route(21, <<1, 2>>)>>),
       Map(1, <<Route(11, <<1>>), Route(12, <<2, 3>>)>>) >>,
    << Map(1, <<Route(11, <<1, 2>>), Route(12, <<3, 2>>)>>) >> }

(* A server with irregular messages whose maps may come after the start,   *)
(* and one with regular messages whose maps the operator awaits.           *)
Irregular == [messages |-> IrregularMessages, passed |-> {0, 1, 2}, early |-> TRUE]
RegularServer == [messages |-> RegularMessages, passed |-> {0, 2}, early |-> FALSE]
MCServers == {Irregular, RegularServer}
RegularServers == {RegularServer}
=============================================================================
