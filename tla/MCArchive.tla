------------------------------ MODULE MCArchive ------------------------------
(***************************************************************************)
(* A small instance of Archive: messages in which every member differs     *)
(* from its default, empty ones, and ones with a speed that is not a       *)
(* number.                                                                 *)
(***************************************************************************)
EXTENDS Archive

Station(n) == [name |-> n, lat |-> n + 1, lon |-> n + 2]
Route(n, stations) ==
  [name |-> n, start_lat |-> 21, start_lon |-> 22, end_lat |-> 23, end_lon |-> 24,
   stop_stations |-> stations]
Maps == <<[name |-> 31, routes |-> <<Route(32, <<Station(41), Station(51)>>), Route(33, <<>>)>>]>>

Telemetry(maps, speed, image, passed) ==
  [timestamp |-> 1, frame_id |-> 2, maps |-> maps, current_frame_id |-> 3,
   vehicle_position_x |-> 4, vehicle_position_y |-> 5, vehicle_theta |-> 6,
   vehicle_speed |-> speed, vehicle_torque |-> 8, vehicle_deceleration |-> 9,
   steer_wheel_speed |-> 10, steer_wheel_angle |-> 11, vehicle_yaw_rate |-> 12,
   canvas_size |-> Len(image), data_encode |-> image, stop_size |-> 12,
   stop_passed_status |-> passed]

MCReceiveDatas ==
  {[command |-> normal, msg |-> Telemetry(maps, speed, <<200, 100>>, passed)] :
     maps \in {<<>>, Maps}, speed \in {7, NaN}, passed \in {<<>>, <<1, 0>>}}
  \cup {[command |-> command, msg |-> Telemetry(Maps, 0, <<>>, <<0, 1>>)] :
          command \in {heartbeat, regist}}

Plan(flags, door, scenario) ==
  [timestamp |-> 1, frame_id |-> 2, scenario_name |-> 31, route_name |-> 32, stop_size |-> 2,
   stop_enable_status |-> flags, start_stella_system |-> 1, stop_stella_system |-> 1 - door,
   exit_stella_system |-> 1 - door, enable_auto_drive |-> 1, close_the_door |-> door,
   vehicle_scenario_type |-> scenario]
MCSendMsgs == {Plan(<<1, 0>>, 1, 3), Plan(<<>>, 0, 1)}
=============================================================================
