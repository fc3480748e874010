------------------------------ MODULE RoutePlan ------------------------------
(***************************************************************************)
(* Route planning in the Widget: the maps that the first telemetry brings, *)
(* the two combo boxes, the menu of stops, the plan that the start button  *)
(* sends and the grid of stations that later telemetry updates.  All of it *)
(* runs on the GUI thread, so each handler is one step; what makes it hard *)
(* is the order in which telemetry and the operator's clicks come.         *)
(*                                                                         *)
(* The texts of maps, routes and stations are numbers, ordered as QString  *)
(* orders them; None is the empty text of a combo box without items.       *)
(***************************************************************************)
EXTENDS Naturals, Sequences, FiniteSetsExt

CONSTANT
  Servers   \* external: what a server may send, and whether the operator waits for it

None == 0
Names == Nat \ {None}
RouteType == [name : Names, stations : Seq(Names)]
MapType == [name : Names, routes : Seq(RouteType)]

(* messages: the non-empty lists of maps; passed: the lengths of           *)
(* stop_passed_status; early: the operator may start before the maps come. *)
ASSUME ServersAssumption ==
  \A s \in Servers : /\ s.messages \subseteq Seq(MapType) \ {<<>>}
                    /\ s.passed \subseteq Nat /\ s.early \in BOOLEAN

VARIABLES
  server,       \* external: the server, which stays the same
  scenarios,    \* items of the scenario combo box
  scenario,     \* its current text
  routes,       \* items of the route combo box
  route,        \* its current text
  m1_maps,      \* routes of a map
  m2_maps,      \* stations of a route
  park_menu,    \* the stops that can be ticked, each with its tick
  park_numbers,
  bool_parks,
  send_msg,     \* the plan in Widget::send_msg, which every emission carries
  is_map_initialized,
  is_started,
  grid,         \* is_station_grid_layout_initialized
  labels,       \* the names on the station labels of the grid
  plan,         \* the plan the start button sent last
  fault         \* an access out of range has been executed

comboVars == <<scenarios, scenario, routes, route>>
mapVars   == <<m1_maps, m2_maps, park_numbers, is_map_initialized>>
menuVars  == <<park_menu, bool_parks, send_msg>>
driveVars == <<is_started, grid, labels, plan>>
vars == <<server, comboVars, mapVars, menuVars, driveVars, fault>>
-----------------------------------------------------------------------------
Items(s) == {s[i] : i \in DOMAIN s}
PlanType == [scenario : Nat, route : Nat, size : Nat, enabled : Seq(BOOLEAN)]
NoPlan == [scenario |-> None, route |-> None, size |-> 0, enabled |-> <<>>]

Stations(r) == IF r \in DOMAIN m2_maps THEN m2_maps[r] ELSE <<>>

(* The stops as the menu shows them first: none is ticked.                 *)
Unticked(stations) == [i \in DOMAIN stations |-> [stop |-> stations[i], on |-> FALSE]]
Ticks(menu) == [i \in DOMAIN menu |-> menu[i].on]

Init ==
  /\ server \in Servers
  /\ scenarios = {} /\ scenario = None /\ routes = <<>> /\ route = None
  /\ m1_maps = <<>> /\ m2_maps = <<>>
  /\ park_menu = <<>> /\ park_numbers = 0 /\ bool_parks = <<>>
  /\ is_map_initialized = FALSE /\ is_started = FALSE
  /\ grid = FALSE /\ labels = <<>> /\ plan = NoPlan /\ send_msg = NoPlan /\ fault = FALSE
-----------------------------------------------------------------------------
(* What the loop over a message leaves in the two maps: the last map or    *)
(* route of a name wins, whichever map a route belongs to.                 *)
MapNames(maps) == {maps[i].name : i \in DOMAIN maps}
LastMap(maps, name) == maps[Max({i \in DOMAIN maps : maps[i].name = name})]
RoutesOf(map) == [j \in DOMAIN map.routes |-> map.routes[j].name]
MutM1AfterLoop(maps) ==
  LET map == maps[Len(maps)] IN [name \in {map.name} |-> RoutesOf(map)]
M1(maps) == [name \in MapNames(maps) |-> RoutesOf(LastMap(maps, name))]

Places(maps) == UNION {{<<i, j>> : j \in DOMAIN maps[i].routes} : i \in DOMAIN maps}
RouteAt(maps, p) == maps[p[1]].routes[p[2]]
Later(p, q) == p[1] > q[1] \/ (p[1] = q[1] /\ p[2] >= q[2])
LastRoute(maps, r) ==
  LET named == {p \in Places(maps) : RouteAt(maps, p).name = r}
  IN RouteAt(maps, CHOOSE p \in named : \A q \in named : Later(p, q))
M2(maps) ==
  [r \in {RouteAt(maps, p).name : p \in Places(maps)} |-> LastRoute(maps, r).stations]

(* The flags of the stops are emptied, and copied into send_msg.           *)
NoFlags == bool_parks' = <<>> /\ send_msg' = [send_msg EXCEPT !.enabled = bool_parks']

(* updateUI, first half: the first maps that arrive fill the combo boxes.  *)
(* The scenario box shows the first map of the message, the route box the  *)
(* routes of the first map in the order of names, and park_numbers counts  *)
(* the stations of the first of those.  Filling the route box empties      *)
(* bool_parks, which is then what send_msg holds.                          *)
MutReadsMapsAgain(maps) == maps # <<>>
ReadsMaps(maps) == ~is_map_initialized /\ maps # <<>>
InitMaps(maps) ==
  /\ scenarios' = MapNames(maps)
  /\ scenario' = maps[1].name
  /\ m1_maps' = M1(maps)
  /\ m2_maps' = M2(maps)
  /\ routes' = m1_maps'[Min(DOMAIN m1_maps')]
  /\ route' = IF routes' = <<>> THEN None ELSE routes'[1]
  /\ park_menu' = Unticked(IF route' = None THEN <<>> ELSE m2_maps'[route'])
  /\ park_numbers' = Len(park_menu')
  /\ NoFlags
  /\ is_map_initialized' = TRUE

(* updateUI, second half: while a plan is driven the grid of stations is   *)
(* built once, with the names of the route that is shown, and then only    *)
(* the arrows beside the names are updated, for park_numbers stations.  An *)
(* empty stop_passed_status is first given that many entries.  An index    *)
(* out of range ends the behaviour: what the program does next is          *)
(* undefined.                                                              *)
MutPassedFlags(passed) == passed
PassedFlags(passed) == IF passed = 0 THEN park_numbers' ELSE passed
InRange(shown, passed) ==
  /\ park_numbers' <= Len(IF grid THEN labels ELSE shown)
  /\ park_numbers' <= Len(bool_parks')
  /\ park_numbers' <= PassedFlags(passed)

UpdateUI(maps, passed) ==
  /\ ~fault
  /\ IF ReadsMaps(maps) THEN InitMaps(maps) ELSE UNCHANGED <<comboVars, mapVars, menuVars>>
  /\ LET shown == IF route' \in DOMAIN m2_maps' THEN m2_maps'[route'] ELSE <<>>
     IN /\ fault' = \/ ReadsMaps(maps) /\ routes' = <<>>
                    \/ is_started /\ ~InRange(shown, passed)
        /\ labels' = IF is_started /\ ~grid /\ ~fault'
                     THEN SubSeq(shown, 1, park_numbers') ELSE labels
  /\ grid' = (grid \/ is_started)
  /\ UNCHANGED <<server, is_started, plan>>
-----------------------------------------------------------------------------
(* The planning panel is shown while no plan is driven.                    *)
Planning == ~fault /\ ~is_started

(* route_station: the menu of the route that is now shown.  It empties the *)
(* flags, also in send_msg, which keeps the names and the size of the last *)
(* plan: that is what the exit button then sends.                          *)
MutShowStops == UNCHANGED park_menu /\ NoFlags
ShowStops == park_menu' = Unticked(Stations(route')) /\ NoFlags

(* scenario_route: clearing and filling the route box calls route_station. *)
SelectScenario(s) ==
  /\ Planning
  /\ scenario' = s
  /\ routes' = m1_maps[s]
  /\ route' = IF routes' = <<>> THEN None ELSE routes'[1]
  /\ ShowStops
  /\ UNCHANGED <<server, scenarios, mapVars, driveVars, fault>>

SelectRoute(r) ==
  /\ Planning
  /\ route' = r
  /\ ShowStops
  /\ UNCHANGED <<server, scenarios, scenario, routes, mapVars, driveVars, fault>>

TickStop(i) ==
  /\ Planning
  /\ park_menu' = [park_menu EXCEPT ![i].on = ~@]
  /\ UNCHANGED <<server, comboVars, mapVars, bool_parks, send_msg, driveVars, fault>>

(* Route_planning_start_slots with stations_bool.                          *)
MutReadTicks == bool_parks
ReadTicks == Ticks(park_menu)
Start ==
  /\ Planning
  /\ server.early \/ is_map_initialized
  /\ bool_parks' = ReadTicks
  /\ send_msg' = [scenario |-> scenario, route |-> route, size |-> park_numbers,
                   enabled |-> bool_parks']
  /\ plan' = send_msg'
  /\ is_started' = TRUE
  /\ UNCHANGED <<server, comboVars, mapVars, park_menu, grid, labels, fault>>

(* Route_planning_end_slots.                                               *)
End ==
  /\ ~fault /\ is_started
  /\ is_started' = FALSE
  /\ UNCHANGED <<server, comboVars, mapVars, menuVars, grid, labels, plan, fault>>

Next ==
  \/ \E maps \in server.messages \cup {<<>>}, passed \in server.passed : UpdateUI(maps, passed)
  \/ \E s \in scenarios \ {scenario} : SelectScenario(s)
  \/ \E r \in Items(routes) \ {route} : SelectRoute(r)
  \/ \E i \in DOMAIN park_menu : TickStop(i)
  \/ Start \/ End

Spec == Init /\ [][Next]_vars
-----------------------------------------------------------------------------
TypeOK ==
  /\ server \in Servers
  /\ scenarios \subseteq Names /\ scenario \in scenarios \cup {None}
  /\ routes \in Seq(Names) /\ route \in Items(routes) \cup {None}
  /\ DOMAIN m1_maps = scenarios
  /\ \A s \in scenarios : m1_maps[s] \in Seq(Names)
  /\ \A r \in DOMAIN m2_maps : r \in Names /\ m2_maps[r] \in Seq(Names)
  /\ park_menu \in Seq([stop : Names, on : BOOLEAN])
  /\ park_numbers \in Nat /\ labels \in Seq(Names)
  /\ bool_parks \in Seq(BOOLEAN)
  /\ is_map_initialized \in BOOLEAN /\ is_started \in BOOLEAN /\ grid \in BOOLEAN
  /\ plan \in PlanType /\ send_msg \in PlanType
  /\ fault \in BOOLEAN

(* The menu offers exactly the stops of the route that is shown, through   *)
(* every chain of combo box signals, and when maps arrive in mid-drive.    *)
MenuMatchesRoute ==
  ~fault => [i \in DOMAIN park_menu |-> park_menu[i].stop] = Stations(route)

(* The plan that was sent has one flag for every station of its route.     *)
PlanMatchesRoute == Len(plan.enabled) = Len(Stations(plan.route))

(* While a plan is driven every copy of it stays what the start button     *)
(* sent: the flags that the grid shows, and what the jobs, the door and    *)
(* the end of the plan send again, although route_station and the arrival  *)
(* of maps empty the flags of both.                                        *)
DrivenPlanStays == is_started => send_msg = plan /\ bool_parks = plan.enabled

(* No access is out of range if the maps arrive before the first start,    *)
(* and every route has the stations that updateUI loops over.              *)
Regular ==
  /\ ~server.early
  /\ \A maps \in server.messages :
       LET first == M1(maps)[Min(MapNames(maps))]
       IN /\ first # <<>>
          /\ \A r \in DOMAIN M2(maps) : Len(M2(maps)[r]) >= Len(M2(maps)[first[1]])
          /\ \A n \in MapNames(maps) : M1(maps)[n] # <<>>
          /\ \A p \in server.passed : p = 0 \/ p >= Len(M2(maps)[first[1]])
NoFault == Regular => ~fault
-----------------------------------------------------------------------------
(* StellaType.h:16 calls stop_size the number of stops of the plan whose   *)
(* flags follow it.                                                        *)
StopSizeMatches == plan.size = Len(plan.enabled)

(* widget.cpp:550 titles the grid "station information" and widget.cpp:650  *)
(* offers to plan again: while a plan is driven the names on the grid are  *)
(* stations of its route.                                                  *)
GridShowsPlan ==
  is_started /\ grid /\ ~fault /\ plan.route # None =>
    labels = SubSeq(Stations(plan.route), 1, Len(labels))
=============================================================================
