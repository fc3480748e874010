--------------------------- MODULE RoutePlanProofs ---------------------------
(***************************************************************************)
(* Proofs about RoutePlan, for every server the assumption allows: any     *)
(* messages, with any maps, routes and stations.                           *)
(***************************************************************************)
EXTENDS RoutePlan, SequenceTheorems, WellFoundedInduction, TLAPS

(* The least and the greatest of a set of numbers exist.                   *)
LEMMA MinIsThere ==
  ASSUME NEW S \in SUBSET Nat, S # {}
  PROVE  Min(S) \in S /\ \A y \in S : Min(S) <= y
<1>1. PICK x \in S : \A y \in S : <<y, x>> \notin OpToRel(<, Nat)
  BY NatLessThanWellFounded, WFMin
<1>2. \A y \in S : x <= y
  <2> SUFFICES ASSUME NEW y \in S, ~(x <= y) PROVE FALSE
    OBVIOUS
  <2>1. <<y, x>> \in OpToRel(<, Nat)
    BY DEF OpToRel
  <2> QED
    BY <1>1, <2>1
<1> QED
  BY <1>2 DEF Min

LEMMA MaxIsThere ==
  ASSUME NEW n \in Nat, NEW S \in SUBSET (0..n), S # {}
  PROVE  Max(S) \in S /\ \A y \in S : Max(S) >= y
<1> DEFINE T == {n - x : x \in S}
<1>1. T \in SUBSET Nat /\ T # {}
  OBVIOUS
<1>2. Min(T) \in T /\ \A y \in T : Min(T) <= y
  BY <1>1, MinIsThere
<1>3. PICK x \in S : Min(T) = n - x
  BY <1>2
<1>4. \A y \in S : x >= y
  <2> SUFFICES ASSUME NEW y \in S PROVE x >= y
    OBVIOUS
  <2>1. n - x <= n - y
    BY <1>2, <1>3
  <2> QED
    BY <2>1
<1> QED
  BY <1>4 DEF Max

(* A sequence mapped item by item.                                         *)
LEMMA Length ==
  ASSUME NEW S, NEW s \in Seq(S)
  PROVE  /\ Len(s) \in Nat /\ DOMAIN s = 1..Len(s)
         /\ \A i \in DOMAIN s : s[i] \in S
         /\ s # <<>> => 1 \in DOMAIN s
         /\ s = [i \in DOMAIN s |-> s[i]]
<1>1. /\ Len(s) \in Nat /\ DOMAIN s = 1..Len(s) /\ \A i \in DOMAIN s : s[i] \in S
  BY LenProperties, ElementOfSeq
<1>2. s # <<>> => Len(s) # 0
  BY EmptySeq
<1>3. s = [i \in DOMAIN s |-> s[i]]
  BY LenProperties
<1> QED
  BY <1>1, <1>2, <1>3

LEMMA IsSequence ==
  ASSUME NEW S, NEW n \in Nat, NEW f \in [1..n -> S]
  PROVE  f \in Seq(S) /\ Len(f) = n /\ DOMAIN f = 1..n
BY SeqDef
-----------------------------------------------------------------------------
(* What a message holds.                                                   *)
LEMMA Message ==
  ASSUME NEW maps \in Seq(MapType)
  PROVE  /\ Len(maps) \in Nat /\ DOMAIN maps = 1..Len(maps)
         /\ \A i \in DOMAIN maps :
              /\ maps[i].name \in Names /\ maps[i].routes \in Seq(RouteType)
              /\ Len(maps[i].routes) \in Nat /\ DOMAIN maps[i].routes = 1..Len(maps[i].routes)
              /\ \A j \in DOMAIN maps[i].routes :
                   /\ maps[i].routes[j].name \in Names
                   /\ maps[i].routes[j].stations \in Seq(Names)
<1>1. /\ Len(maps) \in Nat /\ DOMAIN maps = 1..Len(maps)
      /\ \A i \in DOMAIN maps : maps[i] \in MapType
  BY Length
<1>2. ASSUME NEW i \in DOMAIN maps
      PROVE  /\ maps[i].name \in Names /\ maps[i].routes \in Seq(RouteType)
             /\ Len(maps[i].routes) \in Nat /\ DOMAIN maps[i].routes = 1..Len(maps[i].routes)
             /\ \A j \in DOMAIN maps[i].routes :
                   /\ maps[i].routes[j].name \in Names
                   /\ maps[i].routes[j].stations \in Seq(Names)
  <2>1. maps[i].name \in Names /\ maps[i].routes \in Seq(RouteType)
    BY <1>1 DEF MapType
  <2> DEFINE rs == maps[i].routes
  <2>2. rs \in Seq(RouteType)
    BY <2>1
  <2> HIDE DEF rs
  <2>3. /\ Len(rs) \in Nat /\ DOMAIN rs = 1..Len(rs)
        /\ \A j \in DOMAIN rs : rs[j] \in RouteType
    BY <2>2, Length
  <2>4. \A x \in RouteType : x.name \in Names /\ x.stations \in Seq(Names)
    BY DEF RouteType
  <2> QED
    BY <2>1, <2>3, <2>4 DEF rs
<1> QED
  BY <1>1, <1>2

(* The map that counts for a name is one of that name.                     *)
LEMMA LastMapIsThere ==
  ASSUME NEW maps \in Seq(MapType), NEW s \in MapNames(maps)
  PROVE  \E i \in DOMAIN maps : LastMap(maps, s) = maps[i] /\ maps[i].name = s
<1> DEFINE S == {i \in DOMAIN maps : maps[i].name = s}
<1>1. S # {} /\ Len(maps) \in Nat /\ S \in SUBSET (0..Len(maps))
  BY Message DEF MapNames
<1>2. Max(S) \in S
  BY <1>1, MaxIsThere
<1> QED
  BY <1>2 DEF LastMap

(* The place of a route: the map, and its position in the map.             *)
LEMMA PlaceIs ==
  ASSUME NEW maps, NEW p \in Places(maps)
  PROVE  p[1] \in DOMAIN maps /\ p[2] \in DOMAIN maps[p[1]].routes
BY DEF Places

LEMMA PlaceOf ==
  ASSUME NEW maps, NEW i \in DOMAIN maps, NEW j \in DOMAIN maps[i].routes
  PROVE  /\ <<i, j>> \in Places(maps)
         /\ RouteAt(maps, <<i, j>>) = maps[i].routes[j]
BY DEF Places, RouteAt

(* The route that counts for a name is one of that name.                   *)
LEMMA LastRouteIsThere ==
  ASSUME NEW maps \in Seq(MapType), NEW r \in {RouteAt(maps, p).name : p \in Places(maps)}
  PROVE  \E p \in Places(maps) : /\ LastRoute(maps, r) = RouteAt(maps, p)
                                 /\ RouteAt(maps, p).name = r
<1> DEFINE named == {p \in Places(maps) : RouteAt(maps, p).name = r}
           I == {p[1] : p \in named}
<1>1. named # {}
  OBVIOUS
<1>2. Len(maps) \in Nat /\ I \in SUBSET (0..Len(maps)) /\ I # {}
  BY <1>1, Message, PlaceIs
<1> DEFINE a == Max(I)
<1>3. a \in I /\ \A i \in I : a >= i
  BY <1>2, MaxIsThere
<1> HIDE DEF a
<1> DEFINE J == {p[2] : p \in {q \in named : q[1] = a}}
           n == Len(maps[a].routes)
<1>4. a \in DOMAIN maps /\ n \in Nat /\ DOMAIN maps[a].routes = 1..n /\ J # {}
  BY <1>3, Message, PlaceIs
<1>5. J \in SUBSET (0..n)
  BY <1>4, PlaceIs
<1> HIDE DEF n
<1> DEFINE b == Max(J)
<1>6. b \in J /\ \A j \in J : b >= j
  BY <1>4, <1>5, MaxIsThere
<1> HIDE DEF b
<1>7. PICK p \in named : p[1] = a /\ p[2] = b
  BY <1>6
<1>8. \A q \in named : Later(p, q)
  <2> SUFFICES ASSUME NEW q \in named PROVE Later(p, q)
    OBVIOUS
  <2>1. q[1] \in I /\ a >= q[1] /\ a \in Nat /\ q[1] \in Nat
    BY <1>2, <1>3
  <2>2. q[1] = a => q[2] \in J
    OBVIOUS
  <2>3. q[1] = a => b >= q[2]
    BY <1>6, <2>2
  <2> QED
    BY <1>7, <2>1, <2>3 DEF Later
<1>9. PICK c : c = CHOOSE x \in named : \A q \in named : Later(x, q)
  OBVIOUS
<1>10. c \in named
  BY <1>8, <1>9
<1>11. LastRoute(maps, r) = RouteAt(maps, c)
  BY <1>9 DEF LastRoute
<1> QED
  BY <1>10, <1>11

(* What the loop over a message leaves: sequences of names, and every      *)
(* route of a map has its stations.                                        *)
LEMMA LoopReads ==
  ASSUME NEW maps \in Seq(MapType), maps # <<>>
  PROVE  /\ MapNames(maps) \subseteq Names /\ maps[1].name \in MapNames(maps)
         /\ DOMAIN M1(maps) = MapNames(maps)
         /\ \A s \in MapNames(maps) : /\ M1(maps)[s] \in Seq(Names)
                                      /\ Items(M1(maps)[s]) \subseteq DOMAIN M2(maps)
         /\ DOMAIN M2(maps) \subseteq Names
         /\ \A r \in DOMAIN M2(maps) : M2(maps)[r] \in Seq(Names)
<1>1. MapNames(maps) \subseteq Names
  BY Message DEF MapNames
<1>2. maps[1].name \in MapNames(maps)
  BY Length DEF MapNames
<1>3. DOMAIN M1(maps) = MapNames(maps) /\ DOMAIN M2(maps) = {RouteAt(maps, p).name : p \in Places(maps)}
  BY DEF M1, M2
<1>4. ASSUME NEW s \in MapNames(maps)
      PROVE  /\ M1(maps)[s] \in Seq(Names)
             /\ Items(M1(maps)[s]) \subseteq DOMAIN M2(maps)
  <2>1. PICK i \in DOMAIN maps : LastMap(maps, s) = maps[i] /\ maps[i].name = s
    BY LastMapIsThere
  <2>2. M1(maps)[s] = RoutesOf(maps[i])
    BY <2>1 DEF M1
  <2> DEFINE n == Len(maps[i].routes)
  <2>3. n \in Nat /\ DOMAIN maps[i].routes = 1..n /\ \A j \in 1..n : maps[i].routes[j].name \in Names
    BY Message
  <2> HIDE DEF n
  <2>4. RoutesOf(maps[i]) \in [1..n -> Names]
    BY <2>3 DEF RoutesOf
  <2>5. RoutesOf(maps[i]) \in Seq(Names) /\ DOMAIN RoutesOf(maps[i]) = 1..n
    BY <2>3, <2>4, IsSequence
  <2>6. ASSUME NEW j \in 1..n PROVE RoutesOf(maps[i])[j] \in DOMAIN M2(maps)
    <3>1. RoutesOf(maps[i])[j] = maps[i].routes[j].name
      BY <2>3 DEF RoutesOf
    <3>2. <<i, j>> \in Places(maps) /\ RouteAt(maps, <<i, j>>) = maps[i].routes[j]
      BY <2>3, PlaceOf
    <3> QED
      BY <1>3, <3>1, <3>2
  <2> QED
    BY <2>2, <2>5, <2>6 DEF Items
<1>5. ASSUME NEW p \in Places(maps)
      PROVE  RouteAt(maps, p).name \in Names /\ RouteAt(maps, p).stations \in Seq(Names)
  BY PlaceIs, Message DEF RouteAt
<1>6. DOMAIN M2(maps) \subseteq Names
  BY <1>3, <1>5
<1>7. ASSUME NEW r \in DOMAIN M2(maps) PROVE M2(maps)[r] \in Seq(Names)
  <2>1. r \in {RouteAt(maps, p).name : p \in Places(maps)}
    BY <1>3
  <2>2. M2(maps)[r] = LastRoute(maps, r).stations
    BY <2>1 DEF M2
  <2> QED
    BY <1>5, <2>1, <2>2, LastRouteIsThere
<1> QED
  BY <1>1, <1>2, <1>3, <1>4, <1>6, <1>7
-----------------------------------------------------------------------------
(* Before the maps arrive nothing is shown and no route is planned; after  *)
(* that every route that can be chosen has an entry in m2_maps.            *)
Fresh ==
  ~is_map_initialized =>
    /\ DOMAIN m2_maps = {} /\ scenarios = {} /\ routes = <<>> /\ route = None
    /\ plan.route = None /\ park_menu = <<>>
Known ==
  /\ \A s \in scenarios : Items(m1_maps[s]) \subseteq DOMAIN m2_maps
  /\ Items(routes) \subseteq DOMAIN m2_maps

PlanInv ==
  /\ TypeOK /\ Fresh /\ Known
  /\ MenuMatchesRoute /\ PlanMatchesRoute /\ DrivenPlanStays

LEMMA InitPlan == Init => PlanInv
<1> SUFFICES ASSUME Init PROVE PlanInv
  OBVIOUS
<1> USE DEF Init
<1>1. /\ DOMAIN <<>> = {} /\ \A S : <<>> \in Seq(S) /\ Len(<<>>) = 0
  BY EmptySeq
<1>2. TypeOK
  BY <1>1 DEF TypeOK, NoPlan, PlanType, None, Items
<1>3. Fresh /\ Known
  BY <1>1 DEF Fresh, Known, NoPlan, None, Items
<1>4. Stations(None) = <<>> /\ [i \in {} |-> park_menu[i].stop] = <<>>
  BY <1>1, EmptySeq DEF Stations
<1>5. MenuMatchesRoute
  BY <1>1, <1>4 DEF MenuMatchesRoute
<1>6. PlanMatchesRoute
  BY <1>1, <1>4 DEF PlanMatchesRoute, NoPlan
<1>7. DrivenPlanStays
  BY DEF DrivenPlanStays
<1> QED
  BY <1>2, <1>3, <1>5, <1>6, <1>7 DEF PlanInv

(* The stations of a route, and the menu that offers them.                 *)
LEMMA StationsAre ==
  ASSUME TypeOK
  PROVE  /\ \A r : Stations(r) \in Seq(Names)
         /\ \A r \in DOMAIN m2_maps : Stations(r) = m2_maps[r]
         /\ Stations(None) = <<>>
<1>1. \A r \in DOMAIN m2_maps : r \in Names /\ m2_maps[r] \in Seq(Names)
  BY DEF TypeOK
<1>2. None \notin DOMAIN m2_maps
  BY <1>1 DEF Names
<1>3. <<>> \in Seq(Names)
  BY EmptySeq
<1> QED
  BY <1>1, <1>2, <1>3 DEF Stations

LEMMA MenuOf ==
  ASSUME NEW stations \in Seq(Names)
  PROVE  LET menu == Unticked(stations)
         IN /\ menu \in Seq([stop : Names, on : BOOLEAN])
            /\ Len(menu) = Len(stations) /\ Len(menu) \in Nat
            /\ [i \in DOMAIN menu |-> menu[i].stop] = stations
<1> DEFINE menu == Unticked(stations)
           n == Len(stations)
<1>1. n \in Nat /\ DOMAIN stations = 1..n /\ \A i \in 1..n : stations[i] \in Names
  BY Length
<1>2. stations = [i \in DOMAIN stations |-> stations[i]]
  BY Length
<1>3. menu = [i \in 1..n |-> [stop |-> stations[i], on |-> FALSE]]
  BY <1>1 DEF Unticked
<1> HIDE DEF menu, n
<1>4. menu \in [1..n -> [stop : Names, on : BOOLEAN]]
  BY <1>1, <1>3
<1>5. menu \in Seq([stop : Names, on : BOOLEAN]) /\ Len(menu) = n /\ DOMAIN menu = 1..n
  BY <1>1, <1>4, IsSequence
<1>6. [i \in DOMAIN menu |-> menu[i].stop] = [i \in 1..n |-> stations[i]]
  BY <1>3, <1>5
<1> QED
  BY <1>1, <1>2, <1>5, <1>6 DEF menu, n

(* A message whose flags are emptied.                                      *)
LEMMA Emptied ==
  ASSUME NEW m \in PlanType
  PROVE  /\ [m EXCEPT !.enabled = <<>>] \in PlanType
         /\ m.enabled = <<>> => [m EXCEPT !.enabled = <<>>] = m
<1>1. <<>> \in Seq(BOOLEAN)
  BY EmptySeq
<1> QED
  BY <1>1 DEF PlanType

(* The maps arrive.                                                        *)
LEMMA MapsArrive ==
  ASSUME TypeOK, NEW maps \in Seq(MapType), maps # <<>>, InitMaps(maps)
  PROVE  LET first == M1(maps)[Min(MapNames(maps))]
         IN /\ Min(MapNames(maps)) \in MapNames(maps)
            /\ scenarios' = MapNames(maps) /\ scenario' \in scenarios' /\ scenarios' \subseteq Names
            /\ m1_maps' = M1(maps) /\ DOMAIN m1_maps' = scenarios'
            /\ m2_maps' = M2(maps)
            /\ \A s \in scenarios' : m1_maps'[s] \in Seq(Names)
            /\ \A r \in DOMAIN m2_maps' : r \in Names /\ m2_maps'[r] \in Seq(Names)
            /\ Known'
            /\ routes' = first /\ routes' \in Seq(Names)
            /\ IF routes' = <<>> THEN route' = None /\ park_menu' = Unticked(<<>>)
               ELSE /\ route' = first[1] /\ route' \in Items(routes') /\ route' \in DOMAIN m2_maps'
                    /\ park_menu' = Unticked(m2_maps'[route'])
            /\ park_menu' = Unticked(Stations(route)')
            /\ Stations(route)' \in Seq(Names)
            /\ park_numbers' = Len(park_menu')
            /\ bool_parks' = <<>> /\ is_map_initialized' = TRUE
            /\ send_msg' = [send_msg EXCEPT !.enabled = <<>>]
<1>1. /\ scenarios' = MapNames(maps) /\ scenario' = maps[1].name
      /\ m1_maps' = M1(maps) /\ m2_maps' = M2(maps)
      /\ routes' = m1_maps'[Min(DOMAIN m1_maps')]
      /\ route' = IF routes' = <<>> THEN None ELSE routes'[1]
      /\ park_menu' = Unticked(IF route' = None THEN <<>> ELSE m2_maps'[route'])
      /\ park_numbers' = Len(park_menu')
      /\ bool_parks' = <<>> /\ is_map_initialized' = TRUE
      /\ send_msg' = [send_msg EXCEPT !.enabled = <<>>]
  BY DEF InitMaps, NoFlags
<1>2. /\ MapNames(maps) \subseteq Names /\ maps[1].name \in MapNames(maps)
      /\ DOMAIN M1(maps) = MapNames(maps)
      /\ \A s \in MapNames(maps) : /\ M1(maps)[s] \in Seq(Names)
                                   /\ Items(M1(maps)[s]) \subseteq DOMAIN M2(maps)
      /\ DOMAIN M2(maps) \subseteq Names
      /\ \A r \in DOMAIN M2(maps) : M2(maps)[r] \in Seq(Names)
  BY LoopReads
<1>3. Min(MapNames(maps)) \in MapNames(maps)
  BY <1>2, MinIsThere DEF Names
<1> DEFINE first == M1(maps)[Min(MapNames(maps))]
<1>4. /\ routes' = first /\ first \in Seq(Names) /\ Items(first) \subseteq DOMAIN M2(maps)
  BY <1>1, <1>2, <1>3
<1> HIDE DEF first
<1>5. Known'
  BY <1>1, <1>2, <1>4 DEF Known
<1>6. CASE routes' = <<>>
  <2>1. route' = None /\ park_menu' = Unticked(<<>>)
    BY <1>1, <1>6
  <2>2. Stations(route)' = <<>> /\ <<>> \in Seq(Names)
    BY <1>1, <1>2, <2>1, EmptySeq DEF Stations, Names
  <2> QED
    BY <1>1, <1>2, <1>3, <1>4, <1>5, <1>6, <2>1, <2>2 DEF first
<1>7. CASE routes' # <<>>
  <2>1. route' = first[1] /\ 1 \in DOMAIN first
    BY <1>1, <1>4, <1>7, Length
  <2>2. route' \in Items(routes') /\ route' \in DOMAIN m2_maps' /\ route' # None
    BY <1>1, <1>2, <1>4, <2>1 DEF Items, Names
  <2>3. /\ park_menu' = Unticked(m2_maps'[route'])
        /\ Stations(route)' = m2_maps'[route'] /\ m2_maps'[route'] \in Seq(Names)
    BY <1>1, <1>2, <2>2 DEF Stations
  <2> QED
    BY <1>1, <1>2, <1>3, <1>4, <1>5, <1>7, <2>1, <2>2, <2>3 DEF first
<1> QED
  BY <1>6, <1>7

LEMMA LabelsAre ==
  ASSUME NEW shown \in Seq(Names), NEW n \in Nat, n <= Len(shown)
  PROVE  SubSeq(shown, 1, n) \in Seq(Names) /\ Len(SubSeq(shown, 1, n)) = n
<1>1. \A i \in 1..n : shown[i] \in Names
  BY Length
<1>2. /\ SubSeq(shown, 1, n) \in Seq(Names)
      /\ Len(SubSeq(shown, 1, n)) = IF 1 <= n THEN n - 1 + 1 ELSE 0
  BY <1>1, SubSeqProperties
<1> QED
  BY <1>2

(* What updateUI leaves of the labels.                                     *)
LEMMA LabelsAfterUpdate ==
  ASSUME TypeOK, NEW maps, NEW passed, UpdateUI(maps, passed),
         Stations(route)' \in Seq(Names), park_numbers' \in Nat
  PROVE  /\ labels' \in Seq(Names)
         /\ is_started /\ ~grid /\ ~fault' => Len(labels') = park_numbers'
         /\ grid \/ ~is_started => labels' = labels
<1> DEFINE shown == IF route' \in DOMAIN m2_maps' THEN m2_maps'[route'] ELSE <<>>
<1>1. /\ fault' = \/ ReadsMaps(maps) /\ routes' = <<>>
                  \/ is_started /\ ~InRange(shown, passed)
      /\ labels' = IF is_started /\ ~grid /\ ~fault'
                   THEN SubSeq(shown, 1, park_numbers') ELSE labels
  BY DEF UpdateUI
<1>2. shown \in Seq(Names)
  BY DEF Stations
<1> HIDE DEF shown
<1>3. labels \in Seq(Names)
  BY DEF TypeOK
<1>4. CASE is_started /\ ~grid /\ ~fault'
  <2>1. InRange(shown, passed)
    BY <1>1, <1>4
  <2>2. park_numbers' <= Len(shown)
    BY <1>4, <2>1 DEF InRange
  <2> QED
    BY <1>1, <1>2, <1>4, <2>2, LabelsAre
<1>5. CASE ~(is_started /\ ~grid /\ ~fault')
  BY <1>1, <1>3, <1>5
<1> QED
  BY <1>4, <1>5

(* updateUI, with maps or without.                                         *)
LEMMA StepUpdate ==
  ASSUME PlanInv, NEW maps \in server.messages \cup {<<>>}, NEW passed \in server.passed,
         UpdateUI(maps, passed)
  PROVE  PlanInv'
<1> USE DEF comboVars, mapVars, menuVars
<1>1. /\ ~fault /\ UNCHANGED <<server, is_started, plan>> /\ grid' = (grid \/ is_started)
      /\ IF ReadsMaps(maps) THEN InitMaps(maps) ELSE UNCHANGED <<comboVars, mapVars, menuVars>>
      /\ fault' \in BOOLEAN
  BY Zenon DEF UpdateUI
<1>2. grid' \in BOOLEAN
  BY <1>1, Zenon DEF PlanInv, TypeOK
<1>3. TypeOK
  BY DEF PlanInv
<1>4. CASE ~ReadsMaps(maps)
  <2>1. UNCHANGED <<scenarios, scenario, routes, route, m1_maps, m2_maps, park_numbers,
                    is_map_initialized, park_menu, bool_parks, send_msg, server, is_started, plan>>
    BY <1>1, <1>4
  <2>2. Stations(route)' \in Seq(Names) /\ park_numbers' \in Nat
    BY <1>3, <2>1, StationsAre DEF Stations, TypeOK
  <2>3. labels' \in Seq(Names)
    BY <1>3, <2>2, LabelsAfterUpdate
  <2>4. TypeOK'
    BY <1>1, <1>2, <1>3, <2>1, <2>3, Zenon DEF TypeOK, Items
  <2>5. Fresh' /\ Known' /\ PlanMatchesRoute' /\ DrivenPlanStays'
    BY <2>1 DEF PlanInv, Fresh, Known, PlanMatchesRoute, DrivenPlanStays, Stations, Items
  <2>6. MenuMatchesRoute'
    BY <1>1, <2>1 DEF PlanInv, MenuMatchesRoute, Stations
  <2> QED
    BY <2>4, <2>5, <2>6 DEF PlanInv
<1>5. CASE ReadsMaps(maps)
  <2>1. ~is_map_initialized /\ maps # <<>> /\ maps \in Seq(MapType)
    BY <1>3, <1>5, ServersAssumption DEF ReadsMaps, TypeOK
  <2>2. InitMaps(maps)
    BY <1>1, <1>5
  <2> DEFINE first == M1(maps)[Min(MapNames(maps))]
  <2>3. /\ scenario' \in scenarios' /\ scenarios' \subseteq Names
        /\ DOMAIN m1_maps' = scenarios'
        /\ \A s \in scenarios' : m1_maps'[s] \in Seq(Names)
        /\ \A r \in DOMAIN m2_maps' : r \in Names /\ m2_maps'[r] \in Seq(Names)
        /\ Known' /\ routes' \in Seq(Names)
        /\ route' = None \/ route' \in Items(routes')
        /\ park_menu' = Unticked(Stations(route)')
        /\ Stations(route)' \in Seq(Names)
        /\ park_numbers' = Len(park_menu')
        /\ bool_parks' = <<>> /\ is_map_initialized' = TRUE
        /\ send_msg' = [send_msg EXCEPT !.enabled = <<>>]
    BY <1>3, <2>1, <2>2, MapsArrive
  <2>4. /\ park_menu' \in Seq([stop : Names, on : BOOLEAN]) /\ park_numbers' \in Nat
        /\ [i \in DOMAIN park_menu' |-> park_menu'[i].stop] = Stations(route)'
    BY <2>3, MenuOf
  <2>5. labels' \in Seq(Names)
    BY <1>3, <2>3, <2>4, LabelsAfterUpdate
  <2>6. bool_parks' \in Seq(BOOLEAN) /\ is_map_initialized' \in BOOLEAN
        /\ route' \in Items(routes)' \cup {None}
    BY <2>3, EmptySeq DEF Items
  <2>7. TypeOK'
    <3>1. server' \in Servers /\ is_started' \in BOOLEAN /\ plan' \in PlanType
      BY <1>1, <1>3, Zenon DEF TypeOK
    <3>3. send_msg' \in PlanType
      BY <1>3, <2>3, Emptied DEF TypeOK
    <3>2. scenario' \in scenarios' \cup {None}
      BY <2>3
    <3> QED
      BY <1>1, <1>2, <2>3, <2>4, <2>5, <2>6, <3>1, <3>2, <3>3, Zenon DEF TypeOK
  <2>8. plan.route = None /\ DOMAIN m2_maps = {}
    BY <2>1 DEF PlanInv, Fresh
  <2>9. Fresh'
    BY <1>1, <2>3, <2>8 DEF Fresh
  <2>10. PlanMatchesRoute'
    <3>1. Stations(None) = <<>> /\ Stations(None)' = <<>>
      BY <2>3, <2>8 DEF Stations, Names
    <3> QED
      BY <1>1, <2>8, <3>1 DEF PlanInv, PlanMatchesRoute, Stations
  <2>11. MenuMatchesRoute'
    BY <2>4 DEF MenuMatchesRoute
  <2>12. DrivenPlanStays'
    (* Maps that come in mid-drive find a plan without stops.              *)
    <3>1. plan.enabled = <<>>
      <4>1. plan.enabled \in Seq(BOOLEAN)
        BY <1>3 DEF TypeOK, PlanType
      <4>2. Len(plan.enabled) = 0
        BY <2>8, EmptySeq DEF PlanInv, PlanMatchesRoute, Stations
      <4> QED
        BY <4>1, <4>2, EmptySeq
    <3>2. is_started => send_msg = plan
      BY DEF PlanInv, DrivenPlanStays
    <3>3. send_msg \in PlanType /\ send_msg' = [send_msg EXCEPT !.enabled = <<>>]
      BY <1>3, <2>3 DEF TypeOK
    <3>4. is_started => send_msg' = send_msg
      BY <3>1, <3>2, <3>3, Emptied
    <3> QED
      BY <1>1, <2>3, <3>1, <3>2, <3>4 DEF DrivenPlanStays
  <2> QED
    BY <2>3, <2>7, <2>9, <2>10, <2>11, <2>12 DEF PlanInv
<1> QED
  BY <1>4, <1>5

(* Another route is shown, by one of the two combo boxes.                  *)
LEMMA RouteShown ==
  ASSUME PlanInv, ~fault, ~is_started, ShowStops,
         UNCHANGED <<server, scenarios, mapVars, driveVars, fault>>,
         scenario' \in scenarios \cup {None}, routes' \in Seq(Names), Items(routes') \subseteq DOMAIN m2_maps,
         route' \in Items(routes') \cup {None}, scenarios # {} \/ routes # <<>>
  PROVE  PlanInv'
<1>1. /\ UNCHANGED <<server, scenarios, m1_maps, m2_maps, park_numbers, is_map_initialized,
                     is_started, grid, labels, plan, fault>>
      /\ park_menu' = Unticked(Stations(route')) /\ bool_parks' = <<>>
      /\ send_msg' = [send_msg EXCEPT !.enabled = <<>>]
  BY DEF mapVars, driveVars, ShowStops, NoFlags
<1>2. TypeOK
  BY DEF PlanInv
<1>3. Stations(route') \in Seq(Names) /\ Stations(route)' = Stations(route')
  BY <1>1, <1>2, StationsAre DEF Stations
<1>4. /\ park_menu' \in Seq([stop : Names, on : BOOLEAN])
      /\ [i \in DOMAIN park_menu' |-> park_menu'[i].stop] = Stations(route')
  BY <1>1, <1>3, MenuOf
<1>5. is_map_initialized
  BY DEF PlanInv, Fresh
<1>6. TypeOK'
  <2>1. bool_parks' \in Seq(BOOLEAN) /\ send_msg' \in PlanType
    BY <1>1, <1>2, EmptySeq, Emptied DEF TypeOK
  <2>2. scenario' \in scenarios' \cup {None}
    BY <1>1
  <2>3. route' \in Items(routes)' \cup {None}
    BY DEF Items
  <2> QED
    BY <1>1, <1>2, <1>4, <2>1, <2>2, <2>3, Zenon DEF TypeOK
<1>7. Fresh'
  BY <1>1, <1>5 DEF Fresh
<1>8. Known'
  BY <1>1 DEF PlanInv, Known, Items
<1>9. MenuMatchesRoute'
  BY <1>3, <1>4 DEF MenuMatchesRoute
<1>10. PlanMatchesRoute' /\ DrivenPlanStays'
  BY <1>1 DEF PlanInv, PlanMatchesRoute, DrivenPlanStays, Stations
<1> QED
  BY <1>6, <1>7, <1>8, <1>9, <1>10 DEF PlanInv

LEMMA StepSelect ==
  ASSUME PlanInv,
         \/ \E s \in scenarios \ {scenario} : SelectScenario(s)
         \/ \E r \in Items(routes) \ {route} : SelectRoute(r)
  PROVE  PlanInv'
<1> USE DEF Planning
<1>1. CASE \E s \in scenarios \ {scenario} : SelectScenario(s)
  <2> PICK s \in scenarios : SelectScenario(s)
    BY <1>1
  <2>1. routes' = m1_maps[s] /\ routes' \in Seq(Names) /\ Items(routes') \subseteq DOMAIN m2_maps
    BY DEF SelectScenario, PlanInv, TypeOK, Known
  <2>2. route' \in Items(routes') \cup {None}
    BY <2>1, Length DEF SelectScenario, Items
  <2> QED
    BY <2>1, <2>2, RouteShown DEF SelectScenario
<1>2. CASE \E r \in Items(routes) \ {route} : SelectRoute(r)
  <2> PICK r \in Items(routes) : SelectRoute(r)
    BY <1>2
  <2>1. UNCHANGED <<scenario, routes>> /\ route' = r
    BY DEF SelectRoute
  <2>2. routes # <<>>
    BY EmptySeq DEF Items
  <2>3. scenario' \in scenarios \cup {None}
    BY <2>1 DEF PlanInv, TypeOK
  <2>4. routes' \in Seq(Names) /\ Items(routes') \subseteq DOMAIN m2_maps
    BY <2>1 DEF PlanInv, TypeOK, Known
  <2> QED
    BY <2>1, <2>2, <2>3, <2>4, RouteShown DEF SelectRoute
<1> QED
  BY <1>1, <1>2

(* A stop is ticked, a plan is started, a plan is ended.                   *)
LEMMA StepDrive ==
  ASSUME PlanInv, (\E i \in DOMAIN park_menu : TickStop(i)) \/ Start \/ End
  PROVE  PlanInv'
<1> USE DEF comboVars, mapVars, menuVars, driveVars, Planning
<1>1. TypeOK
  BY DEF PlanInv
<1> DEFINE Item == [stop : Names, on : BOOLEAN]
           n == Len(park_menu)
<1>2. /\ park_menu \in Seq(Item) /\ n \in Nat /\ DOMAIN park_menu = 1..n
      /\ \A i \in 1..n : park_menu[i] \in Item
      /\ park_menu = [i \in 1..n |-> park_menu[i]]
  <2>1. park_menu \in Seq(Item)
    BY <1>1 DEF TypeOK
  <2> HIDE DEF Item
  <2> QED
    BY <2>1, Length
<1> HIDE DEF n
<1>3. CASE \E i \in DOMAIN park_menu : TickStop(i)
  <2> PICK k \in DOMAIN park_menu : TickStop(k)
    BY <1>3
  <2>1. /\ park_menu' = [park_menu EXCEPT ![k] = [park_menu[k] EXCEPT !.on = ~@]]
        /\ UNCHANGED <<server, comboVars, mapVars, bool_parks, send_msg, driveVars, fault>>
        /\ ~fault /\ ~is_started
    BY DEF TickStop
  <2>2. [park_menu[k] EXCEPT !.on = ~@] \in Item /\ [park_menu[k] EXCEPT !.on = ~@].stop = park_menu[k].stop
    <3> DEFINE x == park_menu[k]
    <3>1. x \in Item
      BY <1>2
    <3> HIDE DEF x
    <3>2. [x EXCEPT !.on = ~@] \in Item /\ [x EXCEPT !.on = ~@].stop = x.stop
      BY <3>1
    <3> QED
      BY <3>2 DEF x
  <2>3. DOMAIN park_menu' = 1..n /\ \A i \in 1..n : park_menu'[i] \in Item /\ park_menu'[i].stop = park_menu[i].stop
    BY <1>2, <2>1, <2>2
  <2>4. park_menu' \in [1..n -> Item]
    BY <1>2, <2>1, <2>2
  <2>5. park_menu' \in Seq(Item)
    BY <1>2, <2>4, IsSequence
  <2>6. [i \in DOMAIN park_menu' |-> park_menu'[i].stop] = [i \in DOMAIN park_menu |-> park_menu[i].stop]
    BY <1>2, <2>3
  <2>7. UNCHANGED <<server, scenarios, scenario, routes, route, m1_maps, m2_maps, park_numbers,
                    is_map_initialized, bool_parks, send_msg, is_started, grid, labels, plan, fault>>
    BY <2>1
  <2>8. TypeOK'
    BY <1>1, <2>5, <2>7, Zenon DEF TypeOK, Items
  <2>9. is_map_initialized
    <3>1. park_menu # <<>>
      BY EmptySeq
    <3> QED
      BY <3>1 DEF PlanInv, Fresh
  <2>10. Fresh' /\ Known' /\ PlanMatchesRoute' /\ DrivenPlanStays'
    BY <2>7, <2>9 DEF PlanInv, Fresh, Known, Items, PlanMatchesRoute, DrivenPlanStays, Stations
  <2>11. MenuMatchesRoute'
    BY <2>6, <2>7 DEF PlanInv, MenuMatchesRoute, Stations
  <2> QED
    BY <2>8, <2>10, <2>11 DEF PlanInv
<1>4. CASE Start
  <2>1. /\ bool_parks' = Ticks(park_menu) /\ is_started' = TRUE /\ ~fault
        /\ send_msg' = [scenario |-> scenario, route |-> route, size |-> park_numbers,
                        enabled |-> bool_parks']
        /\ plan' = send_msg'
        /\ UNCHANGED <<server, scenarios, scenario, routes, route, m1_maps, m2_maps, park_numbers,
                       is_map_initialized, park_menu, grid, labels, fault>>
    BY <1>4 DEF Start, ReadTicks
  <2>2. bool_parks' \in [1..n -> BOOLEAN]
    <3>1. \A x \in Item : x.on \in BOOLEAN
      OBVIOUS
    <3>2. \A i \in 1..n : park_menu[i].on \in BOOLEAN
      BY <1>2, <3>1
    <3>3. bool_parks' = [i \in 1..n |-> park_menu[i].on]
      BY <1>2, <2>1 DEF Ticks
    <3> QED
      BY <3>2, <3>3, Zenon
  <2>3. bool_parks' \in Seq(BOOLEAN) /\ Len(bool_parks') = n
    BY <1>2, <2>2, IsSequence
  <2>4. Len(Stations(route)) = n
    <3>1. [i \in DOMAIN park_menu |-> park_menu[i].stop] = Stations(route)
      BY <2>1 DEF PlanInv, MenuMatchesRoute
    <3>2. DOMAIN Stations(route) = 1..n
      BY <1>2, <3>1
    <3>3. Stations(route) \in Seq(Names)
      BY <1>1, StationsAre
    <3> QED
      BY <1>2, <3>2, <3>3, LenProperties
  <2>5. plan'.enabled = bool_parks' /\ plan'.route = route /\ plan'.size = park_numbers
    BY <2>1
  <2>6. TypeOK'
    <3>1. plan' \in PlanType /\ send_msg' \in PlanType
      <4>1. scenario \in Nat /\ route \in Nat /\ park_numbers \in Nat
        <5>1. scenarios \subseteq Nat /\ Items(routes) \subseteq Nat /\ None \in Nat
          BY <1>1, Length DEF TypeOK, Items, Names, None
        <5> QED
          BY <1>1, <5>1 DEF TypeOK
      <4> QED
        BY <2>1, <2>3, <4>1 DEF PlanType
    <3> QED
      BY <1>1, <2>1, <2>3, <3>1, Zenon DEF TypeOK, Items
  <2>7. Fresh' /\ Known' /\ MenuMatchesRoute'
    BY <2>1, <2>5 DEF PlanInv, Fresh, Known, Items, MenuMatchesRoute, Stations
  <2>8. PlanMatchesRoute' /\ DrivenPlanStays'
    <3>1. Stations(plan.route)' = Stations(route)
      BY <2>1, <2>5 DEF Stations
    <3> QED
      BY <2>1, <2>3, <2>4, <2>5, <3>1 DEF PlanMatchesRoute, DrivenPlanStays
  <2> QED
    BY <2>6, <2>7, <2>8 DEF PlanInv
<1>5. CASE End
  <2>1. /\ UNCHANGED <<server, scenarios, scenario, routes, route, m1_maps, m2_maps, park_numbers,
                       is_map_initialized, park_menu, bool_parks, send_msg, grid, labels, plan, fault>>
        /\ is_started' = FALSE
    BY <1>5 DEF End
  <2>2. TypeOK'
    BY <1>1, <2>1, Zenon DEF TypeOK, Items
  <2> QED
    BY <2>1, <2>2 DEF PlanInv, Fresh, Known, Items, MenuMatchesRoute, PlanMatchesRoute,
                      DrivenPlanStays, Stations
<1> QED
  BY <1>3, <1>4, <1>5

LEMMA StepPlan == PlanInv /\ [Next]_vars => PlanInv'
<1> SUFFICES ASSUME PlanInv, [Next]_vars PROVE PlanInv'
  OBVIOUS
<1>1. CASE Next
  BY <1>1, StepUpdate, StepSelect, StepDrive DEF Next
<1>2. CASE UNCHANGED vars
  <2>1. UNCHANGED <<server, scenarios, scenario, routes, route, m1_maps, m2_maps, park_numbers,
                    is_map_initialized, park_menu, bool_parks, send_msg, is_started, grid, labels, plan, fault>>
    BY <1>2 DEF vars, comboVars, mapVars, menuVars, driveVars
  <2>2. TypeOK'
    BY <2>1, Zenon DEF PlanInv, TypeOK, Items
  <2> QED
    BY <2>1, <2>2 DEF PlanInv, Fresh, Known, Items, MenuMatchesRoute, PlanMatchesRoute,
                      DrivenPlanStays, Stations
<1> QED
  BY <1>1, <1>2

LEMMA AlwaysPlan == Spec => []PlanInv
BY InitPlan, StepPlan, PTL DEF Spec
-----------------------------------------------------------------------------
(* Every variable of the planning keeps its type: route_station and        *)
(* updateUI only ever look up names that the maps hold.                    *)
THEOREM TypeCorrect == Spec => []TypeOK
<1>1. PlanInv => TypeOK
  BY DEF PlanInv
<1> QED
  BY AlwaysPlan, <1>1, PTL

(* The menu offers exactly the stops of the route that is shown.           *)
THEOREM MenuMatchesRouteCorrect == Spec => []MenuMatchesRoute
<1>1. PlanInv => MenuMatchesRoute
  BY DEF PlanInv
<1> QED
  BY AlwaysPlan, <1>1, PTL

(* A plan that was sent has one flag for every station of its route.       *)
THEOREM PlanMatchesRouteCorrect == Spec => []PlanMatchesRoute
<1>1. PlanInv => PlanMatchesRoute
  BY DEF PlanInv
<1> QED
  BY AlwaysPlan, <1>1, PTL

(* While a plan is driven, the flags of the display and what is sent again *)
(* stay what the start button sent.                                        *)
THEOREM DrivenPlanStaysCorrect == Spec => []DrivenPlanStays
<1>1. PlanInv => DrivenPlanStays
  BY DEF PlanInv
<1> QED
  BY AlwaysPlan, <1>1, PTL
-----------------------------------------------------------------------------
(* With a regular server the loop of updateUI finds park_numbers items in  *)
(* everything it indexes.                                                  *)
InBounds ==
  Regular =>
    /\ ~fault
    /\ is_started \/ grid => is_map_initialized
    /\ is_map_initialized =>
         /\ \A r \in DOMAIN m2_maps : park_numbers <= Len(m2_maps[r])
         /\ \A p \in server.passed : p = 0 \/ park_numbers <= p
         /\ \A s \in scenarios : m1_maps[s] # <<>>
         /\ route \in DOMAIN m2_maps
    /\ is_started => park_numbers <= Len(bool_parks)
    /\ grid => Len(labels) = park_numbers

LEMMA InitBounds == Init => InBounds
BY DEF Init, InBounds

(* updateUI with maps in mid-drive cannot happen to a regular server.      *)
LEMMA BoundsUpdate ==
  ASSUME PlanInv, PlanInv', InBounds, Regular,
         NEW maps \in server.messages \cup {<<>>}, NEW passed \in server.passed,
         UpdateUI(maps, passed)
  PROVE  InBounds'
<1> USE DEF comboVars, mapVars, menuVars
<1> DEFINE shown == IF route' \in DOMAIN m2_maps' THEN m2_maps'[route'] ELSE <<>>
<1>1. /\ UNCHANGED <<server, is_started, plan>> /\ grid' = (grid \/ is_started)
      /\ IF ReadsMaps(maps) THEN InitMaps(maps) ELSE UNCHANGED <<comboVars, mapVars, menuVars>>
      /\ fault' <=> \/ ReadsMaps(maps) /\ routes' = <<>>
                    \/ is_started /\ ~InRange(shown, passed)
  BY Zenon DEF UpdateUI
<1>2. TypeOK /\ TypeOK'
  BY DEF PlanInv
<1>3. Stations(route)' \in Seq(Names) /\ park_numbers' \in Nat /\ Len(bool_parks) \in Nat
  <2>1. \A r \in DOMAIN m2_maps' : m2_maps'[r] \in Seq(Names)
    BY <1>2 DEF TypeOK
  <2>2. park_numbers' \in Nat /\ Len(bool_parks) \in Nat
    BY <1>2, LenProperties DEF TypeOK
  <2> QED
    BY <2>1, <2>2, EmptySeq DEF Stations
<1>4. /\ is_started /\ ~grid /\ ~fault' => Len(labels') = park_numbers'
      /\ grid \/ ~is_started => labels' = labels
  BY <1>2, <1>3, LabelsAfterUpdate
<1>5. ~fault /\ (is_started \/ grid => is_map_initialized)
      /\ (is_started => park_numbers <= Len(bool_parks)) /\ (grid => Len(labels) = park_numbers)
  BY DEF InBounds
<1> HIDE DEF shown
<1>6. CASE ~ReadsMaps(maps)
  <2>1. UNCHANGED <<scenarios, scenario, routes, route, m1_maps, m2_maps, park_numbers,
                    is_map_initialized, park_menu, bool_parks, send_msg>>
    BY <1>1, <1>6
  <2>2. is_started => InRange(shown, passed)
    <3> SUFFICES ASSUME is_started PROVE InRange(shown, passed)
      OBVIOUS
    <3>1. /\ park_numbers <= Len(m2_maps[route]) /\ route \in DOMAIN m2_maps
          /\ passed = 0 \/ park_numbers <= passed
      BY <1>5 DEF InBounds
    <3>2. shown = m2_maps[route]
      BY <2>1, <3>1 DEF shown
    <3>3. park_numbers' <= Len(IF grid THEN labels ELSE shown)
      BY <1>3, <1>5, <2>1, <3>1, <3>2
    <3>4. park_numbers' <= PassedFlags(passed)
      BY <1>3, <2>1, <3>1 DEF PassedFlags
    <3> QED
      BY <1>5, <2>1, <3>3, <3>4 DEF InRange
  <2>3. ~fault'
    BY <1>1, <1>6, <2>2
  <2>4. grid' => Len(labels') = park_numbers'
    BY <1>1, <1>4, <1>5, <2>1, <2>3
  <2> QED
    BY <1>1, <1>5, <2>1, <2>3, <2>4 DEF InBounds
<1>7. CASE ReadsMaps(maps)
  <2>1. ~is_map_initialized /\ maps # <<>> /\ maps \in Seq(MapType) /\ maps \in server.messages
    BY <1>2, <1>7, ServersAssumption DEF ReadsMaps, TypeOK
  <2>2. ~is_started /\ ~grid
    BY <1>5, <2>1
  <2> DEFINE first == M1(maps)[Min(MapNames(maps))]
  <2>3. /\ first # <<>>
        /\ \A r \in DOMAIN M2(maps) : Len(M2(maps)[r]) >= Len(M2(maps)[first[1]])
        /\ \A n \in MapNames(maps) : M1(maps)[n] # <<>>
        /\ \A p \in server.passed : p = 0 \/ p >= Len(M2(maps)[first[1]])
    BY <2>1 DEF Regular
  <2>4. InitMaps(maps)
    BY <1>1, <1>7
  <2>5. /\ scenarios' = MapNames(maps) /\ m1_maps' = M1(maps) /\ m2_maps' = M2(maps)
        /\ routes' = first /\ is_map_initialized' = TRUE
        /\ IF routes' = <<>> THEN route' = None /\ park_menu' = Unticked(<<>>)
           ELSE /\ route' = first[1] /\ route' \in Items(routes') /\ route' \in DOMAIN m2_maps'
                /\ park_menu' = Unticked(m2_maps'[route'])
        /\ park_numbers' = Len(park_menu')
        /\ \A r \in DOMAIN m2_maps' : m2_maps'[r] \in Seq(Names)
    BY <1>2, <2>1, <2>4, MapsArrive
  <2> HIDE DEF first
  <2>6. /\ routes' # <<>> /\ route' = first[1] /\ route' \in DOMAIN m2_maps'
        /\ park_menu' = Unticked(m2_maps'[route'])
    BY <2>3, <2>5
  <2>7. m2_maps'[route'] \in Seq(Names)
    BY <2>5, <2>6
  <2>8. park_numbers' = Len(m2_maps'[route'])
    BY <2>5, <2>6, <2>7, MenuOf
  <2>9. \A r \in DOMAIN m2_maps' : Len(m2_maps'[r]) \in Nat
    BY <2>5, LenProperties
  <2>10. \A r \in DOMAIN m2_maps' : park_numbers' <= Len(m2_maps'[r])
    BY <2>3, <2>5, <2>6, <2>8, <2>9
  <2>11. \A p \in server.passed : p = 0 \/ park_numbers' <= p
    BY <2>3, <2>5, <2>6, <2>8
  <2>12. ~fault'
    BY <1>1, <2>2, <2>6
  <2> QED
    BY <1>1, <2>2, <2>3, <2>5, <2>6, <2>10, <2>11, <2>12 DEF InBounds
<1> QED
  BY <1>6, <1>7

LEMMA StepBounds == PlanInv /\ PlanInv' /\ InBounds /\ [Next]_vars => InBounds'
<1> SUFFICES ASSUME PlanInv, PlanInv', InBounds, [Next]_vars PROVE InBounds'
  OBVIOUS
<1> USE DEF comboVars, mapVars, menuVars, driveVars
<1>1. server' = server /\ (Regular' <=> Regular)
  BY DEF Next, UpdateUI, SelectScenario, SelectRoute, TickStop, Start, End, vars, Regular
<1>2. CASE ~Regular
  BY <1>1, <1>2 DEF InBounds
<1>3. CASE Regular /\ UNCHANGED vars
  BY <1>1, <1>3 DEF InBounds, vars
<1>4. CASE Regular /\ \E maps \in server.messages \cup {<<>>}, passed \in server.passed :
                        UpdateUI(maps, passed)
  BY <1>4, BoundsUpdate
<1>5. ASSUME Regular, ShowStops, ~fault, ~is_started,
             UNCHANGED <<server, scenarios, mapVars, driveVars, fault>>,
             routes' # <<>>, route' \in Items(routes'), Items(routes') \subseteq DOMAIN m2_maps
      PROVE  InBounds'
  BY <1>5 DEF InBounds
<1>6. CASE Regular /\ \E s \in scenarios \ {scenario} : SelectScenario(s)
  <2> PICK s \in scenarios : SelectScenario(s)
    BY <1>6
  <2>1. routes' = m1_maps[s] /\ routes' \in Seq(Names) /\ Items(routes') \subseteq DOMAIN m2_maps
    BY DEF SelectScenario, PlanInv, TypeOK, Known
  <2>2. is_map_initialized
    BY DEF PlanInv, Fresh
  <2>3. routes' # <<>>
    BY <1>6, <2>1, <2>2 DEF InBounds
  <2>4. route' \in Items(routes')
    BY <2>1, <2>3, Length DEF SelectScenario, Items
  <2> QED
    BY <1>5, <1>6, <2>1, <2>3, <2>4 DEF SelectScenario, Planning
<1>7. CASE Regular /\ \E r \in Items(routes) \ {route} : SelectRoute(r)
  <2> PICK r \in Items(routes) : SelectRoute(r)
    BY <1>7
  <2>1. routes' = routes /\ route' = r
    BY DEF SelectRoute
  <2>2. routes # <<>>
    BY EmptySeq DEF Items
  <2>3. Items(routes') \subseteq DOMAIN m2_maps /\ route' \in Items(routes')
    BY <2>1 DEF PlanInv, Known
  <2> QED
    BY <1>5, <1>7, <2>1, <2>2, <2>3 DEF SelectRoute, Planning
<1>8. CASE Regular /\ \E i \in DOMAIN park_menu : TickStop(i)
  <2>1. UNCHANGED <<server, scenarios, scenario, routes, route, m1_maps, m2_maps, park_numbers,
                    is_map_initialized, bool_parks, send_msg, is_started, grid, labels, plan, fault>>
    BY <1>8 DEF TickStop
  <2> QED
    BY <1>8, <2>1 DEF InBounds
<1>9. CASE Regular /\ Start
  <2>1. /\ ~fault /\ is_map_initialized /\ is_started' = TRUE
        /\ bool_parks' = Ticks(park_menu)
        /\ UNCHANGED <<server, scenarios, scenario, routes, route, m1_maps, m2_maps, park_numbers,
                       is_map_initialized, park_menu, grid, labels, fault>>
    BY <1>9 DEF Start, ReadTicks, Planning, Regular
  <2>2. /\ park_numbers <= Len(m2_maps[route]) /\ route \in DOMAIN m2_maps
    BY <1>9, <2>1 DEF InBounds
  <2>3. m2_maps[route] = Stations(route)
    BY <2>2 DEF Stations
  <2>4. plan'.enabled = bool_parks' /\ Stations(plan.route)' = Stations(route)
    BY <1>9, <2>1 DEF Start, Stations
  <2>5. Len(bool_parks') = Len(Stations(route))
    BY <2>4 DEF PlanInv, PlanMatchesRoute
  <2>6. park_numbers' <= Len(bool_parks')
    BY <2>1, <2>2, <2>3, <2>5
  <2> QED
    BY <1>9, <2>1, <2>6 DEF InBounds
<1>10. CASE Regular /\ End
  <2>1. /\ UNCHANGED <<server, scenarios, scenario, routes, route, m1_maps, m2_maps, park_numbers,
                       is_map_initialized, park_menu, bool_parks, send_msg, grid, labels, plan, fault>>
        /\ is_started' = FALSE
    BY <1>10 DEF End
  <2> QED
    BY <1>10, <2>1 DEF InBounds
<1> QED
  BY <1>2, <1>3, <1>4, <1>6, <1>7, <1>8, <1>9, <1>10 DEF Next

(* No access is out of range when the maps come before the first start and *)
(* every route has the stations that updateUI loops over.                  *)
THEOREM NoFaultCorrect == Spec => []NoFault
<1>1. InBounds => NoFault
  BY DEF InBounds, NoFault
<1>2. Spec => []InBounds
  BY AlwaysPlan, InitBounds, StepBounds, PTL DEF Spec
<1> QED
  BY <1>1, <1>2, PTL
===============================================================================
