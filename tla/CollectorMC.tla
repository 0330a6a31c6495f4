----------------------------- MODULE CollectorMC -----------------------------
(***************************************************************************)
(* Small instances of Collector: which processes run, which entities and   *)
(* payloads the endpoints serve.                                           *)
(***************************************************************************)
EXTENDS Collector

CONSTANTS bus, subway, manual, r1, r2, detour, e1, e2, e3, e4, e5, e6

BusRoutes == {r1}

(* A bus on an allowed route; one on another route whose timestamp is out   *)
(* of range; the same fault on the allowed route; a train of no bus route.  *)
Bus      == [id |-> e1, parts |-> {"vehicle", "trip_update"}, route |-> r1, time |-> "valid"]
Foreign  == [id |-> e2, parts |-> {"vehicle"}, route |-> r2, time |-> "overflow"]
Faulty   == [id |-> e3, parts |-> {"vehicle"}, route |-> r1, time |-> "overflow"]
Train    == [id |-> e4, parts |-> {"trip_update"}, route |-> NoRoute, time |-> "unset"]

(* Detour feed: a modification that also carries its replacement shape, and *)
(* a shape of its own.                                                      *)
Detour   == [id |-> e5, parts |-> {"trip_modifications", "shape"}, route |-> NoRoute,
             time |-> "unset"]
Polyline == [id |-> e6, parts |-> {"shape"}, route |-> NoRoute, time |-> "overflow"]

Message(headerTime, entities) ==
    [empty |-> FALSE, binary |-> "header", textHead |-> FALSE, text |-> "error",
     headerTime |-> headerTime, entities |-> entities]

Nothing == [Message("unset", {}) EXCEPT !.empty = TRUE, !.binary = "bare"]
Garbage == [Message("unset", {}) EXCEPT !.binary = "error"]
InText  == [Message("valid", {Bus, Train}) EXCEPT !.binary = "error",
                !.textHead = TRUE, !.text = "header"]

Served == {Nothing, Garbage, InText,
           Message("valid", {Bus, Foreign}), Message("valid", {Faulty, Train})}

ServedOffRoad == {Message("valid", {Train, Detour, Polyline}),
                  Message("overflow", {Train, Detour})}

BusOnly         == [p \in {bus} |-> VehiclePositionsFeed]
BusAndManual    == [p \in {bus, manual} |-> VehiclePositionsFeed]
SubwayAndDetour == [p \in {subway, detour} |->
                       IF p = subway THEN SubwayTripUpdatesFeed ELSE TripModificationsFeed]
=============================================================================
