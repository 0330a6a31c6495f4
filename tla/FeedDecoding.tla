---------------------------- MODULE FeedDecoding ----------------------------
(***************************************************************************)
(* What the collector makes of the bytes a GTFS-Realtime endpoint returned:*)
(* whether they decode to a FeedMessage (apps/collector/parser.py), and    *)
(* which rows the normaliser of a feed produces from the message           *)
(* (normalize_vehicles.py, normalize_trips.py, wired in feed_specs.py).    *)
(*                                                                         *)
(* A payload is a record                                                   *)
(*   empty    - no bytes at all                                            *)
(*   binary   - what ParseFromString makes of the bytes: a message with a  *)
(*              "header", a "bare" message without one, or an "error"      *)
(*   textHead - the first 64 bytes, stripped, start with "header"          *)
(*   text     - what text_format.Parse makes of them (same three verdicts) *)
(*   headerTime, entities - the decoded message                            *)
(* and an entity a record                                                  *)
(*   id, parts (the sub-messages that are set), route (of its trip, or     *)
(*   NoRoute), time (of its sub-message).                                  *)
(* A timestamp is "unset" (missing or 0), "valid", or "overflow": beyond   *)
(* what datetime.fromtimestamp accepts, where it raises.                   *)
(***************************************************************************)
EXTENDS FiniteSets

CONSTANTS
    Allowlist,   \* COLLECTOR_ROUTE_ALLOWLIST; {} disables filtering
    NoRoute      \* the entity names no route

ASSUME AllowlistAssumption == NoRoute \notin Allowlist

VehiclePositionsFeed    == "vehicle-positions"
TripUpdatesFeed         == "trip-updates"
SubwayTripUpdatesFeed   == "subway-trip-updates"
TripModificationsFeed   == "trip-modifications"

FeedNames == {VehiclePositionsFeed, TripUpdatesFeed, SubwayTripUpdatesFeed,
              TripModificationsFeed}

-----------------------------------------------------------------------------
(* Decoding: binary first, the text fallback only behind a "header" prefix. *)

Parses(payload) ==
    /\ ~payload.empty
    /\ \/ payload.binary = "header"
       \/ payload.textHead /\ payload.text = "header"

-----------------------------------------------------------------------------
(* Normalisation. *)

EpochRaises(time) == time = "overflow"

Allowed(entity) == Allowlist = {} \/ entity.route \in Allowlist

Carrying(entities, part) == {e \in entities : part \in e.parts}

(* Mutant: the allowlist is applied to every feed. *)
SelectedByRoute(feed, entities) ==
    CASE feed = VehiclePositionsFeed ->
            {e \in Carrying(entities, "vehicle") : Allowed(e)}
      [] feed = TripModificationsFeed ->
            Carrying(entities, "trip_modifications") \cup Carrying(entities, "shape")
      [] OTHER -> {e \in Carrying(entities, "trip_update") : Allowed(e)}

(* The subway feed is normalised by the same function without an allowlist. *)
Selected(feed, entities) ==
    CASE feed = VehiclePositionsFeed ->
            {e \in Carrying(entities, "vehicle") : Allowed(e)}
      [] feed = TripUpdatesFeed ->
            {e \in Carrying(entities, "trip_update") : Allowed(e)}
      [] feed = SubwayTripUpdatesFeed -> Carrying(entities, "trip_update")
      [] feed = TripModificationsFeed ->
            Carrying(entities, "trip_modifications") \cup Carrying(entities, "shape")

(* An entity with both parts of the detour feed is a modification (elif).   *)
RowKind(feed, entity) ==
    CASE feed = VehiclePositionsFeed -> "vehicle"
      [] feed = TripModificationsFeed ->
            IF "trip_modifications" \in entity.parts THEN "trip_modifications"
                                                     ELSE "shape"
      [] OTHER -> "trip_update"

NormalRows(feed, entities) ==
    {[entity |-> e.id, kind |-> RowKind(feed, e)] : e \in Selected(feed, entities)}

(* extract_header, then the normaliser: an entity dropped by the allowlist  *)
(* never has its timestamp converted, and detour entities carry none.       *)
Normalises(feed, payload) ==
    /\ ~EpochRaises(payload.headerTime)
    /\ feed # TripModificationsFeed =>
          \A e \in Selected(feed, payload.entities) : ~EpochRaises(e.time)
=============================================================================
