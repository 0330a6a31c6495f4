---------------------------- MODULE TripTransform ----------------------------
(***************************************************************************)
(* The per-trip transform of apps/analytics (process_trip_instance) over   *)
(* the observations of one trip instance as the collector adds them: fetch,*)
(* extract, project onto the shape, drop outliers, compute speeds, upsample*)
(* to a grid. It is what TrajectoryRefresh abstracts by Derived.           *)
(*                                                                         *)
(* Times are in PerSecond-ths of a second: vehicle_timestamp is in whole   *)
(* seconds, fetched_at, its substitute, is not. An observation comes with  *)
(* the distance along and from the shape that the projection gives it.     *)
(* Fractions are exact: a distance or speed is a pair num, den.            *)
(***************************************************************************)
EXTENDS Integers, FiniteSets

CONSTANTS
    Samples,      \* what the feed may report: [time, fix, travel, off, route]
    NoRoute,      \* the report names no route
    StaticRoute,  \* route of the trip in the static bundle, or NoRoute
    ShapeKnown,   \* whether the bundle resolves the trip to a linestring
    PerSecond,
    Resolution,   \* ANALYTICS_UPSAMPLE_RESOLUTION_S
    MaxOff,       \* ANALYTICS_MAX_ORTHOGONAL_DISTANCE_M
    MaxSpeed,     \* ANALYTICS_MAX_IMPLIED_SPEED_M_S; 0 disables the filter
    MaxGap,       \* ANALYTICS_MAX_GAP_SECONDS; 0 stands for unset
    MaxObs        \* bound: observations of the instance

ASSUME SettingsAssumption ==
    /\ {PerSecond, Resolution} \subseteq Nat \ {0}
    /\ {MaxOff, MaxSpeed, MaxGap, MaxObs} \subseteq Nat
    /\ ShapeKnown \in BOOLEAN
    /\ \A s \in Samples : /\ s.time \in Nat
                          /\ s.travel \in Nat
                          /\ s.off \in Nat
                          /\ s.fix \in BOOLEAN

VARIABLES
    observed,     \* vehicle_positions of the instance: samples with their ids
    rows          \* its trip_trajectories

vars == <<observed, rows>>

Abs(n) == IF n < 0 THEN -n ELSE n

-----------------------------------------------------------------------------
(* fetch_by_trip_instance and the guard against recycled trip ids. *)

(* In the order of observation time, then id. *)
First(S) == CHOOSE p \in S : \A q \in S \ {p} :
                p.time < q.time \/ (p.time = q.time /\ p.id < q.id)

RouteMismatch(S) ==
    LET routed == {p \in S : p.route # NoRoute}
    IN  /\ routed # {}
        /\ StaticRoute # NoRoute
        /\ First(routed).route # StaticRoute

-----------------------------------------------------------------------------
(* build_trip_trajectory: of the located reports of one instant, the one    *)
(* ingested last.                                                           *)

(* Mutant: an instant's reports are all kept. *)
ExtractAll(S) == {p \in S : p.fix}

Extract(S) ==
    {p \in S : p.fix /\ \A q \in S : q.fix /\ q.time = p.time => q.id <= p.id}

-----------------------------------------------------------------------------
(* project_trajectory. *)

OnRoute(S) == {p \in S : p.off <= MaxOff}

Latest(S) == CHOOSE p \in S : \A q \in S : q.time <= p.time

Plausible(p, q) ==
    /\ q.time > p.time
    /\ Abs(q.travel - p.travel) * PerSecond <= MaxSpeed * (q.time - p.time)

(* Mutant: the pass runs backwards, from the newest point. *)
KeepBackwards(S) ==
    LET kept[p \in S] ==
            LET later == {q \in S : q.time > p.time /\ kept[q]}
            IN  later = {} \/
                Plausible(p, CHOOSE q \in later : \A r \in later : q.time <= r.time)
    IN  IF MaxSpeed = 0 THEN S ELSE {p \in S : kept[p]}

(* Mutant: compared with the previous raw point. *)
KeepFromPrevious(S) ==
    IF MaxSpeed = 0 THEN S
    ELSE {p \in S : LET earlier == {q \in S : q.time < p.time}
                    IN  earlier = {} \/ Plausible(Latest(earlier), p)}

(* _implied_speed_keep_mask: forward and greedy, anchored at the last point *)
(* that was kept; the first one always is.                                  *)
Keep(S) ==
    LET kept[p \in S] ==
            LET earlier == {q \in S : q.time < p.time /\ kept[q]}
            IN  earlier = {} \/ Plausible(Latest(earlier), p)
    IN  IF MaxSpeed = 0 THEN S ELSE {p \in S : kept[p]}

-----------------------------------------------------------------------------
(* compute_moving_speed and upsample_df, on consecutive points. *)

Pairs(S) ==
    {pair \in S \X S :
        /\ pair[1].time < pair[2].time
        /\ \A q \in S : q.time <= pair[1].time \/ q.time >= pair[2].time}

(* The speed on the arriving point. *)
Speed(pair) ==
    [num |-> (pair[2].travel - pair[1].travel) * PerSecond,
     den |-> pair[2].time - pair[1].time]

Epoch(p) == p.time \div PerSecond

CeilDiv(a, b) == -((-a) \div b)

FirstBoundary(pair) ==
    LET floor == (Epoch(pair[1]) \div Resolution) * Resolution
    IN  IF floor < Epoch(pair[1]) THEN floor + Resolution ELSE floor

(* Mutant: the boundary at the next point is included. *)
CountClosed(pair) ==
    IF MaxGap # 0 /\ pair[2].time - pair[1].time > MaxGap * PerSecond THEN 0
    ELSE CeilDiv(Epoch(pair[2]) - FirstBoundary(pair) + 1, Resolution)

(* Mutant: the cap compares with the number of boundaries to be filled. *)
CountCapped(pair) ==
    LET count == CeilDiv(Epoch(pair[2]) - FirstBoundary(pair), Resolution)
    IN  IF MaxGap # 0 /\ count > MaxGap THEN 0 ELSE count

(* Boundaries of a pair (negative: none), none across a gap that exceeds    *)
(* the cap.                                                                 *)
Count(pair) ==
    IF MaxGap # 0 /\ pair[2].time - pair[1].time > MaxGap * PerSecond THEN 0
    ELSE CeilDiv(Epoch(pair[2]) - FirstBoundary(pair), Resolution)

Boundaries(pair) ==
    {FirstBoundary(pair) + k * Resolution : k \in 0..(Count(pair) - 1)}

(* The distance is extrapolated from the first point at the pair's speed;   *)
(* the row copies its identity from the second from the middle on.          *)
RowAt(pair, at) ==
    LET num == pair[1].travel * (pair[2].time - pair[1].time)
               + (at * PerSecond - pair[1].time) * (pair[2].travel - pair[1].travel)
        den == pair[2].time - pair[1].time
        useNext == 2 * num >= (pair[1].travel + pair[2].travel) * den
    IN  [at |-> at, distance |-> [num |-> num, den |-> den], speed |-> Speed(pair),
         source |-> IF useNext THEN pair[2].id ELSE pair[1].id]

Upsample(S) == UNION {{RowAt(pair, at) : at \in Boundaries(pair)} : pair \in Pairs(S)}

-----------------------------------------------------------------------------
(* process_trip_instance *)

Usable(S) == Keep(OnRoute(Extract(S)))

Derive(S) ==
    IF RouteMismatch(S) \/ ~ShapeKnown \/ Cardinality(Usable(S)) < 2 THEN {}
    ELSE Upsample(Usable(S))

Init ==
    /\ observed = {}
    /\ rows = {}

(* The collector commits one more report, in whatever order of time.        *)
Observe ==
    /\ Cardinality(observed) < MaxObs
    /\ \E s \in Samples :
          observed' = observed \cup
              {[id |-> Cardinality(observed) + 1, time |-> s.time, fix |-> s.fix,
                travel |-> s.travel, off |-> s.off, route |-> s.route]}
    /\ UNCHANGED rows

(* run_for_date on the instance; nothing derived leaves the rows alone.     *)
Refresh ==
    /\ rows' = IF Derive(observed) = {} THEN rows ELSE Derive(observed)
    /\ UNCHANGED observed

Next == Observe \/ Refresh

Spec == Init /\ [][Next]_vars

-----------------------------------------------------------------------------
TypeOK ==
    /\ \A p, q \in observed : p.id = q.id => p = q
    /\ \A p \in observed : p.id \in 1..Cardinality(observed)
    /\ \A row \in rows : /\ row.at \in Nat
                         /\ row.at % Resolution = 0
                         /\ row.distance.den > 0
                         /\ row.source \in 1..Cardinality(observed)

(* "Candidate epochs are strictly increasing across and within pairs"       *)
(* (upsample_df): no instant has two rows, whatever the fractions of a      *)
(* second, or the unique index would abort the run that inserts them.       *)
OneRowPerInstant ==
    \A p, q \in Pairs(Usable(observed)) :
        p # q => Boundaries(p) \cap Boundaries(q) = {}

(* The legacy per-pair loop, the oracle of the parity test: multiples of    *)
(* the resolution from the first second to before the last. The vectorised  *)
(* count emits the same ones where no cap applies.                          *)
MatchesLegacyLoop ==
    \A pair \in Pairs(Usable(observed)) :
        MaxGap = 0 \/ pair[2].time - pair[1].time <= MaxGap * PerSecond =>
            Boundaries(pair) =
                {c \in Epoch(pair[1])..(Epoch(pair[2]) - 1) : c % Resolution = 0}

(* "the real GPS outage is left as a gap" (upsample_df): a row stands       *)
(* between two usable reports that are no further apart than the cap, but   *)
(* for the fraction of a second by which a boundary may precede a report.   *)
OutagesNotBridged ==
    \A row \in Derive(observed) :
        \E p, q \in Extract(observed) :
            /\ MaxGap = 0 \/ q.time - p.time <= MaxGap * PerSecond
            /\ p.time < (row.at + 1) * PerSecond
            /\ row.at * PerSecond < q.time
            /\ p.off <= MaxOff /\ q.off <= MaxOff

(* No row moves faster than the teleport filter allows: the points that the *)
(* filter compares are those whose difference becomes the speed.            *)
SpeedsPlausible ==
    MaxSpeed # 0 =>
        \A row \in Derive(observed) : Abs(row.speed.num) <= MaxSpeed * row.speed.den

(* "partial trajectories from earlier in the day get upgraded as more raw   *)
(* data lands" (run_for_date): while reports arrive in the order of their   *)
(* times, a refresh adds rows and takes none away.                          *)
InOrder == \A p, q \in observed : p.id < q.id => p.time < q.time

UpgradesOnly ==
    [][InOrder => rows \subseteq rows']_vars
=============================================================================
