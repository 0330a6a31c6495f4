------------------------------ MODULE BusTracks ------------------------------
(***************************************************************************)
(* The buses of a slice (group_into_buses and segment_vehicle_points,      *)
(* bus_grouping.py) and their idle and crowd episodes (detect_idle_events  *)
(* and detect_crowd_events, anomalies.py). Rows come in the order of the   *)
(* slice query: by trip instance and vehicle, then by time. A speed is     *)
(* known by its side of the threshold of 0.5 m/s: 0 is below it either     *)
(* way, 1 is above it, -1 is above it backwards, as a projection that      *)
(* falls back makes it. An episode is the span of its run of points.       *)
(***************************************************************************)
EXTENDS Integers, Sequences, FiniteSetsExt

CONSTANTS
    Samples,            \* what a row may hold: [dt, move, speed, full]
    Keys,               \* (trip_id, start_date, vehicle_id), in their order
    StaleMin,           \* _STALE_MIN_SEC
    MinDisplacement,    \* _MIN_SEGMENT_DISPLACEMENT_M
    IdleMin,            \* idle_min_threshold
    MaxRows             \* bound: rows of a slice

ASSUME TracksAssumption ==
    /\ Keys \subseteq Nat
    /\ StaleMin \in Nat /\ MinDisplacement \in Nat /\ IdleMin \in Nat
    /\ MaxRows \in Nat
    /\ Samples \subseteq [dt : Nat \ {0}, move : Int, speed : -1..1, full : BOOLEAN]

VARIABLES
    phase,              \* idle, rows, detect or shown
    groups,             \* the rows read, by key: a sequence of [key, points]
    buses,              \* the buses so far: a sequence of [key, points]
    at,                 \* the point the detectors are at: [bus, point]
    idleRun, crowdRun,  \* run_start and last_in_run, by point; << >> is None
    idle, crowd         \* the episodes: a set of [bus, first, last]

trackVars == <<phase, groups, buses, at, idleRun, crowdRun, idle, crowd>>

NoPoint == [bus |-> 1, point |-> 1]

TracksInit ==
    /\ phase = "idle"
    /\ groups = << >> /\ buses = << >>
    /\ at = NoPoint
    /\ idleRun = << >> /\ crowdRun = << >>
    /\ idle = {} /\ crowd = {}

-----------------------------------------------------------------------------
(* segment_vehicle_points *)

Stale(p) == p.speed = 0

StaleSpan(P, i, j) == P[j].time - P[i].time >= StaleMin

(* The inner loop: the end of the stale run that begins at i.              *)
RunEnd(P, i) == Max({j \in i..Len(P) : \A k \in i..j : Stale(P[k])})

(* The outer loop: the stale runs that are long enough, as pairs <<i, j>>. *)
StaleRanges(P) ==
    LET from[i \in 1..(Len(P) + 1)] ==
            IF i > Len(P) THEN << >>
            ELSE IF ~Stale(P[i]) THEN from[i + 1]
            ELSE LET j == RunEnd(P, i)
                 IN (IF StaleSpan(P, i, j) THEN <<<<i, j>>>> ELSE << >>) \o from[j + 1]
    IN from[1]

(* Mutant: what follows a range takes its last point along.                *)
BetweenOverlapping(P, R) ==
    LET gap(r) == << IF r = 1 THEN 1 ELSE R[r - 1][2],
                     IF r > Len(R) THEN Len(P) ELSE R[r][1] - 1 >>
    IN [r \in 1..(Len(R) + 1) |-> gap(r)]

(* What lies before, between and after the ranges. An empty one, which the *)
(* code leaves out here, does not survive either.                          *)
Between(P, R) ==
    LET gap(r) == << IF r = 1 THEN 1 ELSE R[r - 1][2] + 1,
                     IF r > Len(R) THEN Len(P) ELSE R[r][1] - 1 >>
    IN [r \in 1..(Len(R) + 1) |-> gap(r)]

Displacement(P, i, j) ==
    MapThenSumSet(LAMBDA k : IF P[k + 1].dist >= P[k].dist
                             THEN P[k + 1].dist - P[k].dist
                             ELSE P[k].dist - P[k + 1].dist,
                  i..(j - 1))

Surviving(P, s) == s[2] > s[1] /\ Displacement(P, s[1], s[2]) >= MinDisplacement

SegmentVehiclePoints(P) ==
    LET cut == Between(P, StaleRanges(P))
        kept[k \in 0..Len(cut)] ==
            IF k = 0 THEN << >>
            ELSE IF Surviving(P, cut[k]) THEN Append(kept[k - 1], cut[k])
            ELSE kept[k - 1]
    IN IF Len(P) < 2 THEN [k \in 1..Len(P) |-> <<1, Len(P)>>] ELSE kept[Len(cut)]

-----------------------------------------------------------------------------
(* group_into_buses *)

ReadSlice ==
    /\ phase = "idle"
    /\ phase' = "rows"
    /\ UNCHANGED <<groups, buses, at, idleRun, crowdRun, idle, crowd>>

(* flush: the buses of the rows of one key.                                *)
Flush(group) ==
    LET S == SegmentVehiclePoints(group.points)
    IN [s \in 1..Len(S) |->
            [key |-> group.key,
             points |-> SubSeq(group.points, S[s][1], S[s][2])]]

NumRows == MapThenSumSet(LAMBDA g : Len(groups[g].points), 1..Len(groups))

Last == groups[Len(groups)]

SameKey(s) ==
    /\ groups # << >>
    /\ LET p == Last.points[Len(Last.points)]
           row == [time |-> p.time + s.dt, dist |-> p.dist + s.move,
                   speed |-> s.speed, full |-> s.full]
       IN groups' = [groups EXCEPT ![Len(groups)].points = Append(@, row)]
    /\ UNCHANGED buses

OtherKey(key, s) ==
    /\ groups # << >> => Last.key < key
    /\ groups' = Append(groups, [key |-> key,
                                 points |-> <<[time |-> 0, dist |-> 0,
                                               speed |-> s.speed, full |-> s.full]>>])
    /\ buses' = IF groups = << >> THEN buses ELSE buses \o Flush(Last)

NextRow ==
    /\ phase = "rows"
    /\ NumRows < MaxRows
    /\ \E s \in Samples : SameKey(s) \/ \E key \in Keys : OtherKey(key, s)
    /\ UNCHANGED <<phase, at, idleRun, crowdRun, idle, crowd>>

RowsEnd ==
    /\ phase = "rows"
    /\ phase' = "detect"
    /\ buses' = IF groups = << >> THEN buses ELSE buses \o Flush(Last)
    /\ UNCHANGED <<groups, at, idleRun, crowdRun, idle, crowd>>

-----------------------------------------------------------------------------
(* detect_idle_events and detect_crowd_events: one pass over the points of *)
(* every bus, which the model makes for both at once.                      *)
IsIdle(p) == p.speed < 1

IsCrowded(p) == p.full

Points(b) == buses[b].points

Extend(run, here) ==
    IF run = << >> THEN <<here, here>> ELSE <<run[1], here>>

Episode(b, run) == [bus |-> b, first |-> run[1], last |-> run[2]]

(* flush                                                                   *)
IdleEpisodes(b, run) ==
    IF run # << >> /\ Points(b)[run[2]].time - Points(b)[run[1]].time >= IdleMin
    THEN {Episode(b, run)} ELSE {}

CrowdEpisodes(b, run) == IF run # << >> THEN {Episode(b, run)} ELSE {}

DetectPoint ==
    LET b == at.bus
        here == at.point
    IN  /\ phase = "detect"
        /\ b <= Len(buses)
        /\ here <= Len(Points(b))
        /\ at' = [at EXCEPT !.point = here + 1]
        /\ IF IsIdle(Points(b)[here])
           THEN idleRun' = Extend(idleRun, here) /\ UNCHANGED idle
           ELSE idleRun' = << >> /\ idle' = idle \cup IdleEpisodes(b, idleRun)
        /\ IF IsCrowded(Points(b)[here])
           THEN crowdRun' = Extend(crowdRun, here) /\ UNCHANGED crowd
           ELSE crowdRun' = << >> /\ crowd' = crowd \cup CrowdEpisodes(b, crowdRun)
        /\ UNCHANGED <<phase, groups, buses>>

(* Mutant: a run that the end of the points cuts off is not flushed.       *)
NextBusUnflushed ==
    /\ phase = "detect"
    /\ at.bus <= Len(buses)
    /\ at.point > Len(Points(at.bus))
    /\ at' = [bus |-> at.bus + 1, point |-> 1]
    /\ idleRun' = << >> /\ crowdRun' = << >>
    /\ UNCHANGED <<phase, groups, buses, idle, crowd>>

NextBus ==
    /\ phase = "detect"
    /\ at.bus <= Len(buses)
    /\ at.point > Len(Points(at.bus))
    /\ at' = [bus |-> at.bus + 1, point |-> 1]
    /\ idleRun' = << >> /\ idle' = idle \cup IdleEpisodes(at.bus, idleRun)
    /\ crowdRun' = << >> /\ crowd' = crowd \cup CrowdEpisodes(at.bus, crowdRun)
    /\ UNCHANGED <<phase, groups, buses>>

ShowTracks ==
    /\ phase = "detect"
    /\ at.bus > Len(buses)
    /\ phase' = "shown"
    /\ UNCHANGED <<groups, buses, at, idleRun, crowdRun, idle, crowd>>

TracksDone ==
    /\ phase = "shown"
    /\ phase' = "idle"
    /\ groups' = << >> /\ buses' = << >>
    /\ at' = NoPoint
    /\ idleRun' = << >> /\ crowdRun' = << >>
    /\ idle' = {} /\ crowd' = {}

TracksNext ==
    ReadSlice \/ NextRow \/ RowsEnd \/ DetectPoint \/ NextBus \/ ShowTracks \/ TracksDone

TracksSpec == TracksInit /\ [][TracksNext]_trackVars

-----------------------------------------------------------------------------
(* The maximal intervals of 1..Len(P) whose points all satisfy Test.       *)
MaximalRuns(P, Test(_)) ==
    {r \in (1..Len(P)) \X (1..Len(P)) :
        /\ r[1] <= r[2]
        /\ \A k \in r[1]..r[2] : Test(k)
        /\ r[1] > 1 => ~Test(r[1] - 1)
        /\ r[2] < Len(P) => ~Test(r[2] + 1)}

(* A ghost point: one of a standstill of the minimum length or more, during*)
(* which the vehicle keeps broadcasting a trip that is over.               *)
Ghost(P, k) ==
    \E i \in 1..k, j \in k..Len(P) :
        StaleSpan(P, i, j) /\ \A m \in i..j : Stale(P[m])

RealRuns(P) ==
    {r \in MaximalRuns(P, LAMBDA k : ~Ghost(P, k)) :
        r[1] < r[2] /\ Displacement(P, r[1], r[2]) >= MinDisplacement}

(* The slice's buses are, key by key and in the order of time, the real    *)
(* runs of its vehicles: everything between two standstills that moved far *)
(* enough, and nothing else ("drop ghost segments"). A single row of a key *)
(* is shown as it is.                                                      *)
BusesAreRealRuns ==
    phase = "shown" =>
        /\ {buses[b] : b \in 1..Len(buses)} =
              UNION {{[key |-> groups[g].key,
                       points |-> SubSeq(groups[g].points, r[1], r[2])] :
                      r \in IF Len(groups[g].points) = 1 THEN {<<1, 1>>}
                            ELSE RealRuns(groups[g].points)} : g \in 1..Len(groups)}
        /\ \A b, c \in 1..Len(buses) : b < c =>
              \/ buses[b].key < buses[c].key
              \/ /\ buses[b].key = buses[c].key
                 /\ Points(b)[Len(Points(b))].time < Points(c)[1].time

(* "Emit one event per contiguous stationary run" and "one event per       *)
(* contiguous run where occupancy%>=threshold": the episodes shown are the *)
(* maximal runs, also those that the first or last point cuts off.         *)
EpisodesAreRuns ==
    phase = "shown" =>
        \A b \in 1..Len(buses) :
            LET P == Points(b)
                long(r) == P[r[2]].time - P[r[1]].time >= IdleMin
                shown(E) == {<<e.first, e.last>> : e \in {x \in E : x.bus = b}}
            IN  /\ shown(idle) =
                      {r \in MaximalRuns(P, LAMBDA k : IsIdle(P[k])) : long(r)}
                /\ shown(crowd) = MaximalRuns(P, LAMBDA k : IsCrowded(P[k]))

(* "idle - bus stationary for >= idle_min_threshold minutes"               *)
(* (anomalies.py): a bus that stands that long in the middle of its trip   *)
(* has an idle event.                                                      *)
EveryStandShown ==
    phase = "shown" =>
        \A g \in 1..Len(groups) :
            LET P == groups[g].points
            IN \A i, j \in 1..Len(P) :
                /\ i < j
                /\ P[j].time - P[i].time >= IdleMin
                /\ \A k \in i..j : Stale(P[k])
                /\ Displacement(P, 1, i) >= MinDisplacement
                /\ Displacement(P, j, Len(P)) >= MinDisplacement
                => \E e \in idle :
                       /\ buses[e.bus].key = groups[g].key
                       /\ Points(e.bus)[e.first].time <= P[i].time
                       /\ P[j].time <= Points(e.bus)[e.last].time
=============================================================================
