---------------------------- MODULE StopProjection ----------------------------
(***************************************************************************)
(* The stops of a route along its shape (_compute_route_stops and          *)
(* _monotone_stop_distances, stop_projection.py) and the stop index of a   *)
(* distance (distance_to_stop_index). Distances along the shape are whole  *)
(* units; the shape may pass a place more than once.                       *)
(***************************************************************************)
EXTENDS Integers, Sequences

CONSTANTS
    Stops,
    Places,
    Apart,          \* Apart[<<s, p>>]: how far stop s is from place p
    Shapes,         \* the shapes a trip may have, by the place of each distance
    Length,         \* length of a shape
    Tol,            \* _MONOTONE_TOL_M
    MaxStops        \* bound: stops of a trip

ASSUME GeometryAssumption ==
    /\ Length \in Nat
    /\ Tol \in Nat
    /\ MaxStops \in Nat
    /\ Shapes \subseteq [0..Length -> Places]
    /\ Apart \in [Stops \X Places -> Nat]

VARIABLES
    stage,          \* idle, project, search or found
    shape, visit,   \* the canonical trip: its shape, and its stops in order
    out,            \* distances of the stops projected so far
    prev,           \* the last of them
    query,          \* the distance looked up
    lo, hi,         \* the binary search
    index           \* its result: base + num / den

stopVars == <<stage, shape, visit, out, prev, query, lo, hi, index>>

NoIndex == [base |-> 0, num |-> 0, den |-> 1]

StopsInit ==
    /\ stage = "idle"
    /\ shape = << >>
    /\ visit = << >>
    /\ out = << >>
    /\ prev = 0
    /\ query = 0
    /\ lo = 0 /\ hi = 0
    /\ index = NoIndex

(* The canonical trip's stops, by stop_sequence, each where it first occurs.*)
ComputeRouteStops ==
    /\ stage = "idle"
    /\ stage' = "project"
    /\ shape' \in Shapes
    /\ \E n \in 0..MaxStops :
          /\ visit' \in [1..n -> Stops]
          /\ \A i, j \in 1..n : visit'[i] = visit'[j] => i = j
    /\ out' = << >>
    /\ prev' = 0
    /\ UNCHANGED <<query, lo, hi, index>>

(* LineString.project onto the part of the line from a distance on: the    *)
(* first of the nearest points.                                            *)
Far(s, d) == Apart[<<s, shape[d]>>]

Nearest(s, from) ==
    CHOOSE d \in from..Length : \A e \in from..Length :
        \/ Far(s, d) < Far(s, e)
        \/ Far(s, d) = Far(s, e) /\ d <= e

(* Mutant: the distance on the remainder is not added to the previous one. *)
PlacedOnRest(s) ==
    IF Nearest(s, 0) < prev - Tol
    THEN Nearest(s, prev) - prev
    ELSE IF Nearest(s, 0) < prev THEN prev ELSE Nearest(s, 0)

Placed(s) ==
    IF Nearest(s, 0) >= prev        THEN Nearest(s, 0)
    ELSE IF Nearest(s, 0) >= prev - Tol THEN prev
    ELSE IF prev >= Length          THEN Length
    ELSE Nearest(s, prev)

ProjectStop ==
    /\ stage = "project"
    /\ Len(out) < Len(visit)
    /\ out' = Append(out, Placed(visit[Len(out) + 1]))
    /\ prev' = Placed(visit[Len(out) + 1])
    /\ UNCHANGED <<stage, shape, visit, query, lo, hi, index>>

-----------------------------------------------------------------------------
(* distance_to_stop_index of a distance on this shape or a longer variant; *)
(* the stops are numbered from 0.                                          *)
Dist(k) == out[k + 1]

Found(i) ==
    /\ stage' = "found"
    /\ index' = i
    /\ lo' = i.base /\ hi' = i.base

Whole(k) == [base |-> k, num |-> 0, den |-> 1]

Lookup ==
    /\ stage = "project"
    /\ Len(out) = Len(visit)
    /\ query' \in 0..(Length + 1)
    /\ CASE out = << >> -> Found(Whole(0))
         [] out # << >> /\ query' <= Dist(0) -> Found(Whole(0))
         [] out # << >> /\ query' > Dist(0) /\ query' >= Dist(Len(out) - 1) ->
                Found(Whole(Len(out) - 1))
         [] OTHER -> /\ stage' = "search"
                     /\ lo' = 0
                     /\ hi' = Len(out) - 1
                     /\ UNCHANGED index
    /\ UNCHANGED <<shape, visit, out, prev>>

(* Mutant: the upper half loses its first stop.                            *)
HalveShort ==
    /\ stage = "search"
    /\ hi - lo > 1
    /\ LET mid == (lo + hi) \div 2
       IN IF Dist(mid) <= query
          THEN lo' = mid /\ hi' = hi
          ELSE lo' = lo /\ hi' = mid - 1
    /\ UNCHANGED <<stage, shape, visit, out, prev, query, index>>

Halve ==
    /\ stage = "search"
    /\ hi - lo > 1
    /\ LET mid == (lo + hi) \div 2
       IN IF Dist(mid) <= query
          THEN lo' = mid /\ hi' = hi
          ELSE lo' = lo /\ hi' = mid
    /\ UNCHANGED <<stage, shape, visit, out, prev, query, index>>

Interpolate ==
    /\ stage = "search"
    /\ hi - lo <= 1
    /\ Found(IF Dist(hi) <= Dist(lo)
             THEN Whole(lo)
             ELSE [base |-> lo, num |-> query - Dist(lo), den |-> Dist(hi) - Dist(lo)])
    /\ UNCHANGED <<shape, visit, out, prev, query>>

(* The request ends and forgets its arrays.                                *)
StopsDone ==
    /\ stage = "found"
    /\ stage' = "idle"
    /\ shape' = << >> /\ visit' = << >> /\ out' = << >>
    /\ prev' = 0 /\ query' = 0 /\ lo' = 0 /\ hi' = 0
    /\ index' = NoIndex

StopsNext ==
    ComputeRouteStops \/ ProjectStop \/ Lookup \/ Halve \/ Interpolate \/ StopsDone

StopsSpec == StopsInit /\ [][StopsNext]_stopVars

-----------------------------------------------------------------------------
(* Every stop is put on the shape, at or after the stop before it, also    *)
(* where the shape passes near itself (_monotone_stop_distances: "distances*)
(* non-decreasing").                                                       *)
StopsInOrder ==
    \A i \in 1..Len(out) :
        /\ out[i] \in 0..Length
        /\ i > 1 => out[i - 1] <= out[i]

(* And it is put where it is nearest among the places that are not behind  *)
(* the stop before it, unless it lies within the tolerance behind that one.*)
NearestAhead ==
    \A i \in 1..Len(out) :
        LET from == IF i = 1 THEN 0 ELSE out[i - 1]
        IN \/ \A d \in from..Length : Far(visit[i], out[i]) <= Far(visit[i], d)
           \/ /\ out[i] = from
              /\ Nearest(visit[i], 0) \in (from - Tol)..from

StopsPlaced == StopsInOrder /\ NearestAhead

(* The index found is that of the last stop at or before the distance, plus*)
(* a fraction below one, and stays within the stops: it never goes back as *)
(* a bus advances, which the crossings of whole stops rely on.             *)
IndexOfLastPassed ==
    stage = "found" /\ out # << >> =>
        LET k == index.base
        IN /\ k \in 0..(Len(out) - 1)
           /\ 0 <= index.num /\ index.num < index.den
           /\ query <= Dist(0) => k = 0 /\ index.num = 0
           /\ query > Dist(0) => Dist(k) <= query
           /\ k < Len(out) - 1 => query < Dist(k + 1) \/ query <= Dist(0)
           /\ k = Len(out) - 1 => index.num = 0
           /\ k < Len(out) - 1 /\ Dist(k) <= query /\ Dist(k) < Dist(k + 1) =>
                  index.num * (Dist(k + 1) - Dist(k)) = (query - Dist(k)) * index.den
=============================================================================
