--------------------------- MODULE RouteView_proofs ---------------------------
(***************************************************************************)
(* What the computations of a route view are proved to answer, for every   *)
(* value of the constants that satisfies their assumptions. Each has a     *)
(* part of its own: an inductive invariant of its steps, what it implies,  *)
(* and the theorem for the composition, which follows since a step of      *)
(* another computation leaves its variables alone (PartsOfSpec).           *)
(***************************************************************************)
EXTENDS RouteView, TLAPS, WellFoundedInduction

(* A set of natural numbers that is not empty has a least member.          *)
LEMMA LeastMember ==
    ASSUME NEW T, T \subseteq Nat, T # {}
    PROVE  \E m \in T : \A k \in T : m <= k
<1> DEFINE R == {ss \in Nat \X Nat : ss[1] < ss[2]}
<1>1. IsWellFoundedOn(R, Nat)
  BY NatLessThanWellFounded DEF OpToRel
<1>2. \A x, y \in Nat : <<x, y>> \in R <=> x < y
  OBVIOUS
<1> HIDE DEF R
<1>3. PICK m \in T : \A k \in T : ~(<<k, m>> \in R)
  BY <1>1, WFMin
<1>4. \A k \in T : ~(k < m)
  BY <1>2, <1>3
<1> QED BY <1>4

(* Each computation takes its own steps only, and no other moves it.       *)
LEMMA PartsOfSpec ==
  Spec =>
    /\ StopsSpec
    /\ TracksSpec
    /\ SweepSpec
    /\ CrossSpec
    /\ WindowSpec
    /\ LabelsSpec
<1>1. Init =>
        /\ StopsInit
        /\ TracksInit
        /\ SweepInit
        /\ CrossInit
        /\ WindowInit
        /\ LabelsInit
  BY DEF Init
<1>2. [Next]_vars => [StopsNext]_stopVars
  BY DEF Next, vars, RouteStops, RouteBuses, DistanceBunching, TimeBunching, ServeForecast, ExportLabels
<1>3. [Next]_vars => [TracksNext]_trackVars
  BY DEF Next, vars, RouteStops, RouteBuses, DistanceBunching, TimeBunching, ServeForecast, ExportLabels
<1>4. [Next]_vars => [SweepNext]_sweepVars
  BY DEF Next, vars, RouteStops, RouteBuses, DistanceBunching, TimeBunching, ServeForecast, ExportLabels
<1>5. [Next]_vars => [CrossNext]_crossVars
  BY DEF Next, vars, RouteStops, RouteBuses, DistanceBunching, TimeBunching, ServeForecast, ExportLabels
<1>6. [Next]_vars => [WindowNext]_windowVars
  BY DEF Next, vars, RouteStops, RouteBuses, DistanceBunching, TimeBunching, ServeForecast, ExportLabels
<1>7. [Next]_vars => [LabelsNext]_labelVars
  BY DEF Next, vars, RouteStops, RouteBuses, DistanceBunching, TimeBunching, ServeForecast, ExportLabels
<1> QED
  BY <1>1, <1>2, <1>3, <1>4, <1>5, <1>6, <1>7, PTL
     DEF Spec, StopsSpec, TracksSpec, SweepSpec, CrossSpec, WindowSpec, LabelsSpec

-----------------------------------------------------------------------------
(***************************************************************************)
(* The projection of the stops and the search for a stop index, for every  *)
(* shape, every list of stops and every tolerance.                         *)
(***************************************************************************)

(* The search for the nearest place of a part of the shape finds one.      *)
LEMMA NearestExists ==
    ASSUME NEW s \in Stops, NEW from \in 0..Length, shape \in [0..Length -> Places]
    PROVE  /\ Nearest(s, from) \in from..Length
           /\ \A d \in from..Length : Far(s, Nearest(s, from)) <= Far(s, d)
<1> USE GeometryAssumption
<1>1. \A d \in from..Length : Far(s, d) \in Nat
  BY DEF Far
<1> DEFINE Fars == {Far(s, d) : d \in from..Length}
<1>2. PICK m \in Fars : \A k \in Fars : m <= k
  <2>1. Fars \subseteq Nat /\ Far(s, from) \in Fars
    BY <1>1
  <2> QED BY <2>1, LeastMember
<1> DEFINE Best == {d \in from..Length : Far(s, d) = m}
<1>3. PICK b \in Best : \A d \in Best : b <= d
  <2>1. Best \subseteq Nat /\ Best # {}
    BY <1>2
  <2> HIDE DEF Best
  <2> QED BY <2>1, LeastMember
<1>4. b \in from..Length /\ \A d \in from..Length :
          Far(s, b) < Far(s, d) \/ (Far(s, b) = Far(s, d) /\ b <= d)
  <2> SUFFICES ASSUME NEW d \in from..Length
               PROVE  Far(s, b) < Far(s, d) \/ (Far(s, b) = Far(s, d) /\ b <= d)
    BY <1>3
  <2>1. Far(s, b) = m /\ m <= Far(s, d) /\ m \in Nat /\ Far(s, d) \in Nat
    BY <1>1, <1>2, <1>3
  <2>2. CASE Far(s, d) = m
    BY <2>1, <2>2, <1>3
  <2>3. CASE Far(s, d) # m
    BY <2>1, <2>3
  <2> QED BY <2>2, <2>3
<1>5. /\ Nearest(s, from) \in from..Length
      /\ \A d \in from..Length :
            \/ Far(s, Nearest(s, from)) < Far(s, d)
            \/ Far(s, Nearest(s, from)) = Far(s, d) /\ Nearest(s, from) <= d
  BY <1>4 DEF Nearest
<1> QED BY <1>1, <1>5, SMTT(30)

-----------------------------------------------------------------------------
(* A stop that is placed after one at prev.                                *)
Follows(s, from, d) ==
    /\ d \in from..Length
    /\ \/ \A e \in from..Length : Far(s, d) <= Far(s, e)
       \/ d = from /\ Nearest(s, 0) \in (from - Tol)..from

(* _monotone_stop_distances puts the next stop at or ahead of the previous *)
(* one, at the nearest place there is, or holds it back by the tolerance.  *)
LEMMA PlacedFollows ==
    ASSUME NEW s \in Stops, prev \in 0..Length, shape \in [0..Length -> Places]
    PROVE  Follows(s, prev, Placed(s))
<1> USE GeometryAssumption
<1>1. /\ Nearest(s, 0) \in 0..Length
      /\ \A d \in 0..Length : Far(s, Nearest(s, 0)) <= Far(s, d)
  BY NearestExists
<1>2. /\ Nearest(s, prev) \in prev..Length
      /\ \A d \in prev..Length : Far(s, Nearest(s, prev)) <= Far(s, d)
  BY NearestExists
<1>3. CASE Nearest(s, 0) >= prev
  BY <1>1, <1>3 DEF Placed, Follows
<1>4. CASE Nearest(s, 0) < prev /\ Nearest(s, 0) >= prev - Tol
  BY <1>1, <1>4 DEF Placed, Follows
<1>5. CASE Nearest(s, 0) < prev - Tol /\ prev >= Length
  <2>1. Placed(s) = Length /\ prev = Length
    BY <1>1, <1>5 DEF Placed
  <2>2. Far(s, Length) \in Nat
    BY DEF Far
  <2> QED BY <2>1, <2>2 DEF Follows
<1>6. CASE Nearest(s, 0) < prev - Tol /\ prev < Length
  BY <1>1, <1>2, <1>6 DEF Placed, Follows
<1> QED BY <1>1, <1>3, <1>4, <1>5, <1>6

-----------------------------------------------------------------------------
(* The inductive invariant: the stops placed so far follow one another, and*)
(* the search keeps the distance between its two bounds.                   *)
StopsTyped ==
    /\ stage \in {"idle", "project", "search", "found"}
    /\ stage # "idle" => shape \in [0..Length -> Places]
    /\ visit \in Seq(Stops)
    /\ out \in Seq(0..Length)
    /\ Len(out) <= Len(visit)
    /\ query \in Nat

StopsFollow ==
    \A i \in 1..Len(out) : Follows(visit[i], IF i = 1 THEN 0 ELSE out[i - 1], out[i])

SearchBounds ==
    stage = "search" =>
        /\ lo \in 0..(Len(out) - 1) /\ hi \in 0..(Len(out) - 1)
        /\ lo < hi
        /\ Dist(0) < query
        /\ Dist(lo) <= query /\ query < Dist(hi)

StopsInv ==
    /\ StopsTyped
    /\ stage = "idle" => out = << >>
    /\ prev = IF out = << >> THEN 0 ELSE out[Len(out)]
    /\ StopsFollow
    /\ SearchBounds
    /\ IndexOfLastPassed

(* What is nearest depends on the shape alone.                             *)
LEMMA SameShape ==
    ASSUME shape' = shape
    PROVE  \A s, from, d : Follows(s, from, d)' = Follows(s, from, d)
<1>1. \A s, d : Far(s, d)' = Far(s, d)
  BY DEF Far
<1>2. \A s : Nearest(s, 0)' = Nearest(s, 0)
  BY <1>1, Zenon DEF Nearest
<1> QED BY <1>1, <1>2 DEF Follows

(* The invariant implies the property.                                     *)
LEMMA StopsInvImplies == StopsInv => StopsPlaced
<1> USE GeometryAssumption
<1> SUFFICES ASSUME StopsInv PROVE StopsPlaced
  OBVIOUS
<1> SUFFICES ASSUME NEW i \in 1..Len(out)
             PROVE  /\ out[i] \in 0..Length
                    /\ i > 1 => out[i - 1] <= out[i]
                    /\ LET from == IF i = 1 THEN 0 ELSE out[i - 1]
                       IN \/ \A d \in from..Length : Far(visit[i], out[i]) <= Far(visit[i], d)
                          \/ /\ out[i] = from
                             /\ Nearest(visit[i], 0) \in (from - Tol)..from
  BY DEF StopsPlaced, StopsInOrder, NearestAhead
<1>1. Follows(visit[i], IF i = 1 THEN 0 ELSE out[i - 1], out[i])
  BY DEF StopsInv, StopsFollow
<1>2. out[i] \in 0..Length /\ (i > 1 => out[i - 1] \in 0..Length)
  BY DEF StopsInv, StopsTyped
<1> QED BY <1>1, <1>2 DEF Follows

(* The invariant holds before a route is asked for.                        *)
LEMMA StopsInitHolds == StopsInit => StopsInv
<1> SUFFICES ASSUME StopsInit PROVE StopsInv
  OBVIOUS
<1> USE DEF StopsInit
<1>1. StopsTyped
  BY DEF StopsTyped
<1>2. StopsFollow
  BY DEF StopsFollow
<1> QED BY <1>1, <1>2 DEF StopsInv, SearchBounds, IndexOfLastPassed

(* The request picks the canonical trip.                                   *)
LEMMA ComputeHolds == StopsInv /\ ComputeRouteStops => StopsInv'
<1> USE GeometryAssumption
<1> SUFFICES ASSUME StopsInv, ComputeRouteStops PROVE StopsInv'
  OBVIOUS
<1>1. out' = << >> /\ stage' = "project" /\ prev' = 0 /\ query' = query
  BY DEF ComputeRouteStops
<1>2. shape' \in [0..Length -> Places] /\ visit' \in Seq(Stops) /\ Len(visit') \in Nat
  BY DEF ComputeRouteStops
<1>3. StopsTyped'
  BY <1>1, <1>2 DEF StopsInv, StopsTyped
<1>4. StopsFollow'
  BY <1>1 DEF StopsFollow
<1> QED BY <1>1, <1>3, <1>4 DEF StopsInv, SearchBounds, IndexOfLastPassed

(* One more stop is placed.                                                *)
LEMMA ProjectHolds == StopsInv /\ ProjectStop => StopsInv'
<1> USE GeometryAssumption
<1> SUFFICES ASSUME StopsInv, ProjectStop PROVE StopsInv'
  OBVIOUS
<1> USE DEF StopsInv, StopsTyped
<1> DEFINE n == Len(out) + 1
           s == visit[n]
           d == Placed(s)
<1>1. s \in Stops /\ n \in Nat \ {0} /\ n <= Len(visit)
  BY DEF ProjectStop
<1>2. prev \in 0..Length
  OBVIOUS
<1>3. Follows(s, prev, d)
  BY <1>1, <1>2, PlacedFollows DEF ProjectStop
<1>4. d \in 0..Length
  BY <1>2, <1>3 DEF Follows
<1>5. /\ out' = Append(out, d) /\ prev' = d
      /\ UNCHANGED <<stage, shape, visit, query, lo, hi, index>>
      /\ stage = "project"
  BY DEF ProjectStop
<1> HIDE DEF d
<1>6. out' \in Seq(0..Length) /\ Len(out') = n /\ out'[n] = d
      /\ \A i \in 1..Len(out) : out'[i] = out[i]
  BY <1>4, <1>5
<1>7. StopsTyped'
  BY <1>1, <1>5, <1>6
<1>8. StopsFollow'
  <2> USE ONLY GeometryAssumption
  <2>0. shape' = shape /\ visit' = visit
    BY <1>5
  <2>1. \A s1, from, x : Follows(s1, from, x)' = Follows(s1, from, x)
    BY <2>0, SameShape
  <2>4. StopsFollow /\ Len(out) \in Nat /\ n = Len(out) + 1 /\ s = visit[n]
        /\ prev = (IF out = << >> THEN 0 ELSE out[Len(out)])
        /\ (out = << >> <=> Len(out) = 0)
    BY StopsInv DEF StopsInv, StopsTyped
  <2> HIDE DEF n, s
  <2> SUFFICES ASSUME NEW i \in 1..n
               PROVE  Follows(visit[i], IF i = 1 THEN 0 ELSE out'[i - 1], out'[i])
    BY <1>6, <2>0, <2>1 DEF StopsFollow
  <2>2. CASE i = n
    <3>1. (IF i = 1 THEN 0 ELSE out'[i - 1]) = prev
      BY <1>6, <2>2, <2>4
    <3> QED BY <1>3, <1>6, <2>2, <2>4, <3>1
  <2>3. CASE i # n
    <3>0. i \in 1..Len(out) /\ (i # 1 => i - 1 \in 1..Len(out))
      BY <2>3, <2>4
    <3>1. i \in 1..Len(out) /\ out'[i] = out[i]
          /\ (i # 1 => out'[i - 1] = out[i - 1])
      BY <1>6, <3>0
    <3>2. Follows(visit[i], IF i = 1 THEN 0 ELSE out[i - 1], out[i])
      BY <2>4, <3>1 DEF StopsFollow
    <3>3. (IF i = 1 THEN 0 ELSE out'[i - 1]) = (IF i = 1 THEN 0 ELSE out[i - 1])
      BY <3>1
    <3> QED BY <3>1, <3>2, <3>3
  <2> QED BY <2>2, <2>3
<1>9. SearchBounds' /\ IndexOfLastPassed'
  BY <1>5 DEF SearchBounds, IndexOfLastPassed
<1>10. out' # << >>
  BY <1>1, <1>6
<1> QED BY <1>1, <1>5, <1>6, <1>7, <1>8, <1>9, <1>10 DEF StopsInv

(* What an action that keeps the stops has left to show.                   *)
LEMMA KeepStops ==
    ASSUME StopsInv, UNCHANGED <<shape, visit, out, prev>>, query' \in Nat,
           stage \in {"project", "search"}, stage' \in {"search", "found"},
           SearchBounds', IndexOfLastPassed'
    PROVE  StopsInv'
<1>1. StopsTyped'
  BY DEF StopsInv, StopsTyped
<1>2. StopsFollow'
  BY SameShape DEF StopsInv, StopsFollow
<1> QED BY <1>1, <1>2 DEF StopsInv

(* A lookup starts between the whole range's ends.                         *)
LEMMA LookupHolds == StopsInv /\ Lookup => StopsInv'
<1> USE GeometryAssumption
<1> SUFFICES ASSUME StopsInv, Lookup PROVE StopsInv'
  OBVIOUS
<1> USE DEF StopsInv, StopsTyped, Dist, Found, Whole
<1>0. query' \in Nat /\ stage = "project" /\ UNCHANGED <<shape, visit, out, prev>>
  BY DEF Lookup
<1>a. Len(out) \in Nat /\ (out # << >> => Len(out) > 0)
  OBVIOUS
<1>b. \A k \in 0..(Len(out) - 1) : Dist(k) \in 0..Length
  OBVIOUS
<1>1. CASE out = << >>
  BY <1>0, <1>1, KeepStops DEF Lookup, SearchBounds, IndexOfLastPassed
<1>2. CASE out # << >> /\ query' <= Dist(0)
  <2>1. stage' = "found" /\ index' = [base |-> 0, num |-> 0, den |-> 1]
    BY <1>2 DEF Lookup
  <2>2. IndexOfLastPassed'
    BY <1>0, <1>a, <1>b, <1>2, <2>1 DEF IndexOfLastPassed
  <2> QED BY <1>0, <2>1, <2>2, KeepStops DEF SearchBounds
<1>3. CASE out # << >> /\ query' > Dist(0) /\ query' >= Dist(Len(out) - 1)
  <2>1. stage' = "found" /\ index' = [base |-> Len(out) - 1, num |-> 0, den |-> 1]
    BY <1>3, <1>a, <1>b, <1>0 DEF Lookup
  <2>2. IndexOfLastPassed'
    BY <1>0, <1>a, <1>b, <1>3, <2>1 DEF IndexOfLastPassed
  <2> QED BY <1>0, <2>1, <2>2, KeepStops DEF SearchBounds
<1>4. CASE out # << >> /\ query' > Dist(0) /\ query' < Dist(Len(out) - 1)
  <2>1. stage' = "search" /\ lo' = 0 /\ hi' = Len(out) - 1
    BY <1>4, <1>a, <1>b, <1>0 DEF Lookup
  <2>2. SearchBounds'
    BY <1>0, <1>a, <1>b, <1>4, <2>1 DEF SearchBounds
  <2> QED BY <1>0, <2>1, <2>2, KeepStops DEF IndexOfLastPassed
<1> QED BY <1>0, <1>a, <1>b, <1>1, <1>2, <1>3, <1>4

(* Halving keeps the distance between the bounds.                          *)
LEMMA HalveHolds == StopsInv /\ Halve => StopsInv'
<1> USE GeometryAssumption
<1> SUFFICES ASSUME StopsInv, Halve PROVE StopsInv'
  OBVIOUS
<1> DEFINE mid == (lo + hi) \div 2
<1>1. /\ lo \in Nat /\ hi \in Nat /\ hi <= Len(out) - 1 /\ hi - lo > 1
      /\ Dist(0) < query /\ Dist(lo) <= query /\ query < Dist(hi)
      /\ stage = "search" /\ Len(out) \in Nat
  BY DEF StopsInv, SearchBounds, Halve, StopsTyped
<1>2. mid \in Nat /\ lo < mid /\ mid < hi
  BY <1>1
<1>3. UNCHANGED <<stage, shape, visit, out, prev, query, index>>
      /\ IF Dist(mid) <= query THEN lo' = mid /\ hi' = hi ELSE lo' = lo /\ hi' = mid
  BY DEF Halve
<1>4. Dist(mid) \in Nat /\ query \in Nat
  BY <1>1, <1>2, SMTT(30) DEF StopsInv, StopsTyped, Dist
<1> HIDE DEF mid
<1>5. \A k : Dist(k)' = Dist(k)
  BY <1>3 DEF Dist
<1>6. SearchBounds'
  <2>1. CASE Dist(mid) <= query
    BY <1>1, <1>2, <1>3, <1>4, <1>5, <2>1 DEF SearchBounds
  <2>2. CASE ~(Dist(mid) <= query)
    BY <1>1, <1>2, <1>3, <1>4, <1>5, <2>2 DEF SearchBounds
  <2> QED BY <2>1, <2>2
<1> QED BY <1>1, <1>3, <1>4, <1>6, KeepStops DEF IndexOfLastPassed

(* The search ends between two stops.                                      *)
LEMMA InterpolateHolds == StopsInv /\ Interpolate => StopsInv'
<1> USE GeometryAssumption
<1> SUFFICES ASSUME StopsInv, Interpolate PROVE StopsInv'
  OBVIOUS
<1>1. /\ lo \in Nat /\ hi = lo + 1 /\ hi <= Len(out) - 1
      /\ Dist(0) < query /\ Dist(lo) <= query /\ query < Dist(hi)
      /\ stage = "search" /\ Len(out) \in Nat /\ query \in Nat
  BY DEF StopsInv, SearchBounds, Interpolate, StopsTyped
<1>2. Dist(lo) \in Nat /\ Dist(hi) \in Nat /\ Dist(0) \in Nat
  BY <1>1, SMTT(30) DEF StopsInv, StopsTyped, Dist
<1>3. /\ UNCHANGED <<shape, visit, out, prev, query>> /\ stage' = "found"
      /\ index' = [base |-> lo, num |-> query - Dist(lo), den |-> Dist(hi) - Dist(lo)]
  BY <1>1, <1>2 DEF Interpolate, Found
<1>4. \A k : Dist(k)' = Dist(k)
  BY <1>3 DEF Dist
<1>5. IndexOfLastPassed'
  <2>1. index'.base = lo /\ index'.num = query - Dist(lo) /\ index'.den = Dist(hi) - Dist(lo)
    BY <1>3
  <2>2. /\ index'.num \in Nat /\ index'.den \in Nat /\ index'.num < index'.den
        /\ index'.num * (Dist(lo + 1) - Dist(lo)) = (query - Dist(lo)) * index'.den
    BY <1>1, <1>2, <2>1
  <2> QED BY <1>1, <1>2, <1>3, <1>4, <2>1, <2>2 DEF IndexOfLastPassed
<1> QED BY <1>1, <1>3, <1>5, KeepStops DEF SearchBounds

(* A route that has been answered is forgotten.                            *)
LEMMA StopsDoneHolds == StopsInv /\ StopsDone => StopsInv'
<1> SUFFICES ASSUME StopsInv, StopsDone PROVE StopsInv'
  OBVIOUS
<1> USE DEF StopsDone
<1>1. StopsTyped'
  BY DEF StopsTyped
<1>2. StopsFollow'
  BY DEF StopsFollow
<1> QED BY <1>1, <1>2 DEF StopsInv, SearchBounds, IndexOfLastPassed

(* A step of other computations leaves the invariant alone.                *)
LEMMA StopsStutterHolds == StopsInv /\ UNCHANGED stopVars => StopsInv'
<1> SUFFICES ASSUME StopsInv, UNCHANGED stopVars PROVE StopsInv'
  OBVIOUS
<1> USE DEF stopVars
<1>1. StopsTyped'
  BY DEF StopsInv, StopsTyped
<1>2. StopsFollow'
  BY SameShape DEF StopsInv, StopsFollow
<1>3. SearchBounds'
  BY DEF StopsInv, SearchBounds, Dist
<1>4. IndexOfLastPassed'
  BY DEF StopsInv, IndexOfLastPassed, Dist
<1> QED BY <1>1, <1>2, <1>3, <1>4 DEF StopsInv

(* The invariant holds in every state of the computation.                  *)
THEOREM StopsInvariant == StopsSpec => []StopsInv
<1>1. StopsInit => StopsInv
  BY StopsInitHolds
<1>2. StopsInv /\ [StopsNext]_stopVars => StopsInv'
  BY ComputeHolds, ProjectHolds, LookupHolds, HalveHolds, InterpolateHolds,
     StopsDoneHolds, StopsStutterHolds DEF StopsNext
<1> QED BY <1>1, <1>2, PTL DEF StopsSpec

(* Whatever shape passes near itself, and wherever the stops lie, the stops*)
(* get non-decreasing distances on the shape, each the nearest place that  *)
(* is not behind, but for the tolerance (_monotone_stop_distances).        *)
THEOREM StopsCorrect == Spec => []StopsPlaced
<1>1. StopsInv => StopsPlaced
  BY StopsInvImplies
<1> QED BY <1>1, StopsInvariant, PartsOfSpec, PTL

(* The binary search of distance_to_stop_index finds the last stop passed, *)
(* also among stops that share a distance.                                 *)
THEOREM IndexCorrect == Spec => []IndexOfLastPassed
<1>1. StopsInv => IndexOfLastPassed
  BY DEF StopsInv
<1> QED BY <1>1, StopsInvariant, PartsOfSpec, PTL

-----------------------------------------------------------------------------
(***************************************************************************)
(* The window that is served and the one the training set would hold, for  *)
(* any recordings of any number of buses, any length of window and any     *)
(* tolerance; and the horizon that is drawn, for any scale.                *)
(***************************************************************************)

-----------------------------------------------------------------------------
(* Distances of some of the buses.                                         *)
IsSight(Seen) == DOMAIN Seen \subseteq Peers /\ \A p \in DOMAIN Seen : Seen[p] \in Nat

(* If a bus is ahead, the leader is one of those ahead, and the nearest.   *)
LEMMA LeaderAhead ==
    ASSUME NEW Seen, IsSight(Seen), NEW d, Beyond(Seen, d) # {}
    PROVE  /\ Leader(Seen, d) \in Beyond(Seen, d)
           /\ \A q \in Beyond(Seen, d) : Seen[Leader(Seen, d)] <= Seen[q]
<1> USE WindowAssumption
<1> DEFINE Candidates == {Seen[p] : p \in Beyond(Seen, d)}
<1>1. Beyond(Seen, d) \subseteq Peers /\ \A p \in Beyond(Seen, d) : Seen[p] \in Nat
  BY DEF IsSight, Beyond
<1>2. PICK m \in Candidates : \A k \in Candidates : m <= k
  <2>1. Candidates \subseteq Nat /\ Candidates # {}
    BY <1>1
  <2> HIDE DEF Candidates
  <2> QED BY <2>1, LeastMember
<1> DEFINE Closest == {p \in Beyond(Seen, d) : Seen[p] = m}
<1>3. PICK b \in Closest : \A p \in Closest : b <= p
  <2>1. Closest \subseteq Nat /\ Closest # {}
    BY <1>1, <1>2
  <2> HIDE DEF Closest
  <2> QED BY <2>1, LeastMember
<1>4. b \in Beyond(Seen, d) /\ Seen[b] = m /\ m \in Nat
  BY <1>1, <1>2, <1>3
<1>5. \A q \in Beyond(Seen, d) : Seen[b] < Seen[q] \/ (Seen[b] = Seen[q] /\ b <= q)
  <2> SUFFICES ASSUME NEW q \in Beyond(Seen, d)
               PROVE  Seen[b] < Seen[q] \/ (Seen[b] = Seen[q] /\ b <= q)
    OBVIOUS
  <2>1. m <= Seen[q] /\ Seen[q] \in Nat
    BY <1>1, <1>2
  <2>2. CASE Seen[q] = m
    BY <1>3, <1>4, <2>2
  <2>3. CASE Seen[q] # m
    BY <1>4, <2>1, <2>3
  <2> QED BY <2>2, <2>3
<1>6. /\ Leader(Seen, d) \in Beyond(Seen, d)
      /\ \A q \in Beyond(Seen, d) :
            \/ Seen[Leader(Seen, d)] < Seen[q]
            \/ Seen[Leader(Seen, d)] = Seen[q] /\ Leader(Seen, d) <= q
  BY <1>4, <1>5 DEF Leader
<1>7. \A q \in Beyond(Seen, d) : Seen[q] \in Nat
  BY <1>1
<1> QED BY <1>6, <1>7

(* A gap of the training row is an integer, and one short of the sentinel  *)
(* is that of a bus.                                                       *)
LEMMA GapRowTyped ==
    ASSUME NEW Seen, IsSight(Seen), NEW d \in Nat
    PROVE  /\ GapRow(Seen, d).gap \in Int
           /\ GapRow(Seen, d).gap < NoLeader =>
                 /\ GapRow(Seen, d).bus # Nobody
                 /\ GapRow(Seen, d).bus \in DOMAIN Seen
                 /\ Seen[GapRow(Seen, d).bus] \in Nat
<1> USE WindowAssumption
<1>1. CASE Beyond(Seen, d) = {}
  BY <1>1 DEF GapRow, NoLink
<1>2. CASE Beyond(Seen, d) # {}
  <2>1. Leader(Seen, d) \in Beyond(Seen, d)
    BY <1>2, LeaderAhead
  <2>2. /\ Leader(Seen, d) \in DOMAIN Seen /\ Leader(Seen, d) # Nobody
        /\ Seen[Leader(Seen, d)] \in Nat
    BY <2>1 DEF Beyond, IsSight, Nobody
  <2>3. GapRow(Seen, d) = [bus |-> Leader(Seen, d), gap |-> Seen[Leader(Seen, d)] - d]
    BY <1>2 DEF GapRow
  <2> QED BY <2>2, <2>3
<1> QED BY <1>1, <1>2

(* _forward_gap sees the bus that _forward_gap_row sees, or nobody when the*)
(* gap is as long as the sentinel.                                         *)
LEMMA LinkIsGapRow ==
    ASSUME NEW Seen, IsSight(Seen), NEW d \in Nat
    PROVE  Link(Seen, d) = IF GapRow(Seen, d).gap < NoLeader THEN GapRow(Seen, d) ELSE NoLink
<1> USE WindowAssumption
<1>1. CASE Beyond(Seen, d) = {}
  BY <1>1 DEF Link, GapRow, Within, NoLink
<1>2. CASE Beyond(Seen, d) # {}
  <2>1. /\ Leader(Seen, d) \in Beyond(Seen, d)
        /\ \A q \in Beyond(Seen, d) : Seen[Leader(Seen, d)] <= Seen[q]
    BY <1>2, LeaderAhead
  <2>2. \A q \in Beyond(Seen, d) : Seen[q] \in Nat
    BY DEF Beyond, IsSight
  <2>3. GapRow(Seen, d) = [bus |-> Leader(Seen, d), gap |-> Seen[Leader(Seen, d)] - d]
    BY <1>2 DEF GapRow
  <2>4. CASE Seen[Leader(Seen, d)] - d < NoLeader
    <3>1. Leader(Seen, d) \in Within(Seen, d)
      BY <2>1, <2>4 DEF Within
    <3> QED BY <2>3, <2>4, <3>1 DEF Link
  <2>5. CASE ~(Seen[Leader(Seen, d)] - d < NoLeader)
    <3>1. \A q \in Beyond(Seen, d) : ~(Seen[q] - d < NoLeader)
      BY <2>1, <2>2, <2>5
    <3>2. Within(Seen, d) = {}
      BY <3>1 DEF Within
    <3> QED BY <2>3, <2>5, <3>2 DEF Link, NoLink
  <2> QED BY <2>4, <2>5
<1> QED BY <1>1, <1>2

(* The same along the chain of the three buses ahead, up to the first gap  *)
(* as long as the sentinel.                                                *)
LEMMA ChainsAgree ==
    ASSUME NEW Seen, IsSight(Seen), NEW d \in Nat
    PROVE  LiveChain(Seen, d) = Cut(TrainedChain(Seen, d))
<1> DEFINE one == GapRow(Seen, d)
           rest == Without(Seen, {one.bus})
           two == IF one.bus = Nobody THEN NoLink ELSE GapRow(rest, Seen[one.bus])
           last == Without(Seen, {one.bus, two.bus})
           three == IF two.bus = Nobody THEN NoLink ELSE GapRow(last, Seen[two.bus])
           a == Link(Seen, d)
           b == IF a.bus = Nobody THEN NoLink ELSE Link(Without(Seen, {a.bus}), Seen[a.bus])
           c == IF b.bus = Nobody THEN NoLink
                ELSE Link(Without(Seen, {a.bus, b.bus}), Seen[b.bus])
<1>1. TrainedChain(Seen, d) = <<one, two, three>>
  BY DEF TrainedChain
<1>2. LiveChain(Seen, d) = <<a, b, c>>
  BY DEF LiveChain
<1>3. Cut(<<one, two, three>>) =
        <<IF one.gap < NoLeader THEN one ELSE NoLink,
          IF one.gap < NoLeader /\ two.gap < NoLeader THEN two ELSE NoLink,
          IF one.gap < NoLeader /\ two.gap < NoLeader /\ three.gap < NoLeader
          THEN three ELSE NoLink>>
  <2> HIDE DEF one, two, three
  <2>1. 1..1 = {1} /\ 1..2 = {1, 2} /\ 1..3 = {1, 2, 3}
    OBVIOUS
  <2>2. /\ <<one, two, three>>[1] = one
        /\ <<one, two, three>>[2] = two
        /\ <<one, two, three>>[3] = three
    OBVIOUS
  <2> QED BY <2>1, <2>2 DEF Cut
<1>4. IsSight(rest) /\ IsSight(last)
  BY DEF IsSight, Without
<1>5. a = IF one.gap < NoLeader THEN one ELSE NoLink
  BY LinkIsGapRow
<1>6. CASE ~(one.gap < NoLeader)
  <2>1. a = NoLink
    BY <1>5, <1>6
  <2>2. b = NoLink
    BY <2>1 DEF NoLink
  <2>3. c = NoLink
    BY <2>2 DEF NoLink
  <2> HIDE DEF one, two, three, a, b, c
  <2> QED BY <1>1, <1>2, <1>3, <1>6, <2>1, <2>2, <2>3
<1>7. CASE one.gap < NoLeader
  <2>1. a = one /\ one.bus # Nobody /\ Seen[one.bus] \in Nat
    BY <1>5, <1>7, GapRowTyped
  <2>2. two = GapRow(rest, Seen[one.bus])
    BY <2>1
  <2>3. b = Link(rest, Seen[one.bus])
    BY <2>1
  <2>4. b = IF two.gap < NoLeader THEN two ELSE NoLink
    <3> HIDE DEF one, two, rest, a, b
    <3> QED BY <1>4, <2>1, <2>2, <2>3, LinkIsGapRow
  <2>5. CASE ~(two.gap < NoLeader)
    <3>1. b = NoLink
      BY <2>4, <2>5
    <3>2. c = NoLink
      BY <3>1 DEF NoLink
    <3> HIDE DEF one, two, three, a, b, c
    <3> QED BY <1>1, <1>2, <1>3, <1>7, <2>1, <2>5, <3>1, <3>2
  <2>6. CASE two.gap < NoLeader
    <3>1. two.bus # Nobody /\ two.bus \in DOMAIN rest
      <4> HIDE DEF one, two, rest
      <4> QED BY <1>4, <2>1, <2>2, <2>6, GapRowTyped
    <3>2. b = two /\ Seen[two.bus] \in Nat
      BY <2>4, <2>6, <3>1 DEF Without, IsSight
    <3>3. three = GapRow(last, Seen[two.bus])
      BY <3>1
    <3>4. c = Link(last, Seen[two.bus])
      <4> HIDE DEF one, two
      <4> QED BY <2>1, <3>1, <3>2
    <3>5. c = IF three.gap < NoLeader THEN three ELSE NoLink
      <4> HIDE DEF one, two, three, last, a, b, c
      <4> QED BY <1>4, <3>2, <3>3, <3>4, LinkIsGapRow
    <3> HIDE DEF one, two, three, a, b, c
    <3> QED BY <1>1, <1>2, <1>3, <1>7, <2>1, <2>6, <3>2, <3>5
  <2> QED BY <2>5, <2>6
<1> QED BY <1>6, <1>7

-----------------------------------------------------------------------------
(* A sample on the tick itself is the nearest one.                         *)
LEMMA SampleOnTick ==
    ASSUME NEW tr, DOMAIN tr \subseteq Int, NEW t \in DOMAIN tr
    PROVE  /\ Near(tr, t, SampleTol) # {}
           /\ SampleTick(tr, t, SampleTol) = t
<1> USE WindowAssumption
<1>1. t \in Near(tr, t, SampleTol) /\ AbsDiff(t, t) = 0
  BY DEF Near, AbsDiff
<1>2. \A u \in Near(tr, t, SampleTol) :
          u \in Int /\ AbsDiff(u, t) \in Nat /\ (AbsDiff(u, t) = 0 => u = t)
  BY DEF Near, AbsDiff
<1>3. \A w \in Near(tr, t, SampleTol) :
          \/ AbsDiff(t, t) < AbsDiff(w, t)
          \/ AbsDiff(t, t) = AbsDiff(w, t) /\ t <= w
  BY <1>1, <1>2
<1>4. \A u \in Near(tr, t, SampleTol) :
          (\A w \in Near(tr, t, SampleTol) :
              \/ AbsDiff(u, t) < AbsDiff(w, t)
              \/ AbsDiff(u, t) = AbsDiff(w, t) /\ u <= w) => u = t
  BY <1>1, <1>2
<1> QED BY <1>1, <1>3, <1>4 DEF SampleTick

(* The recordings of a request.                                            *)
RequestTyped ==
    /\ scale \in Nat \ {0}
    /\ track \in [{0} \cup Peers -> Tracks]

(* Recorded tracks map ticks to distances, the served bus's and its        *)
(* peers'.                                                                 *)
LEMMA TracksAreTyped ==
    ASSUME RequestTyped, NEW b \in {0} \cup Peers
    PROVE  DOMAIN track[b] \subseteq Int /\ \A t \in DOMAIN track[b] : track[b][t] \in Nat
BY WindowAssumption DEF RequestTyped

(* At a decided tick the buses served are those recorded, where they are   *)
(* recorded.                                                               *)
LEMMA ServedIsRecorded ==
    ASSUME RequestTyped, NEW k \in 1..SeqLen, SpansDecided(k)
    PROVE  Served(TickOf(k)) = Recorded(TickOf(k)) /\ IsSight(Recorded(TickOf(k)))
<1> USE WindowAssumption
<1> DEFINE t == TickOf(k)
<1>1. \A p \in Peers : DOMAIN track[p] \subseteq Int /\ \A u \in DOMAIN track[p] : track[p][u] \in Nat
  BY TracksAreTyped
<1>2. \A p \in Peers : t \in DOMAIN track[p] =>
          Near(track[p], t, SampleTol) # {} /\ SampleTick(track[p], t, SampleTol) = t
  BY <1>1, SampleOnTick
<1>3. \A p \in Peers : t \notin DOMAIN track[p] => Near(track[p], t, SampleTol) = {}
  BY DEF SpansDecided
<1> HIDE DEF t
<1>4. {q \in Peers : Near(track[q], t, SampleTol) # {}} = {q \in Peers : t \in DOMAIN track[q]}
  BY <1>2, <1>3
<1>5. Served(t) = Recorded(t)
  BY <1>2, <1>4 DEF Served, Recorded
<1>6. IsSight(Recorded(t))
  <2>1. \A p \in Peers : t \in DOMAIN track[p] => scale * track[p][t] \in Nat
    BY <1>1 DEF RequestTyped
  <2> QED BY <2>1 DEF IsSight, Recorded
<1> QED BY <1>5, <1>6 DEF t

-----------------------------------------------------------------------------
(* What build_bus_window has computed of a row.                            *)
ServedDistance(k) == scale * Target[SampleTick(Target, TickOf(k), SampleTol)]

Gaps(k) == [j \in 1..k |-> rows[j].chain[1].gap]

RowBuilt(k) ==
    /\ Near(Target, TickOf(k), SampleTol) # {}
    /\ rows[k].dist = ServedDistance(k)
    /\ rows[k].norm = ToTerminus(RouteLength, ServedDistance(k))
    /\ rows[k].chain = LiveChain(Served(TickOf(k)), ServedDistance(k))
    /\ rows[k].closure = Closure(Gaps(k), k)

Shown ==
    /\ exceed \subseteq Nat \ {0}
    /\ median \in Nat

WInv ==
    /\ serving \in {"idle", "build", "scored", "refused", "shown"}
    /\ serving # "idle" => RequestTyped
    /\ serving = "idle" => rows = << >>
    /\ Shown
    /\ serving = "scored" \/ rows # << >> => 0 \in DOMAIN Target
    /\ DOMAIN rows = 1..Len(rows) /\ Len(rows) \in 0..SeqLen
    /\ \A k \in 1..Len(rows) : RowBuilt(k)
    /\ HorizonUnitFree

(* A row of a decided tick is that of the training set.                    *)
LEMMA RowAsTrained ==
    ASSUME WInv, NEW k \in 1..Len(rows), SpansDecided(k)
    PROVE  /\ TickOf(k) \in DOMAIN Target
           /\ Target[TickOf(k)] \in Nat
           /\ rows[k].dist = scale * Target[TickOf(k)]
           /\ rows[k].norm = ToTerminus(RouteLength, scale * Target[TickOf(k)])
           /\ rows[k].chain = Cut(Trained(k))
           /\ Trained(k)[1].gap \in Int
<1> USE WindowAssumption
<1>1. /\ RequestTyped /\ Len(rows) \in 0..SeqLen
      /\ RowBuilt(k) /\ k \in 1..SeqLen
  BY DEF WInv
<1>2. DOMAIN Target \subseteq Int /\ \A t \in DOMAIN Target : Target[t] \in Nat
  BY <1>1, TracksAreTyped DEF Target
<1>3. TickOf(k) \in DOMAIN Target
  BY <1>1 DEF RowBuilt, SpansDecided, Target
<1> DEFINE Seen == Recorded(TickOf(k))
           d == scale * Target[TickOf(k)]
<1>4. Served(TickOf(k)) = Seen /\ IsSight(Seen)
  BY <1>1, ServedIsRecorded
<1>5. ServedDistance(k) = d /\ d \in Nat
  <2>1. SampleTick(Target, TickOf(k), SampleTol) = TickOf(k)
    BY <1>2, <1>3, SampleOnTick
  <2> QED BY <1>1, <1>2, <1>3, <2>1 DEF ServedDistance, RequestTyped
<1>6. Trained(k) = TrainedChain(Seen, d) /\ Trained(k)[1] = GapRow(Seen, d)
  BY DEF Trained, TrainedChain
<1>7. rows[k].dist = d /\ rows[k].norm = ToTerminus(RouteLength, d)
  BY <1>1, <1>5 DEF RowBuilt
<1> HIDE DEF Seen, d
<1>8. rows[k].chain = Cut(Trained(k))
  BY <1>1, <1>4, <1>5, <1>6, ChainsAgree DEF RowBuilt
<1>9. Trained(k)[1].gap \in Int
  BY <1>4, <1>5, <1>6, GapRowTyped
<1> QED BY <1>2, <1>3, <1>7, <1>8, <1>9 DEF d

(* The first gap of a chain that is cut.                                   *)
LEMMA FirstCut ==
    ASSUME NEW chain
    PROVE  Cut(chain)[1].gap = IF chain[1].gap < NoLeader THEN chain[1].gap ELSE NoLeader
<1>1. 1..1 = {1}
  OBVIOUS
<1>2. Cut(chain)[1] = IF chain[1].gap < NoLeader THEN chain[1] ELSE NoLink
  BY <1>1 DEF Cut
<1> QED BY <1>2 DEF NoLink

(* The gaps close at the same rate where those too long are cut.           *)
LEMMA ClosureOfCut ==
    ASSUME NEW k \in Nat \ {0}, NEW f, NEW g,
           \A j \in 1..k : g[j] = IF f[j] < NoLeader THEN f[j] ELSE NoLeader
    PROVE  Closure(g, k) = Closure(f, k)
<1> USE WindowAssumption
<1>1. Lookback(k) \in 0..(k - 1)
  BY DEF Lookback
<1> DEFINE lb == Lookback(k)
<1>2. k - lb \in 1..k /\ k \in 1..k
  BY <1>1
<1>3. \A j \in 1..k : (g[j] < NoLeader <=> f[j] < NoLeader)
                       /\ (f[j] < NoLeader => g[j] = f[j])
  OBVIOUS
<1>4. /\ g[k - lb] < NoLeader <=> f[k - lb] < NoLeader
      /\ f[k - lb] < NoLeader => g[k - lb] = f[k - lb]
      /\ g[k] < NoLeader <=> f[k] < NoLeader
      /\ f[k] < NoLeader => g[k] = f[k]
  BY <1>2, <1>3
<1> QED BY <1>4 DEF Closure

(* The rows built are those of the training set.                           *)
LEMMA BuiltAsTrained == WInv => ServedAsTrained
<1> USE WindowAssumption
<1> SUFFICES ASSUME WInv, NEW k \in 1..Len(rows), \A j \in 1..k : SpansDecided(j)
             PROVE  /\ rows[k].dist = scale * Target[TickOf(k)]
                    /\ rows[k].chain = Cut(Trained(k))
                    /\ rows[k].closure = Closure([j \in 1..k |-> Trained(j)[1].gap], k)
                    /\ scale = 1 => rows[k].norm = ToTerminus(RouteLength, Target[TickOf(k)])
  BY DEF ServedAsTrained
<1>1. Len(rows) \in 0..SeqLen /\ SeqLen \in Nat /\ k \in Nat \ {0} /\ k \in 1..k
  BY DEF WInv
<1>2. \A j \in 1..k : rows[j].chain = Cut(Trained(j))
  <2> SUFFICES ASSUME NEW j \in 1..k PROVE rows[j].chain = Cut(Trained(j))
    OBVIOUS
  <2>1. j \in 1..Len(rows) /\ SpansDecided(j)
    BY <1>1
  <2> QED BY <2>1, RowAsTrained
<1>3. /\ Target[TickOf(k)] \in Nat
      /\ rows[k].dist = scale * Target[TickOf(k)]
      /\ rows[k].norm = ToTerminus(RouteLength, scale * Target[TickOf(k)])
  BY <1>1, RowAsTrained
<1> DEFINE f == [j \in 1..k |-> Trained(j)[1].gap]
<1>4. Closure(Gaps(k), k) = Closure(f, k)
  <2>1. \A j \in 1..k : Gaps(k)[j] = IF f[j] < NoLeader THEN f[j] ELSE NoLeader
    BY <1>2, FirstCut DEF Gaps
  <2> HIDE DEF f
  <2> QED BY <1>1, <2>1, ClosureOfCut
<1>5. rows[k].closure = Closure(Gaps(k), k)
  BY DEF WInv, RowBuilt
<1>6. scale = 1 => scale * Target[TickOf(k)] = Target[TickOf(k)]
  BY <1>3
<1> QED BY <1>1, <1>2, <1>3, <1>4, <1>5, <1>6

-----------------------------------------------------------------------------
(* A common factor of a quotient cancels.                                  *)
LEMMA ScaleCancels ==
    ASSUME NEW a \in Nat, NEW b \in Nat \ {0}, NEW s \in Nat \ {0}
    PROVE  (s * a) \div (s * b) = a \div b
<1> DEFINE q == a \div b
           r == a % b
<1>1. q \in Nat /\ r \in 0..(b - 1) /\ a = b * q + r
  OBVIOUS
<1> HIDE DEF q, r
<1>2. s * a = (s * b) * q + s * r
  <2>1. s * (b * q + r) = s * (b * q) + s * r
    BY <1>1
  <2>2. s * (b * q) = (s * b) * q
    BY <1>1
  <2> QED BY <1>1, <2>1, <2>2
<1>3. s * r \in Nat /\ s * b \in Nat \ {0} /\ s * r < s * b
  BY <1>1
<1> DEFINE c == s * b
           e == s * r
<1>4. s * a = c * q + e /\ c \in Nat \ {0} /\ e \in 0..(c - 1)
  BY <1>2, <1>3
<1> HIDE DEF c, e
<1>5. (c * q + e) \div c = q
  BY <1>1, <1>4
<1> QED BY <1>4, <1>5 DEF q, c

(* The steps that are drawn do not depend on the units of the bundle, as   *)
(* long as the bus is not slower than the floor.                           *)
LEMMA StepsUnitFree ==
    ASSUME NEW s \in Nat \ {0}, NEW d \in Nat, NEW length \in Nat,
           NEW speed \in Nat, speed >= FloorSpeed
    PROVE  UsefulSteps(s * d, s * length, s * speed) = UsefulSteps(d, length, speed)
<1> USE WindowAssumption
<1> DEFINE x == Largest(0, length - d)
<1>1. x \in Nat
  BY DEF Largest
<1>2. Largest(0, s * length - s * d) = s * x
  <2>1. CASE length >= d
    <3>1. s * length - s * d = s * (length - d)
      OBVIOUS
    <3>2. s * (length - d) \in Nat
      BY <2>1
    <3> QED BY <2>1, <3>1, <3>2 DEF Largest
  <2>2. CASE length < d
    <3>1. s * length < s * d
      BY <2>2
    <3> QED BY <2>2, <3>1 DEF Largest
  <2> QED BY <2>1, <2>2
<1>3. Largest(s * speed, FloorSpeed) = s * speed /\ Largest(speed, FloorSpeed) = speed
  <2>1. s * speed >= speed
    OBVIOUS
  <2>2. s * speed \in Nat
    OBVIOUS
  <2> QED BY <2>1, <2>2 DEF Largest
<1> HIDE DEF x
<1>4. (3 * (s * x)) \div (2 * (s * speed)) = (3 * x) \div (2 * speed)
  <2>1. 3 * (s * x) = s * (3 * x) /\ 2 * (s * speed) = s * (2 * speed)
    BY <1>1
  <2>2. 3 * x \in Nat /\ 2 * speed \in Nat \ {0}
    BY <1>1
  <2> QED BY <2>1, <2>2, ScaleCancels
<1> QED BY <1>2, <1>3, <1>4 DEF UsefulSteps, x

(* The alert is the first step of those drawn that reaches its threshold.  *)
LEMMA AlertIsFirst ==
    ASSUME NEW n \in Int, exceed \subseteq Nat \ {0}
    PROVE  /\ FirstAlert(n) # 0 <=> exceed \cap (1..n) # {}
           /\ FirstAlert(n) # 0 =>
                 FirstAlert(n) \in exceed /\ \A h \in exceed : FirstAlert(n) <= h
<1> DEFINE T == exceed \cap (1..n)
<1>1. CASE T = {}
  BY <1>1 DEF FirstAlert
<1>2. CASE T # {}
  <2>1. \E m \in T : \A k \in T : m <= k
    <3>1. T \subseteq Nat
      OBVIOUS
    <3> HIDE DEF T
    <3> QED BY <1>2, <3>1, LeastMember
  <2>2. Min(T) \in T /\ \A k \in T : Min(T) <= k
    <3> HIDE DEF T
    <3> QED BY <2>1 DEF Min
  <2>3. FirstAlert(n) = Min(T)
    BY <1>2 DEF FirstAlert
  <2>4. Min(T) \in exceed /\ Min(T) \in 1..n
    BY <2>2
  <2>5. \A h \in exceed : Min(T) <= h
    <3> SUFFICES ASSUME NEW h \in exceed PROVE Min(T) <= h
      OBVIOUS
    <3>1. CASE h \in T
      BY <2>2, <3>1
    <3>2. CASE h \notin T
      <4>1. h \in Nat /\ h > n
        BY <3>2
      <4> QED BY <2>4, <4>1
    <3> QED BY <3>1, <3>2
  <2> QED BY <1>2, <2>3, <2>4, <2>5
<1> QED BY <1>1, <1>2

-----------------------------------------------------------------------------
(* The recordings of a request do not change while its window is built.    *)
LEMMA SameRequest ==
    ASSUME UNCHANGED <<scale, track>>
    PROVE  /\ Target' = Target
           /\ RequestTyped' = RequestTyped
           /\ \A t : Served(t)' = Served(t)
           /\ \A k : ServedDistance(k)' = ServedDistance(k)
<1>1. Target' = Target
  BY DEF Target
<1>2. \A t : Served(t)' = Served(t)
  BY DEF Served
<1>3. \A k : ServedDistance(k)' = ServedDistance(k)
  BY <1>1 DEF ServedDistance
<1> QED BY <1>1, <1>2, <1>3 DEF RequestTyped

(* A row that was built rightly stays so while the request does.           *)
LEMMA RowsStay ==
    ASSUME UNCHANGED <<scale, track, rows>>
    PROVE  \A k : RowBuilt(k)' = RowBuilt(k)
<1>1. \A k : Gaps(k)' = Gaps(k)
  BY DEF Gaps
<1> QED BY <1>1, SameRequest DEF RowBuilt

(* A step that keeps the rows and shows no new horizon.                    *)
LEMMA KeepRows ==
    ASSUME WInv, UNCHANGED <<scale, track, rows>>,
           serving # "idle", serving' \in {"build", "scored", "refused", "shown"},
           Shown',
           serving' = "scored" => 0 \in DOMAIN Target,
           HorizonUnitFree'
    PROVE  WInv'
<1>1. \A k : RowBuilt(k)' = RowBuilt(k)
  BY RowsStay
<1>2. Target' = Target /\ RequestTyped' = RequestTyped
  BY SameRequest
<1> QED BY <1>1, <1>2 DEF WInv

(* The invariant holds before a forecast is asked for.                     *)
LEMMA WindowInitHolds == WindowInit => WInv
BY WindowAssumption DEF WindowInit, WInv, HorizonUnitFree, Shown

(* A forecast begins without rows.                                         *)
LEMMA ForecastHolds == WInv /\ Forecast => WInv'
<1> USE WindowAssumption
<1> SUFFICES ASSUME WInv, Forecast PROVE WInv'
  OBVIOUS
<1>1. serving' = "build" /\ rows' = << >> /\ RequestTyped'
  BY DEF WInv, Forecast, RequestTyped
<1> QED BY <1>1 DEF WInv, Forecast, HorizonUnitFree, Shown

(* A forecast that is refused shows nothing.                               *)
LEMMA RefusedHolds == WInv /\ (RefuseReference \/ RefuseTick \/ RefuseAlone) => WInv'
<1> SUFFICES ASSUME WInv, RefuseReference \/ RefuseTick \/ RefuseAlone PROVE WInv'
  OBVIOUS
<1>1. /\ UNCHANGED <<scale, track, rows, exceed, median>>
      /\ serving = "build" /\ serving' = "refused"
  BY DEF RefuseReference, RefuseTick, RefuseAlone, Refuse
<1>2. Shown' /\ HorizonUnitFree'
  BY <1>1 DEF WInv, Shown, HorizonUnitFree
<1> QED BY <1>1, <1>2, KeepRows

(* One more row is built.                                                  *)
LEMMA BuildHolds == WInv /\ BuildTick => WInv'
<1> USE WindowAssumption
<1> SUFFICES ASSUME WInv, BuildTick PROVE WInv'
  OBVIOUS
<1> DEFINE n == Len(rows) + 1
           row == Row(n, ServedDistance(n))
<1>1. /\ UNCHANGED <<serving, scale, track, reason, exceed, useful, median, alert>>
      /\ rows' = Append(rows, row)
      /\ serving = "build" /\ 0 \in DOMAIN Target
      /\ n \in 1..SeqLen
      /\ Near(Target, TickOf(n), SampleTol) # {}
  BY DEF BuildTick, AtReference, ServedDistance, WInv
<1>2. DOMAIN rows = 1..Len(rows) /\ Len(rows) \in Nat
  BY DEF WInv
<1> HIDE DEF row
<1>3. /\ DOMAIN rows' = 1..n /\ Len(rows') = n /\ rows'[n] = row
      /\ \A k \in 1..Len(rows) : rows'[k] = rows[k]
  BY <1>1, <1>2
<1>4. Target' = Target /\ RequestTyped' /\ Shown' /\ HorizonUnitFree'
  BY <1>1, SameRequest DEF WInv, Shown, HorizonUnitFree
<1>5. /\ row.dist = ServedDistance(n)
      /\ row.norm = ToTerminus(RouteLength, ServedDistance(n))
      /\ row.chain = LiveChain(Served(TickOf(n)), ServedDistance(n))
      /\ row.closure = Closure(Append(GapsSoFar, row.chain[1].gap), n)
  BY DEF row, Row
<1>6. ASSUME NEW k \in 1..n PROVE RowBuilt(k)'
  <2>0. /\ Target' = Target
        /\ Served(TickOf(k))' = Served(TickOf(k))
        /\ ServedDistance(k)' = ServedDistance(k)
    BY <1>1, SameRequest
  <2>1. CASE k # n
    <3>1. k \in 1..Len(rows)
      BY <1>2, <2>1
    <3>2. RowBuilt(k) /\ rows'[k] = rows[k]
      BY <1>3, <3>1 DEF WInv
    <3>3. \A j \in 1..k : rows'[j] = rows[j]
      BY <1>2, <1>3, <3>1
    <3>4. Gaps(k)' = Gaps(k)
      BY <3>3 DEF Gaps
    <3> QED BY <2>0, <3>2, <3>4 DEF RowBuilt
  <2>2. CASE k = n
    <3>1. Gaps(k)' = Append(GapsSoFar, row.chain[1].gap)
      <4> DEFINE A == Append(GapsSoFar, row.chain[1].gap)
      <4>1. GapsSoFar = [j \in 1..Len(rows) |-> rows[j].chain[1].gap]
        BY DEF GapsSoFar
      <4>2. DOMAIN A = 1..n /\ A[n] = row.chain[1].gap
            /\ \A j \in 1..Len(rows) : A[j] = rows[j].chain[1].gap
        BY <1>2, <4>1
      <4>3. A = [j \in 1..n |-> A[j]]
        BY <4>1, <4>2, SMTT(30)
      <4>4. \A j \in 1..n : A[j] = rows'[j].chain[1].gap
        BY <1>2, <1>3, <4>2
      <4> HIDE DEF A
      <4>5. A = [j \in 1..n |-> rows'[j].chain[1].gap]
        BY <4>3, <4>4
      <4> QED BY <2>2, <4>5 DEF Gaps, A
    <3> QED BY <1>1, <1>3, <1>5, <2>0, <2>2, <3>1 DEF RowBuilt
  <2> QED BY <2>1, <2>2
<1> QED BY <1>1, <1>3, <1>4, <1>6 DEF WInv

(* The model's output is within the typing the cut relies on.              *)
LEMMA PredictHolds == WInv /\ Predict => WInv'
<1> USE WindowAssumption
<1> SUFFICES ASSUME WInv, Predict PROVE WInv'
  OBVIOUS
<1>1. /\ UNCHANGED <<scale, track, rows>>
      /\ serving = "build" /\ serving' = "scored"
      /\ Len(rows) = SeqLen
  BY DEF Predict
<1>2. rows # << >>
  BY <1>1
<1>3. 0 \in DOMAIN Target
  BY <1>2 DEF WInv
<1>4. Shown' /\ HorizonUnitFree'
  BY <1>1 DEF Predict, Shown, HorizonUnitFree
<1> QED BY <1>1, <1>3, <1>4, KeepRows

(* The horizon that is drawn does not depend on the units.                 *)
LEMMA TruncateHolds == WInv /\ Truncate => WInv'
<1> USE WindowAssumption
<1> SUFFICES ASSUME WInv, Truncate PROVE WInv'
  OBVIOUS
<1>1. /\ UNCHANGED <<scale, track, rows, reason, exceed, median>>
      /\ serving = "scored" /\ serving' = "shown"
      /\ useful' = Smallest(UsefulSteps(scale * Target[0], scale * RouteLength,
                                        scale * median), EnvCap)
      /\ alert' = FirstAlert(useful')
  BY DEF Truncate, ModelLength
<1>2. Shown' /\ Shown /\ RequestTyped /\ Target' = Target
  BY <1>1, SameRequest DEF WInv, Shown
<1>3. Target[0] \in Nat
  BY <1>1, <1>2, TracksAreTyped DEF WInv, Target
<1>4. median >= FloorSpeed =>
          useful' = Smallest(UsefulSteps(Target[0], RouteLength, median), EnvCap)
  BY <1>1, <1>2, <1>3, StepsUnitFree DEF RequestTyped, Shown
<1>5. useful' \in Int
  <2>1. \A d \in Nat, l \in Nat, v \in Nat : UsefulSteps(d, l, v) \in Int
    <3> SUFFICES ASSUME NEW d \in Nat, NEW l \in Nat, NEW v \in Nat
                 PROVE  UsefulSteps(d, l, v) \in Int
      OBVIOUS
    <3>1. Largest(0, l - d) \in Nat /\ Largest(v, FloorSpeed) \in Nat \ {0}
      BY DEF Largest
    <3>2. (3 * Largest(0, l - d)) \div (2 * Largest(v, FloorSpeed)) \in Int
      BY <3>1
    <3> QED BY <3>2 DEF UsefulSteps, Largest, Smallest
  <2>2. scale * Target[0] \in Nat /\ scale * RouteLength \in Nat /\ scale * median \in Nat
    BY <1>2, <1>3 DEF RequestTyped, Shown
  <2> QED BY <1>1, <2>1, <2>2 DEF Smallest
<1>6. /\ alert' # 0 <=> exceed \cap (1..useful') # {}
      /\ alert' # 0 => alert' \in exceed /\ \A h \in exceed : alert' <= h
  BY <1>1, <1>2, <1>5, AlertIsFirst DEF Shown
<1>7. HorizonUnitFree'
  BY <1>1, <1>2, <1>4, <1>6 DEF HorizonUnitFree
<1> QED BY <1>1, <1>2, <1>7, KeepRows

(* A forecast that has been answered is forgotten.                         *)
LEMMA WindowDoneHolds == WInv /\ ForecastDone => WInv'
BY WindowAssumption DEF ForecastDone, WInv, HorizonUnitFree, Shown

(* A step of other computations leaves the window alone.                   *)
LEMMA WindowStutterHolds == WInv /\ UNCHANGED windowVars => WInv'
<1> SUFFICES ASSUME WInv, UNCHANGED windowVars PROVE WInv'
  OBVIOUS
<1>1. /\ UNCHANGED <<scale, track, rows>>
      /\ UNCHANGED <<serving, reason, exceed, useful, median, alert>>
  BY DEF windowVars
<1>2. \A k : RowBuilt(k)' = RowBuilt(k)
  BY <1>1, RowsStay
<1>3. Target' = Target /\ RequestTyped' = RequestTyped /\ Shown'
  BY <1>1, SameRequest DEF WInv, Shown
<1>4. HorizonUnitFree'
  BY <1>1, <1>3 DEF WInv, HorizonUnitFree
<1> QED BY <1>1, <1>2, <1>3, <1>4 DEF WInv

(* The rows built so far are what their ticks say, in every state.         *)
THEOREM WindowInvariant == WindowSpec => []WInv
<1>1. WindowInit => WInv
  BY WindowInitHolds
<1>2. WInv /\ [WindowNext]_windowVars => WInv'
  BY ForecastHolds, RefusedHolds, BuildHolds, PredictHolds, TruncateHolds, WindowDoneHolds,
     WindowStutterHolds DEF WindowNext
<1> QED BY <1>1, <1>2, PTL DEF WindowSpec

(* "the trainer and live builder must agree column-by-column": where the   *)
(* ticks so far are decided, the row served has the position, the gaps and *)
(* buses ahead up to a sentinel, and the rate of closure of the training   *)
(* row, in any units and however many buses there are; and its distance to *)
(* the terminus in the present units.                                      *)
THEOREM ServedRight == Spec => []ServedAsTrained
<1>1. WInv => ServedAsTrained
  BY BuiltAsTrained
<1> QED BY <1>1, WindowInvariant, PartsOfSpec, PTL

(* "the scale cancels": the horizon drawn for a bus at or above the floor  *)
(* of the speed is that of the unscaled route for every legacy scale; and  *)
(* the alert is the first step drawn that reaches its threshold            *)
(* (_useful_horizon_steps, _recompute_alert).                              *)
THEOREM HorizonRight == Spec => []HorizonUnitFree
<1>1. WInv => HorizonUnitFree
  BY DEF WInv
<1> QED BY <1>1, WindowInvariant, PartsOfSpec, PTL

-----------------------------------------------------------------------------
(***************************************************************************)
(* Whom the API scores and whom the training set takes examples of.        *)
(***************************************************************************)

(* Why a window was scored, or was refused.                                *)
VerdictInv ==
    /\ rows # << >> => AtReference
    /\ serving = "scored" =>
          /\ Len(rows) = SeqLen
          /\ \E k \in 1..SeqLen : rows[k].chain[1].gap < NoLeader
    /\ serving = "refused" =>
          \/ reason \in {"stale", "no sample"}
          \/ /\ 0 \in DOMAIN Target
             /\ ~InsideEdge(Target[0])
          \/ /\ Len(rows) < SeqLen
             /\ Near(Target, TickOf(Len(rows) + 1), SampleTol) = {}
          \/ /\ Len(rows) = SeqLen
             /\ \A k \in 1..SeqLen : rows[k].chain[1].gap >= NoLeader

(* Rounding moves no distance over an edge that is farther than half a stop*)
(* ahead, and none back over an edge it has reached.                       *)
LEMMA RoundedAtEdge ==
    ASSUME NEW d \in Nat, NEW m \in Int, OutOfRounding(m * StopSpacing, d)
    PROVE  Rounded(d) \in Int /\ (Rounded(d) >= m <=> d >= m * StopSpacing)
<1> USE WindowAssumption
<1> DEFINE s == StopSpacing
           q == d \div s
           r == d % s
<1>1. s \in Nat \ {0} /\ q \in Nat /\ r \in 0..(s - 1) /\ d = q * s + r
  OBVIOUS
<1>2. Rounded(d) \in {q, q + 1} /\ (2 * r < s => Rounded(d) = q)
  BY DEF Rounded
<1>3. d >= m * s \/ 2 * (m * s - d) > s
  BY DEF OutOfRounding
<1> HIDE DEF q, r, s
<1>4. \A a, b \in Int : a <= b => a * s <= b * s
  BY <1>1
<1>5. (q + 1) * s = q * s + s /\ q * s \in Int /\ m * s \in Int
  BY <1>1
<1>6. CASE d >= m * s
  <2>1. m <= q
    <3> SUFFICES ASSUME q + 1 <= m PROVE FALSE
      BY <1>1
    <3>1. (q + 1) * s <= m * s
      BY <1>1, <1>4
    <3> QED BY <1>1, <1>5, <1>6, <3>1
  <2> QED BY <1>1, <1>2, <1>6, <2>1 DEF s
<1>7. CASE d < m * s
  <2>1. q < m
    <3> SUFFICES ASSUME m <= q PROVE FALSE
      BY <1>1
    <3>1. m * s <= q * s
      BY <1>1, <1>4
    <3> QED BY <1>1, <1>5, <1>7, <3>1
  <2>2. CASE q + 1 < m
    BY <1>1, <1>2, <1>5, <1>7, <2>2 DEF s
  <2>3. CASE q + 1 = m
    <3>1. m * s = q * s + s
      BY <1>5, <2>3
    <3>2. 2 * r < s
      BY <1>1, <1>3, <1>5, <1>7, <3>1
    <3> QED BY <1>1, <1>2, <1>5, <1>7, <2>1, <3>2 DEF s
  <2> QED BY <1>1, <2>1, <2>2, <2>3
<1> QED BY <1>1, <1>5, <1>6, <1>7

(* So the band of stops is the band of distances, for a bus that is not    *)
(* within half a stop below one of its edges.                              *)
LEMMA BandOfDistances ==
    ASSUME NEW d \in Nat,
           OutOfRounding(EdgeExclude * StopSpacing, d),
           OutOfRounding((NumStops - EdgeExclude) * StopSpacing, d)
    PROVE  InsideEdge(d) <=> /\ EdgeExclude * StopSpacing <= d
                             /\ d < (NumStops - EdgeExclude) * StopSpacing
<1> USE WindowAssumption
<1> DEFINE e == EdgeExclude
           n == NumStops - EdgeExclude
<1>1. e \in Int /\ n \in Int
  OBVIOUS
<1> HIDE DEF e, n
<1>2. Rounded(d) \in Int /\ (Rounded(d) >= e <=> d >= e * StopSpacing)
  BY <1>1, RoundedAtEdge DEF e
<1>3. Rounded(d) >= n <=> d >= n * StopSpacing
  BY <1>1, RoundedAtEdge DEF n
<1>4. e * StopSpacing \in Int /\ n * StopSpacing \in Int
  BY <1>1
<1>5. InsideEdge(d) <=> Rounded(d) >= e /\ Rounded(d) < n
  BY DEF InsideEdge, e, n
<1>6. InsideEdge(d) <=> e * StopSpacing <= d /\ d < n * StopSpacing
  BY <1>1, <1>2, <1>3, <1>4, <1>5
<1> QED BY <1>6 DEF e, n

(* The verdict is that of the training set.                                *)
LEMMA VerdictAsTrained == WInv /\ VerdictInv => ScoredAsTrained
<1> USE WindowAssumption
<1> DEFINE accepted == /\ \A k \in 1..SeqLen : TickOf(k) \in DOMAIN Target
                       /\ EdgeExclude * StopSpacing <= Target[0]
                       /\ Target[0] < (NumStops - EdgeExclude) * StopSpacing
                       /\ \E k \in 1..SeqLen : Trained(k)[1].gap < NoLeader
<1> SUFFICES ASSUME WInv, VerdictInv
             PROVE  ScoredAsTrained
  OBVIOUS
<1>0. SUFFICES ASSUME serving \in {"scored", "refused"},
                      reason \notin {"stale", "no sample"},
                      AllSpansDecided,
                      OutOfRounding(EdgeExclude * StopSpacing, Target[0]),
                      OutOfRounding((NumStops - EdgeExclude) * StopSpacing, Target[0])
               PROVE  serving = "scored" <=> accepted
  BY DEF ScoredAsTrained
<1>1. RequestTyped /\ Len(rows) \in 0..SeqLen
  BY <1>0 DEF WInv
<1>2. DOMAIN Target \subseteq Int /\ \A t \in DOMAIN Target : Target[t] \in Nat
  BY <1>1, TracksAreTyped DEF Target
<1>3. \A k \in 1..Len(rows) :
         /\ TickOf(k) \in DOMAIN Target
         /\ rows[k].chain[1].gap < NoLeader <=> Trained(k)[1].gap < NoLeader
         /\ rows[k].chain[1].gap \in Int
  <2> SUFFICES ASSUME NEW k \in 1..Len(rows)
               PROVE  /\ TickOf(k) \in DOMAIN Target
                      /\ rows[k].chain[1].gap < NoLeader <=> Trained(k)[1].gap < NoLeader
                      /\ rows[k].chain[1].gap \in Int
    OBVIOUS
  <2>0. k \in 1..SeqLen
    BY <1>1
  <2>1. SpansDecided(k)
    BY <1>0, <2>0 DEF AllSpansDecided
  <2>2. TickOf(k) \in DOMAIN Target /\ rows[k].chain = Cut(Trained(k))
        /\ Trained(k)[1].gap \in Int
    BY <2>1, RowAsTrained
  <2>3. rows[k].chain[1].gap =
            IF Trained(k)[1].gap < NoLeader THEN Trained(k)[1].gap ELSE NoLeader
    BY <2>2, FirstCut
  <2> QED BY <2>2, <2>3
<1>4. 0 \in DOMAIN Target =>
         (InsideEdge(Target[0]) <=> /\ EdgeExclude * StopSpacing <= Target[0]
                                    /\ Target[0] < (NumStops - EdgeExclude) * StopSpacing)
  BY <1>0, <1>2, BandOfDistances
<1>6. CASE serving = "scored"
  <2>1. Len(rows) = SeqLen /\ rows # << >>
    BY <1>1, <1>6 DEF VerdictInv
  <2>2. 0 \in DOMAIN Target /\ InsideEdge(Target[0])
    BY <2>1 DEF VerdictInv, AtReference
  <2>3. \E k \in 1..SeqLen : rows[k].chain[1].gap < NoLeader
    BY <1>6 DEF VerdictInv
  <2>4. \E k \in 1..SeqLen : Trained(k)[1].gap < NoLeader
    BY <1>3, <2>1, <2>3
  <2>5. \A k \in 1..SeqLen : TickOf(k) \in DOMAIN Target
    BY <1>3, <2>1
  <2> QED BY <1>4, <1>6, <2>2, <2>4, <2>5
<1>7. CASE serving = "refused"
  <2>1. CASE 0 \in DOMAIN Target /\ ~InsideEdge(Target[0])
    <3>1. ~accepted
      BY <1>4, <2>1
    <3> QED BY <1>7, <3>1
  <2>2. CASE Len(rows) < SeqLen /\ Near(Target, TickOf(Len(rows) + 1), SampleTol) = {}
    <3>1. Len(rows) + 1 \in 1..SeqLen
      BY <1>1, <2>2
    <3>2. TickOf(Len(rows) + 1) \notin DOMAIN Target
      BY <1>2, <2>2, SampleOnTick
    <3>3. ~accepted
      BY <3>1, <3>2
    <3> QED BY <1>7, <3>3
  <2>3. CASE Len(rows) = SeqLen /\ \A k \in 1..SeqLen : rows[k].chain[1].gap >= NoLeader
    <3>1. \A k \in 1..SeqLen : ~(rows[k].chain[1].gap < NoLeader)
      BY <1>3, <2>3
    <3>2. \A k \in 1..SeqLen : ~(Trained(k)[1].gap < NoLeader)
      BY <1>3, <2>3, <3>1
    <3>3. ~accepted
      BY <3>2
    <3> QED BY <1>7, <3>3
  <2> QED BY <1>0, <1>7, <2>1, <2>2, <2>3 DEF VerdictInv
<1> QED BY <1>0, <1>6, <1>7

LEMMA VerdictInitHolds == WindowInit => VerdictInv
  BY DEF WindowInit, VerdictInv

LEMMA VerdictStepHolds == WInv /\ VerdictInv /\ [WindowNext]_windowVars => VerdictInv'
<1> USE WindowAssumption
<1> SUFFICES ASSUME WInv, VerdictInv, [WindowNext]_windowVars PROVE VerdictInv'
  OBVIOUS
<1>1. CASE Forecast
  BY <1>1 DEF Forecast, VerdictInv, WInv
<1>2. CASE RefuseReference
  <2>1. /\ serving' = "refused" /\ UNCHANGED <<track, rows>> /\ rows = << >>
        /\ \/ reason' \in {"stale", "no sample"}
           \/ 0 \in DOMAIN Target /\ ~InsideEdge(Target[0])
    BY <1>2 DEF RefuseReference, Refuse
  <2> QED BY <2>1 DEF VerdictInv, Target
<1>3. CASE BuildTick
  <2>1. serving' = "build" /\ UNCHANGED track /\ AtReference
    BY <1>3 DEF BuildTick
  <2> QED BY <2>1 DEF VerdictInv, AtReference, Target
<1>4. CASE RefuseTick
  <2>1. /\ serving' = "refused" /\ UNCHANGED <<track, rows>> /\ AtReference
        /\ Len(rows) < SeqLen /\ Near(Target, TickOf(Len(rows) + 1), SampleTol) = {}
    BY <1>4 DEF RefuseTick, Refuse
  <2> QED BY <2>1 DEF VerdictInv, AtReference, Target
<1>5. CASE RefuseAlone
  <2>1. /\ serving' = "refused" /\ UNCHANGED <<track, rows>>
        /\ Len(rows) = SeqLen /\ \A k \in 1..SeqLen : rows[k].chain[1].gap >= NoLeader
    BY <1>5 DEF RefuseAlone, Refuse
  <2> QED BY <2>1 DEF VerdictInv, AtReference, Target
<1>6. CASE Predict
  <2>1. /\ serving' = "scored" /\ UNCHANGED <<track, rows>>
        /\ Len(rows) = SeqLen /\ \E k \in 1..SeqLen : rows[k].chain[1].gap < NoLeader
    BY <1>6 DEF Predict
  <2> QED BY <2>1 DEF VerdictInv, AtReference, Target
<1>7. CASE Truncate
  <2>1. serving' = "shown" /\ UNCHANGED <<track, rows>>
    BY <1>7 DEF Truncate
  <2> QED BY <2>1 DEF VerdictInv, AtReference, Target
<1>8. CASE ForecastDone
  BY <1>8 DEF ForecastDone, VerdictInv
<1>9. CASE UNCHANGED windowVars
  BY <1>9 DEF windowVars, VerdictInv, AtReference, Target
<1> QED BY <1>1, <1>2, <1>3, <1>4, <1>5, <1>6, <1>7, <1>8, <1>9 DEF WindowNext

(* Why a window was scored or refused, in every state.                     *)
THEOREM VerdictInvariant == WindowSpec => []VerdictInv
<1>1. WInv /\ VerdictInv /\ [WindowNext]_windowVars => VerdictInv'
  BY VerdictStepHolds
<1> QED BY <1>1, VerdictInitHolds, WindowInvariant, PTL DEF WindowSpec

(* Where every tick is decided, the buses that build_bus_window scores are *)
(* those the training set takes examples of: every tick is recorded, the   *)
(* reference lies inside the edges and some tick has a leader. Only a bus  *)
(* within the half stop below an edge is not spoken of.                    *)
THEOREM ScoredRight == Spec => []ScoredAsTrained
<1>1. WInv /\ VerdictInv => ScoredAsTrained
  BY VerdictAsTrained
<1> QED BY <1>1, WindowInvariant, VerdictInvariant, PartsOfSpec, PTL

-----------------------------------------------------------------------------
(***************************************************************************)
(* The labels of the training set and the headways, for every recording,   *)
(* every history and horizon and any numbers of ticks to persist.          *)
(***************************************************************************)

(* Min and Max of a bounded set are its extreme members.                   *)
LEMMA MinIsLeast ==
    ASSUME NEW T, T \subseteq Nat, T # {}
    PROVE  Min(T) \in T /\ \A k \in T : Min(T) <= k
<1>1. \E m \in T : \A k \in T : m <= k
  BY LeastMember
<1> QED BY <1>1 DEF Min

(* Max returns the greatest member of a bounded non-empty set.             *)
LEMMA MaxIsGreatest ==
    ASSUME NEW bound \in Nat, NEW T, T \subseteq 0..bound, T # {}
    PROVE  Max(T) \in T /\ \A k \in T : k <= Max(T)
<1> DEFINE Rest == {bound - k : k \in T}
<1>1. Rest \subseteq Nat /\ Rest # {}
  <2>1. PICK t \in T : TRUE
    OBVIOUS
  <2>2. bound - t \in Rest
    BY <2>1
  <2>3. \A k \in T : bound - k \in Nat
    OBVIOUS
  <2> QED BY <2>2, <2>3
<1>2. PICK m \in Rest : \A k \in Rest : m <= k
  <2> HIDE DEF Rest
  <2> QED BY <1>1, LeastMember
<1>3. PICK g \in T : m = bound - g
  BY <1>2
<1>4. \A k \in T : g >= k
  <2> SUFFICES ASSUME NEW k \in T PROVE g >= k
    OBVIOUS
  <2>1. m <= bound - k
    BY <1>2
  <2> QED BY <1>3, <2>1
<1>5. Max(T) \in T /\ \A k \in T : Max(T) >= k
  BY <1>4 DEF Max
<1> QED BY <1>5

-----------------------------------------------------------------------------
(* An example at r is labelled h steps on.                                 *)
Labelable(r, h) ==
    /\ r + h <= GridTicks
    /\ Eligible(r)
    /\ ValidAll(r + 1, r + h)
    /\ ~grid[r + h].edge

Passed(r, h) == r < ref \/ (r = ref /\ (work = "walk" => h < step))

InSlice == work \in {"grid", "walk"} \/ (work = "kept" /\ grid # << >>)

LabelsAreRight ==
    \A x \in DOMAIN labels :
        /\ grid \in [1..GridTicks -> TickKinds]
        /\ x \in (History..GridTicks) \X (1..Horizon)
        /\ Labelable(x[1], x[2])
        /\ labels[x] = [label |-> grid[At(x)].bunched, persist |-> Debounced(At(x))]

LabelsAreAll ==
    InSlice =>
        \A r \in History..GridTicks, h \in 1..Horizon :
            Labelable(r, h) /\ Passed(r, h) => <<r, h>> \in DOMAIN labels

LabelsInv ==
    /\ work \in {"idle", "grid", "walk", "kept", "headway"}
    /\ work \in {"idle", "headway"} => labels = << >> /\ grid = << >>
    /\ work = "idle" => passage = NoPassage
    /\ InSlice => /\ grid \in [1..GridTicks -> TickKinds]
                  /\ ref \in Nat /\ ref >= History - 1
                  /\ passage = NoPassage
    /\ work = "walk" => /\ ref \in History..GridTicks
                        /\ Eligible(ref)
                        /\ step \in 1..(Horizon + 1)
                        /\ ref + step - 1 <= GridTicks
                        /\ ValidAll(ref + 1, ref + step - 1)
    /\ work = "kept" /\ grid # << >> => ref = GridTicks
    /\ LabelsAreRight
    /\ LabelsAreAll

(* A debounced label says that the gap held where the ticks are recorded;  *)
(* those of the history and of the horizon are.                            *)
LEMMA PersistIsHeld == LabelsInv => PersistMeansHeld
<1> USE LabelsAssumption
<1> SUFFICES ASSUME LabelsInv, NEW x \in DOMAIN labels, NEW n \in PersistCounts
             PROVE  LET trailing == {At(x)} \cup (At(x) - n + 1)..At(x)
                        recorded == \A k \in trailing : k \in DOMAIN grid /\ grid[k].valid
                    IN  /\ recorded =>
                              (labels[x].persist[n] <=> \A k \in trailing : grid[k].bunched)
                        /\ ~recorded => n > History + 1 /\ labels[x].persist[n] = labels[x].label
                        /\ \A y \in DOMAIN labels : At(y) = At(x) => labels[y] = labels[x]
  BY DEF PersistMeansHeld
<1> DEFINE k == At(x)
           low == k - n + 1
           trailing == {k} \cup low..k
           recorded == \A j \in trailing : j \in DOMAIN grid /\ grid[j].valid
<1>1. /\ grid \in [1..GridTicks -> TickKinds]
      /\ x[1] \in History..GridTicks /\ x[2] \in 1..Horizon
      /\ Labelable(x[1], x[2])
      /\ labels[x].label = grid[k].bunched
      /\ labels[x].persist[n] = Persist(n, k)
  BY DEF LabelsInv, LabelsAreRight, Debounced
<1>2. /\ k = x[1] + x[2] /\ k \in 1..GridTicks /\ k > x[1]
      /\ low \in Int /\ n \in Nat /\ DOMAIN grid = 1..GridTicks
  <2>1. /\ x[1] \in Nat /\ x[2] \in Nat \ {0} /\ x[1] + x[2] <= GridTicks
        /\ GridTicks \in Nat
    BY <1>1 DEF Labelable
  <2>2. k = x[1] + x[2] /\ n \in Nat
    BY DEF At
  <2>3. DOMAIN grid = 1..GridTicks
    BY <1>1
  <2> HIDE DEF k
  <2> QED BY <2>1, <2>2, <2>3
<1>3. grid[k].valid
  <2>1. ValidAll(x[1] + 1, x[1] + x[2])
    BY <1>1 DEF Labelable
  <2>2. x[1] \in Nat /\ x[2] \in Nat \ {0}
    BY <1>1
  <2>3. x[1] + x[2] \in (x[1] + 1)..(x[1] + x[2])
    BY <2>2
  <2> QED BY <1>2, <2>1, <2>3 DEF ValidAll
<1>4. \A y \in DOMAIN labels : At(y) = At(x) => labels[y] = labels[x]
  BY DEF LabelsInv, LabelsAreRight
<1>5. n <= History + 1 => recorded
  <2> SUFFICES ASSUME n <= History + 1, NEW j \in trailing
               PROVE  j \in DOMAIN grid /\ grid[j].valid
    OBVIOUS
  <2>1. CASE j = k
    BY <1>2, <1>3, <2>1
  <2>2. CASE j \in low..k
    <3>1. j \in Int /\ j >= x[1] - History + 1 /\ j <= x[1] + x[2] /\ j >= 1
      <4>1. x[1] \in Nat /\ x[2] \in Nat \ {0} /\ x[1] >= History
        BY <1>1
      <4> HIDE DEF k
      <4> QED BY SMTT(30), <1>2, <2>2, <4>1
    <3>2. j \in (x[1] - History + 1)..x[1] \/ j \in (x[1] + 1)..(x[1] + x[2])
      BY <1>1, <3>1
    <3>3. ValidAll(x[1] - History + 1, x[1]) /\ ValidAll(x[1] + 1, x[1] + x[2])
      BY <1>1 DEF Labelable, Eligible
    <3>4. grid[j].valid
      BY <3>2, <3>3 DEF ValidAll
    <3> QED BY <1>2, <2>2, <3>1, <3>4
  <2> QED BY <2>1, <2>2
<1> HIDE DEF k
<1>6. CASE n <= 1
  <2>1. trailing = {k}
    <3>1. low..k \subseteq {k}
      BY <1>2, <1>6
    <3> QED BY <3>1
  <2>2. recorded
    BY <1>2, <1>5, <1>6
  <2>3. Persist(n, k) = grid[k].bunched
    BY <1>6 DEF Persist
  <2> QED BY <1>1, <1>4, <2>1, <2>2, <2>3 DEF k
<1>7. CASE n > 1 /\ recorded
  <2>1. trailing = low..k /\ low \in trailing
    BY <1>2, <1>7
  <2>2. low >= 1 /\ ValidAll(low, k)
    BY <1>2, <1>7, <2>1 DEF ValidAll
  <2>3. ~(n <= 1 \/ low < 1 \/ ~ValidAll(low, k))
    BY <1>2, <1>7, <2>2
  <2>4. Persist(n, k) = (\A j \in low..k : grid[j].bunched)
    BY <2>3, Zenon DEF Persist
  <2> QED BY <1>1, <1>4, <1>7, <2>1, <2>4 DEF k
<1>8. CASE n > 1 /\ ~recorded
  <2>1. trailing = low..k
    BY <1>2, <1>8
  <2>2. low < 1 \/ ~ValidAll(low, k)
    <3> SUFFICES ASSUME ~(low < 1), ValidAll(low, k) PROVE FALSE
      OBVIOUS
    <3>1. \A j \in low..k : j \in 1..GridTicks /\ grid[j].valid
      BY <1>2 DEF ValidAll
    <3> QED BY <1>2, <1>8, <2>1, <3>1
  <2>3. Persist(n, k) = grid[k].bunched
    BY <2>2 DEF Persist
  <2>4. n > History + 1
    BY <1>2, <1>5, <1>8
  <2> QED BY <1>1, <1>4, <1>8, <2>3, <2>4 DEF k
<1> QED BY <1>2, <1>6, <1>7, <1>8

(* At the end of the slice every tick is labelled that can be.             *)
LEMMA LabelsAreComplete == LabelsInv => LabelledWhileRecorded
<1> USE LabelsAssumption
<1> SUFFICES ASSUME LabelsInv, work = "kept", grid # << >>,
                    NEW r \in History..GridTicks, NEW h \in 1..Horizon
             PROVE  <<r, h>> \in DOMAIN labels <=> Labelable(r, h)
  BY DEF LabelledWhileRecorded, Labelable
<1>1. InSlice /\ Passed(r, h)
  BY DEF LabelsInv, InSlice, Passed
<1> QED BY <1>1 DEF LabelsInv, LabelsAreRight, LabelsAreAll

-----------------------------------------------------------------------------
(* Before the first label of a slice there is none.                        *)
LEMMA NoLabelsAreRight ==
    ASSUME labels = << >>
    PROVE  LabelsAreRight
BY DEF LabelsAreRight

(* The invariant holds before a slice is loaded.                           *)
LEMMA LabelsInitHolds == LabelsInit => LabelsInv
<1> USE LabelsAssumption
<1> SUFFICES ASSUME LabelsInit PROVE LabelsInv
  OBVIOUS
<1> USE DEF LabelsInit
<1>1. LabelsAreRight
  BY NoLabelsAreRight
<1>2. LabelsAreAll /\ ~InSlice
  BY DEF LabelsAreAll, InSlice
<1> QED BY <1>1, <1>2 DEF LabelsInv

(* A slice is loaded: no example has been taken.                           *)
LEMMA LoadHolds == LabelsInv /\ LoadSlice => LabelsInv'
<1> USE LabelsAssumption
<1> SUFFICES ASSUME LabelsInv, LoadSlice PROVE LabelsInv'
  OBVIOUS
<1>1. /\ work' = "grid" /\ grid' \in [1..GridTicks -> TickKinds] /\ ref' = History - 1
      /\ labels' = << >> /\ passage' = NoPassage
  BY DEF LoadSlice, LabelsInv
<1>2. LabelsAreRight'
  BY <1>1 DEF LabelsAreRight
<1>3. LabelsAreAll'
  BY <1>1 DEF LabelsAreAll, Passed
<1> QED BY <1>1, <1>2, <1>3 DEF LabelsInv, InSlice

(* The predicates of the grid do not change with the grid.                 *)
LEMMA SameGrid ==
    ASSUME grid' = grid
    PROVE  /\ \A i, j : ValidAll(i, j)' = ValidAll(i, j)
           /\ \A r : Eligible(r)' = Eligible(r)
           /\ \A r, h : Labelable(r, h)' = Labelable(r, h)
           /\ \A k : Debounced(k)' = Debounced(k)
<1>1. \A i, j : ValidAll(i, j)' = ValidAll(i, j)
  BY DEF ValidAll
<1>2. \A r : Eligible(r)' = Eligible(r)
  BY <1>1 DEF Eligible
<1>3. \A r, h : Labelable(r, h)' = Labelable(r, h)
  BY <1>1, <1>2 DEF Labelable
<1>4. \A k : Debounced(k)' = Debounced(k)
  BY <1>1 DEF Debounced, Persist
<1> QED BY <1>1, <1>2, <1>3, <1>4

(* The labels of an unchanged slice stay right.                            *)
LEMMA SameLabels ==
    ASSUME UNCHANGED <<grid, labels>>, LabelsAreRight
    PROVE  LabelsAreRight'
BY SameGrid DEF LabelsAreRight

(* The next reference tick: an example is taken or there is none.          *)
LEMMA ReferenceHolds == LabelsInv /\ NextReference => LabelsInv'
<1> USE LabelsAssumption
<1> SUFFICES ASSUME LabelsInv, NextReference PROVE LabelsInv'
  OBVIOUS
<1>1. /\ work = "grid" /\ ref \in Nat /\ ref >= History - 1 /\ ref < GridTicks
      /\ grid \in [1..GridTicks -> TickKinds] /\ passage = NoPassage
  BY DEF NextReference, LabelsInv, InSlice
<1>2. /\ ref' = ref + 1 /\ step' = 1
      /\ work' = IF Eligible(ref + 1) THEN "walk" ELSE "grid"
      /\ UNCHANGED <<grid, labels, leader, asked, passage>>
  BY DEF NextReference
<1>3. LabelsAreRight'
  BY <1>2, SameLabels DEF LabelsInv
<1>4. LabelsAreAll'
  <2> SUFFICES ASSUME NEW r \in History..GridTicks, NEW h \in 1..Horizon,
                      Labelable(r, h), Passed(r, h)'
               PROVE  <<r, h>> \in DOMAIN labels
    BY <1>2, SameGrid DEF LabelsAreAll
  <2>1. CASE r = ref + 1
    <3>1. Eligible(ref + 1)
      BY <2>1 DEF Labelable
    <3> QED BY <1>1, <1>2, <2>1, <3>1 DEF Passed
  <2>2. CASE r # ref + 1
    <3>1. Passed(r, h) /\ InSlice
      BY <1>1, <1>2, <2>2 DEF Passed, InSlice
    <3> QED BY <3>1 DEF LabelsInv, LabelsAreAll
  <2> QED BY <2>1, <2>2
<1>5. ValidAll(ref + 2, ref + 1)
  BY <1>1 DEF ValidAll
<1>6. work' = "walk" => /\ ref' \in History..GridTicks /\ Eligible(ref') /\ step' \in 1..(Horizon + 1)
                        /\ ref' + step' - 1 <= GridTicks
                        /\ ValidAll(ref' + 1, ref' + step' - 1)
  BY <1>1, <1>2, <1>5
<1>7. work' = "walk" => Eligible(ref)' /\ ValidAll(ref + 1, ref + step - 1)'
  BY <1>2, <1>6 DEF Eligible, ValidAll
<1>8. InSlice' => grid' \in [1..GridTicks -> TickKinds] /\ ref' \in Nat
                  /\ ref' >= History - 1 /\ passage' = NoPassage
  BY <1>1, <1>2
<1>9. work' \in {"grid", "walk"}
  BY <1>2
<1> QED BY <1>3, <1>4, <1>6, <1>7, <1>8, <1>9 DEF LabelsInv

(* One step of the walk of an example.                                     *)
LEMMA StepHolds == LabelsInv /\ LabelStep => LabelsInv'
<1> USE LabelsAssumption
<1> SUFFICES ASSUME LabelsInv, LabelStep PROVE LabelsInv'
  OBVIOUS
<1> DEFINE k == ref + step
<1>1. /\ work = "walk" /\ InSlice /\ ref \in History..GridTicks /\ Eligible(ref)
      /\ step \in 1..(Horizon + 1)
      /\ k - 1 <= GridTicks /\ ValidAll(ref + 1, k - 1)
      /\ grid \in [1..GridTicks -> TickKinds] /\ passage = NoPassage
      /\ LabelsAreRight /\ LabelsAreAll
  BY DEF LabelStep, LabelsInv, InSlice
<1>2. UNCHANGED <<grid, ref, leader, asked, passage>>
  BY DEF LabelStep
<1>3. CASE step > Horizon \/ k > GridTicks \/ ~grid[k].valid
  <2>1. work' = "grid" /\ UNCHANGED <<step, labels>>
    BY <1>3 DEF LabelStep
  <2>2. LabelsAreRight'
    BY <1>1, <1>2, <2>1, SameLabels
  <2>3. LabelsAreAll'
    <3> SUFFICES ASSUME NEW r \in History..GridTicks, NEW h \in 1..Horizon,
                        Labelable(r, h), Passed(r, h)'
                 PROVE  <<r, h>> \in DOMAIN labels
      BY <1>2, <2>1, SameGrid DEF LabelsAreAll
    <3>1. CASE Passed(r, h)
      BY <1>1, <3>1 DEF LabelsAreAll
    <3>2. CASE ~Passed(r, h)
      <4>1. r = ref /\ h >= step
        BY <1>1, <1>2, <2>1, <3>2 DEF Passed
      <4>2. k <= GridTicks /\ step <= Horizon /\ k \in (r + 1)..(r + h)
        BY <1>1, <4>1 DEF Labelable
      <4>3. grid[k].valid
        BY <4>2 DEF Labelable, ValidAll
      <4> QED BY <1>1, <1>3, <4>2, <4>3
    <3> QED BY <3>1, <3>2
  <2> QED BY <1>1, <1>2, <2>1, <2>2, <2>3 DEF LabelsInv, InSlice
<1>4. CASE ~(step > Horizon \/ k > GridTicks \/ ~grid[k].valid)
  <2>1. /\ work' = "walk" /\ step' = step + 1
        /\ IF grid[k].edge THEN labels' = labels ELSE Put(step)
    BY <1>1, <1>4 DEF LabelStep
  <2>2. k \in 1..GridTicks /\ step \in 1..Horizon /\ step \in Nat
    BY <1>1, <1>4
  <2>3. ValidAll(ref + 1, k)
    <3> SUFFICES ASSUME NEW j \in (ref + 1)..k PROVE grid[j].valid
      BY DEF ValidAll
    <3>1. j = k \/ j \in (ref + 1)..(k - 1)
      BY <1>1, <2>2
    <3> QED BY <1>1, <1>4, <3>1 DEF ValidAll
  <2>4. ~grid[k].edge <=> Labelable(ref, step)
    BY <1>1, <2>2, <2>3 DEF Labelable
  <2>5. /\ \A x \in DOMAIN labels' :
             \/ x \in DOMAIN labels /\ labels'[x] = labels[x]
             \/ /\ x = <<ref, step>> /\ ~grid[k].edge
                /\ labels'[x] = [label |-> grid[k].bunched, persist |-> Debounced(k)]
        /\ DOMAIN labels \subseteq DOMAIN labels'
        /\ ~grid[k].edge => <<ref, step>> \in DOMAIN labels'
    BY <2>1 DEF Put
  <2>6. LabelsAreRight'
    <3> SUFFICES ASSUME NEW x \in DOMAIN labels'
                 PROVE  /\ x \in (History..GridTicks) \X (1..Horizon)
                        /\ Labelable(x[1], x[2])
                        /\ labels'[x] = [label |-> grid[At(x)].bunched, persist |-> Debounced(At(x))]
      BY <1>1, <1>2, SameGrid DEF LabelsAreRight
    <3>1. CASE x \in DOMAIN labels /\ labels'[x] = labels[x]
      BY <1>1, <3>1 DEF LabelsAreRight
    <3>2. CASE x = <<ref, step>> /\ ~grid[k].edge
               /\ labels'[x] = [label |-> grid[k].bunched, persist |-> Debounced(k)]
      <4>1. At(x) = k
        BY <3>2 DEF At
      <4> QED BY <1>1, <2>2, <2>4, <3>2, <4>1
    <3> QED BY <2>5, <3>1, <3>2
  <2>7. LabelsAreAll'
    <3> SUFFICES ASSUME NEW r \in History..GridTicks, NEW h \in 1..Horizon,
                        Labelable(r, h), Passed(r, h)'
                 PROVE  <<r, h>> \in DOMAIN labels'
      BY <1>2, SameGrid DEF LabelsAreAll
    <3>1. CASE Passed(r, h)
      BY <1>1, <2>5, <3>1 DEF LabelsAreAll
    <3>2. CASE ~Passed(r, h)
      <4>1. r = ref /\ h = step
        BY <1>1, <1>2, <2>1, <2>2, <3>2 DEF Passed
      <4> QED BY <2>4, <2>5, <4>1
    <3> QED BY <3>1, <3>2
  <2>8. Eligible(ref)' /\ ValidAll(ref + 1, ref + step - 1)'
    <3>1. ref' + step' - 1 = k
      BY <1>1, <1>2, <2>1, <2>2
    <3>2. ValidAll(ref' + 1, ref' + step' - 1) /\ Eligible(ref')
      BY <1>1, <1>2, <2>3, <3>1
    <3> QED BY <1>2, <3>2 DEF Eligible, ValidAll
  <2>9. step' \in 1..(Horizon + 1) /\ ref' + step' - 1 <= GridTicks /\ work' = "walk"
        /\ ref' \in History..GridTicks /\ ref' \in Nat /\ ref' >= History - 1
        /\ grid' \in [1..GridTicks -> TickKinds] /\ passage' = NoPassage
    BY <1>1, <1>2, <2>1, <2>2
  <2> QED BY <2>6, <2>7, <2>8, <2>9 DEF LabelsInv
<1> QED BY <1>3, <1>4

(* A slice ends when all of its reference ticks have been looked at.       *)
LEMMA EndsHolds == LabelsInv /\ SliceEnds => LabelsInv'
<1> USE LabelsAssumption
<1> SUFFICES ASSUME LabelsInv, SliceEnds PROVE LabelsInv'
  OBVIOUS
<1>1. /\ work = "grid" /\ work' = "kept" /\ ref = GridTicks
      /\ UNCHANGED <<grid, ref, step, labels, leader, asked, passage>>
  BY DEF SliceEnds
<1>2. LabelsAreRight'
  BY <1>1, SameLabels DEF LabelsInv
<1>3. LabelsAreAll'
  BY <1>1, SameGrid DEF LabelsInv, LabelsAreAll, InSlice, Passed
<1> QED BY <1>1, <1>2, <1>3 DEF LabelsInv, InSlice

(* A question for a headway touches no label.                              *)
LEMMA AskHolds == LabelsInv /\ (AskHeadway \/ HeadwayAt) => LabelsInv'
<1> USE LabelsAssumption
<1> SUFFICES ASSUME LabelsInv, AskHeadway \/ HeadwayAt PROVE LabelsInv'
  OBVIOUS
<1>1. /\ work' \in {"headway", "kept"} /\ labels' = << >> /\ grid' = << >>
  BY DEF AskHeadway, HeadwayAt, LabelsInv
<1>2. LabelsAreRight' /\ ~InSlice'
  BY <1>1 DEF LabelsAreRight, InSlice
<1> QED BY <1>1, <1>2 DEF LabelsInv, LabelsAreAll

(* Answers that have been kept are dropped.                                *)
LEMMA LabelsDoneHolds == LabelsInv /\ LabelsDone => LabelsInv'
<1> USE LabelsAssumption
<1> SUFFICES ASSUME LabelsInv, LabelsDone PROVE LabelsInv'
  OBVIOUS
<1>1. LabelsAreRight' /\ ~InSlice'
  BY DEF LabelsDone, LabelsAreRight, InSlice
<1> QED BY <1>1 DEF LabelsDone, LabelsInv, LabelsAreAll

(* Steps of other computations touch no label.                             *)
LEMMA LabelsStutterHolds == LabelsInv /\ UNCHANGED labelVars => LabelsInv'
<1> SUFFICES ASSUME LabelsInv, UNCHANGED labelVars PROVE LabelsInv'
  OBVIOUS
<1> USE DEF labelVars
<1>1. LabelsAreRight'
  BY SameLabels DEF LabelsInv
<1>2. InSlice' = InSlice /\ \A r, h : Passed(r, h)' = Passed(r, h)
  BY DEF InSlice, Passed
<1>3. LabelsAreAll'
  BY <1>2, SameGrid DEF LabelsInv, LabelsAreAll
<1>4. Eligible(ref)' = Eligible(ref)
      /\ ValidAll(ref + 1, ref + step - 1)' = ValidAll(ref + 1, ref + step - 1)
  BY DEF Eligible, ValidAll
<1> QED BY <1>1, <1>2, <1>3, <1>4 DEF LabelsInv

(* The labels are right and complete in every state of the export.         *)
THEOREM LabelsInvariant == LabelsSpec => []LabelsInv
<1>1. LabelsInit => LabelsInv
  BY LabelsInitHolds
<1>2. LabelsInv /\ [LabelsNext]_labelVars => LabelsInv'
  BY LoadHolds, ReferenceHolds, StepHolds, EndsHolds, AskHolds, LabelsDoneHolds, LabelsStutterHolds
  DEF LabelsNext
<1> QED BY <1>1, <1>2, PTL DEF LabelsSpec

(* A debounced label means that the gap held for the trailing persist_ticks*)
(* ticks where those are recorded, and is the plain label where they are   *)
(* not, which only more ticks than the history and one can cause: for every*)
(* recording, history, horizon and number of ticks, 0 and 1 included       *)
(* (_persist); and the examples of a bus agree on the ticks they share.    *)
THEOREM PersistCorrect == Spec => []PersistMeansHeld
<1>1. LabelsInv => PersistMeansHeld
  BY PersistIsHeld
<1> QED BY <1>1, LabelsInvariant, PartsOfSpec, PTL

(* Every tick an example reaches without a break is labelled, also beyond  *)
(* an excluded edge, and no other.                                         *)
THEOREM LabelsComplete == Spec => []LabelledWhileRecorded
<1>1. LabelsInv => LabelledWhileRecorded
  BY LabelsAreComplete
<1> QED BY <1>1, LabelsInvariant, PartsOfSpec, PTL

-----------------------------------------------------------------------------
(* The recording of a leader that is ahead of the place asked about.       *)
Asked ==
    /\ leader \in [1..GridTicks -> -1..Reach]
    /\ asked \in [dist : 0..Reach, tick : 1..GridTicks]
    /\ leader[asked.tick] > asked.dist

(* The running maximum is reached at a tick so far and exceeded at none.   *)
LEMMA CumMaxIsReached ==
    ASSUME Asked, NEW k \in TrackTicks
    PROVE  /\ CumMax(k) \in Nat
           /\ \A j \in TrackTicks : j <= k => leader[j] <= CumMax(k)
           /\ \E j \in TrackTicks : j <= k /\ leader[j] = CumMax(k)
<1> USE LabelsAssumption
<1> DEFINE T == {leader[j] : j \in {i \in TrackTicks : i <= k}}
<1>1. \A j \in TrackTicks : j \in 1..GridTicks /\ leader[j] \in 0..Reach
  BY DEF TrackTicks, Asked
<1>2. T \subseteq 0..Reach /\ leader[k] \in T
  BY <1>1
<1>3. Max(T) \in T /\ \A x \in T : x <= Max(T)
  <2> HIDE DEF T
  <2> QED BY <1>2, MaxIsGreatest
<1>4. CumMax(k) = Max(T)
  BY DEF CumMax
<1>5. \A j \in TrackTicks : j <= k => leader[j] \in T
  OBVIOUS
<1>6. CumMax(k) \in Nat /\ CumMax(k) \in T
  <2>1. CumMax(k) \in T
    BY <1>3, <1>4, Zenon
  <2>2. \A x \in T : x \in Nat
    BY <1>2
  <2> HIDE DEF T
  <2> QED BY <2>1, <2>2
<1>7. \E j \in TrackTicks : j <= k /\ leader[j] = CumMax(k)
  BY <1>6
<1> HIDE DEF T
<1> QED BY <1>3, <1>4, <1>5, <1>6, <1>7

(* The tick found is the first at which the leader has got so far.         *)
LEMMA ReachedIsFirst ==
    ASSUME Asked
    PROVE  LET i == Reached(asked.dist)
           IN  /\ i \in TrackTicks /\ i <= asked.tick
               /\ CumMax(i) >= asked.dist
               /\ leader[i] = CumMax(i)
               /\ \A j \in TrackTicks : j < i => CumMax(j) < asked.dist /\ leader[j] < asked.dist
<1> USE LabelsAssumption
<1> DEFINE d == asked.dist
           S == {k \in TrackTicks : CumMax(k) >= d}
<1>1. d \in Nat /\ asked.tick \in TrackTicks /\ leader[asked.tick] > d
      /\ asked.tick \in Nat /\ leader[asked.tick] \in Nat
      /\ TrackTicks \subseteq Nat /\ \A j \in TrackTicks : leader[j] \in Nat
  BY DEF Asked, TrackTicks
<1>2. \A k \in TrackTicks : CumMax(k) \in Nat
  BY CumMaxIsReached
<1>3. CumMax(asked.tick) > d
  <2>1. asked.tick <= asked.tick
    BY <1>1
  <2>2. leader[asked.tick] <= CumMax(asked.tick)
    BY <1>1, <2>1, CumMaxIsReached
  <2>3. CumMax(asked.tick) \in Nat
    BY <1>1, <1>2
  <2> HIDE DEF d
  <2> QED BY <1>1, <2>2, <2>3
<1>4. asked.tick \in S /\ S \subseteq Nat
  <2>1. CumMax(asked.tick) \in Nat
    BY <1>1, <1>2
  <2>2. CumMax(asked.tick) >= d
    BY <1>1, <1>3, <2>1
  <2> QED BY <1>1, <2>2
<1> HIDE DEF d
<1>5. PICK m \in S : \A k \in S : m <= k
  <2> HIDE DEF S
  <2> QED BY <1>4, LeastMember
<1>6. m \in TrackTicks /\ CumMax(m) >= d /\ \A j \in TrackTicks : j < m => CumMax(j) < d
  <2> SUFFICES ASSUME NEW j \in TrackTicks, j < m PROVE CumMax(j) < d
    BY <1>5
  <2>1. j \notin S
    BY <1>1, <1>5
  <2> QED BY <1>1, <1>2, <2>1
<1> DEFINE i == Reached(d)
<1>7. i \in TrackTicks /\ CumMax(i) >= d /\ \A j \in TrackTicks : j < i => CumMax(j) < d
  BY <1>6 DEF Reached
<1> HIDE DEF i
<1>8. i <= asked.tick
  <2>1. i \in Nat /\ CumMax(asked.tick) \in Nat
    BY <1>1, <1>2, <1>7
  <2>2. ~(asked.tick < i)
    BY <1>1, <1>3, <1>7, <2>1
  <2> QED BY <1>1, <2>1, <2>2
<1>9. \A j \in TrackTicks : j < i => leader[j] < d
  <2> SUFFICES ASSUME NEW j \in TrackTicks, j < i PROVE leader[j] < d
    OBVIOUS
  <2>1. leader[j] <= CumMax(j) /\ CumMax(j) < d
    BY <1>1, <1>7, CumMaxIsReached
  <2> QED BY <1>1, <1>2, <2>1
<1>10. leader[i] = CumMax(i)
  <2>1. PICK j \in TrackTicks : j <= i /\ leader[j] = CumMax(i)
    BY <1>7, CumMaxIsReached
  <2>2. ~(leader[j] < d)
    BY <1>1, <1>2, <1>7, <2>1
  <2>3. j = i
    BY <1>1, <1>7, <1>9, <2>1, <2>2
  <2> QED BY <2>1, <2>3
<1> QED BY <1>7, <1>8, <1>9, <1>10 DEF d, i

(* What HeadwayPositive says of a passage time.                            *)
Positive(t) ==
    /\ t.num < asked.tick * t.den
    /\ \A k \in TrackTicks :
          /\ k * t.den < t.num => leader[k] < asked.dist
          /\ k * t.den = t.num => leader[k] >= asked.dist
    /\ \E k \in TrackTicks :
          /\ t.num <= k * t.den
          /\ leader[k] >= asked.dist
          /\ \A j \in TrackTicks : j < k => j * t.den <= t.num

(* A fraction of the way from p to i, not the whole of it if f < rise.     *)
LEMMA Interpolated ==
    ASSUME NEW p \in Nat, NEW i \in Nat, p < i, NEW rise \in Nat \ {0}, NEW f \in 1..rise,
           NEW num, num = p * rise + f * (i - p)
    PROVE  /\ num \in Nat
           /\ p * rise < num /\ num <= i * rise
           /\ f < rise => num < i * rise
<1> DEFINE w == i - p
<1>1. w \in Nat \ {0} /\ i = p + w
  OBVIOUS
<1>2. i * rise = p * rise + w * rise
  BY <1>1
<1>3. f * w \in Nat /\ f * w >= 1
  BY <1>1
<1>4. f * w <= w * rise
  <2>1. w * rise = f * w + (rise - f) * w
    BY <1>1
  <2>2. (rise - f) * w \in Nat
    BY <1>1
  <2>3. w * rise \in Nat
    BY <1>1
  <2> QED BY <1>3, <2>1, <2>2, <2>3
<1>5. f < rise => f * w < w * rise
  <2> SUFFICES ASSUME f < rise PROVE f * w < w * rise
    OBVIOUS
  <2>1. w * rise = f * w + (rise - f) * w
    BY <1>1
  <2>2. (rise - f) * w \in Nat /\ (rise - f) * w >= 1
    BY <1>1
  <2>3. w * rise \in Nat
    BY <1>1
  <2> QED BY <1>3, <2>1, <2>2, <2>3
<1>6. p * rise \in Nat /\ w * rise \in Nat
  BY <1>1
<1>7. num = p * rise + f * w
  OBVIOUS
<1> HIDE DEF w
<1> QED BY <1>2, <1>3, <1>4, <1>5, <1>6, <1>7

(* Products with the same positive factor are ordered as what they multiply*)
LEMMA Ordered ==
    ASSUME NEW a \in Nat, NEW b \in Nat, NEW r \in Nat \ {0}
    PROVE  /\ a <= b => a * r <= b * r
           /\ a < b => a * r < b * r
           /\ a * r < b * r => a < b
           /\ a * r \in Nat
<1>1. a <= b => a * r <= b * r
  OBVIOUS
<1>2. a < b => a * r < b * r
  OBVIOUS
<1>3. a * r < b * r => a < b
  <2>1. b <= a => b * r <= a * r
    OBVIOUS
  <2>2. a * r \in Nat /\ b * r \in Nat
    OBVIOUS
  <2> QED BY <2>1, <2>2
<1> QED BY <1>1, <1>2, <1>3

(* A passage time that is found is when the leader first got to the place. *)
LEMMA PassageIsPositive ==
    ASSUME Asked, TimeAtDistance(asked.dist) # NoPassage
    PROVE  Positive(TimeAtDistance(asked.dist))
<1> USE LabelsAssumption
<1> DEFINE d == asked.dist
           i == Reached(d)
           before == {j \in TrackTicks : j < i}
           t == TimeAtDistance(d)
<1>1. /\ i \in TrackTicks /\ i <= asked.tick
      /\ CumMax(i) >= d
      /\ leader[i] = CumMax(i)
      /\ \A j \in TrackTicks : j < i => CumMax(j) < d /\ leader[j] < d
  BY ReachedIsFirst
<1>2. /\ d \in Nat /\ asked.tick \in Nat /\ leader[asked.tick] > d
      /\ TrackTicks \subseteq 0..GridTicks /\ i \in Nat
      /\ \A j \in TrackTicks : leader[j] \in Nat
  BY <1>1 DEF Asked, TrackTicks
<1>3. \A k \in TrackTicks : CumMax(k) \in Nat
  BY CumMaxIsReached
<1>4. ~(d < CumMax(Min(TrackTicks)))
  BY DEF TimeAtDistance
<1>5. CASE before = {}
  <2>1. t = [num |-> i, den |-> 1]
    BY <1>5 DEF TimeAtDistance
  <2>2. Min(TrackTicks) = i
    <3>0. TrackTicks \subseteq Nat /\ TrackTicks # {}
      BY <1>1, <1>2
    <3>1. Min(TrackTicks) \in TrackTicks /\ \A k \in TrackTicks : Min(TrackTicks) <= k
      BY <3>0, MinIsLeast
    <3>2. Min(TrackTicks) <= i /\ Min(TrackTicks) \notin before
      BY <1>1, <1>5, <3>1
    <3>3. ~(Min(TrackTicks) < i)
      BY <3>1, <3>2
    <3>4. Min(TrackTicks) \in Nat /\ i \in Nat
      BY <1>2, <3>0, <3>1
    <3> HIDE DEF i
    <3> QED BY <3>2, <3>3, <3>4
  <2>3. leader[i] = d
    BY <1>1, <1>2, <1>3, <1>4, <2>2
  <2>4. i < asked.tick
    BY <1>1, <1>2, <2>3
  <2>5. \A j \in TrackTicks : j \in Nat /\ ~(j < i)
    BY <1>2, <1>5
  <2> HIDE DEF i, d, t
  <2> QED BY <1>1, <1>2, <2>1, <2>3, <2>4, <2>5 DEF Positive, d, t
<1>6. CASE before # {}
  <2> DEFINE p == Max(before)
             rise == CumMax(i) - CumMax(p)
             f == d - CumMax(p)
  <2>1. p \in before /\ \A j \in before : j <= p
    <3>1. before \subseteq 0..GridTicks
      BY <1>2
    <3> HIDE DEF before
    <3> QED BY <1>6, <3>1, MaxIsGreatest
  <2>2. p \in TrackTicks /\ p < i /\ p \in Nat /\ CumMax(p) < d
    <3> HIDE DEF p
    <3>1. p \in TrackTicks /\ p < i
      BY <2>1
    <3> HIDE DEF i, before
    <3> QED BY <1>1, <1>2, <3>1
  <2>3. rise \in Nat \ {0} /\ f \in 1..rise
    BY <1>1, <1>2, <1>3, <2>2
  <2>4. t = [num |-> p * rise + f * (i - p), den |-> rise]
    <3>1. ~(rise <= 0)
      BY <2>3
    <3> QED BY <1>6, <3>1 DEF TimeAtDistance
  <2>5. \A j \in TrackTicks : j < i => j <= p
    BY <2>1
  <2>6. f = rise \/ (f < rise /\ leader[i] > d)
    BY <1>1, <1>2, <1>3, <2>2, <2>3
  <2>7. f = rise => leader[i] = d
    BY <1>1, <1>2, <1>3, <2>2
  <2> HIDE DEF i, d, p, rise, f, before, t
  <2> DEFINE num == p * rise + f * (i - p)
  <2>8. /\ num \in Nat
        /\ p * rise < num /\ num <= i * rise
        /\ f < rise => num < i * rise
    BY <1>2, <2>2, <2>3, Interpolated
  <2>9. t.num = num /\ t.den = rise
    BY <2>4
  <2> HIDE DEF num
  <2>10. num < asked.tick * rise
    <3>1. CASE f < rise
      <4>1. i * rise <= asked.tick * rise /\ i * rise \in Nat /\ asked.tick * rise \in Nat
        BY <1>1, <1>2, <2>3, Ordered
      <4> QED BY <2>8, <3>1, <4>1
    <3>2. CASE f = rise
      <4>1. i < asked.tick
        BY <1>1, <1>2, <2>7, <3>2
      <4>2. i * rise < asked.tick * rise /\ i * rise \in Nat /\ asked.tick * rise \in Nat
        BY <1>2, <2>3, <4>1, Ordered
      <4> QED BY <2>8, <4>2
    <3> QED BY <2>3, <3>1, <3>2
  <2>11. ASSUME NEW k \in TrackTicks
         PROVE  /\ k * rise < num => leader[k] < d
                /\ k * rise = num => leader[k] >= d
    <3>0. k \in Nat /\ k * rise \in Nat /\ i * rise \in Nat /\ p * rise \in Nat
      BY <1>2, <2>2, <2>3, Ordered
    <3>1. k * rise < num => k < i
      <4>1. k * rise < num => k * rise < i * rise
        BY <2>8, <3>0
      <4> QED BY <1>2, <2>3, <3>0, <4>1, Ordered
    <3>2. k * rise = num => p < k
      <4>1. k * rise = num => p * rise < k * rise
        BY <2>8
      <4> QED BY <2>2, <2>3, <3>0, <4>1, Ordered
    <3>3. k * rise = num => k = i
      <4>1. k * rise = num => ~(i < k)
        <5>1. i < k => i * rise < k * rise
          BY <1>2, <2>3, <3>0, Ordered
        <5> QED BY <2>8, <3>0, <5>1
      <4>2. p < k => ~(k < i)
        BY <2>2, <2>5, <3>0
      <4> QED BY <1>2, <3>0, <3>2, <4>1, <4>2
    <3>4. leader[i] >= d
      BY <1>1
    <3> QED BY <1>1, <3>1, <3>3, <3>4
  <2>12. \A j \in TrackTicks : j < i => j * rise <= num
    <3> SUFFICES ASSUME NEW j \in TrackTicks, j < i PROVE j * rise <= num
      OBVIOUS
    <3>1. j \in Nat /\ j <= p
      BY <1>2, <2>5
    <3>2. j * rise <= p * rise /\ j * rise \in Nat /\ p * rise \in Nat
      BY <2>2, <2>3, <3>1, Ordered
    <3> QED BY <2>8, <3>2
  <2>13. i \in TrackTicks /\ num <= i * rise /\ leader[i] >= d
    BY <1>1, <2>8
  <2> QED BY <2>9, <2>10, <2>11, <2>12, <2>13 DEF Positive, d, t
<1> QED BY <1>5, <1>6

(* A passage time that is held was found for the recording and the place.  *)
HeadwayInv ==
    /\ work \in {"idle", "grid", "walk"} => passage = NoPassage
    /\ work = "headway" => Asked
    /\ work = "kept" /\ passage # NoPassage =>
          Asked /\ passage = TimeAtDistance(asked.dist)

(* The invariant implies the property.                                     *)
LEMMA HeadwayIsPositive == HeadwayInv => HeadwayPositive
<1> SUFFICES ASSUME HeadwayInv, work = "kept", passage # NoPassage
             PROVE  Positive(passage)
  BY DEF HeadwayPositive, Positive
<1>1. Asked /\ passage = TimeAtDistance(asked.dist)
  BY DEF HeadwayInv
<1> QED BY <1>1, PassageIsPositive

(* No question has been asked at the start.                                *)
LEMMA HeadwayInitHolds == LabelsInit => HeadwayInv
BY DEF LabelsInit, HeadwayInv

(* The question and the passage found for it stay together.                *)
LEMMA HeadwayStepHolds == HeadwayInv /\ [LabelsNext]_labelVars => HeadwayInv'
<1> SUFFICES ASSUME HeadwayInv, [LabelsNext]_labelVars PROVE HeadwayInv'
  OBVIOUS
<1>1. CASE LoadSlice
  BY <1>1 DEF LoadSlice, HeadwayInv
<1>2. CASE NextReference
  BY <1>2 DEF NextReference, HeadwayInv
<1>3. CASE LabelStep
  BY <1>3 DEF LabelStep, HeadwayInv
<1>4. CASE SliceEnds
  BY <1>4 DEF SliceEnds, HeadwayInv
<1>5. CASE AskHeadway
  BY <1>5 DEF AskHeadway, HeadwayInv, Asked
<1>6. CASE HeadwayAt
  <2>1. Asked' /\ TimeAtDistance(asked.dist)' = TimeAtDistance(asked.dist)
    <3>1. leader' = leader /\ asked' = asked /\ Asked
      BY <1>6 DEF HeadwayAt, HeadwayInv
    <3>2. TrackTicks' = TrackTicks
      BY <3>1 DEF TrackTicks
    <3>3. \A k : CumMax(k)' = CumMax(k)
      BY <3>1, <3>2, Zenon DEF CumMax
    <3>4. \A d : Reached(d)' = Reached(d)
      BY <3>2, <3>3, Zenon DEF Reached
    <3>5. \A d : TimeAtDistance(d)' = TimeAtDistance(d)
      BY <3>2, <3>3, <3>4, Zenon DEF TimeAtDistance
    <3> QED BY <3>1, <3>5 DEF Asked
  <2> QED BY <1>6, <2>1 DEF HeadwayAt, HeadwayInv
<1>7. CASE LabelsDone
  BY <1>7 DEF LabelsDone, HeadwayInv
<1>8. CASE UNCHANGED labelVars
  <2>1. leader' = leader /\ asked' = asked /\ work' = work /\ passage' = passage
    BY <1>8 DEF labelVars
  <2>2. TrackTicks' = TrackTicks
    BY <2>1 DEF TrackTicks
  <2>3. \A k : CumMax(k)' = CumMax(k)
    BY <2>1, <2>2, Zenon DEF CumMax
  <2>4. \A d : Reached(d)' = Reached(d)
    BY <2>2, <2>3, Zenon DEF Reached
  <2>5. \A d : TimeAtDistance(d)' = TimeAtDistance(d)
    BY <2>2, <2>3, <2>4, Zenon DEF TimeAtDistance
  <2> QED BY <2>1, <2>5 DEF HeadwayInv, Asked
<1> QED BY <1>1, <1>2, <1>3, <1>4, <1>5, <1>6, <1>7, <1>8 DEF LabelsNext

(* However the projection of the leader wobbles, and whatever ticks are    *)
(* missing, a headway is positive and taken from the leader's first passage*)
(* (_passage_track, _time_at_distance, _headway_at).                       *)
THEOREM HeadwaysPositive == Spec => []HeadwayPositive
<1>1. LabelsInit => HeadwayInv
  BY HeadwayInitHolds
<1>2. HeadwayInv /\ [LabelsNext]_labelVars => HeadwayInv'
  BY HeadwayStepHolds
<1>3. HeadwayInv => HeadwayPositive
  BY HeadwayIsPositive
<1> QED BY <1>1, <1>2, <1>3, PartsOfSpec, PTL DEF LabelsSpec

-----------------------------------------------------------------------------
(***************************************************************************)
(* Bunching by distance: the events of a sweep over any recordings of any  *)
(* number of buses, for any thresholds with Enter <= Exit. What the sweep  *)
(* keeps of a pair is the first tick within Enter of the stretch that its  *)
(* last tick belongs to.                                                   *)
(***************************************************************************)

(* An episode from t to l, by the ticks C within Exit and N within Enter.  *)
Opens(C, N, t) == t \in N /\ \A u \in N : u < t => ~(u..t \subseteq C)

Lasting(C, N, t, l) ==
    /\ Opens(C, N, t)
    /\ t <= l /\ t..l \subseteq C
    /\ l + 1 \notin C

(* Every tick of a set of ticks lies in a stretch of it.                   *)
LEMMA StretchBegins ==
  ASSUME NEW C, C \subseteq Nat, NEW t \in C
  PROVE  \E s \in C : s <= t /\ s..t \subseteq C /\ s - 1 \notin C
<1> DEFINE T == {s \in Nat : s <= t /\ s..t \subseteq C}
<1>1. t \in T
  OBVIOUS
<1>2. PICK s \in T : \A k \in T : s <= k
  <2>1. T \subseteq Nat /\ T # {}
    BY <1>1
  <2> HIDE DEF T
  <2> QED BY <2>1, LeastMember
<1>3. s \in Nat /\ s <= t /\ s..t \subseteq C
  BY <1>2
<1>4. s \in C
  BY <1>3
<1>5. ASSUME s - 1 \in C PROVE FALSE
  <2>1. s - 1 \in Nat /\ s - 1 <= t
    BY <1>3, <1>5
  <2>2. (s - 1)..t \subseteq C
    BY <1>3, <1>5, <2>1
  <2>3. s - 1 \in T
    BY <2>1, <2>2
  <2> QED BY <1>2, <1>3, <2>3
<1> QED BY <1>3, <1>4, <1>5

(* The episodes of a pair, told without its stretches.                     *)
LEMMA EpisodesAreLasting ==
  ASSUME NEW p, close[p] \subseteq Nat, near[p] \subseteq close[p]
  PROVE  Episodes(p) = {x \in Nat \X Nat : Lasting(close[p], near[p], x[1], x[2])}
<1> DEFINE C == close[p]
           N == near[p]
<1>0. C \subseteq Nat /\ N \subseteq C
  OBVIOUS
<1>1. ASSUME NEW x \in Episodes(p)
      PROVE  x \in Nat \X Nat /\ Lasting(C, N, x[1], x[2])
  <2>1. PICK e \in Stretches(C) \X N :
           /\ x = <<e[2], e[1][2]>>
           /\ e[2] \in e[1][1]..e[1][2]
           /\ \A u \in N : u \in e[1][1]..e[1][2] => e[2] <= u
    BY <1>1 DEF Episodes
  <2>2. PICK s \in C, l \in C :
           /\ e[1] = <<s, l>> /\ s <= l /\ s..l \subseteq C /\ s - 1 \notin C /\ l + 1 \notin C
    BY DEF Stretches
  <2>3. PICK t \in N : e[2] = t
    OBVIOUS
  <2>4. /\ x = <<t, l>> /\ t \in s..l
        /\ \A u \in N : u \in s..l => t <= u
    BY <2>1, <2>2, <2>3
  <2> HIDE DEF C, N
  <2>5. s \in Nat /\ l \in Nat /\ t \in Nat
    BY <1>0
  <2>6. t <= l /\ t..l \subseteq C
    BY <2>2, <2>4, <2>5
  <2>7. ASSUME NEW u \in N, u < t, u..t \subseteq C PROVE FALSE
    <3>1. u \in Nat
      BY <1>0
    <3>2. ~(u < s)
      <4>1. u < s => s - 1 \in u..t
        BY <2>4, <2>5, <3>1
      <4> QED BY <2>2, <2>7, <4>1
    <3>3. u \in s..l
      BY <2>4, <2>5, <2>7, <3>1, <3>2
    <3> QED BY <2>4, <2>5, <2>7, <3>1, <3>3
  <2>8. Lasting(C, N, t, l)
    BY <2>2, <2>6, <2>7 DEF Lasting, Opens
  <2> QED BY <2>4, <2>5, <2>8
<1>2. ASSUME NEW t \in Nat, NEW l \in Nat, Lasting(C, N, t, l)
      PROVE  <<t, l>> \in Episodes(p)
  <2> HIDE DEF C, N
  <2>1. /\ t \in N /\ t <= l /\ t..l \subseteq C /\ l + 1 \notin C
        /\ \A u \in N : u < t => ~(u..t \subseteq C)
    BY <1>2 DEF Lasting, Opens
  <2>2. PICK s \in C : s <= t /\ s..t \subseteq C /\ s - 1 \notin C
    BY <1>0, <2>1, StretchBegins
  <2>3. s \in Nat
    BY <1>0
  <2>4. l \in C /\ s <= l /\ s..l \subseteq C
    BY <2>1, <2>2, <2>3
  <2>5. ASSUME NEW u \in N, u \in s..l PROVE t <= u
    <3>1. u \in Nat
      BY <1>0
    <3>2. u < t => u..t \subseteq C
      BY <2>2, <2>3, <2>5, <3>1
    <3> QED BY <2>1, <3>1, <3>2
  <2>6. <<s, l>> \in Stretches(C)
    BY <2>1, <2>2, <2>4 DEF Stretches
  <2> DEFINE e == <<<<s, l>>, t>>
  <2>7. /\ e \in Stretches(C) \X N
        /\ e[2] \in e[1][1]..e[1][2]
        /\ \A u \in N : u \in e[1][1]..e[1][2] => e[2] <= u
    BY <2>1, <2>2, <2>3, <2>5, <2>6
  <2>8. <<t, l>> = <<e[2], e[1][2]>>
    OBVIOUS
  <2> HIDE DEF e
  <2> QED BY <2>7, <2>8 DEF Episodes, C, N
<1> QED BY <1>1, <1>2


(* The events of a pair, and those that it should have by tick k.          *)
EventsOf(E, p) == {<<e.start, e.last>> : e \in {x \in E : x.pair = p}}

Ended(p, k) ==
    {x \in Nat \X Nat : /\ Lasting(close[p], near[p], x[1], x[2])
                        /\ x[2] - x[1] >= MinDuration
                        /\ x[2] < k}

(* The sweep after tick k.                                                 *)
TicksKept(k) ==
    /\ close \in [BusPairs -> SUBSET (0..k)]
    /\ near \in [BusPairs -> SUBSET (0..k)]
    /\ \A p \in BusPairs : near[p] \subseteq close[p]

OpenRight(k) ==
    /\ DOMAIN openRuns \subseteq BusPairs
    /\ \A p \in BusPairs :
          IF p \in DOMAIN openRuns
          THEN /\ openRuns[p].last = k
               /\ Opens(close[p], near[p], openRuns[p].start)
               /\ openRuns[p].start..k \subseteq close[p]
          ELSE \A u \in near[p] : ~(u..k \subseteq close[p])

SweptTo(k) ==
    /\ TicksKept(k)
    /\ OpenRight(k)
    /\ \A p \in BusPairs : EventsOf(events, p) = Ended(p, k)

SweepInv ==
    /\ sweep \in {"idle", "on", "shown"}
    /\ tick \in Nat
    /\ sweep = "idle" => /\ openRuns = << >> /\ events = {}
                         /\ close = NoTicks /\ near = NoTicks
    /\ sweep = "on" => SweptTo(tick)
    /\ sweep = "shown" => /\ TicksKept(tick)
                          /\ openRuns = << >>
                          /\ \A p \in BusPairs : EventsOf(events, p) = Ended(p, tick + 1)

(* Flushing adds the run of each pair that is flushed, if it lasted.       *)
LEMMA FlushAdds ==
  ASSUME NEW Q, NEW p
  PROVE  EventsOf(events \cup Flushed(Q), p) =
            EventsOf(events, p) \cup
            {<<openRuns[q].start, openRuns[q].last>> :
                q \in {x \in Q : /\ x = p
                                 /\ openRuns[x].last - openRuns[x].start >= MinDuration}}
<1> DEFINE last == {x \in Q : openRuns[x].last - openRuns[x].start >= MinDuration}
           event(q) == [pair |-> q, start |-> openRuns[q].start, last |-> openRuns[q].last]
<1>1. Flushed(Q) = {event(q) : q \in last}
  BY DEF Flushed
<1>2. \A q : event(q).pair = q /\ event(q).start = openRuns[q].start
             /\ event(q).last = openRuns[q].last
  OBVIOUS
<1> HIDE DEF event
<1>3. EventsOf(Flushed(Q), p) = {<<openRuns[q].start, openRuns[q].last>> :
                                    q \in {x \in last : x = p}}
  BY <1>1, <1>2 DEF EventsOf
<1>4. EventsOf(events \cup Flushed(Q), p) = EventsOf(events, p) \cup EventsOf(Flushed(Q), p)
  BY DEF EventsOf
<1> QED BY <1>3, <1>4

(* A gap within a threshold is one of the distances below it.              *)
LEMMA GapsAreWhole ==
  ASSUME NEW spots \in [Buses -> {Before, After} \cup Distances], NEW p \in Consecutive(spots),
         NEW n \in Nat
  PROVE  Gap(spots, p) \in 1..(n - 1) <=> 0 < Gap(spots, p) /\ Gap(spots, p) < n
<1>1. spots[p[1]] \in Nat /\ spots[p[2]] \in Nat
  BY SweepAssumption DEF Consecutive, Active
<1> QED BY <1>1 DEF Gap

(* One more tick, whatever the buses did.                                  *)
LEMMA SweepStep ==
  ASSUME NEW t \in Nat, NEW spots \in [Buses -> {Before, After} \cup Distances],
         SweptTo(t - 1), Swept(spots, t)
  PROVE  SweptTo(t)'
<1> DEFINE within == {p \in BusPairs : p \in Consecutive(spots) /\ Gap(spots, p) \in 1..(Exit - 1)}
           tight == {p \in BusPairs : p \in Consecutive(spots) /\ Gap(spots, p) \in 1..(Enter - 1)}
<1>1. /\ openRuns' = OpenAfter(spots, t)
      /\ events' = events \cup Flushed(DOMAIN openRuns \ PairsNow(spots))
      /\ close' = [p \in BusPairs |-> IF p \in within THEN close[p] \cup {t} ELSE close[p]]
      /\ near' = [p \in BusPairs |-> IF p \in tight THEN near[p] \cup {t} ELSE near[p]]
  BY DEF Swept
<1>2. Enter \in Nat /\ Exit \in Nat /\ Enter <= Exit
  BY SweepAssumption
<1>3. \A p \in Consecutive(spots) :
         /\ Gap(spots, p) \in 1..(Exit - 1) <=> 0 < Gap(spots, p) /\ Gap(spots, p) < Exit
         /\ Gap(spots, p) \in 1..(Enter - 1) <=> 0 < Gap(spots, p) /\ Gap(spots, p) < Enter
  BY <1>2, GapsAreWhole
<1>4. tight \subseteq within
  BY <1>2
<1>5. \A p \in BusPairs :
         p \in PairsNow(spots) <=> IF p \in DOMAIN openRuns THEN p \in within ELSE p \in tight
  <2>1. Consecutive(spots) \subseteq BusPairs
    BY DEF Consecutive
  <2> QED BY <1>3, <2>1 DEF PairsNow, Limit
<1>6. PairsNow(spots) \subseteq BusPairs
  BY DEF PairsNow, Consecutive
<1> HIDE DEF within, tight
<1>7. /\ close \in [BusPairs -> SUBSET (0..(t - 1))] /\ near \in [BusPairs -> SUBSET (0..(t - 1))]
      /\ \A p \in BusPairs : near[p] \subseteq close[p]
      /\ DOMAIN openRuns \subseteq BusPairs
  BY DEF SweptTo, TicksKept, OpenRight
<1>8. TicksKept(t)'
  BY <1>1, <1>4, <1>7 DEF TicksKept
<1>9. ASSUME NEW p \in BusPairs
      PROVE  /\ IF p \in DOMAIN openRuns'
                THEN /\ openRuns'[p].last = t
                     /\ Opens(close'[p], near'[p], openRuns'[p].start)
                     /\ openRuns'[p].start..t \subseteq close'[p]
                ELSE \A u \in near'[p] : ~(u..t \subseteq close'[p])
             /\ EventsOf(events', p) = Ended(p, t)'
  <2> DEFINE C == close[p]
             N == near[p]
             s == openRuns[p].start
  <2>1. C \subseteq 0..(t - 1) /\ N \subseteq C /\ t \notin C /\ t \notin N
    BY <1>7
  <2>2. /\ close'[p] = IF p \in within THEN C \cup {t} ELSE C
        /\ near'[p] = IF p \in tight THEN N \cup {t} ELSE N
    BY <1>1, <1>7
  <2>3. /\ p \in DOMAIN openRuns' <=> p \in PairsNow(spots)
        /\ p \in PairsNow(spots) => openRuns'[p] = Run(p, t)
    BY <1>1 DEF OpenAfter
  <2>4. p \in DOMAIN openRuns =>
           openRuns[p].last = t - 1 /\ Opens(C, N, s) /\ s..(t - 1) \subseteq C
    BY DEF SweptTo, OpenRight
  <2>5. p \notin DOMAIN openRuns => \A u \in N : ~(u..(t - 1) \subseteq C)
    BY DEF SweptTo, OpenRight
  <2>6. EventsOf(events, p) = Ended(p, t - 1)
    BY DEF SweptTo
  <2>7. \A x, y \in Nat : x < t =>
           (Lasting(close'[p], near'[p], x, y) /\ y < t <=>
               \/ Lasting(C, N, x, y) /\ y < t - 1
               \/ Lasting(C, N, x, y) /\ y = t - 1 /\ p \notin within)
    <3>1. ASSUME NEW x \in Nat, NEW y \in Nat, x < t
          PROVE  Lasting(close'[p], near'[p], x, y) /\ y < t <=>
                    \/ Lasting(C, N, x, y) /\ y < t - 1
                    \/ Lasting(C, N, x, y) /\ y = t - 1 /\ p \notin within
      <4>1. Opens(close'[p], near'[p], x) <=> Opens(C, N, x)
        <5> HIDE DEF C, N
        <5> QED BY <2>1, <2>2, <3>1 DEF Opens
      <4>2. y < t => (x..y \subseteq close'[p] <=> x..y \subseteq C)
        BY <2>2, <3>1
      <4>3. y < t - 1 => (y + 1 \in close'[p] <=> y + 1 \in C)
        BY <2>2
      <4>4. y = t - 1 => y + 1 \notin C /\ (y + 1 \in close'[p] <=> p \in within)
        BY <2>1, <2>2
      <4> HIDE DEF C, N
      <4> QED BY <4>1, <4>2, <4>3, <4>4 DEF Lasting
    <3> QED BY <3>1
  <2>8. \A x, y \in Nat : Lasting(close'[p], near'[p], x, y) /\ y < t => x < t
    BY DEF Lasting
  <2>9. ASSUME NEW x \in Nat
        PROVE  Lasting(C, N, x, t - 1) <=> p \in DOMAIN openRuns /\ x = s
    <3> HIDE DEF C, N
    <3>1. t - 1 \in Int /\ (t - 1) + 1 = t
      OBVIOUS
    <3>2. ASSUME Lasting(C, N, x, t - 1) PROVE p \in DOMAIN openRuns /\ x = s
      <4>1. x \in N /\ x..(t - 1) \subseteq C /\ \A u \in N : u < x => ~(u..x \subseteq C)
        BY <3>2 DEF Lasting, Opens
      <4>2. p \in DOMAIN openRuns
        BY <2>5, <4>1 DEF C, N
      <4>3. s \in N /\ s..(t - 1) \subseteq C /\ \A u \in N : u < s => ~(u..s \subseteq C)
        BY <2>4, <4>2 DEF Opens
      <4>4. s \in Nat /\ x <= t - 1 /\ s <= t - 1
        <5>1. \A u \in N : u \in Nat /\ u <= t - 1
          BY <2>1
        <5> QED BY <4>1, <4>3, <5>1
      <4>5. x..s \subseteq x..(t - 1) /\ s..x \subseteq s..(t - 1)
        BY <4>4
      <4> HIDE DEF s
      <4>6. ~(x < s) /\ ~(s < x)
        BY <4>1, <4>3, <4>5
      <4> QED BY <4>2, <4>4, <4>6
    <3>3. ASSUME p \in DOMAIN openRuns, x = s PROVE Lasting(C, N, x, t - 1)
      <4>1. Opens(C, N, x) /\ x..(t - 1) \subseteq C
        BY <2>4, <3>3
      <4>2. x <= t - 1
        BY <2>1, <4>1 DEF Opens
      <4> QED BY <2>1, <3>1, <4>1, <4>2 DEF Lasting
    <3> QED BY <3>2, <3>3
  <2>10. IF p \in DOMAIN openRuns'
         THEN /\ openRuns'[p].last = t
              /\ Opens(close'[p], near'[p], openRuns'[p].start)
              /\ openRuns'[p].start..t \subseteq close'[p]
         ELSE \A u \in near'[p] : ~(u..t \subseteq close'[p])
    <3>1. CASE p \in DOMAIN openRuns /\ p \in within
      <4>1. openRuns'[p] = [start |-> s, last |-> t] /\ p \in DOMAIN openRuns'
        BY <1>5, <2>3, <3>1 DEF Run
      <4>2. s \in N /\ s..(t - 1) \subseteq C /\ \A u \in N : u < s => ~(u..s \subseteq C)
        BY <2>4, <3>1 DEF Opens
      <4> HIDE DEF C, N, s
      <4>3. s \in Nat /\ s <= t - 1
        BY <2>1, <4>2
      <4>4. s..t \subseteq close'[p]
        BY <2>2, <3>1, <4>2, <4>3
      <4>5. Opens(close'[p], near'[p], s)
        <5>1. \A u \in near'[p] : u < s => u \in N /\ (u..s \subseteq close'[p] => u..s \subseteq C)
          BY <2>1, <2>2, <4>3
        <5> QED BY <2>2, <4>2, <5>1 DEF Opens
      <4> QED BY <4>1, <4>4, <4>5
    <3>2. CASE p \in DOMAIN openRuns /\ p \notin within
      <4>1. p \notin DOMAIN openRuns' /\ near'[p] \subseteq C /\ close'[p] = C
        BY <1>4, <1>5, <2>1, <2>2, <2>3, <3>2
      <4>2. \A u \in C : u \in Nat /\ u < t
        BY <2>1
      <4>3. \A u \in C : t \in u..t
        BY <4>2
      <4> QED BY <2>1, <4>1, <4>3
    <3>3. CASE p \notin DOMAIN openRuns /\ p \in tight
      <4>1. /\ openRuns'[p] = [start |-> t, last |-> t] /\ p \in DOMAIN openRuns'
            /\ p \in within
        BY <1>4, <1>5, <2>3, <3>3 DEF Run
      <4>2. t..t \subseteq close'[p] /\ t \in near'[p]
        BY <2>2, <3>3, <4>1
      <4> HIDE DEF C, N
      <4>3. ASSUME NEW u \in near'[p], u < t, u..t \subseteq close'[p] PROVE FALSE
        <5>1. u \in N /\ u \in Nat
          BY <2>1, <2>2, <4>3
        <5>2. u..(t - 1) \subseteq C
          BY <2>2, <4>3, <5>1
        <5> QED BY <2>5, <3>3, <5>1, <5>2 DEF C, N
      <4>4. Opens(close'[p], near'[p], t)
        BY <4>2, <4>3 DEF Opens
      <4> QED BY <4>1, <4>2, <4>4
    <3>4. CASE p \notin DOMAIN openRuns /\ p \notin tight
      <4>1. p \notin DOMAIN openRuns' /\ near'[p] = N
        BY <1>5, <2>2, <2>3, <3>4
      <4> HIDE DEF C, N
      <4>2. ASSUME NEW u \in N, u..t \subseteq close'[p] PROVE FALSE
        <5>1. u \in Nat
          BY <2>1
        <5>2. u..(t - 1) \subseteq C
          BY <2>2, <4>2, <5>1
        <5> QED BY <2>5, <3>4, <5>2 DEF C, N
      <4> QED BY <4>1, <4>2
    <3> QED BY <3>1, <3>2, <3>3, <3>4
  <2>11. EventsOf(events', p) = Ended(p, t)'
    <3> DEFINE flushed == {<<openRuns[q].start, openRuns[q].last>> :
                 q \in {x \in DOMAIN openRuns \ PairsNow(spots) : /\ x = p
                          /\ openRuns[x].last - openRuns[x].start >= MinDuration}}
               gone == p \in DOMAIN openRuns /\ p \notin within
    <3>1. EventsOf(events', p) = Ended(p, t - 1) \cup flushed
      BY <1>1, <2>6, FlushAdds
    <3>2. \A x : x \in flushed <=> gone /\ x = <<s, t - 1>> /\ (t - 1) - s >= MinDuration
      BY <1>5, <2>4
    <3>3. gone => s \in Nat /\ t - 1 \in Nat
      BY <2>1, <2>4 DEF Opens
    <3>4. \A x, y \in Nat : Lasting(close'[p], near'[p], x, y) /\ y < t <=>
             \/ Lasting(C, N, x, y) /\ y < t - 1
             \/ gone /\ x = s /\ y = t - 1
      <4>1. \A x, y \in Nat : Lasting(C, N, x, y) /\ y <= t - 1 => x < t
        BY DEF Lasting
      <4> HIDE DEF C, N, s
      <4>2. ASSUME NEW x \in Nat, NEW y \in Nat
            PROVE  Lasting(close'[p], near'[p], x, y) /\ y < t <=>
                      \/ Lasting(C, N, x, y) /\ y < t - 1
                      \/ gone /\ x = s /\ y = t - 1
        <5>1. y = t - 1 => (Lasting(C, N, x, y) <=> p \in DOMAIN openRuns /\ x = s)
          BY <2>9 DEF C, N, s
        <5>2. CASE x < t
          <6>1. Lasting(close'[p], near'[p], x, y) /\ y < t <=>
                   \/ Lasting(C, N, x, y) /\ y < t - 1
                   \/ Lasting(C, N, x, y) /\ y = t - 1 /\ p \notin within
            BY <2>7, <5>2 DEF C, N
          <6> QED BY <5>1, <6>1
        <5>3. CASE ~(x < t)
          <6>1. ~(Lasting(close'[p], near'[p], x, y) /\ y < t)
            BY <2>8, <5>3
          <6>2. ~(Lasting(C, N, x, y) /\ y <= t - 1)
            BY <4>1, <5>3
          <6> QED BY <5>1, <6>1, <6>2
        <5> QED BY <5>2, <5>3
      <4> QED BY <4>2
    <3>5. Ended(p, t)' = {x \in Nat \X Nat : /\ Lasting(close'[p], near'[p], x[1], x[2])
                                             /\ x[2] - x[1] >= MinDuration
                                             /\ x[2] < t}
      BY DEF Ended
    <3>6. Ended(p, t - 1) = {x \in Nat \X Nat : /\ Lasting(C, N, x[1], x[2])
                                                /\ x[2] - x[1] >= MinDuration
                                                /\ x[2] < t - 1}
      BY DEF Ended
    <3> HIDE DEF flushed, gone, C, N, s
    <3> QED BY <3>1, <3>2, <3>3, <3>4, <3>5, <3>6
  <2> QED BY <2>10, <2>11
<1>10. DOMAIN openRuns' \subseteq BusPairs
  BY <1>1, <1>6 DEF OpenAfter
<1>11. OpenRight(t)'
  BY <1>9, <1>10 DEF OpenRight
<1> QED BY <1>8, <1>9, <1>11 DEF SweptTo


LEMMA SweepInitHolds == SweepInit => SweepInv
  BY DEF SweepInit, SweepInv

(* Nothing has been swept before the first tick.                           *)
LEMMA NothingSwept ==
  ASSUME openRuns = << >>, events = {}, close = NoTicks, near = NoTicks
  PROVE  SweptTo(-1)
<1>1. DOMAIN openRuns = {}
  OBVIOUS
<1>2. \A p \in BusPairs : close[p] = {} /\ near[p] = {}
  BY DEF NoTicks
<1>3. TicksKept(-1)
  BY <1>2 DEF TicksKept, NoTicks
<1>4. \A p \in BusPairs : EventsOf(events, p) = {} /\ Ended(p, -1) = {}
  BY <1>2 DEF EventsOf, Ended, Lasting, Opens
<1> QED BY <1>1, <1>2, <1>3, <1>4 DEF SweptTo, OpenRight

(* At the last tick every open run is flushed, and its episode is over.    *)
LEMMA EndSweepHolds == SweepInv /\ EndSweep => SweepInv'
<1> SUFFICES ASSUME SweepInv, EndSweep PROVE SweepInv'
  OBVIOUS
<1>1. /\ sweep = "on" /\ sweep' = "shown" /\ tick' = tick /\ close' = close /\ near' = near
      /\ openRuns' = << >> /\ events' = events \cup Flushed(DOMAIN openRuns)
  BY DEF EndSweep
<1>2. SweptTo(tick) /\ tick \in Nat
  BY <1>1 DEF SweepInv
<1>3. TicksKept(tick)'
  BY <1>1, <1>2 DEF SweptTo, TicksKept
<1>4. ASSUME NEW p \in BusPairs PROVE EventsOf(events', p) = Ended(p, tick + 1)
  <2> DEFINE C == close[p]
             N == near[p]
             s == openRuns[p].start
             open == p \in DOMAIN openRuns
             flushed == {<<openRuns[q].start, openRuns[q].last>> :
               q \in {x \in DOMAIN openRuns : /\ x = p
                        /\ openRuns[x].last - openRuns[x].start >= MinDuration}}
  <2>1. C \subseteq 0..tick /\ N \subseteq C
    BY <1>2 DEF SweptTo, TicksKept
  <2>2. open => openRuns[p].last = tick /\ Opens(C, N, s) /\ s..tick \subseteq C
    BY <1>2 DEF SweptTo, OpenRight
  <2>3. ~open => \A u \in N : ~(u..tick \subseteq C)
    BY <1>2 DEF SweptTo, OpenRight
  <2>4. EventsOf(events', p) = Ended(p, tick) \cup flushed
    BY <1>1, <1>2, FlushAdds DEF SweptTo
  <2>5. \A x : x \in flushed <=> open /\ x = <<s, tick>> /\ tick - s >= MinDuration
    BY <2>2
  <2>6. ASSUME NEW x \in Nat
        PROVE  Lasting(C, N, x, tick) <=> open /\ x = s
    <3>1. \A u \in N : u \in Nat /\ u <= tick
      BY <2>1
    <3>2. ASSUME Lasting(C, N, x, tick) PROVE open /\ x = s
      <4> HIDE DEF C, N
      <4>1. x \in N /\ x..tick \subseteq C /\ \A u \in N : u < x => ~(u..x \subseteq C)
        BY <3>2 DEF Lasting, Opens
      <4>2. open
        BY <2>3, <4>1
      <4>3. s \in N /\ s..tick \subseteq C /\ \A u \in N : u < s => ~(u..s \subseteq C)
        BY <2>2, <4>2 DEF Opens
      <4> HIDE DEF s
      <4>4. s \in Nat /\ x <= tick /\ s <= tick
        BY <3>1, <4>1, <4>3
      <4>5. x..s \subseteq x..tick /\ s..x \subseteq s..tick
        BY <1>2, <4>4
      <4> QED BY <4>1, <4>2, <4>3, <4>4, <4>5
    <3>3. ASSUME open, x = s PROVE Lasting(C, N, x, tick)
      <4>1. Opens(C, N, x) /\ x..tick \subseteq C
        BY <2>2, <3>3
      <4>2. x <= tick
        BY <3>1, <4>1 DEF Opens
      <4>3. tick + 1 \notin C
        BY <1>2, <2>1
      <4> QED BY <4>1, <4>2, <4>3 DEF Lasting
    <3> QED BY <3>2, <3>3
  <2>7. open => s \in Nat
    BY <2>1, <2>2 DEF Opens
  <2>8. \A y \in Nat : y < tick + 1 <=> y < tick \/ y = tick
    BY <1>2
  <2> HIDE DEF C, N, s, open, flushed
  <2>9. Ended(p, tick) = {x \in Nat \X Nat : /\ Lasting(C, N, x[1], x[2])
                                             /\ x[2] - x[1] >= MinDuration
                                             /\ x[2] < tick}
    BY DEF Ended, C, N
  <2>10. Ended(p, tick + 1) = {x \in Nat \X Nat : /\ Lasting(C, N, x[1], x[2])
                                                  /\ x[2] - x[1] >= MinDuration
                                                  /\ x[2] < tick + 1}
    BY DEF Ended, C, N
  <2> QED BY <1>2, <2>4, <2>5, <2>6, <2>7, <2>8, <2>9, <2>10
<1>5. \A p \in BusPairs : Ended(p, tick + 1)' = Ended(p, tick + 1)
  BY <1>1 DEF Ended
<1> QED BY <1>1, <1>2, <1>3, <1>4, <1>5 DEF SweepInv

LEMMA SweepStepHolds == SweepInv /\ [SweepNext]_sweepVars => SweepInv'
<1> SUFFICES ASSUME SweepInv, [SweepNext]_sweepVars PROVE SweepInv'
  OBVIOUS
<1>1. CASE StartSweep
  <2>1. PICK spots \in [Buses -> {Before} \cup Distances] : Swept(spots, 0)
    BY <1>1 DEF StartSweep
  <2>2. SweptTo(-1)
    BY <1>1, NothingSwept DEF StartSweep, SweepInv
  <2>3. spots \in [Buses -> {Before, After} \cup Distances] /\ 0 - 1 = -1 /\ 0 \in Nat
    OBVIOUS
  <2>4. SweptTo(0)'
    BY <2>1, <2>2, <2>3, SweepStep
  <2>5. sweep' = "on" /\ tick' = 0
    BY <1>1, <2>1 DEF StartSweep, Swept
  <2> QED BY <2>4, <2>5 DEF SweepInv, SweptTo, TicksKept, OpenRight, Ended
<1>2. CASE NextTick
  <2>1. PICK spots \in [Buses -> {Before, After} \cup Distances] : Swept(spots, tick + 1)
    BY <1>2 DEF NextTick
  <2>2. SweptTo(tick) /\ sweep = "on" /\ sweep' = "on" /\ tick \in Nat
    BY <1>2 DEF NextTick, SweepInv
  <2>3. PICK t \in Nat : t = tick + 1
    BY <2>2
  <2>4. SweptTo(t - 1)
    BY <2>2, <2>3
  <2>5. SweptTo(t)'
    BY <2>1, <2>3, <2>4, SweepStep
  <2>6. tick' = t
    BY <2>1, <2>3 DEF Swept
  <2> QED BY <2>2, <2>5, <2>6 DEF SweepInv, SweptTo, TicksKept, OpenRight, Ended
<1>3. CASE EndSweep
  BY <1>3, EndSweepHolds
<1>4. CASE SweepDone
  BY <1>4 DEF SweepDone, SweepInv
<1>5. CASE UNCHANGED sweepVars
  BY <1>5 DEF sweepVars, SweepInv, SweptTo, TicksKept, OpenRight, Ended
<1> QED BY <1>1, <1>2, <1>3, <1>4, <1>5 DEF SweepNext

(* What is open and what has been reported of each pair, tick by tick.     *)
THEOREM SweepInvariant == SweepSpec => []SweepInv
  BY SweepInitHolds, SweepStepHolds, PTL DEF SweepSpec

(* A pair's events are its episodes that last, one each: the stretches of  *)
(* ticks at which the follower is next behind its leader, apart from it    *)
(* and within the wider threshold, from the first tick within the tighter  *)
(* one (detect_bunch_events_distance).                                     *)
THEOREM EventsCorrect == Spec => []EventsAreEpisodes
<1>1. SweepInv => EventsAreEpisodes
  <2> SUFFICES ASSUME SweepInv, sweep = "shown", NEW p \in BusPairs
               PROVE  EventsOf(events, p) = {s \in Episodes(p) : s[2] - s[1] >= MinDuration}
    BY DEF EventsAreEpisodes, EventsOf
  <2>1. tick \in Nat /\ close[p] \subseteq 0..tick /\ near[p] \subseteq close[p]
    BY DEF SweepInv, TicksKept
  <2>2. Episodes(p) = {x \in Nat \X Nat : Lasting(close[p], near[p], x[1], x[2])}
    <3>1. close[p] \subseteq Nat
      BY <2>1
    <3> QED BY <2>1, <3>1, EpisodesAreLasting
  <2>3. \A x \in Nat \X Nat : Lasting(close[p], near[p], x[1], x[2]) => x[2] < tick + 1
    <3>1. ASSUME NEW t \in Nat, NEW l \in Nat, Lasting(close[p], near[p], t, l)
          PROVE  l < tick + 1
      <4>1. l \in close[p]
        BY <3>1 DEF Lasting
      <4> QED BY <2>1, <4>1
    <3> QED BY <3>1
  <2>4. EventsOf(events, p) = Ended(p, tick + 1)
    BY DEF SweepInv
  <2> QED BY <2>2, <2>3, <2>4 DEF Ended
<1> QED BY <1>1, SweepInvariant, PartsOfSpec, PTL

-----------------------------------------------------------------------------
(***************************************************************************)
(* Bunching by time: the first crossings of a bus, for any points, and the *)
(* buses that are flagged, for any number of buses and any threshold.      *)
(***************************************************************************)

(* A positive factor of both sides of an inequality cancels.               *)
LEMMA FactorCancels ==
    ASSUME NEW x \in Int, NEW y \in Int, NEW p \in Nat \ {0}
    PROVE  p * x < p * y <=> x < y
  OBVIOUS

IsFraction(x) == x.num \in Int /\ x.den \in Nat \ {0}

(* No later than a fraction that is earlier than another, is earlier.      *)
LEMMA EarlierThrough ==
    ASSUME NEW x, NEW y, NEW z, IsFraction(x), IsFraction(y), IsFraction(z)
    PROVE  /\ ~Earlier(y, x) /\ Earlier(y, z) => Earlier(x, z)
           /\ Earlier(x, y) /\ ~Earlier(z, y) => Earlier(x, z)
           /\ Earlier(x, y) => ~Earlier(y, x)
<1> DEFINE a == x.num
           b == y.num
           c == z.num
           p == x.den
           q == y.den
           r == z.den
<1>1. a \in Int /\ b \in Int /\ c \in Int /\ p \in Nat \ {0} /\ q \in Nat \ {0} /\ r \in Nat \ {0}
  BY DEF IsFraction
<1> HIDE DEF a, b, c, p, q, r
<1>2. /\ q * (a * r) = r * (a * q) /\ r * (b * p) = p * (b * r)
      /\ p * (c * q) = q * (c * p)
  BY <1>1
<1>3. /\ a * q \in Int /\ b * p \in Int /\ b * r \in Int /\ c * q \in Int
      /\ a * r \in Int /\ c * p \in Int
  BY <1>1
<1>4. /\ a * q < b * p <=> r * (a * q) < r * (b * p)
      /\ b * p < a * q <=> r * (b * p) < r * (a * q)
      /\ b * r < c * q <=> p * (b * r) < p * (c * q)
      /\ c * q < b * r <=> p * (c * q) < p * (b * r)
      /\ a * r < c * p <=> q * (a * r) < q * (c * p)
  <2> DEFINE e == a * q
             f == b * p
             g == b * r
             h == c * q
             i == a * r
             j == c * p
  <2> SUFFICES /\ e < f <=> r * e < r * f
               /\ f < e <=> r * f < r * e
               /\ g < h <=> p * g < p * h
               /\ h < g <=> p * h < p * g
               /\ i < j <=> q * i < q * j
    OBVIOUS
  <2> HIDE DEF e, f, g, h, i, j
  <2> QED BY <1>1, <1>3, FactorCancels DEF e, f, g, h, i, j
<1> DEFINE u == r * (a * q)
           v == r * (b * p)
           w == p * (c * q)
<1>5. u \in Int /\ v \in Int /\ w \in Int
  BY <1>1, <1>3
<1>6. /\ Earlier(x, y) <=> u < v
      /\ Earlier(y, x) <=> v < u
      /\ Earlier(y, z) <=> v < w
      /\ Earlier(z, y) <=> w < v
      /\ Earlier(x, z) <=> u < w
  BY <1>2, <1>4 DEF Earlier, a, b, c, p, q, r
<1> HIDE DEF u, v, w
<1> QED BY <1>5, <1>6

(* A relation that puts any two members of a set in an order.              *)
IsOrderOf(R, T) ==
    /\ \A x, y \in T : x # y => <<x, y>> \in R \/ <<y, x>> \in R
    /\ \A x, y, z \in T : <<x, y>> \in R /\ <<y, z>> \in R => <<x, z>> \in R

(* Of a set of numbers that a relation orders, one comes last.             *)
LEMMA LastOfSome ==
    ASSUME NEW T, \E n \in Nat : T \subseteq 1..n, T # {}, NEW R, IsOrderOf(R, T)
    PROVE  \E m \in T : \A k \in T : k = m \/ <<k, m>> \in R
<1> USE DEF IsOrderOf
<1> PICK n \in Nat : T \subseteq 1..n
  OBVIOUS
<1> DEFINE Topped(j) == \E m \in T : m <= j /\ \A k \in T : k <= j => k = m \/ <<k, m>> \in R
           Bad == {j \in Nat : (\E m \in T : m <= j) /\ ~Topped(j)}
<1>1. ASSUME Bad # {} PROVE FALSE
  <2>1. PICK j \in Bad : \A i \in Bad : j <= i
    <3>1. Bad \subseteq Nat
      OBVIOUS
    <3> HIDE DEF Bad
    <3> QED BY <1>1, <3>1, LeastMember
  <2>2. j \in Nat /\ ~Topped(j)
    OBVIOUS
  <2>3. PICK m \in T : m <= j
    OBVIOUS
  <2>4. j - 1 \in Nat
    BY <2>2, <2>3
  <2>5. j - 1 \notin Bad
    <3> HIDE DEF Bad
    <3> QED BY <2>1, <2>2, <2>4
  <2>6. CASE \E i \in T : i <= j - 1
    <3>1. Topped(j - 1)
      BY <2>4, <2>5, <2>6
    <3>2. PICK l \in T : l <= j - 1 /\ \A k \in T : k <= j - 1 => k = l \/ <<k, l>> \in R
      BY <3>1
    <3>3. \A k \in T : k <= j => k <= j - 1 \/ k = j
      BY <2>2
    <3>4. CASE j \notin T
      <4>1. Topped(j)
        BY <2>2, <3>2, <3>3, <3>4
      <4> QED BY <2>2, <4>1
    <3>5. CASE j \in T /\ <<j, l>> \in R
      <4>1. \A k \in T : k <= j => k = l \/ <<k, l>> \in R
        BY <3>2, <3>3, <3>5
      <4>2. Topped(j)
        BY <2>2, <3>2, <4>1
      <4> QED BY <2>2, <4>2
    <3>6. CASE j \in T /\ <<l, j>> \in R
      <4>1. \A k \in T : k <= j => k = j \/ <<k, j>> \in R
        BY <3>2, <3>3, <3>6
      <4>2. Topped(j)
        BY <2>2, <3>6, <4>1
      <4> QED BY <2>2, <4>2
    <3>7. l # j
      BY <2>2, <3>2
    <3> QED BY <3>4, <3>5, <3>6, <3>7
  <2>7. CASE ~\E i \in T : i <= j - 1
    <3>1. \A k \in T : k <= j => k = j
      BY <2>2, <2>7
    <3>2. Topped(j)
      BY <2>2, <2>3, <3>1
    <3> QED BY <2>2, <3>2
  <2> QED BY <2>6, <2>7
<1>2. \E m \in T : m <= n
  <2>1. \E m \in T : m \in 1..n
    OBVIOUS
  <2> QED BY <2>1
<1>3. Topped(n)
  BY <1>1, <1>2
<1> QED BY <1>3

(* A point is a time and an index; a pass holds an instant for each stop   *)
(* that was passed.                                                        *)
IsPoint(a) == a.time \in Nat /\ a.stop \in Nat

IsPass(c) == DOMAIN c \subseteq StopNumbers /\ \A s \in DOMAIN c : IsFraction(c[s])

(* The instant put down for a stop between two points lies between theirs  *)
(* and on the line through them.                                           *)
LEMMA OnTheLine ==
    ASSUME NEW a, NEW b, IsPoint(a), IsPoint(b), a.time < b.time, NEW s \in Spanned(a, b)
    PROVE  /\ IsFraction(CrossedAt(a, b, s))
           /\ ~Earlier(CrossedAt(a, b, s), Instant(a.time))
           /\ ~Earlier(Instant(b.time), CrossedAt(a, b, s))
           /\ (CrossedAt(a, b, s).num - a.time * CrossedAt(a, b, s).den) * (b.stop - a.stop)
                 = (s * Parts - a.stop) * (b.time - a.time) * CrossedAt(a, b, s).den
           /\ a.stop = s * Parts => CrossedAt(a, b, s).num = a.time * CrossedAt(a, b, s).den
<1> USE CrossingsAssumption
<1> DEFINE c == CrossedAt(a, b, s)
           x == s * Parts
           dt == b.time - a.time
           ta == a.time
           sa == a.stop
           sb == b.stop
<1>1. /\ ta \in Nat /\ sa \in Nat /\ sb \in Nat /\ dt \in Nat \ {0}
      /\ b.time = ta + dt /\ x \in Nat
  BY DEF IsPoint, Spanned, StopNumbers
<1>2. CASE sa < sb
  <2> DEFINE d == sb - sa
             y == x - sa
  <2>1. Lower(a, b) = a /\ Higher(a, b) = b
    BY <1>1, <1>2 DEF Lower, Higher
  <2>2. d \in Nat \ {0} /\ y \in 0..d
    BY <1>1, <1>2, <2>1 DEF Spanned
  <2>3. c = [num |-> ta * d + y * dt, den |-> d]
    BY <1>1, <1>2, <2>1 DEF CrossedAt
  <2>4. c.num = ta * d + y * dt /\ c.den = d
    BY <2>3
  <2> HIDE DEF x, dt, ta, sa, sb, d, y, c
  <2>5. /\ ta * d \in Nat /\ y * dt \in Nat /\ d * dt \in Nat /\ y * dt <= d * dt
        /\ (ta + dt) * d = ta * d + d * dt
    <3>1. d = y + (d - y) /\ d - y \in Nat /\ y \in Nat
      BY <2>2
    <3>2. PICK z \in Nat : d = y + z
      BY <3>1
    <3>3. (y + z) * dt = y * dt + z * dt /\ z * dt \in Nat /\ y * dt \in Nat
      BY <1>1, <3>1
    <3>4. (ta + dt) * d = ta * d + d * dt /\ ta * d \in Nat /\ d * dt \in Nat
      BY <1>1, <2>2
    <3>5. d * dt = y * dt + z * dt
      BY <3>2, <3>3
    <3> HIDE DEF d, y
    <3> QED BY <3>3, <3>4, <3>5
  <2>6. c.num \in Int /\ c.den \in Nat \ {0}
    BY <2>2, <2>4, <2>5
  <2>7. ~(c.num * 1 < ta * c.den)
    BY <2>4, <2>5
  <2>8. ~((ta + dt) * c.den < c.num * 1)
    BY <2>4, <2>5
  <2>9. (c.num - ta * c.den) * d = y * dt * c.den
    <3>1. c.num - ta * c.den = y * dt
      BY <2>4, <2>5
    <3> QED BY <2>4, <3>1
  <2>10. y = 0 => c.num = ta * c.den
    BY <1>1, <2>2, <2>4
  <2> QED BY <1>1, <2>6, <2>7, <2>8, <2>9, <2>10
          DEF IsFraction, Earlier, Instant, c, x, dt, ta, sa, sb, d, y
<1>3. CASE sb < sa
  <2> DEFINE d == sa - sb
             y == x - sb
  <2>1. Lower(a, b) = b /\ Higher(a, b) = a
    BY <1>1, <1>3 DEF Lower, Higher
  <2>2. d \in Nat \ {0} /\ y \in 0..d
    BY <1>1, <1>3, <2>1 DEF Spanned
  <2>3. c = [num |-> b.time * d + y * (ta - b.time), den |-> d]
    BY <1>1, <1>3, <2>1 DEF CrossedAt
  <2>4. c.num = (ta + dt) * d + y * (ta - (ta + dt)) /\ c.den = d
    BY <1>1, <2>3
  <2> HIDE DEF x, dt, ta, sa, sb, d, y, c
  <2>5. PICK z \in Nat : d = y + z /\ z = d - y
    BY <2>2
  <2>6. c.num = ta * d + z * dt
    <3>1. ta - (ta + dt) = -dt
      BY <1>1
    <3>2. y \in Nat /\ d \in Nat
      BY <2>2
    <3>3. (ta + dt) * d = ta * d + dt * d
      BY <1>1, <3>2
    <3>4. dt * (y + z) = y * dt + z * dt
      BY <1>1, <3>2, <2>5
    <3>5. y * (-dt) = -(y * dt)
      BY <1>1, <3>2
    <3>6. ta * d \in Int /\ y * dt \in Int /\ z * dt \in Int
      BY <1>1, <3>2, <2>5
    <3> QED BY <2>4, <2>5, <3>1, <3>3, <3>4, <3>5, <3>6
  <2>7. /\ ta * d \in Nat /\ z * dt \in Nat /\ d * dt \in Nat /\ z * dt <= d * dt
        /\ (ta + dt) * d = ta * d + d * dt
    <3>1. y \in Nat /\ d \in Nat
      BY <2>2
    <3>2. (y + z) * dt = y * dt + z * dt /\ z * dt \in Nat /\ y * dt \in Nat
      BY <1>1, <2>5, <3>1
    <3>3. (ta + dt) * d = ta * d + d * dt /\ ta * d \in Nat /\ d * dt \in Nat
      BY <1>1, <2>2
    <3>4. d * dt = y * dt + z * dt
      BY <2>5, <3>2
    <3> QED BY <3>2, <3>3, <3>4
  <2>8. c.num \in Int /\ c.den \in Nat \ {0}
    BY <2>2, <2>4, <2>6, <2>7
  <2>9. ~(c.num * 1 < ta * c.den)
    BY <2>4, <2>6, <2>7
  <2>10. ~((ta + dt) * c.den < c.num * 1)
    BY <2>4, <2>6, <2>7
  <2>11. (c.num - ta * c.den) * (-d) = (-z) * dt * c.den
    <3>1. c.num - ta * c.den = z * dt
      BY <2>4, <2>6, <2>7
    <3>2. (z * dt) * (-d) = (-z) * dt * d
      BY <1>1, <2>2
    <3> QED BY <2>4, <3>1, <3>2
  <2>12. z = 0 => c.num = ta * c.den
    BY <1>1, <2>2, <2>4, <2>6
  <2>13. sb - sa = -d /\ x - sa = -z
    BY <1>1, <2>5 DEF d, y
  <2> QED BY <1>1, <2>8, <2>9, <2>10, <2>11, <2>12, <2>13
          DEF IsFraction, Earlier, Instant, c, x, dt, ta, sa, sb
<1>4. CASE sa = sb
  <2>1. Lower(a, b) = a /\ Higher(a, b) = b
    BY <1>1, <1>4 DEF Lower, Higher
  <2>2. c = Instant(ta)
    BY <1>1, <1>4, <2>1 DEF CrossedAt
  <2>3. x - sa = 0 /\ sb - sa = 0
    BY <1>1, <1>4, <2>1 DEF Spanned
  <2> HIDE DEF c, ta, dt, sa, sb, x
  <2>4. c.num = ta /\ c.den = 1
    BY <2>2 DEF Instant
  <2>5. IsFraction(c)
    BY <1>1, <2>4 DEF IsFraction
  <2>6. ~Earlier(c, Instant(ta)) /\ ~Earlier(Instant(ta + dt), c)
    BY <1>1, <2>4 DEF Earlier, Instant
  <2>7. (c.num - ta * c.den) * (sb - sa) = (x - sa) * dt * c.den
    BY <1>1, <2>3, <2>4
  <2>8. c.num = ta * c.den
    BY <1>1, <2>4
  <2> QED BY <1>1, <2>5, <2>6, <2>7, <2>8 DEF c, x, dt, ta, sa, sb
<1>5. sa < sb \/ sb < sa \/ sa = sb
  BY <1>1
<1> HIDE DEF c, ta, dt, sa, sb, x
<1> QED BY <1>2, <1>3, <1>4, <1>5

-----------------------------------------------------------------------------
(* On which side of a stop the point k is.                                 *)
Side(k, s) ==
    IF points[k].stop < s * Parts THEN -1
    ELSE IF points[k].stop > s * Parts THEN 1 ELSE 0

(* The crossing of a stop is that of the points k and k + 1, the first     *)
(* between which the stop lies.                                            *)
FirstBetween(s, k) ==
    LET c == crossings[s]
        a == points[k]
        b == points[k + 1]
    IN  /\ s \in Spanned(a, b)
        /\ ~Earlier(c, Instant(a.time)) /\ ~Earlier(Instant(b.time), c)
        /\ (c.num - a.time * c.den) * (b.stop - a.stop)
              = (s * Parts - a.stop) * (b.time - a.time) * c.den
        /\ \A m \in 1..k : \/ Side(m, s) # 0 /\ Side(m, s) = Side(1, s)
                           \/ m = k /\ c.num = a.time * c.den

PointsTyped ==
    /\ Len(points) \in Nat /\ DOMAIN points = 1..Len(points)
    /\ \A k \in 1..Len(points) : IsPoint(points[k])

PassesTyped ==
    /\ Len(passes) \in Nat /\ DOMAIN passes = 1..Len(passes)
    /\ \A b \in 1..Len(passes) : IsPass(passes[b])

(* A stop without a crossing has been on one side of all the points.       *)
CrossInv ==
    /\ passing \in {"idle", "scan", "shown"}
    /\ passing # "scan" => points = << >>
    /\ passing = "shown" => flagged = Tagged
    /\ PointsTyped
    /\ PassesTyped
    /\ IsPass(crossings)
    /\ \A s \in DOMAIN crossings : \E k \in 1..(Len(points) - 1) : FirstBetween(s, k)
    /\ \A s \in StopNumbers \ DOMAIN crossings :
          Len(points) > 1 =>
              \A k \in 1..Len(points) : Side(k, s) # 0 /\ Side(k, s) = Side(1, s)

(* The invariant says that the crossings are the first passages.           *)
LEMMA CrossingsAreFirst == CrossInv => FirstPassage
<1> USE CrossingsAssumption
<1> SUFFICES ASSUME CrossInv PROVE FirstPassage
  OBVIOUS
<1>1. Len(points) \in Nat /\ \A k \in 1..Len(points) : points[k].stop \in Nat
  BY DEF CrossInv, PointsTyped, IsPoint
<1>2. DOMAIN crossings \subseteq StopNumbers /\ \A s \in StopNumbers : s * Parts \in Nat
  BY DEF CrossInv, IsPass, StopNumbers
<1>3. ASSUME NEW s \in StopNumbers
      PROVE  (\E k \in 1..(Len(points) - 1), m \in 1..(Len(points) - 1) :
                 /\ Lower(points[k], points[k + 1]).stop <= s * Parts
                 /\ s * Parts <= Higher(points[m], points[m + 1]).stop)
             <=> s \in DOMAIN crossings
  <2>1. ASSUME s \in DOMAIN crossings
        PROVE  \E k \in 1..(Len(points) - 1), m \in 1..(Len(points) - 1) :
                 /\ Lower(points[k], points[k + 1]).stop <= s * Parts
                 /\ s * Parts <= Higher(points[m], points[m + 1]).stop
    <3>1. PICK k \in 1..(Len(points) - 1) : FirstBetween(s, k)
      BY <2>1 DEF CrossInv
    <3> QED BY <3>1 DEF FirstBetween, Spanned
  <2>2. ASSUME s \notin DOMAIN crossings,
               NEW k \in 1..(Len(points) - 1), NEW m \in 1..(Len(points) - 1),
               Lower(points[k], points[k + 1]).stop <= s * Parts,
               s * Parts <= Higher(points[m], points[m + 1]).stop
        PROVE  FALSE
    <3>1. /\ k \in 1..Len(points) /\ k + 1 \in 1..Len(points)
          /\ m \in 1..Len(points) /\ m + 1 \in 1..Len(points)
      BY <1>1
    <3>2. PICK i \in 1..Len(points) : points[i].stop <= s * Parts
      BY <2>2, <3>1 DEF Lower
    <3>3. PICK j \in 1..Len(points) : s * Parts <= points[j].stop
      BY <2>2, <3>1 DEF Higher
    <3>4. Side(i, s) = Side(j, s) /\ Side(i, s) # 0 /\ Side(j, s) # 0
      <4>1. Len(points) > 1
        BY <1>1
      <4> QED BY <2>2, <3>2, <3>3, <4>1 DEF CrossInv
    <3>5. points[i].stop \in Nat /\ points[j].stop \in Nat /\ s * Parts \in Nat
      BY <1>1, <1>2
    <3>6. Side(i, s) = -1
      BY <3>2, <3>4, <3>5 DEF Side
    <3>7. Side(j, s) = 1
      BY <3>3, <3>4, <3>5 DEF Side
    <3>8. -1 # 1
      OBVIOUS
    <3> QED BY <3>4, <3>6, <3>7, <3>8
  <2> QED BY <2>1, <2>2
<1>4. \A s \in DOMAIN crossings : \E k \in 1..(Len(points) - 1) : FirstBetween(s, k)
  BY DEF CrossInv
<1> QED BY <1>3, <1>4 DEF FirstPassage, FirstBetween, Side

LEMMA CrossInitHolds == CrossInit => CrossInv
<1> SUFFICES ASSUME CrossInit PROVE CrossInv
  OBVIOUS
<1>1. /\ passing = "idle" /\ points = << >> /\ crossings = << >> /\ passes = << >>
  BY DEF CrossInit
<1>2. DOMAIN crossings = {} /\ Len(points) = 0 /\ Len(passes) = 0
      /\ DOMAIN points = {} /\ DOMAIN passes = {}
  BY <1>1
<1> QED BY <1>1, <1>2 DEF CrossInv, PointsTyped, PassesTyped, IsPass

(* What a pass is does not depend on the state.                            *)
LEMMA SamePasses ==
    ASSUME CrossInv, UNCHANGED passes
    PROVE  PassesTyped'
  BY DEF CrossInv, PassesTyped

(* The first point of a bus: nothing has been crossed.                     *)
LEMMA FirstPointHolds == CrossInv /\ FirstPoint => CrossInv'
<1> USE CrossingsAssumption
<1> SUFFICES ASSUME CrossInv, FirstPoint PROVE CrossInv'
  OBVIOUS
<1>1. PICK t \in Starts, i \in Indexes : points' = <<[time |-> t, stop |-> i]>>
  BY DEF FirstPoint
<1>2. passing' = "scan" /\ UNCHANGED <<crossings, passes>> /\ points = << >>
  BY DEF FirstPoint, CrossInv
<1>3. t \in Nat /\ i \in Nat
  OBVIOUS
<1>4. Len(points') = 1 /\ DOMAIN points' = 1..1 /\ points'[1] = [time |-> t, stop |-> i]
  BY <1>1
<1>5. PointsTyped'
  BY <1>3, <1>4 DEF PointsTyped, IsPoint
<1>6. DOMAIN crossings = {}
  <2>1. Len(points) = 0
    BY <1>2
  <2>2. 1..(Len(points) - 1) = {}
    BY <2>1
  <2> QED BY <2>2 DEF CrossInv
<1>7. PassesTyped'
  BY <1>2, SamePasses
<1> QED BY <1>2, <1>4, <1>5, <1>6, <1>7 DEF CrossInv, IsPass

(* A further point: what was crossed before stays, and what is crossed now *)
(* had all the points before on one side.                                  *)
LEMMA NextPointHolds == CrossInv /\ NextPoint => CrossInv'
<1> USE CrossingsAssumption
<1> SUFFICES ASSUME CrossInv, NextPoint PROVE CrossInv'
  OBVIOUS
<1>0. PICK n \in Nat : n = Len(points)
  BY DEF CrossInv, PointsTyped
<1> DEFINE a == points[n]
<1>1. PICK dt \in Steps, i \in Indexes :
         /\ points' = Append(points, [time |-> a.time + dt, stop |-> i])
         /\ crossings' = Crossed(a, [time |-> a.time + dt, stop |-> i])
  BY <1>0 DEF NextPoint
<1>2. passing = "scan" /\ passing' = "scan" /\ UNCHANGED passes /\ points # << >>
  BY DEF NextPoint
<1> DEFINE b == [time |-> a.time + dt, stop |-> i]
<1>3. n \in Nat \ {0} /\ DOMAIN points = 1..n /\ \A k \in 1..n : IsPoint(points[k])
  BY <1>0, <1>2 DEF CrossInv, PointsTyped
<1>4. /\ points' = Append(points, b)
      /\ crossings' = Crossed(a, b)
  BY <1>1
<1>5. IsPoint(a) /\ IsPoint(b) /\ a.time < b.time
  <2>1. dt \in Nat \ {0} /\ i \in Nat
    OBVIOUS
  <2> QED BY <1>3, <2>1 DEF IsPoint
<1> HIDE DEF a, b
<1>6. /\ DOMAIN points' = 1..(n + 1) /\ Len(points') = n + 1 /\ points'[n + 1] = b
      /\ \A k \in 1..n : points'[k] = points[k]
  BY <1>0, <1>3, <1>4
<1>7. PointsTyped'
  <2>1. \A k \in 1..(n + 1) : IsPoint(points'[k])
    BY <1>3, <1>5, <1>6
  <2> QED BY <1>3, <1>6, <2>1 DEF PointsTyped, IsPoint
<1>8. /\ DOMAIN crossings' = DOMAIN crossings \cup Spanned(a, b)
      /\ \A s \in DOMAIN crossings : crossings'[s] = crossings[s]
      /\ \A s \in Spanned(a, b) : s \notin DOMAIN crossings => crossings'[s] = CrossedAt(a, b, s)
  BY <1>4 DEF Crossed
<1>9. IsPass(crossings) /\ DOMAIN crossings \subseteq StopNumbers
  BY DEF CrossInv, IsPass
<1>10. \A s \in Spanned(a, b) : IsFraction(CrossedAt(a, b, s))
  BY <1>5, OnTheLine
<1>11. IsPass(crossings')
  BY <1>8, <1>9, <1>10 DEF IsPass, Spanned
<1>12. \A k \in 1..n : \A s : Side(k, s)' = Side(k, s)
  BY <1>6 DEF Side
<1>13. ASSUME NEW s \in StopNumbers \ DOMAIN crossings, NEW k \in 1..n
       PROVE  \/ Side(k, s) # 0 /\ Side(k, s) = Side(1, s)
              \/ k = n /\ n = 1
  <2>1. CASE n > 1
    BY <1>0, <2>1 DEF CrossInv
  <2>2. CASE n = 1
    BY <1>3, <2>2
  <2> QED BY <1>3, <2>1, <2>2
<1>14. \A s \in StopNumbers : s * Parts \in Nat
  BY DEF StopNumbers
<1>15. a.stop \in Nat /\ b.stop \in Nat
  BY <1>5 DEF IsPoint
<1>16. \A s : Side(n, s) = IF a.stop < s * Parts THEN -1
                           ELSE IF a.stop > s * Parts THEN 1 ELSE 0
  BY DEF Side, a
<1>17. ASSUME NEW s \in DOMAIN crossings' PROVE \E k \in 1..(Len(points') - 1) : FirstBetween(s, k)'
  <2>1. CASE s \in DOMAIN crossings
    <3>1. PICK k \in 1..(n - 1) : FirstBetween(s, k)
      BY <1>0, <2>1 DEF CrossInv
    <3>2. /\ k \in 1..n /\ k + 1 \in 1..n /\ k \in 1..(Len(points') - 1) /\ 1 \in 1..n
          /\ \A m \in 1..k : m \in 1..n
      BY <1>3, <1>6
    <3>3. /\ points'[k] = points[k] /\ points'[k + 1] = points[k + 1]
          /\ crossings'[s] = crossings[s]
      BY <1>6, <1>8, <2>1, <3>2
    <3>4. \A m \in 1..k : Side(m, s)' = Side(m, s) /\ Side(1, s)' = Side(1, s)
      BY <1>12, <3>2
    <3>5. FirstBetween(s, k)'
      BY <3>1, <3>3, <3>4 DEF FirstBetween
    <3> QED BY <3>2, <3>5
  <2>2. CASE s \notin DOMAIN crossings
    <3>1. s \in Spanned(a, b) /\ crossings'[s] = CrossedAt(a, b, s) /\ s \in StopNumbers
      BY <1>8, <2>2 DEF Spanned
    <3>2. points'[n] = a /\ points'[n + 1] = b /\ n \in 1..(Len(points') - 1)
      BY <1>3, <1>6 DEF a
    <3> DEFINE c == CrossedAt(a, b, s)
    <3>3. /\ ~Earlier(c, Instant(a.time)) /\ ~Earlier(Instant(b.time), c)
          /\ (c.num - a.time * c.den) * (b.stop - a.stop)
                = (s * Parts - a.stop) * (b.time - a.time) * c.den
          /\ a.stop = s * Parts => c.num = a.time * c.den
      BY <1>5, <3>1, OnTheLine
    <3>0. crossings'[s] = c
      BY <3>1
    <3> HIDE DEF c
    <3>4. ASSUME NEW m \in 1..n
          PROVE  \/ Side(m, s)' # 0 /\ Side(m, s)' = Side(1, s)'
                 \/ m = n /\ c.num = a.time * c.den
      <4>1. Side(m, s)' = Side(m, s) /\ Side(1, s)' = Side(1, s)
        <5>1. 1 \in 1..n
          BY <1>3
        <5> QED BY <1>12, <5>1
      <4>2. CASE Side(m, s) # 0 /\ Side(m, s) = Side(1, s)
        BY <4>1, <4>2
      <4>3. CASE m = n /\ n = 1
        <5>1. CASE a.stop = s * Parts
          BY <3>3, <4>3, <5>1
        <5>2. CASE a.stop # s * Parts
          <6>1. s * Parts \in Nat
            BY <1>14, <3>1
          <6>2. Side(n, s) # 0
            BY <1>15, <1>16, <5>2, <6>1
          <6> QED BY <4>1, <4>3, <6>2
        <5> QED BY <5>1, <5>2
      <4> QED BY <1>13, <2>2, <3>1, <4>2, <4>3
    <3>5. FirstBetween(s, n)'
      BY <3>0, <3>1, <3>2, <3>3, <3>4 DEF FirstBetween
    <3> QED BY <3>2, <3>5
  <2> QED BY <2>1, <2>2
<1>18. ASSUME NEW s \in StopNumbers \ DOMAIN crossings', NEW k \in 1..(n + 1)
       PROVE  Side(k, s)' # 0 /\ Side(k, s)' = Side(1, s)'
  <2>1. s \in StopNumbers \ DOMAIN crossings /\ s \notin Spanned(a, b)
    BY <1>8, <1>18
  <2>2. s * Parts \in Nat
    BY <1>14
  <2>3. \/ a.stop < s * Parts /\ b.stop < s * Parts
        \/ a.stop > s * Parts /\ b.stop > s * Parts
    BY <1>15, <2>1, <2>2 DEF Spanned, Lower, Higher
  <2>4. Side(n + 1, s)' = IF b.stop < s * Parts THEN -1
                          ELSE IF b.stop > s * Parts THEN 1 ELSE 0
    BY <1>6 DEF Side
  <2>5. Side(n + 1, s)' = Side(n, s) /\ Side(n, s) # 0
    BY <1>15, <1>16, <2>2, <2>3, <2>4
  <2>6. 1 \in 1..n /\ n \in 1..n
    BY <1>3
  <2>7. \A j \in 1..n : Side(j, s) # 0 /\ Side(j, s) = Side(1, s)
    BY <1>13, <2>1, <2>5
  <2>8. Side(1, s)' = Side(1, s)
    BY <1>12, <2>6
  <2>9. CASE k \in 1..n
    BY <1>12, <2>7, <2>8, <2>9
  <2>10. CASE k = n + 1
    <3>1. Side(n, s) = Side(1, s)
      BY <2>6, <2>7
    <3>2. Side(k, s)' = Side(n + 1, s)'
      BY <2>10
    <3> QED BY <2>5, <2>8, <3>1, <3>2
  <2>11. k \in 1..n \/ k = n + 1
    BY <1>3
  <2> QED BY <2>9, <2>10, <2>11
<1>19. PassesTyped'
  BY <1>2, SamePasses
<1> QED BY <1>2, <1>6, <1>7, <1>11, <1>17, <1>18, <1>19 DEF CrossInv, IsPass

(* The crossings of a bus are put with those of the buses before.          *)
LEMMA PointsEndHolds == CrossInv /\ PointsEnd => CrossInv'
<1> SUFFICES ASSUME CrossInv, PointsEnd PROVE CrossInv'
  OBVIOUS
<1>1. /\ passing = "scan" /\ passing' = "scan"
      /\ passes' = Append(passes, crossings)
      /\ points' = << >> /\ crossings' = << >>
  BY DEF PointsEnd
<1>2. Len(points') = 0 /\ DOMAIN points' = {} /\ DOMAIN crossings' = {}
  BY <1>1
<1>3. PICK n \in Nat : n = Len(passes) /\ DOMAIN passes = 1..n /\ \A b \in 1..n : IsPass(passes[b])
  BY DEF CrossInv, PassesTyped
<1>4. /\ Len(passes') = n + 1 /\ DOMAIN passes' = 1..(n + 1)
      /\ passes'[n + 1] = crossings /\ \A b \in 1..n : passes'[b] = passes[b]
  BY <1>1, <1>3
<1>5. IsPass(crossings)
  BY DEF CrossInv
<1>6. \A b \in 1..(n + 1) : IsPass(passes'[b])
  BY <1>3, <1>4, <1>5
<1>7. PassesTyped'
  BY <1>3, <1>4, <1>6 DEF PassesTyped, IsPass
<1> QED BY <1>1, <1>2, <1>7 DEF CrossInv, PointsTyped, IsPass

(* A step that leaves points, crossings and passes alone.                  *)
LEMMA KeepCrossings ==
    ASSUME CrossInv, UNCHANGED <<points, crossings, passes>>,
           passing' \in {"idle", "scan", "shown"},
           passing' # "scan" => points = << >>,
           passing' = "shown" => flagged' = Tagged
    PROVE  CrossInv'
<1>1. Tagged' = Tagged
  BY DEF Tagged, PassesAt, NextToPass, PassesBefore, SoonAfter
<1>2. \A s, k : FirstBetween(s, k)' = FirstBetween(s, k) /\ Side(k, s)' = Side(k, s)
  BY DEF FirstBetween, Side
<1> QED BY <1>1, <1>2 DEF CrossInv, PointsTyped, PassesTyped, IsPass

(* What was computed is forgotten.                                         *)
LEMMA CrossDoneHolds == CrossInv /\ CrossDone => CrossInv'
<1> SUFFICES ASSUME CrossInv, CrossDone PROVE CrossInv'
  OBVIOUS
<1>1. passing' = "idle" /\ passes' = << >> /\ UNCHANGED <<points, crossings>> /\ points = << >>
  BY DEF CrossDone, CrossInv
<1>2. Len(points) = 0 /\ DOMAIN points = {}
  BY <1>1
<1>3. DOMAIN crossings = {}
  <2>1. 1..(Len(points) - 1) = {}
    BY <1>2
  <2> QED BY <2>1 DEF CrossInv
<1>4. PassesTyped'
  BY <1>1 DEF PassesTyped
<1> QED BY <1>1, <1>2, <1>3, <1>4 DEF CrossInv, PointsTyped, IsPass

LEMMA CrossStepHolds == CrossInv /\ [CrossNext]_crossVars => CrossInv'
<1> SUFFICES ASSUME CrossInv, [CrossNext]_crossVars PROVE CrossInv'
  OBVIOUS
<1>1. CASE ShowBunches
  BY <1>1, KeepCrossings DEF ShowBunches
<1>2. CASE UNCHANGED crossVars
  BY <1>2, KeepCrossings DEF crossVars, CrossInv
<1> QED BY <1>1, <1>2, FirstPointHolds, NextPointHolds, PointsEndHolds, CrossDoneHolds
        DEF CrossNext

(* What has been crossed of each bus, in every state of the pass.          *)
THEOREM CrossInvariant == CrossSpec => []CrossInv
  BY CrossInitHolds, CrossStepHolds, PTL DEF CrossSpec

(* Each bus is put down at the first instant its track is at a stop, for   *)
(* every stop on its way and no other, however many points it has          *)
(* (_first_crossings).                                                     *)
THEOREM FirstPassageRight == Spec => []FirstPassage
<1>1. CrossInv => FirstPassage
  BY CrossingsAreFirst
<1> QED BY <1>1, CrossInvariant, PartsOfSpec, PTL

-----------------------------------------------------------------------------
(* The buses of a stop are in one order, by time and then by number.       *)
LEMMA PassesInOrder ==
    ASSUME CrossInv, NEW s \in StopNumbers,
           NEW x \in PassesAt(s), NEW y \in PassesAt(s), NEW z \in PassesAt(s)
    PROVE  /\ IsFraction(passes[x][s])
           /\ x # y => PassesBefore(s, x, y) \/ PassesBefore(s, y, x)
           /\ PassesBefore(s, x, y) => ~PassesBefore(s, y, x)
           /\ PassesBefore(s, x, y) /\ PassesBefore(s, y, z) => PassesBefore(s, x, z)
<1> DEFINE a == passes[x][s]
           b == passes[y][s]
           c == passes[z][s]
<1>1. /\ x \in Nat /\ y \in Nat /\ z \in Nat
      /\ IsFraction(a) /\ IsFraction(b) /\ IsFraction(c)
  BY DEF PassesAt, CrossInv, PassesTyped, IsPass
<1>2. /\ PassesBefore(s, x, y) <=> Earlier(a, b) \/ (~Earlier(b, a) /\ x < y)
      /\ PassesBefore(s, y, x) <=> Earlier(b, a) \/ (~Earlier(a, b) /\ y < x)
      /\ PassesBefore(s, y, z) <=> Earlier(b, c) \/ (~Earlier(c, b) /\ y < z)
      /\ PassesBefore(s, x, z) <=> Earlier(a, c) \/ (~Earlier(c, a) /\ x < z)
  BY DEF PassesBefore
<1> HIDE DEF a, b, c
<1>3. Earlier(a, b) => ~Earlier(b, a)
  BY <1>1, EarlierThrough
<1>4. /\ ~Earlier(b, a) /\ Earlier(b, c) => Earlier(a, c)
      /\ Earlier(a, b) /\ ~Earlier(c, b) => Earlier(a, c)
      /\ Earlier(b, c) => ~Earlier(c, b)
  BY <1>1, EarlierThrough
<1>5. /\ Earlier(c, a) /\ ~Earlier(b, a) => Earlier(c, b)
  BY <1>1, EarlierThrough
<1>6. x < y /\ y < z => x < z
  BY <1>1
<1>7. x # y => x < y \/ y < x
  BY <1>1
<1>8. ~(x < y /\ y < x)
  BY <1>1
<1>9. x # y => PassesBefore(s, x, y) \/ PassesBefore(s, y, x)
  BY <1>2, <1>7
<1>10. PassesBefore(s, x, y) => ~PassesBefore(s, y, x)
  BY <1>2, <1>3, <1>8
<1>11. PassesBefore(s, x, y) /\ PassesBefore(s, y, z) => PassesBefore(s, x, z)
  BY <1>2, <1>3, <1>4, <1>5, <1>6
<1> QED BY <1>1, <1>9, <1>10, <1>11 DEF a

(* A bus that follows another below the threshold, first of those that pass*)
(* with it, is flagged behind the last of those that were earlier.         *)
LEMMA FollowerIsTagged ==
    ASSUME CrossInv, NEW s \in StopNumbers, NEW a \in PassesAt(s), NEW b \in PassesAt(s),
           SoonAfter(s, a, b), FirstTogether(s, b)
    PROVE  [bus |-> b, stop |-> s] \in Tagged
<1> USE CrossingsAssumption
<1> DEFINE f(x) == passes[x][s]
<1>1. PICK n \in Nat : n = Len(passes) /\ PassesAt(s) \subseteq 1..n
  BY DEF CrossInv, PassesTyped, PassesAt
<1>2. \A x \in PassesAt(s) : IsFraction(f(x))
  BY PassesInOrder
<1>3. \A x, y, z \in PassesAt(s) :
         /\ ~Earlier(f(y), f(x)) /\ Earlier(f(y), f(z)) => Earlier(f(x), f(z))
         /\ Earlier(f(x), f(y)) /\ ~Earlier(f(z), f(y)) => Earlier(f(x), f(z))
         /\ Earlier(f(x), f(y)) => ~Earlier(f(y), f(x))
  <2> SUFFICES ASSUME NEW x \in PassesAt(s), NEW y \in PassesAt(s), NEW z \in PassesAt(s)
               PROVE  /\ ~Earlier(f(y), f(x)) /\ Earlier(f(y), f(z)) => Earlier(f(x), f(z))
                      /\ Earlier(f(x), f(y)) /\ ~Earlier(f(z), f(y)) => Earlier(f(x), f(z))
                      /\ Earlier(f(x), f(y)) => ~Earlier(f(y), f(x))
    OBVIOUS
  <2>1. IsFraction(f(x)) /\ IsFraction(f(y)) /\ IsFraction(f(z))
    BY <1>2
  <2> HIDE DEF f
  <2> QED BY <2>1, EarlierThrough
<1>4. Earlier(f(a), f(b)) /\ Earlier(f(b), Plus(f(a), Threshold))
  BY DEF SoonAfter
<1> HIDE DEF f
<1> DEFINE ahead == {x \in PassesAt(s) : Earlier(f(x), f(b))}
           R == {e \in ahead \X ahead : PassesBefore(s, e[1], e[2])}
<1>5. a \in ahead
  BY <1>4
<1>6. PICK p \in ahead : \A x \in ahead : x = p \/ PassesBefore(s, x, p)
  <2>1. ahead \subseteq 1..n /\ ahead # {} /\ ahead \subseteq PassesAt(s)
    BY <1>1, <1>5
  <2>2. \A x, y \in ahead : <<x, y>> \in R <=> PassesBefore(s, x, y)
    OBVIOUS
  <2> HIDE DEF ahead, R
  <2>3. \A x, y \in ahead : x # y => <<x, y>> \in R \/ <<y, x>> \in R
    BY <2>1, <2>2, PassesInOrder
  <2>4. \A x, y, z \in ahead : <<x, y>> \in R /\ <<y, z>> \in R => <<x, z>> \in R
    BY <2>1, <2>2, PassesInOrder
  <2>5. IsOrderOf(R, ahead)
    BY <2>3, <2>4 DEF IsOrderOf
  <2>6. \E m \in ahead : \A k \in ahead : k = m \/ <<k, m>> \in R
    <3>1. \E i \in Nat : ahead \subseteq 1..i
      BY <2>1
    <3> QED BY ONLY <2>1, <2>5, <3>1, LastOfSome, Zenon
  <2> QED BY <2>2, <2>6
<1>7. p \in PassesAt(s) /\ Earlier(f(p), f(b))
  OBVIOUS
<1>8. PassesBefore(s, p, b)
  BY <1>7 DEF PassesBefore, f
<1>9. NextToPass(s, p, b)
  <2>1. ASSUME NEW d \in PassesAt(s), PassesBefore(s, p, d), PassesBefore(s, d, b) PROVE FALSE
    <3>1. CASE d \in ahead
      BY <1>6, <1>7, <2>1, <3>1, PassesInOrder
    <3>2. CASE d \notin ahead
      <4>1. ~Earlier(f(d), f(b)) /\ ~Earlier(f(b), f(d)) /\ d < b
        BY <2>1, <3>2 DEF PassesBefore, f
      <4> QED BY <2>1, <4>1 DEF FirstTogether, f
    <3> QED BY <3>1, <3>2
  <2> QED BY <1>8, <2>1 DEF NextToPass
<1>10. Earlier(f(b), Plus(f(p), Threshold))
  <2>1. ~Earlier(f(p), f(a))
    <3>1. a = p \/ PassesBefore(s, a, p)
      BY <1>5, <1>6
    <3> QED BY <1>3, <1>7, <3>1 DEF PassesBefore, f
  <2>2. IsFraction(f(a)) /\ IsFraction(f(b)) /\ IsFraction(f(b)) /\ IsFraction(f(p))
    BY <1>2, <1>7
  <2>3. IsFraction(Plus(f(a), Threshold)) /\ IsFraction(Plus(f(p), Threshold))
    BY <2>2 DEF IsFraction, Plus
  <2>4. ~Earlier(Plus(f(p), Threshold), Plus(f(a), Threshold))
    <3> DEFINE i == f(p).num
               j == f(a).num
               k == f(p).den
               l == f(a).den
               t == Threshold
    <3>1. i \in Int /\ j \in Int /\ k \in Nat /\ l \in Nat /\ t \in Nat
      BY <2>2 DEF IsFraction
    <3>2. ~(i * l < j * k)
      BY <2>1 DEF Earlier
    <3> HIDE DEF i, j, k, l, t
    <3>3. (i + t * k) * l = i * l + t * k * l /\ (j + t * l) * k = j * k + t * k * l
      BY <3>1
    <3>4. i * l \in Int /\ j * k \in Int /\ t * k * l \in Int
      BY <3>1
    <3>5. ~((i + t * k) * l < (j + t * l) * k)
      BY <3>2, <3>3, <3>4
    <3> QED BY <3>5 DEF Earlier, Plus, i, j, k, l, t
  <2>5. Earlier(f(b), Plus(f(a), Threshold))
    BY <1>4, <2>2, <2>3, EarlierThrough
  <2> QED BY <2>2, <2>3, <2>4, <2>5, EarlierThrough
<1>11. SoonAfter(s, p, b)
  BY <1>7, <1>10 DEF SoonAfter, f
<1>12. [bus |-> b, stop |-> s] \in Tagged
  <2>1. p \in 1..Len(passes) /\ b \in 1..Len(passes)
    BY <1>1, <1>7
  <2> DEFINE y == <<s, p, b>>
  <2>2. /\ y \in StopNumbers \X (1..Len(passes)) \X (1..Len(passes))
        /\ y[1] = s /\ y[2] = p /\ y[3] = b
    BY <2>1
  <2> HIDE DEF y
  <2>3. /\ {y[2], y[3]} \subseteq PassesAt(y[1])
        /\ NextToPass(y[1], y[2], y[3])
        /\ SoonAfter(y[1], y[2], y[3])
    BY <1>7, <1>9, <1>11, <2>2
  <2>4. [bus |-> b, stop |-> s] = [bus |-> y[3], stop |-> y[1]]
    BY <2>2
  <2> QED BY <2>2, <2>3, <2>4 DEF Tagged
<1> QED BY <1>12

(* The converse: whoever is flagged follows below the threshold the bus     *)
(* that passes next before it, so nobody passes with it and ahead of it.   *)
LEMMA TaggedFollows ==
    ASSUME CrossInv, NEW e \in Tagged
    PROVE  /\ e \in [bus : 1..Len(passes), stop : StopNumbers]
           /\ e.bus \in PassesAt(e.stop)
           /\ \E a \in PassesAt(e.stop) : SoonAfter(e.stop, a, e.bus)
           /\ FirstTogether(e.stop, e.bus)
<1>1. PICK y \in StopNumbers \X (1..Len(passes)) \X (1..Len(passes)) :
         /\ e = [bus |-> y[3], stop |-> y[1]]
         /\ {y[2], y[3]} \subseteq PassesAt(y[1])
         /\ NextToPass(y[1], y[2], y[3])
         /\ SoonAfter(y[1], y[2], y[3])
  BY DEF Tagged
<1> DEFINE s == y[1]
           a == y[2]
           b == y[3]
<1>2. /\ s \in StopNumbers /\ a \in PassesAt(s) /\ b \in PassesAt(s)
      /\ e = [bus |-> b, stop |-> s]
      /\ NextToPass(s, a, b) /\ SoonAfter(s, a, b)
  BY <1>1
<1> HIDE DEF s, a, b
<1>3. ASSUME NEW c \in PassesAt(s), c < b,
             ~Earlier(passes[c][s], passes[b][s]), ~Earlier(passes[b][s], passes[c][s])
      PROVE  FALSE
  <2>1. /\ IsFraction(passes[a][s]) /\ IsFraction(passes[b][s]) /\ IsFraction(passes[c][s])
    <3>1. \A x \in PassesAt(s) : IsFraction(passes[x][s])
      BY <1>2, PassesInOrder
    <3> QED BY <1>2, <1>3, <3>1
  <2>2. Earlier(passes[a][s], passes[c][s])
    BY <1>2, <1>3, <2>1, EarlierThrough DEF SoonAfter
  <2>3. PassesBefore(s, a, c) /\ PassesBefore(s, c, b)
    BY <1>3, <2>2 DEF PassesBefore
  <2> QED BY <1>2, <2>3 DEF NextToPass
<1>4. FirstTogether(s, b)
  BY <1>3 DEF FirstTogether
<1>5. e.bus = b /\ e.stop = s /\ b \in 1..Len(passes)
  BY <1>2 DEF PassesAt
<1> QED BY <1>2, <1>4, <1>5

(* Exactly those are flagged that pass a stop after another bus by less    *)
(* than the threshold and first of those at their instant, for any buses   *)
(* (detect_bunch_events).                                                  *)
THEOREM FollowersRight == Spec => []FollowersFlagged
<1>1. CrossInv => FollowersFlagged
  <2> SUFFICES ASSUME CrossInv, passing = "shown" PROVE FollowersFlagged
    BY DEF FollowersFlagged
  <2>1. flagged = Tagged
    BY DEF CrossInv
  <2>2. ASSUME NEW e \in [bus : 1..Len(passes), stop : StopNumbers],
               e.bus \in PassesAt(e.stop), FirstTogether(e.stop, e.bus),
               NEW a \in PassesAt(e.stop), SoonAfter(e.stop, a, e.bus)
        PROVE  e \in Tagged
    <3>1. e.stop \in StopNumbers /\ e = [bus |-> e.bus, stop |-> e.stop]
      OBVIOUS
    <3>2. [bus |-> e.bus, stop |-> e.stop] \in Tagged
      BY <2>2, <3>1, FollowerIsTagged
    <3> QED BY <3>1, <3>2
  <2> QED BY <2>1, <2>2, TaggedFollows DEF FollowersFlagged
<1> QED BY <1>1, CrossInvariant, PartsOfSpec, PTL

-----------------------------------------------------------------------------
(***************************************************************************)
(* The buses of a slice and their episodes, for any rows, thresholds and   *)
(* number of vehicles.                                                     *)
(***************************************************************************)

BusRow == [time : Int, dist : Int, speed : -1..1, full : BOOLEAN]

(* The points of one key: some, in the order of their times.               *)
Track(P) ==
    /\ P \in Seq(BusRow)
    /\ Len(P) \in Nat \ {0}
    /\ \A i, j \in 1..Len(P) : i < j => P[i].time < P[j].time

(* The inner loop ends where the stale run does.                           *)
LEMMA RunEndRight ==
  ASSUME NEW P, Track(P), NEW i \in 1..Len(P), Stale(P[i])
  PROVE  /\ RunEnd(P, i) \in i..Len(P)
         /\ \A k \in i..RunEnd(P, i) : Stale(P[k])
         /\ RunEnd(P, i) < Len(P) => ~Stale(P[RunEnd(P, i) + 1])
         /\ \A j \in i..Len(P) : (\A k \in i..j : Stale(P[k])) => j <= RunEnd(P, i)
<1> DEFINE n == Len(P)
           S == {j \in i..n : \A k \in i..j : Stale(P[k])}
           Left == {n - j : j \in S}
<1>1. n \in Nat \ {0}
  BY DEF Track
<1>2. i \in S
  BY <1>1
<1> HIDE DEF n
<1>3. Left \subseteq Nat /\ Left # {}
  BY <1>1, <1>2
<1>4. PICK m \in Left : \A k \in Left : m <= k
  <2> HIDE DEF Left
  <2> QED BY <1>3, LeastMember
<1>5. PICK e \in S : m = n - e
  OBVIOUS
<1>6. \A j \in S : e >= j
  <2> SUFFICES ASSUME NEW j \in S PROVE e >= j
    OBVIOUS
  <2>1. m <= n - j
    BY <1>4
  <2> QED BY <1>1, <1>5, <2>1
<1>7. Max(S) \in S /\ \A j \in S : Max(S) >= j
  BY <1>5, <1>6 DEF Max
<1>8. RunEnd(P, i) = Max(S)
  BY DEF RunEnd, n
<1> DEFINE last == Max(S)
<1> HIDE DEF last
<1>9. last \in S /\ \A j \in S : last >= j
  BY <1>7 DEF last
<1>10. ASSUME last < n, Stale(P[last + 1]) PROVE FALSE
  <2>1. last + 1 \in i..n
    BY <1>1, <1>9, <1>10
  <2>2. \A k \in i..(last + 1) : k \in i..last \/ k = last + 1
    BY <1>9
  <2>3. last + 1 \in S
    BY <1>9, <1>10, <2>1, <2>2
  <2>4. last >= last + 1
    BY <1>9, <2>3
  <2> QED BY <1>9, <2>4
<1>11. last \in i..n /\ \A k \in i..last : Stale(P[k])
  BY <1>9
<1>12. \A j \in i..n : (\A k \in i..j : Stale(P[k])) => j <= last
  BY <1>9
<1> HIDE DEF S, Left
<1> QED BY <1>8, <1>10, <1>11, <1>12 DEF last, n

-----------------------------------------------------------------------------
(* The outer loop. What it finds from a point on is determined by what it  *)
(* finds from later points on.                                             *)
FoundFrom(P, found, i) ==
    IF i > Len(P) THEN << >>
    ELSE IF ~Stale(P[i]) THEN found[i + 1]
    ELSE (IF StaleSpan(P, i, RunEnd(P, i)) THEN <<<<i, RunEnd(P, i)>>>> ELSE << >>)
             \o found[RunEnd(P, i) + 1]

(* It depends on nothing earlier.                                          *)
LEMMA SameFound ==
  ASSUME NEW P, Track(P), NEW f, NEW g, NEW i \in 1..(Len(P) + 1),
         \A k \in (i + 1)..(Len(P) + 1) : f[k] = g[k]
  PROVE  FoundFrom(P, f, i) = FoundFrom(P, g, i)
<1>1. Len(P) \in Nat
  BY DEF Track
<1>2. CASE i > Len(P)
  BY <1>2 DEF FoundFrom
<1>3. CASE i <= Len(P) /\ ~Stale(P[i])
  <2>1. i + 1 \in (i + 1)..(Len(P) + 1)
    BY <1>1, <1>3
  <2>2. f[i + 1] = g[i + 1]
    BY <2>1
  <2> QED BY <1>3, <2>2 DEF FoundFrom
<1>4. CASE i <= Len(P) /\ Stale(P[i])
  <2>1. i \in 1..Len(P)
    BY <1>1, <1>4
  <2>2. RunEnd(P, i) \in i..Len(P)
    BY <1>4, <2>1, RunEndRight
  <2>3. RunEnd(P, i) + 1 \in (i + 1)..(Len(P) + 1)
    BY <1>1, <2>2
  <2>4. f[RunEnd(P, i) + 1] = g[RunEnd(P, i) + 1]
    BY <2>3
  <2> QED BY <1>4, <2>4 DEF FoundFrom
<1> QED BY <1>1, <1>2, <1>3, <1>4

(* Such a function exists, so that StaleRanges is one.                     *)
LEMMA FoundExists ==
  ASSUME NEW P, Track(P)
  PROVE  \E f : f = [i \in 1..(Len(P) + 1) |-> FoundFrom(P, f, i)]
<1> DEFINE n == Len(P)
           Right(f, d) == \A i \in (n + 1 - d)..(n + 1) : f[i] = FoundFrom(P, f, i)
           Bad == {d \in Nat : d <= n /\ ~\E f : Right(f, d)}
<1>1. n \in Nat
  BY DEF Track
<1> HIDE DEF n
<1>2. ASSUME Bad # {} PROVE FALSE
  <2>1. PICK d \in Bad : \A e \in Bad : d <= e
    <3>1. Bad \subseteq Nat
      OBVIOUS
    <3> HIDE DEF Bad
    <3> QED BY <1>2, <3>1, LeastMember
  <2>2. d \in Nat /\ d <= n /\ ~\E f : Right(f, d)
    OBVIOUS
  <2>3. CASE d = 0
    <3> DEFINE f == [i \in {n + 1} |-> << >>]
    <3>1. \A i \in (n + 1 - d)..(n + 1) : i = n + 1
      BY <1>1, <2>3
    <3>2. f[n + 1] = << >>
      OBVIOUS
    <3>3. FoundFrom(P, f, n + 1) = << >>
      BY <1>1 DEF FoundFrom, n
    <3> HIDE DEF f
    <3> QED BY <2>2, <3>1, <3>2, <3>3
  <2>4. CASE d # 0
    <3>1. d - 1 \in Nat /\ d - 1 <= n /\ ~(d <= d - 1)
      BY <1>1, <2>2, <2>4
    <3>2. PICK f : Right(f, d - 1)
      BY <2>1, <3>1
    <3> DEFINE b == n + 1 - d
    <3>3. b \in 1..n
      BY <1>1, <2>2, <2>4
    <3> DEFINE g == [i \in b..(n + 1) |-> IF i = b THEN FoundFrom(P, f, b) ELSE f[i]]
    <3>4. \A k \in (b + 1)..(n + 1) : g[k] = f[k] /\ f[k] = FoundFrom(P, f, k)
      <4>1. n + 1 - (d - 1) = b + 1
        BY <1>1, <2>2
      <4>2. \A k \in (b + 1)..(n + 1) : f[k] = FoundFrom(P, f, k)
        BY <3>2, <4>1
      <4>3. \A k \in (b + 1)..(n + 1) : k \in b..(n + 1) /\ k # b
        BY <1>1, <3>3
      <4> QED BY <4>2, <4>3
    <3>5. g[b] = FoundFrom(P, f, b)
      BY <1>1, <3>3
    <3> HIDE DEF b, g
    <3>6. \A i \in b..(n + 1) : g[i] = FoundFrom(P, g, i)
      <4> SUFFICES ASSUME NEW i \in b..(n + 1) PROVE g[i] = FoundFrom(P, g, i)
        OBVIOUS
      <4>1. \A k \in (i + 1)..(n + 1) : k \in (b + 1)..(n + 1)
        BY <1>1, <3>3
      <4>2. \A k \in (i + 1)..(n + 1) : f[k] = g[k]
        BY <3>4, <4>1
      <4>3. i \in 1..(n + 1)
        BY <1>1, <3>3
      <4>4. FoundFrom(P, f, i) = FoundFrom(P, g, i)
        BY <4>2, <4>3, SameFound DEF n
      <4>5. i = b \/ i \in (b + 1)..(n + 1)
        BY <1>1, <3>3
      <4> QED BY <3>4, <3>5, <4>4, <4>5
    <3>7. Right(g, d)
      BY <3>6 DEF b
    <3> QED BY <2>2, <3>7
  <2> QED BY <2>3, <2>4
<1>3. PICK f : Right(f, n)
  <2>1. n \notin Bad
    <3> HIDE DEF Bad
    <3> QED BY <1>2
  <2> HIDE DEF Right
  <2> QED BY <1>1, <2>1
<1>4. \A i \in 1..(n + 1) : f[i] = FoundFrom(P, f, i)
  BY <1>1, <1>3
<1> DEFINE g == [i \in 1..(n + 1) |-> f[i]]
<1>5. \A i \in 1..(n + 1) : FoundFrom(P, f, i) = FoundFrom(P, g, i)
  <2> SUFFICES ASSUME NEW i \in 1..(n + 1) PROVE FoundFrom(P, f, i) = FoundFrom(P, g, i)
    OBVIOUS
  <2>1. \A k \in (i + 1)..(n + 1) : k \in 1..(n + 1)
    BY <1>1
  <2>2. \A k \in (i + 1)..(n + 1) : f[k] = g[k]
    BY <2>1
  <2> HIDE DEF g
  <2> QED BY <2>2, SameFound DEF n
<1>6. g = [i \in 1..(n + 1) |-> FoundFrom(P, g, i)]
  <2>1. \A i \in 1..(n + 1) : f[i] = FoundFrom(P, g, i)
    BY <1>4, <1>5
  <2> QED BY <2>1
<1> QED BY <1>6 DEF n

LEMMA StaleRangesFound ==
  ASSUME NEW P, Track(P)
  PROVE  \E f : /\ StaleRanges(P) = f[1]
                /\ \A i \in 1..(Len(P) + 1) : f[i] = FoundFrom(P, f, i)
<1> DEFINE rule(f, i) == IF i > Len(P) THEN << >>
                         ELSE IF ~Stale(P[i]) THEN f[i + 1]
                         ELSE LET j == RunEnd(P, i)
                              IN (IF StaleSpan(P, i, j) THEN <<<<i, j>>>> ELSE << >>) \o f[j + 1]
           from == CHOOSE f : f = [i \in 1..(Len(P) + 1) |-> rule(f, i)]
<1>1. StaleRanges(P) = from[1]
  BY DEF StaleRanges
<1>2. \A f, i : rule(f, i) = FoundFrom(P, f, i)
  BY DEF FoundFrom
<1>3. \E f : f = [i \in 1..(Len(P) + 1) |-> rule(f, i)]
  <2>1. PICK f : f = [i \in 1..(Len(P) + 1) |-> FoundFrom(P, f, i)]
    BY FoundExists
  <2> HIDE DEF rule
  <2>2. f = [i \in 1..(Len(P) + 1) |-> rule(f, i)]
    BY <1>2, <2>1
  <2> QED BY <2>2
<1>4. from = [i \in 1..(Len(P) + 1) |-> rule(from, i)]
  BY <1>3
<1> HIDE DEF from, rule
<1>5. \A i \in 1..(Len(P) + 1) : from[i] = rule(from, i)
  BY <1>4
<1> QED BY <1>1, <1>2, <1>5

-----------------------------------------------------------------------------
(* The standstills of the minimum length, whole.                           *)
LongRuns(P) ==
    {r \in (1..Len(P)) \X (1..Len(P)) :
        /\ r[1] <= r[2]
        /\ \A k \in r[1]..r[2] : Stale(P[k])
        /\ r[1] > 1 => ~Stale(P[r[1] - 1])
        /\ r[2] < Len(P) => ~Stale(P[r[2] + 1])
        /\ StaleSpan(P, r[1], r[2])}

(* R holds those that begin at i or later, in their order.                 *)
RangesFrom(P, i, R) ==
    /\ R \in Seq(Nat \X Nat)
    /\ \A r \in 1..Len(R) : R[r] \in LongRuns(P) /\ R[r][1] >= i
    /\ \A r, s \in 1..Len(R) : r < s => R[r][2] < R[s][1]
    /\ \A x \in LongRuns(P) : x[1] >= i => \E r \in 1..Len(R) : R[r] = x

(* Where the outer loop may come to.                                       *)
LoopAt(P, i) ==
    i \in {1, Len(P) + 1} \/ (i \in 2..Len(P) /\ ~(Stale(P[i]) /\ Stale(P[i - 1])))

LEMMA LongRunOf ==
  ASSUME NEW P, Track(P), NEW x \in LongRuns(P)
  PROVE  /\ x[1] \in 1..Len(P) /\ x[2] \in 1..Len(P) /\ x[1] <= x[2]
         /\ x = <<x[1], x[2]>>
         /\ \A k \in x[1]..x[2] : Stale(P[k])
         /\ x[1] > 1 => ~Stale(P[x[1] - 1])
         /\ x[2] < Len(P) => ~Stale(P[x[2] + 1])
  BY DEF LongRuns

(* The standstill that the loop has found at i is the only one that begins *)
(* before the end of the run.                                              *)
LEMMA OneRun ==
  ASSUME NEW P, Track(P), NEW i \in 1..Len(P), Stale(P[i]),
         NEW x \in LongRuns(P), x[1] >= i, x[1] <= RunEnd(P, i)
  PROVE  x = <<i, RunEnd(P, i)>>
<1> DEFINE j == RunEnd(P, i)
<1>1. /\ j \in i..Len(P) /\ \A k \in i..j : Stale(P[k])
      /\ j < Len(P) => ~Stale(P[j + 1])
      /\ \A m \in i..Len(P) : (\A k \in i..m : Stale(P[k])) => m <= j
  BY RunEndRight
<1>2. Len(P) \in Nat
  BY DEF Track
<1> HIDE DEF j
<1>3. x[1] = i
  <2> SUFFICES ASSUME x[1] # i PROVE FALSE
    OBVIOUS
  <2>1. x[1] \in 1..Len(P) /\ (x[1] > 1 => ~Stale(P[x[1] - 1]))
    BY LongRunOf
  <2>2. x[1] - 1 \in i..j /\ x[1] > 1
    BY <1>1, <1>2, <2>1 DEF j
  <2> QED BY <1>1, <2>1, <2>2
<1>4. x[2] \in i..Len(P) /\ (\A k \in i..x[2] : Stale(P[k])) /\ (x[2] < Len(P) => ~Stale(P[x[2] + 1]))
  BY <1>2, <1>3, LongRunOf
<1>5. x[2] <= j
  BY <1>1, <1>4
<1>6. x[2] >= j
  <2> SUFFICES ASSUME x[2] < j PROVE FALSE
    BY <1>1, <1>4
  <2>1. x[2] + 1 \in i..j /\ x[2] < Len(P)
    BY <1>1, <1>2, <1>4
  <2> QED BY <1>1, <1>4, <2>1
<1>7. x[2] = j
  BY <1>1, <1>4, <1>5, <1>6
<1> QED BY <1>3, <1>7, LongRunOf DEF j

LEMMA FoundRight ==
  ASSUME NEW P, Track(P), NEW f,
         \A i \in 1..(Len(P) + 1) : f[i] = FoundFrom(P, f, i),
         NEW i \in 1..(Len(P) + 1), LoopAt(P, i),
         \A m \in (i + 1)..(Len(P) + 1) : LoopAt(P, m) => RangesFrom(P, m, f[m])
  PROVE  RangesFrom(P, i, f[i])
<1> DEFINE n == Len(P)
<1>1. n \in Nat \ {0}
  BY DEF Track
<1>2. f[i] = FoundFrom(P, f, i)
  OBVIOUS
<1>3. CASE i = n + 1
  <2>1. f[i] = << >>
    BY <1>1, <1>2, <1>3 DEF FoundFrom
  <2>2. \A x \in LongRuns(P) : ~(x[1] >= i)
    BY <1>1, <1>3, LongRunOf
  <2> QED BY <2>1, <2>2 DEF RangesFrom
<1>4. CASE i # n + 1 /\ ~Stale(P[i])
  <2>1. i \in 1..n /\ i + 1 \in (i + 1)..(n + 1)
    BY <1>1, <1>4
  <2>2. f[i] = f[i + 1]
    BY <1>1, <1>2, <1>4, <2>1 DEF FoundFrom
  <2>3. LoopAt(P, i + 1)
    <3>1. i + 1 = n + 1 \/ i + 1 \in 2..n
      BY <1>1, <2>1
    <3>2. i + 1 - 1 = i
      BY <2>1
    <3> QED BY <1>4, <3>1, <3>2 DEF LoopAt
  <2>4. RangesFrom(P, i + 1, f[i])
    BY <2>1, <2>2, <2>3
  <2>5. \A x \in LongRuns(P) : x[1] >= i => x[1] >= i + 1
    <3> SUFFICES ASSUME NEW x \in LongRuns(P), x[1] >= i, x[1] = i PROVE FALSE
      BY <1>1, <2>1, LongRunOf
    <3>1. x[1] \in x[1]..x[2]
      BY LongRunOf
    <3> QED BY <1>4, <3>1, LongRunOf
  <2>6. \A x \in LongRuns(P) : x[1] >= i + 1 => x[1] >= i
    BY <1>1, <2>1, LongRunOf
  <2> QED BY <2>4, <2>5, <2>6 DEF RangesFrom
<1>5. CASE i # n + 1 /\ Stale(P[i])
  <2> DEFINE j == RunEnd(P, i)
             Q == f[j + 1]
  <2>1. i \in 1..n
    BY <1>1, <1>5
  <2>2. /\ j \in i..n /\ \A k \in i..j : Stale(P[k])
        /\ j < n => ~Stale(P[j + 1])
    BY <1>5, <2>1, RunEndRight
  <2>3. f[i] = (IF StaleSpan(P, i, j) THEN <<<<i, j>>>> ELSE << >>) \o Q
    <3>1. ~(i > Len(P))
      BY <1>1, <2>1
    <3>2. FoundFrom(P, f, i)
            = (IF StaleSpan(P, i, RunEnd(P, i)) THEN <<<<i, RunEnd(P, i)>>>> ELSE << >>)
                 \o f[RunEnd(P, i) + 1]
      BY <1>5, <3>1, Zenon DEF FoundFrom
    <3> QED BY <1>2, <3>2, Zenon
  <2>4. \A x \in LongRuns(P) : x[1] >= i => x = <<i, j>> \/ x[1] >= j + 1
    <3> SUFFICES ASSUME NEW x \in LongRuns(P), x[1] >= i, ~(x[1] >= j + 1)
                 PROVE  x = <<i, j>>
      OBVIOUS
    <3>1. x[1] \in 1..n
      BY LongRunOf
    <3>2. x[1] <= j
      BY <1>1, <2>1, <2>2, <3>1
    <3> QED BY <1>5, <2>1, <3>2, OneRun
  <2> HIDE DEF j
  <2>5. j + 1 \in (i + 1)..(n + 1)
    BY <1>1, <2>1, <2>2
  <2>6. LoopAt(P, j + 1)
    <3>1. j + 1 = n + 1 \/ (j + 1 \in 2..n /\ j < n)
      BY <1>1, <2>1, <2>2
    <3> QED BY <2>2, <3>1 DEF LoopAt
  <2>7. RangesFrom(P, j + 1, Q)
    BY <2>5, <2>6
  <2> HIDE DEF Q
  <2>8. Q \in Seq(Nat \X Nat) /\ Len(Q) \in Nat
    BY <2>7 DEF RangesFrom
  <2>9. CASE ~StaleSpan(P, i, j)
    <3>1. f[i] = Q
      BY <2>3, <2>8, <2>9
    <3>2. \A x \in LongRuns(P) : x[1] >= i => x[1] >= j + 1
      BY <2>4, <2>9 DEF LongRuns
    <3>3. \A x \in LongRuns(P) : x[1] >= j + 1 => x[1] >= i
      BY <1>1, <2>1, <2>2, LongRunOf
    <3> QED BY <2>7, <3>1, <3>2, <3>3 DEF RangesFrom
  <2>10. CASE StaleSpan(P, i, j)
    <3> DEFINE R == <<<<i, j>>>> \o Q
    <3>1. f[i] = R
      BY <2>3, <2>10
    <3>2. /\ R \in Seq(Nat \X Nat) /\ Len(R) = Len(Q) + 1 /\ R[1] = <<i, j>>
          /\ \A r \in 2..Len(R) : r - 1 \in 1..Len(Q) /\ R[r] = Q[r - 1]
      <4>1. <<i, j>> \in Nat \X Nat
        BY <1>1, <2>1, <2>2
      <4>2. <<<<i, j>>>> \in Seq(Nat \X Nat) /\ Len(<<<<i, j>>>>) = 1
        BY <4>1
      <4> QED BY <2>8, <4>2
    <3> HIDE DEF R
    <3>3. <<i, j>> \in LongRuns(P)
      <4>1. i > 1 => ~Stale(P[i - 1])
        <5> SUFFICES ASSUME i > 1 PROVE ~Stale(P[i - 1])
          OBVIOUS
        <5>1. i \in 2..Len(P) /\ i \notin {1, Len(P) + 1}
          BY <1>1, <2>1
        <5> QED BY <1>5, <5>1 DEF LoopAt
      <4> QED BY <1>1, <2>1, <2>2, <2>10, <4>1 DEF LongRuns
    <3>4. \A r \in 1..Len(R) : R[r] \in LongRuns(P) /\ R[r][1] >= i
      <4> SUFFICES ASSUME NEW r \in 1..Len(R) PROVE R[r] \in LongRuns(P) /\ R[r][1] >= i
        OBVIOUS
      <4>1. CASE r = 1
        <5>1. R[r] = <<i, j>> /\ <<i, j>>[1] = i /\ i >= i
          BY <2>1, <3>2, <4>1
        <5> QED BY <3>3, <5>1
      <4>2. CASE r # 1
        <5>1. r \in 2..Len(R)
          BY <2>8, <3>2, <4>2
        <5>2. Q[r - 1] \in LongRuns(P) /\ Q[r - 1][1] >= j + 1
          BY <2>7, <3>2, <5>1 DEF RangesFrom
        <5>3. Q[r - 1][1] \in 1..n
          BY <5>2, LongRunOf
        <5>4. R[r] = Q[r - 1]
          BY <3>2, <5>1
        <5>5. Q[r - 1][1] >= i
          BY <1>1, <2>1, <2>2, <5>2, <5>3
        <5> QED BY <5>2, <5>4, <5>5
      <4> QED BY <4>1, <4>2
    <3>5. \A r, s \in 1..Len(R) : r < s => R[r][2] < R[s][1]
      <4> SUFFICES ASSUME NEW r \in 1..Len(R), NEW s \in 1..Len(R), r < s
                   PROVE  R[r][2] < R[s][1]
        OBVIOUS
      <4>1. s \in 2..Len(R)
        BY <2>8, <3>2
      <4>2. s - 1 \in 1..Len(Q) /\ R[s] = Q[s - 1]
        BY <3>2, <4>1
      <4>3. CASE r = 1
        <5>1. Q[s - 1] \in LongRuns(P) /\ Q[s - 1][1] >= j + 1
          BY <2>7, <4>2 DEF RangesFrom
        <5>2. Q[s - 1][1] \in 1..n
          BY <5>1, LongRunOf
        <5>3. R[r][2] = j
          BY <3>2, <4>3
        <5> QED BY <1>1, <2>1, <2>2, <4>2, <5>1, <5>2, <5>3
      <4>4. CASE r # 1
        <5>1. r \in 2..Len(R)
          BY <2>8, <3>2, <4>4
        <5>2. r - 1 \in 1..Len(Q) /\ R[r] = Q[r - 1]
          BY <3>2, <5>1
        <5>3. r - 1 < s - 1
          BY <2>8, <3>2
        <5>4. Q[r - 1][2] < Q[s - 1][1]
          BY <2>7, <4>2, <5>2, <5>3 DEF RangesFrom
        <5> QED BY <4>2, <5>2, <5>4
      <4> QED BY <4>3, <4>4
    <3>6. \A x \in LongRuns(P) : x[1] >= i => \E r \in 1..Len(R) : R[r] = x
      <4> SUFFICES ASSUME NEW x \in LongRuns(P), x[1] >= i
                   PROVE  \E r \in 1..Len(R) : R[r] = x
        OBVIOUS
      <4>1. CASE x = <<i, j>>
        <5>1. 1 \in 1..Len(R)
          BY <2>8, <3>2
        <5> QED BY <3>2, <4>1, <5>1
      <4>2. CASE x[1] >= j + 1
        <5>1. PICK q \in 1..Len(Q) : Q[q] = x
          BY <2>7, <4>2 DEF RangesFrom
        <5>2. q + 1 \in 2..Len(R) /\ q + 1 \in 1..Len(R) /\ (q + 1) - 1 = q
          BY <2>8, <3>2, <5>1
        <5>3. R[q + 1] = x
          BY <3>2, <5>1, <5>2
        <5> QED BY <5>2, <5>3
      <4> QED BY <2>4, <4>1, <4>2
    <3> QED BY <3>1, <3>2, <3>4, <3>5, <3>6 DEF RangesFrom
  <2> QED BY <2>9, <2>10
<1> QED BY <1>3, <1>4, <1>5

(* The loops find the standstills of the minimum length, in their order.   *)
LEMMA StaleRangesRight ==
  ASSUME NEW P, Track(P)
  PROVE  RangesFrom(P, 1, StaleRanges(P))
<1> DEFINE n == Len(P)
<1>1. n \in Nat \ {0}
  BY DEF Track
<1>2. PICK f : /\ StaleRanges(P) = f[1]
               /\ \A i \in 1..(n + 1) : f[i] = FoundFrom(P, f, i)
  BY StaleRangesFound
<1> DEFINE Wrong(i) == LoopAt(P, i) /\ ~RangesFrom(P, i, f[i])
           Left == {n + 1 - i : i \in {k \in 1..(n + 1) : Wrong(k)}}
<1>3. ASSUME NEW i \in 1..(n + 1), Wrong(i) PROVE FALSE
  <2>1. Left \subseteq Nat /\ Left # {}
    <3> HIDE DEF Wrong
    <3> QED BY <1>1, <1>3
  <2>2. PICK d \in Left : \A e \in Left : d <= e
    <3> HIDE DEF Left
    <3> QED BY <2>1, LeastMember
  <2>3. PICK b \in 1..(n + 1) : Wrong(b) /\ d = n + 1 - b
    OBVIOUS
  <2>4. \A m \in (b + 1)..(n + 1) : ~Wrong(m)
    <3> SUFFICES ASSUME NEW m \in (b + 1)..(n + 1), Wrong(m) PROVE FALSE
      OBVIOUS
    <3>1. m \in 1..(n + 1)
      BY <1>1, <2>3
    <3>2. n + 1 - m \in Left
      BY <3>1
    <3>3. d <= n + 1 - m
      BY <2>2, <3>2
    <3> QED BY <1>1, <2>3, <3>1, <3>3
  <2> HIDE DEF Left
  <2> QED BY <1>2, <2>3, <2>4, FoundRight
<1>4. LoopAt(P, 1)
  BY DEF LoopAt
<1>5. 1 \in 1..(n + 1)
  BY <1>1
<1> QED BY <1>2, <1>3, <1>4, <1>5

-----------------------------------------------------------------------------
(* A ghost point is one of a standstill of the minimum length.             *)
LEMMA GhostInRun ==
  ASSUME NEW P, Track(P), NEW k \in 1..Len(P)
  PROVE  Ghost(P, k) <=> \E x \in LongRuns(P) : x[1] <= k /\ k <= x[2]
<1> DEFINE n == Len(P)
<1>1. n \in Nat \ {0} /\ \A i \in 1..n : P[i].time \in Int
  <2>1. P \in Seq(BusRow) /\ n \in Nat \ {0}
    BY DEF Track
  <2>2. \A i \in 1..n : P[i] \in BusRow
    BY <2>1
  <2> QED BY <2>1, <2>2 DEF BusRow
<1>2. ASSUME NEW x \in LongRuns(P), x[1] <= k, k <= x[2] PROVE Ghost(P, k)
  <2>1. x[1] \in 1..k /\ x[2] \in k..n
    BY <1>1, <1>2, LongRunOf
  <2>2. StaleSpan(P, x[1], x[2]) /\ \A m \in x[1]..x[2] : Stale(P[m])
    BY DEF LongRuns
  <2> QED BY <2>1, <2>2 DEF Ghost
<1>3. ASSUME Ghost(P, k) PROVE \E x \in LongRuns(P) : x[1] <= k /\ k <= x[2]
  <2>1. PICK i \in 1..k, j \in k..n : StaleSpan(P, i, j) /\ \A m \in i..j : Stale(P[m])
    BY <1>3 DEF Ghost
  <2> DEFINE Begins == {b \in 1..i : \A m \in b..j : Stale(P[m])}
  <2>2. Begins \subseteq Nat /\ Begins # {}
    BY <2>1
  <2>3. PICK b \in Begins : \A c \in Begins : b <= c
    <3> HIDE DEF Begins
    <3> QED BY <2>2, LeastMember
  <2>4. b \in 1..i /\ \A m \in b..j : Stale(P[m])
    OBVIOUS
  <2>5. b > 1 => ~Stale(P[b - 1])
    <3> SUFFICES ASSUME b > 1, Stale(P[b - 1]) PROVE FALSE
      OBVIOUS
    <3>1. b - 1 \in 1..i
      BY <2>4
    <3>2. \A m \in (b - 1)..j : m = b - 1 \/ m \in b..j
      BY <2>4
    <3>3. b - 1 \in Begins
      BY <2>4, <3>1, <3>2
    <3>4. b <= b - 1
      BY <2>3, <3>3
    <3> QED BY <2>4, <3>4
  <2> HIDE DEF Begins
  <2>6. b \in 1..n /\ Stale(P[b]) /\ j \in b..n
    <3>1. b \in 1..n /\ b \in b..j /\ j \in b..n
      BY <1>1, <2>1, <2>4
    <3> QED BY <2>4, <3>1
  <2> DEFINE e == RunEnd(P, b)
  <2>7. /\ e \in b..n /\ \A m \in b..e : Stale(P[m])
        /\ e < n => ~Stale(P[e + 1])
        /\ \A m \in b..n : (\A l \in b..m : Stale(P[l])) => m <= e
    BY <2>6, RunEndRight
  <2>8. j <= e
    BY <2>4, <2>6, <2>7
  <2> HIDE DEF e
  <2>9. P[b].time <= P[i].time /\ P[j].time <= P[e].time
    <3>1. i \in 1..n /\ j \in 1..n /\ e \in 1..n
      BY <1>1, <2>1, <2>6, <2>7
    <3>2. b = i \/ b < i
      BY <2>4
    <3>3. j = e \/ j < e
      BY <2>8, <3>1
    <3>4. b < i => P[b].time < P[i].time
      BY <2>6, <3>1 DEF Track
    <3>5. j < e => P[j].time < P[e].time
      BY <3>1 DEF Track
    <3> QED BY <1>1, <2>6, <3>1, <3>2, <3>3, <3>4, <3>5
  <2>10. StaleSpan(P, b, e)
    <3>1. StaleMin \in Nat
      BY TracksAssumption
    <3>2. i \in 1..n /\ j \in 1..n /\ e \in 1..n
      BY <1>1, <2>1, <2>6, <2>7
    <3> QED BY <1>1, <2>1, <2>6, <2>9, <3>1, <3>2, SMTT(30) DEF StaleSpan
  <2>11. <<b, e>> \in LongRuns(P)
    BY <1>1, <2>5, <2>6, <2>7, <2>10 DEF LongRuns
  <2>12. b <= k /\ k <= e
    BY <2>1, <2>4, <2>7, <2>8
  <2> QED BY <2>11, <2>12
<1> QED BY <1>2, <1>3

-----------------------------------------------------------------------------
(* What lies between the standstills.                                      *)
GapFirst(R, r) == IF r = 1 THEN 1 ELSE R[r - 1][2] + 1
GapLast(P, R, r) == IF r > Len(R) THEN Len(P) ELSE R[r][1] - 1

(* The intervals without a ghost that cannot be made longer.               *)
Clear(P) ==
    {x \in (1..Len(P)) \X (1..Len(P)) :
        /\ x[1] <= x[2]
        /\ \A k \in x[1]..x[2] : ~Ghost(P, k)
        /\ x[1] > 1 => Ghost(P, x[1] - 1)
        /\ x[2] < Len(P) => Ghost(P, x[2] + 1)}

LEMMA BetweenGaps ==
  ASSUME NEW P, NEW R, Len(R) \in Nat
  PROVE  /\ Len(Between(P, R)) = Len(R) + 1
         /\ \A r \in 1..(Len(R) + 1) :
               Between(P, R)[r] = <<GapFirst(R, r), GapLast(P, R, r)>>
<1> DEFINE gap(r) == << IF r = 1 THEN 1 ELSE R[r - 1][2] + 1,
                        IF r > Len(R) THEN Len(P) ELSE R[r][1] - 1 >>
           B == [r \in 1..(Len(R) + 1) |-> gap(r)]
<1>1. Between(P, R) = B
  BY DEF Between
<1>2. \A r \in 1..(Len(R) + 1) : B[r] = <<GapFirst(R, r), GapLast(P, R, r)>>
  BY DEF GapFirst, GapLast
<1>3. Len(B) = Len(R) + 1
  <2> HIDE DEF gap
  <2> QED OBVIOUS
<1> QED BY <1>1, <1>2, <1>3

(* The standstills found, seen from one that is found.                     *)
LEMMA RangeOf ==
  ASSUME NEW P, Track(P), NEW R, RangesFrom(P, 1, R), NEW r \in 1..Len(R)
  PROVE  /\ R[r][1] \in 1..Len(P) /\ R[r][2] \in 1..Len(P) /\ R[r][1] <= R[r][2]
         /\ \A k \in R[r][1]..R[r][2] : Ghost(P, k)
         /\ \A s \in 1..Len(R) : r < s => R[r][2] < R[s][1] /\ R[r][2] < R[s][2]
<1>1. R[r] \in LongRuns(P)
  BY DEF RangesFrom
<1>2. R[r][1] \in 1..Len(P) /\ R[r][2] \in 1..Len(P) /\ R[r][1] <= R[r][2]
  BY <1>1, LongRunOf
<1>3. \A k \in R[r][1]..R[r][2] : Ghost(P, k)
  <2> SUFFICES ASSUME NEW k \in R[r][1]..R[r][2] PROVE Ghost(P, k)
    OBVIOUS
  <2>1. k \in 1..Len(P) /\ R[r][1] <= k /\ k <= R[r][2]
    BY <1>2 DEF Track
  <2> QED BY <1>1, <2>1, GhostInRun
<1>4. \A s \in 1..Len(R) : r < s => R[r][2] < R[s][1] /\ R[r][2] < R[s][2]
  <2> SUFFICES ASSUME NEW s \in 1..Len(R), r < s
               PROVE  R[r][2] < R[s][1] /\ R[r][2] < R[s][2]
    OBVIOUS
  <2>1. R[s] \in LongRuns(P) /\ R[r][2] < R[s][1]
    BY DEF RangesFrom
  <2>2. R[s][1] \in 1..Len(P) /\ R[s][2] \in 1..Len(P) /\ R[s][1] <= R[s][2]
    BY <2>1, LongRunOf
  <2> QED BY <1>2, <2>1, <2>2
<1> QED BY <1>2, <1>3, <1>4

(* A ghost is in a range.                                                  *)
LEMMA GhostInRange ==
  ASSUME NEW P, Track(P), NEW R, RangesFrom(P, 1, R), NEW k \in 1..Len(P), Ghost(P, k)
  PROVE  \E r \in 1..Len(R) : R[r][1] <= k /\ k <= R[r][2]
<1>1. PICK x \in LongRuns(P) : x[1] <= k /\ k <= x[2]
  BY GhostInRun
<1>2. x[1] >= 1
  BY LongRunOf
<1>3. PICK r \in 1..Len(R) : R[r] = x
  BY <1>2 DEF RangesFrom
<1> QED BY <1>1, <1>3

(* The ends of a gap, and those of an earlier one.                         *)
LEMMA GapEnds ==
  ASSUME NEW P, Track(P), NEW R, RangesFrom(P, 1, R), NEW r \in 1..(Len(R) + 1)
  PROVE  /\ GapFirst(R, r) \in 1..(Len(P) + 1)
         /\ GapLast(P, R, r) \in 0..Len(P)
         /\ GapFirst(R, r) <= GapLast(P, R, r) + 1
         /\ \A q \in 1..(Len(R) + 1) : q < r => GapLast(P, R, q) + 1 < GapFirst(R, r)
<1>1. Len(R) \in Nat /\ Len(P) \in Nat
  BY DEF RangesFrom, Track
<1>2. r # 1 => r - 1 \in 1..Len(R)
  BY <1>1
<1>3. ~(r > Len(R)) => r \in 1..Len(R)
  BY <1>1
<1>4. GapFirst(R, r) \in 1..(Len(P) + 1)
  BY <1>1, <1>2, RangeOf, SMTT(30) DEF GapFirst
<1>5. GapLast(P, R, r) \in 0..Len(P)
  BY <1>1, <1>3, RangeOf DEF GapLast
<1>6. GapFirst(R, r) <= GapLast(P, R, r) + 1
  <2>1. CASE r > Len(R)
    BY <1>1, <1>4, <2>1 DEF GapLast
  <2>2. CASE r = 1 /\ ~(r > Len(R))
    BY <1>1, <1>3, <2>2, RangeOf DEF GapFirst, GapLast
  <2>3. CASE r # 1 /\ ~(r > Len(R))
    <3>1. r - 1 < r /\ r - 1 \in 1..Len(R) /\ r \in 1..Len(R)
      BY <1>1, <1>2, <1>3, <2>3
    <3>2. R[r - 1][2] < R[r][1] /\ R[r - 1][2] \in 1..Len(P) /\ R[r][1] \in 1..Len(P)
      BY <3>1, RangeOf
    <3> QED BY <1>1, <2>3, <3>2 DEF GapFirst, GapLast
  <2> QED BY <2>1, <2>2, <2>3
<1>7. ASSUME NEW q \in 1..(Len(R) + 1), q < r PROVE GapLast(P, R, q) + 1 < GapFirst(R, r)
  <2>1. q \in 1..Len(R) /\ r - 1 \in 1..Len(R) /\ r # 1 /\ ~(q > Len(R))
    BY <1>1, <1>7
  <2>2. R[q][1] <= R[q][2] /\ R[q][1] \in 1..Len(P) /\ R[q][2] \in 1..Len(P)
    BY <2>1, RangeOf
  <2>3. R[q][2] <= R[r - 1][2] /\ R[r - 1][2] \in 1..Len(P)
    <3>1. q = r - 1 \/ q < r - 1
      BY <1>1, <1>7
    <3>2. q < r - 1 => R[q][2] < R[r - 1][2]
      BY <2>1, RangeOf
    <3>3. R[r - 1][2] \in 1..Len(P)
      BY <2>1, RangeOf
    <3> QED BY <2>2, <3>1, <3>2, <3>3
  <2>4. GapLast(P, R, q) = R[q][1] - 1 /\ GapFirst(R, r) = R[r - 1][2] + 1
    BY <2>1 DEF GapFirst, GapLast
  <2> QED BY <1>1, <2>2, <2>3, <2>4, SMTT(30)
<1> QED BY <1>4, <1>5, <1>6, <1>7

(* The gaps that are not empty are the intervals without a ghost.          *)
LEMMA GapIsClear ==
  ASSUME NEW P, Track(P), NEW R, RangesFrom(P, 1, R), NEW r \in 1..(Len(R) + 1),
         GapFirst(R, r) <= GapLast(P, R, r)
  PROVE  <<GapFirst(R, r), GapLast(P, R, r)>> \in Clear(P)
<1> DEFINE a == GapFirst(R, r)
           b == GapLast(P, R, r)
           n == Len(P)
<1>1. Len(R) \in Nat /\ n \in Nat \ {0}
  BY DEF RangesFrom, Track
<1>2. a \in 1..n /\ b \in 1..n /\ a <= b
  BY <1>1, GapEnds
<1>3. ASSUME NEW k \in a..b, Ghost(P, k) PROVE FALSE
  <2>1. k \in 1..n
    BY <1>1, <1>2
  <2>2. PICK q \in 1..Len(R) : R[q][1] <= k /\ k <= R[q][2]
    BY <1>3, <2>1, GhostInRange
  <2>3. R[q][1] \in 1..n /\ R[q][2] \in 1..n
    BY RangeOf
  <2>4. CASE q < r
    <3>1. r # 1 /\ r - 1 \in 1..Len(R) /\ (q = r - 1 \/ q < r - 1)
      BY <1>1, <2>4
    <3>2. R[r - 1][2] \in 1..n
      BY <3>1, RangeOf
    <3>3. q < r - 1 => R[q][2] < R[r - 1][2]
      BY <3>1, RangeOf
    <3>4. R[q][2] <= R[r - 1][2]
      BY <2>3, <3>1, <3>2, <3>3
    <3>5. a = R[r - 1][2] + 1
      BY <3>1 DEF GapFirst
    <3> QED BY <1>2, <2>1, <2>2, <2>3, <3>2, <3>4, <3>5, SMTT(30)
  <2>5. CASE r <= q
    <3>1. r \in 1..Len(R) /\ ~(r > Len(R)) /\ (q = r \/ r < q)
      BY <1>1, <2>5
    <3>2. R[r][1] \in 1..n /\ R[r][2] \in 1..n /\ R[r][1] <= R[r][2]
      BY <3>1, RangeOf
    <3>3. r < q => R[r][2] < R[q][1]
      BY <3>1, RangeOf
    <3>4. R[r][1] <= R[q][1]
      BY <2>3, <3>1, <3>2, <3>3
    <3>5. b = R[r][1] - 1
      BY <3>1 DEF GapLast
    <3> QED BY <1>2, <2>1, <2>2, <2>3, <3>2, <3>4, <3>5, SMTT(30)
  <2> QED BY <1>1, <2>4, <2>5
<1>4. a > 1 => Ghost(P, a - 1)
  <2> SUFFICES ASSUME a > 1 PROVE Ghost(P, a - 1)
    OBVIOUS
  <2>1. r # 1 /\ r - 1 \in 1..Len(R)
    BY <1>1 DEF GapFirst
  <2>2. R[r - 1][2] \in R[r - 1][1]..R[r - 1][2] /\ R[r - 1][2] \in 1..n
    BY <2>1, RangeOf
  <2>3. a - 1 = R[r - 1][2]
    BY <2>1, <2>2 DEF GapFirst
  <2> QED BY <2>1, <2>2, <2>3, RangeOf
<1>5. b < n => Ghost(P, b + 1)
  <2> SUFFICES ASSUME b < n PROVE Ghost(P, b + 1)
    OBVIOUS
  <2>1. r \in 1..Len(R) /\ ~(r > Len(R))
    BY <1>1 DEF GapLast
  <2>2. R[r][1] \in R[r][1]..R[r][2] /\ R[r][1] \in 1..n
    BY <2>1, RangeOf
  <2>3. b + 1 = R[r][1]
    BY <2>1, <2>2 DEF GapLast
  <2> QED BY <2>1, <2>2, <2>3, RangeOf
<1> HIDE DEF a, b
<1>6. <<a, b>> \in Clear(P)
  BY <1>1, <1>2, <1>3, <1>4, <1>5 DEF Clear
<1> QED BY <1>6 DEF a, b

LEMMA ClearOf ==
  ASSUME NEW P, Track(P), NEW x \in Clear(P)
  PROVE  /\ x[1] \in 1..Len(P) /\ x[2] \in 1..Len(P) /\ x[1] <= x[2]
         /\ x = <<x[1], x[2]>>
         /\ \A k \in x[1]..x[2] : ~Ghost(P, k)
         /\ x[1] > 1 => Ghost(P, x[1] - 1)
         /\ x[2] < Len(P) => Ghost(P, x[2] + 1)
  BY DEF Clear

LEMMA ClearIsGap ==
  ASSUME NEW P, Track(P), NEW R, RangesFrom(P, 1, R), NEW x \in Clear(P)
  PROVE  \E r \in 1..(Len(R) + 1) : x = <<GapFirst(R, r), GapLast(P, R, r)>>
<1> DEFINE n == Len(P)
<1>1. Len(R) \in Nat /\ n \in Nat \ {0}
  BY DEF RangesFrom, Track
<1>2. /\ x[1] \in 1..n /\ x[2] \in 1..n /\ x[1] <= x[2]
      /\ \A k \in x[1]..x[2] : ~Ghost(P, k)
  BY ClearOf
<1>3. PICK r \in 1..(Len(R) + 1) : GapFirst(R, r) = x[1]
  <2>1. CASE x[1] = 1
    <3>1. 1 \in 1..(Len(R) + 1) /\ GapFirst(R, 1) = 1
      BY <1>1 DEF GapFirst
    <3> QED BY <2>1, <3>1
  <2>2. CASE x[1] # 1
    <3>1. x[1] - 1 \in 1..n /\ Ghost(P, x[1] - 1)
      BY <1>1, <1>2, <2>2, ClearOf
    <3>2. PICK q \in 1..Len(R) : R[q][1] <= x[1] - 1 /\ x[1] - 1 <= R[q][2]
      BY <3>1, GhostInRange
    <3>3. /\ R[q][1] \in 1..n /\ R[q][2] \in 1..n
          /\ \A k \in R[q][1]..R[q][2] : Ghost(P, k)
      BY RangeOf
    <3>4. x[1] > R[q][2]
      <4> SUFFICES ASSUME x[1] <= R[q][2] PROVE FALSE
        BY <1>2, <3>3
      <4>1. x[1] \in R[q][1]..R[q][2] /\ x[1] \in x[1]..x[2]
        BY <1>2, <3>2, <3>3
      <4> QED BY <1>2, <3>3, <4>1
    <3>5. x[1] = R[q][2] + 1
      BY <1>2, <3>2, <3>3, <3>4
    <3>6. q + 1 \in 1..(Len(R) + 1) /\ q + 1 # 1 /\ (q + 1) - 1 = q
      BY <1>1
    <3>7. GapFirst(R, q + 1) = R[q][2] + 1
      BY <3>6 DEF GapFirst
    <3> QED BY <3>5, <3>6, <3>7
  <2> QED BY <2>1, <2>2
<1>4. GapFirst(R, r) <= GapLast(P, R, r) + 1 /\ GapLast(P, R, r) \in 0..n
  BY GapEnds
<1>5. GapLast(P, R, r) >= x[2]
  <2> SUFFICES ASSUME GapLast(P, R, r) < x[2] PROVE FALSE
    BY <1>1, <1>2, <1>4
  <2>1. r \in 1..Len(R) /\ ~(r > Len(R))
    BY <1>1, <1>2 DEF GapLast
  <2>2. R[r][1] \in R[r][1]..R[r][2] /\ R[r][1] \in 1..n /\ Ghost(P, R[r][1])
    BY <2>1, RangeOf
  <2>3. GapLast(P, R, r) = R[r][1] - 1
    BY <2>1 DEF GapLast
  <2>4. R[r][1] \in x[1]..x[2]
    BY <1>2, <1>3, <1>4, <2>2, <2>3
  <2> QED BY <1>2, <2>2, <2>4
<1>6. GapLast(P, R, r) <= x[2]
  <2> SUFFICES ASSUME GapLast(P, R, r) > x[2] PROVE FALSE
    BY <1>1, <1>2, <1>4
  <2>1. Ghost(P, x[2] + 1)
    <3>1. x[2] < n
      BY <1>1, <1>2, <1>4
    <3> QED BY <3>1, ClearOf
  <2>2. GapFirst(R, r) <= GapLast(P, R, r)
    BY <1>1, <1>2, <1>3, <1>4
  <2> DEFINE y == <<GapFirst(R, r), GapLast(P, R, r)>>
  <2>3. y \in Clear(P)
    BY <2>2, GapIsClear
  <2>4. \A k \in GapFirst(R, r)..GapLast(P, R, r) : ~Ghost(P, k)
    BY <2>3, ClearOf
  <2>5. x[2] + 1 \in GapFirst(R, r)..GapLast(P, R, r)
    BY <1>1, <1>2, <1>3, <1>4
  <2> QED BY <2>1, <2>4, <2>5
<1>7. GapLast(P, R, r) = x[2]
  BY <1>1, <1>2, <1>4, <1>5, <1>6
<1> QED BY <1>3, <1>7, ClearOf

-----------------------------------------------------------------------------
(* What survives of the gaps up to one of them.                            *)
KeptTo(P, B, K, m) ==
    /\ K \in Seq(Int \X Int)
    /\ \A s \in 1..Len(K) : \E r \in 1..m : K[s] = B[r] /\ Surviving(P, B[r])
    /\ \A r \in 1..m : Surviving(P, B[r]) => \E s \in 1..Len(K) : K[s] = B[r]
    /\ \A s, t \in 1..Len(K) : s < t => K[s][2] < K[t][1]

(* As the gaps are in order, so is what survives.                          *)
LEMMA KeepGap ==
  ASSUME NEW P, NEW B, NEW m \in Nat, NEW K, KeptTo(P, B, K, m),
         B[m + 1] \in Int \X Int,
         \A r \in 1..m : B[r] \in Int \X Int /\ B[r][2] < B[m + 1][1]
  PROVE  KeptTo(P, B, IF Surviving(P, B[m + 1]) THEN Append(K, B[m + 1]) ELSE K, m + 1)
<1>1. \A r \in 1..(m + 1) : r \in 1..m \/ r = m + 1
  OBVIOUS
<1>2. \A r \in 1..m : r \in 1..(m + 1)
  OBVIOUS
<1>3. K \in Seq(Int \X Int) /\ Len(K) \in Nat
  BY DEF KeptTo
<1>4. CASE ~Surviving(P, B[m + 1])
  <2>1. KeptTo(P, B, K, m + 1)
    BY <1>1, <1>2, <1>4 DEF KeptTo
  <2> QED BY <1>4, <2>1
<1>5. CASE Surviving(P, B[m + 1])
  <2> DEFINE L == Append(K, B[m + 1])
  <2>1. /\ L \in Seq(Int \X Int) /\ Len(L) = Len(K) + 1 /\ L[Len(K) + 1] = B[m + 1]
        /\ \A s \in 1..Len(K) : L[s] = K[s]
    BY <1>3
  <2>2. \A s \in 1..Len(L) : s \in 1..Len(K) \/ s = Len(K) + 1
    BY <1>3, <2>1
  <2>3. \A s \in 1..Len(K) : s \in 1..Len(L)
    BY <1>3, <2>1
  <2>4. Len(K) + 1 \in 1..Len(L) /\ m + 1 \in 1..(m + 1)
    BY <1>3, <2>1
  <2> HIDE DEF L
  <2>5. \A s \in 1..Len(L) : \E r \in 1..(m + 1) : L[s] = B[r] /\ Surviving(P, B[r])
    <3> SUFFICES ASSUME NEW s \in 1..Len(L)
                 PROVE  \E r \in 1..(m + 1) : L[s] = B[r] /\ Surviving(P, B[r])
      OBVIOUS
    <3>1. CASE s = Len(K) + 1
      BY <1>5, <2>1, <2>4, <3>1
    <3>2. CASE s \in 1..Len(K)
      <4>1. PICK r \in 1..m : K[s] = B[r] /\ Surviving(P, B[r])
        BY <3>2 DEF KeptTo
      <4> QED BY <1>2, <2>1, <3>2, <4>1
    <3> QED BY <2>2, <3>1, <3>2
  <2>6. \A r \in 1..(m + 1) : Surviving(P, B[r]) => \E s \in 1..Len(L) : L[s] = B[r]
    <3> SUFFICES ASSUME NEW r \in 1..(m + 1), Surviving(P, B[r])
                 PROVE  \E s \in 1..Len(L) : L[s] = B[r]
      OBVIOUS
    <3>1. CASE r = m + 1
      BY <2>1, <2>4, <3>1
    <3>2. CASE r \in 1..m
      <4>1. PICK s \in 1..Len(K) : K[s] = B[r]
        BY <3>2 DEF KeptTo
      <4> QED BY <2>1, <2>3, <4>1
    <3> QED BY <1>1, <3>1, <3>2
  <2>7. \A s, t \in 1..Len(L) : s < t => L[s][2] < L[t][1]
    <3> SUFFICES ASSUME NEW s \in 1..Len(L), NEW t \in 1..Len(L), s < t
                 PROVE  L[s][2] < L[t][1]
      OBVIOUS
    <3>1. s \in 1..Len(K)
      BY <1>3, <2>1
    <3>2. CASE t \in 1..Len(K)
      <4>1. K[s][2] < K[t][1]
        BY <3>1, <3>2 DEF KeptTo
      <4> QED BY <2>1, <3>1, <3>2, <4>1
    <3>3. CASE t = Len(K) + 1
      <4>1. PICK r \in 1..m : K[s] = B[r]
        BY <3>1 DEF KeptTo
      <4> QED BY <2>1, <3>1, <3>3, <4>1
    <3> QED BY <2>2, <3>2, <3>3
  <2>8. KeptTo(P, B, L, m + 1)
    BY <2>1, <2>5, <2>6, <2>7 DEF KeptTo
  <2> QED BY <1>5, <2>8 DEF L
<1> QED BY <1>4, <1>5

KeptStep(P, B, kept, k) ==
    IF k = 0 THEN << >>
    ELSE IF Surviving(P, B[k]) THEN Append(kept[k - 1], B[k])
    ELSE kept[k - 1]

(* Such a function exists, so that the segments are its last value.        *)
LEMMA KeptExists ==
  ASSUME NEW P, NEW B, NEW c \in Nat
  PROVE  \E f : f = [k \in 0..c |-> KeptStep(P, B, f, k)]
<1> DEFINE Right(f, m) == f = [k \in 0..m |-> KeptStep(P, B, f, k)]
           Bad == {m \in Nat : ~\E f : Right(f, m)}
<1>1. ASSUME Bad # {} PROVE FALSE
  <2>1. PICK m \in Bad : \A k \in Bad : m <= k
    <3>1. Bad \subseteq Nat
      OBVIOUS
    <3> HIDE DEF Bad
    <3> QED BY <1>1, <3>1, LeastMember
  <2>2. m \in Nat /\ ~\E f : Right(f, m)
    OBVIOUS
  <2>3. CASE m = 0
    <3> DEFINE f == [k \in 0..0 |-> << >>]
    <3>1. \A k \in 0..0 : KeptStep(P, B, f, k) = << >>
      BY DEF KeptStep
    <3>2. f = [k \in 0..0 |-> KeptStep(P, B, f, k)]
      BY <3>1
    <3> QED BY <2>2, <2>3, <3>2
  <2>4. CASE m # 0
    <3>1. m - 1 \in Nat /\ ~(m <= m - 1)
      BY <2>2, <2>4
    <3>2. m - 1 \notin Bad
      <4> HIDE DEF Bad
      <4> QED BY <2>1, <3>1
    <3>3. PICK f : Right(f, m - 1)
      <4> HIDE DEF Right
      <4> QED BY <3>1, <3>2
    <3> DEFINE g == [k \in 0..m |-> IF k = m THEN KeptStep(P, B, f, m) ELSE f[k]]
    <3>4. \A k \in 0..m : k = m \/ k \in 0..(m - 1)
      BY <2>2
    <3>5. \A k \in 0..(m - 1) : k \in 0..m /\ k # m
      BY <2>2
    <3>6. \A k \in 0..(m - 1) : g[k] = f[k] /\ f[k] = KeptStep(P, B, f, k)
      <4>1. \A k \in 0..(m - 1) : g[k] = f[k]
        BY <3>5
      <4>2. \A k \in 0..(m - 1) : f[k] = KeptStep(P, B, f, k)
        BY <3>3
      <4> QED BY <4>1, <4>2
    <3>7. \A k \in 0..m : KeptStep(P, B, g, k) = KeptStep(P, B, f, k)
      <4> SUFFICES ASSUME NEW k \in 0..m
                   PROVE  KeptStep(P, B, g, k) = KeptStep(P, B, f, k)
        OBVIOUS
      <4> HIDE DEF g
      <4>1. k # 0 => k - 1 \in 0..(m - 1)
        BY <2>2
      <4>2. k # 0 => g[k - 1] = f[k - 1]
        BY <3>6, <4>1
      <4> QED BY <4>2 DEF KeptStep
    <3>8. g[m] = KeptStep(P, B, f, m)
      BY <2>2
    <3>9. \A k \in 0..m : g[k] = KeptStep(P, B, g, k)
      <4> HIDE DEF g
      <4> QED BY <3>4, <3>6, <3>7, <3>8
    <3>10. PICK h : h = g
      OBVIOUS
    <3>11. h = [k \in 0..m |-> h[k]]
      BY <3>10
    <3> HIDE DEF g
    <3>12. \A k \in 0..m : h[k] = KeptStep(P, B, h, k)
      BY <3>9, <3>10
    <3>13. Right(h, m)
      BY <3>11, <3>12
    <3> HIDE DEF Right
    <3> QED BY <2>2, <3>13
  <2> QED BY <2>3, <2>4
<1>2. c \notin Bad
  <2> HIDE DEF Bad
  <2> QED BY <1>1
<1>3. \E f : Right(f, c)
  <2> HIDE DEF Right
  <2> QED BY <1>2
<1> QED BY <1>3

(* The buses of one key, as the points that they span.                     *)
Spans(P) == IF Len(P) = 1 THEN {<<1, 1>>} ELSE RealRuns(P)

InSpans(P, S) ==
    /\ S \in Seq(Int \X Int)
    /\ \A s \in 1..Len(S) : S[s] \in Spans(P)
    /\ \A x \in Spans(P) : \E s \in 1..Len(S) : S[s] = x
    /\ \A s, t \in 1..Len(S) : s < t => S[s][2] < S[t][1]

LEMMA RealRunsSurvive ==
  ASSUME NEW P, Track(P)
  PROVE  \A x : x \in RealRuns(P) <=> x \in Clear(P) /\ Surviving(P, x)
<1>1. MaximalRuns(P, LAMBDA k : ~Ghost(P, k)) = Clear(P)
  BY DEF MaximalRuns, Clear
<1>2. \A x \in Clear(P) : x[1] < x[2] <=> x[2] > x[1]
  BY ClearOf
<1> QED BY <1>1, <1>2 DEF RealRuns, Surviving

(* What is cut and kept are the runs between two standstills.              *)
LEMMA SegmentsRight ==
  ASSUME NEW P, Track(P)
  PROVE  InSpans(P, SegmentVehiclePoints(P))
<1>1. Len(P) \in Nat \ {0}
  BY DEF Track
<1>2. CASE Len(P) = 1
  <2>1. SegmentVehiclePoints(P) = [k \in 1..1 |-> <<1, 1>>]
    BY <1>2 DEF SegmentVehiclePoints
  <2> DEFINE S == [k \in 1..1 |-> <<1, 1>>]
  <2>2. S \in Seq(Int \X Int) /\ Len(S) = 1 /\ \A s \in 1..Len(S) : S[s] = <<1, 1>> /\ s = 1
    OBVIOUS
  <2>3. Spans(P) = {<<1, 1>>}
    BY <1>2 DEF Spans
  <2> HIDE DEF S
  <2>4. 1 \in 1..Len(S) /\ \A s, t \in 1..Len(S) : ~(s < t)
    BY <2>2
  <2>5. InSpans(P, S)
    BY <2>2, <2>3, <2>4 DEF InSpans
  <2> QED BY <2>1, <2>5 DEF S
<1>3. CASE Len(P) # 1
  <2>0. ~(Len(P) < 2)
    <3>1. \A n \in Nat \ {0} : n # 1 => ~(n < 2)
      OBVIOUS
    <3> QED BY <1>1, <1>3, <3>1
  <2> DEFINE R == StaleRanges(P)
             B == Between(P, R)
             c == Len(B)
             doStep(f, k) == IF k = 0 THEN << >>
                           ELSE IF Surviving(P, B[k]) THEN Append(f[k - 1], B[k])
                           ELSE f[k - 1]
             kept == CHOOSE f : f = [k \in 0..c |-> doStep(f, k)]
  <2>1. SegmentVehiclePoints(P) = kept[c]
    <3>1. SegmentVehiclePoints(P)
            = IF Len(P) < 2 THEN [k \in 1..Len(P) |-> <<1, Len(P)>>] ELSE kept[c]
      BY ONLY Zenon DEF SegmentVehiclePoints
    <3> HIDE DEF kept, c
    <3> QED BY <2>0, <3>1
  <2>2. RangesFrom(P, 1, R)
    BY StaleRangesRight
  <2> HIDE DEF R
  <2>3. /\ Len(R) \in Nat /\ c = Len(R) + 1
        /\ \A r \in 1..c : B[r] = <<GapFirst(R, r), GapLast(P, R, r)>>
    BY <2>2, BetweenGaps DEF RangesFrom
  <2> HIDE DEF B, c
  <2>4. /\ \A r \in 1..c : B[r] \in Int \X Int
        /\ \A q, r \in 1..c : q < r => B[q][2] < B[r][1]
    <3>1. \A r \in 1..c : /\ GapFirst(R, r) \in 1..(Len(P) + 1)
                          /\ GapLast(P, R, r) \in 0..Len(P)
      BY <2>2, <2>3, GapEnds
    <3>2. \A q, r \in 1..c : q < r => GapLast(P, R, q) + 1 < GapFirst(R, r)
      BY <2>2, <2>3, GapEnds
    <3>3. \A q, r \in 1..c : q < r => GapLast(P, R, q) < GapFirst(R, r)
      BY <1>1, <3>1, <3>2
    <3>4. \A r \in 1..c : /\ B[r][1] = GapFirst(R, r) /\ B[r][2] = GapLast(P, R, r)
                          /\ B[r] \in Int \X Int
      <4> SUFFICES ASSUME NEW r \in 1..c
                   PROVE  /\ B[r][1] = GapFirst(R, r) /\ B[r][2] = GapLast(P, R, r)
                          /\ B[r] \in Int \X Int
        OBVIOUS
      <4>1. GapFirst(R, r) \in Int /\ GapLast(P, R, r) \in Int
        BY <1>1, <3>1
      <4>2. B[r] = <<GapFirst(R, r), GapLast(P, R, r)>>
        BY <2>3
      <4> QED BY <4>1, <4>2
    <3> QED BY <3>3, <3>4
  <2>5. \A f, k : doStep(f, k) = KeptStep(P, B, f, k)
    BY DEF KeptStep
  <2>6. kept = [k \in 0..c |-> doStep(kept, k)]
    <3>1. c \in Nat
      BY <2>3
    <3>2. PICK f : f = [k \in 0..c |-> KeptStep(P, B, f, k)]
      BY <3>1, KeptExists
    <3> HIDE DEF doStep
    <3>3. f = [k \in 0..c |-> doStep(f, k)]
      BY <2>5, <3>2
    <3> QED BY <3>3
  <2> HIDE DEF kept, doStep
  <2>7. \A k \in 0..c : kept[k] = KeptStep(P, B, kept, k)
    BY <2>5, <2>6
  <2> DEFINE Bad == {m \in 0..c : ~KeptTo(P, B, kept[m], m)}
  <2>8. ASSUME Bad # {} PROVE FALSE
    <3>1. PICK m \in Bad : \A k \in Bad : m <= k
      <4>1. Bad \subseteq Nat
        OBVIOUS
      <4> HIDE DEF Bad
      <4> QED BY <2>8, <4>1, LeastMember
    <3>2. m \in 0..c /\ ~KeptTo(P, B, kept[m], m)
      OBVIOUS
    <3>3. CASE m = 0
      <4>1. kept[m] = << >>
        BY <2>7, <3>2, <3>3 DEF KeptStep
      <4>2. KeptTo(P, B, << >>, 0)
        BY DEF KeptTo
      <4> QED BY <3>2, <3>3, <4>1, <4>2
    <3>4. CASE m # 0
      <4>1. m - 1 \in 0..c /\ m - 1 \in Nat /\ ~(m <= m - 1) /\ (m - 1) + 1 = m /\ m \in 1..c
        BY <2>3, <3>2, <3>4
      <4>2. KeptTo(P, B, kept[m - 1], m - 1)
        <5>1. m - 1 \notin Bad
          <6> HIDE DEF Bad
          <6> QED BY <3>1, <4>1
        <5> QED BY <4>1, <5>1
      <4>3. \A r \in 1..(m - 1) : r \in 1..c /\ r < m
        BY <2>3, <4>1
      <4>4. KeptTo(P, B, IF Surviving(P, B[m]) THEN Append(kept[m - 1], B[m]) ELSE kept[m - 1], m)
        BY <2>4, <4>1, <4>2, <4>3, KeepGap
      <4>5. kept[m] = IF Surviving(P, B[m]) THEN Append(kept[m - 1], B[m]) ELSE kept[m - 1]
        BY <2>7, <3>2, <3>4 DEF KeptStep
      <4> QED BY <3>2, <4>4, <4>5
    <3> QED BY <3>3, <3>4
  <2>9. KeptTo(P, B, kept[c], c)
    <3>1. c \in 0..c
      BY <2>3
    <3>2. c \notin Bad
      <4> HIDE DEF Bad
      <4> QED BY <2>8
    <3> QED BY <3>1, <3>2
  <2> HIDE DEF Bad
  <2> DEFINE S == kept[c]
  <2>10. Spans(P) = RealRuns(P)
    BY <1>3 DEF Spans
  <2>11. \A s \in 1..Len(S) : S[s] \in Spans(P)
    <3> SUFFICES ASSUME NEW s \in 1..Len(S) PROVE S[s] \in Spans(P)
      OBVIOUS
    <3>1. PICK r \in 1..c : S[s] = B[r] /\ Surviving(P, B[r])
      BY <2>9 DEF KeptTo
    <3>2. r \in 1..(Len(R) + 1) /\ B[r] = <<GapFirst(R, r), GapLast(P, R, r)>>
      BY <2>3
    <3>3. GapFirst(R, r) <= GapLast(P, R, r)
      <4>1. GapLast(P, R, r) > GapFirst(R, r)
        BY <3>1, <3>2 DEF Surviving
      <4>2. GapFirst(R, r) \in Int /\ GapLast(P, R, r) \in Int
        BY <2>2, <3>2, GapEnds
      <4> QED BY <4>1, <4>2
    <3>4. B[r] \in Clear(P)
      BY <2>2, <3>2, <3>3, GapIsClear
    <3> QED BY <2>10, <3>1, <3>4, RealRunsSurvive
  <2>12. \A x \in Spans(P) : \E s \in 1..Len(S) : S[s] = x
    <3> SUFFICES ASSUME NEW x \in Spans(P) PROVE \E s \in 1..Len(S) : S[s] = x
      OBVIOUS
    <3>1. x \in Clear(P) /\ Surviving(P, x)
      BY <2>10, RealRunsSurvive
    <3>2. PICK r \in 1..(Len(R) + 1) : x = <<GapFirst(R, r), GapLast(P, R, r)>>
      BY <2>2, <3>1, ClearIsGap
    <3>3. r \in 1..c /\ x = B[r]
      BY <2>3, <3>2
    <3> QED BY <2>9, <3>1, <3>3 DEF KeptTo
  <2>13. InSpans(P, S)
    BY <2>9, <2>11, <2>12 DEF InSpans, KeptTo
  <2> QED BY <2>1, <2>13
<1> QED BY <1>2, <1>3

-----------------------------------------------------------------------------
(* Groups and buses.                                                       *)
KeyedPoints == [key : Keys, points : Seq(BusRow)]

GroupsRight(G) ==
    /\ G \in Seq(KeyedPoints)
    /\ \A g \in 1..Len(G) : Track(G[g].points)
    /\ \A g, h \in 1..Len(G) : g < h => G[g].key < G[h].key

BusOf(group, x) ==
    [key |-> group.key, points |-> SubSeq(group.points, x[1], x[2])]

EarlierBus(a, b) ==
    \/ a.key < b.key
    \/ a.key = b.key /\ a.points[Len(a.points)].time < b.points[1].time

(* B are the buses of the first m groups.                                  *)
BusesOf(G, B, m) ==
    /\ B \in Seq(KeyedPoints)
    /\ \A b \in 1..Len(B) :
          \E g \in 1..m : \E x \in Spans(G[g].points) : B[b] = BusOf(G[g], x)
    /\ \A g \in 1..m : \A x \in Spans(G[g].points) :
          \E b \in 1..Len(B) : B[b] = BusOf(G[g], x)
    /\ \A b, c \in 1..Len(B) : b < c => EarlierBus(B[b], B[c])

LEMMA SpanOf ==
  ASSUME NEW P, Track(P), NEW x \in Spans(P)
  PROVE  x[1] \in 1..Len(P) /\ x[2] \in 1..Len(P) /\ x[1] <= x[2] /\ x = <<x[1], x[2]>>
<1>1. CASE Len(P) = 1
  <2>1. x = <<1, 1>>
    BY <1>1 DEF Spans
  <2> QED BY <1>1, <2>1
<1>2. CASE Len(P) # 1
  <2>1. x \in Clear(P)
    BY <1>2, RealRunsSurvive DEF Spans
  <2> QED BY <2>1, ClearOf
<1> QED BY <1>1, <1>2

(* A bus of a group begins and ends with points of it.                     *)
LEMMA BusOfSpan ==
  ASSUME NEW group \in KeyedPoints, Track(group.points), NEW x \in Spans(group.points)
  PROVE  /\ BusOf(group, x) \in KeyedPoints
         /\ Len(BusOf(group, x).points) = x[2] - x[1] + 1
         /\ BusOf(group, x).key = group.key
         /\ BusOf(group, x).points[1] = group.points[x[1]]
         /\ BusOf(group, x).points[Len(BusOf(group, x).points)] = group.points[x[2]]
<1> DEFINE P == group.points
           Q == SubSeq(P, x[1], x[2])
<1>1. P \in Seq(BusRow) /\ group.key \in Keys
  BY DEF KeyedPoints
<1>2. x[1] \in 1..Len(P) /\ x[2] \in 1..Len(P) /\ x[1] <= x[2] /\ Len(P) \in Nat
  BY SpanOf DEF Track
<1>3. /\ Q \in Seq(BusRow) /\ Len(Q) = x[2] - x[1] + 1
      /\ Q[1] = P[x[1]] /\ Q[x[2] - x[1] + 1] = P[x[2]]
  <2> HIDE DEF P
  <2>1. PICK a \in 1..Len(P), b \in 1..Len(P) : a = x[1] /\ b = x[2]
    BY <1>2
  <2>2. /\ SubSeq(P, a, b) \in Seq(BusRow) /\ Len(SubSeq(P, a, b)) = b - a + 1
        /\ \A i \in 1..(b - a + 1) : SubSeq(P, a, b)[i] = P[a + i - 1]
    BY <1>1, <1>2, <2>1
  <2>3. 1 \in 1..(b - a + 1) /\ b - a + 1 \in 1..(b - a + 1)
        /\ a + 1 - 1 = a /\ a + (b - a + 1) - 1 = b
    BY <1>2, <2>1
  <2>4. SubSeq(P, a, b)[1] = P[a] /\ SubSeq(P, a, b)[b - a + 1] = P[b]
    <3>1. SubSeq(P, a, b)[1] = P[a + 1 - 1]
      BY <2>2, <2>3
    <3>2. SubSeq(P, a, b)[b - a + 1] = P[a + (b - a + 1) - 1]
      BY <2>2, <2>3
    <3> QED BY <2>3, <3>1, <3>2
  <2> QED BY <2>1, <2>2, <2>4
<1>4. BusOf(group, x) = [key |-> group.key, points |-> Q]
  BY DEF BusOf
<1> HIDE DEF P, Q
<1> QED BY <1>1, <1>3, <1>4 DEF KeyedPoints, P

LEMMA FlushRight ==
  ASSUME NEW group \in KeyedPoints, Track(group.points)
  PROVE  /\ Flush(group) \in Seq(KeyedPoints)
         /\ \A s \in 1..Len(Flush(group)) :
               \E x \in Spans(group.points) : Flush(group)[s] = BusOf(group, x)
         /\ \A x \in Spans(group.points) :
               \E s \in 1..Len(Flush(group)) : Flush(group)[s] = BusOf(group, x)
         /\ \A s, t \in 1..Len(Flush(group)) :
               s < t => EarlierBus(Flush(group)[s], Flush(group)[t])
<1> DEFINE P == group.points
           S == SegmentVehiclePoints(P)
           F == [s \in 1..Len(S) |-> BusOf(group, S[s])]
<1>1. InSpans(P, S)
  BY SegmentsRight
<1> HIDE DEF S
<1>2. Flush(group) = F
  BY DEF Flush, BusOf, S
<1>3. Len(S) \in Nat /\ \A s \in 1..Len(S) : S[s] \in Spans(P)
  BY <1>1 DEF InSpans
<1>4. \A s \in 1..Len(S) : BusOf(group, S[s]) \in KeyedPoints
  BY <1>3, BusOfSpan
<1>5. F \in Seq(KeyedPoints) /\ Len(F) = Len(S) /\ \A s \in 1..Len(S) : F[s] = BusOf(group, S[s])
  BY <1>3, <1>4
<1> HIDE DEF F
<1>6. \A x \in Spans(P) : \E s \in 1..Len(S) : S[s] = x
  BY <1>1 DEF InSpans
<1>7. \A s, t \in 1..Len(S) : s < t => EarlierBus(F[s], F[t])
  <2> SUFFICES ASSUME NEW s \in 1..Len(S), NEW t \in 1..Len(S), s < t
               PROVE  EarlierBus(F[s], F[t])
    OBVIOUS
  <2>1. S[s] \in Spans(P) /\ S[t] \in Spans(P) /\ S[s][2] < S[t][1]
    BY <1>1, <1>3 DEF InSpans
  <2>2. S[s][2] \in 1..Len(P) /\ S[t][1] \in 1..Len(P)
    BY <2>1, SpanOf
  <2>3. P[S[s][2]].time < P[S[t][1]].time
    BY <2>1, <2>2 DEF Track
  <2>4. /\ F[s].key = group.key /\ F[t].key = group.key
        /\ F[s].points[Len(F[s].points)] = P[S[s][2]]
        /\ F[t].points[1] = P[S[t][1]]
    BY <1>5, <2>1, BusOfSpan
  <2> QED BY <2>3, <2>4 DEF EarlierBus
<1> QED BY <1>2, <1>3, <1>5, <1>6, <1>7

(* flush adds the buses of the next group.                                 *)
LEMMA FlushAddsBuses ==
  ASSUME NEW G, GroupsRight(G), NEW B, NEW m \in Nat, m + 1 \in 1..Len(G),
         BusesOf(G, B, m)
  PROVE  BusesOf(G, B \o Flush(G[m + 1]), m + 1)
<1> DEFINE group == G[m + 1]
           F == Flush(group)
           C == B \o F
<1>1. group \in KeyedPoints /\ Track(group.points)
  BY DEF GroupsRight
<1>2. /\ F \in Seq(KeyedPoints) /\ Len(F) \in Nat
      /\ \A s \in 1..Len(F) : \E x \in Spans(group.points) : F[s] = BusOf(group, x)
      /\ \A x \in Spans(group.points) : \E s \in 1..Len(F) : F[s] = BusOf(group, x)
      /\ \A s, t \in 1..Len(F) : s < t => EarlierBus(F[s], F[t])
  BY <1>1, FlushRight
<1> HIDE DEF F
<1>3. B \in Seq(KeyedPoints) /\ Len(B) \in Nat
  BY DEF BusesOf
<1>4. /\ C \in Seq(KeyedPoints) /\ Len(C) = Len(B) + Len(F)
      /\ \A b \in 1..Len(B) : C[b] = B[b]
      /\ \A s \in 1..Len(F) : C[Len(B) + s] = F[s]
  BY <1>2, <1>3
<1> HIDE DEF C
<1>5. \A b \in 1..Len(C) : b \in 1..Len(B) \/ (b - Len(B) \in 1..Len(F) /\ C[b] = F[b - Len(B)])
  <2> SUFFICES ASSUME NEW b \in 1..Len(C), b \notin 1..Len(B)
               PROVE  b - Len(B) \in 1..Len(F) /\ C[b] = F[b - Len(B)]
    OBVIOUS
  <2>1. b - Len(B) \in 1..Len(F) /\ Len(B) + (b - Len(B)) = b
    BY <1>2, <1>3, <1>4
  <2> QED BY <1>4, <2>1
<1>6. /\ \A b \in 1..Len(B) : b \in 1..Len(C)
      /\ \A s \in 1..Len(F) : Len(B) + s \in 1..Len(C)
  BY <1>2, <1>3, <1>4
<1>7. \A g \in 1..(m + 1) : g \in 1..m \/ g = m + 1
  OBVIOUS
<1>8. m + 1 \in 1..(m + 1) /\ \A g \in 1..m : g \in 1..(m + 1)
  OBVIOUS
<1>9. \A b \in 1..Len(C) :
        \E g \in 1..(m + 1) : \E x \in Spans(G[g].points) : C[b] = BusOf(G[g], x)
  <2> SUFFICES ASSUME NEW b \in 1..Len(C)
               PROVE  \E g \in 1..(m + 1) : \E x \in Spans(G[g].points) : C[b] = BusOf(G[g], x)
    OBVIOUS
  <2>1. CASE b \in 1..Len(B)
    <3>1. PICK g \in 1..m : \E x \in Spans(G[g].points) : B[b] = BusOf(G[g], x)
      BY <2>1 DEF BusesOf
    <3> QED BY <1>4, <1>8, <2>1, <3>1
  <2>2. CASE b - Len(B) \in 1..Len(F) /\ C[b] = F[b - Len(B)]
    BY <1>2, <1>8, <2>2
  <2> QED BY <1>5, <2>1, <2>2
<1>10. \A g \in 1..(m + 1) : \A x \in Spans(G[g].points) :
         \E b \in 1..Len(C) : C[b] = BusOf(G[g], x)
  <2> SUFFICES ASSUME NEW g \in 1..(m + 1), NEW x \in Spans(G[g].points)
               PROVE  \E b \in 1..Len(C) : C[b] = BusOf(G[g], x)
    OBVIOUS
  <2>1. CASE g \in 1..m
    <3>1. PICK b \in 1..Len(B) : B[b] = BusOf(G[g], x)
      BY <2>1 DEF BusesOf
    <3> QED BY <1>4, <1>6, <3>1
  <2>2. CASE g = m + 1
    <3>1. PICK s \in 1..Len(F) : F[s] = BusOf(group, x)
      BY <1>2, <2>2
    <3> QED BY <1>4, <1>6, <2>2, <3>1
  <2> QED BY <1>7, <2>1, <2>2
<1>11. \A b, c \in 1..Len(C) : b < c => EarlierBus(C[b], C[c])
  <2> SUFFICES ASSUME NEW b \in 1..Len(C), NEW c \in 1..Len(C), b < c
               PROVE  EarlierBus(C[b], C[c])
    OBVIOUS
  <2>1. CASE c \in 1..Len(B)
    <3>1. b \in 1..Len(B)
      BY <1>3, <1>4, <2>1
    <3>2. EarlierBus(B[b], B[c])
      BY <2>1, <3>1 DEF BusesOf
    <3> QED BY <1>4, <2>1, <3>1, <3>2
  <2>2. CASE b \in 1..Len(B) /\ c - Len(B) \in 1..Len(F) /\ C[c] = F[c - Len(B)]
    <3>0. PICK g \in 1..m : \E x \in Spans(G[g].points) : B[b] = BusOf(G[g], x)
      BY <2>2 DEF BusesOf
    <3>1. PICK x \in Spans(G[g].points) : B[b] = BusOf(G[g], x)
      BY <3>0
    <3>2. PICK y \in Spans(group.points) : C[c] = BusOf(group, y)
      BY <1>2, <2>2
    <3>3. g \in 1..Len(G) /\ g < m + 1
      BY <1>8 DEF GroupsRight
    <3>4. G[g].key < group.key
      BY <3>3 DEF GroupsRight
    <3>5. C[b].key = G[g].key /\ C[c].key = group.key
      BY <1>4, <2>2, <3>1, <3>2 DEF BusOf
    <3> QED BY <3>4, <3>5 DEF EarlierBus
  <2>3. CASE b \notin 1..Len(B)
    <3>1. /\ b - Len(B) \in 1..Len(F) /\ C[b] = F[b - Len(B)]
          /\ c \notin 1..Len(B)
      BY <1>3, <1>4, <1>5, <2>3
    <3>2. c - Len(B) \in 1..Len(F) /\ C[c] = F[c - Len(B)]
      BY <1>5, <3>1
    <3>3. b - Len(B) < c - Len(B)
      BY <1>3, <1>4
    <3> QED BY <1>2, <3>1, <3>2, <3>3
  <2> QED BY <1>5, <2>1, <2>2, <2>3
<1>12. BusesOf(G, C, m + 1)
  BY <1>4, <1>9, <1>10, <1>11 DEF BusesOf
<1> QED BY <1>12 DEF C, F

-----------------------------------------------------------------------------
(* The rows as they are read.                                              *)
LEMMA TrackGrows ==
  ASSUME NEW P, Track(P), NEW row \in BusRow, P[Len(P)].time < row.time
  PROVE  Track(Append(P, row))
<1> DEFINE Q == Append(P, row)
           n == Len(P)
<1>1. P \in Seq(BusRow) /\ n \in Nat \ {0}
  BY DEF Track
<1>2. /\ Q \in Seq(BusRow) /\ Len(Q) = n + 1 /\ Q[n + 1] = row
      /\ \A i \in 1..n : Q[i] = P[i]
  BY <1>1
<1>3. \A i \in 1..n : P[i] \in BusRow
  BY <1>1
<1> HIDE DEF Q, n
<1>4. \A i, j \in 1..(n + 1) : i < j => Q[i].time < Q[j].time
  <2> SUFFICES ASSUME NEW i \in 1..(n + 1), NEW j \in 1..(n + 1), i < j
               PROVE  Q[i].time < Q[j].time
    OBVIOUS
  <2>1. i \in 1..n /\ (j \in 1..n \/ j = n + 1)
    BY <1>1
  <2>2. CASE j \in 1..n
    BY <1>2, <2>1, <2>2 DEF Track, n
  <2>3. CASE j = n + 1
    <3>1. i = n \/ i < n
      BY <1>1, <2>1
    <3>2. i < n => P[i].time < P[n].time
      BY <1>1, <2>1 DEF Track, n
    <3>3. P[i].time \in Int /\ P[n].time \in Int /\ row.time \in Int
      <4>1. n \in 1..n
        BY <1>1
      <4> QED BY <1>3, <2>1, <4>1 DEF BusRow
    <3>4. P[n].time < row.time
      BY DEF n
    <3>5. P[i].time < row.time
      BY <3>1, <3>2, <3>3, <3>4
    <3> QED BY <1>2, <2>1, <2>3, <3>5
  <2> QED BY <2>1, <2>2, <2>3
<1>5. Len(Q) \in Nat \ {0}
  BY <1>1, <1>2
<1> QED BY <1>2, <1>4, <1>5 DEF Track, Q

(* The buses of the earlier groups do not depend on the last one.          *)
LEMMA BusesStay ==
  ASSUME NEW G, NEW H, NEW B, NEW m, BusesOf(G, B, m), \A g \in 1..m : H[g] = G[g]
  PROVE  BusesOf(H, B, m)
<1>1. /\ B \in Seq(KeyedPoints)
      /\ \A b, c \in 1..Len(B) : b < c => EarlierBus(B[b], B[c])
  BY DEF BusesOf
<1>2. ASSUME NEW b \in 1..Len(B)
      PROVE  \E g \in 1..m : \E x \in Spans(H[g].points) : B[b] = BusOf(H[g], x)
  <2>1. PICK g \in 1..m : \E x \in Spans(G[g].points) : B[b] = BusOf(G[g], x)
    BY DEF BusesOf
  <2>2. H[g] = G[g]
    OBVIOUS
  <2> QED BY <2>1, <2>2
<1>3. ASSUME NEW g \in 1..m, NEW x \in Spans(H[g].points)
      PROVE  \E b \in 1..Len(B) : B[b] = BusOf(H[g], x)
  <2>1. H[g] = G[g]
    OBVIOUS
  <2>2. x \in Spans(G[g].points)
    BY <2>1
  <2> QED BY <2>1, <2>2 DEF BusesOf
<1> QED BY <1>1, <1>2, <1>3 DEF BusesOf

SliceInv ==
    /\ phase \in {"idle", "rows", "detect", "shown"}
    /\ GroupsRight(groups)
    /\ phase = "idle" => groups = << >> /\ buses = << >>
    /\ phase = "rows" =>
          BusesOf(groups, buses, IF groups = << >> THEN 0 ELSE Len(groups) - 1)
    /\ phase \in {"detect", "shown"} => BusesOf(groups, buses, Len(groups))

LEMMA NoGroups == GroupsRight(<< >>) /\ \A G : BusesOf(G, << >>, 0)
  BY DEF GroupsRight, BusesOf

LEMMA GroupsCounted ==
  ASSUME GroupsRight(groups), groups # << >>
  PROVE  /\ Len(groups) \in Nat \ {0} /\ Len(groups) \in 1..Len(groups)
         /\ Last = groups[Len(groups)] /\ Last \in KeyedPoints /\ Track(Last.points)
<1>1. groups \in Seq(KeyedPoints) /\ Len(groups) \in Nat
  BY DEF GroupsRight
<1>2. Len(groups) # 0
  BY <1>1
<1>3. Len(groups) \in 1..Len(groups)
  BY <1>1, <1>2
<1>4. groups[Len(groups)] \in KeyedPoints /\ Track(groups[Len(groups)].points)
  BY <1>1, <1>3 DEF GroupsRight
<1> QED BY <1>1, <1>2, <1>3, <1>4 DEF Last

LEMMA SampleFields ==
  ASSUME NEW s \in Samples
  PROVE  s.dt \in Nat \ {0} /\ s.move \in Int /\ s.speed \in -1..1 /\ s.full \in BOOLEAN
<1>1. s \in [dt : Nat \ {0}, move : Int, speed : -1..1, full : BOOLEAN]
  BY TracksAssumption
<1> QED BY <1>1

LEMMA SameKeyHolds ==
  ASSUME SliceInv, phase = "rows", phase' = "rows", NEW s \in Samples, SameKey(s)
  PROVE  SliceInv'
<1> DEFINE n == Len(groups)
           P == Last.points
           row == [time |-> P[Len(P)].time + s.dt, dist |-> P[Len(P)].dist + s.move,
                   speed |-> s.speed, full |-> s.full]
           new == [key |-> Last.key, points |-> Append(P, row)]
<1>1. groups # << >> /\ GroupsRight(groups)
  BY DEF SameKey, SliceInv
<1>2. n \in Nat \ {0} /\ n \in 1..n /\ Last = groups[n] /\ Last \in KeyedPoints /\ Track(P)
  BY <1>1, GroupsCounted
<1>3. P[Len(P)] \in BusRow
  <2>1. P \in Seq(BusRow) /\ Len(P) \in 1..Len(P)
    BY <1>2 DEF Track
  <2> QED BY <2>1
<1>4. row \in BusRow /\ P[Len(P)].time < row.time
  <2>1. P[Len(P)].time \in Int /\ P[Len(P)].dist \in Int
    BY <1>3 DEF BusRow
  <2>2. s.dt \in Nat \ {0} /\ s.move \in Int /\ s.speed \in -1..1 /\ s.full \in BOOLEAN
    BY SampleFields
  <2> QED BY <2>1, <2>2 DEF BusRow
<1>5. groups' = [groups EXCEPT ![n].points = Append(@, row)] /\ buses' = buses
  BY <1>2 DEF SameKey
<1> HIDE DEF row
<1>6. Track(Append(P, row))
  BY <1>2, <1>4, TrackGrows
<1>7. new \in KeyedPoints /\ Track(new.points) /\ new.key = Last.key
  <2>1. Append(P, row) \in Seq(BusRow)
    BY <1>6 DEF Track
  <2> QED BY <1>2, <1>6, <2>1 DEF KeyedPoints
<1>8. groups \in Seq(KeyedPoints)
  BY <1>1 DEF GroupsRight
<1>9. [groups[n] EXCEPT !.points = Append(@, row)] = new
  BY <1>2 DEF KeyedPoints
<1>10. groups' = [groups EXCEPT ![n] = new]
  BY <1>5, <1>9
<1> HIDE DEF new
<1>11. /\ groups' \in Seq(KeyedPoints) /\ Len(groups') = n /\ groups'[n] = new
       /\ \A g \in 1..n : g # n => groups'[g] = groups[g]
  BY <1>2, <1>7, <1>8, <1>10
<1> HIDE DEF n
<1>12. \A g \in 1..n : groups'[g].key = groups[g].key /\ Track(groups'[g].points)
  BY <1>1, <1>2, <1>7, <1>11 DEF GroupsRight, n
<1>13. GroupsRight(groups)'
  <2>1. \A g, h \in 1..n : g < h => groups'[g].key < groups'[h].key
    BY <1>1, <1>12 DEF GroupsRight, n
  <2> QED BY <1>11, <1>12, <2>1 DEF GroupsRight
<1>14. BusesOf(groups, buses, n - 1)
  BY <1>1 DEF SliceInv, n
<1>15. BusesOf(groups', buses, n - 1)
  <2>1. \A g \in 1..(n - 1) : groups'[g] = groups[g]
    BY <1>2, <1>11
  <2> QED BY <1>14, <2>1, BusesStay
<1>16. groups' # << >>
  <2>1. Len(groups') # 0
    BY <1>2, <1>11
  <2> QED BY <1>11, <2>1
<1> QED BY <1>5, <1>11, <1>13, <1>15, <1>16 DEF SliceInv

LEMMA OtherKeyHolds ==
  ASSUME SliceInv, phase = "rows", phase' = "rows", NEW s \in Samples, NEW key \in Keys,
         OtherKey(key, s)
  PROVE  SliceInv'
<1> DEFINE n == Len(groups)
           row == [time |-> 0, dist |-> 0, speed |-> s.speed, full |-> s.full]
           new == [key |-> key, points |-> <<row>>]
<1>1. GroupsRight(groups) /\ groups \in Seq(KeyedPoints) /\ n \in Nat
  BY DEF SliceInv, GroupsRight
<1>2. row \in BusRow
  BY SampleFields DEF BusRow
<1>3. new \in KeyedPoints /\ Track(new.points)
  <2> HIDE DEF row
  <2>1. <<row>> \in Seq(BusRow) /\ Len(<<row>>) = 1
    BY <1>2
  <2> QED BY <2>1 DEF KeyedPoints, Track
<1>4. groups' = Append(groups, new)
  BY DEF OtherKey
<1>5. buses' = IF groups = << >> THEN buses ELSE buses \o Flush(Last)
  BY DEF OtherKey
<1>6. new.key = key
  OBVIOUS
<1> HIDE DEF new
<1>7. /\ groups' \in Seq(KeyedPoints) /\ Len(groups') = n + 1 /\ groups'[n + 1] = new
      /\ \A g \in 1..n : groups'[g] = groups[g]
  BY <1>1, <1>3, <1>4
<1>8. \A g \in 1..n : groups[g].key < key
  <2> SUFFICES ASSUME NEW g \in 1..n PROVE groups[g].key < key
    OBVIOUS
  <2>1. groups # << >>
    BY <1>1
  <2>2. Last.key < key /\ n \in 1..n /\ Last = groups[n]
    BY <1>1, <2>1, GroupsCounted DEF OtherKey
  <2>3. g = n \/ g < n
    BY <1>1
  <2>4. g < n => groups[g].key < groups[n].key
    BY <1>1, <2>2 DEF GroupsRight
  <2>5. groups[g].key \in Nat /\ groups[n].key \in Nat /\ key \in Nat
    <3>1. groups[g] \in KeyedPoints /\ groups[n] \in KeyedPoints
      BY <1>1, <2>2
    <3> QED BY <3>1, TracksAssumption DEF KeyedPoints
  <2> QED BY <2>2, <2>3, <2>4, <2>5
<1>9. \A g \in 1..(n + 1) : g \in 1..n \/ g = n + 1
  BY <1>1
<1>10. GroupsRight(groups)'
  <2>1. \A g \in 1..(n + 1) : Track(groups'[g].points)
    BY <1>1, <1>3, <1>7, <1>9 DEF GroupsRight
  <2>2. \A g, h \in 1..(n + 1) : g < h => groups'[g].key < groups'[h].key
    <3> SUFFICES ASSUME NEW g \in 1..(n + 1), NEW h \in 1..(n + 1), g < h
                 PROVE  groups'[g].key < groups'[h].key
      OBVIOUS
    <3>1. g \in 1..n
      BY <1>1
    <3>2. CASE h \in 1..n
      BY <1>1, <1>7, <3>1, <3>2 DEF GroupsRight
    <3>3. CASE h = n + 1
      BY <1>6, <1>7, <1>8, <3>1, <3>3
    <3> QED BY <1>9, <3>2, <3>3
  <2> QED BY <1>7, <2>1, <2>2 DEF GroupsRight
<1>11. BusesOf(groups', buses', n)
  <2>1. CASE groups = << >>
    <3>1. n = 0
      BY <2>1
    <3>2. BusesOf(groups, buses, 0)
      BY <2>1 DEF SliceInv
    <3>3. \A g \in 1..0 : groups'[g] = groups[g]
      OBVIOUS
    <3> QED BY <1>5, <2>1, <3>1, <3>2, <3>3, BusesStay
  <2>2. CASE groups # << >>
    <3>1. n \in Nat \ {0} /\ n \in 1..n /\ Last = groups[n]
      BY <1>1, <2>2, GroupsCounted
    <3>2. n - 1 \in Nat /\ (n - 1) + 1 = n
      BY <3>1
    <3>3. BusesOf(groups, buses, n - 1)
      BY <2>2 DEF SliceInv
    <3> HIDE DEF n
    <3>4. BusesOf(groups, buses \o Flush(groups[n]), n)
      <4>1. (n - 1) + 1 \in 1..Len(groups)
        BY <3>1, <3>2 DEF n
      <4>2. BusesOf(groups, buses \o Flush(groups[(n - 1) + 1]), (n - 1) + 1)
        BY <1>1, <3>2, <3>3, <4>1, FlushAddsBuses
      <4> QED BY <3>2, <4>2
    <3> QED BY <1>5, <1>7, <2>2, <3>1, <3>4, BusesStay
  <2> QED BY <2>1, <2>2
<1>12. groups' # << >> /\ Len(groups') - 1 = n
  <2>1. Len(groups') # 0 /\ Len(groups') - 1 = n
    BY <1>1, <1>7
  <2> QED BY <1>7, <2>1
<1> QED BY <1>10, <1>11, <1>12 DEF SliceInv

LEMMA RowsEndHolds ==
  ASSUME SliceInv, RowsEnd
  PROVE  SliceInv'
<1>1. phase = "rows" /\ phase' = "detect" /\ groups' = groups /\ GroupsRight(groups)
  BY DEF RowsEnd, SliceInv
<1>2. BusesOf(groups, buses', Len(groups))
  <2>1. CASE groups = << >>
    <3>1. Len(groups) = 0 /\ buses' = buses /\ BusesOf(groups, buses, 0)
      BY <1>1, <2>1 DEF RowsEnd, SliceInv
    <3> QED BY <3>1
  <2>2. CASE groups # << >>
    <3> DEFINE n == Len(groups)
    <3>1. n \in Nat \ {0} /\ n \in 1..n /\ Last = groups[n]
      BY <1>1, <2>2, GroupsCounted
    <3>2. n - 1 \in Nat /\ (n - 1) + 1 = n
      BY <3>1
    <3>3. BusesOf(groups, buses, n - 1) /\ buses' = buses \o Flush(groups[n])
      BY <1>1, <2>2, <3>1 DEF SliceInv, RowsEnd
    <3> HIDE DEF n
    <3>4. (n - 1) + 1 \in 1..Len(groups)
      BY <3>1, <3>2 DEF n
    <3>5. BusesOf(groups, buses \o Flush(groups[(n - 1) + 1]), (n - 1) + 1)
      BY <1>1, <3>2, <3>3, <3>4, FlushAddsBuses
    <3>6. BusesOf(groups, buses', n)
      BY <3>2, <3>3, <3>5
    <3> QED BY <3>6 DEF n
  <2> QED BY <2>1, <2>2
<1>3. BusesOf(groups', buses', Len(groups'))
  BY <1>1, <1>2
<1>4. GroupsRight(groups')
  BY <1>1
<1> QED BY <1>1, <1>3, <1>4 DEF SliceInv

LEMMA SliceInvHolds ==
  ASSUME SliceInv, [TracksNext]_trackVars
  PROVE  SliceInv'
<1>1. CASE ReadSlice
  <2>1. phase' = "rows" /\ groups' = << >> /\ buses' = << >>
    BY <1>1 DEF ReadSlice, SliceInv
  <2> QED BY <2>1, NoGroups DEF SliceInv
<1>2. CASE NextRow
  <2>1. phase = "rows" /\ phase' = "rows"
    BY <1>2 DEF NextRow
  <2>2. PICK s \in Samples : SameKey(s) \/ \E key \in Keys : OtherKey(key, s)
    BY <1>2 DEF NextRow
  <2> QED BY <2>1, <2>2, SameKeyHolds, OtherKeyHolds
<1>3. CASE RowsEnd
  BY <1>3, RowsEndHolds
<1>4. CASE DetectPoint \/ NextBus
  <2>1. phase' = phase /\ groups' = groups /\ buses' = buses
    BY <1>4 DEF DetectPoint, NextBus
  <2> QED BY <2>1 DEF SliceInv
<1>5. CASE ShowTracks
  <2>1. phase = "detect" /\ phase' = "shown" /\ groups' = groups /\ buses' = buses
    BY <1>5 DEF ShowTracks
  <2> QED BY <2>1 DEF SliceInv
<1>6. CASE TracksDone
  <2>1. phase' = "idle" /\ groups' = << >> /\ buses' = << >>
    BY <1>6 DEF TracksDone
  <2> QED BY <2>1, NoGroups DEF SliceInv
<1>7. CASE UNCHANGED trackVars
  BY <1>7 DEF trackVars, SliceInv
<1> QED BY <1>1, <1>2, <1>3, <1>4, <1>5, <1>6, <1>7 DEF TracksNext

(* The buses so far are those of the keys that are complete.               *)
THEOREM SliceInvariant == TracksSpec => []SliceInv
<1>1. TracksInit => SliceInv
  BY NoGroups DEF TracksInit, SliceInv
<1> QED BY <1>1, SliceInvHolds, PTL DEF TracksSpec

(* Whatever the rows, the buses shown are the runs between two standstills *)
(* that moved far enough, all of them and in order (group_into_buses).     *)
THEOREM BusesCorrect == Spec => []BusesAreRealRuns
<1>1. SliceInv => BusesAreRealRuns
  <2> SUFFICES ASSUME SliceInv, phase = "shown" PROVE BusesAreRealRuns
    BY DEF BusesAreRealRuns
  <2> DEFINE Expected(g) == IF Len(groups[g].points) = 1 THEN {<<1, 1>>}
                            ELSE RealRuns(groups[g].points)
             Of(g) == {[key |-> groups[g].key,
                        points |-> SubSeq(groups[g].points, r[1], r[2])] : r \in Expected(g)}
             Answer == {buses[b] : b \in 1..Len(buses)}
             Wanted == UNION {Of(g) : g \in 1..Len(groups)}
  <2>1. BusesOf(groups, buses, Len(groups))
    BY DEF SliceInv
  <2>2. \A g \in 1..Len(groups) : Of(g) = {BusOf(groups[g], x) : x \in Spans(groups[g].points)}
    BY DEF BusOf, Spans
  <2>3. Answer = Wanted
    <3>1. \A b \in 1..Len(buses) : \E g \in 1..Len(groups) : buses[b] \in Of(g)
      <4> HIDE DEF Of
      <4> QED BY <2>1, <2>2 DEF BusesOf
    <3>2. \A g \in 1..Len(groups) : \A bus \in Of(g) : bus \in Answer
      <4> SUFFICES ASSUME NEW g \in 1..Len(groups), NEW bus \in Of(g) PROVE bus \in Answer
        OBVIOUS
      <4> HIDE DEF Of
      <4>1. PICK x \in Spans(groups[g].points) : bus = BusOf(groups[g], x)
        BY <2>2
      <4>2. PICK b \in 1..Len(buses) : buses[b] = BusOf(groups[g], x)
        BY <2>1 DEF BusesOf
      <4> QED BY <4>1, <4>2
    <3> HIDE DEF Of
    <3> QED BY <3>1, <3>2
  <2>4. \A b, c \in 1..Len(buses) : b < c =>
              \/ buses[b].key < buses[c].key
              \/ /\ buses[b].key = buses[c].key
                 /\ Points(b)[Len(Points(b))].time < Points(c)[1].time
    BY <2>1 DEF BusesOf, EarlierBus, Points
  <2> QED BY <2>3, <2>4 DEF BusesAreRealRuns
<1>2. TracksSpec => []BusesAreRealRuns
  BY <1>1, SliceInvariant, PTL
<1> QED BY <1>2, PartsOfSpec

-----------------------------------------------------------------------------
(* Idle and crowd episodes. T are the points of a bus that pass a test and *)
(* n is their number: a run is a maximal interval of T.                    *)
RunsOf(T, n) ==
    {r \in (1..n) \X (1..n) :
        /\ r[1] <= r[2]
        /\ \A k \in r[1]..r[2] : k \in T
        /\ r[1] > 1 => r[1] - 1 \notin T
        /\ r[2] < n => r[2] + 1 \notin T}

(* Those whose end the detector has seen when it comes to p.               *)
EndedBy(T, n, p) == {r \in RunsOf(T, n) : r[2] + 1 < p}

(* The run that it is in.                                                  *)
InRun(T, p, run) ==
    \/ run = << >> /\ (p > 1 => p - 1 \notin T)
    \/ /\ run \in (1..(p - 1)) \X {p - 1}
       /\ \A k \in run[1]..(p - 1) : k \in T
       /\ run[1] > 1 => run[1] - 1 \notin T

LEMMA RunExtends ==
  ASSUME NEW n \in Nat, NEW p \in 1..n, NEW T, p \in T, NEW run, InRun(T, p, run)
  PROVE  /\ InRun(T, p + 1, Extend(run, p))
         /\ EndedBy(T, n, p + 1) = EndedBy(T, n, p)
<1>1. InRun(T, p + 1, Extend(run, p))
  <2>1. CASE run = << >>
    <3>1. Extend(run, p) = <<p, p>>
      BY <2>1 DEF Extend
    <3>2. <<p, p>> \in (1..(p + 1 - 1)) \X {p + 1 - 1}
      OBVIOUS
    <3>3. \A k \in p..(p + 1 - 1) : k \in T
      OBVIOUS
    <3>4. p > 1 => p - 1 \notin T
      BY <2>1 DEF InRun
    <3> QED BY <3>1, <3>2, <3>3, <3>4 DEF InRun
  <2>2. CASE run # << >>
    <3>1. /\ run \in (1..(p - 1)) \X {p - 1}
          /\ \A k \in run[1]..(p - 1) : k \in T
          /\ run[1] > 1 => run[1] - 1 \notin T
      BY <2>2 DEF InRun
    <3>2. PICK f \in 1..(p - 1) : f = run[1]
      BY <3>1
    <3>3. Extend(run, p) = <<f, p>>
      BY <2>2, <3>2 DEF Extend
    <3>4. <<f, p>> \in (1..(p + 1 - 1)) \X {p + 1 - 1}
      OBVIOUS
    <3>5. \A k \in f..(p + 1 - 1) : k \in f..(p - 1) \/ k = p
      OBVIOUS
    <3>6. \A k \in f..(p + 1 - 1) : k \in T
      BY <3>1, <3>2, <3>5
    <3> QED BY <3>1, <3>2, <3>3, <3>4, <3>6 DEF InRun
  <2> QED BY <2>1, <2>2
<1>2. EndedBy(T, n, p + 1) = EndedBy(T, n, p)
  <2> SUFFICES ASSUME NEW r \in RunsOf(T, n) PROVE r[2] + 1 < p + 1 <=> r[2] + 1 < p
    BY DEF EndedBy
  <2>1. r[2] \in 1..n /\ (r[2] < n => r[2] + 1 \notin T)
    BY DEF RunsOf
  <2>2. r[2] + 1 # p
    BY <2>1
  <2> QED BY <2>1, <2>2
<1> QED BY <1>1, <1>2

(* A run is over where the next point fails the test, or at the end.       *)
LEMMA RunCloses ==
  ASSUME NEW n \in Nat, NEW p \in 1..(n + 1), NEW T, p <= n => p \notin T,
         NEW run, InRun(T, p, run)
  PROVE  /\ run # << >> => run \in RunsOf(T, n) /\ run[2] = p - 1
         /\ \A r \in RunsOf(T, n) : r[2] = p - 1 => r = run
<1>1. ASSUME run # << >> PROVE run \in RunsOf(T, n) /\ run[2] = p - 1
  <2>1. /\ run \in (1..(p - 1)) \X {p - 1}
        /\ \A k \in run[1]..(p - 1) : k \in T
        /\ run[1] > 1 => run[1] - 1 \notin T
    BY <1>1 DEF InRun
  <2>2. PICK f \in 1..(p - 1) : run = <<f, p - 1>>
    BY <2>1
  <2>3. <<f, p - 1>> \in (1..n) \X (1..n)
    BY <2>2
  <2>4. p - 1 < n => (p - 1) + 1 \notin T
    OBVIOUS
  <2> QED BY <2>1, <2>2, <2>3, <2>4 DEF RunsOf
<1>2. ASSUME NEW r \in RunsOf(T, n), r[2] = p - 1 PROVE r = run
  <2>1. /\ r[1] \in 1..n /\ r[1] <= p - 1 /\ r = <<r[1], p - 1>>
        /\ \A k \in r[1]..(p - 1) : k \in T
        /\ r[1] > 1 => r[1] - 1 \notin T
    BY <1>2 DEF RunsOf
  <2>2. PICK f \in 1..(p - 1) : f = r[1]
    BY <2>1
  <2>3. run # << >>
    <3>1. p - 1 \in f..(p - 1) /\ p > 1
      BY <2>2
    <3> QED BY <2>1, <2>2, <3>1 DEF InRun
  <2>4. /\ run \in (1..(p - 1)) \X {p - 1}
        /\ \A k \in run[1]..(p - 1) : k \in T
        /\ run[1] > 1 => run[1] - 1 \notin T
    BY <2>3 DEF InRun
  <2>5. PICK e \in 1..(p - 1) : run = <<e, p - 1>> /\ e = run[1]
    BY <2>4
  <2>6. ~(e < f)
    <3> SUFFICES ASSUME e < f PROVE FALSE
      OBVIOUS
    <3>1. f - 1 \in e..(p - 1) /\ f > 1
      OBVIOUS
    <3> QED BY <2>1, <2>2, <2>4, <2>5, <3>1
  <2>7. ~(f < e)
    <3> SUFFICES ASSUME f < e PROVE FALSE
      OBVIOUS
    <3>1. e - 1 \in f..(p - 1) /\ e > 1
      OBVIOUS
    <3> QED BY <2>1, <2>2, <2>4, <2>5, <3>1
  <2>8. e = f
    BY <2>6, <2>7
  <2> QED BY <2>1, <2>2, <2>5, <2>8
<1> QED BY <1>1, <1>2

(* The episodes of a bus in E, as pairs of points.                         *)
ReportedSpans(E, b) == {<<e.first, e.last>> : e \in {x \in E : x.bus = b}}

(* flush reports the run, if it is one of those asked for.                 *)
RunReported(A, b, run) == IF run # << >> /\ run \in A THEN {Episode(b, run)} ELSE {}

(* At point p of bus b, of n buses with N[c] points each, of which those   *)
(* in T[c] pass the test: A[c] are the runs that are asked for.            *)
Detected(E, T, A, N, n, b, p, run) ==
    /\ b \in 1..(n + 1)
    /\ b <= n => p \in 1..(N[b] + 1) /\ InRun(T[b], p, run)
    /\ b = n + 1 => p = 1 /\ run = << >>
    /\ \A c \in 1..n : ReportedSpans(E, c) =
          IF c < b THEN RunsOf(T[c], N[c]) \cap A[c]
          ELSE IF c = b THEN EndedBy(T[c], N[c], p) \cap A[c]
          ELSE {}

LEMMA SpannedGrows ==
  ASSUME NEW E, NEW A, NEW b, NEW run, run = << >> \/ run = <<run[1], run[2]>>
  PROVE  \A c : ReportedSpans(E \cup RunReported(A, b, run), c) = ReportedSpans(E, c)
                   \cup (IF c = b /\ run # << >> /\ run \in A THEN {run} ELSE {})
<1> TAKE c
<1>1. CASE run # << >> /\ run \in A
  <2> DEFINE new == [bus |-> b, first |-> run[1], last |-> run[2]]
  <2>1. RunReported(A, b, run) = {new}
    BY <1>1 DEF RunReported, Episode
  <2>2. new.bus = b /\ <<new.first, new.last>> = run
    BY <1>1
  <2> HIDE DEF new
  <2>3. \A F, x : x \in ReportedSpans(F, c) <=> \E e \in F : e.bus = c /\ x = <<e.first, e.last>>
    BY DEF ReportedSpans
  <2>4. \A x : x \in ReportedSpans(E \cup {new}, c)
                 <=> x \in ReportedSpans(E, c) \/ (b = c /\ x = run)
    BY <2>2, <2>3
  <2>5. ReportedSpans(E \cup {new}, c) = ReportedSpans(E, c) \cup (IF c = b THEN {run} ELSE {})
    BY <2>4
  <2> QED BY <1>1, <2>1, <2>5
<1>2. CASE ~(run # << >> /\ run \in A)
  <2>1. RunReported(A, b, run) = {}
    BY <1>2 DEF RunReported
  <2> QED BY <1>2, <2>1 DEF ReportedSpans
<1> QED BY <1>1, <1>2

LEMMA DetectedHit ==
  ASSUME NEW n \in Nat, NEW N, NEW T, NEW A, NEW E, NEW b \in 1..n, N[b] \in Nat,
         NEW p \in 1..N[b], p \in T[b], NEW run, Detected(E, T, A, N, n, b, p, run)
  PROVE  Detected(E, T, A, N, n, b, p + 1, Extend(run, p))
<1>1. InRun(T[b], p, run) /\ b # n + 1
  BY DEF Detected
<1>2. /\ InRun(T[b], p + 1, Extend(run, p))
      /\ EndedBy(T[b], N[b], p + 1) = EndedBy(T[b], N[b], p)
  BY <1>1, RunExtends
<1>3. p + 1 \in 1..(N[b] + 1)
  OBVIOUS
<1> QED BY <1>1, <1>2, <1>3 DEF Detected

(* What the detector reports where a run is over.                          *)
LEMMA ReportedRun ==
  ASSUME NEW n \in Nat, NEW p \in 1..(n + 1), NEW T, p <= n => p \notin T,
         NEW run, InRun(T, p, run), NEW A
  PROVE  EndedBy(T, n, p + 1) \cap A
           = (EndedBy(T, n, p) \cap A) \cup (IF run # << >> /\ run \in A THEN {run} ELSE {})
<1>1. /\ run # << >> => run \in RunsOf(T, n) /\ run[2] = p - 1
      /\ \A r \in RunsOf(T, n) : r[2] = p - 1 => r = run
  BY RunCloses
<1>2. \A r \in RunsOf(T, n) : r[2] \in 1..n
  BY DEF RunsOf
<1>3. \A r \in RunsOf(T, n) : r[2] + 1 < p + 1 <=> r[2] + 1 < p \/ r[2] = p - 1
  BY <1>2
<1>4. \A r \in RunsOf(T, n) : r[2] = p - 1 => r # << >>
  <2> SUFFICES ASSUME NEW r \in RunsOf(T, n) PROVE r # << >>
    OBVIOUS
  <2>1. PICK i \in 1..n, j \in 1..n : r = <<i, j>>
    BY DEF RunsOf
  <2>2. <<i, j>> # << >>
    OBVIOUS
  <2> QED BY <2>1, <2>2
<1>5. \A r \in RunsOf(T, n) : r[2] = p - 1 <=> run # << >> /\ r = run
  BY <1>1, <1>4
<1>6. \A r : r \in EndedBy(T, n, p + 1)
              <=> r \in EndedBy(T, n, p) \/ (run # << >> /\ r = run)
  BY <1>1, <1>3, <1>5 DEF EndedBy
<1> QED BY <1>6

LEMMA DetectedMiss ==
  ASSUME NEW n \in Nat, NEW N, NEW T, NEW A, NEW E, NEW b \in 1..n, N[b] \in Nat,
         NEW p \in 1..N[b], p \notin T[b], NEW run, Detected(E, T, A, N, n, b, p, run)
  PROVE  Detected(E \cup RunReported(A[b], b, run), T, A, N, n, b, p + 1, << >>)
<1>1. InRun(T[b], p, run) /\ b # n + 1
  BY DEF Detected
<1>2. run = << >> \/ run = <<run[1], run[2]>>
  BY <1>1 DEF InRun
<1>3. InRun(T[b], p + 1, << >>)
  BY DEF InRun
<1>4. p + 1 \in 1..(N[b] + 1) /\ p \in 1..(N[b] + 1)
  OBVIOUS
<1> DEFINE F == E \cup RunReported(A[b], b, run)
<1>5. \A c : ReportedSpans(F, c) = ReportedSpans(E, c)
               \cup (IF c = b /\ run # << >> /\ run \in A[b] THEN {run} ELSE {})
  BY ONLY SMTT(30), <1>2, SpannedGrows
<1> HIDE DEF F
<1>6. ReportedSpans(F, b) = EndedBy(T[b], N[b], p + 1) \cap A[b]
  <2>1. ReportedSpans(E, b) = EndedBy(T[b], N[b], p) \cap A[b]
    BY DEF Detected
  <2>2. EndedBy(T[b], N[b], p + 1) \cap A[b]
           = (EndedBy(T[b], N[b], p) \cap A[b])
               \cup (IF run # << >> /\ run \in A[b] THEN {run} ELSE {})
    BY <1>1, <1>4, ReportedRun
  <2> QED BY <1>5, <2>1, <2>2
<1>7. \A c : c # b => ReportedSpans(F, c) = ReportedSpans(E, c)
  BY <1>5
<1>8. Detected(F, T, A, N, n, b, p + 1, << >>)
  BY <1>1, <1>3, <1>4, <1>6, <1>7 DEF Detected
<1> QED BY <1>8 DEF F

LEMMA DetectedEnd ==
  ASSUME NEW n \in Nat, NEW N, NEW T, NEW A, NEW E, NEW b \in 1..n,
         \A c \in 1..n : N[c] \in Nat, NEW p, p > N[b], NEW run, Detected(E, T, A, N, n, b, p, run)
  PROVE  Detected(E \cup RunReported(A[b], b, run), T, A, N, n, b + 1, 1, << >>)
<1>1. InRun(T[b], p, run) /\ b # n + 1 /\ p \in 1..(N[b] + 1)
  BY DEF Detected
<1>2. run = << >> \/ run = <<run[1], run[2]>>
  BY <1>1 DEF InRun
<1>3. p = N[b] + 1 /\ ~(p <= N[b]) /\ N[b] \in Nat
  BY <1>1
<1> DEFINE F == E \cup RunReported(A[b], b, run)
<1>5. \A c : ReportedSpans(F, c) = ReportedSpans(E, c)
               \cup (IF c = b /\ run # << >> /\ run \in A[b] THEN {run} ELSE {})
  BY ONLY SMTT(30), <1>2, SpannedGrows
<1> HIDE DEF F
<1>6. ReportedSpans(F, b) = RunsOf(T[b], N[b]) \cap A[b]
  <2>1. ReportedSpans(E, b) = EndedBy(T[b], N[b], p) \cap A[b]
    BY DEF Detected
  <2>2. EndedBy(T[b], N[b], p + 1) \cap A[b]
           = (EndedBy(T[b], N[b], p) \cap A[b])
               \cup (IF run # << >> /\ run \in A[b] THEN {run} ELSE {})
    BY <1>1, <1>3, ReportedRun
  <2>3. EndedBy(T[b], N[b], p + 1) = RunsOf(T[b], N[b])
    <3>1. \A r \in RunsOf(T[b], N[b]) : r[2] \in 1..N[b]
      BY DEF RunsOf
    <3>2. \A r \in RunsOf(T[b], N[b]) : r[2] + 1 < p + 1
      BY <1>3, <3>1
    <3> QED BY <3>2 DEF EndedBy
  <2> QED BY <1>5, <2>1, <2>2, <2>3
<1>7. \A c : c # b => ReportedSpans(F, c) = ReportedSpans(E, c)
  BY <1>5
<1>8. \A c : EndedBy(T[c], N[c], 1) = {}
  <2> SUFFICES ASSUME NEW c, NEW r \in RunsOf(T[c], N[c]), r[2] + 1 < 1 PROVE FALSE
    BY DEF EndedBy
  <2>1. r[1] >= 1 /\ r[1] <= r[2] /\ r[1] \in Int /\ r[2] \in Int
    BY DEF RunsOf
  <2> QED BY <2>1
<1>9. \A c \in 1..n : (c < b + 1 <=> c < b \/ c = b) /\ (c = b + 1 => ~(c < b) /\ c # b)
  OBVIOUS
<1>10. \A c \in 1..n : ReportedSpans(F, c) =
          IF c < b + 1 THEN RunsOf(T[c], N[c]) \cap A[c]
          ELSE IF c = b + 1 THEN EndedBy(T[c], N[c], 1) \cap A[c]
          ELSE {}
  <2> SUFFICES ASSUME NEW c \in 1..n
               PROVE  ReportedSpans(F, c) =
                         IF c < b + 1 THEN RunsOf(T[c], N[c]) \cap A[c]
                         ELSE IF c = b + 1 THEN EndedBy(T[c], N[c], 1) \cap A[c]
                         ELSE {}
    OBVIOUS
  <2>1. CASE c = b
    BY <1>6, <1>9, <2>1
  <2>2. CASE c # b
    <3>1. ReportedSpans(F, c) = IF c < b THEN RunsOf(T[c], N[c]) \cap A[c] ELSE {}
      BY <1>7, <2>2 DEF Detected
    <3> QED BY <1>8, <1>9, <2>2, <3>1
  <2> QED BY <2>1, <2>2
<1>11. InRun(T[b + 1], 1, << >>) /\ b + 1 \in 1..(n + 1)
  BY DEF InRun
<1>12. ASSUME b + 1 <= n PROVE 1 \in 1..(N[b + 1] + 1)
  <2>1. N[b + 1] \in Nat
    BY <1>12
  <2> QED BY <2>1
<1>13. Detected(F, T, A, N, n, b + 1, 1, << >>)
  BY <1>10, <1>11, <1>12 DEF Detected
<1> QED BY <1>13 DEF F

LEMMA DetectedNothing ==
  ASSUME NEW n \in Nat, NEW N, \A c \in 1..n : N[c] \in Nat, NEW T, NEW A
  PROVE  Detected({}, T, A, N, n, 1, 1, << >>)
<1>1. \A c \in 1..n : EndedBy(T[c], N[c], 1) = {}
  <2> SUFFICES ASSUME NEW c \in 1..n, NEW r \in RunsOf(T[c], N[c]), r[2] + 1 < 1 PROVE FALSE
    BY DEF EndedBy
  <2>1. r[1] >= 1 /\ r[1] <= r[2] /\ r[1] \in Int /\ r[2] \in Int
    BY DEF RunsOf
  <2> QED BY <2>1
<1>2. \A c : ReportedSpans({}, c) = {}
  BY DEF ReportedSpans
<1>3. InRun(T[1], 1, << >>)
  BY DEF InRun
<1>4. 1 <= n => 1 \in 1..(N[1] + 1)
  <2> SUFFICES ASSUME 1 <= n PROVE 1 \in 1..(N[1] + 1)
    OBVIOUS
  <2>1. N[1] \in Nat
    OBVIOUS
  <2> QED BY <2>1
<1>5. \A c \in 1..n : ~(c < 1)
  OBVIOUS
<1>6. 1 \in 1..(n + 1)
  OBVIOUS
<1> QED BY <1>1, <1>2, <1>3, <1>4, <1>5, <1>6 DEF Detected

(* The points that the two tests find, and the runs that are long enough.  *)
IdlePoints == [c \in 1..Len(buses) |-> {k \in 1..Len(Points(c)) : IsIdle(Points(c)[k])}]

CrowdPoints == [c \in 1..Len(buses) |-> {k \in 1..Len(Points(c)) : IsCrowded(Points(c)[k])}]

LongEnough ==
    [c \in 1..Len(buses) |->
        {r \in Nat \X Nat : Points(c)[r[2]].time - Points(c)[r[1]].time >= IdleMin}]

AnyRun == [c \in 1..Len(buses) |-> Nat \X Nat]

NumPoints == [c \in 1..Len(buses) |-> Len(Points(c))]

DetectInv ==
    /\ phase \in {"idle", "rows"} =>
          /\ at = NoPoint /\ idleRun = << >> /\ crowdRun = << >>
          /\ idle = {} /\ crowd = {}
    /\ phase \in {"detect", "shown"} =>
          /\ at = [bus |-> at.bus, point |-> at.point]
          /\ Detected(idle, IdlePoints, LongEnough, NumPoints, Len(buses),
                      at.bus, at.point, idleRun)
          /\ Detected(crowd, CrowdPoints, AnyRun, NumPoints, Len(buses),
                      at.bus, at.point, crowdRun)
    /\ phase = "shown" => at.bus = Len(buses) + 1

LEMMA KeptBusesCounted ==
  ASSUME NEW G, NEW B, NEW m, BusesOf(G, B, m)
  PROVE  Len(B) \in Nat /\ \A c \in 1..Len(B) : Len(B[c].points) \in Nat
<1>1. B \in Seq(KeyedPoints)
  BY DEF BusesOf
<1>2. \A c \in 1..Len(B) : B[c] \in KeyedPoints
  BY <1>1
<1>3. \A c \in 1..Len(B) : B[c].points \in Seq(BusRow)
  BY <1>2 DEF KeyedPoints
<1> QED BY <1>1, <1>3

LEMMA BusesCounted ==
  ASSUME SliceInv
  PROVE  /\ Len(buses) \in Nat
         /\ \A c \in 1..Len(buses) :
               NumPoints[c] = Len(Points(c)) /\ NumPoints[c] \in Nat
<1>1. CASE phase = "idle"
  BY <1>1 DEF SliceInv
<1>2. CASE phase # "idle"
  <2>1. PICK m : BusesOf(groups, buses, m)
    BY <1>2 DEF SliceInv
  <2> QED BY <2>1, KeptBusesCounted DEF NumPoints, Points
<1> QED BY <1>1, <1>2

(* The model's flush is the one of the lemmas.                             *)
LEMMA FlushesReport ==
  ASSUME NEW b \in 1..Len(buses), NEW p \in Int, NEW T
  PROVE  /\ InRun(T, p, idleRun) =>
               IdleEpisodes(b, idleRun) = RunReported(LongEnough[b], b, idleRun)
         /\ InRun(T, p, crowdRun) =>
               CrowdEpisodes(b, crowdRun) = RunReported(AnyRun[b], b, crowdRun)
<1>1. ASSUME NEW run, InRun(T, p, run), run # << >> PROVE run \in Nat \X Nat
  <2>1. run \in (1..(p - 1)) \X {p - 1}
    BY <1>1 DEF InRun
  <2>2. PICK i \in 1..(p - 1) : run = <<i, p - 1>>
    BY <2>1
  <2>3. i \in Nat /\ p - 1 \in Nat
    OBVIOUS
  <2> QED BY <2>2, <2>3
<1>2. ASSUME InRun(T, p, idleRun)
      PROVE  IdleEpisodes(b, idleRun) = RunReported(LongEnough[b], b, idleRun)
  <2>1. CASE idleRun = << >>
    BY <2>1 DEF IdleEpisodes, RunReported
  <2>2. CASE idleRun # << >>
    <3>1. idleRun \in Nat \X Nat
      BY <1>1, <1>2, <2>2
    <3>2. idleRun \in LongEnough[b]
            <=> Points(b)[idleRun[2]].time - Points(b)[idleRun[1]].time >= IdleMin
      BY <3>1 DEF LongEnough
    <3> QED BY <2>2, <3>2 DEF IdleEpisodes, RunReported
  <2> QED BY <2>1, <2>2
<1>3. ASSUME InRun(T, p, crowdRun)
      PROVE  CrowdEpisodes(b, crowdRun) = RunReported(AnyRun[b], b, crowdRun)
  <2>1. crowdRun # << >> => crowdRun \in AnyRun[b]
    BY <1>1, <1>3 DEF AnyRun
  <2> QED BY <2>1 DEF CrowdEpisodes, RunReported
<1> QED BY <1>2, <1>3

LEMMA DetectPointHolds ==
  ASSUME SliceInv, DetectInv, DetectPoint
  PROVE  DetectInv'
<1> DEFINE b == at.bus
           p == at.point
<1>1. /\ phase = "detect" /\ phase' = "detect" /\ buses' = buses
      /\ b <= Len(buses) /\ p <= Len(Points(b))
      /\ at' = [at EXCEPT !.point = p + 1]
  BY DEF DetectPoint
<1>2. PICK n \in Nat : n = Len(buses)
  BY BusesCounted
<1>3. PICK N, IP, CP, LE, AR : /\ N = NumPoints /\ IP = IdlePoints /\ CP = CrowdPoints
                               /\ LE = LongEnough /\ AR = AnyRun
  OBVIOUS
<1>4. /\ at = [bus |-> b, point |-> p]
      /\ Detected(idle, IP, LE, N, n, b, p, idleRun)
      /\ Detected(crowd, CP, AR, N, n, b, p, crowdRun)
  BY <1>1, <1>2, <1>3 DEF DetectInv
<1>5. /\ NumPoints' = N /\ IdlePoints' = IP /\ CrowdPoints' = CP
      /\ LongEnough' = LE /\ AnyRun' = AR
  BY <1>1, <1>3 DEF NumPoints, IdlePoints, CrowdPoints, LongEnough, AnyRun, Points
<1>6. at' = [bus |-> b, point |-> p + 1]
  BY <1>1, <1>4
<1>7. b \in 1..n /\ N[b] \in Nat /\ p \in 1..N[b] /\ N[b] = Len(Points(b))
  <2>1. b \in 1..n
    BY <1>1, <1>2, <1>4 DEF Detected
  <2>2. p \in 1..(N[b] + 1)
    BY <1>1, <1>2, <1>4, <2>1 DEF Detected
  <2>3. N[b] \in Nat /\ N[b] = Len(Points(b))
    BY <1>2, <1>3, <2>1, BusesCounted
  <2> QED BY <1>1, <2>1, <2>2, <2>3
<1>8. p \in IP[b] <=> IsIdle(Points(b)[p])
  BY <1>2, <1>3, <1>7 DEF IdlePoints
<1>9. p \in CP[b] <=> IsCrowded(Points(b)[p])
  BY <1>2, <1>3, <1>7 DEF CrowdPoints
<1>10. InRun(IP[b], p, idleRun) /\ InRun(CP[b], p, crowdRun) /\ p \in Int
  BY <1>4, <1>7 DEF Detected
<1>11. Detected(idle', IP, LE, N, n, b, p + 1, idleRun')
  <2>1. CASE IsIdle(Points(b)[p])
    <3>1. idleRun' = Extend(idleRun, p) /\ idle' = idle
      BY <2>1 DEF DetectPoint
    <3> QED BY <1>4, <1>7, <1>8, <2>1, <3>1, DetectedHit
  <2>2. CASE ~IsIdle(Points(b)[p])
    <3>1. idleRun' = << >> /\ idle' = idle \cup IdleEpisodes(b, idleRun)
      BY <2>2 DEF DetectPoint
    <3>2. IdleEpisodes(b, idleRun) = RunReported(LE[b], b, idleRun)
      BY <1>2, <1>3, <1>7, <1>10, FlushesReport
    <3> QED BY <1>4, <1>7, <1>8, <2>2, <3>1, <3>2, DetectedMiss
  <2> QED BY <2>1, <2>2
<1>12. Detected(crowd', CP, AR, N, n, b, p + 1, crowdRun')
  <2>1. CASE IsCrowded(Points(b)[p])
    <3>1. crowdRun' = Extend(crowdRun, p) /\ crowd' = crowd
      BY <2>1 DEF DetectPoint
    <3> QED BY <1>4, <1>7, <1>9, <2>1, <3>1, DetectedHit
  <2>2. CASE ~IsCrowded(Points(b)[p])
    <3>1. crowdRun' = << >> /\ crowd' = crowd \cup CrowdEpisodes(b, crowdRun)
      BY <2>2 DEF DetectPoint
    <3>2. CrowdEpisodes(b, crowdRun) = RunReported(AR[b], b, crowdRun)
      BY <1>2, <1>3, <1>7, <1>10, FlushesReport
    <3> QED BY <1>4, <1>7, <1>9, <2>2, <3>1, <3>2, DetectedMiss
  <2> QED BY <2>1, <2>2
<1>13. at'.bus = b /\ at'.point = p + 1
  BY <1>6
<1> HIDE DEF b, p
<1> QED BY <1>1, <1>2, <1>5, <1>6, <1>11, <1>12, <1>13 DEF DetectInv

LEMMA NextBusHolds ==
  ASSUME SliceInv, DetectInv, NextBus
  PROVE  DetectInv'
<1> DEFINE b == at.bus
           p == at.point
<1>1. /\ phase = "detect" /\ phase' = "detect" /\ buses' = buses
      /\ b <= Len(buses) /\ p > Len(Points(b))
      /\ at' = [bus |-> b + 1, point |-> 1]
      /\ idleRun' = << >> /\ idle' = idle \cup IdleEpisodes(b, idleRun)
      /\ crowdRun' = << >> /\ crowd' = crowd \cup CrowdEpisodes(b, crowdRun)
  BY DEF NextBus
<1>2. PICK n \in Nat : n = Len(buses)
  BY BusesCounted
<1>3. PICK N, IP, CP, LE, AR : /\ N = NumPoints /\ IP = IdlePoints /\ CP = CrowdPoints
                               /\ LE = LongEnough /\ AR = AnyRun
  OBVIOUS
<1>4. /\ Detected(idle, IP, LE, N, n, b, p, idleRun)
      /\ Detected(crowd, CP, AR, N, n, b, p, crowdRun)
  BY <1>1, <1>2, <1>3 DEF DetectInv
<1>5. /\ NumPoints' = N /\ IdlePoints' = IP /\ CrowdPoints' = CP
      /\ LongEnough' = LE /\ AnyRun' = AR
  BY <1>1, <1>3 DEF NumPoints, IdlePoints, CrowdPoints, LongEnough, AnyRun, Points
<1>6. \A c \in 1..n : N[c] \in Nat
  BY <1>2, <1>3, BusesCounted
<1>7. b \in 1..n /\ p \in Int /\ p > N[b]
  <2>1. b \in 1..n
    BY <1>1, <1>2, <1>4 DEF Detected
  <2>2. p \in 1..(N[b] + 1)
    BY <1>1, <1>2, <1>4, <2>1 DEF Detected
  <2>3. N[b] = Len(Points(b))
    BY <1>2, <1>3, <2>1, BusesCounted
  <2> QED BY <1>1, <2>1, <2>2, <2>3
<1>8. InRun(IP[b], p, idleRun) /\ InRun(CP[b], p, crowdRun)
  BY <1>4, <1>7 DEF Detected
<1>9. Detected(idle', IP, LE, N, n, b + 1, 1, idleRun')
  <2>1. IdleEpisodes(b, idleRun) = RunReported(LE[b], b, idleRun)
    BY <1>2, <1>3, <1>7, <1>8, FlushesReport
  <2> QED BY <1>1, <1>4, <1>6, <1>7, <2>1, DetectedEnd
<1>10. Detected(crowd', CP, AR, N, n, b + 1, 1, crowdRun')
  <2>1. CrowdEpisodes(b, crowdRun) = RunReported(AR[b], b, crowdRun)
    BY <1>2, <1>3, <1>7, <1>8, FlushesReport
  <2> QED BY <1>1, <1>4, <1>6, <1>7, <2>1, DetectedEnd
<1>11. at'.bus = b + 1 /\ at'.point = 1
  BY <1>1
<1> HIDE DEF b, p
<1> QED BY <1>1, <1>2, <1>5, <1>9, <1>10, <1>11 DEF DetectInv

LEMMA DetectInvHolds ==
  ASSUME SliceInv, SliceInv', DetectInv, [TracksNext]_trackVars
  PROVE  DetectInv'
<1>1. CASE ReadSlice \/ NextRow
  <2>1. /\ phase \in {"idle", "rows"} /\ phase' = "rows"
        /\ at' = at /\ idleRun' = idleRun /\ crowdRun' = crowdRun
        /\ idle' = idle /\ crowd' = crowd
    BY <1>1 DEF ReadSlice, NextRow
  <2> QED BY <2>1 DEF DetectInv, NoPoint
<1>2. CASE RowsEnd
  <2>1. /\ phase' = "detect" /\ at' = [bus |-> 1, point |-> 1]
        /\ idleRun' = << >> /\ crowdRun' = << >> /\ idle' = {} /\ crowd' = {}
    BY <1>2 DEF RowsEnd, DetectInv, NoPoint
  <2>2. PICK n \in Nat : n = Len(buses')
    <3>1. BusesOf(groups', buses', Len(groups'))
      BY <2>1 DEF SliceInv
    <3> QED BY <3>1, KeptBusesCounted
  <2>3. \A c \in 1..n : NumPoints'[c] \in Nat
    <3>1. BusesOf(groups', buses', Len(groups'))
      BY <2>1 DEF SliceInv
    <3>2. \A c \in 1..n : Len(buses'[c].points) \in Nat
      BY <2>2, <3>1, KeptBusesCounted
    <3> QED BY <2>2, <3>2 DEF NumPoints, Points
  <2>4. \A T, A : Detected({}, T, A, NumPoints', n, 1, 1, << >>)
    BY <2>3, DetectedNothing
  <2>5. at'.bus = 1 /\ at'.point = 1
    BY <2>1
  <2> QED BY <2>1, <2>2, <2>4, <2>5 DEF DetectInv
<1>3. CASE DetectPoint
  BY <1>3, DetectPointHolds
<1>4. CASE NextBus
  BY <1>4, NextBusHolds
<1>5. CASE ShowTracks
  <2>1. /\ phase = "detect" /\ phase' = "shown" /\ buses' = buses
        /\ at' = at /\ idleRun' = idleRun /\ crowdRun' = crowdRun
        /\ idle' = idle /\ crowd' = crowd /\ at.bus > Len(buses)
    BY <1>5 DEF ShowTracks
  <2>2. at.bus = Len(buses) + 1
    <3>1. at.bus \in 1..(Len(buses) + 1) /\ Len(buses) \in Nat
      BY <2>1, BusesCounted DEF DetectInv, Detected
    <3> QED BY <2>1, <3>1
  <2> QED BY <2>1, <2>2
          DEF DetectInv, IdlePoints, CrowdPoints, LongEnough, AnyRun, NumPoints, Points
<1>6. CASE TracksDone
  BY <1>6 DEF TracksDone, DetectInv
<1>7. CASE UNCHANGED trackVars
  BY <1>7 DEF trackVars, DetectInv, IdlePoints, CrowdPoints, LongEnough, AnyRun, NumPoints, Points
<1> QED BY <1>1, <1>2, <1>3, <1>4, <1>5, <1>6, <1>7 DEF TracksNext

(* What the two passes have reported when they come to a point of a bus.   *)
THEOREM DetectInvariant == TracksSpec => [](SliceInv /\ DetectInv)
<1>1. TracksInit => SliceInv /\ DetectInv
  BY NoGroups DEF TracksInit, SliceInv, DetectInv
<1>2. SliceInv /\ DetectInv /\ [TracksNext]_trackVars => (SliceInv /\ DetectInv)'
  BY SliceInvHolds, DetectInvHolds
<1> QED BY <1>1, <1>2, PTL DEF TracksSpec

(* The idle and crowd episodes shown are the maximal runs of their points, *)
(* however the runs lie and wherever a bus begins or ends                  *)
(* (detect_idle_events, detect_crowd_events).                              *)
THEOREM EpisodesCorrect == Spec => []EpisodesAreRuns
<1>1. SliceInv /\ DetectInv => EpisodesAreRuns
  <2> SUFFICES ASSUME SliceInv, DetectInv, phase = "shown", NEW b \in 1..Len(buses)
               PROVE  LET P == Points(b)
                          long(r) == P[r[2]].time - P[r[1]].time >= IdleMin
                          shown(E) == {<<e.first, e.last>> : e \in {x \in E : x.bus = b}}
                      IN  /\ shown(idle) =
                                {r \in MaximalRuns(P, LAMBDA k : IsIdle(P[k])) : long(r)}
                          /\ shown(crowd) = MaximalRuns(P, LAMBDA k : IsCrowded(P[k]))
    BY DEF EpisodesAreRuns
  <2> DEFINE P == Points(b)
             n == Len(buses)
             long(r) == P[r[2]].time - P[r[1]].time >= IdleMin
  <2>1. n \in Nat /\ NumPoints[b] = Len(P) /\ Len(P) \in Nat
    BY BusesCounted
  <2>2. b < at.bus
    BY <2>1 DEF DetectInv
  <2>3. ReportedSpans(idle, b) = RunsOf(IdlePoints[b], Len(P)) \cap LongEnough[b]
    BY <2>1, <2>2 DEF DetectInv, Detected
  <2>4. ReportedSpans(crowd, b) = RunsOf(CrowdPoints[b], Len(P)) \cap AnyRun[b]
    BY <2>1, <2>2 DEF DetectInv, Detected
  <2>5. /\ \A k \in 1..Len(P) : k \in IdlePoints[b] <=> IsIdle(P[k])
        /\ \A k \in 1..Len(P) : k \in CrowdPoints[b] <=> IsCrowded(P[k])
    BY DEF IdlePoints, CrowdPoints
  <2>6. /\ LongEnough[b] = {r \in Nat \X Nat : long(r)}
        /\ AnyRun[b] = Nat \X Nat
    BY DEF LongEnough, AnyRun
  <2> HIDE DEF P, long
  <2>7. \A r \in (1..Len(P)) \X (1..Len(P)) :
           /\ r \in Nat \X Nat
           /\ \A k \in r[1]..r[2] : k \in 1..Len(P)
           /\ r[1] > 1 => r[1] - 1 \in 1..Len(P)
           /\ r[2] < Len(P) => r[2] + 1 \in 1..Len(P)
    BY <2>1
  <2>8. RunsOf(IdlePoints[b], Len(P)) = MaximalRuns(P, LAMBDA k : IsIdle(P[k]))
    BY <2>5, <2>7 DEF RunsOf, MaximalRuns
  <2>9. RunsOf(CrowdPoints[b], Len(P)) = MaximalRuns(P, LAMBDA k : IsCrowded(P[k]))
    BY <2>5, <2>7 DEF RunsOf, MaximalRuns
  <2>10. \A T : \A r \in RunsOf(T, Len(P)) : r \in Nat \X Nat
    BY <2>7 DEF RunsOf
  <2>11. ReportedSpans(idle, b) = {r \in MaximalRuns(P, LAMBDA k : IsIdle(P[k])) : long(r)}
    <3>1. \A r \in RunsOf(IdlePoints[b], Len(P)) : r \in LongEnough[b] <=> long(r)
      BY <2>6, <2>10
    <3>2. ReportedSpans(idle, b) = {r \in RunsOf(IdlePoints[b], Len(P)) : long(r)}
      BY <2>3, <3>1
    <3> QED BY <2>8, <3>2
  <2>12. ReportedSpans(crowd, b) = MaximalRuns(P, LAMBDA k : IsCrowded(P[k]))
    BY <2>4, <2>6, <2>9, <2>10
  <2> QED BY <2>11, <2>12 DEF ReportedSpans, P, long
<1>2. TracksSpec => []EpisodesAreRuns
  BY <1>1, DetectInvariant, PTL
<1> QED BY <1>2, PartsOfSpec
=============================================================================
