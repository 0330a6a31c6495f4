---------------------------- MODULE StopCrossings ----------------------------
(***************************************************************************)
(* Bunching by time (_first_crossings and detect_bunch_events,             *)
(* anomalies.py): when each bus first passes each stop, and which buses    *)
(* pass a stop soon after another. Stop indexes are in Parts of a stop;    *)
(* times between two points are fractions [num, den]. The points of a bus  *)
(* are chosen as the pass over them comes to them. The cap max_stop_int is *)
(* left out: it is the largest index among the same points.                *)
(***************************************************************************)
EXTENDS Integers, Sequences

CONSTANTS
    Parts,          \* parts of the way from a stop to the next
    MaxStop,        \* the last stop
    Indexes,        \* stop indexes a point may have
    Starts,         \* when a bus may be first seen
    Steps,          \* times between two points
    Threshold,      \* bunch_seconds_threshold
    MaxBuses,       \* bound: buses
    MaxPoints       \* bound: points of all buses

ASSUME CrossingsAssumption ==
    /\ Parts \in Nat \ {0} /\ MaxStop \in Nat
    /\ Indexes \subseteq 0..(MaxStop * Parts)
    /\ Starts \subseteq Nat /\ Steps \subseteq Nat \ {0}
    /\ Threshold \in Nat /\ MaxBuses \in Nat /\ MaxPoints \in Nat

VARIABLES
    passing,    \* idle, scan or shown
    points,     \* of the bus at hand: a sequence of [time, stop]
    crossings,  \* its first crossings, by stop
    passes,     \* of the buses before: a sequence of their crossings
    used,       \* points of the buses before
    flagged     \* the events: [bus, stop]

crossVars == <<passing, points, crossings, passes, used, flagged>>

CrossInit ==
    /\ passing = "idle"
    /\ points = << >>
    /\ crossings = << >>
    /\ passes = << >>
    /\ used = 0
    /\ flagged = {}

StopNumbers == 0..MaxStop

Earlier(a, b) == a.num * b.den < b.num * a.den
Instant(t) == [num |-> t, den |-> 1]

(* The stops between two points, and when the line between them is there.  *)
Lower(a, b) == IF a.stop <= b.stop THEN a ELSE b
Higher(a, b) == IF a.stop <= b.stop THEN b ELSE a

Spanned(a, b) ==
    {s \in StopNumbers : Lower(a, b).stop <= s * Parts /\ s * Parts <= Higher(a, b).stop}

CrossedAt(a, b, s) ==
    LET lo == Lower(a, b)
        hi == Higher(a, b)
        span == hi.stop - lo.stop
    IN IF span <= 0 THEN Instant(lo.time)
       ELSE [num |-> lo.time * span + (s * Parts - lo.stop) * (hi.time - lo.time),
             den |-> span]

(* Mutant: a later crossing takes the place of the first.                  *)
CrossedLast(a, b) ==
    [s \in DOMAIN crossings \cup Spanned(a, b) |->
        IF s \in Spanned(a, b) THEN CrossedAt(a, b, s) ELSE crossings[s]]

Crossed(a, b) ==
    [s \in DOMAIN crossings \cup Spanned(a, b) |->
        IF s \in DOMAIN crossings THEN crossings[s] ELSE CrossedAt(a, b, s)]

FirstPoint ==
    /\ passing = "idle" \/ (passing = "scan" /\ points = << >>)
    /\ passing' = "scan"
    /\ Len(passes) < MaxBuses
    /\ used < MaxPoints
    /\ \E t \in Starts, i \in Indexes : points' = <<[time |-> t, stop |-> i]>>
    /\ UNCHANGED <<crossings, passes, used, flagged>>

NextPoint ==
    /\ passing = "scan"
    /\ points # << >>
    /\ used + Len(points) < MaxPoints
    /\ \E dt \in Steps, i \in Indexes :
          LET a == points[Len(points)]
              b == [time |-> a.time + dt, stop |-> i]
          IN  /\ points' = Append(points, b)
              /\ crossings' = Crossed(a, b)
    /\ UNCHANGED <<passing, passes, used, flagged>>

PointsEnd ==
    /\ passing = "scan"
    /\ points # << >>
    /\ passes' = Append(passes, crossings)
    /\ used' = used + Len(points)
    /\ points' = << >> /\ crossings' = << >>
    /\ UNCHANGED <<passing, flagged>>

-----------------------------------------------------------------------------
PassesAt(s) == {b \in 1..Len(passes) : s \in DOMAIN passes[b]}

(* The sort by crossing time keeps the buses of one instant in their order.*)
PassesBefore(s, a, b) ==
    \/ Earlier(passes[a][s], passes[b][s])
    \/ ~Earlier(passes[b][s], passes[a][s]) /\ a < b

NextToPass(s, a, b) ==
    /\ PassesBefore(s, a, b)
    /\ ~\E c \in PassesAt(s) : PassesBefore(s, a, c) /\ PassesBefore(s, c, b)

Plus(a, n) == [num |-> a.num + n * a.den, den |-> a.den]

(* 0 < gap_s < bunch_seconds_threshold                                     *)
SoonAfter(s, a, b) ==
    /\ Earlier(passes[a][s], passes[b][s])
    /\ Earlier(passes[b][s], Plus(passes[a][s], Threshold))

(* Mutant: the leading bus of the pair is tagged.                          *)
TaggedLeader ==
    {[bus |-> x[2], stop |-> x[1]] : x \in
        {y \in StopNumbers \X (1..Len(passes)) \X (1..Len(passes)) :
            /\ {y[2], y[3]} \subseteq PassesAt(y[1])
            /\ NextToPass(y[1], y[2], y[3])
            /\ SoonAfter(y[1], y[2], y[3])}}

Tagged ==
    {[bus |-> x[3], stop |-> x[1]] : x \in
        {y \in StopNumbers \X (1..Len(passes)) \X (1..Len(passes)) :
            /\ {y[2], y[3]} \subseteq PassesAt(y[1])
            /\ NextToPass(y[1], y[2], y[3])
            /\ SoonAfter(y[1], y[2], y[3])}}

ShowBunches ==
    /\ passing = "scan"
    /\ points = << >>
    /\ passing' = "shown"
    /\ flagged' = Tagged
    /\ UNCHANGED <<points, crossings, passes, used>>

CrossDone ==
    /\ passing = "shown"
    /\ passing' = "idle"
    /\ passes' = << >> /\ used' = 0 /\ flagged' = {}
    /\ UNCHANGED <<points, crossings>>

CrossNext == FirstPoint \/ NextPoint \/ PointsEnd \/ ShowBunches \/ CrossDone

CrossSpec == CrossInit /\ [][CrossNext]_crossVars

-----------------------------------------------------------------------------
(* The track of the bus is the line through its points. It has a crossing  *)
(* of every stop on its way and of no other; the line is at the stop at    *)
(* that instant, and was nowhere at it before: the points before all lie on*)
(* one side of the stop, or at it at that instant.                         *)
FirstPassage ==
    /\ \A s \in StopNumbers :
          (\E k \in 1..(Len(points) - 1), m \in 1..(Len(points) - 1) :
              /\ Lower(points[k], points[k + 1]).stop <= s * Parts
              /\ s * Parts <= Higher(points[m], points[m + 1]).stop)
          <=> s \in DOMAIN crossings
    /\ \A s \in DOMAIN crossings :
        LET at == crossings[s]
            side(k) == IF points[k].stop < s * Parts THEN -1
                       ELSE IF points[k].stop > s * Parts THEN 1 ELSE 0
        IN \E k \in 1..(Len(points) - 1) :
              LET a == points[k]
                  b == points[k + 1]
              IN  /\ ~Earlier(at, Instant(a.time)) /\ ~Earlier(Instant(b.time), at)
                  /\ (at.num - a.time * at.den) * (b.stop - a.stop)
                        = (s * Parts - a.stop) * (b.time - a.time) * at.den
                  /\ \A m \in 1..k : \/ side(m) # 0 /\ side(m) = side(1)
                                     \/ m = k /\ at.num = a.time * at.den

(* The first listed of the buses that pass a stop at one instant.          *)
FirstTogether(s, b) ==
    ~\E c \in PassesAt(s) : /\ c < b
                            /\ ~Earlier(passes[c][s], passes[b][s])
                            /\ ~Earlier(passes[b][s], passes[c][s])

(* Exactly these are flagged at a stop: the buses that pass it after some  *)
(* other bus, adjacent to them or not, by less than the threshold; of those*)
(* that pass at one instant the first listed only. "two consecutive trip   *)
(* instances pass the same point within <= bunch_seconds_threshold of each  *)
(* other" (anomalies.py:6-7) promises more: two that pass at an interval of*)
(* exactly the threshold, or together, are within it and do not flag each  *)
(* other. The function's docstring (a consecutive pair with a time between *)
(* them below the threshold) excludes the first of these as the code does, *)
(* and not the second.                                                     *)
FollowersFlagged ==
    passing = "shown" =>
        flagged = {e \in [bus : 1..Len(passes), stop : StopNumbers] :
            /\ e.bus \in PassesAt(e.stop)
            /\ \E a \in PassesAt(e.stop) : SoonAfter(e.stop, a, e.bus)
            /\ FirstTogether(e.stop, e.bus)}
=============================================================================
