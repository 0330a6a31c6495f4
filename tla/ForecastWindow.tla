--------------------------- MODULE ForecastWindow ---------------------------
(***************************************************************************)
(* The feature window of a bus as it is served (build_bus_window and its   *)
(* helpers, live_features.py; run_forecast, forecast.py) beside the one    *)
(* the training set would hold for the same samples                        *)
(* (extract_labelled_examples, labels.py). Samples fall on the ticks of    *)
(* the grid, and ticks of a recording may lack theirs; the reference time  *)
(* is tick 0. Of a neighbour's speed the model keeps whose it is. A feature*)
(* that is a ratio is a fraction [num, den].                               *)
(***************************************************************************)
EXTENDS Integers, Sequences, FiniteSetsExt

CONSTANTS
    Tracks,         \* recordings: functions from sets of ticks to distances
    Peers,          \* the other buses, in their order; the target is bus 0
    SeqLen,
    SampleTol,      \* max_gap_s, in ticks
    NoLeader,       \* NO_LEADER_GAP_M
    Legacy,         \* scale of a bundle trained before the change of units
    RouteLength,    \* route_shape_length_m
    StopSpacing,    \* distance between two stops
    NumStops,
    EdgeExclude,
    Medians,        \* median speeds per tick
    FloorSpeed,     \* floor_speed_m_s, per tick
    PredLen,
    EnvCap          \* the horizon cap of the environment, in steps

ASSUME WindowAssumption ==
    /\ \A tr \in Tracks : DOMAIN tr \subseteq Int /\ \A t \in DOMAIN tr : tr[t] \in Nat
    /\ Peers \subseteq Nat \ {0}
    /\ SeqLen \in Nat \ {0} /\ SampleTol \in Nat
    /\ NoLeader \in Nat \ {0} /\ RouteLength \in Nat \ {0}
    /\ Legacy \in Nat \ {0}
    /\ StopSpacing \in Nat \ {0} /\ NumStops \in Nat /\ EdgeExclude \in Nat
    /\ Medians \subseteq Nat /\ FloorSpeed \in Nat \ {0}
    /\ PredLen \in Nat \ {0} /\ EnvCap \in 1..PredLen

VARIABLES
    serving,    \* idle, build, scored, refused or shown
    scale,      \* input_scale of the bundle
    track,      \* the recordings, of the target (0) and of the peers
    rows,       \* the window so far
    reason,     \* why the bus is not scored
    exceed,     \* horizon steps whose probability reaches the threshold
    useful,     \* useful_horizon_steps
    median,     \* median_speed_m_s_recent
    alert       \* first_alert_step; 0 is None

windowVars == <<serving, scale, track, rows, reason, exceed, useful, median, alert>>

WindowInit ==
    /\ serving = "idle"
    /\ scale = 1
    /\ track = << >>
    /\ rows = << >>
    /\ reason = "none"
    /\ exceed = {}
    /\ useful = 0
    /\ median = 0
    /\ alert = 0

Nobody == 0

AbsDiff(a, b) == IF a >= b THEN a - b ELSE b - a

(* _sample_at: the tick of the nearest sample within the tolerance, the    *)
(* earlier of two.                                                         *)
Near(tr, t, tol) == {u \in DOMAIN tr : AbsDiff(u, t) <= tol}

SampleTick(tr, t, tol) ==
    CHOOSE u \in Near(tr, t, tol) : \A w \in Near(tr, t, tol) :
        \/ AbsDiff(u, t) < AbsDiff(w, t)
        \/ AbsDiff(u, t) = AbsDiff(w, t) /\ u <= w

(* Distances in the units of the bundle, of the buses with a sample.       *)
Served(t) ==
    [p \in {q \in Peers : Near(track[q], t, SampleTol) # {}} |->
        scale * track[p][SampleTick(track[p], t, SampleTol)]]

(* The nearest bus of At beyond d; the first of several.                   *)
Beyond(At, d) == {p \in DOMAIN At : At[p] > d}

Leader(At, d) ==
    CHOOSE p \in Beyond(At, d) : \A q \in Beyond(At, d) :
        At[p] < At[q] \/ (At[p] = At[q] /\ p <= q)

Without(At, P) == [p \in DOMAIN At \ P |-> At[p]]

-----------------------------------------------------------------------------
(* _forward_gap and _downstream_chain: a gap of NoLeader or more counts as *)
(* no leader at all.                                                       *)
Within(At, d) == {p \in Beyond(At, d) : At[p] - d < NoLeader}

(* Mutant: the farthest bus ahead is taken for the leader.                 *)
LinkFarthest(At, d) ==
    IF Within(At, d) = {} THEN [bus |-> Nobody, gap |-> NoLeader]
    ELSE LET far == CHOOSE p \in Within(At, d) : \A q \in Within(At, d) : At[q] <= At[p]
         IN [bus |-> far, gap |-> At[far] - d]

Link(At, d) ==
    IF Within(At, d) = {} THEN [bus |-> Nobody, gap |-> NoLeader]
    ELSE [bus |-> Leader(At, d), gap |-> At[Leader(At, d)] - d]

NoLink == [bus |-> Nobody, gap |-> NoLeader]

LiveChain(At, d) ==
    LET one == Link(At, d)
        two == IF one.bus = Nobody THEN NoLink
               ELSE Link(Without(At, {one.bus}), At[one.bus])
        three == IF two.bus = Nobody THEN NoLink
                 ELSE Link(Without(At, {one.bus, two.bus}), At[two.bus])
    IN <<one, two, three>>

(* _forward_gap_row, three times: the training set has no such limit.      *)
GapRow(At, d) ==
    IF Beyond(At, d) = {} THEN NoLink
    ELSE [bus |-> Leader(At, d), gap |-> At[Leader(At, d)] - d]

TrainedChain(At, d) ==
    LET one == GapRow(At, d)
        two == IF one.bus = Nobody THEN NoLink
               ELSE GapRow(Without(At, {one.bus}), At[one.bus])
        three == IF two.bus = Nobody THEN NoLink
                 ELSE GapRow(Without(At, {one.bus, two.bus}), At[two.bus])
    IN <<one, two, three>>

(* Gap closure over up to three ticks, between two measured gaps.          *)
Lookback(k) == IF k - 1 < 3 THEN k - 1 ELSE 3

Closure(gaps, k) ==
    LET lb == Lookback(k)
    IN IF lb > 0 /\ gaps[k - lb] < NoLeader /\ gaps[k] < NoLeader
       THEN [num |-> gaps[k - lb] - gaps[k], den |-> lb]
       ELSE [num |-> 0, den |-> 1]

(* dist_to_terminus_norm                                                   *)
ToTerminus(length, d) ==
    [num |-> IF length > d THEN length - d ELSE 0, den |-> length]

-----------------------------------------------------------------------------
(* A stop index is a distance over StopSpacing; round() takes a half to    *)
(* the even neighbour.                                                     *)
Rounded(d) ==
    LET low == d \div StopSpacing
        rest == 2 * (d % StopSpacing)
    IN IF rest < StopSpacing THEN low
       ELSE IF rest > StopSpacing THEN low + 1
       ELSE IF low % 2 = 0 THEN low ELSE low + 1

(* Mutant: the last stop of the band is excluded with the edge.            *)
InsideEdgeTight(d) == Rounded(d) > EdgeExclude /\ Rounded(d) < NumStops - EdgeExclude

InsideEdge(d) == Rounded(d) >= EdgeExclude /\ Rounded(d) < NumStops - EdgeExclude

(* The tick that row k of the window stands for.                           *)
TickOf(k) == k - SeqLen

Target == track[0]

(* The bundle that is loaded is one trained on metres or a legacy one.     *)
Forecast ==
    /\ serving = "idle"
    /\ scale' \in {1, Legacy}
    /\ track' \in [{0} \cup Peers -> Tracks]
    /\ serving' = "build"
    /\ UNCHANGED <<rows, reason, exceed, useful, median, alert>>

Refuse(why) ==
    /\ serving' = "refused"
    /\ reason' = why
    /\ UNCHANGED <<scale, track, rows, exceed, useful, median, alert>>

(* Freshness of a tick and a half, and a sample within half a tick.        *)
RefuseReference ==
    /\ serving = "build"
    /\ rows = << >>
    /\ \/ /\ \A u \in DOMAIN Target : u > 0 \/ u < -1
          /\ Refuse("stale")
       \/ /\ \E u \in DOMAIN Target : u \in -1..0
          /\ 0 \notin DOMAIN Target
          /\ Refuse("no sample")
       \/ /\ 0 \in DOMAIN Target
          /\ ~InsideEdge(Target[0])
          /\ Refuse("edge")

AtReference == 0 \in DOMAIN Target /\ InsideEdge(Target[0])

GapsSoFar == [k \in 1..Len(rows) |-> rows[k].chain[1].gap]

Row(k, d) ==
    LET chain == LiveChain(Served(TickOf(k)), d)
    IN [dist |-> d,
        chain |-> chain,
        closure |-> Closure(Append(GapsSoFar, chain[1].gap), k),
        norm |-> ToTerminus(RouteLength, d)]

BuildTick ==
    LET k == Len(rows) + 1
        near == Near(Target, TickOf(k), SampleTol)
    IN  /\ serving = "build"
        /\ AtReference
        /\ k <= SeqLen
        /\ near # {}
        /\ rows' = Append(rows,
                      Row(k, scale * Target[SampleTick(Target, TickOf(k), SampleTol)]))
        /\ UNCHANGED <<serving, scale, track, reason, exceed, useful, median, alert>>

RefuseTick ==
    /\ serving = "build"
    /\ AtReference
    /\ Len(rows) < SeqLen
    /\ Near(Target, TickOf(Len(rows) + 1), SampleTol) = {}
    /\ Refuse("missing")

RefuseAlone ==
    /\ serving = "build"
    /\ Len(rows) = SeqLen
    /\ \A k \in 1..SeqLen : rows[k].chain[1].gap >= NoLeader
    /\ Refuse("no leader")

(* The window is scored: any steps may reach their thresholds.             *)
Predict ==
    /\ serving = "build"
    /\ Len(rows) = SeqLen
    /\ \E k \in 1..SeqLen : rows[k].chain[1].gap < NoLeader
    /\ serving' = "scored"
    /\ exceed' \in {{}, {PredLen}, 2..PredLen}
    /\ median' \in Medians
    /\ UNCHANGED <<scale, track, rows, reason, useful, alert>>

(* _useful_horizon_steps, with its safety factor of one and a half and its *)
(* minimum of three steps.                                                 *)
Largest(a, b) == IF a >= b THEN a ELSE b
Smallest(a, b) == IF a <= b THEN a ELSE b

UsefulSteps(travel, length, speed) ==
    Largest(3, Smallest(PredLen,
        (3 * Largest(0, length - travel)) \div (2 * Largest(speed, FloorSpeed))))

(* Mutant: the steps are cut with the length of the serving units.         *)
CutLength == RouteLength

ModelLength == scale * RouteLength

FirstAlert(n) ==
    IF exceed \cap (1..n) = {} THEN 0 ELSE Min(exceed \cap (1..n))

Truncate ==
    /\ serving = "scored"
    /\ serving' = "shown"
    /\ useful' = Smallest(UsefulSteps(scale * Target[0], ModelLength, scale * median), EnvCap)
    /\ alert' = FirstAlert(useful')
    /\ UNCHANGED <<scale, track, rows, reason, exceed, median>>

ForecastDone ==
    /\ serving \in {"refused", "shown"}
    /\ serving' = "idle"
    /\ scale' = 1 /\ track' = << >> /\ rows' = << >> /\ reason' = "none"
    /\ exceed' = {} /\ useful' = 0 /\ median' = 0 /\ alert' = 0

WindowNext ==
    \/ Forecast \/ RefuseReference \/ BuildTick \/ RefuseTick \/ RefuseAlone
    \/ Predict \/ Truncate \/ ForecastDone

WindowSpec == WindowInit /\ [][WindowNext]_windowVars

-----------------------------------------------------------------------------
(* What the training set holds for the same recordings, where it has       *)
(* samples on the ticks: a bus counts at a tick that has its sample.       *)
Recorded(t) == [p \in {q \in Peers : t \in DOMAIN track[q]} |-> scale * track[p][t]]

Trained(k) == TrainedChain(Recorded(TickOf(k)), scale * Target[TickOf(k)])

(* Between samples, and up to the tolerance before the first and after the *)
(* last, the two differ: serving takes the nearest (_sample_at), training  *)
(* interpolates between two (_bus_points_on_grid) and takes nobody outside *)
(* his recording. A tick is decided if every bus has its sample or is      *)
(* farther from any than the tolerance, which both take for an absence.    *)
SpansDecided(k) ==
    \A b \in {0} \cup Peers :
        TickOf(k) \in DOMAIN track[b] \/ Near(track[b], TickOf(k), SampleTol) = {}

AllSpansDecided == \A k \in 1..SeqLen : SpansDecided(k)

(* A chain up to its first gap as long as the sentinel: for serving nobody *)
(* is ahead from there on, while the training row holds the gap, and the   *)
(* buses beyond it, as they are.                                           *)
Cut(chain) ==
    LET kept(i) == IF \A j \in 1..i : chain[j].gap < NoLeader THEN chain[i] ELSE NoLink
    IN <<kept(1), kept(2), kept(3)>>

(* "the trainer and live builder must agree column-by-column"              *)
(* (live_features.py): where the ticks so far are decided, a row served is *)
(* the training row of the same samples, in position, in the gaps and      *)
(* neighbours of its chain up to a sentinel, and in the rate at which the  *)
(* gap closes. The distance to the terminus agrees in the present units    *)
(* only: a legacy bundle gets scaled positions on an unscaled route.       *)
ServedAsTrained ==
    \A k \in 1..Len(rows) :
        (\A j \in 1..k : SpansDecided(j)) =>
            /\ rows[k].dist = scale * Target[TickOf(k)]
            /\ rows[k].chain = Cut(Trained(k))
            /\ rows[k].closure = Closure([j \in 1..k |-> Trained(j)[1].gap], k)
            /\ scale = 1 => rows[k].norm = ToTerminus(RouteLength, Target[TickOf(k)])

(* Farther than half a stop below a distance, or not below it at all.      *)
OutOfRounding(edge, d) == d >= edge \/ 2 * (edge - d) > StopSpacing

(* And the buses that are scored are those the training set takes examples *)
(* of, unless the bus is within the half stop below an edge of the band:   *)
(* there serving has rounded its index up to the edge (or may have, at the *)
(* half), while training compares the index as it is (labels.py).          *)
ScoredAsTrained ==
    /\ serving \in {"scored", "refused"}
    /\ reason \notin {"stale", "no sample"}
    /\ AllSpansDecided
    /\ OutOfRounding(EdgeExclude * StopSpacing, Target[0])
    /\ OutOfRounding((NumStops - EdgeExclude) * StopSpacing, Target[0])
    => (serving = "scored" <=>
            /\ \A k \in 1..SeqLen : TickOf(k) \in DOMAIN Target
            /\ EdgeExclude * StopSpacing <= Target[0]
            /\ Target[0] < (NumStops - EdgeExclude) * StopSpacing
            /\ \E k \in 1..SeqLen : Trained(k)[1].gap < NoLeader)

(* "_useful_horizon_steps only consumes their ratio, so the scale cancels" *)
(* (forecast.py), above the floor of the speed; and an alert is one of the *)
(* steps that are drawn, the first that reaches its threshold.             *)
HorizonUnitFree ==
    serving = "shown" =>
        /\ median >= FloorSpeed =>
              useful = Smallest(UsefulSteps(Target[0], RouteLength, median), EnvCap)
        /\ alert # 0 <=> exceed \cap (1..useful) # {}
        /\ alert # 0 => alert \in exceed /\ \A h \in exceed : alert <= h
=============================================================================
