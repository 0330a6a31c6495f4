--------------------------- MODULE BunchingLabels ---------------------------
(***************************************************************************)
(* The labels of the training set (extract_labelled_examples, labels.py).  *)
(* The target's recording on the grid is chosen tick by tick: whether the  *)
(* tick is valid, whether its forward gap is below the bunching threshold, *)
(* and whether the bus is inside the edge-exclusion band. Examples are     *)
(* taken at every reference tick with a full history (one that has no      *)
(* leader at any tick is dropped by the code and not modelled). The headway*)
(* of a tick is read off the recording of the leader.                      *)
(***************************************************************************)
EXTENDS Integers, Sequences, FiniteSetsExt

CONSTANTS
    History,        \* seq_len
    Horizon,        \* pred_len
    PersistCounts,  \* the values of persist_ticks
    GridTicks,      \* bound: ticks of the grid
    Reach           \* bound: the largest distance of the leader

ASSUME LabelsAssumption ==
    /\ History \in Nat \ {0} /\ Horizon \in Nat \ {0}
    /\ PersistCounts \subseteq Nat
    /\ GridTicks \in Nat /\ Reach \in Nat

VARIABLES
    work,       \* idle, grid, walk, kept or headway
    grid,       \* of the target: a sequence of [valid, bunched, edge]
    ref,        \* k_ref
    step,       \* h + 1
    labels,     \* by <<reference tick, horizon step>>: [label, persist],
                \* the latter for every value of persist_ticks
    leader,     \* of the leader: a sequence of distances, -1 where invalid
    asked,      \* the distance and the tick asked about
    passage     \* t_pass: [num, den], or NoPassage

labelVars == <<work, grid, ref, step, labels, leader, asked, passage>>

NoPassage == [num |-> 0, den |-> 0]
NoQuestion == [dist |-> 0, tick |-> 0]

LabelsInit ==
    /\ work = "idle"
    /\ grid = << >>
    /\ ref = 0 /\ step = 0
    /\ labels = << >>
    /\ leader = << >> /\ asked = NoQuestion /\ passage = NoPassage

(* fwd_gap of an invalid tick is the sentinel, not below the threshold.    *)
TickKinds ==
    {t \in [valid : BOOLEAN, bunched : BOOLEAN, edge : BOOLEAN] :
        ~t.valid => ~t.bunched /\ ~t.edge}

LoadSlice ==
    /\ work = "idle"
    /\ work' = "grid"
    /\ grid' \in [1..GridTicks -> TickKinds]
    /\ ref' = History - 1
    /\ UNCHANGED <<step, labels, leader, asked, passage>>

ValidAll(i, j) == \A k \in i..j : grid[k].valid

Eligible(k) == ~grid[k].edge /\ ValidAll(k - History + 1, k)

NextReference ==
    /\ work = "grid"
    /\ ref < GridTicks
    /\ ref' = ref + 1
    /\ work' = IF Eligible(ref + 1) THEN "walk" ELSE "grid"
    /\ step' = 1
    /\ UNCHANGED <<grid, labels, leader, asked, passage>>

(* Mutant: the debounced label does not look back before the reference.    *)
PersistFromReference(n, k) ==
    IF k - n + 1 <= ref THEN grid[k].bunched
    ELSE \A j \in (k - n + 1)..k : grid[j].bunched

(* The label of a tick debounced over n, or the plain one where the ticks  *)
(* before it are not all there.                                            *)
Persist(n, k) ==
    LET low == k - n + 1
    IN IF n <= 1 \/ low < 1 \/ ~ValidAll(low, k) THEN grid[k].bunched
       ELSE \A j \in low..k : grid[j].bunched

Debounced(k) == [n \in PersistCounts |-> Persist(n, k)]

Put(h) ==
    labels' = [x \in DOMAIN labels \cup {<<ref, h>>} |->
                  IF x = <<ref, h>>
                  THEN [label |-> grid[ref + h].bunched, persist |-> Debounced(ref + h)]
                  ELSE labels[x]]

(* Mutant: the walk ends where the bus enters the excluded edge.           *)
LabelStepStops ==
    LET k == ref + step
    IN  /\ work = "walk"
        /\ IF step > Horizon \/ k > GridTicks \/ ~grid[k].valid \/ grid[k].edge
           THEN work' = "grid" /\ UNCHANGED <<step, labels>>
           ELSE Put(step) /\ step' = step + 1 /\ UNCHANGED work
        /\ UNCHANGED <<grid, ref, leader, asked, passage>>

LabelStep ==
    LET k == ref + step
    IN  /\ work = "walk"
        /\ IF step > Horizon \/ k > GridTicks \/ ~grid[k].valid
           THEN work' = "grid" /\ UNCHANGED <<step, labels>>
           ELSE /\ step' = step + 1
                /\ IF grid[k].edge THEN UNCHANGED labels ELSE Put(step)
                /\ UNCHANGED work
        /\ UNCHANGED <<grid, ref, leader, asked, passage>>

SliceEnds ==
    /\ work = "grid"
    /\ ref = GridTicks
    /\ work' = "kept"
    /\ UNCHANGED <<grid, ref, step, labels, leader, asked, passage>>

-----------------------------------------------------------------------------
(* _passage_track: the valid ticks of the leader, with running maxima.     *)
TrackTicks == {k \in 1..Len(leader) : leader[k] # -1}

CumMax(k) == Max({leader[j] : j \in {i \in TrackTicks : i <= k}})

(* Mutant: the search array is not flattened, and the last passage is found.*)
ReachedLast(d) ==
    CHOOSE k \in TrackTicks : leader[k] >= d /\ \A j \in TrackTicks : j > k => leader[j] < d

(* searchsorted: the first tick by which the leader has reached d.         *)
Reached(d) ==
    CHOOSE k \in TrackTicks : CumMax(k) >= d /\ \A j \in TrackTicks : j < k => CumMax(j) < d

(* _time_at_distance                                                       *)
TimeAtDistance(d) ==
    IF \/ Cardinality(TrackTicks) < 2
       \/ d < CumMax(Min(TrackTicks))
       \/ d > CumMax(Max(TrackTicks))
    THEN NoPassage
    ELSE LET i == Reached(d)
             before == {j \in TrackTicks : j < i}
         IN IF before = {} THEN [num |-> i, den |-> 1]
            ELSE LET p == Max(before)
                     rise == CumMax(i) - CumMax(p)
                 IN IF rise <= 0 THEN [num |-> p, den |-> 1]
                    ELSE [num |-> p * rise + (d - CumMax(p)) * (i - p), den |-> rise]

(* The leader of the target at a tick is ahead of it at that tick.         *)
AskHeadway ==
    /\ work = "idle"
    /\ work' = "headway"
    /\ leader' \in [1..GridTicks -> -1..Reach]
    /\ asked' \in [dist : 0..Reach, tick : 1..GridTicks]
    /\ leader'[asked'.tick] > asked'.dist
    /\ UNCHANGED <<grid, ref, step, labels, passage>>

HeadwayAt ==
    /\ work = "headway"
    /\ work' = "kept"
    /\ passage' = TimeAtDistance(asked.dist)
    /\ UNCHANGED <<grid, ref, step, labels, leader, asked>>

LabelsDone ==
    /\ work = "kept"
    /\ work' = "idle"
    /\ grid' = << >> /\ ref' = 0 /\ step' = 0 /\ labels' = << >>
    /\ leader' = << >> /\ asked' = NoQuestion /\ passage' = NoPassage

LabelsNext ==
    LoadSlice \/ NextReference \/ LabelStep \/ SliceEnds \/ AskHeadway \/ HeadwayAt \/ LabelsDone

LabelsSpec == LabelsInit /\ [][LabelsNext]_labelVars

-----------------------------------------------------------------------------
At(x) == x[1] + x[2]

(* "bunched only when the gap held below the threshold for the trailing    *)
(* persist_ticks ticks": so a debounced label says, where those ticks are  *)
(* recorded. Where one is not it is the plain label (_persist's fallback): *)
(* that takes a debouncing longer than the history that every example has, *)
(* and one tick more. And the examples of a bus agree on a tick they label.*)
PersistMeansHeld ==
    \A x \in DOMAIN labels, n \in PersistCounts :
        LET trailing == {At(x)} \cup (At(x) - n + 1)..At(x)
            recorded == \A k \in trailing : k \in DOMAIN grid /\ grid[k].valid
        IN  /\ recorded =>
                  (labels[x].persist[n] <=> \A k \in trailing : grid[k].bunched)
            /\ ~recorded => n > History + 1 /\ labels[x].persist[n] = labels[x].label
            /\ \A y \in DOMAIN labels : At(y) = At(x) => labels[y] = labels[x]

(* "leave this horizon NaN ... but keep walking so post-terminal horizons  *)
(* of overlapping windows still label": a tick is labelled by every        *)
(* example whose horizon reaches it while the bus is recorded without a    *)
(* break, unless the bus is inside the excluded band there.                *)
LabelledWhileRecorded ==
    work = "kept" =>
        \A r \in History..(GridTicks), h \in 1..Horizon :
            grid # << >> =>
                (<<r, h>> \in DOMAIN labels <=>
                    /\ r + h <= GridTicks
                    /\ Eligible(r)
                    /\ ValidAll(r + 1, r + h)
                    /\ ~grid[r + h].edge)

(* "Time the tracked bus first reached along-route distance d": at the time*)
(* found the leader has just reached the place, which it had not at any    *)
(* tick before; and that is before the tick the headway is taken at, so    *)
(* that a headway is positive however the projection wobbles.              *)
HeadwayPositive ==
    work = "kept" /\ passage # NoPassage =>
        /\ passage.num < asked.tick * passage.den
        /\ \A k \in TrackTicks :
              /\ k * passage.den < passage.num => leader[k] < asked.dist
              /\ k * passage.den = passage.num => leader[k] >= asked.dist
        /\ \E k \in TrackTicks :
              /\ passage.num <= k * passage.den
              /\ leader[k] >= asked.dist
              /\ \A j \in TrackTicks : j < k => j * passage.den <= passage.num
=============================================================================
