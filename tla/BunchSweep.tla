----------------------------- MODULE BunchSweep -----------------------------
(***************************************************************************)
(* Bunching by distance (detect_bunch_events_distance, anomalies.py): a    *)
(* sweep over a grid of ticks. At a tick every bus whose recording spans   *)
(* it has an interpolated distance; consecutive buses along the route that *)
(* stay close form a run of their ordered pair <<follower, leader>>.       *)
(* The recordings are chosen tick by tick as the sweep comes to them.      *)
(***************************************************************************)
EXTENDS Integers, Sequences, FiniteSets

CONSTANTS
    NumBuses,
    Distances,      \* where a bus may be
    MaxMove,        \* bound: how far a bus gets in a tick, either way
    Enter,          \* bunch_distance_threshold_m
    Exit,           \* bunch_distance_exit_m, at least Enter
    MinDuration,    \* min_duration_s, in ticks
    MaxTick         \* bound: the last tick

ASSUME SweepAssumption ==
    /\ NumBuses \in Nat /\ MaxTick \in Nat /\ MaxMove \in Nat /\ MinDuration \in Nat
    /\ Distances \subseteq Nat
    /\ Enter \in Nat /\ Exit \in Nat /\ Enter <= Exit

VARIABLES
    sweep,      \* idle, on or shown
    tick,
    place,      \* of each bus: Before, After, or its distance
    openRuns,   \* open_runs, by ordered pair: [start, last]
    events,     \* [pair, start, last]
    close,      \* history: the ticks at which a pair followed within Exit ...
    near        \* ... and within Enter (see EventsAreEpisodes)

sweepVars == <<sweep, tick, place, openRuns, events, close, near>>

Buses == 1..NumBuses
BusPairs == {p \in Buses \X Buses : p[1] # p[2]}

Before == -1
After == -2

NoTicks == [p \in BusPairs |-> {}]

SweepInit ==
    /\ sweep = "idle"
    /\ tick = 0
    /\ place = [b \in Buses |-> Before]
    /\ openRuns = << >>
    /\ events = {}
    /\ close = NoTicks /\ near = NoTicks

(* A recording starts once and ends once; between, the bus is interpolated.*)
Moves(b) ==
    IF place[b] = Before THEN {Before} \cup Distances
    ELSE IF place[b] = After THEN {After}
    ELSE {After} \cup (Distances \cap ((place[b] - MaxMove)..(place[b] + MaxMove)))

Active(at) == {b \in Buses : at[b] \in Distances}

(* The sort by distance keeps buses at the same distance in their order.   *)
Behind(at, a, b) == at[a] < at[b] \/ (at[a] = at[b] /\ a < b)

Consecutive(at) ==
    {p \in BusPairs :
        /\ {p[1], p[2]} \subseteq Active(at)
        /\ Behind(at, p[1], p[2])
        /\ \A c \in Active(at) \ {p[1], p[2]} :
              ~(Behind(at, p[1], c) /\ Behind(at, c, p[2]))}

Gap(at, p) == at[p[2]] - at[p[1]]

Limit(p) == IF p \in DOMAIN openRuns THEN Exit ELSE Enter

(* Mutant: an open run is held to the tighter threshold as well.           *)
PairsEntering(at) ==
    {p \in Consecutive(at) : 0 < Gap(at, p) /\ Gap(at, p) < Enter}

PairsNow(at) ==
    {p \in Consecutive(at) : 0 < Gap(at, p) /\ Gap(at, p) < Limit(p)}

(* flush                                                                   *)
Flushed(P) ==
    {[pair |-> p, start |-> openRuns[p].start, last |-> openRuns[p].last] :
        p \in {q \in P : openRuns[q].last - openRuns[q].start >= MinDuration}}

Run(p, t) ==
    [start |-> IF p \in DOMAIN openRuns THEN openRuns[p].start ELSE t, last |-> t]

OpenAfter(at, t) == [p \in PairsNow(at) |-> Run(p, t)]

Swept(at, t) ==
    /\ tick' = t
    /\ place' = at
    /\ openRuns' = OpenAfter(at, t)
    /\ events' = events \cup Flushed(DOMAIN openRuns \ PairsNow(at))
    /\ close' = [p \in BusPairs |->
                    IF p \in Consecutive(at) /\ Gap(at, p) \in 1..(Exit - 1)
                    THEN close[p] \cup {t} ELSE close[p]]
    /\ near' = [p \in BusPairs |->
                    IF p \in Consecutive(at) /\ Gap(at, p) \in 1..(Enter - 1)
                    THEN near[p] \cup {t} ELSE near[p]]

StartSweep ==
    /\ sweep = "idle"
    /\ sweep' = "on"
    /\ \E at \in [Buses -> {Before} \cup Distances] :
          Active(at) # {} /\ Swept(at, 0)

NextTick ==
    /\ sweep = "on"
    /\ tick < MaxTick
    /\ \E at \in [Buses -> {Before, After} \cup Distances] :
          (\A b \in Buses : at[b] \in Moves(b)) /\ Swept(at, tick + 1)
    /\ UNCHANGED sweep

EndSweep ==
    /\ sweep = "on"
    /\ sweep' = "shown"
    /\ events' = events \cup Flushed(DOMAIN openRuns)
    /\ openRuns' = << >>
    /\ place' = [b \in Buses |-> Before]
    /\ UNCHANGED <<tick, close, near>>

SweepDone ==
    /\ sweep = "shown"
    /\ sweep' = "idle"
    /\ tick' = 0
    /\ UNCHANGED <<place, openRuns>>
    /\ events' = {}
    /\ close' = NoTicks /\ near' = NoTicks

SweepNext == StartSweep \/ NextTick \/ EndSweep \/ SweepDone

SweepSpec == SweepInit /\ [][SweepNext]_sweepVars

-----------------------------------------------------------------------------
(* Stretches of consecutive ticks of T that T does not continue.           *)
Stretches(T) ==
    {s \in T \X T : /\ s[1] <= s[2]
                    /\ s[1]..s[2] \subseteq T
                    /\ s[1] - 1 \notin T
                    /\ s[2] + 1 \notin T}

(* The part of a stretch of following within Exit from its first tick      *)
(* within Enter on, if it has one.                                         *)
Episodes(p) ==
    {<<e[2], e[1][2]>> : e \in {x \in Stretches(close[p]) \X near[p] :
        /\ x[2] \in x[1][1]..x[1][2]
        /\ \A u \in near[p] : u \in x[1][1]..x[1][2] => x[2] <= u}}

(* A pair follows within a threshold at a tick when both buses are there,  *)
(* no third is between them, and the gap is below the threshold and above  *)
(* 0. Its events are its episodes that last, one each. "A pair enters a run*)
(* below the enter threshold but only leaves it once the gap exceeds this  *)
(* larger value" (docstring) is not the whole of it: the run of a pair also*)
(* ends where a third bus comes between, where the gap closes to 0 or the  *)
(* follower passes, however near the two stay; back in order within Enter  *)
(* they begin another event. It leaves at a gap equal to the larger value. *)
EventsAreEpisodes ==
    sweep = "shown" =>
        \A p \in BusPairs :
            {<<e.start, e.last>> : e \in {x \in events : x.pair = p}} =
                {s \in Episodes(p) : s[2] - s[1] >= MinDuration}
=============================================================================
