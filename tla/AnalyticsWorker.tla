--------------------------- MODULE AnalyticsWorker ---------------------------
(***************************************************************************)
(* The analytics worker (apps/analytics/worker.py) against the collector's *)
(* commits. Every Interval it starts a tick, which lists, for each service *)
(* date of the tick, the trips with an observation stamped after the       *)
(* cutoff, and refreshes each of them from everything then committed. The  *)
(* next cutoff is the start of this tick.                                  *)
(*                                                                         *)
(* A refresh is one step here; its transaction is TrajectoryRefresh's      *)
(* subject. The collector is seen by its commits: an observation becomes   *)
(* visible up to MaxLag after the fetched_at that its poll began with.     *)
(***************************************************************************)
EXTENDS Integers, FiniteSets, Sequences

CONSTANTS
    Trips,        \* trip ids; they recur on every service date
    Interval,     \* ANALYTICS_WORKER_INTERVAL_SECONDS
    Day,          \* length of a service date
    Grace,        \* _MIDNIGHT_GRACE
    Slack,        \* _FETCHED_AT_SLACK
    StartDates,   \* service dates a feed may report (start_date), numbered
    Clocks,       \* seconds a vehicle's clock may be behind the fetch
    VehicleLag,   \* how far behind grace and slack make up for
    MaxLag,       \* how long after its fetched_at a row may commit
    TickTime,     \* longest tick
    DownTime,     \* longest time from a crash to the restart
    MaxCrashes,   \* crashes between two ticks that end
    MaxFails, MaxTime, MaxObs    \* bounds

ASSUME TimesAssumption ==
    /\ {Interval, Day} \subseteq Nat \ {0}
    /\ {Grace, Slack, VehicleLag, MaxLag, TickTime, DownTime} \subseteq Nat
    /\ {MaxFails, MaxCrashes, MaxTime, MaxObs} \subseteq Nat
    /\ StartDates \subseteq Int
    /\ Clocks \subseteq Int

(* What the cold start's look-back, the grace and the slack are there for: *)
(* a restart comes before the two intervals are over, the window of a tick *)
(* reaches no farther back than the grace, nor VehicleLag than the slack.  *)
(* The defaults are 2 min, 1 h and 6 h.                                    *)
ASSUME CoverAssumption ==
    /\ MaxCrashes * (TickTime + DownTime) <= Interval
    /\ 2 * Interval + VehicleLag <= Grace
    /\ TickTime + VehicleLag <= Grace
    /\ Grace <= Day
    /\ VehicleLag <= Slack

VARIABLES
    now,
    visible,      \* committed vehicle_positions
    refreshed,    \* observations in the committed trajectories
    pc,           \* ready, list, loop, sleep, stopped or down
    tick,         \* tick_started_at
    since,        \* last_tick_started_at
    dates,        \* service dates of the tick still to run, the current first
    todo,         \* trips listed for the current date and not yet refreshed
    ended,        \* how the last tick ended
    stopping,
    crashedAt,
    crashes,      \* since the last tick that ended
    skipped       \* windows of the ticks that failed, <<since, tick>>: a history

worker == <<pc, tick, since, dates, todo, ended, stopping, crashedAt, crashes, skipped>>
vars   == <<now, visible, refreshed, worker>>

DateOf(t) == t \div Day

(* Mutant: no grace after midnight. *)
ServiceDatesToday(t) == <<DateOf(t)>>

(* Local time of day decides; yesterday first near midnight. *)
ServiceDates(t) ==
    IF t % Day < Grace THEN <<DateOf(t) - 1, DateOf(t)>> ELSE <<DateOf(t)>>

ColdStart == now - 2 * Interval

Init ==
    /\ now = 0
    /\ visible = {}
    /\ refreshed = {}
    /\ pc = "ready"
    /\ tick = -1
    /\ since = ColdStart
    /\ dates = <<>>
    /\ todo = {}
    /\ ended = "none"
    /\ stopping = FALSE
    /\ crashedAt = 0
    /\ crashes = 0
    /\ skipped = {}

(* _EFFECTIVE_START_DATE: a reported start date is honoured verbatim;      *)
(* without one the vehicle's clock dates the observation, and without that *)
(* the fetch (a clock 0 behind). A clock ahead is a negative number behind.*)
EffectiveDates(at) == StartDates \cup {DateOf(at - behind) : behind \in Clocks}

(* A poll that began at `at' commits an observation of one of these dates. *)
(* It is late if a tick has started since the poll began.                  *)
Observe(trip) ==
    /\ Cardinality(visible) < MaxObs
    /\ \E at \in (now - MaxLag)..now : \E date \in EffectiveDates(at) :
          visible' = visible \cup {[trip |-> trip, at |-> at, date |-> date,
                                    late |-> at <= tick]}
    /\ UNCHANGED <<now, refreshed, worker>>

StartTick ==
    /\ ~stopping
    /\ \/ pc = "ready"
       \/ pc = "sleep" /\ now >= tick + Interval
    /\ tick' = now
    /\ dates' = ServiceDates(now)
    /\ pc' = "list"
    /\ UNCHANGED <<now, visible, refreshed, since, todo, ended, stopping, crashedAt, crashes, skipped>>

(* list_changed_trip_instances *)
List ==
    /\ pc = "list"
    /\ todo' = {o.trip : o \in {v \in visible : /\ v.date = Head(dates)
                                                /\ v.at > since
                                                /\ v.at < (Head(dates) + 1) * Day + Slack}}
    /\ pc' = "loop"
    /\ UNCHANGED <<now, visible, refreshed, tick, since, dates, ended, stopping, crashedAt, crashes, skipped>>

(* process_trip_instance reads the whole trip inside the date's window.     *)
Refresh(trip) ==
    /\ pc = "loop"
    /\ trip \in todo
    /\ todo' = todo \ {trip}
    /\ refreshed' = refreshed \cup
          {v \in visible : /\ v.trip = trip
                           /\ v.date = Head(dates)
                           /\ v.at >= Head(dates) * Day - Slack
                           /\ v.at < (Head(dates) + 1) * Day + Slack}
    /\ UNCHANGED <<now, visible, pc, tick, since, dates, ended, stopping, crashedAt, crashes, skipped>>

NextDate ==
    /\ pc = "loop"
    /\ todo = {}
    /\ Len(dates) > 1
    /\ dates' = Tail(dates)
    /\ pc' = "list"
    /\ UNCHANGED <<now, visible, refreshed, tick, since, todo, ended, stopping, crashedAt, crashes, skipped>>

(* The cutoff advances regardless of success. *)
EndTick(how) ==
    /\ since' = tick
    /\ ended' = how
    /\ dates' = <<>>
    /\ todo' = {}
    /\ pc' = "sleep"
    /\ crashes' = 0
    /\ UNCHANGED <<now, visible, refreshed, tick, stopping, crashedAt>>

Finish ==
    /\ pc = "loop"
    /\ todo = {}
    /\ Len(dates) = 1
    /\ EndTick("ok")
    /\ UNCHANGED skipped

(* A run raises: the later dates of the tick are not run either.            *)
Fail ==
    /\ Cardinality(skipped) < MaxFails
    /\ pc \in {"list", "loop"}
    /\ skipped' = skipped \cup {<<since, tick>>}
    /\ EndTick("failed")

Signal ==
    /\ pc \notin {"stopped", "down"}
    /\ ~stopping
    /\ stopping' = TRUE
    /\ UNCHANGED <<now, visible, refreshed, pc, tick, since, dates, todo, ended, crashedAt, crashes, skipped>>

Stop ==
    /\ stopping
    /\ pc \in {"ready", "sleep"}
    /\ pc' = "stopped"
    /\ UNCHANGED <<now, visible, refreshed, tick, since, dates, todo, ended, stopping, crashedAt, crashes, skipped>>

Crash ==
    /\ crashes < MaxCrashes
    /\ pc \notin {"stopped", "down"}
    /\ pc' = "down"
    /\ crashes' = crashes + 1
    /\ crashedAt' = now
    /\ dates' = <<>>
    /\ todo' = {}
    /\ UNCHANGED <<now, visible, refreshed, tick, since, ended, stopping, skipped>>

(* docker-compose restarts the container; the process remembers nothing.    *)
Restart ==
    /\ pc = "down"
    /\ pc' = "ready"
    /\ since' = ColdStart
    /\ stopping' = FALSE
    /\ ended' = "none"
    /\ UNCHANGED <<now, visible, refreshed, tick, dates, todo, crashedAt, crashes, skipped>>

(* Time does not pass the deadline of what the worker is doing.             *)
Advance ==
    /\ now < MaxTime
    /\ pc # "ready"
    /\ pc \in {"list", "loop"} => now < tick + TickTime
    /\ pc = "sleep" => now < tick + Interval
    /\ pc = "down" => now < crashedAt + DownTime
    /\ now' = now + 1
    /\ UNCHANGED <<visible, refreshed, worker>>

Next ==
    \/ Advance
    \/ \E trip \in Trips : Observe(trip) \/ Refresh(trip)
    \/ StartTick \/ List \/ NextDate \/ Finish \/ Fail
    \/ Signal \/ Stop \/ Crash \/ Restart

Spec == Init /\ [][Next]_vars

-----------------------------------------------------------------------------
(* What no later tick will look for, and no trajectory holds.               *)
Missed == {o \in visible : o.at <= since} \ refreshed

(* The ticks look for the dates of the clock on the wall, an hour after    *)
(* midnight for the one before too. An observation may be of another date: *)
(* the feed reported one (an overnight trip's, long after midnight), or the*)
(* vehicle's clock is ahead of the fetch or more than VehicleLag behind.   *)
DatedElsewhere(o) == \A lag \in 0..VehicleLag : o.date # DateOf(o.at - lag)

(* An observation is missed for good in three ways only: a tick started    *)
(* between its fetched_at and its commit, the tick whose window holds it   *)
(* failed, or it is not dated by the time of its fetch. Not over a crash in*)
(* mid-tick (cold start, two intervals back), not over midnight (the grace *)
(* of _service_dates_for_tick, for a clock a little behind), and not in the*)
(* windows of the ticks around one that failed. "Slack covers vehicle      *)
(* clocks lagging the fetch and overnight trips" (pipeline.py) is of the   *)
(* windows of the queries; the dates a tick asks for end with the grace.   *)
NothingMissed ==
    pc = "sleep" =>
        \A o \in Missed : \/ o.late
                          \/ \E w \in skipped : o.at > w[1] /\ o.at <= w[2]
                          \/ DatedElsewhere(o)

(* "Failed ticks just mean the next one has a slightly bigger window to    *)
(* catch up" (main): after a tick that succeeds nothing is missed that is  *)
(* on time and dated by its fetch. It is: the cutoff moves past the window *)
(* of the tick that failed.                                                *)
FailedTicksCatchUp ==
    pc = "sleep" /\ ended = "ok" => \A o \in Missed : o.late \/ DatedElsewhere(o)
=============================================================================
