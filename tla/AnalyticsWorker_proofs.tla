----------------------- MODULE AnalyticsWorker_proofs -----------------------
(***************************************************************************)
(* Nothing is missed, for any intervals, days, graces and delays that      *)
(* satisfy the assumptions and any number of ticks, crashes and failures.  *)
(*                                                                         *)
(* There is always an instant up to which everything is settled: held by a *)
(* trajectory, late, in the window of a tick that failed, or not dated by  *)
(* the time of its fetch (no tick need ask for its date). A tick that ends *)
(* moves it to its own start, because its window begins no later than the  *)
(* settled instant (Progress, a matter of how long things take) and because*)
(* what its window holds and dates by the fetch is listed under its dates  *)
(* (DateIsListed) and stays pending until it is refreshed (PendingInTick). *)
(***************************************************************************)
EXTENDS AnalyticsWorker, TLAPS

-----------------------------------------------------------------------------
(* Instants and dates. *)

(* Division with remainder.                                                *)
LEMMA Division ==
  ASSUME NEW a \in Int, NEW n \in Nat \ {0}
  PROVE  /\ a \div n \in Int
         /\ (a \div n) * n <= a
         /\ a < (a \div n) * n + n
         /\ a % n = a - (a \div n) * n
<1>1. /\ a \div n \in Int
      /\ (a \div n) * n <= a
      /\ a < (a \div n) * n + n
  OBVIOUS
<1>2. a % n = a - (a \div n) * n
  OBVIOUS
<1> QED BY <1>1, <1>2

LEMMA DayIsPositive == Day \in Nat \ {0}
  BY TimesAssumption

(* The service date of an instant is the one whose span it lies in.        *)
LEMMA DateSpan ==
  ASSUME NEW t \in Int
  PROVE  /\ DateOf(t) \in Int
         /\ DateOf(t) * Day <= t
         /\ t < DateOf(t) * Day + Day
         /\ t % Day = t - DateOf(t) * Day
  BY DayIsPositive, Division DEF DateOf

(* A date ends where the next one begins.                                  *)
LEMMA DateEnds ==
  ASSUME NEW d \in Int
  PROVE  /\ d * Day \in Int
         /\ (d + 1) * Day = d * Day + Day
         /\ (d - 1) * Day = d * Day - Day
  BY DayIsPositive

(* Later instants have no earlier dates.                                   *)
LEMMA DateOrder ==
  ASSUME NEW d \in Int, NEW e \in Int, d * Day < e * Day
  PROVE  d < e
<1>1. Day \in Nat \ {0}
  BY TimesAssumption
<1>2. CASE e <= d
  <2>1. e * Day <= d * Day
    BY <1>1, <1>2
  <2> QED BY <1>1, <2>1
<1> QED BY <1>2

(* What falls in the window of a tick, by the vehicle's clock, is of one of*)
(* the tick's dates (_service_dates_for_tick).                             *)
LEMMA DateIsListed ==
  ASSUME NEW t \in Int, NEW s \in Int, s <= t, t - s < Grace
  PROVE  \E i \in 1..Len(ServiceDates(t)) : ServiceDates(t)[i] = DateOf(s)
<1> DEFINE d == DateOf(t)
           e == DateOf(s)
<1>1. /\ Grace \in Nat /\ Day \in Nat \ {0} /\ Grace <= Day
  BY TimesAssumption, CoverAssumption
<1>2. /\ d \in Int /\ d * Day <= t /\ t < d * Day + Day /\ t % Day = t - d * Day
      /\ e \in Int /\ e * Day <= s /\ s < e * Day + Day
  BY DateSpan
<1> HIDE DEF d, e
<1>3. /\ d * Day \in Int /\ (d + 1) * Day = d * Day + Day /\ (d - 1) * Day = d * Day - Day
      /\ e * Day \in Int /\ (e + 1) * Day = e * Day + Day
  BY <1>2, DateEnds
<1>4. e < d + 1
  <2>1. e * Day < (d + 1) * Day
    BY <1>1, <1>2, <1>3
  <2> QED BY <1>2, <2>1, DateOrder
<1>5. d - 1 < e + 1
  <2>1. (d - 1) * Day < (e + 1) * Day
    BY <1>1, <1>2, <1>3
  <2> QED BY <1>2, <2>1, DateOrder
<1>6. e = d \/ e = d - 1
  BY <1>2, <1>4, <1>5
<1>7. CASE t % Day < Grace
  <2>1. ServiceDates(t) = <<d - 1, d>>
    BY <1>7 DEF ServiceDates, d
  <2> QED BY <1>6, <2>1 DEF e
<1>8. CASE ~(t % Day < Grace)
  <2>1. ServiceDates(t) = <<d>>
    BY <1>8 DEF ServiceDates, d
  <2>2. ~(d * Day <= s) => FALSE
    BY <1>1, <1>2, <1>3, <1>8
  <2>3. e # d - 1
    BY <1>1, <1>2, <1>3, <2>2
  <2> QED BY <1>6, <2>1, <2>3 DEF e
<1> QED BY <1>7, <1>8
-----------------------------------------------------------------------------
(* The inductive invariant. *)

(* The longest time from a tick to the next one, and that several crashes  *)
(* take.                                                                   *)
Period == IF TickTime <= Interval THEN Interval ELSE TickTime
Outage(n) == n * (TickTime + DownTime)

(* How far the window of a tick reaches back.                              *)
Reach == IF TickTime <= 2 * Interval THEN 2 * Interval ELSE TickTime

Excused(o) ==
    \/ o.late
    \/ \E w \in skipped : o.at > w[1] /\ o.at <= w[2]
    \/ DatedElsewhere(o)

Settled(h) == \A o \in visible : o.at <= h => o \in refreshed \/ Excused(o)

Observed(o) == o.at \in Int /\ o.at <= now

TypeInv ==
    /\ now \in Nat /\ tick \in Int /\ since \in Int
    /\ tick <= now
    /\ pc \in {"ready", "list", "loop", "sleep", "stopped", "down"}
    /\ crashes \in 0..MaxCrashes /\ crashedAt \in Nat
    /\ dates \in Seq(Int)
    /\ \A o \in visible : Observed(o)

InTick == pc \in {"list", "loop"}

OnTime ==
    /\ pc = "ready" => since = ColdStart
    /\ InTick => dates # << >> /\ tick <= since + Reach /\ now <= tick + TickTime
    /\ pc = "sleep" => since = tick /\ crashes = 0 /\ now <= tick + Period
    /\ pc = "down" => crashes > 0 /\ now <= crashedAt + DownTime

(* What is still to be listed, and what is listed and not yet refreshed.   *)
Pending(o) ==
    \/ pc = "list" /\ \E i \in 1..Len(dates) : o.date = dates[i]
    \/ pc = "loop" /\ \E i \in 2..Len(dates) : o.date = dates[i]
    \/ pc = "loop" /\ o.date = Head(dates) /\ o.trip \in todo

PendingInTick ==
    InTick => \A o \in visible :
        since < o.at /\ o.at <= tick /\ ~o.late /\ ~DatedElsewhere(o) =>
            o \in refreshed \/ Pending(o)

Progress(h) ==
    /\ Settled(h)
    /\ h <= tick
    /\ pc = "ready" => since <= h /\ now <= h + Period + Outage(crashes)
    /\ InTick => since <= h /\ tick <= h + Period + Outage(crashes)
    /\ pc = "sleep" => h = since
    /\ pc = "down" => crashedAt + DownTime <= h + Period + Outage(crashes)

IInv ==
    /\ TypeInv
    /\ OnTime
    /\ PendingInTick
    /\ \E h \in (-1)..now : Progress(h)

-----------------------------------------------------------------------------
(* How long things take. *)

LEMMA Times ==
  /\ Interval \in Nat \ {0} /\ Day \in Nat \ {0}
  /\ Grace \in Nat /\ Slack \in Nat /\ VehicleLag \in Nat /\ MaxLag \in Nat
  /\ TickTime \in Nat /\ DownTime \in Nat
  /\ Period \in Nat \ {0} /\ Reach \in Nat \ {0}
  /\ Interval <= Period /\ TickTime <= Period
  /\ Period <= Reach /\ 2 * Interval <= Reach
  /\ Reach + VehicleLag <= Grace /\ Grace <= Day /\ VehicleLag <= Slack
  BY TimesAssumption, CoverAssumption DEF Period, Reach

(* Each crash costs a tick and a restart.                                  *)
LEMMA OutageGrows ==
  ASSUME NEW n \in Nat
  PROVE  /\ Outage(n) \in Nat
         /\ Outage(0) = 0
         /\ Outage(n + 1) = Outage(n) + TickTime + DownTime
<1>1. TickTime + DownTime \in Nat
  BY TimesAssumption
<1>2. \A k \in Nat : /\ n * k \in Nat
                     /\ 0 * k = 0
                     /\ (n + 1) * k = n * k + k
  OBVIOUS
<1>3. /\ Outage(n) \in Nat
      /\ Outage(0) = 0
      /\ Outage(n + 1) = Outage(n) + (TickTime + DownTime)
  BY <1>1, <1>2 DEF Outage
<1> QED BY <1>3, TimesAssumption

(* After any number of crashes that the bound allows, the look-back of a   *)
(* cold start spans the time since the last tick that ended.               *)
LEMMA ColdStartCovers ==
  ASSUME NEW n \in 1..MaxCrashes
  PROVE  Period + Outage(n) <= 2 * Interval
<1> DEFINE k == TickTime + DownTime
<1>1. k \in Nat /\ Interval \in Nat /\ MaxCrashes \in Nat /\ TickTime <= k
  BY TimesAssumption
<1>2. MaxCrashes * k <= Interval
  BY CoverAssumption
<1> HIDE DEF k
<1>3. n * k <= MaxCrashes * k /\ k <= n * k
  <2>1. n \in Nat \ {0} /\ n <= MaxCrashes
    BY <1>1
  <2>2. \A a, b, c \in Nat : a <= b => a * c <= b * c
    OBVIOUS
  <2>3. 1 * k <= n * k
    BY <1>1, <2>1, <2>2
  <2> QED BY <1>1, <2>1, <2>2, <2>3
<1>4. n * k \in Nat
  BY <1>1
<1>5. n * k <= Interval /\ TickTime <= Interval
  BY <1>1, <1>2, <1>3, <1>4, TimesAssumption
<1>6. Outage(n) = n * k
  BY DEF Outage, k
<1> QED BY <1>1, <1>4, <1>5, <1>6 DEF Period

-----------------------------------------------------------------------------
(* What is settled stays settled as trajectories and windows are added, and*)
(* what is observed since a tick began is late below its start.            *)
LEMMA SettledStays ==
  ASSUME NEW h, Settled(h), visible' = visible,
         refreshed \subseteq refreshed', skipped \subseteq skipped'
  PROVE  Settled(h)'
  BY DEF Settled, Excused

LEMMA ObservedStays ==
  ASSUME TypeInv, visible' = visible, now' \in Int, now <= now'
  PROVE  \A o \in visible' : Observed(o)'
  BY DEF TypeInv, Observed

(* An observation dated by its fetch lies within the slack of its date.    *)
LEMMA WindowReaches ==
  ASSUME NEW o, Observed(o), ~DatedElsewhere(o), now \in Nat
  PROVE  /\ o.at >= o.date * Day - Slack
         /\ o.at < (o.date + 1) * Day + Slack
<1>1. PICK lag \in 0..VehicleLag : o.date = DateOf(o.at - lag)
  BY DEF DatedElsewhere
<1>2. o.at \in Int
  BY DEF Observed
<1>3. lag \in Nat /\ lag <= VehicleLag
  BY Times
<1>4. o.at - lag \in Int
  BY <1>2, <1>3
<1>5. /\ o.date \in Int /\ o.date * Day <= o.at - lag /\ o.at - lag < o.date * Day + Day
  BY <1>1, <1>4, DateSpan
<1>6. o.date * Day \in Int /\ (o.date + 1) * Day = o.date * Day + Day
  BY <1>5, DateEnds
<1> HIDE DEF Observed
<1> QED BY <1>2, <1>3, <1>5, <1>6, Times

LEMMA InitHolds == Init => IInv
<1> SUFFICES ASSUME Init PROVE IInv
  OBVIOUS
<1>1. /\ now = 0 /\ tick = -1 /\ pc = "ready" /\ since = 0 - 2 * Interval
      /\ visible = {} /\ dates = << >> /\ crashes = 0 /\ crashedAt = 0
  BY DEF Init, ColdStart
<1>2. TypeInv
  <2>1. since \in Int /\ crashes \in 0..MaxCrashes
    BY <1>1, TimesAssumption
  <2> QED BY <1>1, <2>1 DEF TypeInv
<1>3. OnTime
  BY <1>1 DEF OnTime, InTick, ColdStart
<1>4. PendingInTick
  BY <1>1 DEF PendingInTick, InTick
<1>5. Progress(-1)
  <2>1. Outage(0) = 0
    BY OutageGrows, 0 \in Nat
  <2>2. since <= -1 /\ now <= -1 + Period + Outage(crashes)
    BY <1>1, <2>1, Times
  <2> QED BY <1>1, <2>2 DEF Progress, Settled, InTick
<1> QED BY <1>1, <1>2, <1>3, <1>4, <1>5 DEF IInv

-----------------------------------------------------------------------------
(* One lemma for each action. *)

LEMMA ObserveHolds ==
  ASSUME IInv, NEW trip \in Trips, Observe(trip)
  PROVE  IInv'
<1>1. PICK at \in (now - MaxLag)..now : \E date \in EffectiveDates(at) :
         visible' = visible \cup {[trip |-> trip, at |-> at, date |-> date,
                                   late |-> at <= tick]}
  BY DEF Observe
<1>0. PICK date \in EffectiveDates(at) :
         visible' = visible \cup {[trip |-> trip, at |-> at, date |-> date,
                                   late |-> at <= tick]}
  BY <1>1
<1> DEFINE new == [trip |-> trip, at |-> at, date |-> date, late |-> at <= tick]
<1>2. UNCHANGED <<now, refreshed, worker>>
  BY DEF Observe
<1>3. PICK h \in (-1)..now : Progress(h)
  BY DEF IInv
<1>4. TypeInv /\ OnTime /\ PendingInTick
  BY DEF IInv
<1>5. /\ now' = now /\ refreshed' = refreshed /\ pc' = pc /\ tick' = tick /\ since' = since
      /\ dates' = dates /\ todo' = todo /\ crashedAt' = crashedAt /\ crashes' = crashes
      /\ skipped' = skipped
  BY <1>2 DEF worker
<1>6. /\ new.at = at /\ new.late = (at <= tick)
      /\ at \in Int /\ at <= now
  BY <1>4, Times DEF TypeInv
<1> HIDE DEF new
<1>7. visible' = visible \cup {new}
  BY <1>0 DEF new
<1>8. TypeInv'
  <2>1. \A o \in visible' : Observed(o)'
    BY <1>4, <1>5, <1>6, <1>7 DEF TypeInv, Observed
  <2> QED BY <1>4, <1>5, <2>1 DEF TypeInv
<1>9. OnTime'
  BY <1>4, <1>5 DEF OnTime, InTick, ColdStart
<1>10. PendingInTick'
  BY <1>4, <1>5, <1>6, <1>7 DEF PendingInTick, InTick, Pending
<1>11. Progress(h)'
  <2>1. Settled(h)'
    <3> SUFFICES ASSUME NEW o \in visible', o.at <= h
                 PROVE  o \in refreshed \/ Excused(o)'
      BY <1>5 DEF Settled
    <3>1. CASE o \in visible
      BY <1>3, <1>5, <3>1 DEF Progress, Settled, Excused
    <3>2. CASE o = new
      <4>1. at <= tick
        BY <1>3, <1>4, <1>6, <3>2 DEF Progress, TypeInv
      <4> QED BY <1>6, <3>2, <4>1 DEF Excused
    <3> QED BY <1>7, <3>1, <3>2
  <2> QED BY <1>3, <1>5, <2>1 DEF Progress, InTick
<1> QED BY <1>5, <1>8, <1>9, <1>10, <1>11 DEF IInv

(* The whole window of the tick is pending.                                *)
LEMMA StartTickHolds == IInv /\ StartTick => IInv'
<1> SUFFICES ASSUME IInv, StartTick PROVE IInv'
  OBVIOUS
<1>1. PICK h \in (-1)..now : Progress(h)
  BY DEF IInv
<1>2. TypeInv /\ OnTime
  BY DEF IInv
<1>3. /\ tick' = now /\ dates' = ServiceDates(now) /\ pc' = "list"
      /\ now' = now /\ visible' = visible /\ refreshed' = refreshed /\ since' = since
      /\ crashedAt' = crashedAt /\ crashes' = crashes /\ skipped' = skipped
      /\ pc = "ready" \/ pc = "sleep"
  BY DEF StartTick
<1>4. /\ now \in Int /\ tick \in Int /\ since \in Int /\ h \in Int /\ crashes \in Nat
      /\ MaxCrashes \in Nat
  BY <1>2, TimesAssumption DEF TypeInv
<1>5. ServiceDates(now) \in Seq(Int) /\ ServiceDates(now) # << >>
  <2>1. DateOf(now) \in Int
    BY <1>4, DateSpan
  <2>2. DateOf(now) - 1 \in Int
    BY <2>1
  <2> QED BY <2>1, <2>2 DEF ServiceDates
<1>6. /\ since <= h /\ h <= now
      /\ now <= since + Reach
      /\ now <= h + Period + Outage(crashes)
  <2>1. CASE pc = "ready"
    BY <1>1, <1>2, <1>4, <2>1, Times DEF Progress, OnTime, ColdStart
  <2>2. CASE pc = "sleep"
    <3>1. Outage(crashes) = 0
      BY <1>2, <2>2, OutageGrows, 0 \in Nat DEF OnTime
    <3> QED BY <1>1, <1>2, <1>4, <2>2, <3>1, Times DEF Progress, OnTime
  <2> QED BY <1>3, <2>1, <2>2
<1>7. TypeInv'
  <2>1. \A o \in visible' : Observed(o)'
    BY <1>2, <1>3, <1>4, ObservedStays
  <2> QED BY <1>2, <1>3, <1>4, <1>5, <2>1 DEF TypeInv
<1>8. OnTime'
  <2>1. now <= now + TickTime
    BY <1>4, Times
  <2> QED BY <1>3, <1>5, <1>6, <2>1 DEF OnTime, InTick
<1>9. PendingInTick'
  <2> SUFFICES ASSUME NEW o \in visible, since < o.at, o.at <= now, ~DatedElsewhere(o)
               PROVE  \E i \in 1..Len(dates') : o.date = dates'[i]
    BY <1>3 DEF PendingInTick, InTick, Pending
  <2>1. PICK lag \in 0..VehicleLag : o.date = DateOf(o.at - lag)
    BY DEF DatedElsewhere
  <2>2. o.at \in Int
    BY <1>2 DEF TypeInv, Observed
  <2>3. o.at - lag \in Int /\ o.at - lag <= now /\ now - (o.at - lag) < Grace
    BY <1>4, <1>6, <2>2, Times
  <2> QED BY SMTT(30), <1>3, <1>4, <2>1, <2>3, DateIsListed
<1>10. Progress(h)'
  <2>1. Settled(h)'
    BY <1>1, <1>3, SettledStays DEF Progress
  <2> QED BY <1>3, <1>6, <2>1 DEF Progress, InTick
<1> QED BY <1>3, <1>7, <1>8, <1>9, <1>10 DEF IInv

(* What is listed for the current date is what was pending of it.          *)
LEMMA ListHolds == IInv /\ List => IInv'
<1> SUFFICES ASSUME IInv, List PROVE IInv'
  OBVIOUS
<1>1. PICK h \in (-1)..now : Progress(h)
  BY DEF IInv
<1>2. TypeInv /\ OnTime /\ PendingInTick
  BY DEF IInv
<1>3. /\ pc = "list" /\ pc' = "loop"
      /\ now' = now /\ visible' = visible /\ refreshed' = refreshed /\ since' = since
      /\ tick' = tick /\ dates' = dates
      /\ crashedAt' = crashedAt /\ crashes' = crashes /\ skipped' = skipped
      /\ todo' = {o.trip : o \in {v \in visible : /\ v.date = Head(dates)
                                                  /\ v.at > since
                                                  /\ v.at < (Head(dates) + 1) * Day + Slack}}
  BY DEF List
<1>4. TypeInv'
  <2>1. now \in Int /\ now <= now'
    BY <1>2, <1>3 DEF TypeInv
  <2>2. \A o \in visible' : Observed(o)'
    BY <1>2, <1>3, <2>1, ObservedStays
  <2> QED BY <1>2, <1>3, <2>2 DEF TypeInv
<1>5. OnTime'
  BY <1>2, <1>3 DEF OnTime, InTick
<1>6. PendingInTick'
  <2> SUFFICES ASSUME NEW o \in visible, since < o.at, o.at <= tick, ~o.late,
                      ~DatedElsewhere(o), o \notin refreshed
               PROVE  Pending(o)'
    BY <1>3 DEF PendingInTick
  <2>1. PICK i \in 1..Len(dates) : o.date = dates[i]
    BY <1>2, <1>3 DEF PendingInTick, InTick, Pending
  <2>2. dates \in Seq(Int) /\ dates # << >>
    BY <1>2, <1>3 DEF TypeInv, OnTime, InTick
  <2>3. CASE i = 1
    <3>1. o.date = Head(dates)
      BY <2>1, <2>2, <2>3
    <3>2. o.at < (o.date + 1) * Day + Slack
      BY <1>2, WindowReaches DEF TypeInv
    <3>3. o.trip \in todo'
      BY <1>3, <3>1, <3>2
    <3> QED BY <1>3, <3>1, <3>3 DEF Pending
  <2>4. CASE i \in 2..Len(dates)
    BY <1>3, <2>1, <2>4 DEF Pending
  <2>5. i = 1 \/ i \in 2..Len(dates)
    BY <2>2
  <2> QED BY <2>3, <2>4, <2>5
<1>7. Progress(h)'
  <2>1. Settled(h)'
    BY <1>1, <1>3, SettledStays DEF Progress
  <2> QED BY <1>1, <1>3, <2>1 DEF Progress, InTick
<1> QED BY <1>3, <1>4, <1>5, <1>6, <1>7 DEF IInv

(* A refresh takes with it whatever the trip has in the date's window.     *)
LEMMA RefreshHolds ==
  ASSUME IInv, NEW trip \in Trips, Refresh(trip)
  PROVE  IInv'
<1>1. PICK h \in (-1)..now : Progress(h)
  BY DEF IInv
<1>2. TypeInv /\ OnTime /\ PendingInTick
  BY DEF IInv
<1>3. /\ pc = "loop" /\ pc' = pc /\ todo' = todo \ {trip}
      /\ now' = now /\ visible' = visible /\ since' = since /\ tick' = tick /\ dates' = dates
      /\ crashedAt' = crashedAt /\ crashes' = crashes /\ skipped' = skipped
      /\ refreshed' = refreshed \cup
            {v \in visible : /\ v.trip = trip
                             /\ v.date = Head(dates)
                             /\ v.at >= Head(dates) * Day - Slack
                             /\ v.at < (Head(dates) + 1) * Day + Slack}
  BY DEF Refresh
<1>4. TypeInv'
  <2>1. now \in Int /\ now <= now'
    BY <1>2, <1>3 DEF TypeInv
  <2>2. \A o \in visible' : Observed(o)'
    BY <1>2, <1>3, <2>1, ObservedStays
  <2> QED BY <1>2, <1>3, <2>2 DEF TypeInv
<1>5. OnTime'
  BY <1>2, <1>3 DEF OnTime, InTick
<1>6. PendingInTick'
  <2> SUFFICES ASSUME NEW o \in visible, since < o.at, o.at <= tick, ~o.late,
                      ~DatedElsewhere(o)
               PROVE  o \in refreshed' \/ Pending(o)'
    BY <1>3 DEF PendingInTick
  <2>1. o \in refreshed \/ Pending(o)
    BY <1>2, <1>3 DEF PendingInTick, InTick
  <2>2. CASE o.date = Head(dates) /\ o.trip = trip
    <3>1. o.at >= o.date * Day - Slack /\ o.at < (o.date + 1) * Day + Slack
      BY <1>2, WindowReaches DEF TypeInv
    <3> QED BY <1>3, <2>2, <3>1
  <2>3. CASE ~(o.date = Head(dates) /\ o.trip = trip)
    BY <1>3, <2>1, <2>3 DEF Pending
  <2> QED BY <2>2, <2>3
<1>7. Progress(h)'
  <2>1. Settled(h)'
    BY <1>1, <1>3, SettledStays DEF Progress
  <2> QED BY <1>1, <1>3, <2>1 DEF Progress, InTick
<1> QED BY <1>3, <1>4, <1>5, <1>6, <1>7 DEF IInv

LEMMA NextDateHolds == IInv /\ NextDate => IInv'
<1> SUFFICES ASSUME IInv, NextDate PROVE IInv'
  OBVIOUS
<1>1. PICK h \in (-1)..now : Progress(h)
  BY DEF IInv
<1>2. TypeInv /\ OnTime /\ PendingInTick
  BY DEF IInv
<1>3. /\ pc = "loop" /\ pc' = "list" /\ todo = {} /\ Len(dates) > 1 /\ dates' = Tail(dates)
      /\ now' = now /\ visible' = visible /\ refreshed' = refreshed /\ since' = since
      /\ tick' = tick /\ crashedAt' = crashedAt /\ crashes' = crashes /\ skipped' = skipped
  BY DEF NextDate
<1>4. dates \in Seq(Int) /\ dates # << >>
  BY <1>2, <1>3 DEF TypeInv, OnTime, InTick
<1>5. /\ dates' \in Seq(Int) /\ dates' # << >>
      /\ Len(dates') = Len(dates) - 1
      /\ \A i \in 1..Len(dates') : dates'[i] = dates[i + 1]
  <2>1. \A s \in Seq(Int) : Len(s) > 1 =>
            /\ Tail(s) \in Seq(Int) /\ Len(Tail(s)) = Len(s) - 1
            /\ \A i \in 1..(Len(s) - 1) : Tail(s)[i] = s[i + 1]
    OBVIOUS
  <2>2. Len(dates) \in Nat /\ Len(<< >>) = 0
    BY <1>4
  <2> QED BY <1>3, <1>4, <2>1, <2>2
<1>6. TypeInv'
  <2>1. now \in Int /\ now <= now'
    BY <1>2, <1>3 DEF TypeInv
  <2>2. \A o \in visible' : Observed(o)'
    BY <1>2, <1>3, <2>1, ObservedStays
  <2> QED BY <1>2, <1>3, <1>5, <2>2 DEF TypeInv
<1>7. OnTime'
  BY <1>2, <1>3, <1>5 DEF OnTime, InTick
<1>8. PendingInTick'
  <2> SUFFICES ASSUME NEW o \in visible, since < o.at, o.at <= tick, ~o.late,
                      ~DatedElsewhere(o), o \notin refreshed
               PROVE  \E j \in 1..Len(dates') : o.date = dates'[j]
    BY <1>3 DEF PendingInTick, Pending
  <2>1. PICK i \in 2..Len(dates) : o.date = dates[i]
    BY <1>2, <1>3 DEF PendingInTick, InTick, Pending
  <2>2. i - 1 \in 1..Len(dates') /\ (i - 1) + 1 = i
    BY <1>4, <1>5
  <2>3. dates'[i - 1] = dates[i]
    BY <1>5, <2>2
  <2> QED BY <2>1, <2>2, <2>3
<1>9. Progress(h)'
  <2>1. Settled(h)'
    BY <1>1, <1>3, SettledStays DEF Progress
  <2> QED BY <1>1, <1>3, <2>1 DEF Progress, InTick
<1> QED BY <1>3, <1>6, <1>7, <1>8, <1>9 DEF IInv

(* A tick that ends settles everything up to its own start, if what it     *)
(* leaves behind is in a window that is put on record.                     *)
LEMMA EndTickHolds ==
  ASSUME IInv, InTick, NEW how, EndTick(how), skipped \subseteq skipped',
         \A o \in visible : since < o.at /\ o.at <= tick /\ ~o.late /\ ~DatedElsewhere(o) =>
             o \in refreshed \/ \E w \in skipped' : o.at > w[1] /\ o.at <= w[2]
  PROVE  IInv'
<1>1. PICK h \in (-1)..now : Progress(h)
  BY DEF IInv
<1>2. TypeInv /\ OnTime
  BY DEF IInv
<1>3. /\ pc' = "sleep" /\ since' = tick /\ dates' = << >> /\ crashes' = 0
      /\ now' = now /\ visible' = visible /\ refreshed' = refreshed /\ tick' = tick
      /\ crashedAt' = crashedAt
  BY DEF EndTick
<1>4. TypeInv'
  <2>1. now \in Int /\ now <= now' /\ 0 \in 0..MaxCrashes
    BY <1>2, <1>3, TimesAssumption DEF TypeInv
  <2>2. \A o \in visible' : Observed(o)'
    BY <1>2, <1>3, <2>1, ObservedStays
  <2> QED BY <1>2, <1>3, <2>1, <2>2 DEF TypeInv
<1>5. OnTime'
  <2>1. now <= tick + Period
    BY <1>2, Times DEF OnTime, TypeInv
  <2> QED BY <1>3, <2>1 DEF OnTime, InTick
<1>6. PendingInTick'
  BY <1>3 DEF PendingInTick, InTick
<1>7. PICK start \in Int : start = tick
  BY <1>2 DEF TypeInv
<1>8. Progress(start)'
  <2>1. Settled(start)'
    <3> SUFFICES ASSUME NEW o \in visible, o.at <= tick
                 PROVE  o \in refreshed \/ Excused(o)'
      BY <1>3, <1>7 DEF Settled
    <3>1. o.at \in Int /\ since \in Int /\ h \in Int
      BY <1>2 DEF TypeInv, Observed
    <3>2. CASE o.at <= h
      BY <1>1, <3>2 DEF Progress, Settled, Excused
    <3>3. CASE h < o.at
      <4>1. since < o.at
        BY <1>1, <3>1, <3>3 DEF Progress
      <4> QED BY <4>1 DEF Excused
    <3> QED BY <3>1, <3>2, <3>3
  <2> QED BY <1>3, <1>7, <2>1 DEF Progress, InTick
<1>9. start \in (-1)..now'
  BY <1>1, <1>2, <1>3, <1>7 DEF Progress, TypeInv
<1> QED BY <1>4, <1>5, <1>6, <1>8, <1>9 DEF IInv

LEMMA FinishHolds == IInv /\ Finish => IInv'
<1> SUFFICES ASSUME IInv, Finish PROVE IInv'
  OBVIOUS
<1>1. pc = "loop" /\ todo = {} /\ Len(dates) = 1 /\ EndTick("ok") /\ skipped' = skipped
  BY DEF Finish
<1>2. \A o \in visible :
         since < o.at /\ o.at <= tick /\ ~o.late /\ ~DatedElsewhere(o) => o \in refreshed
  BY <1>1 DEF IInv, PendingInTick, InTick, Pending
<1> QED BY <1>1, <1>2, EndTickHolds DEF InTick

LEMMA FailHolds == IInv /\ Fail => IInv'
<1> SUFFICES ASSUME IInv, Fail PROVE IInv'
  OBVIOUS
<1>1. /\ pc \in {"list", "loop"} /\ EndTick("failed")
      /\ skipped' = skipped \cup {<<since, tick>>}
  BY DEF Fail
<1>2. <<since, tick>> \in skipped' /\ <<since, tick>>[1] = since /\ <<since, tick>>[2] = tick
  BY <1>1
<1>3. \A o \in visible : since < o.at /\ o.at <= tick =>
          \E w \in skipped' : o.at > w[1] /\ o.at <= w[2]
  <2> SUFFICES ASSUME NEW o \in visible, since < o.at, o.at <= tick
               PROVE  \E w \in skipped' : o.at > w[1] /\ o.at <= w[2]
    OBVIOUS
  <2>1. o.at \in Int /\ since \in Int
    BY DEF IInv, TypeInv, Observed
  <2>2. o.at > since
    BY <2>1
  <2> QED BY <1>2, <2>2
<1> QED BY <1>1, <1>3, EndTickHolds DEF InTick

(* However it comes down, what was settled is less than the look-back ago  *)
(* when it is up again.                                                    *)
LEMMA CrashHolds == IInv /\ Crash => IInv'
<1> SUFFICES ASSUME IInv, Crash PROVE IInv'
  OBVIOUS
<1>1. PICK h \in (-1)..now : Progress(h)
  BY DEF IInv
<1>2. TypeInv /\ OnTime
  BY DEF IInv
<1>3. /\ crashes < MaxCrashes /\ pc \notin {"stopped", "down"}
      /\ pc' = "down" /\ crashes' = crashes + 1 /\ crashedAt' = now /\ dates' = << >>
      /\ now' = now /\ visible' = visible /\ refreshed' = refreshed /\ tick' = tick
      /\ since' = since /\ skipped' = skipped
  BY DEF Crash
<1>4. /\ now \in Nat /\ tick \in Int /\ since \in Int /\ crashes \in Nat /\ MaxCrashes \in Nat
  BY <1>2, TimesAssumption DEF TypeInv
<1>5. TypeInv'
  <2>1. crashes' \in 0..MaxCrashes /\ << >> \in Seq(Int)
    BY <1>3, <1>4
  <2>2. \A o \in visible' : Observed(o)'
    BY <1>2, <1>3, <1>4, ObservedStays
  <2> QED BY <1>2, <1>3, <1>4, <2>1, <2>2 DEF TypeInv
<1>6. OnTime'
  <2>1. crashes' > 0 /\ now <= now + DownTime
    BY <1>3, <1>4, Times
  <2> QED BY <1>3, <2>1 DEF OnTime, InTick
<1>7. PendingInTick'
  BY <1>3 DEF PendingInTick, InTick
<1>8. Progress(h)'
  <2>1. Settled(h)'
    BY <1>1, <1>3, SettledStays DEF Progress
  <2>2. /\ Outage(crashes) \in Nat
        /\ Outage(crashes') = Outage(crashes) + TickTime + DownTime
    BY <1>3, <1>4, OutageGrows
  <2>3. now <= h + Period + Outage(crashes) + TickTime
    <3>1. CASE pc = "ready"
      BY <1>1, <1>4, <2>2, <3>1, Times DEF Progress
    <3>2. CASE InTick
      BY <1>1, <1>2, <1>4, <2>2, <3>2, Times DEF Progress, OnTime
    <3>3. CASE pc = "sleep"
      BY <1>1, <1>2, <1>4, <2>2, <3>3, Times DEF Progress, OnTime
    <3> QED BY <1>2, <1>3, <3>1, <3>2, <3>3 DEF TypeInv, InTick
  <2>4. crashedAt' + DownTime <= h + Period + Outage(crashes')
    BY <1>3, <1>4, <2>2, <2>3, Times
  <2> QED BY <1>1, <1>3, <2>1, <2>4 DEF Progress, InTick
<1> QED BY <1>3, <1>5, <1>6, <1>7, <1>8 DEF IInv

LEMMA RestartHolds == IInv /\ Restart => IInv'
<1> SUFFICES ASSUME IInv, Restart PROVE IInv'
  OBVIOUS
<1>1. PICK h \in (-1)..now : Progress(h)
  BY DEF IInv
<1>2. TypeInv /\ OnTime
  BY DEF IInv
<1>3. /\ pc = "down" /\ pc' = "ready" /\ since' = now - 2 * Interval
      /\ now' = now /\ visible' = visible /\ refreshed' = refreshed /\ tick' = tick
      /\ dates' = dates /\ crashes' = crashes /\ crashedAt' = crashedAt /\ skipped' = skipped
  BY DEF Restart, ColdStart
<1>4. /\ now \in Nat /\ crashes \in 1..MaxCrashes /\ crashedAt \in Nat /\ h \in Int
  BY <1>2, <1>3, TimesAssumption DEF TypeInv, OnTime
<1>5. Outage(crashes) \in Nat /\ Period + Outage(crashes) <= 2 * Interval
  <2>1. crashes \in Nat
    BY <1>4, TimesAssumption
  <2> QED BY <1>4, <2>1, OutageGrows, ColdStartCovers
<1>6. TypeInv'
  <2>1. now - 2 * Interval \in Int
    BY <1>4, Times
  <2>2. \A o \in visible' : Observed(o)'
    BY <1>2, <1>3, <1>4, ObservedStays
  <2> QED BY <1>2, <1>3, <2>1, <2>2 DEF TypeInv
<1>7. OnTime'
  BY <1>3 DEF OnTime, InTick, ColdStart
<1>8. PendingInTick'
  BY <1>3 DEF PendingInTick, InTick
<1>9. Progress(h)'
  <2>1. Settled(h)'
    BY <1>1, <1>3, SettledStays DEF Progress
  <2>2. now <= h + Period + Outage(crashes)
    BY <1>1, <1>2, <1>3, <1>4, <1>5, Times DEF Progress, OnTime
  <2>3. now - 2 * Interval <= h
    BY <1>4, <1>5, <2>2, Times
  <2> QED BY <1>1, <1>3, <2>1, <2>2, <2>3 DEF Progress, InTick
<1> QED BY <1>3, <1>6, <1>7, <1>8, <1>9 DEF IInv

(* Only the clock moves, and not past a deadline.                          *)
LEMMA AdvanceHolds == IInv /\ Advance => IInv'
<1> SUFFICES ASSUME IInv, Advance PROVE IInv'
  OBVIOUS
<1>1. PICK h \in (-1)..now : Progress(h)
  BY DEF IInv
<1>2. TypeInv /\ OnTime /\ PendingInTick
  BY DEF IInv
<1>3. /\ pc # "ready" /\ now' = now + 1
      /\ InTick => now < tick + TickTime
      /\ pc = "sleep" => now < tick + Interval
      /\ pc = "down" => now < crashedAt + DownTime
      /\ visible' = visible /\ refreshed' = refreshed /\ pc' = pc /\ tick' = tick
      /\ since' = since /\ dates' = dates /\ todo' = todo
      /\ crashes' = crashes /\ crashedAt' = crashedAt /\ skipped' = skipped
  BY DEF Advance, worker, InTick
<1>4. now \in Nat /\ tick \in Int /\ crashedAt \in Nat
  BY <1>2 DEF TypeInv
<1>5. TypeInv'
  <2>1. now' \in Nat /\ now <= now' /\ tick <= now'
    BY <1>2, <1>3, <1>4 DEF TypeInv
  <2>2. \A o \in visible' : Observed(o)'
    BY <1>2, <1>3, <2>1, ObservedStays
  <2> QED BY <1>2, <1>3, <2>1, <2>2 DEF TypeInv
<1>6. OnTime'
  BY <1>2, <1>3, <1>4, Times DEF OnTime, InTick
<1>7. PendingInTick'
  BY <1>2, <1>3 DEF PendingInTick, InTick, Pending
<1>8. Progress(h)'
  <2>1. Settled(h)'
    BY <1>1, <1>3, SettledStays DEF Progress
  <2> QED BY <1>1, <1>3, <2>1 DEF Progress, InTick
<1>9. h \in (-1)..now'
  BY <1>3, <1>4
<1> QED BY <1>5, <1>6, <1>7, <1>8, <1>9 DEF IInv

(* A signal is noted, and obeyed between two ticks only.                   *)
LEMMA StopHolds == IInv /\ (Signal \/ Stop \/ UNCHANGED vars) => IInv'
<1> SUFFICES ASSUME IInv, Signal \/ Stop \/ UNCHANGED vars PROVE IInv'
  OBVIOUS
<1>1. PICK h \in (-1)..now : Progress(h)
  BY DEF IInv
<1>2. TypeInv /\ OnTime /\ PendingInTick
  BY DEF IInv
<1>3. /\ now' = now /\ visible' = visible /\ refreshed' = refreshed /\ tick' = tick
      /\ since' = since /\ dates' = dates /\ todo' = todo
      /\ crashes' = crashes /\ crashedAt' = crashedAt /\ skipped' = skipped
      /\ pc' = pc \/ pc' = "stopped"
  BY DEF Signal, Stop, vars, worker
<1>4. TypeInv'
  <2>1. now \in Int /\ now <= now'
    BY <1>2, <1>3 DEF TypeInv
  <2>2. \A o \in visible' : Observed(o)'
    BY <1>2, <1>3, <2>1, ObservedStays
  <2> QED BY <1>2, <1>3, <2>2 DEF TypeInv
<1>5. OnTime'
  BY <1>2, <1>3 DEF OnTime, InTick, ColdStart
<1>6. PendingInTick'
  BY <1>2, <1>3 DEF PendingInTick, InTick, Pending
<1>7. Progress(h)'
  <2>1. Settled(h)'
    BY <1>1, <1>3, SettledStays DEF Progress
  <2> QED BY <1>1, <1>3, <2>1 DEF Progress, InTick
<1> QED BY <1>3, <1>4, <1>5, <1>6, <1>7 DEF IInv

-----------------------------------------------------------------------------
(* The theorems. *)

(* Something is settled at every moment, and a tick in progress has the    *)
(* rest of its window pending (main, _tick).                               *)
THEOREM Invariant == Spec => []IInv
<1>1. Init => IInv
  BY InitHolds
<1>2. IInv /\ [Next]_vars => IInv'
  <2> SUFFICES ASSUME IInv, [Next]_vars PROVE IInv'
    OBVIOUS
  <2>1. CASE Advance
    BY <2>1, AdvanceHolds
  <2>2. ASSUME NEW trip \in Trips, Observe(trip) PROVE IInv'
    BY <2>2, ObserveHolds
  <2>3. ASSUME NEW trip \in Trips, Refresh(trip) PROVE IInv'
    BY <2>3, RefreshHolds
  <2>4. CASE StartTick
    BY <2>4, StartTickHolds
  <2>5. CASE List
    BY <2>5, ListHolds
  <2>6. CASE NextDate
    BY <2>6, NextDateHolds
  <2>7. CASE Finish
    BY <2>7, FinishHolds
  <2>8. CASE Fail
    BY <2>8, FailHolds
  <2>9. CASE Signal \/ Stop \/ UNCHANGED vars
    BY <2>9, StopHolds
  <2>10. CASE Crash
    BY <2>10, CrashHolds
  <2>11. CASE Restart
    BY <2>11, RestartHolds
  <2> QED BY <2>1, <2>2, <2>3, <2>4, <2>5, <2>6, <2>7, <2>8, <2>9, <2>10, <2>11 DEF Next
<1> QED BY <1>1, <1>2, PTL DEF Spec

(* Over crashes, restarts, midnights and failed ticks, an observation is   *)
(* missed only if it was late, in the window of a tick that failed, or not *)
(* dated by the time of its fetch.                                         *)
THEOREM NothingIsMissed == Spec => []NothingMissed
<1>1. IInv => NothingMissed
  <2> SUFFICES ASSUME IInv, pc = "sleep", NEW o \in Missed
               PROVE  Excused(o)
    BY DEF NothingMissed, Excused
  <2>1. PICK h \in (-1)..now : Progress(h)
    BY DEF IInv
  <2>2. Settled(h) /\ h = since
    BY <2>1 DEF Progress
  <2> QED BY <2>2 DEF Settled, Missed
<1> QED BY <1>1, Invariant, PTL

=============================================================================
