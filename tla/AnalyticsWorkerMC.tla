-------------------------- MODULE AnalyticsWorkerMC --------------------------
(***************************************************************************)
(* An instance of AnalyticsWorker for TLC: a day of seven units of time,   *)
(* of which the runs see the first and the beginning of the second.        *)
(***************************************************************************)
EXTENDS AnalyticsWorker

(* An overnight trip reports the date before, at any time of the day.      *)
Yesterdays == {-1}

(* Ahead of the fetch, with it and behind.                                 *)
ClockErrors == {-1, 0, 1}
=============================================================================
