------------------------------ MODULE RouteView ------------------------------
(***************************************************************************)
(* What the API and the training export compute about a route (iroam.py,   *)
(* detect_all in anomalies.py): its stops, its buses and their episodes,   *)
(* bunching by time and by distance, the forecast window, the labels.      *)
(* Every computation is pure: it takes its input, goes through its steps   *)
(* and forgets its locals. A thread is in one of them at a time. Each takes*)
(* any input of its bounds, which includes what the one before it in a     *)
(* request may hand over.                                                  *)
(***************************************************************************)
EXTENDS StopProjection, BusTracks, BunchSweep, StopCrossings, ForecastWindow, BunchingLabels

Init ==
    StopsInit /\ TracksInit /\ SweepInit /\ CrossInit /\ WindowInit /\ LabelsInit

Only(part) ==
    /\ stage = "idle" \/ part = "stops"
    /\ phase = "idle" \/ part = "tracks"
    /\ sweep = "idle" \/ part = "distance"
    /\ passing = "idle" \/ part = "time"
    /\ serving = "idle" \/ part = "forecast"
    /\ work = "idle" \/ part = "labels"

RouteStops ==
    /\ Only("stops") /\ StopsNext
    /\ UNCHANGED <<trackVars, sweepVars, crossVars, windowVars, labelVars>>

RouteBuses ==
    /\ Only("tracks") /\ TracksNext
    /\ UNCHANGED <<stopVars, sweepVars, crossVars, windowVars, labelVars>>

DistanceBunching ==
    /\ Only("distance") /\ SweepNext
    /\ UNCHANGED <<stopVars, trackVars, crossVars, windowVars, labelVars>>

TimeBunching ==
    /\ Only("time") /\ CrossNext
    /\ UNCHANGED <<stopVars, trackVars, sweepVars, windowVars, labelVars>>

ServeForecast ==
    /\ Only("forecast") /\ WindowNext
    /\ UNCHANGED <<stopVars, trackVars, sweepVars, crossVars, labelVars>>

ExportLabels ==
    /\ Only("labels") /\ LabelsNext
    /\ UNCHANGED <<stopVars, trackVars, sweepVars, crossVars, windowVars>>

Next ==
    \/ RouteStops \/ RouteBuses \/ DistanceBunching \/ TimeBunching
    \/ ServeForecast \/ ExportLabels

vars == <<stopVars, trackVars, sweepVars, crossVars, windowVars, labelVars>>

Spec == Init /\ [][Next]_vars
=============================================================================
