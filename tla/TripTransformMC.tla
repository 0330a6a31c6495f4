--------------------------- MODULE TripTransformMC ---------------------------
(***************************************************************************)
(* A small instance of TripTransform: half seconds, a grid of two seconds, *)
(* reports on and off whole seconds, in any order and with repeated times. *)
(***************************************************************************)
EXTENDS TripTransform

CONSTANTS r1, r2

Report(time, travel) ==
    [time |-> time, fix |-> TRUE, travel |-> travel, off |-> 0, route |-> r1]

(* On the way, a jump ahead and back, without a fix, off the route, of      *)
(* another route.                                                           *)
Reports ==
    {Report(time, travel) : time \in {2, 5, 9, 12}, travel \in {0, 6}}
    \cup {Report(7, 7), Report(21, 9), Report(24, 3)}
    \cup {[Report(8, 3) EXCEPT !.fix = FALSE, !.route = NoRoute],
          [Report(9, 4) EXCEPT !.off = 9, !.route = NoRoute],
          [Report(3, 1) EXCEPT !.route = r2]}
=============================================================================
