---------------------------- MODULE BundleCacheMC ----------------------------
(***************************************************************************)
(* A small bundle: the table of trips, and the shapes.                     *)
(***************************************************************************)
EXTENDS BundleCache

CONSTANTS trips, shapes, t1, t2

(* _load reads trips.txt before shapes.txt. *)
ShapesLast == [f \in Files |-> IF f = shapes THEN {trips} ELSE {}]

(* One thread of the worker or of a route's stops beside one that serves    *)
(* trajectories.                                                           *)
Mixed == [t \in Threads |-> IF t = t1 THEN {"run", "stops"} ELSE {"lines"}]

OneEntryEach == [l \in Levels |-> 1]
=============================================================================
