------------------------- MODULE TrajectoryRefreshMC -------------------------
(***************************************************************************)
(* Small instances of TrajectoryRefresh. Instants stand for 10 s steps.    *)
(***************************************************************************)
EXTENDS TrajectoryRefresh

CONSTANTS worker, manual

(* Two observations are needed for a trajectory; the third lengthens it.    *)
Growing == [n \in 0..MaxObs |-> IF n < 2 THEN {} ELSE 1..(2 * (n - 1))]

SameGrid == [r \in Runs |-> Growing]

(* A coarser resolution: every other instant.                               *)
CoarseManual ==
    [r \in Runs |-> IF r = worker THEN Growing
                    ELSE [n \in 0..MaxObs |-> {t \in Growing[n] : t % 2 = 0}]]
=============================================================================
