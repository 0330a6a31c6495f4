---------------------------- MODULE AtomicRefresh ----------------------------
(***************************************************************************)
(* What trip_trajectories promises its readers (runner.py and README; not  *)
(* trip_trajectory.py:7-9, whose append-only rows are of the past): at any *)
(* time the rows of a trip instance are one trajectory, derived whole by   *)
(* one run from what had been observed of the instance, and a refresh      *)
(* replaces them in one step.                                              *)
(***************************************************************************)
EXTENDS Naturals

CONSTANTS
    Runs,
    Instances,
    Derived         \* Derived[r][n]: the instants of the trajectory that a run
                    \* with r's settings derives from n observations

VARIABLES
    observed,       \* observations collected of each instance
    trajectory      \* the rows of each instance

refreshVars == <<observed, trajectory>>

TrajectoryOf(r, n) == {[run |-> r, dt |-> t, seen |-> n] : t \in Derived[r][n]}

RefreshInit ==
    /\ observed = [i \in Instances |-> 0]
    /\ trajectory = [i \in Instances |-> {}]

Observe(i) ==
    /\ observed' = [observed EXCEPT ![i] = @ + 1]
    /\ UNCHANGED trajectory

Refresh(i, r) ==
    /\ \E n \in 1..observed[i] :
          /\ Derived[r][n] # {}
          /\ trajectory' = [trajectory EXCEPT ![i] = TrajectoryOf(r, n)]
    /\ UNCHANGED observed

RefreshNext ==
    \E i \in Instances : Observe(i) \/ \E r \in Runs : Refresh(i, r)

RefreshSpec == RefreshInit /\ [][RefreshNext]_refreshVars
=============================================================================
