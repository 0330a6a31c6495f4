-------------------------- MODULE TrajectoryRefresh --------------------------
(***************************************************************************)
(* Analytics runs (run_for_date) refreshing trip_trajectories side by side:*)
(* the worker's run and manual ones, on one service date. Each run lists   *)
(* trip instances and, for each, reads the observations, derives a         *)
(* trajectory, deletes the rows of the instance, inserts the new ones and  *)
(* commits.                                                                *)
(*                                                                         *)
(* PostgreSQL at READ COMMITTED, as far as these statements meet it: a     *)
(* statement sees the rows committed when it starts; a DELETE waits for    *)
(* another transaction that holds one of its rows and then skips the rows  *)
(* that went; an INSERT waits for an open transaction that holds its key   *)
(* and fails on the unique index if a committed row has it.                *)
(***************************************************************************)
EXTENDS Naturals, FiniteSets

CONSTANTS
    Runs,           \* invocations of run_for_date
    Incremental,    \* those with only_changed_since (the worker's)
    Exporting,      \* those with --export-csv
    Instances,      \* the (trip_id, start_date) pairs of the service date
    Derived,        \* Derived[r][n]: instants of the trajectory a run with r's
                    \* settings derives from n observations, {} if none
    MaxObs,         \* bound: observations of an instance
    MayFail         \* whether reads, flushes, commits and exports may raise
                    \* and processes may be killed

ASSUME RunsAssumption ==
    /\ Instances # {}
    /\ Incremental \subseteq Runs
    /\ Exporting \subseteq Runs
    /\ MaxObs \in Nat
    /\ MayFail \in BOOLEAN
    /\ Derived \in [Runs -> [0..MaxObs -> SUBSET Nat]]
    /\ \A r \in Runs : Derived[r][0] = {}

VARIABLES
    obs,            \* committed observations of each instance
    table,          \* trip_trajectories: for each instance its committed rows
    status,         \* analytics_runs.status of each run ("absent": no row yet)
    pc,
    todo,           \* instances listed and not yet processed
    cur,            \* the instance being processed
    seen,           \* how many of its observations process_trip_instance read
    victims,        \* rows in the snapshot of the DELETE statement
    held,           \* rows the open transaction has deleted
    pending,        \* rows the open transaction has inserted
    fault           \* why the run raised

runVars == <<pc, todo, cur, seen, victims, held, pending, fault>>
vars    == <<obs, table, status, runVars>>

RowsFor(r, n) == {[run |-> r, dt |-> t, seen |-> n] : t \in Derived[r][n]}

Init ==
    /\ obs = [i \in Instances |-> 0]
    /\ table = [i \in Instances |-> {}]
    /\ status = [r \in Runs |-> "absent"]
    /\ pc = [r \in Runs |-> "new"]
    /\ todo = [r \in Runs |-> {}]
    /\ cur = [r \in Runs |-> CHOOSE i \in Instances : TRUE]
    /\ seen = [r \in Runs |-> 0]
    /\ victims = [r \in Runs |-> {}]
    /\ held = [r \in Runs |-> {}]
    /\ pending = [r \in Runs |-> {}]
    /\ fault = [r \in Runs |-> "none"]

(* The collector commits one more observation of an instance.               *)
Observe(i) ==
    /\ obs[i] < MaxObs
    /\ obs' = [obs EXCEPT ![i] = @ + 1]
    /\ UNCHANGED <<table, status, runVars>>

Goto(r, place) == pc' = [pc EXCEPT ![r] = place]

(* The analytics_runs row is committed as 'running' before anything else.   *)
Start(r) ==
    /\ pc[r] = "new"
    /\ Goto(r, "list")
    /\ status' = [status EXCEPT ![r] = "running"]
    /\ UNCHANGED <<obs, table, todo, cur, seen, victims, held, pending, fault>>

Observed == {i \in Instances : obs[i] > 0}

(* list_trip_instances names every observed instance; the changed-since     *)
(* listing those with a row newer than the cutoff, any of them.             *)
List(r) ==
    /\ pc[r] = "list"
    /\ \E S \in IF r \in Incremental THEN SUBSET Observed ELSE {Observed} :
          todo' = [todo EXCEPT ![r] = S]
    /\ Goto(r, "loop")
    /\ UNCHANGED <<obs, table, status, cur, seen, victims, held, pending, fault>>

(* process_trip_instance reads the observations; an empty result moves on   *)
(* to the next instance and leaves the table as it is.                      *)
Process(r, i) ==
    /\ pc[r] = "loop"
    /\ i \in todo[r]
    /\ todo' = [todo EXCEPT ![r] = @ \ {i}]
    /\ cur' = [cur EXCEPT ![r] = i]
    /\ seen' = [seen EXCEPT ![r] = obs[i]]
    /\ Goto(r, IF Derived[r][obs[i]] = {} THEN "loop" ELSE "delete")
    /\ UNCHANGED <<obs, table, status, victims, held, pending, fault>>

BeginDelete(r) ==
    /\ pc[r] = "delete"
    /\ victims' = [victims EXCEPT ![r] = table[cur[r]]]
    /\ Goto(r, "deleting")
    /\ UNCHANGED <<obs, table, status, todo, cur, seen, held, pending, fault>>

Others(r) == {s \in Runs \ {r} : cur[s] = cur[r]}

(* Mutant: only the rows at the new instants are deleted. *)
DeleteMatching(r) ==
    /\ pc[r] = "deleting"
    /\ \A s \in Others(r) : held[s] \cap victims[r] = {}
    /\ held' = [held EXCEPT ![r] =
          {row \in victims[r] \cap table[cur[r]] : row.dt \in Derived[r][seen[r]]}]
    /\ victims' = [victims EXCEPT ![r] = {}]
    /\ Goto(r, "insert")
    /\ UNCHANGED <<obs, table, status, todo, cur, seen, pending, fault>>

(* Mutant: the deletion is committed before the insertion. *)
DeleteCommitting(r) ==
    /\ pc[r] = "deleting"
    /\ \A s \in Others(r) : held[s] \cap victims[r] = {}
    /\ table' = [table EXCEPT ![cur[r]] = @ \ victims[r]]
    /\ victims' = [victims EXCEPT ![r] = {}]
    /\ Goto(r, "insert")
    /\ UNCHANGED <<obs, status, todo, cur, seen, held, pending, fault>>

Delete(r) ==
    /\ pc[r] = "deleting"
    /\ \A s \in Others(r) : held[s] \cap victims[r] = {}
    /\ held' = [held EXCEPT ![r] = victims[r] \cap table[cur[r]]]
    /\ victims' = [victims EXCEPT ![r] = {}]
    /\ Goto(r, "insert")
    /\ UNCHANGED <<obs, table, status, todo, cur, seen, pending, fault>>

Instants(rows) == {row.dt : row \in rows}

(* Committed rows another transaction has deleted, or rows it has inserted, *)
(* and that share a key with ours: the INSERT waits for its end.            *)
Waits(r) ==
    \E s \in Others(r) :
        Instants(held[s] \cup pending[s]) \cap Derived[r][seen[r]] # {}

Collides(r) ==
    Instants(table[cur[r]] \ held[r]) \cap Derived[r][seen[r]] # {}

(* session.commit() flushes the new rows ...                                *)
Insert(r) ==
    /\ pc[r] = "insert"
    /\ ~Waits(r)
    /\ ~Collides(r)
    /\ pending' = [pending EXCEPT ![r] = RowsFor(r, seen[r])]
    /\ Goto(r, "commit")
    /\ UNCHANGED <<obs, table, status, todo, cur, seen, victims, held, fault>>

(* ... and commits them with the deletion.                                  *)
Commit(r) ==
    /\ pc[r] = "commit"
    /\ table' = [table EXCEPT ![cur[r]] = (@ \ held[r]) \cup pending[r]]
    /\ held' = [held EXCEPT ![r] = {}]
    /\ pending' = [pending EXCEPT ![r] = {}]
    /\ Goto(r, "loop")
    /\ UNCHANGED <<obs, status, todo, cur, seen, victims, fault>>

Finalize(r) ==
    /\ pc[r] = "loop"
    /\ todo[r] = {}
    /\ status' = [status EXCEPT ![r] = "ok"]
    /\ Goto(r, IF r \in Exporting THEN "export" ELSE "done")
    /\ UNCHANGED <<obs, table, todo, cur, seen, victims, held, pending, fault>>

(* The CSV files are written after the run row is final.                    *)
Export(r) ==
    /\ pc[r] = "export"
    /\ Goto(r, "done")
    /\ UNCHANGED <<obs, table, status, todo, cur, seen, victims, held, pending, fault>>

(* Mutant: the handler does not roll back. *)
RaiseHolding(r, why) ==
    /\ fault' = [fault EXCEPT ![r] = why]
    /\ Goto(r, "failing")
    /\ UNCHANGED <<obs, table, status, todo, cur, seen, victims, held, pending>>

(* An exception inside the try: the handler starts with a rollback.         *)
Raise(r, why) ==
    /\ fault' = [fault EXCEPT ![r] = why]
    /\ victims' = [victims EXCEPT ![r] = {}]
    /\ held' = [held EXCEPT ![r] = {}]
    /\ pending' = [pending EXCEPT ![r] = {}]
    /\ Goto(r, "failing")
    /\ UNCHANGED <<obs, table, status, todo, cur, seen>>

InsertCollides(r) ==
    /\ pc[r] = "insert"
    /\ ~Waits(r)
    /\ Collides(r)
    /\ Raise(r, "unique")

Fails(r) ==
    /\ MayFail
    /\ pc[r] \in {"list", "loop", "delete", "deleting", "insert", "commit", "export"}
    /\ Raise(r, "outside")

FinalizeFailed(r) ==
    /\ pc[r] = "failing"
    /\ status' = [status EXCEPT ![r] = "failed"]
    /\ Goto(r, "done")
    /\ UNCHANGED <<obs, table, todo, cur, seen, victims, held, pending, fault>>

(* The status write fails too and is swallowed: the row stays 'running'     *)
(* (or 'ok', if it was the export that raised).                             *)
FinalizeSwallowed(r) ==
    /\ MayFail
    /\ pc[r] = "failing"
    /\ Goto(r, "done")
    /\ UNCHANGED <<obs, table, status, todo, cur, seen, victims, held, pending, fault>>

(* The process is killed; the server rolls its transaction back.            *)
Kill(r) ==
    /\ MayFail
    /\ pc[r] \notin {"new", "done", "dead"}
    /\ victims' = [victims EXCEPT ![r] = {}]
    /\ held' = [held EXCEPT ![r] = {}]
    /\ pending' = [pending EXCEPT ![r] = {}]
    /\ Goto(r, "dead")
    /\ UNCHANGED <<obs, table, status, todo, cur, seen, fault>>

Step(r) ==
    \/ Start(r) \/ List(r) \/ (\E i \in Instances : Process(r, i))
    \/ BeginDelete(r) \/ Delete(r) \/ Insert(r) \/ InsertCollides(r) \/ Commit(r)
    \/ Finalize(r) \/ Export(r) \/ FinalizeFailed(r)

Fault(r) == Fails(r) \/ FinalizeSwallowed(r) \/ Kill(r)

Next ==
    \/ \E i \in Instances : Observe(i)
    \/ \E r \in Runs : Step(r) \/ Fault(r)

Spec == Init /\ [][Next]_vars

(* A run that is alive and not waiting for a lock takes its next step.      *)
FairSpec == Spec /\ \A r \in Runs : WF_vars(Step(r))

-----------------------------------------------------------------------------
Places == {"new", "list", "loop", "delete", "deleting", "insert", "commit",
           "export", "failing", "done", "dead"}

Rows == [run : Runs, dt : Nat, seen : 0..MaxObs]

TypeOK ==
    /\ obs \in [Instances -> 0..MaxObs]
    /\ table \in [Instances -> SUBSET Rows]
    /\ status \in [Runs -> {"absent", "running", "ok", "failed"}]
    /\ pc \in [Runs -> Places]
    /\ todo \in [Runs -> SUBSET Instances]
    /\ cur \in [Runs -> Instances]
    /\ seen \in [Runs -> 0..MaxObs]
    /\ victims \in [Runs -> SUBSET Rows]
    /\ held \in [Runs -> SUBSET Rows]
    /\ pending \in [Runs -> SUBSET Rows]
    /\ fault \in [Runs -> {"none", "unique", "outside"}]

(* Any two trajectories of an instance have an instant in common. The grids *)
(* of two settings need not: multiples of 10 s and of 7 s meet every 70 s.  *)
GridsMeet ==
    \A r, s \in Runs, m, n \in 0..MaxObs :
        Derived[r][m] # {} /\ Derived[s][n] # {} => Derived[r][m] \cap Derived[s][n] # {}

(* "no duplicates are possible" (README), and each instance is overwritten  *)
(* atomically: its committed rows are one run's, from one reading of the    *)
(* observations, however runs overlap, fail or die. The delete and insert   *)
(* of runner.py and the unique index say so; "Both are append-only:         *)
(* re-running for the same service_date inserts a new run and new rows.     *)
(* Latest-per-point is a DISTINCT ON query ..., not a mutation"             *)
(* (trip_trajectory.py:7-9) is stale: of the runs it holds, not of the rows.*)
InstanceUnmixed ==
    \A i \in Instances : \A a, b \in table[i] : a.run = b.run /\ a.seen = b.seen

(* Overlapping with a manual run is safe, the last writer wins (worker.py): *)
(* a run that nothing outside disturbs does not fail. It does: the DELETE   *)
(* of the second writer does not see the rows the first one commits         *)
(* meanwhile, its INSERT meets them, and the unique index aborts the run.   *)
OverlapIsSafe ==
    \A r \in Runs : fault[r] # "unique"

(* The runs implement the atomic refresh of whole instances: rows are       *)
(* replaced, which trip_trajectory.py:7-9 ("append-only", "not a mutation") *)
(* denies and every refresh in runner.py does.                              *)
Atomic == INSTANCE AtomicRefresh WITH observed <- obs, trajectory <- table

ImplementsAtomicRefresh == Atomic!RefreshSpec

(* Runs never wait for each other's locks for ever: every run that started  *)
(* comes to its end unless it is killed.                                    *)
RunsEnd ==
    \A r \in Runs : pc[r] = "list" ~> pc[r] \in {"done", "dead"}
=============================================================================
