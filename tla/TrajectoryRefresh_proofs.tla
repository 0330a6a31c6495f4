----------------------- MODULE TrajectoryRefresh_proofs -----------------------
(***************************************************************************)
(* Concurrent analytics runs keep every trip instance whole, for any set   *)
(* of runs and instances, provided that any two trajectories of an         *)
(* instance share an instant (GridsMeet). The argument: a run that deletes *)
(* gets all rows of the table or, if they were replaced meanwhile, none of *)
(* them. Two open transactions with rows of one instance would share a     *)
(* key, so the second to insert waits (Alone). One that has inserted has   *)
(* met no committed row, so it has deleted all there were (Replacing) and  *)
(* its commit replaces the instance.                                       *)
(***************************************************************************)
EXTENDS TrajectoryRefresh, TLAPS

Trajectories == {RowsFor(s, n) : s \in Runs, n \in 0..MaxObs} \cup {{}}

(* Tables, statement snapshots and deletions are whole trajectories.        *)
Whole ==
    /\ \A i \in Instances : table[i] \in Trajectories
    /\ \A r \in Runs : victims[r] \in Trajectories /\ held[r] \in Trajectories

(* A run between its reading and its commit has something to write ...      *)
Writing ==
    \A r \in Runs :
        /\ pc[r] \in {"delete", "deleting", "insert", "commit"} =>
              Derived[r][seen[r]] # {} /\ seen[r] <= obs[cur[r]]
        /\ pc[r] = "commit" => pending[r] = RowsFor(r, seen[r])

(* ... and, once it has inserted, has deleted all that it replaces.         *)
Replacing ==
    \A r \in Runs : pc[r] = "commit" => table[cur[r]] \subseteq held[r]

Alone ==
    \A r, s \in Runs : r # s /\ pc[r] = "commit" /\ pc[s] = "commit" => cur[r] # cur[s]

IInv == TypeOK /\ Whole /\ Writing /\ Replacing /\ Alone

-----------------------------------------------------------------------------
(* Lemmas about trajectories. *)

(* The rows of a derivation are well typed.                                 *)
LEMMA RowsForType ==
  ASSUME NEW r \in Runs, NEW n \in 0..MaxObs
  PROVE  RowsFor(r, n) \subseteq Rows
  BY RunsAssumption DEF RowsFor, Rows

(* Two trajectories are equal or have no row in common: a row names its run *)
(* and the reading it was derived from.                                     *)
LEMMA EqualOrDisjoint ==
  \A a, b \in Trajectories : a = b \/ a \cap b = {}
<1> TAKE a, b \in Trajectories
<1>1. CASE a = {} \/ b = {}
  BY <1>1
<1>2. ASSUME NEW s \in Runs, NEW m \in 0..MaxObs, a = RowsFor(s, m),
             NEW t \in Runs, NEW n \in 0..MaxObs, b = RowsFor(t, n)
      PROVE  a = b \/ a \cap b = {}
  <2>1. \A x \in a : x.run = s /\ x.seen = m
    BY <1>2 DEF RowsFor
  <2>2. \A x \in b : x.run = t /\ x.seen = n
    BY <1>2 DEF RowsFor
  <2>3. CASE s = t /\ m = n
    BY <1>2, <2>3
  <2>4. CASE ~(s = t /\ m = n)
    BY <2>1, <2>2, <2>4
  <2> QED
    BY <2>3, <2>4
<1> QED
  BY <1>1, <1>2 DEF Trajectories

(* If the grids meet, a trajectory in the table collides with any new one.  *)
LEMMA TrajectoriesMeet ==
  ASSUME GridsMeet, NEW a \in Trajectories, a # {},
         NEW r \in Runs, NEW n \in 0..MaxObs, Derived[r][n] # {}
  PROVE  Instants(a) \cap Derived[r][n] # {}
<1>1. PICK s \in Runs, m \in 0..MaxObs : a = RowsFor(s, m)
  BY DEF Trajectories
<1>2. Instants(a) = Derived[s][m]
  <2>1. \A t \in Derived[s][m] : [run |-> s, dt |-> t, seen |-> m].dt = t
    OBVIOUS
  <2> QED
    BY <1>1, <2>1 DEF Instants, RowsFor
<1>3. Derived[s][m] # {}
  BY <1>1 DEF RowsFor
<1> QED
  BY <1>2, <1>3 DEF GridsMeet

-----------------------------------------------------------------------------
(* The invariant. *)

(* At the start nothing is in the table and no run has begun.               *)
LEMMA InitIInv == Init => IInv
  BY RunsAssumption
  DEF Init, IInv, TypeOK, Places, Whole, Trajectories, Writing, Replacing, Alone

(* Every step keeps the types.                                              *)
LEMMA TypeNext ==
  ASSUME TypeOK, [Next]_vars
  PROVE  TypeOK'
<1> USE RunsAssumption DEF TypeOK, Places
<1>1. CASE UNCHANGED vars
  BY <1>1 DEF vars, runVars
<1>2. ASSUME NEW i \in Instances, Observe(i) PROVE TypeOK'
  BY <1>2 DEF Observe, runVars
<1>3. ASSUME NEW r \in Runs, Step(r) \/ Fault(r) PROVE TypeOK'
  <2>1. CASE Start(r)
    BY <2>1 DEF Start, Goto
  <2>2. CASE List(r)
    BY <2>2 DEF List, Goto, Observed
  <2>3. ASSUME NEW i \in Instances, Process(r, i) PROVE TypeOK'
    BY <2>3 DEF Process, Goto, Observed
  <2>4. CASE BeginDelete(r)
    BY <2>4 DEF BeginDelete, Goto
  <2>5. CASE Delete(r)
    BY <2>5 DEF Delete, Goto
  <2>6. CASE Insert(r)
    <3>1. RowsFor(r, seen[r]) \in SUBSET Rows
      BY RowsForType
    <3> QED
      BY <2>6, <3>1 DEF Insert, Goto
  <2>7. CASE InsertCollides(r)
    BY <2>7 DEF InsertCollides, Raise, Goto
  <2>8. CASE Commit(r)
    BY <2>8 DEF Commit, Goto
  <2>9. CASE Finalize(r)
    BY <2>9 DEF Finalize, Goto
  <2>10. CASE Export(r)
    BY <2>10 DEF Export, Goto
  <2>11. CASE FinalizeFailed(r)
    BY <2>11 DEF FinalizeFailed, Goto
  <2>12. CASE Fails(r)
    BY <2>12 DEF Fails, Raise, Goto
  <2>13. CASE FinalizeSwallowed(r)
    BY <2>13 DEF FinalizeSwallowed, Goto
  <2>14. CASE Kill(r)
    BY <2>14 DEF Kill, Goto
  <2> QED
    BY <1>3, <2>1, <2>2, <2>3, <2>4, <2>5, <2>6, <2>7, <2>8,
       <2>9, <2>10, <2>11, <2>12, <2>13, <2>14 DEF Step, Fault
<1> QED
  BY <1>1, <1>2, <1>3 DEF Next

(* The two sources of trajectories: nothing, and a derivation.              *)
LEMMA SomeTrajectories ==
  /\ {} \in Trajectories
  /\ \A r \in Runs, n \in 0..MaxObs : RowsFor(r, n) \in Trajectories
  BY DEF Trajectories

(* Every step keeps tables, snapshots and deletions whole.                  *)
LEMMA WholeNext ==
  ASSUME IInv, [Next]_vars
  PROVE  Whole'
<1> USE SomeTrajectories DEF IInv, TypeOK, Whole
<1>1. CASE UNCHANGED vars
  BY <1>1 DEF vars, runVars
<1>2. ASSUME NEW i \in Instances, Observe(i) PROVE Whole'
  BY <1>2 DEF Observe, runVars
<1>3. ASSUME NEW r \in Runs, Step(r) \/ Fault(r) PROVE Whole'
  <2>1. CASE Start(r)
    BY <2>1 DEF Start, Goto
  <2>2. CASE List(r)
    BY <2>2 DEF List, Goto
  <2>3. ASSUME NEW i \in Instances, Process(r, i) PROVE Whole'
    BY <2>3 DEF Process, Goto
  <2>4. CASE BeginDelete(r)
    BY <2>4 DEF BeginDelete, Goto
  <2>5. CASE Delete(r)
    <3>1. victims[r] \in Trajectories /\ table[cur[r]] \in Trajectories
      OBVIOUS
    <3>2. victims[r] = table[cur[r]] \/ victims[r] \cap table[cur[r]] = {}
      BY <3>1, EqualOrDisjoint
    <3>3. victims[r] \cap table[cur[r]] \in Trajectories
      BY <3>1, <3>2
    <3> QED
      BY <2>5, <3>3 DEF Delete, Goto
  <2>6. CASE Insert(r)
    BY <2>6 DEF Insert, Goto
  <2>7. CASE InsertCollides(r)
    BY <2>7 DEF InsertCollides, Raise, Goto
  <2>8. CASE Commit(r)
    <3>1. (table[cur[r]] \ held[r]) \cup pending[r] = RowsFor(r, seen[r])
      BY <2>8 DEF Commit, Replacing, Writing
    <3>2. RowsFor(r, seen[r]) \in Trajectories
      OBVIOUS
    <3>3. \A i \in Instances : table'[i] \in {table[i], RowsFor(r, seen[r])}
      BY <2>8, <3>1 DEF Commit
    <3>4. \A s \in Runs : victims'[s] = victims[s] /\ held'[s] \in {held[s], {}}
      BY <2>8 DEF Commit
    <3> QED
      BY <3>2, <3>3, <3>4
  <2>9. CASE Finalize(r)
    BY <2>9 DEF Finalize, Goto
  <2>10. CASE Export(r)
    BY <2>10 DEF Export, Goto
  <2>11. CASE FinalizeFailed(r)
    BY <2>11 DEF FinalizeFailed, Goto
  <2>12. CASE Fails(r)
    BY <2>12 DEF Fails, Raise, Goto
  <2>13. CASE FinalizeSwallowed(r)
    BY <2>13 DEF FinalizeSwallowed, Goto
  <2>14. CASE Kill(r)
    BY <2>14 DEF Kill, Goto
  <2> QED
    BY <1>3, <2>1, <2>2, <2>3, <2>4, <2>5, <2>6, <2>7, <2>8,
       <2>9, <2>10, <2>11, <2>12, <2>13, <2>14 DEF Step, Fault
<1> QED
  BY <1>1, <1>2, <1>3 DEF Next

(* Every step keeps what a run between its reading and its commit will write.*)
LEMMA WritingNext ==
  ASSUME TypeOK, Writing, [Next]_vars
  PROVE  Writing'
<1> USE DEF TypeOK, Writing, Places
<1>1. CASE UNCHANGED vars
  BY <1>1 DEF vars, runVars
<1>2. ASSUME NEW i \in Instances, Observe(i) PROVE Writing'
  <2>1. \A j \in Instances : obs[j] \in Nat /\ obs'[j] \in Nat /\ obs[j] <= obs'[j]
    BY <1>2, RunsAssumption DEF Observe
  <2>2. \A s \in Runs : seen[s] \in Nat /\ cur[s] \in Instances
    BY RunsAssumption
  <2> QED
    BY <1>2, <2>1, <2>2 DEF Observe, runVars
<1>3. ASSUME NEW r \in Runs, Step(r) \/ Fault(r) PROVE Writing'
  <2>1. CASE Start(r)
    BY <2>1 DEF Start, Goto
  <2>2. CASE List(r)
    BY <2>2 DEF List, Goto
  <2>3. ASSUME NEW i \in Instances, Process(r, i) PROVE Writing'
    <3>1. /\ cur'[r] = i
          /\ seen'[r] = obs[i]
          /\ obs[i] \in Nat
          /\ pc'[r] = IF Derived[r][obs[i]] = {} THEN "loop" ELSE "delete"
      BY <2>3, RunsAssumption DEF Process, Goto
    <3>2. \A s \in Runs \ {r} :
             cur'[s] = cur[s] /\ seen'[s] = seen[s] /\ pc'[s] = pc[s]
      BY <2>3 DEF Process, Goto
    <3>3. UNCHANGED <<obs, pending>>
      BY <2>3 DEF Process
    <3>4. /\ pc'[r] = "delete" => Derived[r][seen'[r]] # {} /\ seen'[r] <= obs'[cur'[r]]
          /\ pc'[r] \in {"loop", "delete"}
      BY <3>1, <3>3
    <3>5. \A s \in Runs \ {r} :
             /\ pc'[s] \in {"delete", "deleting", "insert", "commit"} =>
                   Derived[s][seen'[s]] # {} /\ seen'[s] <= obs'[cur'[s]]
             /\ pc'[s] = "commit" => pending'[s] = RowsFor(s, seen'[s])
      BY <3>2, <3>3
    <3> HIDE DEF TypeOK
    <3> QED
      BY <3>4, <3>5
  <2>4. CASE BeginDelete(r)
    BY <2>4 DEF BeginDelete, Goto
  <2>5. CASE Delete(r)
    BY <2>5 DEF Delete, Goto
  <2>6. CASE Insert(r)
    BY <2>6 DEF Insert, Goto
  <2>7. CASE InsertCollides(r)
    BY <2>7 DEF InsertCollides, Raise, Goto
  <2>8. CASE Commit(r)
    BY <2>8 DEF Commit, Goto
  <2>9. CASE Finalize(r)
    BY <2>9 DEF Finalize, Goto
  <2>10. CASE Export(r)
    BY <2>10 DEF Export, Goto
  <2>11. CASE FinalizeFailed(r)
    BY <2>11 DEF FinalizeFailed, Goto
  <2>12. CASE Fails(r)
    BY <2>12 DEF Fails, Raise, Goto
  <2>13. CASE FinalizeSwallowed(r)
    BY <2>13 DEF FinalizeSwallowed, Goto
  <2>14. CASE Kill(r)
    BY <2>14 DEF Kill, Goto
  <2> QED
    BY <1>3, <2>1, <2>2, <2>3, <2>4, <2>5, <2>6, <2>7, <2>8,
       <2>9, <2>10, <2>11, <2>12, <2>13, <2>14 DEF Step, Fault
<1> QED
  BY <1>1, <1>2, <1>3 DEF Next

(* A run that may insert has deleted every row it replaces: rows that were  *)
(* left would collide.                                                      *)
LEMMA InsertReplaces ==
  ASSUME GridsMeet, IInv, NEW r \in Runs, Insert(r)
  PROVE  table[cur[r]] \subseteq held[r]
<1> DEFINE left == table[cur[r]] \ held[r]
<1>1. left = {} \/ left = table[cur[r]]
  BY EqualOrDisjoint DEF IInv, TypeOK, Whole
<1>2. left \in Trajectories
  <2>1. table[cur[r]] \in Trajectories
    BY DEF IInv, TypeOK, Whole
  <2> QED
    BY <1>1, <2>1, SomeTrajectories
<1>3. /\ seen[r] \in 0..MaxObs
      /\ Derived[r][seen[r]] # {}
      /\ Instants(left) \cap Derived[r][seen[r]] = {}
  BY DEF IInv, TypeOK, Writing, Insert, Collides
<1> HIDE DEF left
<1>4. left = {}
  BY <1>2, <1>3, TrajectoriesMeet
<1> QED
  BY <1>4 DEF left

(* A run that may insert is alone with its instance: it would have to wait  *)
(* for another that has inserted.                                           *)
LEMMA InsertAlone ==
  ASSUME GridsMeet, IInv, NEW r \in Runs, Insert(r),
         NEW s \in Runs, s # r, pc[s] = "commit"
  PROVE  cur[s] # cur[r]
<1> SUFFICES ASSUME cur[s] = cur[r] PROVE FALSE
  OBVIOUS
<1>1. /\ seen[s] \in 0..MaxObs
      /\ seen[r] \in 0..MaxObs
      /\ Derived[r][seen[r]] # {}
      /\ Derived[s][seen[s]] # {}
      /\ pending[s] = RowsFor(s, seen[s])
  BY DEF IInv, TypeOK, Writing, Insert
<1>2. pending[s] # {} /\ pending[s] \in Trajectories
  BY <1>1, SomeTrajectories DEF RowsFor
<1>3. Instants(pending[s]) \cap Derived[r][seen[r]] # {}
  BY <1>1, <1>2, TrajectoriesMeet
<1>4. Instants(pending[s]) \subseteq Instants(held[s] \cup pending[s])
  BY DEF Instants
<1>5. Waits(r)
  BY <1>3, <1>4 DEF Waits, Others
<1> QED
  BY <1>5 DEF Insert

(* Every step keeps the runs that have inserted apart.                       *)
LEMMA AloneNext ==
  ASSUME GridsMeet, IInv, [Next]_vars
  PROVE  Alone'
<1> USE DEF IInv, TypeOK, Alone
<1>1. CASE UNCHANGED vars
  BY <1>1 DEF vars, runVars
<1>2. ASSUME NEW i \in Instances, Observe(i) PROVE Alone'
  BY <1>2 DEF Observe, runVars
<1>3. ASSUME NEW r \in Runs, Step(r) \/ Fault(r) PROVE Alone'
  <2>1. CASE Start(r)
    BY <2>1 DEF Start, Goto
  <2>2. CASE List(r)
    BY <2>2 DEF List, Goto
  <2>3. ASSUME NEW i \in Instances, Process(r, i) PROVE Alone'
    BY <2>3 DEF Process, Goto
  <2>4. CASE BeginDelete(r)
    BY <2>4 DEF BeginDelete, Goto
  <2>5. CASE Delete(r)
    BY <2>5 DEF Delete, Goto
  <2>6. CASE Insert(r)
    <3>1. \A s \in Runs : s # r /\ pc[s] = "commit" => cur[s] # cur[r]
      BY <2>6, InsertAlone
    <3> QED
      BY <2>6, <3>1 DEF Insert, Goto
  <2>7. CASE InsertCollides(r)
    BY <2>7 DEF InsertCollides, Raise, Goto
  <2>8. CASE Commit(r)
    BY <2>8 DEF Commit, Goto
  <2>9. CASE Finalize(r)
    BY <2>9 DEF Finalize, Goto
  <2>10. CASE Export(r)
    BY <2>10 DEF Export, Goto
  <2>11. CASE FinalizeFailed(r)
    BY <2>11 DEF FinalizeFailed, Goto
  <2>12. CASE Fails(r)
    BY <2>12 DEF Fails, Raise, Goto
  <2>13. CASE FinalizeSwallowed(r)
    BY <2>13 DEF FinalizeSwallowed, Goto
  <2>14. CASE Kill(r)
    BY <2>14 DEF Kill, Goto
  <2> QED
    BY <1>3, <2>1, <2>2, <2>3, <2>4, <2>5, <2>6, <2>7, <2>8,
       <2>9, <2>10, <2>11, <2>12, <2>13, <2>14 DEF Step, Fault
<1> QED
  BY <1>1, <1>2, <1>3 DEF Next

(* Every step keeps what the open transactions replace.                      *)
LEMMA ReplacingNext ==
  ASSUME GridsMeet, IInv, [Next]_vars
  PROVE  Replacing'
<1> USE DEF IInv, TypeOK, Replacing
<1>1. CASE UNCHANGED vars
  BY <1>1 DEF vars, runVars
<1>2. ASSUME NEW i \in Instances, Observe(i) PROVE Replacing'
  BY <1>2 DEF Observe, runVars
<1>3. ASSUME NEW r \in Runs, Step(r) \/ Fault(r) PROVE Replacing'
  <2>1. CASE Start(r)
    BY <2>1 DEF Start, Goto
  <2>2. CASE List(r)
    BY <2>2 DEF List, Goto
  <2>3. ASSUME NEW i \in Instances, Process(r, i) PROVE Replacing'
    BY <2>3 DEF Process, Goto
  <2>4. CASE BeginDelete(r)
    BY <2>4 DEF BeginDelete, Goto
  <2>5. CASE Delete(r)
    BY <2>5 DEF Delete, Goto
  <2>6. CASE Insert(r)
    <3>1. table[cur[r]] \subseteq held[r]
      BY <2>6, InsertReplaces
    <3> QED
      BY <2>6, <3>1 DEF Insert, Goto
  <2>7. CASE InsertCollides(r)
    BY <2>7 DEF InsertCollides, Raise, Goto
  <2>8. CASE Commit(r)
    <3>1. \A s \in Runs : pc'[s] = "commit" =>
             /\ s # r
             /\ pc[s] = "commit"
             /\ cur[s] # cur[r]
      BY <2>8 DEF Commit, Goto, Alone
    <3> QED
      BY <2>8, <3>1 DEF Commit
  <2>9. CASE Finalize(r)
    BY <2>9 DEF Finalize, Goto
  <2>10. CASE Export(r)
    BY <2>10 DEF Export, Goto
  <2>11. CASE FinalizeFailed(r)
    BY <2>11 DEF FinalizeFailed, Goto
  <2>12. CASE Fails(r)
    BY <2>12 DEF Fails, Raise, Goto
  <2>13. CASE FinalizeSwallowed(r)
    BY <2>13 DEF FinalizeSwallowed, Goto
  <2>14. CASE Kill(r)
    BY <2>14 DEF Kill, Goto
  <2> QED
    BY <1>3, <2>1, <2>2, <2>3, <2>4, <2>5, <2>6, <2>7, <2>8,
       <2>9, <2>10, <2>11, <2>12, <2>13, <2>14 DEF Step, Fault
<1> QED
  BY <1>1, <1>2, <1>3 DEF Next

-----------------------------------------------------------------------------
(* The theorems. *)

(* Every reachable state satisfies the type invariant, whatever the grids.  *)
THEOREM TypeCorrect == Spec => []TypeOK
<1>1. Init => TypeOK
  BY InitIInv DEF IInv
<1> QED
  BY <1>1, TypeNext, PTL DEF Spec

(* If the grids meet, every reachable state satisfies the invariant.        *)
LEMMA Invariance ==
  ASSUME GridsMeet
  PROVE  Spec => []IInv
<1>1. IInv /\ [Next]_vars => IInv'
  BY GridsMeet, TypeNext, WholeNext, WritingNext, ReplacingNext, AloneNext DEF IInv
<1> QED
  BY <1>1, InitIInv, PTL DEF Spec

(* If the grids meet, the committed rows of an instance are always one      *)
(* run's, from one reading, however runs overlap, fail or are killed: what  *)
(* runner.py does, not the append-only rows of trip_trajectory.py:7-9.      *)
THEOREM Unmixed ==
  ASSUME GridsMeet
  PROVE  Spec => []InstanceUnmixed
<1>1. IInv => InstanceUnmixed
  BY DEF IInv, Whole, Trajectories, RowsFor, InstanceUnmixed
<1> QED
  BY <1>1, Invariance, GridsMeet, PTL

(* If the grids meet, every step of the runs is an atomic refresh of one    *)
(* instance, an observation, or invisible to the readers.                   *)
LEMMA RefreshStep ==
  ASSUME IInv, [Next]_vars
  PROVE  [Atomic!RefreshNext]_(Atomic!refreshVars)
<1>1. CASE UNCHANGED <<obs, table>>
  BY <1>1 DEF Atomic!refreshVars
<1>2. ASSUME NEW i \in Instances, Observe(i) PROVE Atomic!RefreshNext
  BY <1>2 DEF Observe, Atomic!RefreshNext, Atomic!Observe
<1>3. ASSUME NEW r \in Runs, Commit(r) PROVE Atomic!RefreshNext
  <2> DEFINE i == cur[r]
             n == seen[r]
  <2>1. /\ i \in Instances
        /\ Derived[r][n] # {}
        /\ n \in 0..MaxObs /\ obs[i] \in 0..MaxObs /\ n <= obs[i]
    BY <1>3 DEF IInv, TypeOK, Writing, Commit
  <2>5. n \in 1..obs[i]
    BY <2>1, RunsAssumption
  <2>2. (table[i] \ held[r]) \cup pending[r] = Atomic!TrajectoryOf(r, n)
    BY <1>3 DEF IInv, Replacing, Writing, Commit, RowsFor, Atomic!TrajectoryOf
  <2>3. /\ table' = [table EXCEPT ![i] = Atomic!TrajectoryOf(r, n)]
        /\ obs' = obs
    BY <1>3, <2>2 DEF Commit
  <2> HIDE DEF i, n
  <2>4. Atomic!Refresh(i, r)
    BY <2>1, <2>5, <2>3 DEF Atomic!Refresh
  <2> QED
    BY <2>1, <2>4 DEF Atomic!RefreshNext
<1>4. ASSUME NEW r \in Runs, Step(r) \/ Fault(r), ~Commit(r)
      PROVE  UNCHANGED <<obs, table>>
  BY <1>4 DEF Step, Fault, Start, List, Process, BeginDelete, Delete, Insert,
     InsertCollides, Raise, Finalize, Export, FinalizeFailed, Fails,
     FinalizeSwallowed, Kill
<1> QED
  BY <1>1, <1>2, <1>3, <1>4 DEF Next, vars

(* If the grids meet, the runs implement the atomic refresh, which replaces *)
(* (runner.py) where trip_trajectory.py:7-9 speaks of appending.            *)
THEOREM Refinement ==
  ASSUME GridsMeet
  PROVE  Spec => ImplementsAtomicRefresh
<1>1. Init => Atomic!RefreshInit
  BY DEF Init, Atomic!RefreshInit
<1> QED
  BY <1>1, Invariance, GridsMeet, RefreshStep, PTL
  DEF Spec, ImplementsAtomicRefresh, Atomic!RefreshSpec
=============================================================================
