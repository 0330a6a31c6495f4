--------------------------- MODULE Collector_proofs ---------------------------
(***************************************************************************)
(* The safety of the collector for every set of processes, feeds and       *)
(* payloads and all bounds. The argument: ids come from the sequences, so  *)
(* an id that a process holds in its open transaction is below the         *)
(* sequence, in no table and in no other open transaction (Fresh); what a  *)
(* process knows of its poll is settled by where it stands (Progress).     *)
(* With these the properties are inductive together.                       *)
(***************************************************************************)
EXTENDS Collector, TLAPS

Flushed    == {"flush_snapshot", "commit"}
Persisting == {"flush_log"} \cup Flushed
Decoded    == {"normalize"} \cup Persisting

(* What a process has established by the point it has reached. *)
Progress ==
    \A p \in Procs :
        /\ pc[p] \in Working => outcome[p] = "none"
        /\ pc[p] \in {"request", "parse"} \cup Decoded => error[p] = "none"
        /\ pc[p] \in {"parse"} \cup Decoded => body[p] \in Payloads
        /\ pc[p] \in Decoded => Parses(body[p])
        /\ pc[p] \in Persisting => Normalises(FeedOf[p], body[p])
        /\ pc[p] \in Flushed => txn[p].log # 0
        /\ pc[p] = "commit" => txn[p].snap # 0
        /\ at[p] <= now

(* Ids that are committed or flushed have been drawn from the sequences.    *)
Drawn ==
    /\ \A l \in logs : l.id < nextLog
    /\ \A s \in snaps : s.id < nextSnap
    /\ \A p \in Procs : pc[p] \in Flushed => txn[p].log < nextLog
    /\ \A p \in Procs : pc[p] = "commit" => txn[p].snap < nextSnap

(* Flushed ids are nobody else's. *)
Fresh ==
    /\ \A p \in Procs : pc[p] \in Flushed =>
          /\ \A l \in logs : l.id # txn[p].log
          /\ \A q \in Procs : q # p /\ pc[q] \in Flushed => txn[q].log # txn[p].log
    /\ \A p \in Procs : pc[p] = "commit" =>
          /\ \A s \in snaps : s.id # txn[p].snap
          /\ \A q \in Procs : q # p /\ pc[q] = "commit" => txn[q].snap # txn[p].snap

IInv ==
    /\ TypeOK
    /\ Progress
    /\ Drawn
    /\ Fresh
    /\ IdsAreKeys
    /\ SuccessHasOneSnapshot
    /\ ProvenanceAgrees
    /\ OutcomeMatchesDatabase
    /\ LoopOutlivesPolls

-----------------------------------------------------------------------------
(* The initial states satisfy the inductive invariant: nothing is committed *)
(* and every process is about to begin its first poll.                      *)
LEMMA InitIInv == Init => IInv
  BY ProcsAssumption, BoundsAssumption
  DEF Init, IInv, TypeOK, Progress, Drawn, Fresh, IdsAreKeys, SuccessHasOneSnapshot,
      ProvenanceAgrees, OutcomeMatchesDatabase, LoopOutlivesPolls, Places, Working,
      NoTxn, Flushed, Persisting, Decoded
-----------------------------------------------------------------------------
(* Type correctness. *)

(* A log row is well typed whenever its id is.                              *)
LEMMA LogOfType ==
  ASSUME TypeOK, NEW p \in Procs, NEW id \in Nat \ {0}, NEW ok \in BOOLEAN
  PROVE  LogOf(p, id, ok) \in LogRows
  BY ProcsAssumption DEF TypeOK, LogOf, LogRows

(* A poll about to commit has typed rows to add to the three tables.        *)
LEMMA PersistedType ==
  ASSUME TypeOK, Progress, NEW p \in Procs, pc[p] = "commit", Persisted(p)
  PROVE  /\ logs' \subseteq LogRows
         /\ snaps' \subseteq SnapRows
         /\ \A r \in rows' : r.snap \in Nat \ {0} /\ r.at \in Nat
<1>1. /\ txn[p].log \in Nat \ {0}
      /\ txn[p].snap \in Nat \ {0}
      /\ at[p] \in Nat
      /\ body[p] \in Payloads
  BY DEF TypeOK, Progress, Flushed, Persisting, Decoded
<1>2. LogOf(p, txn[p].log, TRUE) \in LogRows
  BY <1>1, LogOfType
<1>3. SnapOf(p) \in SnapRows
  BY <1>1, ProcsAssumption DEF SnapOf, SnapRows
<1>4. \A r \in RowsOf(p) : r.snap \in Nat \ {0} /\ r.at \in Nat
  BY <1>1 DEF RowsOf
<1> QED
  BY <1>2, <1>3, <1>4 DEF TypeOK, Persisted

(* Every step of the system keeps the type invariant.                       *)
LEMMA TypeNext ==
  ASSUME TypeOK, Progress, [Next]_vars
  PROVE  TypeOK'
<1> USE ProcsAssumption, BoundsAssumption DEF TypeOK, Places, Working
<1>1. CASE UNCHANGED vars
  BY <1>1 DEF vars, procVars, tables, sequences
<1>2. CASE Tick
  BY <1>2 DEF Tick, procVars, tables, sequences
<1>3. ASSUME NEW p \in Procs, Step(p) \/ Fault(p) \/ Signal(p) \/ Restart(p)
      PROVE  TypeOK'
  <2>1. CASE Begin(p)
    BY <2>1 DEF Begin, NoTxn, tables, sequences
  <2>2. CASE Received(p)
    BY <2>2 DEF Received, tables, sequences
  <2>3. CASE Retry(p)
    BY <2>3 DEF Retry, tables, sequences
  <2>4. CASE FetchFailed(p)
    BY <2>4 DEF FetchFailed, Terminal, Transient, tables, sequences
  <2>5. CASE Parse(p)
    BY <2>5 DEF Parse, tables, sequences
  <2>6. CASE Normalize(p)
    BY <2>6 DEF Normalize, Ends, Raises, Rest, NoTxn, tables, sequences
  <2>7. CASE FlushLog(p)
    BY <2>7 DEF FlushLog, tables, sequences
  <2>8. CASE FlushSnapshot(p)
    BY SMTT(30), <2>8 DEF FlushSnapshot, tables, sequences
  <2>9. CASE Commit(p)
    <3>1. pc[p] = "commit" /\ Persisted(p)
      BY <2>9 DEF Commit
    <3> QED
      BY <2>9, <3>1, PersistedType DEF Commit, Ends, Rest, sequences
  <2>10. CASE LogFailure(p)
    <3>1. LogOf(p, nextLog, FALSE) \in LogRows
      BY LogOfType
    <3>2. logs' \subseteq LogRows
      BY <2>10, <3>1 DEF LogFailure
    <3>3. txn' \in [Procs -> [log : Nat, snap : Nat]]
      BY <2>10 DEF LogFailure
    <3>4. /\ pc' \in [Procs -> Places]
          /\ outcome' \in [Procs -> {"none", "ok", "failed", "raised"}]
      BY <2>10 DEF LogFailure, Ends, Rest
    <3>5. nextLog' \in Nat \ {0}
      BY <2>10 DEF LogFailure
    <3>6. UNCHANGED <<now, at, attempt, body, error, stopping, polls, snaps, rows, nextSnap>>
      BY <2>10 DEF LogFailure, Ends
    <3> QED
      BY <3>2, <3>3, <3>4, <3>5, <3>6
  <2>11. CASE Wake(p)
    BY <2>11 DEF Wake, tables, sequences
  <2>12. CASE Exit(p)
    BY <2>12 DEF Exit, tables, sequences
  <2>13. CASE DatabaseRaises(p)
    BY <2>13 DEF DatabaseRaises, Raises, Ends, Rest, NoTxn, tables, sequences
  <2>14. CASE CommitUnanswered(p)
    <3>1. pc[p] = "commit" /\ Persisted(p)
      BY <2>14 DEF CommitUnanswered
    <3> QED
      BY <2>14, <3>1, PersistedType DEF CommitUnanswered, Ends, Rest, NoTxn, sequences
  <2>15. CASE Crash(p)
    BY <2>15 DEF Crash, NoTxn, tables, sequences
  <2>16. CASE Signal(p)
    BY <2>16 DEF Signal, tables, sequences
  <2>17. CASE Restart(p)
    BY <2>17 DEF Restart, tables, sequences
  <2>18. CASE FailureUnanswered(p)
    <3>1. LogOf(p, nextLog, FALSE) \in LogRows
      BY LogOfType
    <3>2. logs' \subseteq LogRows
      BY <2>18, <3>1 DEF FailureUnanswered
    <3>3. txn' \in [Procs -> [log : Nat, snap : Nat]]
      BY <2>18 DEF FailureUnanswered, NoTxn
    <3>4. /\ pc' \in [Procs -> Places]
          /\ outcome' \in [Procs -> {"none", "ok", "failed", "raised"}]
      BY <2>18 DEF FailureUnanswered, Ends, Rest, NoTxn
    <3>5. nextLog' \in Nat \ {0}
      BY <2>18 DEF FailureUnanswered
    <3>6. UNCHANGED <<now, at, attempt, body, error, stopping, polls, snaps, rows, nextSnap>>
      BY <2>18 DEF FailureUnanswered, Ends
    <3> QED
      BY <3>2, <3>3, <3>4, <3>5, <3>6
  <2> QED
    BY <1>3, <2>1, <2>2, <2>3, <2>4, <2>5, <2>6, <2>7, <2>8, <2>9,
       <2>10, <2>11, <2>12, <2>13, <2>14, <2>15, <2>16, <2>17, <2>18
    DEF Step, Fault
<1> QED
  BY <1>1, <1>2, <1>3 DEF Next

-----------------------------------------------------------------------------
(* What a process knows of its poll. *)

(* Every step keeps what the place of a process says of its poll.          *)
LEMMA ProgressNext ==
  ASSUME TypeOK, Progress, [Next]_vars
  PROVE  Progress'
<1> USE ProcsAssumption DEF TypeOK, Progress, Places, Working, Flushed, Persisting, Decoded
<1>1. CASE UNCHANGED vars
  BY <1>1 DEF vars, procVars, tables, sequences
<1>2. CASE Tick
  BY <1>2 DEF Tick, procVars, tables, sequences
<1>3. ASSUME NEW p \in Procs, Step(p) \/ Fault(p) \/ Signal(p) \/ Restart(p)
      PROVE  Progress'
  <2>1. CASE Begin(p)
    BY <2>1 DEF Begin, NoTxn
  <2>2. CASE Received(p)
    BY <2>2 DEF Received
  <2>3. CASE Retry(p)
    BY <2>3 DEF Retry
  <2>4. CASE FetchFailed(p)
    BY <2>4 DEF FetchFailed, Terminal, Transient
  <2>5. CASE Parse(p)
    BY <2>5 DEF Parse
  <2>6. CASE Normalize(p)
    BY <2>6 DEF Normalize, Ends, Raises, Rest, NoTxn
  <2>7. CASE FlushLog(p)
    BY <2>7 DEF FlushLog
  <2>8. CASE FlushSnapshot(p)
    BY <2>8 DEF FlushSnapshot
  <2>9. CASE Commit(p)
    BY <2>9 DEF Commit, Ends, Rest
  <2>10. CASE LogFailure(p)
    BY <2>10 DEF LogFailure, Ends, Rest
  <2>11. CASE Wake(p)
    BY <2>11 DEF Wake
  <2>12. CASE Exit(p)
    BY <2>12 DEF Exit
  <2>13. CASE DatabaseRaises(p)
    BY <2>13 DEF DatabaseRaises, Raises, Ends, Rest, NoTxn
  <2>14. CASE CommitUnanswered(p)
    BY <2>14 DEF CommitUnanswered, Ends, Rest, NoTxn
  <2>15. CASE Crash(p)
    BY <2>15 DEF Crash, NoTxn
  <2>16. CASE Signal(p)
    BY <2>16 DEF Signal
  <2>17. CASE Restart(p)
    BY <2>17 DEF Restart
  <2>18. CASE FailureUnanswered(p)
    BY <2>18 DEF FailureUnanswered, Ends, Rest, NoTxn
  <2> QED
    BY <1>3, <2>1, <2>2, <2>3, <2>4, <2>5, <2>6, <2>7, <2>8, <2>9,
       <2>10, <2>11, <2>12, <2>13, <2>14, <2>15, <2>16, <2>17, <2>18
    DEF Step, Fault
<1> QED
  BY <1>1, <1>2, <1>3 DEF Next

(* Every step keeps committed and flushed ids below the sequences.          *)
LEMMA DrawnNext ==
  ASSUME TypeOK, Progress, Drawn, [Next]_vars
  PROVE  Drawn'
<1> USE DEF TypeOK, Drawn, Flushed
<1>1. CASE UNCHANGED vars
  BY <1>1 DEF vars, procVars, tables, sequences
<1>2. CASE Tick
  BY <1>2 DEF Tick, procVars, tables, sequences
<1>3. ASSUME NEW p \in Procs, Step(p) \/ Fault(p) \/ Signal(p) \/ Restart(p)
      PROVE  Drawn'
  <2>1. CASE Begin(p)
    BY <2>1 DEF Begin, NoTxn, tables, sequences
  <2>2. CASE Received(p)
    BY <2>2 DEF Received, tables, sequences
  <2>3. CASE Retry(p)
    BY <2>3 DEF Retry, tables, sequences
  <2>4. CASE FetchFailed(p)
    BY <2>4 DEF FetchFailed, Terminal, Transient, tables, sequences
  <2>5. CASE Parse(p)
    BY <2>5 DEF Parse, tables, sequences
  <2>6. CASE Normalize(p)
    BY <2>6 DEF Normalize, Ends, Raises, Rest, NoTxn, tables, sequences
  <2>7. CASE FlushLog(p)
    BY <2>7 DEF FlushLog, LogRows, SnapRows, tables, sequences
  <2>8. CASE FlushSnapshot(p)
    BY <2>8 DEF FlushSnapshot, LogRows, SnapRows, tables, sequences
  <2>9. CASE Commit(p)
    BY <2>9 DEF Commit, Ends, Rest, Persisted, LogOf, SnapOf, tables, sequences
  <2>10. CASE LogFailure(p)
    BY <2>10 DEF LogFailure, Ends, Rest, Persisted, LogOf, SnapOf, LogRows, SnapRows, tables, sequences
  <2>11. CASE Wake(p)
    BY <2>11 DEF Wake, tables, sequences
  <2>12. CASE Exit(p)
    BY <2>12 DEF Exit, tables, sequences
  <2>13. CASE DatabaseRaises(p)
    BY <2>13 DEF DatabaseRaises, Raises, Ends, Rest, NoTxn, LogRows, SnapRows, tables, sequences
  <2>14. CASE CommitUnanswered(p)
    BY <2>14 DEF CommitUnanswered, Ends, Rest, NoTxn, Persisted, LogOf, SnapOf, tables, sequences
  <2>15. CASE Crash(p)
    BY <2>15 DEF Crash, NoTxn, tables, sequences
  <2>16. CASE Signal(p)
    BY <2>16 DEF Signal, tables, sequences
  <2>17. CASE Restart(p)
    BY <2>17 DEF Restart, tables, sequences
  <2>18. CASE FailureUnanswered(p)
    BY <2>18 DEF FailureUnanswered, Ends, Rest, NoTxn, LogOf, LogRows, SnapRows, tables
  <2> QED
    BY <1>3, <2>1, <2>2, <2>3, <2>4, <2>5, <2>6, <2>7, <2>8, <2>9,
       <2>10, <2>11, <2>12, <2>13, <2>14, <2>15, <2>16, <2>17, <2>18
    DEF Step, Fault
<1> QED
  BY <1>1, <1>2, <1>3 DEF Next

(* Every step keeps flushed ids apart from each other and from the tables.  *)
LEMMA FreshNext ==
  ASSUME TypeOK, Drawn, Fresh, [Next]_vars
  PROVE  Fresh'
<1> USE DEF TypeOK, Drawn, Fresh, Flushed
<1>1. CASE UNCHANGED vars
  BY <1>1 DEF vars, procVars, tables, sequences
<1>2. CASE Tick
  BY <1>2 DEF Tick, procVars, tables, sequences
<1>3. ASSUME NEW p \in Procs, Step(p) \/ Fault(p) \/ Signal(p) \/ Restart(p)
      PROVE  Fresh'
  <2>1. CASE Begin(p)
    BY <2>1 DEF Begin, NoTxn, tables, sequences
  <2>2. CASE Received(p)
    BY <2>2 DEF Received, tables, sequences
  <2>3. CASE Retry(p)
    BY <2>3 DEF Retry, tables, sequences
  <2>4. CASE FetchFailed(p)
    BY <2>4 DEF FetchFailed, Terminal, Transient, tables, sequences
  <2>5. CASE Parse(p)
    BY <2>5 DEF Parse, tables, sequences
  <2>6. CASE Normalize(p)
    BY SMTT(30), <2>6 DEF Normalize, Ends, Raises, Rest, NoTxn, tables, sequences
  <2>7. CASE FlushLog(p)
    BY <2>7 DEF FlushLog, tables, sequences
  <2>8. CASE FlushSnapshot(p)
    BY <2>8 DEF FlushSnapshot, tables, sequences
  <2>9. CASE Commit(p)
    BY <2>9 DEF Commit, Ends, Rest, Persisted, LogOf, SnapOf, tables, sequences
  <2>10. CASE LogFailure(p)
    BY <2>10 DEF LogFailure, Ends, Rest, Persisted, LogOf, SnapOf, tables, sequences
  <2>11. CASE Wake(p)
    BY <2>11 DEF Wake, tables, sequences
  <2>12. CASE Exit(p)
    BY <2>12 DEF Exit, tables, sequences
  <2>13. CASE DatabaseRaises(p)
    BY <2>13 DEF DatabaseRaises, Raises, Ends, Rest, NoTxn, tables, sequences
  <2>14. CASE CommitUnanswered(p)
    BY <2>14 DEF CommitUnanswered, Ends, Rest, NoTxn, Persisted, LogOf, SnapOf, tables, sequences
  <2>15. CASE Crash(p)
    BY <2>15 DEF Crash, NoTxn, tables, sequences
  <2>16. CASE Signal(p)
    BY <2>16 DEF Signal, tables, sequences
  <2>17. CASE Restart(p)
    BY <2>17 DEF Restart, tables, sequences
  <2>18. CASE FailureUnanswered(p)
    BY <2>18 DEF FailureUnanswered, Ends, Rest, NoTxn, LogOf, tables
  <2> QED
    BY <1>3, <2>1, <2>2, <2>3, <2>4, <2>5, <2>6, <2>7, <2>8, <2>9,
       <2>10, <2>11, <2>12, <2>13, <2>14, <2>15, <2>16, <2>17, <2>18
    DEF Step, Fault
<1> QED
  BY <1>1, <1>2, <1>3 DEF Next

-----------------------------------------------------------------------------
(* The tables. *)

TablesAgree == IdsAreKeys /\ SuccessHasOneSnapshot /\ ProvenanceAgrees

(* The commit of a poll adds a success, its snapshot and its rows, under    *)
(* ids no committed row has.                                                *)
LEMMA CommitTables ==
  ASSUME TypeOK, Drawn, Fresh, TablesAgree,
         NEW p \in Procs, pc[p] = "commit", Persisted(p)
  PROVE  TablesAgree'
<1> DEFINE l0 == LogOf(p, txn[p].log, TRUE)
           s0 == SnapOf(p)
<1>1. /\ l0.id = txn[p].log
      /\ l0.ok = TRUE
      /\ l0.at = at[p]
      /\ l0.feed = FeedOf[p]
  BY DEF LogOf
<1>2. /\ s0.id = txn[p].snap
      /\ s0.log = txn[p].log
      /\ s0.at = at[p]
      /\ s0.feed = FeedOf[p]
  BY DEF SnapOf
<1>3. /\ \A l \in logs : l.id # l0.id
      /\ \A s \in snaps : s.id # s0.id
      /\ \A s \in snaps : s.log # l0.id
  <2>1. /\ \A l \in logs : l.id # txn[p].log
        /\ \A s \in snaps : s.id # txn[p].snap
    BY DEF Fresh, Flushed
  <2>2. \A s \in snaps : s.log # txn[p].log
    BY <2>1 DEF TablesAgree, SuccessHasOneSnapshot
  <2> QED
    BY <1>1, <1>2, <2>1, <2>2
<1>4. logs' = logs \cup {l0} /\ snaps' = snaps \cup {s0}
  BY DEF Persisted
<1>5. \A r \in rows' : r \in rows \/ (r.snap = s0.id /\ r.at = s0.at)
  BY <1>2 DEF Persisted, RowsOf
<1> HIDE DEF l0, s0
<1>6. IdsAreKeys'
  BY <1>3, <1>4 DEF TablesAgree, IdsAreKeys
<1>7. SuccessHasOneSnapshot'
  BY <1>1, <1>2, <1>3, <1>4 DEF TablesAgree, SuccessHasOneSnapshot
<1>8. ProvenanceAgrees'
  BY <1>1, <1>2, <1>3, <1>4, <1>5 DEF TablesAgree, ProvenanceAgrees
<1> QED
  BY <1>6, <1>7, <1>8 DEF TablesAgree

(* A failed poll adds one failure, under an id no snapshot refers to.       *)
LEMMA FailureTables ==
  ASSUME TypeOK, Drawn, TablesAgree, NEW p \in Procs,
         LogFailure(p) \/ FailureUnanswered(p)
  PROVE  TablesAgree'
<1> DEFINE l0 == LogOf(p, nextLog, FALSE)
<1>1. l0.id = nextLog /\ l0.ok = FALSE
  BY DEF LogOf
<1>2. logs' = logs \cup {l0} /\ snaps' = snaps /\ rows' = rows
  BY DEF LogFailure, FailureUnanswered
<1>3. \A l \in logs : l.id # l0.id
  <2>1. \A l \in logs : l.id \in Nat /\ l.id < nextLog
    BY DEF TypeOK, Drawn, LogRows
  <2>2. \A l \in logs : l.id # nextLog
    BY <2>1 DEF TypeOK
  <2> QED
    BY <1>1, <2>2
<1>4. \A s \in snaps : s.log # l0.id
  BY <1>3 DEF TablesAgree, SuccessHasOneSnapshot
<1> HIDE DEF l0
<1>5. IdsAreKeys' /\ SuccessHasOneSnapshot' /\ ProvenanceAgrees'
  BY <1>1, <1>2, <1>3, <1>4
  DEF TablesAgree, IdsAreKeys, SuccessHasOneSnapshot, ProvenanceAgrees
<1> QED
  BY <1>5 DEF TablesAgree

(* No other step touches the tables.                                        *)
LEMMA TablesNext ==
  ASSUME TypeOK, Drawn, Fresh, TablesAgree, [Next]_vars
  PROVE  TablesAgree'
<1>1. CASE UNCHANGED tables
  BY <1>1 DEF tables, TablesAgree, IdsAreKeys, SuccessHasOneSnapshot, ProvenanceAgrees
<1>2. ASSUME NEW p \in Procs, Commit(p) \/ CommitUnanswered(p)
      PROVE  TablesAgree'
  BY <1>2, CommitTables DEF Commit, CommitUnanswered
<1>3. ASSUME NEW p \in Procs, LogFailure(p) \/ FailureUnanswered(p)
      PROVE  TablesAgree'
  BY <1>3, FailureTables
<1>4. ASSUME NEW p \in Procs, Step(p) \/ Fault(p) \/ Signal(p) \/ Restart(p),
             ~Commit(p), ~CommitUnanswered(p), ~LogFailure(p),
             ~FailureUnanswered(p)
      PROVE  UNCHANGED tables
  BY <1>4 DEF Step, Fault, tables, Begin, Received, Retry, FetchFailed, Parse, Normalize,
     FlushLog, FlushSnapshot, Wake, Exit, DatabaseRaises, Crash, Signal, Restart
<1> QED
  BY <1>1, <1>2, <1>3, <1>4 DEF Next, Tick, vars

-----------------------------------------------------------------------------
(* The processes. *)

(* Log rows stay: a step of p leaves true what the others reported.         *)
LEMMA OthersReported ==
  ASSUME OutcomeMatchesDatabase, logs \subseteq logs', NEW p \in Procs,
         \A q \in Procs \ {p} : /\ outcome'[q] = outcome[q]
                               /\ txn'[q] = txn[q]
                               /\ at'[q] = at[q],
         outcome'[p] \in {"ok", "failed"} =>
             \E l \in logs' : /\ l.id = txn'[p].log
                              /\ l.feed = FeedOf[p]
                              /\ l.at = at'[p]
                              /\ l.ok = (outcome'[p] = "ok")
  PROVE  OutcomeMatchesDatabase'
<1> SUFFICES ASSUME NEW q \in Procs \ {p}, outcome'[q] \in {"ok", "failed"}
             PROVE  \E l \in logs' : /\ l.id = txn'[q].log
                                     /\ l.feed = FeedOf[q]
                                     /\ l.at = at'[q]
                                     /\ l.ok = (outcome'[q] = "ok")
  BY DEF OutcomeMatchesDatabase
<1>1. PICK l \in logs : /\ l.id = txn[q].log
                       /\ l.feed = FeedOf[q]
                       /\ l.at = at[q]
                       /\ l.ok = (outcome[q] = "ok")
  BY DEF OutcomeMatchesDatabase
<1> QED BY <1>1

(* What a finished poll reported stays true of the tables.                  *)
LEMMA OutcomeNext ==
  ASSUME TypeOK, Progress, OutcomeMatchesDatabase, [Next]_vars
  PROVE  OutcomeMatchesDatabase'
<1> USE DEF TypeOK, Progress, Working, OutcomeMatchesDatabase
<1>1. CASE UNCHANGED vars
  BY <1>1 DEF vars, procVars, tables, sequences
<1>2. CASE Tick
  BY <1>2 DEF Tick, procVars, tables, sequences
<1>3. ASSUME NEW p \in Procs, Step(p) \/ Fault(p) \/ Signal(p) \/ Restart(p)
      PROVE  OutcomeMatchesDatabase'
  <2>1. CASE Begin(p)
    BY <2>1 DEF Begin, NoTxn, tables
  <2>2. CASE Received(p)
    BY <2>2 DEF Received, tables
  <2>3. CASE Retry(p)
    BY <2>3 DEF Retry, tables
  <2>4. CASE FetchFailed(p)
    BY <2>4 DEF FetchFailed, Terminal, Transient, tables
  <2>5. CASE Parse(p)
    BY <2>5 DEF Parse, tables
  <2>6. CASE Normalize(p)
    BY SMTT(30), <2>6 DEF Normalize, Ends, Raises, Rest, NoTxn, tables
  <2>7. CASE FlushLog(p)
    BY <2>7 DEF FlushLog, tables
  <2>8. CASE FlushSnapshot(p)
    BY <2>8 DEF FlushSnapshot, tables
  <2>9. CASE Commit(p)
    <3>1. /\ \A q \in Procs \ {p} : outcome'[q] = outcome[q]
          /\ outcome'[p] = "ok"
          /\ UNCHANGED <<txn, at>>
      BY <2>9 DEF Commit, Ends
    <3>2. LogOf(p, txn[p].log, TRUE) \in logs' /\ logs \subseteq logs'
      BY <2>9 DEF Commit, Persisted
    <3>3. \E l \in logs' : /\ l.id = txn'[p].log
                          /\ l.feed = FeedOf[p]
                          /\ l.at = at'[p]
                          /\ l.ok = TRUE
      BY <3>1, <3>2 DEF LogOf
    <3> HIDE DEF TypeOK, Progress, Working, OutcomeMatchesDatabase
    <3> QED
      BY <3>1, <3>2, <3>3, OthersReported
  <2>10. CASE LogFailure(p)
    <3>1. /\ \A q \in Procs \ {p} : outcome'[q] = outcome[q] /\ txn'[q] = txn[q]
          /\ outcome'[p] = "failed"
          /\ txn'[p].log = nextLog
          /\ UNCHANGED at
      BY <2>10 DEF LogFailure, Ends
    <3>2. LogOf(p, nextLog, FALSE) \in logs' /\ logs \subseteq logs'
      BY <2>10 DEF LogFailure
    <3>3. \E l \in logs' : /\ l.id = txn'[p].log
                          /\ l.feed = FeedOf[p]
                          /\ l.at = at'[p]
                          /\ l.ok = FALSE
      BY <3>1, <3>2 DEF LogOf
    <3> HIDE DEF TypeOK, Progress, Working, OutcomeMatchesDatabase
    <3> QED
      BY <3>1, <3>2, <3>3, OthersReported
  <2>11. CASE Wake(p)
    BY <2>11 DEF Wake, tables
  <2>12. CASE Exit(p)
    BY <2>12 DEF Exit, tables
  <2>13. CASE DatabaseRaises(p)
    BY <2>13 DEF DatabaseRaises, Raises, Ends, Rest, NoTxn, tables
  <2>14. CASE CommitUnanswered(p)
    <3>1. /\ \A q \in Procs \ {p} : outcome'[q] = outcome[q] /\ txn'[q] = txn[q]
          /\ outcome'[p] = "raised"
          /\ UNCHANGED at
      BY <2>14 DEF CommitUnanswered, Ends
    <3>2. logs \subseteq logs'
      BY <2>14 DEF CommitUnanswered, Persisted
    <3> HIDE DEF TypeOK, Progress, Working, OutcomeMatchesDatabase
    <3> QED
      BY <3>1, <3>2, OthersReported
  <2>15. CASE Crash(p)
    BY <2>15 DEF Crash, NoTxn, tables
  <2>16. CASE Signal(p)
    BY <2>16 DEF Signal, tables
  <2>17. CASE Restart(p)
    BY <2>17 DEF Restart, tables
  <2>18. CASE FailureUnanswered(p)
    <3>1. /\ \A q \in Procs \ {p} : outcome'[q] = outcome[q] /\ txn'[q] = txn[q]
          /\ outcome'[p] = "raised"
          /\ UNCHANGED at
      BY <2>18 DEF FailureUnanswered, Ends
    <3>2. logs \subseteq logs'
      BY <2>18 DEF FailureUnanswered
    <3> HIDE DEF TypeOK, Progress, Working, OutcomeMatchesDatabase
    <3> QED
      BY <3>1, <3>2, OthersReported
  <2> QED
    BY <1>3, <2>1, <2>2, <2>3, <2>4, <2>5, <2>6, <2>7, <2>8, <2>9,
       <2>10, <2>11, <2>12, <2>13, <2>14, <2>15, <2>16, <2>17, <2>18
    DEF Step, Fault
<1> QED
  BY <1>1, <1>2, <1>3 DEF Next

(* No step takes a --loop process that nobody signalled out of its loop.    *)
LEMMA LoopNext ==
  ASSUME TypeOK, LoopOutlivesPolls, [Next]_vars
  PROVE  LoopOutlivesPolls'
<1> USE ProcsAssumption DEF TypeOK, LoopOutlivesPolls
<1>1. CASE UNCHANGED vars
  BY <1>1 DEF vars, procVars, tables, sequences
<1>2. CASE Tick
  BY <1>2 DEF Tick, procVars, tables, sequences
<1>3. ASSUME NEW p \in Procs, Step(p) \/ Fault(p) \/ Signal(p) \/ Restart(p)
      PROVE  LoopOutlivesPolls'
  <2>1. CASE Begin(p)
    BY <2>1 DEF Begin, NoTxn
  <2>2. CASE Received(p)
    BY <2>2 DEF Received
  <2>3. CASE Retry(p)
    BY <2>3 DEF Retry
  <2>4. CASE FetchFailed(p)
    BY <2>4 DEF FetchFailed, Terminal, Transient
  <2>5. CASE Parse(p)
    BY <2>5 DEF Parse
  <2>6. CASE Normalize(p)
    BY <2>6 DEF Normalize, Ends, Raises, Rest, NoTxn
  <2>7. CASE FlushLog(p)
    BY <2>7 DEF FlushLog
  <2>8. CASE FlushSnapshot(p)
    BY <2>8 DEF FlushSnapshot
  <2>9. CASE Commit(p)
    BY <2>9 DEF Commit, Ends, Rest
  <2>10. CASE LogFailure(p)
    BY <2>10 DEF LogFailure, Ends, Rest
  <2>11. CASE Wake(p)
    BY <2>11 DEF Wake
  <2>12. CASE Exit(p)
    BY <2>12 DEF Exit
  <2>13. CASE DatabaseRaises(p)
    BY <2>13 DEF DatabaseRaises, Raises, Ends, Rest, NoTxn
  <2>14. CASE CommitUnanswered(p)
    BY <2>14 DEF CommitUnanswered, Ends, Rest, NoTxn
  <2>15. CASE Crash(p)
    BY <2>15 DEF Crash, NoTxn
  <2>16. CASE Signal(p)
    BY <2>16 DEF Signal
  <2>17. CASE Restart(p)
    BY <2>17 DEF Restart
  <2>18. CASE FailureUnanswered(p)
    BY <2>18 DEF FailureUnanswered, Ends, Rest, NoTxn
  <2> QED
    BY <1>3, <2>1, <2>2, <2>3, <2>4, <2>5, <2>6, <2>7, <2>8, <2>9,
       <2>10, <2>11, <2>12, <2>13, <2>14, <2>15, <2>16, <2>17, <2>18
    DEF Step, Fault
<1> QED
  BY <1>1, <1>2, <1>3 DEF Next

-----------------------------------------------------------------------------
(* The theorems. *)

(* The invariant is inductive.                                              *)
LEMMA NextIInv == IInv /\ [Next]_vars => IInv'
<1> SUFFICES ASSUME IInv, [Next]_vars PROVE IInv'
  OBVIOUS
<1>1. TablesAgree'
  BY TablesNext DEF IInv, TablesAgree
<1> QED
  BY <1>1, TypeNext, ProgressNext, DrawnNext, FreshNext, OutcomeNext, LoopNext
  DEF IInv, TablesAgree

(* Every reachable state satisfies the inductive invariant.                 *)
THEOREM Invariance == Spec => []IInv
  BY InitIInv, NextIInv, PTL DEF Spec

(* Type correctness of the collector's state and of the tables.             *)
THEOREM TypeCorrect == Spec => []TypeOK
  BY Invariance, PTL DEF IInv

(* Ids of log rows and snapshots are never reused, whatever rolls back.     *)
THEOREM KeysCorrect == Spec => []IdsAreKeys
  BY Invariance, PTL DEF IInv

(* A log row says success exactly when one snapshot hangs from it.          *)
THEOREM SuccessCorrect == Spec => []SuccessHasOneSnapshot
  BY Invariance, PTL DEF IInv

(* Feed and fetched_at never drift between log row, snapshot and rows.      *)
THEOREM ProvenanceCorrect == Spec => []ProvenanceAgrees
  BY Invariance, PTL DEF IInv

(* The reported outcome of a poll is what the database holds of it.         *)
THEOREM OutcomeCorrect == Spec => []OutcomeMatchesDatabase
  BY Invariance, PTL DEF IInv

(* A --loop process stops only after a signal.                              *)
THEOREM LoopCorrect == Spec => []LoopOutlivesPolls
  BY Invariance, PTL DEF IInv

-----------------------------------------------------------------------------
(* The collector implements the ledger. *)

-----------------------------------------------------------------------------
(* The collector implements the ledger. *)

(* The ledger decodes and normalises as the collector does.                 *)
LEMMA SameDecoding ==
  /\ \A m : Ledger!Parses(m) = Parses(m)
  /\ \A f, m : Ledger!Normalises(f, m) = Normalises(f, m)
  /\ \A f, E : Ledger!NormalRows(f, E) = NormalRows(f, E)
  /\ Ledger!FeedNames = FeedNames
  BY DEF Ledger!Parses, Parses, Ledger!Normalises, Normalises, Ledger!NormalRows,
     NormalRows, Ledger!FeedNames, FeedNames, Ledger!EpochRaises, EpochRaises,
     Ledger!Selected, Selected, Ledger!RowKind, RowKind, Ledger!Carrying, Carrying,
     Ledger!Allowed, Allowed, Ledger!VehiclePositionsFeed, VehiclePositionsFeed,
     Ledger!TripUpdatesFeed, TripUpdatesFeed, Ledger!SubwayTripUpdatesFeed,
     SubwayTripUpdatesFeed, Ledger!TripModificationsFeed, TripModificationsFeed

(* Entries of other log rows do not change when a poll commits.             *)
LEMMA EntriesKept ==
  ASSUME IInv, NEW p \in Procs, pc[p] = "commit", Persisted(p), NEW l \in logs
  PROVE  EntryOf(l)' = EntryOf(l)
<1>1. /\ l.id # txn[p].log
      /\ \A s \in snaps : s.id # txn[p].snap
  BY DEF IInv, Fresh, Flushed
<1>2. SnapsOf(l)' = SnapsOf(l)
  BY <1>1 DEF SnapsOf, Persisted, SnapOf
<1>3. {q \in rows' : \E s \in SnapsOf(l) : s.id = q.snap}
        = {q \in rows : \E s \in SnapsOf(l) : s.id = q.snap}
  BY <1>1 DEF SnapsOf, Persisted, RowsOf
<1> QED
  BY <1>2, <1>3 DEF EntryOf

(* The entry of the committed poll holds its payload and all its rows.      *)
LEMMA EntryAdded ==
  ASSUME IInv, NEW p \in Procs, pc[p] = "commit", Persisted(p),
         NEW l, l = LogOf(p, txn[p].log, TRUE)
  PROVE  EntryOf(l)' =
           [id |-> txn[p].log, feed |-> FeedOf[p], at |-> at[p],
            received |-> {body[p]},
            rows |-> {[at |-> at[p], row |-> r] :
                         r \in NormalRows(FeedOf[p], body[p].entities)}]
<1>1. /\ l.id = txn[p].log
      /\ l.feed = FeedOf[p]
      /\ l.at = at[p]
  BY DEF LogOf
<1>2. /\ \A s \in snaps : s.log # txn[p].log
      /\ \A s \in snaps : s.id # txn[p].snap
  BY DEF IInv, Fresh, Flushed, SuccessHasOneSnapshot
<1>3. SnapsOf(l)' = {SnapOf(p)}
  <2>1. SnapOf(p).log = txn[p].log
    BY DEF SnapOf
  <2> QED
    BY <1>1, <1>2, <2>1 DEF SnapsOf, Persisted
<1>4. {s.content : s \in SnapsOf(l)'} = {body[p]}
  <2>1. SnapOf(p).content = body[p]
    BY DEF SnapOf
  <2> QED
    BY <1>3, <2>1
<1>5. {q \in rows' : \E s \in SnapsOf(l)' : s.id = q.snap} = RowsOf(p)
  <2>1. \A q \in rows : q.snap # txn[p].snap
    BY <1>2 DEF IInv, ProvenanceAgrees
  <2>2. \A q \in RowsOf(p) : q.snap = txn[p].snap
    BY DEF RowsOf
  <2>3. SnapOf(p).id = txn[p].snap
    BY DEF SnapOf
  <2> QED
    BY <1>3, <2>1, <2>2, <2>3 DEF Persisted
<1>6. {[at |-> r.at, row |-> r.row] : r \in RowsOf(p)}
        = {[at |-> at[p], row |-> r] : r \in NormalRows(FeedOf[p], body[p].entities)}
  <2> DEFINE S == NormalRows(FeedOf[p], body[p].entities)
             R(x) == [snap |-> txn[p].snap, at |-> at[p], row |-> x]
             A(r) == [at |-> r.at, row |-> r.row]
  <2>1. RowsOf(p) = {R(x) : x \in S}
    BY DEF RowsOf
  <2>2. \A x \in S : A(R(x)) = [at |-> at[p], row |-> x]
    OBVIOUS
  <2> HIDE DEF S, R, A
  <2>3. {A(r) : r \in RowsOf(p)} = {[at |-> at[p], row |-> x] : x \in S}
    BY <2>1, <2>2
  <2> QED
    BY <2>3 DEF S, A
<1> QED
  BY <1>1, <1>4, <1>5, <1>6 DEF EntryOf

(* A commit records one whole poll.                                         *)
LEMMA CommitRecords ==
  ASSUME IInv, NEW p \in Procs, pc[p] = "commit", Persisted(p), now' = now
  PROVE  Ledger!Record
<1> DEFINE l0 == LogOf(p, txn[p].log, TRUE)
           e  == [id |-> txn[p].log, feed |-> FeedOf[p], at |-> at[p],
                  received |-> {body[p]},
                  rows |-> {[at |-> at[p], row |-> r] :
                               r \in NormalRows(FeedOf[p], body[p].entities)}]
<1>1. LedgerOf' = LedgerOf \cup {e}
  <2>1. PICK l : l = l0
    OBVIOUS
  <2>2. EntryOf(l)' = e
    BY <2>1, EntryAdded
  <2>3. logs' = logs \cup {l}
    BY <2>1 DEF Persisted
  <2>4. \A k \in logs : EntryOf(k)' = EntryOf(k)
    BY EntriesKept
  <2>5. LedgerOf' = {EntryOf(k)' : k \in logs'}
    BY DEF LedgerOf
  <2> HIDE DEF e
  <2> QED
    BY <2>2, <2>3, <2>4, <2>5 DEF LedgerOf
<1>2. \A f \in LedgerOf : f.id # e.id
  BY DEF IInv, Fresh, Flushed, LedgerOf, EntryOf
<1>3. e.at <= now
  BY DEF IInv, Progress
<1>4. Ledger!IsEntry(e, e.received)
  <2>1. /\ body[p] \in Payloads
        /\ Parses(body[p])
        /\ Normalises(FeedOf[p], body[p])
    BY DEF IInv, Progress, Decoded, Persisting, Flushed
  <2>2. e.feed \in Ledger!FeedNames
    BY ProcsAssumption, SameDecoding
  <2>3. e.received \in Ledger!Receivable(e.feed)
    BY <2>1, SameDecoding DEF Ledger!Receivable
  <2>4. e.rows = UNION {{[at |-> e.at, row |-> r] : r \in NormalRows(e.feed, m.entities)} :
                           m \in e.received}
    OBVIOUS
  <2> QED
    BY <2>2, <2>3, <2>4, SameDecoding DEF Ledger!IsEntry
<1>5. e \in LedgerOf' \ LedgerOf
  BY <1>1, <1>2
<1> HIDE DEF e
<1> QED
  BY <1>1, <1>2, <1>3, <1>4, <1>5 DEF Ledger!Record

(* A failed poll records an entry that received nothing.                    *)
LEMMA FailureRecords ==
  ASSUME IInv, NEW p \in Procs, LogFailure(p) \/ FailureUnanswered(p)
  PROVE  Ledger!Record
<1> DEFINE l0 == LogOf(p, nextLog, FALSE)
           e  == [id |-> nextLog, feed |-> FeedOf[p], at |-> at[p],
                  received |-> {}, rows |-> {}]
<1>1. \A l \in logs : l.id # nextLog
  <2>1. \A l \in logs : l.id \in Nat /\ l.id < nextLog
    BY DEF IInv, TypeOK, Drawn, LogRows
  <2> QED
    BY <2>1 DEF IInv, TypeOK
<1>2. \A s \in snaps : s.log # nextLog
  BY <1>1 DEF IInv, SuccessHasOneSnapshot
<1>3. UNCHANGED <<snaps, rows, now>> /\ logs' = logs \cup {l0}
  BY DEF LogFailure, FailureUnanswered, Ends
<1>4. \A l : EntryOf(l)' = EntryOf(l)
  BY <1>3 DEF EntryOf, SnapsOf
<1>5. EntryOf(l0) = e
  <2>1. l0.id = nextLog /\ l0.feed = FeedOf[p] /\ l0.at = at[p]
    BY DEF LogOf
  <2>2. SnapsOf(l0) = {}
    BY <1>2, <2>1 DEF SnapsOf
  <2> HIDE DEF l0
  <2> QED
    BY <2>1, <2>2 DEF EntryOf
<1>6. LedgerOf' = LedgerOf \cup {e}
  <2>1. LedgerOf' = {EntryOf(l)' : l \in logs'}
    BY DEF LedgerOf
  <2> HIDE DEF l0, e
  <2> QED
    BY <1>3, <1>4, <1>5, <2>1 DEF LedgerOf
<1>7. \A f \in LedgerOf : f.id # e.id
  BY <1>1 DEF LedgerOf, EntryOf
<1>8. e.at <= now
  BY DEF IInv, Progress
<1>9. Ledger!IsEntry(e, e.received)
  BY ProcsAssumption, SameDecoding DEF Ledger!IsEntry, Ledger!Receivable
<1>10. e \in LedgerOf' \ LedgerOf
  BY <1>6, <1>7
<1> HIDE DEF e
<1> QED
  BY <1>3, <1>6, <1>7, <1>8, <1>9, <1>10 DEF Ledger!Record

(* Every step is a step of the ledger or leaves it alone.                   *)
LEMMA LedgerStep == IInv /\ [Next]_vars => [Ledger!LedgerNext]_(Ledger!ledgerVars)
<1> SUFFICES ASSUME IInv, [Next]_vars
             PROVE  [Ledger!LedgerNext]_(Ledger!ledgerVars)
  OBVIOUS
<1>1. ASSUME UNCHANGED tables PROVE LedgerOf' = LedgerOf
  BY <1>1 DEF tables, LedgerOf, EntryOf, SnapsOf
<1>2. CASE UNCHANGED <<now, tables>>
  BY <1>1, <1>2 DEF Ledger!ledgerVars
<1>3. CASE Tick
  BY <1>1, <1>3 DEF Tick, Ledger!Advance, Ledger!LedgerNext
<1>4. ASSUME NEW p \in Procs, Commit(p) \/ CommitUnanswered(p)
      PROVE  Ledger!Record
  BY <1>4, CommitRecords DEF Commit, CommitUnanswered, Ends
<1>5. ASSUME NEW p \in Procs, LogFailure(p) \/ FailureUnanswered(p)
      PROVE  Ledger!Record
  BY <1>5, FailureRecords
<1>6. ASSUME NEW p \in Procs, Step(p) \/ Fault(p) \/ Signal(p) \/ Restart(p),
             ~Commit(p), ~CommitUnanswered(p), ~LogFailure(p),
             ~FailureUnanswered(p)
      PROVE  UNCHANGED <<now, tables>>
  BY <1>6 DEF Step, Fault, tables, Begin, Received, Retry, FetchFailed, Parse, Normalize,
     Raises, Ends, FlushLog, FlushSnapshot, Wake, Exit, DatabaseRaises, Crash, Signal, Restart
<1> QED
  BY <1>2, <1>3, <1>4, <1>5, <1>6 DEF Next, vars, Ledger!LedgerNext

(* The tables implement the ledger of whole polls, for every collector.     *)
THEOREM Refinement == Spec => ImplementsLedger
<1>1. Init => Ledger!LedgerInit
  BY DEF Init, Ledger!LedgerInit, LedgerOf
<1> QED
  BY <1>1, Invariance, LedgerStep, PTL DEF Spec, ImplementsLedger, Ledger!LedgerSpec
-----------------------------------------------------------------------------
(* The subway feed. *)

(* A poll of the subway feed makes a row of every trip update it carries.   *)
LEMMA SubwayRows ==
    ASSUME NEW p \in Procs, FeedOf[p] = SubwayTripUpdatesFeed,
           NEW e \in Carrying(body[p].entities, "trip_update")
    PROVE  \E r \in RowsOf(p) : r.snap = txn[p].snap /\ r.row.entity = e.id
<1> DEFINE row == [entity |-> e.id, kind |-> RowKind(FeedOf[p], e)]
           r == [snap |-> txn[p].snap, at |-> at[p], row |-> row]
<1>1. e \in Selected(FeedOf[p], body[p].entities)
  BY DEF Selected, SubwayTripUpdatesFeed, VehiclePositionsFeed, TripUpdatesFeed,
         TripModificationsFeed
<1>2. row \in NormalRows(FeedOf[p], body[p].entities)
  BY <1>1 DEF NormalRows
<1>3. r \in RowsOf(p)
  BY <1>2 DEF RowsOf
<1>4. r.snap = txn[p].snap /\ r.row.entity = e.id
  OBVIOUS
<1> QED BY <1>3, <1>4

(* A commit stores the rows of the snapshot it stores; nothing else adds a  *)
(* snapshot, and nothing takes a row away.                                  *)
LEMMA SubwayNext == SubwayUnfiltered /\ [Next]_vars => SubwayUnfiltered'
<1> SUFFICES ASSUME SubwayUnfiltered, [Next]_vars
             PROVE  SubwayUnfiltered'
  OBVIOUS
<1>1. CASE UNCHANGED <<snaps, rows>>
  BY <1>1 DEF SubwayUnfiltered
<1>2. ASSUME NEW p \in Procs, Persisted(p)
      PROVE  SubwayUnfiltered'
  <2> SUFFICES ASSUME NEW s \in snaps', s.feed = SubwayTripUpdatesFeed,
                      NEW e \in Carrying(s.content.entities, "trip_update")
               PROVE  \E r \in rows' : r.snap = s.id /\ r.row.entity = e.id
    BY DEF SubwayUnfiltered
  <2>1. CASE s \in snaps
    BY <1>2, <2>1 DEF SubwayUnfiltered, Persisted
  <2>2. CASE s = SnapOf(p)
    <3>1. s.feed = FeedOf[p] /\ s.content = body[p] /\ s.id = txn[p].snap
      BY <2>2 DEF SnapOf
    <3>2. \E r \in RowsOf(p) : r.snap = s.id /\ r.row.entity = e.id
      BY <3>1, SubwayRows
    <3> QED BY <1>2, <3>2 DEF Persisted
  <2> QED BY <1>2, <2>1, <2>2 DEF Persisted
<1>3. ASSUME NEW p \in Procs, Step(p) \/ Fault(p) \/ Signal(p) \/ Restart(p),
             ~Commit(p), ~CommitUnanswered(p)
      PROVE  UNCHANGED <<snaps, rows>>
  BY <1>3 DEF Step, Fault, tables, Begin, Received, Retry, FetchFailed, Parse, Normalize,
     Raises, Ends, FlushLog, FlushSnapshot, LogFailure, FailureUnanswered, Wake, Exit, DatabaseRaises, Crash,
     Signal, Restart
<1>4. CASE Tick
  BY <1>1, <1>4 DEF Tick, tables
<1>5. CASE UNCHANGED vars
  BY <1>1, <1>5 DEF vars, tables
<1> QED
  BY <1>1, <1>2, <1>3, <1>4, <1>5 DEF Next, Commit, CommitUnanswered

(* Every trip update of a stored subway payload has its row, whatever the   *)
(* allowlist and however polls interleave, fail and crash (build_registry). *)
THEOREM SubwayCorrect == Spec => []SubwayUnfiltered
<1>1. Init => SubwayUnfiltered
  BY DEF Init, SubwayUnfiltered
<1> QED
  BY <1>1, SubwayNext, PTL DEF Spec
=============================================================================
