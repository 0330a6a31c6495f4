------------------------------ MODULE Collector ------------------------------
(***************************************************************************)
(* The collector processes of apps/collector: one per feed under           *)
(* docker-compose (--loop), any number of manual --once runs beside them.  *)
(* A poll stamps fetched_at, fetches with retries, parses, normalises and  *)
(* persists one fetch log, one snapshot and its rows in one transaction.   *)
(*                                                                         *)
(* The tables hold committed rows only; what a process has flushed but not *)
(* committed is in its transaction `txn', visible to nobody else.          *)
(***************************************************************************)
EXTENDS Naturals, FiniteSets, FeedDecoding

CONSTANTS
    Procs,        \* collector processes
    Loops,        \* those started with --loop; the others run --once
    FeedOf,       \* FeedOf[p]: the --feed argument of p
    Payloads,     \* the bodies an endpoint may return with status 200
    NoPayload,    \* no body
    Attempts,     \* COLLECTOR_HTTP_RETRIES + 1
    MaxPolls,     \* bound: polls begun, over all processes
    MaxTime,      \* bound: ticks of the wall clock
    DbMayFail     \* whether flushes and commits may raise

ASSUME ProcsAssumption ==
    /\ Loops \subseteq Procs
    /\ FeedOf \in [Procs -> FeedNames]
    /\ NoPayload \notin Payloads

ASSUME BoundsAssumption ==
    /\ Attempts \in Nat \ {0}
    /\ MaxPolls \in Nat
    /\ MaxTime \in Nat
    /\ DbMayFail \in BOOLEAN

VARIABLES
    now,          \* wall clock
    pc,           \* where each process is
    at,           \* fetched_at of the poll under way
    attempt,      \* attempt number inside fetch_bytes
    body,         \* FetchResult.content, or NoPayload
    error,        \* error_type of the failed poll, or "none"
    txn,          \* ids flushed by the open transaction: log, snap (0: none)
    outcome,      \* how the last poll of the process ended
    stopping,     \* SIGINT/SIGTERM was received by a --loop process
    logs,         \* feed_fetch_logs
    snaps,        \* raw_gtfsrt_snapshots
    rows,         \* vehicle_positions, trip_updates, trip_modifications
    nextLog,      \* the id sequences; a rollback does not give ids back
    nextSnap,
    polls         \* polls begun (only for the bound)

procVars  == <<pc, at, attempt, body, error, txn, outcome, stopping>>
tables    == <<logs, snaps, rows>>
sequences == <<nextLog, nextSnap>>
vars      == <<now, procVars, tables, sequences, polls>>

Transient == {"server", "transport"}     \* 5xx; timeout or transport error
Terminal  == {"client", "other"}         \* 3xx/4xx; any other httpx.HTTPError
NoTxn     == [log |-> 0, snap |-> 0]

Init ==
    /\ now = 0
    /\ pc = [p \in Procs |-> "idle"]
    /\ at = [p \in Procs |-> 0]
    /\ attempt = [p \in Procs |-> 0]
    /\ body = [p \in Procs |-> NoPayload]
    /\ error = [p \in Procs |-> "none"]
    /\ txn = [p \in Procs |-> NoTxn]
    /\ outcome = [p \in Procs |-> "none"]
    /\ stopping = [p \in Procs |-> FALSE]
    /\ logs = {}
    /\ snaps = {}
    /\ rows = {}
    /\ nextLog = 1
    /\ nextSnap = 1
    /\ polls = 0

-----------------------------------------------------------------------------
(* One poll: run_once inside _cycle, with a fresh session.                  *)

Begin(p) ==
    /\ pc[p] = "idle"
    /\ ~stopping[p]
    /\ polls < MaxPolls
    /\ polls' = polls + 1
    /\ pc' = [pc EXCEPT ![p] = "request"]
    /\ at' = [at EXCEPT ![p] = now]
    /\ attempt' = [attempt EXCEPT ![p] = 1]
    /\ body' = [body EXCEPT ![p] = NoPayload]
    /\ error' = [error EXCEPT ![p] = "none"]
    /\ txn' = [txn EXCEPT ![p] = NoTxn]
    /\ outcome' = [outcome EXCEPT ![p] = "none"]
    /\ UNCHANGED <<now, stopping, tables, sequences>>

Received(p) ==
    /\ pc[p] = "request"
    /\ \E payload \in Payloads : body' = [body EXCEPT ![p] = payload]
    /\ pc' = [pc EXCEPT ![p] = "parse"]
    /\ UNCHANGED <<now, at, attempt, error, txn, outcome, stopping, tables, sequences, polls>>

(* Mutant: one attempt too many. *)
RetryOnceMore(p) ==
    /\ pc[p] = "request"
    /\ attempt[p] <= Attempts
    /\ attempt' = [attempt EXCEPT ![p] = @ + 1]
    /\ UNCHANGED <<now, pc, at, body, error, txn, outcome, stopping, tables, sequences, polls>>

(* Mutant: the attempts start over after the last one. *)
RetryAround(p) ==
    /\ pc[p] = "request"
    /\ attempt' = [attempt EXCEPT ![p] = IF @ < Attempts THEN @ + 1 ELSE 1]
    /\ UNCHANGED <<now, pc, at, body, error, txn, outcome, stopping, tables, sequences, polls>>

Retry(p) ==
    /\ pc[p] = "request"
    /\ attempt[p] < Attempts
    /\ attempt' = [attempt EXCEPT ![p] = @ + 1]
    /\ UNCHANGED <<now, pc, at, body, error, txn, outcome, stopping, tables, sequences, polls>>

(* FetchError: a terminal answer at once, a transient one on the last try.  *)
FetchFailed(p) ==
    /\ pc[p] = "request"
    /\ \E e \in Terminal \cup (IF attempt[p] = Attempts THEN Transient ELSE {}) :
          error' = [error EXCEPT ![p] = e]
    /\ pc' = [pc EXCEPT ![p] = "log_failure"]
    /\ UNCHANGED <<now, at, attempt, body, txn, outcome, stopping, tables, sequences, polls>>

Parse(p) ==
    /\ pc[p] = "parse"
    /\ IF Parses(body[p])
       THEN /\ pc' = [pc EXCEPT ![p] = "normalize"]
            /\ UNCHANGED error
       ELSE /\ pc' = [pc EXCEPT ![p] = "log_failure"]
            /\ error' = [error EXCEPT ![p] = "parse"]
    /\ UNCHANGED <<now, at, attempt, body, txn, outcome, stopping, tables, sequences, polls>>

(* Where a poll leaves the process: --loop sleeps, --once exits.            *)
Rest(p) == IF p \in Loops THEN "sleep" ELSE "stopped"

Ends(p, how) ==
    /\ pc' = [pc EXCEPT ![p] = Rest(p)]
    /\ outcome' = [outcome EXCEPT ![p] = how]
    /\ UNCHANGED <<now, at, attempt, body, error, stopping, polls>>

(* Mutant: the loop does not catch what a poll raises. *)
RaisesThroughLoop(p) ==
    /\ pc' = [pc EXCEPT ![p] = "stopped"]
    /\ outcome' = [outcome EXCEPT ![p] = "raised"]
    /\ txn' = [txn EXCEPT ![p] = NoTxn]
    /\ UNCHANGED <<now, at, attempt, body, error, stopping, polls>>

(* An exception leaves run_once: the session rolls back, the loop logs it   *)
(* and sleeps, a --once process dies of it.                                 *)
Raises(p) ==
    /\ Ends(p, "raised")
    /\ txn' = [txn EXCEPT ![p] = NoTxn]

Normalize(p) ==
    /\ pc[p] = "normalize"
    /\ IF Normalises(FeedOf[p], body[p])
       THEN /\ pc' = [pc EXCEPT ![p] = "flush_log"]
            /\ UNCHANGED <<now, at, attempt, body, error, txn, outcome, stopping, polls>>
       ELSE Raises(p)
    /\ UNCHANGED <<tables, sequences>>

(* Mutant: the log row is committed where the code only flushes it. *)
FlushLogCommitting(p) ==
    /\ pc[p] = "flush_log"
    /\ pc' = [pc EXCEPT ![p] = "flush_snapshot"]
    /\ txn' = [txn EXCEPT ![p].log = nextLog]
    /\ nextLog' = nextLog + 1
    /\ logs' = logs \cup {[id |-> nextLog, feed |-> FeedOf[p], at |-> at[p],
                           ok |-> TRUE, error |-> "none"]}
    /\ UNCHANGED <<now, at, attempt, body, error, outcome, stopping, snaps, rows, nextSnap, polls>>

(* Mutant: the id is one past the largest committed one, not a sequence's. *)
FlushLogMaxPlusOne(p) ==
    /\ pc[p] = "flush_log"
    /\ pc' = [pc EXCEPT ![p] = "flush_snapshot"]
    /\ \E id \in 1..nextLog :
          /\ \A l \in logs : l.id < id
          /\ \A i \in 1..(id - 1) : \E l \in logs : l.id >= i
          /\ txn' = [txn EXCEPT ![p].log = id]
          /\ nextLog' = id + 1
    /\ UNCHANGED <<now, at, attempt, body, error, outcome, stopping, tables, nextSnap, polls>>

FlushLog(p) ==
    /\ pc[p] = "flush_log"
    /\ pc' = [pc EXCEPT ![p] = "flush_snapshot"]
    /\ txn' = [txn EXCEPT ![p].log = nextLog]
    /\ nextLog' = nextLog + 1
    /\ UNCHANGED <<now, at, attempt, body, error, outcome, stopping, tables, nextSnap, polls>>

FlushSnapshot(p) ==
    /\ pc[p] = "flush_snapshot"
    /\ pc' = [pc EXCEPT ![p] = "commit"]
    /\ txn' = [txn EXCEPT ![p].snap = nextSnap]
    /\ nextSnap' = nextSnap + 1
    /\ UNCHANGED <<now, at, attempt, body, error, outcome, stopping, tables, nextLog, polls>>

LogOf(p, id, ok) ==
    [id |-> id, feed |-> FeedOf[p], at |-> at[p], ok |-> ok, error |-> error[p]]

(* Mutant: the snapshot is stamped with the time of its insertion. *)
SnapOfInsertion(p) ==
    [id |-> txn[p].snap, log |-> txn[p].log, feed |-> FeedOf[p], at |-> now,
     content |-> body[p]]

(* The committed log row takes the feed of the poll, its fetched_at, and is *)
(* a success exactly when a snapshot of it commits in the same transaction. *)
SnapOf(p) ==
    [id |-> txn[p].snap, log |-> txn[p].log, feed |-> FeedOf[p], at |-> at[p],
     content |-> body[p]]

RowsOf(p) ==
    {[snap |-> txn[p].snap, at |-> at[p], row |-> r] :
        r \in NormalRows(FeedOf[p], body[p].entities)}

(* Mutant: the rows are never attached to the session. *)
PersistedWithoutRows(p) ==
    /\ logs' = logs \cup {LogOf(p, txn[p].log, TRUE)}
    /\ snaps' = snaps \cup {SnapOf(p)}
    /\ UNCHANGED rows

Persisted(p) ==
    /\ logs' = logs \cup {LogOf(p, txn[p].log, TRUE)}
    /\ snaps' = snaps \cup {SnapOf(p)}
    /\ rows' = rows \cup RowsOf(p)

(* The rows of the batch are flushed by the commit itself.                  *)
Commit(p) ==
    /\ pc[p] = "commit"
    /\ Persisted(p)
    /\ Ends(p, "ok")
    /\ UNCHANGED <<txn, sequences>>

LogFailure(p) ==
    /\ pc[p] = "log_failure"
    /\ logs' = logs \cup {LogOf(p, nextLog, FALSE)}
    /\ nextLog' = nextLog + 1
    /\ txn' = [txn EXCEPT ![p].log = nextLog]
    /\ Ends(p, "failed")
    /\ UNCHANGED <<snaps, rows, nextSnap>>

(* Mutant: a failure row that cannot be written is reported as written. *)
DatabaseFailsQuietly(p) ==
    /\ DbMayFail
    /\ pc[p] \in {"flush_log", "flush_snapshot", "commit", "log_failure"}
    /\ Ends(p, "failed")
    /\ txn' = [txn EXCEPT ![p] = NoTxn]
    /\ UNCHANGED <<tables, sequences>>

(* A flush or commit raises and the transaction rolls back. An INSERT that  *)
(* fails may already have taken its id from the sequence.                   *)
DatabaseRaises(p) ==
    /\ DbMayFail
    /\ pc[p] \in {"flush_log", "flush_snapshot", "commit", "log_failure"}
    /\ Raises(p)
    /\ nextLog' \in {nextLog} \cup
          (IF pc[p] \in {"flush_log", "log_failure"} THEN {nextLog + 1} ELSE {})
    /\ nextSnap' \in {nextSnap} \cup
          (IF pc[p] = "flush_snapshot" THEN {nextSnap + 1} ELSE {})
    /\ UNCHANGED tables

(* The connection breaks after the server committed and before it answered: *)
(* the poll is persisted and raises all the same.                           *)
CommitUnanswered(p) ==
    /\ DbMayFail
    /\ pc[p] = "commit"
    /\ Persisted(p)
    /\ Ends(p, "raised")
    /\ txn' = [txn EXCEPT ![p] = NoTxn]
    /\ UNCHANGED sequences

(* The same after the commit of a failure row.                              *)
FailureUnanswered(p) ==
    /\ DbMayFail
    /\ pc[p] = "log_failure"
    /\ logs' = logs \cup {LogOf(p, nextLog, FALSE)}
    /\ nextLog' = nextLog + 1
    /\ Ends(p, "raised")
    /\ txn' = [txn EXCEPT ![p] = NoTxn]
    /\ UNCHANGED <<snaps, rows, nextSnap>>

-----------------------------------------------------------------------------
(* The loop around the polls (main), signals, crashes and the restart that  *)
(* docker-compose gives a --loop service (unless-stopped).                  *)

(* Mutant: every cycle starts by forgetting the signal. *)
WakeForgetful(p) ==
    /\ pc[p] = "sleep"
    /\ pc' = [pc EXCEPT ![p] = "idle"]
    /\ stopping' = [stopping EXCEPT ![p] = FALSE]
    /\ UNCHANGED <<now, at, attempt, body, error, txn, outcome, tables, sequences, polls>>

Wake(p) ==
    /\ pc[p] = "sleep"
    /\ pc' = [pc EXCEPT ![p] = "idle"]
    /\ UNCHANGED <<now, at, attempt, body, error, txn, outcome, stopping, tables, sequences, polls>>

Exit(p) ==
    /\ pc[p] = "idle"
    /\ stopping[p]
    /\ pc' = [pc EXCEPT ![p] = "stopped"]
    /\ UNCHANGED <<now, at, attempt, body, error, txn, outcome, stopping, tables, sequences, polls>>

Signal(p) ==
    /\ p \in Loops
    /\ pc[p] \notin {"stopped", "down"}
    /\ ~stopping[p]
    /\ stopping' = [stopping EXCEPT ![p] = TRUE]
    /\ UNCHANGED <<now, pc, at, attempt, body, error, txn, outcome, tables, sequences, polls>>

Crash(p) ==
    /\ pc[p] \notin {"stopped", "down"}
    /\ pc' = [pc EXCEPT ![p] = "down"]
    /\ txn' = [txn EXCEPT ![p] = NoTxn]
    /\ outcome' = [outcome EXCEPT ![p] = "none"]
    /\ UNCHANGED <<now, at, attempt, body, error, stopping, tables, sequences, polls>>

Restart(p) ==
    /\ pc[p] = "down"
    /\ p \in Loops
    /\ pc' = [pc EXCEPT ![p] = "idle"]
    /\ stopping' = [stopping EXCEPT ![p] = FALSE]
    /\ UNCHANGED <<now, at, attempt, body, error, txn, outcome, tables, sequences, polls>>

Tick ==
    /\ now < MaxTime
    /\ now' = now + 1
    /\ UNCHANGED <<procVars, tables, sequences, polls>>

Step(p) ==
    \/ Begin(p) \/ Received(p) \/ Retry(p) \/ FetchFailed(p)
    \/ Parse(p) \/ Normalize(p)
    \/ FlushLog(p) \/ FlushSnapshot(p) \/ Commit(p) \/ LogFailure(p)
    \/ Wake(p) \/ Exit(p)

Fault(p) == DatabaseRaises(p) \/ CommitUnanswered(p) \/ FailureUnanswered(p) \/ Crash(p)

Next ==
    \/ Tick
    \/ \E p \in Procs : Step(p) \/ Fault(p) \/ Signal(p) \/ Restart(p)

Spec == Init /\ [][Next]_vars

(* Every request is bounded by the httpx timeout and the attempts, every    *)
(* sleep by the interval: a process that is alive takes its next step.      *)
FairSpec == Spec /\ \A p \in Procs : WF_vars(Step(p))

-----------------------------------------------------------------------------
Working == {"request", "parse", "normalize", "flush_log", "flush_snapshot",
            "commit", "log_failure"}
Places  == Working \cup {"idle", "sleep", "stopped", "down"}

LogRows ==
    [id : Nat \ {0}, feed : FeedNames, at : Nat, ok : BOOLEAN,
     error : Transient \cup Terminal \cup {"parse", "none"}]

SnapRows ==
    [id : Nat \ {0}, log : Nat \ {0}, feed : FeedNames, at : Nat,
     content : Payloads]

TypeOK ==
    /\ now \in Nat
    /\ pc \in [Procs -> Places]
    /\ at \in [Procs -> Nat]
    /\ attempt \in [Procs -> 0..Attempts]
    /\ body \in [Procs -> Payloads \cup {NoPayload}]
    /\ error \in [Procs -> Transient \cup Terminal \cup {"parse", "none"}]
    /\ txn \in [Procs -> [log : Nat, snap : Nat]]
    /\ outcome \in [Procs -> {"none", "ok", "failed", "raised"}]
    /\ stopping \in [Procs -> BOOLEAN]
    /\ logs \subseteq LogRows
    /\ snaps \subseteq SnapRows
    /\ \A r \in rows : r.snap \in Nat \ {0} /\ r.at \in Nat
    /\ nextLog \in Nat \ {0}
    /\ nextSnap \in Nat \ {0}
    /\ polls \in Nat

-----------------------------------------------------------------------------
(* The named parts of the safety argument. *)

(* Log ids and snapshot ids are keys: no two committed rows share one, even *)
(* though rollbacks, crashes and concurrent processes interleave on the     *)
(* sequences (primary keys of feed_fetch_logs and raw_gtfsrt_snapshots).    *)
IdsAreKeys ==
    /\ \A k, l \in logs : k.id = l.id => k = l
    /\ \A s, t \in snaps : s.id = t.id => s = t

(* A committed log row says success exactly when one snapshot hangs from it *)
(* (raw_gtfsrt_snapshots is 1:1 with the successful log rows), whatever     *)
(* crashed or rolled back, and no snapshot is without its log row.          *)
SuccessHasOneSnapshot ==
    /\ \A l \in logs : l.ok <=> \E s \in snaps : s.log = l.id
    /\ \A s, t \in snaps : s.log = t.log => s = t
    /\ \A s \in snaps : \E l \in logs : l.id = s.log

(* fetched_at and the feed are denormalised and cannot drift: a row agrees  *)
(* with its snapshot, and the snapshot with its log row.                    *)
ProvenanceAgrees ==
    /\ \A r \in rows : \E s \in snaps : s.id = r.snap /\ s.at = r.at
    /\ \A s \in snaps : \A l \in logs :
          l.id = s.log => l.at = s.at /\ l.feed = s.feed

(* The RunOutcome handed to _cycle agrees with what was committed under the *)
(* log id it names (the --once exit status depends on it).                  *)
OutcomeMatchesDatabase ==
    \A p \in Procs :
        outcome[p] \in {"ok", "failed"} =>
            \E l \in logs : /\ l.id = txn[p].log
                            /\ l.feed = FeedOf[p]
                            /\ l.at = at[p]
                            /\ l.ok = (outcome[p] = "ok")

(* "loop must not die on one cycle" (main.py): a --loop process leaves its  *)
(* loop only after a signal asked for it, whatever a poll raised.           *)
LoopOutlivesPolls ==
    \A p \in Loops : pc[p] = "stopped" => stopping[p]

(* The bus allowlist does not reach the subway feed (build_registry): every *)
(* trip update of a stored subway payload has its row.                      *)
SubwayUnfiltered ==
    \A s \in snaps :
        s.feed = SubwayTripUpdatesFeed =>
            \A e \in Carrying(s.content.entities, "trip_update") :
                \E r \in rows : r.snap = s.id /\ r.row.entity = e.id

(* The abstract ledger the tables implement. *)
SnapsOf(l) == {s \in snaps : s.log = l.id}

EntryOf(l) ==
    [id |-> l.id, feed |-> l.feed, at |-> l.at,
     received |-> {s.content : s \in SnapsOf(l)},
     rows |-> {[at |-> r.at, row |-> r.row] :
                  r \in {q \in rows : \E s \in SnapsOf(l) : s.id = q.snap}}]

LedgerOf == {EntryOf(l) : l \in logs}

Ledger == INSTANCE PollLedger WITH clock <- now, ledger <- LedgerOf

(* The collector implements the ledger: whole polls appear, one at a time,  *)
(* stamped no later than their commit, and none is ever changed.            *)
ImplementsLedger == Ledger!LedgerSpec

(* A poll that has begun ends, in a log row or an exception, unless its     *)
(* process dies: no answer of the endpoint wedges the loop.                 *)
PollSettles ==
    \A p \in Procs : pc[p] \in Working ~> pc[p] \in {"sleep", "stopped", "down"}

(* SIGTERM during any part of a poll stops a --loop process.                *)
SignalStops ==
    \A p \in Loops : stopping[p] ~> (pc[p] \in {"stopped", "down"})
=============================================================================
