---------------------------- MODULE SharedTables ----------------------------
(***************************************************************************)
(* The processes that share the database, by the table locks of their      *)
(* transactions: a collector's poll (runner.py), a run of the analytics    *)
(* (run_for_date), an API request for the feed status, and db_reset.py,    *)
(* whose one TRUNCATE takes its exclusive locks table by table. The runbook*)
(* resets with the services running and restarts them afterwards.          *)
(*                                                                         *)
(* Statements see what is committed when they start (READ COMMITTED); a    *)
(* lock is kept to the end of its transaction. trip_updates and            *)
(* trip_modifications, which no enabled feed fills, are left out.          *)
(***************************************************************************)
EXTENDS Naturals, Sequences, FiniteSets, Functions

CONSTANTS
    Collectors,     \* the loop, and a collect-once beside it
    Analysts,       \* processes that run the analytics
    Readers,        \* API threads
    Limit,          \* fetches that feed status lists
    MaxPolls, MaxRuns, MaxRequests, MaxResets    \* bounds

ASSUME CountsAssumption ==
    /\ {MaxPolls, MaxRuns, MaxRequests, MaxResets} \subseteq Nat
    /\ Limit \in Nat \ {0}

(* A process is of one kind.                                               *)
ASSUME ActorsAssumption ==
    /\ Collectors \cap Analysts = {}
    /\ (Collectors \cup Analysts) \cap Readers = {}

Actors == Collectors \cup Analysts \cup Readers

VARIABLES
    clock,      \* fetches so far; a fetch is stamped with its number
    logs,       \* committed feed_fetch_logs: [at, by, ok]
    snapshots,  \* the logs that committed raw_gtfsrt_snapshots refer to
    positions,  \* the logs whose vehicle_positions are committed
    runs,       \* committed analytics_runs, by id: the analyst
    rows,       \* committed trip_trajectories of the trip: [run, by, from]
    runSeq,     \* last run id given
    locks,      \* tables each open transaction holds
    pc,
    poll,       \* the log a collector writes
    run,        \* the run id of an analyst
    got,        \* positions an analyst has read
    status,     \* what a request has found
    asked, granted,     \* tables of the TRUNCATE asked for and granted
    requests, resets    \* counts of requests and resets so far

stored     == <<logs, snapshots, positions, runs, rows>>
resetVars  == <<asked, granted, resets>>
vars       == <<clock, stored, runSeq, locks, pc, poll, run, got, status, requests, resetVars>>

NoLog    == [at |-> 0, by |-> "none", ok |-> FALSE]
NoStatus == [since |-> 0, last |-> NoLog, good |-> NoLog, total |-> 0, succ |-> 0, recent |-> {}]

(* The table that the next statement of a transaction locks.               *)
TableOf == [
    log      |-> "feed_fetch_logs",
    snapshot |-> "raw_gtfsrt_snapshots",
    rows     |-> "vehicle_positions",
    read     |-> "vehicle_positions",
    delete   |-> "trip_trajectories",
    insert   |-> "analytics_runs",
    finish   |-> "analytics_runs",
    last     |-> "feed_fetch_logs",
    good     |-> "feed_fetch_logs",
    hour     |-> "feed_fetch_logs",
    recent   |-> "feed_fetch_logs"]

Wants(a) == IF pc[a] \in DOMAIN TableOf THEN {TableOf[pc[a]]} ELSE {}

(* Mutant: the logs are not in the list.                                   *)
DATA_TABLES_NoLogs == <<"trip_trajectories", "analytics_runs", "vehicle_positions",
                        "raw_gtfsrt_snapshots">>

(* The order of the list is the order of the locks.                        *)
DATA_TABLES == <<"trip_trajectories", "analytics_runs", "vehicle_positions",
                 "raw_gtfsrt_snapshots", "feed_fetch_logs">>

Claimed == {DATA_TABLES[i] : i \in 1..asked}
Held    == {DATA_TABLES[i] : i \in 1..granted}

Init ==
    /\ clock = 0
    /\ logs = {} /\ snapshots = {} /\ positions = {}
    /\ runs = << >>
    /\ rows = {}
    /\ runSeq = 0
    /\ locks = [a \in Actors |-> {}]
    /\ pc = [a \in Actors |-> "idle"]
    /\ poll = [c \in Collectors |-> NoLog]
    /\ run = [a \in Analysts |-> 0]
    /\ got = [a \in Analysts |-> {}]
    /\ status = [r \in Readers |-> NoStatus]
    /\ asked = 0 /\ granted = 0
    /\ requests = 0
    /\ resets = 0

(* A statement shares its table unless the TRUNCATE holds it, or waits for *)
(* it and came first; a transaction does not queue for what it holds.      *)
Open(a) == Wants(a) \cap Claimed \subseteq locks[a]

Statement(a) ==
    /\ Open(a)
    /\ locks' = [locks EXCEPT ![a] = @ \cup Wants(a)]

Goto(a, label) == pc' = [pc EXCEPT ![a] = label]

(* Mutant: the session is not closed.                                      *)
ReleaseNothing(a) == UNCHANGED locks

(* commit, rollback or close                                               *)
Release(a) == locks' = [locks EXCEPT ![a] = {}]

-----------------------------------------------------------------------------
(* run_once: fetched_at is stamped before the fetch, the rows are written   *)
(* after it; a failed poll writes its log only. Of each transaction the    *)
(* last statement and the commit are one step.                             *)
Fetch(c) ==
    /\ pc[c] = "idle"
    /\ clock < MaxPolls
    /\ clock' = clock + 1
    /\ \E ok \in BOOLEAN : poll' = [poll EXCEPT ![c] = [at |-> clock', by |-> c, ok |-> ok]]
    /\ Goto(c, "log")
    /\ UNCHANGED <<stored, runSeq, locks, run, got, status, requests, resetVars>>

Persist(c) ==
    /\ \/ pc[c] = "log" /\ poll[c].ok /\ Goto(c, "snapshot")
       \/ pc[c] = "snapshot" /\ Goto(c, "rows")
    /\ Statement(c)
    /\ UNCHANGED <<clock, stored, runSeq, poll, run, got, status, requests, resetVars>>

CommitPoll(c) ==
    /\ \/ pc[c] = "rows"
       \/ pc[c] = "log" /\ ~poll[c].ok
    /\ Open(c)
    /\ logs' = logs \cup {poll[c]}
    /\ snapshots' = IF poll[c].ok THEN snapshots \cup {poll[c]} ELSE snapshots
    /\ positions' = IF poll[c].ok THEN positions \cup {poll[c]} ELSE positions
    /\ poll' = [poll EXCEPT ![c] = NoLog]
    /\ Release(c)
    /\ Goto(c, "idle")
    /\ UNCHANGED <<clock, runs, rows, runSeq, run, got, status, requests, resetVars>>

-----------------------------------------------------------------------------
(* run_for_date, with one trip instance.                                   *)
BeginRun(a) ==
    /\ pc[a] = "idle"
    /\ runSeq < MaxRuns
    /\ "analytics_runs" \notin Claimed
    /\ runSeq' = runSeq + 1
    /\ run' = [run EXCEPT ![a] = runSeq']
    /\ runs' = [i \in DOMAIN runs \cup {runSeq'} |-> IF i = runSeq' THEN a ELSE runs[i]]
    /\ Goto(a, "read")
    /\ UNCHANGED <<clock, logs, snapshots, positions, rows, locks, poll, got, status,
                   requests, resetVars>>

(* The instances are listed and the trip's observations read; a trip with  *)
(* nothing to write is passed over.                                        *)
ReadPositions(a) ==
    /\ pc[a] = "read"
    /\ Statement(a)
    /\ got' = [got EXCEPT ![a] = positions]
    /\ Goto(a, IF positions = {} THEN "finish" ELSE "delete")
    /\ UNCHANGED <<clock, stored, runSeq, poll, run, status, requests, resetVars>>

DeleteRows(a) ==
    /\ pc[a] = "delete"
    /\ Statement(a)
    /\ Goto(a, "insert")
    /\ UNCHANGED <<clock, stored, runSeq, poll, run, got, status, requests, resetVars>>

(* Mutant: no foreign key on the run.                                      *)
InsertRowsUnchecked(a) ==
    /\ pc[a] = "insert"
    /\ Open(a)
    /\ rows' = {[run |-> run[a], by |-> a, from |-> got[a]]}
    /\ Release(a)
    /\ Goto(a, "finish")
    /\ UNCHANGED <<clock, logs, snapshots, positions, runs, runSeq, poll, run, got, status,
                   requests, resetVars>>

(* The foreign key on the run: a run the reset has removed is an           *)
(* IntegrityError, and the transaction is rolled back.                     *)
InsertRows(a) ==
    /\ pc[a] = "insert"
    /\ Open(a)
    /\ rows' = IF run[a] \in DOMAIN runs
               THEN {[run |-> run[a], by |-> a, from |-> got[a]]}
               ELSE rows
    /\ Release(a)
    /\ Goto(a, "finish")
    /\ UNCHANGED <<clock, logs, snapshots, positions, runs, runSeq, poll, run, got, status,
                   requests, resetVars>>

(* The run's final status; a run that is gone is a StaleDataError, which   *)
(* ends the run as well.                                                   *)
FinishRun(a) ==
    /\ pc[a] = "finish"
    /\ Open(a)
    /\ Release(a)
    /\ run' = [run EXCEPT ![a] = 0]
    /\ got' = [got EXCEPT ![a] = {}]
    /\ Goto(a, "idle")
    /\ UNCHANGED <<clock, stored, runSeq, poll, status, requests, resetVars>>

-----------------------------------------------------------------------------
Latest(set) == IF set = {} THEN NoLog ELSE CHOOSE l \in set : \A m \in set : m.at <= l.at

Newest(set) == {l \in set : Cardinality({m \in set : m.at > l.at}) < Limit}

(* Mutant: the last success is looked up before the last fetch.            *)
QueriesSwapped == <<"good", "last", "hour", "recent">>

(* feed_status makes three queries, recent_fetches a fourth; now, and so   *)
(* the start of the hour, is read before them.                             *)
Queries == <<"last", "good", "hour", "recent">>

AskStatus(r) ==
    /\ pc[r] = "idle"
    /\ requests < MaxRequests
    /\ requests' = requests + 1
    /\ \E since \in 1..clock : status' = [status EXCEPT ![r] = [NoStatus EXCEPT !.since = since]]
    /\ Goto(r, Queries[1])
    /\ UNCHANGED <<clock, stored, runSeq, locks, poll, run, got, resetVars>>

Found(query, s) ==
    LET inHour == {l \in logs : l.at >= s.since}
    IN CASE query = "last"   -> [s EXCEPT !.last = Latest(logs)]
         [] query = "good"   -> [s EXCEPT !.good = Latest({l \in logs : l.ok})]
         [] query = "hour"   -> [s EXCEPT !.total = Cardinality(inHour),
                                          !.succ = Cardinality({l \in inHour : l.ok})]
         [] query = "recent" -> [s EXCEPT !.recent = Newest(logs)]

Query(r) ==
    /\ \E i \in 1..Len(Queries) :
          /\ pc[r] = Queries[i]
          /\ status' = [status EXCEPT ![r] = Found(Queries[i], @)]
          /\ Goto(r, IF i < Len(Queries) THEN Queries[i + 1] ELSE "respond")
    /\ Statement(r)
    /\ UNCHANGED <<clock, stored, runSeq, poll, run, got, requests, resetVars>>

Respond(r) ==
    /\ pc[r] = "respond"
    /\ Release(r)
    /\ Goto(r, "idle")
    /\ status' = [status EXCEPT ![r] = NoStatus]
    /\ UNCHANGED <<clock, stored, runSeq, poll, run, got, requests, resetVars>>

-----------------------------------------------------------------------------
(* db_reset's TRUNCATE ... RESTART IDENTITY CASCADE                         *)
BeginReset ==
    /\ asked = 0
    /\ resets < MaxResets
    /\ resets' = resets + 1
    /\ asked' = 1
    /\ UNCHANGED <<clock, stored, runSeq, locks, pc, poll, run, got, status, requests, granted>>

GrantLock ==
    /\ granted < asked
    /\ \A a \in Actors : DATA_TABLES[asked] \notin locks[a]
    /\ granted' = asked
    /\ UNCHANGED <<clock, stored, runSeq, locks, pc, poll, run, got, status, requests, asked, resets>>

AskLock ==
    /\ granted = asked
    /\ asked \in 1..(Len(DATA_TABLES) - 1)
    /\ asked' = asked + 1
    /\ UNCHANGED <<clock, stored, runSeq, locks, pc, poll, run, got, status, requests, granted, resets>>

Truncate ==
    /\ granted = Len(DATA_TABLES)
    /\ logs' = IF "feed_fetch_logs" \in Held THEN {} ELSE logs
    /\ snapshots' = IF "raw_gtfsrt_snapshots" \in Held THEN {} ELSE snapshots
    /\ positions' = IF "vehicle_positions" \in Held THEN {} ELSE positions
    /\ runs' = IF "analytics_runs" \in Held THEN << >> ELSE runs
    /\ rows' = IF "trip_trajectories" \in Held THEN {} ELSE rows
    /\ runSeq' = IF "analytics_runs" \in Held THEN 0 ELSE runSeq
    /\ asked' = 0
    /\ granted' = 0
    /\ UNCHANGED <<clock, locks, pc, poll, run, got, status, requests, resets>>

(* The server ends a cycle by failing one of its statements: the reset's,  *)
(* which then changes nothing, or the other's, whose process goes on.      *)
Deadlocked(a) ==
    /\ granted < asked
    /\ DATA_TABLES[asked] \in locks[a]
    /\ Wants(a) \cap Held # {}

Detect(a) ==
    /\ Deadlocked(a)
    /\ \/ /\ asked' = 0
          /\ granted' = 0
          /\ UNCHANGED <<locks, pc, poll, got, status>>
       \/ /\ Release(a)
          /\ IF a \in Analysts
             THEN Goto(a, "finish")
             ELSE Goto(a, "idle")
          /\ poll' = [c \in Collectors |-> IF c = a THEN NoLog ELSE poll[c]]
          /\ got' = [b \in Analysts |-> IF b = a THEN {} ELSE got[b]]
          /\ status' = [r \in Readers |-> IF r = a THEN NoStatus ELSE status[r]]
          /\ UNCHANGED <<asked, granted>>
    /\ UNCHANGED <<clock, stored, runSeq, run, requests, resets>>

Poll(c)     == Persist(c) \/ CommitPoll(c)
Run(a)      == ReadPositions(a) \/ DeleteRows(a) \/ InsertRows(a) \/ FinishRun(a)
Request(r)  == Query(r) \/ Respond(r)
Reset       == GrantLock \/ AskLock \/ Truncate

Next ==
    \/ \E c \in Collectors : Fetch(c) \/ Poll(c)
    \/ \E a \in Analysts : BeginRun(a) \/ Run(a)
    \/ \E r \in Readers : AskStatus(r) \/ Request(r)
    \/ BeginReset \/ Reset
    \/ \E a \in Actors : Detect(a)

(* What has begun goes on; nothing has to begin. The server's deadlock     *)
(* detector runs after deadlock_timeout.                                   *)
Fairness ==
    /\ \A c \in Collectors : WF_vars(Poll(c))
    /\ \A a \in Analysts : WF_vars(Run(a))
    /\ \A r \in Readers : WF_vars(Request(r))
    /\ WF_vars(Reset)
    /\ \A a \in Actors : WF_vars(Detect(a))

Spec == Init /\ [][Next]_vars /\ Fairness

-----------------------------------------------------------------------------
(* A successful fetch in the log has its snapshot and its rows, and neither*)
(* is there without the log, though a reset may come between any two       *)
(* statements of the poll (db_reset.py, "cleared atomically").             *)
PollsWhole ==
    LET good == {l \in logs : l.ok}
    IN snapshots = good /\ positions = good

(* A trajectory belongs to a run that is there and that its analyst began, *)
(* and rests on observations that are there, resets between its run's      *)
(* transactions notwithstanding. (With two analysts a run id given anew by *)
(* RESTART IDENTITY breaks it: Analysts is one process in the run.)        *)
TrajectoriesTraceable ==
    \A r \in rows :
        /\ r.run \in DOMAIN runs
        /\ runs[r.run] = r.by
        /\ r.from \subseteq positions

(* The four queries of a status see four states of the log, and yet a last *)
(* fetch that succeeded is no later than the last success, one within the  *)
(* hour is counted, the list starts no earlier and is as long as the count *)
(* requires (feed_status, recent_fetches).                                 *)
CoherentStatus ==
    \A r \in Readers : pc[r] = "respond" =>
        LET s == status[r]
        IN /\ s.last.ok => s.last.at <= s.good.at
           /\ s.last.at >= s.since => s.total > 0 /\ (s.last.ok => s.succ > 0)
           /\ s.last.at <= Latest(s.recent).at
           /\ Cardinality(s.recent) >= IF s.total < Limit THEN s.total ELSE Limit

(* Every poll, run and request that has begun ends, and so does a reset,   *)
(* though the TRUNCATE locks the tables in the opposite order to theirs.   *)
EverythingEnds ==
    /\ \A a \in Actors : pc[a] # "idle" ~> pc[a] = "idle"
    /\ asked > 0 ~> asked = 0
=============================================================================
