------------------------- MODULE SharedTables_proofs -------------------------
(***************************************************************************)
(* What the processes that share the database may rely on, for any number  *)
(* of them, of polls, runs, requests and resets.                           *)
(*                                                                         *)
(* What a transaction holds is determined by the statement it is at        *)
(* (LocksFit), and the TRUNCATE has been granted no table that one of them *)
(* holds (Excluded). When it has been granted all, no transaction is past  *)
(* its first statement (NobodyInside): what a poll, a run or a request has *)
(* found within its transaction is still there when it goes on.            *)
(***************************************************************************)
EXTENDS SharedTables, FiniteSetTheorems, WellFoundedInduction, TLAPS

-----------------------------------------------------------------------------
(* Locks. *)

Logbook == "feed_fetch_logs"
Tables  == {"trip_trajectories", "analytics_runs", "vehicle_positions",
            "raw_gtfsrt_snapshots", "feed_fetch_logs"}

PollSteps    == {"idle", "log", "snapshot", "rows"}
RunSteps     == {"idle", "read", "delete", "insert", "finish"}
RequestSteps == {"idle", "last", "good", "hour", "recent", "respond"}
Steps        == PollSteps \cup RunSteps \cup RequestSteps

(* A request that has seen the log.                                        *)
Asking == {"good", "hour", "recent", "respond"}

(* The tables that a transaction at a statement holds.                     *)
Fits(label, held) ==
    /\ label \in {"idle", "log", "read", "last"} => held = {}
    /\ label = "snapshot" => held = {Logbook}
    /\ label = "rows" => held = {Logbook, "raw_gtfsrt_snapshots"}
    /\ label = "delete" => held = {"vehicle_positions"}
    /\ label = "insert" => held = {"vehicle_positions", "trip_trajectories"}
    /\ label = "finish" => held \subseteq {"vehicle_positions"}
    /\ label \in Asking => held = {Logbook}

LocksFit == \A a \in Actors : Fits(pc[a], locks[a])

Excluded == \A a \in Actors : locks[a] \cap Held = {}

LockTypes ==
    /\ pc \in [Actors -> Steps]
    /\ \A c \in Collectors : pc[c] \in PollSteps
    /\ \A a \in Analysts : pc[a] \in RunSteps
    /\ \A r \in Readers : pc[r] \in RequestSteps
    /\ locks \in [Actors -> SUBSET Tables]
    /\ asked \in 0..5 /\ granted \in Nat /\ granted <= asked /\ asked <= granted + 1

LockInv == LockTypes /\ LocksFit /\ Excluded

LEMMA TablesInOrder ==
  /\ Len(DATA_TABLES) = 5
  /\ DATA_TABLES[1] = "trip_trajectories" /\ DATA_TABLES[2] = "analytics_runs"
  /\ DATA_TABLES[3] = "vehicle_positions" /\ DATA_TABLES[4] = "raw_gtfsrt_snapshots"
  /\ DATA_TABLES[5] = "feed_fetch_logs"
  BY DEF DATA_TABLES

LEMMA ActorKinds ==
  /\ Collectors \subseteq Actors /\ Analysts \subseteq Actors /\ Readers \subseteq Actors
  /\ \A a \in Actors : a \in Collectors \/ a \in Analysts \/ a \in Readers
  /\ \A a : a \in Collectors => a \notin Analysts /\ a \notin Readers
  /\ \A a : a \in Analysts => a \notin Readers
  BY ActorsAssumption DEF Actors

LEMMA AllHeld == granted = 5 => Held = Tables
<1> SUFFICES ASSUME granted = 5 PROVE Held = Tables
  OBVIOUS
<1>1. Held = {DATA_TABLES[1], DATA_TABLES[2], DATA_TABLES[3], DATA_TABLES[4], DATA_TABLES[5]}
  BY DEF Held
<1> QED BY <1>1, TablesInOrder DEF Tables

LEMMA HeldIsClaimed == LockTypes => Held \subseteq Claimed
  BY DEF Held, Claimed, LockTypes

(* The table that each statement locks.                                    *)
LEMMA WantsTable ==
  ASSUME NEW a
  PROVE  /\ pc[a] \in {"log", "last", "good", "hour", "recent"} => Wants(a) = {Logbook}
         /\ pc[a] = "snapshot" => Wants(a) = {"raw_gtfsrt_snapshots"}
         /\ pc[a] \in {"rows", "read"} => Wants(a) = {"vehicle_positions"}
         /\ pc[a] = "delete" => Wants(a) = {"trip_trajectories"}
         /\ pc[a] \in {"insert", "finish"} => Wants(a) = {"analytics_runs"}
  BY DEF Wants, TableOf, Logbook
-----------------------------------------------------------------------------
(* A transaction that goes on to a statement with the tables that fit it,  *)
(* and takes none that the TRUNCATE holds.                                 *)
LEMMA MoveHolds ==
  ASSUME LockInv, NEW a \in Actors, NEW to \in Steps, NEW held \in SUBSET Tables,
         pc' = [pc EXCEPT ![a] = to], locks' = [locks EXCEPT ![a] = held],
         a \in Collectors => to \in PollSteps,
         a \in Analysts => to \in RunSteps,
         a \in Readers => to \in RequestSteps,
         Fits(to, held), held \cap Held \subseteq locks[a],
         UNCHANGED <<asked, granted>>
  PROVE  LockInv'
<1>1. LockTypes /\ LocksFit /\ Excluded
  BY DEF LockInv
<1>2. /\ pc'[a] = to /\ locks'[a] = held
      /\ \A b \in Actors : b # a => pc'[b] = pc[b] /\ locks'[b] = locks[b]
  BY <1>1 DEF LockTypes
<1>3. LockTypes'
  <2>1. pc' \in [Actors -> Steps] /\ locks' \in [Actors -> SUBSET Tables]
    BY <1>1 DEF LockTypes
  <2> QED BY <1>1, <1>2, <2>1, ActorKinds DEF LockTypes
<1>4. LocksFit'
  BY <1>1, <1>2 DEF LocksFit
<1>5. Excluded'
  BY <1>1, <1>2 DEF Excluded, Held
<1> QED BY <1>3, <1>4, <1>5 DEF LockInv

(* The same for one that gives up what it holds.                           *)
LEMMA ReleaseHolds ==
  ASSUME LockInv, NEW a \in Actors, NEW to \in {"idle", "finish"},
         pc' = [pc EXCEPT ![a] = to], locks' = [locks EXCEPT ![a] = {}],
         to = "finish" => a \in Analysts,
         UNCHANGED <<asked, granted>>
  PROVE  LockInv'
<1>1. to \in Steps /\ Fits(to, {})
  BY DEF Steps, PollSteps, RunSteps, Fits, Asking
<1>2. /\ a \in Collectors => to \in PollSteps
      /\ a \in Analysts => to \in RunSteps
      /\ a \in Readers => to \in RequestSteps
  BY ActorKinds DEF PollSteps, RunSteps, RequestSteps
<1> QED BY <1>1, <1>2, MoveHolds

(* And for one that begins, which holds nothing.                           *)
LEMMA BeginHolds ==
  ASSUME LockInv, NEW a \in Actors, pc[a] = "idle", NEW to \in {"log", "read", "last"},
         pc' = [pc EXCEPT ![a] = to], locks' = locks,
         a \in Collectors => to \in PollSteps,
         a \in Analysts => to \in RunSteps,
         a \in Readers => to \in RequestSteps,
         UNCHANGED <<asked, granted>>
  PROVE  LockInv'
<1>1. locks[a] = {} /\ locks \in [Actors -> SUBSET Tables]
  BY DEF LockInv, LockTypes, LocksFit, Fits
<1>2. locks' = [locks EXCEPT ![a] = {}]
  BY <1>1
<1>3. to \in Steps /\ Fits(to, {})
  BY DEF Steps, PollSteps, RunSteps, RequestSteps, Fits, Asking
<1> QED BY <1>2, <1>3, MoveHolds

(* A statement adds its table, which the TRUNCATE does not hold.           *)
LEMMA StatementHolds ==
  ASSUME LockInv, NEW a \in Actors, NEW to \in Steps, Statement(a),
         pc' = [pc EXCEPT ![a] = to],
         a \in Collectors => to \in PollSteps,
         a \in Analysts => to \in RunSteps,
         a \in Readers => to \in RequestSteps,
         Wants(a) \subseteq Tables, Fits(to, locks[a] \cup Wants(a)),
         UNCHANGED <<asked, granted>>
  PROVE  LockInv'
<1>1. LockTypes
  BY DEF LockInv
<1>2. locks[a] \cup Wants(a) \in SUBSET Tables
  BY <1>1 DEF LockTypes
<1>3. (locks[a] \cup Wants(a)) \cap Held \subseteq locks[a]
  BY <1>1, HeldIsClaimed DEF Statement, Open
<1>4. locks' = [locks EXCEPT ![a] = locks[a] \cup Wants(a)]
  BY DEF Statement
<1> QED BY <1>2, <1>3, <1>4, MoveHolds

LEMMA PollLocks ==
  ASSUME LockInv, NEW c \in Collectors, Fetch(c) \/ Poll(c)
  PROVE  LockInv'
<1>1. c \in Actors /\ c \notin Analysts /\ c \notin Readers
  BY ActorKinds
<1>2. Fits(pc[c], locks[c])
  BY <1>1 DEF LockInv, LocksFit
<1>3. CASE Fetch(c)
  <2>1. /\ pc[c] = "idle" /\ pc' = [pc EXCEPT ![c] = "log"] /\ locks' = locks
        /\ UNCHANGED <<asked, granted>>
    BY <1>3 DEF Fetch, Goto, resetVars
  <2> QED BY <1>1, <2>1, BeginHolds DEF PollSteps
<1>4. CASE Persist(c)
  <2>1. Statement(c) /\ UNCHANGED <<asked, granted>>
    BY <1>4 DEF Persist, resetVars
  <2>2. CASE pc[c] = "log" /\ Goto(c, "snapshot")
    <3>1. Wants(c) = {Logbook} /\ locks[c] = {}
      BY <1>2, <2>2, WantsTable DEF Fits
    <3>2. Fits("snapshot", locks[c] \cup Wants(c))
      BY <3>1 DEF Fits, Asking
    <3> QED BY <1>1, <2>1, <2>2, <3>1, <3>2, StatementHolds
            DEF Goto, Tables, Logbook, Steps, PollSteps
  <2>3. CASE pc[c] = "snapshot" /\ Goto(c, "rows")
    <3>1. Wants(c) = {"raw_gtfsrt_snapshots"} /\ locks[c] = {Logbook}
      BY <1>2, <2>3, WantsTable DEF Fits
    <3>2. Fits("rows", locks[c] \cup Wants(c))
      BY <3>1 DEF Fits, Asking
    <3> QED BY <1>1, <2>1, <2>3, <3>1, <3>2, StatementHolds
            DEF Goto, Tables, Logbook, Steps, PollSteps
  <2> QED BY <1>4, <2>2, <2>3 DEF Persist
<1>5. CASE CommitPoll(c)
  <2>1. pc' = [pc EXCEPT ![c] = "idle"] /\ locks' = [locks EXCEPT ![c] = {}]
    BY <1>5 DEF CommitPoll, Goto, Release
  <2>2. UNCHANGED <<asked, granted>>
    BY <1>5 DEF CommitPoll, resetVars
  <2> QED BY <1>1, <2>1, <2>2, ReleaseHolds
<1> QED BY <1>3, <1>4, <1>5 DEF Poll

LEMMA RunLocks ==
  ASSUME LockInv, NEW a \in Analysts, BeginRun(a) \/ Run(a)
  PROVE  LockInv'
<1>1. a \in Actors /\ a \notin Collectors /\ a \notin Readers
  BY ActorKinds
<1>2. Fits(pc[a], locks[a])
  BY <1>1 DEF LockInv, LocksFit
<1>3. CASE BeginRun(a)
  <2>1. /\ pc[a] = "idle" /\ pc' = [pc EXCEPT ![a] = "read"] /\ locks' = locks
        /\ UNCHANGED <<asked, granted>>
    BY <1>3 DEF BeginRun, Goto, resetVars
  <2> QED BY <1>1, <2>1, BeginHolds DEF RunSteps
<1>4. CASE ReadPositions(a)
  <2>1. PICK to \in {"finish", "delete"} : pc' = [pc EXCEPT ![a] = to]
    BY <1>4 DEF ReadPositions, Goto
  <2>2. pc[a] = "read" /\ Statement(a) /\ UNCHANGED <<asked, granted>>
    BY <1>4 DEF ReadPositions, resetVars
  <2>3. Wants(a) = {"vehicle_positions"} /\ locks[a] = {}
    BY <1>2, <2>2, WantsTable DEF Fits
  <2>4. Fits(to, locks[a] \cup Wants(a))
    BY <2>3 DEF Fits, Asking
  <2> QED BY <1>1, <2>1, <2>2, <2>3, <2>4, StatementHolds DEF Tables, Steps, RunSteps
<1>5. CASE DeleteRows(a)
  <2>1. /\ pc[a] = "delete" /\ pc' = [pc EXCEPT ![a] = "insert"] /\ Statement(a)
        /\ UNCHANGED <<asked, granted>>
    BY <1>5 DEF DeleteRows, Goto, resetVars
  <2>2. Wants(a) = {"trip_trajectories"} /\ locks[a] = {"vehicle_positions"}
    BY <1>2, <2>1, WantsTable DEF Fits
  <2>3. Fits("insert", locks[a] \cup Wants(a))
    BY <2>2 DEF Fits, Asking
  <2> QED BY <1>1, <2>1, <2>2, <2>3, StatementHolds DEF Tables, Steps, RunSteps
<1>6. CASE InsertRows(a)
  <2>1. /\ pc' = [pc EXCEPT ![a] = "finish"] /\ locks' = [locks EXCEPT ![a] = {}]
        /\ UNCHANGED <<asked, granted>>
    BY <1>6 DEF InsertRows, Goto, Release, resetVars
  <2> QED BY <1>1, <2>1, ReleaseHolds
<1>7. CASE FinishRun(a)
  <2>1. /\ pc' = [pc EXCEPT ![a] = "idle"] /\ locks' = [locks EXCEPT ![a] = {}]
        /\ UNCHANGED <<asked, granted>>
    BY <1>7 DEF FinishRun, Goto, Release, resetVars
  <2> QED BY <1>1, <2>1, ReleaseHolds
<1> QED BY <1>3, <1>4, <1>5, <1>6, <1>7 DEF Run

(* The statement that follows each query.                                  *)
LEMMA QuerySteps ==
  ASSUME NEW r \in Readers, Query(r)
  PROVE  \/ /\ pc[r] = "last" /\ pc' = [pc EXCEPT ![r] = "good"]
            /\ status' = [status EXCEPT ![r] = Found("last", @)]
         \/ /\ pc[r] = "good" /\ pc' = [pc EXCEPT ![r] = "hour"]
            /\ status' = [status EXCEPT ![r] = Found("good", @)]
         \/ /\ pc[r] = "hour" /\ pc' = [pc EXCEPT ![r] = "recent"]
            /\ status' = [status EXCEPT ![r] = Found("hour", @)]
         \/ /\ pc[r] = "recent" /\ pc' = [pc EXCEPT ![r] = "respond"]
            /\ status' = [status EXCEPT ![r] = Found("recent", @)]
<1>1. /\ Len(Queries) = 4 /\ Queries[1] = "last" /\ Queries[2] = "good"
      /\ Queries[3] = "hour" /\ Queries[4] = "recent"
  BY DEF Queries
<1>2. PICK i \in 1..4 :
         /\ pc[r] = Queries[i]
         /\ status' = [status EXCEPT ![r] = Found(Queries[i], @)]
         /\ pc' = [pc EXCEPT ![r] = IF i < 4 THEN Queries[i + 1] ELSE "respond"]
  BY <1>1 DEF Query, Goto
<1>3. CASE i = 1
  <2>1. Queries[i] = "last" /\ (IF i < 4 THEN Queries[i + 1] ELSE "respond") = "good"
    BY <1>1, <1>3
  <2> QED BY <1>2, <2>1, Zenon
<1>4. CASE i = 2
  <2>1. Queries[i] = "good" /\ (IF i < 4 THEN Queries[i + 1] ELSE "respond") = "hour"
    BY <1>1, <1>4
  <2> QED BY <1>2, <2>1, Zenon
<1>5. CASE i = 3
  <2>1. Queries[i] = "hour" /\ (IF i < 4 THEN Queries[i + 1] ELSE "respond") = "recent"
    BY <1>1, <1>5
  <2> QED BY <1>2, <2>1, Zenon
<1>6. CASE i = 4
  <2>1. Queries[i] = "recent" /\ (IF i < 4 THEN Queries[i + 1] ELSE "respond") = "respond"
    BY <1>1, <1>6
  <2> QED BY <1>2, <2>1, Zenon
<1> QED BY <1>3, <1>4, <1>5, <1>6

LEMMA RequestLocks ==
  ASSUME LockInv, NEW r \in Readers, AskStatus(r) \/ Request(r)
  PROVE  LockInv'
<1>1. r \in Actors /\ r \notin Collectors /\ r \notin Analysts
  BY ActorKinds
<1>2. Fits(pc[r], locks[r])
  BY <1>1 DEF LockInv, LocksFit
<1>3. CASE AskStatus(r)
  <2>1. Queries[1] = "last"
    BY DEF Queries
  <2>2. /\ pc[r] = "idle" /\ pc' = [pc EXCEPT ![r] = "last"] /\ locks' = locks
        /\ UNCHANGED <<asked, granted>>
    BY <1>3, <2>1 DEF AskStatus, Goto, resetVars
  <2> QED BY <1>1, <2>2, BeginHolds DEF RequestSteps
<1>4. CASE Query(r)
  <2>1. PICK to \in Asking : pc' = [pc EXCEPT ![r] = to]
    BY <1>4, QuerySteps DEF Asking
  <2>2. Statement(r) /\ UNCHANGED <<asked, granted>>
    BY <1>4 DEF Query, resetVars
  <2>3. pc[r] \in {"last", "good", "hour", "recent"}
    BY <1>4, QuerySteps
  <2>4. Wants(r) = {Logbook} /\ locks[r] \subseteq {Logbook}
    BY <1>2, <2>3, WantsTable DEF Fits, Asking
  <2>5. Fits(to, locks[r] \cup Wants(r))
    BY <2>1, <2>4 DEF Fits, Asking
  <2>6. to \in Steps /\ to \in RequestSteps /\ Logbook \in Tables
    BY <2>1 DEF Steps, RequestSteps, Asking, Tables, Logbook
  <2> QED BY <1>1, <2>1, <2>2, <2>4, <2>5, <2>6, StatementHolds
<1>5. CASE Respond(r)
  <2>1. /\ pc' = [pc EXCEPT ![r] = "idle"] /\ locks' = [locks EXCEPT ![r] = {}]
        /\ UNCHANGED <<asked, granted>>
    BY <1>5 DEF Respond, Goto, Release, resetVars
  <2> QED BY <1>1, <2>1, ReleaseHolds
<1> QED BY <1>3, <1>4, <1>5 DEF Request

(* The TRUNCATE is granted a table when nobody holds it.                   *)
LEMMA ResetLocks ==
  ASSUME LockInv, BeginReset \/ Reset
  PROVE  LockInv'
<1>1. LockTypes /\ LocksFit /\ Excluded
  BY DEF LockInv
<1>2. locks' = locks /\ pc' = pc
  BY DEF BeginReset, Reset, GrantLock, AskLock, Truncate
<1>3. LocksFit'
  BY <1>1, <1>2 DEF LocksFit
<1>4. CASE BeginReset
  <2>1. asked = 0 /\ asked' = 1 /\ granted' = granted
    BY <1>4 DEF BeginReset
  <2> QED BY <1>1, <1>2, <1>3, <2>1 DEF LockInv, LockTypes, Excluded, Held
<1>5. CASE GrantLock
  <2>1. /\ granted < asked /\ granted' = asked /\ asked' = asked
        /\ \A a \in Actors : DATA_TABLES[asked] \notin locks[a]
    BY <1>5 DEF GrantLock
  <2>2. Held' \subseteq Held \cup {DATA_TABLES[asked]}
    BY <1>1, <2>1 DEF LockTypes, Held
  <2> QED BY <1>1, <1>2, <1>3, <2>1, <2>2 DEF LockInv, LockTypes, Excluded
<1>6. CASE AskLock
  <2>1. granted = asked /\ asked \in 1..4 /\ asked' = asked + 1 /\ granted' = granted
    BY <1>6, TablesInOrder DEF AskLock
  <2> QED BY <1>1, <1>2, <1>3, <2>1 DEF LockInv, LockTypes, Excluded, Held
<1>7. CASE Truncate
  <2>1. asked' = 0 /\ granted' = 0
    BY <1>7 DEF Truncate
  <2>2. Held' = {}
    BY <2>1 DEF Held
  <2> QED BY <1>1, <1>2, <1>3, <2>1, <2>2 DEF LockInv, LockTypes, Excluded
<1> QED BY <1>4, <1>5, <1>6, <1>7 DEF Reset

(* The detector fails one statement of a cycle.                            *)
LEMMA DetectLocks ==
  ASSUME LockInv, NEW a \in Actors, Detect(a)
  PROVE  LockInv'
<1>1. LockTypes /\ LocksFit /\ Excluded
  BY DEF LockInv
<1>2. CASE asked' = 0 /\ granted' = 0 /\ locks' = locks /\ pc' = pc
  <2>1. Held' = {}
    BY <1>2 DEF Held
  <2> QED BY <1>1, <1>2, <2>1 DEF LockInv, LockTypes, LocksFit, Excluded
<1>3. CASE /\ Release(a)
           /\ IF a \in Analysts THEN Goto(a, "finish") ELSE Goto(a, "idle")
           /\ UNCHANGED <<asked, granted>>
  <2>1. CASE a \in Analysts
    BY <1>3, <2>1, ReleaseHolds DEF Release, Goto
  <2>2. CASE a \notin Analysts
    BY <1>3, <2>2, ReleaseHolds DEF Release, Goto
  <2> QED BY <2>1, <2>2
<1> QED BY <1>2, <1>3 DEF Detect

LEMMA LocksHold == LockInv /\ [Next]_vars => LockInv'
<1> SUFFICES ASSUME LockInv, [Next]_vars PROVE LockInv'
  OBVIOUS
<1>1. ASSUME NEW c \in Collectors, Fetch(c) \/ Poll(c) PROVE LockInv'
  BY <1>1, PollLocks
<1>2. ASSUME NEW a \in Analysts, BeginRun(a) \/ Run(a) PROVE LockInv'
  BY <1>2, RunLocks
<1>3. ASSUME NEW r \in Readers, AskStatus(r) \/ Request(r) PROVE LockInv'
  BY <1>3, RequestLocks
<1>4. CASE BeginReset \/ Reset
  BY <1>4, ResetLocks
<1>5. ASSUME NEW a \in Actors, Detect(a) PROVE LockInv'
  BY <1>5, DetectLocks
<1>6. CASE UNCHANGED vars
  BY <1>6 DEF vars, resetVars, LockInv, LockTypes, LocksFit, Excluded, Held
<1> QED BY <1>1, <1>2, <1>3, <1>4, <1>5, <1>6 DEF Next

LEMMA LocksInit == Init => LockInv
<1> SUFFICES ASSUME Init PROVE LockInv
  OBVIOUS
<1>1. Held = {}
  BY DEF Init, Held
<1>2. LockTypes
  BY ActorKinds DEF Init, LockTypes, Steps, PollSteps, RunSteps, RequestSteps
<1>3. LocksFit
  BY DEF Init, LocksFit, Fits, Asking
<1>4. Excluded
  BY <1>1 DEF Excluded
<1> QED BY <1>2, <1>3, <1>4 DEF LockInv

(* When the TRUNCATE has all its locks, no transaction is past its first   *)
(* statement.                                                              *)
LEMMA NobodyInside ==
  ASSUME LockInv, Truncate
  PROVE  /\ Held = Tables
         /\ \A a \in Analysts : pc[a] \notin {"delete", "insert"}
         /\ \A r \in Readers : pc[r] \notin Asking
<1>1. Held = Tables
  BY TablesInOrder, AllHeld DEF Truncate
<1>2. \A a \in Actors : locks[a] = {}
  BY <1>1 DEF LockInv, LockTypes, Excluded
<1>3. \A a \in Actors : Fits(pc[a], {})
  BY <1>2 DEF LockInv, LocksFit
<1> QED BY <1>1, <1>3, ActorKinds DEF Fits, Logbook

-----------------------------------------------------------------------------
(* The log. *)

Logs == [at : Nat, by : Collectors \cup {"none"}, ok : BOOLEAN]

PollTypes ==
    /\ clock \in Nat
    /\ poll \in [Collectors -> Logs]
    /\ \A c \in Collectors : poll[c].at <= clock

BookTypes ==
    /\ logs \subseteq Logs /\ IsFiniteSet(logs)
    /\ \A l \in logs : l.at <= clock

LogTypes == PollTypes /\ BookTypes

(* Only a commit and a reset change what the collectors store.             *)
LEMMA StoreChanges ==
  ASSUME [Next]_vars
  PROVE  \/ UNCHANGED <<logs, snapshots, positions>>
         \/ \E c \in Collectors : CommitPoll(c)
         \/ Truncate
<1>1. ASSUME NEW c \in Collectors, Fetch(c) \/ Poll(c)
      PROVE  CommitPoll(c) \/ UNCHANGED <<logs, snapshots, positions>>
  BY <1>1 DEF Fetch, Poll, Persist, stored
<1>2. ASSUME NEW a \in Analysts, BeginRun(a) \/ Run(a)
      PROVE  UNCHANGED <<logs, snapshots, positions>>
  BY <1>2 DEF BeginRun, Run, ReadPositions, DeleteRows, InsertRows, FinishRun, stored
<1>3. ASSUME NEW r \in Readers, AskStatus(r) \/ Request(r)
      PROVE  UNCHANGED <<logs, snapshots, positions>>
  BY <1>3 DEF AskStatus, Request, Query, Respond, stored
<1>4. CASE BeginReset \/ GrantLock \/ AskLock
  BY <1>4 DEF BeginReset, GrantLock, AskLock, stored
<1>5. ASSUME NEW a \in Actors, Detect(a)
      PROVE  UNCHANGED <<logs, snapshots, positions>>
  BY <1>5 DEF Detect, stored
<1>6. CASE UNCHANGED vars
  BY <1>6 DEF vars, stored
<1> QED BY <1>1, <1>2, <1>3, <1>4, <1>5, <1>6 DEF Next, Reset

(* And only a fetch moves the clock, or gives a collector a log to write.  *)
LEMMA PollChanges ==
  ASSUME [Next]_vars
  PROVE  \/ UNCHANGED <<clock, poll>>
         \/ \E c \in Collectors : Fetch(c)
         \/ /\ clock' = clock
            /\ \E c \in Collectors : poll' = [poll EXCEPT ![c] = NoLog]
         \/ /\ clock' = clock
            /\ \E a : poll' = [c \in Collectors |-> IF c = a THEN NoLog ELSE poll[c]]
<1>1. ASSUME NEW c \in Collectors, Fetch(c) \/ Poll(c)
      PROVE  \/ Fetch(c)
             \/ UNCHANGED <<clock, poll>>
             \/ clock' = clock /\ poll' = [poll EXCEPT ![c] = NoLog]
  BY <1>1 DEF Poll, Persist, CommitPoll
<1>2. ASSUME NEW a \in Analysts, BeginRun(a) \/ Run(a)
      PROVE  UNCHANGED <<clock, poll>>
  BY <1>2 DEF BeginRun, Run, ReadPositions, DeleteRows, InsertRows, FinishRun
<1>3. ASSUME NEW r \in Readers, AskStatus(r) \/ Request(r)
      PROVE  UNCHANGED <<clock, poll>>
  BY <1>3 DEF AskStatus, Request, Query, Respond
<1>4. CASE BeginReset \/ Reset
  BY <1>4 DEF BeginReset, Reset, GrantLock, AskLock, Truncate
<1>5. ASSUME NEW a \in Actors, Detect(a)
      PROVE  /\ clock' = clock
             /\ \/ poll' = poll
                \/ poll' = [c \in Collectors |-> IF c = a THEN NoLog ELSE poll[c]]
  BY <1>5 DEF Detect
<1>6. CASE UNCHANGED vars
  BY <1>6 DEF vars
<1> QED BY <1>1, <1>2, <1>3, <1>4, <1>5, <1>6 DEF Next

LEMMA NoLogTyped == NoLog \in Logs /\ NoLog.at = 0 /\ NoLog.ok = FALSE
  BY DEF NoLog, Logs

LEMMA LogTypesHold ==
  ASSUME LogTypes, [Next]_vars
  PROVE  LogTypes'
<1> USE DEF LogTypes
<1>1. PollTypes' /\ clock <= clock'
  <2>1. CASE UNCHANGED <<clock, poll>>
    BY <2>1 DEF PollTypes, BookTypes
  <2>2. ASSUME NEW c \in Collectors, Fetch(c)
        PROVE  PollTypes' /\ clock <= clock'
    <3>1. PICK ok \in BOOLEAN : poll' = [poll EXCEPT ![c] = [at |-> clock', by |-> c, ok |-> ok]]
      BY <2>2 DEF Fetch
    <3>2. clock' = clock + 1
      BY <2>2 DEF Fetch
    <3>3. [at |-> clock', by |-> c, ok |-> ok] \in Logs
      BY <3>2 DEF PollTypes, BookTypes, Logs
    <3>4. \A d \in Collectors : poll'[d] = IF d = c THEN [at |-> clock', by |-> c, ok |-> ok]
                                                    ELSE poll[d]
      BY <3>1 DEF PollTypes, BookTypes
    <3>5. \A d \in Collectors : poll[d].at \in Nat
      BY DEF PollTypes, BookTypes, Logs
    <3> QED BY <3>1, <3>2, <3>3, <3>4, <3>5 DEF PollTypes, BookTypes
  <2>3. ASSUME NEW a, clock' = clock,
               \/ a \in Collectors /\ poll' = [poll EXCEPT ![a] = NoLog]
               \/ poll' = [c \in Collectors |-> IF c = a THEN NoLog ELSE poll[c]]
        PROVE  PollTypes' /\ clock <= clock'
    <3>1. /\ poll' \in [Collectors -> Logs]
          /\ \A d \in Collectors : poll'[d] = NoLog \/ poll'[d] = poll[d]
      BY <2>3, NoLogTyped DEF PollTypes, BookTypes
    <3> QED BY <2>3, <3>1, NoLogTyped DEF PollTypes, BookTypes
  <2> QED BY <2>1, <2>2, <2>3, PollChanges
<1>2. BookTypes'
  <2>1. CASE logs' = logs \/ logs' = {}
    <3>1. IsFiniteSet(logs')
      BY <2>1, FS_EmptySet DEF PollTypes, BookTypes
    <3>2. \A l \in logs : l.at \in Nat
      BY DEF PollTypes, BookTypes, Logs
    <3> QED BY <1>1, <2>1, <3>1, <3>2 DEF PollTypes, BookTypes
  <2>2. ASSUME NEW c \in Collectors, CommitPoll(c)
        PROVE  BookTypes'
    <3>1. logs' = logs \cup {poll[c]} /\ clock' = clock
      BY <2>2 DEF CommitPoll
    <3>2. IsFiniteSet(logs')
      BY <3>1, FS_AddElement DEF PollTypes, BookTypes
    <3> QED BY <3>1, <3>2 DEF PollTypes, BookTypes
  <2> QED BY <2>1, <2>2, StoreChanges DEF Truncate
<1> QED BY <1>1, <1>2

(* A commit adds a poll with its snapshot and rows, or none of these; a    *)
(* reset removes all.                                                      *)
LEMMA WholeHolds ==
  ASSUME LockInv, PollsWhole, [Next]_vars
  PROVE  PollsWhole'
<1>1. CASE UNCHANGED <<logs, snapshots, positions>>
  BY <1>1 DEF PollsWhole
<1>2. ASSUME NEW c \in Collectors, CommitPoll(c) PROVE PollsWhole'
  <2>1. /\ logs' = logs \cup {poll[c]}
        /\ snapshots' = IF poll[c].ok THEN snapshots \cup {poll[c]} ELSE snapshots
        /\ positions' = IF poll[c].ok THEN positions \cup {poll[c]} ELSE positions
    BY <1>2 DEF CommitPoll
  <2>2. CASE poll[c].ok
    BY <2>1, <2>2 DEF PollsWhole
  <2>3. CASE ~poll[c].ok
    BY <2>1, <2>3 DEF PollsWhole
  <2> QED BY <2>2, <2>3
<1>3. CASE Truncate
  <2>1. logs' = {} /\ snapshots' = {} /\ positions' = {}
    BY <1>3, NobodyInside DEF Truncate, Tables
  <2> QED BY <2>1 DEF PollsWhole
<1> QED BY <1>1, <1>2, <1>3, StoreChanges

-----------------------------------------------------------------------------
(* The trajectories. *)

RunInv ==
    /\ runSeq \in Nat /\ DOMAIN runs = 1..runSeq
    /\ \A i \in DOMAIN runs : runs[i] \in Analysts
    /\ got \in [Analysts -> SUBSET Logs]
    /\ \A a \in Analysts : pc[a] \in {"delete", "insert"} => got[a] \subseteq positions
    /\ \A r \in rows : /\ r.run \in DOMAIN runs
                       /\ r.by \in Analysts
                       /\ r.from \subseteq positions

(* Without a reset the positions grow, and with one no run has read any.   *)
LEMMA PositionsGrow ==
  ASSUME [Next]_vars, ~Truncate
  PROVE  positions \subseteq positions' /\ logs \subseteq logs'
  BY StoreChanges DEF CommitPoll

LEMMA RunFrame ==
  ASSUME RunInv, UNCHANGED <<runs, runSeq, rows, got>>, positions \subseteq positions',
         \A a \in Analysts : pc'[a] \in {"delete", "insert"} => pc[a] \in {"delete", "insert"}
  PROVE  RunInv'
  BY DEF RunInv

LEMMA RunHolds ==
  ASSUME LockInv, LogTypes, PollsWhole, RunInv, [Next]_vars
  PROVE  RunInv'
<1>1. pc \in [Actors -> Steps]
  BY DEF LockInv, LockTypes
<1>2. CASE Truncate
  <2>1. runs' = << >> /\ rows' = {} /\ runSeq' = 0 /\ got' = got /\ pc' = pc
    BY <1>2, NobodyInside DEF Truncate, Tables
  <2>2. \A a \in Analysts : pc[a] \notin {"delete", "insert"}
    BY <1>2, NobodyInside
  <2>3. DOMAIN << >> = 1..0 /\ 1..0 = {}
    OBVIOUS
  <2> QED BY <2>1, <2>2, <2>3 DEF RunInv
<1>3. CASE ~Truncate
  <2>1. positions \subseteq positions'
    BY <1>3, PositionsGrow
  <2>2. ASSUME NEW c \in Collectors, Fetch(c) \/ Poll(c) PROVE RunInv'
    <3>1. \E to : pc' = [pc EXCEPT ![c] = to]
      BY <2>2 DEF Fetch, Poll, Persist, CommitPoll, Goto
    <3>2. \A a \in Analysts : pc'[a] = pc[a]
      BY <1>1, <3>1, ActorKinds
    <3>3. UNCHANGED <<runs, runSeq, rows, got>>
      BY <2>2 DEF Fetch, Poll, Persist, CommitPoll, stored
    <3> QED BY <2>1, <3>2, <3>3, RunFrame
  <2>3. ASSUME NEW r \in Readers, AskStatus(r) \/ Request(r) PROVE RunInv'
    <3>1. \E to : pc' = [pc EXCEPT ![r] = to]
      BY <2>3, QuerySteps DEF AskStatus, Request, Respond, Goto
    <3>2. \A a \in Analysts : pc'[a] = pc[a]
      BY <1>1, <3>1, ActorKinds
    <3>3. UNCHANGED <<runs, runSeq, rows, got>>
      BY <2>3 DEF AskStatus, Request, Query, Respond, stored
    <3> QED BY <2>1, <3>2, <3>3, RunFrame
  <2>4. CASE BeginReset \/ GrantLock \/ AskLock
    <3>1. UNCHANGED <<runs, runSeq, rows, got, pc>>
      BY <2>4 DEF BeginReset, GrantLock, AskLock, stored
    <3> QED BY <2>1, <3>1, RunFrame
  <2>5. CASE UNCHANGED vars
    <3>1. UNCHANGED <<runs, runSeq, rows, got, pc>>
      BY <2>5 DEF vars, stored
    <3> QED BY <2>1, <3>1, RunFrame
  <2>6. ASSUME NEW a \in Actors, Detect(a) PROVE RunInv'
    <3>1. UNCHANGED <<runs, runSeq, rows, positions>>
      BY <2>6 DEF Detect, stored
    <3>2. CASE UNCHANGED <<pc, got>>
      BY <2>1, <3>1, <3>2, RunFrame
    <3>3. CASE /\ IF a \in Analysts THEN Goto(a, "finish") ELSE Goto(a, "idle")
               /\ got' = [b \in Analysts |-> IF b = a THEN {} ELSE got[b]]
      <4>1. \A b \in Analysts : pc'[b] \in {"delete", "insert"} => b # a /\ pc'[b] = pc[b]
        BY <1>1, <3>3, ActorKinds DEF Goto
      <4>2. got' \in [Analysts -> SUBSET Logs] /\ \A b \in Analysts : b # a => got'[b] = got[b]
        BY <3>3 DEF RunInv
      <4> QED BY <3>1, <4>1, <4>2 DEF RunInv
    <3> QED BY <2>6, <3>2, <3>3 DEF Detect
  <2>7. ASSUME NEW a \in Analysts, BeginRun(a) PROVE RunInv'
    <3>1. /\ runSeq' = runSeq + 1
          /\ runs' = [i \in DOMAIN runs \cup {runSeq'} |-> IF i = runSeq' THEN a ELSE runs[i]]
          /\ pc' = [pc EXCEPT ![a] = "read"]
          /\ UNCHANGED <<rows, got, positions>>
      BY <2>7 DEF BeginRun, Goto
    <3>2. /\ DOMAIN runs' = 1..runSeq' /\ runSeq' \in Nat
          /\ DOMAIN runs \subseteq DOMAIN runs'
          /\ \A i \in DOMAIN runs' : runs'[i] \in Analysts
      BY <3>1 DEF RunInv
    <3>3. \A b \in Analysts : pc'[b] \in {"delete", "insert"} => pc'[b] = pc[b]
      BY <1>1, <3>1, ActorKinds
    <3> QED BY <3>1, <3>2, <3>3 DEF RunInv
  <2>8. ASSUME NEW a \in Analysts, ReadPositions(a) PROVE RunInv'
    <3>1. /\ got' = [got EXCEPT ![a] = positions]
          /\ \E to : pc' = [pc EXCEPT ![a] = to]
          /\ UNCHANGED <<rows, runs, runSeq, positions>>
      BY <2>8 DEF ReadPositions, Goto, stored
    <3>2. \A b \in Analysts : b # a => pc'[b] = pc[b] /\ got'[b] = got[b]
      BY <1>1, <3>1, ActorKinds DEF RunInv
    <3>3. positions \subseteq Logs
      BY DEF LogTypes, BookTypes, PollsWhole
    <3>4. got' \in [Analysts -> SUBSET Logs] /\ got'[a] = positions
      BY <3>1, <3>3 DEF RunInv
    <3> QED BY <3>1, <3>2, <3>4 DEF RunInv
  <2>9. ASSUME NEW a \in Analysts, DeleteRows(a) PROVE RunInv'
    <3>1. /\ pc[a] = "delete" /\ pc' = [pc EXCEPT ![a] = "insert"]
          /\ UNCHANGED <<runs, runSeq, rows, got>>
      BY <2>9 DEF DeleteRows, Goto, stored
    <3>2. \A b \in Analysts : b # a => pc'[b] = pc[b]
      BY <1>1, <3>1, ActorKinds
    <3> QED BY <2>1, <3>1, <3>2, RunFrame
  <2>10. ASSUME NEW a \in Analysts, InsertRows(a) PROVE RunInv'
    <3>1. /\ pc[a] = "insert" /\ pc' = [pc EXCEPT ![a] = "finish"]
          /\ rows' = IF run[a] \in DOMAIN runs
                     THEN {[run |-> run[a], by |-> a, from |-> got[a]]}
                     ELSE rows
          /\ UNCHANGED <<runs, runSeq, got, positions>>
      BY <2>10 DEF InsertRows, Goto
    <3>2. \A b \in Analysts : pc'[b] \in {"delete", "insert"} => pc'[b] = pc[b]
      BY <1>1, <3>1, ActorKinds
    <3>3. got[a] \subseteq positions
      BY <3>1 DEF RunInv
    <3> QED BY <3>1, <3>2, <3>3 DEF RunInv
  <2>11. ASSUME NEW a \in Analysts, FinishRun(a) PROVE RunInv'
    <3>1. /\ pc' = [pc EXCEPT ![a] = "idle"] /\ got' = [got EXCEPT ![a] = {}]
          /\ UNCHANGED <<runs, runSeq, rows, positions>>
      BY <2>11 DEF FinishRun, Goto, stored
    <3>2. \A b \in Analysts : pc'[b] \in {"delete", "insert"} => pc'[b] = pc[b] /\ b # a
      BY <1>1, <3>1, ActorKinds
    <3>3. got' \in [Analysts -> SUBSET Logs] /\ \A b \in Analysts : b # a => got'[b] = got[b]
      BY <3>1 DEF RunInv
    <3> QED BY <3>1, <3>2, <3>3 DEF RunInv
  <2> QED BY <1>3, <2>2, <2>3, <2>4, <2>5, <2>6, <2>7, <2>8, <2>9, <2>10, <2>11
          DEF Next, Run, Reset
<1> QED BY <1>2, <1>3

-----------------------------------------------------------------------------
(* The status. *)

(* A set of natural numbers that is not empty has a least member.          *)
LEMMA LeastMember ==
  ASSUME NEW T, T \subseteq Nat, T # {}
  PROVE  \E m \in T : \A k \in T : m <= k
<1> DEFINE R == {ss \in Nat \X Nat : ss[1] < ss[2]}
<1>1. IsWellFoundedOn(R, Nat)
  BY NatLessThanWellFounded DEF OpToRel
<1>2. \A x, y \in Nat : <<x, y>> \in R <=> x < y
  OBVIOUS
<1> HIDE DEF R
<1>3. PICK m \in T : \A k \in T : ~(<<k, m>> \in R)
  BY <1>1, WFMin
<1>4. \A k \in T : ~(k < m)
  BY <1>2, <1>3
<1> QED BY <1>4

(* Some logs of a set are no earlier than any other.                       *)
LEMMA LatestExists ==
  ASSUME NEW S \in SUBSET Logs, S # {}, NEW bound \in Nat, \A l \in S : l.at <= bound
  PROVE  \E l \in S : \A m \in S : m.at <= l.at
<1> DEFINE T == {bound - l.at : l \in S}
<1>1. \A l \in S : l.at \in Nat
  BY DEF Logs
<1>2. T \subseteq Nat /\ T # {}
  BY <1>1
<1>3. PICK t \in T : \A k \in T : t <= k
  <2> HIDE DEF T
  <2> QED BY <1>2, LeastMember
<1>4. PICK l \in S : t = bound - l.at
  OBVIOUS
<1>5. \A m \in S : bound - l.at <= bound - m.at
  <2>1. \A m \in S : bound - m.at \in T
    OBVIOUS
  <2> HIDE DEF T
  <2> QED BY <1>3, <1>4, <2>1
<1>6. \A m \in S : m.at <= l.at
  BY <1>1, <1>5
<1> QED BY <1>6

LEMMA LatestIsLast ==
  ASSUME NEW S \in SUBSET Logs, NEW bound \in Nat, \A l \in S : l.at <= bound
  PROVE  /\ Latest(S) \in Logs
         /\ S = {} => Latest(S) = NoLog
         /\ S # {} => Latest(S) \in S
         /\ \A m \in S : m.at <= Latest(S).at
<1>1. CASE S = {}
  BY <1>1, NoLogTyped DEF Latest
<1>2. CASE S # {}
  <2>1. \E l \in S : \A m \in S : m.at <= l.at
    BY <1>2, LatestExists
  <2>2. Latest(S) \in S /\ \A m \in S : m.at <= Latest(S).at
    BY <1>2, <2>1 DEF Latest
  <2> QED BY <1>2, <2>2
<1> QED BY <1>1, <1>2

(* The list of the newest holds the last one and, ties or not, as many as  *)
(* the limit asks for: what is later than the last log left out of it is   *)
(* all in it (recent_fetches).                                             *)
LEMMA NewestAreEnough ==
  ASSUME NEW S \in SUBSET Logs, IsFiniteSet(S),
         NEW bound \in Nat, \A l \in S : l.at <= bound
  PROVE  /\ Newest(S) \in SUBSET S /\ IsFiniteSet(Newest(S))
         /\ S # {} => Latest(S) \in Newest(S)
         /\ Cardinality(S) \in Nat /\ Cardinality(Newest(S)) \in Nat
         /\ \/ Cardinality(Newest(S)) >= Limit
            \/ Cardinality(Newest(S)) >= Cardinality(S)
<1> DEFINE Later(l) == {m \in S : m.at > l.at}
<1>1. Newest(S) \in SUBSET S /\ IsFiniteSet(Newest(S))
  <2>1. Newest(S) \in SUBSET S
    BY DEF Newest
  <2> QED BY <2>1, FS_Subset
<1>2. Cardinality(S) \in Nat /\ Cardinality(Newest(S)) \in Nat
  BY <1>1, FS_CardinalityType
<1>3. Limit \in Nat \ {0}
  BY CountsAssumption
<1>4. \A l \in S : l.at \in Nat
  BY DEF Logs
<1>5. ASSUME S # {} PROVE Latest(S) \in Newest(S)
  <2>1. Latest(S) \in S /\ \A m \in S : m.at <= Latest(S).at
    BY <1>5, LatestIsLast
  <2>2. Later(Latest(S)) = {}
    BY <1>4, <2>1
  <2>3. Cardinality({m \in S : m.at > Latest(S).at}) < Limit
    BY <1>3, <2>2, FS_EmptySet
  <2> QED BY <2>1, <2>3 DEF Newest
<1>6. CASE Newest(S) = S
  BY <1>1, <1>2, <1>5, <1>6
<1>7. CASE Newest(S) # S
  <2> DEFINE Rest == S \ Newest(S)
  <2>1. Rest \in SUBSET Logs /\ Rest # {} /\ \A l \in Rest : l.at <= bound
    BY <1>1, <1>7
  <2>2. PICK l \in Rest : \A m \in Rest : m.at <= l.at
    <3> HIDE DEF Rest
    <3> QED BY <2>1, LatestExists
  <2>3. Later(l) \in SUBSET Newest(S)
    BY <1>4, <2>2
  <2>4. IsFiniteSet(Later(l)) /\ Cardinality(Later(l)) \in Nat
    <3>1. Later(l) \in SUBSET S
      OBVIOUS
    <3> HIDE DEF Later
    <3> QED BY <3>1, FS_Subset, FS_CardinalityType
  <2>5. Cardinality(Later(l)) >= Limit
    <3>1. ~(Cardinality({m \in S : m.at > l.at}) < Limit)
      BY <2>2 DEF Newest
    <3> QED BY <1>3, <2>4, <3>1
  <2>6. Cardinality(Later(l)) <= Cardinality(Newest(S))
    <3> HIDE DEF Later
    <3> QED BY <1>1, <2>3, FS_Subset
  <2>7. Cardinality(Newest(S)) >= Limit
    <3> HIDE DEF Later
    <3> QED BY <1>2, <1>3, <2>4, <2>5, <2>6
  <2> QED BY <1>1, <1>2, <1>5, <2>7
<1> QED BY <1>6, <1>7

Statuses == [since : Nat, last : Logs, good : Logs, total : Nat, succ : Nat,
             recent : SUBSET Logs]

(* What a request has found by the statement it is at.                     *)
Coherent(label, s) ==
    /\ label \in Asking \cup {"last"} => s.since > 0
    /\ label \in Asking => s.last \in logs \cup {NoLog}
    /\ label \in {"hour", "recent", "respond"} =>
          (s.last.ok => s.last.at <= s.good.at)
    /\ label \in {"recent", "respond"} =>
          /\ s.last.at >= s.since => s.total > 0 /\ (s.last.ok => s.succ > 0)
          /\ s.total <= Cardinality(logs)
    /\ label = "respond" =>
          /\ s.last.at <= Latest(s.recent).at
          /\ Cardinality(s.recent) >= IF s.total < Limit THEN s.total ELSE Limit

StatusInv ==
    /\ status \in [Readers -> Statuses]
    /\ \A r \in Readers : Coherent(pc[r], status[r])

(* What a request has found stays right while the log grows.               *)
LEMMA CoherentStays ==
  ASSUME NEW label, NEW s \in Statuses, Coherent(label, s),
         IsFiniteSet(logs'), logs \subseteq logs'
  PROVE  Coherent(label, s)'
<1>1. Cardinality(logs) <= Cardinality(logs')
  BY FS_Subset
<1>2. Cardinality(logs) \in Nat /\ Cardinality(logs') \in Nat
  BY FS_Subset, FS_CardinalityType
<1>3. s.total \in Nat
  BY DEF Statuses
<1>4. s.total <= Cardinality(logs) => s.total <= Cardinality(logs')
  BY <1>1, <1>2, <1>3
<1> QED BY <1>4 DEF Coherent

(* Each query adds to what the ones before it have found.                  *)
LEMMA QueryCoherent ==
  ASSUME LogTypes, NEW s \in Statuses
  PROVE  /\ Coherent("last", s) => /\ Found("last", s) \in Statuses
                                   /\ Coherent("good", Found("last", s))
         /\ Coherent("good", s) => /\ Found("good", s) \in Statuses
                                   /\ Coherent("hour", Found("good", s))
         /\ Coherent("hour", s) => /\ Found("hour", s) \in Statuses
                                   /\ Coherent("recent", Found("hour", s))
         /\ Coherent("recent", s) => /\ Found("recent", s) \in Statuses
                                     /\ Coherent("respond", Found("recent", s))
<1>1. /\ logs \in SUBSET Logs /\ clock \in Nat /\ \A l \in logs : l.at <= clock
      /\ IsFiniteSet(logs)
  BY DEF LogTypes, PollTypes, BookTypes
<1>2. \A l \in Logs : l.at \in Nat
  BY DEF Logs
<1>3. ASSUME Coherent("last", s)
      PROVE  Found("last", s) \in Statuses /\ Coherent("good", Found("last", s))
  <2> DEFINE f == Found("last", s)
  <2>1. f = [s EXCEPT !.last = Latest(logs)]
    BY DEF Found
  <2>2. Latest(logs) \in Logs /\ Latest(logs) \in logs \cup {NoLog}
    BY <1>1, LatestIsLast
  <2>3. f \in Statuses /\ f.last = Latest(logs) /\ f.since = s.since
    BY <2>1, <2>2 DEF Statuses
  <2> HIDE DEF f
  <2>4. Coherent("good", f)
    BY <1>3, <2>2, <2>3 DEF Coherent, Asking
  <2> QED BY <2>3, <2>4 DEF f
<1>4. ASSUME Coherent("good", s)
      PROVE  Found("good", s) \in Statuses /\ Coherent("hour", Found("good", s))
  <2> DEFINE f == Found("good", s)
             good == {l \in logs : l.ok}
  <2>1. f = [s EXCEPT !.good = Latest(good)]
    BY DEF Found
  <2>2. good \in SUBSET Logs /\ \A l \in good : l.at <= clock
    BY <1>1
  <2>3. Latest(good) \in Logs /\ \A l \in good : l.at <= Latest(good).at
    <3> HIDE DEF good
    <3> QED BY <1>1, <2>2, LatestIsLast
  <2>4. /\ f \in Statuses /\ f.last = s.last /\ f.since = s.since
        /\ f.good = Latest(good)
    BY <2>1, <2>3 DEF Statuses
  <2> HIDE DEF f
  <2>5. s.last.ok => s.last \in good
    BY <1>4, NoLogTyped DEF Coherent, Asking
  <2>6. Coherent("hour", f)
    <3> HIDE DEF good
    <3> QED BY <1>4, <2>3, <2>4, <2>5 DEF Coherent, Asking
  <2> QED BY <2>4, <2>6 DEF f
<1>5. ASSUME Coherent("hour", s)
      PROVE  Found("hour", s) \in Statuses /\ Coherent("recent", Found("hour", s))
  <2> DEFINE f == Found("hour", s)
             inHour == {l \in logs : l.at >= s.since}
             good == {l \in inHour : l.ok}
  <2>1. f = [s EXCEPT !.total = Cardinality(inHour), !.succ = Cardinality(good)]
    BY DEF Found
  <2>2. inHour \in SUBSET logs /\ good \in SUBSET logs
    OBVIOUS
  <2>3. s.last.at >= s.since => s.last \in inHour /\ (s.last.ok => s.last \in good)
    BY <1>5, NoLogTyped DEF Coherent, Asking, Statuses
  <2> HIDE DEF inHour, good
  <2>4. /\ Cardinality(inHour) \in Nat /\ Cardinality(good) \in Nat
        /\ Cardinality(logs) \in Nat /\ Cardinality(inHour) <= Cardinality(logs)
        /\ inHour # {} => Cardinality(inHour) > 0
        /\ good # {} => Cardinality(good) > 0
    <3>1. IsFiniteSet(inHour) /\ IsFiniteSet(good)
      BY <1>1, <2>2, FS_Subset
    <3>2. /\ Cardinality(inHour) \in Nat /\ Cardinality(good) \in Nat
          /\ Cardinality(logs) \in Nat
      BY <1>1, <3>1, FS_CardinalityType
    <3>3. Cardinality(inHour) <= Cardinality(logs)
      BY <1>1, <2>2, FS_Subset
    <3>4. /\ Cardinality(inHour) = 0 => inHour = {}
          /\ Cardinality(good) = 0 => good = {}
      BY <3>1, FS_EmptySet
    <3> QED BY <3>2, <3>3, <3>4
  <2>5. /\ f \in Statuses /\ f.last = s.last /\ f.since = s.since /\ f.good = s.good
        /\ f.total = Cardinality(inHour) /\ f.succ = Cardinality(good)
    BY <2>1, <2>4 DEF Statuses
  <2> HIDE DEF f
  <2>6. Coherent("recent", f)
    BY <1>5, <2>3, <2>4, <2>5 DEF Coherent, Asking
  <2> QED BY <2>5, <2>6 DEF f
<1>6. ASSUME Coherent("recent", s)
      PROVE  Found("recent", s) \in Statuses /\ Coherent("respond", Found("recent", s))
  <2> DEFINE f == Found("recent", s)
             new == Newest(logs)
  <2>1. f = [s EXCEPT !.recent = new]
    BY DEF Found
  <2>2. /\ new \in SUBSET logs
        /\ logs # {} => Latest(logs) \in new
        /\ Cardinality(logs) \in Nat /\ Cardinality(new) \in Nat
        /\ Cardinality(new) >= Limit \/ Cardinality(new) >= Cardinality(logs)
    BY <1>1, NewestAreEnough
  <2> HIDE DEF new
  <2>3. new \in SUBSET Logs /\ \A l \in new : l.at <= clock
    BY <1>1, <2>2
  <2>4. /\ f \in Statuses /\ f.last = s.last /\ f.since = s.since /\ f.good = s.good
        /\ f.total = s.total /\ f.succ = s.succ /\ f.recent = new
    BY <2>1, <2>3 DEF Statuses
  <2> HIDE DEF f
  <2>5. s.last.at <= Latest(new).at
    <3>1. Latest(new) \in Logs /\ \A l \in new : l.at <= Latest(new).at
      BY <1>1, <2>3, LatestIsLast
    <3>2. CASE s.last = NoLog
      BY <1>2, <3>1, <3>2, NoLogTyped
    <3>3. CASE s.last \in logs
      <4>1. Latest(logs) \in logs /\ s.last.at <= Latest(logs).at
        BY <1>1, <3>3, LatestIsLast
      <4>2. Latest(logs).at <= Latest(new).at
        BY <2>2, <3>1, <3>3
      <4> QED BY <1>1, <1>2, <3>1, <3>3, <4>1, <4>2
    <3> QED BY <1>6, <3>2, <3>3 DEF Coherent, Asking
  <2>6. Cardinality(new) >= IF s.total < Limit THEN s.total ELSE Limit
    <3>1. s.total \in Nat /\ s.total <= Cardinality(logs) /\ Limit \in Nat
      BY <1>6, CountsAssumption DEF Coherent, Statuses
    <3> QED BY <2>2, <3>1
  <2>7. Coherent("respond", f)
    BY <1>6, <2>4, <2>5, <2>6 DEF Coherent, Asking
  <2> QED BY <2>4, <2>7 DEF f
<1> QED BY <1>3, <1>4, <1>5, <1>6

(* Requests that go on as they are.                                        *)
LEMMA StatusFrame ==
  ASSUME LogTypes', StatusInv, logs \subseteq logs', status' = status,
         \A r \in Readers : pc'[r] = pc[r]
  PROVE  StatusInv'
<1> SUFFICES ASSUME NEW r \in Readers PROVE Coherent(pc[r], status[r])'
  BY DEF StatusInv
<1>1. PICK s \in Statuses : s = status[r]
  BY DEF StatusInv
<1>2. PICK label : label = pc[r]
  OBVIOUS
<1>3. Coherent(label, s)'
  BY <1>1, <1>2, CoherentStays DEF StatusInv, LogTypes, BookTypes
<1> QED BY <1>1, <1>2, <1>3

LEMMA NoStatusCoherent == NoStatus \in Statuses /\ Coherent("idle", NoStatus)
  BY NoLogTyped DEF NoStatus, Statuses, Coherent, Asking

LEMMA StatusHolds ==
  ASSUME LockInv, LogTypes, LogTypes', StatusInv, [Next]_vars
  PROVE  StatusInv'
<1>1. pc \in [Actors -> Steps] /\ status \in [Readers -> Statuses]
  BY DEF LockInv, LockTypes, StatusInv
<1>2. CASE Truncate
  <2>1. pc' = pc /\ status' = status
    BY <1>2 DEF Truncate
  <2>2. \A r \in Readers : pc[r] \notin Asking
    BY <1>2, NobodyInside
  <2> QED BY <2>1, <2>2 DEF StatusInv, Coherent, Asking
<1>3. CASE ~Truncate
  <2>1. logs \subseteq logs'
    BY <1>3, PositionsGrow
  <2>2. ASSUME NEW c \in Collectors, Fetch(c) \/ Poll(c) PROVE StatusInv'
    <3>1. \E to : pc' = [pc EXCEPT ![c] = to]
      BY <2>2 DEF Fetch, Poll, Persist, CommitPoll, Goto
    <3>2. \A r \in Readers : pc'[r] = pc[r]
      BY <1>1, <3>1, ActorKinds
    <3>3. status' = status
      BY <2>2 DEF Fetch, Poll, Persist, CommitPoll
    <3> QED BY <2>1, <3>2, <3>3, StatusFrame
  <2>3. ASSUME NEW a \in Analysts, BeginRun(a) \/ Run(a) PROVE StatusInv'
    <3>1. \E to : pc' = [pc EXCEPT ![a] = to]
      BY <2>3 DEF BeginRun, Run, ReadPositions, DeleteRows, InsertRows, FinishRun, Goto
    <3>2. \A r \in Readers : pc'[r] = pc[r]
      BY <1>1, <3>1, ActorKinds
    <3>3. status' = status
      BY <2>3 DEF BeginRun, Run, ReadPositions, DeleteRows, InsertRows, FinishRun
    <3> QED BY <2>1, <3>2, <3>3, StatusFrame
  <2>4. CASE BeginReset \/ GrantLock \/ AskLock \/ UNCHANGED vars
    <3>1. UNCHANGED <<status, pc>>
      BY <2>4 DEF BeginReset, GrantLock, AskLock, vars
    <3> QED BY <2>1, <3>1, StatusFrame
  <2>5. ASSUME NEW r \in Readers, NEW to, NEW s \in Statuses,
               pc' = [pc EXCEPT ![r] = to], status' = [status EXCEPT ![r] = s],
               logs' = logs, Coherent(to, s)
        PROVE  StatusInv'
    <3>1. /\ status' \in [Readers -> Statuses]
          /\ pc'[r] = to /\ status'[r] = s
          /\ \A q \in Readers : q # r => pc'[q] = pc[q] /\ status'[q] = status[q]
      BY <1>1, <2>5, ActorKinds
    <3>2. Coherent(to, s)'
      BY <2>5 DEF Coherent
    <3>3. ASSUME NEW q \in Readers PROVE Coherent(pc[q], status[q])'
      <4>1. CASE q = r
        BY <3>1, <3>2, <4>1
      <4>2. CASE q # r
        BY <2>5, <3>1, <4>2 DEF StatusInv, Coherent
      <4> QED BY <4>1, <4>2
    <3> QED BY <3>1, <3>3 DEF StatusInv
  <2>6. ASSUME NEW a \in Actors, Detect(a) PROVE StatusInv'
    <3>1. logs' = logs
      BY <2>6 DEF Detect, stored
    <3>2. CASE UNCHANGED <<pc, status>>
      BY <2>1, <3>2, StatusFrame
    <3>3. CASE /\ IF a \in Analysts THEN Goto(a, "finish") ELSE Goto(a, "idle")
               /\ status' = [r \in Readers |-> IF r = a THEN NoStatus ELSE status[r]]
      <4>1. CASE a \in Readers
        <5>1. pc' = [pc EXCEPT ![a] = "idle"]
          BY <3>3, <4>1, ActorKinds DEF Goto
        <5>2. status' = [status EXCEPT ![a] = NoStatus]
          BY <1>1, <3>3, <4>1
        <5> QED BY <2>5, <3>1, <4>1, <5>1, <5>2, NoStatusCoherent
      <4>2. CASE a \notin Readers
        <5>1. status' = status
          BY <1>1, <3>3, <4>2
        <5>2. \A r \in Readers : pc'[r] = pc[r]
          BY <1>1, <3>3, <4>2, ActorKinds DEF Goto
        <5> QED BY <2>1, <5>1, <5>2, StatusFrame
      <4> QED BY <4>1, <4>2
    <3> QED BY <2>6, <3>2, <3>3 DEF Detect
  <2>7. ASSUME NEW r \in Readers, AskStatus(r) PROVE StatusInv'
    <3>1. PICK since \in 1..clock : status' = [status EXCEPT ![r] = [NoStatus EXCEPT !.since = since]]
      BY <2>7 DEF AskStatus
    <3>2. pc' = [pc EXCEPT ![r] = "last"] /\ logs' = logs
      BY <2>7 DEF AskStatus, Goto, Queries, stored
    <3> DEFINE s == [NoStatus EXCEPT !.since = since]
    <3>3. s \in Statuses /\ s.since > 0
      BY NoStatusCoherent DEF LogTypes, PollTypes, NoStatus, Statuses
    <3>4. status' = [status EXCEPT ![r] = s]
      BY <3>1
    <3> HIDE DEF s
    <3>5. Coherent("last", s)
      BY <3>3 DEF Coherent, Asking
    <3> QED BY <2>5, <3>2, <3>3, <3>4, <3>5
  <2>8. ASSUME NEW r \in Readers, Query(r) PROVE StatusInv'
    <3>1. logs' = logs
      BY <2>8 DEF Query, stored
    <3>2. PICK s \in Statuses : s = status[r]
      BY <1>1
    <3>3. Coherent(pc[r], s)
      BY <3>2 DEF StatusInv
    <3>4. CASE /\ pc[r] = "last" /\ pc' = [pc EXCEPT ![r] = "good"]
               /\ status' = [status EXCEPT ![r] = Found("last", @)]
      BY <2>5, <3>1, <3>2, <3>3, <3>4, QueryCoherent
    <3>5. CASE /\ pc[r] = "good" /\ pc' = [pc EXCEPT ![r] = "hour"]
               /\ status' = [status EXCEPT ![r] = Found("good", @)]
      BY <2>5, <3>1, <3>2, <3>3, <3>5, QueryCoherent
    <3>6. CASE /\ pc[r] = "hour" /\ pc' = [pc EXCEPT ![r] = "recent"]
               /\ status' = [status EXCEPT ![r] = Found("hour", @)]
      BY <2>5, <3>1, <3>2, <3>3, <3>6, QueryCoherent
    <3>7. CASE /\ pc[r] = "recent" /\ pc' = [pc EXCEPT ![r] = "respond"]
               /\ status' = [status EXCEPT ![r] = Found("recent", @)]
      BY <2>5, <3>1, <3>2, <3>3, <3>7, QueryCoherent
    <3> QED BY <2>8, <3>4, <3>5, <3>6, <3>7, QuerySteps
  <2>9. ASSUME NEW r \in Readers, Respond(r) PROVE StatusInv'
    <3>1. /\ pc' = [pc EXCEPT ![r] = "idle"] /\ status' = [status EXCEPT ![r] = NoStatus]
          /\ logs' = logs
      BY <2>9 DEF Respond, Goto, stored
    <3> QED BY <2>5, <3>1, NoStatusCoherent
  <2> QED BY <1>3, <2>2, <2>3, <2>4, <2>6, <2>7, <2>8, <2>9 DEF Next, Request, Reset
<1> QED BY <1>2, <1>3

-----------------------------------------------------------------------------
(* The theorems. *)

IInv ==
    /\ LockInv
    /\ LogTypes
    /\ PollsWhole
    /\ RunInv
    /\ StatusInv

LEMMA InitHolds == Init => IInv
<1> SUFFICES ASSUME Init PROVE IInv
  OBVIOUS
<1>1. LogTypes
  BY NoLogTyped, FS_EmptySet DEF Init, LogTypes, PollTypes, BookTypes
<1>2. PollsWhole
  BY DEF Init, PollsWhole
<1>3. RunInv
  <2>1. DOMAIN << >> = 1..0 /\ 1..0 = {}
    OBVIOUS
  <2>2. \A a \in Analysts : pc[a] = "idle"
    BY ActorKinds DEF Init
  <2> QED BY <2>1, <2>2 DEF Init, RunInv
<1>4. StatusInv
  <2>1. \A r \in Readers : pc[r] = "idle" /\ status[r] = NoStatus
    BY ActorKinds DEF Init
  <2>2. status \in [Readers -> Statuses]
    BY NoStatusCoherent DEF Init
  <2> QED BY <2>1, <2>2, NoStatusCoherent DEF StatusInv
<1> QED BY <1>1, <1>2, <1>3, <1>4, LocksInit DEF IInv

(* Who holds what, what the TRUNCATE has been granted, and what is stored  *)
(* and found behind those locks.                                           *)
THEOREM Invariant == Spec => []IInv
<1>1. Init => IInv
  BY InitHolds
<1>2. IInv /\ [Next]_vars => IInv'
  <2> SUFFICES ASSUME IInv, [Next]_vars PROVE IInv'
    OBVIOUS
  <2>1. LockInv'
    BY LocksHold DEF IInv
  <2>2. LogTypes'
    BY LogTypesHold DEF IInv
  <2>3. PollsWhole'
    BY WholeHolds DEF IInv
  <2>4. RunInv'
    BY RunHolds DEF IInv
  <2>5. StatusInv'
    BY <2>2, StatusHolds DEF IInv
  <2> QED BY <2>1, <2>2, <2>3, <2>4, <2>5 DEF IInv
<1> QED BY <1>1, <1>2, PTL DEF Spec

(* Resets between its statements or not, a poll is stored whole            *)
(* (persist_once, db_reset.py).                                            *)
THEOREM PollsAreWhole == Spec => []PollsWhole
<1>1. IInv => PollsWhole
  BY DEF IInv
<1> QED BY <1>1, Invariant, PTL

(* With one process that runs the analytics a trajectory belongs to that   *)
(* process's run and rests on positions that are stored (run_for_date).    *)
(* Of more than one, what remains is in RunInv: the run is there, but      *)
(* another analyst may have been given its id.                             *)
THEOREM TrajectoriesAreTraceable ==
  ASSUME \A a, b \in Analysts : a = b
  PROVE  Spec => []TrajectoriesTraceable
<1>1. IInv => TrajectoriesTraceable
  BY DEF IInv, RunInv, TrajectoriesTraceable
<1> QED BY <1>1, Invariant, PTL

(* The four answers of a status agree, as the log only grows under the lock*)
(* that its first query takes (feed_status, recent_fetches).               *)
THEOREM StatusIsCoherent == Spec => []CoherentStatus
<1>1. IInv => CoherentStatus
  BY ActorKinds DEF IInv, StatusInv, Coherent, CoherentStatus
<1> QED BY <1>1, Invariant, PTL

=============================================================================
