---------------------------- MODULE CatalogCache ----------------------------
(***************************************************************************)
(* The route catalog of the API (list_route_catalog, db/queries/iroam.py): *)
(* a process-wide pair of a stamp and a catalog, read and replaced by the  *)
(* request threads without a lock. A catalog is known by the time at which *)
(* its query saw the database. What a thread does in one step, every access *)
(* to the pair or the clock is one, takes it at most Slow, the query Agg.  *)
(***************************************************************************)
EXTENDS Naturals

CONSTANTS
    Threads,
    Ttl,        \* _CATALOG_TTL_S
    Agg,        \* longest query
    Slow,       \* longest time between two other steps of a request
    MaxTime     \* bound

ASSUME TimesAssumption ==
    /\ Ttl \in Nat
    /\ Agg \in Nat
    /\ Slow \in Nat
    /\ Slow < Ttl
    /\ MaxTime \in Nat

VARIABLES
    now,        \* time.monotonic()
    cache,      \* _catalog_cache; none until full
    pc,
    since,      \* when the thread took its last step
    clock,      \* the time it read, for the comparison or for the stamp
    out         \* the catalog it has queried or returns

vars == <<now, cache, pc, since, clock, out>>

Init ==
    /\ now = 0
    /\ cache = [full |-> FALSE, stamp |-> 0, catalog |-> 0]
    /\ pc = [t \in Threads |-> "idle"]
    /\ since = [t \in Threads |-> 0]
    /\ clock = [t \in Threads |-> 0]
    /\ out = [t \in Threads |-> 0]

Within(t) == IF pc[t] = "stamp" THEN Agg ELSE Slow

Tick ==
    /\ now < MaxTime
    /\ \A t \in Threads : pc[t] # "idle" => now < since[t] + Within(t)
    /\ now' = now + 1
    /\ UNCHANGED <<cache, pc, since, clock, out>>

Step(t, from, to) ==
    /\ pc[t] = from
    /\ pc' = [pc EXCEPT ![t] = to]
    /\ since' = [since EXCEPT ![t] = now]

(* The pair is read for None, for its stamp and for its catalog: three      *)
(* reads, which may see different pairs.                                   *)
Ask(t) ==
    /\ Step(t, "idle", IF cache.full THEN "clock" ELSE "query")
    /\ UNCHANGED <<now, cache, clock, out>>

(* With use_cache=False the pair is not asked, and still replaced.         *)
AskAfresh(t) ==
    /\ Step(t, "idle", "query")
    /\ UNCHANGED <<now, cache, clock, out>>

ReadClock(t) ==
    /\ Step(t, "clock", "compare")
    /\ clock' = [clock EXCEPT ![t] = now]
    /\ UNCHANGED <<now, cache, out>>

Compare(t) ==
    /\ Step(t, "compare", IF clock[t] < cache.stamp + Ttl THEN "take" ELSE "query")
    /\ UNCHANGED <<now, cache, clock, out>>

(* Mutant: a hit renews the stamp.                                         *)
TakeAndRenew(t) ==
    /\ Step(t, "take", "answer")
    /\ out' = [out EXCEPT ![t] = cache.catalog]
    /\ cache' = [cache EXCEPT !.stamp = now]
    /\ UNCHANGED <<now, clock>>

Take(t) ==
    /\ Step(t, "take", "answer")
    /\ out' = [out EXCEPT ![t] = cache.catalog]
    /\ UNCHANGED <<now, cache, clock>>

Query(t) ==
    /\ Step(t, "query", "stamp")
    /\ out' = [out EXCEPT ![t] = now]
    /\ UNCHANGED <<now, cache, clock>>

(* Mutant: the stamp is the time before the query.                         *)
StampKept(t) ==
    /\ Step(t, "stamp", "store")
    /\ clock' = [clock EXCEPT ![t] = out[t]]
    /\ UNCHANGED <<now, cache, out>>

Stamp(t) ==
    /\ Step(t, "stamp", "store")
    /\ clock' = [clock EXCEPT ![t] = now]
    /\ UNCHANGED <<now, cache, out>>

Store(t) ==
    /\ Step(t, "store", "answer")
    /\ cache' = [full |-> TRUE, stamp |-> clock[t], catalog |-> out[t]]
    /\ UNCHANGED <<now, clock, out>>

Respond(t) ==
    /\ Step(t, "answer", "idle")
    /\ UNCHANGED <<now, cache, clock, out>>

Thread(t) ==
    \/ Ask(t) \/ AskAfresh(t) \/ ReadClock(t) \/ Compare(t) \/ Take(t)
    \/ Query(t) \/ Stamp(t) \/ Store(t) \/ Respond(t)

Next == Tick \/ \E t \in Threads : Thread(t)

Spec == Init /\ [][Next]_vars

-----------------------------------------------------------------------------
(* Each variable has its type, and a stamp is no earlier than its query.   *)
TypeOK ==
    /\ now \in Nat
    /\ cache \in [full : BOOLEAN, stamp : Nat, catalog : Nat]
    /\ pc \in [Threads -> {"idle", "clock", "compare", "take", "query", "stamp", "store", "answer"}]
    /\ since \in [Threads -> Nat]
    /\ clock \in [Threads -> Nat]
    /\ out \in [Threads -> Nat]
    /\ cache.catalog <= cache.stamp

(* However the threads interleave, an answer is no older than the lifetime *)
(* of an entry, one query and two steps: also when a late store replaces a *)
(* newer pair, or the pair changes between its check and its use.          *)
CatalogAge ==
    \A t \in Threads : pc[t] = "answer" => since[t] <= out[t] + Ttl + Agg + 2 * Slow

(* Every thread has taken its last step in time, and what a thread on its   *)
(* way knows of the age of what it holds; while it goes to take the        *)
(* catalog, the pair may be replaced, but only by one with a late stamp.   *)
Holds(t) ==
    /\ since[t] <= now
    /\ pc[t] # "idle" => now <= since[t] + Within(t)
    /\ pc[t] \in {"clock", "compare", "take"} => cache.full
    /\ pc[t] = "compare" => clock[t] = since[t]
    /\ pc[t] = "take" => /\ clock[t] < cache.stamp + Ttl
                         /\ clock[t] <= since[t]
                         /\ since[t] <= clock[t] + Slow
    /\ pc[t] = "stamp" => out[t] = since[t]
    /\ pc[t] = "store" => clock[t] = since[t] /\ out[t] <= clock[t] /\ clock[t] <= out[t] + Agg

IInv ==
    /\ TypeOK
    /\ cache.stamp <= now
    /\ cache.stamp <= cache.catalog + Agg
    /\ \A t \in Threads : Holds(t)
    /\ CatalogAge

(* An entry is valid when it is stored, however slow its query ("a slow     *)
(* aggregation can't expire its own entry", iroam.py).                     *)
StoredValid ==
    [][cache' # cache => now < cache'.stamp + Ttl]_vars
=============================================================================
