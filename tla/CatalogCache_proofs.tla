------------------------- MODULE CatalogCache_proofs -------------------------
(***************************************************************************)
(* The age of the catalogs that the API answers with, for any number of    *)
(* threads and any durations with Slow < Ttl.                              *)
(***************************************************************************)
EXTENDS CatalogCache, TLAPS

(* Init establishes the invariant.                                         *)
LEMMA InitHolds == Init => IInv
<1> USE TimesAssumption
<1> SUFFICES ASSUME Init PROVE IInv
  OBVIOUS
<1>1. TypeOK
  BY DEF Init, TypeOK
<1>2. cache.stamp <= now /\ cache.stamp <= cache.catalog + Agg
  BY DEF Init
<1>3. ASSUME NEW t \in Threads PROVE Holds(t)
  <2>1. pc[t] = "idle" /\ since[t] = 0 /\ now = 0
    BY DEF Init
  <2> QED BY <2>1 DEF Holds
<1>4. CatalogAge
  BY DEF Init, CatalogAge
<1> QED BY <1>1, <1>2, <1>3, <1>4 DEF IInv

(* Time passes only while no thread is late.                               *)
LEMMA TickHolds == IInv /\ Tick => IInv'
<1> USE TimesAssumption
<1> SUFFICES ASSUME IInv, Tick PROVE IInv'
  OBVIOUS
<1> USE DEF IInv, TypeOK
<1>1. TypeOK'
  BY DEF Tick
<1>2. (cache.stamp <= now /\ cache.stamp <= cache.catalog + Agg)'
  BY DEF Tick
<1>3. ASSUME NEW t \in Threads PROVE Holds(t)'
  <2>1. Holds(t) /\ (pc[t] # "idle" => now < since[t] + Within(t))
    BY DEF Tick
  <2>2. now' = now + 1 /\ Within(t)' = Within(t) /\ Within(t) \in Nat
    BY DEF Tick, Within
  <2>3. UNCHANGED <<cache, pc, since, clock, out>>
    BY DEF Tick
  <2> QED BY <2>1, <2>2, <2>3 DEF Holds
<1>4. CatalogAge'
  BY DEF Tick, CatalogAge
<1> QED BY <1>1, <1>2, <1>3, <1>4

(* A step of a thread that leaves the pair alone keeps what the others know.*)
LEMMA OthersHold ==
    ASSUME NEW t \in Threads, NEW u \in Threads, u # t,
           TypeOK, Holds(u),
           UNCHANGED now,
           pc'[u] = pc[u], since'[u] = since[u], clock'[u] = clock[u], out'[u] = out[u],
           cache.full => cache'.full,
           cache'.stamp \in Nat,
           cache' = cache \/ now < cache'.stamp + Ttl
    PROVE  Holds(u)'
<1> USE TimesAssumption DEF TypeOK
<1>1. Within(u)' = Within(u)
  BY DEF Within
<1>2. pc[u] = "take" => clock[u] < cache'.stamp + Ttl
  <2>1. CASE cache' = cache
    BY <2>1 DEF Holds
  <2>2. CASE now < cache'.stamp + Ttl
    <3>1. pc[u] = "take" => clock[u] <= now
      BY DEF Holds
    <3> QED BY <2>2, <3>1
  <2> QED BY <2>1, <2>2
<1> QED BY <1>1, <1>2 DEF Holds

(* Every step of a thread keeps the invariant.                             *)
LEMMA ThreadHolds == ASSUME NEW t \in Threads PROVE IInv /\ Thread(t) => IInv'
<1> USE TimesAssumption
<1> SUFFICES ASSUME IInv, Thread(t) PROVE IInv'
  OBVIOUS
<1> USE DEF IInv, TypeOK
<1>0. Holds(t) /\ now \in Nat /\ since[t] \in Nat /\ clock[t] \in Nat /\ out[t] \in Nat
  OBVIOUS
<1>1. /\ now' = now
      /\ since' = [since EXCEPT ![t] = now]
      /\ since'[t] = now
      /\ \A u \in Threads : u # t => pc'[u] = pc[u] /\ since'[u] = since[u]
                                      /\ clock'[u] = clock[u] /\ out'[u] = out[u]
  BY DEF Thread, Ask, AskAfresh, ReadClock, Compare, Take, Query, Stamp, Store, Respond, Step
<1>2. \/ cache' = cache
      \/ /\ cache' = [full |-> TRUE, stamp |-> clock[t], catalog |-> out[t]]
         /\ pc[t] = "store"
  BY DEF Thread, Ask, AskAfresh, ReadClock, Compare, Take, Query, Stamp, Store, Respond, Step
<1>3. TypeOK'
  <2>1. pc' \in [Threads -> {"idle", "clock", "compare", "take", "query", "stamp", "store", "answer"}]
    BY DEF Thread, Ask, AskAfresh, ReadClock, Compare, Take, Query, Stamp, Store, Respond, Step
  <2>2. clock' \in [Threads -> Nat] /\ out' \in [Threads -> Nat]
    BY DEF Thread, Ask, AskAfresh, ReadClock, Compare, Take, Query, Stamp, Store, Respond, Step
  <2>3. /\ cache' \in [full : BOOLEAN, stamp : Nat, catalog : Nat]
        /\ cache'.catalog <= cache'.stamp
    <3>1. CASE cache' = cache
      BY <3>1
    <3>2. CASE /\ cache' = [full |-> TRUE, stamp |-> clock[t], catalog |-> out[t]]
               /\ pc[t] = "store"
      <4>1. out[t] <= clock[t]
        BY <3>2, <1>0 DEF Holds
      <4> QED BY <3>2, <4>1, <1>0
    <3> QED BY <3>1, <3>2, <1>2
  <2> QED BY <2>1, <2>2, <2>3, <1>1
<1>4. /\ cache'.stamp <= now
      /\ cache'.stamp <= cache'.catalog + Agg
      /\ cache.full => cache'.full
      /\ cache' = cache \/ now < cache'.stamp + Ttl
  BY <1>0, <1>2 DEF Holds, Within
<1>5. \A u \in Threads : u # t => Holds(u)'
  BY <1>1, <1>3, <1>4, OthersHold
<1>6. Holds(t)' /\ (pc'[t] = "answer" => now <= out'[t] + Ttl + Agg + 2 * Slow)
  <2>1. CASE Ask(t)
    BY <1>0, <1>1, <2>1 DEF Ask, Step, Holds, Within
  <2>2. CASE ReadClock(t)
    BY <1>0, <1>1, <2>2 DEF ReadClock, Step, Holds, Within
  <2>3. CASE Compare(t)
    BY <1>0, <1>1, <2>3 DEF Compare, Step, Holds, Within
  <2>4. CASE Take(t)
    BY <1>0, <1>1, <2>4 DEF Take, Step, Holds, Within
  <2>5. CASE Query(t)
    BY <1>0, <1>1, <2>5 DEF Query, Step, Holds, Within
  <2>6. CASE Stamp(t)
    BY <1>0, <1>1, <2>6 DEF Stamp, Step, Holds, Within
  <2>7. CASE Store(t)
    BY <1>0, <1>1, <2>7 DEF Store, Step, Holds, Within
  <2>8. CASE Respond(t)
    BY <1>0, <1>1, <2>8 DEF Respond, Step, Holds, Within
  <2>9. CASE AskAfresh(t)
    BY <1>0, <1>1, <2>9 DEF AskAfresh, Step, Holds, Within
  <2> QED BY <2>1, <2>2, <2>3, <2>4, <2>5, <2>6, <2>7, <2>8, <2>9 DEF Thread
<1>7. CatalogAge'
  BY <1>1, <1>3, <1>6 DEF CatalogAge
<1> QED BY <1>1, <1>3, <1>4, <1>5, <1>6, <1>7

(* The invariant is inductive.                                             *)
LEMMA NextHolds == IInv /\ [Next]_vars => IInv'
<1> SUFFICES ASSUME IInv, [Next]_vars PROVE IInv'
  OBVIOUS
<1>1. CASE Next
  BY <1>1, TickHolds, ThreadHolds DEF Next
<1>2. CASE UNCHANGED vars
  BY <1>2 DEF vars, IInv, TypeOK, CatalogAge, Holds, Within
<1> QED BY <1>1, <1>2

(* The invariant holds in every state.                                     *)
THEOREM Invariant == Spec => []IInv
<1> QED BY InitHolds, NextHolds, PTL DEF Spec

(* However the threads of list_route_catalog interleave, no answer is older*)
(* than the lifetime of an entry, one query and two steps.                 *)
THEOREM AnswersBounded == Spec => []CatalogAge
<1>1. IInv => CatalogAge
  BY DEF IInv
<1> QED BY <1>1, Invariant, PTL

(* Each variable keeps its type.                                           *)
THEOREM TypeCorrect == Spec => []TypeOK
<1>1. IInv => TypeOK
  BY DEF IInv
<1> QED BY <1>1, Invariant, PTL

(* An entry is unexpired at the moment list_route_catalog stores it,       *)
(* however slow its query was.                                             *)
THEOREM StoresValid == Spec => StoredValid
<1> USE TimesAssumption
<1>1. ASSUME IInv, Next PROVE cache' # cache => now < cache'.stamp + Ttl
  <2>1. CASE Tick
    BY <2>1 DEF Tick
  <2>2. ASSUME NEW t \in Threads, Thread(t), cache' # cache
        PROVE  now < cache'.stamp + Ttl
    <3>1. pc[t] = "store" /\ cache'.stamp = clock[t]
      BY <2>2 DEF Thread, Ask, AskAfresh, ReadClock, Compare, Take, Query, Stamp, Store, Respond, Step
    <3>2. Holds(t) /\ since[t] \in Nat /\ now \in Nat /\ clock[t] \in Nat
      BY <1>1 DEF IInv, TypeOK
    <3> QED BY <3>1, <3>2 DEF Holds, Within
  <2> QED BY <1>1, <2>1, <2>2 DEF Next
<1>2. IInv /\ [Next]_vars => [cache' # cache => now < cache'.stamp + Ttl]_vars
  BY <1>1
<1> QED BY <1>2, Invariant, PTL DEF Spec, StoredValid
=============================================================================
