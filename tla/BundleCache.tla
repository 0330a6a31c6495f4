---------------------------- MODULE BundleCache ----------------------------
(***************************************************************************)
(* The static GTFS bundle and what one process caches of it: _load and     *)
(* _shape_linestrings (gtfs_static.py) and _compute_route_stops            *)
(* (stop_projection.py), each an lru_cache keyed by bundle_token(), the    *)
(* largest timestamp of the bundle's files. The directory is rewritten in  *)
(* place by another process (download_ttc_gtfs) while the threads of this  *)
(* one stat its files, read them and store what they derive.               *)
(***************************************************************************)
EXTENDS Naturals, FiniteSets

CONSTANTS
    Files,          \* the .txt files of the bundle
    Shapes,         \* shapes.txt
    Threads,        \* threads of the process that serve requests
    Requests,       \* the requests each thread serves
    Before,         \* Before[f]: files that _load reads before f
    Capacity,       \* maxsize of each lru_cache
    MaxDownloads,   \* bound: rewritings of the directory
    MaxRequests     \* bound: requests

Levels == {"bundle", "lines", "stops"}

ASSUME BundleAssumption ==
    /\ Shapes \in Files
    /\ IsFiniteSet(Files)
    /\ Requests \in [Threads -> SUBSET {"run", "lines", "stops"}]
    /\ Before \in [Files -> SUBSET Files]
    /\ Capacity \in [Levels -> Nat \ {0}]
    /\ MaxDownloads \in Nat
    /\ MaxRequests \in Nat

VARIABLES
    disk,           \* content and timestamp of each file
    clock,          \* time of the latest write
    release,        \* the bundle being extracted, or the last one that was
    todo,           \* files the extraction has still to write
    open,           \* the file it is writing, if any
    asked,          \* requests so far
    cache,          \* the three caches: sets of entries
    pc,
    req,            \* the request a thread serves
    call,           \* the cached function it evaluates
    tok,            \* the token each of its calls was made with
    left,           \* files it has still to stat or to read
    buf,            \* what its call of _load has read or returned
    val,            \* what its calls have returned
    clean           \* no extraction overlaps the request (only for the
                    \* properties)

diskVars   == <<disk, clock, release, todo, open>>
threadVars == <<pc, req, call, tok, left, buf, val, clean>>
vars       == <<diskVars, asked, cache, threadVars>>

(* Content 0 is a file cut short, n > 0 the file as release n ships it.    *)
CutShort == 0
Content  == 0..MaxDownloads + 1
View     == UNION {[part -> Content] : part \in SUBSET Files}
Nothing  == [f \in {} |-> CutShort]
Entry    == [key : Nat, val : View]

Extracting == todo # {} \/ open # {}

Init ==
    /\ disk = [f \in Files |-> [content |-> 1, mtime |-> 1]]
    /\ clock = 1
    /\ release = 1
    /\ todo = {}
    /\ open = {}
    /\ asked = 0
    /\ cache = [l \in Levels |-> {}]
    /\ pc = [t \in Threads |-> "idle"]
    /\ req = [t \in Threads |-> "none"]
    /\ call = [t \in Threads |-> "bundle"]
    /\ tok = [t \in Threads |-> [l \in Levels |-> 0]]
    /\ left = [t \in Threads |-> {}]
    /\ buf = [t \in Threads |-> Nothing]
    /\ val = [t \in Threads |-> [l \in Levels |-> Nothing]]
    /\ clean = [t \in Threads |-> FALSE]

-----------------------------------------------------------------------------
(* download_ttc_gtfs: zf.extractall rewrites the files one after another,  *)
(* truncating each when it opens it. It may stop anywhere (a full disk, a  *)
(* killed process); the next one starts over.                              *)

Download ==
    /\ ~Extracting
    /\ release <= MaxDownloads
    /\ release' = release + 1
    /\ todo' = Files
    /\ clean' = [t \in Threads |-> FALSE]
    /\ UNCHANGED <<disk, clock, open, asked, cache, pc, req, call, tok, left, buf, val>>

Write(f, content) ==
    /\ clock' = clock + 1
    /\ disk' = [disk EXCEPT ![f] = [content |-> content, mtime |-> clock + 1]]

OpenFile(f) ==
    /\ open = {}
    /\ f \in todo
    /\ Write(f, CutShort)
    /\ open' = {f}
    /\ todo' = todo \ {f}
    /\ UNCHANGED <<release, asked, cache, threadVars>>

CloseFile(f) ==
    /\ f \in open
    /\ Write(f, release)
    /\ open' = {}
    /\ UNCHANGED <<release, todo, asked, cache, threadVars>>

DownloadFails ==
    /\ Extracting
    /\ todo' = {}
    /\ open' = {}
    /\ UNCHANGED <<disk, clock, release, asked, cache, threadVars>>

-----------------------------------------------------------------------------
(* A request of a thread. "run" is run_for_date: load_all, then            *)
(* load_shape_linestrings. "lines" is a trajectory with include=shape.     *)
(* "stops" is compute_route_stops, which on a miss makes the calls of a    *)
(* run, each with a token of its own.                                      *)

FirstCall(request) == IF request = "run" THEN "bundle" ELSE request

BeginToken(t, level) ==
    /\ pc' = [pc EXCEPT ![t] = "token"]
    /\ call' = [call EXCEPT ![t] = level]
    /\ left' = [left EXCEPT ![t] = Files]
    /\ tok' = [tok EXCEPT ![t][level] = 0]

Ask(t, request) ==
    /\ pc[t] = "idle"
    /\ asked < MaxRequests
    /\ asked' = asked + 1
    /\ req' = [req EXCEPT ![t] = request]
    /\ BeginToken(t, FirstCall(request))
    /\ clean' = [clean EXCEPT ![t] = ~Extracting]
    /\ UNCHANGED <<diskVars, cache, buf, val>>

EndRequest(t) ==
    /\ pc' = [pc EXCEPT ![t] = "idle"]
    /\ req' = [req EXCEPT ![t] = "none"]
    /\ call' = [call EXCEPT ![t] = "bundle"]
    /\ tok' = [tok EXCEPT ![t] = [l \in Levels |-> 0]]
    /\ left' = [left EXCEPT ![t] = {}]
    /\ buf' = [buf EXCEPT ![t] = Nothing]
    /\ val' = [val EXCEPT ![t] = [l \in Levels |-> Nothing]]
    /\ clean' = [clean EXCEPT ![t] = FALSE]
    /\ UNCHANGED <<diskVars, asked, cache>>

(* _dir_mtime_key: one stat per file, in the order of the directory.       *)
StatFile(t, f) ==
    /\ pc[t] = "token"
    /\ f \in left[t]
    /\ tok' = [tok EXCEPT ![t][call[t]] = IF disk[f].mtime > @ THEN disk[f].mtime ELSE @]
    /\ left' = [left EXCEPT ![t] = @ \ {f}]
    /\ UNCHANGED <<diskVars, asked, cache, pc, req, call, buf, val, clean>>

(* Mutant: the derived caches are not keyed by the token.                  *)
CachedUnkeyed(level, key) ==
    {e \in cache[level] : level = "bundle" => e.key = key}

Cached(level, key) == {e \in cache[level] : e.key = key}

(* The call has returned view: what the thread does next.                  *)
Return(t, view) ==
    /\ val' = [val EXCEPT ![t][call[t]] = view]
    /\ buf' = [buf EXCEPT ![t] = Nothing]
    /\ CASE call[t] = "bundle" -> BeginToken(t, "lines")
         [] call[t] = "lines" /\ req[t] = "stops" ->
                /\ pc' = [pc EXCEPT ![t] = "build"]
                /\ call' = [call EXCEPT ![t] = "stops"]
                /\ UNCHANGED <<tok, left>>
         [] OTHER -> /\ pc' = [pc EXCEPT ![t] = "answer"]
                     /\ UNCHANGED <<call, tok, left>>

(* _shape_linestrings and _compute_route_stops look themselves up; a miss  *)
(* calls _load, for the stops through load_all with a new token.           *)
Lookup(t) ==
    /\ pc[t] = "token"
    /\ left[t] = {}
    /\ call[t] # "bundle"
    /\ \/ \E e \in Cached(call[t], tok[t][call[t]]) : Return(t, e.val)
       \/ /\ Cached(call[t], tok[t][call[t]]) = {}
          /\ IF call[t] = "stops"
             THEN BeginToken(t, "bundle")
             ELSE pc' = [pc EXCEPT ![t] = "load"] /\ UNCHANGED <<call, tok, left>>
          /\ UNCHANGED <<buf, val>>
    /\ UNCHANGED <<diskVars, asked, cache, req, clean>>

(* _load under the token of the call: a hit, or the files one by one.      *)
Loading(t) ==
    \/ pc[t] = "load"
    \/ pc[t] = "token" /\ call[t] = "bundle" /\ left[t] = {}

Loaded(t, view) ==
    IF call[t] = "bundle"
    THEN Return(t, view)
    ELSE /\ buf' = [buf EXCEPT ![t] = view]
         /\ pc' = [pc EXCEPT ![t] = "build"]
         /\ UNCHANGED <<call, tok, left, val>>

LoadHit(t) ==
    /\ Loading(t)
    /\ \E e \in Cached("bundle", tok[t][call[t]]) : Loaded(t, e.val)
    /\ UNCHANGED <<diskVars, asked, cache, req, clean>>

LoadMiss(t) ==
    /\ Loading(t)
    /\ Cached("bundle", tok[t][call[t]]) = {}
    /\ pc' = [pc EXCEPT ![t] = "read"]
    /\ left' = [left EXCEPT ![t] = Files]
    /\ buf' = [buf EXCEPT ![t] = Nothing]
    /\ UNCHANGED <<diskVars, asked, cache, req, call, tok, val, clean>>

With(view, f, content) ==
    [g \in DOMAIN view \cup {f} |-> IF g = f THEN content ELSE view[g]]

NextToRead(t, f) ==
    /\ pc[t] = "read"
    /\ f \in left[t]
    /\ left[t] \cap Before[f] = {}

ReadFile(t, f) ==
    /\ NextToRead(t, f)
    /\ left' = [left EXCEPT ![t] = @ \ {f}]
    /\ buf' = [buf EXCEPT ![t] = With(@, f, disk[f].content)]
    /\ UNCHANGED <<diskVars, asked, cache, pc, req, call, tok, val, clean>>

(* The reader rejects a file cut short: nothing is cached, the request ends*)
ReadRaises(t, f) ==
    /\ NextToRead(t, f)
    /\ disk[f].content = CutShort
    /\ EndRequest(t)

(* Mutant: the token is computed when the entry is stored.                 *)
StoreUnderNow(level, key, view) ==
    \E f \in Files :
       /\ \A g \in Files : disk[g].mtime <= disk[f].mtime
       /\ cache' = [cache EXCEPT ![level] = {[key |-> disk[f].mtime, val |-> view]}]

(* lru_cache: the first store under a key stays; a full cache drops an     *)
(* entry (the least recently used one, any here).                          *)
Store(level, key, view) ==
    IF Cached(level, key) # {}
    THEN UNCHANGED cache
    ELSE \E kept \in SUBSET cache[level] :
            /\ IF Cardinality(cache[level]) < Capacity[level]
               THEN kept = cache[level]
               ELSE Cardinality(kept) = Capacity[level] - 1
            /\ cache' = [cache EXCEPT ![level] = kept \cup {[key |-> key, val |-> view]}]

StoreBundle(t) ==
    /\ pc[t] = "read"
    /\ left[t] = {}
    /\ Store("bundle", tok[t][call[t]], buf[t])
    /\ Loaded(t, buf[t])
    /\ UNCHANGED <<diskVars, asked, req, clean>>

(* build_linestrings of the shapes, or the stops of the bundle projected   *)
(* onto the shapes that load_shape_linestrings gave.                       *)
Derived(t) ==
    IF call[t] = "lines"
    THEN [f \in {Shapes} |-> buf[t][f]]
    ELSE [f \in Files |-> IF f = Shapes THEN val[t]["lines"][f] ELSE val[t]["bundle"][f]]

StoreDerived(t) ==
    /\ pc[t] = "build"
    /\ Store(call[t], tok[t][call[t]], Derived(t))
    /\ Return(t, Derived(t))
    /\ UNCHANGED <<diskVars, asked, req, clean>>

(* The views the answer rests on: of a run what both its calls returned.   *)
Answer(t) ==
    CASE req[t] = "run"   -> {val[t]["bundle"], val[t]["lines"]}
      [] req[t] = "lines" -> {val[t]["lines"]}
      [] req[t] = "stops" -> {val[t]["stops"]}

Respond(t) ==
    /\ pc[t] = "answer"
    /\ EndRequest(t)

Thread(t) ==
    \/ \E request \in Requests[t] : Ask(t, request)
    \/ \E f \in Files : StatFile(t, f) \/ ReadFile(t, f) \/ ReadRaises(t, f)
    \/ Lookup(t)
    \/ LoadHit(t)
    \/ LoadMiss(t)
    \/ StoreBundle(t)
    \/ StoreDerived(t)
    \/ Respond(t)

Next ==
    \/ Download
    \/ \E f \in Files : OpenFile(f) \/ CloseFile(f)
    \/ DownloadFails
    \/ \E t \in Threads : Thread(t)

Spec == Init /\ [][Next]_vars

-----------------------------------------------------------------------------
(* Each variable has its type; a cache holds one entry per key and no more *)
(* than its maxsize.                                                       *)
TypeOK ==
    /\ disk \in [Files -> [content : Content, mtime : Nat]]
    /\ clock \in Nat
    /\ release \in Nat
    /\ todo \in SUBSET Files
    /\ open \in SUBSET Files
    /\ pc \in [Threads -> {"idle", "token", "load", "read", "build", "answer"}]
    /\ req \in [Threads -> {"run", "lines", "stops", "none"}]
    /\ call \in [Threads -> Levels]
    /\ tok \in [Threads -> [Levels -> Nat]]
    /\ left \in [Threads -> SUBSET Files]
    /\ clean \in [Threads -> BOOLEAN]
    /\ \A l \in Levels :
          /\ Cardinality(cache[l]) <= Capacity[l]
          /\ \A d, e \in cache[l] : d.key = e.key => d = e

(* What was derived under a token agrees with the disk except on files     *)
(* rewritten after the token.                                              *)
Fresh(key, view) ==
    \A f \in DOMAIN view : view[f] = disk[f].content \/ disk[f].mtime > key

(* An entry is found again only while no file is newer than its key, so an *)
(* entry of a torn or a replaced bundle is never found once the extraction *)
(* is over: lru_cache on bundle_token (gtfs_static.py).                    *)
EntriesFresh ==
    \A l \in Levels : \A e \in cache[l] : Fresh(e.key, e.val)

(* The answers of requests that no extraction overlaps rest on the bundle  *)
(* on disk, whole: SafeRegister (the docstring of gtfs_static.py).         *)
Register == INSTANCE SafeRegister WITH
    Readers   <- Threads,
    Contents  <- [Files -> Content],
    Views     <- View,
    Rewritten <- Nothing,
    register  <- IF Extracting THEN Nothing ELSE [f \in Files |-> disk[f].content],
    reading   <- [t \in Threads |-> IF pc[t] = "idle" THEN "idle"
                                    ELSE IF pc[t] = "answer" THEN "done"
                                    ELSE IF clean[t] THEN "clean" ELSE "overlapped"],
    answer    <- [t \in Threads |-> IF pc[t] = "answer" THEN Answer(t) ELSE {}]

AnsweredFromOneBundle == Register!RegisterSpec
=============================================================================
