------------------------- MODULE BundleCache_proofs -------------------------
(***************************************************************************)
(* Proofs about BundleCache: what is cached under a token is never mixed   *)
(* up with a later bundle, and the caches implement SafeRegister.          *)
(***************************************************************************)
EXTENDS BundleCache, FiniteSetTheorems, TLAPS

(* The views of the three caches: whole bundles, or their shapes.          *)
Part(level) == IF level = "lines" THEN {Shapes} ELSE Files

Typed ==
    /\ disk \in [Files -> [content : Content, mtime : Nat]]
    /\ clock \in Nat
    /\ release \in Content
    /\ todo \in SUBSET Files
    /\ open \in SUBSET Files
    /\ cache \in [Levels -> SUBSET Entry]
    /\ pc \in [Threads -> {"idle", "token", "load", "read", "build", "answer"}]
    /\ req \in [Threads -> {"run", "lines", "stops", "none"}]
    /\ call \in [Threads -> Levels]
    /\ tok \in [Threads -> [Levels -> Nat]]
    /\ left \in [Threads -> SUBSET Files]
    /\ buf \in [Threads -> View]
    /\ val \in [Threads -> [Levels -> View]]
    /\ clean \in [Threads -> BOOLEAN]

(* Nothing bears a time that is still to come.                             *)
Past ==
    /\ \A f \in Files : disk[f].mtime <= clock
    /\ \A l \in Levels : \A e \in cache[l] : e.key <= clock
    /\ \A t \in Threads : \A l \in Levels : tok[t][l] <= clock

(* Where the calls of a request stand, and what they have returned so far. *)
Progress(t) ==
    /\ pc[t] = "idle" => clean[t] = FALSE /\ val[t] = [l \in Levels |-> Nothing]
    /\ pc[t] # "idle" => req[t] # "none"
    /\ pc[t] = "load" => call[t] = "lines"
    /\ pc[t] = "read" => call[t] \in {"bundle", "lines"} /\ DOMAIN buf[t] = Files \ left[t]
    /\ pc[t] = "build" =>
          \/ call[t] = "lines" /\ DOMAIN buf[t] = Files
          \/ call[t] = "stops" /\ DOMAIN val[t]["lines"] = {Shapes}
    /\ pc[t] \notin {"read", "build"} => buf[t] = Nothing
    /\ req[t] # "stops" => call[t] # "stops"
    /\ req[t] = "stops" /\ (call[t] = "lines" \/ pc[t] = "build") =>
          DOMAIN val[t]["bundle"] = Files
    /\ pc[t] = "token" /\ call[t] = "stops" =>
          val[t]["bundle"] = Nothing /\ val[t]["lines"] = Nothing

WholeEntries == \A l \in Levels : \A e \in cache[l] : DOMAIN e.val = Part(l)

(* The token of the call that the stops are made with is no newer than     *)
(* those of the calls it makes, as timestamps only grow.                   *)
Ordered(t) ==
    /\ \E f \in Files : tok[t]["stops"] <= disk[f].mtime
    /\ req[t] = "stops" /\ call[t] # "stops" =>
          /\ pc[t] = "token" =>
                \/ tok[t]["stops"] <= tok[t][call[t]]
                \/ \E f \in left[t] : tok[t]["stops"] <= disk[f].mtime
          /\ pc[t] \in {"load", "read", "build"} => tok[t]["stops"] <= tok[t][call[t]]

(* What a thread holds is fresh under the tokens it may be stored with.    *)
HeldFresh(t) ==
    /\ Fresh(tok[t][call[t]], buf[t])
    /\ req[t] = "stops" =>
          Fresh(tok[t]["stops"], val[t]["bundle"]) /\ Fresh(tok[t]["stops"], val[t]["lines"])

(* A request that no extraction overlaps has seen nothing but the disk.    *)
AsOnDisk(view) == \A f \in DOMAIN view : view[f] = disk[f].content

Undisturbed(t) ==
    clean[t] =>
       /\ ~Extracting
       /\ AsOnDisk(buf[t])
       /\ \A l \in Levels : AsOnDisk(val[t][l])
       /\ pc[t] = "token" => \A f \in Files \ left[t] : disk[f].mtime <= tok[t][call[t]]
       /\ pc[t] = "load" => \A f \in Files : disk[f].mtime <= tok[t][call[t]]

ThreadInv(t) == Progress(t) /\ Ordered(t) /\ HeldFresh(t) /\ Undisturbed(t)

IInv ==
    /\ Typed
    /\ Past
    /\ WholeEntries
    /\ EntriesFresh
    /\ \A t \in Threads : ThreadInv(t)

-----------------------------------------------------------------------------
(* A view is a function on some of the files.                              *)
LEMMA ViewIsFunction ==
    ASSUME NEW view
    PROVE  view \in View <=> \E part \in SUBSET Files : view \in [part -> Content]
BY DEF View

(* The empty view is a view.                                               *)
LEMMA NothingIsView == Nothing \in View /\ DOMAIN Nothing = {}
<1>1. Nothing \in [{} -> Content]  BY DEF Nothing
<1> QED  BY <1>1, ViewIsFunction

(* Rewriting a file keeps what was fresh, as its new timestamp is later    *)
(* than every key.                                                         *)
LEMMA WriteKeepsFresh ==
    ASSUME Typed, Past, NEW f \in Files, NEW content, Write(f, content),
           NEW key \in Nat, key <= clock, NEW view, Fresh(key, view),
           DOMAIN view \subseteq Files
    PROVE  Fresh(key, view)'
BY DEF Typed, Write, Fresh

(* Where the disk stays, what is fresh stays fresh.                        *)
LEMMA UnchangedKeepsFresh ==
    ASSUME UNCHANGED disk, NEW key, NEW view, Fresh(key, view)
    PROVE  Fresh(key, view)'
BY DEF Fresh

(* What is fresh under a token is fresh under every older one.             *)
LEMMA FreshUnderOlder ==
    ASSUME Typed, NEW key \in Nat, NEW older \in Nat, older <= key,
           NEW view, DOMAIN view \subseteq Files, Fresh(key, view)
    PROVE  Fresh(older, view)
BY DEF Typed, Fresh

(* What is stored under a token was fresh under it.                        *)
LEMMA StoreKeepsCache ==
    ASSUME Typed, Past, WholeEntries, EntriesFresh, UNCHANGED <<disk, clock>>,
           NEW level \in Levels, NEW key \in Nat, key <= clock,
           NEW view \in View, DOMAIN view = Part(level), Fresh(key, view),
           Store(level, key, view)
    PROVE  /\ cache' \in [Levels -> SUBSET Entry]
           /\ \A l \in Levels : \A e \in cache'[l] : e.key <= clock
           /\ WholeEntries'
           /\ EntriesFresh'
<1> DEFINE new == [key |-> key, val |-> view]
<1>1. new \in Entry  BY DEF Entry
<1>2. \E kept \in SUBSET cache[level] :
         \/ cache' = cache
         \/ cache' = [cache EXCEPT ![level] = kept \cup {new}]
  BY DEF Store
<1>3. PICK kept \in SUBSET cache[level] :
         \/ cache' = cache
         \/ cache' = [cache EXCEPT ![level] = kept \cup {new}]
  BY <1>2
<1>a. cache \in [Levels -> SUBSET Entry]  BY DEF Typed
<1>b. cache[level] \in SUBSET Entry  BY <1>a
<1> HIDE DEF new
<1>c. kept \cup {new} \in SUBSET Entry  BY <1>1, <1>b
<1>d. cache' \in [Levels -> SUBSET Entry]  BY <1>3, <1>a, <1>c
<1>4. \A l \in Levels : \A e \in cache'[l] : e \in cache[l] \/ (l = level /\ e = new)
  BY <1>3, <1>a
<1> USE DEF new
<1>5. \A l \in Levels : \A e \in cache'[l] : e.key <= clock
  BY <1>4 DEF Past
<1>6. WholeEntries'
  BY <1>4 DEF WholeEntries
<1>7. EntriesFresh'
  BY <1>4 DEF EntriesFresh, Fresh
<1> QED  BY <1>d, <1>5, <1>6, <1>7

-----------------------------------------------------------------------------
(* A step that leaves a thread and the disk alone keeps what is true of it.*)
LEMMA OthersKeep ==
    ASSUME NEW u, ThreadInv(u), UNCHANGED diskVars,
           pc'[u] = pc[u], req'[u] = req[u], call'[u] = call[u], tok'[u] = tok[u],
           left'[u] = left[u], buf'[u] = buf[u], val'[u] = val[u], clean'[u] = clean[u]
    PROVE  ThreadInv(u)'
<1>1. disk' = disk /\ todo' = todo /\ open' = open  BY DEF diskVars
<1>2. Progress(u)'  BY DEF ThreadInv, Progress
<1>3. Ordered(u)'  BY <1>1 DEF ThreadInv, Ordered
<1>4. HeldFresh(u)'  BY <1>1 DEF ThreadInv, HeldFresh, Fresh
<1>5. Undisturbed(u)'
  BY <1>1 DEF ThreadInv, Undisturbed, AsOnDisk, Extracting
<1> QED  BY <1>2, <1>3, <1>4, <1>5 DEF ThreadInv

(* A call that returns a view which is fresh under its token, and which is *)
(* the disk's if nothing overlaps the request, keeps the invariant.        *)
LEMMA ReturnKeeps ==
    ASSUME IInv, NEW t \in Threads, NEW view \in View, Return(t, view),
           UNCHANGED <<diskVars, req, clean>>,
           pc[t] # "idle", DOMAIN view = Part(call[t]),
           Fresh(tok[t][call[t]], view),
           clean[t] => AsOnDisk(view),
           req[t] = "stops" /\ call[t] # "stops" => tok[t]["stops"] <= tok[t][call[t]]
    PROVE  /\ pc' \in [Threads -> {"idle", "token", "load", "read", "build", "answer"}]
           /\ call' \in [Threads -> Levels]
           /\ tok' \in [Threads -> [Levels -> Nat]]
           /\ left' \in [Threads -> SUBSET Files]
           /\ buf' \in [Threads -> View]
           /\ val' \in [Threads -> [Levels -> View]]
           /\ \A u \in Threads : \A l \in Levels : tok'[u][l] <= clock
           /\ \A u \in Threads : ThreadInv(u)'
<1> USE DEF diskVars
<1>t. Typed /\ Past /\ ThreadInv(t)  BY DEF IInv
<1>n. Nothing \in View /\ DOMAIN Nothing = {}  BY NothingIsView
<1>b. buf' = [buf EXCEPT ![t] = Nothing] /\ buf' \in [Threads -> View]
  BY <1>t, <1>n DEF Return, Typed
<1>v. val' = [val EXCEPT ![t][call[t]] = view] /\ val' \in [Threads -> [Levels -> View]]
  BY <1>t DEF Return, Typed
<1>l. call[t] \in Levels  BY <1>t DEF Typed
<1>p. DOMAIN view \subseteq Files  BY BundleAssumption DEF Part
<1>k. tok[t][call[t]] \in Nat /\ tok[t]["stops"] \in Nat  BY <1>t DEF Typed, Levels
<1>1. CASE call[t] = "bundle"
  <2>1. BeginToken(t, "lines")  BY <1>1 DEF Return
  <2>2. /\ pc'[t] = "token" /\ call'[t] = "lines" /\ left'[t] = Files
        /\ tok'[t]["lines"] = 0 /\ tok'[t]["stops"] = tok[t]["stops"]
        /\ buf'[t] = Nothing
        /\ val'[t]["bundle"] = view
        /\ val'[t]["lines"] = val[t]["lines"] /\ val'[t]["stops"] = val[t]["stops"]
    BY <2>1, <1>1, <1>t, <1>b, <1>v DEF BeginToken, Typed, Levels
  <2>3. /\ pc' \in [Threads -> {"idle", "token", "load", "read", "build", "answer"}]
        /\ call' \in [Threads -> Levels]
        /\ left' \in [Threads -> SUBSET Files]
        /\ tok' \in [Threads -> [Levels -> Nat]]
        /\ \A u \in Threads : \A l \in Levels : tok'[u][l] <= clock
    BY <2>1, <1>t DEF BeginToken, Typed, Levels, Past
  <2>4. Progress(t)'
    BY <2>2, <1>1, <1>t DEF ThreadInv, Progress, Part
  <2>5. Ordered(t)'
    BY <2>2, <1>t DEF ThreadInv, Ordered
  <2>6. HeldFresh(t)'
    <3>1. Fresh(0, Nothing)  BY <1>n DEF Fresh
    <3>2. req[t] = "stops" => Fresh(tok[t]["stops"], view)
      BY <1>1, <1>p, FreshUnderOlder, <1>t, <1>k DEF Levels
    <3>3. req[t] = "stops" => Fresh(tok[t]["stops"], val[t]["lines"])
      BY <1>t DEF ThreadInv, HeldFresh
    <3> QED  BY <2>2, <3>1, <3>2, <3>3 DEF HeldFresh, Fresh
  <2>7. Undisturbed(t)'
    <3>1. AsOnDisk(Nothing)  BY <1>n DEF AsOnDisk
    <3> QED  BY <2>2, <3>1, <1>t DEF ThreadInv, Undisturbed, AsOnDisk, Extracting, Levels
  <2>8. ASSUME NEW u \in Threads, u # t  PROVE ThreadInv(u)'
    <3>1. /\ pc'[u] = pc[u] /\ call'[u] = call[u] /\ tok'[u] = tok[u]
          /\ left'[u] = left[u] /\ buf'[u] = buf[u] /\ val'[u] = val[u]
      BY <2>1, <2>8, <1>b, <1>v, <1>t DEF BeginToken, Typed
    <3> QED  BY <3>1, OthersKeep DEF IInv
  <2> QED  BY <1>b, <1>v, <2>3, <2>4, <2>5, <2>6, <2>7, <2>8 DEF ThreadInv
<1>2. CASE call[t] # "bundle"
  <2> DEFINE stops == call[t] = "lines" /\ req[t] = "stops"
  <2>1. /\ pc' = [pc EXCEPT ![t] = IF stops THEN "build" ELSE "answer"]
        /\ call' = [call EXCEPT ![t] = IF stops THEN "stops" ELSE @]
        /\ tok' = tok /\ left' = left
    BY <1>2, <1>t DEF Return, Typed
  <2>2. /\ pc'[t] = (IF stops THEN "build" ELSE "answer")
        /\ call'[t] = (IF stops THEN "stops" ELSE call[t])
        /\ buf'[t] = Nothing
        /\ val'[t][call[t]] = view
        /\ \A l \in Levels \ {call[t]} : val'[t][l] = val[t][l]
    BY <2>1, <1>l, <1>t, <1>b, <1>v DEF Typed
  <2> HIDE DEF stops
  <2>3. /\ pc' \in [Threads -> {"idle", "token", "load", "read", "build", "answer"}]
        /\ call' \in [Threads -> Levels]
        /\ left' \in [Threads -> SUBSET Files]
        /\ tok' \in [Threads -> [Levels -> Nat]]
        /\ \A u \in Threads : \A l \in Levels : tok'[u][l] <= clock
    BY <2>1, <1>t DEF Typed, Levels, Past
  <2>4. Progress(t)'
    <3>1. CASE call[t] = "lines"
      BY <3>1, <2>2, <1>n, <1>t DEF ThreadInv, Progress, Part, Levels, stops
    <3>2. CASE call[t] = "stops"
      BY <3>2, <2>2, <1>n, <1>t DEF ThreadInv, Progress, Part, Levels, stops
    <3> QED  BY <3>1, <3>2, <1>2, <1>l DEF Levels
  <2>5. Ordered(t)'
    BY <2>1, <2>2, <1>t DEF ThreadInv, Ordered, Progress, stops
  <2>6. HeldFresh(t)'
    <3>1. Fresh(tok[t][call'[t]], Nothing)  BY <1>n DEF Fresh
    <3>2. CASE call[t] = "lines"
      <4>1. req[t] = "stops" => Fresh(tok[t]["stops"], view)
        BY <3>2, <1>p, FreshUnderOlder, <1>t, <1>k DEF Levels
      <4>2. req[t] = "stops" => Fresh(tok[t]["stops"], val[t]["bundle"])
        BY <1>t DEF ThreadInv, HeldFresh
      <4> QED  BY <3>1, <3>2, <4>1, <4>2, <2>1, <2>2 DEF HeldFresh, Fresh, Levels
    <3>3. CASE call[t] = "stops"
      <4>1. req[t] = "stops" =>
              Fresh(tok[t]["stops"], val[t]["bundle"]) /\ Fresh(tok[t]["stops"], val[t]["lines"])
        BY <1>t DEF ThreadInv, HeldFresh
      <4> QED  BY <3>1, <3>3, <4>1, <2>1, <2>2 DEF HeldFresh, Fresh, Levels
    <3> QED  BY <3>2, <3>3, <1>2, <1>l DEF Levels
  <2>7. Undisturbed(t)'
    <3>1. AsOnDisk(Nothing)  BY <1>n DEF AsOnDisk
    <3>2. clean[t] => \A l \in Levels : AsOnDisk(val'[t][l])
      BY <2>2, <1>t DEF ThreadInv, Undisturbed, AsOnDisk
    <3>3. pc'[t] \notin {"token", "load"}  BY <2>2
    <3> QED
      BY <3>1, <3>2, <3>3, <2>2, <1>t DEF ThreadInv, Undisturbed, AsOnDisk, Extracting
  <2>8. ASSUME NEW u \in Threads, u # t  PROVE ThreadInv(u)'
    <3>1. /\ pc'[u] = pc[u] /\ call'[u] = call[u] /\ tok'[u] = tok[u]
          /\ left'[u] = left[u] /\ buf'[u] = buf[u] /\ val'[u] = val[u]
      BY <2>1, <2>8, <1>b, <1>v, <1>t DEF Typed
    <3> QED  BY <3>1, OthersKeep DEF IInv
  <2> QED  BY <1>b, <1>v, <2>3, <2>4, <2>5, <2>6, <2>7, <2>8 DEF ThreadInv
<1> QED  BY <1>1, <1>2

-----------------------------------------------------------------------------
(* What a step of one thread has to establish.                             *)
ThreadsTyped ==
    /\ pc \in [Threads -> {"idle", "token", "load", "read", "build", "answer"}]
    /\ req \in [Threads -> {"run", "lines", "stops", "none"}]
    /\ call \in [Threads -> Levels]
    /\ tok \in [Threads -> [Levels -> Nat]]
    /\ left \in [Threads -> SUBSET Files]
    /\ buf \in [Threads -> View]
    /\ val \in [Threads -> [Levels -> View]]
    /\ clean \in [Threads -> BOOLEAN]
    /\ \A t \in Threads : \A l \in Levels : tok[t][l] <= clock

CacheKept ==
    /\ cache \in [Levels -> SUBSET Entry]
    /\ \A l \in Levels : \A e \in cache[l] : e.key <= clock
    /\ WholeEntries
    /\ EntriesFresh

(* A step of one thread keeps the invariant if it keeps the parts that     *)
(* speak of the threads and the caches.                                    *)
LEMMA ThreadStepKeeps ==
    ASSUME IInv, UNCHANGED diskVars, CacheKept', ThreadsTyped',
           \A u \in Threads : ThreadInv(u)'
    PROVE  IInv'
<1>1. UNCHANGED <<disk, clock, release, todo, open>>  BY DEF diskVars
<1>2. Typed'  BY <1>1 DEF IInv, Typed, CacheKept, ThreadsTyped
<1>3. Past'  BY <1>1 DEF IInv, Past, CacheKept, ThreadsTyped
<1> QED  BY <1>2, <1>3 DEF IInv, CacheKept

(* Caches that do not change stay whole and fresh on a disk that does not. *)
LEMMA SameCacheKept ==
    ASSUME IInv, UNCHANGED diskVars, UNCHANGED cache
    PROVE  CacheKept'
BY DEF IInv, Typed, Past, CacheKept, WholeEntries, EntriesFresh, Fresh, diskVars

(* A request begins with an empty token.                                   *)
LEMMA AskKeeps ==
    ASSUME IInv, NEW t \in Threads, NEW request \in Requests[t], Ask(t, request)
    PROVE  IInv'
<1>1. UNCHANGED diskVars /\ UNCHANGED cache  BY DEF Ask
<1>2. Typed /\ Past /\ ThreadInv(t)  BY DEF IInv
<1>3. request \in {"run", "lines", "stops"}  BY BundleAssumption
<1>4. ThreadsTyped'
  BY <1>1, <1>2, <1>3
  DEF Ask, BeginToken, FirstCall, Typed, Past, ThreadsTyped, Levels, diskVars
<1>5. /\ pc'[t] = "token" /\ req'[t] = request /\ call'[t] = FirstCall(request)
      /\ left'[t] = Files /\ buf'[t] = buf[t] /\ val'[t] = val[t]
      /\ clean'[t] = ~Extracting
  BY <1>2, <1>3 DEF Ask, BeginToken, Typed
<1>6. \A l \in Levels : val[t][l] = Nothing
  BY <1>2 DEF Ask, ThreadInv, Progress
<1>7. DOMAIN Nothing = {}  BY NothingIsView
<1>8. FirstCall(request) = IF request = "run" THEN "bundle" ELSE request
  BY DEF FirstCall
<1>9. buf[t] = Nothing  BY <1>2 DEF Ask, ThreadInv, Progress
<1>10. Progress(t)'
  BY <1>3, <1>5, <1>6, <1>8, <1>9 DEF Progress, Levels
<1>11. Ordered(t)'
  <2>1. tok'[t]["stops"] = 0 \/ tok'[t]["stops"] = tok[t]["stops"]
    BY <1>2, <1>3 DEF Ask, BeginToken, FirstCall, Typed, Levels
  <2>2. \E f \in Files : tok'[t]["stops"] <= disk'[f].mtime
    BY <2>1, <1>1, <1>2, BundleAssumption DEF ThreadInv, Ordered, diskVars, Typed
  <2> QED  BY <2>2, <1>3, <1>5, <1>8 DEF Ordered
<1>12. HeldFresh(t)'
  BY <1>5, <1>6, <1>7, <1>9 DEF HeldFresh, Fresh, Levels
<1>13. Undisturbed(t)'
  BY <1>1, <1>5, <1>6, <1>7, <1>9 DEF Undisturbed, AsOnDisk, Extracting, diskVars
<1>14. ASSUME NEW u \in Threads, u # t  PROVE ThreadInv(u)'
  <2>1. /\ pc'[u] = pc[u] /\ req'[u] = req[u] /\ call'[u] = call[u] /\ tok'[u] = tok[u]
        /\ left'[u] = left[u] /\ buf'[u] = buf[u] /\ val'[u] = val[u]
        /\ clean'[u] = clean[u]
    BY <1>2, <1>14 DEF Ask, BeginToken, Typed
  <2> QED  BY <2>1, <1>1, OthersKeep DEF IInv
<1>15. \A u \in Threads : ThreadInv(u)'
  BY <1>10, <1>11, <1>12, <1>13, <1>14 DEF ThreadInv
<1> QED  BY <1>1, <1>4, <1>15, SameCacheKept, ThreadStepKeeps

(* A request that ends forgets what it was given.                          *)
LEMMA EndRequestKeeps ==
    ASSUME IInv, NEW t \in Threads, EndRequest(t)
    PROVE  IInv'
<1>1. UNCHANGED diskVars /\ UNCHANGED cache  BY DEF EndRequest
<1>2. Typed /\ Past /\ ThreadInv(t)  BY DEF IInv
<1>3. Nothing \in View /\ DOMAIN Nothing = {}  BY NothingIsView
<1>4. ThreadsTyped'
  <2>1. [l \in Levels |-> Nothing] \in [Levels -> View]  BY <1>3
  <2>2. \A u \in Threads : \A l \in Levels : tok'[u][l] <= clock'
    BY <1>1, <1>2 DEF EndRequest, Typed, Past, diskVars
  <2>3. val' \in [Threads -> [Levels -> View]]
    BY <2>1, <1>2 DEF EndRequest, Typed
  <2> QED
    BY <2>2, <2>3, <1>2, <1>3 DEF EndRequest, Typed, ThreadsTyped, Levels
<1>5. /\ pc'[t] = "idle" /\ req'[t] = "none" /\ call'[t] = "bundle"
      /\ tok'[t] = [l \in Levels |-> 0] /\ left'[t] = {} /\ buf'[t] = Nothing
      /\ val'[t] = [l \in Levels |-> Nothing] /\ clean'[t] = FALSE
  BY <1>2 DEF EndRequest, Typed
<1>6. Progress(t)'  BY <1>5 DEF Progress, Levels
<1>7. Ordered(t)'
  BY <1>1, <1>2, <1>5, BundleAssumption DEF Ordered, Levels, diskVars, Typed
<1>8. HeldFresh(t)'  BY <1>5, <1>3 DEF HeldFresh, Fresh
<1>9. Undisturbed(t)'  BY <1>5 DEF Undisturbed
<1>10. ASSUME NEW u \in Threads, u # t  PROVE ThreadInv(u)'
  <2>1. /\ pc'[u] = pc[u] /\ req'[u] = req[u] /\ call'[u] = call[u] /\ tok'[u] = tok[u]
        /\ left'[u] = left[u] /\ buf'[u] = buf[u] /\ val'[u] = val[u]
        /\ clean'[u] = clean[u]
    BY <1>2, <1>10 DEF EndRequest, Typed
  <2> QED  BY <2>1, <1>1, OthersKeep DEF IInv
<1>11. \A u \in Threads : ThreadInv(u)'
  BY <1>6, <1>7, <1>8, <1>9, <1>10 DEF ThreadInv
<1> QED  BY <1>1, <1>4, <1>11, SameCacheKept, ThreadStepKeeps

(* A token grows to the newest timestamp read so far.                      *)
LEMMA StatFileKeeps ==
    ASSUME IInv, NEW t \in Threads, NEW f \in Files, StatFile(t, f)
    PROVE  IInv'
<1>1. UNCHANGED diskVars /\ UNCHANGED cache  BY DEF StatFile
<1>2. Typed /\ Past /\ ThreadInv(t)  BY DEF IInv
<1> DEFINE c == call[t]
<1>3. c \in Levels /\ disk[f].mtime \in Nat /\ tok[t][c] \in Nat  BY <1>2 DEF Typed
<1>4. /\ tok'[t][c] >= tok[t][c] /\ tok'[t][c] >= disk[f].mtime
      /\ tok'[t][c] = tok[t][c] \/ tok'[t][c] = disk[f].mtime
      /\ \A l \in Levels \ {c} : tok'[t][l] = tok[t][l]
      /\ left'[t] = left[t] \ {f}
      /\ tok'[t][c] \in Nat
  BY <1>2, <1>3 DEF StatFile, Typed
<1>5. /\ pc[t] = "token" /\ pc' = pc /\ req' = req /\ call' = call /\ buf' = buf
      /\ val' = val /\ clean' = clean
  BY DEF StatFile
<1>6. ThreadsTyped'
  <2>1. \A u \in Threads : \A l \in Levels : tok'[u][l] <= clock'
    BY <1>1, <1>2, <1>3 DEF StatFile, Typed, Past, diskVars
  <2> QED  BY <2>1, <1>2, <1>3 DEF StatFile, Typed, ThreadsTyped
<1>7. Progress(t)'  BY <1>2, <1>5 DEF ThreadInv, Progress
<1>8. Ordered(t)'
  <2>1. \E g \in Files : tok'[t]["stops"] <= disk'[g].mtime
    BY <1>1, <1>2, <1>3, <1>4 DEF ThreadInv, Ordered, diskVars, Levels, Typed
  <2>2. ASSUME req'[t] = "stops", call'[t] # "stops"
        PROVE  \/ tok'[t]["stops"] <= tok'[t][call'[t]]
               \/ \E g \in left'[t] : tok'[t]["stops"] <= disk'[g].mtime
    <3>1. tok'[t]["stops"] = tok[t]["stops"] /\ tok[t]["stops"] \in Nat
      BY <2>2, <1>2, <1>4, <1>5 DEF Levels, Typed
    <3>2. \/ tok[t]["stops"] <= tok[t][c]
          \/ \E g \in left[t] : tok[t]["stops"] <= disk[g].mtime
      BY <2>2, <1>2, <1>5 DEF ThreadInv, Ordered
    <3> QED  BY <3>1, <3>2, <1>1, <1>3, <1>4, <1>5 DEF diskVars
  <2> QED  BY <2>1, <2>2, <1>5 DEF Ordered
<1>9. HeldFresh(t)'
  <2>1. buf[t] = Nothing  BY <1>2, <1>5 DEF ThreadInv, Progress
  <2>2. DOMAIN Nothing = {}  BY NothingIsView
  <2>3. CASE c = "stops"
    BY <2>1, <2>2, <2>3, <1>2, <1>5 DEF ThreadInv, Progress, HeldFresh, Fresh
  <2>4. CASE c # "stops"
    BY <2>1, <2>2, <2>4, <1>1, <1>2, <1>4, <1>5
    DEF ThreadInv, HeldFresh, Fresh, Levels, diskVars
  <2> QED  BY <2>3, <2>4
<1>10. Undisturbed(t)'
  <2>1. clean[t] => \A g \in Files \ left'[t] : disk[g].mtime <= tok'[t][c]
    BY <1>2, <1>3, <1>4, <1>5 DEF ThreadInv, Undisturbed, Typed
  <2> QED
    BY <2>1, <1>1, <1>2, <1>5 DEF ThreadInv, Undisturbed, AsOnDisk, Extracting, diskVars
<1>11. ASSUME NEW u \in Threads, u # t  PROVE ThreadInv(u)'
  <2>1. tok'[u] = tok[u] /\ left'[u] = left[u]
    BY <1>2, <1>11 DEF StatFile, Typed
  <2> QED  BY <2>1, <1>1, <1>5, OthersKeep DEF IInv
<1>12. \A u \in Threads : ThreadInv(u)'
  BY <1>7, <1>8, <1>9, <1>10, <1>11 DEF ThreadInv
<1> QED  BY <1>1, <1>6, <1>12, SameCacheKept, ThreadStepKeeps

(* What is returned to the caller is as fresh as the caller's token, and   *)
(* is the bundle on disk if no download came in between.                   *)
LEMMA ReturnThreads ==
    ASSUME IInv, NEW t \in Threads, NEW view \in View, Return(t, view),
           UNCHANGED <<diskVars, req, clean>>,
           pc[t] # "idle", DOMAIN view = Part(call[t]),
           Fresh(tok[t][call[t]], view),
           clean[t] => AsOnDisk(view),
           req[t] = "stops" /\ call[t] # "stops" => tok[t]["stops"] <= tok[t][call[t]]
    PROVE  ThreadsTyped' /\ \A u \in Threads : ThreadInv(u)'
<1>1. /\ req' \in [Threads -> {"run", "lines", "stops", "none"}]
      /\ clean' \in [Threads -> BOOLEAN]
      /\ clock' = clock
  BY DEF IInv, Typed, diskVars
<1> QED  BY <1>1, ReturnKeeps DEF ThreadsTyped

(* The same of a call of _load.                                            *)
LEMMA LoadedThreads ==
    ASSUME IInv, NEW t \in Threads, NEW view \in View, Loaded(t, view),
           UNCHANGED <<diskVars, req, clean>>,
           pc[t] # "idle", call[t] # "stops", DOMAIN view = Files,
           Fresh(tok[t][call[t]], view),
           clean[t] => AsOnDisk(view),
           req[t] = "stops" => tok[t]["stops"] <= tok[t][call[t]]
    PROVE  ThreadsTyped' /\ \A u \in Threads : ThreadInv(u)'
<1>1. CASE call[t] = "bundle"
  BY <1>1, ReturnThreads DEF Loaded, Part
<1>2. CASE call[t] # "bundle"
  <2>1. Typed /\ Past /\ ThreadInv(t)  BY DEF IInv
  <2>2. call[t] = "lines"  BY <1>2, <2>1 DEF Typed, Levels
  <2>3. /\ buf' = [buf EXCEPT ![t] = view] /\ pc' = [pc EXCEPT ![t] = "build"]
        /\ call' = call /\ tok' = tok /\ left' = left /\ val' = val
        /\ req' = req /\ clean' = clean
        /\ UNCHANGED <<disk, clock, todo, open>>
    BY <1>2 DEF Loaded, diskVars
  <2>4. ThreadsTyped'  BY <2>1, <2>3 DEF Typed, Past, ThreadsTyped
  <2>5. pc'[t] = "build" /\ buf'[t] = view  BY <2>1, <2>3 DEF Typed
  <2>6. Progress(t)'  BY <2>1, <2>2, <2>3, <2>5 DEF ThreadInv, Progress
  <2>7. Ordered(t)'  BY <2>1, <2>2, <2>3, <2>5 DEF ThreadInv, Ordered
  <2>8. HeldFresh(t)'  BY <2>1, <2>3, <2>5 DEF ThreadInv, HeldFresh, Fresh
  <2>9. Undisturbed(t)'
    BY <2>1, <2>3, <2>5 DEF ThreadInv, Undisturbed, AsOnDisk, Extracting
  <2>10. ASSUME NEW u \in Threads, u # t  PROVE ThreadInv(u)'
    BY <2>1, <2>3, <2>10, OthersKeep DEF IInv, Typed
  <2> QED  BY <2>4, <2>6, <2>7, <2>8, <2>9, <2>10 DEF ThreadInv
<1> QED  BY <1>1, <1>2

(* A cached entry is a whole view of its level, fresh under its key.       *)
LEMMA EntryFacts ==
    ASSUME IInv, NEW level \in Levels, NEW key, NEW e \in Cached(level, key)
    PROVE  /\ e.val \in View
           /\ DOMAIN e.val = Part(level)
           /\ Fresh(key, e.val)
BY DEF IInv, Typed, WholeEntries, EntriesFresh, Cached, Entry

(* What is fresh under a token that no file is newer than is on disk.      *)
LEMMA CurrentIsOnDisk ==
    ASSUME Typed, NEW key \in Nat, NEW view, DOMAIN view \subseteq Files, Fresh(key, view),
           \A f \in Files : disk[f].mtime <= key
    PROVE  AsOnDisk(view)
BY DEF Typed, Fresh, AsOnDisk

(* A derived cache is read under the token of its own level.               *)
LEMMA LookupKeeps ==
    ASSUME IInv, NEW t \in Threads, Lookup(t)
    PROVE  IInv'
<1>1. UNCHANGED diskVars /\ UNCHANGED cache /\ UNCHANGED <<req, clean>>  BY DEF Lookup
<1>2. Typed /\ Past /\ ThreadInv(t)  BY DEF IInv
<1>3. pc[t] = "token" /\ left[t] = {} /\ call[t] # "bundle" /\ call[t] \in Levels
      /\ tok[t][call[t]] \in Nat
  BY <1>2 DEF Lookup, Typed
<1>4. CASE \E e \in Cached(call[t], tok[t][call[t]]) : Return(t, e.val)
  <2>1. PICK e \in Cached(call[t], tok[t][call[t]]) : Return(t, e.val)  BY <1>4
  <2>2. /\ e.val \in View /\ DOMAIN e.val = Part(call[t])
        /\ Fresh(tok[t][call[t]], e.val)
    BY <1>3, EntryFacts
  <2>3. clean[t] => \A f \in Files : disk[f].mtime <= tok[t][call[t]]
    BY <1>2, <1>3 DEF ThreadInv, Undisturbed
  <2>4. clean[t] => AsOnDisk(e.val)
    <3>1. DOMAIN e.val \subseteq Files  BY <2>2, BundleAssumption DEF Part
    <3> QED  BY <2>2, <2>3, <3>1, <1>2, <1>3, CurrentIsOnDisk
  <2>5. req[t] = "stops" /\ call[t] # "stops" => tok[t]["stops"] <= tok[t][call[t]]
    BY <1>2, <1>3 DEF ThreadInv, Ordered
  <2> QED
    BY <2>1, <2>2, <2>4, <2>5, <1>1, <1>3, ReturnThreads, SameCacheKept, ThreadStepKeeps
<1>5. CASE call[t] = "stops" /\ BeginToken(t, "bundle") /\ UNCHANGED <<buf, val>>
  <2>1. /\ pc'[t] = "token" /\ call'[t] = "bundle" /\ left'[t] = Files
        /\ tok'[t]["stops"] = tok[t]["stops"] /\ tok'[t]["bundle"] = 0
    BY <1>2, <1>5 DEF BeginToken, Typed, Levels
  <2>2. ThreadsTyped'
    BY <1>1, <1>2, <1>5 DEF BeginToken, Typed, Past, ThreadsTyped, Levels, diskVars
  <2>3. Progress(t)'
    BY <1>1, <1>2, <1>3, <1>5, <2>1 DEF ThreadInv, Progress
  <2>4. Ordered(t)'
    BY <1>1, <1>2, <2>1 DEF ThreadInv, Ordered, diskVars
  <2>5. HeldFresh(t)'
    <3>1. buf[t] = Nothing /\ DOMAIN Nothing = {}
      BY <1>2, <1>3, NothingIsView DEF ThreadInv, Progress
    <3> QED
      BY <3>1, <1>1, <1>2, <1>5, <2>1 DEF ThreadInv, HeldFresh, Fresh, diskVars
  <2>6. Undisturbed(t)'
    BY <1>1, <1>2, <1>5, <2>1 DEF ThreadInv, Undisturbed, AsOnDisk, Extracting, diskVars
  <2>7. ASSUME NEW u \in Threads, u # t  PROVE ThreadInv(u)'
    <3>1. /\ pc'[u] = pc[u] /\ call'[u] = call[u] /\ tok'[u] = tok[u]
          /\ left'[u] = left[u]
      BY <1>2, <1>5, <2>7 DEF BeginToken, Typed
    <3> QED  BY <3>1, <1>1, <1>5, OthersKeep DEF IInv
  <2>8. \A u \in Threads : ThreadInv(u)'
    BY <2>3, <2>4, <2>5, <2>6, <2>7 DEF ThreadInv
  <2> QED  BY <2>2, <2>8, <1>1, SameCacheKept, ThreadStepKeeps
<1>6. CASE /\ call[t] = "lines" /\ pc' = [pc EXCEPT ![t] = "load"]
           /\ UNCHANGED <<call, tok, left, buf, val>>
  <2>1. pc'[t] = "load"  BY <1>2, <1>6 DEF Typed
  <2>2. ThreadsTyped'
    BY <1>1, <1>2, <1>6 DEF Typed, Past, ThreadsTyped, diskVars
  <2>3. Progress(t)'
    BY <1>1, <1>2, <1>3, <1>6, <2>1 DEF ThreadInv, Progress
  <2>4. Ordered(t)'
    BY <1>1, <1>2, <1>3, <1>6, <2>1 DEF ThreadInv, Ordered, diskVars
  <2>5. HeldFresh(t)'
    BY <1>1, <1>2, <1>6 DEF ThreadInv, HeldFresh, Fresh, diskVars
  <2>6. Undisturbed(t)'
    BY <1>1, <1>2, <1>3, <1>6, <2>1
    DEF ThreadInv, Undisturbed, AsOnDisk, Extracting, diskVars
  <2>7. ASSUME NEW u \in Threads, u # t  PROVE ThreadInv(u)'
    BY <1>1, <1>2, <1>6, <2>7, OthersKeep DEF IInv, Typed
  <2>8. \A u \in Threads : ThreadInv(u)'
    BY <2>3, <2>4, <2>5, <2>6, <2>7 DEF ThreadInv
  <2> QED  BY <2>2, <2>8, <1>1, SameCacheKept, ThreadStepKeeps
<1>7. call[t] \in {"lines", "stops"}  BY <1>3 DEF Levels
<1> QED  BY <1>4, <1>5, <1>6, <1>7 DEF Lookup

(* Where _load is called, the token of the call is complete.               *)
LEMMA LoadingFacts ==
    ASSUME IInv, NEW t \in Threads, Loading(t)
    PROVE  /\ pc[t] # "idle" /\ call[t] \in {"bundle", "lines"}
           /\ tok[t][call[t]] \in Nat /\ tok[t][call[t]] <= clock
           /\ req[t] = "stops" => tok[t]["stops"] <= tok[t][call[t]]
           /\ clean[t] => \A f \in Files : disk[f].mtime <= tok[t][call[t]]
<1>1. Typed /\ Past /\ ThreadInv(t)  BY DEF IInv
<1>2. call[t] \in {"bundle", "lines"} /\ pc[t] \in {"load", "token"}
  BY <1>1 DEF Loading, ThreadInv, Progress
<1>3. pc[t] = "token" => left[t] = {}  BY DEF Loading
<1>4. req[t] = "stops" => tok[t]["stops"] <= tok[t][call[t]]
  BY <1>1, <1>2, <1>3 DEF ThreadInv, Ordered
<1>5. clean[t] => \A f \in Files : disk[f].mtime <= tok[t][call[t]]
  BY <1>1, <1>2, <1>3 DEF ThreadInv, Undisturbed
<1> QED  BY <1>1, <1>2, <1>4, <1>5 DEF Typed, Past, Levels

(* A bundle found in the cache is as fresh as one that is read.            *)
LEMMA LoadHitKeeps ==
    ASSUME IInv, NEW t \in Threads, LoadHit(t)
    PROVE  IInv'
<1>1. UNCHANGED diskVars /\ UNCHANGED cache /\ UNCHANGED <<req, clean>>  BY DEF LoadHit
<1>2. Typed  BY DEF IInv
<1>3. PICK e \in Cached("bundle", tok[t][call[t]]) : Loaded(t, e.val)  BY DEF LoadHit
<1>4. e.val \in View /\ DOMAIN e.val = Files /\ Fresh(tok[t][call[t]], e.val)
  <2>1. "bundle" \in Levels /\ Part("bundle") = Files  BY DEF Levels, Part
  <2> QED  BY <2>1, EntryFacts
<1>5. /\ pc[t] # "idle" /\ call[t] # "stops" /\ tok[t][call[t]] \in Nat
      /\ req[t] = "stops" => tok[t]["stops"] <= tok[t][call[t]]
      /\ clean[t] => \A f \in Files : disk[f].mtime <= tok[t][call[t]]
  BY LoadingFacts DEF LoadHit
<1>6. clean[t] => AsOnDisk(e.val)  BY <1>2, <1>4, <1>5, CurrentIsOnDisk
<1> QED
  BY <1>1, <1>3, <1>4, <1>5, <1>6, LoadedThreads, SameCacheKept, ThreadStepKeeps

(* A miss begins to read the files.                                        *)
LEMMA LoadMissKeeps ==
    ASSUME IInv, NEW t \in Threads, LoadMiss(t)
    PROVE  IInv'
<1>1. UNCHANGED diskVars /\ UNCHANGED cache  BY DEF LoadMiss
<1>2. Typed /\ Past /\ ThreadInv(t)  BY DEF IInv
<1>3. /\ pc' = [pc EXCEPT ![t] = "read"] /\ left' = [left EXCEPT ![t] = Files]
      /\ buf' = [buf EXCEPT ![t] = Nothing]
      /\ UNCHANGED <<req, call, tok, val, clean>>
  BY DEF LoadMiss
<1>4. pc'[t] = "read" /\ left'[t] = Files /\ buf'[t] = Nothing
  BY <1>2, <1>3 DEF Typed
<1>5. Nothing \in View /\ DOMAIN Nothing = {}  BY NothingIsView
<1>6. /\ pc[t] # "idle" /\ call[t] \in {"bundle", "lines"}
      /\ req[t] = "stops" => tok[t]["stops"] <= tok[t][call[t]]
  BY LoadingFacts DEF LoadMiss
<1>7. ThreadsTyped'
  BY <1>1, <1>2, <1>3, <1>5 DEF Typed, Past, ThreadsTyped, diskVars
<1>8. Progress(t)'
  BY <1>2, <1>3, <1>4, <1>5, <1>6 DEF ThreadInv, Progress
<1>9. Ordered(t)'
  BY <1>1, <1>2, <1>3, <1>4, <1>6 DEF ThreadInv, Ordered, diskVars
<1>10. HeldFresh(t)'
  BY <1>1, <1>2, <1>3, <1>4, <1>5 DEF ThreadInv, HeldFresh, Fresh, diskVars
<1>11. Undisturbed(t)'
  BY <1>1, <1>2, <1>3, <1>4, <1>5
  DEF ThreadInv, Undisturbed, AsOnDisk, Extracting, diskVars
<1>12. ASSUME NEW u \in Threads, u # t  PROVE ThreadInv(u)'
  BY <1>1, <1>2, <1>3, <1>12, OthersKeep DEF IInv, Typed
<1>13. \A u \in Threads : ThreadInv(u)'
  BY <1>8, <1>9, <1>10, <1>11, <1>12 DEF ThreadInv
<1> QED  BY <1>1, <1>7, <1>13, SameCacheKept, ThreadStepKeeps

(* A file that is read now is fresh under a token taken before.            *)
LEMMA ReadFileKeeps ==
    ASSUME IInv, NEW t \in Threads, NEW f \in Files, ReadFile(t, f)
    PROVE  IInv'
<1>1. UNCHANGED diskVars /\ UNCHANGED cache  BY DEF ReadFile
<1>2. Typed /\ Past /\ ThreadInv(t)  BY DEF IInv
<1> DEFINE read == With(buf[t], f, disk[f].content)
<1>3. /\ pc[t] = "read" /\ f \in left[t]
      /\ left' = [left EXCEPT ![t] = @ \ {f}] /\ buf' = [buf EXCEPT ![t] = read]
      /\ UNCHANGED <<pc, req, call, tok, val, clean>>
  BY <1>2 DEF ReadFile, NextToRead, Typed
<1>4. /\ DOMAIN read = DOMAIN buf[t] \cup {f}
      /\ \A g \in DOMAIN read : read[g] = IF g = f THEN disk[f].content ELSE buf[t][g]
  BY DEF With
<1>5. read \in View
  <2>1. PICK part \in SUBSET Files : buf[t] \in [part -> Content]
    BY <1>2, ViewIsFunction DEF Typed
  <2>2. disk[f].content \in Content  BY <1>2 DEF Typed
  <2>3. read \in [part \cup {f} -> Content]  BY <2>1, <2>2 DEF With
  <2> QED  BY <2>1, <2>3, ViewIsFunction
<1> HIDE DEF read
<1>6. left'[t] = left[t] \ {f} /\ buf'[t] = read  BY <1>2, <1>3 DEF Typed
<1>7. ThreadsTyped'
  BY <1>1, <1>2, <1>3, <1>5 DEF Typed, Past, ThreadsTyped, diskVars
<1>8. Progress(t)'
  <2>1. left[t] \subseteq Files  BY <1>2 DEF Typed
  <2> QED  BY <2>1, <1>2, <1>3, <1>4, <1>6 DEF ThreadInv, Progress
<1>9. Ordered(t)'
  BY <1>1, <1>2, <1>3 DEF ThreadInv, Ordered, diskVars
<1>10. HeldFresh(t)'
  BY <1>1, <1>2, <1>3, <1>4, <1>6 DEF ThreadInv, HeldFresh, Fresh, diskVars
<1>11. Undisturbed(t)'
  BY <1>1, <1>2, <1>3, <1>4, <1>6
  DEF ThreadInv, Undisturbed, AsOnDisk, Extracting, diskVars
<1>12. ASSUME NEW u \in Threads, u # t  PROVE ThreadInv(u)'
  BY <1>1, <1>2, <1>3, <1>12, OthersKeep DEF IInv, Typed
<1>13. \A u \in Threads : ThreadInv(u)'
  BY <1>8, <1>9, <1>10, <1>11, <1>12 DEF ThreadInv
<1> QED  BY <1>1, <1>7, <1>13, SameCacheKept, ThreadStepKeeps

(* A bundle is stored when all of its files have been read.                *)
LEMMA StoreBundleKeeps ==
    ASSUME IInv, NEW t \in Threads, StoreBundle(t)
    PROVE  IInv'
<1>1. UNCHANGED diskVars /\ UNCHANGED <<disk, clock>> /\ UNCHANGED <<req, clean>>
  BY DEF StoreBundle, diskVars
<1>2. Typed /\ Past /\ ThreadInv(t) /\ WholeEntries /\ EntriesFresh  BY DEF IInv
<1>3. /\ pc[t] = "read" /\ left[t] = {} /\ Store("bundle", tok[t][call[t]], buf[t])
      /\ Loaded(t, buf[t])
  BY DEF StoreBundle
<1>4. /\ call[t] \in {"bundle", "lines"} /\ DOMAIN buf[t] = Files /\ buf[t] \in View
      /\ tok[t][call[t]] \in Nat /\ tok[t][call[t]] <= clock
      /\ req[t] = "stops" => tok[t]["stops"] <= tok[t][call[t]]
  BY <1>2, <1>3 DEF ThreadInv, Progress, Ordered, Typed, Past
<1>5. Fresh(tok[t][call[t]], buf[t]) /\ (clean[t] => AsOnDisk(buf[t]))
  BY <1>2 DEF ThreadInv, HeldFresh, Undisturbed
<1>6. CacheKept'
  <2>1. "bundle" \in Levels /\ Part("bundle") = Files  BY DEF Levels, Part
  <2>2. /\ cache' \in [Levels -> SUBSET Entry]
        /\ \A l \in Levels : \A e \in cache'[l] : e.key <= clock
        /\ WholeEntries'
        /\ EntriesFresh'
    BY <2>1, <1>1, <1>2, <1>3, <1>4, <1>5, StoreKeepsCache
  <2> QED  BY <2>2, <1>1 DEF CacheKept
<1> QED  BY <1>1, <1>3, <1>4, <1>5, <1>6, LoadedThreads, ThreadStepKeeps

(* A derived view is stored under a token older than its parts.            *)
LEMMA StoreDerivedKeeps ==
    ASSUME IInv, NEW t \in Threads, StoreDerived(t)
    PROVE  IInv'
<1>1. UNCHANGED diskVars /\ UNCHANGED <<disk, clock>> /\ UNCHANGED <<req, clean>>
  BY DEF StoreDerived, diskVars
<1>2. Typed /\ Past /\ ThreadInv(t) /\ WholeEntries /\ EntriesFresh  BY DEF IInv
<1> DEFINE view == Derived(t)
<1>3. /\ pc[t] = "build" /\ Store(call[t], tok[t][call[t]], view) /\ Return(t, view)
  BY DEF StoreDerived
<1>4. /\ tok[t][call[t]] \in Nat /\ tok[t][call[t]] <= clock /\ call[t] \in Levels
      /\ req[t] = "stops" /\ call[t] # "stops" => tok[t]["stops"] <= tok[t][call[t]]
  BY <1>2, <1>3 DEF ThreadInv, Ordered, Typed, Past
<1>5. /\ view \in View /\ DOMAIN view = Part(call[t])
      /\ Fresh(tok[t][call[t]], view)
      /\ clean[t] => AsOnDisk(view)
  <2>1. CASE call[t] = "lines"
    <3>1. DOMAIN buf[t] = Files  BY <2>1, <1>2, <1>3 DEF ThreadInv, Progress
    <3>2. buf[t][Shapes] \in Content
      BY <3>1, <1>2, ViewIsFunction, BundleAssumption DEF Typed
    <3>3. view = [f \in {Shapes} |-> buf[t][f]]  BY <2>1 DEF Derived
    <3>4. view \in [{Shapes} -> Content]  BY <3>2, <3>3
    <3>5. view \in View  BY <3>4, ViewIsFunction, BundleAssumption
    <3>6. Fresh(tok[t][call[t]], view)
      BY <3>1, <3>3, <1>2, BundleAssumption DEF ThreadInv, HeldFresh, Fresh
    <3>7. clean[t] => AsOnDisk(view)
      BY <3>1, <3>3, <1>2, BundleAssumption DEF ThreadInv, Undisturbed, AsOnDisk
    <3> QED  BY <2>1, <3>3, <3>5, <3>6, <3>7 DEF Part
  <2>2. CASE call[t] = "stops"
    <3> DEFINE b == val[t]["bundle"]  li == val[t]["lines"]
    <3>1. req[t] = "stops" /\ DOMAIN b = Files /\ DOMAIN li = {Shapes}
      BY <2>2, <1>2, <1>3 DEF ThreadInv, Progress
    <3>2. b \in View /\ li \in View  BY <1>2 DEF Typed, Levels
    <3>3. view = [f \in Files |-> IF f = Shapes THEN li[f] ELSE b[f]]
      BY <2>2 DEF Derived
    <3>4. li[Shapes] \in Content /\ \A f \in Files : b[f] \in Content
      BY <3>1, <3>2, ViewIsFunction
    <3>5. view \in [Files -> Content]  BY <3>3, <3>4
    <3>6. view \in View  BY <3>5, ViewIsFunction
    <3>7. Fresh(tok[t]["stops"], b) /\ Fresh(tok[t]["stops"], li)
      BY <3>1, <1>2 DEF ThreadInv, HeldFresh
    <3>8. Fresh(tok[t][call[t]], view)
      BY <2>2, <3>1, <3>3, <3>7 DEF Fresh
    <3>9. clean[t] => AsOnDisk(b) /\ AsOnDisk(li)
      BY <1>2 DEF ThreadInv, Undisturbed, Levels
    <3>10. clean[t] => AsOnDisk(view)
      BY <3>1, <3>3, <3>9 DEF AsOnDisk
    <3> QED  BY <2>2, <3>3, <3>6, <3>8, <3>10 DEF Part
  <2> QED  BY <2>1, <2>2, <1>2, <1>3 DEF ThreadInv, Progress
<1> HIDE DEF view
<1>6. CacheKept'
  <2>1. /\ cache' \in [Levels -> SUBSET Entry]
        /\ \A l \in Levels : \A e \in cache'[l] : e.key <= clock
        /\ WholeEntries'
        /\ EntriesFresh'
    BY <1>1, <1>2, <1>3, <1>4, <1>5, StoreKeepsCache
  <2> QED  BY <2>1, <1>1 DEF CacheKept
<1> QED  BY <1>1, <1>3, <1>4, <1>5, <1>6, ReturnThreads, ThreadStepKeeps

-----------------------------------------------------------------------------
(* Steps of the process that rewrites the directory.                       *)
LEMMA DownloadKeeps ==
    ASSUME IInv, Download
    PROVE  IInv'
<1>1. /\ UNCHANGED <<disk, clock, open, cache, pc, req, call, tok, left, buf, val>>
      /\ release' = release + 1 /\ release <= MaxDownloads /\ todo' = Files
      /\ clean' = [t \in Threads |-> FALSE]
  BY DEF Download
<1>2. Typed'  BY <1>1, BundleAssumption DEF IInv, Typed, Content
<1>3. Past' /\ WholeEntries' /\ EntriesFresh'
  BY <1>1 DEF IInv, Past, WholeEntries, EntriesFresh, Fresh
<1>4. ASSUME NEW t \in Threads  PROVE ThreadInv(t)'
  <2>1. ThreadInv(t) /\ clean'[t] = FALSE  BY <1>1 DEF IInv
  <2> QED
    BY <1>1, <2>1
    DEF ThreadInv, Progress, Ordered, HeldFresh, Fresh, Undisturbed
<1> QED  BY <1>2, <1>3, <1>4 DEF IInv

(* A file that is written is newer than every token.                       *)
LEMMA WriteKeeps ==
    ASSUME IInv, NEW f \in Files, NEW content \in Content, Write(f, content), Extracting,
           UNCHANGED <<release, cache, threadVars>>,
           todo' \in SUBSET Files, open' \in SUBSET Files
    PROVE  IInv'
<1>1. Typed /\ Past /\ WholeEntries /\ EntriesFresh  BY DEF IInv
<1>2. UNCHANGED <<cache, pc, req, call, tok, left, buf, val, clean, release>>
  BY DEF threadVars
<1>3. Typed'  BY <1>1, <1>2 DEF Write, Typed
<1>4. /\ clock' = clock + 1 /\ clock \in Nat
      /\ \A g \in Files : disk[g].mtime <= disk'[g].mtime /\ disk'[g].mtime <= clock'
      /\ \A g \in Files : disk[g].mtime \in Nat /\ disk'[g].mtime \in Nat
  BY <1>1, <1>3 DEF Write, Typed, Past
<1>5. Past'
  <2>1. \A l \in Levels : \A e \in cache[l] : e.key \in Nat
    BY <1>1 DEF Typed, Entry
  <2> QED  BY <2>1, <1>1, <1>2, <1>4 DEF Past, Typed
<1>6. WholeEntries'  BY <1>1, <1>2 DEF WholeEntries
<1>7. EntriesFresh'
  <2> SUFFICES ASSUME NEW l \in Levels, NEW e \in cache[l]
               PROVE  Fresh(e.key, e.val)'
    BY <1>2 DEF EntriesFresh
  <2>1. e.key \in Nat /\ e.key <= clock  BY <1>1 DEF Typed, Past, Entry
  <2>2. DOMAIN e.val \subseteq Files
    BY <1>1, BundleAssumption DEF WholeEntries, Part
  <2>3. Fresh(e.key, e.val)  BY <1>1 DEF EntriesFresh
  <2> QED  BY <1>1, <2>1, <2>2, <2>3, WriteKeepsFresh
<1>8. ASSUME NEW t \in Threads  PROVE ThreadInv(t)'
  <2>1. ThreadInv(t)  BY DEF IInv
  <2>2. Progress(t)'  BY <1>2, <2>1 DEF ThreadInv, Progress
  <2>3. call[t] \in Levels /\ \A l \in Levels : tok[t][l] \in Nat /\ tok[t][l] <= clock
    BY <1>1 DEF Typed, Past
  <2>4. Ordered(t)'
    <3>1. \E g \in Files : tok[t]["stops"] <= disk'[g].mtime
      BY <1>4, <2>1, <2>3 DEF ThreadInv, Ordered, Levels
    <3>2. ASSUME NEW g \in left[t], tok[t]["stops"] <= disk[g].mtime
          PROVE  tok[t]["stops"] <= disk'[g].mtime
      BY <1>1, <1>4, <2>3, <3>2 DEF Typed, Levels
    <3> QED  BY <1>2, <2>1, <3>1, <3>2 DEF ThreadInv, Ordered
  <2>5. HeldFresh(t)'
    <3>1. \A view \in View : DOMAIN view \subseteq Files  BY ViewIsFunction
    <3>2. /\ buf[t] \in View /\ val[t]["bundle"] \in View /\ val[t]["lines"] \in View
          /\ tok[t][call[t]] \in Nat /\ tok[t][call[t]] <= clock
          /\ tok[t]["stops"] \in Nat /\ tok[t]["stops"] <= clock
      BY <1>1, <2>3 DEF Typed, Levels
    <3>3. \A view \in View : \A key \in Nat :
             key <= clock /\ Fresh(key, view) => Fresh(key, view)'
      BY <1>1, <3>1, WriteKeepsFresh
    <3> QED  BY <1>2, <2>1, <3>2, <3>3 DEF ThreadInv, HeldFresh, Fresh
  <2>6. Undisturbed(t)'  BY <1>2, <2>1 DEF ThreadInv, Undisturbed
  <2> QED  BY <2>2, <2>4, <2>5, <2>6 DEF ThreadInv
<1> QED  BY <1>3, <1>5, <1>6, <1>7, <1>8 DEF IInv

(* A download that fails leaves the files as they are.                     *)
LEMMA DownloadFailsKeeps ==
    ASSUME IInv, DownloadFails
    PROVE  IInv'
<1>1. /\ UNCHANGED <<disk, clock, release, cache>> /\ todo' = {} /\ open' = {}
      /\ UNCHANGED <<pc, req, call, tok, left, buf, val, clean>> /\ Extracting
  BY DEF DownloadFails, threadVars
<1>2. Typed' /\ Past' /\ WholeEntries' /\ EntriesFresh'
  BY <1>1 DEF IInv, Typed, Past, WholeEntries, EntriesFresh, Fresh
<1>3. ASSUME NEW t \in Threads  PROVE ThreadInv(t)'
  <2>1. ThreadInv(t)  BY DEF IInv
  <2> QED
    BY <1>1, <2>1 DEF ThreadInv, Progress, Ordered, HeldFresh, Fresh, Undisturbed
<1> QED  BY <1>2, <1>3 DEF IInv

-----------------------------------------------------------------------------
(* The invariant holds at the start: the caches are empty.                 *)
LEMMA InitIInv == Init => IInv
<1> SUFFICES ASSUME Init PROVE IInv  OBVIOUS
<1>1. Nothing \in View /\ DOMAIN Nothing = {}  BY NothingIsView
<1>2. 1 \in Content  BY BundleAssumption DEF Content
<1>3. Typed
  <2>1. val \in [Threads -> [Levels -> View]]  BY <1>1 DEF Init
  <2> QED  BY <2>1, <1>1, <1>2 DEF Init, Typed, Levels
<1>4. Past /\ WholeEntries /\ EntriesFresh
  BY DEF Init, Past, WholeEntries, EntriesFresh, Levels
<1>5. ASSUME NEW t \in Threads  PROVE ThreadInv(t)
  <2>1. Progress(t)  BY DEF Init, Progress, Levels
  <2>2. Ordered(t)  BY BundleAssumption DEF Init, Ordered, Levels
  <2>3. HeldFresh(t)  BY <1>1 DEF Init, HeldFresh, Fresh
  <2>4. Undisturbed(t)  BY DEF Init, Undisturbed
  <2> QED  BY <2>1, <2>2, <2>3, <2>4 DEF ThreadInv
<1> QED  BY <1>3, <1>4, <1>5 DEF IInv

(* Every step of a thread keeps the invariant.                             *)
LEMMA ThreadKeeps ==
    ASSUME IInv, NEW t \in Threads, Thread(t)
    PROVE  IInv'
<1>1. ASSUME NEW request \in Requests[t], Ask(t, request)  PROVE IInv'
  BY <1>1, AskKeeps
<1>2. ASSUME NEW f \in Files, StatFile(t, f)  PROVE IInv'  BY <1>2, StatFileKeeps
<1>3. ASSUME NEW f \in Files, ReadFile(t, f)  PROVE IInv'  BY <1>3, ReadFileKeeps
<1>4. ASSUME NEW f \in Files, ReadRaises(t, f)  PROVE IInv'
  BY <1>4, EndRequestKeeps DEF ReadRaises
<1>5. CASE Lookup(t)  BY <1>5, LookupKeeps
<1>6. CASE LoadHit(t)  BY <1>6, LoadHitKeeps
<1>7. CASE LoadMiss(t)  BY <1>7, LoadMissKeeps
<1>8. CASE StoreBundle(t)  BY <1>8, StoreBundleKeeps
<1>9. CASE StoreDerived(t)  BY <1>9, StoreDerivedKeeps
<1>10. CASE Respond(t)  BY <1>10, EndRequestKeeps DEF Respond
<1> QED
  BY <1>1, <1>2, <1>3, <1>4, <1>5, <1>6, <1>7, <1>8, <1>9, <1>10 DEF Thread

(* The invariant is inductive.                                             *)
LEMMA NextIInv ==
    ASSUME IInv, [Next]_vars
    PROVE  IInv'
<1>1. CASE Download  BY <1>1, DownloadKeeps
<1>2. ASSUME NEW f \in Files, OpenFile(f)  PROVE IInv'
  <2>1. CutShort \in Content  BY BundleAssumption DEF CutShort, Content
  <2>2. todo' \in SUBSET Files /\ open' \in SUBSET Files /\ Extracting
    BY <1>2 DEF OpenFile, IInv, Typed, Extracting
  <2> QED  BY <1>2, <2>1, <2>2, WriteKeeps DEF OpenFile
<1>3. ASSUME NEW f \in Files, CloseFile(f)  PROVE IInv'
  <2>1. release \in Content /\ Extracting
    BY <1>3 DEF CloseFile, IInv, Typed, Extracting
  <2>2. todo' \in SUBSET Files /\ open' \in SUBSET Files
    BY <1>3 DEF CloseFile, IInv, Typed
  <2> QED  BY <1>3, <2>1, <2>2, WriteKeeps DEF CloseFile
<1>4. CASE DownloadFails  BY <1>4, DownloadFailsKeeps
<1>5. ASSUME NEW t \in Threads, Thread(t)  PROVE IInv'  BY <1>5, ThreadKeeps
<1>6. CASE UNCHANGED vars
  <2>1. UNCHANGED <<disk, clock, release, todo, open, cache,
                    pc, req, call, tok, left, buf, val, clean>>
    BY <1>6 DEF vars, diskVars, threadVars
  <2>2. Typed' /\ Past' /\ WholeEntries' /\ EntriesFresh'
    BY <2>1 DEF IInv, Typed, Past, WholeEntries, EntriesFresh, Fresh
  <2>3. ASSUME NEW t \in Threads  PROVE ThreadInv(t)'
    BY <2>1, OthersKeep DEF IInv, diskVars
  <2> QED  BY <2>2, <2>3 DEF IInv
<1> QED  BY <1>1, <1>2, <1>3, <1>4, <1>5, <1>6 DEF Next

(* The inductive invariant holds of the caches (gtfs_static.py) at all     *)
(* times.                                                                  *)
THEOREM Invariant == Spec => []IInv
BY InitIInv, NextIInv, PTL DEF Spec

(* What any of the caches holds under a token agrees with the disk except  *)
(* on files rewritten since: gtfs_static.py, "anything derived from the    *)
(* bundle must be cached against bundle_token()".                          *)
THEOREM EntriesAreFresh == Spec => []EntriesFresh
<1>1. IInv => EntriesFresh  BY DEF IInv
<1> QED  BY <1>1, Invariant, PTL

-----------------------------------------------------------------------------
(* The refinement of SafeRegister, with its mapping.                       *)
Bundle == IF Extracting THEN Nothing ELSE [f \in Files |-> disk[f].content]

Standing(t) == IF pc[t] = "idle" THEN "idle"
               ELSE IF pc[t] = "answer" THEN "done"
               ELSE IF clean[t] THEN "clean" ELSE "overlapped"

Given(t) == IF pc[t] = "answer" THEN Answer(t) ELSE {}

Stutter == /\ Bundle' = Bundle
           /\ \A t \in Threads : Standing(t)' = Standing(t) /\ Given(t)' = Given(t)

(* What changes no request's standing and no answer is a stutter of the    *)
(* register.                                                               *)
LEMMA StutterMaps ==
    ASSUME Stutter
    PROVE  UNCHANGED Register!registerVars
<1>1. [t \in Threads |-> Standing(t)]' = [t \in Threads |-> Standing(t)]
  BY DEF Stutter
<1>2. [t \in Threads |-> Given(t)]' = [t \in Threads |-> Given(t)]
  BY DEF Stutter
<1> QED  BY <1>1, <1>2 DEF Stutter, Register!registerVars, Bundle, Standing, Given

(* Outside an extraction the register is a bundle, and not the mark of one *)
(* that is being rewritten.                                                *)
LEMMA BundleFacts ==
    ASSUME Typed
    PROVE  /\ Bundle = Nothing <=> Extracting
           /\ ~Extracting => Bundle \in [Files -> Content]
<1>1. [f \in Files |-> disk[f].content] \in [Files -> Content]  BY DEF Typed
<1>2. DOMAIN Nothing = {} /\ Files # {}  BY NothingIsView, BundleAssumption
<1>3. DOMAIN [f \in Files |-> disk[f].content] # DOMAIN Nothing  BY <1>2
<1> QED  BY <1>1, <1>3 DEF Bundle

(* Inside a request: the abstract reader ends its read when the thread has *)
(* its answer, and stutters before.                                        *)
LEMMA InnerStepMaps ==
    ASSUME IInv, IInv', NEW t \in Threads, UNCHANGED <<diskVars, req, clean>>,
           pc[t] \notin {"idle", "answer"}, pc'[t] # "idle",
           \A u \in Threads \ {t} : pc'[u] = pc[u] /\ val'[u] = val[u]
    PROVE  [Register!RegisterNext]_(Register!registerVars)
<1>1. Bundle' = Bundle  BY DEF Bundle, Extracting, diskVars
<1>2. \A u \in Threads \ {t} : Standing(u)' = Standing(u) /\ Given(u)' = Given(u)
  <2> SUFFICES ASSUME NEW u \in Threads, u # t
               PROVE  Standing(u)' = Standing(u) /\ Given(u)' = Given(u)
    OBVIOUS
  <2>1. pc'[u] = pc[u] /\ val'[u] = val[u] /\ req'[u] = req[u] /\ clean'[u] = clean[u]
    OBVIOUS
  <2>2. Answer(u)' = Answer(u)  BY <2>1 DEF Answer
  <2> QED  BY <2>1, <2>2 DEF Standing, Given
<1>3. Given(t) = {} /\ Standing(t) = IF clean[t] THEN "clean" ELSE "overlapped"
  BY DEF Given, Standing
<1>4. CASE pc'[t] # "answer"
  <2>1. Standing(t)' = Standing(t) /\ Given(t)' = Given(t)
    BY <1>4 DEF Standing, Given
  <2> QED  BY <1>1, <1>2, <2>1, StutterMaps DEF Stutter
<1>5. CASE pc'[t] = "answer"
  <2> DEFINE reading == [u \in Threads |-> Standing(u)]
             answer  == [u \in Threads |-> Given(u)]
  <2>1. Standing(t)' = "done" /\ Given(t)' = Answer(t)'  BY <1>5 DEF Standing, Given
  <2>2. ASSUME NEW u \in Threads, pc'[u] = "answer"
        PROVE  /\ Answer(u)' \in SUBSET View
               /\ clean'[u] => \A view \in Answer(u)' : AsOnDisk(view)'
    <3>1. req'[u] \in {"run", "lines", "stops"}
      BY <2>2 DEF IInv, Typed, ThreadInv, Progress
    <3>2. \A l \in Levels : val'[u][l] \in View /\ (clean'[u] => AsOnDisk(val[u][l])')
      BY <2>2 DEF IInv, Typed, ThreadInv, Undisturbed
    <3>3. CASE req'[u] = "run"  BY <3>2, <3>3 DEF Answer, Levels
    <3>4. CASE req'[u] = "lines"  BY <3>2, <3>4 DEF Answer, Levels
    <3>5. CASE req'[u] = "stops"  BY <3>2, <3>5 DEF Answer, Levels
    <3> QED  BY <3>1, <3>3, <3>4, <3>5
  <2>3. reading' = [reading EXCEPT ![t] = "done"]  BY <1>2, <2>1
  <2>4. answer' \in [Threads -> SUBSET View]
    <3>1. ASSUME NEW u \in Threads  PROVE Given(u)' \in SUBSET View
      BY <2>2 DEF Given
    <3> QED  BY <3>1
  <2>5. \A u \in Threads \ {t} : answer'[u] = answer[u]  BY <1>2
  <2>6. reading[t] = "clean" =>
           \A view \in answer'[t] : \A f \in DOMAIN view : view[f] = Bundle[f]
    <3> SUFFICES ASSUME reading[t] = "clean", NEW view \in Answer(t)', NEW f \in DOMAIN view
                 PROVE  view[f] = Bundle[f]
      BY <2>1
    <3>1. clean[t]  BY <1>3
    <3>2. view \in View /\ view[f] = disk[f].content
      BY <1>5, <2>2, <3>1 DEF AsOnDisk, diskVars
    <3>3. f \in Files  BY <3>2, ViewIsFunction
    <3>4. ~Extracting  BY <3>1 DEF IInv, ThreadInv, Undisturbed
    <3> QED  BY <3>2, <3>3, <3>4 DEF Bundle
  <2>7. reading[t] \in {"clean", "overlapped"}  BY <1>3
  <2>8. Register!EndRead(t)
    BY <1>1, <2>3, <2>4, <2>5, <2>6, <2>7
    DEF Register!EndRead, Bundle, Standing, Given
  <2> QED  BY <2>8 DEF Register!RegisterNext
<1> QED  BY <1>4, <1>5

(* A request that ends, with an answer or with an exception.               *)
LEMMA EndRequestMaps ==
    ASSUME IInv, NEW t \in Threads, pc[t] # "idle", EndRequest(t)
    PROVE  Register!RegisterNext
<1>1. /\ UNCHANGED <<disk, todo, open>>
      /\ pc' = [pc EXCEPT ![t] = "idle"] /\ req' = [req EXCEPT ![t] = "none"]
      /\ val' = [val EXCEPT ![t] = [l \in Levels |-> Nothing]]
      /\ clean' = [clean EXCEPT ![t] = FALSE]
  BY DEF EndRequest, diskVars
<1>2. Bundle' = Bundle  BY <1>1 DEF Bundle, Extracting
<1>3. Standing(t) # "idle"  BY DEF Standing
<1>4. Standing(t)' = "idle" /\ Given(t)' = {}
  BY <1>1 DEF IInv, Typed, Standing, Given
<1>5. ASSUME NEW u \in Threads, u # t
      PROVE  Standing(u)' = Standing(u) /\ Given(u)' = Given(u)
  <2>1. pc'[u] = pc[u] /\ val'[u] = val[u] /\ req'[u] = req[u] /\ clean'[u] = clean[u]
    BY <1>1, <1>5 DEF IInv, Typed
  <2>2. Answer(u)' = Answer(u)  BY <2>1 DEF Answer
  <2> QED  BY <2>1, <2>2 DEF Standing, Given
<1>6. [u \in Threads |-> Standing(u)]' = [[u \in Threads |-> Standing(u)] EXCEPT ![t] = "idle"]
  BY <1>4, <1>5
<1>7. [u \in Threads |-> Given(u)]' = [[u \in Threads |-> Given(u)] EXCEPT ![t] = {}]
  BY <1>4, <1>5
<1>8. Register!Respond(t)
  BY <1>2, <1>3, <1>6, <1>7 DEF Register!Respond, Bundle, Standing, Given
<1> QED  BY <1>8 DEF Register!RegisterNext

(* A request that begins is a read of the register that begins.            *)
LEMMA AskMaps ==
    ASSUME IInv, NEW t \in Threads, NEW request \in Requests[t], Ask(t, request)
    PROVE  Register!RegisterNext
<1>1. /\ UNCHANGED <<disk, todo, open, val>> /\ pc[t] = "idle"
      /\ pc' = [pc EXCEPT ![t] = "token"] /\ req' = [req EXCEPT ![t] = request]
      /\ clean' = [clean EXCEPT ![t] = ~Extracting]
  BY DEF Ask, BeginToken, diskVars
<1>2. Bundle' = Bundle  BY <1>1 DEF Bundle, Extracting
<1>3. Standing(t) = "idle" /\ Given(t) = {}  BY <1>1 DEF Standing, Given
<1>4. Bundle = Nothing <=> Extracting  BY BundleFacts DEF IInv
<1>5. Standing(t)' = (IF Bundle = Nothing THEN "overlapped" ELSE "clean") /\ Given(t)' = {}
  BY <1>1, <1>4 DEF IInv, Typed, Standing, Given
<1>6. ASSUME NEW u \in Threads, u # t
      PROVE  Standing(u)' = Standing(u) /\ Given(u)' = Given(u)
  <2>1. pc'[u] = pc[u] /\ val'[u] = val[u] /\ req'[u] = req[u] /\ clean'[u] = clean[u]
    BY <1>1, <1>6 DEF IInv, Typed
  <2>2. Answer(u)' = Answer(u)  BY <2>1 DEF Answer
  <2> QED  BY <2>1, <2>2 DEF Standing, Given
<1>7. [u \in Threads |-> Standing(u)]' =
         [[u \in Threads |-> Standing(u)] EXCEPT
             ![t] = IF Bundle = Nothing THEN "overlapped" ELSE "clean"]
  BY <1>5, <1>6
<1>8. [u \in Threads |-> Given(u)]' = [u \in Threads |-> Given(u)]
  BY <1>3, <1>5, <1>6
<1>9. Register!BeginRead(t)
  BY <1>2, <1>3, <1>7, <1>8 DEF Register!BeginRead, Bundle, Standing, Given
<1> QED  BY <1>9 DEF Register!RegisterNext

(* The extraction: it takes the register at its start and leaves in it what*)
(* is on disk when it ends or fails.                                       *)
LEMMA ThreadsStand ==
    ASSUME UNCHANGED <<pc, req, val, clean>>
    PROVE  \A t \in Threads : Standing(t)' = Standing(t) /\ Given(t)' = Given(t)
<1> SUFFICES ASSUME NEW t \in Threads
             PROVE  Standing(t)' = Standing(t) /\ Given(t)' = Given(t)
  OBVIOUS
<1>1. Answer(t)' = Answer(t)  BY DEF Answer
<1> QED  BY <1>1 DEF Standing, Given

(* A file that is written in mid-download changes nothing the register     *)
(* knows, and the last one ends the write.                                 *)
LEMMA WriteStepMaps ==
    ASSUME IInv, IInv', Extracting, UNCHANGED <<pc, req, val, clean>>
    PROVE  [Register!RegisterNext]_(Register!registerVars)
<1>1. \A t \in Threads : Standing(t)' = Standing(t) /\ Given(t)' = Given(t)
  BY ThreadsStand
<1>2. CASE Extracting'
  <2>1. Bundle' = Bundle  BY <1>2 DEF Bundle
  <2> QED  BY <1>1, <2>1, StutterMaps DEF Stutter
<1>3. CASE ~Extracting'
  <2>1. [f \in Files |-> disk'[f].content] \in [Files -> Content]
    BY DEF IInv, Typed
  <2>2. Bundle = Nothing /\ Bundle' \in [Files -> Content]
    BY <1>3, <2>1 DEF Bundle
  <2>3. [u \in Threads |-> Standing(u)]' = [u \in Threads |-> Standing(u)]  BY <1>1
  <2>4. [u \in Threads |-> Given(u)]' = [u \in Threads |-> Given(u)]  BY <1>1
  <2>5. Register!EndWrite
    BY <2>2, <2>3, <2>4 DEF Register!EndWrite, Bundle, Standing, Given
  <2> QED  BY <2>5 DEF Register!RegisterNext
<1> QED  BY <1>2, <1>3

(* A download that begins is a write of the register that begins.          *)
LEMMA DownloadMaps ==
    ASSUME IInv, Download
    PROVE  Register!RegisterNext
<1>1. /\ UNCHANGED <<disk, open, pc, req, val>> /\ todo' = Files /\ ~Extracting
      /\ clean' = [t \in Threads |-> FALSE]
  BY DEF Download
<1>2. Bundle # Nothing  BY <1>1, BundleFacts DEF IInv
<1>3. Bundle' = Nothing  BY <1>1, BundleAssumption DEF Bundle, Extracting
<1>4. ASSUME NEW u \in Threads
      PROVE  /\ Standing(u)' = (IF Standing(u) = "clean" THEN "overlapped" ELSE Standing(u))
             /\ Given(u)' = Given(u)
  <2>1. pc'[u] = pc[u] /\ val'[u] = val[u] /\ req'[u] = req[u] /\ clean'[u] = FALSE
    BY <1>1
  <2>2. Answer(u)' = Answer(u)  BY <2>1 DEF Answer
  <2> QED  BY <2>1, <2>2 DEF Standing, Given
<1>5. [u \in Threads |-> Standing(u)]' =
         [u \in Threads |-> IF [v \in Threads |-> Standing(v)][u] = "clean" THEN "overlapped"
                            ELSE [v \in Threads |-> Standing(v)][u]]
  BY <1>4
<1>6. [u \in Threads |-> Given(u)]' = [u \in Threads |-> Given(u)]  BY <1>4
<1>7. Register!BeginWrite
  BY <1>2, <1>3, <1>5, <1>6 DEF Register!BeginWrite, Bundle, Standing, Given
<1> QED  BY <1>7 DEF Register!RegisterNext

(* A thread's steps are a read's beginning, its end, or stutters in        *)
(* between.                                                                *)
LEMMA ThreadMaps ==
    ASSUME IInv, IInv', NEW t \in Threads, Thread(t)
    PROVE  [Register!RegisterNext]_(Register!registerVars)
<1> DEFINE inner == /\ UNCHANGED <<diskVars, req, clean>>
                    /\ pc[t] \notin {"idle", "answer"} /\ pc'[t] # "idle"
                    /\ \A u \in Threads \ {t} : pc'[u] = pc[u] /\ val'[u] = val[u]
<1>0. Typed  BY DEF IInv
<1>1. ASSUME NEW request \in Requests[t], Ask(t, request)
      PROVE  Register!RegisterNext
  BY <1>1, AskMaps
<1>2. ASSUME NEW f \in Files, ReadRaises(t, f)  PROVE Register!RegisterNext
  BY <1>2, EndRequestMaps DEF ReadRaises, NextToRead
<1>3. CASE Respond(t)
  BY <1>3, EndRequestMaps DEF Respond
<1>4. ASSUME NEW view, Return(t, view), pc[t] \notin {"idle", "answer"}
      PROVE  /\ pc'[t] # "idle"
             /\ \A u \in Threads \ {t} : pc'[u] = pc[u] /\ val'[u] = val[u]
  <2>1. val' = [val EXCEPT ![t][call[t]] = view]  BY <1>4 DEF Return
  <2>2. \E there \in {"token", "build", "answer"} : pc' = [pc EXCEPT ![t] = there]
    BY <1>0, <1>4 DEF Return, BeginToken, Typed
  <2> QED  BY <1>0, <2>1, <2>2 DEF Typed
<1>5. ASSUME NEW view, Loaded(t, view), pc[t] \notin {"idle", "answer"}
      PROVE  /\ pc'[t] # "idle"
             /\ \A u \in Threads \ {t} : pc'[u] = pc[u] /\ val'[u] = val[u]
  BY <1>0, <1>4, <1>5 DEF Loaded, Typed
<1>6. ASSUME NEW f \in Files, StatFile(t, f)  PROVE inner
  BY <1>0, <1>6 DEF StatFile, Typed
<1>7. ASSUME NEW f \in Files, ReadFile(t, f)  PROVE inner
  BY <1>0, <1>7 DEF ReadFile, NextToRead, Typed
<1>8. CASE Lookup(t)
  <2>1. UNCHANGED <<diskVars, req, clean>> /\ pc[t] = "token"  BY <1>8 DEF Lookup
  <2>2. ASSUME NEW e, Return(t, e.val)  PROVE inner  BY <2>1, <2>2, <1>4
  <2>3. ASSUME \/ BeginToken(t, "bundle")
               \/ pc' = [pc EXCEPT ![t] = "load"],
               UNCHANGED val
        PROVE  inner
    BY <1>0, <2>1, <2>3 DEF BeginToken, Typed
  <2>4. inner  BY <1>8, <2>2, <2>3 DEF Lookup
  <2> QED  BY <2>4, InnerStepMaps
<1>9. Loading(t) => pc[t] \notin {"idle", "answer"}  BY DEF Loading
<1>10. CASE LoadHit(t)
  <2>1. inner  BY <1>5, <1>9, <1>10 DEF LoadHit
  <2> QED  BY <2>1, InnerStepMaps
<1>11. CASE LoadMiss(t)
  <2>1. inner  BY <1>0, <1>9, <1>11 DEF LoadMiss, Typed
  <2> QED  BY <2>1, InnerStepMaps
<1>12. CASE StoreBundle(t)
  <2>1. inner  BY <1>5, <1>12 DEF StoreBundle
  <2> QED  BY <2>1, InnerStepMaps
<1>13. CASE StoreDerived(t)
  <2>1. inner  BY <1>4, <1>13 DEF StoreDerived
  <2> QED  BY <2>1, InnerStepMaps
<1>14. ASSUME NEW f \in Files, StatFile(t, f) \/ ReadFile(t, f)
       PROVE  [Register!RegisterNext]_(Register!registerVars)
  <2>1. inner  BY <1>6, <1>7, <1>14
  <2> QED  BY <2>1, InnerStepMaps
<1> QED
  BY <1>1, <1>2, <1>3, <1>8, <1>10, <1>11, <1>12, <1>13, <1>14 DEF Thread

(* Every step maps to a step of the register or to a stutter.              *)
LEMMA StepMaps ==
    ASSUME IInv, IInv', [Next]_vars
    PROVE  [Register!RegisterNext]_(Register!registerVars)
<1>1. CASE Download  BY <1>1, DownloadMaps
<1>2. ASSUME NEW f \in Files, OpenFile(f) \/ CloseFile(f)
      PROVE  [Register!RegisterNext]_(Register!registerVars)
  <2>1. Extracting /\ UNCHANGED <<pc, req, val, clean>>
    BY <1>2 DEF OpenFile, CloseFile, Extracting, threadVars
  <2> QED  BY <2>1, WriteStepMaps
<1>3. CASE DownloadFails
  BY <1>3, WriteStepMaps DEF DownloadFails, threadVars
<1>4. ASSUME NEW t \in Threads, Thread(t)
      PROVE  [Register!RegisterNext]_(Register!registerVars)
  BY <1>4, ThreadMaps
<1>5. CASE UNCHANGED vars
  <2>1. UNCHANGED <<disk, todo, open, pc, req, val, clean>>
    BY <1>5 DEF vars, diskVars, threadVars
  <2>2. Bundle' = Bundle  BY <2>1 DEF Bundle, Extracting
  <2> QED  BY <2>1, <2>2, ThreadsStand, StutterMaps DEF Stutter
<1> QED  BY <1>1, <1>2, <1>3, <1>4, <1>5 DEF Next

(* The initial states map to initial states of the register.               *)
LEMMA InitMaps == Init => Register!RegisterInit
<1> SUFFICES ASSUME Init PROVE Register!RegisterInit  OBVIOUS
<1>1. ~Extracting /\ \A t \in Threads : pc[t] = "idle"  BY DEF Init, Extracting
<1>2. [f \in Files |-> disk[f].content] \in [Files -> Content]
  BY InitIInv DEF IInv, Typed
<1> QED  BY <1>1, <1>2 DEF Register!RegisterInit

(* The caches implement the register: a request that no extraction overlaps*)
(* is answered from the bundle on disk, whole (gtfs_static.py's docstring: *)
(* "a refreshed bundle is picked up without a process restart").           *)
THEOREM ImplementsRegister == Spec => AnsweredFromOneBundle
<1>1. IInv /\ IInv' /\ [Next]_vars => [Register!RegisterNext]_(Register!registerVars)
  BY StepMaps
<1> QED
  BY <1>1, InitMaps, Invariant, PTL DEF Spec, AnsweredFromOneBundle, Register!RegisterSpec

-----------------------------------------------------------------------------
(* A cache stays within its maxsize, with one entry for a key.             *)
Bounded ==
    \A l \in Levels :
       /\ IsFiniteSet(cache[l])
       /\ Cardinality(cache[l]) <= Capacity[l]
       /\ \A d, e \in cache[l] : d.key = e.key => d = e

(* A store gives a key one entry and stays within the capacity.            *)
LEMMA StoreBounded ==
    ASSUME Typed, Bounded, NEW level \in Levels, NEW key, NEW view, Store(level, key, view)
    PROVE  Bounded'
<1> DEFINE new == [key |-> key, val |-> view]
<1>1. CASE UNCHANGED cache  BY <1>1 DEF Bounded
<1>2. CASE ~UNCHANGED cache
  <2>1. Cached(level, key) = {}  BY <1>2 DEF Store
  <2>2. PICK kept \in SUBSET cache[level] :
           /\ IF Cardinality(cache[level]) < Capacity[level]
              THEN kept = cache[level]
              ELSE Cardinality(kept) = Capacity[level] - 1
           /\ cache' = [cache EXCEPT ![level] = kept \cup {new}]
    BY <2>1 DEF Store
  <2>3. cache'[level] = kept \cup {new} /\ \A l \in Levels \ {level} : cache'[l] = cache[l]
    BY <2>2 DEF Typed
  <2>4. IsFiniteSet(cache[level]) /\ Capacity[level] \in Nat \ {0}
    BY BundleAssumption DEF Bounded
  <2>5. IsFiniteSet(kept)  BY <2>4, FS_Subset
  <2>6. Cardinality(kept) \in Nat /\ Cardinality(cache[level]) \in Nat
    BY <2>4, <2>5, FS_CardinalityType
  <2>7. Cardinality(kept) + 1 <= Capacity[level]
    BY <2>2, <2>4, <2>6
  <2>8. /\ IsFiniteSet(kept \cup {new})
        /\ Cardinality(kept \cup {new}) = Cardinality(kept)
           \/ Cardinality(kept \cup {new}) = Cardinality(kept) + 1
    BY <2>5, FS_AddElement
  <2>9. Cardinality(kept \cup {new}) <= Capacity[level]
    BY <2>4, <2>6, <2>7, <2>8
  <2>10. \A d, e \in kept \cup {new} : d.key = e.key => d = e
    <3>1. \A e \in kept : e.key # key  BY <2>1 DEF Cached
    <3>2. \A d, e \in kept : d.key = e.key => d = e  BY DEF Bounded
    <3> QED  BY <3>1, <3>2
  <2> QED  BY <2>3, <2>8, <2>9, <2>10 DEF Bounded
<1> QED  BY <1>1, <1>2

(* The caches stay within their capacity, one entry to a key.              *)
LEMMA BoundedKept ==
    ASSUME Typed, Bounded, [Next]_vars
    PROVE  Bounded'
<1>1. CASE UNCHANGED cache  BY <1>1 DEF Bounded
<1>2. ASSUME NEW t \in Threads, StoreBundle(t)  PROVE Bounded'
  BY <1>2, StoreBounded DEF StoreBundle, Levels
<1>3. ASSUME NEW t \in Threads, StoreDerived(t)  PROVE Bounded'
  <2>1. call[t] \in Levels  BY DEF Typed
  <2> QED  BY <1>3, <2>1, StoreBounded DEF StoreDerived
<1>4. ASSUME NEW t \in Threads, Thread(t), ~StoreBundle(t), ~StoreDerived(t)
      PROVE  UNCHANGED cache
  BY <1>4
  DEF Thread, Ask, StatFile, ReadFile, ReadRaises, Lookup, LoadHit, LoadMiss, Respond,
      EndRequest
<1>5. CASE \/ Download
           \/ \E f \in Files : OpenFile(f) \/ CloseFile(f)
           \/ DownloadFails
           \/ UNCHANGED vars
  <2>1. UNCHANGED cache
    BY <1>5 DEF Download, OpenFile, CloseFile, DownloadFails, vars
  <2> QED  BY <2>1, <1>1
<1> QED  BY <1>1, <1>2, <1>3, <1>4, <1>5 DEF Next

(* Each variable has its type, and a cache keeps to its maxsize with one   *)
(* entry for a token (the lru_cache decorations of gtfs_static.py and      *)
(* stop_projection.py).                                                    *)
THEOREM TypeCorrect == Spec => []TypeOK
<1>1. Init => Bounded
  <2>1. IsFiniteSet({}) /\ Cardinality({}) = 0  BY FS_EmptySet
  <2> QED  BY <2>1, BundleAssumption DEF Init, Bounded
<1>2. IInv /\ Bounded /\ [Next]_vars => Bounded'  BY BoundedKept DEF IInv
<1>3. IInv /\ Bounded => TypeOK
  <2>1. Content \subseteq Nat  BY BundleAssumption DEF Content
  <2> QED  BY <2>1 DEF IInv, Typed, Bounded, TypeOK
<1> QED  BY <1>1, <1>2, <1>3, Invariant, PTL DEF Spec
=============================================================================
