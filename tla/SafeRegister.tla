---------------------------- MODULE SafeRegister ----------------------------
(***************************************************************************)
(* What the caches of the static bundle promise (gtfs_static.py, "The load *)
(* is cached by directory mtime so a refreshed bundle is picked up without *)
(* a process restart"): a request that no rewriting of the bundle overlaps *)
(* is answered from the bundle on disk, whole. Nothing is said of a        *)
(* request that one overlaps.                                              *)
(***************************************************************************)
CONSTANTS
    Readers,
    Contents,       \* what the bundle may hold: functions on its files
    Views,          \* what an answer may be derived from: parts of a bundle
    Rewritten       \* while it is being rewritten

VARIABLES
    register,       \* the bundle
    reading,        \* for each reader "idle", "clean", "overlapped" or "done"
    answer          \* the views that the answer of a reader rests on

registerVars == <<register, reading, answer>>

RegisterInit ==
    /\ register \in Contents
    /\ reading = [r \in Readers |-> "idle"]
    /\ answer  = [r \in Readers |-> {}]

BeginRead(r) ==
    /\ reading[r] = "idle"
    /\ reading' = [reading EXCEPT ![r] = IF register = Rewritten THEN "overlapped"
                                                                 ELSE "clean"]
    /\ UNCHANGED <<register, answer>>

EndRead(r) ==
    /\ reading[r] \in {"clean", "overlapped"}
    /\ answer' \in [Readers -> SUBSET Views]
    /\ \A s \in Readers \ {r} : answer'[s] = answer[s]
    /\ reading[r] = "clean" =>
          \A view \in answer'[r] : \A f \in DOMAIN view : view[f] = register[f]
    /\ reading' = [reading EXCEPT ![r] = "done"]
    /\ UNCHANGED register

Respond(r) ==
    /\ reading[r] # "idle"
    /\ reading' = [reading EXCEPT ![r] = "idle"]
    /\ answer'  = [answer EXCEPT ![r] = {}]
    /\ UNCHANGED register

BeginWrite ==
    /\ register # Rewritten
    /\ register' = Rewritten
    /\ reading' = [r \in Readers |-> IF reading[r] = "clean" THEN "overlapped"
                                                             ELSE reading[r]]
    /\ UNCHANGED answer

EndWrite ==
    /\ register = Rewritten
    /\ register' \in Contents
    /\ UNCHANGED <<reading, answer>>

RegisterNext ==
    \/ BeginWrite
    \/ EndWrite
    \/ \E r \in Readers : BeginRead(r) \/ EndRead(r) \/ Respond(r)

RegisterSpec == RegisterInit /\ [][RegisterNext]_registerVars
=============================================================================
