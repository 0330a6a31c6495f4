------------------------------ MODULE PollLedger ------------------------------
(***************************************************************************)
(* What the raw tables promise their readers: an append-only ledger of     *)
(* polls. A poll appears at once and whole - the payload it received with  *)
(* every row of that payload, or, when it failed, nothing - and is never   *)
(* touched again. Every row carries the time at which its poll began.      *)
(***************************************************************************)
EXTENDS Naturals, FeedDecoding

CONSTANTS Payloads      \* the bodies an endpoint may return

VARIABLES
    clock,
    ledger              \* the polls recorded so far

ledgerVars == <<clock, ledger>>

(* What a poll of a feed may have received: one usable payload, or nothing. *)
Receivable(feed) ==
    {{}} \cup {{m} : m \in {n \in Payloads : Parses(n) /\ Normalises(feed, n)}}

IsEntry(e, received) ==
    /\ e.feed \in FeedNames
    /\ received \in Receivable(e.feed)
    /\ e.rows = UNION {{[at |-> e.at, row |-> r] : r \in NormalRows(e.feed, m.entities)} :
                          m \in received}

LedgerInit ==
    /\ clock = 0
    /\ ledger = {}

Advance ==
    /\ clock' = clock + 1
    /\ UNCHANGED ledger

(* One new entry, under an id nobody has used, stamped no later than now.   *)
Record ==
    /\ \E e \in ledger' \ ledger :
          /\ IsEntry(e, e.received)
          /\ e.at <= clock
          /\ \A f \in ledger : f.id # e.id
          /\ ledger' = ledger \cup {e}
    /\ UNCHANGED clock

LedgerNext == Advance \/ Record

LedgerSpec == LedgerInit /\ [][LedgerNext]_ledgerVars
=============================================================================
