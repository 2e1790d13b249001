--------------------------- MODULE SessionLedger ---------------------------
(***************************************************************************)
(* What the session service promises its quota (MAX_SESSIONS_PER_ACTOR):   *)
(* the ledger of one deployment's sessions, without containers, workspaces *)
(* or handlers.  A session id is admitted while its owner has room, opened *)
(* when its row is inserted, and closed for good when stopped_at is set.   *)
(* The count and the insert are two statements, so what the ledger really  *)
(* bounds is the overshoot: see QuotaOvershootBounded.                     *)
(***************************************************************************)
EXTENDS SessionQuota

VARIABLES
  pending,  \* counted, not inserted yet
  open,     \* rows with stopped_at NULL
  closed    \* rows with stopped_at set

vars == <<pending, open, closed>>

Init == pending = {} /\ open = {} /\ closed = {}

(* The quota check of a creation: count the open rows of the owner. *)
Admit(s) ==
  /\ s \notin pending \cup open \cup closed
  /\ Limited(Owner[s]) =>
       Cardinality(open \cap SessionsOf(Owner[s])) < MaxSessionsPerActor
  /\ Cardinality(pending \cap SessionsOf(Owner[s])) < Concurrency
  /\ pending' = pending \cup {s}
  /\ UNCHANGED <<open, closed>>

Open(s) ==
  /\ s \in pending
  /\ pending' = pending \ {s}
  /\ open' = open \cup {s}
  /\ UNCHANGED closed

Close(s) ==
  /\ s \in open
  /\ open' = open \ {s}
  /\ closed' = closed \cup {s}
  /\ UNCHANGED pending

(* Creations that fail before the insert, all of them at once in a crash. *)
Drop(S) ==
  /\ S \subseteq pending
  /\ pending' = pending \ S
  /\ UNCHANGED <<open, closed>>

Next ==
  \/ \E s \in Sessions : Admit(s) \/ Open(s) \/ Close(s)
  \/ \E S \in SUBSET Sessions : Drop(S)

Spec == Init /\ [][Next]_vars

----------------------------------------------------------------------------
(* The quota as it really holds: an actor never has more open sessions     *)
(* than the quota plus the creations that can be between their count       *)
(* (CountActiveSessionsByActor) and their insert at the same moment, minus *)
(* one.  Serialised creations (Concurrency = 1) keep the quota exactly.    *)
QuotaOvershootBounded ==
  \A a \in Actors :
    Limited(a) => Cardinality(open \cap SessionsOf(a)) < MaxSessionsPerActor + Concurrency
============================================================================
