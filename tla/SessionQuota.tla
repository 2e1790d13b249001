---------------------------- MODULE SessionQuota ----------------------------
(* The parameters of the per-actor session quota, shared by the abstract   *)
(* ledger and by the handlers that implement it.                           *)
EXTENDS Integers, FiniteSets

CONSTANTS
  Sessions,            \* session ids (uuid.New gives each request a fresh one)
  Actors,              \* API key actors
  Owner,               \* created_by of each session id
  Exempt,              \* actors without a quota ("master")
  MaxSessionsPerActor, \* the quota; 0 = unlimited
  Concurrency          \* bound: creations of one actor between count and insert

ASSUME QuotaAssumption ==
  /\ IsFiniteSet(Sessions)
  /\ Owner \in [Sessions -> Actors]
  /\ Exempt \subseteq Actors
  /\ MaxSessionsPerActor \in Nat
  /\ Concurrency \in Nat \ {0}

SessionsOf(a) == {s \in Sessions : Owner[s] = a}

Limited(a) == MaxSessionsPerActor > 0 /\ a \notin Exempt
=============================================================================
