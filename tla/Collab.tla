-------------------------------- MODULE Collab --------------------------------
(***************************************************************************)
(* Agents of one collaborative session: the slots they hold in Redis, the   *)
(* rows of session_agents and their WebSocket connections                   *)
(* (internal/collab/manager.go, websocket.go; cmd/api/handlers/collab.go).  *)
(* CollabHub adds messages and the fan-out of events, CollabGraph the edges. *)
(***************************************************************************)
EXTENDS Naturals, FiniteSets, FiniteSetsExt

CONSTANTS
  ClAgents, \* agent ids
  ClConns,  \* bound: requests to join
  ClCaps,   \* the values an administrator gives max_agents
  ClMaxFails  \* bound: failures of Redis or the database

ASSUME CollabAssumption ==
  /\ ClCaps \subseteq Nat \ {0} /\ IsFiniteSet(ClCaps) /\ ClCaps # {}
  /\ ClMaxFails \in Nat /\ "nobody" \notin ClAgents

VARIABLES
  clCap,     \* max_agents; 0 while collaboration is not enabled
  clHighest, \* the highest cap there has been
  clHeld,    \* agents that have ever held a slot
  clSlots,   \* the active set in Redis
  clPresent, \* agents with a presence key
  clRows,    \* session_agents: none, active, disconnected
  clConn,    \* how far each request to join is
  clAgent,   \* and the agent it names
  clLive,    \* requests whose handler runs: their context is not cancelled
  clFails    \* failures so far

clJoins == <<clConn, clAgent, clLive>>
clVars == <<clCap, clHighest, clHeld, clSlots, clPresent, clRows, clJoins, clFails>>

ClTypeOK ==
  /\ clCap \in ClCaps \cup {0} /\ clHighest \in ClCaps \cup {0}
  /\ clHeld \subseteq ClAgents /\ clSlots \subseteq clHeld /\ clPresent \subseteq ClAgents
  /\ clRows \in [ClAgents -> {"none", "active", "disconnected"}]
  /\ clConn \in [ClConns -> {"new", "claimed", "joined", "open", "closed", "refused"}]
  /\ clAgent \in [ClConns -> ClAgents \cup {"nobody"}] /\ clLive \subseteq ClConns
  /\ clFails \in 0..ClMaxFails

ClInit ==
  /\ clCap = 0 /\ clHighest = 0 /\ clHeld = {} /\ clSlots = {} /\ clPresent = {}
  /\ clRows = [a \in ClAgents |-> "none"]
  /\ clConn = [c \in ClConns |-> "new"] /\ clAgent = [c \in ClConns |-> "nobody"]
  /\ clLive = {} /\ clFails = 0

ClFail == clFails < ClMaxFails /\ clFails' = clFails + 1
ClMove(c, step) == clConn' = [clConn EXCEPT ![c] = step]

\* EnableCollaboration; it may lower the cap under agents already present.
ClEnable(cap) ==
  /\ clCap' = cap /\ clHighest' = Max({clHighest, cap})
  /\ UNCHANGED <<clHeld, clSlots, clPresent, clRows, clJoins, clFails>>

-----------------------------------------------------------------------------
(* WebSocket: join, upgrade, and the end of the connection. *)

\* claimAgentSlot, one script.
ClClaimable(a) == a \in clSlots \/ Cardinality(clSlots) < clCap

ClClaim(c, a) ==
  /\ clConn[c] = "new" /\ clCap # 0
  /\ clAgent' = [clAgent EXCEPT ![c] = a]
  /\ IF ClClaimable(a)
     THEN /\ ClMove(c, "claimed") /\ clSlots' = clSlots \cup {a} /\ clHeld' = clHeld \cup {a}
          /\ clLive' = clLive \cup {c}
     ELSE ClMove(c, "refused") /\ UNCHANGED <<clSlots, clHeld, clLive>>
  /\ UNCHANGED <<clCap, clHighest, clPresent, clRows, clFails>>

\* The presence key and the row.  When either fails the slot is released, as
\* far as Redis answers.
ClStore(c) ==
  /\ clConn[c] = "claimed"
  /\ LET a == clAgent[c] IN
     \/ /\ ClMove(c, "joined") /\ clPresent' = clPresent \cup {a}
        /\ clRows' = [clRows EXCEPT ![a] = "active"] /\ UNCHANGED <<clSlots, clLive, clFails>>
     \/ /\ ClFail /\ ClMove(c, "refused") /\ clLive' = clLive \ {c} /\ UNCHANGED clRows
        /\ \/ clSlots' = clSlots \ {a} /\ clPresent' = clPresent \ {a}
           \/ UNCHANGED clSlots /\ clPresent' \in {clPresent, clPresent \cup {a}}
  /\ UNCHANGED <<clCap, clHighest, clHeld, clAgent>>

\* LeaveSession: nothing happens under a cancelled context.
ClLeave(c) ==
  LET a == clAgent[c] IN
    IF c \in clLive
    THEN /\ clSlots' = clSlots \ {a} /\ clPresent' = clPresent \ {a}
         /\ clRows' = [clRows EXCEPT ![a] = IF @ = "none" THEN @ ELSE "disconnected"]
    ELSE UNCHANGED <<clSlots, clPresent, clRows>>

\* The slot goes when the upgrade fails, also when it was held before.
ClUpgrade(c) ==
  /\ clConn[c] = "joined"
  /\ \/ ClMove(c, "open") /\ UNCHANGED <<clSlots, clPresent, clRows, clLive>>
     \/ ClMove(c, "refused") /\ ClLeave(c) /\ clLive' = clLive \ {c}
  /\ UNCHANGED <<clCap, clHighest, clHeld, clAgent, clFails>>

\* The handler returns once the pumps run, and net/http cancels the request's
\* context.
ClHandlerReturns(c) ==
  /\ clConn[c] \in {"open", "closed"} /\ c \in clLive
  /\ clLive' = clLive \ {c}
  /\ UNCHANGED <<clCap, clHighest, clHeld, clSlots, clPresent, clRows, clConn, clAgent, clFails>>

\* ReadPump ends: the client went, or WritePump saw the context cancelled and
\* closed the connection.
ClPumpEnds(c) ==
  /\ clConn[c] = "open" /\ ClMove(c, "closed") /\ ClLeave(c)
  /\ UNCHANGED <<clCap, clHighest, clHeld, clAgent, clLive, clFails>>

\* The presence key lapses 24 hours after it was written; the set does not.
ClPresenceLapses(a) ==
  /\ a \in clPresent /\ clPresent' = clPresent \ {a}
  /\ UNCHANGED <<clCap, clHighest, clHeld, clSlots, clRows, clJoins, clFails>>

ClNext ==
  \/ \E cap \in ClCaps : ClEnable(cap)
  \/ \E c \in ClConns : \/ \E a \in ClAgents : ClClaim(c, a)
                        \/ ClStore(c) \/ ClUpgrade(c) \/ ClHandlerReturns(c) \/ ClPumpEnds(c)
  \/ \E a \in ClAgents : ClPresenceLapses(a)

ClSpec == ClInit /\ [][ClNext]_clVars

-----------------------------------------------------------------------------
(* Properties. *)

\* Agents that join at the same moment, leave, rejoin and fail half way never
\* hold more slots than the highest cap an administrator has set
\* (claimAgentSlot).
ClSlotBound == Cardinality(clSlots) <= clHighest

\* collab_e2e_test.go: "the cap is only useful if slots come back"; an agent
\* all of whose connections have ended holds none.
ClSlotsComeBack ==
  \A a \in clSlots :
    \E c \in ClConns : clAgent[c] = a /\ clConn[c] \in {"claimed", "joined", "open"}
=============================================================================
