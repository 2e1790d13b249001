------------------------------ MODULE CollabGraph ------------------------------
(***************************************************************************)
(* The swarm graph of a collaborative session: edges between the agents of  *)
(* Collab (internal/collab/graph.go; cmd/api/handlers/collab.go).           *)
(***************************************************************************)
EXTENDS Collab

CONSTANTS
  HgReqs,   \* bound: requests to add an edge
  HgEdgeMax \* maxGraphEdgesPerSession, 256 in the code

ASSUME GraphAssumption == HgEdgeMax \in Nat \ {0}

VARIABLES
  hgReq,  \* how far each request is
  hgEdge, \* and the edge it asks for
  hgEdges \* agent_graph_edges

hgOwn == <<hgReq, hgEdge, hgEdges>>
hgVars == <<clVars, hgOwn>>

HgArrows == ClAgents \X ClAgents \* of one relation

HgTypeOK ==
  /\ ClTypeOK
  /\ hgReq \in [HgReqs -> {"new", "from", "known", "full", "roomy", "added", "refused"}]
  /\ hgEdge \in [HgReqs -> HgArrows \cup {<<>>}] /\ hgEdges \subseteq HgArrows

HgInit ==
  /\ ClInit /\ hgReq = [r \in HgReqs |-> "new"] /\ hgEdge = [r \in HgReqs |-> <<>>]
  /\ hgEdges = {}

HgJoins == ClNext /\ UNCHANGED hgOwn

\* A mutant: an edge may name an agent of any name.
HgKnownAnyone(a) == TRUE

\* agentKnown: in the active set, or ever in session_agents.
HgKnown(a) == a \in clSlots \/ clRows[a] # "none"

HgMove(r, step) == hgReq' = [hgReq EXCEPT ![r] = step]

\* The handler: collaboration is enabled.
HgAsks(r) == hgReq[r] = "new" /\ clCap # 0

\* AddGraphEdge: the ends differ, and from_agent is known.
HgFrom(r, e) ==
  /\ HgAsks(r)
  /\ hgEdge' = [hgEdge EXCEPT ![r] = e]
  /\ HgMove(r, IF e[1] # e[2] /\ HgKnown(e[1]) THEN "from" ELSE "refused")
  /\ UNCHANGED <<clVars, hgEdges>>

HgTo(r) ==
  /\ hgReq[r] = "from"
  /\ HgMove(r, IF HgKnown(hgEdge[r][2]) THEN "known" ELSE "refused")
  /\ UNCHANGED <<clVars, hgEdge, hgEdges>>

\* The count, and whether the edge is there already.
HgCount(r) ==
  /\ hgReq[r] = "known"
  /\ HgMove(r, IF Cardinality(hgEdges) >= HgEdgeMax THEN "full" ELSE "roomy")
  /\ UNCHANGED <<clVars, hgEdge, hgEdges>>

HgExisting(r) ==
  /\ hgReq[r] = "full"
  /\ HgMove(r, IF hgEdge[r] \in hgEdges THEN "roomy" ELSE "refused")
  /\ UNCHANGED <<clVars, hgEdge, hgEdges>>

\* The upsert.
HgAdd(r) ==
  /\ hgReq[r] = "roomy" /\ HgMove(r, "added")
  /\ hgEdges' = hgEdges \cup {hgEdge[r]}
  /\ UNCHANGED <<clVars, hgEdge>>

HgRemove(e) ==
  /\ clCap # 0 /\ e \in hgEdges /\ hgEdges' = hgEdges \ {e}
  /\ UNCHANGED <<clVars, hgReq, hgEdge>>

HgNext ==
  \/ HgJoins
  \/ \E r \in HgReqs : \/ \E e \in HgArrows : HgFrom(r, e)
                       \/ HgTo(r) \/ HgCount(r) \/ HgExisting(r) \/ HgAdd(r)
  \/ \E e \in HgArrows : HgRemove(e)

HgSpec == HgInit /\ [][HgNext]_hgVars

-----------------------------------------------------------------------------
(* Properties. *)

\* An edge joins two different agents, each of which held a slot at some time,
\* whoever left between the checks and the upsert (graph.go agentKnown).
HgOfAgents == \A e \in hgEdges : e[1] # e[2] /\ {e[1], e[2]} \subseteq clHeld

\* graph.go ErrGraphEdgeLimit: "returned when a session has too many edges".
HgEdgeLimit == Cardinality(hgEdges) <= HgEdgeMax
=============================================================================
