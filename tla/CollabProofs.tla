---------------------------- MODULE CollabProofs ----------------------------
(***************************************************************************)
(* Proofs about collaboration: the slots of a workspace (Collab), and the  *)
(* two components that build on them, the task graph (CollabGraph) and the *)
(* hub with its transcript (CollabHub). What is proved of the slots is used*)
(* again in the other two.                                                 *)
(***************************************************************************)
EXTENDS CollabHub, CollabGraph, FiniteSetTheorems, SequenceTheorems, TLAPS

-----------------------------------------------------------------------------
(* The slots of a workspace *)

\* Requests whose agent was given a slot.
ClBound == {"claimed", "joined", "open", "closed"}

\* The highest cap covers the present one and the slots; an agent has a row, or
\* a connection, only if it was given a slot.
ClInv ==
  /\ clCap <= clHighest /\ IsFiniteSet(clSlots) /\ Cardinality(clSlots) <= clHighest
  /\ \A a \in ClAgents : clRows[a] # "none" => a \in clHeld
  /\ \A c \in ClConns : clConn[c] \in ClBound => clAgent[c] \in clHeld

ClIInv == ClTypeOK /\ ClInv

LEMMA ClInitIInv == ClInit => ClIInv
  BY CollabAssumption, FS_EmptySet
     DEF ClInit, ClIInv, ClTypeOK, ClInv, ClBound

LEMMA ClCapsNat == ClCaps \cup {0} \subseteq Nat
  BY CollabAssumption

\* Max, of two numbers.
LEMMA ClMaxOfTwo ==
  ASSUME NEW m \in Nat, NEW n \in Nat
  PROVE  Max({m, n}) \in {m, n} /\ Max({m, n}) >= m /\ Max({m, n}) >= n
<1> DEFINE P(x) == x \in {m, n} /\ \A y \in {m, n} : x >= y
<1>1. \E x : P(x)
  <2>1. CASE m >= n
    BY <2>1
  <2>2. CASE n >= m
    BY <2>2
  <2> QED
    BY <2>1, <2>2
<1>2. P(CHOOSE x : P(x))
  BY <1>1
<1>3. Max({m, n}) = CHOOSE x \in {m, n} : \A y \in {m, n} : x >= y
  BY DEF Max
<1> QED
  BY <1>1, <1>2, <1>3

LEMMA ClEnableIInv ==
  ASSUME ClIInv, NEW cap \in ClCaps, ClEnable(cap)
  PROVE  ClIInv'
<1>1. /\ clCap' = cap /\ clHighest' = Max({clHighest, cap})
      /\ UNCHANGED <<clHeld, clSlots, clPresent, clRows, clConn, clAgent, clLive, clFails>>
  BY DEF ClEnable, clJoins
<1>2. clHighest \in Nat /\ cap \in Nat
  BY ClCapsNat DEF ClIInv, ClTypeOK
<1>3. clHighest' \in {clHighest, cap} /\ clHighest' >= clHighest /\ clHighest' >= cap
  BY <1>1, <1>2, ClMaxOfTwo
<1>4. ClTypeOK'
  BY <1>1, <1>3 DEF ClIInv, ClTypeOK
<1>5. Cardinality(clSlots) <= clHighest'
  BY <1>2, <1>3, ClCapsNat, FS_CardinalityType DEF ClIInv, ClTypeOK, ClInv
<1> QED
  BY <1>1, <1>2, <1>3, <1>4, <1>5 DEF ClIInv, ClInv

\* The slots grow by one agent only below the cap.
LEMMA ClClaimIInv ==
  ASSUME ClIInv, NEW c \in ClConns, NEW a \in ClAgents, ClClaim(c, a)
  PROVE  ClIInv'
<1>1. /\ clAgent' \in [ClConns -> ClAgents \cup {"nobody"}] /\ clAgent'[c] = a
      /\ \A d \in ClConns \ {c} : clAgent'[d] = clAgent[d]
      /\ UNCHANGED <<clCap, clHighest, clPresent, clRows, clFails>>
  BY DEF ClClaim, ClIInv, ClTypeOK
<1>2. CASE ~ClClaimable(a)
  <2>1. /\ clConn' = [clConn EXCEPT ![c] = "refused"]
        /\ UNCHANGED <<clSlots, clHeld, clLive>>
    BY <1>2 DEF ClClaim, ClMove
  <2>2. ClTypeOK'
    BY <1>1, <2>1 DEF ClIInv, ClTypeOK
  <2> QED
    BY <1>1, <2>1, <2>2 DEF ClIInv, ClTypeOK, ClInv, ClBound
<1>3. CASE ClClaimable(a)
  <2>1. /\ clConn' = [clConn EXCEPT ![c] = "claimed"]
        /\ clSlots' = clSlots \cup {a} /\ clHeld' = clHeld \cup {a} /\ clLive' = clLive \cup {c}
    BY <1>3 DEF ClClaim, ClMove
  <2>2. ClTypeOK'
    BY <1>1, <2>1 DEF ClIInv, ClTypeOK
  <2>3. IsFiniteSet(clSlots') /\ Cardinality(clSlots') <= clHighest'
    <3>1. CASE a \in clSlots
      <4>1. clSlots' = clSlots
        BY <2>1, <3>1
      <4> QED
        BY <1>1, <4>1 DEF ClIInv, ClInv
    <3>2. CASE a \notin clSlots
      <4>1. Cardinality(clSlots) < clCap
        BY <1>3, <3>2 DEF ClClaimable
      <4>2. IsFiniteSet(clSlots') /\ Cardinality(clSlots') = Cardinality(clSlots) + 1
        BY <2>1, <3>2, FS_AddElement DEF ClIInv, ClInv
      <4>3. clCap <= clHighest /\ clCap \in Nat /\ clHighest \in Nat /\ Cardinality(clSlots) \in Nat
        BY ClCapsNat, FS_CardinalityType DEF ClIInv, ClTypeOK, ClInv
      <4> QED
        BY <1>1, <4>1, <4>2, <4>3
    <3> QED
      BY <3>1, <3>2
  <2>4. \A d \in ClConns : clConn'[d] \in ClBound => clAgent'[d] \in clHeld'
    BY <1>1, <2>1 DEF ClIInv, ClTypeOK, ClInv
  <2> QED
    BY <1>1, <2>1, <2>2, <2>3, <2>4 DEF ClIInv, ClInv
<1> QED
  BY <1>2, <1>3

\* Releasing a slot leaves the rest within the bound.
LEMMA ClSlotsShrink ==
  ASSUME ClIInv, NEW a, clSlots' = clSlots \/ clSlots' = clSlots \ {a}, UNCHANGED clHighest
  PROVE  /\ IsFiniteSet(clSlots') /\ Cardinality(clSlots') <= clHighest'
         /\ clSlots' \subseteq clSlots
<1>1. clSlots' \subseteq clSlots
  OBVIOUS
<1>2. IsFiniteSet(clSlots') /\ Cardinality(clSlots') <= Cardinality(clSlots)
  BY <1>1, FS_Subset DEF ClIInv, ClInv
<1>3. Cardinality(clSlots') \in Nat /\ Cardinality(clSlots) \in Nat /\ clHighest \in Nat
  BY <1>2, ClCapsNat, FS_CardinalityType DEF ClIInv, ClTypeOK, ClInv
<1> QED
  BY <1>1, <1>2, <1>3 DEF ClIInv, ClInv

\* A step of a connection that was given its slot before.
LEMMA ClMoveIInv ==
  ASSUME ClIInv, NEW c \in ClConns, clConn[c] \in ClBound,
         NEW step \in ClBound \cup {"refused"}, clConn' = [clConn EXCEPT ![c] = step],
         UNCHANGED <<clCap, clHighest, clHeld, clAgent>>,
         clSlots' = clSlots \/ clSlots' = clSlots \ {clAgent[c]},
         clPresent' \subseteq ClAgents, clLive' \subseteq ClConns, clFails' \in 0..ClMaxFails,
         clRows' \in [ClAgents -> {"none", "active", "disconnected"}],
         \A b \in ClAgents : clRows'[b] # "none" => clRows[b] # "none" \/ b = clAgent[c]
  PROVE  ClIInv'
<1>1. /\ IsFiniteSet(clSlots') /\ Cardinality(clSlots') <= clHighest'
      /\ clSlots' \subseteq clSlots
  BY ClSlotsShrink
<1>2. ClTypeOK'
  BY <1>1 DEF ClIInv, ClTypeOK, ClBound
<1>3. \A b \in ClAgents : clRows'[b] # "none" => b \in clHeld'
  BY DEF ClIInv, ClInv
<1>4. \A d \in ClConns : clConn'[d] \in ClBound => clAgent'[d] \in clHeld'
  BY DEF ClIInv, ClInv, ClTypeOK
<1> QED
  BY <1>1, <1>2, <1>3, <1>4 DEF ClIInv, ClInv

LEMMA ClStoreIInv ==
  ASSUME ClIInv, NEW c \in ClConns, ClStore(c)
  PROVE  ClIInv'
<1> DEFINE a == clAgent[c]
<1>1. /\ clConn[c] = "claimed" /\ UNCHANGED <<clCap, clHighest, clHeld, clAgent>>
      /\ a \in ClAgents /\ clPresent \subseteq ClAgents /\ clLive \subseteq ClConns
      /\ clRows \in [ClAgents -> {"none", "active", "disconnected"}] /\ clFails \in 0..ClMaxFails
  BY DEF ClStore, ClIInv, ClTypeOK, ClInv, ClBound
<1>2. CASE /\ ClMove(c, "joined") /\ clPresent' = clPresent \cup {a}
           /\ clRows' = [clRows EXCEPT ![a] = "active"] /\ UNCHANGED <<clSlots, clLive, clFails>>
  <2>1. \A b \in ClAgents : clRows'[b] # "none" => clRows[b] # "none" \/ b = a
    BY <1>1, <1>2
  <2> QED
    BY <1>1, <1>2, <2>1, ClMoveIInv DEF ClMove, ClBound
<1>3. CASE /\ ClFail /\ ClMove(c, "refused") /\ clLive' = clLive \ {c} /\ UNCHANGED clRows
           /\ \/ clSlots' = clSlots \ {a} /\ clPresent' = clPresent \ {a}
              \/ UNCHANGED clSlots /\ clPresent' \in {clPresent, clPresent \cup {a}}
  <2>1. clFails' \in 0..ClMaxFails
    BY <1>1, <1>3, CollabAssumption DEF ClFail
  <2>2. clPresent' \subseteq ClAgents /\ clLive' \subseteq ClConns
    BY <1>1, <1>3
  <2> QED
    BY <1>1, <1>3, <2>1, <2>2, ClMoveIInv DEF ClMove, ClBound
<1> QED
  BY <1>2, <1>3 DEF ClStore

\* What a leave may change.
LEMMA ClLeaveType ==
  ASSUME ClIInv, NEW c \in ClConns, ClLeave(c), clConn[c] \in ClBound
  PROVE  /\ clSlots' = clSlots \/ clSlots' = clSlots \ {clAgent[c]}
         /\ clPresent' \subseteq ClAgents
         /\ clRows' \in [ClAgents -> {"none", "active", "disconnected"}]
         /\ \A b \in ClAgents : clRows'[b] # "none" => clRows[b] # "none"
  BY DEF ClLeave, ClIInv, ClTypeOK

LEMMA ClRestIInv ==
  ASSUME ClIInv, NEW c \in ClConns, ClUpgrade(c) \/ ClHandlerReturns(c) \/ ClPumpEnds(c)
  PROVE  ClIInv'
<1>1. /\ clPresent \subseteq ClAgents /\ clLive \subseteq ClConns /\ clFails \in 0..ClMaxFails
      /\ clRows \in [ClAgents -> {"none", "active", "disconnected"}]
  BY DEF ClIInv, ClTypeOK
<1>2. CASE ClHandlerReturns(c)
  BY <1>2 DEF ClHandlerReturns, ClIInv, ClTypeOK, ClInv
<1>3. CASE ClUpgrade(c) /\ ClMove(c, "open") /\ UNCHANGED <<clSlots, clPresent, clRows, clLive>>
  BY <1>1, <1>3, ClMoveIInv DEF ClUpgrade, ClMove, ClBound
<1>4. CASE ClUpgrade(c) /\ ClMove(c, "refused") /\ ClLeave(c) /\ clLive' = clLive \ {c}
  <2>1. clConn[c] \in ClBound /\ clLive' \subseteq ClConns
    BY <1>1, <1>4 DEF ClUpgrade, ClBound
  <2> QED
    BY <1>1, <1>4, <2>1, ClLeaveType, ClMoveIInv DEF ClUpgrade, ClMove
<1>5. CASE ClPumpEnds(c)
  <2>1. clConn[c] \in ClBound /\ ClLeave(c)
    BY <1>5 DEF ClPumpEnds, ClBound
  <2> QED
    BY <1>1, <1>5, <2>1, ClLeaveType, ClMoveIInv DEF ClPumpEnds, ClMove, ClBound
<1> QED
  BY <1>2, <1>3, <1>4, <1>5 DEF ClUpgrade

LEMMA ClNextIInv == ClIInv /\ [ClNext]_clVars => ClIInv'
<1> SUFFICES ASSUME ClIInv, [ClNext]_clVars
             PROVE  ClIInv'
  OBVIOUS
<1>1. CASE UNCHANGED clVars
  BY <1>1 DEF clVars, clJoins, ClIInv, ClTypeOK, ClInv
<1>2. ASSUME NEW a \in ClAgents, ClPresenceLapses(a)
      PROVE  ClIInv'
  BY <1>2 DEF ClPresenceLapses, clJoins, ClIInv, ClTypeOK, ClInv
<1> QED
  BY <1>1, <1>2, ClEnableIInv, ClClaimIInv, ClStoreIInv, ClRestIInv DEF ClNext

\* The agents that have held a slot only become more.
LEMMA ClHeldGrows ==
  ASSUME [ClNext]_clVars
  PROVE  clHeld \subseteq clHeld'
  BY DEF ClNext, clVars, ClEnable, ClClaim, ClStore, ClUpgrade, ClHandlerReturns, ClPumpEnds,
         ClPresenceLapses

\* Agents that join at the same moment, leave, rejoin and fail half way never
\* hold more slots than the highest cap an administrator has set, for any
\* number of agents, connections and caps (claimAgentSlot of
\* internal/collab/manager.go).
THEOREM SlotsAreBounded == ClSpec => [](ClTypeOK /\ ClSlotBound)
<1>1. ClSpec => []ClIInv
  BY ClInitIInv, ClNextIInv, PTL DEF ClSpec
<1>2. ClIInv => ClTypeOK /\ ClSlotBound
  BY DEF ClIInv, ClInv, ClSlotBound
<1> QED
  BY <1>1, <1>2, PTL

-----------------------------------------------------------------------------
(* The graph of a collaboration *)

\* A request has checked the ends of its edge in turn, and knows them from then on.
HgInv ==
  /\ \A r \in HgReqs :
       /\ hgReq[r] \in {"from", "known", "full", "roomy"} =>
            hgEdge[r] \in HgArrows /\ hgEdge[r][1] # hgEdge[r][2] /\ hgEdge[r][1] \in clHeld
       /\ hgReq[r] \in {"known", "full", "roomy"} => hgEdge[r][2] \in clHeld
  /\ HgOfAgents

HgIInv == HgTypeOK /\ ClIInv /\ HgInv

LEMMA HgInitIInv == HgInit => HgIInv
<1> SUFFICES ASSUME HgInit PROVE HgIInv
  OBVIOUS
<1>1. ClIInv
  BY ClInitIInv DEF HgInit
<1>2. HgTypeOK
  BY <1>1 DEF HgInit, HgTypeOK, ClIInv
<1>3. HgInv
  BY DEF HgInit, HgInv, HgOfAgents
<1> QED
  BY <1>1, <1>2, <1>3 DEF HgIInv

\* An agent that is known has held a slot.
LEMMA HgKnownHeld ==
  ASSUME ClIInv, NEW a \in ClAgents, HgKnown(a)
  PROVE  a \in clHeld
  BY DEF HgKnown, ClIInv, ClTypeOK, ClInv

LEMMA HgJoinsIInv ==
  ASSUME HgIInv, [ClNext]_clVars, UNCHANGED hgOwn
  PROVE  HgIInv'
<1>1. ClIInv' /\ clHeld \subseteq clHeld'
  BY ClNextIInv, ClHeldGrows DEF HgIInv
<1>2. UNCHANGED <<hgReq, hgEdge, hgEdges>>
  BY DEF hgOwn
<1>3. HgTypeOK'
  BY <1>1, <1>2 DEF HgIInv, HgTypeOK, ClIInv
<1>4. HgInv'
  BY <1>1, <1>2 DEF HgIInv, HgInv, HgOfAgents
<1> QED
  BY <1>1, <1>3, <1>4 DEF HgIInv

\* A request moves on; the agents stay as they are.
LEMMA HgMoveIInv ==
  ASSUME HgIInv, NEW r \in HgReqs,
         NEW step \in {"from", "known", "full", "roomy", "added", "refused"}, HgMove(r, step),
         NEW e \in HgArrows \cup {<<>>}, hgEdge' = [hgEdge EXCEPT ![r] = e], UNCHANGED <<clVars, hgEdges>>,
         step \in {"from", "known", "full", "roomy"} =>
           e \in HgArrows /\ e[1] # e[2] /\ e[1] \in clHeld,
         step \in {"known", "full", "roomy"} => e[2] \in clHeld
  PROVE  HgIInv'
<1>1. ClIInv' /\ ClTypeOK' /\ UNCHANGED clHeld
  BY ClNextIInv DEF HgIInv, clVars, ClIInv
<1>2. /\ hgReq' \in [HgReqs -> {"new", "from", "known", "full", "roomy", "added", "refused"}]
      /\ hgEdge' \in [HgReqs -> HgArrows \cup {<<>>}]
      /\ hgReq'[r] = step /\ hgEdge'[r] = e
      /\ \A s \in HgReqs \ {r} : hgReq'[s] = hgReq[s] /\ hgEdge'[s] = hgEdge[s]
  BY DEF HgIInv, HgTypeOK, HgMove
<1>3. HgTypeOK'
  BY <1>1, <1>2 DEF HgIInv, HgTypeOK
<1>4. HgInv'
  BY <1>1, <1>2 DEF HgIInv, HgInv, HgOfAgents
<1> QED
  BY <1>1, <1>3, <1>4 DEF HgIInv

LEMMA HgCheckIInv ==
  ASSUME HgIInv, NEW r \in HgReqs,
         \/ \E e \in HgArrows : HgFrom(r, e)
         \/ HgTo(r) \/ HgCount(r) \/ HgExisting(r)
  PROVE  HgIInv'
<1>0. hgEdge \in [HgReqs -> HgArrows \cup {<<>>}] /\ ClIInv
  BY DEF HgIInv, HgTypeOK
<1>1. ASSUME NEW e \in HgArrows, HgFrom(r, e)
      PROVE  HgIInv'
  <2>1. e[1] \in ClAgents /\ (HgKnown(e[1]) => e[1] \in clHeld)
    BY <1>0, HgKnownHeld DEF HgArrows
  <2>2. CASE e[1] # e[2] /\ HgKnown(e[1])
    BY <1>1, <2>1, <2>2, HgMoveIInv DEF HgFrom
  <2>3. CASE ~(e[1] # e[2] /\ HgKnown(e[1]))
    BY <1>1, <2>3, HgMoveIInv DEF HgFrom
  <2> QED
    BY <2>2, <2>3
<1>2. CASE HgTo(r) \/ HgCount(r) \/ HgExisting(r)
  <2>1. /\ hgEdge' = [hgEdge EXCEPT ![r] = hgEdge[r]] /\ UNCHANGED <<clVars, hgEdges>>
        /\ hgEdge[r] \in HgArrows /\ hgEdge[r][1] # hgEdge[r][2] /\ hgEdge[r][1] \in clHeld
    BY <1>0, <1>2 DEF HgTo, HgCount, HgExisting, HgIInv, HgInv
  <2>2. hgEdge[r][2] \in ClAgents
    BY <2>1 DEF HgArrows
  <2>3. CASE HgTo(r)
    <3>1. CASE HgKnown(hgEdge[r][2])
      BY <1>0, <2>1, <2>2, <2>3, <3>1, HgKnownHeld, HgMoveIInv DEF HgTo
    <3>2. CASE ~HgKnown(hgEdge[r][2])
      BY <2>1, <2>3, <3>2, HgMoveIInv DEF HgTo
    <3> QED
      BY <3>1, <3>2
  <2>4. CASE HgCount(r) \/ HgExisting(r)
    <3>1. hgEdge[r][2] \in clHeld
      BY <2>4 DEF HgCount, HgExisting, HgIInv, HgInv
    <3>2. PICK step \in {"full", "roomy", "refused"} : HgMove(r, step)
      BY <2>4 DEF HgCount, HgExisting
    <3> QED
      BY <2>1, <3>1, <3>2, HgMoveIInv
  <2> QED
    BY <1>2, <2>3, <2>4
<1> QED
  BY <1>1, <1>2

LEMMA HgEdgesIInv ==
  ASSUME HgIInv, (\E r \in HgReqs : HgAdd(r)) \/ (\E e \in HgArrows : HgRemove(e))
  PROVE  HgIInv'
<1>1. UNCHANGED clVars
  BY DEF HgAdd, HgRemove
<1>2. ClIInv' /\ ClTypeOK' /\ UNCHANGED clHeld
  BY <1>1, ClNextIInv DEF HgIInv, clVars, ClIInv
<1>3. ASSUME NEW r \in HgReqs, HgAdd(r)
      PROVE  HgIInv'
  <2>1. /\ hgEdge[r] \in HgArrows /\ hgEdge[r][1] # hgEdge[r][2]
        /\ {hgEdge[r][1], hgEdge[r][2]} \subseteq clHeld
    BY <1>3 DEF HgAdd, HgIInv, HgInv
  <2>2. HgOfAgents'
    BY <1>2, <1>3, <2>1 DEF HgAdd, HgIInv, HgInv, HgOfAgents
  <2>3. HgTypeOK'
    BY <1>2, <1>3, <2>1 DEF HgAdd, HgMove, HgIInv, HgTypeOK
  <2> QED
    BY <1>2, <1>3, <2>2, <2>3 DEF HgAdd, HgMove, HgIInv, HgInv, HgTypeOK
<1>4. ASSUME NEW e \in HgArrows, HgRemove(e)
      PROVE  HgIInv'
  BY <1>2, <1>4 DEF HgRemove, HgIInv, HgInv, HgTypeOK, HgOfAgents
<1> QED
  BY <1>3, <1>4

LEMMA HgNextIInv == HgIInv /\ [HgNext]_hgVars => HgIInv'
<1> SUFFICES ASSUME HgIInv, [HgNext]_hgVars
             PROVE  HgIInv'
  OBVIOUS
<1>1. CASE HgJoins \/ UNCHANGED hgVars
  BY <1>1, HgJoinsIInv DEF HgJoins, hgVars
<1> QED
  BY <1>1, HgCheckIInv, HgEdgesIInv DEF HgNext

\* What the invariant says of the property.
LEMMA HgIInvImplies == HgIInv => HgTypeOK /\ HgOfAgents /\ ClSlotBound
<1> QED
  BY DEF HgIInv, HgInv, ClIInv, ClInv, ClSlotBound

\* An edge of the swarm graph joins two different agents, each of which held a
\* slot at some time, whoever left between the checks and the upsert
\* (agentKnown and AddGraphEdge of internal/collab/graph.go).
THEOREM GraphJoinsAgents == HgSpec => [](HgTypeOK /\ HgOfAgents /\ ClSlotBound)
<1>1. HgSpec => []HgIInv
  BY HgInitIInv, HgNextIInv, PTL DEF HgSpec
<1>2. HgIInv => HgTypeOK /\ HgOfAgents /\ ClSlotBound
  BY HgIInvImplies
<1> QED
  BY <1>1, <1>2, PTL

-----------------------------------------------------------------------------
(* The transcript *)

\* A message that was checked or stored names an agent that held a slot, and
\* whatever the hub has on its way to a connection was stored.
HbInv ==
  /\ hbUp \in BOOLEAN /\ hbPresence \subseteq {c \in ClConns : clConn[c] = "open"}
  /\ hbStored \subseteq HbMsgs
  /\ hbMsg \in [HbMsgs -> {"new", "checked", "stored", "published", "refused"}]
  /\ hbFrom \in [HbMsgs -> ClAgents \cup {"nobody"}]
  /\ hbBy \in [HbMsgs -> ClConns \cup {"rest"}]
  /\ hbClient \in [ClAgents -> ClConns \cup {"none"}]
  /\ \A m \in HbMsgs : hbMsg[m] = "checked" => hbFrom[m] \in clHeld
  /\ \A m \in HbMsgs : m \in hbStored <=> hbMsg[m] \in {"stored", "published"}
  /\ \A m \in hbStored : hbFrom[m] \in clHeld

HbFanInv ==
  /\ DOMAIN hbSubs \subseteq ClConns
  /\ \A c \in DOMAIN hbSubs : hbSubs[c] \in Seq(hbStored)
  /\ hbWalk \in [ClConns -> hbStored \cup {"none"}]
  /\ hbQueue \in [ClConns -> Seq(hbStored)]
  /\ \A c \in ClConns : Len(hbQueue[c]) <= HbSendMax
  /\ hbGot \in [ClConns -> SUBSET hbStored]

HbIInv == ClIInv /\ HbInv /\ HbFanInv

LEMMA HbIInvImplies == HbIInv => HbTypeOK /\ HbOfAgents /\ ClSlotBound
<1> SUFFICES ASSUME HbIInv PROVE HbTypeOK /\ HbOfAgents /\ ClSlotBound
  OBVIOUS
<1>1. /\ \A c \in DOMAIN hbSubs : hbSubs[c] \in Seq(HbMsgs)
      /\ \A c \in ClConns : hbQueue[c] \in Seq(HbMsgs)
  BY SeqMonotonic DEF HbIInv, HbInv, HbFanInv
<1>2. HbTypeOK
  BY <1>1 DEF HbIInv, HbInv, HbFanInv, HbTypeOK, ClIInv
<1>3. \A c \in ClConns : Range(hbQueue[c]) \subseteq hbStored
  BY LenProperties, ElementOfSeq DEF Range, HbIInv, HbFanInv
<1>4. HbOfAgents
  BY <1>3 DEF HbOfAgents, HbIInv, HbInv, HbFanInv
<1> QED
  BY <1>2, <1>4 DEF HbIInv, ClIInv, ClInv, ClSlotBound

LEMMA HbInitIInv == HbInit => HbIInv
<1> SUFFICES ASSUME HbInit PROVE HbIInv
  OBVIOUS
<1>1. ClIInv
  BY ClInitIInv DEF HbInit
<1>2. HbInv
  BY DEF HbInit, HbInv
<1>3. <<>> \in Seq(hbStored) /\ Len(<<>>) = 0 /\ DOMAIN <<>> = {}
  BY EmptySeq
<1>4. HbFanInv
  BY <1>3, HubAssumption DEF HbInit, HbFanInv
<1> QED
  BY <1>1, <1>2, <1>4 DEF HbIInv

\* Failures, presence keys and rows of agents that have one keep the agents' invariant.
LEMMA ClSideIInv ==
  ASSUME ClIInv, UNCHANGED <<clCap, clHighest, clHeld, clSlots, clJoins>>,
         clFails' \in 0..ClMaxFails, clPresent' \subseteq ClAgents,
         clRows' \in [ClAgents -> {"none", "active", "disconnected"}],
         \A a \in ClAgents : clRows'[a] # "none" => clRows[a] # "none"
  PROVE  ClIInv'
  BY DEF ClIInv, ClTypeOK, ClInv, clJoins

\* What is on its way stays stored while more is stored.
LEMMA HbFanGrows ==
  ASSUME HbFanInv, hbStored \subseteq hbStored', UNCHANGED hbFan
  PROVE  HbFanInv'
<1>1. UNCHANGED <<hbSubs, hbWalk, hbQueue, hbGot>>
  BY DEF hbFan
<1>2. /\ \A c \in DOMAIN hbSubs : hbSubs[c] \in Seq(hbStored')
      /\ \A c \in ClConns : hbQueue[c] \in Seq(hbStored')
  BY SeqMonotonic DEF HbFanInv
<1> QED
  BY <1>1, <1>2 DEF HbFanInv

LEMMA HbJoinsIInv ==
  ASSUME HbIInv, [ClNext]_clVars, UNCHANGED <<hbUp, hbPosts, hbFan, hbPresence>>,
         \A c \in hbPresence : clConn'[c] = "open"
  PROVE  HbIInv'
<1>1. ClIInv' /\ clHeld \subseteq clHeld'
  BY ClNextIInv, ClHeldGrows DEF HbIInv
<1>2. HbInv'
  BY <1>1 DEF HbIInv, HbInv, hbPosts, hbFan
<1>3. HbFanInv'
  BY HbFanGrows DEF HbIInv, hbPosts
<1> QED
  BY <1>1, <1>2, <1>3 DEF HbIInv

\* A message is checked, stored or refused.
LEMMA HbMessageIInv ==
  ASSUME HbIInv, NEW m \in HbMsgs,
         \/ \E a \in ClAgents : HbCheck(m, a)
         \/ \E c \in ClConns : HbSay(c, m)
         \/ HbStore(m)
  PROVE  HbIInv'
<1>1. UNCHANGED <<clHeld, clSlots, clConn, hbUp, hbFan, hbPresence>>
  BY DEF HbCheck, HbSay, HbStore, clVars, clJoins
<1>2. ClIInv'
  <2>1. CASE UNCHANGED clVars
    BY <2>1, ClNextIInv DEF HbIInv
  <2>2. CASE HbStore(m)
    <3>1. clFails' \in 0..ClMaxFails
      BY <2>2, CollabAssumption DEF HbStore, ClFail, HbIInv, ClIInv, ClTypeOK
    <3> QED
      BY <2>2, <3>1, ClSideIInv DEF HbStore, HbIInv, ClIInv, ClTypeOK
  <2> QED
    BY <2>1, <2>2 DEF HbCheck, HbSay
<1>3. hbStored \subseteq hbStored'
  BY DEF HbCheck, HbSay, HbStore
<1>4. HbFanInv'
  BY <1>1, <1>3, HbFanGrows DEF HbIInv
<1>5. HbInv'
  <2>1. ASSUME NEW a \in ClAgents, HbCheck(m, a)
        PROVE  HbInv'
    <3>1. a \in clSlots => a \in clHeld
      BY DEF HbIInv, ClIInv, ClTypeOK
    <3> QED
      BY <1>1, <2>1, <3>1 DEF HbCheck, HbIInv, HbInv, hbFan
  <2>2. ASSUME NEW c \in ClConns, HbSay(c, m)
        PROVE  HbInv'
    <3>1. clAgent[c] \in clHeld /\ clAgent[c] \in ClAgents
      BY <2>2 DEF HbSay, HbIInv, ClIInv, ClTypeOK, ClInv, ClBound
    <3> QED
      BY <1>1, <2>2, <3>1 DEF HbSay, HbIInv, HbInv, hbFan
  <2>3. CASE HbStore(m)
    BY <1>1, <2>3 DEF HbStore, HbIInv, HbInv, hbFan
  <2> QED
    BY <2>1, <2>2, <2>3
<1> QED
  BY <1>2, <1>4, <1>5 DEF HbIInv

LEMMA HbPublishIInv ==
  ASSUME HbIInv, NEW m \in HbMsgs, HbPublish(m)
  PROVE  HbIInv'
<1>1. PICK reached \in SUBSET DOMAIN hbSubs :
        hbSubs' = [c \in DOMAIN hbSubs |->
            IF c \in reached THEN Append(hbSubs[c], m) ELSE hbSubs[c]]
  BY DEF HbPublish
<1>2. /\ UNCHANGED <<clVars, hbUp, hbFrom, hbBy, hbStored, hbClient, hbWalk, hbQueue, hbGot, hbPresence>>
      /\ hbMsg' = [hbMsg EXCEPT ![m] = "published"] /\ hbMsg[m] = "stored" /\ m \in hbStored
  BY DEF HbPublish, HbIInv, HbInv
<1>3. ClIInv' /\ UNCHANGED <<clHeld, clConn>>
  BY <1>2, ClNextIInv DEF HbIInv, clVars, clJoins
<1>4. HbInv'
  BY <1>2, <1>3 DEF HbIInv, HbInv
<1>5. \A c \in DOMAIN hbSubs : Append(hbSubs[c], m) \in Seq(hbStored)
  BY <1>2 DEF HbIInv, HbFanInv
<1>6. HbFanInv'
  BY <1>1, <1>2, <1>5 DEF HbIInv, HbFanInv
<1> QED
  BY <1>3, <1>4, <1>6 DEF HbIInv

\* The hub moves what it holds towards the connections.
LEMMA HbHubIInv ==
  ASSUME HbIInv, NEW c \in ClConns,
         HbRegister(c) \/ HbTake(c) \/ HbHand(c) \/ HbWrite(c)
  PROVE  HbIInv'
<1>1. UNCHANGED <<clVars, hbPosts, hbPresence>>
  BY DEF HbRegister, HbTake, HbHand, HbWrite
<1>2. ClIInv' /\ UNCHANGED <<clHeld, clAgent, clConn>>
  BY <1>1, ClNextIInv DEF HbIInv, clVars, clJoins
<1>3. UNCHANGED hbStored /\ HbFanInv /\ HbInv
  BY <1>1 DEF hbPosts, HbIInv
<1>4. HbInv'
  <2>1. hbUp' \in BOOLEAN
    BY DEF HbRegister, HbTake, HbHand, HbWrite, HbIInv, HbInv
  <2>2. hbClient' \in [ClAgents -> ClConns \cup {"none"}]
    BY DEF HbRegister, HbTake, HbHand, HbWrite, HbIInv, HbInv
  <2> QED
    BY <1>1, <1>2, <2>1, <2>2 DEF HbIInv, HbInv, hbPosts
<1>5. CASE HbRegister(c)
  <2>1. UNCHANGED <<hbWalk, hbQueue, hbGot>>
    BY <1>5 DEF HbRegister
  <2>2. /\ DOMAIN hbSubs' \subseteq ClConns
        /\ \A d \in DOMAIN hbSubs' : hbSubs'[d] \in Seq(hbStored)
    <3>1. CASE hbSubs' = [d \in DOMAIN hbSubs \cup {c} |-> IF d = c THEN <<>> ELSE hbSubs[d]]
      <4>1. /\ DOMAIN hbSubs' = {c} \cup DOMAIN hbSubs
            /\ \A d \in DOMAIN hbSubs' : hbSubs'[d] = IF d = c THEN <<>> ELSE hbSubs[d]
        BY <3>1
      <4> QED
        BY <1>3, <4>1, EmptySeq DEF HbFanInv
    <3>2. CASE UNCHANGED hbSubs
      BY <1>3, <3>2 DEF HbFanInv
    <3> QED
      BY <1>5, <3>1, <3>2 DEF HbRegister
  <2> QED
    BY <1>2, <1>3, <1>4, <2>1, <2>2 DEF HbIInv, HbFanInv
<1>6. CASE HbTake(c)
  <2>1. Head(hbSubs[c]) \in hbStored /\ Tail(hbSubs[c]) \in Seq(hbStored)
    BY <1>3, <1>6, HeadTailProperties DEF HbTake, HbRegistered, HbFanInv
  <2>2. HbFanInv'
    BY <1>3, <1>6, <2>1 DEF HbTake, HbFanInv
  <2> QED
    BY <1>2, <1>4, <2>2 DEF HbIInv
<1>7. CASE HbHand(c)
  <2>1. hbWalk[c] \in hbStored /\ UNCHANGED <<hbSubs, hbGot>>
    BY <1>3, <1>7 DEF HbHand, HbFanInv
  <2>2. \A d \in ClConns : /\ Append(hbQueue[d], hbWalk[c]) \in Seq(hbStored)
                           /\ Len(Append(hbQueue[d], hbWalk[c])) = Len(hbQueue[d]) + 1
                           /\ Len(hbQueue[d]) \in Nat
    BY <1>3, <2>1 DEF HbFanInv
  <2>3. hbQueue' \in [ClConns -> Seq(hbStored)]
    BY <1>3, <1>7, <2>2 DEF HbHand, HbFanInv
  <2>4. \A d \in ClConns : Len(hbQueue'[d]) <= HbSendMax
    BY <1>3, <1>7, <2>2, HubAssumption DEF HbHand, HbFanInv
  <2>5. hbWalk' \in [ClConns -> hbStored \cup {"none"}]
    BY <1>3, <1>7 DEF HbHand, HbFanInv
  <2> QED
    BY <1>2, <1>3, <1>4, <2>1, <2>3, <2>4, <2>5 DEF HbIInv, HbFanInv
<1>8. CASE HbWrite(c)
  <2>1. /\ Head(hbQueue[c]) \in hbStored /\ Tail(hbQueue[c]) \in Seq(hbStored)
        /\ Len(Tail(hbQueue[c])) = Len(hbQueue[c]) - 1 /\ Len(hbQueue[c]) \in Nat
    BY <1>3, <1>8, HeadTailProperties, LenProperties DEF HbWrite, HbFanInv
  <2>2. hbQueue' \in [ClConns -> Seq(hbStored)]
    BY <1>3, <1>8, <2>1 DEF HbWrite, HbFanInv
  <2>3. \A d \in ClConns : Len(hbQueue'[d]) <= HbSendMax
    BY <1>3, <1>8, <2>1, HubAssumption DEF HbWrite, HbFanInv
  <2>4. hbGot' \in [ClConns -> SUBSET hbStored]
    BY <1>3, <1>8, <2>1 DEF HbWrite, HbFanInv
  <2> QED
    BY <1>2, <1>3, <1>4, <1>8, <2>2, <2>3, <2>4 DEF HbIInv, HbFanInv, HbWrite
<1> QED
  BY <1>5, <1>6, <1>7, <1>8

LEMMA HbPresenceIInv ==
  ASSUME HbIInv, NEW c \in ClConns, HbPresenceRead(c) \/ HbPresenceWrite(c)
  PROVE  HbIInv'
<1>1. /\ UNCHANGED <<hbUp, hbPosts, hbFan, clHeld, clConn>>
      /\ hbPresence' \subseteq {d \in ClConns : clConn[d] = "open"}
  BY DEF HbPresenceRead, HbPresenceWrite, HbIInv, HbInv, clVars, clJoins
<1>2. ClIInv'
  <2>1. CASE UNCHANGED clVars
    BY <2>1, ClNextIInv DEF HbIInv
  <2>2. CASE HbPresenceWrite(c) /\ c \in clLive
    <3> DEFINE a == clAgent[c]
    <3>1. /\ clPresent' = clPresent \cup {a}
          /\ clRows' = [clRows EXCEPT ![a] = IF clRows[a] = "none" THEN clRows[a] ELSE "active"]
          /\ UNCHANGED <<clCap, clHighest, clHeld, clSlots, clJoins, clFails>>
      BY <2>2 DEF HbPresenceWrite
    <3>2. a \in ClAgents
      <4>1. clConn[c] \in ClBound
        BY <2>2 DEF HbPresenceWrite, HbIInv, HbInv, ClBound
      <4> QED
        BY <4>1 DEF HbIInv, ClIInv, ClTypeOK, ClInv
    <3>3. clPresent' \subseteq ClAgents /\ clFails' \in 0..ClMaxFails
      BY <3>1, <3>2 DEF HbIInv, ClIInv, ClTypeOK
    <3>4. clRows' \in [ClAgents -> {"none", "active", "disconnected"}]
      BY <3>1, <3>2 DEF HbIInv, ClIInv, ClTypeOK
    <3>5. \A b \in ClAgents : clRows'[b] # "none" => clRows[b] # "none"
      BY <3>1, <3>2 DEF HbIInv, ClIInv, ClTypeOK
    <3> QED
      BY <3>1, <3>3, <3>4, <3>5, ClSideIInv DEF HbIInv
  <2> QED
    BY <2>1, <2>2 DEF HbPresenceRead, HbPresenceWrite, clVars
<1>3. HbInv'
  BY <1>1 DEF HbIInv, HbInv, hbPosts, hbFan
<1>4. HbFanInv'
  BY <1>1, HbFanGrows DEF HbIInv, hbPosts
<1> QED
  BY <1>2, <1>3, <1>4 DEF HbIInv

LEMMA HbNextIInv == HbIInv /\ [HbNext]_hbVars => HbIInv'
<1> SUFFICES ASSUME HbIInv, [HbNext]_hbVars
             PROVE  HbIInv'
  OBVIOUS
<1>1. CASE HbJoins \/ UNCHANGED hbVars
  <2>1. \A c \in hbPresence : c \in ClConns /\ clConn[c] = "open" /\ HbBusy(c)
    BY DEF HbIInv, HbInv, HbBusy
  <2>2. \A c \in hbPresence : clConn'[c] = "open"
    BY <1>1, <2>1 DEF HbJoins, hbVars, clVars, clJoins
  <2> QED
    BY <1>1, <2>2, HbJoinsIInv DEF HbJoins, hbVars, hbOwn
<1> QED
  BY <1>1, HbMessageIInv, HbPublishIInv, HbHubIInv, HbPresenceIInv DEF HbNext

\* A stored message names a sender that held a slot, also when the sender left
\* between the check and the insert, and what reaches an agent, or waits for
\* it, is in the transcript; the slots stay bounded while presence is updated
\* (handlers/collab.go SendMessage; internal/collab/manager.go, websocket.go).
THEOREM TranscriptIsOfAgents == HbSpec => [](HbTypeOK /\ HbOfAgents /\ ClSlotBound)
<1>1. HbSpec => []HbIInv
  BY HbInitIInv, HbNextIInv, PTL DEF HbSpec
<1> QED
  BY <1>1, HbIInvImplies, PTL
=============================================================================
