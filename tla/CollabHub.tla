------------------------------- MODULE CollabHub -------------------------------
(***************************************************************************)
(* What the agents of Collab exchange: their messages, and the hub that     *)
(* fans events out to the connections (internal/collab/manager.go,          *)
(* websocket.go; cmd/api/handlers/collab.go).  Only message events are      *)
(* followed; those of joins, leaves and presence take the same way.         *)
(***************************************************************************)
EXTENDS Collab, Sequences, SequencesExt

CONSTANTS
  HbMsgs,     \* bound: messages sent
  HbSendMax   \* the buffer of a client's send channel, 256 in the code

ASSUME HubAssumption == HbSendMax \in Nat \ {0}

VARIABLES
  hbUp,      \* the API process runs
  hbMsg,     \* how far each message is
  hbFrom,    \* the agent it names as its sender
  hbBy,      \* the connection it came over, or "rest"
  hbStored,  \* agent_messages
  hbClient,  \* the hub's map: the connection registered for each agent
  hbSubs,    \* events each registration's subscription has not taken yet
  hbWalk,    \* the event a subscription is handing to the clients
  hbQueue,   \* each client's send channel
  hbGot,     \* what was written to each connection
  hbPresence \* connections between reading and writing their presence

hbPosts == <<hbMsg, hbFrom, hbBy, hbStored>>
hbFan == <<hbClient, hbSubs, hbWalk, hbQueue, hbGot>>
hbOwn == <<hbUp, hbPosts, hbFan, hbPresence>>
hbVars == <<clVars, hbOwn>>

HbTypeOK ==
  /\ ClTypeOK /\ hbUp \in BOOLEAN
  /\ hbMsg \in [HbMsgs -> {"new", "checked", "stored", "published", "refused"}]
  /\ hbFrom \in [HbMsgs -> ClAgents \cup {"nobody"}]
  /\ hbBy \in [HbMsgs -> ClConns \cup {"rest"}] /\ hbStored \subseteq HbMsgs
  /\ hbClient \in [ClAgents -> ClConns \cup {"none"}]
  /\ DOMAIN hbSubs \subseteq ClConns /\ \A c \in DOMAIN hbSubs : hbSubs[c] \in Seq(HbMsgs)
  /\ hbWalk \in [ClConns -> HbMsgs \cup {"none"}]
  /\ \A c \in ClConns : hbQueue[c] \in Seq(HbMsgs) /\ Len(hbQueue[c]) <= HbSendMax
  /\ hbGot \in [ClConns -> SUBSET HbMsgs] /\ hbPresence \subseteq ClConns

HbInit ==
  /\ ClInit /\ hbUp = TRUE
  /\ hbMsg = [m \in HbMsgs |-> "new"] /\ hbFrom = [m \in HbMsgs |-> "nobody"]
  /\ hbBy = [m \in HbMsgs |-> "rest"] /\ hbStored = {}
  /\ hbClient = [a \in ClAgents |-> "none"] /\ hbSubs = <<>>
  /\ hbWalk = [c \in ClConns |-> "none"] /\ hbQueue = [c \in ClConns |-> <<>>]
  /\ hbGot = [c \in ClConns |-> {}] /\ hbPresence = {}

\* Joins, leaves and their failures, as in Collab.  The handler waits until the
\* hub took the registration before it starts the pumps and returns; ReadPump
\* is busy while it handles a message.
HbBusy(c) == c \in hbPresence \/ \E m \in HbMsgs : hbBy[m] = c /\ hbMsg[m] = "stored"
HbRegistered(c) == c \in DOMAIN hbSubs
HbJoins ==
  /\ ClNext
  /\ \A c \in ClConns :
       clConn[c] = "open" =>
         /\ ~HbRegistered(c) => c \in clLive' /\ clConn'[c] = "open"
         /\ HbBusy(c) => clConn'[c] = "open"
  /\ UNCHANGED <<hbUp, hbPosts, hbFan, hbPresence>>

-----------------------------------------------------------------------------
(* Messages. *)

\* POST messages: collaboration is enabled and the sender holds a slot now.
HbCheck(m, a) ==
  /\ hbMsg[m] = "new" /\ clCap # 0
  /\ hbMsg' = [hbMsg EXCEPT ![m] = IF a \in clSlots THEN "checked" ELSE "refused"]
  /\ hbFrom' = [hbFrom EXCEPT ![m] = a]
  /\ UNCHANGED <<clVars, hbUp, hbBy, hbStored, hbFan, hbPresence>>

\* SendMessage inserts the row.
HbStore(m) ==
  /\ hbMsg[m] = "checked"
  /\ \/ /\ hbMsg' = [hbMsg EXCEPT ![m] = "stored"] /\ hbStored' = hbStored \cup {m}
        /\ UNCHANGED clFails
     \/ ClFail /\ hbMsg' = [hbMsg EXCEPT ![m] = "refused"] /\ UNCHANGED hbStored
  /\ UNCHANGED <<clCap, clHighest, clHeld, clSlots, clPresent, clRows, clJoins, hbUp, hbFrom,
                 hbBy, hbFan, hbPresence>>

\* handleMessage: the sender is the connection's agent.  Under a cancelled
\* context the insert fails and the message is only logged.
HbSay(c, m) ==
  /\ hbMsg[m] = "new" /\ clConn[c] = "open" /\ HbRegistered(c) /\ ~HbBusy(c)
  /\ hbFrom' = [hbFrom EXCEPT ![m] = clAgent[c]] /\ hbBy' = [hbBy EXCEPT ![m] = c]
  /\ IF c \in clLive
     THEN hbMsg' = [hbMsg EXCEPT ![m] = "stored"] /\ hbStored' = hbStored \cup {m}
     ELSE hbMsg' = [hbMsg EXCEPT ![m] = "refused"] /\ UNCHANGED hbStored
  /\ UNCHANGED <<clVars, hbUp, hbFan, hbPresence>>

\* A mutant: the event goes out before the row is stored.
HbPublishFirst(m) ==
  /\ hbMsg[m] \in {"checked", "stored"}
  /\ hbSubs' = [c \in DOMAIN hbSubs |-> Append(hbSubs[c], m)]
  /\ hbMsg' = [hbMsg EXCEPT ![m] = "published"]
  /\ UNCHANGED <<clVars, hbUp, hbFrom, hbBy, hbStored, hbClient, hbWalk, hbQueue,
                 hbGot, hbPresence>>

\* publishEvent, best effort: Redis hands the event to the subscriptions that
\* are connected at that moment; nothing is sent under a cancelled context.
HbPublish(m) ==
  /\ hbMsg[m] = "stored" /\ hbMsg' = [hbMsg EXCEPT ![m] = "published"]
  /\ \E reached \in SUBSET DOMAIN hbSubs :
       /\ hbBy[m] \notin clLive \cup {"rest"} => reached = {}
       /\ hbSubs' = [c \in DOMAIN hbSubs |->
            IF c \in reached THEN Append(hbSubs[c], m) ELSE hbSubs[c]]
  /\ UNCHANGED <<clVars, hbUp, hbFrom, hbBy, hbStored, hbClient, hbWalk, hbQueue,
                 hbGot, hbPresence>>

-----------------------------------------------------------------------------
(* The hub. *)

\* Run takes a registration: the map is written under the lock, and one more
\* subscription starts.  A walk over the same map is not under the lock, and
\* Go ends a process it catches at both.
HbRegister(c) ==
  /\ clConn[c] = "open" /\ ~HbRegistered(c)
  /\ \/ /\ hbClient' = [hbClient EXCEPT ![clAgent[c]] = c]
        /\ hbSubs' = [d \in DOMAIN hbSubs \cup {c} |-> IF d = c THEN <<>> ELSE hbSubs[d]]
        /\ UNCHANGED hbUp
     \/ /\ \E s \in ClConns : hbWalk[s] # "none"
        /\ hbUp' = FALSE /\ UNCHANGED <<hbClient, hbSubs>>
  /\ UNCHANGED <<clVars, hbPosts, hbWalk, hbQueue, hbGot, hbPresence>>

\* subscribeToSession receives an event and looks the session's map up.
HbTake(s) ==
  /\ HbRegistered(s) /\ hbSubs[s] # <<>> /\ hbWalk[s] = "none"
  /\ hbWalk' = [hbWalk EXCEPT ![s] = Head(hbSubs[s])]
  /\ hbSubs' = [hbSubs EXCEPT ![s] = Tail(@)]
  /\ UNCHANGED <<clVars, hbUp, hbPosts, hbClient, hbQueue, hbGot, hbPresence>>

\* Send, to every client of the map; a full channel drops the message.
HbHand(s) ==
  /\ hbWalk[s] # "none" /\ hbWalk' = [hbWalk EXCEPT ![s] = "none"]
  /\ hbQueue' = [c \in ClConns |->
       IF c \in Range(hbClient) /\ Len(hbQueue[c]) < HbSendMax
       THEN Append(hbQueue[c], hbWalk[s]) ELSE hbQueue[c]]
  /\ UNCHANGED <<clVars, hbUp, hbPosts, hbClient, hbSubs, hbGot, hbPresence>>

\* WritePump; it may still write after the context was cancelled.
HbWrite(c) ==
  /\ clConn[c] = "open" /\ hbQueue[c] # <<>>
  /\ hbGot' = [hbGot EXCEPT ![c] = @ \cup {Head(hbQueue[c])}]
  /\ hbQueue' = [hbQueue EXCEPT ![c] = Tail(@)]
  /\ UNCHANGED <<clVars, hbUp, hbPosts, hbClient, hbSubs, hbWalk, hbPresence>>

-----------------------------------------------------------------------------
(* Presence. *)

\* UpdatePresence reads the key, and writes key and row later: both again, also
\* if the agent left meanwhile.
HbPresenceRead(c) ==
  /\ clConn[c] = "open" /\ HbRegistered(c) /\ ~HbBusy(c) /\ c \in clLive /\ clAgent[c] \in clPresent
  /\ hbPresence' = hbPresence \cup {c}
  /\ UNCHANGED <<clVars, hbUp, hbPosts, hbFan>>

HbPresenceWrite(c) ==
  /\ c \in hbPresence /\ hbPresence' = hbPresence \ {c}
  /\ LET a == clAgent[c] IN
       IF c \in clLive
       THEN /\ clPresent' = clPresent \cup {a}
            /\ clRows' = [clRows EXCEPT ![a] = IF @ = "none" THEN @ ELSE "active"]
       ELSE UNCHANGED <<clPresent, clRows>>
  /\ UNCHANGED <<clCap, clHighest, clHeld, clSlots, clJoins, clFails, hbUp, hbPosts, hbFan>>

HbNext ==
  /\ hbUp
  /\ \/ HbJoins
     \/ \E m \in HbMsgs : \/ \E a \in ClAgents : HbCheck(m, a)
                          \/ \E c \in ClConns : HbSay(c, m)
                          \/ HbStore(m) \/ HbPublish(m)
     \/ \E c \in ClConns : \/ HbRegister(c) \/ HbTake(c) \/ HbHand(c) \/ HbWrite(c)
                           \/ HbPresenceRead(c) \/ HbPresenceWrite(c)

HbSpec == HbInit /\ [][HbNext]_hbVars

-----------------------------------------------------------------------------
(* Properties. *)

\* A stored message names a sender that held a slot, also when the sender left
\* between the check and the insert, and what reaches an agent is in the
\* transcript (handlers/collab.go SendMessage; manager.go SendMessage stores
\* before it publishes).
HbOfAgents ==
  /\ \A m \in hbStored : hbFrom[m] \in clHeld
  /\ \A c \in ClConns : hbGot[c] \cup Range(hbQueue[c]) \subseteq hbStored

\* An event reaches a connection once.
HbDeliveredOnce ==
  \A c \in ClConns :
    /\ Range(hbQueue[c]) \cap hbGot[c] = {}
    /\ IsInjective(hbQueue[c])

\* Hub.mu: the map of clients is not written while it is walked.
HbMapGuarded ==
  [][hbClient' # hbClient => \A s \in ClConns : hbWalk[s] = "none"]_hbVars
=============================================================================
