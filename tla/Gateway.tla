------------------------------- MODULE Gateway --------------------------------
(***************************************************************************)
(* The local inference gateway (internal/localgateway): a chat request is    *)
(* bound to a session by its conversation, the model's tool calls run there  *)
(* round after round, and a loop that ends with an answer is recorded as a   *)
(* mission.  The bindings are kept in memory only.  A request is one HTTP    *)
(* request; sessions and missions are those of the API it calls, and each    *)
(* call to it or to the model is a step that may fail, before or after it    *)
(* was applied.                                                              *)
(***************************************************************************)
EXTENDS Naturals, Sequences, FiniteSets, SequencesExt

CONSTANTS
  GwReqs,      \* chat requests
  GwConvs,     \* conversation ids
  GwSessions,  \* session ids
  GwTools,     \* the tools of the gateway
  GwRunning,   \* those of them that need a running session
  GwMaxLoops,  \* LOCAL_GATEWAY_MAX_TOOL_LOOPS
  GwMaxCalls,  \* bound: tool calls in an answer of the model
  GwMaxFails   \* bound: failing calls and restarts

ASSUME GatewayAssumption ==
  /\ GwRunning \subseteq GwTools /\ "foreign" \notin GwTools
  /\ "none" \notin GwConvs \cup GwSessions \cup GwReqs
  /\ GwMaxLoops \in Nat \ {0} /\ GwMaxCalls \in Nat \ {0} /\ GwMaxFails \in Nat

VARIABLES
  gwBound,    \* SessionStore.byID: conversation -> session
  gwStatus,   \* the sessions' status at the API
  gwMadeFor,  \* the request each session was created for
  gwReq,      \* where each request is
  gwRan,      \* the tool calls the API has executed for each request, in order
  gwMissions, \* missions created
  gwRecorded, \* <<mission, session>> of the mission runs recorded
  gwFails     \* failures so far

gwVars == <<gwBound, gwStatus, gwMadeFor, gwReq, gwRan, gwMissions, gwRecorded, gwFails>>

GwPlaces == {"new", "look", "unbind", "create", "bind", "ask", "tools", "mission", "record", "done"}
GwCalls == UNION {[1..n -> GwTools \cup {"foreign"}] : n \in 0..GwMaxCalls}
GwSteps == UNION {[1..n -> GwTools] : n \in 0 .. GwMaxLoops * GwMaxCalls}

\* gone: the sessions that were stopped already when the request came in.
GwRequest ==
  [at : GwPlaces, conv : GwConvs \cup {"none"}, named : GwSessions \cup {"none"},
   session : GwSessions \cup {"none"}, round : 0..GwMaxLoops, calls : GwCalls,
   captured : GwSteps, gone : SUBSET GwSessions]
GwRun == [tool : GwTools, session : GwSessions, answered : BOOLEAN]
GwMission == [conv : GwConvs \cup {"none"}, session : GwSessions, steps : GwSteps]

GwTypeOK ==
  /\ gwBound \in [GwConvs -> GwSessions \cup {"none"}]
  /\ gwStatus \in [GwSessions -> {"absent", "running", "stopped"}]
  /\ gwMadeFor \in [GwSessions -> GwReqs \cup {"none"}]
  /\ gwReq \in [GwReqs -> GwRequest] /\ gwRan \in [GwReqs -> Seq(GwRun)]
  /\ gwMissions \subseteq GwMission /\ gwRecorded \subseteq gwMissions \X GwSessions
  /\ gwFails \in 0..GwMaxFails

GwNew == [at |-> "new", conv |-> "none", named |-> "none", session |-> "none", round |-> 0,
          calls |-> <<>>, captured |-> <<>>, gone |-> {}]

GwInit ==
  /\ gwBound = [c \in GwConvs |-> "none"]
  /\ gwStatus = [s \in GwSessions |-> "absent"] /\ gwMadeFor = [s \in GwSessions |-> "none"]
  /\ gwReq = [q \in GwReqs |-> GwNew] /\ gwRan = [q \in GwReqs |-> <<>>]
  /\ gwMissions = {} /\ gwRecorded = {} /\ gwFails = 0

GwFail == gwFails < GwMaxFails /\ gwFails' = gwFails + 1
GwAt(q, place) == gwReq[q].at = place
GwGoes(q, place) == gwReq' = [gwReq EXCEPT ![q].at = place]
GwApi == <<gwStatus, gwMadeFor, gwRan, gwMissions, gwRecorded>>

-----------------------------------------------------------------------------
(* The session of a request (ensureSession). *)

\* handleChatCompletions up to the map.  A request that names a session does
\* not look at the binding.
GwArrive(q) ==
  \E c \in GwConvs \cup {"none"}, n \in {s \in GwSessions : gwStatus[s] # "absent"} \cup {"none"} :
    LET bound == IF c = "none" THEN "none" ELSE gwBound[c] IN
      /\ GwAt(q, "new")
      /\ gwReq' = [gwReq EXCEPT ![q] =
           [GwNew EXCEPT !.at = IF n = "none" /\ bound = "none" THEN "create" ELSE "look",
              !.conv = c, !.named = n, !.session = IF n # "none" THEN n ELSE bound,
              !.gone = {s \in GwSessions : gwStatus[s] = "stopped"}]]
      /\ UNCHANGED <<gwBound, GwApi, gwFails>>

\* A mutant: a session the API knows is good enough.
GwUsableKnown(s) == gwStatus[s] # "absent"

GwUsable(s) == gwStatus[s] = "running"

\* GetSession.  An error counts as not running.
GwLook(q) ==
  LET r == gwReq[q] IN
    /\ GwAt(q, "look")
    /\ \/ GwUsable(r.session) /\ GwGoes(q, IF r.named = "none" THEN "ask" ELSE "bind")
          /\ UNCHANGED gwFails
       \/ /\ IF GwUsable(r.session) THEN GwFail ELSE UNCHANGED gwFails
          /\ GwGoes(q, IF r.named = "none" THEN "unbind" ELSE "done")
    /\ UNCHANGED <<gwBound, GwApi>>

\* Whatever the conversation is bound to by now.
GwUnbind(q) ==
  /\ GwAt(q, "unbind") /\ GwGoes(q, "create")
  /\ gwBound' = [gwBound EXCEPT ![gwReq[q].conv] = "none"]
  /\ UNCHANGED <<GwApi, gwFails>>

\* CreateSession; it may be applied although its answer is lost.
GwCreate(q) ==
  /\ GwAt(q, "create")
  /\ \/ \E s \in GwSessions :
          /\ gwStatus[s] = "absent" /\ gwStatus' = [gwStatus EXCEPT ![s] = "running"]
          /\ gwMadeFor' = [gwMadeFor EXCEPT ![s] = q]
          /\ \/ gwReq' = [gwReq EXCEPT ![q].at = "bind", ![q].session = s] /\ UNCHANGED gwFails
             \/ GwFail /\ GwGoes(q, "done")
     \/ GwFail /\ GwGoes(q, "done") /\ UNCHANGED <<gwStatus, gwMadeFor>>
  /\ UNCHANGED <<gwBound, gwRan, gwMissions, gwRecorded>>

GwBind(q) ==
  LET r == gwReq[q] IN
    /\ GwAt(q, "bind") /\ GwGoes(q, "ask")
    /\ gwBound' = IF r.conv = "none" THEN gwBound ELSE [gwBound EXCEPT ![r.conv] = r.session]
    /\ UNCHANGED <<GwApi, gwFails>>

-----------------------------------------------------------------------------
(* The tool loop (RunChatLoop). *)

\* The model answers: with tool calls, with its last message, or not at all.
GwAsk(q) ==
  /\ GwAt(q, "ask")
  /\ \/ \E calls \in GwCalls \ {<<>>} :
          gwReq' = [gwReq EXCEPT ![q].at = "tools", ![q].calls = calls] /\ UNCHANGED gwFails
     \/ GwGoes(q, IF gwReq[q].captured = <<>> THEN "done" ELSE "mission") /\ UNCHANGED gwFails
     \/ GwFail /\ GwGoes(q, "done")
  /\ UNCHANGED <<gwBound, GwApi>>

\* A mutant: a call whose answer is an error is captured as well.
GwCapturesAll(tool, answered) == tool # "foreign"

GwCaptures(tool, answered) == tool # "foreign" /\ answered

\* After the last call of a round the model is asked again, MaxToolLoops times.
GwCalled(q, answered) ==
  LET r == gwReq[q]
      last == Len(r.calls) = 1
      tool == Head(r.calls) IN
    gwReq' = [gwReq EXCEPT ![q] =
      [r EXCEPT !.calls = Tail(@), !.round = IF last THEN @ + 1 ELSE @,
         !.captured = IF GwCaptures(tool, answered) THEN Append(@, tool) ELSE @,
         !.at = IF ~last THEN "tools" ELSE IF r.round + 1 < GwMaxLoops THEN "ask" ELSE "done"]]

\* One call (executeTool).  The gateway refuses bad arguments and the API may
\* refuse the call; a command needs a running session.  The answer of a call
\* that was executed may be lost.
GwTool(q) ==
  LET r == gwReq[q]
      tool == Head(r.calls) IN
    /\ GwAt(q, "tools")
    /\ \/ GwCalled(q, FALSE) /\ UNCHANGED <<gwRan, gwFails>>
       \/ /\ tool \in GwTools
          /\ tool \in GwRunning => gwStatus[r.session] = "running"
          /\ \E answered \in BOOLEAN :
               /\ IF answered THEN UNCHANGED gwFails ELSE GwFail
               /\ GwCalled(q, answered)
               /\ gwRan' = [gwRan EXCEPT ![q] =
                    Append(@, [tool |-> tool, session |-> r.session, answered |-> answered])]
    /\ UNCHANGED <<gwBound, gwStatus, gwMadeFor, gwMissions, gwRecorded>>

-----------------------------------------------------------------------------
(* captureMissionBestEffort: failures leave the answer to the client alone.  *)

\* The slug is a hash of all three.
GwSlug(q) ==
  [conv |-> gwReq[q].conv, session |-> gwReq[q].session, steps |-> gwReq[q].captured]

\* CreateMission: a slug that exists is refused; the answer may be lost.
GwCreateMission(q) ==
  /\ GwAt(q, "mission")
  /\ \/ /\ GwSlug(q) \notin gwMissions /\ gwMissions' = gwMissions \cup {GwSlug(q)}
        /\ \/ GwGoes(q, "record") /\ UNCHANGED gwFails
           \/ GwGoes(q, "done") /\ GwFail
     \/ GwSlug(q) \in gwMissions /\ GwGoes(q, "done") /\ UNCHANGED <<gwMissions, gwFails>>
     \/ GwFail /\ GwGoes(q, "done") /\ UNCHANGED gwMissions
  /\ UNCHANGED <<gwBound, gwStatus, gwMadeFor, gwRan, gwRecorded>>

\* RecordMissionRun.
GwRecordRun(q) ==
  /\ GwAt(q, "record") /\ GwGoes(q, "done")
  /\ \/ gwRecorded' = gwRecorded \cup {<<GwSlug(q), gwReq[q].session>>} /\ UNCHANGED gwFails
     \/ GwFail /\ UNCHANGED gwRecorded
  /\ UNCHANGED <<gwBound, gwStatus, gwMadeFor, gwRan, gwMissions>>

-----------------------------------------------------------------------------
\* A session ends: its owner, its timeout or the idle cleaner.
GwStop(s) ==
  /\ gwStatus[s] = "running" /\ gwStatus' = [gwStatus EXCEPT ![s] = "stopped"]
  /\ UNCHANGED <<gwBound, gwMadeFor, gwReq, gwRan, gwMissions, gwRecorded, gwFails>>

\* The gateway starts again, with an empty map.
GwRestart ==
  /\ GwFail /\ gwBound' = [c \in GwConvs |-> "none"]
  /\ gwReq' = [q \in GwReqs |-> IF GwAt(q, "new") THEN gwReq[q] ELSE [gwReq[q] EXCEPT !.at = "done"]]
  /\ UNCHANGED GwApi

GwNext ==
  \/ \E q \in GwReqs :
       \/ GwArrive(q) \/ GwLook(q) \/ GwUnbind(q) \/ GwCreate(q) \/ GwBind(q)
       \/ GwAsk(q) \/ GwTool(q) \/ GwCreateMission(q) \/ GwRecordRun(q)
  \/ \E s \in GwSessions : GwStop(s)
  \/ GwRestart

GwSpec == GwInit /\ [][GwNext]_gwVars

-----------------------------------------------------------------------------
\* A tool call runs in a session created for the request's own conversation,
\* or one that a request of the conversation named (sessions.go:58, the only
\* thing that keeps conversations of one gateway key apart), and never in one
\* that had ended when the request came in, however the bindings of two
\* requests interleave with ends of sessions and restarts.
GwOwnSession ==
  \A q \in GwReqs : \A i \in DOMAIN gwRan[q] :
    LET s == gwRan[q][i].session IN
      /\ s \notin gwReq[q].gone
      /\ \E p \in GwReqs :
           /\ p = q \/ (gwReq[p].conv = gwReq[q].conv /\ gwReq[q].conv # "none")
           /\ gwMadeFor[s] = p \/ gwReq[p].named = s

\* The steps are the calls of a run that were answered, all of them, in order.
GwLists(steps, ran) ==
  \E at \in [1..Len(steps) -> 1..Len(ran)] :
    /\ \A i, j \in 1..Len(steps) : i < j => at[i] < at[j]
    /\ \A k \in 1..Len(ran) : ran[k].answered <=> \E i \in 1..Len(steps) : at[i] = k
    /\ \A i \in 1..Len(steps) : ran[at[i]].tool = steps[i]

\* A mission the gateway recorded lists what one request of its conversation
\* had run in the session, with success and in that order (missions.go:121),
\* whatever failed in between.
GwMissionsTrue ==
  \A m \in gwMissions : \E q \in GwReqs :
    /\ gwReq[q].conv = m.conv /\ gwReq[q].at \in {"record", "done"}
    /\ GwLists(m.steps, gwRan[q])
    /\ \A i \in DOMAIN gwRan[q] : gwRan[q][i].answered => gwRan[q][i].session = m.session

\* The two together: what a conversation did can be traced to its session.
GwTraced == GwOwnSession /\ GwMissionsTrue

\* docs/local-gateway.md:111, "Sticky session key": a conversation whose
\* sessions nobody ended has one session.  Refuted: see README, Disagreements.
GwSticky ==
  \A c \in GwConvs : \A s, t \in {u \in GwSessions : gwStatus[u] = "running"} :
    gwReq[gwMadeFor[s]].conv = c /\ gwReq[gwMadeFor[t]].conv = c => s = t
=============================================================================
