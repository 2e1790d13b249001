------------------------------ MODULE TaskMemory ------------------------------
(***************************************************************************)
(* Background tasks of the MCP server without Redis (sdk/mcp/tasks.go,       *)
(* tasks_input.go): records and cancel functions in maps behind one mutex.   *)
(* get returns a shallow copy, so that a reply reads the map of questions     *)
(* after the mutex is released; a map that is written meanwhile may end the   *)
(* process.  The TTL is longer than a request takes.                         *)
(***************************************************************************)
EXTENDS Naturals, FiniteSets

CONSTANTS
  TmTasks,      \* tasks
  TmConfirm,    \* tasks started with confirm
  TmReqs,       \* requests of clients
  TmMaxInflight \* MCP_TASK_MAX_INFLIGHT

ASSUME TaskMemoryAssumption ==
  TmConfirm \subseteq TmTasks /\ IsFiniteSet(TmTasks) /\ TmMaxInflight \in Nat \ {0}

VARIABLES
  tmUp,      \* the process is there
  tmStatus,  \* tasks: the status of each record
  tmAsked,   \* tasks with an outstanding question
  tmAnswer,  \* InputResponses
  tmCancels, \* cancels: tasks whose cancel function is in the map
  tmStopped, \* tasks whose context is cancelled
  tmSweep,   \* cancelFns: tasks whose cancel functions the sweep has yet to call
  tmAt,      \* where each goroutine is
  tmReq,     \* each request: where it is and its task
  tmRan,     \* tasks whose tool was called, with the answer it was called on
  tmCounted  \* history: how often a call brought a task to its end, for a metric

tmVars == <<tmUp, tmStatus, tmAsked, tmAnswer, tmCancels, tmStopped, tmSweep, tmAt, tmReq, tmRan, tmCounted>>
tmRecs == <<tmStatus, tmAsked, tmAnswer>>

TmEnds == {"completed", "failed", "cancelled"}
TmIdle == [pc |-> "idle", task |-> "none"]

TmTypeOK ==
  /\ tmUp \in BOOLEAN
  /\ tmStatus \in [TmTasks -> {"none", "gone", "working", "input_required"} \cup TmEnds]
  /\ tmAsked \subseteq TmTasks /\ tmAnswer \in [TmTasks -> {"none", "approve", "decline"}]
  /\ tmCancels \subseteq TmTasks /\ tmStopped \subseteq TmTasks
  /\ tmSweep \subseteq TmTasks
  /\ tmAt \in [TmTasks -> {"new", "ask", "wait", "tool", "leave", "done"}]
  /\ \A q \in TmReqs : tmReq[q] = TmIdle \/
       tmReq[q] \in [pc : {"shared", "stop", "done"}, task : TmTasks]
  /\ tmRan \subseteq TmTasks \X {"none", "approve", "decline"} /\ tmCounted \in [TmTasks -> Nat]

\* newTaskStore.
TmInit ==
  /\ tmUp = TRUE /\ tmStatus = [t \in TmTasks |-> "none"] /\ tmAsked = {}
  /\ tmAnswer = [t \in TmTasks |-> "none"] /\ tmCancels = {} /\ tmStopped = {}
  /\ tmAt = [t \in TmTasks |-> "new"] /\ tmReq = [q \in TmReqs |-> TmIdle]
  /\ tmRan = {} /\ tmSweep = {} /\ tmCounted = [t \in TmTasks |-> 0]

TmTerminal(t) == tmStatus[t] \in TmEnds
TmThere(t) == tmStatus[t] \notin {"none", "gone"}
TmGoes(t, at) == tmAt' = [tmAt EXCEPT ![t] = at]
TmReqGoes(q, pc, t) == tmReq' = [tmReq EXCEPT ![q] = [pc |-> pc, task |-> t]]

\* updateMaybeTerminal: a terminal record stays, one that comes to its end is
\* counted; the metric follows, without the mutex.
TmEnd(t, status) ==
  IF TmThere(t) /\ ~TmTerminal(t)
  THEN /\ tmStatus' = [tmStatus EXCEPT ![t] = status]
       /\ tmCounted' = [tmCounted EXCEPT ![t] = @ + 1]
  ELSE UNCHANGED <<tmStatus, tmCounted>>

-----------------------------------------------------------------------------
(* startToolTask and its goroutine. *)

\* A mutant: tasks that wait for an answer do not count.
TmInflightWorking == Cardinality({t \in TmTasks : tmStatus[t] = "working"})

\* inflightLocked.
TmInflight == Cardinality({t \in TmTasks : TmThere(t) /\ ~TmTerminal(t)})

\* put and storeCancel; the mutex is held for the count and the entry.
TmStart(t) ==
  /\ tmAt[t] = "new"
  /\ IF TmInflight < TmMaxInflight
     THEN /\ tmStatus' = [tmStatus EXCEPT ![t] = "working"] /\ tmCancels' = tmCancels \cup {t}
          /\ TmGoes(t, IF t \in TmConfirm THEN "ask" ELSE "tool")
          /\ tmRan' = IF t \in TmConfirm THEN tmRan ELSE tmRan \cup {<<t, "none">>}
     ELSE TmGoes(t, "done") /\ UNCHANGED <<tmStatus, tmCancels, tmRan>>
  /\ UNCHANGED <<tmUp, tmAsked, tmAnswer, tmStopped, tmReq, tmCounted, tmSweep>>

\* requestInput: no error on a task that has ended, only on one that is gone.
TmAsk(t) ==
  /\ tmAt[t] = "ask"
  /\ IF TmTerminal(t) \/ ~TmThere(t) THEN UNCHANGED <<tmStatus, tmAsked>>
     ELSE tmStatus' = [tmStatus EXCEPT ![t] = "input_required"] /\ tmAsked' = tmAsked \cup {t}
  /\ TmGoes(t, IF TmThere(t) THEN "wait" ELSE "leave")
  /\ UNCHANGED <<tmUp, tmAnswer, tmCancels, tmStopped, tmReq, tmRan, tmCounted, tmSweep>>

\* waitForInput: a signal or the next poll; then responseApproved.
TmWait(t) ==
  /\ tmAt[t] = "wait"
  /\ \/ /\ tmStatus[t] = "working" /\ tmAnswer[t] # "decline"
        /\ TmGoes(t, "tool") /\ tmRan' = tmRan \cup {<<t, tmAnswer[t]>>}
        /\ UNCHANGED <<tmStatus, tmCounted>>
     \/ /\ tmStatus[t] = "working" /\ tmAnswer[t] = "decline"
        /\ TmEnd(t, "failed") /\ TmGoes(t, "leave") /\ UNCHANGED tmRan
     \/ /\ TmTerminal(t) \/ ~TmThere(t) \/ (t \in tmStopped /\ tmStatus[t] = "input_required")
        /\ TmEnd(t, IF t \in tmStopped THEN "cancelled" ELSE "failed")
        /\ TmGoes(t, "leave") /\ UNCHANGED tmRan
  /\ UNCHANGED <<tmUp, tmAsked, tmAnswer, tmCancels, tmStopped, tmReq, tmSweep>>

\* callTool returns; under a cancelled context whatever it brings is cancelled.
TmToolEnds(t) ==
  /\ tmAt[t] = "tool" /\ TmGoes(t, "leave")
  /\ \E end \in (IF t \in tmStopped THEN {"cancelled"} ELSE {"completed", "failed"}) : TmEnd(t, end)
  /\ UNCHANGED <<tmUp, tmAsked, tmAnswer, tmCancels, tmStopped, tmReq, tmRan, tmSweep>>

\* The deferred takeCancel and cancel.
TmLeave(t) ==
  /\ tmAt[t] = "leave" /\ TmGoes(t, "done") /\ tmCancels' = tmCancels \ {t}
  /\ tmStopped' = tmStopped \cup {t}
  /\ UNCHANGED <<tmUp, tmStatus, tmAsked, tmAnswer, tmReq, tmRan, tmCounted, tmSweep>>

-----------------------------------------------------------------------------
(* Requests.  A client knows a task that was started. *)

\* getTaskResult: get, under the mutex.
TmGet(q, t) ==
  /\ tmReq[q] = TmIdle /\ TmThere(t)
  /\ TmReqGoes(q, IF t \in tmAsked THEN "shared" ELSE "done", t)
  /\ UNCHANGED <<tmUp, tmRecs, tmCancels, tmStopped, tmAt, tmRan, tmCounted, tmSweep>>

\* cloneInputRequests, without the mutex.
TmReply(q) ==
  /\ tmReq[q].pc = "shared" /\ TmReqGoes(q, "done", tmReq[q].task)
  /\ UNCHANGED <<tmUp, tmRecs, tmCancels, tmStopped, tmAt, tmRan, tmCounted, tmSweep>>

\* The map is read by a reply.
TmShared(t) == \E q \in TmReqs : tmReq[q] = [pc |-> "shared", task |-> t]

\* applyInputResponses; a map that is iterated over meanwhile may end the process.
TmRespond(q, t, answer) ==
  /\ tmReq[q] = TmIdle /\ t \in tmAsked /\ TmReqGoes(q, "done", t)
  /\ IF tmStatus[t] = "input_required"
     THEN /\ tmStatus' = [tmStatus EXCEPT ![t] = "working"] /\ tmAsked' = tmAsked \ {t}
          /\ tmAnswer' = [tmAnswer EXCEPT ![t] = answer]
          /\ tmUp' \in (IF TmShared(t) THEN BOOLEAN ELSE {TRUE})
     ELSE UNCHANGED <<tmRecs, tmUp>>
  /\ UNCHANGED <<tmCancels, tmStopped, tmAt, tmRan, tmCounted, tmSweep>>

\* cancelTaskResult: the status, and then the function.
TmCancel(q, t) ==
  /\ tmReq[q] = TmIdle /\ TmThere(t)
  /\ TmReqGoes(q, IF TmTerminal(t) THEN "done" ELSE "stop", t) /\ TmEnd(t, "cancelled")
  /\ UNCHANGED <<tmUp, tmAsked, tmAnswer, tmCancels, tmStopped, tmAt, tmRan, tmSweep>>

\* takeCancel.
TmStop(q) ==
  /\ tmReq[q].pc = "stop"
  /\ LET t == tmReq[q].task IN
       /\ TmReqGoes(q, "done", t) /\ tmCancels' = tmCancels \ {t}
       /\ tmStopped' = IF t \in tmCancels THEN tmStopped \cup {t} ELSE tmStopped
  /\ UNCHANGED <<tmUp, tmRecs, tmAt, tmRan, tmCounted, tmSweep>>

-----------------------------------------------------------------------------
(* cleanupLoop. *)

\* A mutant: the functions are forgotten, not called.
TmTakenNone(old) == {}

\* The cancel functions of what the sweep ends.
TmTaken(old) == old \cap tmCancels

\* expire, tasks beyond the maximum age; the mutex is held for all of them.
TmExpire(old) ==
  /\ tmSweep = {} /\ old # {} /\ \A t \in old : TmThere(t) /\ ~TmTerminal(t)
  /\ tmStatus' = [t \in TmTasks |-> IF t \in old THEN "failed" ELSE tmStatus[t]]
  /\ tmCounted' = [t \in TmTasks |-> IF t \in old THEN tmCounted[t] + 1 ELSE tmCounted[t]]
  /\ tmSweep' = TmTaken(old) /\ tmCancels' = tmCancels \ old
  /\ UNCHANGED <<tmUp, tmAsked, tmAnswer, tmStopped, tmAt, tmReq, tmRan>>

\* One of the calls that follow without the mutex.
TmSweepStops(t) ==
  /\ t \in tmSweep /\ tmSweep' = tmSweep \ {t} /\ tmStopped' = tmStopped \cup {t}
  /\ UNCHANGED <<tmUp, tmRecs, tmCancels, tmAt, tmReq, tmRan, tmCounted>>

\* expire, a task that ended one TTL ago.
TmEvict(t) ==
  /\ tmSweep = {}
  /\ TmTerminal(t) /\ ~\E q \in TmReqs : tmReq[q] = [pc |-> "stop", task |-> t]
  /\ tmStatus' = [tmStatus EXCEPT ![t] = "gone"] /\ tmCancels' = tmCancels \ {t}
  /\ tmAsked' = tmAsked \ {t}
  /\ UNCHANGED <<tmUp, tmAnswer, tmStopped, tmAt, tmReq, tmRan, tmCounted, tmSweep>>

TmNext ==
  tmUp /\
    \/ \E t \in TmTasks : \/ TmStart(t) \/ TmAsk(t) \/ TmWait(t) \/ TmToolEnds(t) \/ TmLeave(t)
                          \/ TmSweepStops(t) \/ TmEvict(t)
    \/ \E old \in SUBSET TmTasks : TmExpire(old)
    \/ \E q \in TmReqs :
         \/ TmReply(q) \/ TmStop(q)
         \/ \E t \in TmTasks : \/ TmGet(q, t) \/ TmCancel(q, t)
                               \/ \E answer \in {"approve", "decline"} : TmRespond(q, t, answer)

TmSpec == TmInit /\ [][TmNext]_tmVars

-----------------------------------------------------------------------------
(* Properties. *)

\* A task whose record has ended does not go on unnoticed: its goroutine is
\* past its tool, its context is cancelled, or the sweep or a request has the
\* function in hand or in the map; and it holds with a cancellation, the maximum
\* age and an answer at once (cancelTaskResult, expire, takeCancel).  A task comes
\* to its end once (updateMaybeTerminal, expire), the in-flight cap is never
\* exceeded (put), and a tool that is to be confirmed runs on an approval only.
TmStopsReach ==
  /\ \A t \in TmTasks : TmTerminal(t) \/ tmStatus[t] = "gone" =>
       \/ tmAt[t] \in {"leave", "done"} \/ t \in tmStopped \/ t \in tmSweep
       \/ \E q \in TmReqs : tmReq[q] = [pc |-> "stop", task |-> t] /\ t \in tmCancels
  /\ \A t \in TmTasks : tmCounted[t] <= 1 /\ (tmCounted[t] = 1 <=> TmTerminal(t) \/ tmStatus[t] = "gone")
  /\ Cardinality({t \in TmTasks : TmThere(t) /\ ~TmTerminal(t)}) <= TmMaxInflight
  /\ \A t \in TmConfirm : \A r \in tmRan : r[1] = t => r[2] = "approve"

\* taskStore.mu guards the records: no reply reads a map that is written.
TmMapsGuarded == tmUp
=============================================================================
