------------------------------- MODULE McpTasks -------------------------------
(***************************************************************************)
(* Background tasks of the MCP server (sdk/mcp/tasks.go, tasks_input.go,     *)
(* tasks_redis.go) with the Redis store: a tool runs in a goroutine of one   *)
(* instance while clients poll, answer, cancel and other instances sweep.    *)
(* Every update reads the record and writes it by compare and set.  A task   *)
(* asks for one input at most.  Running out of the eight attempts of an       *)
(* update is left out: it takes as many writers of one task.                 *)
(***************************************************************************)
EXTENDS Naturals, FiniteSets

CONSTANTS
  TkTasks,       \* tasks
  TkConfirm,     \* tasks started with confirm
  TkClients,     \* client requests
  TkSweeps,      \* instances that sweep
  TkMaxInflight, \* MCP_TASK_MAX_INFLIGHT
  TkMaxFails     \* bound: updates that Redis does not answer

ASSUME McpTasksAssumption ==
  /\ TkConfirm \subseteq TkTasks /\ IsFiniteSet(TkTasks)
  /\ TkTasks \cap TkClients = {} /\ TkTasks \cap TkSweeps = {} /\ TkClients \cap TkSweeps = {}
  /\ TkMaxInflight \in Nat \ {0} /\ TkMaxFails \in Nat
  /\ "nothing" \notin TkTasks

VARIABLES
  tkRec,      \* the task's key in Redis
  tkInflight, \* the in-flight set in Redis
  tkAt,       \* where each goroutine, request and sweep is
  tkOn,       \* the task a request or a sweep is about
  tkSeen,     \* the record an update under way has read
  tkSignal,   \* tasks whose cancellation is published
  tkStopped,  \* goroutines whose context is cancelled
  tkOld,      \* tasks beyond MCP_TASK_MAX_AGE_SECONDS
  tkRan,      \* tasks whose tool was called, with the answer it was called on
  tkCounted,  \* terminal metrics emitted
  tkBecame,   \* updates that set became in updateMaybeTerminal
  tkFails     \* failures so far

tkVars == <<tkRec, tkInflight, tkAt, tkOn, tkSeen, tkSignal, tkStopped, tkOld, tkRan,
            tkCounted, tkBecame, tkFails>>

TkActors == TkTasks \cup TkClients \cup TkSweeps
TkStatus == {"working", "input_required", "completed", "failed", "cancelled"}
TkAnswers == {"none", "approve", "decline"}
TkRecord == [status : TkStatus, answer : TkAnswers, version : Nat]
TkGone == [status |-> "gone", answer |-> "none", version |-> 0]
TkKinds == {"cancel", "approve", "decline", "message"}
TkUpdates == {"ask", "refuse", "giveup", "report", "age"} \cup TkKinds
TkPlaces == {"new", "wait", "tool", "done"} \cup TkUpdates

TkTypeOK ==
  /\ tkRec \in [TkTasks -> TkRecord \cup {TkGone}]
  /\ tkInflight \subseteq TkTasks
  /\ tkAt \in [TkActors -> TkPlaces] /\ tkOn \in [TkActors -> TkTasks \cup {"nothing"}]
  /\ tkSeen \in [TkActors -> TkRecord \cup {TkGone}]
  /\ tkSignal \subseteq TkTasks /\ tkStopped \subseteq TkTasks
  /\ tkOld \subseteq TkTasks /\ tkRan \subseteq TkTasks \X TkAnswers
  /\ tkCounted \in [TkTasks -> Nat] /\ tkBecame \subseteq TkActors /\ tkFails \in 0..TkMaxFails

TkInit ==
  /\ tkRec = [t \in TkTasks |-> TkGone] /\ tkInflight = {}
  /\ tkAt = [a \in TkActors |-> "new"]
  /\ tkOn = [a \in TkActors |-> IF a \in TkTasks THEN a ELSE "nothing"]
  /\ tkSeen = [a \in TkActors |-> TkGone]
  /\ tkSignal = {} /\ tkStopped = {} /\ tkOld = {} /\ tkRan = {}
  /\ tkCounted = [t \in TkTasks |-> 0] /\ tkBecame = {} /\ tkFails = 0

TkTerminal(rec) == rec.status \in {"completed", "failed", "cancelled"}
TkGoes(a, place) == tkAt' = [tkAt EXCEPT ![a] = place]
TkFail == tkFails < TkMaxFails /\ tkFails' = tkFails + 1

-----------------------------------------------------------------------------
(* redisUpdate: GET, the change, then casSetTask. *)

\* What the update of each actor writes, or what it read when fn returns false.
TkChange(a, rec, status) ==
  LET set(s, answer) == [status |-> s, answer |-> answer, version |-> rec.version + 1] IN
    IF TkTerminal(rec) \/ rec = TkGone THEN rec
    ELSE CASE tkAt[a] = "ask" -> set("input_required", "none")
           [] tkAt[a] = "message" -> set(rec.status, rec.answer)
           [] tkAt[a] \in {"approve", "decline"} ->
                IF rec.status = "input_required" THEN set("working", tkAt[a]) ELSE rec
           [] OTHER -> set(status, rec.answer)

\* The statuses it may choose between: a goroutine whose context is cancelled
\* says so when its wait or its tool ended, a tool succeeds or fails.
TkOutcomes(a) ==
  CASE tkAt[a] = "cancel" -> {"cancelled"}
    [] tkAt[a] \in {"report", "giveup"} /\ a \in tkStopped -> {"cancelled"}
    [] tkAt[a] = "report" /\ a \notin tkStopped -> {"completed", "failed"}
    [] OTHER -> {"failed"}

TkUpdating(a) == tkAt[a] \in TkUpdates

TkRead(a) ==
  /\ TkUpdating(a) /\ tkSeen[a] = TkGone /\ tkRec[tkOn[a]] # TkGone
  /\ tkSeen' = [tkSeen EXCEPT ![a] = tkRec[tkOn[a]]]
  /\ UNCHANGED <<tkRec, tkInflight, tkAt, tkOn, tkSignal, tkStopped, tkOld, tkRan,
                 tkCounted, tkBecame, tkFails>>

\* What follows the update: the goroutine waits or ends, and a cancellation or
\* a task that is too old is published.  cancelTaskResult publishes only what
\* it cancelled; the sweep publishes in any case.
TkFollow(a, ok, changed) ==
  LET t == tkOn[a] IN
    /\ tkSeen' = [tkSeen EXCEPT ![a] = TkGone] /\ tkBecame' = tkBecame \ {a}
    /\ IF tkAt[a] = "ask" THEN TkGoes(a, IF ok THEN "wait" ELSE "refuse") ELSE TkGoes(a, "done")
    /\ tkSignal' = IF tkAt[a] = "age" \/ (tkAt[a] = "cancel" /\ changed)
                   THEN tkSignal \cup {t} ELSE tkSignal

\* A mutant: a plain SET.
TkMatchesAny(a) == tkRec[tkOn[a]] # TkGone

\* The comparison of casSetTask.
TkMatches(a) == tkRec[tkOn[a]] = tkSeen[a]

\* On a conflict the update starts over, and keeps became.
TkWrite(a) ==
  /\ TkUpdating(a) /\ tkSeen[a] # TkGone
  /\ \E status \in TkOutcomes(a) :
       LET t == tkOn[a]
           new == TkChange(a, tkSeen[a], status)
           became == new # tkSeen[a] /\ TkTerminal(new) IN
         /\ IF new = tkSeen[a]
            THEN /\ TkFollow(a, TRUE, FALSE)
                 /\ UNCHANGED <<tkRec, tkInflight>>
                 /\ tkCounted' = [tkCounted EXCEPT ![t] = IF a \in tkBecame THEN @ + 1 ELSE @]
            ELSE IF TkMatches(a)
            THEN /\ TkFollow(a, TRUE, TRUE)
                 /\ tkRec' = [tkRec EXCEPT ![t] = new]
                 /\ tkInflight' = IF TkTerminal(new) THEN tkInflight \ {t} ELSE tkInflight
                 /\ tkCounted' = [tkCounted EXCEPT ![t] = IF became THEN @ + 1 ELSE @]
            ELSE /\ tkSeen' = [tkSeen EXCEPT ![a] = TkGone]
                 /\ tkBecame' = IF became THEN tkBecame \cup {a} ELSE tkBecame
                 /\ UNCHANGED <<tkRec, tkInflight, tkAt, tkSignal, tkCounted>>
  /\ UNCHANGED <<tkOn, tkStopped, tkOld, tkRan, tkFails>>

\* The key is gone, or Redis does not answer: the update returns false.
TkUpdateFails(a) ==
  /\ TkUpdating(a)
  /\ \/ tkRec[tkOn[a]] = TkGone /\ UNCHANGED tkFails
     \/ TkFail
  /\ TkFollow(a, FALSE, FALSE)
  /\ tkCounted' = [tkCounted EXCEPT ![tkOn[a]] = IF a \in tkBecame THEN @ + 1 ELSE @]
  /\ UNCHANGED <<tkRec, tkInflight, tkOn, tkStopped, tkOld, tkRan>>

-----------------------------------------------------------------------------
(* startToolTask and its goroutine. *)

\* claimAndSetTask.
TkRoom == Cardinality(tkInflight) < TkMaxInflight

TkStart(t) ==
  /\ tkAt[t] = "new"
  /\ IF TkRoom
     THEN /\ tkInflight' = tkInflight \cup {t}
          /\ tkRec' = [tkRec EXCEPT ![t] = [status |-> "working", answer |-> "none", version |-> 1]]
          /\ TkGoes(t, IF t \in TkConfirm THEN "ask" ELSE "tool")
          /\ tkRan' = IF t \in TkConfirm THEN tkRan ELSE tkRan \cup {<<t, "none">>}
     ELSE TkGoes(t, "done") /\ UNCHANGED <<tkInflight, tkRec, tkRan>>
  /\ UNCHANGED <<tkOn, tkSeen, tkSignal, tkStopped, tkOld, tkCounted, tkBecame, tkFails>>

\* A mutant: whatever is not waiting for input is over.
TkWaitOverLost(rec) == rec.status # "input_required" /\ ~TkTerminal(rec)

\* waitForInput returns the responses.
TkWaitOver(rec) == rec.status = "working"

\* responseApproved; no response at all is approved.
TkApproved(answer) == answer # "decline"

TkWait(t) ==
  /\ tkAt[t] = "wait"
  /\ LET rec == tkRec[t] IN
       \/ /\ TkWaitOver(rec) /\ TkApproved(rec.answer)
          /\ TkGoes(t, "tool") /\ tkRan' = tkRan \cup {<<t, rec.answer>>} /\ UNCHANGED tkFails
       \/ /\ TkWaitOver(rec) /\ ~TkApproved(rec.answer)
          /\ TkGoes(t, "refuse") /\ UNCHANGED <<tkRan, tkFails>>
       \/ /\ ~TkWaitOver(rec) /\ TkGoes(t, "giveup") /\ UNCHANGED tkRan
          /\ \/ (rec = TkGone \/ TkTerminal(rec) \/ t \in tkStopped) /\ UNCHANGED tkFails
             \/ TkFail
  /\ UNCHANGED <<tkRec, tkInflight, tkOn, tkSeen, tkSignal, tkStopped, tkOld, tkCounted, tkBecame>>

\* callTool returns.
TkToolEnds(t) ==
  /\ tkAt[t] = "tool" /\ TkGoes(t, "report")
  /\ UNCHANGED <<tkRec, tkInflight, tkOn, tkSeen, tkSignal, tkStopped, tkOld, tkRan,
                 tkCounted, tkBecame, tkFails>>

\* takeCancel, here or where listenCancelPubSub hears of it.
TkCancelled(t) ==
  /\ t \in tkSignal \ tkStopped /\ tkAt[t] # "done" /\ tkStopped' = tkStopped \cup {t}
  /\ UNCHANGED <<tkRec, tkInflight, tkAt, tkOn, tkSeen, tkSignal, tkOld, tkRan,
                 tkCounted, tkBecame, tkFails>>

-----------------------------------------------------------------------------
(* Requests, the sweep, and the expiry of keys. *)

TkRequest(c, kind, t) ==
  /\ tkAt[c] = "new" /\ tkRec[t] # TkGone
  /\ TkGoes(c, kind) /\ tkOn' = [tkOn EXCEPT ![c] = t]
  /\ UNCHANGED <<tkRec, tkInflight, tkSeen, tkSignal, tkStopped, tkOld, tkRan,
                 tkCounted, tkBecame, tkFails>>

TkAges(t) ==
  /\ tkRec[t] # TkGone /\ t \notin tkOld /\ tkOld' = tkOld \cup {t}
  /\ UNCHANGED <<tkRec, tkInflight, tkAt, tkOn, tkSeen, tkSignal, tkStopped, tkRan,
                 tkCounted, tkBecame, tkFails>>

\* expireRedis, one member of the set: a key that is gone, or that Redis did
\* not return, loses its place.
TkSweep(i, t) ==
  /\ t \in tkInflight /\ tkAt[i] \in {"new", "done"}
  /\ \/ /\ tkRec[t] = TkGone \/ TkTerminal(tkRec[t])
        /\ tkInflight' = tkInflight \ {t} /\ UNCHANGED <<tkAt, tkOn, tkFails>>
     \/ /\ TkFail /\ tkInflight' = tkInflight \ {t} /\ UNCHANGED <<tkAt, tkOn>>
     \/ /\ tkRec[t] # TkGone /\ ~TkTerminal(tkRec[t]) /\ t \in tkOld
        /\ TkGoes(i, "age") /\ tkOn' = [tkOn EXCEPT ![i] = t] /\ UNCHANGED <<tkInflight, tkFails>>
  /\ UNCHANGED <<tkRec, tkSeen, tkSignal, tkStopped, tkOld, tkRan, tkCounted, tkBecame>>

\* EXPIRE: the key of a finished task, or of one not written for the maximum age.
TkKeyExpires(t) ==
  /\ tkRec[t] # TkGone /\ (TkTerminal(tkRec[t]) \/ t \in tkOld)
  /\ tkRec' = [tkRec EXCEPT ![t] = TkGone]
  /\ UNCHANGED <<tkInflight, tkAt, tkOn, tkSeen, tkSignal, tkStopped, tkOld, tkRan,
                 tkCounted, tkBecame, tkFails>>

TkNext ==
  \/ \E t \in TkTasks : \/ TkStart(t) \/ TkWait(t) \/ TkToolEnds(t) \/ TkCancelled(t)
                        \/ TkAges(t) \/ TkKeyExpires(t)
                        \/ \E c \in TkClients, kind \in TkKinds : TkRequest(c, kind, t)
                        \/ \E i \in TkSweeps : TkSweep(i, t)
  \/ \E a \in TkActors : TkRead(a) \/ TkWrite(a) \/ TkUpdateFails(a)

TkSpec == TkInit /\ [][TkNext]_tkVars

-----------------------------------------------------------------------------
(* Properties. *)

\* A finished task stays as it finished, until its key expires: a result that
\* comes after a cancellation, a late answer and the sweep change nothing
\* (casSetTask).
TkFinal ==
  [][\A t \in TkTasks : TkTerminal(tkRec[t]) => tkRec'[t] \in {tkRec[t], TkGone}]_tkVars

\* A tool that needs confirmation is called on an approval that was given,
\* never on a record in which the question is missing or unanswered
\* (waitForInput, responseApproved).
TkConfirmed == \A t \in TkConfirm : <<t, "none">> \notin tkRan /\ <<t, "decline">> \notin tkRan

\* claimAndSetTask "atomically enforces the inflight cap": tasks that are under
\* way are never more.
TkInflightCapped ==
  Cardinality({t \in TkTasks : tkRec[t] # TkGone /\ ~TkTerminal(tkRec[t])}) <= TkMaxInflight

\* updateMaybeTerminal "emits terminal metrics when a task newly reaches a
\* terminal status".
TkCountedOnce == \A t \in TkTasks : tkCounted[t] <= 1
=============================================================================
