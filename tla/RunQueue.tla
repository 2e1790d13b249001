------------------------------ MODULE RunQueue ------------------------------
(***************************************************************************)
(* Asynchronous runs: the handler that stores a pending run and submits a  *)
(* job (cmd/api/handlers/runs.go, Async), the two queues behind the Queue  *)
(* interface (internal/jobqueue: the bounded channel of memQueue and the   *)
(* Redis stream of RedisQueue with its pending-entry list and its reaper), *)
(* the execution of a prepared run (internal/runner), the callback, the    *)
(* drain at shutdown, and the start that fails stale pending runs.         *)
(*                                                                         *)
(* One API process runs at a time; Redis and the database outlive it.  A   *)
(* job is named after its run.  Commands, output and payloads are left     *)
(* out, and so are the audit events of a run and its artifacts.            *)
(***************************************************************************)
EXTENDS Naturals, Sequences, FiniteSets

CONSTANTS Jobs,      \* the runs that may be posted
          Workers,   \* the worker goroutines (ASYNC_WORKERS)
          Reaper,    \* the goroutine that reclaims stale stream entries
          BufSize,   \* the channel's buffer (ASYNC_QUEUE_SIZE)
          Bounded,   \* runs posted with a timeout_seconds of their own
          Callbacks, \* runs posted with a callback_url
          Slow,      \* runs whose processing may outlast reaperMinIdle
          Faulty,    \* bound: runs that may meet a database or Redis error
          MaxStops,  \* bound: crashes and shutdowns
          MaxAckFails, \* bound: executions of a run whose XACK may fail
          None       \* no job, no status

ASSUME QueueAssumption ==
  /\ BufSize \in Nat \ {0}
  /\ MaxStops \in Nat /\ MaxAckFails \in Nat
  /\ Bounded \subseteq Jobs /\ Callbacks \subseteq Jobs
  /\ Slow \subseteq Jobs /\ Faulty \subseteq Jobs
  /\ Workers # {} /\ Reaper \notin Workers   \* workers <= 0 means 4
  /\ None \notin Jobs

VARIABLES
  backend,   \* "mem" or "redis": REDIS_ADDR, fixed when the process starts
  server,    \* the process: up, draining, drained, expired (drain gave up), down
  stops,     \* crashes and shutdowns so far
  row,       \* runs.status; "none" before the row exists
  reply,     \* what the client of the async endpoint was answered
  waiting,   \* memQueue.ch, or the stream entries no consumer has read yet
  pel,       \* stream entries read and not acknowledged
  stale,     \* those of them idle for reaperMinIdle
  batch,     \* entries XAUTOCLAIM gave the reaper, not yet processed
  phase,     \* where each goroutine is
  job,       \* the job it holds
  status,    \* the status it resolved
  expired,   \* whether its context is past its deadline
  execs,     \* how often each run's command was started
  told,      \* the last status the callback's receiver was sent
  unsaved,   \* runs one of whose results could not be stored
  done,      \* jobs processed to the end at least once
  dropped,   \* jobs acknowledged although their row could not be read
  lost       \* jobs that were in memory when the process ended

delivery == <<waiting, pel, stale, batch>>
goroutines == <<phase, job, status, expired>>
history == <<execs, told, unsaved, done, dropped, lost>>
vars == <<backend, server, stops, row, reply, delivery, goroutines, history>>

Executors == Workers \cup {Reaper}
Final == {"completed", "failed", "timeout"}
Phases == {"idle", "fetch", "exec", "update", "reload", "callback", "ack", "drop", "gone"}

Queued == {waiting[i] : i \in DOMAIN waiting}
Held == {job[e] : e \in Executors} \ {None}
Running == {e \in Executors : phase[e] \in {"exec", "update", "reload", "callback", "ack"}}

TypeOK ==
  /\ backend \in {"mem", "redis"}
  /\ server \in {"up", "draining", "drained", "expired", "down"}
  /\ stops \in 0..MaxStops
  /\ row \in [Jobs -> {"none", "pending"} \cup Final]
  /\ reply \in [Jobs -> {"none", "preparing", "accepted", "refused", "unanswered"}]
  /\ waiting \in Seq(Jobs)
  /\ pel \subseteq Jobs /\ stale \subseteq pel /\ batch \subseteq Jobs
  /\ phase \in [Executors -> Phases]
  /\ job \in [Executors -> Jobs \cup {None}]
  /\ status \in [Executors -> {"pending", None} \cup Final]
  /\ expired \in [Executors -> BOOLEAN]
  /\ execs \in [Jobs -> Nat]
  /\ told \in [Jobs -> {"pending", None} \cup Final]
  /\ unsaved \subseteq Jobs /\ done \subseteq Jobs
  /\ dropped \subseteq Jobs /\ lost \subseteq Jobs

Init ==
  /\ backend \in {"mem", "redis"}
  /\ server = "up" /\ stops = 0
  /\ row = [j \in Jobs |-> "none"] /\ reply = [j \in Jobs |-> "none"]
  /\ waiting = <<>> /\ pel = {} /\ stale = {} /\ batch = {}
  /\ phase = [e \in Executors |-> IF backend = "mem" /\ e = Reaper THEN "gone" ELSE "idle"]
  /\ job = [e \in Executors |-> None] /\ status = [e \in Executors |-> None]
  /\ expired = [e \in Executors |-> FALSE]
  /\ execs = [j \in Jobs |-> 0] /\ told = [j \in Jobs |-> None]
  /\ unsaved = {} /\ done = {} /\ dropped = {} /\ lost = {}

-----------------------------------------------------------------------------
(* The handler.  It answers while the HTTP server runs, which is until the
   process exits: the queue is drained before the server is shut down. *)

Serving == server # "down"

\* Async: the session checks passed, PrepareAsync stored the pending row.
Prepare(j) ==
  /\ Serving /\ reply[j] = "none"
  /\ row' = [row EXCEPT ![j] = "pending"]
  /\ reply' = [reply EXCEPT ![j] = "preparing"]
  /\ UNCHANGED <<backend, server, stops, delivery, goroutines, history>>

\* Whether the channel can take a job: not closed by Drain and not full.
HasRoom == server = "up" /\ Len(waiting) < BufSize

\* Submit on the channel: a non-blocking send, and a recovered panic when it
\* is closed.
SubmitMem(j) ==
  /\ backend = "mem" /\ Serving /\ reply[j] = "preparing"
  /\ \/ /\ HasRoom
        /\ waiting' = Append(waiting, j)
        /\ reply' = [reply EXCEPT ![j] = "accepted"]
     \/ /\ ~HasRoom
        /\ reply' = [reply EXCEPT ![j] = "refused"]
        /\ UNCHANGED waiting
  /\ UNCHANGED <<backend, server, stops, row, pel, stale, batch, goroutines, history>>

\* Submit on the stream: XADD, whatever the queue's own state.  An XADD that
\* fails or times out is answered 503; the entry may be there all the same.
SubmitRedis(j) ==
  /\ backend = "redis" /\ Serving /\ reply[j] = "preparing"
  /\ \/ /\ waiting' = Append(waiting, j)
        /\ reply' = [reply EXCEPT ![j] = "accepted"]
     \/ /\ j \in Faulty
        /\ waiting' \in {waiting, Append(waiting, j)}
        /\ reply' = [reply EXCEPT ![j] = "refused"]
  /\ UNCHANGED <<backend, server, stops, row, pel, stale, batch, goroutines, history>>

-----------------------------------------------------------------------------
(* Getting hold of a job. *)

Grab(e, j, p) ==
  /\ phase' = [phase EXCEPT ![e] = p]
  /\ job' = [job EXCEPT ![e] = j]
  /\ UNCHANGED <<status, expired>>

Release(e, p) ==
  /\ phase' = [phase EXCEPT ![e] = p]
  /\ job' = [job EXCEPT ![e] = None]
  /\ status' = [status EXCEPT ![e] = None]
  /\ expired' = [expired EXCEPT ![e] = FALSE]

Goto(e, p) == phase' = [phase EXCEPT ![e] = p]

\* memQueue.work: the next job of the channel, also after it was closed.
TakeMem(w) ==
  /\ backend = "mem" /\ Serving
  /\ phase[w] = "idle" /\ waiting # <<>>
  /\ Grab(w, Head(waiting), "exec")
  /\ waiting' = Tail(waiting)
  /\ execs' = [execs EXCEPT ![Head(waiting)] = @ + 1]
  /\ UNCHANGED <<backend, server, stops, row, reply, pel, stale, batch,
                 told, unsaved, done, dropped, lost>>

\* MUTANT: reading with NOACK, so that delivery is the acknowledgement.
TakeRedisNoAck(w) ==
  /\ backend = "redis" /\ server = "up"
  /\ phase[w] = "idle" /\ waiting # <<>>
  /\ Grab(w, Head(waiting), "fetch")
  /\ waiting' = Tail(waiting)
  /\ UNCHANGED <<backend, server, stops, row, reply, pel, stale, batch, history>>

\* RedisQueue.work: XREADGROUP hands the worker a new entry.
TakeRedis(w) ==
  /\ backend = "redis" /\ server = "up"
  /\ phase[w] = "idle" /\ waiting # <<>>
  /\ Grab(w, Head(waiting), "fetch")
  /\ waiting' = Tail(waiting)
  /\ pel' = pel \cup {Head(waiting)}
  /\ UNCHANGED <<backend, server, stops, row, reply, stale, batch, history>>

\* The same read when the stop came while it was blocked: the entry is
\* delivered, and the worker leaves without looking at it.
ReadWhileStopping(w) ==
  /\ backend = "redis" /\ server \in {"draining", "expired"}
  /\ phase[w] = "idle" /\ waiting # <<>>
  /\ Goto(w, "gone")
  /\ waiting' = Tail(waiting)
  /\ pel' = pel \cup {Head(waiting)}
  /\ UNCHANGED <<backend, server, stops, row, reply, stale, batch,
                 job, status, expired, history>>

\* MUTANT: workers that leave as soon as the channel is closed.
MayStopAtOnce(w) == TRUE

\* The worker leaves: a closed and empty channel, or a cancelled stopCtx.
MayStop(w) == backend = "mem" => waiting = <<>>

WorkerStops(w) ==
  /\ server \in {"draining", "expired"} /\ phase[w] = "idle"
  /\ MayStop(w)
  /\ Goto(w, "gone")
  /\ UNCHANGED <<backend, server, stops, row, reply, delivery, job, status, expired, history>>

\* An entry stays unacknowledged for reaperMinIdle: nobody is working on it,
\* or the work takes that long.
MayAge(j) == j \in Slow \/ j \notin Held

Age(j) ==
  /\ j \in pel \ stale /\ MayAge(j)
  /\ stale' = stale \cup {j}
  /\ UNCHANGED <<backend, server, stops, row, reply, waiting, pel, batch, goroutines, history>>

\* MUTANT: a claim without MinIdle.
ClaimableAny == pel

\* What XAUTOCLAIM returns: the entries idle for reaperMinIdle, whoever owns
\* them.
Claimable == stale

\* reap: between two batches; a tick may still win against the stop.
Claim ==
  /\ Serving /\ phase[Reaper] = "idle"
  /\ batch = {} /\ Claimable # {}
  /\ batch' = Claimable
  /\ stale' = stale \ Claimable
  /\ UNCHANGED <<backend, server, stops, row, reply, waiting, pel, goroutines, history>>

\* reap: the next entry of the batch goes through processMessage.
ReapNext(j) ==
  /\ Serving /\ phase[Reaper] = "idle" /\ j \in batch
  /\ Grab(Reaper, j, "fetch")
  /\ batch' = batch \ {j}
  /\ UNCHANGED <<backend, server, stops, row, reply, waiting, pel, stale, history>>

ReaperStops ==
  /\ server \in {"draining", "expired"} /\ phase[Reaper] = "idle" /\ batch = {}
  /\ Goto(Reaper, "gone")
  /\ UNCHANGED <<backend, server, stops, row, reply, delivery, job, status, expired, history>>

-----------------------------------------------------------------------------
(* Processing a job. *)

\* processMessage: the run's row is read first.  On an error the entry is
\* acknowledged unprocessed.  A row that is no longer pending is not noticed.
Fetch(e) ==
  /\ Serving /\ phase[e] = "fetch"
  /\ \/ /\ Goto(e, "exec")
        /\ execs' = [execs EXCEPT ![job[e]] = @ + 1]
     \/ /\ job[e] \in Faulty
        /\ Goto(e, "drop")
        /\ UNCHANGED execs
  /\ UNCHANGED <<backend, server, stops, row, reply, delivery, job, status, expired,
                 told, unsaved, done, dropped, lost>>

\* executeImpl: docker.Exec returned and resolveStatus named the outcome.  The
\* context expires after the run's own timeout_seconds, before Exec's own
\* limit; without one it lasts 5 minutes and Exec gives up after 30 seconds.
ExecEnds(e) ==
  /\ Serving /\ phase[e] = "exec"
  /\ \E s \in Final, x \in BOOLEAN :
       /\ x => job[e] \in Bounded
       /\ s = "timeout" /\ job[e] \in Bounded => x
       /\ status' = [status EXCEPT ![e] = s]
       /\ expired' = [expired EXCEPT ![e] = x]
  /\ Goto(e, "update")
  /\ UNCHANGED <<backend, server, stops, row, reply, delivery, job, history>>

\* executeImpl: UpdateRun on the same context, whatever the row holds by now;
\* a failure is logged.
UpdateRun(e) ==
  /\ Serving /\ phase[e] = "update"
  /\ \/ /\ ~expired[e]
        /\ row' = [row EXCEPT ![job[e]] = status[e]]
        /\ UNCHANGED unsaved
     \/ /\ expired[e] \/ job[e] \in Faulty
        /\ unsaved' = unsaved \cup {job[e]}
        /\ UNCHANGED row
  /\ Goto(e, "reload")
  /\ UNCHANGED <<backend, server, stops, reply, delivery, job, status, expired,
                 execs, told, done, dropped, lost>>

\* executeImpl: GetRun on the same context; if it fails, the outcome itself
\* is returned.
Reload(e) ==
  /\ Serving /\ phase[e] = "reload"
  /\ \/ /\ ~expired[e]
        /\ status' = [status EXCEPT ![e] = row[job[e]]]
     \/ /\ expired[e] \/ job[e] \in Faulty
        /\ UNCHANGED status
  /\ Goto(e, "callback")
  /\ UNCHANGED <<backend, server, stops, row, reply, delivery, job, expired, history>>

\* sendCallback: up to three attempts with the same body; at least one
\* reached the receiver, or none did.
Callback(e) ==
  /\ Serving /\ phase[e] = "callback"
  /\ \/ /\ job[e] \in Callbacks
        /\ told' = [told EXCEPT ![job[e]] = status[e]]
     \/ UNCHANGED told
  /\ IF backend = "mem"
     THEN /\ Release(e, "idle")
          /\ done' = done \cup {job[e]}
     ELSE /\ Goto(e, "ack")
          /\ UNCHANGED <<job, status, expired, done>>
  /\ UNCHANGED <<backend, server, stops, row, reply, delivery, execs, unsaved, dropped, lost>>

\* ack: XACK removes the entry from the list; a failure is logged and the
\* entry stays.
Ack(e) ==
  /\ Serving /\ phase[e] \in {"ack", "drop"}
  /\ \/ pel' = pel \ {job[e]} /\ stale' = stale \ {job[e]}
     \/ /\ job[e] \in Faulty /\ execs[job[e]] <= MaxAckFails
        /\ UNCHANGED <<pel, stale>>
  /\ done' = IF phase[e] = "ack" THEN done \cup {job[e]} ELSE done
  /\ dropped' = IF phase[e] = "drop" THEN dropped \cup {job[e]} ELSE dropped
  /\ Release(e, "idle")
  /\ UNCHANGED <<backend, server, stops, row, reply, waiting, batch, execs, told, unsaved, lost>>

-----------------------------------------------------------------------------
(* The process. *)

\* SIGTERM: the queue stops, and the HTTP server goes on serving.
Shutdown ==
  /\ server = "up" /\ stops < MaxStops
  /\ server' = "draining" /\ stops' = stops + 1
  /\ UNCHANGED <<backend, row, reply, delivery, goroutines, history>>

\* Drain returns: every goroutine has left, or the shutdown timeout passed.
DrainReturns ==
  /\ server = "draining"
  /\ \/ /\ \A e \in Executors : phase[e] = "gone"
        /\ server' = "drained"
     \/ server' = "expired"
  /\ UNCHANGED <<backend, stops, row, reply, delivery, goroutines, history>>

\* What the end of the process leaves: nothing in memory, the stream in Redis.
End ==
  /\ server' = "down"
  /\ waiting' = IF backend = "mem" THEN <<>> ELSE waiting
  /\ lost' = IF backend = "mem" THEN lost \cup Queued \cup Held ELSE lost
  /\ batch' = {}
  /\ phase' = [e \in Executors |-> "gone"]
  /\ job' = [e \in Executors |-> None]
  /\ status' = [e \in Executors |-> None]
  /\ expired' = [e \in Executors |-> FALSE]
  /\ reply' = [j \in Jobs |-> IF reply[j] = "preparing" THEN "unanswered" ELSE reply[j]]
  /\ UNCHANGED <<backend, row, pel, stale, execs, told, unsaved, done, dropped>>

Exit == server \in {"drained", "expired"} /\ End /\ UNCHANGED stops

Crash == Serving /\ stops < MaxStops /\ stops' = stops + 1 /\ End

\* MUTANT: without the condition on the status.
FailStalePendingRunsAll == [j \in Jobs |-> IF row[j] # "none" THEN "failed" ELSE row[j]]

\* MUTANT: with a session's status.
FailStalePendingRunsError == [j \in Jobs |-> IF row[j] = "pending" THEN "error" ELSE row[j]]

\* FailStalePendingRuns: every row still pending.
FailStalePendingRuns == [j \in Jobs |-> IF row[j] = "pending" THEN "failed" ELSE row[j]]

\* main: stale runs are failed (an error is logged), then the queue starts.
Start ==
  /\ server = "down" /\ server' = "up"
  /\ row' \in {row, FailStalePendingRuns}
  /\ phase' = [e \in Executors |-> IF backend = "mem" /\ e = Reaper THEN "gone" ELSE "idle"]
  /\ UNCHANGED <<backend, stops, reply, delivery, job, status, expired, history>>

-----------------------------------------------------------------------------
Work(e) == Fetch(e) \/ ExecEnds(e) \/ UpdateRun(e) \/ Reload(e) \/ Callback(e) \/ Ack(e)

Next ==
  \/ \E j \in Jobs : Prepare(j) \/ SubmitMem(j) \/ SubmitRedis(j) \/ Age(j) \/ ReapNext(j)
  \/ \E w \in Workers : TakeMem(w) \/ TakeRedis(w) \/ ReadWhileStopping(w) \/ WorkerStops(w)
  \/ \E e \in Executors : Work(e)
  \/ Claim \/ ReaperStops \/ Shutdown \/ DrainReturns \/ Exit \/ Crash \/ Start

\* Goroutines that can go on do so: an execution ends at its timeout, a
\* callback after its attempts, a drain at the shutdown timeout.  Time passes
\* for a stream entry, and whatever runs the process starts it again.
Fairness ==
  /\ \A e \in Executors : WF_vars(Work(e))
  /\ \A w \in Workers : WF_vars(TakeMem(w) \/ TakeRedis(w) \/ WorkerStops(w))
  /\ \A j \in Jobs : WF_vars(Age(j)) /\ WF_vars(ReapNext(j))
  /\ WF_vars(Claim) /\ WF_vars(ReaperStops)
  /\ WF_vars(DrainReturns) /\ WF_vars(Exit) /\ WF_vars(Start)

Spec == Init /\ [][Next]_vars

FairSpec == Spec /\ Fairness

-----------------------------------------------------------------------------
(* Properties *)

\* A run answered 202 is not forgotten: with Redis its entry stays in the
\* stream or the pending list until it was processed (or its row could not be
\* read), across any crash; in memory it is lost only with the process
\* (redis.go, "Jobs survive process restarts"; queue.go, "jobs lost on restart").
AcceptedIsKept ==
  \A j \in Jobs : reply[j] = "accepted" =>
    j \in done \cup dropped \cup lost \cup Queued \cup (IF backend = "mem" THEN Held ELSE pel)

\* Two goroutines never work on the same run, unless its processing outlasts
\* reaperMinIdle (redis.go, reaperMinIdle and reap).
OneAtATime ==
  \A e, f \in Executors : job[e] = job[f] /\ e # f => job[e] \in Slow \cup {None}

\* Once Drain has returned without giving up, no goroutine holds a job and
\* the channel holds none, although requests are still served (queue.go,
\* Drain; main.go, "no run is silently abandoned mid-execution").
DrainLeavesNothing ==
  server = "drained" => Held = {} /\ batch = {} /\ (backend = "mem" => waiting = <<>>)

\* What the callback reported of a run executed once is what its row says,
\* unless the result could not be stored (runner.go, executeImpl).
CallbackMatchesRow ==
  \A j \in Jobs : execs[j] = 1 /\ told[j] # None /\ j \notin unsaved => row[j] = told[j]

\* A settled row is rewritten only with Redis, and then either a second
\* execution rewrites it or it had been failed, which the start does to runs
\* that are delivered again later (UpdateRun, FailStalePendingRuns).
OutcomeStands ==
  [][\A j \in Jobs : row[j] \in Final /\ row'[j] # row[j] =>
       backend = "redis" /\ (execs[j] >= 2 \/ row[j] = "failed")]_vars

\* Every accepted run is processed in the end, unless the process ended with
\* it in memory or its row could not be read (work, reap, Drain, main).
AcceptedIsProcessed ==
  \A j \in Jobs : reply[j] = "accepted" ~> j \in done \cup dropped \cup lost

\* A run that ended at its timeout is recorded as such (docs/security.md: "The
\* run is recorded as `timeout`"), whenever the database could be written.
TimeoutIsRecorded ==
  \A e \in Executors : phase[e] = "callback" /\ status[e] = "timeout" => row[job[e]] = "timeout"

=============================================================================
