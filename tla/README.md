# VaultRun in TLA+

VaultRun runs commands of AI agents in disposable Docker sandboxes behind an
HTTP API. This directory holds TLA+ models of the parts whose correctness
depends on interleavings, failures and restarts, the TLC configurations that
check them, and TLAPS proofs of their safety properties for every instance.
`PROJECT.json` maps each definition to the lines it models and lists the runs,
the mutants, the findings and the hazards.

    tlc -workers 2 -config MCSessions_many.cfg MCSessions     # a run
    tlapm SessionsProofs.tla                                  # a proof

## The system

| Component | Source | State | Operations | Module |
|---|---|---|---|---|
| Session lifecycle | `cmd/api/handlers/sessions.go`, `templates.go`, `replay.go`; `internal/cleanup` | rows of `sessions`, containers, workspace directories | create (three handlers), delete, label update, idle sweep, reconciliation at start, shutdown | `Sessions` |
| Asynchronous runs | `cmd/api/handlers/runs.go`, `internal/jobqueue` | rows of `runs`, a bounded channel or a Redis stream with its pending list, worker and reaper goroutines | submit, take, execute, store, call back, acknowledge, reclaim, drain, restart | `RunQueue` |
| Run execution, supervisor, workspace cap | `internal/runner`, `internal/docker/exec.go`, `internal/supervise`, `internal/quota` | the run's row, the command, a paused container | execute, stream, kill at the deadline, admit, sweep, pause | `SandboxRuns` |
| Output of a run | `internal/docker/exec.go`, `internal/secrets/redact.go` | two streams, a held tail | split, cut, redact, close | `Redactor` |
| Audit log and its export | `internal/audit`, `internal/siemexport` | the chained rows, the signed head row, a cached verdict, a bookmark | append, prune, scan, classify; list, post | `AuditChain`, `AuditExport` |
| Sandbox network | `internal/docker/container.go`, `netpolicy.go` | bridge networks, iptables chains, containers | set up, roll back, stop | `Egress` |
| Warm pool, supervisor volume, XFS quotas | `internal/warmpool`, `internal/docker/supervisor.go`, `internal/quota/xfs.go`, `internal/xfsquota` | a channel of containers, a volume, project ids | fill, stop, install, assign | `HostTools` |
| Files | `handlers/files.go`, `detectArtifacts` of `internal/runner` | rows of `files`, the workspace | upload, delete, run | `FileList` |
| Snapshots, artifacts | `handlers/snapshots.go`, `artifacts.go`, `internal/artifacts` | blobs and their rows | create, promote, restore, delete | `Stores` |
| Replay | `internal/replay`, `handlers/replay.go` | checkpoints, archives | checkpoint, prune, restore, fork, delete | `Checkpoints` |
| Collaboration | `internal/collab`, `handlers/collab.go` | slots in Redis, agents, messages and edges in the database, WebSocket clients | join, leave, presence, message, fan out, add and remove edges | `Collab`, `CollabHub`, `CollabGraph` |
| Cost | `internal/cost`, `handlers/costs.go` | metrics, budgets | accrue, sign, report, set a budget | `Costs`, `CostReports` |
| Templates | `internal/templates`, `handlers/templates.go` | templates, uses | create, update, use, delete, insert the built-in ones | `Templates` |
| Missions | `internal/missions`, `handlers/missions.go` | missions, their runs, attributed cost | create, update, delete, record, finish, attribute | `Missions` |
| Keys, organisations, access | `handlers/keys.go`, `orgs.go`, `hub.go`, `middleware/auth.go` | keys, members, roles, secrets of a key | create, revoke, purge, grant; authenticate, load, check | `Access` |
| Rate limits | `middleware/ratelimit.go`, the limiters of `sdk/mcp` and `localgateway` | buckets, windows, Redis counters | allow, forget | `Limits` |
| Evidence, verification | `handlers/evidence.go`, `verify.go`, `internal/evidence`, `internal/verify` | packs, stored verdicts, seals | export; evaluate, store, seal | `Evidence`, `Verification` |
| MCP server | `sdk/mcp` | tasks (memory or Redis), windows, one session per `run_github_repo` | submit, poll, answer, cancel, expire; admit, dispatch, drain | `McpTasks`, `TaskMemory`, `McpHttp`, `GithubRuns` |
| Local gateway | `internal/localgateway` | bindings of conversations, missions | chat, call tools, record | `Gateway` |
| CI runner | `cmd/ci-runner` | a goroutine for each webhook | clone, run, report | `CiRunner` |
| Policies, socket guard, browser, CLI, SDK clients, configuration, metrics | `internal/*`, `cmd/*`, `sdk/*` | small or none | | not modelled |

One API process serves requests concurrently. Its handlers and background
goroutines share no locks around the database: each SQL statement and each
Docker call is a step of its own, and between two of them anything else may
happen, including the end of the process. What survives it is in Postgres,
Docker, Redis and on disk.

What makes each part hard, and what makes it correct:

- **Sessions.** A creation makes a workspace, a row and a container in turn and
  may fail, be cancelled, be overtaken by a delete, the sweep or a reconciling
  start, or die anywhere. Correct means that nothing is orphaned (a container
  is always traceable to a row that will be cleaned up), that a running session
  keeps its workspace, that the audit log tells the truth, that abandoned
  sessions stop counting against the quota, and that quota overshoot is
  bounded by the creations in flight.
- **Asynchronous runs.** A 202 is a promise. It must survive crashes with
  Redis, the reaper must bring back what a dead worker held without running
  what a live one holds, a drain must leave nothing, and the callback, the row
  and the outcome must agree.
- **Audit log.** An append, a retention run and the unlocked scan interleave;
  the clock may be set back; somebody may edit the tables. An untouched log
  must verify, an edited one must never verify again whatever the program does
  later, and retention must delete only intact old entries.
- **Rows with something beside them** (snapshots, artifacts, checkpoints, files,
  templates, missions, metrics). A row and its blob, counter or archive change
  in two statements, callers overlap, and one of the two may fail. Correct
  means that a row never lacks its blob, that counters count what happened, and
  that nothing is billed twice.
- **Host state** (networks, rules, the pool, pauses, project quotas). A dozen
  calls that may each fail; nothing may run without its rules, and what was
  timed out must really have been stopped.
- **Callers** (keys, limits, tasks, gateway, MCP). What is checked is read in
  several statements and used afterwards. Correct means that no caller gets
  what it was never entitled to, that limits hold for every stretch of time,
  that a task ends once and only on an answer that was given.

## Modules

| Module | What it models |
|---|---|
| `SessionQuota`, `SessionLedger` | what counts against a quota; the abstract specification of a session: admitted, opened, closed |
| `Sessions` | the detailed lifecycle, one action per statement or Docker call |
| `RunQueue` | the queues, the execution, the callback and the process |
| `AuditChain`, `AuditExport` | the log, retention, scan and cache; the bookmark of the export |
| `SandboxRuns` | synchronous runs under three deadlines and the pauses of the workspace cap |
| `Redactor` | the output of a command, frame by frame |
| `Egress`, `HostTools` | networks and rules; pool, supervisor volume and project quotas |
| `FileList`, `Stores`, `Checkpoints` | rows and what they stand for on disk |
| `Collab`; `CollabHub` and `CollabGraph` over it | slots and connections; messages and fan-out; edges. Both extend `Collab` and interleave its actions with their own |
| `Costs`, `CostReports` | which periods are billed; what is signed, stored and reported |
| `Templates`, `Missions` | rows that many callers read, change, use and delete |
| `Access` | keys, members and the checks of a request, statement by statement |
| `Limits` | the four limiters |
| `Evidence`, `Verification` | what a pack lists; what a verdict is about |
| `McpTasks`, `TaskMemory` | tasks with the Redis store and with the store in memory |
| `McpHttp`, `GithubRuns` | the transport's windows and shutdown; a tool call of many requests |
| `Gateway`, `CiRunner` | the local gateway; the CI runner |
| `SessionsProofs`, `AuditChainProofs`, `RunQueueProofs` | theorems and their proofs about the module they extend |
| `RecordsProofs`, `CollabProofs`, `TasksProofs`, `HostProofs` | the same for the components of `MCRecords` and `MCWorkers`, a section for each |
| `WorkersProofs` | the components of `MCWorkers` side by side |
| `MCSessions`, `MCAuditChain`, `MCRunQueue`, `MCRecords`, `MCWorkers` | the instances for TLC |

Names carry the module's prefix (`CkInsert` is in `Checkpoints`), because the
last two instances put many modules side by side.

**Sessions.** `sessions`, `containers`, `workspaces` and `audit` are the
database, Docker, the disk and the log. Each creation, delete, sweep or label
update has a program counter, and its action is named after the statement or
call it makes. A crash resets the program counters and nothing else; a start
runs `ReconcileOrphans` before it serves. `Sessions` implements
`SessionLedger` under the mapping at its end (`ImplementsLedger`), so that
"charged", "stopped" and "gone" mean the same to a reader of the abstract
module as to the SQL of the concrete one.

**AuditChain.** An entry is a record of its sequence number, its time, whether
its signature matches and whom it follows: signatures are modelled by what
they establish (a changed row no longer verifies), not by their bytes. `Log`
and `Prune` are single steps because they run under one advisory lock in one
transaction. The scan is three steps (`ScanHead`, `ScanRows`, `ScanFinish`)
because it takes no lock, and so is the marking of a page (`PageRead`,
`PageHead`, `PageMark`), each of whose reads after the first may also fail.
`page` carries what the page is owed: the entries a scan would have reported
when it was read, the rows retention deleted after the head was read, and
whether an edit or a failed read excuses a mark too many. Edits to the tables are inputs (`Change`, `Erase`,
`ChangeHead`), since the log exists to show them.

**RunQueue.** `backend` is chosen once, as `REDIS_ADDR` does. `waiting` is the
channel or the part of the stream nobody has read; `pel` is Redis's
pending-entry list, `stale` its entries idle for `reaperMinIdle`, `batch` what
one `XAUTOCLAIM` gave the reaper. Each goroutine has a `phase`: a worker of
either queue and the reaper pass through the same steps of
`executeImpl`: the exec, `UpdateRun`, `GetRun`, the callback and, with Redis,
the acknowledgement. `expired` is the deadline of the context that all of
them share. The HTTP server serves until the process exits, so a request may
be accepted in any state but `down`, including after the drain.

**Rows and blobs.** `Stores`, `FileList`, `Checkpoints`, `Templates` and
`Missions` give each request a program counter and what it has read so far;
a step is one statement, one file operation or one call. Callers in `*Faulty`
(or a budget of failures) may meet an error at any of them, and take the
handler's error path: `CkInsert`, for instance, removes the archive again, also
when only the answer of the COMMIT was lost, and `CkLimits` admits a checkpoint
unchecked when it cannot read the session's organisation; `checked` says of a
row whether its total was compared. `Templates` counts uses by a
trigger, as migration 016 does.

**Collab.** A slot is an entry of the Redis set that one Lua script checks and
adds to; the row, the connection and the two pumps come after it, and each has
its way out. `CollabHub` follows a message from the check of its sender over
the row and the publication to the buffer of each connection. `CollabGraph`
counts edges in one statement and inserts in another.

**Costs, CostReports.** `Costs` is about time: instances with stale lists bill
periods that start where the last one ended, and a unique index refuses the
same start. A session's end is stamped again by every further DELETE, and what
is billed follows it. `CostReports` is about figures: a metric is signed over what the
database will return, a breakdown is three statements, and a budget belongs to
a month.

**SandboxRuns.** The command, the supervisor's deadline, the API's later one
and the watcher race in ticks; a pause freezes command and supervisor alike.
`srFrozen` remembers which commands a pause ever froze, and `srSuper` which
were started under the supervisor: an inspect that fails starts a command
without it, also in a supervised sandbox. The inspection of an exec may come
while its command runs, since a lost connection or a short write ends the
stream early, and an exit code of zero is then recorded as `completed`.

**Redactor.** The redactor is a recursive function over what is left of the
buffer. Output is a sequence of bytes and of values; a value stands where its
mark is, so that the original can be rebuilt and compared. Marks and bytes are
assumed to be told apart (`RedactorAssumption`): a command that itself prints
the text of a mark is outside the model. `rdSaid` is what the command wrote and
`rdHeard` what of it was still read: the Write that crosses the limit of one
stream returns a short count, at which the loop ends for both (`rdDemux`), as it
does when the connection breaks.

**Egress, HostTools.** A sandbox's network is set up in the order of
`CreateSandbox`; any call may fail, or be done although its answer is lost, and
the clean-up runs with failures of its own, the inspect of `StopSandbox`
included. `egSpoilt` has the sandboxes for which a call that cleans up failed
or an answer was lost. `HostTools` puts the three owners of containers outside
sessions side by side; `htLeft` has the warm containers of which a failed
clean-up, a failed `Chmod` or a lost answer left something.

**Access.** `acReq` holds a request between its statements: key, session or
organisation, role, secrets, effect. The operator's changes (revoke, purge,
delete, new members) come in between. `had` and `may` remember what the caller
was entitled to while it was under way.

**Limits.** One behaviour is of one limiter; tokens are counted in parts of a
request so that refills are exact.

**Evidence, Verification.** A run or an audit entry is its place in the listing
order, so that inserting before a page already read is an interleaving like
any other. The two lists and the walk of the workspace each stop at a cap of
their own, and each notes it in its own way. A verdict carries the observation it was judged on.

**McpTasks, TaskMemory.** With Redis every update is read, decide, compare and
set; in memory it is one step under the mutex, and what leaves the mutex (the
shallow copy of `get`, the cancel functions the sweep calls) is a step of its
own. `tmCounted` records how often a call brought a task to its end; the
metric itself, which follows without the mutex, is left out.

**McpHttp, GithubRuns, Gateway, CiRunner.** A request passes its checks in the
order of the code; every call to another service may be refused, or be applied
although its answer is lost.

**AuditExport.** Writers with and without the chain's lock, retention, and the
exporter's list, post and bookmark.

## Runs

| Run | Shows | Bounds |
|---|---|---|
| `sessions_many` | the quota's true bound; the refinement of the ledger | three sessions of one actor, quota one, two creations at a time, one crash or shutdown |
| `sessions_one` | no lost container, running sessions keep their workspace, a truthful audit log, a reconciled start, with every failure point | one session, two DELETEs, two failing calls, two crashes or shutdowns, one client call |
| `sessions_live` | every active session is stopped in the end and its workspace removed | one session, one DELETE, one failing call, two crashes |
| `sessions_inactive` (violation) | a session in use is stopped as idle | one session, one client call |
| `sessions_delete` (violation) | DELETE leaves a running container behind | one session, one DELETE |
| `audit` | the audit properties with appends, retention, a moving clock, one edit, the scan and the marking of a page | three entries, a clock of three ticks set back once, one edit, one reader at a time (`MaxReaders`) |
| `audit_alarm` (violation) | an append between the scan's two reads | |
| `queue` | the run queue's safety properties on both queues | two runs (one slow; the other with a deadline of its own, a callback and database or Redis errors), one worker and the reaper, a buffer of one, one crash or shutdown |
| `queue_live` | an accepted run is processed in the end | one run, two crashes or shutdowns |
| `queue_timeout` (violation) | a timed-out run is not recorded | |
| `records` | `Checkpoints`, `Stores`, `FileList`, `Costs`, `CostReports`, `Templates`, `Missions`, `Evidence`, `Verification`, `CollabHub`, `CollabGraph` (both over `Collab`), `AuditExport` | see below |
| `workers` | `HostTools`, `Egress`, `SandboxRuns`, `McpTasks`, `TaskMemory`, `CiRunner`, `Limits`, `Gateway`, `Access`, `McpHttp`, `GithubRuns`, `Redactor` | see below |

`records` and `workers` each hold twelve components that share no state. Since
nothing one of them does can enable, disable or change a step of another, all
their interleavings tell no more than each alone: the variable `part` chooses
the component that moves, and the others rest in their initial states. A
property of a component is checked in exactly the behaviours it has by itself.
Components that do share state are composed for real: messages and edges with
the joins of `Collab`, queued runs with the reaper and the process,
sessions with the sweep and the reconciliation.

A few properties of the runs are conjunctions of two or three related ones,
which have names of their own: `SessionsWindDown` (active sessions end;
stopped ones free their workspace), `CkStoreSound` (rows have archives; what was
compared with the limit keeps it up to the creations that overlap),
`HtHostReady` (project ids unique, pool within its size, the supervisor
installed whole), `EgRulesFollowBox` (no box without its rules, nothing left of
a box that is gone), `GwTraced` (calls recorded and
in the caller's session), `AcTenantsApart` (keys and members get only what they
were entitled to), `AccountsTruthful` and `CallsGuarded` (one property of each
of several components). `PROJECT.json` has, for each, a change of the code
that breaks it, and for the last two one in every component they speak of.

Why these bounds are enough to be interesting. With three sessions and two
creations at a time both can pass the quota test before either inserts, and a
third still has to be refused. With three audit entries a prefix can be pruned,
a boundary kept and an entry appended behind it. With two runs and a buffer of
one the channel is full, a batch of the reaper has two entries, and one of them
waits while the other executes. In the two large runs two callers (or two
connections, instances, workers) overlap, one of which may meet a failing call:

- *Checkpoints*: three ids, two kept for each session and three sizes' worth in
  an organisation, so that a third creation prunes and the two limits both bite;
  one archive that somebody changed; a session and its fork.
- *Stores, FileList*: two snapshots and artifacts of two sizes with room for one;
  two runs and two callers on one path, with a clock that tells their writes
  apart.
- *Collab*: two agents and two connections (an agent can join twice, or leave
  on one while the other is open), a limit an administrator moves between one
  and two, one failing call; one message with a buffer of one, which drops
  what it cannot take; two requests for edges under a limit of one.
- *Costs, CostReports*: two instances over a month's end; two metrics, of two
  sessions and two months, a budget and one deletion by an administrator.
- *Templates, Missions*: two callers of one template and of two missions with
  two runs, so that a move from one mission to the other and a deletion meet.
- *Evidence, Verification*: two stamps for each list and pages of one, a cap of
  one run, of two entries and of one of two files: the second page is read
  after inserts, and each of the three caps cuts. One request for a
  verdict meets its own run's changes.
- *AuditExport*: two writers, batches of two, three entries, one kept.
- *HostTools, Egress*: two sessions, three containers for a pool of two, two
  failing calls; one network with IPv4 and IPv6 rules, two stops and three
  failing calls, so that a creation, its undoing and a stop can each meet one.
- *SandboxRuns*: two runs of one session, of which one can freeze the other; one
  of them, in `SrFaulty`, has the failing calls, the short write and the client
  that leaves, the other meets what the first and the cap do to it.
- *McpTasks, TaskMemory*: one confirmed task with two clients and a sweep (every
  race is about one record; with one task the cap refuses nobody), and in memory
  three tasks and two requests for two places, so that the cap refuses one and
  the sweep ends two tasks at once.
- *Limits*: two requests, five ticks of a minute of two: the window's edge, a
  refill and a forgotten bucket all occur.
- *Gateway, Access*: two conversations and two sessions; two keys, one member,
  two changes by an administrator, before, between and after a request's
  statements.
- *McpHttp, GithubRuns*: two callers, and every window of one; two calls of two
  commands, one of which keeps its session.
- *CiRunner*: two webhooks and two commits, so that two goroutines report on the
  same one.
- *Redactor*: up to two of the six `Words` of one to three bytes over two letters
  (they contain, begin with or overlap each other or themselves, and one is too
  short to be replaced), frames of up to two, an output of five, a limit of three:
  one stream crosses its limit while the other has something left to say.

What the bounds cut off is what the proofs cover, for every safety property
that holds.

Bounds are constants and appear in guards: `MaxStops`, `MaxCrashes` (crashes
and shutdowns), `MaxEdits` (direct edits), `MaxReaders`
(scans and pages under way), `*MaxClock`, `*MaxFails`
(failing calls), `Faulty` and `*Faulty` (who may meet an error),
`MaxAckFails` (executions whose `XACK` may fail), `*MaxAdmin` (an
administrator's changes). Deadlock checking is off where the system may come to
rest: all runs processed and no stop left, all sessions gone, all requests
answered.

**Fairness.** `Sessions`: a creation or DELETE that can go on does (Docker and
SQL calls end), time passes, the cleaner's ticker fires, and a process that
went down is started again and reconciles. `RunQueue`: goroutines go on
(an execution ends at its timeout, a callback after three attempts, a drain at
`SHUTDOWN_TIMEOUT`), time passes for an unacknowledged entry, the reaper's
ticker fires, and whatever supervises the process restarts it. Nothing is
assumed of the environment's faults, and no fairness is put on a client, on
`Shutdown`, `Crash` or an error. The other modules have safety properties only:
what they wait for is a client, a peer or a configured interval, whose fairness
the code does not give.

## What is proved

All proofs are for arbitrary constants under the modules' named assumptions
(`SessionsAssumption`, `CollabAssumption` and so on): sets of names that are
finite where something is counted, natural bounds, distinct markers, at least
one worker, a clock that starts at one. No assumption speaks of behaviour.

Each proof follows the same argument. An inductive invariant `*IInv` says what
an operation that is half way through knows and what others may have done to it
since; a lemma for each action shows that it is kept; the property follows from
it. TLC has checked every one of these invariants before it was proved.

**Sessions, the log and the queue.**

- `SessionsProofs`: `TypeCorrect`, `NoLostContainer`, `WorkspaceKept`,
  `AuditIsTruthful`, `Quota` (overshoot is bounded by the creations in
  flight), `StartIsReconciled` and `Refinement` (`Spec => ImplementsLedger`).
  The inductive
  invariant `IInv` adds to the properties what operations half way know: where
  a creation is tells what its row can be (`RowInv`), a DELETE and the cleaner
  work on rows that exist and clean up only what they marked stopped
  (`DelInv`, `GcInv`), and a workspace is there while its creation needs it
  unless a DELETE has just taken it (`WsInv`). Without these the properties
  are not preserved: nothing in `ContainerTracked` says, for instance, that a
  session without a row has no creation past its insert. `StartInv` carries the
  start: while no call has failed, a session whose row names a container has it
  or is still on the list the reconciliation works through.
  The lemmas on charged sessions and their number, on finite sets, come first.
- `AuditChainProofs`: `UntouchedLogVerifies`, `EvidenceIsKept`,
  `RetentionRuns`, `PruneIsSafe`, `TypeCorrect`, `CacheIsTruthful` and
  `PageIsTruthful`. `IInv` says that
  the head covers the rows (`HeadInv`), that an unedited chain is complete, signed and
  linked from the pruned boundary up to its head (`CleanInv`), that an edited
  one under a valid head has a hole or a row that fails (`EvidenceInv`), and
  that rows are dated in order while the clock only moved forward
  (`OrderInv`). `EvidenceInv` carries `EvidenceIsKept`: retention stops at the
  first bad entry, and an append never signs a new head over it. A cached verdict
  agrees with a whole scan because what a head misses it misses for good, and a
  log never comes back to an earlier fingerprint with other rows. A page that is
  being marked is related to the log as it is by now: its rows are those of the
  log, or were pruned since, as long as nobody edited it, and a row that fails
  fails whatever else is read.
- `RunQueueProofs`: `NoAcceptedJobForgotten`, `NoDoubleWork`,
  `DrainIsComplete`, `CallbackIsTruthful`, `SettledRowsStand`, `TypeCorrect`.
  `IInv` adds that a waiting job is nowhere else and was never executed
  (`WaitingOnce`), that the reaper claims nothing a worker is busy with unless
  the run is slow (`Owners`), that each concurrent execution was counted
  (`Counted`), and what row and callback may hold before and after the first
  result is stored (`Unsettled`, `Reported`).

**Records** (`RecordsProofs`).

- `StoredRowsHaveBlobs`: a new item belongs to one request, its blob is there
  before its row, and an item whose blob is being removed has no row (`StInv`).
- `FilesAreListed`: a file is on the list or somebody who will put it there is
  under way (`FlComing`), and no file is newer than the clock that a run
  compares it with (`FlInv`).
- `TemplateUsesCounted`, `MissionRecordsAgree`: a request between two
  statements holds a row as it was read (`TeRequests`, `MiRequests`); a
  recorded run belongs to a mission that is there (`MiInv`). The runs of a
  mission are counted as a finite set.
- `BilledOnce`: the periods of a session form a chain from its creation, and
  what a sweep has still to record starts where the chain, or an earlier period
  of the same sweep, ends (`CoMetricsInv`, `CoPlanInv`). The unique index on the
  start alone does not give this: it would allow an overlap that starts elsewhere.
- `ReportsAgree`: what is signed is a fixed point of the rounding
  (`CrMetricsOK`), and each of a report's statements leaves to the next which
  sessions it has seen and what they cost at least (`CrBreakdownOK`). A sum is
  the number of its units, so that sums over sets of any size can be compared:
  two sets of metrics without a common row have disjoint units.
- `CheckpointsAreSound`: a victim that still has its row is the oldest of its
  session, whatever was added since (`CkActorOK`); no request has another's
  identity in its hands (`CkApart`); and the bytes of the requests that passed the
  limit, but have not inserted yet, count as stored (`CkTotal`), which bounds
  the overshoot of the checkpoints that were compared with the limit by one for
  each other request.
- `VerdictsBelong`, `PacksHaveNoGap`, `ExportSkipsNothing`: a verdict carries
  its observation (`VeJudgedRight`); what a page has left out has no place before
  the next page, whatever was inserted in front of it, and is older than all
  that was taken (`EvAhead`, `EvInOrder`), and a file that was there all along is
  hashed unless the walk met its cap; the bookmark stands at an entry that
  was sent, and what the batch leaves out is no older (`AxBatchInv`).
- `RecordsKeepTypes`, `AccountsAreTruthful`: the same side by side, as
  `MCRecords` composes them. A step is one of the component that moves, and
  that component keeps its own invariant (`RcIInv`).

**Collaboration** (`CollabProofs`). `SlotsAreBounded`: the script adds to the
set only below the cap, and the highest cap covers whatever is held (`ClInv`).
`GraphJoinsAgents` and `TranscriptIsOfAgents` use the lemmas on slots again: a
slot that was held stays in `clHeld`, so a check made in an earlier statement
remains true as "held at some time" although the agent may have left.

**Tasks and callers** (`TasksProofs`).

- `ToolsRunConfirmed`, `FinishedTasksStay` (Redis): a record that was over when
  it was read is as it was, or expired (`TkActorInv`), so that no compare and
  set replaces an end. `FinishedTasksStay` is an action property.
- `TaskEndsReach` (memory): an ended task was stopped, or its goroutine has left,
  or its cancel function is in the hands of the sweep or of a request (`TmInv`);
  the cap counts the tasks under way (`TmCapInv`).
- `CommandsRunInOrder`, `ConversationsAreTraced`: what a call has done at each
  place of its way (`GrPlaceInv`, `GwReqOK`). No round holds more tool calls
  than the model gave, and no conversation more rounds (`GwSized`).
- `TenantsStayApart`: each place a request has reached was granted by the
  statement before, and what its key has held since it arrived is remembered
  (`AcReqOK`); a session's owner is the key that made it (`AcRowInv`).
- `CallersAreWindowed`: no window got more than its limit in a minute, and a
  request that uses a tier has passed the global window (`MhPassedInv`).
- `CallsAreBounded`: what a bucket let through since a tick, what it holds now
  and what the holders of a forgotten bucket may still get grow no faster than
  tokens flow in (`LiPotential`); at most one bucket is forgotten and held, since
  gc only forgets what has been full for long (`LiHeldInv`); the next forgotten
  bucket is `LiIdle` ticks away (`LiForgets`). In a window the fresh stamps are
  what was let through in the last minute (`LiWindowInv`).

**The host** (`HostProofs`).

- `HostIsReady`: the pool and the goroutine that fills it share no container and
  there is room for the one it makes (`HtPoolInv`); projects are drawn once and
  limits set before the sandbox is made (`HtSessionInv`).
- `RulesFollowBox`: the rules after the first `n` commands are those of
  `EgAfter(n)`; a sandbox whose clean-ups all worked and were all answered has
  all of its rules or none (`EgBoxInv`).
- `TimeoutStopsCommand`: a command under the supervisor that no pause ever froze
  is not older than its timeout, and the API waits longer (`SrRunInv`).
- `GreenIsEarned`: while all commands passed, as many exited with zero as the
  goroutine has been through (`CiRunInv`).
- `SecretsStayHidden`: what a buffer gives is unfolded one item at a time
  (`RdStep`), and a fact about it is proved by taking a shortest buffer for
  which it fails. `RdIInv` says that no needle begins in what left, not even one that what is
  still held would continue (`RdNoneBegins`), that only needles were replaced
  (`RdMarked`), that what left and what is held is what was kept
  (`RdNothingLost`), and that this is the first `RdLimit` bytes of what was
  read (`RdLimitStep`), which is how the command's output begins. If no needle is the start of another, two buffers
  processed in turn give what one pass over both gives (`RdTwoInTurn`), so the
  cuts between frames leave no trace (`RdOnePass`).

**Side by side** (`WorkersProofs`). `WorkersKeepTypes` and `CallsAreGuarded`
state the two invariants of the `workers` run as `MCWorkers` composes them: a
step is one of the component that moves (`WkMoves`), and that component keeps
its own invariant (`WkIInv`), which is the one of its section.

Two techniques recur. A number that the code computes with `SUM` or `COUNT` is the
cardinality of a finite set, and is compared by inclusion or by a bijection; and
an induction over numbers is a minimal counterexample in `Nat`, whose order is
well founded.

Only model-checked: liveness (`SessionsWindDown` and `AcceptedIsProcessed`),
since TLAPS does not reason about `ENABLED` here. The theorems hold for every
value of the constants that the named assumptions allow; no assumption bounds
the number of callers, sessions, rows or steps.

## Where code and documents disagree

Shown by a run:

1. `ExpiryMeansInactive`: the sweep judges idleness by `sessions.updated_at`,
   which running a command does not touch, so a session in use is stopped.
2. `DeleteRemovesAll`: a DELETE that reads the row before the creation stores
   the container's id stops no container, and the creation then stores the id
   in a stopped row: the container keeps running.
3. `NoFalseAlarm`: the unlocked scan reports an untouched log as compromised.
4. `TimeoutIsRecorded`: a timed-out asynchronous run stays `pending`, because
   the context that stores its result has the same deadline; its callback
   says `timeout`.

Stated in the modules and refuted by TLC, without a run of their own. To
reproduce one, check it on its module with the constants of `MCRecords.cfg` or
`MCWorkers.cfg` (or those given), alone as the cfg's INVARIANT, or as its
PROPERTY where it is an action formula.

| Property | The text | The code |
|---|---|---|
| `CiResultPosted` | `docs/ci-runner.md:21`, `runner.go:31`: a pipeline ends with the final status | `handler.go:56` cancels the pipeline with its context, and the status is posted on it |
| `CiDrained` | `docs/ci-runner.md:169`: waits for runs in flight | `main.go:76` waits for requests, and the goroutines are not requests |
| `CiTestsCommit` | the status is of a commit | the branch is cloned, whatever it points to by then |
| `ClSlotsComeBack` | `collab_e2e_test.go:305`: slots come back | the pumps get the request's context (`handlers/collab.go:157`), which ends with the handler, and leaving with it fails |
| `HtStopRemovesAll` | `pool.go:98`: `Stop` removes all warm containers | the send at `pool.go:149` may win after the drain |
| `TkInflightCapped` | `docs/mcp.md:33`: a cap on tasks in flight | a read that fails at `tasks_redis.go:189` takes a live task out of the count |
| `TkCountedOnce` | `tasks.go:331`: metrics when a task newly ends | an attempt that lost its compare and set has set `became` all the same (`tasks.go:340`) |
| `CkAutoCheckpoint` | `main.go:353`: a checkpoint after each command | the hook scans a `TEXT[]` column into a `[]string` and fails |
| `CkStopsCommands` | `types.go:66`: stops active commands | `manager.go:264` only skips the check |
| `TeStarts` | `main.go:286`: inserting built-in templates is idempotent | two instances that start together: `templates/manager.go:562` fails for one, which exits |
| `AcNamesAreMembers` | `orgs.go:187`: a member is the name of a key | a request is known by the key's id |
| `LiPerMinute` | `ratelimit.go:98`: at most so many a minute | a full bucket and its refill exceed it (bounded, see `LiBounded`) |
| `GwSticky` | `docs/local-gateway.md:111`: a conversation has one session | two first requests make two |
| `EvRemovalNoted` | `docs/features/evidence-packs.md:22`: a removed workspace is noted | `evidence.go:109` asks for a status that was read before the files were |
| `VeTrustAnchor` | `verify.go:319`: a client's overrides are not sealed under a run | a stored verdict has the caller's observation beside the run's id, and is sealed with both |
| `MhOwnTier` | `docs/mcp.md:330`: limits use the caller's address | the tiers count by the peer's address (`http.go:506`), which is the proxy's |
| `MhDrained` | `http.go:538`: requests in flight complete | the process exits when `Serve` returns (`http.go:627`), before `Shutdown` does |
| `GrSessionGone` (`GrMaxFails = 0`) | `tools.go:1518`: the session will be deleted | a cancelled call deletes with its cancelled context |
| `GrGreen` | `tools.go:1056`: a failed run is an error | `tools.go:1549` takes a run without an exit code for a success |
| `CrBudgetUsable` (`CrReqs = {q1, q2}`, `CrSessions = {s1}`, `CrMaxMetrics = 0`) | `tracker.go:419`: a zero limit is rejected rather than stored | a limit below half a cent passes `validate`, and the column rounds it to 0.00 |
| `TmMapsGuarded` | `taskStore.mu` guards the records | `tasks.go:285` copies the record, not its maps, which `tasks_input.go:53` writes |
| `HbDeliveredOnce` | an event reaches a connection once | each connection starts a subscription of its session (`websocket.go:211`), and each delivers to all |
| `HbMapGuarded` | `Hub.mu` guards the clients | `websocket.go:255` releases the lock before it walks the map |
| `HgEdgeLimit` (`HgEdgeMax = 1`) | `graph.go:24`: an edge too many is refused | `graph.go:103` counts before it inserts |
| `RdOnlyExcessLost` | `docs/security.md:152`: excess output is truncated | the Write that crosses the limit of one stream ends the reading of both (`exec.go:243`), and what the other still writes is lost |
| `SrAlwaysSupervised` | `docs/security.md:63`: each command runs under the supervisor, which kills it at the deadline | when the inspect at `exec.go:113` fails the command runs without, and goes on under a row that says `timeout` |
| `EgNeverUnruled` | `container.go:307`: a sandbox with allowed hosts never runs without its rules | when the answer to `ContainerStart` is lost the rules go before the container (`container.go:342`), and its removal may fail |
| `CoStopStands` | `accrual.go:68`: a session is billed for as long as it ran | a DELETE of a stopped session stamps `stopped_at` again (`queries.go:106`), and the time in between is billed |
| `RdLongestWins` | `redact.go:64`, `redact_test.go:37`: the longer secret is replaced whole | a chunk that ends with the shorter one is replaced at once |
| `AxLoseNothing` | `docs/operations.md:19`: the export loses nothing | the bookmark is in memory and starts at the newest entry |

Met while reading, without a run of its own: the per-actor quota is described
as exact (`docs/configuration.md:227`) and can be exceeded by concurrent
creations (bounded, see `Quota`); the active-sessions gauge moves twice on a
second DELETE; `docs/configuration.md:111` says a stopped session's workspace
is preserved while `cleanup.go:148` removes it; a creation refused for its
labels (`sessions.go:289`) leaves its workspace; a fork "creates a running
session" (`replay.go:479`) that is never started; a clock that was set back
pauses retention for good although the scan finds nothing; a page whose
predecessors retention deletes after its head was read shows an intact entry as
invalid, "previous missing" (`chain.go:67`), as it does when that read fails; an
`UPDATE` to "running" whose answer is lost leaves a running row without its
workspace (`sessions.go:397`); the reaper's two
minutes are shorter than the longest run (`redis.go:29`), so slow runs execute
twice; `RedisQueue.Submit` accepts jobs while shutting down, against the
interface's comment (`queue.go:42`); `Len` counts every job ever submitted;
`docs/mcp.md:340` gives the heavy tier another default than `sdk/mcp/http.go:136`.

Further hazards, met at these lines and not in `PROJECT.json`'s list, which
names the forty that weigh most: a run left `pending` when its client goes away
(`internal/runner/runner.go:277`), a workspace that grows between two sweeps
(`internal/quota/quota.go:94`), a checkpoint count read outside the lock
(`internal/replay/manager.go:176`), a lost answer to a COMMIT (`:235`), a
command that starts during a restore (`:264`), the legacy entries of the log
(`internal/audit/chain.go:315`, `:397`), a file row written after its file
(`handlers/files.go:259`), a bucket forgotten while in use
(`middleware/ratelimit.go:155`), a clone that outlives its call
(`sdk/mcp/tools.go:1456`), a metric of an organisation that changed
(`internal/cost/tracker.go:238`) and a row removed after a failed upgrade
(`handlers/collab.go:290`). All of these are steps or failures the modules
contain.

## Not modelled

- *Policies*, *browser automation*, *secrets providers*, the pack check and the
  mapping to controls: functions of one request or of their input. What they
  can do to the modelled system is to refuse, or to fail, which it may anyway.
- *Docker socket guard*: a filter over single requests; its only memory, the
  exec ids it has created, is written and read by the same client in turn.
- *MCP tool adapters* of one request, *CLI*, *SDK clients* and *dashboard*:
  clients of the API that keep no state it depends on.
- *Configuration, metrics, HTTP utilities*, listings and single reads: they
  change nothing.
- *Cost alerts*, `RecordFileChange`, `BroadcastToSession`, and taking a
  container from the warm pool: no production code calls them.
- In `AuditChain`: entries from before chaining and the unsigned mode. In
  `RunQueue`: several API processes on one stream.
- Cryptographic primitives are modelled by what they establish (a changed row
  no longer verifies).

The plan from here: `RunQueue` as an implementation of an abstract
at-least-once queue, as `Sessions` is one of `SessionLedger`.
