------------------------------ MODULE Sessions ------------------------------
(***************************************************************************)
(* The life of a sandbox session in the API server: the handlers           *)
(* POST /sessions, POST /templates/:id/use, POST /checkpoints/:id/fork,    *)
(* PATCH and DELETE /sessions/:id (cmd/api/handlers), the idle sweep and   *)
(* the startup reconciliation (internal/cleanup) and the shutdown of       *)
(* cmd/api/main.go.  They share three stores that no transaction spans:    *)
(* the sessions table, the workspace directories and Docker's containers.  *)
(* Every statement, directory operation and Docker call is a step of its   *)
(* own, so handlers interleave between any two of them, each may fail, and *)
(* the process may die in between.                                         *)
(***************************************************************************)
EXTENDS SessionQuota

CONSTANTS
  Deletes,     \* DELETE requests, one element per request
  NoSession,   \* "no session" in the cleaner's record
  MaxFaults,   \* bound: database, file system and Docker calls that fail
  MaxCrashes,  \* bound: process deaths and shutdowns
  MaxCalls     \* bound: client calls on a session (labels, commands)

ASSUME SessionsAssumption ==
  /\ NoSession \notin Sessions
  /\ MaxFaults \in Nat /\ MaxCrashes \in Nat /\ MaxCalls \in Nat

VARIABLES
  row,     \* the sessions table
  ws,      \* sessions with a workspace directory
  box,     \* sessions with a container
  stuck,   \* containers Docker failed to remove at least once
  create,  \* where each creation handler is
  del,     \* where each DELETE request is, with the row it read
  gc,      \* the cleaner: sweep or reconciliation, with the rows it listed
  up,      \* the process
  gauge,   \* metrics.ActiveSessions
  log,     \* audit actions recorded for each session
  used,    \* sessions that ran a command within the idle window
  budget   \* what is left of the bounds

vars == <<row, ws, box, stuck, create, del, gc, up, gauge, log, used, budget>>

Handlers == {"new", "admitted", "ws", "row", "box", "boxfail", "wipe", "undo",
             "undows", "running", "done", "failed", "crashed"}
InFlight == Handlers \ {"new", "done", "failed", "crashed"}

Rows == [status : {"none", "created", "running", "stopped", "error"},
         stopped : BOOLEAN,   \* stopped_at IS NOT NULL
         cid : BOOLEAN,       \* container_id IS NOT NULL
         fresh : BOOLEAN]     \* updated_at is within the idle window

Requests == [pc : {"idle", "stop", "ws", "mark", "log", "done", "failed", "crashed"},
             sid : Sessions \cup {NoSession},
             cid : BOOLEAN]   \* the row that was read had a container id

Cleaners == [pc : {"off", "sweep", "mark", "clean", "log", "recon", "dirs"},
             todo : SUBSET Sessions, cids : SUBSET Sessions,
             cur : Sessions \cup {NoSession}]

Budgets == [faults : Nat, crashes : Nat, calls : Nat]

Actions == {"created", "derived", "deleted", "expired"}

TypeOK ==
  /\ row \in [Sessions -> Rows]
  /\ ws \subseteq Sessions
  /\ box \subseteq Sessions
  /\ stuck \subseteq Sessions
  /\ create \in [Sessions -> Handlers]
  /\ del \in [Deletes -> Requests]
  /\ gc \in Cleaners
  /\ up \in {"serving", "stopping", "down", "starting"}
  /\ gauge \in Int
  /\ log \in [Sessions -> SUBSET Actions]
  /\ used \subseteq Sessions
  /\ budget \in Budgets

NoRow == [status |-> "none", stopped |-> FALSE, cid |-> FALSE, fresh |-> FALSE]
Idle  == [pc |-> "off", todo |-> {}, cids |-> {}, cur |-> NoSession]

Init ==
  /\ row = [s \in Sessions |-> NoRow]
  /\ ws = {} /\ box = {} /\ stuck = {}
  /\ create = [s \in Sessions |-> "new"]
  /\ del = [d \in Deletes |-> [pc |-> "idle", sid |-> NoSession, cid |-> FALSE]]
  /\ gc = Idle
  /\ up = "serving"
  /\ gauge = 0
  /\ log = [s \in Sessions |-> {}]
  /\ used = {}
  /\ budget = [faults |-> MaxFaults, crashes |-> MaxCrashes, calls |-> MaxCalls]

----------------------------------------------------------------------------
(* The queries of internal/db. *)

Exists(s) == row[s].status # "none"
Active(s) == Exists(s) /\ ~row[s].stopped          \* counted by the quota

ListActiveSessions ==
  {s \in Sessions : row[s].status \in {"created", "running"} /\ ~row[s].stopped}

CountActiveSessionsByActor(a) == Cardinality({s \in SessionsOf(a) : Active(s)})

(* One row after an INSERT or UPDATE of it. *)
Put(s, st, stop, id, upd) ==
  row' = [row EXCEPT ![s] = [status |-> st, stopped |-> stop, cid |-> id, fresh |-> upd]]

CreateSession(s) == Put(s, "created", FALSE, FALSE, TRUE)

(* Mutant: a status the schema does not know. *)
UpdateSessionStatusUnknown(s) == Put(s, "active", row[s].stopped, TRUE, TRUE)

(* Mutant: a late start clears stopped_at. *)
UpdateSessionStatusReopens(s) == Put(s, "running", FALSE, TRUE, TRUE)

(* Unconditional: neither the status nor stopped_at is looked at. *)
UpdateSessionStatus(s) == Put(s, "running", row[s].stopped, TRUE, TRUE)

FailSession(s) == Put(s, "error", TRUE, FALSE, TRUE)

(* Mutant: stopped_at is not written. *)
StopSessionStatusOnly(s) == Put(s, "stopped", row[s].stopped, row[s].cid, TRUE)

StopSession(s) == Put(s, "stopped", TRUE, row[s].cid, TRUE)

(* Outcomes of a call that may fail. *)
NoFault == UNCHANGED budget
Fault   == budget.faults > 0 /\ budget' = [budget EXCEPT !.faults = @ - 1]

RemoveWorkspace(s) ==
  \/ ws' = ws \ {s} /\ NoFault
  \/ s \in ws /\ Fault /\ UNCHANGED ws

(* StopSandbox always returns nil: a failed stop or remove is only logged. *)
StopSandbox(s) ==
  \/ box' = box \ {s} /\ NoFault /\ UNCHANGED stuck
  \/ s \in box /\ Fault /\ stuck' = stuck \cup {s} /\ UNCHANGED box

(* The audit write is best effort. *)
LogAction(s, a) ==
  \/ log' = [log EXCEPT ![s] = @ \cup {a}] /\ NoFault
  \/ Fault /\ UNCHANGED log

Serving == up \in {"serving", "stopping"}

----------------------------------------------------------------------------
(* Creation: SessionHandler.Create, and the template and fork handlers,    *)
(* which take the same steps up to the insert and never start a container. *)

Step(s, from, to) == Serving /\ create[s] = from /\ create' = [create EXCEPT ![s] = to]

Counted == {s \in Sessions : create[s] \in {"admitted", "ws"}}

(* Mutant: the quota compares with > instead of >=. *)
CreateAdmitOffByOne(s) ==
  /\ Step(s, "new", "admitted")
  /\ Limited(Owner[s]) =>
       CountActiveSessionsByActor(Owner[s]) <= MaxSessionsPerActor
  /\ Cardinality(Counted \cap SessionsOf(Owner[s])) < Concurrency
  /\ UNCHANGED <<row, ws, box, stuck, del, gc, up, gauge, log, used, budget>>

CreateAdmit(s) ==
  /\ Step(s, "new", "admitted")
  /\ Limited(Owner[s]) =>
       CountActiveSessionsByActor(Owner[s]) < MaxSessionsPerActor
  /\ Cardinality(Counted \cap SessionsOf(Owner[s])) < Concurrency
  /\ UNCHANGED <<row, ws, box, stuck, del, gc, up, gauge, log, used, budget>>

(* Every answer before the first side effect: bad input, quota, org role. *)
CreateRefuse(s) ==
  /\ Step(s, "new", "failed")
  /\ UNCHANGED <<row, ws, box, stuck, del, gc, up, gauge, log, used, budget>>

CreateWorkspace(s) ==
  /\ Step(s, "admitted", "ws")
  /\ ws' = ws \cup {s}
  /\ UNCHANGED <<row, box, stuck, del, gc, up, gauge, log, used, budget>>

(* MkdirAll fails, or it succeeds and Chmod fails: the directory stays. *)
CreateWorkspaceFails(s) ==
  /\ Step(s, "admitted", "failed")
  /\ Fault
  /\ \E left \in BOOLEAN : ws' = IF left THEN ws \cup {s} ELSE ws
  /\ UNCHANGED <<row, box, stuck, del, gc, up, gauge, log, used>>

(* The hard quota, the snapshot or the fork's restore is refused. *)
CreateRestoreFails(s) ==
  /\ Step(s, "ws", "failed")
  /\ RemoveWorkspace(s)
  /\ UNCHANGED <<row, box, stuck, del, gc, up, gauge, log, used>>

(* validateLabels runs after the workspace was made and does not remove it. *)
CreateBadLabels(s) ==
  /\ Step(s, "ws", "failed")
  /\ UNCHANGED <<row, ws, box, stuck, del, gc, up, gauge, log, used, budget>>

CreateInsert(s) ==
  /\ Step(s, "ws", "row")
  /\ CreateSession(s)
  /\ UNCHANGED <<ws, box, stuck, del, gc, up, gauge, log, used, budget>>

(* The insert fails, or only its answer does and the row is there; the     *)
(* workspace is removed, as far as that works.                             *)
CreateInsertFails(s) ==
  /\ Step(s, "ws", "failed")
  /\ Fault
  /\ CreateSession(s) \/ UNCHANGED row
  /\ \E removed \in BOOLEAN : ws' = IF removed THEN ws \ {s} ELSE ws
  /\ UNCHANGED <<box, stuck, del, gc, up, gauge, log, used>>

(* Template and fork sessions: the row stays "created", no container, and  *)
(* the gauge is not incremented.                                           *)
CreateWithoutSandbox(s) ==
  /\ Step(s, "ws", "done")
  /\ CreateSession(s)
  /\ LogAction(s, "derived")
  /\ UNCHANGED <<ws, box, stuck, del, gc, up, gauge, used>>

(* Docker refuses a bind mount whose source directory is gone. *)
CreateSandbox(s) ==
  /\ Step(s, "row", "box")
  /\ s \in ws
  /\ box' = box \cup {s}
  /\ UNCHANGED <<row, ws, stuck, del, gc, up, gauge, log, used, budget>>

(* A failed creation; its own cleanup uses the same context and may fail. *)
CreateSandboxFails(s) ==
  /\ Step(s, "row", "boxfail")
  /\ \/ s \notin ws /\ NoFault /\ UNCHANGED <<box, stuck>>
     \/ Fault /\ UNCHANGED <<box, stuck>>
     \/ s \in ws /\ Fault /\ box' = box \cup {s} /\ stuck' = stuck \cup {s}
  /\ UNCHANGED <<row, ws, del, gc, up, gauge, log, used>>

CreateFail(s) ==
  /\ Step(s, "boxfail", "wipe")
  /\ \/ FailSession(s) /\ NoFault
     \/ Fault /\ UNCHANGED row
  /\ UNCHANGED <<ws, box, stuck, del, gc, up, gauge, log, used>>

CreateWipe(s) ==
  /\ Step(s, "wipe", "failed")
  /\ RemoveWorkspace(s)
  /\ UNCHANGED <<row, box, stuck, del, gc, up, gauge, log, used>>

CreatePersist(s) ==
  /\ Step(s, "box", "running")
  /\ UpdateSessionStatus(s)
  /\ UNCHANGED <<ws, box, stuck, del, gc, up, gauge, log, used, budget>>

(* The update runs under the request context: it may have been committed   *)
(* although its answer is an error.                                        *)
CreatePersistFails(s) ==
  /\ Step(s, "box", "undo")
  /\ Fault
  /\ UpdateSessionStatus(s) \/ UNCHANGED row
  /\ UNCHANGED <<ws, box, stuck, del, gc, up, gauge, log, used>>

(* Mutant: the container is left running when its id could not be saved. *)
CreateUndoNothing(s) ==
  /\ Step(s, "undo", "undows")
  /\ UNCHANGED <<row, ws, box, stuck, del, gc, up, gauge, log, used, budget>>

CreateUndoSandbox(s) ==
  /\ Step(s, "undo", "undows")
  /\ StopSandbox(s)
  /\ UNCHANGED <<row, ws, del, gc, up, gauge, log, used>>

CreateUndoWorkspace(s) ==
  /\ Step(s, "undows", "failed")
  /\ RemoveWorkspace(s)
  /\ UNCHANGED <<row, box, stuck, del, gc, up, gauge, log, used>>

CreateFinish(s) ==
  /\ Step(s, "running", "done")
  /\ LogAction(s, "created")
  /\ gauge' = gauge + 1
  /\ UNCHANGED <<row, ws, box, stuck, del, gc, up, used>>

Create(s) ==
  \/ CreateAdmit(s)       \/ CreateRefuse(s)       \/ CreateWorkspace(s)
  \/ CreateWorkspaceFails(s) \/ CreateRestoreFails(s) \/ CreateBadLabels(s)
  \/ CreateInsert(s)      \/ CreateInsertFails(s)  \/ CreateWithoutSandbox(s)
  \/ CreateSandbox(s)     \/ CreateSandboxFails(s) \/ CreateFail(s)
  \/ CreateWipe(s)        \/ CreatePersist(s)      \/ CreatePersistFails(s)
  \/ CreateUndoSandbox(s) \/ CreateUndoWorkspace(s) \/ CreateFinish(s)

----------------------------------------------------------------------------
(* DELETE /sessions/:id.  It works from the row it read first and accepts  *)
(* a session in any state, also one that is already stopped.               *)

DeleteAt(d, from, to) ==
  Serving /\ del[d].pc = from /\ del' = [del EXCEPT ![d].pc = to]

DeleteBegin(d, s) ==
  /\ Serving
  /\ del[d].pc = "idle"
  /\ Exists(s)
  /\ del' = [del EXCEPT ![d] = [pc |-> "stop", sid |-> s, cid |-> row[s].cid]]
  /\ UNCHANGED <<row, ws, box, stuck, create, gc, up, gauge, log, used, budget>>

DeleteStop(d) ==
  /\ DeleteAt(d, "stop", "ws")
  /\ IF del[d].cid THEN StopSandbox(del[d].sid) ELSE NoFault /\ UNCHANGED <<box, stuck>>
  /\ UNCHANGED <<row, ws, create, gc, up, gauge, log, used>>

DeleteWorkspace(d) ==
  /\ DeleteAt(d, "ws", "mark")
  /\ RemoveWorkspace(del[d].sid)
  /\ UNCHANGED <<row, box, stuck, create, gc, up, gauge, log, used>>

DeleteMark(d) ==
  /\ DeleteAt(d, "mark", "log")
  /\ StopSession(del[d].sid)
  /\ UNCHANGED <<ws, box, stuck, create, gc, up, gauge, log, used, budget>>

(* Mutant: the failed update is logged and the handler goes on. *)
DeleteMarkFailureIgnored(d) ==
  /\ DeleteAt(d, "mark", "log")
  /\ Fault
  /\ UNCHANGED <<row, ws, box, stuck, create, gc, up, gauge, log, used>>

(* 500 "failed to stop session", whether or not the row was written: no    *)
(* audit entry, the gauge is left alone.                                   *)
DeleteMarkFails(d) ==
  /\ DeleteAt(d, "mark", "failed")
  /\ Fault
  /\ StopSession(del[d].sid) \/ UNCHANGED row
  /\ UNCHANGED <<ws, box, stuck, create, gc, up, gauge, log, used>>

DeleteFinish(d) ==
  /\ DeleteAt(d, "log", "done")
  /\ LogAction(del[d].sid, "deleted")
  /\ gauge' = gauge - 1
  /\ UNCHANGED <<row, ws, box, stuck, create, gc, up, used>>

Delete(d) ==
  \/ \E s \in Sessions : DeleteBegin(d, s)
  \/ DeleteStop(d) \/ DeleteWorkspace(d) \/ DeleteMark(d)
  \/ DeleteMarkFails(d) \/ DeleteFinish(d)

----------------------------------------------------------------------------
(* The idle sweep.  It acts on the rows of one listing. *)

SweepList ==
  /\ Serving
  /\ gc.pc = "off"
  /\ \E s \in ListActiveSessions : ~row[s].fresh
  /\ gc' = [pc |-> "sweep",
            todo |-> {s \in ListActiveSessions : ~row[s].fresh},
            cids |-> {s \in ListActiveSessions : row[s].cid},
            cur |-> NoSession]
  /\ UNCHANGED <<row, ws, box, stuck, create, del, up, gauge, log, used, budget>>

(* Mutant: the workspace is removed before the row is marked. *)
SweepStopWipesFirst(s) ==
  /\ Serving
  /\ gc.pc = "sweep"
  /\ s \in gc.todo
  /\ IF s \in gc.cids THEN StopSandbox(s) ELSE NoFault /\ UNCHANGED <<box, stuck>>
  /\ ws' = ws \ {s}
  /\ gc' = [gc EXCEPT !.pc = "mark", !.todo = @ \ {s}, !.cur = s]
  /\ UNCHANGED <<row, create, del, up, gauge, log, used>>

SweepStop(s) ==
  /\ Serving
  /\ gc.pc = "sweep"
  /\ s \in gc.todo
  /\ IF s \in gc.cids THEN StopSandbox(s) ELSE NoFault /\ UNCHANGED <<box, stuck>>
  /\ gc' = [gc EXCEPT !.pc = "mark", !.todo = @ \ {s}, !.cur = s]
  /\ UNCHANGED <<row, ws, create, del, up, gauge, log, used>>

(* The next session of the list, or the end of the loop. *)
GcNext ==
  gc' = CASE up = "starting" -> [gc EXCEPT !.pc = "recon", !.cur = NoSession]
          [] up # "starting" /\ gc.todo # {} -> [gc EXCEPT !.pc = "sweep", !.cur = NoSession]
          [] OTHER -> Idle

SweepMark ==
  /\ Serving
  /\ gc.pc = "mark"
  /\ StopSession(gc.cur)
  /\ gauge' = gauge - 1
  /\ gc' = [gc EXCEPT !.pc = "clean"]
  /\ UNCHANGED <<ws, box, stuck, create, del, up, log, used, budget>>

SweepMarkFails ==
  /\ Serving
  /\ gc.pc = "mark"
  /\ Fault
  /\ StopSession(gc.cur) \/ UNCHANGED row
  /\ GcNext
  /\ UNCHANGED <<ws, box, stuck, create, del, up, gauge, log, used>>

(* Shared by stopSession and ReconcileOrphans: workspace, then audit. *)
GcClean ==
  /\ gc.pc = "clean"
  /\ RemoveWorkspace(gc.cur)
  /\ gc' = [gc EXCEPT !.pc = "log"]
  /\ UNCHANGED <<row, box, stuck, create, del, up, gauge, log, used>>

GcLog ==
  /\ gc.pc = "log"
  /\ LogAction(gc.cur, "expired")
  /\ GcNext
  /\ UNCHANGED <<row, ws, box, stuck, create, del, up, gauge, used>>

Sweep ==
  \/ SweepList \/ SweepMark \/ SweepMarkFails \/ GcClean \/ GcLog
  \/ \E s \in Sessions : SweepStop(s)

----------------------------------------------------------------------------
(* Process death, shutdown and start. *)

(* With STOP_CONTAINERS_ON_SHUTDOWN; requests go on until srv.Shutdown. *)
Shutdown ==
  /\ up = "serving"
  /\ budget.crashes > 0
  /\ budget' = [budget EXCEPT !.crashes = @ - 1]
  /\ up' = "stopping"
  /\ box' = box \ {s \in ListActiveSessions : row[s].cid}
  /\ UNCHANGED <<row, ws, stuck, create, del, gc, gauge, log, used>>

(* The process ends, at the end of a shutdown or anywhere. *)
Crash ==
  /\ up # "down"
  /\ \/ up = "stopping" /\ UNCHANGED budget
     \/ /\ up # "stopping" /\ budget.crashes > 0
        /\ budget' = [budget EXCEPT !.crashes = @ - 1]
  /\ up' = "down"
  /\ create' = [s \in Sessions |-> IF create[s] \in InFlight THEN "crashed" ELSE create[s]]
  /\ del' = [d \in Deletes |->
               IF del[d].pc \in {"stop", "ws", "mark", "log"}
               THEN [del[d] EXCEPT !.pc = "crashed"] ELSE del[d]]
  /\ gc' = Idle
  /\ gauge' = 0
  /\ UNCHANGED <<row, ws, box, stuck, log, used>>

(* ReconcileOrphans runs before the server listens. *)
Restart ==
  /\ up = "down"
  /\ up' = "starting"
  /\ gc' = [Idle EXCEPT !.pc = "recon",
                        !.todo = {s \in ListActiveSessions : row[s].cid}]
  /\ UNCHANGED <<row, ws, box, stuck, create, del, gauge, log, used, budget>>

(* The listing fails: the reconciliation is skipped. *)
RestartUnreconciled ==
  /\ up = "down"
  /\ Fault
  /\ up' = "serving"
  /\ UNCHANGED <<row, ws, box, stuck, create, del, gc, gauge, log, used>>

(* The container is there, or Docker could not tell. *)
ReconcileKeep(s) ==
  /\ gc.pc = "recon" /\ s \in gc.todo
  /\ \/ s \in box /\ NoFault
     \/ Fault
  /\ gc' = [gc EXCEPT !.todo = @ \ {s}]
  /\ UNCHANGED <<row, ws, box, stuck, create, del, up, gauge, log, used>>

ReconcileClose(s) ==
  /\ gc.pc = "recon" /\ s \in gc.todo
  /\ s \notin box
  /\ StopSession(s)
  /\ gauge' = gauge - 1
  /\ gc' = [gc EXCEPT !.pc = "clean", !.todo = @ \ {s}, !.cur = s]
  /\ UNCHANGED <<ws, box, stuck, create, del, up, log, used, budget>>

(* The update fails, or its answer does: nothing else is cleaned. *)
ReconcileCloseFails(s) ==
  /\ gc.pc = "recon" /\ s \in gc.todo
  /\ s \notin box
  /\ Fault
  /\ StopSession(s) \/ UNCHANGED row
  /\ gc' = [gc EXCEPT !.todo = @ \ {s}]
  /\ UNCHANGED <<ws, box, stuck, create, del, up, gauge, log, used>>

(* Mutant: leftover directories are not looked at. *)
ReconcileDirsSkipped ==
  /\ gc.pc = "recon" /\ gc.todo = {}
  /\ gc' = [gc EXCEPT !.pc = "dirs"]
  /\ UNCHANGED <<row, ws, box, stuck, create, del, up, gauge, log, used, budget>>

(* removeStoppedWorkspaces: the directories of stopped sessions go, the    *)
(* ones without a row stay.                                                *)
ReconcileDirs ==
  /\ gc.pc = "recon" /\ gc.todo = {}
  /\ gc' = [gc EXCEPT !.pc = "dirs", !.todo = ws]
  /\ UNCHANGED <<row, ws, box, stuck, create, del, up, gauge, log, used, budget>>

ReconcileDir(s) ==
  /\ gc.pc = "dirs" /\ s \in gc.todo
  /\ IF Exists(s) /\ row[s].stopped THEN RemoveWorkspace(s) ELSE NoFault /\ UNCHANGED ws
  /\ gc' = [gc EXCEPT !.todo = @ \ {s}]
  /\ UNCHANGED <<row, box, stuck, create, del, up, gauge, log, used>>

StartServing ==
  /\ gc.pc = "dirs" /\ gc.todo = {}
  /\ gc' = Idle
  /\ up' = "serving"
  /\ UNCHANGED <<row, ws, box, stuck, create, del, gauge, log, used, budget>>

Reconcile ==
  \/ Restart \/ RestartUnreconciled \/ ReconcileDirs \/ StartServing
  \/ \E s \in Sessions : \/ ReconcileKeep(s)       \/ ReconcileClose(s)
                         \/ ReconcileCloseFails(s) \/ ReconcileDir(s)

----------------------------------------------------------------------------
(* Clients, time and the operator. *)

Call == budget.calls > 0 /\ budget' = [budget EXCEPT !.calls = @ - 1]

(* PATCH /sessions/:id/labels refreshes updated_at. *)
UpdateLabels(s) ==
  /\ Serving /\ Exists(s)
  /\ Call
  /\ Put(s, row[s].status, row[s].stopped, row[s].cid, TRUE)
  /\ UNCHANGED <<ws, box, stuck, create, del, gc, up, gauge, log, used>>

(* A command runs in the session; no query touches the sessions row. *)
RunCommand(s) ==
  /\ Serving
  /\ row[s].status = "running" /\ ~row[s].stopped
  /\ Call
  /\ used' = used \cup {s}
  /\ UNCHANGED <<row, ws, box, stuck, create, del, gc, up, gauge, log>>

(* The idle timeout passes since the last write to the row, since the last *)
(* command.                                                                *)
Age(s) ==
  /\ row[s].fresh
  /\ Put(s, row[s].status, row[s].stopped, row[s].cid, FALSE)
  /\ UNCHANGED <<ws, box, stuck, create, del, gc, up, gauge, log, used, budget>>

AgeUse(s) ==
  /\ s \in used
  /\ used' = used \ {s}
  /\ UNCHANGED <<row, ws, box, stuck, create, del, gc, up, gauge, log, budget>>

(* docker rm, make down. *)
ContainerVanishes(s) ==
  /\ s \in box
  /\ Fault
  /\ box' = box \ {s}
  /\ UNCHANGED <<row, ws, stuck, create, del, gc, up, gauge, log, used>>

Environment ==
  \E s \in Sessions :
    UpdateLabels(s) \/ RunCommand(s) \/ Age(s) \/ AgeUse(s) \/ ContainerVanishes(s)

Next ==
  \/ \E s \in Sessions : Create(s)
  \/ \E d \in Deletes : Delete(d)
  \/ Sweep \/ Reconcile \/ Shutdown \/ Crash \/ Environment

Spec == Init /\ [][Next]_vars

(* The process and its goroutines keep running; time passes.  A handler    *)
(* that has started runs to an answer, the cleaner's ticker fires, a dead  *)
(* process is started again.                                               *)
CreateProceeds(s) == create[s] # "new" /\ Create(s)

Fairness ==
  /\ \A s \in Sessions : WF_vars(CreateProceeds(s)) /\ WF_vars(Age(s))
  /\ \A d \in Deletes : WF_vars(DeleteStop(d) \/ DeleteWorkspace(d)
                                \/ DeleteMark(d) \/ DeleteFinish(d))
  /\ WF_vars(Sweep)
  /\ WF_vars(Reconcile)

FairSpec == Spec /\ Fairness

----------------------------------------------------------------------------
(* What holds. *)

(* The handlers, the cleaner and crashes together implement the ledger:    *)
(* only the count-then-insert of the three create handlers opens a session *)
(* and nothing ever reopens a stopped one.                                 *)
Ledger == INSTANCE SessionLedger WITH
            pending <- Counted,
            open    <- {s \in Sessions : Active(s)},
            closed  <- {s \in Sessions : Exists(s) /\ row[s].stopped}

ImplementsLedger == Ledger!Spec

(* The per-actor quota with its true bound (see SessionLedger). *)
QuotaOvershootBounded == Ledger!QuotaOvershootBounded

(* A container is never out of everyone's reach (Create's H-3 comment): its *)
(* id is in the row or in the hands of the handler that started it, unless  *)
(* Docker refused to remove it or the process died in that very creation.   *)
ContainerTracked ==
  \A s \in box :
    \/ row[s].cid
    \/ create[s] \in {"box", "undo", "crashed"}
    \/ s \in stuck

(* A session offered as running has its workspace, with two exceptions     *)
(* that need a failure or a handler still at work: a DELETE of it removed  *)
(* the directory and has not marked the row, or could not; or its creation *)
(* answered an error (the update that sets "running" was committed and its *)
(* answer lost, and Create then removes the workspace under the running    *)
(* row).  The sweep and the reconciliation mark first and remove after, so *)
(* whatever they race with or wherever they die adds no exception.         *)
RunningHasWorkspace ==
  \A s \in Sessions :
    row[s].status = "running" /\ ~row[s].stopped =>
      \/ s \in ws
      \/ create[s] = "failed"
      \/ \E d \in Deletes : del[d].sid = s /\ del[d].pc \in {"mark", "failed", "crashed"}

(* The audit trail is truthful: an entry that says a session ended is only *)
(* written once its row is stopped, and "created" only for a row that      *)
(* names its container, whoever races with the creation.                   *)
AuditTruthful ==
  \A s \in Sessions :
    /\ log[s] \cap {"deleted", "expired"} # {} => row[s].stopped
    /\ "created" \in log[s] => row[s].cid

(* When the server starts to listen after a crash or a shutdown, and no    *)
(* call failed, every active session has its container and no stopped      *)
(* session has a directory left (ReconcileOrphans).                        *)
StartsReconciled ==
  [][StartServing /\ budget.faults = MaxFaults =>
       /\ \A s \in ListActiveSessions : row[s].cid => s \in box
       /\ \A s \in ws : ~row[s].stopped]_vars

(* Every session a client leaves alone stops counting against the quota,   *)
(* whatever failed, raced or crashed before: the sweep gets to it.         *)
IdleSessionsExpire == \A s \in Sessions : Active(s) ~> ~Active(s)

(* The workspace of a stopped session is removed, also when the process    *)
(* dies between marking and removing, unless some call failed.             *)
StoppedSessionsFreeWorkspace ==
  \A s \in Sessions : row[s].stopped ~> (s \notin ws \/ budget.faults < MaxFaults)

(* Both together: no session and no workspace is kept for ever.            *)
SessionsWindDown == IdleSessionsExpire /\ StoppedSessionsFreeWorkspace

----------------------------------------------------------------------------
(* What the documentation says and the code does not do. *)

(* docs/configuration.md: an idle session's container is stopped after     *)
(* "Minutes of inactivity".                                                *)
ExpiryMeansInactive == [][\A s \in Sessions : SweepStop(s) => s \notin used]_vars

(* README.md: DELETE /sessions/:id deletes "session + container +          *)
(* workspace"; judged once the creation has answered too.                  *)
DeleteRemovesAll ==
  \A s \in Sessions :
    "deleted" \in log[s] /\ create[s] \in {"done", "failed"} => s \notin box \cup ws
=============================================================================
