------------------------------ MODULE SandboxRuns ------------------------------
(***************************************************************************)
(* Runs in one sandbox whose caller waits: Execute and Stream               *)
(* (cmd/api/handlers/runs.go, internal/runner), the exec with its two       *)
(* deadlines (internal/docker/exec.go), the supervisor inside the sandbox   *)
(* (internal/supervise), and the workspace cap, whose watcher pauses the    *)
(* container (internal/quota).  Queued runs are in RunQueue, the files a    *)
(* run leaves in FileList.  Secrets, policy and output are left out.        *)
(*                                                                         *)
(* Time passes in ticks.  A supervisor that is not frozen acts at its       *)
(* deadline: no tick goes by before it has.  Any call to Docker, the        *)
(* database or the file system that a request in SrFaulty makes may fail.   *)
(***************************************************************************)
EXTENDS Naturals

CONSTANTS
  SrRuns,     \* requests
  SrTimeout,  \* timeout_seconds, in ticks
  SrGrace,    \* how much longer the API waits for a supervised command
  SrFaulty    \* bound: requests with a failing call, a short write or a client that leaves

ASSUME SandboxRunsAssumption ==
  /\ SrTimeout \in Nat \ {0} /\ SrGrace \in Nat \ {0} /\ SrFaulty \subseteq SrRuns

VARIABLES
  srBox,    \* the container: none, plain, supervised, removed
  srPaused,
  srOver,   \* the workspace is over MAX_WORKSPACE_MB
  srSweep,  \* the watcher: idle, or has measured the workspace over the cap
  srAt,     \* what each request does next
  srLeft,   \* requests whose client went away: their context is cancelled
  srRow,    \* the status in the run's row
  srCmd,    \* the command in the sandbox
  srAge,    \* ticks since it was started
  srFrozen, \* commands that a pause ever froze
  srSuper   \* commands that were started under the supervisor

srVars == <<srBox, srPaused, srOver, srSweep, srAt, srLeft, srRow, srCmd, srAge, srFrozen, srSuper>>

SrBoxes == {"none", "plain", "supervised", "removed"}
SrSteps == {"none", "size", "over", "under", "resume", "prepare", "exec", "wait",
            "completed", "failed", "timeout", "ended"}
SrRows == {"none", "pending", "completed", "failed", "timeout"}
SrCommands == {"none", "running", "exit 0", "exit 1", "exit 124", "died"}

SrTypeOK ==
  /\ srBox \in SrBoxes /\ srPaused \in BOOLEAN /\ srOver \in BOOLEAN
  /\ srSweep \in {"idle", "over"} /\ srLeft \subseteq SrRuns /\ srFrozen \subseteq SrRuns
  /\ srSuper \subseteq SrRuns
  /\ srAt \in [SrRuns -> SrSteps] /\ srRow \in [SrRuns -> SrRows]
  /\ srCmd \in [SrRuns -> SrCommands] /\ srAge \in [SrRuns -> 0..(SrTimeout + SrGrace)]

SrInit ==
  /\ srBox = "none" /\ srPaused = FALSE /\ srOver = FALSE /\ srSweep = "idle"
  /\ srAt = [r \in SrRuns |-> "none"] /\ srRow = [r \in SrRuns |-> "none"]
  /\ srCmd = [r \in SrRuns |-> "none"] /\ srAge = [r \in SrRuns |-> 0]
  /\ srLeft = {} /\ srFrozen = {} /\ srSuper = {}

SrMove(r, step) == srAt' = [srAt EXCEPT ![r] = step]
SrUp == srBox \in {"plain", "supervised"}
SrRunning == {r \in SrRuns : srCmd[r] = "running"}

-----------------------------------------------------------------------------
(* The sandbox and its session. *)

\* Without a supervisor installed, or created before there was one: plain.
SrSandbox ==
  /\ srBox = "none" /\ srBox' \in {"plain", "supervised"}
  /\ UNCHANGED <<srPaused, srOver, srSweep, srAt, srLeft, srRow, srCmd, srAge, srFrozen, srSuper>>

\* StopSandbox ends every process.
SrRemove ==
  /\ SrUp /\ srBox' = "removed" /\ srPaused' = FALSE
  /\ srCmd' = [r \in SrRuns |-> IF r \in SrRunning THEN "died" ELSE srCmd[r]]
  /\ UNCHANGED <<srOver, srSweep, srAt, srLeft, srRow, srAge, srFrozen, srSuper>>

\* A command writes the workspace past its cap, or exits.
SrCommandFills ==
  /\ SrRunning # {} /\ ~srPaused /\ ~srOver /\ srOver' = TRUE
  /\ UNCHANGED <<srBox, srPaused, srSweep, srAt, srLeft, srRow, srCmd, srAge, srFrozen, srSuper>>

SrCommandEnds(r) ==
  /\ r \in SrRunning /\ ~srPaused
  /\ \E code \in {"exit 0", "exit 1"} : srCmd' = [srCmd EXCEPT ![r] = code]
  /\ UNCHANGED <<srBox, srPaused, srOver, srSweep, srAt, srLeft, srRow, srAge, srFrozen, srSuper>>

\* supervise.Main: at the deadline the process group is killed.
SrSupervisorKills(r) ==
  /\ r \in SrRunning \cap srSuper /\ ~srPaused /\ srAge[r] >= SrTimeout
  /\ srCmd' = [srCmd EXCEPT ![r] = "exit 124"]
  /\ UNCHANGED <<srBox, srPaused, srOver, srSweep, srAt, srLeft, srRow, srAge, srFrozen, srSuper>>

\* The user deletes files through the API.
SrDeleteFiles ==
  /\ SrUp /\ srOver /\ srOver' = FALSE
  /\ UNCHANGED <<srBox, srPaused, srSweep, srAt, srLeft, srRow, srCmd, srAge, srFrozen, srSuper>>

SrTimed == {r \in SrRuns : srAge[r] < SrTimeout + SrGrace /\ (srAt[r] = "wait" \/ r \in SrRunning)}

SrTick ==
  /\ SrTimed # {}
  /\ \A r \in SrRunning \cap srSuper : ~srPaused => srAge[r] < SrTimeout
  /\ srAge' = [r \in SrRuns |-> IF r \in SrTimed THEN srAge[r] + 1 ELSE srAge[r]]
  /\ UNCHANGED <<srBox, srPaused, srOver, srSweep, srAt, srLeft, srRow, srCmd, srFrozen, srSuper>>

-----------------------------------------------------------------------------
(* The workspace cap (internal/quota). *)

\* Enforcer.pause.
SrPause ==
  /\ srPaused' = TRUE /\ srFrozen' = srFrozen \cup SrRunning

\* Enforcer.sweep: the size is measured, then the state is read and changed.
SrSweepMeasures ==
  /\ SrUp /\ srSweep = "idle" /\ srOver /\ srSweep' = "over"
  /\ UNCHANGED <<srBox, srPaused, srOver, srAt, srLeft, srRow, srCmd, srAge, srFrozen, srSuper>>

SrSweepPauses ==
  /\ srSweep = "over" /\ srSweep' = "idle"
  /\ \/ SrUp /\ ~srPaused /\ SrPause
     \/ UNCHANGED <<srPaused, srFrozen>>
  /\ UNCHANGED <<srBox, srOver, srAt, srLeft, srRow, srCmd, srAge, srSuper>>

\* Enforcer.Admit: the size; an error admits.
SrAdmitMeasures(r) ==
  /\ srAt[r] = "size"
  /\ \/ SrMove(r, IF srOver THEN "over" ELSE "under")
     \/ r \in SrFaulty /\ SrMove(r, "prepare")
  /\ UNCHANGED <<srBox, srPaused, srOver, srSweep, srLeft, srRow, srCmd, srAge, srFrozen, srSuper>>

\* Over the cap: refused in any case, and paused if it is not, unless that fails.
SrRefuse(r) ==
  /\ srAt[r] = "over" /\ SrMove(r, "ended")
  /\ \/ SrUp /\ ~srPaused /\ SrPause
     \/ (~SrUp \/ srPaused \/ r \in SrFaulty) /\ UNCHANGED <<srPaused, srFrozen>>
  /\ UNCHANGED <<srBox, srOver, srSweep, srLeft, srRow, srCmd, srAge, srSuper>>

\* Under it: resumed if it is seen paused; an inspect that fails sees nothing.
SrAdmitInspects(r) ==
  /\ srAt[r] = "under"
  /\ \/ srPaused /\ r \notin srLeft /\ SrMove(r, "resume")
     \/ (~srPaused \/ r \in SrFaulty) /\ SrMove(r, "prepare")
  /\ UNCHANGED <<srBox, srPaused, srOver, srSweep, srLeft, srRow, srCmd, srAge, srFrozen, srSuper>>

\* ContainerUnpause; its answer may be lost.
SrResume(r) ==
  /\ srAt[r] = "resume"
  /\ \/ /\ SrUp /\ srPaused /\ srPaused' = FALSE
        /\ \/ r \notin srLeft /\ SrMove(r, "prepare")
           \/ r \in SrFaulty /\ SrMove(r, "ended")
     \/ (~srPaused \/ r \in SrFaulty) /\ SrMove(r, "ended") /\ UNCHANGED srPaused
  /\ UNCHANGED <<srBox, srOver, srSweep, srLeft, srRow, srCmd, srAge, srFrozen, srSuper>>

-----------------------------------------------------------------------------
(* A run. *)

\* Execute and Stream begin alike: session looked up, found running.
SrRequest(r) ==
  /\ srAt[r] = "none" /\ SrUp /\ SrMove(r, "size")
  /\ UNCHANGED <<srBox, srPaused, srOver, srSweep, srLeft, srRow, srCmd, srAge, srFrozen, srSuper>>

SrClientLeaves(r) ==
  /\ r \in SrFaulty \ srLeft /\ srAt[r] \notin {"none", "ended"} /\ srLeft' = srLeft \cup {r}
  /\ UNCHANGED <<srBox, srPaused, srOver, srSweep, srAt, srRow, srCmd, srAge, srFrozen, srSuper>>

\* prepareRun; the row may be there although the answer is lost.
SrPrepare(r) ==
  /\ srAt[r] = "prepare"
  /\ \/ /\ srRow' = [srRow EXCEPT ![r] = "pending"]
        /\ \/ r \notin srLeft /\ SrMove(r, "exec")
           \/ r \in SrFaulty /\ SrMove(r, "ended")
     \/ r \in SrFaulty /\ SrMove(r, "ended") /\ UNCHANGED srRow
  /\ UNCHANGED <<srBox, srPaused, srOver, srSweep, srLeft, srCmd, srAge, srFrozen, srSuper>>

\* ContainerInspect, ExecCreate and Attach.  An inspect that fails finds no
\* supervisor, Docker refuses a paused container, and a command may be running
\* whose attach has failed.
SrExec(r) ==
  /\ srAt[r] = "exec"
  /\ \/ /\ SrUp /\ ~srPaused /\ srCmd' = [srCmd EXCEPT ![r] = "running"]
        /\ \/ srBox = "supervised" /\ srSuper' = srSuper \cup {r}
           \/ (srBox = "plain" \/ r \in SrFaulty) /\ UNCHANGED srSuper
        /\ \/ r \notin srLeft /\ SrMove(r, "wait")
           \/ r \in SrFaulty /\ SrMove(r, "failed")
     \/ /\ ~SrUp \/ srPaused \/ r \in SrFaulty
        /\ SrMove(r, "failed") /\ UNCHANGED <<srCmd, srSuper>>
  /\ UNCHANGED <<srBox, srPaused, srOver, srSweep, srLeft, srRow, srAge, srFrozen>>

\* A mutant: the API waits no longer than the supervisor.
SrWaitForNoGrace(r) == SrTimeout

\* waitFor.
SrWaitFor(r) == IF r \in srSuper THEN SrTimeout + SrGrace ELSE SrTimeout

\* The API stops waiting: at its own deadline, or when the client has left.
SrGivesUp(r) ==
  /\ srAt[r] = "wait" /\ (srAge[r] >= SrWaitFor(r) \/ r \in srLeft)
  /\ SrMove(r, "timeout")
  /\ UNCHANGED <<srBox, srPaused, srOver, srSweep, srLeft, srRow, srCmd, srAge, srFrozen, srSuper>>

\* resolveStatus of what ContainerExecInspect says: of a command that runs, an
\* exit code 0; 124 before the deadline is the command's own.
SrStatus(r) ==
  CASE srCmd[r] \in {"exit 0", "running"} -> "completed"
    [] srCmd[r] = "exit 124" /\ r \in srSuper /\ srAge[r] >= SrTimeout -> "timeout"
    [] OTHER -> "failed"

\* The stream has ended, which the connection and a writer that takes less than
\* a frame also bring about, and the exec is inspected.
SrInspects(r) ==
  /\ srAt[r] = "wait"
  /\ r \notin SrRunning \/ r \in SrFaulty
  /\ \/ srBox # "removed" /\ r \notin srLeft /\ SrMove(r, SrStatus(r))
     \/ (srBox = "removed" \/ r \in SrFaulty) /\ SrMove(r, "failed")
  /\ UNCHANGED <<srBox, srPaused, srOver, srSweep, srLeft, srRow, srCmd, srAge, srFrozen, srSuper>>

\* UpdateRun, under the context of the request; its error is logged.
SrFinish(r) ==
  /\ srAt[r] \in {"completed", "failed", "timeout"} /\ SrMove(r, "ended")
  /\ \/ r \notin srLeft /\ srRow' = [srRow EXCEPT ![r] = srAt[r]]
     \/ r \in SrFaulty /\ UNCHANGED srRow
  /\ UNCHANGED <<srBox, srPaused, srOver, srSweep, srLeft, srCmd, srAge, srFrozen, srSuper>>

SrNext ==
  \/ SrSandbox \/ SrRemove \/ SrCommandFills \/ SrDeleteFiles \/ SrTick
  \/ SrSweepMeasures \/ SrSweepPauses
  \/ \E r \in SrRuns :
       \/ SrRequest(r) \/ SrClientLeaves(r) \/ SrAdmitMeasures(r) \/ SrRefuse(r)
       \/ SrAdmitInspects(r) \/ SrResume(r) \/ SrPrepare(r) \/ SrExec(r) \/ SrGivesUp(r)
       \/ SrInspects(r) \/ SrFinish(r) \/ SrCommandEnds(r) \/ SrSupervisorKills(r)

SrSpec == SrInit /\ [][SrNext]_srVars

-----------------------------------------------------------------------------
(* Properties. *)

\* docs/security.md:63 "at the deadline the supervisor kills that group.  The
\* run is recorded as `timeout`": a command that was started under the supervisor
\* and whose row says timeout has been stopped, unless the cap had frozen it
\* meanwhile.
SrTimeoutStops ==
  \A r \in SrRuns :
    srRow[r] = "timeout" /\ r \in srSuper => srCmd[r] # "running" \/ r \in srFrozen

\* Refuted by the code: "each command runs under it" (docs/security.md:63).  An
\* inspect that fails starts a command without the supervisor, in a sandbox that
\* has one, and such a command runs on with a row that says timeout
\* (exec.go:113-128).
SrAlwaysSupervised ==
  \A r \in SrRuns :
    srRow[r] = "timeout" /\ srBox = "supervised" => srCmd[r] # "running" \/ r \in srFrozen
=============================================================================
