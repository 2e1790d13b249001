------------------------------ MODULE HostTools ------------------------------
(***************************************************************************)
(* The containers the API makes beside a session's own: the warm pool      *)
(* (internal/warmpool), the run supervisor that is installed once into a   *)
(* volume (internal/docker/supervisor.go), and the privileged tool that    *)
(* gives a new workspace its XFS project quota (internal/quota/xfs.go,     *)
(* internal/xfsquota; WORKSPACE_QUOTA=xfs, no socket guard).  No session   *)
(* acquires a warm container: creation always starts one of its own.       *)
(***************************************************************************)
EXTENDS Naturals, FiniteSets

CONSTANTS
  HtSessions, \* sessions that may be created
  HtBoxes,    \* bound: warm containers that can ever be made
  HtSize,     \* WARM_POOL_SIZE
  HtMaxFails  \* bound: failures of Docker calls

ASSUME HostToolsAssumption ==
  /\ HtSize \in Nat \ {0} /\ HtMaxFails \in Nat
  /\ IsFiniteSet(HtBoxes) /\ "none" \notin HtBoxes /\ "pool" \notin HtSessions

VARIABLES
  htFill,      \* where the pool's goroutine is
  htHeld,      \* the warm container it is making
  htPool,      \* the channel of ready containers
  htBoxesUp,   \* warm containers that exist
  htDirs,      \* their workspace directories
  htLeft,      \* history: those a failure left something of
  htMade,      \* identities used
  htStop,      \* Stop: open, draining, returned
  htReady,     \* supervisorState.ready
  htCooling,   \* less than a minute since failAt
  htInstalled, \* the volume holds the supervisor
  htStep,      \* where the creation of each session is
  htProject,   \* the project of each workspace, 0 when it has none
  htLimits,    \* projects with a hard limit
  htSequence,  \* workspace_project_id_seq
  htLabel,     \* sessions whose sandbox is labelled as supervised
  htFails      \* failures so far

htPoolVars == <<htFill, htHeld, htPool, htBoxesUp, htDirs, htLeft, htMade, htStop>>
htSessionVars == <<htStep, htProject, htLimits, htSequence, htLabel>>
htSupervisor == <<htReady, htCooling, htInstalled>>
htVars == <<htPoolVars, htSupervisor, htSessionVars, htFails>>

HtFills == {"check", "verify", "create", "start", "push", "wait", "gone"}

HtTypeOK ==
  /\ htFill \in HtFills /\ htHeld \in HtBoxes \cup {"none"}
  /\ htPool \subseteq HtBoxes /\ htBoxesUp \subseteq HtBoxes
  /\ htDirs \subseteq HtBoxes /\ htLeft \subseteq HtBoxes /\ htMade \subseteq HtBoxes
  /\ htStop \in {"open", "draining", "returned"}
  /\ htReady \in BOOLEAN /\ htCooling \in BOOLEAN /\ htInstalled \in BOOLEAN
  /\ htStep \in [HtSessions -> {"new", "project", "limit", "sandbox", "running", "failed"}]
  /\ htSequence \in Nat /\ htLimits \subseteq 1..htSequence
  /\ htProject \in [HtSessions -> 0..htSequence]
  /\ htLabel \subseteq HtSessions /\ htFails \in 0..HtMaxFails

HtInit ==
  /\ htFill = "check" /\ htHeld = "none" /\ htPool = {} /\ htBoxesUp = {}
  /\ htDirs = {} /\ htLeft = {} /\ htMade = {} /\ htStop = "open"
  /\ htReady = FALSE /\ htCooling = FALSE /\ htInstalled = FALSE
  /\ htStep = [s \in HtSessions |-> "new"]
  /\ htProject = [s \in HtSessions |-> 0] /\ htLimits = {} /\ htSequence = 0
  /\ htLabel = {} /\ htFails = 0

\* A call that may fail, as long as the bound allows it.
HtFail == htFails < HtMaxFails /\ htFails' = htFails + 1

-----------------------------------------------------------------------------
(* supervisorMount, under its mutex: installed once; after a failure not
   tried again for a minute.  CopyToContainer replaces the binary. *)

HtMounted ==
  /\ htReady \/ ~htCooling
  /\ htReady' = TRUE /\ htInstalled' = TRUE /\ UNCHANGED <<htCooling, htFails>>

HtUnmounted ==
  \/ ~htReady /\ htCooling /\ UNCHANGED <<htSupervisor, htFails>>
  \/ ~htReady /\ ~htCooling /\ HtFail /\ htCooling' = TRUE /\ UNCHANGED <<htReady, htInstalled>>

HtMinutePasses ==
  /\ htCooling /\ htCooling' = FALSE
  /\ UNCHANGED <<htPoolVars, htReady, htInstalled, htSessionVars, htFails>>

-----------------------------------------------------------------------------
(* The pool's goroutine. *)

\* The goroutine sees stopCh closed between two steps of its own.
HtFillStops ==
  /\ htFill \in {"check", "wait"} /\ htStop # "open"
  /\ htFill' = "gone"
  /\ UNCHANGED <<htHeld, htPool, htBoxesUp, htDirs, htLeft, htMade, htStop, htSupervisor, htSessionVars,
       htFails>>

\* A mutant: one more than the pool holds.
HtHasRoomExtra == Cardinality(htPool) <= HtSize

HtHasRoom == Cardinality(htPool) < HtSize

HtFillChecks ==
  /\ htFill = "check" /\ htStop = "open" /\ HtHasRoom
  /\ htFill' = "verify"
  /\ UNCHANGED <<htHeld, htPool, htBoxesUp, htDirs, htLeft, htMade, htStop, htSupervisor, htSessionVars,
       htFails>>

\* removeWorkspace and ContainerRemove, whose errors are dropped.
HtRemoved(b) ==
  /\ htBoxesUp' = htBoxesUp \ {b} /\ htDirs' = htDirs \ {b} /\ UNCHANGED htLeft

\* One of them fails, or the container was made although the answer was lost.
HtLeaves(b) ==
  /\ htBoxesUp' \in {htBoxesUp \ {b}, htBoxesUp \cup {b}}
  /\ htDirs' \in {htDirs \ {b}, htDirs \cup {b}}
  /\ htLeft' = htLeft \cup {b}

\* VerifyImage and the workspace directory, which stays when Chmod fails; then
\* the supervisor, installed or not.
HtVerify ==
  /\ htFill = "verify"
  /\ \/ /\ \E b \in HtBoxes \ htMade :
             /\ htHeld' = b /\ htMade' = htMade \cup {b} /\ htDirs' = htDirs \cup {b}
        /\ htFill' = "create" /\ UNCHANGED htLeft
        /\ HtMounted \/ HtUnmounted
     \/ /\ HtFail /\ htFill' = "wait" /\ UNCHANGED <<htHeld, htSupervisor>>
        /\ \/ \E b \in HtBoxes \ htMade :
                htMade' = htMade \cup {b} /\ htDirs' = htDirs \cup {b} /\ htLeft' = htLeft \cup {b}
           \/ UNCHANGED <<htMade, htDirs, htLeft>>
  /\ UNCHANGED <<htPool, htBoxesUp, htStop, htSessionVars>>

HtCreate ==
  /\ htFill = "create"
  /\ \/ /\ htBoxesUp' = htBoxesUp \cup {htHeld} /\ htFill' = "start"
        /\ UNCHANGED <<htDirs, htLeft, htHeld, htFails>>
     \/ /\ HtFail /\ (HtRemoved(htHeld) \/ HtLeaves(htHeld))
        /\ htHeld' = "none" /\ htFill' = "wait"
  /\ UNCHANGED <<htPool, htMade, htStop, htSupervisor, htSessionVars>>

\* A container that does not start is removed, and its directory with it.
HtStart ==
  /\ htFill = "start"
  /\ \/ htFill' = "push" /\ UNCHANGED <<htBoxesUp, htDirs, htLeft, htHeld, htFails>>
     \/ /\ HtFail /\ (HtRemoved(htHeld) \/ HtLeaves(htHeld))
        /\ htHeld' = "none" /\ htFill' = "wait"
  /\ UNCHANGED <<htPool, htMade, htStop, htSupervisor, htSessionVars>>

\* The send and the closed stopCh are cases of one select: when both are
\* ready either may be taken.
HtPush ==
  /\ htFill = "push" /\ htHeld' = "none"
  /\ \/ /\ Cardinality(htPool) < HtSize
        /\ htPool' = htPool \cup {htHeld} /\ htFill' = "check"
        /\ UNCHANGED <<htBoxesUp, htDirs, htLeft, htFails>>
     \/ /\ htStop # "open" /\ htFill' = "gone" /\ UNCHANGED htPool
        /\ (HtRemoved(htHeld) /\ UNCHANGED htFails) \/ (HtFail /\ HtLeaves(htHeld))
  /\ UNCHANGED <<htMade, htStop, htSupervisor, htSessionVars>>

HtWaited ==
  /\ htFill = "wait" /\ htFill' = "check"
  /\ UNCHANGED <<htHeld, htPool, htBoxesUp, htDirs, htLeft, htMade, htStop, htSupervisor, htSessionVars,
       htFails>>

\* Stop closes stopCh, then takes containers until the channel is empty.
HtClose ==
  /\ htStop = "open" /\ htStop' = "draining"
  /\ UNCHANGED <<htFill, htHeld, htPool, htBoxesUp, htDirs, htLeft, htMade, htSupervisor, htSessionVars,
       htFails>>

HtDrain ==
  /\ htStop = "draining"
  /\ \/ \E b \in htPool :
          /\ htPool' = htPool \ {b} /\ UNCHANGED htStop
          /\ (HtRemoved(b) /\ UNCHANGED htFails) \/ (HtFail /\ HtLeaves(b))
     \/ /\ htPool = {} /\ htStop' = "returned"
        /\ UNCHANGED <<htPool, htDirs, htBoxesUp, htLeft, htFails>>
  /\ UNCHANGED <<htFill, htHeld, htMade, htSupervisor, htSessionVars>>

HtPoolNext ==
  \/ HtFillStops \/ HtFillChecks \/ HtVerify \/ HtCreate \/ HtStart \/ HtPush
  \/ HtWaited \/ HtClose \/ HtDrain

-----------------------------------------------------------------------------
(* Creating a session: the workspace quota, then the sandbox. *)

HtMove(s, step) == htStep' = [htStep EXCEPT ![s] = step]

\* A mutant: the id is read from the table and the counter left behind.
HtNextIdRead(s) ==
  /\ htStep[s] = "new"
  /\ HtMove(s, "project")
  /\ htProject' = [htProject EXCEPT ![s] = 1 + Cardinality(htLimits)]
  /\ UNCHANGED <<htPoolVars, htSupervisor, htSequence, htLimits, htLabel, htFails>>

\* NextID draws from the sequence; ids are never drawn twice.
HtNextId(s) ==
  /\ htStep[s] = "new"
  /\ HtMove(s, "project")
  /\ htSequence' = htSequence + 1
  /\ htProject' = [htProject EXCEPT ![s] = htSequence + 1]
  /\ UNCHANGED <<htPoolVars, htSupervisor, htLimits, htLabel, htFails>>

\* xfs-quota set: the project of the directory, then the limit of the project.
HtLimitSet(s) == htLimits' = htLimits \cup {htProject[s]}

\* RunPrivilegedTool needs the supervisor's volume.  A failure, which may come
\* after the limit is set, fails the creation of the session.
HtApply(s) ==
  /\ htStep[s] = "project"
  /\ \/ /\ HtMounted /\ HtLimitSet(s) /\ HtMove(s, "sandbox")
     \/ HtUnmounted /\ HtMove(s, "failed") /\ UNCHANGED htLimits
     \/ /\ htReady \/ ~htCooling
        /\ htReady' = TRUE /\ htInstalled' = TRUE /\ UNCHANGED htCooling
        /\ HtFail /\ HtMove(s, "failed")
        /\ HtLimitSet(s) \/ UNCHANGED htLimits
  /\ UNCHANGED <<htPoolVars, htProject, htSequence, htLabel>>

\* CreateSandbox labels the container only when the volume is mounted in it.
HtSandbox(s) ==
  /\ htStep[s] = "sandbox" /\ HtMove(s, "running")
  /\ \/ HtMounted /\ htLabel' = htLabel \cup {s}
     \/ HtUnmounted /\ UNCHANGED htLabel
  /\ UNCHANGED <<htPoolVars, htProject, htLimits, htSequence>>

HtNext ==
  \/ HtPoolNext \/ HtMinutePasses
  \/ \E s \in HtSessions : HtNextId(s) \/ HtApply(s) \/ HtSandbox(s)

HtSpec == HtInit /\ [][HtNext]_htVars

-----------------------------------------------------------------------------
(* Properties. *)

\* The pool never has more containers than its size, the one being made
\* included, and no directory outlives the attempt to make its container: but
\* for what a failed clean-up, a failed Chmod or a lost answer left behind,
\* which nothing comes back for (pool.go:192, 244, 249).
HtPoolBounded ==
  /\ Cardinality(htBoxesUp \ htLeft) <= HtSize
  /\ htDirs \subseteq htBoxesUp \cup {htHeld} \cup htLeft

\* pool.go: "Stop drains and removes all warm containers".  A container whose
\* send wins the select after the drain stays.
HtStopRemovesAll == htStop = "returned" /\ htFill = "gone" => htBoxesUp \subseteq htLeft

\* Sessions created at the same time never share a project, every sandbox
\* with a hard quota has its limit set, and one labelled as supervised finds
\* the supervisor in its volume.
HtSandboxPrepared ==
  \A s \in HtSessions :
    htStep[s] = "running" =>
      /\ s \in htLabel => htInstalled
      /\ htProject[s] \in htLimits
      /\ \A t \in HtSessions \ {s} : htProject[t] # htProject[s]

\* Both together: what the host's two helpers owe to session creation.
HtHostReady == HtPoolBounded /\ HtSandboxPrepared
=============================================================================
