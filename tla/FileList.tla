------------------------------ MODULE FileList ------------------------------
(***************************************************************************)
(* The file list: a row for each path that an upload or a run wrote into   *)
(* the workspace (handlers/files.go and detectArtifacts of internal/runner, *)
(* over internal/workspace).  Requests and runs of a session interleave    *)
(* between any two calls.  Contents are left out, and so are path, access, *)
(* size and policy checks, which can only refuse a request.                *)
(***************************************************************************)
EXTENDS Naturals, FiniteSets

CONSTANTS
  FlClients,  \* concurrent requests
  FlRuns,     \* concurrent runs of one session
  FlPaths,    \* paths in the workspace
  FlMaxClock, \* bound: modification times
  FlFaulty    \* requests and runs that may meet a database error

ASSUME FileListAssumption ==
  /\ FlClients \cap FlRuns = {} /\ FlMaxClock \in Nat
  /\ FlFaulty \subseteq FlClients \cup FlRuns /\ "none" \notin FlPaths

VARIABLES
  flDisk,    \* the modification time of each path, 0 when there is no file
  flClock,   \* the time of the latest write
  flListed,  \* paths with a row in files
  flPc,      \* where each request is
  flPath,    \* the path it works on
  flRun,     \* where each run is
  flBefore,  \* snapshotDir before each run
  flPending, \* the paths its walk has yet to record
  flSpoilt   \* paths a late DELETE or a failed upsert took off the list

flVars == <<flDisk, flClock, flListed, flPc, flPath, flRun, flBefore, flPending, flSpoilt>>

FlTypeOK ==
  /\ flDisk \in [FlPaths -> 0..FlMaxClock] /\ flClock \in 0..FlMaxClock
  /\ flListed \subseteq FlPaths /\ flSpoilt \subseteq FlPaths
  /\ flPc \in [FlClients -> {"idle", "upsert", "unlist"}]
  /\ flPath \in [FlClients -> FlPaths \cup {"none"}]
  /\ flRun \in [FlRuns -> {"idle", "running", "detecting"}]
  /\ flBefore \in [FlRuns -> [FlPaths -> 0..FlMaxClock]]
  /\ flPending \in [FlRuns -> SUBSET FlPaths]

FlInit ==
  /\ flDisk = [p \in FlPaths |-> 0] /\ flClock = 0
  /\ flListed = {} /\ flSpoilt = {}
  /\ flPc = [c \in FlClients |-> "idle"]
  /\ flPath = [c \in FlClients |-> "none"]
  /\ flRun = [r \in FlRuns |-> "idle"]
  /\ flBefore = [r \in FlRuns |-> [p \in FlPaths |-> 0]]
  /\ flPending = [r \in FlRuns |-> {}]

FlGoto(c, step, p) ==
  /\ flPc' = [flPc EXCEPT ![c] = step]
  /\ flPath' = [flPath EXCEPT ![c] = p]
FlLeave(c) == FlGoto(c, "idle", "none")

\* WriteFile: truncates or creates the file, links refused.
FlStore(p) == flDisk' = [flDisk EXCEPT ![p] = flClock']

\* Remove, its error ignored: there may be no such file.
FlErase(p) == flDisk' = [flDisk EXCEPT ![p] = 0]

\* The rows of files.
FlUpsertFile(p) == flListed' = flListed \cup {p} /\ flSpoilt' = flSpoilt \ {p}
FlDeleteFile(p) == flListed' = flListed \ {p}

-----------------------------------------------------------------------------
(* Requests. *)

\* Upload, once path, cap and policy allow it: WriteFile ...
FlWrite(c) ==
  /\ flPc[c] = "idle" /\ flClock < FlMaxClock
  /\ flClock' = flClock + 1
  /\ \E p \in FlPaths : FlStore(p) /\ FlGoto(c, "upsert", p)
  /\ UNCHANGED <<flListed, flRun, flBefore, flPending, flSpoilt>>

\* ... then UpsertFile.  An error leaves the file without a row.
FlUpsert(c) ==
  /\ flPc[c] = "upsert" /\ FlLeave(c)
  /\ \/ FlUpsertFile(flPath[c])
     \/ c \in FlFaulty /\ flSpoilt' = flSpoilt \cup {flPath[c]} /\ UNCHANGED flListed
  /\ UNCHANGED <<flDisk, flClock, flRun, flBefore, flPending>>

\* Delete removes the file if it is there ...
FlRemove(c) ==
  /\ flPc[c] = "idle"
  /\ \E p \in FlPaths : FlErase(p) /\ FlGoto(c, "unlist", p)
  /\ UNCHANGED <<flClock, flListed, flRun, flBefore, flPending, flSpoilt>>

\* ... then the row, which a write in between has made the new file's.
FlUnlist(c) ==
  /\ flPc[c] = "unlist" /\ FlLeave(c)
  /\ \/ /\ FlDeleteFile(flPath[c])
        /\ flSpoilt' = IF flDisk[flPath[c]] > 0 THEN flSpoilt \cup {flPath[c]} ELSE flSpoilt
     \/ c \in FlFaulty /\ UNCHANGED <<flListed, flSpoilt>>
  /\ UNCHANGED <<flDisk, flClock, flRun, flBefore, flPending>>

-----------------------------------------------------------------------------
(* Runs. *)

\* snapshotDir, and the command starts.
FlRunStarts(r) ==
  /\ flRun[r] = "idle"
  /\ flRun' = [flRun EXCEPT ![r] = "running"]
  /\ flBefore' = [flBefore EXCEPT ![r] = flDisk]
  /\ UNCHANGED <<flPc, flPath, flDisk, flClock, flListed, flPending, flSpoilt>>

\* The command writes or removes a file.
FlRunWrites(r) ==
  /\ flRun[r] = "running" /\ flClock < FlMaxClock
  /\ flClock' = flClock + 1
  /\ \E p \in FlPaths : FlStore(p) \/ FlErase(p)
  /\ UNCHANGED <<flPc, flPath, flListed, flRun, flBefore, flPending, flSpoilt>>

\* A mutant: only files that did not exist before are recorded.
FlChangedNew(r) == {p \in FlPaths : flDisk[p] > 0 /\ flBefore[r][p] = 0}

\* New, or modified later than before the run.
FlChanged(r) == {p \in FlPaths : flDisk[p] > flBefore[r][p]}

\* The run ends and detectArtifacts walks the workspace.  Files moved into
\* place with an old modification time, which it cannot see, are left out.
FlRunEnds(r) ==
  /\ flRun[r] = "running"
  /\ flRun' = [flRun EXCEPT ![r] = "detecting"]
  /\ flPending' = [flPending EXCEPT ![r] = FlChanged(r)]
  /\ UNCHANGED <<flPc, flPath, flDisk, flClock, flListed, flBefore, flSpoilt>>

\* One UpsertFile after the other, on the context of the request: one that
\* the client has left records nothing.
FlDetect(r) ==
  /\ flRun[r] = "detecting"
  /\ \/ \E p \in flPending[r] :
          /\ \/ FlUpsertFile(p)
             \/ r \in FlFaulty /\ flSpoilt' = flSpoilt \cup {p} /\ UNCHANGED flListed
          /\ flPending' = [flPending EXCEPT ![r] = @ \ {p}]
          /\ UNCHANGED <<flRun, flBefore>>
     \/ /\ flPending[r] = {}
        /\ flRun' = [flRun EXCEPT ![r] = "idle"]
        /\ flBefore' = [flBefore EXCEPT ![r] = [p \in FlPaths |-> 0]]
        /\ UNCHANGED <<flListed, flPending, flSpoilt>>
  /\ UNCHANGED <<flPc, flPath, flDisk, flClock>>

FlNext ==
  \/ \E c \in FlClients : FlWrite(c) \/ FlUpsert(c) \/ FlRemove(c) \/ FlUnlist(c)
  \/ \E r \in FlRuns : FlRunStarts(r) \/ FlRunWrites(r) \/ FlRunEnds(r) \/ FlDetect(r)

FlSpec == FlInit /\ [][FlNext]_flVars

-----------------------------------------------------------------------------
\* Once its writers are done, a file of the workspace is in the file list,
\* unless a failed upsert or a DELETE that overlapped the write left it out.
FlFilesListed ==
  \A p \in FlPaths :
    flDisk[p] > 0 =>
      \/ p \in flListed \cup flSpoilt
      \/ \E c \in FlClients : flPc[c] = "upsert" /\ flPath[c] = p
      \/ \E r \in FlRuns :
           \/ flRun[r] = "running" /\ flDisk[p] > flBefore[r][p]
           \/ flRun[r] = "detecting" /\ p \in flPending[r]
=============================================================================
