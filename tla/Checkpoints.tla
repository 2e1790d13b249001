----------------------------- MODULE Checkpoints -----------------------------
(***************************************************************************)
(* Session replay (internal/replay/manager.go behind                       *)
(* cmd/api/handlers/replay.go): checkpoints of a session's workspace, their *)
(* archives on disk, pruning, restoring, forking and deleting, by requests  *)
(* that interleave between any two statements.                             *)
(*                                                                         *)
(* A checkpoint and its archive share an identity.  Names, previews and    *)
(* the environment are left out; a signature either verifies or not.       *)
(***************************************************************************)
EXTENDS Naturals, FiniteSets, FiniteSetsExt

CONSTANTS
  CkClients,  \* concurrent requests
  CkIds,      \* bound: the checkpoints that can ever be made
  CkHomes,    \* sessions with replay_enabled, all of one organisation
  CkForks,    \* bound: sessions that forks may create
  CkTampered, \* checkpoints whose row no longer matches its signature
  CkSizes,    \* sizes an archive may have
  CkMaxPer,   \* MaxCheckpointsPerSession
  CkMaxSize,  \* MaxCheckpointSizeBytes
  CkMaxOrg,   \* MaxTotalCheckpointStoragePerOrg
  CkFaulty    \* requests that may meet a database or disk error

ASSUME CheckpointAssumption ==
  /\ IsFiniteSet(CkClients) /\ CkClients # {} /\ IsFiniteSet(CkIds)
  /\ CkHomes \cap CkForks = {} /\ CkTampered \subseteq CkIds
  /\ CkSizes \subseteq Nat
  /\ CkMaxPer \in Nat \ {0} /\ CkMaxSize \in Nat /\ CkMaxOrg \in Nat
  /\ CkFaulty \subseteq CkClients
  /\ "none" \notin CkIds \cup CkHomes \cup CkForks

VARIABLES
  ckRows,     \* replay_checkpoints: records of id, session, number and size,
              \* and whether the organisation's total was compared for it
  ckArchives, \* the archives in the snapshots directory
  ckMade,     \* every checkpoint identity taken so far
  ckUnsure,   \* checkpoints whose COMMIT was applied but answered an error
  ckForked,   \* forked sessions that have a row
  ckDirs,     \* forked sessions that have a workspace directory
  ckActive,   \* sessions with a pending or running command
  ckPc,       \* where each request is
  ckReq       \* what each request holds

ckVars == <<ckRows, ckArchives, ckMade, ckUnsure, ckForked, ckDirs, ckActive,
            ckPc, ckReq>>

CkSteps == {"idle", "oldest", "prune", "unlink", "snapshot", "limits", "insert",
            "delete", "remove", "active", "open", "extract", "copy", "session"}
CkNoReq == [session |-> "none", id |-> "none", victim |-> "none",
            doomed |-> "none", size |-> 0, checked |-> FALSE, stop |-> FALSE]

CkTypeOK ==
  /\ ckRows \subseteq [id : CkIds, session : CkHomes, number : Nat, size : CkSizes,
                       checked : BOOLEAN]
  /\ ckArchives \subseteq CkIds /\ ckMade \subseteq CkIds /\ ckUnsure \subseteq CkIds
  /\ ckForked \subseteq CkForks /\ ckDirs \subseteq CkForks
  /\ ckActive \subseteq CkHomes
  /\ ckPc \in [CkClients -> CkSteps]
  /\ ckReq \in [CkClients ->
       [session : CkHomes \cup CkForks \cup {"none"}, id : CkIds \cup {"none"},
        victim : CkIds \cup {"none"}, doomed : CkIds \cup {"none"},
        size : CkSizes \cup {0}, checked : BOOLEAN, stop : BOOLEAN]]

CkInit ==
  /\ ckRows = {} /\ ckArchives = {} /\ ckMade = {} /\ ckUnsure = {}
  /\ ckForked = {} /\ ckDirs = {} /\ ckActive = {}
  /\ ckPc = [c \in CkClients |-> "idle"]
  /\ ckReq = [c \in CkClients |-> CkNoReq]

CkOf(s) == {r \in ckRows : r.session = s}
CkRow(i) == {r \in ckRows : r.id = i}

\* ORDER BY checkpoint_number ASC LIMIT 1
CkOldest(s) == {r.id : r \in {q \in CkOf(s) : \A p \in CkOf(s) : q.number <= p.number}}

\* MAX(checkpoint_number) + 1, read and used under the session's advisory lock
CkNextNumber(s) == 1 + Max({r.number : r \in CkOf(s)} \cup {0})

\* SUM(size_bytes) over the sessions of the organisation, byte by byte
CkBytes(rows) == UNION {{r} \X (1..r.size) : r \in rows}
CkStored == Cardinality(CkBytes(ckRows))

\* The rows that were admitted with their organisation's total compared.
CkCompared(rows) == {r \in rows : r.checked}

\* verifyCheckpoint: every field the row was signed over is as it was.
CkVerifies(i) == i \notin CkTampered

CkGoto(c, p) == ckPc' = [ckPc EXCEPT ![c] = p]
CkLeave(c) == CkGoto(c, "idle") /\ ckReq' = [ckReq EXCEPT ![c] = CkNoReq]

-----------------------------------------------------------------------------
(* Creating a checkpoint. *)

\* replay_enabled holds for every session of CkHomes.  The count decides
\* whether the oldest checkpoint goes first.
CkBegin(c, s) ==
  /\ ckPc[c] = "idle"
  /\ ckReq' = [ckReq EXCEPT ![c].session = s]
  /\ CkGoto(c, IF Cardinality(CkOf(s)) >= CkMaxPer THEN "oldest" ELSE "snapshot")
  /\ UNCHANGED <<ckRows, ckArchives, ckMade, ckUnsure, ckForked, ckDirs, ckActive>>

\* pruneOldestCheckpoint, first statement: whose archive is to go.  No row is
\* an error, and the request fails.
CkPruneSelect(c) ==
  /\ ckPc[c] = "oldest"
  /\ \/ \E i \in CkOldest(ckReq[c].session) :
          /\ ckReq' = [ckReq EXCEPT ![c].victim = i]
          /\ CkGoto(c, "prune")
     \/ CkOf(ckReq[c].session) = {} /\ CkLeave(c)
  /\ UNCHANGED <<ckRows, ckArchives, ckMade, ckUnsure, ckForked, ckDirs, ckActive>>

\* A mutant: the subquery takes the checkpoint with the highest number.
CkPruneTargetNewest(c) ==
  /\ ckPc[c] = "prune" /\ ckReq[c].doomed = "none"
  /\ \E r \in CkOf(ckReq[c].session) :
       /\ r.number + 1 = CkNextNumber(r.session)
       /\ ckReq' = [ckReq EXCEPT ![c].doomed = r.id]
  /\ UNCHANGED <<ckRows, ckArchives, ckMade, ckUnsure, ckForked, ckDirs, ckActive, ckPc>>

\* Its second statement picks the oldest again in a subquery ...
CkPruneTarget(c) ==
  /\ ckPc[c] = "prune" /\ ckReq[c].doomed = "none"
  /\ \E i \in CkOldest(ckReq[c].session) :
       ckReq' = [ckReq EXCEPT ![c].doomed = i]
  /\ UNCHANGED <<ckRows, ckArchives, ckMade, ckUnsure, ckForked, ckDirs, ckActive, ckPc>>

\* ... and deletes it, unless another transaction has meanwhile.  An error
\* leaves the row, and the request fails.
CkPruneDelete(c) ==
  /\ ckPc[c] = "prune"
  /\ \/ /\ ckReq[c].doomed # "none" \/ CkOf(ckReq[c].session) = {}
        /\ ckRows' = ckRows \ CkRow(ckReq[c].doomed)
        /\ CkGoto(c, "unlink") /\ UNCHANGED ckReq
     \/ c \in CkFaulty /\ CkLeave(c) /\ UNCHANGED ckRows
  /\ UNCHANGED <<ckArchives, ckMade, ckUnsure, ckForked, ckDirs, ckActive>>

\* DeleteSnapshot of the archive selected first; its error is ignored.
CkPruneUnlink(c) ==
  /\ ckPc[c] = "unlink"
  /\ ckArchives' = ckArchives \ {ckReq[c].victim}
  /\ CkGoto(c, "snapshot")
  /\ UNCHANGED <<ckRows, ckMade, ckUnsure, ckForked, ckDirs, ckActive, ckReq>>

CkSnapshot(c) ==
  /\ ckPc[c] = "snapshot"
  /\ \E i \in CkIds \ ckMade, n \in CkSizes :
       /\ ckMade' = ckMade \cup {i}
       /\ ckArchives' = ckArchives \cup {i}
       /\ ckReq' = [ckReq EXCEPT ![c] = [@ EXCEPT !.id = i, !.size = n]]
  /\ CkGoto(c, "limits")
  /\ UNCHANGED <<ckRows, ckUnsure, ckForked, ckDirs, ckActive>>

\* The limits of one checkpoint and of the organisation's total.
CkFits(n) == n <= CkMaxSize /\ CkStored + n <= CkMaxOrg

\* checkOrgStorageLimit admits without a look at the total when it cannot
\* read the session's organisation; a total it cannot read is a refusal.
CkLimits(c) ==
  /\ ckPc[c] = "limits"
  /\ \/ \E checked \in BOOLEAN :
          /\ IF checked THEN CkFits(ckReq[c].size)
             ELSE c \in CkFaulty /\ ckReq[c].size <= CkMaxSize
          /\ ckReq' = [ckReq EXCEPT ![c].checked = checked]
          /\ CkGoto(c, "insert") /\ UNCHANGED ckArchives
     \/ /\ ~CkFits(ckReq[c].size) \/ c \in CkFaulty
        /\ ckArchives' = ckArchives \ {ckReq[c].id} /\ CkLeave(c)
  /\ UNCHANGED <<ckRows, ckMade, ckUnsure, ckForked, ckDirs, ckActive>>

\* insertCheckpoint: one transaction, in which the number is taken too.
CkAdd(q) ==
  ckRows' = ckRows \cup {[id |-> q.id, session |-> q.session,
                          number |-> CkNextNumber(q.session), size |-> q.size,
                          checked |-> q.checked]}

\* A failed insert takes the archive away again.  A COMMIT whose
\* answer is lost is such a failure too, and leaves the row.
CkInsert(c) ==
  /\ ckPc[c] = "insert" /\ CkLeave(c)
  /\ \/ CkAdd(ckReq[c]) /\ UNCHANGED <<ckArchives, ckUnsure>>
     \/ /\ c \in CkFaulty
        /\ ckArchives' = ckArchives \ {ckReq[c].id}
        /\ \/ UNCHANGED <<ckRows, ckUnsure>>
           \/ CkAdd(ckReq[c]) /\ ckUnsure' = ckUnsure \cup {ckReq[c].id}
  /\ UNCHANGED <<ckMade, ckForked, ckDirs, ckActive>>

CkCreate(c) ==
  \/ \E s \in CkHomes : CkBegin(c, s)
  \/ CkPruneSelect(c) \/ CkPruneTarget(c) \/ CkPruneDelete(c) \/ CkPruneUnlink(c)
  \/ CkSnapshot(c) \/ CkLimits(c) \/ CkInsert(c)

-----------------------------------------------------------------------------
(* Deleting: the row, then its archive. *)

CkGetForDelete(c) ==
  /\ ckPc[c] = "idle"
  /\ \E r \in ckRows : ckReq' = [ckReq EXCEPT ![c].id = r.id]
  /\ CkGoto(c, "delete")
  /\ UNCHANGED <<ckRows, ckArchives, ckMade, ckUnsure, ckForked, ckDirs, ckActive>>

\* No row affected is "not found", and the archive is left alone.
CkDeleteRow(c) ==
  /\ ckPc[c] = "delete"
  /\ \/ /\ CkRow(ckReq[c].id) # {}
        /\ ckRows' = ckRows \ CkRow(ckReq[c].id)
        /\ CkGoto(c, "remove") /\ UNCHANGED ckReq
     \/ /\ CkRow(ckReq[c].id) = {} \/ c \in CkFaulty
        /\ CkLeave(c) /\ UNCHANGED ckRows
  /\ UNCHANGED <<ckArchives, ckMade, ckUnsure, ckForked, ckDirs, ckActive>>

CkDeleteArchive(c) ==
  /\ ckPc[c] = "remove"
  /\ ckArchives' = ckArchives \ {ckReq[c].id}
  /\ CkLeave(c)
  /\ UNCHANGED <<ckRows, ckMade, ckUnsure, ckForked, ckDirs, ckActive>>

CkDelete(c) == CkGetForDelete(c) \/ CkDeleteRow(c) \/ CkDeleteArchive(c)

-----------------------------------------------------------------------------
(* Restoring. *)

\* The row belongs to the session of the URL and its signature verifies.
CkGetForRestore(c) ==
  /\ ckPc[c] = "idle"
  /\ \E r \in ckRows, stop \in BOOLEAN :
       /\ CkVerifies(r.id)
       /\ ckReq' = [ckReq EXCEPT ![c] = [@ EXCEPT !.id = r.id, !.session = r.session, !.stop = stop]]
  /\ CkGoto(c, "active")
  /\ UNCHANGED <<ckRows, ckArchives, ckMade, ckUnsure, ckForked, ckDirs, ckActive>>

\* StopActiveCommands skips the check and does nothing else.
CkCheckActive(c) ==
  /\ ckPc[c] = "active"
  /\ \/ /\ ckReq[c].stop \/ ckReq[c].session \notin ckActive
        /\ CkGoto(c, "open") /\ UNCHANGED ckReq
     \/ ~ckReq[c].stop /\ ckReq[c].session \in ckActive /\ CkLeave(c)
  /\ UNCHANGED <<ckRows, ckArchives, ckMade, ckUnsure, ckForked, ckDirs, ckActive>>

\* The archive is opened, or is gone; once open, its deletion does no harm.
CkOpen(c) ==
  /\ ckPc[c] = "open"
  /\ \/ ckReq[c].id \in ckArchives /\ CkGoto(c, "extract") /\ UNCHANGED ckReq
     \/ ckReq[c].id \notin ckArchives /\ CkLeave(c)
  /\ UNCHANGED <<ckRows, ckArchives, ckMade, ckUnsure, ckForked, ckDirs, ckActive>>

\* The files are overwritten one after the other until the archive ends or
\* one of them cannot be written.
CkExtracted(c) ==
  /\ ckPc[c] = "extract" /\ CkLeave(c)
  /\ UNCHANGED <<ckRows, ckArchives, ckMade, ckUnsure, ckForked, ckDirs, ckActive>>

CkRestore(c) == CkGetForRestore(c) \/ CkCheckActive(c) \/ CkOpen(c) \/ CkExtracted(c)

-----------------------------------------------------------------------------
(* Forking.  The handler's own checks (access, the image, the limits and the
   caller's quota) can only refuse the request. *)

\* The checkpoint verifies and its session is loaded; then the workspace.
CkForkDir(c) ==
  /\ ckPc[c] = "idle"
  /\ \E r \in ckRows, f \in CkForks \ (ckDirs \cup ckForked) :
       /\ CkVerifies(r.id)
       /\ \A d \in CkClients : ckReq[d].session # f
       /\ ckDirs' = ckDirs \cup {f}
       /\ ckReq' = [ckReq EXCEPT ![c] = [@ EXCEPT !.id = r.id, !.session = f]]
  /\ CkGoto(c, "copy")
  /\ UNCHANGED <<ckRows, ckArchives, ckMade, ckUnsure, ckForked, ckActive>>

CkForkCopy(c) ==
  /\ ckPc[c] = "copy"
  /\ \/ ckReq[c].id \in ckArchives /\ CkGoto(c, "session") /\ UNCHANGED <<ckDirs, ckReq>>
     \/ /\ ckReq[c].id \notin ckArchives \/ c \in CkFaulty
        /\ ckDirs' = ckDirs \ {ckReq[c].session} /\ CkLeave(c)
  /\ UNCHANGED <<ckRows, ckArchives, ckMade, ckUnsure, ckForked, ckActive>>

\* forked_from_checkpoint_id refers to the checkpoint, so the row must still
\* be there when the session is inserted.
CkForkInsert(c) ==
  /\ ckPc[c] = "session" /\ CkLeave(c)
  /\ \/ /\ CkRow(ckReq[c].id) # {}
        /\ ckForked' = ckForked \cup {ckReq[c].session}
        /\ UNCHANGED ckDirs
     \/ /\ CkRow(ckReq[c].id) = {} \/ c \in CkFaulty
        /\ ckDirs' = ckDirs \ {ckReq[c].session}
        /\ UNCHANGED ckForked
  /\ UNCHANGED <<ckRows, ckArchives, ckMade, ckUnsure, ckActive>>

CkFork(c) == CkForkDir(c) \/ CkForkCopy(c) \/ CkForkInsert(c)

-----------------------------------------------------------------------------
(* Commands of the sessions.  When one ends the runner calls the checkpoint
   hook, which reads runs.args, a TEXT[] column, into a []string: database/sql
   has no such conversion, the hook returns its error and no checkpoint is
   made. *)

CkCommandStarts(s) ==
  /\ s \notin ckActive
  /\ ckActive' = ckActive \cup {s}
  /\ UNCHANGED <<ckRows, ckArchives, ckMade, ckUnsure, ckForked, ckDirs, ckPc, ckReq>>

CkCommandEnds(s) ==
  /\ s \in ckActive
  /\ ckActive' = ckActive \ {s}
  /\ UNCHANGED <<ckRows, ckArchives, ckMade, ckUnsure, ckForked, ckDirs, ckPc, ckReq>>

CkNext ==
  \/ \E c \in CkClients : CkCreate(c) \/ CkDelete(c) \/ CkRestore(c) \/ CkFork(c)
  \/ \E s \in CkHomes : CkCommandStarts(s) \/ CkCommandEnds(s)

CkSpec == CkInit /\ [][CkNext]_ckVars

-----------------------------------------------------------------------------
(* Properties. *)

\* Whoever prunes, deletes or fails at the same time, a checkpoint that is
\* listed can be restored: its archive is there.  A lost answer to the COMMIT
\* is the one exception, since the archive is then taken away from a stored
\* row (pruneOldestCheckpoint selects twice, and unlinks the first selection).
CkRowHasArchive == \A r \in ckRows : r.id \in ckArchives \cup ckUnsure

\* The organisation's limit is compared before the row exists, so requests
\* that overlap may each add one checkpoint to what the others were shown: of
\* the checkpoints that were compared, the excess is at most one of full size
\* for every other request.  Nothing bounds those that were let through
\* because the organisation could not be read.
CkStorageBound ==
  Cardinality(CkBytes(CkCompared(ckRows))) <= CkMaxOrg + (Cardinality(CkClients) - 1) * CkMaxSize

\* Both together: rows, archives and the organisation's total stay in step.
CkStoreSound == CkRowHasArchive /\ CkStorageBound

\* types.go: "If true, stop active commands before restoring".  The code
\* only skips the check.
CkStopsCommands ==
  [][\A c \in CkClients : ckPc[c] = "active" /\ ckPc'[c] = "open" /\ ckReq[c].stop
       => ckReq[c].session \notin ckActive']_ckVars

\* main.go: "Configure automatic checkpoint creation after command
\* execution", for sessions with replay_enabled.  The hook always fails.
CkAutoCheckpoint ==
  [][\A s \in ckActive \ ckActive' :
       \E c \in CkClients : ckPc'[c] # "idle" /\ ckReq'[c].session = s]_ckVars
=============================================================================
