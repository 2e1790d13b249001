------------------------------- MODULE Evidence -------------------------------
(***************************************************************************)
(* Evidence packs (cmd/api/handlers/evidence.go, internal/evidence): an       *)
(* export reads runs, files and audit entries one statement after the other,  *)
(* while the session goes on.  Signatures and time stamps are taken to hold:  *)
(* what is modelled is what they are put on.  A run or an audit entry is its  *)
(* place in the order it is listed in (created_at, seq).                      *)
(***************************************************************************)
EXTENDS Naturals, FiniteSets

CONSTANTS
  EvExports, \* GET /sessions/:id/evidence requests
  EvStamps,  \* places in the order of runs and of audit entries
  EvFiles,   \* paths in the workspace
  EvPage,    \* rows in a page
  EvMaxRuns, EvMaxEntries, \* MaxRuns, MaxAuditEntries
  EvMaxFiles \* MaxFiles

ASSUME EvidenceAssumption ==
  /\ EvStamps \subseteq Nat /\ IsFiniteSet(EvStamps) /\ EvPage \in Nat \ {0}
  /\ EvMaxRuns \in Nat \ {0} /\ EvMaxEntries \in Nat \ {0}
  /\ IsFiniteSet(EvFiles) /\ EvMaxFiles \in Nat \ {0}

VARIABLES
  evRows,    \* runs and audit entries there are
  evUsed,    \* the places already taken
  evPresent, \* files in the workspace
  evStatus,  \* the session's status; stopped, its workspace is removed
  evExp      \* where each export is, and its pack

evVars == <<evRows, evUsed, evPresent, evStatus, evExp>>

EvLists == {"runs", "audit"}

\* there, files: what there was when the export came in and still is; removed:
\* there was no workspace any more to walk; truncated: the walk met MaxFiles.
EvExport ==
  [at : {"new", "runs", "walk", "hash", "audit", "sign", "handed", "failed"},
   status : {"running", "stopped"}, out : [EvLists -> SUBSET EvStamps], offset : Nat,
   taken : Nat, capped : SUBSET EvLists, names : SUBSET EvFiles, hashed : SUBSET EvFiles,
   there : [EvLists -> SUBSET EvStamps], files : SUBSET EvFiles,
   removed : BOOLEAN, truncated : BOOLEAN]

EvTypeOK ==
  /\ evRows \in [EvLists -> SUBSET EvStamps] /\ evUsed \in [EvLists -> SUBSET EvStamps]
  /\ evPresent \subseteq EvFiles /\ evStatus \in {"running", "stopped"}
  /\ evExp \in [EvExports -> EvExport]

EvNothing == [l \in EvLists |-> {}]

EvInit ==
  /\ evRows = EvNothing /\ evUsed = EvNothing /\ evPresent \in SUBSET EvFiles
  /\ evStatus = "running"
  /\ evExp = [x \in EvExports |->
       [at |-> "new", status |-> "running", out |-> EvNothing, offset |-> 0, taken |-> 0,
        capped |-> {}, names |-> {}, hashed |-> {}, there |-> EvNothing, files |-> {},
        removed |-> FALSE, truncated |-> FALSE]]

-----------------------------------------------------------------------------
(* The session goes on while it is exported. *)

\* A row is inserted.  created_at, and the timestamp of an unsigned entry, are
\* taken before the statement: a later row may come before an earlier one.
EvInsert(l) ==
  \E k \in EvStamps \ evUsed[l] :
    /\ evRows' = [evRows EXCEPT ![l] = @ \cup {k}] /\ evUsed' = [evUsed EXCEPT ![l] = @ \cup {k}]
    /\ UNCHANGED <<evPresent, evStatus, evExp>>

\* Audit retention deletes the oldest entries; runs stay.
EvRetain ==
  \E k \in evRows["audit"] :
    /\ \A j \in evRows["audit"] : k <= j
    /\ evRows' = [evRows EXCEPT !["audit"] = @ \ {k}]
    /\ evExp' = [x \in EvExports |-> [evExp[x] EXCEPT !.there["audit"] = @ \ {k}]]
    /\ UNCHANGED <<evUsed, evPresent, evStatus>>

\* A command of the session writes or removes a file.
EvWrite ==
  \E f \in EvFiles :
    /\ evStatus = "running"
    /\ \/ evPresent' = evPresent \cup {f} /\ UNCHANGED evExp
       \/ /\ evPresent' = evPresent \ {f}
          /\ evExp' = [x \in EvExports |-> [evExp[x] EXCEPT !.files = @ \ {f}]]
    /\ UNCHANGED <<evRows, evUsed, evStatus>>

\* The session ends and its workspace is removed.
EvEnd ==
  /\ evStatus = "running" /\ evStatus' = "stopped" /\ evPresent' = {}
  /\ evExp' = [x \in EvExports |-> [evExp[x] EXCEPT !.files = {}]]
  /\ UNCHANGED <<evRows, evUsed>>

-----------------------------------------------------------------------------
(* Export. *)

\* checkSessionAccess reads the session.
EvArrive(x) ==
  /\ evExp[x].at = "new"
  /\ evExp' = [evExp EXCEPT ![x].at = "runs", ![x].status = evStatus, ![x].there = evRows,
                            ![x].files = evPresent]
  /\ UNCHANGED <<evRows, evUsed, evPresent, evStatus>>

\* A mutant: oldest first, as the pack has them in the end.
EvBeforeOldest(rows, k) == {j \in rows : j < k}

\* ORDER BY created_at DESC, seq DESC.
EvBefore(rows, k) == {j \in rows : j > k}

\* LIMIT and OFFSET.
EvPageOf(rows, offset) ==
  {k \in rows : Cardinality(EvBefore(rows, k)) \in offset .. offset + EvPage - 1}

EvCap(l) == IF l = "runs" THEN EvMaxRuns ELSE EvMaxEntries

\* One page of a list: l is noted when its cap is reached, which audit says of
\* the last entry that fits already, and runs of the first that does not.
EvTakePage(x, l, next) ==
  LET e == evExp[x]
      page == EvPageOf(evRows[l], e.offset)
      room == EvCap(l) - e.taken
      kept == {k \in page : Cardinality(EvBefore(page, k)) < room}
      full == Cardinality(page) > room \/ (l = "audit" /\ Cardinality(page) = room)
      over == full \/ Cardinality(page) < EvPage IN
    evExp' = [evExp EXCEPT ![x] =
      [e EXCEPT !.out[l] = @ \cup kept, !.capped = IF full THEN @ \cup {l} ELSE @,
         !.offset = IF over THEN 0 ELSE @ + EvPage,
         !.taken = IF over THEN 0 ELSE @ + Cardinality(kept),
         !.at = IF over THEN next ELSE l]]

\* EvidenceHandler.runs.
EvListRuns(x) ==
  /\ evExp[x].at = "runs" /\ EvTakePage(x, "runs", "walk")
  /\ UNCHANGED <<evRows, evUsed, evPresent, evStatus>>

\* HashWorkspace lists the names, none of a removed workspace.
EvWalk(x) ==
  /\ evExp[x].at = "walk"
  /\ evExp' = [evExp EXCEPT ![x].at = "hash", ![x].names = evPresent,
                            ![x].removed = evStatus = "stopped"]
  /\ UNCHANGED <<evRows, evUsed, evPresent, evStatus>>

\* The walk comes to one file after the other, and stops at the first beyond
\* MaxFiles.  What is gone by now fails the export (hashFile), unless its
\* directory was not read yet: until then a name may still come or go.
EvHash(x) ==
  LET e == evExp[x]
      left == e.names \ e.hashed IN
    /\ e.at = "hash"
    /\ \/ left = {} /\ evExp' = [evExp EXCEPT ![x].at = "audit"]
       \/ /\ left # {} /\ Cardinality(e.hashed) >= EvMaxFiles
          /\ evExp' = [evExp EXCEPT ![x].at = "audit", ![x].truncated = TRUE]
       \/ /\ Cardinality(e.hashed) < EvMaxFiles
          /\ \E f \in left \cap evPresent : evExp' = [evExp EXCEPT ![x].hashed = @ \cup {f}]
       \/ /\ left \ evPresent # {} /\ Cardinality(e.hashed) < EvMaxFiles
          /\ evExp' = [evExp EXCEPT ![x].at = "failed"]
       \/ \E f \in left \ evPresent : evExp' = [evExp EXCEPT ![x].names = @ \ {f}]
       \/ \E f \in evPresent \ e.names : evExp' = [evExp EXCEPT ![x].names = @ \cup {f}]
    /\ UNCHANGED <<evRows, evUsed, evPresent, evStatus>>

\* EvidenceHandler.audit.
EvListAudit(x) ==
  /\ evExp[x].at = "audit" /\ EvTakePage(x, "audit", "sign")
  /\ UNCHANGED <<evRows, evUsed, evPresent, evStatus>>

\* Signed, stamped and handed out; the export itself is logged, or that fails.
EvHandOut(x) ==
  /\ evExp[x].at = "sign" /\ evExp' = [evExp EXCEPT ![x].at = "handed"]
  /\ \/ \E k \in EvStamps \ evUsed["audit"] :
          /\ evRows' = [evRows EXCEPT !["audit"] = @ \cup {k}]
          /\ evUsed' = [evUsed EXCEPT !["audit"] = @ \cup {k}]
     \/ UNCHANGED <<evRows, evUsed>>
  /\ UNCHANGED <<evPresent, evStatus>>

\* A statement, the signature or the time stamp authority fails: no pack.
EvBreak(x) ==
  /\ evExp[x].at \in {"runs", "walk", "hash", "audit", "sign"}
  /\ evExp' = [evExp EXCEPT ![x].at = "failed"]
  /\ UNCHANGED <<evRows, evUsed, evPresent, evStatus>>

EvNext ==
  \/ \E l \in EvLists : EvInsert(l)
  \/ EvRetain \/ EvWrite \/ EvEnd
  \/ \E x \in EvExports :
       \/ EvArrive(x) \/ EvListRuns(x) \/ EvWalk(x) \/ EvHash(x) \/ EvListAudit(x)
       \/ EvHandOut(x) \/ EvBreak(x)

EvSpec == EvInit /\ [][EvNext]_evVars

-----------------------------------------------------------------------------
\* What there was when an export began, and is still there, is in the pack that
\* is handed out, unless its list was capped, and then it is older than all
\* that is (evidence.go:179, docs/features/evidence-packs.md:28): rows that
\* come and go between two pages may be listed twice, never passed over.  A
\* file is left out only of a pack that is full and says so (evidence.go:107).
EvNoGap ==
  \A x \in EvExports :
    LET e == evExp[x] IN
      e.at = "handed" =>
        /\ e.truncated \/ e.files \subseteq e.hashed
        /\ e.truncated => Cardinality(e.hashed) = EvMaxFiles
        /\ \A l \in EvLists : \A k \in e.there[l] \ e.out[l] :
             l \in e.capped /\ \A j \in e.out[l] : k < j

\* docs/features/evidence-packs.md:22, "What the pack leaves out (limits reached,
\* workspace already removed)": a pack of a removed workspace has the note of
\* evidence.go:109.  Refuted: see README, Disagreements.
EvRemovalNoted ==
  \A x \in EvExports :
    evExp[x].at = "handed" /\ evExp[x].removed => evExp[x].status = "stopped"
=============================================================================
