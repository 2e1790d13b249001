------------------------------- MODULE Stores -------------------------------
(***************************************************************************)
(* What a session leaves outside its workspace: snapshots and shared       *)
(* artifacts, each a blob with a row (handlers/snapshots.go, artifacts.go,  *)
(* internal/artifacts).  Requests interleave between any two calls.        *)
(* Contents, names and access checks, which can only refuse a request, are *)
(* left out.                                                               *)
(***************************************************************************)
EXTENDS Naturals, FiniteSets, FiniteSetsExt

CONSTANTS
  StClients,  \* concurrent requests
  StSnaps,    \* bound: the snapshots that can ever be made
  StArts,     \* bound: the artifacts one caller can ever promote
  StSizes,    \* sizes an artifact may have
  StQuota,    \* MAX_ARTIFACT_STORAGE_MB
  StFaulty    \* requests that may meet a store or database error

ASSUME StoresAssumption ==
  /\ IsFiniteSet(StClients) /\ StClients # {}
  /\ IsFiniteSet(StArts) /\ StSnaps \cap StArts = {}
  /\ StSizes \subseteq Nat /\ StSizes # {} /\ IsFiniteSet(StSizes)
  /\ StQuota \in Nat /\ StFaulty \subseteq StClients
  /\ "none" \notin StSnaps \cup StArts

VARIABLES
  stRows,    \* session_snapshots and shared_artifacts: identity and size
  stBlobs,   \* archives on disk, objects of the artifact store
  stMade,    \* identities taken
  stUnsure,  \* rows whose insertion was applied but answered an error
  stPc,      \* where each request is
  stItem,    \* the blob it works on
  stSize     \* the size the source had when it was opened

stVars == <<stRows, stBlobs, stMade, stUnsure, stPc, stItem, stSize>>

StItems == StSnaps \cup StArts
StSteps == {"idle", "put", "insert", "deleteRow", "deleteBlob"}

StTypeOK ==
  /\ stRows \subseteq [id : StItems, size : StSizes \cup {0}]
  /\ stBlobs \subseteq StItems /\ stMade \subseteq StItems /\ stUnsure \subseteq StItems
  /\ stPc \in [StClients -> StSteps]
  /\ stItem \in [StClients -> StItems \cup {"none"}]
  /\ stSize \in [StClients -> StSizes \cup {0}]

StInit ==
  /\ stRows = {} /\ stBlobs = {} /\ stMade = {} /\ stUnsure = {}
  /\ stPc = [c \in StClients |-> "idle"]
  /\ stItem = [c \in StClients |-> "none"]
  /\ stSize = [c \in StClients |-> 0]

StGoto(c, step, item, n) ==
  /\ stPc' = [stPc EXCEPT ![c] = step]
  /\ stItem' = [stItem EXCEPT ![c] = item]
  /\ stSize' = [stSize EXCEPT ![c] = n]
StLeave(c) == StGoto(c, "idle", "none", 0)
StThen(c, step) == StGoto(c, step, stItem[c], stSize[c])

StRow(i) == {r \in stRows : r.id = i}
StUsed == MapThenSumSet(LAMBDA r : r.size, {r \in stRows : r.id \in StArts})

-----------------------------------------------------------------------------
(* Snapshots and artifacts: the blob, then the row; the row, then the blob. *)

\* TotalArtifactBytes and the size the source had when it was opened.
StFits(n) == StUsed + n <= StQuota

\* Promote opens the source and checks the caller's quota.
StPromote(c) ==
  /\ stPc[c] = "idle"
  /\ \E a \in StArts \ stMade, n \in StSizes :
       /\ StFits(n)
       /\ stMade' = stMade \cup {a}
       /\ StGoto(c, "put", a, n)
  /\ UNCHANGED <<stRows, stBlobs, stUnsure>>

\* A snapshot has no quota; its size is left out.
StSnapshot(c) ==
  /\ stPc[c] = "idle"
  /\ \E i \in StSnaps \ stMade :
       stMade' = stMade \cup {i} /\ StGoto(c, "put", i, 0)
  /\ UNCHANGED <<stRows, stBlobs, stUnsure>>

\* CreateSnapshot and Put; each removes what it wrote when it fails.
StPut(c) ==
  /\ stPc[c] = "put"
  /\ \/ stBlobs' = stBlobs \cup {stItem[c]} /\ StThen(c, "insert")
     \/ c \in StFaulty /\ StLeave(c) /\ UNCHANGED stBlobs
  /\ UNCHANGED <<stRows, stMade, stUnsure>>

\* The row; when that fails the blob is removed again.
StInsert(c) ==
  LET row == [id |-> stItem[c], size |-> stSize[c]]
  IN /\ stPc[c] = "insert" /\ StLeave(c)
     /\ \/ stRows' = stRows \cup {row} /\ UNCHANGED <<stBlobs, stUnsure>>
        \/ /\ c \in StFaulty
           /\ stBlobs' = stBlobs \ {stItem[c]}
           /\ \/ UNCHANGED <<stRows, stUnsure>>
              \/ stRows' = stRows \cup {row} /\ stUnsure' = stUnsure \cup {stItem[c]}
     /\ UNCHANGED <<stMade>>

StGet(c) ==
  /\ stPc[c] = "idle"
  /\ \E r \in stRows : StGoto(c, "deleteRow", r.id, 0)
  /\ UNCHANGED <<stRows, stBlobs, stMade, stUnsure>>

\* A mutant: the blob goes with the lookup, before the row.
StDeleteRowLast(c) ==
  /\ stPc[c] = "deleteRow"
  /\ stBlobs' = stBlobs \ {stItem[c]}
  /\ StThen(c, "deleteBlob")
  /\ UNCHANGED <<stRows, stMade, stUnsure>>

\* DELETE ... RETURNING: the second of two callers finds no row.
StDeleteRow(c) ==
  /\ stPc[c] = "deleteRow"
  /\ \/ /\ StRow(stItem[c]) # {}
        /\ stRows' = stRows \ StRow(stItem[c])
        /\ StThen(c, "deleteBlob")
     \/ /\ StRow(stItem[c]) = {} \/ c \in StFaulty
        /\ StLeave(c) /\ UNCHANGED stRows
  /\ UNCHANGED <<stBlobs, stMade, stUnsure>>

\* A blob that cannot be deleted is logged and stays.
StDeleteBlob(c) ==
  /\ stPc[c] = "deleteBlob" /\ StLeave(c)
  /\ \/ stBlobs' = stBlobs \ {stItem[c]}
     \/ c \in StFaulty /\ UNCHANGED stBlobs
  /\ UNCHANGED <<stRows, stMade, stUnsure>>

StNext ==
  \E c \in StClients :
    StPromote(c) \/ StSnapshot(c) \/ StPut(c) \/ StInsert(c) \/ StGet(c)
      \/ StDeleteRow(c) \/ StDeleteBlob(c)

StSpec == StInit /\ [][StNext]_stVars

-----------------------------------------------------------------------------
(* Properties. *)

\* A snapshot or artifact that is listed can be downloaded, whoever deletes it
\* twice or fails half way; a lost answer to the insertion is the exception.
StRowHasBlob == \A r \in stRows : r.id \in stBlobs \cup stUnsure
=============================================================================
