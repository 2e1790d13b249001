---------------------------- MODULE RecordsProofs ----------------------------
(***************************************************************************)
(* Proofs about the records the API keeps: blobs and their rows (Stores),  *)
(* templates and their launches (Templates), missions (Missions), the file *)
(* index of a session (FileList), what it is billed for (Costs), the       *)
(* reports of that (CostReports), the store of checkpoints (Checkpoints),  *)
(* the exports of its audit trail (AuditExport), the verdicts on a pack    *)
(* (Verification) and the pack itself (Evidence), for every set of clients,*)
(* items and runs. Each component has an inductive invariant of its own;   *)
(* the safety property follows from it.                                    *)
(***************************************************************************)
EXTENDS MCRecords, CollabProofs, FiniteSetTheorems, FunctionTheorems,
        WellFoundedInduction, TLAPS

-----------------------------------------------------------------------------
(* Artifacts and snapshots *)

\* A request that has taken an identity and not yet inserted its row.
StMaking(c) == stPc[c] \in {"put", "insert"}

\* A new item belongs to one request and has no row yet; its blob is there
\* before the row, and an item whose blob is being deleted has no row any more.
StInv ==
  /\ \A r \in stRows : r.id \in stMade
  /\ \A c \in StClients :
       /\ stPc[c] # "idle" => stItem[c] \in stMade
       /\ StMaking(c) \/ stPc[c] = "deleteBlob" => \A r \in stRows : r.id # stItem[c]
       /\ stPc[c] = "insert" => stItem[c] \in stBlobs
  /\ \A c, d \in StClients :
       c # d /\ StMaking(c) /\ stPc[d] # "idle" => stItem[c] # stItem[d]

StIInv == StTypeOK /\ StInv /\ StRowHasBlob

LEMMA StInitIInv == StInit => StIInv
  BY StoresAssumption DEF StInit, StIInv, StTypeOK, StInv, StMaking, StRowHasBlob, StSteps

\* Where a request goes next, it works on an item and knows a size.
LEMMA StGotoType ==
  ASSUME StTypeOK, NEW c \in StClients, NEW step \in StSteps,
         NEW item \in StItems \cup {"none"}, NEW n \in StSizes \cup {0}, StGoto(c, step, item, n)
  PROVE  /\ stPc' \in [StClients -> StSteps]
         /\ stItem' \in [StClients -> StItems \cup {"none"}]
         /\ stSize' \in [StClients -> StSizes \cup {0}]
         /\ stPc'[c] = step /\ stItem'[c] = item /\ stSize'[c] = n
         /\ \A d \in StClients \ {c} : stPc'[d] = stPc[d] /\ stItem'[d] = stItem[d]
  BY DEF StTypeOK, StGoto

\* A request that ends works on nothing.
LEMMA StLeaveType ==
  ASSUME StTypeOK, NEW c \in StClients, StLeave(c)
  PROVE  /\ stPc' \in [StClients -> StSteps]
         /\ stItem' \in [StClients -> StItems \cup {"none"}]
         /\ stSize' \in [StClients -> StSizes \cup {0}]
         /\ stPc'[c] = "idle"
         /\ \A d \in StClients \ {c} : stPc'[d] = stPc[d] /\ stItem'[d] = stItem[d]
  BY StGotoType DEF StLeave, StSteps

\* Taking an identity, for an artifact or a snapshot.
LEMMA StTakeIInv ==
  ASSUME StIInv, NEW c \in StClients, NEW i \in StItems \ stMade, NEW n \in StSizes \cup {0},
         stPc[c] = "idle", stMade' = stMade \cup {i}, StGoto(c, "put", i, n),
         UNCHANGED <<stRows, stBlobs, stUnsure>>
  PROVE  StIInv'
<1>1. StTypeOK'
  BY StGotoType DEF StIInv, StTypeOK, StSteps
<1>2. StInv'
  BY StGotoType DEF StIInv, StTypeOK, StInv, StMaking, StSteps
<1> QED
  BY <1>1, <1>2 DEF StIInv, StRowHasBlob

LEMMA StPutIInv ==
  ASSUME StIInv, NEW c \in StClients, StPut(c)
  PROVE  StIInv'
<1> USE DEF StIInv, StPut
<1>1. CASE stBlobs' = stBlobs \cup {stItem[c]} /\ StThen(c, "insert")
  <2>1. StGoto(c, "insert", stItem[c], stSize[c]) /\ stItem[c] \in stMade
    BY <1>1 DEF StThen, StInv
  <2>2. StTypeOK'
    BY <1>1, <2>1, StGotoType DEF StTypeOK, StSteps
  <2>3. StInv'
    BY <1>1, <2>1, StGotoType DEF StTypeOK, StInv, StMaking, StSteps
  <2> QED
    BY <1>1, <2>2, <2>3 DEF StRowHasBlob
<1>2. CASE StLeave(c) /\ UNCHANGED stBlobs
  <2>1. StTypeOK'
    BY <1>2, StLeaveType DEF StTypeOK
  <2>2. StInv'
    BY <1>2, StLeaveType DEF StInv, StMaking
  <2> QED
    BY <1>2, <2>1, <2>2 DEF StRowHasBlob
<1> QED
  BY <1>1, <1>2

LEMMA StInsertIInv ==
  ASSUME StIInv, NEW c \in StClients, StInsert(c)
  PROVE  StIInv'
<1> DEFINE row == [id |-> stItem[c], size |-> stSize[c]]
<1>1. /\ StTypeOK /\ StInv /\ StRowHasBlob
      /\ stPc[c] = "insert" /\ StLeave(c) /\ stMade' = stMade
  BY DEF StIInv, StInsert
<1>2. stItem[c] \in stMade /\ stItem[c] \in stBlobs /\ row \in [id : StItems, size : StSizes \cup {0}]
  BY <1>1 DEF StInv, StTypeOK
<1>3. \A d \in StClients \ {c} : stPc[d] # "idle" => stItem[d] # stItem[c]
  BY <1>1 DEF StInv, StMaking
<1>4. CASE stRows' = stRows \cup {row} /\ UNCHANGED <<stBlobs, stUnsure>>
  <2>1. StTypeOK'
    BY <1>1, <1>2, <1>4, StLeaveType DEF StTypeOK
  <2>2. StInv'
    BY <1>1, <1>2, <1>3, <1>4, StLeaveType DEF StInv, StMaking
  <2>3. StRowHasBlob'
    BY <1>1, <1>2, <1>4 DEF StRowHasBlob
  <2> QED
    BY <2>1, <2>2, <2>3 DEF StIInv
<1>5. CASE /\ stBlobs' = stBlobs \ {stItem[c]}
           /\ \/ UNCHANGED <<stRows, stUnsure>>
              \/ stRows' = stRows \cup {row} /\ stUnsure' = stUnsure \cup {stItem[c]}
  <2>1. StTypeOK'
    BY <1>1, <1>2, <1>5, StLeaveType DEF StTypeOK
  <2>2. StInv'
    BY <1>1, <1>2, <1>3, <1>5, StLeaveType DEF StInv, StMaking
  <2>3. StRowHasBlob'
    BY <1>1, <1>5 DEF StRowHasBlob, StInv, StMaking
  <2> QED
    BY <2>1, <2>2, <2>3 DEF StIInv
<1> QED
  BY <1>4, <1>5 DEF StInsert

LEMMA StDeleteIInv ==
  ASSUME StIInv, NEW c \in StClients, StGet(c) \/ StDeleteRow(c) \/ StDeleteBlob(c)
  PROVE  StIInv'
<1> USE DEF StIInv, StSteps
<1>1. CASE StGet(c)
  <2>1. PICK r \in stRows : StGoto(c, "deleteRow", r.id, 0)
    BY <1>1 DEF StGet
  <2>2. r.id \in StItems /\ UNCHANGED <<stRows, stBlobs, stMade, stUnsure>> /\ stPc[c] = "idle"
    BY <1>1 DEF StGet, StTypeOK
  <2>3. StTypeOK'
    BY <2>1, <2>2, StGotoType DEF StTypeOK
  <2>4. StInv'
    BY <2>1, <2>2, StGotoType DEF StTypeOK, StInv, StMaking
  <2> QED
    BY <2>2, <2>3, <2>4 DEF StRowHasBlob
<1>2. CASE /\ StDeleteRow(c)
           /\ stRows' = stRows \ StRow(stItem[c]) /\ StThen(c, "deleteBlob")
  <2>1. /\ StGoto(c, "deleteBlob", stItem[c], stSize[c]) /\ stPc[c] = "deleteRow"
        /\ UNCHANGED <<stBlobs, stMade, stUnsure>> /\ stItem[c] \in stMade
    BY <1>2 DEF StDeleteRow, StThen, StInv
  <2>2. StTypeOK'
    BY <1>2, <2>1, StGotoType DEF StTypeOK
  <2>3. StInv'
    BY <1>2, <2>1, StGotoType DEF StTypeOK, StInv, StMaking, StRow
  <2> QED
    BY <1>2, <2>1, <2>2, <2>3 DEF StRowHasBlob
<1>3. CASE StLeave(c) /\ UNCHANGED <<stRows, stBlobs, stMade, stUnsure>>
  <2>1. StTypeOK'
    BY <1>3, StLeaveType DEF StTypeOK
  <2>2. StInv'
    BY <1>3, StLeaveType DEF StInv, StMaking
  <2> QED
    BY <1>3, <2>1, <2>2 DEF StRowHasBlob
<1>4. CASE StDeleteBlob(c) /\ stBlobs' = stBlobs \ {stItem[c]}
  <2>1. /\ StLeave(c) /\ stPc[c] = "deleteBlob"
        /\ UNCHANGED <<stRows, stMade, stUnsure>>
    BY <1>4 DEF StDeleteBlob
  <2>2. StTypeOK'
    BY <1>4, <2>1, StLeaveType DEF StTypeOK
  <2>3. StInv'
    BY <1>4, <2>1, StLeaveType DEF StInv, StMaking
  <2>4. StRowHasBlob'
    BY <1>4, <2>1 DEF StRowHasBlob, StInv
  <2> QED
    BY <2>2, <2>3, <2>4
<1> QED
  BY <1>1, <1>2, <1>3, <1>4 DEF StDeleteRow, StDeleteBlob

LEMMA StNextIInv == StIInv /\ [StNext]_stVars => StIInv'
<1> SUFFICES ASSUME StIInv, [StNext]_stVars
             PROVE  StIInv'
  OBVIOUS
<1>1. ASSUME NEW c \in StClients, StPromote(c) \/ StSnapshot(c)
      PROVE  StIInv'
  <2>1. PICK i \in StItems \ stMade, n \in StSizes \cup {0} :
          stMade' = stMade \cup {i} /\ StGoto(c, "put", i, n)
    BY <1>1 DEF StPromote, StSnapshot, StItems
  <2> QED
    BY <1>1, <2>1, StTakeIInv DEF StPromote, StSnapshot
<1>2. CASE UNCHANGED stVars
  BY <1>2 DEF stVars, StIInv, StTypeOK, StInv, StMaking, StRowHasBlob
<1> QED
  BY <1>1, <1>2, StPutIInv, StInsertIInv, StDeleteIInv DEF StNext

\* Whatever two requests delete at once and whatever fails, a snapshot or an
\* artifact that is listed has its archive or object, except after an insertion
\* whose answer was lost (handlers/snapshots.go, artifacts.go).
THEOREM StoredRowsHaveBlobs == StSpec => [](StTypeOK /\ StRowHasBlob)
<1>1. StSpec => []StIInv
  BY StInitIInv, StNextIInv, PTL DEF StSpec
<1> QED
  BY <1>1, PTL DEF StIInv

-----------------------------------------------------------------------------
(* Templates *)

\* What a request may hold between two of its statements.
TeRequests ==
  {TeIdle} \cup [step : {"update", "use"}, id : TeIds, row : TeRow]
    \cup [step : {"link", "usage"}, id : TeIds] \cup [step : {"insert"}, slug : TeSlugs]

TeIInv == TeTypeOK /\ teAt \in [TeClients -> TeRequests] /\ TeUsesCounted

LEMMA TeRowKinds ==
  /\ TeNone \notin TeRow /\ TeGone \notin TeRow /\ TeNone.uses = 0 /\ TeGone.uses = 0
  /\ \A r \in TeRow \cup {TeNone, TeGone} : r.uses \in 0..TeMaxUses
  /\ \A slug \in TeSlugs, p \in BOOLEAN :
       [TeNone EXCEPT !.slug = slug, !.published = p] \in TeRow
  /\ \A slug \in TeSlugs : [TeNone EXCEPT !.slug = slug] \in TeRow
<1> DEFINE AnyRow == [slug : {"never", "deleted"} \cup TeSlugs, image : TeImages,
                   published : BOOLEAN, uses : 0..TeMaxUses]
<1>1. TeNone \in AnyRow /\ TeNone.slug = "never" /\ TeNone.uses = 0
  BY TemplatesAssumption DEF TeNone, TeImages
<1>2. TeGone \in AnyRow /\ TeGone.slug = "deleted" /\ TeGone.uses = 0
  BY <1>1 DEF TeGone
<1>3. TeNone \notin TeRow /\ TeGone \notin TeRow
  BY <1>1, <1>2 DEF TeRow, TeSlugs
<1>4. \A r \in TeRow \cup {TeNone, TeGone} : r.uses \in 0..TeMaxUses
  BY <1>1, <1>2, TemplatesAssumption DEF TeRow
<1>5. \A slug \in TeSlugs, p \in BOOLEAN :
        [TeNone EXCEPT !.slug = slug, !.published = p] \in TeRow
  BY <1>1 DEF TeRow
<1>6. \A slug \in TeSlugs : [TeNone EXCEPT !.slug = slug] \in TeRow
  BY <1>1 DEF TeRow
<1> QED
  BY <1>1, <1>2, <1>3, <1>4, <1>5, <1>6

LEMMA TeInitIInv == TeInit => TeIInv
<1> SUFFICES ASSUME TeInit PROVE TeIInv
  OBVIOUS
<1>1. teAt \in [TeClients -> TeRequests] /\ \A c \in TeClients : teAt[c] = TeIdle
  BY DEF TeInit, TeRequests
<1>2. TeTypeOK
  BY <1>1, TemplatesAssumption DEF TeInit, TeTypeOK
<1> QED
  BY <1>1, <1>2, TeRowKinds DEF TeIInv, TeInit, TeUsesCounted

\* Failures are counted up to their bound.
LEMMA TeFailsType ==
  ASSUME TeIInv, TeFail \/ UNCHANGED teFails
  PROVE  teFails' \in 0..TeMaxFails
  BY TemplatesAssumption DEF TeIInv, TeTypeOK, TeFail

\* A request that goes on holds what the next statement needs.
LEMMA TeDoesType ==
  ASSUME TeIInv, NEW c \in TeClients, NEW next \in TeRequests, TeDoes(c, next)
  PROVE  /\ teAt' \in [TeClients -> TeRequests]
         /\ \A d \in TeClients : teAt'[d] = IF d = c THEN next ELSE teAt[d]
  BY DEF TeIInv, TeDoes

\* The kinds of request of the type invariant are those of TeRequests.
LEMMA TeRequestKinds ==
  ASSUME teAt' \in [TeClients -> TeRequests], NEW c \in TeClients
  PROVE  \/ teAt'[c] = TeIdle
         \/ teAt'[c] \in [step : {"update", "use"}, id : TeIds, row : TeRow]
         \/ teAt'[c] \in [step : {"link", "usage"}, id : TeIds]
         \/ teAt'[c] \in [step : {"insert"}, slug : TeSlugs]
  BY DEF TeRequests

LEMMA TeAtKinds ==
  ASSUME TeIInv, NEW c \in TeClients
  PROVE  /\ TeIs(c, "insert") => teAt[c].slug \in TeSlugs
         /\ TeIs(c, "update") \/ TeIs(c, "use") => teAt[c].id \in TeIds /\ teAt[c].row \in TeRow
         /\ TeIs(c, "link") =>
              /\ teAt[c].id \in TeIds
              /\ [teAt[c] EXCEPT !.step = "usage"] \in [step : {"link", "usage"}, id : TeIds]
         /\ TeIs(c, "usage") => teAt[c].id \in TeIds
         /\ teAt[c] \in TeRequests
  BY DEF TeIInv, TeIs, TeRequests, TeIdle

\* A row that is written over keeps the count the trigger gave it.
LEMMA TePutCounted ==
  ASSUME TeIInv, NEW i \in TeIds, NEW row \in TeRow \cup {TeNone, TeGone}, TePut(i, row),
         row.uses = teUsed[i], teUsed' = teUsed
  PROVE  /\ teRows' \in [TeIds -> TeRow \cup {TeNone, TeGone}]
         /\ TeUsesCounted'
  BY DEF TeIInv, TeTypeOK, TePut, TeUsesCounted

\* Bootstrap and restarts.
LEMMA TeBootIInv ==
  ASSUME TeIInv, NEW n \in TeInstances,
         TeBootChecks(n) \/ TeBootInserts(n) \/ TeRestart(n)
  PROVE  TeIInv'
<1>1. CASE UNCHANGED teRows
  BY <1>1 DEF TeIInv, TeTypeOK, TeUsesCounted, TeBootChecks, TeBootInserts, TeRestart
<1>2. CASE /\ TeBootInserts(n) /\ ~TeThere("builtin")
           /\ TePut("builtin", [TeNone EXCEPT !.slug = "builtin", !.published = TRUE])
  <2> DEFINE row == [TeNone EXCEPT !.slug = "builtin", !.published = TRUE]
  <2>1. row \in TeRow /\ row.uses = 0
    BY TeRowKinds DEF TeSlugs, TeNone
  <2>2. teRows["builtin"].uses = 0 /\ teUsed["builtin"] = 0
    BY <1>2, TeRowKinds DEF TeIInv, TeThere, TeUsesCounted, TeIds
  <2>3. /\ teRows' \in [TeIds -> TeRow \cup {TeNone, TeGone}] /\ TeUsesCounted'
    BY <1>2, <2>1, <2>2, TePutCounted DEF TeBootInserts, TeIds
  <2> QED
    BY <1>2, <2>3 DEF TeIInv, TeTypeOK, TeBootInserts
<1> QED
  BY <1>1, <1>2 DEF TeBootChecks, TeBootInserts, TeRestart

LEMMA TeDeleteIInv ==
  ASSUME TeIInv, NEW i \in TeIds, TeDelete(i)
  PROVE  TeIInv'
  BY TeRowKinds, TemplatesAssumption DEF TeIInv, TeTypeOK, TeUsesCounted, TeDelete, TeDrop, TePut

\* Requests that read a template, or write none.
LEMMA TeReadIInv ==
  ASSUME TeIInv, NEW c \in TeClients, UNCHANGED <<teRows, teUsed, teStart>>,
         teFails' \in 0..TeMaxFails, NEW next \in TeRequests, TeDoes(c, next)
  PROVE  TeIInv'
<1>1. teAt' \in [TeClients -> TeRequests]
  BY TeDoesType
<1>2. TeTypeOK'
  BY <1>1, TeRequestKinds DEF TeIInv, TeTypeOK
<1> QED
  BY <1>1, <1>2 DEF TeIInv, TeUsesCounted

LEMMA TeGetIInv ==
  ASSUME TeIInv, NEW c \in TeClients,
         \/ \E slug \in TeSlugs : TeCreate(c, slug)
         \/ \E i \in TeIds : TeGet(c, i, "update") \/ TeGet(c, i, "use")
  PROVE  TeIInv'
<1>1. CASE \E slug \in TeSlugs : TeCreate(c, slug)
  <2>1. PICK slug \in TeSlugs : TeCreate(c, slug)
    BY <1>1
  <2>2. [step |-> "insert", slug |-> slug] \in TeRequests
    BY DEF TeRequests
  <2> QED
    BY <2>1, <2>2, TeReadIInv DEF TeCreate, TeIInv, TeTypeOK
<1>2. CASE \E i \in TeIds : TeGet(c, i, "update") \/ TeGet(c, i, "use")
  <2>1. PICK i \in TeIds, step \in {"update", "use"} : TeGet(c, i, step)
    BY <1>2
  <2>2. [step |-> step, id |-> i, row |-> teRows[i]] \in TeRequests
    BY <2>1 DEF TeRequests, TeGet, TeThere, TeIInv, TeTypeOK
  <2> QED
    BY <2>1, <2>2, TeReadIInv DEF TeGet, TeIInv, TeTypeOK
<1> QED
  BY <1>1, <1>2

LEMMA TeUseIInv ==
  ASSUME TeIInv, NEW c \in TeClients, TeUse(c) \/ TeLink(c)
  PROVE  TeIInv'
<1>1. PICK next \in TeRequests : TeDoes(c, next)
  <2>1. TeIdle \in TeRequests
    BY DEF TeRequests
  <2>2. TeUse(c) => [step |-> "link", id |-> teAt[c].id] \in TeRequests
    BY TeAtKinds DEF TeUse, TeRequests
  <2>3. TeLink(c) => [teAt[c] EXCEPT !.step = "usage"] \in TeRequests
    BY TeAtKinds DEF TeLink, TeRequests
  <2> QED
    BY <2>1, <2>2, <2>3 DEF TeUse, TeLink
<1>2. UNCHANGED <<teRows, teUsed, teStart>> /\ teFails' \in 0..TeMaxFails
  BY TeFailsType DEF TeUse, TeLink
<1> QED
  BY <1>1, <1>2, TeReadIInv

\* Requests that write a row: create, update and the recorded use.
LEMMA TeWriteIInv ==
  ASSUME TeIInv, NEW c \in TeClients, TeDoes(c, TeIdle), UNCHANGED teStart,
         teFails' \in 0..TeMaxFails, teRows' \in [TeIds -> TeRow \cup {TeNone, TeGone}],
         teUsed' \in [TeIds -> 0..TeMaxUses], TeUsesCounted'
  PROVE  TeIInv'
<1>1. teAt' \in [TeClients -> TeRequests]
  BY TeDoesType DEF TeRequests
<1> QED
  BY <1>1, TeRequestKinds DEF TeIInv, TeTypeOK

LEMMA TeInsertIInv ==
  ASSUME TeIInv, NEW c \in TeClients, TeInsert(c)
  PROVE  TeIInv'
<1>1. /\ TeDoes(c, TeIdle) /\ UNCHANGED <<teUsed, teStart>> /\ teFails' \in 0..TeMaxFails
      /\ teUsed' \in [TeIds -> 0..TeMaxUses]
  BY TeFailsType DEF TeInsert, TeIInv, TeTypeOK
<1>2. CASE UNCHANGED teRows
  BY <1>1, <1>2, TeWriteIInv DEF TeIInv, TeTypeOK, TeUsesCounted
<1>3. CASE teRows["custom"] = TeNone /\ TePut("custom", [TeNone EXCEPT !.slug = teAt[c].slug])
  <2> DEFINE row == [TeNone EXCEPT !.slug = teAt[c].slug]
  <2>1. row \in TeRow /\ row.uses = 0
    BY TeRowKinds, TeAtKinds DEF TeInsert, TeNone
  <2>2. teUsed["custom"] = 0
    BY <1>3, TeRowKinds DEF TeIInv, TeUsesCounted, TeIds
  <2>3. teRows' \in [TeIds -> TeRow \cup {TeNone, TeGone}] /\ TeUsesCounted'
    BY <1>1, <1>3, <2>1, <2>2, TePutCounted DEF TeIds
  <2> QED
    BY <1>1, <2>3, TeWriteIInv
<1> QED
  BY <1>2, <1>3 DEF TeInsert

LEMMA TeUpdateIInv ==
  ASSUME TeIInv, NEW c \in TeClients, TeUpdate(c)
  PROVE  TeIInv'
<1>1. /\ TeDoes(c, TeIdle) /\ UNCHANGED <<teUsed, teStart>> /\ teFails' \in 0..TeMaxFails
      /\ teUsed' \in [TeIds -> 0..TeMaxUses] /\ teAt[c].id \in TeIds
  BY TeFailsType, TeAtKinds DEF TeUpdate, TeIInv, TeTypeOK
<1>2. CASE UNCHANGED teRows
  BY <1>1, <1>2, TeWriteIInv DEF TeIInv, TeTypeOK, TeUsesCounted
<1>3. CASE /\ TeThere(teAt[c].id)
           /\ \/ \E image \in TeImages : TePut(teAt[c].id, [TeBase(c) EXCEPT !.image = image])
              \/ \E p \in BOOLEAN : TePut(teAt[c].id, [TeBase(c) EXCEPT !.published = p])
  <2>1. PICK row \in TeRow : TePut(teAt[c].id, row) /\ row.uses = teRows[teAt[c].id].uses
    <3>1. TeBase(c) \in TeRow
      BY <1>1, <1>3 DEF TeBase, TeThere, TeIInv, TeTypeOK
    <3>2. /\ \A image \in TeImages : [TeBase(c) EXCEPT !.image = image] \in TeRow
          /\ \A p \in BOOLEAN : [TeBase(c) EXCEPT !.published = p] \in TeRow
      BY <3>1 DEF TeRow
    <3>3. /\ \A image \in TeImages : [TeBase(c) EXCEPT !.image = image].uses = TeBase(c).uses
          /\ \A p \in BOOLEAN : [TeBase(c) EXCEPT !.published = p].uses = TeBase(c).uses
      BY <3>1 DEF TeRow
    <3> QED
      BY <1>3, <3>2, <3>3 DEF TeBase
  <2>2. teRows' \in [TeIds -> TeRow \cup {TeNone, TeGone}] /\ TeUsesCounted'
    BY <1>1, <2>1, TePutCounted DEF TeIInv, TeUsesCounted
  <2> QED
    BY <1>1, <2>2, TeWriteIInv
<1> QED
  BY <1>2, <1>3 DEF TeUpdate

LEMMA TeRecordUsageIInv ==
  ASSUME TeIInv, NEW c \in TeClients, TeRecordUsage(c)
  PROVE  TeIInv'
<1> DEFINE i == teAt[c].id
<1>1. /\ TeDoes(c, TeIdle) /\ UNCHANGED teStart /\ teFails' \in 0..TeMaxFails /\ i \in TeIds
  BY TeFailsType, TeAtKinds DEF TeRecordUsage
<1>2. CASE UNCHANGED <<teRows, teUsed>>
  BY <1>1, <1>2, TeWriteIInv DEF TeIInv, TeTypeOK, TeUsesCounted
<1>3. CASE /\ TeThere(i) /\ teUsed[i] < TeMaxUses /\ teUsed' = [teUsed EXCEPT ![i] = @ + 1]
           /\ TePut(i, [teRows[i] EXCEPT !.uses = @ + 1])
  <2>1. teRows[i] \in TeRow /\ teRows[i].uses = teUsed[i] /\ teUsed[i] \in 0..TeMaxUses
    BY <1>1, <1>3 DEF TeIInv, TeTypeOK, TeThere, TeUsesCounted
  <2>2. [teRows[i] EXCEPT !.uses = @ + 1] \in TeRow
    BY <1>3, <2>1, TemplatesAssumption DEF TeRow
  <2>3. teUsed' \in [TeIds -> 0..TeMaxUses]
    BY <1>1, <1>3, <2>1, TemplatesAssumption DEF TeIInv, TeTypeOK
  <2>4. teRows' \in [TeIds -> TeRow \cup {TeNone, TeGone}]
    BY <1>1, <1>3, <2>2 DEF TeIInv, TeTypeOK, TePut
  <2>5. teRows'[i].uses = teRows[i].uses + 1
    BY <1>1, <1>3, <2>1 DEF TeIInv, TeTypeOK, TePut, TeRow
  <2>6. TeUsesCounted'
    BY <1>1, <1>3, <2>1, <2>5 DEF TeIInv, TeTypeOK, TePut, TeUsesCounted
  <2> QED
    BY <1>1, <2>3, <2>4, <2>6, TeWriteIInv
<1> QED
  BY <1>2, <1>3 DEF TeRecordUsage

LEMMA TeNextIInv == TeIInv /\ [TeNext]_teVars => TeIInv'
<1> SUFFICES ASSUME TeIInv, [TeNext]_teVars
             PROVE  TeIInv'
  OBVIOUS
<1>1. CASE UNCHANGED teVars
  BY <1>1 DEF teVars, TeIInv, TeTypeOK, TeUsesCounted
<1> QED
  BY <1>1, TeBootIInv, TeDeleteIInv, TeGetIInv, TeInsertIInv, TeUpdateIInv, TeUseIInv,
     TeRecordUsageIInv DEF TeNext

\* However updates, uses, deletions and restarts of the API overlap and fail,
\* the use_count of a template is the number of its recorded uses
\* (internal/templates): no update writes back a count it read earlier.
THEOREM TemplateUsesCounted == TeSpec => [](TeTypeOK /\ TeUsesCounted)
<1>1. TeSpec => []TeIInv
  BY TeInitIInv, TeNextIInv, PTL DEF TeSpec
<1> QED
  BY <1>1, PTL DEF TeIInv

-----------------------------------------------------------------------------
(* Missions *)

\* What a request may hold between two of its statements.
MiRequests ==
  {MiIdle, [step |-> "insert"]}
    \cup [step : {"update"}, id : MiIds, published : BOOLEAN]
    \cup [step : {"record"}, id : MiIds]
    \cup [step : {"change"}, run : MiRuns, status : MiStatuses]
    \cup [step : {"sum"}, run : MiRuns]
    \cup [step : {"upsert"}, run : MiRuns, cost : 0..MiMaxCost]

MiRunsOf(i) == {r \in MiRuns : MiRecorded(r) /\ miRunRow[r].mission = i}

\* A recorded run belongs to a mission that is there: both go together.
MiInv ==
  /\ miRows \in [MiIds -> MiRow \cup {MiNone, MiGone}]
  /\ miRunRow \in [MiRuns -> MiRunRows \cup {MiNone, MiGone}]
  /\ miAt \in [MiClients -> MiRequests]
  /\ miCost \in 0..MiMaxCost
  /\ \A r \in MiRuns : MiRecorded(r) => MiThere(miRunRow[r].mission)

MiIInv == MiInv /\ MiRecordsAgree

LEMMA MiKinds ==
  /\ MiNone \notin MiRow /\ MiGone \notin MiRow /\ MiNone \notin MiRunRows /\ MiGone \notin MiRunRows
  /\ MiNone.state = "never" /\ MiGone.state = "deleted" /\ MiIdle \in MiRequests
  /\ \A i \in MiIds : miRows \in [MiIds -> MiRow \cup {MiNone, MiGone}] =>
       (MiThere(i) <=> miRows[i] \in MiRow)
  /\ \A r \in MiRuns : miRunRow \in [MiRuns -> MiRunRows \cup {MiNone, MiGone}] =>
       (MiRecorded(r) <=> miRunRow[r] \in MiRunRows)
  BY DEF MiNone, MiGone, MiRow, MiRunRows, MiThere, MiRecorded, MiIdle, MiRequests

LEMMA MiIInvType == MiInv => MiTypeOK
  BY DEF MiInv, MiTypeOK, MiRequests

LEMMA MiInitIInv == MiInit => MiIInv
<1> SUFFICES ASSUME MiInit PROVE MiIInv
  OBVIOUS
<1>1. miRows = [i \in MiIds |-> MiNone] /\ miRunRow = [r \in MiRuns |-> MiNone]
  BY DEF MiInit
<1>2. \A r \in MiRuns : ~MiRecorded(r)
  BY <1>1, MiKinds DEF MiRecorded
<1>3. \A i \in MiIds : ~MiThere(i)
  BY <1>1, MiKinds DEF MiThere
<1>4. MiInv
  BY <1>1, <1>2, MiKinds, MissionsAssumption DEF MiInit, MiInv
<1> QED
  BY <1>2, <1>3, <1>4 DEF MiIInv, MiRecordsAgree

LEMMA MiRunsOfCount ==
  ASSUME NEW i
  PROVE  /\ IsFiniteSet(MiRunsOf(i))
         /\ Cardinality(MiRunsOf(i)) \in 0..Cardinality(MiRuns)
<1>1. MiRunsOf(i) \subseteq MiRuns
  BY DEF MiRunsOf
<1> QED
  BY <1>1, FS_Subset, FS_CardinalityType, MissionsAssumption

LEMMA MiAtKinds ==
  ASSUME MiInv, NEW c \in MiClients
  PROVE  /\ MiIs(c, "update") => miAt[c].id \in MiIds /\ miAt[c].published \in BOOLEAN
         /\ MiIs(c, "record") => miAt[c].id \in MiIds
         /\ MiIs(c, "change") => miAt[c].run \in MiRuns /\ miAt[c].status \in MiStatuses
         /\ MiIs(c, "sum") => miAt[c].run \in MiRuns
         /\ MiIs(c, "upsert") => miAt[c].run \in MiRuns /\ miAt[c].cost \in 0..MiMaxCost
  BY DEF MiInv, MiIs, MiRequests, MiIdle

\* A request that only reads, or whose statement changes nothing.
LEMMA MiReadIInv ==
  ASSUME MiIInv, NEW c \in MiClients, NEW next \in MiRequests, MiDoes(c, next),
         UNCHANGED <<miRows, miRunRow, miCost>>
  PROVE  MiIInv'
<1>1. miAt' \in [MiClients -> MiRequests]
  BY DEF MiDoes, MiIInv, MiInv
<1> QED
  BY <1>1 DEF MiIInv, MiInv, MiRecordsAgree, MiRecorded, MiThere

LEMMA MiReadsIInv ==
  ASSUME MiIInv, NEW c \in MiClients,
         \/ MiCreate(c) \/ MiSum(c) \/ MiFail(c)
         \/ \E i \in MiIds : MiGet(c, i) \/ MiGetForRun(c, i)
         \/ \E r \in MiRuns : MiGetRun(c, r) \/ MiAttribute(c, r)
  PROVE  MiIInv'
<1>1. UNCHANGED <<miRows, miRunRow, miCost>>
  BY DEF MiCreate, MiSum, MiFail, MiGet, MiGetForRun, MiGetRun, MiAttribute
<1>2. PICK next \in MiRequests : MiDoes(c, next)
  <2>1. CASE MiCreate(c) \/ MiFail(c)
    BY <2>1, MiKinds DEF MiCreate, MiFail, MiRequests
  <2>2. CASE MiSum(c)
    <3>1. [step |-> "upsert", run |-> miAt[c].run, cost |-> miCost] \in MiRequests
      BY <2>2, MiAtKinds DEF MiSum, MiRequests, MiIInv, MiInv
    <3> QED
      BY <2>2, <3>1 DEF MiSum
  <2>3. ASSUME NEW i \in MiIds, MiGet(c, i)
        PROVE  \E next \in MiRequests : MiDoes(c, next)
    <3>1. miRows[i].published \in BOOLEAN
      BY <2>3, MiKinds DEF MiGet, MiIInv, MiInv, MiRow
    <3>2. [step |-> "update", id |-> i, published |-> miRows[i].published] \in MiRequests
      BY <3>1 DEF MiRequests
    <3> QED
      BY <2>3, <3>2 DEF MiGet
  <2>4. ASSUME NEW i \in MiIds, MiGetForRun(c, i)
        PROVE  \E next \in MiRequests : MiDoes(c, next)
    BY <2>4 DEF MiGetForRun, MiRequests
  <2>5. ASSUME NEW r \in MiRuns, MiGetRun(c, r)
        PROVE  \E next \in MiRequests : MiDoes(c, next)
    <3>1. miRunRow[r].status \in MiStatuses
      BY <2>5, MiKinds DEF MiGetRun, MiIInv, MiInv, MiRunRows
    <3>2. [step |-> "change", run |-> r, status |-> miRunRow[r].status] \in MiRequests
      BY <3>1 DEF MiRequests
    <3> QED
      BY <2>5, <3>2 DEF MiGetRun
  <2>6. ASSUME NEW r \in MiRuns, MiAttribute(c, r)
        PROVE  \E next \in MiRequests : MiDoes(c, next)
    BY <2>6 DEF MiAttribute, MiRequests
  <2> QED
    BY <2>1, <2>2, <2>3, <2>4, <2>5, <2>6
<1> QED
  BY <1>1, <1>2, MiReadIInv

\* A mission's row written over while no run is recorded or dropped.
LEMMA MiRowIInv ==
  ASSUME MiIInv, NEW c \in MiClients, NEW i \in MiIds, NEW row \in MiRow,
         miRows' = [miRows EXCEPT ![i] = row], UNCHANGED <<miRunRow, miCost>>,
         MiDoes(c, MiIdle), row.uses = Cardinality(MiRunsOf(i))
  PROVE  MiIInv'
<1>1. /\ miAt' \in [MiClients -> MiRequests]
      /\ miRows' \in [MiIds -> MiRow \cup {MiNone, MiGone}]
      /\ miRows'[i] = row /\ \A j \in MiIds \ {i} : miRows'[j] = miRows[j]
  BY MiKinds DEF MiDoes, MiIInv, MiInv
<1>2. row.state = "there"
  BY DEF MiRow
<1>3. \A r \in MiRuns : MiRecorded(r)' <=> MiRecorded(r)
  BY DEF MiRecorded
<1>4. MiInv'
  BY <1>1, <1>2, <1>3 DEF MiIInv, MiInv, MiThere
<1>5. MiRecordsAgree'
  BY <1>1, <1>2, <1>3 DEF MiIInv, MiRecordsAgree, MiThere, MiRunsOf
<1> QED
  BY <1>4, <1>5 DEF MiIInv

LEMMA MiInsertIInv ==
  ASSUME MiIInv, NEW c \in MiClients, MiInsert(c)
  PROVE  MiIInv'
<1>1. CASE UNCHANGED miRows
  BY <1>1, MiReadIInv, MiKinds DEF MiInsert
<1>2. ASSUME NEW i \in MiIds, NEW p \in BOOLEAN, miRows[i] = MiNone,
             miRows' = [miRows EXCEPT ![i] = [state |-> "there", published |-> p, uses |-> 0]]
      PROVE  MiIInv'
  <2> DEFINE row == [state |-> "there", published |-> p, uses |-> 0]
  <2>1. \A r \in MiRuns : MiRecorded(r) => miRunRow[r].mission # i
    BY <1>2, MiKinds DEF MiIInv, MiInv, MiThere
  <2>2. Cardinality(MiRunsOf(i)) = 0
    BY <2>1, FS_EmptySet DEF MiRunsOf
  <2>3. row \in MiRow /\ row.uses = 0
    BY FS_CardinalityType, MissionsAssumption DEF MiRow
  <2> QED
    BY <1>2, <2>2, <2>3, MiRowIInv DEF MiInsert
<1> QED
  BY <1>1, <1>2 DEF MiInsert

LEMMA MiUpdateIInv ==
  ASSUME MiIInv, NEW c \in MiClients, MiUpdate(c)
  PROVE  MiIInv'
<1> DEFINE i == miAt[c].id
<1>1. i \in MiIds /\ miAt[c].published \in BOOLEAN
  BY MiAtKinds DEF MiIInv, MiUpdate
<1>2. CASE UNCHANGED miRows
  BY <1>2, MiReadIInv, MiKinds DEF MiUpdate
<1>3. ASSUME NEW p \in BOOLEAN, MiThere(i), MiPublish(i, p)
      PROVE  MiIInv'
  <2> DEFINE row == [miRows[i] EXCEPT !.published = p]
  <2>1. miRows[i] \in MiRow
    BY <1>1, <1>3, MiKinds DEF MiIInv, MiInv
  <2>2. row \in MiRow /\ row.uses = miRows[i].uses
    BY <2>1 DEF MiRow
  <2>3. miRows' = [miRows EXCEPT ![i] = row]
    BY <1>1, <1>3 DEF MiPublish
  <2>4. row.uses = Cardinality(MiRunsOf(i))
    BY <1>1, <1>3, <2>2 DEF MiIInv, MiRecordsAgree, MiRunsOf
  <2> QED
    BY <1>1, <2>2, <2>3, <2>4, MiRowIInv DEF MiUpdate
<1> QED
  BY <1>1, <1>2, <1>3 DEF MiUpdate

LEMMA MiDeleteIInv ==
  ASSUME MiIInv, NEW i \in MiIds, MiDelete(i)
  PROVE  MiIInv'
<1>1. /\ miRows' = [miRows EXCEPT ![i] = MiGone]
      /\ miRunRow' = [r \in MiRuns |->
           IF MiRecorded(r) /\ miRunRow[r].mission = i THEN MiGone ELSE miRunRow[r]]
      /\ UNCHANGED <<miAt, miCost>>
  BY DEF MiDelete, MiDrop
<1>2. /\ miRows' \in [MiIds -> MiRow \cup {MiNone, MiGone}]
      /\ miRunRow' \in [MiRuns -> MiRunRows \cup {MiNone, MiGone}]
  BY <1>1 DEF MiIInv, MiInv
<1>3. \A r \in MiRuns : MiRecorded(r)' <=> MiRecorded(r) /\ miRunRow[r].mission # i
  BY <1>1, MiKinds DEF MiRecorded
<1>4. \A r \in MiRuns : MiRecorded(r)' => miRunRow'[r] = miRunRow[r]
  BY <1>1, <1>3
<1>5. \A j \in MiIds : MiThere(j)' <=> MiThere(j) /\ j # i
  BY <1>1, <1>2, MiKinds DEF MiThere, MiIInv, MiInv
<1>6. \A j \in MiIds \ {i} : miRows'[j] = miRows[j] /\ MiRunsOf(j)' = MiRunsOf(j)
  BY <1>1, <1>3, <1>4 DEF MiRunsOf, MiIInv, MiInv
<1>7. MiInv'
  <2>1. \A r \in MiRuns : MiRecorded(r)' => MiThere(miRunRow[r].mission)'
    <3> SUFFICES ASSUME NEW r \in MiRuns, MiRecorded(r)'
                 PROVE  MiThere(miRunRow[r].mission)'
      OBVIOUS
    <3>1. MiRecorded(r) /\ miRunRow[r].mission # i /\ miRunRow'[r] = miRunRow[r]
      BY <1>3, <1>4
    <3>2. miRunRow[r].mission \in MiIds /\ MiThere(miRunRow[r].mission)
      BY <3>1, MiKinds DEF MiIInv, MiInv, MiRunRows
    <3> QED
      BY <1>5, <3>1, <3>2
  <2> QED
    BY <1>1, <1>2, <2>1 DEF MiIInv, MiInv
<1>8. MiRecordsAgree'
  <2>1. \A r \in MiRuns :
          MiRecorded(r)' => (miRunRow'[r].finished <=> miRunRow'[r].status = "over")
    BY <1>3, <1>4 DEF MiIInv, MiRecordsAgree
  <2>2. \A j \in MiIds : MiThere(j)' => miRows'[j].uses = Cardinality(MiRunsOf(j)')
    BY <1>5, <1>6 DEF MiIInv, MiRecordsAgree, MiRunsOf
  <2> QED
    BY <2>1, <2>2 DEF MiRecordsAgree, MiRunsOf
<1> QED
  BY <1>7, <1>8 DEF MiIInv

LEMMA MiRecordRunIInv ==
  ASSUME MiIInv, NEW c \in MiClients, MiRecordRun(c)
  PROVE  MiIInv'
<1>0. PICK i \in MiIds : i = miAt[c].id
  BY MiAtKinds DEF MiIInv, MiRecordRun
<1>1. MiDoes(c, MiIdle) /\ UNCHANGED miCost
  BY DEF MiRecordRun
<1>2. CASE UNCHANGED <<miRows, miRunRow>>
  BY <1>1, <1>2, MiReadIInv, MiKinds
<1>3. ASSUME NEW r \in MiRuns, NEW session \in BOOLEAN, MiThere(i), miRunRow[r] = MiNone,
             miRunRow' = [miRunRow EXCEPT ![r] =
                 [state |-> "there", mission |-> i, session |-> session, status |-> "over",
                  finished |-> TRUE, cost |-> MiUnpriced]],
             miRows' = [miRows EXCEPT ![i].uses = @ + 1]
      PROVE  MiIInv'
  <2> DEFINE run == [state |-> "there", mission |-> i, session |-> session, status |-> "over",
                     finished |-> TRUE, cost |-> MiUnpriced]
             n == Cardinality(MiRunsOf(i))
  <2>1. run \in MiRunRows
    BY <1>1, MissionsAssumption DEF MiRunRows, MiStatuses, MiUnpriced
  <2>2. /\ miRunRow' \in [MiRuns -> MiRunRows \cup {MiNone, MiGone}]
        /\ miRunRow'[r] = run /\ \A s \in MiRuns \ {r} : miRunRow'[s] = miRunRow[s]
    BY <1>3, <2>1 DEF MiIInv, MiInv
  <2>3. ~MiRecorded(r) /\ \A s \in MiRuns : MiRecorded(s)' <=> s = r \/ MiRecorded(s)
    BY <1>3, <2>2, MiKinds DEF MiRecorded
  <2>4. /\ MiRunsOf(i)' = MiRunsOf(i) \cup {r} /\ r \notin MiRunsOf(i)
        /\ \A j \in MiIds \ {i} : MiRunsOf(j)' = MiRunsOf(j)
    <3>1. MiRunsOf(i)' = MiRunsOf(i) \cup {r}
      BY <2>2, <2>3 DEF MiRunsOf
    <3>2. r \notin MiRunsOf(i)
      BY <2>3 DEF MiRunsOf
    <3>3. ASSUME NEW j \in MiIds \ {i}
          PROVE  MiRunsOf(j)' = MiRunsOf(j)
      BY <2>2, <2>3 DEF MiRunsOf
    <3> QED
      BY <3>1, <3>2, <3>3
  <2>5. Cardinality(MiRunsOf(i)') = n + 1 /\ n + 1 \in 0..Cardinality(MiRuns)
    <3>1. IsFiniteSet(MiRunsOf(i)) /\ n \in Nat
      BY MiRunsOfCount, FS_CardinalityType
    <3>2. Cardinality(MiRunsOf(i)') = n + 1
      BY <2>4, <3>1, FS_AddElement
    <3>3. MiRunsOf(i)' \subseteq MiRuns
      BY DEF MiRunsOf
    <3> QED
      BY <3>1, <3>2, <3>3, FS_Subset, FS_CardinalityType, MissionsAssumption
  <2>6. miRows[i] \in MiRow /\ miRows[i].uses = n
    BY <1>1, <1>3, MiKinds DEF MiIInv, MiInv, MiRecordsAgree, MiRunsOf
  <2>7. /\ [miRows[i] EXCEPT !.uses = n + 1] \in MiRow
        /\ [miRows[i] EXCEPT !.uses = n + 1].uses = n + 1
        /\ [miRows[i] EXCEPT !.uses = n + 1].state = "there"
    BY <2>5, <2>6 DEF MiRow
  <2>8. miRows' = [miRows EXCEPT ![i] = [miRows[i] EXCEPT !.uses = n + 1]]
    BY <1>3, <2>6 DEF MiIInv, MiInv
  <2>9. /\ miRows' \in [MiIds -> MiRow \cup {MiNone, MiGone}]
        /\ miRows'[i].uses = n + 1 /\ miRows'[i].state = "there"
        /\ \A j \in MiIds \ {i} : miRows'[j] = miRows[j]
    BY <1>1, <2>7, <2>8 DEF MiIInv, MiInv
  <2>10. \A j \in MiIds : MiThere(j)' <=> MiThere(j)
    BY <1>3, <2>9 DEF MiThere
  <2>11. miAt' \in [MiClients -> MiRequests]
    BY <1>1, MiKinds DEF MiDoes, MiIInv, MiInv
  <2>12. \A s \in MiRuns : MiRecorded(s)' => MiThere(miRunRow[s].mission)'
    <3> SUFFICES ASSUME NEW s \in MiRuns, MiRecorded(s)'
                 PROVE  MiThere(miRunRow[s].mission)'
      OBVIOUS
    <3>1. CASE s = r
      BY <1>1, <1>3, <2>2, <2>10, <3>1
    <3>2. CASE s # r
      <4>1. MiRecorded(s) /\ miRunRow'[s] = miRunRow[s]
        BY <2>2, <2>3, <3>2
      <4>2. miRunRow[s].mission \in MiIds /\ MiThere(miRunRow[s].mission)
        BY <4>1, MiKinds DEF MiIInv, MiInv, MiRunRows
      <4> QED
        BY <2>10, <4>1, <4>2
    <3> QED
      BY <3>1, <3>2
  <2>13. MiInv'
    BY <1>1, <2>2, <2>9, <2>11, <2>12 DEF MiIInv, MiInv
  <2>14. \A s \in MiRuns :
           MiRecorded(s)' => (miRunRow'[s].finished <=> miRunRow'[s].status = "over")
    BY <2>2, <2>3 DEF MiIInv, MiRecordsAgree
  <2>15. \A j \in MiIds : MiThere(j)' => miRows'[j].uses = Cardinality(MiRunsOf(j)')
    <3> SUFFICES ASSUME NEW j \in MiIds, MiThere(j)'
                 PROVE  miRows'[j].uses = Cardinality(MiRunsOf(j)')
      OBVIOUS
    <3>1. CASE j = i
      BY <2>5, <2>9, <3>1 DEF MiRunsOf
    <3>2. CASE j # i
      BY <2>4, <2>9, <2>10, <3>2 DEF MiIInv, MiRecordsAgree, MiRunsOf
    <3> QED
      BY <3>1, <3>2
  <2>16. MiRecordsAgree'
    BY <2>14, <2>15 DEF MiRecordsAgree, MiRunsOf
  <2> QED
    BY <2>13, <2>16 DEF MiIInv
<1> QED
  BY <1>0, <1>1, <1>2, <1>3 DEF MiRecordRun

\* A recorded run's row is written over: its mission stays, and its finishing
\* time still agrees with its status.
LEMMA MiRunIInv ==
  ASSUME MiIInv, NEW c \in MiClients, NEW next \in MiRequests, MiDoes(c, next),
         NEW r \in MiRuns, NEW run \in MiRunRows, MiRecorded(r),
         miRunRow' = [miRunRow EXCEPT ![r] = run], UNCHANGED <<miRows, miCost>>,
         run.mission = miRunRow[r].mission, run.finished <=> run.status = "over"
  PROVE  MiIInv'
<1>1. /\ miAt' \in [MiClients -> MiRequests]
      /\ miRunRow' \in [MiRuns -> MiRunRows \cup {MiNone, MiGone}]
      /\ miRunRow'[r] = run /\ \A s \in MiRuns \ {r} : miRunRow'[s] = miRunRow[s]
  BY DEF MiDoes, MiIInv, MiInv
<1>2. \A s \in MiRuns : /\ MiRecorded(s)' <=> MiRecorded(s)
                        /\ MiRecorded(s) => miRunRow'[s].mission = miRunRow[s].mission
  BY <1>1 DEF MiRecorded, MiRunRows
<1>3. \A i \in MiIds : MiRunsOf(i)' = MiRunsOf(i) /\ (MiThere(i)' <=> MiThere(i))
  BY <1>2 DEF MiRunsOf, MiThere
<1>4. \A s \in MiRuns : MiRecorded(s)' => MiThere(miRunRow[s].mission)'
  BY <1>2 DEF MiIInv, MiInv, MiThere
<1>5. MiInv'
  BY <1>1, <1>4 DEF MiIInv, MiInv
<1>6. \A s \in MiRuns :
        MiRecorded(s)' => (miRunRow'[s].finished <=> miRunRow'[s].status = "over")
  BY <1>1, <1>2 DEF MiIInv, MiRecordsAgree
<1>7. \A i \in MiIds : MiThere(i)' => miRows'[i].uses = Cardinality(MiRunsOf(i)')
  BY <1>3 DEF MiIInv, MiRecordsAgree, MiRunsOf
<1>8. MiRecordsAgree'
  BY <1>6, <1>7 DEF MiRecordsAgree, MiRunsOf
<1> QED
  BY <1>5, <1>8 DEF MiIInv

LEMMA MiUpdateRunIInv ==
  ASSUME MiIInv, NEW c \in MiClients, MiUpdateRun(c)
  PROVE  MiIInv'
<1> DEFINE r == miAt[c].run
<1>1. r \in MiRuns /\ miAt[c].status \in MiStatuses /\ UNCHANGED <<miRows, miCost>>
  BY MiAtKinds DEF MiIInv, MiUpdateRun
<1>2. PICK next \in MiRequests : MiDoes(c, next)
  BY <1>1, MiKinds DEF MiUpdateRun, MiRequests
<1>3. CASE ~MiRecorded(r)
  BY <1>1, <1>2, <1>3, MiReadIInv DEF MiUpdateRun
<1>4. CASE MiRecorded(r)
  <2>1. PICK status \in MiStatuses :
          miRunRow' = [miRunRow EXCEPT ![r].status = status, ![r].finished = (status = "over")]
    BY <1>1, <1>4 DEF MiUpdateRun, MiStatus
  <2> DEFINE run == [miRunRow[r] EXCEPT !.status = status, !.finished = (status = "over")]
  <2>2. miRunRow[r] \in MiRunRows
    BY <1>1, <1>4, MiKinds DEF MiIInv, MiInv
  <2>3. run \in MiRunRows /\ run.mission = miRunRow[r].mission
    BY <2>2 DEF MiRunRows
  <2>4. run.finished <=> run.status = "over"
    BY <2>2 DEF MiRunRows
  <2>5. miRunRow' = [miRunRow EXCEPT ![r] = run]
    BY <1>1, <2>1, <2>2 DEF MiIInv, MiInv
  <2> QED
    BY <1>1, <1>2, <1>4, <2>3, <2>4, <2>5, MiRunIInv
<1> QED
  BY <1>3, <1>4

LEMMA MiUpsertIInv ==
  ASSUME MiIInv, NEW c \in MiClients, MiUpsert(c)
  PROVE  MiIInv'
<1> DEFINE r == miAt[c].run
<1>1. r \in MiRuns /\ miAt[c].cost \in 0..MiMaxCost /\ MiDoes(c, MiIdle)
  BY MiAtKinds DEF MiIInv, MiUpsert
<1>2. CASE ~MiRecorded(r)
  BY <1>1, <1>2, MiReadIInv, MiKinds DEF MiUpsert
<1>3. CASE MiRecorded(r)
  <2> DEFINE run == [miRunRow[r] EXCEPT !.cost = miAt[c].cost]
  <2>1. miRunRow[r] \in MiRunRows
    BY <1>1, <1>3, MiKinds DEF MiIInv, MiInv
  <2>2. /\ run \in MiRunRows /\ run.mission = miRunRow[r].mission
        /\ run.status = miRunRow[r].status /\ (run.finished <=> miRunRow[r].finished)
    BY <1>1, <2>1, MissionsAssumption DEF MiRunRows, MiUnpriced
  <2>3. run.finished <=> run.status = "over"
    BY <1>1, <1>3, <2>2 DEF MiIInv, MiRecordsAgree
  <2>4. miRunRow' = [miRunRow EXCEPT ![r] = run] /\ UNCHANGED <<miRows, miCost>>
    BY <1>1, <1>3, <2>1 DEF MiIInv, MiInv, MiUpsert
  <2> QED
    BY <1>1, <1>3, <2>2, <2>3, <2>4, MiRunIInv, MiKinds
<1> QED
  BY <1>2, <1>3

LEMMA MiNextIInv == MiIInv /\ [MiNext]_miVars => MiIInv'
<1> SUFFICES ASSUME MiIInv, [MiNext]_miVars
             PROVE  MiIInv'
  OBVIOUS
<1>1. CASE UNCHANGED miVars
  BY <1>1 DEF miVars, MiIInv, MiInv, MiRecordsAgree, MiRecorded, MiThere
<1>2. CASE MiAccrue
  BY <1>2, MissionsAssumption
     DEF MiAccrue, MiIInv, MiInv, MiRecordsAgree, MiRecorded, MiThere
<1> QED
  BY <1>1, <1>2, MiReadsIInv, MiInsertIInv, MiUpdateIInv, MiDeleteIInv, MiRecordRunIInv,
     MiUpdateRunIInv, MiUpsertIInv DEF MiNext

\* However requests overlap and fail, the use_count of a mission is the number
\* of its recorded runs, and a run has its finishing time exactly when its
\* status is over (internal/missions).
THEOREM MissionRecordsAgree == MiSpec => [](MiTypeOK /\ MiRecordsAgree)
<1>1. MiSpec => []MiIInv
  BY MiInitIInv, MiNextIInv, PTL DEF MiSpec
<1> QED
  BY <1>1, MiIInvType, PTL DEF MiIInv

-----------------------------------------------------------------------------
(* The list of files *)

\* A path that an upload, a run or its walk will still put on the list.
FlComing(p) ==
  \/ \E c \in FlClients : flPc[c] = "upsert" /\ flPath[c] = p
  \/ \E r \in FlRuns :
       \/ flRun[r] = "running" /\ flDisk[p] > flBefore[r][p]
       \/ flRun[r] = "detecting" /\ p \in flPending[r]

\* No file is newer than the clock, and a busy request works on a path.
FlInv ==
  /\ \A p \in FlPaths : flDisk[p] <= flClock
  /\ \A r \in FlRuns, p \in FlPaths : flBefore[r][p] <= flClock
  /\ \A c \in FlClients : flPc[c] # "idle" => flPath[c] \in FlPaths

FlIInv == FlTypeOK /\ FlInv /\ FlFilesListed

LEMMA FlInitIInv == FlInit => FlIInv
  BY FileListAssumption DEF FlInit, FlIInv, FlTypeOK, FlInv, FlFilesListed

LEMMA FlListedOrComing ==
  FlFilesListed <=> \A p \in FlPaths :
    flDisk[p] > 0 => p \in flListed \cup flSpoilt \/ FlComing(p)
  BY DEF FlFilesListed, FlComing

\* What a request does next.
LEMMA FlGotoType ==
  ASSUME FlTypeOK, NEW c \in FlClients, NEW step \in {"idle", "upsert", "unlist"},
         NEW p \in FlPaths \cup {"none"}, FlGoto(c, step, p)
  PROVE  /\ flPc' \in [FlClients -> {"idle", "upsert", "unlist"}]
         /\ flPath' \in [FlClients -> FlPaths \cup {"none"}]
         /\ flPc'[c] = step /\ flPath'[c] = p
         /\ \A d \in FlClients \ {c} : flPc'[d] = flPc[d] /\ flPath'[d] = flPath[d]
  BY DEF FlTypeOK, FlGoto

LEMMA FlWriteIInv ==
  ASSUME FlIInv, NEW c \in FlClients, FlWrite(c)
  PROVE  FlIInv'
<1>1. PICK p \in FlPaths : FlStore(p) /\ FlGoto(c, "upsert", p)
  BY DEF FlWrite
<1>2. /\ flClock \in 0..FlMaxClock /\ flClock' = flClock + 1 /\ flClock' \in 0..FlMaxClock
      /\ flDisk' \in [FlPaths -> 0..FlMaxClock] /\ flDisk'[p] = flClock'
      /\ \A q \in FlPaths \ {p} : flDisk'[q] = flDisk[q]
      /\ UNCHANGED <<flListed, flRun, flBefore, flPending, flSpoilt>>
  BY <1>1, FileListAssumption DEF FlWrite, FlStore, FlIInv, FlTypeOK
<1>3. FlTypeOK'
  BY <1>1, <1>2, FlGotoType DEF FlIInv, FlTypeOK
<1>4. FlInv'
  <2>1. \A q \in FlPaths : flDisk'[q] <= flClock'
    BY <1>2 DEF FlIInv, FlTypeOK, FlInv
  <2>2. \A r \in FlRuns, q \in FlPaths : flBefore'[r][q] <= flClock'
    BY <1>2, FileListAssumption DEF FlIInv, FlTypeOK, FlInv
  <2>3. \A d \in FlClients : flPc'[d] # "idle" => flPath'[d] \in FlPaths
    BY <1>1, FlGotoType DEF FlIInv, FlInv
  <2> QED
    BY <2>1, <2>2, <2>3 DEF FlInv
<1>5. FlFilesListed'
  <2>1. FlComing(p)'
    BY <1>1, FlGotoType DEF FlComing, FlIInv
  <2>2. ASSUME NEW q \in FlPaths \ {p}, FlComing(q)
        PROVE  FlComing(q)'
    BY <1>1, <1>2, <2>2, FlGotoType DEF FlComing, FlIInv, FlWrite
  <2> QED
    BY <1>2, <2>1, <2>2, FlListedOrComing DEF FlIInv, FlFilesListed, FlComing
<1> QED
  BY <1>3, <1>4, <1>5 DEF FlIInv

\* A request that ends after it changed the list, or failed to.
LEMMA FlListIInv ==
  ASSUME FlIInv, NEW c \in FlClients, flPc[c] # "idle", FlLeave(c),
         NEW p \in FlPaths, p = flPath[c],
         UNCHANGED <<flDisk, flClock, flRun, flBefore, flPending>>,
         flListed' \subseteq FlPaths, flSpoilt' \subseteq FlPaths,
         \A q \in FlPaths \ {p} : q \in flListed \cup flSpoilt => q \in flListed' \cup flSpoilt',
         flDisk[p] > 0 =>
           \/ p \in flListed' \cup flSpoilt'
           \/ flPc[c] = "unlist" /\ UNCHANGED <<flListed, flSpoilt>>
  PROVE  FlIInv'
<1>1. FlGoto(c, "idle", "none") /\ FlTypeOK
  BY DEF FlLeave, FlIInv
<1>2. FlTypeOK'
  BY <1>1, FlGotoType DEF FlTypeOK
<1>3. FlInv'
  BY <1>1, FlGotoType DEF FlIInv, FlInv
<1>4. FlFilesListed'
  <2>1. ASSUME NEW q \in FlPaths, FlComing(q), q # p \/ flPc[c] = "unlist"
        PROVE  FlComing(q)'
    BY <1>1, <2>1, FlGotoType DEF FlComing
  <2>2. \A q \in FlPaths : flDisk[q] > 0 => q \in flListed \cup flSpoilt \/ FlComing(q)
    BY FlListedOrComing DEF FlIInv
  <2>3. \A q \in FlPaths : flDisk'[q] > 0 => q \in flListed' \cup flSpoilt' \/ FlComing(q)'
    BY <2>1, <2>2
  <2> QED
    BY <2>3 DEF FlFilesListed, FlComing
<1> QED
  BY <1>2, <1>3, <1>4 DEF FlIInv

LEMMA FlUpsertIInv ==
  ASSUME FlIInv, NEW c \in FlClients, FlUpsert(c) \/ FlUnlist(c)
  PROVE  FlIInv'
<1>1. PICK p \in FlPaths : p = flPath[c]
  BY DEF FlUpsert, FlUnlist, FlIInv, FlInv
<1>2. flListed \subseteq FlPaths /\ flSpoilt \subseteq FlPaths
  BY DEF FlIInv, FlTypeOK
<1>3. CASE FlUpsert(c)
  <2>1. /\ flPc[c] # "idle" /\ FlLeave(c)
        /\ UNCHANGED <<flDisk, flClock, flRun, flBefore, flPending>>
    BY <1>3 DEF FlUpsert
  <2>2. /\ flListed' \subseteq FlPaths /\ flSpoilt' \subseteq FlPaths
        /\ flListed \cup flSpoilt \cup {p} = flListed' \cup flSpoilt'
    BY <1>1, <1>2, <1>3 DEF FlUpsert, FlUpsertFile
  <2> QED
    <3>1. \A q \in FlPaths \ {p} : q \in flListed \cup flSpoilt => q \in flListed' \cup flSpoilt'
      BY <2>2
    <3>2. p \in flListed' \cup flSpoilt'
      BY <2>2
    <3> QED
      BY <1>1, <2>1, <2>2, <3>1, <3>2, FlListIInv
<1>4. CASE FlUnlist(c)
  <2>1. /\ flPc[c] = "unlist" /\ FlLeave(c)
        /\ UNCHANGED <<flDisk, flClock, flRun, flBefore, flPending>>
    BY <1>4 DEF FlUnlist
  <2>2. CASE UNCHANGED <<flListed, flSpoilt>>
    BY <1>1, <1>2, <2>1, <2>2, FlListIInv
  <2>3. CASE /\ flListed' = flListed \ {p}
             /\ flSpoilt' = IF flDisk[p] > 0 THEN flSpoilt \cup {p} ELSE flSpoilt
    <3>1. /\ flListed' \subseteq FlPaths /\ flSpoilt' \subseteq FlPaths
          /\ flDisk[p] > 0 => p \in flSpoilt'
          /\ \A q \in FlPaths \ {p} : q \in flListed \cup flSpoilt => q \in flListed' \cup flSpoilt'
      BY <1>2, <2>3
    <3> QED
      BY <1>1, <2>1, <3>1, FlListIInv
  <2> QED
    BY <1>1, <1>4, <2>2, <2>3 DEF FlUnlist, FlDeleteFile
<1> QED
  BY <1>3, <1>4

LEMMA FlRemoveIInv ==
  ASSUME FlIInv, NEW c \in FlClients, FlRemove(c)
  PROVE  FlIInv'
<1>1. PICK p \in FlPaths : FlErase(p) /\ FlGoto(c, "unlist", p)
  BY DEF FlRemove
<1>2. /\ flDisk' \in [FlPaths -> 0..FlMaxClock] /\ flDisk'[p] = 0
      /\ \A q \in FlPaths \ {p} : flDisk'[q] = flDisk[q]
      /\ UNCHANGED <<flClock, flListed, flRun, flBefore, flPending, flSpoilt>>
  BY <1>1, FileListAssumption DEF FlRemove, FlErase, FlIInv, FlTypeOK
<1>3. FlTypeOK'
  BY <1>1, <1>2, FlGotoType DEF FlIInv, FlTypeOK
<1>4. FlInv'
  <2>1. \A q \in FlPaths : flDisk'[q] <= flClock'
    BY <1>2, FileListAssumption DEF FlIInv, FlTypeOK, FlInv
  <2>2. \A d \in FlClients : flPc'[d] # "idle" => flPath'[d] \in FlPaths
    BY <1>1, FlGotoType DEF FlIInv, FlInv
  <2> QED
    BY <1>2, <2>1, <2>2 DEF FlIInv, FlInv
<1>5. FlFilesListed'
  <2>1. ASSUME NEW q \in FlPaths \ {p}, FlComing(q)
        PROVE  FlComing(q)'
    BY <1>1, <1>2, <2>1, FlGotoType DEF FlComing, FlIInv, FlRemove
  <2>2. \A q \in FlPaths : flDisk[q] > 0 => q \in flListed \cup flSpoilt \/ FlComing(q)
    BY FlListedOrComing DEF FlIInv
  <2>3. \A q \in FlPaths : flDisk'[q] > 0 => q \in flListed' \cup flSpoilt' \/ FlComing(q)'
    BY <1>2, <2>1, <2>2
  <2> QED
    BY <2>3 DEF FlFilesListed, FlComing
<1> QED
  BY <1>3, <1>4, <1>5 DEF FlIInv

LEMMA FlRunStartsIInv ==
  ASSUME FlIInv, NEW r \in FlRuns, FlRunStarts(r)
  PROVE  FlIInv'
<1>1. /\ flRun' \in [FlRuns -> {"idle", "running", "detecting"}] /\ flRun'[r] = "running"
      /\ flBefore' \in [FlRuns -> [FlPaths -> 0..FlMaxClock]] /\ flBefore'[r] = flDisk
      /\ \A s \in FlRuns \ {r} : flRun'[s] = flRun[s] /\ flBefore'[s] = flBefore[s]
      /\ UNCHANGED <<flPc, flPath, flDisk, flClock, flListed, flPending, flSpoilt>>
  BY DEF FlRunStarts, FlIInv, FlTypeOK
<1>2. FlTypeOK' /\ FlInv'
  BY <1>1 DEF FlIInv, FlTypeOK, FlInv
<1>3. \A p \in FlPaths : FlComing(p) => FlComing(p)'
  BY <1>1 DEF FlComing, FlRunStarts
<1>4. FlFilesListed'
  BY <1>1, <1>3, FlListedOrComing DEF FlIInv, FlFilesListed, FlComing
<1> QED
  BY <1>2, <1>4 DEF FlIInv

LEMMA FlRunWritesIInv ==
  ASSUME FlIInv, NEW r \in FlRuns, FlRunWrites(r)
  PROVE  FlIInv'
<1>1. PICK p \in FlPaths : FlStore(p) \/ FlErase(p)
  BY DEF FlRunWrites
<1>2. /\ flClock \in 0..FlMaxClock /\ flClock' = flClock + 1 /\ flClock' \in 0..FlMaxClock
      /\ flDisk' \in [FlPaths -> 0..FlMaxClock] /\ flDisk'[p] \in {0, flClock'}
      /\ \A q \in FlPaths \ {p} : flDisk'[q] = flDisk[q]
      /\ UNCHANGED <<flPc, flPath, flListed, flRun, flBefore, flPending, flSpoilt>>
  BY <1>1, FileListAssumption DEF FlRunWrites, FlStore, FlErase, FlIInv, FlTypeOK
<1>3. FlTypeOK'
  BY <1>2 DEF FlIInv, FlTypeOK
<1>4. FlInv'
  <2>1. \A q \in FlPaths : flDisk'[q] <= flClock'
    BY <1>2 DEF FlIInv, FlTypeOK, FlInv
  <2>2. \A s \in FlRuns, q \in FlPaths : flBefore'[s][q] <= flClock'
    BY <1>2, FileListAssumption DEF FlIInv, FlTypeOK, FlInv
  <2> QED
    BY <1>2, <2>1, <2>2 DEF FlIInv, FlInv
<1>5. FlFilesListed'
  <2>1. flDisk'[p] > 0 => flDisk'[p] > flBefore'[r][p]
    BY <1>2, FileListAssumption DEF FlIInv, FlTypeOK, FlInv
  <2>2. flDisk'[p] > 0 => FlComing(p)'
    BY <1>2, <2>1 DEF FlComing, FlRunWrites
  <2>3. \A q \in FlPaths \ {p} : FlComing(q) => FlComing(q)'
    BY <1>2 DEF FlComing
  <2>4. \A q \in FlPaths : flDisk[q] > 0 => q \in flListed \cup flSpoilt \/ FlComing(q)
    BY FlListedOrComing DEF FlIInv
  <2>5. \A q \in FlPaths : flDisk'[q] > 0 => q \in flListed' \cup flSpoilt' \/ FlComing(q)'
    BY <1>2, <2>2, <2>3, <2>4
  <2> QED
    BY <2>5 DEF FlFilesListed, FlComing
<1> QED
  BY <1>3, <1>4, <1>5 DEF FlIInv

LEMMA FlRunEndsIInv ==
  ASSUME FlIInv, NEW r \in FlRuns, FlRunEnds(r)
  PROVE  FlIInv'
<1>1. /\ flRun' \in [FlRuns -> {"idle", "running", "detecting"}] /\ flRun'[r] = "detecting"
      /\ flPending' \in [FlRuns -> SUBSET FlPaths] /\ flPending'[r] = FlChanged(r)
      /\ \A s \in FlRuns \ {r} : flRun'[s] = flRun[s] /\ flPending'[s] = flPending[s]
      /\ UNCHANGED <<flPc, flPath, flDisk, flClock, flListed, flBefore, flSpoilt>>
  BY DEF FlRunEnds, FlIInv, FlTypeOK, FlChanged
<1>2. FlTypeOK' /\ FlInv'
  BY <1>1 DEF FlIInv, FlTypeOK, FlInv
<1>3. \A p \in FlPaths : FlComing(p) => FlComing(p)'
  BY <1>1 DEF FlComing, FlRunEnds, FlChanged
<1>4. FlFilesListed'
  BY <1>1, <1>3, FlListedOrComing DEF FlIInv, FlFilesListed, FlComing
<1> QED
  BY <1>2, <1>4 DEF FlIInv

LEMMA FlDetectIInv ==
  ASSUME FlIInv, NEW r \in FlRuns, FlDetect(r)
  PROVE  FlIInv'
<1>0. flRun[r] = "detecting" /\ UNCHANGED <<flPc, flPath, flDisk, flClock>>
  BY DEF FlDetect
<1>1. ASSUME NEW p \in flPending[r],
             FlUpsertFile(p) \/ (flSpoilt' = flSpoilt \cup {p} /\ UNCHANGED flListed),
             flPending' = [flPending EXCEPT ![r] = flPending[r] \ {p}], UNCHANGED <<flRun, flBefore>>
      PROVE  FlIInv'
  <2>1. /\ p \in FlPaths /\ flListed' \subseteq FlPaths /\ flSpoilt' \subseteq FlPaths
        /\ flPending' \in [FlRuns -> SUBSET FlPaths] /\ flPending'[r] = flPending[r] \ {p}
        /\ \A s \in FlRuns \ {r} : flPending'[s] = flPending[s]
        /\ flListed' \cup flSpoilt' = flListed \cup flSpoilt \cup {p}
    BY <1>1 DEF FlUpsertFile, FlIInv, FlTypeOK
  <2>2. FlTypeOK' /\ FlInv'
    BY <1>0, <1>1, <2>1 DEF FlIInv, FlTypeOK, FlInv
  <2>3. \A q \in FlPaths \ {p} : FlComing(q) => FlComing(q)'
    BY <1>0, <1>1, <2>1 DEF FlComing
  <2>4. \A q \in FlPaths : flDisk[q] > 0 => q \in flListed \cup flSpoilt \/ FlComing(q)
    BY FlListedOrComing DEF FlIInv
  <2>5. \A q \in FlPaths : flDisk'[q] > 0 => q \in flListed' \cup flSpoilt' \/ FlComing(q)'
    BY <1>0, <2>1, <2>3, <2>4
  <2>6. FlFilesListed'
    BY <2>5 DEF FlFilesListed, FlComing
  <2> QED
    BY <2>2, <2>6 DEF FlIInv
<1>2. CASE /\ flPending[r] = {} /\ flRun' = [flRun EXCEPT ![r] = "idle"]
           /\ flBefore' = [flBefore EXCEPT ![r] = [p \in FlPaths |-> 0]]
           /\ UNCHANGED <<flListed, flPending, flSpoilt>>
  <2>1. /\ flRun' \in [FlRuns -> {"idle", "running", "detecting"}]
        /\ flBefore' \in [FlRuns -> [FlPaths -> 0..FlMaxClock]]
        /\ flBefore'[r] = [p \in FlPaths |-> 0]
        /\ \A s \in FlRuns \ {r} : flRun'[s] = flRun[s] /\ flBefore'[s] = flBefore[s]
    BY <1>2, FileListAssumption DEF FlIInv, FlTypeOK
  <2>2. FlTypeOK'
    BY <1>0, <1>2, <2>1 DEF FlIInv, FlTypeOK
  <2>3. FlInv'
    BY <1>0, <1>2, <2>1, FileListAssumption DEF FlIInv, FlTypeOK, FlInv
  <2>4. \A q \in FlPaths : FlComing(q) => FlComing(q)'
    BY <1>0, <1>2, <2>1 DEF FlComing
  <2>5. FlFilesListed'
    BY <1>0, <1>2, <2>4, FlListedOrComing DEF FlIInv, FlFilesListed, FlComing
  <2> QED
    BY <2>2, <2>3, <2>5 DEF FlIInv
<1> QED
  <2>1. CASE \E p \in flPending[r] :
               /\ FlUpsertFile(p) \/ (flSpoilt' = flSpoilt \cup {p} /\ UNCHANGED flListed)
               /\ flPending' = [flPending EXCEPT ![r] = flPending[r] \ {p}]
               /\ UNCHANGED <<flRun, flBefore>>
    BY <1>1, <2>1
  <2>2. \/ \E p \in flPending[r] :
              /\ FlUpsertFile(p) \/ (flSpoilt' = flSpoilt \cup {p} /\ UNCHANGED flListed)
              /\ flPending' = [flPending EXCEPT ![r] = flPending[r] \ {p}]
              /\ UNCHANGED <<flRun, flBefore>>
        \/ /\ flPending[r] = {} /\ flRun' = [flRun EXCEPT ![r] = "idle"]
           /\ flBefore' = [flBefore EXCEPT ![r] = [p \in FlPaths |-> 0]]
           /\ UNCHANGED <<flListed, flPending, flSpoilt>>
    BY DEF FlDetect
  <2> QED
    BY <1>2, <2>1, <2>2

LEMMA FlNextIInv == FlIInv /\ [FlNext]_flVars => FlIInv'
<1> SUFFICES ASSUME FlIInv, [FlNext]_flVars
             PROVE  FlIInv'
  OBVIOUS
<1>1. CASE UNCHANGED flVars
  BY <1>1 DEF flVars, FlIInv, FlTypeOK, FlInv, FlFilesListed
<1> QED
  BY <1>1, FlWriteIInv, FlUpsertIInv, FlRemoveIInv, FlRunStartsIInv, FlRunWritesIInv,
     FlRunEndsIInv, FlDetectIInv DEF FlNext

\* A file in the workspace is on the list, or the upload or the run that wrote
\* it has yet to put it there, or a late deletion or a failed upsert took it
\* off, whatever uploads, deletions and runs overlap (handlers/files.go,
\* detectArtifacts of internal/runner).
THEOREM FilesAreListed == FlSpec => [](FlTypeOK /\ FlFilesListed)
<1>1. FlSpec => []FlIInv
  BY FlInitIInv, FlNextIInv, PTL DEF FlSpec
<1> QED
  BY <1>1, PTL DEF FlIInv

-----------------------------------------------------------------------------
(* Cost accounting *)

\* The instants up to which a session is billed without a gap, so far.
CoNodes(s) == {coMade[s]} \cup {p[2] : p \in coMetrics[s]}

\* The types that decide what is billed; totals and sums decide nothing.
CoTypes ==
  /\ coClock \in CoTimes
  /\ coMade \in [CoSessions -> 0..CoMaxClock] /\ coStopped \in [CoSessions -> 0..CoMaxClock]
  /\ coMetrics \in [CoSessions -> SUBSET CoPeriods]
  /\ coNow \in [CoInstances -> 0..CoMaxClock]
  /\ coPlan \subseteq CoInstances \X CoSessions \X CoTimes \X CoTimes

\* Sums that were read, or written.
CoMoney == coTotal \in [CoSessions -> Nat] /\ coSum \subseteq CoInstances \X CoSessions \X Nat

\* A period lies in what a session ran so far.
CoWithin(s, start, end) ==
  /\ coMade[s] # 0 /\ coMade[s] <= start /\ end <= coClock
  /\ coStopped[s] # 0 => end <= coStopped[s]

\* The metrics of a session: no two overlap, none is missing before another.
CoMetricsInv ==
  \A s \in CoSessions :
    /\ coMade[s] <= coClock
    /\ \A p \in coMetrics[s] : CoWithin(s, p[1], p[2])
    /\ \A p, q \in coMetrics[s] : p = q \/ p[2] <= q[1] \/ q[2] <= p[1]
    /\ \A r \in coMetrics[s] : \A t \in coMade[s] .. r[2] - 1 :
         \E p \in coMetrics[s] : p[1] <= t /\ t < p[2]

\* What a sweep has still to record starts at such an instant, or where an
\* earlier period of the same sweep ends.
CoPlanInv ==
  \A w \in coPlan :
    /\ <<w[3], w[4]>> \in CoPeriods /\ CoWithin(w[2], w[3], w[4])
    /\ w[3] \in CoNodes(w[2]) \/ \E v \in coPlan : v[1] = w[1] /\ v[2] = w[2] /\ v[4] = w[3]

CoIInv ==
  /\ CoTypes /\ CoMetricsInv /\ CoPlanInv
  /\ \A i \in CoInstances : coNow[i] <= coClock

\* Every non-empty bounded set of naturals has a greatest element.
LEMMA CoGreatest ==
  ASSUME NEW N \in Nat, NEW S \in SUBSET (0..N), S # {}
  PROVE  \E n \in S : \A m \in S : m <= n
<1> DEFINE T == {N - n : n \in S}
<1>1. T \in SUBSET Nat /\ T # {}
  <2>1. \A n \in S : n \in 0..N /\ N - n \in Nat
    OBVIOUS
  <2> QED
    BY <2>1
<1>2. PICK x \in T : \A y \in T : ~(<<y, x>> \in OpToRel(<, Nat))
  BY <1>1, NatLessThanWellFounded, WFMin
<1>3. \A y \in T : ~(y < x)
  BY <1>1, <1>2, Zenon DEF OpToRel
<1>4. PICK n \in S : x = N - n
  OBVIOUS
<1>5. \A m \in S : ~(N - m < N - n)
  BY <1>3, <1>4
<1> QED
  BY <1>5

LEMMA CoMaxOf ==
  ASSUME NEW N \in Nat, NEW S \in SUBSET (0..N), S # {}
  PROVE  Max(S) \in S /\ \A m \in S : m <= Max(S)
<1>1. \E n \in S : \A m \in S : n >= m
  BY CoGreatest
<1> QED
  BY <1>1 DEF Max

LEMMA CoMinOf ==
  ASSUME NEW a \in Nat, NEW b \in Nat
  PROVE  Min({a, b}) \in {a, b} /\ Min({a, b}) <= a /\ Min({a, b}) <= b
<1>1. \E x \in {a, b} : \A y \in {a, b} : x <= y
  OBVIOUS
<1> QED
  BY <1>1 DEF Min

\* A period is two instants, the second one later.
LEMMA CoPeriod ==
  ASSUME NEW p \in CoPeriods
  PROVE  /\ p[1] \in CoTimes /\ p[2] \in CoTimes /\ p[1] < p[2] /\ p = <<p[1], p[2]>>
         /\ ~\E m \in CoMonths : p[1] < m /\ m < p[2]
  BY DEF CoPeriods

LEMMA CoMetricType ==
  ASSUME CoTypes, NEW s \in CoSessions, NEW p \in coMetrics[s]
  PROVE  /\ p \in CoPeriods /\ p[1] \in Nat /\ p[2] \in Nat /\ p[1] < p[2] /\ p = <<p[1], p[2]>>
         /\ p[2] \in CoTimes
<1>1. p \in CoPeriods
  BY DEF CoTypes
<1> QED
  BY <1>1, CoPeriod, CostsAssumption DEF CoTimes

LEMMA CoPlanType ==
  ASSUME CoTypes, NEW w \in coPlan
  PROVE  /\ w[1] \in CoInstances /\ w[2] \in CoSessions /\ w[3] \in CoTimes /\ w[4] \in CoTimes
         /\ w[3] \in Nat /\ w[4] \in Nat /\ w = <<w[1], w[2], w[3], w[4]>>
  BY CostsAssumption DEF CoTypes, CoTimes

\* CoSince is the last of the instants.
LEMMA CoSinceIsLast ==
  ASSUME CoTypes, NEW s \in CoSessions
  PROVE  /\ CoSince(s) \in CoNodes(s) /\ \A n \in CoNodes(s) : n <= CoSince(s)
         /\ CoSince(s) \in Nat /\ coMade[s] <= CoSince(s)
         /\ CoNodes(s) \in SUBSET (0..CoMaxClock)
<1>1. coMade[s] \in 0..CoMaxClock
  BY DEF CoTypes
<1>2. \A p \in coMetrics[s] : p[2] \in 0..CoMaxClock
  BY CoMetricType, CostsAssumption DEF CoTimes
<1>3. CoNodes(s) \in SUBSET (0..CoMaxClock) /\ CoNodes(s) # {} /\ coMade[s] \in CoNodes(s)
  BY <1>1, <1>2 DEF CoNodes
<1>4. CoSince(s) = Max(CoNodes(s))
  BY DEF CoSince, CoNodes
<1>5. Max(CoNodes(s)) \in CoNodes(s) /\ \A n \in CoNodes(s) : n <= Max(CoNodes(s))
  BY <1>3, CoMaxOf, CostsAssumption
<1> QED
  BY <1>3, <1>4, <1>5, CostsAssumption

LEMMA CoInitIInv == CoInit => CoIInv
<1> SUFFICES ASSUME CoInit PROVE CoIInv
  OBVIOUS
<1>1. 1 \in 1..CoMaxClock /\ 0 \in 0..CoMaxClock
  BY CostsAssumption
<1>2. CoTypes
  BY <1>1 DEF CoInit, CoTypes, CoTimes
<1> QED
  BY <1>2 DEF CoInit, CoIInv, CoMetricsInv, CoPlanInv

\* Time passes, a session is created or stops, a sweep takes the time.
LEMMA CoClockIInv ==
  ASSUME CoIInv, CoTypes', UNCHANGED <<coMetrics, coPlan>>, coClock <= coClock',
         \A i \in CoInstances : coNow'[i] <= coClock',
         \A s \in CoSessions :
           /\ coMade'[s] <= coClock'
           /\ coMade'[s] = coMade[s] \/ coMade[s] = 0
           /\ coStopped'[s] = coStopped[s] \/ coStopped'[s] = coClock
  PROVE  CoIInv'
<1>1. ASSUME NEW s \in CoSessions, NEW start \in Nat, NEW end \in Nat, CoWithin(s, start, end)
      PROVE  CoWithin(s, start, end)' /\ coMade'[s] = coMade[s]
  BY <1>1, CostsAssumption DEF CoWithin, CoIInv, CoTypes, CoTimes
<1>2. CoMetricsInv'
  <2> SUFFICES ASSUME NEW s \in CoSessions
               PROVE  (/\ coMade[s] <= coClock
                       /\ \A p \in coMetrics[s] : CoWithin(s, p[1], p[2])
                       /\ \A p, q \in coMetrics[s] : p = q \/ p[2] <= q[1] \/ q[2] <= p[1]
                       /\ \A r \in coMetrics[s] : \A t \in coMade[s] .. r[2] - 1 :
                            \E p \in coMetrics[s] : p[1] <= t /\ t < p[2])'
    BY DEF CoMetricsInv
  <2>1. \A p \in coMetrics[s] : CoWithin(s, p[1], p[2])' /\ coMade'[s] = coMade[s]
    BY <1>1, CoMetricType DEF CoIInv, CoMetricsInv
  <2> QED
    BY <2>1 DEF CoIInv, CoMetricsInv
<1>3. CoPlanInv'
  <2> SUFFICES ASSUME NEW w \in coPlan
               PROVE  (/\ <<w[3], w[4]>> \in CoPeriods /\ CoWithin(w[2], w[3], w[4])
                       /\ w[3] \in CoNodes(w[2])
                            \/ \E v \in coPlan : v[1] = w[1] /\ v[2] = w[2] /\ v[4] = w[3])'
    BY DEF CoPlanInv
  <2>1. CoWithin(w[2], w[3], w[4])' /\ coMade'[w[2]] = coMade[w[2]]
    BY <1>1, CoPlanType DEF CoIInv, CoPlanInv
  <2> QED
    BY <2>1 DEF CoIInv, CoPlanInv, CoNodes
<1> QED
  BY <1>2, <1>3 DEF CoIInv

\* A sweep gives up what it has for one session or for all of them.
LEMMA CoDropIInv ==
  ASSUME CoIInv, NEW gone \in SUBSET coPlan,
         \A w \in coPlan, v \in gone : w[1] = v[1] /\ w[2] = v[2] => w \in gone,
         coPlan' = coPlan \ gone, UNCHANGED <<coClock, coMade, coStopped, coMetrics>>,
         \A i \in CoInstances : coNow'[i] \in {coNow[i], 0}, coNow' \in [CoInstances -> 0..CoMaxClock]
  PROVE  CoIInv'
<1>1. CoTypes'
  BY DEF CoIInv, CoTypes
<1>2. CoMetricsInv'
  BY DEF CoIInv, CoMetricsInv, CoWithin
<1>3. CoPlanInv'
  <2> SUFFICES ASSUME NEW w \in coPlan'
               PROVE  /\ <<w[3], w[4]>> \in CoPeriods /\ CoWithin(w[2], w[3], w[4])'
                      /\ w[3] \in CoNodes(w[2])'
                           \/ \E v \in coPlan' : v[1] = w[1] /\ v[2] = w[2] /\ v[4] = w[3]
    BY DEF CoPlanInv
  <2>1. w \in coPlan /\ w \notin gone
    OBVIOUS
  <2>2. CoWithin(w[2], w[3], w[4])' /\ CoNodes(w[2])' = CoNodes(w[2]) /\ <<w[3], w[4]>> \in CoPeriods
    BY <2>1 DEF CoIInv, CoPlanInv, CoWithin, CoNodes
  <2>3. ASSUME NEW v \in coPlan, v[1] = w[1], v[2] = w[2] PROVE v \in coPlan'
    BY <2>1, <2>3
  <2> QED
    BY <2>1, <2>2, <2>3 DEF CoIInv, CoPlanInv
<1>4. \A i \in CoInstances : coNow'[i] <= coClock'
  BY CostsAssumption DEF CoIInv, CoTypes, CoTimes
<1> QED
  BY <1>1, <1>2, <1>3, <1>4 DEF CoIInv

\* The periods of CoSplit follow each other from its start to its end.
LEMMA CoSplitChain ==
  ASSUME NEW start \in CoTimes, NEW end \in CoTimes, start < end, NEW p \in CoSplit(start, end)
  PROVE  /\ p \in CoPeriods /\ start <= p[1] /\ p[2] <= end
         /\ p[1] = start \/ \E q \in CoSplit(start, end) : q[2] = p[1]
<1> DEFINE cuts == {start, end} \cup {m \in CoMonths : start < m /\ m < end}
<1>1. CoSplit(start, end) = {q \in cuts \X cuts : q[1] < q[2] /\ ~\E c \in cuts : q[1] < c /\ c < q[2]}
  BY DEF CoSplit
<1>2. cuts \in SUBSET CoTimes /\ \A c \in cuts : start <= c /\ c <= end
  <2>1. start \in 1..CoMaxClock /\ end \in 1..CoMaxClock /\ CoMonths \subseteq Nat /\ CoMaxClock \in Nat
    BY CostsAssumption DEF CoTimes
  <2>2. ASSUME NEW c \in cuts PROVE c \in 1..CoMaxClock /\ start <= c /\ c <= end
    <3>1. CASE c \in {start, end}
      BY <2>1, <3>1
    <3>2. CASE c \in CoMonths /\ start < c /\ c < end
      BY <2>1, <3>2
    <3> QED
      BY <3>1, <3>2
  <2> QED
    BY <2>2 DEF CoTimes
<1>3. \A m \in CoMonths : start < m /\ m < end => m \in cuts
  OBVIOUS
<1>4. start \in cuts
  OBVIOUS
<1> HIDE DEF cuts
<1>5. /\ p[1] \in cuts /\ p[2] \in cuts /\ p[1] < p[2] /\ p = <<p[1], p[2]>>
      /\ \A c \in cuts : ~(p[1] < c /\ c < p[2])
  BY <1>1
<1>6. start <= p[1] /\ p[2] <= end /\ p[1] \in CoTimes /\ p[2] \in CoTimes
  BY <1>2, <1>5
<1>7. \A m \in CoMonths : ~(p[1] < m /\ m < p[2])
  BY <1>3, <1>5, <1>6, CostsAssumption DEF CoTimes
<1>8. p \in CoPeriods
  BY <1>5, <1>6, <1>7 DEF CoPeriods
<1>9. ASSUME p[1] # start PROVE \E q \in CoSplit(start, end) : q[2] = p[1]
  <2> DEFINE before == {c \in cuts : c < p[1]}
  <2>1. before \in SUBSET (0..CoMaxClock) /\ start \in before
    <3>1. start \in Nat /\ p[1] \in Nat /\ start < p[1]
      BY <1>6, <1>9, CostsAssumption DEF CoTimes
    <3>2. \A c \in before : c \in 0..CoMaxClock
      BY <1>2, CostsAssumption DEF CoTimes
    <3> QED
      BY <1>4, <3>1, <3>2
  <2>2. PICK c \in before : \A m \in before : m <= c
    BY <2>1, CoGreatest, CostsAssumption
  <2>3. c \in cuts /\ c < p[1] /\ \A d \in cuts : ~(c < d /\ d < p[1])
    BY <1>2, <1>6, <2>2, CostsAssumption DEF CoTimes
  <2>4. <<c, p[1]>> \in CoSplit(start, end)
    BY <1>1, <1>5, <2>3
  <2> QED
    BY <2>4
<1> QED
  BY <1>6, <1>8, <1>9

LEMMA CoListIInv ==
  ASSUME CoIInv, NEW i \in CoInstances, CoList(i)
  PROVE  CoIInv'
<1> DEFINE new == {w \in {i} \X CoSessions \X CoTimes \X CoTimes :
                    CoDue(w[2]) /\ <<w[3], w[4]>> \in CoPlanAccrual(w[2], coNow[i])}
<1>1. /\ coPlan' = coPlan \cup new /\ coNow[i] # 0 /\ coNow' = [coNow EXCEPT ![i] = 0]
      /\ UNCHANGED <<coClock, coMade, coStopped, coMetrics>>
  BY DEF CoList
<1> HIDE DEF new
<1>4. ASSUME NEW s \in CoSessions, CoDue(s), NEW p \in CoPlanAccrual(s, coNow[i])
      PROVE  /\ p \in CoPeriods /\ CoWithin(s, p[1], p[2])
             /\ p[1] \in CoNodes(s) \/ \E q \in CoPlanAccrual(s, coNow[i]) : q[2] = p[1]
  <2> DEFINE start == CoSince(s)
             end == CoBillEnd(s, coNow[i])
  <2>1. /\ CoPlanAccrual(s, coNow[i]) = CoSplit(start, end) /\ start < end
    <3>1. start \in Nat
      BY CoSinceIsLast DEF CoIInv
    <3> QED
      BY <1>4, <3>1 DEF CoPlanAccrual
  <2>2. /\ coNow[i] \in Nat /\ coNow[i] <= coClock /\ coStopped[s] \in Nat /\ coMade[s] \in Nat
        /\ coMade[s] # 0 /\ coClock \in CoTimes /\ coClock \in Nat
    BY <1>4, CostsAssumption DEF CoIInv, CoTypes, CoTimes, CoDue
  <2>3. end \in Nat /\ end <= coClock /\ (coStopped[s] # 0 => end <= coStopped[s])
    <3>1. CASE coStopped[s] = 0
      BY <2>2, <3>1 DEF CoBillEnd
    <3>2. CASE coStopped[s] # 0
      <4>1. end = Min({coStopped[s], coNow[i]})
        BY <3>2 DEF CoBillEnd
      <4>2. /\ Min({coStopped[s], coNow[i]}) \in {coStopped[s], coNow[i]}
            /\ Min({coStopped[s], coNow[i]}) <= coStopped[s] /\ Min({coStopped[s], coNow[i]}) <= coNow[i]
        BY <2>2, CoMinOf
      <4> QED
        BY <2>2, <4>1, <4>2
    <3> QED
      BY <3>1, <3>2
  <2>4. start \in CoNodes(s) /\ start \in Nat /\ coMade[s] <= start
    BY CoSinceIsLast DEF CoIInv
  <2> HIDE DEF start, end
  <2>5. start \in CoTimes /\ end \in CoTimes
    BY <2>1, <2>2, <2>3, <2>4, CostsAssumption DEF CoTimes
  <2>6. /\ p \in CoPeriods /\ start <= p[1] /\ p[2] <= end
        /\ p[1] = start \/ \E q \in CoSplit(start, end) : q[2] = p[1]
    BY <1>4, <2>1, <2>5, CoSplitChain
  <2>7. p[1] \in Nat /\ p[2] \in Nat
    BY <2>6, CoPeriod, CostsAssumption DEF CoTimes
  <2>8. CoWithin(s, p[1], p[2])
    BY <2>2, <2>3, <2>4, <2>6, <2>7 DEF CoWithin
  <2> QED
    BY <2>1, <2>4, <2>6, <2>8
<1>5. ASSUME NEW w \in new
      PROVE  /\ w \in CoInstances \X CoSessions \X CoTimes \X CoTimes
             /\ <<w[3], w[4]>> \in CoPeriods /\ CoWithin(w[2], w[3], w[4])
             /\ w[3] \in CoNodes(w[2]) \/ \E v \in new : v[1] = w[1] /\ v[2] = w[2] /\ v[4] = w[3]
  <2> DEFINE s == w[2]
             p == <<w[3], w[4]>>
  <2>1. /\ w \in {i} \X CoSessions \X CoTimes \X CoTimes
        /\ s \in CoSessions /\ CoDue(s) /\ p \in CoPlanAccrual(s, coNow[i])
    BY DEF new
  <2>4. w[1] = i /\ w[2] = s /\ w[3] = p[1] /\ w[4] = p[2]
    BY <2>1
  <2> HIDE DEF s, p
  <2>2. /\ p \in CoPeriods /\ CoWithin(s, p[1], p[2])
        /\ p[1] \in CoNodes(s) \/ \E q \in CoPlanAccrual(s, coNow[i]) : q[2] = p[1]
    BY <1>4, <2>1
  <2>3. p[1] \in CoTimes /\ p[2] \in CoTimes /\ p = <<p[1], p[2]>>
    BY <2>2, CoPeriod
  <2>5. ASSUME NEW q \in CoPlanAccrual(s, coNow[i]), q[2] = p[1]
        PROVE  \E v \in new : v[1] = w[1] /\ v[2] = w[2] /\ v[4] = w[3]
    <3>1. q \in CoPeriods /\ q[1] \in CoTimes /\ q[2] \in CoTimes /\ q = <<q[1], q[2]>>
      BY <1>4, <2>1, CoPeriod
    <3>2. <<i, s, q[1], q[2]>> \in new
      BY <2>1, <3>1 DEF new
    <3> QED
      BY <2>4, <2>5, <3>2
  <2>6. w \in CoInstances \X CoSessions \X CoTimes \X CoTimes
    BY <2>1
  <2>7. <<w[3], w[4]>> \in CoPeriods /\ CoWithin(w[2], w[3], w[4])
    BY <2>4, <2>2, <2>3
  <2> QED
    BY <2>4, <2>2, <2>5, <2>6, <2>7
<1>6. CoTypes'
  <2>1. coPlan' \subseteq CoInstances \X CoSessions \X CoTimes \X CoTimes
    BY <1>1, <1>5 DEF CoIInv, CoTypes
  <2>2. 0 \in 0..CoMaxClock
    BY CostsAssumption
  <2>3. coNow' \in [CoInstances -> 0..CoMaxClock]
    BY <1>1, <2>2 DEF CoIInv, CoTypes
  <2> QED
    BY <1>1, <2>1, <2>3 DEF CoIInv, CoTypes
<1>7. CoMetricsInv'
  BY <1>1 DEF CoIInv, CoMetricsInv, CoWithin
<1>8. CoPlanInv'
  <2>1. \A w \in coPlan \cup new :
          /\ <<w[3], w[4]>> \in CoPeriods /\ CoWithin(w[2], w[3], w[4])
          /\ w[3] \in CoNodes(w[2]) \/ \E v \in coPlan \cup new : v[1] = w[1] /\ v[2] = w[2] /\ v[4] = w[3]
    BY <1>5 DEF CoIInv, CoPlanInv
  <2> QED
    BY <1>1, <2>1 DEF CoPlanInv, CoWithin, CoNodes
<1>9. \A j \in CoInstances : coNow'[j] <= coClock'
  BY <1>1, CostsAssumption DEF CoIInv, CoTypes, CoTimes
<1> QED
  BY <1>6, <1>7, <1>8, <1>9 DEF CoIInv

\* An instant that no metric starts at is the last one: what is billed from
\* there neither overlaps nor leaves a gap.
LEMMA CoExtends ==
  ASSUME CoTypes, CoMetricsInv, NEW s \in CoSessions, NEW n \in CoNodes(s),
         ~\E p \in coMetrics[s] : p[1] = n
  PROVE  \A p \in coMetrics[s] : p[2] <= n
<1> SUFFICES ASSUME NEW p \in coMetrics[s], ~(p[2] <= n) PROVE FALSE
  OBVIOUS
<1>1. n \in Nat /\ coMade[s] \in Nat /\ p[2] \in Nat
  BY CoSinceIsLast, CoMetricType, CostsAssumption DEF CoTypes
<1>2. \A q \in coMetrics[s] : q[1] \in Nat /\ q[2] \in Nat /\ q[1] < q[2] /\ coMade[s] <= q[1]
  BY CoMetricType DEF CoMetricsInv, CoWithin
<1>3. coMade[s] <= n
  BY <1>1, <1>2 DEF CoNodes
<1>4. PICK q \in coMetrics[s] : q[1] <= n /\ n < q[2]
  BY <1>1, <1>3 DEF CoMetricsInv
<1>5. q[1] < n
  BY <1>1, <1>2, <1>4
<1>6. CASE n = coMade[s]
  BY <1>1, <1>2, <1>5, <1>6
<1>7. ASSUME NEW r \in coMetrics[s], n = r[2] PROVE FALSE
  <2>1. q = r \/ q[2] <= r[1] \/ r[2] <= q[1]
    BY DEF CoMetricsInv
  <2> QED
    BY <1>1, <1>2, <1>4, <1>5, <1>7, <2>1
<1> QED
  BY <1>6, <1>7 DEF CoNodes

LEMMA CoInsertIInv ==
  ASSUME CoIInv, NEW i \in CoInstances, NEW s \in CoSessions, CoInsert(i, s)
  PROVE  CoIInv'
<1>1. PICK w \in CoOf(i, s) :
        /\ \A other \in CoOf(i, s) : w[3] <= other[3]
        /\ \/ /\ ~CoConflict(s, w[3], w[4])
              /\ coMetrics' = [coMetrics EXCEPT ![s] = @ \cup {<<w[3], w[4]>>}]
              /\ coPlan' = coPlan \ {w}
           \/ coPlan' = coPlan \ CoOf(i, s) /\ UNCHANGED coMetrics
        /\ UNCHANGED <<coClock, coMade, coStopped, coNow>>
  BY DEF CoInsert
<1>2. CASE coPlan' = coPlan \ CoOf(i, s) /\ UNCHANGED coMetrics
  <2>1. CoOf(i, s) \in SUBSET coPlan
        /\ \A u \in coPlan, v \in CoOf(i, s) : u[1] = v[1] /\ u[2] = v[2] => u \in CoOf(i, s)
    BY DEF CoOf
  <2>2. \A j \in CoInstances : coNow'[j] \in {coNow[j], 0}
    BY <1>1
  <2>3. coNow' \in [CoInstances -> 0..CoMaxClock]
    BY <1>1 DEF CoIInv, CoTypes
  <2> QED
    BY <1>1, <1>2, <2>1, <2>2, <2>3, CoDropIInv
<1>3. CASE /\ ~CoConflict(s, w[3], w[4])
           /\ coMetrics' = [coMetrics EXCEPT ![s] = @ \cup {<<w[3], w[4]>>}]
           /\ coPlan' = coPlan \ {w}
  <2> DEFINE n == w[3]
             e == w[4]
             new == <<n, e>>
  <2>1. w \in coPlan /\ w[1] = i /\ w[2] = s /\ n \in Nat /\ e \in Nat
    BY CoPlanType DEF CoOf, CoIInv
  <2>2. new \in CoPeriods /\ CoWithin(s, n, e) /\ n < e
    <3>1. new \in CoPeriods /\ CoWithin(s, n, e)
      BY <2>1 DEF CoIInv, CoPlanInv
    <3> QED
      BY <3>1, CoPeriod
  <2>3. n \in CoNodes(s)
    <3>1. ASSUME NEW v \in coPlan, v[1] = w[1], v[2] = w[2], v[4] = w[3] PROVE FALSE
      <4>1. v \in CoOf(i, s) /\ v[3] \in Nat /\ v[4] \in Nat
        BY <2>1, <3>1, CoPlanType DEF CoOf, CoIInv
      <4>2. v[3] < v[4]
        <5>1. <<v[3], v[4]>> \in CoPeriods
          BY DEF CoIInv, CoPlanInv
        <5> QED
          BY <5>1, CoPeriod
      <4> QED
        BY <1>1, <2>1, <3>1, <4>1, <4>2
    <3> QED
      BY <2>1, <3>1 DEF CoIInv, CoPlanInv
  <2>4. \A p \in coMetrics[s] : p[2] <= n
    BY <1>3, <2>3, CoExtends DEF CoConflict, CoIInv
  <2>5. coMetrics'[s] = coMetrics[s] \cup {new} /\ \A t \in CoSessions \ {s} : coMetrics'[t] = coMetrics[t]
    BY <1>3 DEF CoIInv, CoTypes
  <2>6. \A p \in coMetrics[s] : p[1] \in Nat /\ p[2] \in Nat /\ p[1] < p[2]
    BY CoMetricType DEF CoIInv
  <2>7. new[1] = n /\ new[2] = e
    OBVIOUS
  <2>8. CoTypes'
    <3>1. coMetrics' \in [CoSessions -> SUBSET CoPeriods]
      BY <1>3, <2>2 DEF CoIInv, CoTypes
    <3> QED
      BY <1>1, <1>3, <3>1 DEF CoIInv, CoTypes
  <2> HIDE DEF n, e, new
  <2>9. CoMetricsInv'
    <3> SUFFICES ASSUME NEW t \in CoSessions
                 PROVE  /\ coMade'[t] <= coClock'
                        /\ \A p \in coMetrics'[t] : CoWithin(t, p[1], p[2])'
                        /\ \A p, q \in coMetrics'[t] : p = q \/ p[2] <= q[1] \/ q[2] <= p[1]
                        /\ \A r \in coMetrics'[t] : \A x \in coMade'[t] .. r[2] - 1 :
                             \E p \in coMetrics'[t] : p[1] <= x /\ x < p[2]
      BY DEF CoMetricsInv
    <3>1. CASE t # s
      BY <1>1, <2>5, <3>1 DEF CoIInv, CoMetricsInv, CoWithin
    <3>2. CASE t = s
      <4>1. \A p \in coMetrics'[t] : CoWithin(t, p[1], p[2])'
        BY <1>1, <2>2, <2>5, <2>7, <3>2 DEF CoIInv, CoMetricsInv, CoWithin
      <4>2. \A p, q \in coMetrics'[t] : p = q \/ p[2] <= q[1] \/ q[2] <= p[1]
        BY <2>4, <2>5, <2>7, <3>2 DEF CoIInv, CoMetricsInv
      <4>3. ASSUME NEW r \in coMetrics'[t], NEW x \in coMade'[t] .. r[2] - 1
            PROVE  \E p \in coMetrics'[t] : p[1] <= x /\ x < p[2]
        <5>1. coMade[s] \in Nat /\ x \in coMade[s] .. r[2] - 1
          BY <1>1, <3>2, <4>3 DEF CoIInv, CoTypes
        <5>2. ASSUME NEW q \in coMetrics[s], x \in coMade[s] .. q[2] - 1
              PROVE  \E p \in coMetrics'[t] : p[1] <= x /\ x < p[2]
          <6>1. \E p \in coMetrics[s] : p[1] <= x /\ x < p[2]
            BY <5>2 DEF CoIInv, CoMetricsInv
          <6> QED
            BY <2>5, <3>2, <6>1
        <5>3. CASE r \in coMetrics[s]
          BY <5>1, <5>2, <5>3
        <5>4. CASE r = new /\ n <= x
          <6>1. new \in coMetrics'[t] /\ x < e
            BY <2>1, <2>5, <2>7, <3>2, <5>1, <5>4
          <6> QED
            BY <2>7, <5>4, <6>1
        <5>5. CASE r = new /\ ~(n <= x)
          <6>1. x \in Nat /\ coMade[s] <= x /\ x < n
            BY <2>1, <2>7, <5>1, <5>5
          <6>2. PICK q \in coMetrics[s] : n = q[2]
            BY <2>3, <5>1, <6>1, <2>1 DEF CoNodes
          <6>3. x \in coMade[s] .. q[2] - 1
            BY <2>1, <5>1, <6>1, <6>2
          <6> QED
            BY <5>2, <6>3
        <5> QED
          BY <2>5, <3>2, <4>3, <5>3, <5>4, <5>5
      <4>4. coMade'[t] <= coClock'
        BY <1>1 DEF CoIInv, CoMetricsInv
      <4> QED
        BY <4>1, <4>2, <4>3, <4>4
    <3> QED
      BY <3>1, <3>2
  <2>10. CoPlanInv'
    <3> SUFFICES ASSUME NEW u \in coPlan'
                 PROVE  /\ <<u[3], u[4]>> \in CoPeriods /\ CoWithin(u[2], u[3], u[4])'
                        /\ u[3] \in CoNodes(u[2])'
                             \/ \E v \in coPlan' : v[1] = u[1] /\ v[2] = u[2] /\ v[4] = u[3]
      BY DEF CoPlanInv
    <3>1. u \in coPlan /\ u[2] \in CoSessions
      BY <1>3, CoPlanType DEF CoIInv
    <3>2. <<u[3], u[4]>> \in CoPeriods /\ CoWithin(u[2], u[3], u[4])'
      BY <1>1, <3>1 DEF CoIInv, CoPlanInv, CoWithin
    <3>3. CoNodes(u[2]) \subseteq CoNodes(u[2])'
      BY <1>1, <2>5, <3>1 DEF CoNodes
    <3>4. e \in CoNodes(s)'
      BY <2>5, <2>7 DEF CoNodes
    <3>5. ASSUME NEW v \in coPlan, v[1] = u[1], v[2] = u[2], v[4] = u[3]
          PROVE  u[3] \in CoNodes(u[2])'
                   \/ \E x \in coPlan' : x[1] = u[1] /\ x[2] = u[2] /\ x[4] = u[3]
      <4>1. CASE v = w
        BY <2>1, <3>4, <3>5, <4>1 DEF e
      <4>2. CASE v # w
        BY <1>3, <3>5, <4>2
      <4> QED
        BY <4>1, <4>2
    <3>6. u[3] \in CoNodes(u[2]) \/ \E v \in coPlan : v[1] = u[1] /\ v[2] = u[2] /\ v[4] = u[3]
      BY <3>1 DEF CoIInv, CoPlanInv
    <3> QED
      BY <3>2, <3>3, <3>5, <3>6
  <2>11. \A j \in CoInstances : coNow'[j] <= coClock'
    BY <1>1 DEF CoIInv
  <2> QED
    BY <2>8, <2>9, <2>10, <2>11 DEF CoIInv
<1> QED
  BY <1>1, <1>2, <1>3

LEMMA CoTickIInv ==
  ASSUME CoIInv, CoTick
  PROVE  CoIInv'
<1>1. coClock' \in CoTimes /\ coClock \in Nat /\ coClock' = coClock + 1
  BY CostsAssumption DEF CoIInv, CoTypes, CoTimes, CoTick
<1>2. CoTypes'
  BY <1>1 DEF CoIInv, CoTypes, CoTick
<1>3. \A s \in CoSessions : coMade[s] \in Nat /\ coMade[s] <= coClock
  BY DEF CoIInv, CoTypes, CoMetricsInv
<1>4. \A j \in CoInstances : coNow[j] \in Nat /\ coNow[j] <= coClock
  BY DEF CoIInv, CoTypes
<1> QED
  BY <1>1, <1>2, <1>3, <1>4, CoClockIInv DEF CoTick

LEMMA CoCreateIInv ==
  ASSUME CoIInv, NEW s \in CoSessions, CoCreate(s)
  PROVE  CoIInv'
<1>1. coClock \in Nat /\ coClock \in 0..CoMaxClock
  BY CostsAssumption DEF CoIInv, CoTypes, CoTimes
<1>2. CoTypes'
  BY <1>1 DEF CoIInv, CoTypes, CoCreate
<1>3. \A t \in CoSessions : coMade'[t] <= coClock /\ (coMade'[t] = coMade[t] \/ coMade[t] = 0)
  BY <1>1 DEF CoIInv, CoTypes, CoMetricsInv, CoCreate
<1> QED
  BY <1>1, <1>2, <1>3, CoClockIInv DEF CoCreate, CoIInv

LEMMA CoStopIInv ==
  ASSUME CoIInv, NEW s \in CoSessions, CoStop(s)
  PROVE  CoIInv'
<1>1. coClock \in Nat /\ coClock \in 0..CoMaxClock
  BY CostsAssumption DEF CoIInv, CoTypes, CoTimes
<1>2. CoTypes'
  BY <1>1 DEF CoIInv, CoTypes, CoStop
<1>3. \A t \in CoSessions :
        coStopped'[t] = coStopped[t] \/ coStopped'[t] = coClock
  BY <1>1 DEF CoIInv, CoTypes, CoStop
<1>4. \A t \in CoSessions : coMade[t] <= coClock
  BY DEF CoIInv, CoMetricsInv
<1> QED
  BY <1>1, <1>2, <1>3, <1>4, CoClockIInv DEF CoStop, CoIInv

LEMMA CoSweepIInv ==
  ASSUME CoIInv, NEW i \in CoInstances, CoSweep(i)
  PROVE  CoIInv'
<1>1. coClock \in Nat /\ coClock \in 0..CoMaxClock
  BY CostsAssumption DEF CoIInv, CoTypes, CoTimes
<1>2. CoTypes'
  BY <1>1 DEF CoIInv, CoTypes, CoSweep
<1>3. \A j \in CoInstances : coNow'[j] <= coClock
  BY <1>1 DEF CoIInv, CoTypes, CoSweep
<1>4. \A t \in CoSessions : coMade[t] <= coClock
  BY DEF CoIInv, CoMetricsInv
<1> QED
  BY <1>1, <1>2, <1>3, <1>4, CoClockIInv DEF CoSweep

LEMMA CoUpdateTotalIInv ==
  ASSUME CoIInv, NEW i \in CoInstances, CoUpdateTotal(i)
  PROVE  CoIInv'
<1>1. PICK t \in coSum :
        /\ UNCHANGED coPlan \/ coPlan' = coPlan \ CoOf(i, t[2])
        /\ UNCHANGED <<coClock, coMade, coStopped, coMetrics, coNow>>
  BY DEF CoUpdateTotal
<1>2. CoOf(i, t[2]) \in SUBSET coPlan /\ {} \in SUBSET coPlan
      /\ \A u \in coPlan, v \in CoOf(i, t[2]) : u[1] = v[1] /\ u[2] = v[2] => u \in CoOf(i, t[2])
  BY DEF CoOf
<1>3. /\ \A j \in CoInstances : coNow'[j] \in {coNow[j], 0}
      /\ coNow' \in [CoInstances -> 0..CoMaxClock]
  BY <1>1 DEF CoIInv, CoTypes
<1>4. CASE UNCHANGED coPlan
  <2>1. coPlan' = coPlan \ {} /\ \A u \in coPlan, v \in {} : u[1] = v[1] /\ u[2] = v[2] => u \in {}
    BY <1>4
  <2> QED
    BY <1>1, <1>2, <1>3, <2>1, CoDropIInv
<1>5. CASE coPlan' = coPlan \ CoOf(i, t[2])
  BY <1>1, <1>2, <1>3, <1>5, CoDropIInv
<1> QED
  BY <1>1, <1>4, <1>5

LEMMA CoCrashIInv ==
  ASSUME CoIInv, NEW i \in CoInstances, CoCrash(i)
  PROVE  CoIInv'
<1> DEFINE gone == {w \in coPlan : w[1] = i}
<1>1. /\ coPlan' = coPlan \ gone /\ gone \in SUBSET coPlan
      /\ \A u \in coPlan, v \in gone : u[1] = v[1] /\ u[2] = v[2] => u \in gone
  BY DEF CoCrash
<1>2. /\ \A j \in CoInstances : coNow'[j] \in {coNow[j], 0}
      /\ coNow' \in [CoInstances -> 0..CoMaxClock]
  BY CostsAssumption DEF CoCrash, CoIInv, CoTypes
<1>3. UNCHANGED <<coClock, coMade, coStopped, coMetrics>>
  BY DEF CoCrash
<1> HIDE DEF gone
<1> QED
  BY <1>1, <1>2, <1>3, CoDropIInv

LEMMA CoNextIInv == CoIInv /\ [CoNext]_coVars => CoIInv'
<1> SUFFICES ASSUME CoIInv, [CoNext]_coVars PROVE CoIInv'
  OBVIOUS
<1>1. CASE UNCHANGED coVars
  BY <1>1 DEF coVars, CoIInv, CoTypes, CoMetricsInv, CoPlanInv, CoWithin, CoNodes
<1> QED
  BY <1>1, CoTickIInv, CoCreateIInv, CoStopIInv, CoSweepIInv, CoListIInv, CoInsertIInv,
     CoUpdateTotalIInv, CoCrashIInv DEF CoNext

\* Each instant up to the last one is billed, and once.
LEMMA CoBilledEach == CoIInv => CoBilledOnce
<1> SUFFICES ASSUME CoIInv, NEW s \in CoSessions
             PROVE  /\ \A t \in coMade[s] .. CoSince(s) - 1 :
                         Cardinality({p \in coMetrics[s] : p[1] <= t /\ t < p[2]})
                           = (IF coMade[s] = 0 THEN 0 ELSE 1)
                    /\ \A p \in coMetrics[s] :
                         /\ p[1] >= coMade[s] /\ ~\E m \in CoMonths : p[1] < m /\ m < p[2]
                         /\ coStopped[s] # 0 => p[2] <= coStopped[s]
  BY DEF CoBilledOnce
<1>1. coMade[s] \in Nat /\ CoSince(s) \in Nat /\ CoSince(s) \in CoNodes(s)
  BY CoSinceIsLast DEF CoIInv, CoTypes
<1>2. ASSUME NEW t \in coMade[s] .. CoSince(s) - 1
      PROVE  /\ Cardinality({p \in coMetrics[s] : p[1] <= t /\ t < p[2]}) = 1
             /\ coMade[s] # 0
  <2>1. t \in Nat /\ coMade[s] <= t /\ t < CoSince(s)
    BY <1>1
  <2>2. PICK r \in coMetrics[s] : CoSince(s) = r[2]
    BY <1>1, <2>1 DEF CoNodes
  <2>3. PICK p \in coMetrics[s] : p[1] <= t /\ t < p[2]
    BY <2>2 DEF CoIInv, CoMetricsInv
  <2>4. ASSUME NEW q \in coMetrics[s], q[1] <= t, t < q[2] PROVE q = p
    <3>1. /\ p[1] \in Nat /\ p[2] \in Nat /\ q[1] \in Nat /\ q[2] \in Nat
      BY CoMetricType DEF CoIInv
    <3>2. q = p \/ q[2] <= p[1] \/ p[2] <= q[1]
      BY DEF CoIInv, CoMetricsInv
    <3> QED
      BY <2>1, <2>3, <2>4, <3>1, <3>2
  <2>5. {q \in coMetrics[s] : q[1] <= t /\ t < q[2]} = {p}
    BY <2>3, <2>4
  <2>6. coMade[s] # 0
    BY DEF CoIInv, CoMetricsInv, CoWithin
  <2> QED
    BY <2>5, <2>6, FS_Singleton
<1>3. ASSUME NEW p \in coMetrics[s]
      PROVE  /\ p[1] >= coMade[s] /\ ~\E m \in CoMonths : p[1] < m /\ m < p[2]
             /\ coStopped[s] # 0 => p[2] <= coStopped[s]
  <2>1. p \in CoPeriods /\ p[1] \in Nat
    BY CoMetricType DEF CoIInv
  <2>2. CoWithin(s, p[1], p[2])
    BY DEF CoIInv, CoMetricsInv
  <2> QED
    BY <1>1, <2>1, <2>2, CoPeriod DEF CoWithin
<1> QED
  BY <1>2, <1>3

\* A sum of metrics is a number.
LEMMA CoBilledNat ==
  ASSUME NEW metrics \in SUBSET CoPeriods
  PROVE  CoBilled(metrics) \in Nat
<1>1. IsFiniteSet(CoTimes)
  BY FS_Interval, CostsAssumption DEF CoTimes
<1>2. IsFiniteSet(CoTimes \X CoTimes)
  BY <1>1, FS_Product
<1>3. metrics \subseteq CoTimes \X CoTimes
  BY DEF CoPeriods
<1>4. IsFiniteSet(metrics)
  BY <1>2, <1>3, FS_Subset
<1>5. ASSUME NEW p \in metrics, NEW t \in p[1] + 1 .. p[2] PROVE t \in CoTimes
  <2>1. p[1] \in CoTimes /\ p[2] \in CoTimes
    BY <1>3
  <2> QED
    BY <2>1, CostsAssumption DEF CoTimes
<1>6. CoUnits(metrics) \subseteq metrics \X CoTimes
  BY <1>5 DEF CoUnits
<1>7. IsFiniteSet(CoUnits(metrics))
  BY <1>1, <1>4, <1>6, FS_Product, FS_Subset
<1> QED
  BY <1>7, FS_CardinalityType DEF CoBilled

\* What an UPDATE of total_cost writes is a sum of metrics that was read before.
LEMMA CoMoneyNext == CoIInv /\ CoMoney /\ [CoNext]_coVars => CoMoney'
<1> SUFFICES ASSUME CoIInv, CoMoney, [CoNext]_coVars PROVE CoMoney'
  OBVIOUS
<1>1. CASE UNCHANGED <<coTotal, coSum>>
  BY <1>1 DEF CoMoney
<1>2. ASSUME NEW i \in CoInstances, NEW s \in CoSessions, CoInsert(i, s) PROVE CoMoney'
  <2>1. CoIInv'
    BY <1>2, CoInsertIInv
  <2>2. coMetrics'[s] \in SUBSET CoPeriods
    BY <2>1 DEF CoIInv, CoTypes
  <2>3. <<i, s, CoBilled(coMetrics'[s])>> \in CoInstances \X CoSessions \X Nat
    BY <2>2, CoBilledNat
  <2>4. coSum' \subseteq coSum \cup {<<i, s, CoBilled(coMetrics'[s])>>} /\ UNCHANGED coTotal
    BY <1>2 DEF CoInsert
  <2> QED
    BY <2>3, <2>4 DEF CoMoney
<1>3. ASSUME NEW i \in CoInstances, CoUpdateTotal(i) \/ CoCrash(i) PROVE CoMoney'
  <2>1. CASE CoUpdateTotal(i)
    <3>1. PICK t \in coSum : /\ coSum' = coSum \ {t}
                             /\ coTotal' = [coTotal EXCEPT ![t[2]] = t[3]] \/ UNCHANGED coTotal
      BY <2>1 DEF CoUpdateTotal
    <3>2. t[2] \in CoSessions /\ t[3] \in Nat
      BY DEF CoMoney
    <3> QED
      BY <3>1, <3>2 DEF CoMoney
  <2>2. CASE CoCrash(i)
    BY <2>2 DEF CoCrash, CoMoney
  <2> QED
    BY <1>3, <2>1, <2>2
<1>4. CASE UNCHANGED coVars
  BY <1>1, <1>4 DEF coVars
<1>5. CASE CoNext
  <2>1. CASE CoTick \/ \E s \in CoSessions : CoCreate(s) \/ CoStop(s)
    BY <1>1, <2>1 DEF CoTick, CoCreate, CoStop
  <2>2. ASSUME NEW i \in CoInstances, CoSweep(i) \/ CoList(i) PROVE CoMoney'
    BY <1>1, <2>2 DEF CoSweep, CoList
  <2> QED
    BY <1>2, <1>3, <1>5, <2>1, <2>2 DEF CoNext
<1> QED
  BY <1>4, <1>5

(***************************************************************************)
(* A session is billed once for each instant of its life up to the last    *)
(* bill, never across the end of a month and never past its stop, for any  *)
(* number of API instances that sweep at once, stop in the middle or fail  *)
(* (AccrueUsage, RecordMetric): a sweep plans periods that follow each     *)
(* other from an instant up to which the session is billed, and the unique *)
(* index on the start refuses every one that is not at the end of the      *)
(* chain.                                                                  *)
(***************************************************************************)
THEOREM BilledOnce == CoSpec => [](CoTypeOK /\ CoBilledOnce)
<1>1. CoInit => CoIInv /\ CoMoney
  <2>1. CoInit => CoMoney
    BY DEF CoInit, CoMoney
  <2> QED
    BY <2>1, CoInitIInv
<1>2. CoIInv /\ CoMoney /\ [CoNext]_coVars => CoIInv' /\ CoMoney'
  BY CoNextIInv, CoMoneyNext
<1>3. CoIInv /\ CoMoney => CoTypeOK /\ CoBilledOnce
  BY CoBilledEach DEF CoIInv, CoTypes, CoMoney, CoTypeOK
<1> QED
  BY <1>1, <1>2, <1>3, PTL DEF CoSpec

-----------------------------------------------------------------------------
(* Cost reports *)

(***************************************************************************)
(* The metrics of some sessions and months, what they cost each session,   *)
(* and the sessions that spent something, among given metrics.             *)
(***************************************************************************)
CrAmong(ms, ss, months) == {m \in ms : m.session \in ss /\ m.month \in months}
CrCostOf(ms, s, month) == CrSum(CrAmong(ms, {s}, {month}))
CrSpenders(ms, ss, month) == {s \in ss : CrCostOf(ms, s, month) > 0}
CrSpentAmong(ms, ss, month) == {<<s, CrCostOf(ms, s, month)>> : s \in CrSpenders(ms, ss, month)}

\* checkSessionAccess, for given sessions and members.
CrSees(owner, org, role, p) ==
  {s \in CrSessions : owner[s] # "none" /\ (owner[s] = p \/ CrRoleIn(role, org[s], p) # "none")}

CrStates ==
  {"idle", "totals", "top", "count", "list", "summary", "role", "org", "budget", "set", "done",
   "refused"}

\* A request, but for what it lists.
CrReports(tops) ==
  [pc : CrStates, who : CrCallers \cup {"none"}, on : {"none"} \cup CrOrgs \cup CrSessions,
   month : CrMonths \cup {"none"}, seen : SUBSET CrSessions, stable : BOOLEAN, total : Nat,
   top : tops, count : Nat]

CrMetricsOK(ms) ==
  /\ IsFiniteSet(ms)
  /\ \A m \in ms : m.session \in CrSessions /\ m.month \in CrMonths /\ m.total \in Nat /\ CrVerify(m)

\* What a breakdown has added up so far is bounded by what its caller has seen,
\* and, with what the caller sees unchanged, by what the statements that
\* follow will find, for sessions and metrics only become more.
CrBreakdownOK(r, see, ms) ==
  /\ r.pc \in {"totals", "top", "count"} => r.on = "none" /\ r.month \in CrMonths
  /\ r.pc \in {"top", "count"} \/ CrIsBreakdown(r) =>
       r.total <= CrSum(CrAmong(ms, r.seen, {r.month}))
  /\ r.pc = "top" /\ r.stable => r.total <= CrSum(CrAmong(ms, see, {r.month}))
  /\ r.pc = "count" \/ CrIsBreakdown(r) =>
       IsFiniteSet(r.top) /\ {t[1] : t \in r.top} \subseteq r.seen
  /\ r.pc = "count" /\ r.stable =>
       /\ Cardinality(r.top) <= Cardinality(CrSpentAmong(ms, see, r.month))
       /\ Cardinality(CrSpentAmong(ms, see, r.month)) < CrTop =>
            r.total <= Cardinality(CrListed(r.top))
  /\ CrIsBreakdown(r) /\ r.stable =>
       /\ Cardinality(r.top) <= r.count
       /\ r.count < CrTop => r.total <= Cardinality(CrListed(r.top))

\* A session's list was taken from its metrics; they only become more.
CrSessionOK(r, ms) ==
  /\ r.pc \in {"list", "summary"} => r.on \in CrSessions
  /\ r.pc \in {"role", "org", "budget", "set"} => r.on \in CrOrgs
  /\ r.pc = "summary" => r.on \in r.seen /\ r.top \subseteq CrAmong(ms, {r.on}, CrMonths)
  /\ CrIsSession(r) => r.on \in r.seen /\ CrSum(r.top) <= r.total

CrReportOK(r, see, ms) ==
  /\ r.pc = "idle" <=> r.who = "none"
  /\ r.who # "none" => see \subseteq r.seen
  /\ CrBreakdownOK(r, see, ms)
  /\ CrSessionOK(r, ms)

CrIInv ==
  /\ CrTypeOK /\ CrMetricsOK(crMetrics)
  /\ crReq \in [CrReqs -> CrReports({crReq[q].top : q \in CrReqs})]
  /\ \A q \in CrReqs : CrReportOK(crReq[q], CrSees(crOwner, crOrg, crRole, crReq[q].who), crMetrics)

\* A metric as RecordMetric stores it.
CrRow(m, n) == [CrColumns(m) EXCEPT !.checksum = CrChecksum(m), !.n = n]

\* What is noted with a request: what its caller saw, and sees now.
CrNotes(r, t, see, now) ==
  \E seen \in SUBSET CrSessions, stable \in BOOLEAN :
    /\ t = [r EXCEPT !.seen = seen, !.stable = stable] /\ r.seen \subseteq seen
    /\ r.who # "none" => now \subseteq seen /\ (stable => r.stable /\ see \subseteq now)
CrNoted(owner, org, role) ==
  \A q \in CrReqs :
    CrNotes(crReq[q], crReq'[q], CrSees(crOwner, crOrg, crRole, crReq[q].who),
            CrSees(owner, org, role, crReq[q].who))

(***************************************************************************)
(* Rounding: what the columns of a row do to a metric that was brought to  *)
(* their precision before it was signed is nothing.                        *)
(***************************************************************************)

LEMMA CrRoundTwice ==
  ASSUME NEW v \in Nat
  PROVE  /\ CrRound(v, 4) \in Nat /\ CrRound(CrRound(v, 4), 4) = CrRound(v, 4)
         /\ CrRound(v, 10) \in Nat /\ CrRound(CrRound(v, 10), 10) = CrRound(v, 10)
         /\ CrRound(CrTruncate(v), 10) = CrTruncate(v)
<1> DEFINE a == (v + 2) \div 4
           b == (v + 5) \div 10
           c == v \div 10
<1>1. a \in Nat /\ b \in Nat /\ c \in Nat
  OBVIOUS
<1>2. CrRound(v, 4) = a * 4 /\ CrRound(v, 10) = b * 10 /\ CrTruncate(v) = c * 10
  BY DEF CrRound, CrTruncate
<1> HIDE DEF a, b, c
<1>3. (a * 4 + 2) \div 4 = a /\ (b * 10 + 5) \div 10 = b /\ (c * 10 + 5) \div 10 = c
  BY <1>1
<1>4. CrRound(a * 4, 4) = a * 4 /\ CrRound(b * 10, 10) = b * 10 /\ CrRound(c * 10, 10) = c * 10
  BY <1>3 DEF CrRound
<1> QED
  BY <1>1, <1>2, <1>4

LEMMA CrRowVerifies ==
  ASSUME NEW s \in CrSessions, NEW month \in CrMonths, NEW end \in Nat, NEW n
  PROVE  /\ CrVerify(CrRow(CrMetric(s, month, end), n))
         /\ CrRow(CrMetric(s, month, end), n).session = s
         /\ CrRow(CrMetric(s, month, end), n).month = month
         /\ CrRow(CrMetric(s, month, end), n).total \in Nat
<1> DEFINE m == CrMetric(s, month, end)
           cpu == CrRound(end, 4)
           memory == CrRound(3 * end, 4)
           compute == CrRound(CrCost(cpu, memory), 10)
<1>1. cpu \in Nat /\ memory \in Nat /\ CrRound(cpu, 4) = cpu /\ CrRound(memory, 4) = memory
  BY CrRoundTwice, 3 * end \in Nat
<1>2. CrCost(cpu, memory) \in Nat
  BY <1>1 DEF CrCost
<1>3. compute \in Nat /\ CrRound(compute, 10) = compute
  BY <1>2, CrRoundTwice
<1>4. CrRound(CrTruncate(end), 10) = CrTruncate(end)
  BY CrRoundTwice
<1>5. m = [session |-> s, month |-> month, end |-> CrTruncate(end), cpu |-> cpu, memory |-> memory,
           compute |-> compute, total |-> compute, checksum |-> <<>>, n |-> 0]
  BY <1>3 DEF CrMetric
<1> HIDE DEF m, cpu, memory, compute
<1>6. CrColumns(m) = m
  <2>1. CrRound(m.end, 10) = m.end /\ CrRound(m.cpu, 4) = m.cpu /\ CrRound(m.memory, 4) = m.memory
        /\ CrRound(m.compute, 10) = m.compute /\ CrRound(m.total, 10) = m.total
    BY <1>1, <1>3, <1>4, <1>5
  <2>2. CrColumns(m) = [m EXCEPT !.end = m.end, !.cpu = m.cpu, !.memory = m.memory,
                                 !.compute = m.compute, !.total = m.total]
    BY <2>1, Zenon DEF CrColumns
  <2> QED
    BY <1>5, <2>2
<1> DEFINE row == CrRow(m, n)
<1>7. row = [m EXCEPT !.checksum = CrChecksum(m), !.n = n]
  BY <1>6 DEF CrRow
<1> HIDE DEF row
<1>8. CrVerify(row) /\ row.session = s /\ row.month = month /\ row.total \in Nat
  BY <1>3, <1>5, <1>7 DEF CrVerify, CrChecksum
<1> QED
  BY <1>8 DEF row, m

-----------------------------------------------------------------------------
(***************************************************************************)
(* Sums.                                                                   *)
(***************************************************************************)

LEMMA CrUnitsOfOne ==
  ASSUME NEW r, NEW n \in Nat
  PROVE  IsFiniteSet({r} \X (1..n))
<1>1. IsFiniteSet({r})
  BY FS_Singleton
<1>2. IsFiniteSet(1..n)
  BY FS_Interval
<1> QED
  BY <1>1, <1>2, FS_Product

LEMMA CrUnitsFinite ==
  ASSUME NEW ms, IsFiniteSet(ms), \A m \in ms : m.total \in Nat
  PROVE  IsFiniteSet(CrUnits(ms)) /\ CrSum(ms) \in Nat
<1>1. ASSUME NEW m \in ms PROVE IsFiniteSet({m} \X (1..m.total))
  BY m.total \in Nat, CrUnitsOfOne
<1> DEFINE U == {{m} \X (1..m.total) : m \in ms}
           f == [m \in ms |-> {m} \X (1..m.total)]
<1>2. f \in Surjection(ms, U)
  BY DEF Surjection
<1>3. IsFiniteSet(U)
  BY <1>2, FS_Surjection
<1>4. \A T \in U : IsFiniteSet(T)
  BY <1>1
<1> HIDE DEF U
<1>5. IsFiniteSet(UNION U)
  BY <1>3, <1>4, FS_UNION
<1> QED
  BY <1>5, FS_CardinalityType DEF U, CrUnits, CrSum

LEMMA CrSumGrows ==
  ASSUME NEW ms, IsFiniteSet(ms), \A m \in ms : m.total \in Nat, NEW fewer \in SUBSET ms
  PROVE  CrSum(fewer) <= CrSum(ms) /\ CrSum(fewer) \in Nat
<1>1. CrUnits(fewer) \subseteq CrUnits(ms)
  BY DEF CrUnits
<1>2. IsFiniteSet(CrUnits(ms))
  BY CrUnitsFinite
<1> QED
  BY <1>1, <1>2, FS_Subset, FS_CardinalityType DEF CrSum

\* What sessions cost grows with the metrics, with the sessions.
LEMMA CrAmongGrows ==
  ASSUME NEW ms, CrMetricsOK(ms), NEW fewer \in SUBSET ms, NEW ss, NEW some \in SUBSET ss, NEW months
  PROVE  /\ CrSum(CrAmong(fewer, some, months)) <= CrSum(CrAmong(ms, ss, months))
         /\ CrSum(CrAmong(ms, ss, months)) \in Nat /\ CrSum(CrAmong(fewer, some, months)) \in Nat
<1>1. CrAmong(fewer, some, months) \subseteq CrAmong(ms, ss, months) /\ CrAmong(ms, ss, months) \subseteq ms
  BY DEF CrAmong
<1>2. IsFiniteSet(CrAmong(ms, ss, months)) /\ \A m \in CrAmong(ms, ss, months) : m.total \in Nat
  BY <1>1, FS_Subset DEF CrMetricsOK
<1> QED
  BY <1>1, <1>2, CrSumGrows, CrUnitsFinite

LEMMA CrSpentFinite ==
  ASSUME NEW ms, NEW ss \in SUBSET CrSessions, NEW month
  PROVE  IsFiniteSet(CrSpentAmong(ms, ss, month)) /\ Cardinality(CrSpentAmong(ms, ss, month)) \in Nat
<1> DEFINE S == CrSpenders(ms, ss, month)
           f == [s \in S |-> <<s, CrCostOf(ms, s, month)>>]
<1>1. IsFiniteSet(S)
  BY FS_Subset, CostReportsAssumption DEF CrSpenders
<1>2. f \in Surjection(S, CrSpentAmong(ms, ss, month))
  BY DEF Surjection, CrSpentAmong
<1> HIDE DEF S, f
<1> QED
  BY <1>1, <1>2, FS_Surjection, FS_CardinalityType

\* No fewer sessions have spent something when there are more metrics, or
\* more sessions.
LEMMA CrSpentGrows ==
  ASSUME NEW ms, CrMetricsOK(ms), NEW fewer \in SUBSET ms, NEW ss \in SUBSET CrSessions,
         NEW some \in SUBSET ss, NEW month
  PROVE  Cardinality(CrSpentAmong(fewer, some, month)) <= Cardinality(CrSpentAmong(ms, ss, month))
<1> DEFINE A == CrSpentAmong(fewer, some, month)
           B == CrSpentAmong(ms, ss, month)
           f == [t \in A |-> <<t[1], CrCostOf(ms, t[1], month)>>]
<1>1. ASSUME NEW s \in CrSpenders(fewer, some, month) PROVE s \in CrSpenders(ms, ss, month)
  BY CrAmongGrows DEF CrSpenders, CrCostOf
<1>2. ASSUME NEW t \in A
      PROVE  t[1] \in CrSpenders(ms, ss, month) /\ t = <<t[1], CrCostOf(fewer, t[1], month)>>
  BY <1>1 DEF CrSpentAmong
<1>3. f \in [A -> B]
  BY <1>2 DEF CrSpentAmong
<1>4. \A t, u \in A : f[t] = f[u] => t = u
  <2> SUFFICES ASSUME NEW t \in A, NEW u \in A, f[t] = f[u] PROVE t = u
    OBVIOUS
  <2>1. t[1] = u[1]
    OBVIOUS
  <2> QED
    BY <1>2, <2>1
<1>5. f \in Injection(A, B)
  BY <1>3, <1>4 DEF Injection, IsInjective
<1>6. IsFiniteSet(B)
  BY CrSpentFinite
<1> HIDE DEF A, B, f
<1> QED
  BY <1>5, <1>6, FS_Injection DEF A, B

LEMMA CrListedFinite ==
  ASSUME NEW ms, CrMetricsOK(ms), NEW ss \in SUBSET CrSessions, NEW month
  PROVE  IsFiniteSet(CrListed(CrSpentAmong(ms, ss, month)))
<1> DEFINE spent == CrSpentAmong(ms, ss, month)
           U == {{t} \X (1..t[2]) : t \in spent}
           g == [t \in spent |-> {t} \X (1..t[2])]
<1>1. IsFiniteSet(spent)
  BY CrSpentFinite
<1>2. ASSUME NEW t \in spent PROVE t[2] \in Nat
  <2>1. PICK s \in ss : t = <<s, CrCostOf(ms, s, month)>>
    BY DEF CrSpentAmong, CrSpenders
  <2>2. CrCostOf(ms, s, month) \in Nat
    BY CrAmongGrows DEF CrCostOf
  <2> QED
    BY <2>1, <2>2
<1> HIDE DEF spent
<1>3. g \in Surjection(spent, U)
  BY DEF Surjection
<1>4. \A T \in U : IsFiniteSet(T)
  BY <1>2, CrUnitsOfOne
<1>5. IsFiniteSet(U)
  BY <1>1, <1>3, FS_Surjection
<1> HIDE DEF U
<1>6. IsFiniteSet(UNION U)
  BY <1>4, <1>5, FS_UNION
<1> QED
  BY <1>6 DEF U, CrListed, spent

\* The sessions that spent something account for all that was spent: a unit of
\* a metric is counted once, with its session.
LEMMA CrListedCovers ==
  ASSUME NEW ms, CrMetricsOK(ms), NEW ss \in SUBSET CrSessions, NEW month
  PROVE  CrSum(CrAmong(ms, ss, {month})) <= Cardinality(CrListed(CrSpentAmong(ms, ss, month)))
<1> DEFINE all == CrUnits(CrAmong(ms, ss, {month}))
           of(s) == CrUnits(CrAmong(ms, {s}, {month}))
           spent == CrSpentAmong(ms, ss, month)
           listed == CrListed(spent)
           number == [s \in ss |-> CHOOSE g : g \in Injection(of(s), 1..CrCostOf(ms, s, month))]
           f == [u \in all |-> <<<<u[1].session, CrCostOf(ms, u[1].session, month)>>, number[u[1].session][u]>>]
<1>1. ASSUME NEW s \in ss
      PROVE  /\ IsFiniteSet(of(s)) /\ CrCostOf(ms, s, month) = Cardinality(of(s))
             /\ CrCostOf(ms, s, month) \in Nat
             /\ number[s] \in Injection(of(s), 1..CrCostOf(ms, s, month))
  <2>1. CrAmong(ms, {s}, {month}) \subseteq ms
    BY DEF CrAmong
  <2>2. IsFiniteSet(CrAmong(ms, {s}, {month})) /\ \A m \in CrAmong(ms, {s}, {month}) : m.total \in Nat
    BY <2>1, FS_Subset DEF CrMetricsOK
  <2>3. IsFiniteSet(of(s)) /\ CrCostOf(ms, s, month) = Cardinality(of(s)) /\ CrCostOf(ms, s, month) \in Nat
    BY <2>2, CrUnitsFinite DEF CrCostOf, CrSum
  <2> DEFINE S == of(s)
             n == CrCostOf(ms, s, month)
  <2>4. IsFiniteSet(S) /\ n = Cardinality(S) /\ n \in Nat
    BY <2>3
  <2> HIDE DEF S, n
  <2>5. ExistsBijection(1..n, S)
    BY <2>4, FS_CardinalityType
  <2>6. ExistsBijection(S, 1..n)
    BY <2>5, Fun_ExistsBijSymmetric
  <2>7. \E g : g \in Injection(S, 1..n)
    BY <2>6 DEF ExistsBijection, Bijection
  <2>8. (CHOOSE g : g \in Injection(S, 1..n)) \in Injection(S, 1..n)
    BY <2>7, Zenon
  <2>9. number[s] = CHOOSE g : g \in Injection(S, 1..n)
    BY DEF S, n
  <2> QED
    BY <2>3, <2>8, <2>9 DEF S, n
<1>2. ASSUME NEW u \in all
      PROVE  /\ u[1].session \in ss /\ u \in of(u[1].session)
             /\ CrCostOf(ms, u[1].session, month) > 0
  <2>1. PICK m \in CrAmong(ms, ss, {month}) : u \in {m} \X (1..m.total)
    BY DEF CrUnits
  <2>2. m = u[1] /\ m.session \in ss /\ m \in CrAmong(ms, {m.session}, {month})
    BY <2>1 DEF CrAmong
  <2>3. u \in of(m.session)
    BY <2>1, <2>2 DEF CrUnits
  <2> DEFINE S == of(m.session)
  <2>4. IsFiniteSet(S) /\ CrCostOf(ms, m.session, month) = Cardinality(S) /\ Cardinality(S) \in Nat /\ S # {}
    BY <1>1, <2>2, <2>3
  <2> HIDE DEF S
  <2>5. Cardinality(S) # 0
    BY <2>4, FS_EmptySet
  <2> QED
    BY <2>2, <2>3, <2>4, <2>5
<1>3. ASSUME NEW u \in all PROVE f[u] \in listed
  <2> DEFINE s == u[1].session
             t == <<s, CrCostOf(ms, s, month)>>
  <2>1. s \in ss /\ u \in of(s) /\ t \in spent
    BY <1>2 DEF CrSpentAmong, CrSpenders
  <2>2. number[s][u] \in 1..t[2]
    BY <1>1, <2>1 DEF Injection
  <2>3. f[u] = <<t, number[s][u]>>
    OBVIOUS
  <2> HIDE DEF t, s, f, number, spent
  <2>4. <<t, number[s][u]>> \in {t} \X (1..t[2])
    BY <2>2
  <2> QED
    BY <2>1, <2>3, <2>4 DEF CrListed
<1>4. ASSUME NEW u \in all, NEW v \in all, f[u] = f[v] PROVE u = v
  <2> DEFINE s == u[1].session
  <2>1. v[1].session = s /\ number[s][u] = number[s][v]
    <3>1. f[u] = <<<<s, CrCostOf(ms, s, month)>>, number[s][u]>>
      OBVIOUS
    <3>2. f[v] = <<<<v[1].session, CrCostOf(ms, v[1].session, month)>>, number[v[1].session][v]>>
      OBVIOUS
    <3> HIDE DEF f, number, s
    <3>3. f[u][1][1] = s /\ f[u][2] = number[s][u]
      BY <3>1
    <3>4. f[v][1][1] = v[1].session /\ f[v][2] = number[v[1].session][v]
      BY <3>2
    <3> QED
      BY <1>4, <3>3, <3>4
  <2>2. s \in ss /\ u \in of(s) /\ v \in of(s)
    BY <1>2, <2>1
  <2>3. number[s] \in Injection(of(s), 1..CrCostOf(ms, s, month))
    BY <1>1, <2>2
  <2> HIDE DEF number, s
  <2> QED
    BY <2>1, <2>2, <2>3 DEF Injection, IsInjective
<1>5. f \in Injection(all, listed)
  <2>1. f \in [all -> listed]
    BY <1>3
  <2> HIDE DEF f
  <2> QED
    BY <1>4, <2>1 DEF Injection, IsInjective
<1>6. IsFiniteSet(listed)
  BY CrListedFinite
<1> HIDE DEF all, listed, f
<1>7. Cardinality(all) <= Cardinality(listed)
  BY <1>5, <1>6, FS_Injection
<1> QED
  BY <1>7 DEF all, listed, CrSum

-----------------------------------------------------------------------------
(***************************************************************************)
(* What a caller sees.                                                     *)
(***************************************************************************)

\* The condition in a query lets through what the access check does.
LEMMA CrVisibleSeen ==
  ASSUME CrTypeOK, NEW p \in CrCallers
  PROVE  CrVisible(p) = CrSees(crOwner, crOrg, crRole, p)
<1> SUFFICES ASSUME NEW s \in CrSessions, crOwner[s] # "none"
             PROVE  CrPredicate(p, s) <=> crOwner[s] = p \/ CrRoleIn(crRole, crOrg[s], p) # "none"
  BY DEF CrVisible, CrSees
<1>1. crOrg[s] \in CrOrgs \cup {"none"} /\ "none" \notin CrOrgs /\ "master" \notin CrPrincipals
  BY CostReportsAssumption DEF CrTypeOK
<1>2. CASE p = "master"
  BY <1>2 DEF CrPredicate, CrRoleIn
<1>3. CASE p # "master"
  BY <1>1, <1>3 DEF CrPredicate, CrRoleIn
<1> QED
  BY <1>2, <1>3

LEMMA CrReadsAmong ==
  ASSUME NEW r, NEW ss, NEW months
  PROVE  /\ CrOf(ss, months) = CrAmong(crMetrics, ss, months)
         /\ CrSpent(r) = CrSpentAmong(crMetrics, CrVisible(r.who), r.month)
  BY DEF CrOf, CrAmong, CrSpent, CrSpentAmong, CrSpenders, CrCostOf

\* A request that waits stays as it should be while metrics are recorded and
\* others come and go, its caller's view noted with it.
LEMMA CrReportKept ==
  ASSUME NEW tops, NEW r \in CrReports(tops), NEW ms, CrMetricsOK(ms), NEW fewer \in SUBSET ms,
         NEW see \in SUBSET CrSessions, NEW now \in SUBSET CrSessions,
         CrReportOK(r, see, fewer), NEW t, CrNotes(r, t, see, now)
  PROVE  CrReportOK(t, now, ms) /\ t \in CrReports(tops) /\ t.top = r.top /\ t.who = r.who
<1>0. PICK seen \in SUBSET CrSessions, stable \in BOOLEAN :
        /\ t = [r EXCEPT !.seen = seen, !.stable = stable] /\ r.seen \subseteq seen
        /\ r.who # "none" => now \subseteq seen /\ (stable => r.stable /\ see \subseteq now)
  BY DEF CrNotes
<1>1. /\ t.pc = r.pc /\ t.who = r.who /\ t.on = r.on /\ t.month = r.month /\ t.total = r.total
      /\ t.top = r.top /\ t.count = r.count /\ t.seen = seen /\ t.stable = stable
      /\ r.total \in Nat /\ r.count \in Nat /\ r.seen \subseteq CrSessions /\ t \in CrReports(tops)
  BY <1>0 DEF CrReports
<1>2. (r.pc = "idle" <=> r.who = "none") /\ (r.who # "none" => see \subseteq r.seen)
      /\ CrBreakdownOK(r, see, fewer) /\ CrSessionOK(r, fewer)
  BY DEF CrReportOK
<1>3. CrSessionOK(t, ms)
  <2>1. CrAmong(fewer, {r.on}, CrMonths) \subseteq CrAmong(ms, {r.on}, CrMonths)
    BY DEF CrAmong
  <2> QED
    BY <1>0, <1>1, <1>2, <2>1 DEF CrSessionOK, CrIsSession
<1>4. CrBreakdownOK(t, now, ms)
  <2>1. CASE r.pc \notin {"totals", "top", "count", "done"}
    BY <1>1, <2>1 DEF CrBreakdownOK, CrIsBreakdown
  <2>2. CASE r.pc \in {"totals", "top", "count", "done"}
    <3>1. /\ r.who # "none" /\ (stable => r.stable /\ see \subseteq now)
          /\ r.seen \subseteq seen /\ now \subseteq seen
      BY <1>0, <1>2, <2>2
    <3>2. r.pc \in {"totals", "top", "count"} => r.on = "none" /\ r.month \in CrMonths
      BY <1>2 DEF CrBreakdownOK
    <3>3. r.pc \in {"top", "count"} \/ CrIsBreakdown(r) =>
            r.total <= CrSum(CrAmong(ms, seen, {r.month}))
      <4>1. CrSum(CrAmong(fewer, r.seen, {r.month})) <= CrSum(CrAmong(ms, seen, {r.month}))
            /\ CrSum(CrAmong(fewer, r.seen, {r.month})) \in Nat
            /\ CrSum(CrAmong(ms, seen, {r.month})) \in Nat
        BY <3>1, CrAmongGrows
      <4> QED
        BY <1>1, <1>2, <4>1 DEF CrBreakdownOK
    <3>4. r.pc = "top" /\ stable => r.total <= CrSum(CrAmong(ms, now, {r.month}))
      <4> SUFFICES ASSUME r.pc = "top", stable PROVE r.total <= CrSum(CrAmong(ms, now, {r.month}))
        OBVIOUS
      <4>1. CrSum(CrAmong(fewer, see, {r.month})) <= CrSum(CrAmong(ms, now, {r.month}))
            /\ CrSum(CrAmong(fewer, see, {r.month})) \in Nat
            /\ CrSum(CrAmong(ms, now, {r.month})) \in Nat
        BY <3>1, CrAmongGrows
      <4> QED
        BY <1>1, <1>2, <3>1, <4>1 DEF CrBreakdownOK
    <3>5. r.pc = "count" \/ CrIsBreakdown(r) => IsFiniteSet(r.top) /\ {x[1] : x \in r.top} \subseteq seen
      BY <1>2, <3>1 DEF CrBreakdownOK
    <3>6. ASSUME r.pc = "count", stable
          PROVE  /\ Cardinality(r.top) <= Cardinality(CrSpentAmong(ms, now, r.month))
                 /\ Cardinality(CrSpentAmong(ms, now, r.month)) < CrTop =>
                      r.total <= Cardinality(CrListed(r.top))
      <4> DEFINE a == Cardinality(CrSpentAmong(fewer, see, r.month))
                 b == Cardinality(CrSpentAmong(ms, now, r.month))
                 n == Cardinality(r.top)
      <4>1. a <= b
        BY <3>1, <3>6, CrSpentGrows
      <4>2. a \in Nat /\ b \in Nat
        BY CrSpentFinite
      <4>3. n <= a /\ (a < CrTop => r.total <= Cardinality(CrListed(r.top)))
        BY <1>2, <3>1, <3>6 DEF CrBreakdownOK
      <4>4. n \in Nat
        BY <1>2, <3>6, FS_CardinalityType DEF CrBreakdownOK
      <4> HIDE DEF a, b, n
      <4>5. n <= b /\ (b < CrTop => a < CrTop)
        BY <4>1, <4>2, <4>3, <4>4, CostReportsAssumption
      <4> QED
        BY <4>3, <4>5 DEF b, n
    <3>7. CrIsBreakdown(r) /\ stable =>
            /\ Cardinality(r.top) <= r.count
            /\ r.count < CrTop => r.total <= Cardinality(CrListed(r.top))
      BY <1>2, <3>1 DEF CrBreakdownOK
    <3> QED
      BY <1>1, <3>2, <3>3, <3>4, <3>5, <3>6, <3>7 DEF CrBreakdownOK, CrIsBreakdown
  <2> QED
    BY <2>1, <2>2
<1> QED
  BY <1>0, <1>1, <1>2, <1>3, <1>4 DEF CrReportOK
-----------------------------------------------------------------------------
(***************************************************************************)
(* One step per action.                                                    *)
(***************************************************************************)

LEMMA CrIdleKnown ==
  /\ CrIdle \in CrReports({{}})
  /\ CrIdle.pc = "idle" /\ CrIdle.who = "none" /\ CrIdle.on = "none" /\ CrIdle.month = "none"
  /\ CrIdle.seen = {} /\ CrIdle.stable = TRUE /\ CrIdle.total = 0 /\ CrIdle.top = {}
  /\ CrIdle.count = 0
  BY DEF CrIdle, CrReports, CrStates

LEMMA CrInitIInv == CrInit => CrIInv
<1> SUFFICES ASSUME CrInit PROVE CrIInv
  OBVIOUS
<1>1. CrTypeOK
  <2>1. /\ crOwner \in [CrSessions -> CrCallers \cup {"none"}]
        /\ crOrg \in [CrSessions -> CrOrgs \cup {"none"}]
        /\ crRole \in [CrOrgs -> [CrPrincipals -> CrRoles]]
        /\ crBudget \in [CrOrgs -> [CrMonths -> Nat]]
    BY DEF CrInit, CrRoles
  <2>2. crMetrics = {} /\ crAdmin \in 0..CrMaxAdmin /\ \A q \in CrReqs : crReq[q] = CrIdle
    BY CostReportsAssumption DEF CrInit
  <2>3. ASSUME NEW q \in CrReqs
        PROVE  /\ crReq[q].pc = "idle" /\ crReq[q].seen = {} /\ crReq[q].total = 0
               /\ crReq[q].count = 0 /\ crReq[q].stable = TRUE
    <3>1. crReq[q] = CrIdle
      BY <2>2
    <3> QED
      BY <3>1, CrIdleKnown, Zenon
  <2>4. \A m \in crMetrics : m.session \in CrSessions /\ m.month \in CrMonths /\ m.total \in Nat
    BY <2>2
  <2>5. ASSUME NEW q \in CrReqs
        PROVE  /\ crReq[q].pc \in {"idle", "totals", "top", "count", "list", "summary", "role", "org",
                                  "budget", "set", "done", "refused"}
               /\ crReq[q].seen \subseteq CrSessions /\ crReq[q].total \in Nat
               /\ crReq[q].count \in Nat /\ crReq[q].stable \in BOOLEAN
    <3>1. crReq[q].pc = "idle"
      BY <2>3
    <3>2. crReq[q].seen = {} /\ crReq[q].total = 0 /\ crReq[q].count = 0 /\ crReq[q].stable = TRUE
      BY <2>3
    <3>3. crReq[q].seen \subseteq CrSessions
      BY <3>2
    <3>4. crReq[q].total \in Nat /\ crReq[q].count \in Nat
      BY <3>2
    <3>5. crReq[q].stable \in BOOLEAN
      BY <3>2, Zenon
    <3> QED
      BY <3>1, <3>3, <3>4, <3>5
  <2> QED
    BY <2>1, <2>2, <2>4, <2>5 DEF CrTypeOK
<1>2. CrMetricsOK(crMetrics)
  BY FS_EmptySet DEF CrInit, CrMetricsOK
<1>3. crReq \in [CrReqs -> CrReports({crReq[q].top : q \in CrReqs})]
  BY DEF CrInit, CrIdle, CrReports, CrStates
<1>4. ASSUME NEW q \in CrReqs
      PROVE  CrReportOK(crReq[q], CrSees(crOwner, crOrg, crRole, crReq[q].who), crMetrics)
  BY DEF CrInit, CrIdle, CrReportOK, CrBreakdownOK, CrSessionOK, CrIsBreakdown, CrIsSession
<1> QED
  BY <1>1, <1>2, <1>3, <1>4 DEF CrIInv

\* Nothing that is stored changes.
CrRowsStay == UNCHANGED CrRows /\ crBudget' \in [CrOrgs -> [CrMonths -> Nat]]

\* A statement of one request.
LEMMA CrMoves ==
  ASSUME CrIInv, NEW q \in CrReqs, NEW t, NEW tops, t \in CrReports(tops),
         crReq' = [crReq EXCEPT ![q] = t], CrRowsStay,
         CrReportOK(t, CrSees(crOwner, crOrg, crRole, t.who), crMetrics)
  PROVE  CrIInv'
<1>1. UNCHANGED <<crOwner, crOrg, crRole, crMetrics, crAdmin>>
  BY DEF CrRowsStay, CrRows
<1>2. ASSUME NEW p \in CrReqs PROVE crReq'[p] = IF p = q THEN t ELSE crReq[p]
  BY DEF CrIInv
<1>3. crReq' \in [CrReqs -> CrReports({crReq'[p].top : p \in CrReqs})]
  <2>1. crReq' = [p \in CrReqs |-> crReq'[p]]
    BY DEF CrIInv
  <2>2. ASSUME NEW p \in CrReqs PROVE crReq'[p] \in CrReports({crReq'[o].top : o \in CrReqs})
    <3>1. crReq[p] \in CrReports({crReq[o].top : o \in CrReqs})
      BY DEF CrIInv
    <3> QED
      BY <1>2, <3>1 DEF CrReports
  <2> QED
    BY <2>1, <2>2
<1>4. CrTypeOK'
  <2>1. ASSUME NEW p \in CrReqs
        PROVE  /\ crReq'[p].pc \in {"idle", "totals", "top", "count", "list", "summary", "role", "org",
                                    "budget", "set", "done", "refused"}
               /\ crReq'[p].seen \subseteq CrSessions /\ crReq'[p].total \in Nat
               /\ crReq'[p].count \in Nat /\ crReq'[p].stable \in BOOLEAN
    BY <1>3 DEF CrReports, CrStates
  <2> QED
    BY <1>1, <2>1 DEF CrIInv, CrTypeOK, CrRowsStay
<1>5. ASSUME NEW p \in CrReqs
      PROVE  CrReportOK(crReq'[p], CrSees(crOwner, crOrg, crRole, crReq'[p].who), crMetrics)
  BY <1>2 DEF CrIInv
<1> QED
  BY <1>1, <1>3, <1>4, <1>5 DEF CrIInv

\* Metrics, sessions and memberships change under the requests that wait.
LEMMA CrWorldMoves ==
  ASSUME CrIInv, CrMetricsOK(crMetrics'), crMetrics \subseteq crMetrics', crAdmin' \in 0..CrMaxAdmin,
         crOwner' \in [CrSessions -> CrCallers \cup {"none"}],
         crOrg' \in [CrSessions -> CrOrgs \cup {"none"}],
         crRole' \in [CrOrgs -> [CrPrincipals -> CrRoles]],
         crBudget' \in [CrOrgs -> [CrMonths -> Nat]],
         crReq' = [q \in CrReqs |-> crReq'[q]], CrNoted(crOwner', crOrg', crRole')
  PROVE  CrIInv'
<1>1. ASSUME NEW q \in CrReqs
      PROVE  /\ crReq'[q] \in CrReports({crReq'[p].top : p \in CrReqs})
             /\ CrReportOK(crReq'[q], CrSees(crOwner', crOrg', crRole', crReq'[q].who), crMetrics')
  <2> DEFINE tops == {crReq[p].top : p \in CrReqs}
             see == CrSees(crOwner, crOrg, crRole, crReq[q].who)
             now == CrSees(crOwner', crOrg', crRole', crReq[q].who)
  <2>1. crReq[q] \in CrReports(tops) /\ CrReportOK(crReq[q], see, crMetrics)
    BY DEF CrIInv
  <2>2. CrNotes(crReq[q], crReq'[q], see, now)
    BY DEF CrNoted
  <2>3. see \in SUBSET CrSessions /\ now \in SUBSET CrSessions
    BY DEF CrSees
  <2> HIDE DEF tops, see, now
  <2>4. /\ CrReportOK(crReq'[q], now, crMetrics') /\ crReq'[q] \in CrReports(tops)
        /\ crReq'[q].top = crReq[q].top /\ crReq'[q].who = crReq[q].who
    BY <2>1, <2>2, <2>3, CrReportKept
  <2>5. crReq'[q] \in CrReports({crReq'[p].top : p \in CrReqs})
    BY <2>4 DEF CrReports
  <2> QED
    BY <2>4, <2>5 DEF now
<1>2. crReq' \in [CrReqs -> CrReports({crReq'[p].top : p \in CrReqs})]
  BY <1>1
<1>3. CrTypeOK'
  <2>1. ASSUME NEW p \in CrReqs
        PROVE  /\ crReq'[p].pc \in {"idle", "totals", "top", "count", "list", "summary", "role", "org",
                                    "budget", "set", "done", "refused"}
               /\ crReq'[p].seen \subseteq CrSessions /\ crReq'[p].total \in Nat
               /\ crReq'[p].count \in Nat /\ crReq'[p].stable \in BOOLEAN
    BY <1>1 DEF CrReports, CrStates
  <2>2. \A m \in crMetrics' : m.session \in CrSessions /\ m.month \in CrMonths /\ m.total \in Nat
    BY DEF CrMetricsOK
  <2> QED
    BY <2>1, <2>2 DEF CrTypeOK
<1> QED
  BY <1>1, <1>2, <1>3 DEF CrIInv

\* A request that is not touched, and whose caller sees what it saw.
LEMMA CrUnnoted ==
  ASSUME CrIInv, NEW q \in CrReqs
  PROVE  CrNotes(crReq[q], crReq[q], CrSees(crOwner, crOrg, crRole, crReq[q].who),
                 CrSees(crOwner, crOrg, crRole, crReq[q].who))
<1>1. crReq[q] \in CrReports({crReq[p].top : p \in CrReqs})
      /\ CrReportOK(crReq[q], CrSees(crOwner, crOrg, crRole, crReq[q].who), crMetrics)
  BY DEF CrIInv
<1>2. crReq[q].seen \in SUBSET CrSessions /\ crReq[q].stable \in BOOLEAN
      /\ crReq[q] = [crReq[q] EXCEPT !.seen = crReq[q].seen, !.stable = crReq[q].stable]
  BY <1>1 DEF CrReports
<1>3. crReq[q].who # "none" => CrSees(crOwner, crOrg, crRole, crReq[q].who) \subseteq crReq[q].seen
  BY <1>1 DEF CrReportOK
<1> QED
  BY <1>2, <1>3 DEF CrNotes

LEMMA CrRecordIInv ==
  ASSUME CrIInv, NEW s \in CrSessions, NEW month \in CrMonths, NEW end \in CrEnds,
         CrRecord(s, month, end)
  PROVE  CrIInv'
<1> DEFINE row == CrRow(CrMetric(s, month, end), Cardinality(crMetrics))
<1>1. crMetrics' = crMetrics \cup {row} /\ UNCHANGED <<crOwner, crOrg, crRole, crBudget, crReq, crAdmin>>
  BY DEF CrRecord, CrRow
<1>2. CrVerify(row) /\ row.session = s /\ row.month = month /\ row.total \in Nat
  BY CrRowVerifies, CostReportsAssumption
<1> HIDE DEF row
<1>3. CrMetricsOK(crMetrics')
  BY <1>1, <1>2, FS_AddElement DEF CrIInv, CrMetricsOK
<1>4. CrNoted(crOwner', crOrg', crRole')
  BY <1>1, CrUnnoted DEF CrNoted
<1>5. crReq' = [q \in CrReqs |-> crReq'[q]]
  BY <1>1 DEF CrIInv
<1> QED
  BY <1>1, <1>3, <1>4, <1>5, CrWorldMoves DEF CrIInv, CrTypeOK

LEMMA CrCreateIInv ==
  ASSUME CrIInv, NEW s \in CrSessions, NEW p \in CrCallers, NEW o \in CrOrgs \cup {"none"},
         CrCreate(s, p, o)
  PROVE  CrIInv'
<1>1. /\ crOwner' = [crOwner EXCEPT ![s] = p] /\ crOrg' = [crOrg EXCEPT ![s] = o]
      /\ crOwner[s] = "none" /\ p # "none"
      /\ UNCHANGED <<crRole, crMetrics, crBudget, crAdmin>>
      /\ crReq' = [q \in CrReqs |->
                     IF crReq[q].who = p \/ (crReq[q].who # "none" /\ CrRoleIn(crRole, o, crReq[q].who) # "none")
                     THEN [crReq[q] EXCEPT !.seen = @ \cup {s}] ELSE crReq[q]]
  BY CostReportsAssumption DEF CrCreate, CrCallers
<1>2. CrTypeOK
  BY DEF CrIInv
<1>3. CrNoted(crOwner', crOrg', crRole')
  <2> SUFFICES ASSUME NEW q \in CrReqs
               PROVE  CrNotes(crReq[q], crReq'[q], CrSees(crOwner, crOrg, crRole, crReq[q].who),
                              CrSees(crOwner', crOrg', crRole', crReq[q].who))
    BY DEF CrNoted
  <2> DEFINE who == crReq[q].who
             theirs == who = p \/ (who # "none" /\ CrRoleIn(crRole, o, who) # "none")
             see == CrSees(crOwner, crOrg, crRole, who)
             now == CrSees(crOwner', crOrg', crRole', who)
  <2>1. /\ crReq[q].seen \in SUBSET CrSessions /\ crReq[q].stable \in BOOLEAN
        /\ crReq[q] = [crReq[q] EXCEPT !.seen = crReq[q].seen, !.stable = crReq[q].stable]
        /\ [crReq[q] EXCEPT !.seen = @ \cup {s}] =
             [crReq[q] EXCEPT !.seen = crReq[q].seen \cup {s}, !.stable = crReq[q].stable]
        /\ (who # "none" => see \subseteq crReq[q].seen)
    <3>1. crReq[q] \in CrReports({crReq[r].top : r \in CrReqs}) /\ CrReportOK(crReq[q], see, crMetrics)
      BY DEF CrIInv
    <3> QED
      BY <3>1 DEF CrReports, CrReportOK
  <2>2. ASSUME who # "none" PROVE now = IF theirs THEN see \cup {s} ELSE see
    <3>1. ASSUME NEW i \in CrSessions, i # s PROVE i \in now <=> i \in see
      BY <1>1, <1>2, <3>1 DEF CrTypeOK, CrSees
    <3>2. s \notin see /\ (s \in now <=> theirs)
      BY <1>1, <1>2, <2>2 DEF CrTypeOK, CrSees
    <3>3. see \subseteq CrSessions /\ now \subseteq CrSessions
      BY DEF CrSees
    <3> HIDE DEF see, now, theirs
    <3> QED
      BY <3>1, <3>2, <3>3
  <2>3. crReq'[q] = IF theirs THEN [crReq[q] EXCEPT !.seen = @ \cup {s}] ELSE crReq[q]
    BY <1>1
  <2>4. theirs => who # "none"
    BY <1>1
  <2> DEFINE seen == IF theirs THEN crReq[q].seen \cup {s} ELSE crReq[q].seen
  <2>5. crReq'[q] = [crReq[q] EXCEPT !.seen = seen, !.stable = crReq[q].stable]
    BY <2>1, <2>3
  <2>6. crReq[q].seen \subseteq seen /\ seen \in SUBSET CrSessions
    BY <2>1
  <2>7. who # "none" => now \subseteq seen /\ see \subseteq now
    BY <2>1, <2>2
  <2> HIDE DEF seen, see, now, theirs
  <2>8. CrNotes(crReq[q], crReq'[q], see, now)
    BY <2>1, <2>5, <2>6, <2>7 DEF CrNotes
  <2> QED
    BY <2>8 DEF see, now
<1>4. crReq' = [q \in CrReqs |-> crReq'[q]]
  BY <1>1
<1>5. /\ crOwner' \in [CrSessions -> CrCallers \cup {"none"}]
      /\ crOrg' \in [CrSessions -> CrOrgs \cup {"none"}]
  BY <1>1, <1>2 DEF CrTypeOK
<1> QED
  BY <1>1, <1>2, <1>3, <1>4, <1>5, CrWorldMoves DEF CrIInv, CrTypeOK

\* A change of memberships, or of the organisation of sessions.
LEMMA CrNoteNotes ==
  ASSUME CrIInv, NEW org, NEW role, crReq' = CrNote(org, role), crOwner' = crOwner
  PROVE  CrNoted(crOwner, org, role) /\ crReq' = [q \in CrReqs |-> crReq'[q]]
<1>1. ASSUME NEW q \in CrReqs
      PROVE  CrNotes(crReq[q], crReq'[q], CrSees(crOwner, crOrg, crRole, crReq[q].who),
                     CrSees(crOwner, org, role, crReq[q].who))
  <2> DEFINE who == crReq[q].who
             see == CrSees(crOwner, crOrg, crRole, who)
             now == CrSees(crOwner, org, role, who)
  <2>1. /\ crReq[q].seen \in SUBSET CrSessions /\ crReq[q].stable \in BOOLEAN
        /\ crReq[q] = [crReq[q] EXCEPT !.seen = crReq[q].seen, !.stable = crReq[q].stable]
    <3>1. crReq[q] \in CrReports({crReq[r].top : r \in CrReqs})
      BY DEF CrIInv
    <3> QED
      BY <3>1 DEF CrReports
  <2>2. now \subseteq CrSessions /\ now = CrMaySee(who, org, role) /\ see = CrMaySee(who, crOrg, crRole)
    BY DEF CrSees, CrMaySee
  <2>3. crReq'[q] = IF who = "none" THEN crReq[q]
                    ELSE [crReq[q] EXCEPT !.seen = @ \cup now, !.stable = @ /\ now = see]
    BY <2>2 DEF CrNote
  <2>4. CASE who = "none"
    BY <2>1, <2>3, <2>4 DEF CrNotes
  <2>5. CASE who # "none"
    <3> DEFINE seen == crReq[q].seen \cup now
               stable == crReq[q].stable /\ now = see
    <3>1. crReq'[q] = [crReq[q] EXCEPT !.seen = seen, !.stable = stable]
      BY <2>3, <2>5
    <3>2. seen \in SUBSET CrSessions /\ stable \in BOOLEAN /\ crReq[q].seen \subseteq seen /\ now \subseteq seen
      BY <2>1, <2>2
    <3>3. stable => crReq[q].stable /\ see \subseteq now
      OBVIOUS
    <3> HIDE DEF seen, stable, now, see
    <3>4. CrNotes(crReq[q], crReq'[q], see, now)
      BY <3>1, <3>2, <3>3 DEF CrNotes
    <3> QED
      BY <3>4 DEF now, see
  <2> QED
    BY <2>4, <2>5
<1> QED
  BY <1>1 DEF CrNoted, CrNote

LEMMA CrSetMemberIInv ==
  ASSUME CrIInv, NEW o \in CrOrgs, NEW p \in CrPrincipals, NEW r \in CrRoles, CrSetMember(o, p, r)
  PROVE  CrIInv'
<1>1. /\ crRole' = [crRole EXCEPT ![o][p] = r] /\ crReq' = CrNote(crOrg, crRole')
      /\ crAdmin < CrMaxAdmin /\ crAdmin' = crAdmin + 1
      /\ UNCHANGED <<crOwner, crOrg, crMetrics, crBudget>>
  BY DEF CrSetMember
<1>2. CrTypeOK
  BY DEF CrIInv
<1>3. crRole' \in [CrOrgs -> [CrPrincipals -> CrRoles]]
  BY <1>1, <1>2 DEF CrTypeOK
<1>4. crAdmin' \in 0..CrMaxAdmin
  BY <1>1, <1>2, CostReportsAssumption DEF CrTypeOK
<1>5. CrNoted(crOwner', crOrg', crRole') /\ crReq' = [q \in CrReqs |-> crReq'[q]]
  BY <1>1, CrNoteNotes
<1> QED
  BY <1>1, <1>2, <1>3, <1>4, <1>5, CrWorldMoves DEF CrIInv, CrTypeOK

LEMMA CrDeleteOrgIInv ==
  ASSUME CrIInv, NEW o \in CrOrgs, CrDeleteOrg(o)
  PROVE  CrIInv'
<1>1. /\ crRole' = [crRole EXCEPT ![o] = [p \in CrPrincipals |-> "none"]]
      /\ crOrg' = [s \in CrSessions |-> IF crOrg[s] = o THEN "none" ELSE crOrg[s]]
      /\ crBudget' = [crBudget EXCEPT ![o] = [m \in CrMonths |-> 0]]
      /\ crReq' = CrNote(crOrg', crRole')
      /\ crAdmin < CrMaxAdmin /\ crAdmin' = crAdmin + 1
      /\ UNCHANGED <<crOwner, crMetrics>>
  BY DEF CrDeleteOrg
<1>2. CrTypeOK
  BY DEF CrIInv
<1>3. /\ crRole' \in [CrOrgs -> [CrPrincipals -> CrRoles]]
      /\ crOrg' \in [CrSessions -> CrOrgs \cup {"none"}]
      /\ crBudget' \in [CrOrgs -> [CrMonths -> Nat]]
  BY <1>1, <1>2 DEF CrTypeOK, CrRoles
<1>4. crAdmin' \in 0..CrMaxAdmin
  BY <1>1, <1>2, CostReportsAssumption DEF CrTypeOK
<1>5. CrNoted(crOwner', crOrg', crRole') /\ crReq' = [q \in CrReqs |-> crReq'[q]]
  BY <1>1, CrNoteNotes
<1> QED
  BY <1>1, <1>2, <1>3, <1>4, <1>5, CrWorldMoves DEF CrIInv, CrTypeOK

\* What a request that is under way knows.
LEMMA CrKnown ==
  ASSUME CrIInv, NEW q \in CrReqs
  PROVE  LET r == crReq[q]
             see == CrSees(crOwner, crOrg, crRole, r.who) IN
           /\ r \in CrReports({crReq[p].top : p \in CrReqs})
           /\ CrReportOK(r, see, crMetrics)
           /\ see \in SUBSET CrSessions
           /\ r.pc # "idle" =>
                /\ r.who \in CrCallers /\ see \subseteq r.seen
                /\ see = CrMaySee(r.who, crOrg, crRole) /\ see = CrVisible(r.who)
<1> DEFINE r == crReq[q]
           see == CrSees(crOwner, crOrg, crRole, r.who)
<1>1. r \in CrReports({crReq[p].top : p \in CrReqs}) /\ CrReportOK(r, see, crMetrics) /\ CrTypeOK
  BY DEF CrIInv
<1>2. see \in SUBSET CrSessions /\ see = CrMaySee(r.who, crOrg, crRole)
  BY DEF CrSees, CrMaySee
<1>3. ASSUME r.pc # "idle" PROVE r.who \in CrCallers /\ see \subseteq r.seen
  <2>1. r.who \in CrCallers \cup {"none"}
    BY <1>1 DEF CrReports
  <2> HIDE DEF r, see
  <2> QED
    BY <1>1, <1>3, <2>1 DEF CrReportOK
<1>4. r.pc # "idle" => see = CrVisible(r.who)
  BY <1>1, <1>3, CrVisibleSeen
<1> QED
  BY <1>1, <1>2, <1>3, <1>4

LEMMA CrStartIInv ==
  ASSUME CrIInv, NEW q \in CrReqs, NEW who \in CrCallers, NEW pc, NEW on, NEW month,
         CrStart(q, who, pc, on, month),
         \/ pc = "totals" /\ on = "none" /\ month \in CrMonths
         \/ pc \in {"role", "set"} /\ on \in CrOrgs /\ month \in CrMonths
         \/ pc = "list" /\ on \in CrSessions /\ month = "none"
  PROVE  CrIInv'
<1> DEFINE see == CrMaySee(who, crOrg, crRole)
           t == [CrIdle EXCEPT !.pc = pc, !.who = who, !.on = on, !.month = month, !.seen = see]
<1>1. crReq' = [crReq EXCEPT ![q] = t] /\ UNCHANGED CrRows /\ UNCHANGED crBudget
  BY DEF CrStart, CrStep
<1>2. CrRowsStay
  BY <1>1 DEF CrRowsStay, CrIInv, CrTypeOK
<1>3. see = CrSees(crOwner, crOrg, crRole, who) /\ see \in SUBSET CrSessions
  BY DEF CrMaySee, CrSees
<1> HIDE DEF see
<1>4. /\ t \in CrReports({{}})
      /\ t.pc = pc /\ t.who = who /\ t.on = on /\ t.month = month /\ t.seen = see
      /\ t.stable = TRUE /\ t.total = 0 /\ t.top = {} /\ t.count = 0
  BY <1>3, CrIdleKnown DEF CrReports, CrStates
<1> HIDE DEF t
<1>6. CrReportOK(t, see, crMetrics)
  <2>1. who # "none" /\ pc # "idle"
    BY CostReportsAssumption DEF CrCallers
  <2> QED
    BY <1>4, <2>1 DEF CrReportOK, CrBreakdownOK, CrSessionOK, CrIsBreakdown, CrIsSession
<1>7. t.who = who
  BY <1>4
<1> QED
  BY <1>1, <1>2, <1>3, <1>4, <1>6, <1>7, CrMoves

LEMMA CrTotalsIInv ==
  ASSUME CrIInv, NEW q \in CrReqs, CrTotals(q)
  PROVE  CrIInv'
<1> DEFINE r == crReq[q]
           see == CrSees(crOwner, crOrg, crRole, r.who)
           sum == CrSum(CrAmong(crMetrics, see, {r.month}))
           t == [r EXCEPT !.pc = "top", !.total = sum]
<1>1. /\ r \in CrReports({crReq[p].top : p \in CrReqs}) /\ CrReportOK(r, see, crMetrics)
      /\ see \in SUBSET CrSessions
      /\ r.pc = "totals" => r.who \in CrCallers /\ see \subseteq r.seen /\ see = CrVisible(r.who)
  BY CrKnown
<1>2. r.pc = "totals" /\ UNCHANGED CrRows /\ UNCHANGED crBudget
  BY DEF CrTotals, CrStep
<1>3. crReq' = [crReq EXCEPT ![q] = t]
  BY <1>1, <1>2, CrReadsAmong DEF CrTotals, CrStep
<1>4. CrRowsStay
  BY <1>2 DEF CrRowsStay, CrIInv, CrTypeOK
<1>5. sum \in Nat /\ sum <= CrSum(CrAmong(crMetrics, r.seen, {r.month}))
  BY <1>1, <1>2, CrAmongGrows DEF CrIInv
<1> HIDE DEF r, see, sum
<1>6. /\ t.pc = "top" /\ t.who = r.who /\ t.on = r.on /\ t.month = r.month /\ t.seen = r.seen
      /\ t.stable = r.stable /\ t.total = sum /\ t.top = r.top /\ t.count = r.count
      /\ t \in CrReports({crReq[p].top : p \in CrReqs})
  BY <1>1, <1>5 DEF CrReports, CrStates
<1> HIDE DEF t
<1>7. sum = CrSum(CrAmong(crMetrics, see, {t.month}))
  BY <1>6 DEF sum
<1>8. CrBreakdownOK(r, see, crMetrics) /\ (r.pc = "idle" <=> r.who = "none") /\ r.who \in CrCallers
  BY <1>1, <1>2 DEF CrReportOK
<1>9. CrReportOK(t, see, crMetrics)
  BY <1>1, <1>2, <1>5, <1>6, <1>7, <1>8
     DEF CrReportOK, CrBreakdownOK, CrSessionOK, CrIsBreakdown, CrIsSession
<1> QED
  BY <1>3, <1>4, <1>6, <1>9, CrMoves DEF see

LEMMA CrTopIInv ==
  ASSUME CrIInv, NEW q \in CrReqs, CrTopSessions(q)
  PROVE  CrIInv'
<1> DEFINE r == crReq[q]
           see == CrSees(crOwner, crOrg, crRole, r.who)
           spent == CrSpentAmong(crMetrics, see, r.month)
<1>1. /\ r \in CrReports({crReq[p].top : p \in CrReqs}) /\ CrReportOK(r, see, crMetrics)
      /\ see \in SUBSET CrSessions
      /\ r.pc = "top" => r.who \in CrCallers /\ see \subseteq r.seen /\ see = CrVisible(r.who)
  BY CrKnown
<1>2. r.pc = "top" /\ CrSpent(r) = spent
  BY <1>1, CrReadsAmong DEF CrTopSessions
<1>3. PICK top \in SUBSET spent :
        /\ Cardinality(top) = (IF Cardinality(spent) < CrTop THEN Cardinality(spent) ELSE CrTop)
        /\ CrStep(q, "top", [r EXCEPT !.pc = "count", !.top = top]) /\ UNCHANGED crBudget
  BY <1>2 DEF CrTopSessions
<1> DEFINE t == [r EXCEPT !.pc = "count", !.top = top]
<1>4. crReq' = [crReq EXCEPT ![q] = t] /\ UNCHANGED CrRows /\ UNCHANGED crBudget
  BY <1>3 DEF CrStep
<1>5. CrRowsStay
  BY <1>4 DEF CrRowsStay, CrIInv, CrTypeOK
<1>6. /\ t \in CrReports({top}) /\ t.pc = "count" /\ t.who = r.who /\ t.on = r.on
      /\ t.month = r.month /\ t.seen = r.seen /\ t.stable = r.stable /\ t.total = r.total
      /\ t.top = top /\ t.count = r.count
  BY <1>1 DEF CrReports, CrStates
<1> HIDE DEF t
<1>7. IsFiniteSet(spent) /\ Cardinality(spent) \in Nat /\ IsFiniteSet(top) /\ Cardinality(top) \in Nat
  BY <1>1, CrSpentFinite, FS_Subset, FS_CardinalityType
<1>8. Cardinality(top) <= Cardinality(spent)
  BY <1>3, <1>7, FS_Subset
<1>9. {x[1] : x \in top} \subseteq see
  BY DEF CrSpentAmong, CrSpenders
<1>10. ASSUME r.stable, Cardinality(spent) < CrTop PROVE r.total <= Cardinality(CrListed(top))
  <2>1. top = spent
    BY <1>3, <1>7, <1>10, FS_Subset
  <2>2. CrSum(CrAmong(crMetrics, see, {r.month})) <= Cardinality(CrListed(spent))
    BY <1>1, CrListedCovers DEF CrIInv
  <2>3. r.total <= CrSum(CrAmong(crMetrics, see, {r.month}))
    BY <1>1, <1>2, <1>10 DEF CrReportOK, CrBreakdownOK
  <2>4. r.total \in Nat /\ CrSum(CrAmong(crMetrics, see, {r.month})) \in Nat
    BY <1>1, CrAmongGrows DEF CrIInv, CrReports
  <2>5. Cardinality(CrListed(spent)) \in Nat
    BY <1>1, CrListedFinite, FS_CardinalityType DEF CrIInv
  <2> HIDE DEF spent, see, r
  <2> QED
    BY <2>1, <2>2, <2>3, <2>4, <2>5
<1>11. CrBreakdownOK(r, see, crMetrics) /\ (r.pc = "idle" <=> r.who = "none") /\ see \subseteq r.seen
  BY <1>1, <1>2 DEF CrReportOK
<1>12. spent = CrSpentAmong(crMetrics, see, t.month)
  BY <1>6
<1> HIDE DEF r, see, spent
<1>13. CrReportOK(t, see, crMetrics)
  BY <1>2, <1>6, <1>7, <1>8, <1>9, <1>10, <1>11, <1>12
     DEF CrReportOK, CrBreakdownOK, CrSessionOK, CrIsBreakdown, CrIsSession
<1> QED
  BY <1>4, <1>5, <1>6, <1>13, CrMoves DEF see

LEMMA CrCountIInv ==
  ASSUME CrIInv, NEW q \in CrReqs, CrCount(q)
  PROVE  CrIInv'
<1> DEFINE r == crReq[q]
           see == CrSees(crOwner, crOrg, crRole, r.who)
           n == Cardinality(CrSpentAmong(crMetrics, see, r.month))
           t == [r EXCEPT !.pc = "done", !.count = n]
<1>1. /\ r \in CrReports({crReq[p].top : p \in CrReqs}) /\ CrReportOK(r, see, crMetrics)
      /\ see \in SUBSET CrSessions
      /\ r.pc = "count" => r.who \in CrCallers /\ see \subseteq r.seen /\ see = CrVisible(r.who)
  BY CrKnown
<1>2. r.pc = "count" /\ UNCHANGED CrRows /\ UNCHANGED crBudget
  BY DEF CrCount, CrStep
<1>3. crReq' = [crReq EXCEPT ![q] = t]
  BY <1>1, <1>2, CrReadsAmong DEF CrCount, CrStep
<1>4. CrRowsStay
  BY <1>2 DEF CrRowsStay, CrIInv, CrTypeOK
<1>5. n \in Nat
  BY <1>1, CrSpentFinite
<1>6. CrBreakdownOK(r, see, crMetrics) /\ (r.pc = "idle" <=> r.who = "none") /\ see \subseteq r.seen
  BY <1>1, <1>2 DEF CrReportOK
<1>7. r.on = "none" /\ "none" \notin CrSessions
  BY <1>2, <1>6, CostReportsAssumption DEF CrBreakdownOK
<1> HIDE DEF r, see
<1>8. n = Cardinality(CrSpentAmong(crMetrics, see, r.month))
  OBVIOUS
<1> HIDE DEF n
<1>9. /\ t.pc = "done" /\ t.who = r.who /\ t.on = r.on /\ t.month = r.month /\ t.seen = r.seen
      /\ t.stable = r.stable /\ t.total = r.total /\ t.top = r.top /\ t.count = n
      /\ t \in CrReports({crReq[p].top : p \in CrReqs})
  BY <1>1, <1>5 DEF CrReports, CrStates
<1> HIDE DEF t
<1>10. CrBreakdownOK(t, see, crMetrics)
  BY <1>2, <1>6, <1>7, <1>8, <1>9 DEF CrBreakdownOK, CrIsBreakdown
<1>11. CrSessionOK(t, crMetrics)
  BY <1>7, <1>9 DEF CrSessionOK, CrIsSession
<1>12. CrReportOK(t, see, crMetrics)
  BY <1>2, <1>6, <1>9, <1>10, <1>11 DEF CrReportOK
<1> QED
  BY <1>3, <1>4, <1>9, <1>12, CrMoves DEF see

\* A request that goes on with what it lists and sums up otherwise unbounded.
LEMMA CrOnward ==
  ASSUME CrIInv, NEW q \in CrReqs, NEW pc \in CrStates, NEW top, NEW total \in Nat, NEW count \in Nat,
         crReq[q].pc # "idle", pc # "idle", crReq[q].on # "none",
         crReq' = [crReq EXCEPT ![q] = [crReq[q] EXCEPT !.pc = pc, !.top = top, !.total = total,
                                                        !.count = count]],
         CrRowsStay,
         CrSessionOK([crReq[q] EXCEPT !.pc = pc, !.top = top, !.total = total, !.count = count], crMetrics),
         pc \notin {"totals", "top", "count"}
  PROVE  CrIInv'
<1> DEFINE r == crReq[q]
           see == CrSees(crOwner, crOrg, crRole, r.who)
           t == [r EXCEPT !.pc = pc, !.top = top, !.total = total, !.count = count]
<1>1. r \in CrReports({crReq[p].top : p \in CrReqs}) /\ CrReportOK(r, see, crMetrics)
  BY CrKnown
<1>2. /\ t.pc = pc /\ t.who = r.who /\ t.on = r.on /\ t.seen = r.seen /\ t \in CrReports({top})
  BY <1>1 DEF CrReports
<1>3. crReq' = [crReq EXCEPT ![q] = t] /\ CrSessionOK(t, crMetrics)
  OBVIOUS
<1>4. (r.pc = "idle" <=> r.who = "none") /\ (r.who # "none" => see \subseteq r.seen)
  BY <1>1 DEF CrReportOK
<1>5. r.pc # "idle" /\ r.on # "none"
  OBVIOUS
<1> HIDE DEF r, see, t
<1>6. CrReportOK(t, see, crMetrics)
  BY <1>2, <1>3, <1>4, <1>5 DEF CrReportOK, CrBreakdownOK, CrIsBreakdown
<1> QED
  BY <1>2, <1>3, <1>6, CrMoves DEF see

LEMMA CrListIInv ==
  ASSUME CrIInv, NEW q \in CrReqs, CrList(q)
  PROVE  CrIInv'
<1> DEFINE r == crReq[q]
           see == CrSees(crOwner, crOrg, crRole, r.who)
<1>1. /\ r \in CrReports({crReq[p].top : p \in CrReqs}) /\ CrReportOK(r, see, crMetrics)
      /\ r.pc = "list" => see \subseteq r.seen /\ see = CrMaySee(r.who, crOrg, crRole)
  BY CrKnown
<1>2. r.pc = "list" /\ UNCHANGED CrRows /\ UNCHANGED crBudget
  BY DEF CrList, CrStep
<1>3. CrRowsStay
  BY <1>2 DEF CrRowsStay, CrIInv, CrTypeOK
<1>4. r.on \in CrSessions /\ r.on # "none" /\ r.on \notin CrOrgs
  BY <1>1, <1>2, CostReportsAssumption DEF CrReportOK, CrSessionOK
<1>5. r.total \in Nat /\ r.count \in Nat
  BY <1>1 DEF CrReports
<1> DEFINE t(pc, top) == [r EXCEPT !.pc = pc, !.top = top, !.total = r.total, !.count = r.count]
<1>6. ASSUME NEW pc, NEW top
      PROVE  t(pc, top).pc = pc /\ t(pc, top).top = top /\ t(pc, top).on = r.on /\ t(pc, top).seen = r.seen
  BY <1>1 DEF CrReports
<1>7. CASE r.on \in CrMaySee(r.who, crOrg, crRole)
  <2> DEFINE top == CrAmong(crMetrics, {r.on}, CrMonths)
  <2>1. crReq' = [crReq EXCEPT ![q] = t("summary", top)]
    <3>1. crReq' = [crReq EXCEPT ![q] = [r EXCEPT !.pc = "summary", !.top = top]]
      BY <1>7, CrReadsAmong DEF CrList, CrStep
    <3>2. [r EXCEPT !.pc = "summary", !.top = top] = t("summary", top)
      BY <1>1 DEF CrReports
    <3> QED
      BY <3>1, <3>2
  <2>2. r.on \in r.seen
    BY <1>1, <1>2, <1>7
  <2> DEFINE u == t("summary", top)
  <2>3. u.pc = "summary" /\ u.top = top /\ u.on = r.on /\ u.seen = r.seen
    BY <1>6
  <2>4. top = CrAmong(crMetrics, {u.on}, CrMonths)
    BY <2>3
  <2> HIDE DEF u, r, top
  <2>5. CrSessionOK(u, crMetrics)
    BY <1>4, <2>2, <2>3, <2>4 DEF CrSessionOK, CrIsSession
  <2> USE DEF r, u
  <2>6. CrSessionOK([crReq[q] EXCEPT !.pc = "summary", !.top = top, !.total = crReq[q].total,
                                     !.count = crReq[q].count], crMetrics)
    BY <2>5
  <2>7. "summary" \in CrStates
    BY DEF CrStates
  <2> QED
    BY <1>2, <1>3, <1>4, <1>5, <2>1, <2>6, <2>7, CrOnward
<1>8. CASE r.on \notin CrMaySee(r.who, crOrg, crRole)
  <2>1. crReq' = [crReq EXCEPT ![q] = t("refused", r.top)]
    <3>1. crReq' = [crReq EXCEPT ![q] = [r EXCEPT !.pc = "refused"]]
      BY <1>8 DEF CrList, CrStep
    <3>2. [r EXCEPT !.pc = "refused"] = t("refused", r.top)
      BY <1>1 DEF CrReports
    <3> QED
      BY <3>1, <3>2
  <2>2. CrSessionOK(t("refused", r.top), crMetrics)
    BY <1>6 DEF CrSessionOK, CrIsSession
  <2>3. "refused" \in CrStates
    BY DEF CrStates
  <2> QED
    BY <1>2, <1>3, <1>4, <1>5, <2>1, <2>2, <2>3, CrOnward
<1> QED
  BY <1>7, <1>8

LEMMA CrSummaryIInv ==
  ASSUME CrIInv, NEW q \in CrReqs, CrSummary(q)
  PROVE  CrIInv'
<1> DEFINE r == crReq[q]
           see == CrSees(crOwner, crOrg, crRole, r.who)
           of == CrAmong(crMetrics, {r.on}, CrMonths)
           sum == CrSum(of)
           t == [r EXCEPT !.pc = "done", !.top = r.top, !.total = sum, !.count = r.count]
<1>1. r \in CrReports({crReq[p].top : p \in CrReqs}) /\ CrReportOK(r, see, crMetrics)
  BY CrKnown
<1>2. r.pc = "summary" /\ UNCHANGED CrRows /\ UNCHANGED crBudget
  BY DEF CrSummary, CrStep
<1>3. CrRowsStay
  BY <1>2 DEF CrRowsStay, CrIInv, CrTypeOK
<1>4. /\ r.on \in CrSessions /\ r.on # "none" /\ r.on \in r.seen /\ r.top \subseteq of
      /\ r.on \notin CrOrgs
  BY <1>1, <1>2, CostReportsAssumption DEF CrReportOK, CrSessionOK
<1>5. r.count \in Nat
  BY <1>1 DEF CrReports
<1>6. crReq' = [crReq EXCEPT ![q] = t]
  <2>1. crReq' = [crReq EXCEPT ![q] = [r EXCEPT !.pc = "done", !.total = sum]]
    BY CrReadsAmong DEF CrSummary, CrStep
  <2>2. [r EXCEPT !.pc = "done", !.total = sum] = t
    BY <1>1 DEF CrReports
  <2> QED
    BY <2>1, <2>2
<1>7. CrSum(r.top) <= sum /\ sum \in Nat
  <2>1. of \subseteq crMetrics
    BY DEF CrAmong
  <2>2. IsFiniteSet(of) /\ \A m \in of : m.total \in Nat
    BY <2>1, FS_Subset DEF CrIInv, CrMetricsOK
  <2> HIDE DEF of
  <2> QED
    BY <1>4, <2>2, CrSumGrows, CrUnitsFinite
<1>8. t.pc = "done" /\ t.top = r.top /\ t.on = r.on /\ t.seen = r.seen /\ t.total = sum
  BY <1>1 DEF CrReports
<1> HIDE DEF t
<1>9. CrSessionOK(t, crMetrics)
  BY <1>4, <1>7, <1>8 DEF CrSessionOK, CrIsSession
<1>10. "done" \in CrStates
  BY DEF CrStates
<1> HIDE DEF sum
<1> USE DEF t
<1> QED
  BY <1>2, <1>3, <1>4, <1>5, <1>6, <1>7, <1>9, <1>10, CrOnward

\* A request that is about an organisation.
LEMMA CrAboutOrg ==
  ASSUME CrIInv, NEW q \in CrReqs, crReq[q].pc \in {"role", "org", "budget", "set"},
         NEW pc \in {"org", "budget", "done", "refused"}, NEW top, NEW total \in Nat, NEW count \in Nat,
         crReq' = [crReq EXCEPT ![q] = [crReq[q] EXCEPT !.pc = pc, !.top = top, !.total = total,
                                                        !.count = count]],
         CrRowsStay
  PROVE  CrIInv'
<1> DEFINE r == crReq[q]
           t == [r EXCEPT !.pc = pc, !.top = top, !.total = total, !.count = count]
<1>1. /\ r \in CrReports({crReq[p].top : p \in CrReqs})
      /\ CrReportOK(r, CrSees(crOwner, crOrg, crRole, r.who), crMetrics)
  BY CrKnown
<1>2. r.on \in CrOrgs /\ r.on # "none" /\ r.on \notin CrSessions
  BY <1>1, CostReportsAssumption DEF CrReportOK, CrSessionOK
<1>3. t.pc = pc /\ t.top = top /\ t.on = r.on
  BY <1>1 DEF CrReports
<1> HIDE DEF t
<1>4. CrSessionOK(t, crMetrics)
  BY <1>2, <1>3 DEF CrSessionOK, CrIsSession
<1>5. pc \in CrStates
  BY DEF CrStates
<1> USE DEF t
<1>6. r.pc # "idle" /\ pc # "idle" /\ pc \notin {"totals", "top", "count"}
  OBVIOUS
<1> QED
  BY <1>2, <1>4, <1>5, <1>6, CrOnward

LEMMA CrOrgCostsIInv ==
  ASSUME CrIInv, NEW q \in CrReqs, CrOrgCosts(q)
  PROVE  CrIInv'
<1> DEFINE r == crReq[q]
           of == {s \in CrSessions : crOrg[s] = r.on}
           sum == CrSum(CrAmong(crMetrics, of, {r.month}))
           pc == IF CrRoleIn(crRole, r.on, r.who) # "none" THEN "org" ELSE "refused"
<1>1. r \in CrReports({crReq[p].top : p \in CrReqs})
  BY CrKnown
<1>2. UNCHANGED CrRows /\ UNCHANGED crBudget /\ r.pc \in {"role", "org", "budget"}
  BY DEF CrOrgCosts, CrStep
<1>3. CrRowsStay
  BY <1>2 DEF CrRowsStay, CrIInv, CrTypeOK
<1>4. r.total \in Nat /\ r.count \in Nat
  BY <1>1 DEF CrReports
<1>5. sum \in Nat /\ Cardinality(of) \in Nat
  <2>1. IsFiniteSet(of)
    BY CostReportsAssumption, FS_Subset
  <2> QED
    BY <2>1, CrAmongGrows, FS_CardinalityType DEF CrIInv
<1>6. ASSUME crReq' = [crReq EXCEPT ![q] = [r EXCEPT !.pc = pc]] PROVE CrIInv'
  <2>1. [r EXCEPT !.pc = pc] = [r EXCEPT !.pc = pc, !.top = r.top, !.total = r.total, !.count = r.count]
    BY <1>1 DEF CrReports
  <2>2. pc \in {"org", "budget", "done", "refused"}
    OBVIOUS
  <2> HIDE DEF pc
  <2>3. crReq' = [crReq EXCEPT ![q] = [crReq[q] EXCEPT !.pc = pc, !.top = crReq[q].top,
                                        !.total = crReq[q].total, !.count = crReq[q].count]]
    BY <1>6, <2>1
  <2> QED
    BY <1>2, <1>3, <1>4, <2>2, <2>3, CrAboutOrg
<1>7. ASSUME crReq' = [crReq EXCEPT ![q] = [r EXCEPT !.pc = "budget", !.total = sum,
                                                    !.count = Cardinality(of)]]
      PROVE  CrIInv'
  <2>1. [r EXCEPT !.pc = "budget", !.total = sum, !.count = Cardinality(of)]
          = [r EXCEPT !.pc = "budget", !.top = r.top, !.total = sum, !.count = Cardinality(of)]
    BY <1>1 DEF CrReports
  <2> HIDE DEF sum, of
  <2> QED
    BY <1>2, <1>3, <1>5, <1>7, <2>1, CrAboutOrg
<1>8. ASSUME NEW top, crReq' = [crReq EXCEPT ![q] = [r EXCEPT !.pc = "done", !.top = top]]
      PROVE  CrIInv'
  <2>1. [r EXCEPT !.pc = "done", !.top = top]
          = [r EXCEPT !.pc = "done", !.top = top, !.total = r.total, !.count = r.count]
    BY <1>1 DEF CrReports
  <2>2. crReq' = [crReq EXCEPT ![q] = [crReq[q] EXCEPT !.pc = "done", !.top = top,
                                        !.total = crReq[q].total, !.count = crReq[q].count]]
    BY <1>8, <2>1
  <2> QED
    BY <1>2, <1>3, <1>4, <2>2, CrAboutOrg
<1>9. CrOf(of, {r.month}) = CrAmong(crMetrics, of, {r.month})
  BY CrReadsAmong
<1> QED
  BY <1>6, <1>7, <1>8, <1>9, Zenon DEF CrOrgCosts, CrStep

LEMMA CrSetBudgetIInv ==
  ASSUME CrIInv, NEW q \in CrReqs, NEW limit \in CrLimits, CrSetBudget(q, limit)
  PROVE  CrIInv'
<1> DEFINE r == crReq[q]
<1>1. /\ r \in CrReports({crReq[p].top : p \in CrReqs})
      /\ CrReportOK(r, CrSees(crOwner, crOrg, crRole, r.who), crMetrics)
  BY CrKnown
<1>2. UNCHANGED CrRows /\ r.pc = "set"
  BY DEF CrSetBudget, CrStep
<1>3. PICK pc \in {"done", "refused"} : crReq' = [crReq EXCEPT ![q] = [r EXCEPT !.pc = pc]]
  BY DEF CrSetBudget, CrStep
<1>4. UNCHANGED crBudget \/ crBudget' = [crBudget EXCEPT ![r.on][r.month] = CrRound(limit, 10)]
  BY DEF CrSetBudget, CrStoreBudget
<1>5. CrRound(limit, 10) \in Nat
  BY CrRoundTwice, CostReportsAssumption
<1>6. crBudget' \in [CrOrgs -> [CrMonths -> Nat]]
  <2>1. crBudget \in [CrOrgs -> [CrMonths -> Nat]]
    BY DEF CrIInv, CrTypeOK
  <2>2. r.on \in CrOrgs
    BY <1>1, <1>2 DEF CrReportOK, CrSessionOK
  <2> HIDE DEF r
  <2>3. [crBudget[r.on] EXCEPT ![r.month] = CrRound(limit, 10)] \in [CrMonths -> Nat]
    BY <1>5, <2>1, <2>2
  <2> QED
    BY <1>4, <2>1, <2>2, <2>3
<1>7. CrRowsStay
  BY <1>2, <1>6 DEF CrRowsStay
<1>8. [r EXCEPT !.pc = pc] = [r EXCEPT !.pc = pc, !.top = r.top, !.total = r.total, !.count = r.count]
  BY <1>1 DEF CrReports
<1>9. r.total \in Nat /\ r.count \in Nat
  BY <1>1 DEF CrReports
<1>10. crReq' = [crReq EXCEPT ![q] = [crReq[q] EXCEPT !.pc = pc, !.top = crReq[q].top,
                                       !.total = crReq[q].total, !.count = crReq[q].count]]
  BY <1>3, <1>8
<1> QED
  BY <1>2, <1>7, <1>9, <1>10, CrAboutOrg

LEMMA CrNextIInv == CrIInv /\ [CrNext]_crVars => CrIInv'
<1> SUFFICES ASSUME CrIInv, [CrNext]_crVars
             PROVE  CrIInv'
  OBVIOUS
<1>1. CASE UNCHANGED crVars
  <2>1. CrTypeOK' /\ CrMetricsOK(crMetrics')
    BY <1>1 DEF crVars, CrIInv, CrTypeOK
  <2> QED
    BY <1>1, <2>1 DEF crVars, CrIInv
<1>2. ASSUME NEW q \in CrReqs,
             \/ \E who \in CrCallers, month \in CrMonths :
                  \/ CrStart(q, who, "totals", "none", month)
                  \/ \E o \in CrOrgs : CrStart(q, who, "role", o, month) \/ CrStart(q, who, "set", o, month)
             \/ \E who \in CrCallers, s \in CrSessions : CrStart(q, who, "list", s, "none")
      PROVE  CrIInv'
  BY <1>2, CrStartIInv
<1> QED
  BY <1>1, <1>2, CrRecordIInv, CrCreateIInv, CrSetMemberIInv, CrDeleteOrgIInv, CrTotalsIInv, CrTopIInv,
     CrCountIInv, CrListIInv, CrSummaryIInv, CrOrgCostsIInv, CrSetBudgetIInv DEF CrNext

\* What the invariant says of the property.
LEMMA CrIInvImplies == CrIInv => CrTypeOK /\ CrMetricsVerify /\ CrReportsAgree
<1> SUFFICES ASSUME CrIInv PROVE CrTypeOK /\ CrMetricsVerify /\ CrReportsAgree
  OBVIOUS
<1>1. CrTypeOK /\ CrMetricsVerify
  BY DEF CrIInv, CrMetricsOK, CrMetricsVerify
<1>2. ASSUME NEW q \in CrReqs
      PROVE  LET r == crReq[q] IN
               /\ CrIsBreakdown(r) =>
                    /\ {t[1] : t \in r.top} \subseteq r.seen
                    /\ r.total <= CrSum(CrOf(r.seen, {r.month}))
                    /\ r.stable => /\ Cardinality(r.top) <= r.count
                                   /\ r.count < CrTop => r.total <= Cardinality(CrListed(r.top))
               /\ CrIsSession(r) => r.on \in r.seen /\ CrSum(r.top) <= r.total
  <2> DEFINE r == crReq[q]
  <2>1. CrReportOK(r, CrSees(crOwner, crOrg, crRole, r.who), crMetrics)
    BY DEF CrIInv
  <2>2. CrOf(r.seen, {r.month}) = CrAmong(crMetrics, r.seen, {r.month})
    BY CrReadsAmong
  <2> QED
    BY <2>1, <2>2 DEF CrReportOK, CrBreakdownOK, CrSessionOK
<1> QED
  BY <1>1, <1>2 DEF CrReportsAgree

(***************************************************************************)
(***************************************************************************)
(* A metric verifies when it is read back: what is signed is what the      *)
(* columns keep (RecordMetric).  And a report agrees with itself and with  *)
(* what its caller may see, although its statements are not of one         *)
(* transaction: what was added up is covered by the sessions listed unless *)
(* the list is capped, and it is of sessions that were seen                *)
(* (GetCostBreakdown, callerScope, GetSessionCosts).  CrBreakdownOK says   *)
(* what each statement leaves to the next.                                 *)
(***************************************************************************)
(***************************************************************************)
THEOREM ReportsAgree == CrSpec => [](CrTypeOK /\ CrMetricsVerify /\ CrReportsAgree)
<1>1. CrIInv => CrTypeOK /\ CrMetricsVerify /\ CrReportsAgree
  BY CrIInvImplies
<1> QED
  BY <1>1, CrInitIInv, CrNextIInv, PTL DEF CrSpec

-----------------------------------------------------------------------------
(* The store of checkpoints *)

\* The identity of a checkpoint that is being made and has no row yet ...
CkPend(pc, q) == IF pc \in {"limits", "insert"} THEN {q.id} ELSE {}

\* ... and the one whose archive a request is about to remove.
CkLooks(pc, q) ==
  IF pc \in {"prune", "unlink"} THEN {q.victim}
  ELSE IF pc \in {"delete", "remove"} THEN {q.id} ELSE {}

CkNoRow(rows, i) == \A r \in rows : r.id # i

\* Rows have an identity each, and within a session a number each.
CkRowsOK(rows, archives, unsure, made) ==
  /\ IsFiniteSet(rows) /\ \E n \in Nat : \A r \in rows : r.number <= n
  /\ \A r \in rows : r.id \in made \cap (archives \cup unsure) /\ r.size <= CkMaxSize
  /\ \A r, s \in rows :
       r.id = s.id \/ (r.session = s.session /\ r.number = s.number) => r = s

\* A victim that still has its row is the oldest of the session, whatever was
\* added since: the subquery can only take the same one.
CkActorOK(pc, q, rows, archives, made) ==
  /\ CkPend(pc, q) \cup CkLooks(pc, q) \subseteq made
  /\ pc \in {"oldest", "prune", "unlink", "snapshot", "limits", "insert"} => q.session \in CkHomes
  /\ pc \in {"copy", "session"} => q.session \in CkForks
  /\ pc \in {"limits", "insert"} => q.id \in archives /\ CkNoRow(rows, q.id) /\ q.size \in CkSizes
  /\ pc = "insert" => q.size <= CkMaxSize
  /\ pc \in {"idle", "oldest"} => q.doomed = "none"
  /\ pc = "prune" =>
       /\ \A r \in rows : r.id = q.victim =>
            /\ r.session = q.session
            /\ \A s \in rows : s.session = q.session => r.number <= s.number
       /\ q.doomed \in {"none", q.victim} \/ CkNoRow(rows, q.victim)
  /\ pc = "unlink" => CkNoRow(rows, q.victim)
  /\ pc = "remove" => CkNoRow(rows, q.id)

\* What is being made is nobody else's.
CkApart ==
  \A c, d \in CkClients : c # d =>
    CkPend(ckPc[c], ckReq[c]) \cap (CkPend(ckPc[d], ckReq[d]) \cup CkLooks(ckPc[d], ckReq[d])) = {}

\* The bytes of the requests that were compared and let through and have not added theirs.
CkWanted(pc, req) ==
  {b \in CkClients \X (1..CkMaxSize) : pc[b[1]] = "insert" /\ req[b[1]].checked /\ b[2] <= req[b[1]].size}

CkOthers(pc, req, c) == {b \in CkWanted(pc, req) : b[1] # c}
CkOwn(pc, req, c) == IF pc[c] = "insert" /\ req[c].checked THEN req[c].size ELSE 0

CkBudget == CkMaxOrg + (Cardinality(CkClients) - 1) * CkMaxSize

\* The limit counts what is on its way.
CkTotal ==
  Cardinality(CkBytes(CkCompared(ckRows))) + Cardinality(CkWanted(ckPc, ckReq)) <= CkBudget

CkIInv ==
  /\ CkTypeOK /\ CkApart /\ CkTotal /\ CkRowsOK(ckRows, ckArchives, ckUnsure, ckMade)
  /\ \A c \in CkClients : CkActorOK(ckPc[c], ckReq[c], ckRows, ckArchives, ckMade)

CkReqs ==
  [session : CkHomes \cup CkForks \cup {"none"}, id : CkIds \cup {"none"},
   victim : CkIds \cup {"none"}, doomed : CkIds \cup {"none"},
   size : CkSizes \cup {0}, checked : BOOLEAN, stop : BOOLEAN]

CkRowType == [id : CkIds, session : CkHomes, number : Nat, size : CkSizes, checked : BOOLEAN]

CkBounds ==
  /\ ckRows \subseteq CkRowType /\ ckArchives \subseteq CkIds /\ ckMade \subseteq CkIds
  /\ ckUnsure \subseteq CkIds /\ ckForked \subseteq CkForks /\ ckDirs \subseteq CkForks
  /\ ckActive \subseteq CkHomes

\* A request c that goes on to p with q stays out of the others' way.
CkFree(c, p, q) ==
  \A d \in CkClients \ {c} :
    /\ CkPend(p, q) \cap (CkPend(ckPc[d], ckReq[d]) \cup CkLooks(ckPc[d], ckReq[d])) = {}
    /\ CkPend(ckPc[d], ckReq[d]) \cap CkLooks(p, q) = {}

\* What its step may do to the rows and the archives of others.
CkKeeps(c) ==
  /\ ckMade \subseteq ckMade'
  /\ \A i \in ckArchives \ ckArchives', d \in CkClients \ {c} : i \notin CkPend(ckPc[d], ckReq[d])
  /\ \A r \in ckRows' \ ckRows :
       /\ CkPend(ckPc[c], ckReq[c]) = {r.id}
       /\ \A s \in ckRows : s.session = r.session => s.number < r.number

(***************************************************************************)
(* Sums of bytes.                                                          *)
(***************************************************************************)

LEMMA CkBytesOfOne ==
  ASSUME NEW r, NEW n \in Nat
  PROVE  IsFiniteSet({r} \X (1..n)) /\ Cardinality({r} \X (1..n)) = n
<1>1. IsFiniteSet({r}) /\ Cardinality({r}) = 1
  BY FS_Singleton
<1>2. IsFiniteSet(1..n) /\ Cardinality(1..n) = n
  BY FS_Interval
<1>3. IsFiniteSet({r} \X (1..n)) /\ Cardinality({r} \X (1..n)) = Cardinality({r}) * Cardinality(1..n)
  BY <1>1, <1>2, FS_Product
<1> QED
  BY <1>1, <1>2, <1>3

LEMMA CkBytesFinite ==
  ASSUME NEW rows \in SUBSET CkRowType, IsFiniteSet(rows), \A r \in rows : r.size <= CkMaxSize
  PROVE  IsFiniteSet(CkBytes(rows)) /\ Cardinality(CkBytes(rows)) \in Nat
<1>1. IsFiniteSet(1..CkMaxSize)
  BY FS_Interval, CheckpointAssumption
<1>2. IsFiniteSet(rows \X (1..CkMaxSize))
  BY <1>1, FS_Product
<1>3. CkBytes(rows) \subseteq rows \X (1..CkMaxSize)
  <2> SUFFICES ASSUME NEW r \in rows, NEW b \in {r} \X (1..r.size)
               PROVE  b \in rows \X (1..CkMaxSize)
    BY DEF CkBytes
  <2>1. r.size \in Nat /\ r.size <= CkMaxSize /\ CkMaxSize \in Nat
    BY CheckpointAssumption DEF CkRowType
  <2> QED
    BY <2>1
<1> QED
  BY <1>2, <1>3, FS_Subset, FS_CardinalityType

LEMMA CkBytesShrink ==
  ASSUME NEW rows \in SUBSET CkRowType, IsFiniteSet(rows), \A r \in rows : r.size <= CkMaxSize,
         NEW fewer \in SUBSET rows
  PROVE  Cardinality(CkBytes(fewer)) <= Cardinality(CkBytes(rows))
<1>1. CkBytes(fewer) \subseteq CkBytes(rows)
  BY DEF CkBytes
<1> QED
  BY <1>1, CkBytesFinite, FS_Subset

LEMMA CkBytesAdd ==
  ASSUME NEW rows \in SUBSET CkRowType, IsFiniteSet(rows), \A r \in rows : r.size <= CkMaxSize,
         NEW r, r \notin rows, r.size \in Nat
  PROVE  Cardinality(CkBytes(rows \cup {r})) = Cardinality(CkBytes(rows)) + r.size
<1> DEFINE S == CkBytes(rows)
           T == {r} \X (1..r.size)
<1>1. CkBytes(rows \cup {r}) = S \cup T
  BY DEF CkBytes
<1>2. S \cap T = {}
  BY DEF CkBytes
<1>3. IsFiniteSet(S) /\ Cardinality(S) \in Nat
  BY CkBytesFinite
<1>4. IsFiniteSet(T) /\ Cardinality(T) = r.size
  BY CkBytesOfOne
<1> HIDE DEF S, T
<1>5. Cardinality(S \cup T) = Cardinality(S) + Cardinality(T) - Cardinality(S \cap T)
  BY <1>3, <1>4, FS_Union
<1>6. Cardinality(S \cap T) = 0
  BY <1>2, FS_EmptySet
<1>7. Cardinality(S \cup T) = Cardinality(S) + r.size
  BY <1>3, <1>4, <1>5, <1>6
<1> QED
  BY <1>1, <1>7, Zenon DEF S

\* One request's part of what is on its way, and the others'.
LEMMA CkWantedSplit ==
  ASSUME NEW pc, NEW req, NEW c \in CkClients,
         pc[c] = "insert" => req[c].size \in Nat /\ req[c].size <= CkMaxSize
  PROVE  /\ IsFiniteSet(CkOthers(pc, req, c)) /\ Cardinality(CkOthers(pc, req, c)) \in Nat
         /\ Cardinality(CkOthers(pc, req, c)) <= (Cardinality(CkClients) - 1) * CkMaxSize
         /\ Cardinality(CkWanted(pc, req)) = Cardinality(CkOthers(pc, req, c)) + CkOwn(pc, req, c)
<1> DEFINE W == CkWanted(pc, req)
           O == CkOthers(pc, req, c)
           D == CkClients \ {c}
           U == D \X (1..CkMaxSize)
           n == CkOwn(pc, req, c)
           T == {c} \X (1..n)
<1>1. CkMaxSize \in Nat /\ IsFiniteSet(1..CkMaxSize) /\ Cardinality(1..CkMaxSize) = CkMaxSize
  BY FS_Interval, CheckpointAssumption
<1>2. IsFiniteSet(D) /\ Cardinality(D) = Cardinality(CkClients) - 1
  BY FS_RemoveElement, CheckpointAssumption
<1>3. n \in Nat /\ n <= CkMaxSize
  BY <1>1 DEF CkOwn
<1>4. O \subseteq U
  BY DEF CkWanted, CkOthers
<1>5. W = O \cup T /\ O \cap T = {}
  <2>1. ASSUME NEW b \in W, b[1] = c PROVE b \in T
    BY <1>1, <1>3, <2>1 DEF CkWanted, CkOwn
  <2>2. ASSUME NEW b \in T PROVE b \in W /\ b[1] = c
    BY <1>1, <1>3, <2>2 DEF CkWanted, CkOwn
  <2> QED
    BY <2>1, <2>2 DEF CkOthers
<1>6. IsFiniteSet(T) /\ Cardinality(T) = n
  BY <1>3, CkBytesOfOne
<1> HIDE DEF D
<1>7. IsFiniteSet(U) /\ Cardinality(U) = (Cardinality(CkClients) - 1) * CkMaxSize
  BY <1>1, <1>2, FS_Product
<1> HIDE DEF U, T, O, W, n
<1>8. IsFiniteSet(O) /\ Cardinality(O) \in Nat /\ Cardinality(O) <= Cardinality(U)
  BY <1>4, <1>7, FS_Subset, FS_CardinalityType
<1>9. Cardinality(O \cup T) = Cardinality(O) + Cardinality(T) - Cardinality(O \cap T)
  BY <1>6, <1>8, FS_Union
<1>10. Cardinality(O \cap T) = 0
  BY <1>5, FS_EmptySet
<1>11. Cardinality(W) = Cardinality(O) + n
  BY <1>3, <1>5, <1>6, <1>8, <1>9, <1>10
<1> QED
  BY <1>7, <1>8, <1>11 DEF W, O, n

-----------------------------------------------------------------------------
(***************************************************************************)
(* What one request's step does to the others.                             *)
(***************************************************************************)

\* What is on its way grows only when a request is let through.
LEMMA CkTotalKept ==
  ASSUME CkIInv, NEW c \in CkClients, NEW p, NEW q, (p = "insert" => ~q.checked),
         ckPc' = [ckPc EXCEPT ![c] = p], ckReq' = [ckReq EXCEPT ![c] = q], ckRows' \subseteq ckRows
  PROVE  CkTotal'
<1>1. /\ ckRows \in SUBSET CkRowType /\ IsFiniteSet(ckRows) /\ (\A r \in ckRows : r.size <= CkMaxSize)
      /\ ckPc \in [CkClients -> CkSteps] /\ ckReq \in [CkClients -> CkReqs]
      /\ (ckPc[c] = "insert" => ckReq[c].size \in Nat /\ ckReq[c].size <= CkMaxSize)
  BY CheckpointAssumption DEF CkIInv, CkTypeOK, CkRowsOK, CkActorOK, CkRowType, CkReqs
<1>0. /\ CkCompared(ckRows) \in SUBSET CkRowType /\ IsFiniteSet(CkCompared(ckRows))
      /\ (\A r \in CkCompared(ckRows) : r.size <= CkMaxSize)
      /\ CkCompared(ckRows') \in SUBSET CkCompared(ckRows)
  BY <1>1, FS_Subset DEF CkCompared
<1>2. Cardinality(CkBytes(CkCompared(ckRows'))) <= Cardinality(CkBytes(CkCompared(ckRows)))
  BY <1>0, CkBytesShrink
<1>3. Cardinality(CkBytes(CkCompared(ckRows))) \in Nat /\ Cardinality(CkBytes(CkCompared(ckRows'))) \in Nat
  <2>1. IsFiniteSet(CkBytes(CkCompared(ckRows))) /\ CkBytes(CkCompared(ckRows')) \subseteq CkBytes(CkCompared(ckRows))
    BY <1>0, CkBytesFinite DEF CkBytes
  <2> QED
    BY <2>1, FS_Subset, FS_CardinalityType
<1> DEFINE W == CkWanted(ckPc, ckReq)
           V == CkWanted(ckPc', ckReq')
           O == CkOthers(ckPc, ckReq, c)
           n == CkOwn(ckPc, ckReq, c)
<1>4. V = O
  BY <1>1 DEF CkWanted, CkOthers
<1>5. Cardinality(O) \in Nat /\ Cardinality(W) = Cardinality(O) + n
  BY <1>1, CkWantedSplit
<1>6. n \in Nat
  BY <1>1 DEF CkOwn
<1> HIDE DEF W, V, O, n
<1>7. CkBudget \in Int
  <2>1. Cardinality(CkClients) \in Nat
    BY FS_CardinalityType, CheckpointAssumption
  <2> QED
    BY <2>1, CheckpointAssumption DEF CkBudget
<1>8. Cardinality(CkBytes(CkCompared(ckRows))) + Cardinality(W) <= CkBudget
  BY DEF CkIInv, CkTotal, W
<1>9. Cardinality(CkBytes(CkCompared(ckRows'))) + Cardinality(V) <= CkBudget
  BY <1>2, <1>3, <1>4, <1>5, <1>6, <1>7, <1>8
<1> QED
  BY <1>9 DEF CkTotal, CkBudget, V

LEMMA CkMoves ==
  ASSUME CkIInv, NEW c \in CkClients, NEW p \in CkSteps, NEW q \in CkReqs,
         ckPc' = [ckPc EXCEPT ![c] = p], ckReq' = [ckReq EXCEPT ![c] = q],
         CkBounds', CkKeeps(c), CkFree(c, p, q),
         CkRowsOK(ckRows', ckArchives', ckUnsure', ckMade'),
         CkActorOK(p, q, ckRows', ckArchives', ckMade'), CkTotal'
  PROVE  CkIInv'
<1> USE DEF CkKeeps, CkFree
<1>1. CkTypeOK'
  BY DEF CkIInv, CkTypeOK, CkReqs, CkRowType, CkBounds
<1>2. /\ ckPc'[c] = p /\ ckReq'[c] = q
      /\ \A d \in CkClients \ {c} : ckPc'[d] = ckPc[d] /\ ckReq'[d] = ckReq[d]
  BY DEF CkIInv, CkTypeOK
<1>3. CkApart'
  <2> SUFFICES ASSUME NEW d \in CkClients, NEW e \in CkClients, d # e
               PROVE  CkPend(ckPc'[d], ckReq'[d]) \cap
                        (CkPend(ckPc'[e], ckReq'[e]) \cup CkLooks(ckPc'[e], ckReq'[e])) = {}
    BY Zenon DEF CkApart
  <2>1. CkPend(ckPc[d], ckReq[d]) \cap (CkPend(ckPc[e], ckReq[e]) \cup CkLooks(ckPc[e], ckReq[e])) = {}
    BY DEF CkIInv, CkApart
  <2>2. CASE d = c
    BY <1>2, <2>2
  <2>3. CASE e = c
    BY <1>2, <2>3
  <2>4. CASE d # c /\ e # c
    BY <1>2, <2>1, <2>4
  <2> QED
    BY <2>2, <2>3, <2>4
<1>4. ASSUME NEW d \in CkClients, d # c
      PROVE  CkActorOK(ckPc[d], ckReq[d], ckRows', ckArchives', ckMade')
  <2>1. CkActorOK(ckPc[d], ckReq[d], ckRows, ckArchives, ckMade)
    BY DEF CkIInv
  <2>2. CkPend(ckPc[c], ckReq[c]) \cap (CkPend(ckPc[d], ckReq[d]) \cup CkLooks(ckPc[d], ckReq[d])) = {}
    BY <1>4 DEF CkIInv, CkApart
  <2>3. ASSUME NEW i \in CkPend(ckPc[d], ckReq[d]) \cup CkLooks(ckPc[d], ckReq[d]), CkNoRow(ckRows, i)
        PROVE  CkNoRow(ckRows', i)
    BY <2>2, <2>3 DEF CkNoRow
  <2>4. CkPend(ckPc[d], ckReq[d]) \cup CkLooks(ckPc[d], ckReq[d]) \subseteq ckMade'
    BY <2>1 DEF CkActorOK
  <2>5. ckPc[d] \in {"limits", "insert"} =>
          ckReq[d].id \in ckArchives' /\ CkNoRow(ckRows', ckReq[d].id)
    BY <1>4, <2>1, <2>3 DEF CkActorOK, CkPend
  <2>6. ASSUME ckPc[d] = "prune"
        PROVE  /\ \A r \in ckRows' : r.id = ckReq[d].victim =>
                    /\ r.session = ckReq[d].session
                    /\ \A s \in ckRows' : s.session = ckReq[d].session => r.number <= s.number
               /\ ckReq[d].doomed \in {"none", ckReq[d].victim} \/ CkNoRow(ckRows', ckReq[d].victim)
    <3>1. ckReq[d].victim \in CkLooks(ckPc[d], ckReq[d])
      BY <2>6 DEF CkLooks
    <3>2. ASSUME NEW r \in ckRows', r.id = ckReq[d].victim
          PROVE  /\ r.session = ckReq[d].session
                 /\ \A s \in ckRows' : s.session = ckReq[d].session => r.number <= s.number
      <4>1. r \in ckRows
        BY <2>2, <3>1, <3>2
      <4>2. /\ r.session = ckReq[d].session
            /\ \A s \in ckRows : s.session = ckReq[d].session => r.number <= s.number
        BY <2>1, <2>6, <3>2, <4>1 DEF CkActorOK
      <4>3. ASSUME NEW s \in ckRows' \ ckRows, s.session = ckReq[d].session PROVE r.number <= s.number
        <5>1. r.number < s.number /\ r.number \in Nat /\ s.number \in Nat
          BY <4>1, <4>2, <4>3 DEF CkRowType, CkBounds, CkIInv, CkTypeOK
        <5> QED
          BY <5>1
      <4> QED
        BY <4>2, <4>3
    <3>3. ckReq[d].doomed \in {"none", ckReq[d].victim} \/ CkNoRow(ckRows', ckReq[d].victim)
      BY <2>1, <2>3, <2>6, <3>1 DEF CkActorOK
    <3> QED
      BY <3>2, <3>3
  <2>7. ckPc[d] = "unlink" => CkNoRow(ckRows', ckReq[d].victim)
    BY <2>1, <2>3 DEF CkActorOK, CkLooks
  <2>8. ckPc[d] = "remove" => CkNoRow(ckRows', ckReq[d].id)
    BY <2>1, <2>3 DEF CkActorOK, CkLooks
  <2> HIDE DEF CkPend, CkLooks
  <2> QED
    BY <2>1, <2>4, <2>5, <2>6, <2>7, <2>8 DEF CkActorOK
<1>5. \A d \in CkClients : CkActorOK(ckPc'[d], ckReq'[d], ckRows', ckArchives', ckMade')
  BY <1>2, <1>4
<1> QED
  BY <1>1, <1>3, <1>5 DEF CkIInv

LEMMA CkFewerRows ==
  ASSUME NEW rows, NEW archives, NEW unsure, NEW made, CkRowsOK(rows, archives, unsure, made),
         NEW fewer \in SUBSET rows
  PROVE  CkRowsOK(fewer, archives, unsure, made)
<1>1. IsFiniteSet(fewer)
  BY FS_Subset DEF CkRowsOK
<1> QED
  BY <1>1 DEF CkRowsOK

\* Archives that no row needs may go.
LEMMA CkFewerArchives ==
  ASSUME NEW rows, NEW archives, NEW unsure, NEW made, CkRowsOK(rows, archives, unsure, made),
         NEW i, CkNoRow(rows, i)
  PROVE  CkRowsOK(rows, archives \ {i}, unsure, made)
BY DEF CkRowsOK, CkNoRow

LEMMA CkTypes ==
  ASSUME CkIInv, NEW c \in CkClients
  PROVE  /\ ckPc \in [CkClients -> CkSteps] /\ ckReq \in [CkClients -> CkReqs]
         /\ ckPc[c] \in CkSteps /\ ckReq[c] \in CkReqs
         /\ CkBounds /\ CkRowsOK(ckRows, ckArchives, ckUnsure, ckMade)
         /\ CkActorOK(ckPc[c], ckReq[c], ckRows, ckArchives, ckMade)
BY DEF CkIInv, CkTypeOK, CkReqs, CkRowType, CkBounds

\* A step that touches no row and no archive.
LEMMA CkWalks ==
  ASSUME CkIInv, NEW c \in CkClients, NEW p \in CkSteps, p # "insert", NEW q \in CkReqs,
         ckPc' = [ckPc EXCEPT ![c] = p], ckReq' = [ckReq EXCEPT ![c] = q],
         UNCHANGED <<ckRows, ckArchives, ckMade, ckUnsure, ckActive>>,
         ckForked' \subseteq CkForks, ckDirs' \subseteq CkForks,
         CkActorOK(p, q, ckRows, ckArchives, ckMade), CkFree(c, p, q)
  PROVE  CkIInv'
<1>1. CkTotal'
  BY CkTotalKept
<1>2. CkRowsOK(ckRows', ckArchives', ckUnsure', ckMade')
  BY CkTypes
<1>3. CkActorOK(p, q, ckRows', ckArchives', ckMade')
  OBVIOUS
<1>4. CkBounds' /\ CkKeeps(c)
  BY CkTypes DEF CkBounds, CkKeeps
<1> QED
  BY <1>1, <1>2, <1>3, <1>4, CkMoves

\* A request that ends leaves nothing to be done.
LEMMA CkLeavesIInv ==
  ASSUME CkIInv, NEW c \in CkClients, CkLeave(c), ckRows' \subseteq ckRows, ckArchives' \subseteq ckArchives,
         \A i \in ckArchives \ ckArchives' :
           /\ CkNoRow(ckRows, i)
           /\ \A d \in CkClients \ {c} : i \notin CkPend(ckPc[d], ckReq[d]),
         UNCHANGED <<ckMade, ckUnsure, ckActive>>,
         ckForked' \subseteq CkForks, ckDirs' \subseteq CkForks
  PROVE  CkIInv'
<1>1. "idle" \in CkSteps /\ CkNoReq \in CkReqs
  BY DEF CkSteps, CkNoReq, CkReqs
<1>2. ckPc' = [ckPc EXCEPT ![c] = "idle"] /\ ckReq' = [ckReq EXCEPT ![c] = CkNoReq]
  BY DEF CkLeave, CkGoto
<1>3. CkTotal'
  BY <1>2, CkTotalKept
<1>4. CkRowsOK(ckRows', ckArchives', ckUnsure', ckMade')
  <2>1. CkRowsOK(ckRows', ckArchives, ckUnsure, ckMade)
    BY CkTypes, CkFewerRows
  <2> QED
    BY <2>1 DEF CkRowsOK, CkNoRow
<1>5. CkActorOK("idle", CkNoReq, ckRows', ckArchives', ckMade')
  BY DEF CkActorOK, CkPend, CkLooks, CkNoReq
<1>6. CkFree(c, "idle", CkNoReq)
  BY DEF CkFree, CkPend, CkLooks
<1>7. CkBounds' /\ CkKeeps(c)
  BY CkTypes DEF CkBounds, CkKeeps
<1> QED
  BY <1>1, <1>2, <1>3, <1>4, <1>5, <1>6, <1>7, CkMoves

\* A row that somebody looks at is not on its way.
LEMMA CkListedIsDone ==
  ASSUME CkIInv, NEW r \in ckRows, NEW d \in CkClients
  PROVE  r.id \notin CkPend(ckPc[d], ckReq[d]) /\ r.id \in ckMade /\ r.id \in CkIds
BY CkTypes DEF CkActorOK, CkPend, CkNoRow, CkRowsOK, CkRowType, CkBounds

-----------------------------------------------------------------------------
(***************************************************************************)
(* Creating.                                                               *)
(***************************************************************************)

LEMMA CkBeginIInv ==
  ASSUME CkIInv, NEW c \in CkClients, NEW s \in CkHomes, CkBegin(c, s)
  PROVE  CkIInv'
<1>1. PICK q : q = [ckReq[c] EXCEPT !.session = s]
  OBVIOUS
<1>2. PICK p : p = IF Cardinality(CkOf(s)) >= CkMaxPer THEN "oldest" ELSE "snapshot"
  OBVIOUS
<1>3. q \in CkReqs /\ q.session = s /\ q.doomed = "none"
  <2>1. ckReq[c].doomed = "none"
    BY CkTypes DEF CkActorOK, CkBegin
  <2> QED
    BY <1>1, <2>1, CkTypes DEF CkReqs
<1>4. p \in {"oldest", "snapshot"} /\ p \in CkSteps /\ p # "insert"
  BY <1>2 DEF CkSteps
<1>5. ckPc' = [ckPc EXCEPT ![c] = p] /\ ckReq' = [ckReq EXCEPT ![c] = q]
  BY <1>1, <1>2 DEF CkBegin, CkGoto
<1>6. CkPend(p, q) = {} /\ CkLooks(p, q) = {}
  BY <1>4 DEF CkPend, CkLooks
<1>7. CkActorOK(p, q, ckRows, ckArchives, ckMade) /\ CkFree(c, p, q)
  BY <1>3, <1>4, <1>6 DEF CkActorOK, CkFree
<1>8. /\ UNCHANGED <<ckRows, ckArchives, ckMade, ckUnsure, ckActive>>
      /\ ckForked' \subseteq CkForks /\ ckDirs' \subseteq CkForks
  BY CkTypes DEF CkBegin, CkBounds
<1> QED
  BY <1>3, <1>4, <1>5, <1>7, <1>8, CkWalks

\* The oldest row of a session.
LEMMA CkOldestRow ==
  ASSUME NEW s, NEW i \in CkOldest(s)
  PROVE  \E r \in ckRows : r.id = i /\ r.session = s /\ \A p \in ckRows : p.session = s => r.number <= p.number
BY DEF CkOldest, CkOf

LEMMA CkPruneSelectIInv ==
  ASSUME CkIInv, NEW c \in CkClients, CkPruneSelect(c)
  PROVE  CkIInv'
<1>1. CASE CkLeave(c)
  BY <1>1, CkLeavesIInv, CkTypes DEF CkPruneSelect, CkBounds
<1>2. CASE ~CkLeave(c)
  <2>1. PICK i \in CkOldest(ckReq[c].session) :
           /\ ckReq' = [ckReq EXCEPT ![c].victim = i] /\ CkGoto(c, "prune")
    BY <1>2 DEF CkPruneSelect
  <2>2. PICK r \in ckRows : /\ r.id = i /\ r.session = ckReq[c].session
                            /\ \A p \in ckRows : p.session = ckReq[c].session => r.number <= p.number
    BY CkOldestRow
  <2>3. PICK q : q = [ckReq[c] EXCEPT !.victim = i]
    OBVIOUS
  <2>4. i \in CkIds /\ i \in ckMade /\ \A d \in CkClients : i \notin CkPend(ckPc[d], ckReq[d])
    BY <2>2, CkListedIsDone
  <2>5. q \in CkReqs /\ q.victim = i /\ q.session = ckReq[c].session /\ q.doomed = ckReq[c].doomed
    BY <2>3, <2>4, CkTypes DEF CkReqs
  <2>6. ckPc' = [ckPc EXCEPT ![c] = "prune"] /\ ckReq' = [ckReq EXCEPT ![c] = q]
    BY <2>1, <2>3 DEF CkGoto
  <2>7. CkPend("prune", q) = {} /\ CkLooks("prune", q) = {i}
    BY <2>5 DEF CkPend, CkLooks
  <2>8. ckReq[c].session \in CkHomes /\ ckReq[c].doomed = "none"
    BY CkTypes DEF CkActorOK, CkPruneSelect
  <2>9. ASSUME NEW s \in ckRows, s.id = i PROVE s = r
    BY <2>2, <2>9, CkTypes DEF CkRowsOK
  <2>10. CkActorOK("prune", q, ckRows, ckArchives, ckMade)
    BY <2>2, <2>4, <2>5, <2>7, <2>8, <2>9 DEF CkActorOK
  <2>13. CkFree(c, "prune", q)
    BY <2>4, <2>7 DEF CkFree
  <2>11. /\ UNCHANGED <<ckRows, ckArchives, ckMade, ckUnsure, ckActive>>
         /\ ckForked' \subseteq CkForks /\ ckDirs' \subseteq CkForks
    BY CkTypes DEF CkPruneSelect, CkBounds
  <2>12. "prune" \in CkSteps
    BY DEF CkSteps
  <2> QED
    BY <2>5, <2>6, <2>10, <2>11, <2>12, <2>13, CkWalks
<1> QED
  BY <1>1, <1>2

LEMMA CkPruneTargetIInv ==
  ASSUME CkIInv, NEW c \in CkClients, CkPruneTarget(c)
  PROVE  CkIInv'
<1>1. PICK i \in CkOldest(ckReq[c].session) : ckReq' = [ckReq EXCEPT ![c].doomed = i]
  BY DEF CkPruneTarget
<1>2. PICK r \in ckRows : /\ r.id = i /\ r.session = ckReq[c].session
                          /\ \A p \in ckRows : p.session = ckReq[c].session => r.number <= p.number
  BY <1>1, CkOldestRow
<1>3. PICK q : q = [ckReq[c] EXCEPT !.doomed = i]
  OBVIOUS
<1>4. i \in CkIds /\ ckPc[c] = "prune"
  BY <1>2, CkListedIsDone DEF CkPruneTarget
<1>5. q \in CkReqs /\ q.doomed = i /\ q.victim = ckReq[c].victim /\ q.session = ckReq[c].session
  BY <1>3, <1>4, CkTypes DEF CkReqs
<1>6. ckPc' = [ckPc EXCEPT ![c] = "prune"] /\ ckReq' = [ckReq EXCEPT ![c] = q]
  BY <1>1, <1>3, <1>4, CkTypes DEF CkPruneTarget
<1>7. CkPend("prune", q) = {} /\ CkLooks("prune", q) = {q.victim}
  BY DEF CkPend, CkLooks
<1>8. CkActorOK("prune", ckReq[c], ckRows, ckArchives, ckMade)
  BY <1>4, CkTypes
<1>9. i = q.victim \/ CkNoRow(ckRows, q.victim)
  <2> SUFFICES ASSUME NEW v \in ckRows, v.id = q.victim PROVE i = q.victim
    BY DEF CkNoRow
  <2>1. /\ v.session = ckReq[c].session /\ v.number <= r.number
    BY <1>2, <1>5, <1>8 DEF CkActorOK
  <2>2. r.number <= v.number /\ r.number \in Nat /\ v.number \in Nat
    BY <1>2, <2>1, CkTypes DEF CkRowType, CkBounds
  <2>3. r = v
    BY <1>2, <2>1, <2>2, CkTypes DEF CkRowsOK
  <2> QED
    BY <1>2, <2>3
<1>10. CkActorOK("prune", q, ckRows, ckArchives, ckMade)
  BY <1>5, <1>7, <1>8, <1>9 DEF CkActorOK, CkLooks, CkPend
<1>11. CkFree(c, "prune", q)
  BY <1>4, <1>5, <1>7 DEF CkIInv, CkApart, CkLooks, CkFree
<1>12. /\ UNCHANGED <<ckRows, ckArchives, ckMade, ckUnsure, ckActive>>
       /\ ckForked' \subseteq CkForks /\ ckDirs' \subseteq CkForks /\ "prune" \in CkSteps
  BY CkTypes DEF CkPruneTarget, CkSteps, CkBounds
<1> QED
  BY <1>5, <1>6, <1>10, <1>11, <1>12, CkWalks

\* Rows of one identity are removed.
LEMMA CkDropsRow ==
  ASSUME CkIInv, NEW c \in CkClients, NEW p \in CkSteps, p # "insert", NEW i,
         ckPc' = [ckPc EXCEPT ![c] = p], UNCHANGED ckReq,
         ckRows' = ckRows \ CkRow(i),
         UNCHANGED <<ckArchives, ckMade, ckUnsure, ckForked, ckDirs, ckActive>>,
         CkPend(p, ckReq[c]) = {}, CkLooks(p, ckReq[c]) = CkLooks(ckPc[c], ckReq[c]),
         CkActorOK(p, ckReq[c], ckRows', ckArchives, ckMade)
  PROVE  CkIInv'
<1>1. ckReq' = [ckReq EXCEPT ![c] = ckReq[c]] /\ ckReq[c] \in CkReqs
  BY CkTypes
<1>2. ckRows' \subseteq ckRows
  OBVIOUS
<1>3. CkTotal'
  BY <1>1, <1>2, CkTotalKept
<1>4. CkRowsOK(ckRows', ckArchives', ckUnsure', ckMade')
  BY <1>2, CkTypes, CkFewerRows
<1>5. CkFree(c, p, ckReq[c])
  BY DEF CkIInv, CkApart, CkFree
<1>6. CkActorOK(p, ckReq[c], ckRows', ckArchives', ckMade')
  OBVIOUS
<1>7. CkBounds' /\ CkKeeps(c)
  BY <1>2, CkTypes DEF CkBounds, CkKeeps
<1> QED
  BY <1>1, <1>2, <1>3, <1>4, <1>5, <1>6, <1>7, CkMoves

LEMMA CkPruneDeleteIInv ==
  ASSUME CkIInv, NEW c \in CkClients, CkPruneDelete(c)
  PROVE  CkIInv'
<1> DEFINE q == ckReq[c]
<1>1. ckPc[c] = "prune" /\ UNCHANGED <<ckArchives, ckMade, ckUnsure, ckForked, ckDirs, ckActive>>
  BY DEF CkPruneDelete
<1>2. CASE CkLeave(c) /\ UNCHANGED ckRows
  BY <1>1, <1>2, CkLeavesIInv, CkTypes DEF CkBounds
<1>3. CASE /\ q.doomed # "none" \/ CkOf(q.session) = {}
           /\ ckRows' = ckRows \ CkRow(q.doomed)
           /\ CkGoto(c, "unlink") /\ UNCHANGED ckReq
  <2>1. CkActorOK("prune", q, ckRows, ckArchives, ckMade)
    BY <1>1, CkTypes
  <2>2. CkNoRow(ckRows', q.victim)
    <3> SUFFICES ASSUME NEW v \in ckRows, v.id = q.victim PROVE v \in CkRow(q.doomed)
      BY <1>3 DEF CkNoRow
    <3>1. v.session = q.session /\ q.doomed \in {"none", q.victim}
      BY <2>1 DEF CkActorOK, CkNoRow
    <3>2. q.doomed # "none"
      BY <1>3, <3>1 DEF CkOf
    <3> QED
      BY <3>1, <3>2 DEF CkRow
  <2>3. CkPend("unlink", q) = {} /\ CkLooks("unlink", q) = CkLooks(ckPc[c], q)
    BY <1>1 DEF CkPend, CkLooks
  <2>4. q.victim \in ckMade /\ q.session \in CkHomes
    BY <2>1 DEF CkActorOK, CkPend, CkLooks
  <2>5. CkActorOK("unlink", q, ckRows', ckArchives, ckMade)
    BY <2>2, <2>4 DEF CkActorOK, CkPend, CkLooks
  <2>6. "unlink" \in CkSteps /\ ckPc' = [ckPc EXCEPT ![c] = "unlink"]
    BY <1>3 DEF CkSteps, CkGoto
  <2> QED
    BY <1>1, <1>3, <2>3, <2>5, <2>6, CkDropsRow
<1> QED
  BY <1>2, <1>3 DEF CkPruneDelete

\* An archive that no row and no other request needs is removed.
LEMMA CkDropsArchive ==
  ASSUME CkIInv, NEW c \in CkClients, NEW i, CkNoRow(ckRows, i),
         i \in CkLooks(ckPc[c], ckReq[c]) \cup CkPend(ckPc[c], ckReq[c])
  PROVE  /\ CkRowsOK(ckRows, ckArchives \ {i}, ckUnsure, ckMade)
         /\ \A d \in CkClients \ {c} : i \notin CkPend(ckPc[d], ckReq[d])
<1>1. CkRowsOK(ckRows, ckArchives \ {i}, ckUnsure, ckMade)
  BY CkTypes, CkFewerArchives
<1> QED
  BY <1>1 DEF CkIInv, CkApart

LEMMA CkPruneUnlinkIInv ==
  ASSUME CkIInv, NEW c \in CkClients, CkPruneUnlink(c)
  PROVE  CkIInv'
<1> DEFINE q == ckReq[c]
           i == q.victim
<1>1. /\ ckPc[c] = "unlink" /\ ckArchives' = ckArchives \ {i}
      /\ ckPc' = [ckPc EXCEPT ![c] = "snapshot"]
      /\ UNCHANGED <<ckRows, ckMade, ckUnsure, ckForked, ckDirs, ckActive, ckReq>>
  BY DEF CkPruneUnlink, CkGoto
<1>2. CkActorOK("unlink", q, ckRows, ckArchives, ckMade) /\ q \in CkReqs
  BY <1>1, CkTypes
<1>3. CkNoRow(ckRows, i) /\ i \in CkLooks(ckPc[c], ckReq[c]) /\ q.session \in CkHomes
  BY <1>1, <1>2 DEF CkActorOK, CkLooks
<1>4. /\ CkRowsOK(ckRows, ckArchives \ {i}, ckUnsure, ckMade)
      /\ \A d \in CkClients \ {c} : i \notin CkPend(ckPc[d], ckReq[d])
  BY <1>3, CkDropsArchive
<1>5. CkRowsOK(ckRows', ckArchives', ckUnsure', ckMade')
  BY <1>1, <1>4
<1>6. CkBounds' /\ CkKeeps(c)
  BY <1>1, <1>4, CkTypes DEF CkBounds, CkKeeps
<1>7. CkFree(c, "snapshot", q) /\ CkActorOK("snapshot", q, ckRows', ckArchives', ckMade')
  BY <1>3 DEF CkFree, CkPend, CkLooks, CkActorOK
<1>8. ckReq' = [ckReq EXCEPT ![c] = q] /\ "snapshot" \in CkSteps /\ ckRows' \subseteq ckRows
  BY <1>1, CkTypes DEF CkSteps
<1>9. CkTotal'
  BY <1>1, <1>8, CkTotalKept
<1> QED
  BY <1>1, <1>2, <1>5, <1>6, <1>7, <1>8, <1>9, CkMoves

LEMMA CkSnapshotIInv ==
  ASSUME CkIInv, NEW c \in CkClients, CkSnapshot(c)
  PROVE  CkIInv'
<1>1. PICK i \in CkIds \ ckMade, n \in CkSizes :
        /\ ckMade' = ckMade \cup {i} /\ ckArchives' = ckArchives \cup {i}
        /\ ckReq' = [ckReq EXCEPT ![c] = [ckReq[c] EXCEPT !.id = i, !.size = n]]
  BY CkTypes DEF CkSnapshot
<1>2. PICK q : q = [ckReq[c] EXCEPT !.id = i, !.size = n]
  OBVIOUS
<1>3. q \in CkReqs /\ q.id = i /\ q.size = n /\ q.session = ckReq[c].session
  BY <1>2, CkTypes DEF CkReqs
<1>4. /\ ckPc[c] = "snapshot" /\ ckPc' = [ckPc EXCEPT ![c] = "limits"]
      /\ UNCHANGED <<ckRows, ckUnsure, ckForked, ckDirs, ckActive>>
  BY DEF CkSnapshot, CkGoto
<1>5. ckReq' = [ckReq EXCEPT ![c] = q] /\ "limits" \in CkSteps /\ ckRows' \subseteq ckRows
  BY <1>1, <1>2, <1>4 DEF CkSteps
<1>6. CkBounds' /\ CkKeeps(c)
  BY <1>1, <1>4, CkTypes DEF CkBounds, CkKeeps
<1>7. CkRowsOK(ckRows', ckArchives', ckUnsure', ckMade')
  <2>1. CkRowsOK(ckRows, ckArchives, ckUnsure, ckMade)
    BY CkTypes
  <2>2. CkRowsOK(ckRows, ckArchives', ckUnsure, ckMade')
    BY <1>1, <2>1 DEF CkRowsOK
  <2> QED
    BY <1>4, <2>2
<1>8. CkFree(c, "limits", q)
  <2> SUFFICES ASSUME NEW d \in CkClients \ {c}
               PROVE  i \notin CkPend(ckPc[d], ckReq[d]) \cup CkLooks(ckPc[d], ckReq[d])
    BY <1>3 DEF CkFree, CkPend, CkLooks
  <2>1. CkActorOK(ckPc[d], ckReq[d], ckRows, ckArchives, ckMade)
    BY CkTypes
  <2> QED
    BY <2>1 DEF CkActorOK
<1>9. CkActorOK("limits", q, ckRows', ckArchives', ckMade')
  <2>1. CkNoRow(ckRows, i)
    BY CkTypes DEF CkRowsOK, CkNoRow
  <2>2. ckReq[c].session \in CkHomes
    BY <1>4, CkTypes DEF CkActorOK
  <2> QED
    BY <1>1, <1>3, <1>4, <2>1, <2>2 DEF CkActorOK, CkPend, CkLooks
<1>10. CkTotal'
  BY <1>4, <1>5, CkTotalKept
<1> QED
  BY <1>3, <1>4, <1>5, <1>6, <1>7, <1>8, <1>9, <1>10, CkMoves

\* A request that is let through is counted from then on.
LEMMA CkLimitsIInv ==
  ASSUME CkIInv, NEW c \in CkClients, CkLimits(c)
  PROVE  CkIInv'
<1> DEFINE q == ckReq[c]
<1>1. /\ ckPc[c] = "limits"
      /\ UNCHANGED <<ckRows, ckMade, ckUnsure, ckForked, ckDirs, ckActive>>
  BY DEF CkLimits
<1>2. CkActorOK("limits", q, ckRows, ckArchives, ckMade) /\ q \in CkReqs
  BY <1>1, CkTypes
<1>3. /\ q.id \in ckArchives /\ CkNoRow(ckRows, q.id) /\ q.size \in CkSizes /\ q.session \in CkHomes
      /\ CkPend(ckPc[c], ckReq[c]) = {q.id} /\ q.id \in ckMade
  BY <1>1, <1>2 DEF CkActorOK, CkPend
<1>4. CASE ckArchives' = ckArchives \ {q.id} /\ CkLeave(c)
  <2>1. \A d \in CkClients \ {c} : q.id \notin CkPend(ckPc[d], ckReq[d])
    BY <1>3, CkDropsArchive
  <2>2. /\ ckRows' \subseteq ckRows /\ ckArchives' \subseteq ckArchives
        /\ \A i \in ckArchives \ ckArchives' :
             /\ CkNoRow(ckRows, i)
             /\ \A d \in CkClients \ {c} : i \notin CkPend(ckPc[d], ckReq[d])
    BY <1>1, <1>3, <1>4, <2>1
  <2>3. ckForked' \subseteq CkForks /\ ckDirs' \subseteq CkForks
    BY <1>1, CkTypes DEF CkBounds
  <2> QED
    BY <1>1, <1>4, <2>2, <2>3, CkLeavesIInv
<1>5. ASSUME NEW checked \in BOOLEAN,
             IF checked THEN CkFits(q.size) ELSE c \in CkFaulty /\ q.size <= CkMaxSize,
             ckReq' = [ckReq EXCEPT ![c].checked = checked],
             CkGoto(c, "insert"), UNCHANGED ckArchives
      PROVE  CkIInv'
  <2>0. PICK p : p = [q EXCEPT !.checked = checked]
    OBVIOUS
  <2>1. /\ ckPc' = [ckPc EXCEPT ![c] = "insert"] /\ ckReq' = [ckReq EXCEPT ![c] = p]
        /\ "insert" \in CkSteps
    BY <1>5, <2>0, CkTypes DEF CkGoto, CkSteps
  <2>8. /\ p \in CkReqs /\ p.id = q.id /\ p.size = q.size /\ p.session = q.session
        /\ p.checked = checked
    BY <1>2, <2>0 DEF CkReqs
  <2>2. CkBounds' /\ CkKeeps(c) /\ CkRowsOK(ckRows', ckArchives', ckUnsure', ckMade')
    BY <1>1, <1>5, CkTypes DEF CkBounds, CkKeeps
  <2>3. CkPend("insert", p) = CkPend(ckPc[c], ckReq[c]) /\ CkLooks("insert", p) = {}
    BY <1>3, <2>8 DEF CkPend, CkLooks
  <2>4. CkFree(c, "insert", p)
    BY <2>3 DEF CkFree, CkIInv, CkApart
  <2>5. q.size <= CkMaxSize /\ (checked => Cardinality(CkBytes(ckRows)) + q.size <= CkMaxOrg)
    BY <1>5 DEF CkFits, CkStored
  <2>6. CkActorOK("insert", p, ckRows', ckArchives', ckMade')
    BY <1>1, <1>3, <1>5, <2>3, <2>5, <2>8 DEF CkActorOK
  <2>9. CASE ~checked
    <3>1. CkTotal'
      BY <1>1, <2>1, <2>8, <2>9, CkTotalKept
    <3> QED
      BY <2>1, <2>2, <2>4, <2>6, <2>8, <3>1, CkMoves
  <2>7. CASE checked
    <3>1. /\ ckPc \in [CkClients -> CkSteps] /\ ckReq \in [CkClients -> CkReqs]
          /\ q.size \in Nat /\ CkMaxOrg \in Nat /\ CkMaxSize \in Nat
      BY <1>3, CkTypes, CheckpointAssumption
    <3> DEFINE W == CkWanted(ckPc', ckReq')
               O == CkOthers(ckPc', ckReq', c)
               S == CkBytes(CkCompared(ckRows))
               m == (Cardinality(CkClients) - 1) * CkMaxSize
    <3>2. ckPc'[c] = "insert" /\ ckReq'[c] = p
      BY <2>1, <3>1
    <3>3. Cardinality(O) \in Nat /\ Cardinality(O) <= m /\ Cardinality(W) = Cardinality(O) + CkOwn(ckPc', ckReq', c)
      BY <2>5, <2>8, <3>1, <3>2, CkWantedSplit
    <3>4. CkOwn(ckPc', ckReq', c) = q.size
      BY <2>7, <2>8, <3>2 DEF CkOwn
    <3>5. Cardinality(S) \in Nat /\ Cardinality(S) <= Cardinality(CkBytes(ckRows)) /\ Cardinality(CkBytes(ckRows)) \in Nat
      <4>1. /\ ckRows \in SUBSET CkRowType /\ IsFiniteSet(ckRows) /\ (\A r \in ckRows : r.size <= CkMaxSize)
            /\ CkCompared(ckRows) \in SUBSET ckRows
        BY CkTypes DEF CkRowsOK, CkBounds, CkCompared
      <4>2. CkCompared(ckRows) \in SUBSET CkRowType /\ IsFiniteSet(CkCompared(ckRows))
        BY <4>1, FS_Subset
      <4> QED
        BY <4>1, <4>2, CkBytesFinite, CkBytesShrink
    <3>6. m \in Int
      <4>1. Cardinality(CkClients) \in Nat
        BY FS_CardinalityType, CheckpointAssumption
      <4> QED
        BY <3>1, <4>1
    <3> HIDE DEF W, O, S, m
    <3>7. Cardinality(S) + Cardinality(W) <= CkMaxOrg + m
      BY <2>5, <2>7, <3>1, <3>3, <3>4, <3>5, <3>6
    <3>8. CkTotal'
      BY <1>1, <3>7 DEF CkTotal, CkBudget, S, W, m
    <3> QED
      BY <2>1, <2>2, <2>4, <2>6, <2>8, <3>8, CkMoves
  <2> QED
    BY <2>7, <2>9
<1> QED
  BY <1>4, <1>5 DEF CkLimits

LEMMA CkNumbers ==
  ASSUME CkIInv, NEW s
  PROVE  CkNextNumber(s) \in Nat /\ \A r \in ckRows : r.session = s => r.number < CkNextNumber(s)
<1> DEFINE S == {r.number : r \in CkOf(s)} \cup {0}
<1>1. PICK n \in Nat : \A r \in ckRows : r.number <= n /\ r.number \in Nat
  BY CkTypes DEF CkRowsOK, CkBounds, CkRowType, CkIInv, CkTypeOK
<1>2. S \in SUBSET (0..n) /\ S # {}
  BY <1>1 DEF CkOf
<1>3. Max(S) \in S /\ \A m \in S : m <= Max(S)
  BY <1>2, CoMaxOf
<1>4. \A r \in ckRows : r.session = s => r.number \in S
  BY DEF CkOf
<1>5. Max(S) \in Nat
  BY <1>2, <1>3
<1>6. CkNextNumber(s) = 1 + Max(S)
  BY DEF CkNextNumber
<1> HIDE DEF S
<1>7. \A r \in ckRows : r.session = s => r.number < 1 + Max(S)
  BY <1>1, <1>3, <1>4, <1>5
<1> QED
  BY <1>5, <1>6, <1>7

LEMMA CkInsertIInv ==
  ASSUME CkIInv, NEW c \in CkClients, CkInsert(c)
  PROVE  CkIInv'
<1>1. PICK q : q = ckReq[c]
  OBVIOUS
<1>2. ckPc[c] = "insert" /\ CkLeave(c) /\ UNCHANGED <<ckMade, ckForked, ckDirs, ckActive>>
  BY DEF CkInsert
<1>3. CkActorOK("insert", q, ckRows, ckArchives, ckMade) /\ q \in CkReqs
  BY <1>1, <1>2, CkTypes
<1>4. /\ q.id \in ckArchives /\ CkNoRow(ckRows, q.id) /\ q.size \in CkSizes /\ q.session \in CkHomes
      /\ CkPend(ckPc[c], ckReq[c]) = {q.id} /\ q.id \in ckMade /\ q.id \in CkIds
      /\ q.size <= CkMaxSize /\ q.size \in Nat /\ q.checked \in BOOLEAN
  BY <1>1, <1>2, <1>3, CkTypes, CheckpointAssumption DEF CkActorOK, CkPend, CkBounds, CkReqs
<1>5. /\ CkRowsOK(ckRows, ckArchives \ {q.id}, ckUnsure, ckMade)
      /\ \A d \in CkClients \ {c} : q.id \notin CkPend(ckPc[d], ckReq[d])
  BY <1>4, CkDropsArchive
<1>6. CASE ckArchives' = ckArchives \ {q.id} /\ UNCHANGED <<ckRows, ckUnsure>>
  <2>1. /\ ckRows' \subseteq ckRows /\ ckArchives' \subseteq ckArchives
        /\ \A i \in ckArchives \ ckArchives' :
             /\ CkNoRow(ckRows, i)
             /\ \A d \in CkClients \ {c} : i \notin CkPend(ckPc[d], ckReq[d])
    BY <1>4, <1>5, <1>6
  <2>2. ckForked' \subseteq CkForks /\ ckDirs' \subseteq CkForks
    BY <1>2, CkTypes DEF CkBounds
  <2> QED
    BY <1>2, <1>6, <2>1, <2>2, CkLeavesIInv
<1>7. CASE /\ CkAdd(q)
           /\ \/ UNCHANGED <<ckArchives, ckUnsure>>
              \/ ckArchives' = ckArchives \ {q.id} /\ ckUnsure' = ckUnsure \cup {q.id}
  <2>1. PICK r : r = [id |-> q.id, session |-> q.session, number |-> CkNextNumber(q.session), size |-> q.size,
                   checked |-> q.checked]
    OBVIOUS
  <2>2. /\ ckRows' = ckRows \cup {r} /\ r.id = q.id /\ r.session = q.session /\ r.size = q.size
        /\ r.number = CkNextNumber(q.session) /\ r.checked = q.checked
    BY <1>7, <2>1 DEF CkAdd
  <2>3. r.number \in Nat /\ \A s \in ckRows : s.session = r.session => s.number < r.number
    BY <2>2, CkNumbers
  <2>4. r \in CkRowType /\ r \notin ckRows /\ \A s \in ckRows : s.id # r.id
    BY <1>4, <2>1, <2>2, <2>3 DEF CkRowType, CkNoRow
  <2>5. CkRowsOK(ckRows', ckArchives', ckUnsure', ckMade')
    <3>1. CkRowsOK(ckRows, ckArchives, ckUnsure, ckMade)
      BY CkTypes
    <3>2. IsFiniteSet(ckRows')
      BY <2>2, <3>1, FS_AddElement DEF CkRowsOK
    <3>3. \E n \in Nat : \A s \in ckRows' : s.number <= n
      <4>1. PICK n \in Nat : \A s \in ckRows : s.number <= n
        BY <3>1 DEF CkRowsOK
      <4>2. \A s \in ckRows' : s.number <= n + r.number /\ n + r.number \in Nat
        BY <2>2, <2>3, <4>1, CkTypes DEF CkBounds, CkRowType
      <4> QED
        BY <2>3, <4>1, <4>2
    <3>4. \A s \in ckRows' : s.id \in ckMade' \cap (ckArchives' \cup ckUnsure') /\ s.size <= CkMaxSize
      <4>1. \A s \in ckRows : s.id \in ckMade /\ s.id \in ckArchives \cup ckUnsure /\ s.size <= CkMaxSize
        BY <3>1 DEF CkRowsOK
      <4> QED
        BY <1>2, <1>4, <1>7, <2>2, <4>1
    <3>5. \A s, t \in ckRows' :
            s.id = t.id \/ (s.session = t.session /\ s.number = t.number) => s = t
      <4>1. \A s, t \in ckRows :
              s.id = t.id \/ (s.session = t.session /\ s.number = t.number) => s = t
        BY <3>1 DEF CkRowsOK
      <4>2. \A s \in ckRows : s.id # r.id /\ ~(s.session = r.session /\ s.number = r.number)
        <5> SUFFICES ASSUME NEW s \in ckRows, s.session = r.session PROVE s.number # r.number
          BY <2>4
        <5>1. s.number < r.number /\ s.number \in Nat
          BY <2>3, CkTypes DEF CkBounds, CkRowType
        <5> QED
          BY <2>3, <5>1
      <4> QED
        BY <2>2, <4>1, <4>2
    <3> QED
      BY <3>2, <3>3, <3>4, <3>5 DEF CkRowsOK
  <2>6. CkBounds'
    BY <1>2, <1>4, <1>7, <2>2, <2>4, CkTypes DEF CkBounds
  <2>7. CkKeeps(c)
    BY <1>2, <1>4, <1>5, <1>7, <2>2, <2>3 DEF CkKeeps
  <2>8. CkFree(c, "idle", CkNoReq) /\ CkActorOK("idle", CkNoReq, ckRows', ckArchives', ckMade')
    BY DEF CkFree, CkActorOK, CkPend, CkLooks, CkNoReq
  <2>9. /\ "idle" \in CkSteps /\ CkNoReq \in CkReqs
        /\ ckPc' = [ckPc EXCEPT ![c] = "idle"] /\ ckReq' = [ckReq EXCEPT ![c] = CkNoReq]
    BY <1>2 DEF CkSteps, CkNoReq, CkReqs, CkLeave, CkGoto
  <2>10. CkTotal'
    <3>1. /\ ckRows \in SUBSET CkRowType /\ IsFiniteSet(ckRows) /\ (\A s \in ckRows : s.size <= CkMaxSize)
          /\ ckPc \in [CkClients -> CkSteps] /\ ckReq \in [CkClients -> CkReqs]
      BY CkTypes DEF CkBounds, CkRowsOK
    <3> DEFINE W == CkWanted(ckPc, ckReq)
               V == CkWanted(ckPc', ckReq')
               O == CkOthers(ckPc, ckReq, c)
               R == CkCompared(ckRows)
               S == CkBytes(R)
               T == CkBytes(CkCompared(ckRows'))
               n == CkOwn(ckPc, ckReq, c)
    <3>0. /\ R \in SUBSET CkRowType /\ IsFiniteSet(R) /\ (\A s \in R : s.size <= CkMaxSize)
          /\ r \notin R
      BY <2>4, <3>1, FS_Subset DEF CkCompared
    <3>5. n = IF q.checked THEN q.size ELSE 0
      BY <1>1, <1>2 DEF CkOwn
    <3>2. Cardinality(T) = Cardinality(S) + n
      <4> HIDE DEF n
      <4>1. CASE q.checked
        <5>1. CkCompared(ckRows') = R \cup {r}
          BY <2>2, <4>1 DEF CkCompared
        <5>2. Cardinality(CkBytes(R \cup {r})) = Cardinality(S) + r.size
          <6> HIDE DEF R
          <6> QED
            BY <1>4, <2>2, <3>0, CkBytesAdd
        <5> QED
          BY <2>2, <3>5, <4>1, <5>1, <5>2
      <4>2. CASE ~q.checked
        <5>1. CkCompared(ckRows') = R
          BY <2>2, <4>2 DEF CkCompared
        <5>2. Cardinality(S) \in Nat
          BY <3>0, CkBytesFinite
        <5> QED
          BY <3>5, <4>2, <5>1, <5>2
      <4> QED
        BY <4>1, <4>2
    <3>3. V = O
      BY <2>9, <3>1 DEF CkWanted, CkOthers
    <3>4. Cardinality(O) \in Nat /\ Cardinality(W) = Cardinality(O) + n
      BY <1>1, <1>4, CkWantedSplit
    <3>6. Cardinality(S) \in Nat
      BY <3>0, CkBytesFinite
    <3>7. CkBudget \in Int
      <4>1. Cardinality(CkClients) \in Nat
        BY FS_CardinalityType, CheckpointAssumption
      <4> QED
        BY <4>1, CheckpointAssumption DEF CkBudget
    <3>8. Cardinality(S) + Cardinality(W) <= CkBudget
      BY DEF CkIInv, CkTotal
    <3>10. n \in Nat
      BY <1>4, <3>5
    <3> HIDE DEF W, V, O, S, T, n
    <3>9. Cardinality(T) + Cardinality(V) <= CkBudget
      BY <3>2, <3>3, <3>4, <3>6, <3>7, <3>8, <3>10
    <3> QED
      BY <3>9 DEF CkTotal, CkBudget, T, V
  <2> QED
    BY <2>5, <2>6, <2>7, <2>8, <2>9, <2>10, CkMoves
<1> QED
  BY <1>1, <1>6, <1>7 DEF CkInsert

-----------------------------------------------------------------------------
(***************************************************************************)
(* Deleting.                                                               *)
(***************************************************************************)

LEMMA CkDeleteIInv ==
  ASSUME CkIInv, NEW c \in CkClients, CkDelete(c)
  PROVE  CkIInv'
<1>1. CASE CkGetForDelete(c)
  <2>1. PICK r \in ckRows : ckReq' = [ckReq EXCEPT ![c].id = r.id]
    BY <1>1 DEF CkGetForDelete
  <2>2. PICK q : q = [ckReq[c] EXCEPT !.id = r.id]
    OBVIOUS
  <2>3. r.id \in CkIds /\ r.id \in ckMade /\ \A d \in CkClients : r.id \notin CkPend(ckPc[d], ckReq[d])
    BY CkListedIsDone
  <2>4. q \in CkReqs /\ q.id = r.id
    BY <2>2, <2>3, CkTypes DEF CkReqs
  <2>5. /\ ckPc' = [ckPc EXCEPT ![c] = "delete"] /\ ckReq' = [ckReq EXCEPT ![c] = q]
        /\ "delete" \in CkSteps
    BY <1>1, <2>1, <2>2 DEF CkGetForDelete, CkGoto, CkSteps
  <2>6. CkPend("delete", q) = {} /\ CkLooks("delete", q) = {r.id}
    BY <2>4 DEF CkPend, CkLooks
  <2>7. CkFree(c, "delete", q) /\ CkActorOK("delete", q, ckRows, ckArchives, ckMade)
    BY <2>3, <2>6 DEF CkFree, CkActorOK
  <2>8. /\ UNCHANGED <<ckRows, ckArchives, ckMade, ckUnsure, ckActive>>
        /\ ckForked' \subseteq CkForks /\ ckDirs' \subseteq CkForks
    BY <1>1, CkTypes DEF CkGetForDelete, CkBounds
  <2> QED
    BY <2>4, <2>5, <2>7, <2>8, CkWalks
<1>2. CASE CkDeleteRow(c)
  <2> DEFINE q == ckReq[c]
  <2>1. ckPc[c] = "delete" /\ UNCHANGED <<ckArchives, ckMade, ckUnsure, ckForked, ckDirs, ckActive>>
    BY <1>2 DEF CkDeleteRow
  <2>2. CASE CkLeave(c) /\ UNCHANGED ckRows
    BY <2>1, <2>2, CkLeavesIInv, CkTypes DEF CkBounds
  <2>3. CASE ckRows' = ckRows \ CkRow(q.id) /\ CkGoto(c, "remove") /\ UNCHANGED ckReq
    <3>1. CkActorOK("delete", q, ckRows, ckArchives, ckMade)
      BY <2>1, CkTypes
    <3>2. CkPend("remove", q) = {} /\ CkLooks("remove", q) = CkLooks(ckPc[c], q)
      BY <2>1 DEF CkPend, CkLooks
    <3>3. CkActorOK("remove", q, ckRows', ckArchives, ckMade)
      BY <2>3, <3>1 DEF CkActorOK, CkPend, CkLooks, CkNoRow, CkRow
    <3>4. "remove" \in CkSteps /\ ckPc' = [ckPc EXCEPT ![c] = "remove"]
      BY <2>3 DEF CkSteps, CkGoto
    <3> QED
      BY <2>1, <2>3, <3>2, <3>3, <3>4, CkDropsRow
  <2> QED
    BY <1>2, <2>2, <2>3 DEF CkDeleteRow
<1>3. CASE CkDeleteArchive(c)
  <2> DEFINE i == ckReq[c].id
  <2>1. /\ ckPc[c] = "remove" /\ ckArchives' = ckArchives \ {i} /\ CkLeave(c)
        /\ UNCHANGED <<ckRows, ckMade, ckUnsure, ckForked, ckDirs, ckActive>>
    BY <1>3 DEF CkDeleteArchive
  <2>2. CkNoRow(ckRows, i) /\ i \in CkLooks(ckPc[c], ckReq[c])
    BY <2>1, CkTypes DEF CkActorOK, CkLooks
  <2>3. \A d \in CkClients \ {c} : i \notin CkPend(ckPc[d], ckReq[d])
    BY <2>2, CkDropsArchive
  <2>4. /\ ckRows' \subseteq ckRows /\ ckArchives' \subseteq ckArchives
        /\ \A j \in ckArchives \ ckArchives' :
             /\ CkNoRow(ckRows, j)
             /\ \A d \in CkClients \ {c} : j \notin CkPend(ckPc[d], ckReq[d])
    BY <2>1, <2>2, <2>3
  <2>5. ckForked' \subseteq CkForks /\ ckDirs' \subseteq CkForks
    BY <2>1, CkTypes DEF CkBounds
  <2> QED
    BY <2>1, <2>4, <2>5, CkLeavesIInv
<1> QED
  BY <1>1, <1>2, <1>3 DEF CkDelete

-----------------------------------------------------------------------------
(***************************************************************************)
(* Restoring and forking touch no row and no archive.                      *)
(***************************************************************************)

\* Where neither has anything on its way, nor looks at anything to remove.
LEMMA CkQuiet ==
  ASSUME CkIInv, NEW c \in CkClients, NEW p \in {"active", "open", "extract", "copy", "session"},
         NEW q \in CkReqs, ckPc' = [ckPc EXCEPT ![c] = p], ckReq' = [ckReq EXCEPT ![c] = q],
         UNCHANGED <<ckRows, ckArchives, ckMade, ckUnsure, ckActive>>,
         ckForked' \subseteq CkForks, ckDirs' \subseteq CkForks,
         p \in {"copy", "session"} => q.session \in CkForks
  PROVE  CkIInv'
<1>1. CkFree(c, p, q) /\ CkActorOK(p, q, ckRows, ckArchives, ckMade) /\ p \in CkSteps /\ p # "insert"
  BY DEF CkFree, CkActorOK, CkPend, CkLooks, CkSteps
<1> QED
  BY <1>1, CkWalks

\* A request that ends without touching rows or archives.
LEMMA CkEnds ==
  ASSUME CkIInv, NEW c \in CkClients, CkLeave(c),
         UNCHANGED <<ckRows, ckArchives, ckMade, ckUnsure, ckActive>>,
         ckForked' \subseteq CkForks, ckDirs' \subseteq CkForks
  PROVE  CkIInv'
BY CkLeavesIInv

LEMMA CkRestoreIInv ==
  ASSUME CkIInv, NEW c \in CkClients, CkRestore(c)
  PROVE  CkIInv'
<1>1. /\ UNCHANGED <<ckRows, ckArchives, ckMade, ckUnsure, ckActive>>
      /\ ckForked' \subseteq CkForks /\ ckDirs' \subseteq CkForks
  BY CkTypes DEF CkRestore, CkGetForRestore, CkCheckActive, CkOpen, CkExtracted, CkBounds
<1>2. CASE CkGetForRestore(c)
  <2>1. PICK r \in ckRows, stop \in BOOLEAN :
          ckReq' = [ckReq EXCEPT ![c] = [ckReq[c] EXCEPT !.id = r.id, !.session = r.session, !.stop = stop]]
    BY <1>2, CkTypes DEF CkGetForRestore
  <2>2. PICK q : q = [ckReq[c] EXCEPT !.id = r.id, !.session = r.session, !.stop = stop]
    OBVIOUS
  <2>3. r.id \in CkIds /\ r.session \in CkHomes
    BY CkTypes DEF CkBounds, CkRowType
  <2>4. q \in CkReqs
    BY <2>2, <2>3, CkTypes DEF CkReqs
  <2>5. ckPc' = [ckPc EXCEPT ![c] = "active"] /\ ckReq' = [ckReq EXCEPT ![c] = q]
    BY <1>2, <2>1, <2>2 DEF CkGetForRestore, CkGoto
  <2> QED
    BY <1>1, <2>4, <2>5, CkQuiet
<1>3. CASE CkLeave(c)
  BY <1>1, <1>3, CkEnds
<1>4. ASSUME NEW p \in {"open", "extract"}, CkGoto(c, p), UNCHANGED ckReq
      PROVE  CkIInv'
  <2>1. ckPc' = [ckPc EXCEPT ![c] = p] /\ ckReq' = [ckReq EXCEPT ![c] = ckReq[c]] /\ ckReq[c] \in CkReqs
    BY <1>4, CkTypes DEF CkGoto
  <2> QED
    BY <1>1, <2>1, CkQuiet
<1> QED
  BY <1>2, <1>3, <1>4 DEF CkRestore, CkCheckActive, CkOpen, CkExtracted

LEMMA CkForkIInv ==
  ASSUME CkIInv, NEW c \in CkClients, CkFork(c)
  PROVE  CkIInv'
<1>1. UNCHANGED <<ckRows, ckArchives, ckMade, ckUnsure, ckActive>>
  BY DEF CkFork, CkForkDir, CkForkCopy, CkForkInsert
<1>2. CASE CkForkDir(c)
  <2>1. PICK r \in ckRows, f \in CkForks \ (ckDirs \cup ckForked) :
          /\ ckDirs' = ckDirs \cup {f}
          /\ ckReq' = [ckReq EXCEPT ![c] = [ckReq[c] EXCEPT !.id = r.id, !.session = f]]
    BY <1>2, CkTypes DEF CkForkDir
  <2>2. PICK q : q = [ckReq[c] EXCEPT !.id = r.id, !.session = f]
    OBVIOUS
  <2>3. r.id \in CkIds
    BY CkTypes DEF CkBounds, CkRowType
  <2>4. q \in CkReqs /\ q.session \in CkForks
    BY <2>2, <2>3, CkTypes DEF CkReqs
  <2>5. ckPc' = [ckPc EXCEPT ![c] = "copy"] /\ ckReq' = [ckReq EXCEPT ![c] = q]
    BY <1>2, <2>1, <2>2 DEF CkForkDir, CkGoto
  <2>6. ckForked' \subseteq CkForks /\ ckDirs' \subseteq CkForks
    BY <1>2, <2>1, CkTypes DEF CkForkDir, CkBounds
  <2> QED
    BY <1>1, <2>4, <2>5, <2>6, CkQuiet
<1>3. CASE CkForkCopy(c)
  <2>1. ckForked' \subseteq CkForks /\ ckDirs' \subseteq CkForks
    BY <1>3, CkTypes DEF CkForkCopy, CkBounds
  <2>2. CASE CkLeave(c)
    BY <1>1, <2>1, <2>2, CkEnds
  <2>3. CASE CkGoto(c, "session") /\ UNCHANGED ckReq
    <3>1. /\ ckPc' = [ckPc EXCEPT ![c] = "session"] /\ ckReq' = [ckReq EXCEPT ![c] = ckReq[c]]
          /\ ckReq[c] \in CkReqs
      BY <2>3, CkTypes DEF CkGoto
    <3>2. ckReq[c].session \in CkForks
      BY <1>3, CkTypes DEF CkForkCopy, CkActorOK
    <3> QED
      BY <1>1, <2>1, <3>1, <3>2, CkQuiet
  <2> QED
    BY <1>3, <2>2, <2>3 DEF CkForkCopy
<1>4. CASE CkForkInsert(c)
  <2>1. ckPc[c] = "session" /\ CkLeave(c)
    BY <1>4 DEF CkForkInsert
  <2>2. ckReq[c].session \in CkForks
    BY <2>1, CkTypes DEF CkActorOK
  <2>3. ckForked' \subseteq CkForks /\ ckDirs' \subseteq CkForks
    BY <1>4, <2>2, CkTypes DEF CkForkInsert, CkBounds
  <2> QED
    BY <1>1, <2>1, <2>3, CkEnds
<1> QED
  BY <1>2, <1>3, <1>4 DEF CkFork

-----------------------------------------------------------------------------
LEMMA CkNextIInv == CkIInv /\ [CkNext]_ckVars => CkIInv'
<1> SUFFICES ASSUME CkIInv, [CkNext]_ckVars PROVE CkIInv'
  OBVIOUS
<1>1. ASSUME UNCHANGED <<ckRows, ckArchives, ckMade, ckUnsure, ckForked, ckDirs, ckPc, ckReq>>,
             ckActive' \subseteq CkHomes
      PROVE  CkIInv'
  BY <1>1 DEF CkIInv, CkTypeOK, CkApart, CkTotal, CkCompared
<1>2. CASE UNCHANGED ckVars
  BY <1>1, <1>2, CkTypes DEF ckVars, CkIInv, CkTypeOK
<1>3. ASSUME NEW c \in CkClients, CkCreate(c) PROVE CkIInv'
  BY <1>3, CkBeginIInv, CkPruneSelectIInv, CkPruneTargetIInv, CkPruneDeleteIInv, CkPruneUnlinkIInv,
     CkSnapshotIInv, CkLimitsIInv, CkInsertIInv DEF CkCreate
<1>4. ASSUME NEW s \in CkHomes, CkCommandStarts(s) \/ CkCommandEnds(s) PROVE CkIInv'
  BY <1>1, <1>4 DEF CkCommandStarts, CkCommandEnds, CkIInv, CkTypeOK
<1> QED
  BY <1>2, <1>3, <1>4, CkDeleteIInv, CkRestoreIInv, CkForkIInv DEF CkNext

\* The initial states satisfy the invariant.
LEMMA CkInitIInv == CkInit => CkIInv
<1> SUFFICES ASSUME CkInit PROVE CkIInv
  OBVIOUS
<1>1. /\ \A c \in CkClients : ckPc[c] = "idle" /\ ckReq[c] = CkNoReq
      /\ ckRows = {} /\ ckPc = [c \in CkClients |-> "idle"] /\ ckReq = [c \in CkClients |-> CkNoReq]
  BY DEF CkInit
<1>2. CkTypeOK
  <2>1. "idle" \in CkSteps /\ CkNoReq \in CkReqs
    BY DEF CkSteps, CkNoReq, CkReqs
  <2>2. ckPc \in [CkClients -> CkSteps] /\ ckReq \in [CkClients -> CkReqs]
    BY <1>1, <2>1
  <2> QED
    BY <2>2 DEF CkInit, CkTypeOK, CkReqs
<1>3. CkApart
  BY <1>1 DEF CkApart, CkPend
<1>4. CkRowsOK(ckRows, ckArchives, ckUnsure, ckMade)
  <2>1. IsFiniteSet(ckRows) /\ 0 \in Nat
    BY <1>1, FS_EmptySet
  <2> QED
    BY <1>1, <2>1 DEF CkRowsOK
<1>5. \A c \in CkClients : CkActorOK(ckPc[c], ckReq[c], ckRows, ckArchives, ckMade)
  BY <1>1 DEF CkActorOK, CkPend, CkLooks, CkNoReq
<1>6. CkTotal
  <2>1. CkBytes(CkCompared(ckRows)) = {} /\ CkWanted(ckPc, ckReq) = {}
    BY <1>1 DEF CkBytes, CkCompared, CkWanted
  <2>2. Cardinality(CkBytes(CkCompared(ckRows))) = 0 /\ Cardinality(CkWanted(ckPc, ckReq)) = 0
    BY <2>1, FS_EmptySet
  <2>3. Cardinality(CkClients) \in Nat /\ Cardinality(CkClients) # 0
    BY FS_CardinalityType, FS_EmptySet, CheckpointAssumption
  <2>4. (Cardinality(CkClients) - 1) * CkMaxSize \in Nat
    BY <2>3, CheckpointAssumption
  <2>5. CkBudget \in Nat
    BY <2>4, CheckpointAssumption DEF CkBudget
  <2> QED
    BY <2>2, <2>5 DEF CkTotal
<1> QED
  BY <1>2, <1>3, <1>4, <1>5, <1>6 DEF CkIInv

\* A checkpoint that is listed can be restored, unless a lost answer to its COMMIT
\* made the code remove its archive, and the organisation's limit is exceeded by
\* at most one checkpoint of full size for every other request.
THEOREM CheckpointsAreSound == CkSpec => [](CkTypeOK /\ CkStoreSound)
<1>1. CkInit => CkIInv
  BY CkInitIInv
<1>2. CkIInv /\ [CkNext]_ckVars => CkIInv'
  BY CkNextIInv
<1>3. CkIInv => CkTypeOK /\ CkStoreSound
  <2> SUFFICES ASSUME CkIInv PROVE CkTypeOK /\ CkStoreSound
    OBVIOUS
  <2>1. CkRowHasArchive
    BY DEF CkIInv, CkRowsOK, CkRowHasArchive
  <2>2. CkStorageBound
    <3> DEFINE W == CkWanted(ckPc, ckReq)
    <3>1. IsFiniteSet(W)
      <4>1. IsFiniteSet(1..CkMaxSize)
        BY FS_Interval, CheckpointAssumption
      <4>2. IsFiniteSet(CkClients \X (1..CkMaxSize))
        BY <4>1, FS_Product, CheckpointAssumption
      <4>3. W \subseteq CkClients \X (1..CkMaxSize)
        BY DEF CkWanted
      <4> QED
        BY <4>2, <4>3, FS_Subset
    <3>2. Cardinality(W) \in Nat
      BY <3>1, FS_CardinalityType
    <3> DEFINE n == Cardinality(CkBytes(CkCompared(ckRows)))
    <3>3. n + Cardinality(W) <= CkBudget
      BY DEF CkIInv, CkTotal
    <3>4. n \in Nat
      <4>1. /\ ckRows \in SUBSET CkRowType /\ IsFiniteSet(ckRows)
            /\ (\A s \in ckRows : s.size <= CkMaxSize)
        BY DEF CkIInv, CkTypeOK, CkRowsOK, CkRowType
      <4>2. /\ CkCompared(ckRows) \in SUBSET CkRowType /\ IsFiniteSet(CkCompared(ckRows))
            /\ (\A s \in CkCompared(ckRows) : s.size <= CkMaxSize)
        BY <4>1, FS_Subset DEF CkCompared
      <4> QED
        BY <4>2, CkBytesFinite
    <3>5. CkBudget \in Int
      <4>1. Cardinality(CkClients) \in Nat
        BY FS_CardinalityType, CheckpointAssumption
      <4> QED
        BY <4>1, CheckpointAssumption DEF CkBudget
    <3> HIDE DEF W, n
    <3>6. n <= CkBudget
      BY <3>2, <3>3, <3>4, <3>5
    <3> QED
      BY <3>6 DEF CkStorageBound, CkBudget, n
  <2> QED
    BY <2>1, <2>2 DEF CkIInv, CkStoreSound
<1> QED
  BY <1>1, <1>2, <1>3, PTL DEF CkSpec

-----------------------------------------------------------------------------
(* The audit export *)

\* What is being posted: an entry that is dated after the bookmark and is left
\* out is dated no earlier than the batch, or was inserted behind it.
AxBatchInv ==
  axPc = "post" =>
    /\ axBatch # {} /\ \A b \in axBatch : axLog[b] > axMark
    /\ \A i \in AxEntries \ (axGone \cup axBatch) : axLog[i] > axMark =>
         (\A b \in axBatch : axLog[b] <= axLog[i]) \/ (\A b \in axBatch : b < i)

\* The bookmark is where the exporter started, or at an entry it has sent.
AxMarkInv == axMark = axSince \/ \E j \in axGot : axLog[j] = axMark

AxIInv == AxTypeOK /\ AxNoneSkipped /\ AxBatchInv /\ AxMarkInv

\* What does not touch the log's entries, the store nor the exporter keeps it.
LEMMA AxFrame ==
  ASSUME AxIInv, AxTypeOK', UNCHANGED <<axLog, axPc, axBatch, axMark, axSince, axGot>>,
         axGone \subseteq axGone'
  PROVE  AxIInv'
<1>1. AxNoneSkipped'
  BY DEF AxIInv, AxNoneSkipped, AxEntries
<1>2. AxBatchInv' /\ AxMarkInv'
  BY DEF AxIInv, AxBatchInv, AxMarkInv, AxEntries
<1> QED
  BY <1>1, <1>2 DEF AxIInv

LEMMA AxAppendIInv ==
  ASSUME AxIInv, NEW w \in AxWriters, AxAppend(w)
  PROVE  AxIInv'
<1>1. PICK time \in AxTimes :
        /\ axLog' = Append(axLog, time) /\ Len(axLog) < AxMaxLog
        /\ axHeld' = [axHeld EXCEPT ![w] = -1]
        /\ UNCHANGED <<axChained, axClock, axGone, axPc, axBatch, axMark, axSince, axGot>>
  <2>1. axHeld[w] \in AxTimes \cup {-1} /\ axClock \in AxTimes
    BY DEF AxIInv, AxTypeOK
  <2> QED
    BY <2>1 DEF AxAppend
<1> DEFINE n == Len(axLog)
<1>2. /\ axLog \in Seq(AxTimes) /\ n \in Nat /\ AxEntries = 1..n
      /\ axGone \subseteq 1..n /\ axGot \subseteq 1..n /\ axBatch \subseteq 1..n
      /\ axMark \in Nat /\ axSince \in Nat /\ time \in Nat
  BY AuditExportAssumption DEF AxIInv, AxTypeOK, AxEntries, AxTimes
<1>3. /\ axLog' \in Seq(AxTimes) /\ Len(axLog') = n + 1 /\ AxEntries' = 1..(n + 1)
      /\ axLog'[n + 1] = time /\ \A i \in 1..n : axLog'[i] = axLog[i] /\ axLog[i] \in Nat
  <2>1. axLog' \in Seq(AxTimes) /\ Len(axLog') = n + 1 /\ axLog'[n + 1] = time
        /\ \A i \in 1..n : axLog'[i] = axLog[i] /\ axLog[i] \in AxTimes
    BY <1>1, <1>2
  <2> QED
    BY <2>1, AuditExportAssumption DEF AxEntries, AxTimes
<1> HIDE DEF n
<1>4. AxTypeOK'
  <2>1. axHeld' \in [AxWriters -> AxTimes \union {-1}]
    BY <1>1 DEF AxIInv, AxTypeOK
  <2>2. n < AxMaxLog
    BY <1>1 DEF n
  <2>3. Len(axLog') <= AxMaxLog
    BY <1>2, <1>3, <2>2, AuditExportAssumption
  <2>4. axGone' \subseteq AxEntries' /\ axGot' \subseteq AxEntries' /\ axBatch' \subseteq AxEntries'
    BY <1>1, <1>2, <1>3
  <2>5. axChained' \in BOOLEAN
    BY <1>1, Zenon DEF AxIInv, AxTypeOK
  <2>6. {axClock', axMark', axSince'} \subseteq AxTimes /\ axPc' \in {"idle", "post"}
    BY <1>1 DEF AxIInv, AxTypeOK
  <2> QED
    BY <1>3, <2>1, <2>3, <2>4, <2>5, <2>6 DEF AxTypeOK
<1>5. AxMarkInv'
  BY <1>1, <1>2, <1>3 DEF AxIInv, AxMarkInv
<1>6. AxNoneSkipped'
  <2> SUFFICES ASSUME NEW i \in 1..(n + 1), i \notin axGone \cup axGot,
                      axSince < axLog'[i], axLog'[i] <= axMark
               PROVE  \E j \in axGot : axLog'[j] = axLog'[i] \/ (j < i /\ axLog'[i] < axLog'[j])
    BY <1>1, <1>3 DEF AxNoneSkipped
  <2>1. CASE i \in 1..n
    BY <1>2, <1>3, <2>1 DEF AxIInv, AxNoneSkipped
  <2>2. CASE i = n + 1
    <3>1. axMark # axSince
      BY <1>2, <1>3, <2>2
    <3>2. PICK j \in axGot : axLog[j] = axMark
      BY <3>1 DEF AxIInv, AxMarkInv
    <3> QED
      BY <1>2, <1>3, <2>2, <3>2
  <2> QED
    BY <1>2, <2>1, <2>2
<1>7. AxBatchInv'
  <2> SUFFICES ASSUME axPc = "post"
               PROVE  /\ axBatch # {} /\ \A b \in axBatch : axLog'[b] > axMark
                      /\ \A i \in (1..(n + 1)) \ (axGone \cup axBatch) : axLog'[i] > axMark =>
                           (\A b \in axBatch : axLog'[b] <= axLog'[i]) \/ (\A b \in axBatch : b < i)
    BY <1>1, <1>3 DEF AxBatchInv
  <2>1. axBatch # {} /\ \A b \in axBatch : axLog'[b] > axMark
    BY <1>2, <1>3 DEF AxIInv, AxBatchInv
  <2>2. ASSUME NEW i \in (1..(n + 1)) \ (axGone \cup axBatch), axLog'[i] > axMark
        PROVE  (\A b \in axBatch : axLog'[b] <= axLog'[i]) \/ (\A b \in axBatch : b < i)
    <3>1. CASE i \in 1..n
      <4>1. axLog[i] > axMark /\ i \in AxEntries \ (axGone \cup axBatch)
        BY <1>2, <1>3, <2>2, <3>1
      <4>2. (\A b \in axBatch : axLog[b] <= axLog[i]) \/ (\A b \in axBatch : b < i)
        BY <4>1 DEF AxIInv, AxBatchInv
      <4> QED
        BY <1>2, <1>3, <3>1, <4>2
    <3>2. CASE i = n + 1
      BY <1>2, <3>2
    <3> QED
      BY <1>2, <3>1, <3>2
  <2> QED
    BY <2>1, <2>2
<1> QED
  BY <1>4, <1>5, <1>6, <1>7 DEF AxIInv

LEMMA AxListIInv ==
  ASSUME AxIInv, AxList
  PROVE  AxIInv'
<1>1. PICK batch \in (SUBSET AxEntries) \ {{}} : AxListed(batch) /\ axBatch' = batch
  BY DEF AxList
<1>2. /\ axPc' = "post"
      /\ UNCHANGED <<axChained, axClock, axHeld, axLog, axGone, axMark, axSince, axGot>>
  BY DEF AxList
<1>3. /\ \A b \in batch : b \in AxEntries \ axGone /\ axLog[b] > axMark
      /\ \A i \in AxEntries \ (axGone \cup batch) : axLog[i] > axMark =>
           \A b \in batch : axLog[b] <= axLog[i]
  BY <1>1 DEF AxListed
<1>4. AxTypeOK'
  <2>1. axChained' \in BOOLEAN
    BY <1>2, Zenon DEF AxIInv, AxTypeOK
  <2> QED
    BY <1>1, <1>2, <2>1 DEF AxIInv, AxTypeOK, AxEntries
<1>5. AxNoneSkipped' /\ AxMarkInv'
  BY <1>2 DEF AxIInv, AxNoneSkipped, AxMarkInv, AxEntries
<1>6. AxBatchInv'
  <2>1. batch # {} /\ AxEntries' = AxEntries
    BY <1>1, <1>2 DEF AxEntries
  <2> QED
    BY <1>1, <1>2, <1>3, <2>1 DEF AxBatchInv
<1> QED
  BY <1>4, <1>5, <1>6 DEF AxIInv

LEMMA AxPostIInv ==
  ASSUME AxIInv, AxPost
  PROVE  AxIInv'
<1>1. /\ axPc = "post" /\ axPc' = "idle" /\ axBatch' = {}
      /\ UNCHANGED <<axChained, axClock, axHeld, axLog, axGone, axSince>>
      /\ axGot' \in {axGot, axGot \cup axBatch}
      /\ axMark' = axMark \/ (axGot' = axGot \cup axBatch /\ axMark' = AxBookmark(axBatch))
  BY DEF AxPost
<1>2. /\ AxEntries \in SUBSET Nat /\ AxEntries' = AxEntries /\ axBatch \subseteq AxEntries
      /\ axMark \in Nat /\ axSince \in Nat
      /\ \A i \in AxEntries : axLog[i] \in AxTimes /\ axLog[i] \in Nat
  <2>1. \A i \in AxEntries : axLog[i] \in AxTimes
    BY DEF AxIInv, AxTypeOK, AxEntries
  <2> QED
    BY <1>1, <2>1, AuditExportAssumption DEF AxIInv, AxTypeOK, AxEntries, AxTimes
<1>3. PICK last \in axBatch : axLog[last] = AxBookmark(axBatch) /\ \A b \in axBatch : axLog[b] <= axLog[last]
  <2> DEFINE times == {axLog[i] : i \in axBatch}
  <2>1. times \in SUBSET (0..AxMaxClock) /\ times # {}
    BY <1>1, <1>2 DEF AxIInv, AxBatchInv, AxTimes
  <2> HIDE DEF times
  <2>2. Max(times) \in times /\ \A m \in times : m <= Max(times)
    BY <2>1, CoMaxOf, AuditExportAssumption
  <2> QED
    BY <2>2 DEF AxBookmark, times
<1>4. AxTypeOK'
  <2>1. axChained' \in BOOLEAN
    BY <1>1, Zenon DEF AxIInv, AxTypeOK
  <2>2. axMark' \in AxTimes
    BY <1>1, <1>2, <1>3 DEF AxIInv, AxTypeOK
  <2>3. axGot' \subseteq AxEntries'
    BY <1>1, <1>2 DEF AxIInv, AxTypeOK
  <2> QED
    BY <1>1, <1>2, <2>1, <2>2, <2>3 DEF AxIInv, AxTypeOK
<1>5. AxMarkInv'
  BY <1>1, <1>3 DEF AxIInv, AxMarkInv
<1>6. AxNoneSkipped'
  <2> SUFFICES ASSUME NEW i \in AxEntries, i \notin axGone, i \notin axGot',
                      axSince < axLog[i], axLog[i] <= axMark'
               PROVE  \E j \in axGot' : axLog[j] = axLog[i] \/ (j < i /\ axLog[i] < axLog[j])
    BY <1>1, <1>2 DEF AxNoneSkipped
  <2>1. CASE axLog[i] <= axMark
    <3>1. i \in AxEntries \ (axGone \cup axGot)
      BY <1>1
    <3>2. PICK j \in axGot : axLog[j] = axLog[i] \/ (j < i /\ axLog[i] < axLog[j])
      BY <2>1, <3>1 DEF AxIInv, AxNoneSkipped
    <3> QED
      BY <1>1, <3>2
  <2>2. CASE axMark < axLog[i]
    <3>1. axGot' = axGot \cup axBatch /\ axMark' = axLog[last] /\ i \notin axBatch
      BY <1>1, <1>2, <1>3, <2>2
    <3>2. (\A b \in axBatch : axLog[b] <= axLog[i]) \/ (\A b \in axBatch : b < i)
      BY <1>1, <2>2, <3>1 DEF AxIInv, AxBatchInv
    <3>3. last \in axGot' /\ axLog[last] \in Nat /\ axLog[i] \in Nat /\ axLog[i] <= axLog[last]
      BY <1>2, <3>1
    <3>4. axLog[last] = axLog[i] \/ (last < i /\ axLog[i] < axLog[last])
      BY <1>2, <3>2, <3>3
    <3> QED
      BY <3>3, <3>4
  <2> QED
    BY <1>2, <2>1, <2>2
<1> QED
  BY <1>1, <1>4, <1>5, <1>6 DEF AxIInv, AxBatchInv

LEMMA AxNextIInv ==
  ASSUME AxIInv, [AxNext]_axVars
  PROVE  AxIInv'
<1>1. CASE AxTick
  <2>1. axChained' \in BOOLEAN /\ axClock' \in AxTimes
    <3>1. axChained' \in BOOLEAN
      BY <1>1, Zenon DEF AxTick, AxIInv, AxTypeOK
    <3> QED
      BY <1>1, <3>1, AuditExportAssumption DEF AxTick, AxIInv, AxTypeOK, AxTimes
  <2>2. UNCHANGED <<axHeld, axLog, axGone, axPc, axBatch, axMark, axSince, axGot>>
    BY <1>1 DEF AxTick
  <2>3. AxTypeOK'
    BY <2>1, <2>2 DEF AxIInv, AxTypeOK, AxEntries
  <2> QED
    BY <2>2, <2>3, AxFrame
<1>2. ASSUME NEW w \in AxWriters, AxStamp(w) PROVE AxIInv'
  <2>1. /\ axHeld' = [axHeld EXCEPT ![w] = axClock]
        /\ UNCHANGED <<axChained, axClock, axLog, axGone, axPc, axBatch, axMark, axSince, axGot>>
    BY <1>2 DEF AxStamp
  <2>2. axChained' \in BOOLEAN
    BY <2>1, Zenon DEF AxIInv, AxTypeOK
  <2>3. axHeld' \in [AxWriters -> AxTimes \union {-1}]
    BY <2>1 DEF AxIInv, AxTypeOK
  <2>4. AxTypeOK'
    BY <2>1, <2>2, <2>3 DEF AxIInv, AxTypeOK, AxEntries
  <2> QED
    BY <2>1, <2>4, AxFrame
<1>3. CASE AxPrune
  <2>1. /\ axGone \subseteq axGone' /\ axGone' \subseteq AxEntries \cup axGone
        /\ UNCHANGED <<axChained, axClock, axHeld, axLog, axPc, axBatch, axMark, axSince, axGot>>
    BY <1>3 DEF AxPrune
  <2>2. axChained' \in BOOLEAN
    BY <2>1, Zenon DEF AxIInv, AxTypeOK
  <2>3. AxTypeOK'
    BY <2>1, <2>2 DEF AxIInv, AxTypeOK, AxEntries
  <2> QED
    BY <2>1, <2>3, AxFrame
<1>4. CASE AxRestart
  <2>1. /\ axPc' = "idle" /\ axBatch' = {} /\ axHeld' = [w \in AxWriters |-> -1]
        /\ axMark' = axClock /\ axSince' = axClock
        /\ UNCHANGED <<axChained, axClock, axLog, axGone, axGot>>
    BY <1>4 DEF AxRestart
  <2>2. axChained' \in BOOLEAN
    BY <2>1, Zenon DEF AxIInv, AxTypeOK
  <2>3. AxTypeOK'
    BY <2>1, <2>2 DEF AxIInv, AxTypeOK, AxEntries
  <2>4. axClock \in Nat /\ \A i \in AxEntries : axLog[i] \in Nat
    BY AuditExportAssumption DEF AxIInv, AxTypeOK, AxEntries, AxTimes
  <2>5. AxNoneSkipped' /\ AxBatchInv' /\ AxMarkInv'
    BY <2>1, <2>4 DEF AxNoneSkipped, AxBatchInv, AxMarkInv, AxEntries
  <2> QED
    BY <2>3, <2>5 DEF AxIInv
<1>5. CASE UNCHANGED axVars
  <2>1. UNCHANGED <<axChained, axClock, axHeld, axLog, axGone, axPc, axBatch, axMark, axSince, axGot>>
    BY <1>5 DEF axVars
  <2>2. axChained' \in BOOLEAN
    BY <2>1, Zenon DEF AxIInv, AxTypeOK
  <2>3. AxTypeOK'
    BY <2>1, <2>2 DEF AxIInv, AxTypeOK, AxEntries
  <2> QED
    BY <2>1, <2>3, AxFrame
<1> QED
  BY <1>1, <1>2, <1>3, <1>4, <1>5, AxAppendIInv, AxListIInv, AxPostIInv DEF AxNext

\* The initial states satisfy the invariant.
LEMMA AxInitIInv == AxInit => AxIInv
<1> SUFFICES ASSUME AxInit PROVE AxIInv
  OBVIOUS
<1>1. axChained \in BOOLEAN
  BY Zenon DEF AxInit
<1>2. AxTypeOK
  BY <1>1, AuditExportAssumption DEF AxInit, AxTypeOK, AxTimes, AxEntries
<1>3. AxNoneSkipped /\ AxBatchInv /\ AxMarkInv
  BY DEF AxInit, AxNoneSkipped, AxBatchInv, AxMarkInv, AxEntries
<1> QED
  BY <1>2, <1>3 DEF AxIInv

\* The bookmark of a running exporter passes over no entry the outside store has
\* not got, but for one of the same instant, or behind one of a later instant.
THEOREM ExportSkipsNothing == AxSpec => [](AxTypeOK /\ AxNoneSkipped)
<1>1. AxInit => AxIInv
  BY AxInitIInv
<1>2. AxIInv /\ [AxNext]_axVars => AxIInv'
  BY AxNextIInv
<1>3. AxIInv => AxTypeOK /\ AxNoneSkipped
  BY DEF AxIInv
<1> QED
  BY <1>1, <1>2, <1>3, PTL DEF AxSpec

-----------------------------------------------------------------------------
(* Verdicts *)

\* The verdict is that of the observation; what a path held is not in it.
VeJudgedRight(rec) ==
  /\ rec.spec = "exit" => (rec.passed <=> rec.obs.exit = "zero")
  /\ rec.spec = "stdout" => (rec.passed <=> rec.obs.stdout # "without")

VeSealedRight(s) ==
  /\ s.rec.spec = "exit" => (s.rec.passed <=> s.rec.obs.exit = "zero")
  /\ s.rec.spec = "stdout" /\ ~s.cut => (s.rec.passed <=> s.rec.obs.stdout = "with")

VeIInv ==
  /\ VeTypeOK
  /\ \A rec \in veSaved : VeJudgedRight(rec)
  /\ \A s \in veSealed : VeSealedRight(s)

\* What is sealed of a record that was judged right, and is of the right types.
LEMMA VeBuildRight ==
  ASSUME NEW rec \in VeJudged, VeJudgedRight(rec)
  PROVE  VeSealedRight(VeBuild(rec)) /\ VeBuild(rec).rec \in VeJudged /\ VeBuild(rec).cut \in BOOLEAN
<1> DEFINE stdout == IF rec.obs.stdout = "deep" THEN "without" ELSE rec.obs.stdout
           obs == [rec.obs EXCEPT !.stdout = stdout]
           new == [rec EXCEPT !.obs = obs]
<1>1. /\ rec.obs \in VeObservation /\ rec.passed \in BOOLEAN /\ rec.run \in BOOLEAN
      /\ rec.obs.stdout \in {"without", "with", "deep"}
  BY DEF VeJudged, VeObservation
<1>2. obs \in VeObservation /\ obs.exit = rec.obs.exit /\ obs.stdout = stdout
  BY <1>1 DEF VeObservation
<1>3. VeBuild(rec).rec = new /\ VeBuild(rec).cut = (rec.obs.stdout = "deep")
  BY DEF VeBuild, VeJudged
<1> HIDE DEF obs
<1>4. new \in VeJudged
  BY <1>2 DEF VeJudged
<1>5. new.obs = obs /\ new.spec = rec.spec /\ new.passed = rec.passed
  BY DEF VeJudged
<1> HIDE DEF new
<1> QED
  BY <1>1, <1>2, <1>3, <1>4, <1>5 DEF VeJudgedRight, VeSealedRight

LEMMA VeObserveIInv ==
  ASSUME VeIInv, NEW q \in VeReqs, VeObserve(q)
  PROVE  VeIInv'
<1>1. PICK kind \in {"evaluate", "inline"}, spec \in {"exit", "stdout", "file"}, run \in BOOLEAN,
           told \in VeObservation, silent \in SUBSET {"exit", "stdout"} :
        LET obs ==
              IF ~run THEN told
              ELSE [f \in {"exit", "stdout"} |->
                      IF kind = "inline" \/ f \in silent THEN veRun[f] ELSE told[f]] IN
          /\ veReq[q].at = "new"
          /\ veReq' = [veReq EXCEPT ![q] = [at |-> "judge",
               rec |-> [kind |-> kind, spec |-> spec, obs |-> obs, run |-> run, passed |-> FALSE]]]
          /\ UNCHANGED <<veFile, veRun, veSaved, veSealed>>
  BY Zenon DEF VeObserve
<1>2. PICK obs : obs = IF ~run THEN told
                       ELSE [f \in {"exit", "stdout"} |->
                               IF kind = "inline" \/ f \in silent THEN veRun[f] ELSE told[f]]
  OBVIOUS
<1>3. obs \in VeObservation
  <2>1. veRun \in VeObservation
    BY DEF VeIInv, VeTypeOK
  <2>2. CASE run
    <3>1. obs = [f \in {"exit", "stdout"} |->
                   IF kind = "inline" \/ f \in silent THEN veRun[f] ELSE told[f]]
      BY <1>2, <2>2
    <3>2. /\ obs["exit"] \in {"none", "zero", "other"} /\ obs["stdout"] \in {"without", "with", "deep"}
      BY <1>1, <2>1, <3>1 DEF VeObservation
    <3>3. obs = [exit |-> obs["exit"], stdout |-> obs["stdout"]]
      BY <3>1
    <3> QED
      BY <3>2, <3>3 DEF VeObservation
  <2> QED
    BY <1>1, <1>2, <2>2
<1>4. PICK rec : rec = [kind |-> kind, spec |-> spec, obs |-> obs, run |-> run, passed |-> FALSE]
  OBVIOUS
<1>5. rec \in VeJudged
  BY <1>1, <1>3, <1>4 DEF VeJudged
<1>6. veReq' = [veReq EXCEPT ![q] = [at |-> "judge", rec |-> rec]]
  BY <1>1, <1>2, <1>4
<1>7. veReq' \in [VeReqs -> [at : {"new", "judge", "done"}, rec : VeJudged]]
  BY <1>5, <1>6 DEF VeIInv, VeTypeOK
<1> QED
  BY <1>1, <1>7 DEF VeIInv, VeTypeOK

LEMMA VeJudgeIInv ==
  ASSUME VeIInv, NEW q \in VeReqs, VeJudge(q)
  PROVE  VeIInv'
<1>1. veReq[q] \in [at : {"new", "judge", "done"}, rec : VeJudged] /\ veReq[q].rec \in VeJudged
  BY DEF VeIInv, VeTypeOK
<1>2. PICK rec : rec = [veReq[q].rec EXCEPT !.passed = VeEvaluate(veReq[q].rec)]
  OBVIOUS
<1>3. /\ UNCHANGED <<veFile, veRun>> /\ veReq' = [veReq EXCEPT ![q].at = "done"]
      /\ \/ veSaved' = veSaved \cup {rec} /\ veSealed' = veSealed
         \/ veSealed' = veSealed \cup {VeBuild(rec)} /\ veSaved' = veSaved
         \/ veSealed' = veSealed /\ veSaved' = veSaved
  BY <1>2 DEF VeJudge
<1>4. veReq' \in [VeReqs -> [at : {"new", "judge", "done"}, rec : VeJudged]]
  BY <1>3 DEF VeIInv, VeTypeOK
<1>5. VeEvaluate(veReq[q].rec) \in BOOLEAN /\ veReq[q].rec.spec \in {"exit", "stdout", "file"}
  BY <1>1, Zenon DEF VeEvaluate, VeIInv, VeTypeOK, VeJudged
<1>6. rec \in VeJudged /\ VeJudgedRight(rec)
  <2>1. rec \in VeJudged
    BY <1>1, <1>2, <1>5 DEF VeJudged
  <2>2. rec.spec = veReq[q].rec.spec /\ rec.obs = veReq[q].rec.obs /\ rec.passed = VeEvaluate(veReq[q].rec)
    BY <1>1, <1>2 DEF VeJudged
  <2>3. veReq[q].rec.spec = "exit" => VeEvaluate(veReq[q].rec) = (veReq[q].rec.obs.exit = "zero")
    BY DEF VeEvaluate
  <2>4. veReq[q].rec.spec = "stdout" => VeEvaluate(veReq[q].rec) = (veReq[q].rec.obs.stdout # "without")
    BY DEF VeEvaluate
  <2> QED
    BY <2>1, <2>2, <2>3, <2>4 DEF VeJudgedRight
<1>7. VeSealedRight(VeBuild(rec)) /\ VeBuild(rec).rec \in VeJudged /\ VeBuild(rec).cut \in BOOLEAN
  BY <1>6, VeBuildRight
<1> QED
  BY <1>3, <1>4, <1>6, <1>7 DEF VeIInv, VeTypeOK

LEMMA VeNextIInv ==
  ASSUME VeIInv, [VeNext]_veVars
  PROVE  VeIInv'
<1>1. CASE VeFinish
  BY <1>1 DEF VeFinish, VeIInv, VeTypeOK
<1>2. CASE VeTouch
  <2>1. veFile' \in BOOLEAN /\ UNCHANGED <<veRun, veReq, veSaved, veSealed>>
    BY <1>2, Zenon DEF VeTouch, VeIInv, VeTypeOK
  <2> QED
    BY <2>1 DEF VeIInv, VeTypeOK
<1>3. CASE VeSealSaved
  <2>1. PICK rec \in veSaved :
          veSealed' = veSealed \cup {VeBuild(rec)} /\ UNCHANGED <<veFile, veRun, veReq, veSaved>>
    BY <1>3 DEF VeSealSaved, VePopulate
  <2>2. VeSealedRight(VeBuild(rec)) /\ VeBuild(rec).rec \in VeJudged /\ VeBuild(rec).cut \in BOOLEAN
    BY <2>1, VeBuildRight DEF VeIInv, VeTypeOK
  <2> QED
    BY <2>1, <2>2 DEF VeIInv, VeTypeOK
<1>4. CASE UNCHANGED veVars
  BY <1>4 DEF veVars, VeIInv, VeTypeOK
<1> QED
  BY <1>1, <1>2, <1>3, <1>4, VeObserveIInv, VeJudgeIInv DEF VeNext

\* The initial states satisfy the invariant.
LEMMA VeInitIInv == VeInit => VeIInv
<1> SUFFICES ASSUME VeInit PROVE VeIInv
  OBVIOUS
<1>1. VeUnseen \in VeObservation
  BY DEF VeUnseen, VeObservation
<1>2. VeIdle \in VeJudged
  BY <1>1 DEF VeIdle, VeJudged
<1>3. veReq \in [VeReqs -> [at : {"new", "judge", "done"}, rec : VeJudged]]
  BY <1>2 DEF VeInit
<1> QED
  BY <1>1, <1>3 DEF VeInit, VeIInv, VeTypeOK

\* What the invariant says of the property.
LEMMA VeIInvImplies == VeIInv => VeTypeOK /\ VeVerdictBelongs
<1> SUFFICES ASSUME VeIInv PROVE VeTypeOK /\ VeVerdictBelongs
  OBVIOUS
<1>1. ASSUME NEW s \in veSealed
      PROVE  /\ s.rec.spec = "exit" => s.rec.passed = (s.rec.obs.exit = "zero")
             /\ s.rec.spec = "stdout" /\ ~s.cut => s.rec.passed = (s.rec.obs.stdout = "with")
  <2>1. VeSealedRight(s) /\ s.rec.passed \in BOOLEAN
    BY DEF VeIInv, VeTypeOK, VeJudged
  <2> QED
    BY <2>1 DEF VeSealedRight
<1> QED
  BY <1>1 DEF VeIInv, VeVerdictBelongs

\* The verdict of a sealed record is that of the observation it carries,
\* however long the run and the workspace went on before it was sealed.
THEOREM VerdictsBelong == VeSpec => [](VeTypeOK /\ VeVerdictBelongs)
<1>1. VeInit => VeIInv
  BY VeInitIInv
<1>2. VeIInv /\ [VeNext]_veVars => VeIInv'
  BY VeNextIInv
<1>3. VeIInv => VeTypeOK /\ VeVerdictBelongs
  BY VeIInvImplies
<1> QED
  BY <1>1, <1>2, <1>3, PTL DEF VeSpec

-----------------------------------------------------------------------------
(* Evidence *)

\* The place of a row in its list.
EvRank(rows, k) == Cardinality(EvBefore(rows, k))

\* What of a list is not in the pack is older than all that is ...
EvInOrder(e) ==
  \A l \in EvLists : \A k \in e.there[l] \ e.out[l], j \in e.out[l] : k < j

\* ... has no place before the next page ...
EvAhead(e, rows) ==
  e.at \in EvLists =>
    \A k \in e.there[e.at] \ e.out[e.at] : EvRank(rows[e.at], k) >= e.offset

\* ... and was left out because the list was capped, when it is through.
EvThrough(e) ==
  /\ e.at \in {"walk", "hash", "audit", "sign", "handed"} /\ "runs" \notin e.capped =>
       e.there["runs"] \subseteq e.out["runs"]
  /\ e.at \in {"sign", "handed"} /\ "audit" \notin e.capped =>
       e.there["audit"] \subseteq e.out["audit"]

EvFilesOK(e, present) ==
  /\ e.files \subseteq present
  /\ e.at = "hash" => e.files \subseteq e.names
  /\ e.at \in {"audit", "sign", "handed"} => e.truncated \/ e.files \subseteq e.hashed
  /\ Cardinality(e.hashed) <= EvMaxFiles /\ (e.truncated => Cardinality(e.hashed) = EvMaxFiles)

EvExportOK(e, rows, present) ==
  /\ \A l \in EvLists : e.there[l] \subseteq rows[l]
  /\ e.at = "new" => \A l \in EvLists : e.out[l] = {}
  /\ e.at \in {"new", "walk", "hash"} => e.offset = 0
  /\ EvInOrder(e) /\ EvAhead(e, rows) /\ EvThrough(e) /\ EvFilesOK(e, present)

\* What a page is taken from, where nothing newer was missed so far ...
EvAsked(R, there, out, o, room, page, kept) ==
  /\ R \in SUBSET Nat /\ IsFiniteSet(R) /\ there \in SUBSET R /\ out \in SUBSET Nat
  /\ o \in Nat /\ room \in Int /\ page = EvPageOf(R, o)
  /\ kept = {k \in page : Cardinality(EvBefore(page, k)) < room}
  /\ \A k \in there \ out : EvRank(R, k) >= o
  /\ \A k \in there \ out, j \in out : k < j

\* ... and how it leaves the list: nothing newer is missed after it either.
EvGiven(R, there, out, o, room, page, kept) ==
  /\ kept \subseteq R /\ page \subseteq R
  /\ \A k \in there \ (out \cup kept), j \in out \cup kept : k < j
  /\ Cardinality(page) <= room =>
       /\ kept = page
       /\ Cardinality(page) < EvPage => there \subseteq out \cup kept
       /\ \A k \in there \ (out \cup kept) : EvRank(R, k) >= o + EvPage

\* Every export, at every point of its way.
EvIInv == EvTypeOK /\ \A x \in EvExports : EvExportOK(evExp[x], evRows, evPresent)

LEMMA EvLeast ==
  ASSUME NEW S \in SUBSET Nat, S # {}
  PROVE  \E n \in S : \A m \in S : n <= m
<1>1. PICK x \in S : \A y \in S : ~(<<y, x>> \in OpToRel(<, Nat))
  BY NatLessThanWellFounded, WFMin
<1>2. \A y \in S : ~(y < x)
  BY <1>1, Zenon DEF OpToRel
<1> QED
  BY <1>2

LEMMA EvRankType ==
  ASSUME NEW R \in SUBSET Nat, IsFiniteSet(R), NEW k \in Nat
  PROVE  IsFiniteSet(EvBefore(R, k)) /\ EvRank(R, k) \in Nat /\ EvBefore(R, k) \subseteq R
<1>1. EvBefore(R, k) \subseteq R
  BY DEF EvBefore
<1> QED
  BY <1>1, FS_Subset, FS_CardinalityType DEF EvRank

\* A later row comes earlier in the list.
LEMMA EvRankOrder ==
  ASSUME NEW R \in SUBSET Nat, IsFiniteSet(R), NEW j \in R, NEW k \in R
  PROVE  EvRank(R, j) < EvRank(R, k) <=> j > k
<1>1. ASSUME NEW a \in R, NEW b \in R, a > b PROVE EvRank(R, a) < EvRank(R, b)
  <2> DEFINE A == EvBefore(R, a)
             B == EvBefore(R, b)
  <2>1. A \cup {a} \subseteq B /\ a \notin A
    <3>1. a \in Int /\ b \in Int /\ \A i \in R : i \in Int
      OBVIOUS
    <3>2. \A i \in R : i > a => i > b
      BY <1>1, <3>1
    <3>3. a \notin A /\ a \in B
      BY <1>1, <3>1 DEF EvBefore
    <3>4. A \subseteq B
      BY <3>2 DEF EvBefore
    <3> QED
      BY <3>3, <3>4
  <2>2. IsFiniteSet(A) /\ IsFiniteSet(B) /\ Cardinality(A) \in Nat /\ Cardinality(B) \in Nat
    BY EvRankType DEF EvRank
  <2> HIDE DEF A, B
  <2>3. Cardinality(A \cup {a}) = Cardinality(A) + 1
    BY <2>1, <2>2, FS_AddElement
  <2>4. Cardinality(A \cup {a}) <= Cardinality(B)
    BY <2>1, <2>2, FS_Subset
  <2> QED
    BY <2>2, <2>3, <2>4 DEF EvRank, A, B
<1>2. EvRank(R, j) \in Nat /\ EvRank(R, k) \in Nat
  BY EvRankType
<1>3. CASE j > k
  BY <1>1, <1>3
<1>4. CASE k > j
  <2>1. EvRank(R, k) < EvRank(R, j)
    BY <1>1, <1>4
  <2> QED
    BY <1>2, <1>4, <2>1
<1>5. CASE j = k
  BY <1>2, <1>5
<1> QED
  BY <1>3, <1>4, <1>5

\* Rows that are added move a row back.
LEMMA EvRankGrows ==
  ASSUME NEW Q \in SUBSET Nat, IsFiniteSet(Q), NEW R \in SUBSET Q, NEW k \in Nat
  PROVE  EvRank(R, k) <= EvRank(Q, k)
<1>1. EvBefore(R, k) \subseteq EvBefore(Q, k)
  BY DEF EvBefore
<1> QED
  BY <1>1, EvRankType, FS_Subset DEF EvRank

\* Before a row that is beyond a page there is a whole page.
LEMMA EvPageFull ==
  ASSUME NEW R \in SUBSET Nat, IsFiniteSet(R), NEW o \in Nat, NEW k \in R, EvRank(R, k) >= o + EvPage
  PROVE  Cardinality(EvPageOf(R, o)) >= EvPage
<1>1. EvPage \in Nat \ {0}
  BY EvidenceAssumption
<1>2. PICK last \in R : /\ EvRank(R, last) >= o + EvPage
                        /\ \A j \in R : j > last => EvRank(R, j) < o + EvPage
  <2> DEFINE beyond == {EvRank(R, j) : j \in {i \in R : EvRank(R, i) >= o + EvPage}}
  <2>1. beyond \in SUBSET Nat /\ beyond # {}
    BY EvRankType
  <2>2. PICK n \in beyond : \A m \in beyond : n <= m
    BY <2>1, EvLeast
  <2>3. PICK i \in R : EvRank(R, i) >= o + EvPage /\ n = EvRank(R, i)
    BY <2>2
  <2>4. ASSUME NEW j \in R, j > i PROVE EvRank(R, j) < o + EvPage
    <3>1. EvRank(R, j) < EvRank(R, i) /\ EvRank(R, j) \in Nat /\ EvRank(R, i) \in Nat
      BY <2>4, EvRankOrder, EvRankType
    <3>2. EvRank(R, j) >= o + EvPage => EvRank(R, i) <= EvRank(R, j)
      BY <2>2, <2>3
    <3> QED
      BY <1>1, <3>1, <3>2
  <2> QED
    BY <2>3, <2>4
<1> DEFINE B == EvBefore(R, last)
           A == {j \in B : EvRank(R, j) < o}
           P == EvPageOf(R, o)
<1>3. IsFiniteSet(B) /\ Cardinality(B) >= o + EvPage /\ B \subseteq R /\ Cardinality(B) \in Nat
  BY <1>2, EvRankType DEF EvRank
<1>4. IsFiniteSet(A) /\ Cardinality(A) \in Nat /\ A \subseteq B
  BY <1>3, FS_Subset, FS_CardinalityType
<1>5. IsFiniteSet(P) /\ Cardinality(P) \in Nat
  <2>1. P \subseteq R
    BY DEF EvPageOf
  <2> QED
    BY <2>1, FS_Subset, FS_CardinalityType
<1>6. B \ A \subseteq P
  <2> SUFFICES ASSUME NEW j \in B \ A PROVE j \in P
    OBVIOUS
  <2>1. j \in R /\ j > last /\ EvRank(R, j) \in Nat /\ EvRank(R, j) >= o
    <3>1. j \in B /\ ~(EvRank(R, j) < o)
      OBVIOUS
    <3>2. j \in R /\ j > last /\ j \in Nat
      BY <3>1 DEF EvBefore
    <3>3. EvRank(R, j) \in Nat
      BY <3>2, EvRankType
    <3> QED
      BY <3>1, <3>2, <3>3
  <2>2. EvRank(R, j) < o + EvPage
    BY <1>2, <2>1
  <2>3. EvRank(R, j) \in o .. o + EvPage - 1
    BY <1>1, <2>1, <2>2
  <2> QED
    BY <2>1, <2>3 DEF EvPageOf, EvRank
<1>7. Cardinality(A) <= o
  <2>1. CASE A = {}
    BY <2>1, FS_EmptySet
  <2>2. CASE A # {}
    <3>1. A \in SUBSET Nat
      BY <1>3, <1>4
    <3>2. PICK a \in A : \A j \in A : a <= j
      BY <2>2, <3>1, EvLeast
    <3> DEFINE D == EvBefore(R, a)
    <3>3. a \in R /\ EvRank(R, a) < o /\ A \subseteq R
      BY <1>3, <1>4, <3>2
    <3>4. IsFiniteSet(D) /\ Cardinality(D) \in Nat /\ Cardinality(D) < o /\ a \notin D
      BY <3>3, EvRankType DEF EvRank, EvBefore
    <3>5. A \subseteq D \cup {a}
      BY <3>1, <3>2, <3>3 DEF EvBefore
    <3> HIDE DEF A, D
    <3>6. IsFiniteSet(D \cup {a}) /\ Cardinality(D \cup {a}) = Cardinality(D) + 1
      BY <3>4, FS_AddElement
    <3>7. Cardinality(A) <= Cardinality(D \cup {a})
      BY <3>5, <3>6, FS_Subset
    <3> QED
      BY <1>4, <3>4, <3>6, <3>7
  <2> QED
    BY <2>1, <2>2
<1> HIDE DEF A, B, P
<1>8. Cardinality(B \ A) = Cardinality(B) - Cardinality(A)
  <2>1. B \cap A = A
    BY <1>4
  <2> QED
    BY <1>3, <2>1, FS_Difference
<1>9. Cardinality(B \ A) <= Cardinality(P)
  BY <1>5, <1>6, FS_Subset
<1> QED
  BY <1>1, <1>3, <1>4, <1>5, <1>7, <1>8, <1>9 DEF P

\* A page whose rows all fit is kept whole.
LEMMA EvKeptWhole ==
  ASSUME NEW page \in SUBSET Nat, IsFiniteSet(page), NEW room \in Int, Cardinality(page) <= room
  PROVE  page = {k \in page : Cardinality(EvBefore(page, k)) < room}
<1> SUFFICES ASSUME NEW k \in page PROVE Cardinality(EvBefore(page, k)) < room
  OBVIOUS
<1> DEFINE B == EvBefore(page, k)
<1>1. B \subseteq page \ {k} /\ IsFiniteSet(B) /\ Cardinality(B) \in Nat
  BY EvRankType DEF EvBefore, EvRank
<1> HIDE DEF B
<1>2. IsFiniteSet(page \ {k}) /\ Cardinality(page \ {k}) = Cardinality(page) - 1
  BY FS_RemoveElement
<1>3. Cardinality(B) <= Cardinality(page \ {k})
  BY <1>1, <1>2, FS_Subset
<1>4. Cardinality(page) \in Nat
  BY FS_CardinalityType
<1> QED
  BY <1>1, <1>2, <1>3, <1>4 DEF B

\* What one page does to a list that has missed nothing newer so far.
LEMMA EvTakes ==
  ASSUME NEW R, NEW there, NEW out, NEW o, NEW room, NEW page, NEW kept,
         EvAsked(R, there, out, o, room, page, kept)
  PROVE  EvGiven(R, there, out, o, room, page, kept)
<1>0. /\ R \in SUBSET Nat /\ IsFiniteSet(R) /\ there \in SUBSET R /\ out \in SUBSET Nat
      /\ o \in Nat /\ room \in Int /\ page = EvPageOf(R, o)
      /\ kept = {k \in page : Cardinality(EvBefore(page, k)) < room}
      /\ \A k \in there \ out : EvRank(R, k) >= o
      /\ \A k \in there \ out, j \in out : k < j
  BY DEF EvAsked
<1>1. /\ page \subseteq R /\ kept \subseteq page /\ IsFiniteSet(page) /\ page \in SUBSET Nat
      /\ EvPage \in Nat \ {0}
  <2>1. page \subseteq R
    BY <1>0 DEF EvPageOf
  <2> QED
    BY <1>0, <2>1, FS_Subset, EvidenceAssumption
<1>2. ASSUME NEW k \in there, k \notin out, k \notin page PROVE EvRank(R, k) >= o + EvPage
  <2>1. EvRank(R, k) \in Nat /\ EvRank(R, k) >= o /\ k \in R
    BY <1>0, <1>2, EvRankType
  <2>2. EvRank(R, k) \notin o .. o + EvPage - 1
    BY <1>0, <1>2, <2>1 DEF EvPageOf, EvRank
  <2> QED
    BY <1>0, <1>1, <2>1, <2>2
<1>3. ASSUME NEW k \in there, k \notin out, k \notin kept, NEW j \in kept PROVE k < j
  <2>1. k \in R /\ j \in R /\ j \in page /\ k \in Nat /\ j \in Nat
    BY <1>0, <1>1, <1>3
  <2>2. CASE k \in page
    <3>1. /\ EvRank(page, j) \in Nat /\ EvRank(page, k) \in Nat
          /\ EvRank(page, j) < room /\ ~(EvRank(page, k) < room)
      BY <1>0, <1>1, <1>3, <2>1, <2>2, EvRankType DEF EvRank
    <3>2. EvRank(page, j) < EvRank(page, k)
      BY <1>0, <3>1
    <3> QED
      BY <1>1, <2>1, <2>2, <3>2, EvRankOrder
  <2>3. CASE k \notin page
    <3>1. EvRank(R, k) >= o + EvPage
      BY <1>2, <1>3, <2>3
    <3>2. EvRank(R, j) \in o .. o + EvPage - 1
      BY <1>0, <2>1 DEF EvPageOf, EvRank
    <3>3. EvRank(R, j) < EvRank(R, k)
      BY <1>0, <1>1, <2>1, <3>1, <3>2, EvRankType
    <3> QED
      BY <1>0, <2>1, <3>3, EvRankOrder
  <2> QED
    BY <2>2, <2>3
<1>4. Cardinality(page) <= room => kept = page
  BY <1>0, <1>1, EvKeptWhole
<1>5. ASSUME Cardinality(page) <= room, Cardinality(page) < EvPage, NEW k \in there
      PROVE  k \in out \cup kept
  <2> SUFFICES ASSUME k \notin out, k \notin kept PROVE FALSE
    OBVIOUS
  <2>1. EvRank(R, k) >= o + EvPage
    BY <1>2, <1>4, <1>5
  <2>2. Cardinality(page) >= EvPage
    BY <1>0, <1>1, <1>5, <2>1, EvPageFull
  <2>3. Cardinality(page) \in Nat
    BY <1>1, FS_CardinalityType
  <2> QED
    BY <1>1, <1>5, <2>2, <2>3
<1> QED
  BY <1>0, <1>1, <1>2, <1>3, <1>4, <1>5 DEF EvGiven

-----------------------------------------------------------------------------
LEMMA EvStampsAreFinite ==
  ASSUME NEW R \in SUBSET EvStamps
  PROVE  R \in SUBSET Nat /\ IsFiniteSet(R)
  BY EvidenceAssumption, FS_Subset

\* Rows that are added, and files, leave an export right.
LEMMA EvGrows ==
  ASSUME NEW e \in EvExport, NEW R \in [EvLists -> SUBSET EvStamps], NEW Q \in [EvLists -> SUBSET EvStamps],
         \A l \in EvLists : R[l] \subseteq Q[l],
         NEW F, NEW G, EvExportOK(e, R, F), e.files \subseteq G
  PROVE  EvExportOK(e, Q, G)
<1>1. \A l \in EvLists : e.there[l] \subseteq Q[l]
  BY DEF EvExportOK
<1>2. EvAhead(e, Q)
  <2> SUFFICES ASSUME e.at \in EvLists, NEW k \in e.there[e.at] \ e.out[e.at]
               PROVE  EvRank(Q[e.at], k) >= e.offset
    BY DEF EvAhead
  <2>1. R[e.at] \in SUBSET EvStamps /\ Q[e.at] \in SUBSET EvStamps /\ R[e.at] \subseteq Q[e.at]
    OBVIOUS
  <2>2. EvRank(R[e.at], k) >= e.offset /\ k \in R[e.at]
    BY DEF EvExportOK, EvAhead
  <2>3. k \in Nat /\ R[e.at] \in SUBSET Nat /\ Q[e.at] \in SUBSET Nat
        /\ IsFiniteSet(R[e.at]) /\ IsFiniteSet(Q[e.at])
    BY <2>1, <2>2, EvStampsAreFinite
  <2>4. EvRank(R[e.at], k) <= EvRank(Q[e.at], k)
    BY <2>1, <2>3, EvRankGrows
  <2>5. EvRank(R[e.at], k) \in Nat /\ EvRank(Q[e.at], k) \in Nat /\ e.offset \in Nat
    BY <2>3, EvRankType DEF EvExport
  <2> QED
    BY <2>2, <2>4, <2>5
<1>3. EvFilesOK(e, G)
  BY DEF EvExportOK, EvFilesOK
<1> QED
  BY <1>1, <1>2, <1>3 DEF EvExportOK

\* One export moves.
LEMMA EvMoves ==
  ASSUME EvIInv, NEW x \in EvExports, NEW r \in EvExport, EvExportOK(r, evRows, evPresent),
         evExp' = [evExp EXCEPT ![x] = r], UNCHANGED <<evRows, evUsed, evPresent, evStatus>>
  PROVE  EvIInv'
<1>1. evExp' \in [EvExports -> EvExport] /\ evExp'[x] = r
      /\ \A y \in EvExports \ {x} : evExp'[y] = evExp[y]
  BY DEF EvIInv, EvTypeOK
<1>2. EvTypeOK'
  BY <1>1 DEF EvIInv, EvTypeOK
<1>3. \A y \in EvExports : EvExportOK(evExp'[y], evRows, evPresent)
  BY <1>1 DEF EvIInv
<1> QED
  BY <1>2, <1>3 DEF EvIInv

\* Rows are added, files written, while no export moves.
LEMMA EvRowsGrow ==
  ASSUME EvIInv, evRows' \in [EvLists -> SUBSET EvStamps], evUsed' \in [EvLists -> SUBSET EvStamps],
         \A l \in EvLists : evRows[l] \subseteq evRows'[l],
         evPresent \subseteq evPresent', evPresent' \subseteq EvFiles, UNCHANGED <<evStatus, evExp>>
  PROVE  EvIInv'
<1>1. EvTypeOK'
  BY DEF EvIInv, EvTypeOK
<1>2. ASSUME NEW x \in EvExports PROVE EvExportOK(evExp[x], evRows', evPresent')
  <2>1. /\ evExp[x] \in EvExport /\ evRows \in [EvLists -> SUBSET EvStamps]
        /\ EvExportOK(evExp[x], evRows, evPresent) /\ evExp[x].files \subseteq evPresent'
    BY DEF EvIInv, EvTypeOK, EvExportOK, EvFilesOK
  <2> QED
    BY <2>1, EvGrows
<1> QED
  BY <1>1, <1>2 DEF EvIInv

LEMMA EvRetainIInv ==
  ASSUME EvIInv, EvRetain
  PROVE  EvIInv'
<1>1. PICK k \in evRows["audit"] :
        /\ \A j \in evRows["audit"] : k <= j
        /\ evRows' = [evRows EXCEPT !["audit"] = evRows["audit"] \ {k}]
        /\ evExp' = [x \in EvExports |-> [evExp[x] EXCEPT !.there["audit"] = evExp[x].there["audit"] \ {k}]]
        /\ UNCHANGED <<evUsed, evPresent, evStatus>>
  BY DEF EvRetain
<1>2. /\ evRows \in [EvLists -> SUBSET EvStamps] /\ "audit" \in EvLists /\ "runs" \in EvLists
      /\ evRows' \in [EvLists -> SUBSET EvStamps] /\ evRows'["audit"] = evRows["audit"] \ {k}
      /\ evRows'["runs"] = evRows["runs"] /\ k \in Nat
  BY <1>1, EvidenceAssumption DEF EvIInv, EvTypeOK, EvLists
<1>3. ASSUME NEW x \in EvExports
      PROVE  evExp'[x] \in EvExport /\ EvExportOK(evExp'[x], evRows', evPresent')
  <2> DEFINE e == evExp[x]
  <2>1. e \in EvExport /\ EvExportOK(e, evRows, evPresent)
    BY DEF EvIInv, EvTypeOK
  <2>2. PICK there : there = [e.there EXCEPT !["audit"] = e.there["audit"] \ {k}]
    OBVIOUS
  <2>3. evExp'[x] = [e EXCEPT !.there = there]
    BY <1>1, <2>2
  <2>4. /\ e.there \in [EvLists -> SUBSET EvStamps] /\ there \in [EvLists -> SUBSET EvStamps]
        /\ there["audit"] = e.there["audit"] \ {k} /\ there["runs"] = e.there["runs"]
    BY <1>2, <2>1, <2>2 DEF EvExport, EvLists
  <2>5. PICK r : r = [e EXCEPT !.there = there]
    OBVIOUS
  <2>6. /\ r \in EvExport /\ r.there = there /\ r.at = e.at /\ r.out = e.out /\ r.offset = e.offset
        /\ r.capped = e.capped /\ r.names = e.names /\ r.hashed = e.hashed /\ r.files = e.files
        /\ r.truncated = e.truncated
    BY <2>1, <2>4, <2>5 DEF EvExport
  <2>7. \A l \in EvLists : r.there[l] \subseteq e.there[l] /\ r.there[l] \subseteq evRows'[l]
    BY <1>2, <2>1, <2>4, <2>6 DEF EvExportOK, EvLists
  <2>8. EvInOrder(r)
    BY <2>1, <2>6, <2>7 DEF EvExportOK, EvInOrder
  <2>9. EvAhead(r, evRows')
    <3> SUFFICES ASSUME NEW l \in EvLists, l = e.at, NEW j \in r.there[l] \ e.out[l]
                 PROVE  EvRank(evRows'[l], j) >= e.offset
      BY <2>6 DEF EvAhead
    <3>1. j \in e.there[l] \ e.out[l] /\ EvRank(evRows[l], j) >= e.offset
      BY <2>1, <2>7 DEF EvExportOK, EvAhead
    <3>2. CASE l = "runs"
      BY <1>2, <3>1, <3>2
    <3>3. CASE l = "audit"
      <4>1. j \in evRows["audit"] /\ j # k /\ j \in Nat
        BY <1>2, <2>7, <3>3, EvidenceAssumption
      <4>2. ~(k > j)
        BY <1>1, <1>2, <4>1
      <4>3. EvBefore(evRows["audit"] \ {k}, j) = EvBefore(evRows["audit"], j)
        BY <4>2 DEF EvBefore
      <4> QED
        BY <1>2, <3>1, <3>3, <4>3 DEF EvRank
    <3> QED
      BY <3>2, <3>3 DEF EvLists
  <2>10. EvThrough(r)
    BY <1>2, <2>1, <2>6, <2>7 DEF EvExportOK, EvThrough
  <2>11. EvFilesOK(r, evPresent)
    BY <2>1, <2>6 DEF EvExportOK, EvFilesOK
  <2>12. EvExportOK(r, evRows', evPresent)
    BY <2>1, <2>6, <2>7, <2>8, <2>9, <2>10, <2>11 DEF EvExportOK
  <2> QED
    BY <1>1, <2>3, <2>5, <2>6, <2>12
<1>4. evExp' \in [EvExports -> EvExport]
  <2>1. evExp' = [x \in EvExports |-> evExp'[x]]
    BY <1>1
  <2> QED
    BY <1>3, <2>1
<1>5. EvTypeOK'
  BY <1>1, <1>2, <1>4 DEF EvIInv, EvTypeOK
<1> QED
  BY <1>3, <1>5 DEF EvIInv

\* Files go, and with them what an export may not have.
LEMMA EvFilesGo ==
  ASSUME EvIInv, NEW gone \in SUBSET EvFiles, evPresent' = evPresent \ gone,
         evStatus' \in {"running", "stopped"}, UNCHANGED <<evRows, evUsed>>,
         evExp' = [x \in EvExports |-> [evExp[x] EXCEPT !.files = evExp[x].files \ gone]]
  PROVE  EvIInv'
<1>1. ASSUME NEW x \in EvExports
      PROVE  evExp'[x] \in EvExport /\ EvExportOK(evExp'[x], evRows, evPresent')
  <2>1. evExp[x] \in EvExport /\ EvExportOK(evExp[x], evRows, evPresent)
    BY DEF EvIInv, EvTypeOK
  <2>2. PICK e : e = evExp[x]
    OBVIOUS
  <2>3. PICK r : r = [e EXCEPT !.files = e.files \ gone]
    OBVIOUS
  <2>4. /\ r \in EvExport /\ r.there = e.there /\ r.at = e.at /\ r.out = e.out /\ r.offset = e.offset
        /\ r.capped = e.capped /\ r.names = e.names /\ r.hashed = e.hashed /\ r.files = e.files \ gone
        /\ r.truncated = e.truncated
    BY <2>1, <2>2, <2>3 DEF EvExport
  <2>5. EvInOrder(r) /\ EvAhead(r, evRows) /\ EvThrough(r) /\ EvFilesOK(r, evPresent')
    BY <2>1, <2>2, <2>4 DEF EvExportOK, EvInOrder, EvAhead, EvThrough, EvFilesOK
  <2>6. EvExportOK(r, evRows, evPresent')
    BY <2>1, <2>2, <2>4, <2>5 DEF EvExportOK
  <2> QED
    BY <2>2, <2>3, <2>4, <2>6
<1>2. evExp' \in [EvExports -> EvExport]
  <2>1. evExp' = [x \in EvExports |-> evExp'[x]]
    OBVIOUS
  <2> QED
    BY <1>1, <2>1
<1>3. EvTypeOK'
  BY <1>2 DEF EvIInv, EvTypeOK
<1> QED
  BY <1>1, <1>3 DEF EvIInv

LEMMA EvSessionIInv ==
  ASSUME EvIInv, (\E l \in EvLists : EvInsert(l)) \/ EvWrite \/ EvEnd
  PROVE  EvIInv'
<1>1. ASSUME NEW l \in EvLists, EvInsert(l) PROVE EvIInv'
  <2>1. PICK k \in EvStamps :
          /\ evRows' = [evRows EXCEPT ![l] = evRows[l] \cup {k}]
          /\ evUsed' = [evUsed EXCEPT ![l] = evUsed[l] \cup {k}]
          /\ UNCHANGED <<evPresent, evStatus, evExp>>
    BY <1>1 DEF EvInsert
  <2>2. /\ evRows' \in [EvLists -> SUBSET EvStamps] /\ evUsed' \in [EvLists -> SUBSET EvStamps]
        /\ \A m \in EvLists : evRows[m] \subseteq evRows'[m]
    BY <2>1 DEF EvIInv, EvTypeOK
  <2> QED
    BY <2>1, <2>2, EvRowsGrow DEF EvIInv, EvTypeOK
<1>2. CASE EvWrite
  <2>1. PICK f \in EvFiles :
          /\ \/ evPresent' = evPresent \cup {f} /\ UNCHANGED evExp
             \/ /\ evPresent' = evPresent \ {f}
                /\ evExp' = [x \in EvExports |-> [evExp[x] EXCEPT !.files = evExp[x].files \ {f}]]
          /\ UNCHANGED <<evRows, evUsed, evStatus>>
    BY <1>2 DEF EvWrite
  <2>2. CASE evPresent' = evPresent \cup {f} /\ UNCHANGED evExp
    BY <2>1, <2>2, EvRowsGrow DEF EvIInv, EvTypeOK
  <2>3. CASE /\ evPresent' = evPresent \ {f}
             /\ evExp' = [x \in EvExports |-> [evExp[x] EXCEPT !.files = evExp[x].files \ {f}]]
    BY <2>1, <2>3, EvFilesGo DEF EvIInv, EvTypeOK
  <2> QED
    BY <2>1, <2>2, <2>3
<1>3. CASE EvEnd
  <2>1. /\ evPresent' = evPresent \ EvFiles /\ evStatus' \in {"running", "stopped"}
        /\ UNCHANGED <<evRows, evUsed>>
    BY <1>3 DEF EvEnd, EvIInv, EvTypeOK
  <2>2. \A x \in EvExports : evExp[x].files \ EvFiles = {}
    BY DEF EvIInv, EvTypeOK, EvExport
  <2>3. evExp' = [x \in EvExports |-> [evExp[x] EXCEPT !.files = evExp[x].files \ EvFiles]]
    BY <1>3, <2>2 DEF EvEnd
  <2> QED
    BY <2>1, <2>3, EvFilesGo
<1> QED
  BY <1>1, <1>2, <1>3

LEMMA EvTakePageIInv ==
  ASSUME EvIInv, NEW x \in EvExports, NEW l \in EvLists, NEW next \in {"walk", "sign"},
         evExp[x].at = l, l = "runs" <=> next = "walk", EvTakePage(x, l, next),
         UNCHANGED <<evRows, evUsed, evPresent, evStatus>>
  PROVE  EvIInv'
<1>1. PICK e : e = evExp[x]
  OBVIOUS
<1>2. PICK R : R = evRows[l]
  OBVIOUS
<1>3. PICK page : page = EvPageOf(R, e.offset)
  OBVIOUS
<1>4. PICK room : room = EvCap(l) - e.taken
  OBVIOUS
<1>5. PICK kept : kept = {k \in page : Cardinality(EvBefore(page, k)) < room}
  OBVIOUS
<1> DEFINE full == Cardinality(page) > room \/ (l = "audit" /\ Cardinality(page) = room)
           over == full \/ Cardinality(page) < EvPage
<1>6. evExp' = [evExp EXCEPT ![x] =
        [e EXCEPT !.out = [e.out EXCEPT ![l] = e.out[l] \cup kept],
           !.capped = IF full THEN e.capped \cup {l} ELSE e.capped,
           !.offset = IF over THEN 0 ELSE e.offset + EvPage,
           !.taken = IF over THEN 0 ELSE e.taken + Cardinality(kept),
           !.at = IF over THEN next ELSE l]]
  BY <1>1, <1>2, <1>3, <1>4, <1>5 DEF EvTakePage
<1>7. PICK out, capped, offset, taken, at :
        /\ out = [e.out EXCEPT ![l] = e.out[l] \cup kept]
        /\ capped = IF full THEN e.capped \cup {l} ELSE e.capped
        /\ offset = IF over THEN 0 ELSE e.offset + EvPage
        /\ taken = IF over THEN 0 ELSE e.taken + Cardinality(kept)
        /\ at = IF over THEN next ELSE l
  OBVIOUS
<1>8. PICK r : r = [e EXCEPT !.out = out, !.capped = capped, !.offset = offset, !.taken = taken, !.at = at]
  OBVIOUS
<1>9. evExp' = [evExp EXCEPT ![x] = r]
  BY <1>6, <1>7, <1>8
<1> HIDE <1>6
<1>10. /\ e \in EvExport /\ EvExportOK(e, evRows, evPresent) /\ e.at = l
       /\ e.out \in [EvLists -> SUBSET EvStamps] /\ e.there[l] \subseteq R
       /\ e.offset \in Nat /\ e.taken \in Nat /\ e.capped \subseteq EvLists
       /\ R \in SUBSET EvStamps
  BY <1>1, <1>2 DEF EvIInv, EvTypeOK, EvExportOK, EvExport
<1>11. /\ R \in SUBSET Nat /\ IsFiniteSet(R) /\ e.there[l] \in SUBSET R /\ e.out[l] \in SUBSET Nat
       /\ room \in Int /\ EvPage \in Nat \ {0} /\ EvCap(l) \in Nat
  <2>1. R \in SUBSET Nat /\ IsFiniteSet(R) /\ e.out[l] \in SUBSET Nat
    BY <1>10, EvStampsAreFinite
  <2> QED
    BY <1>4, <1>10, <2>1, EvidenceAssumption DEF EvCap
<1>12. /\ kept \subseteq R /\ page \subseteq R
       /\ \A k \in e.there[l] \ (e.out[l] \cup kept), j \in e.out[l] \cup kept : k < j
       /\ Cardinality(page) <= room =>
            /\ kept = page
            /\ Cardinality(page) < EvPage => e.there[l] \subseteq e.out[l] \cup kept
            /\ \A k \in e.there[l] \ (e.out[l] \cup kept) : EvRank(R, k) >= e.offset + EvPage
  <2>1. /\ \A k \in e.there[l] \ e.out[l] : EvRank(R, k) >= e.offset
        /\ \A k \in e.there[l] \ e.out[l], j \in e.out[l] : k < j
    BY <1>2, <1>10 DEF EvExportOK, EvInOrder, EvAhead
  <2>2. PICK th, ou, o : th = e.there[l] /\ ou = e.out[l] /\ o = e.offset
    OBVIOUS
  <2>3. /\ th \in SUBSET R /\ ou \in SUBSET Nat /\ o \in Nat /\ page = EvPageOf(R, o)
        /\ \A k \in th \ ou : EvRank(R, k) >= o
        /\ \A k \in th \ ou, j \in ou : k < j
    BY <1>3, <1>10, <1>11, <2>1, <2>2
  <2>4. /\ kept \subseteq R /\ page \subseteq R
        /\ \A k \in th \ (ou \cup kept), j \in ou \cup kept : k < j
        /\ Cardinality(page) <= room =>
             /\ kept = page
             /\ Cardinality(page) < EvPage => th \subseteq ou \cup kept
             /\ \A k \in th \ (ou \cup kept) : EvRank(R, k) >= o + EvPage
    <3>1. EvAsked(R, th, ou, o, room, page, kept)
      BY <1>5, <1>11, <2>3 DEF EvAsked
    <3>2. EvGiven(R, th, ou, o, room, page, kept)
      BY <3>1, EvTakes
    <3> QED
      BY <3>2 DEF EvGiven
  <2> QED
    BY <2>2, <2>4
<1>13. IsFiniteSet(page) /\ Cardinality(page) \in Nat
  BY <1>11, <1>12, FS_Subset, FS_CardinalityType
<1>14. ~full => Cardinality(page) <= room
  BY <1>11, <1>13
<1>15. /\ out \in [EvLists -> SUBSET EvStamps] /\ out[l] = e.out[l] \cup kept
       /\ \A m \in EvLists \ {l} : out[m] = e.out[m]
  BY <1>7, <1>10, <1>12
<1>16. capped \subseteq EvLists /\ (l \notin capped => ~full) /\ e.capped \subseteq capped
  BY <1>7, <1>10
<1>17. offset \in Nat /\ (over => offset = 0)
  BY <1>7, <1>10, <1>11
<1>18. taken \in Nat
  <2>1. CASE over
    BY <1>7, <1>11, <2>1
  <2>2. CASE ~over
    <3>1. taken = e.taken + Cardinality(page) /\ Cardinality(page) \in Nat
      BY <1>7, <1>12, <1>13, <1>14, <2>2
    <3> QED
      BY <1>10, <1>11, <1>13, <3>1
  <2> QED
    BY <2>1, <2>2
<1>19. at = (IF over THEN next ELSE l) /\ at \in {"runs", "walk", "audit", "sign"}
  BY <1>7 DEF EvLists
<1>20. /\ r \in EvExport /\ r.out = out /\ r.capped = capped /\ r.offset = offset /\ r.at = at
       /\ r.there = e.there /\ r.names = e.names /\ r.hashed = e.hashed /\ r.files = e.files
       /\ r.truncated = e.truncated
  <2>1. at \in {"new", "runs", "walk", "hash", "audit", "sign", "handed", "failed"}
    BY <1>19
  <2> HIDE DEF full, over
  <2> QED
    BY <1>8, <1>10, <1>15, <1>16, <1>17, <1>18, <2>1 DEF EvExport
<1>21. /\ ~over => Cardinality(page) <= room
       /\ over /\ ~full => Cardinality(page) <= room /\ Cardinality(page) < EvPage
       /\ ~over => offset = e.offset + EvPage
  BY <1>7, <1>14
<1> HIDE DEF full, over
<1>22. EvInOrder(r)
  BY <1>10, <1>12, <1>15, <1>20 DEF EvExportOK, EvInOrder
<1>23. EvAhead(r, evRows)
  <2> SUFFICES ASSUME at \in EvLists, NEW k \in e.there[at] \ out[at]
               PROVE  EvRank(evRows[at], k) >= offset
    BY <1>20 DEF EvAhead
  <2>1. at = l /\ ~over
    BY <1>19 DEF EvLists
  <2> QED
    BY <1>2, <1>12, <1>15, <1>21, <2>1
<1>24. EvThrough(r)
  <2>1. over /\ l \notin capped => e.there[l] \subseteq out[l]
    BY <1>12, <1>15, <1>16, <1>21
  <2>2. l = "runs" => at \in {"runs", "walk"} /\ (at = "walk" => over)
    BY <1>19
  <2>3. l = "audit" => at \in {"audit", "sign"} /\ (at = "sign" => over)
    BY <1>19
  <2>4. l = "audit" /\ "runs" \notin capped => e.there["runs"] \subseteq out["runs"]
    BY <1>10, <1>15, <1>16 DEF EvExportOK, EvThrough, EvLists
  <2>5. l = "runs" \/ l = "audit"
    BY DEF EvLists
  <2> QED
    BY <1>20, <2>1, <2>2, <2>3, <2>4, <2>5 DEF EvThrough
<1>25. EvFilesOK(r, evPresent)
  <2>1. at \in {"runs", "walk"} \/ l = "audit"
    BY <1>19 DEF EvLists
  <2>2. at # "hash"
    BY <1>19
  <2> QED
    BY <1>10, <1>19, <1>20, <2>1, <2>2 DEF EvExportOK, EvFilesOK
<1>26. at # "new" /\ (at \in {"walk", "hash"} => offset = 0)
  BY <1>17, <1>19 DEF EvLists
<1>27. EvExportOK(r, evRows, evPresent)
  BY <1>10, <1>20, <1>22, <1>23, <1>24, <1>25, <1>26 DEF EvExportOK
<1> QED
  BY <1>9, <1>20, <1>27, EvMoves

LEMMA EvArriveIInv ==
  ASSUME EvIInv, NEW x \in EvExports, EvArrive(x)
  PROVE  EvIInv'
<1>1. PICK e : e = evExp[x]
  OBVIOUS
<1>2. /\ e.at = "new" /\ UNCHANGED <<evRows, evUsed, evPresent, evStatus>>
      /\ evExp' = [evExp EXCEPT ![x] =
           [e EXCEPT !.at = "runs", !.status = evStatus, !.there = evRows, !.files = evPresent]]
  BY <1>1 DEF EvArrive, EvIInv, EvTypeOK
<1>3. PICK r : r = [e EXCEPT !.at = "runs", !.status = evStatus, !.there = evRows, !.files = evPresent]
  OBVIOUS
<1>4. /\ e \in EvExport /\ EvExportOK(e, evRows, evPresent) /\ evRows \in [EvLists -> SUBSET EvStamps]
      /\ evPresent \in SUBSET EvFiles /\ evStatus \in {"running", "stopped"}
  BY <1>1 DEF EvIInv, EvTypeOK
<1>5. /\ r \in EvExport /\ r.at = "runs" /\ r.there = evRows /\ r.files = evPresent /\ r.out = e.out
      /\ r.offset = e.offset /\ r.hashed = e.hashed /\ r.truncated = e.truncated
  BY <1>3, <1>4 DEF EvExport
<1>6. e.offset = 0 /\ \A l \in EvLists : e.out[l] = {}
  BY <1>2, <1>4 DEF EvExportOK
<1>7. EvAhead(r, evRows)
  <2> SUFFICES ASSUME NEW k \in evRows["runs"] PROVE EvRank(evRows["runs"], k) >= 0
    BY <1>5, <1>6 DEF EvAhead
  <2>1. evRows["runs"] \in SUBSET EvStamps
    BY <1>4 DEF EvLists
  <2>2. EvRank(evRows["runs"], k) \in Nat
    BY <2>1, EvStampsAreFinite, EvRankType
  <2> QED
    BY <2>2
<1>8. EvExportOK(r, evRows, evPresent)
  BY <1>4, <1>5, <1>6, <1>7 DEF EvExportOK, EvInOrder, EvThrough, EvFilesOK
<1>9. evExp' = [evExp EXCEPT ![x] = r]
  BY <1>2, <1>3
<1> QED
  BY <1>2, <1>5, <1>8, <1>9, EvMoves

\* A step that leaves the lists alone.
LEMMA EvGoesOn ==
  ASSUME EvIInv, NEW x \in EvExports, NEW r \in EvExport,
         r.there = evExp[x].there, r.out = evExp[x].out, r.offset = evExp[x].offset,
         r.capped = evExp[x].capped, r.files = evExp[x].files,
         r.at \in {"hash", "audit", "sign", "handed", "failed"},
         r.at = "hash" => evExp[x].at \in {"walk", "hash"} /\ r.files \subseteq r.names,
         r.at = "audit" => evExp[x].at = "hash",
         r.at = "sign" => evExp[x].at = "sign", r.at = "handed" => evExp[x].at = "sign",
         r.at \in {"audit", "sign", "handed"} => r.truncated \/ r.files \subseteq r.hashed,
         Cardinality(r.hashed) <= EvMaxFiles, r.truncated => Cardinality(r.hashed) = EvMaxFiles
  PROVE  EvExportOK(r, evRows, evPresent)
<1>1. PICK e : e = evExp[x]
  OBVIOUS
<1>2. e \in EvExport /\ EvExportOK(e, evRows, evPresent) /\ evRows \in [EvLists -> SUBSET EvStamps]
  BY <1>1 DEF EvIInv, EvTypeOK
<1>3. EvAhead(r, evRows)
  <2> SUFFICES ASSUME r.at = "audit", NEW k \in e.there["audit"]
               PROVE  EvRank(evRows["audit"], k) >= r.offset
    BY <1>1 DEF EvAhead, EvLists
  <2>1. r.offset = 0
    BY <1>1, <1>2 DEF EvExportOK
  <2>2. evRows["audit"] \in SUBSET EvStamps /\ k \in evRows["audit"]
    BY <1>2 DEF EvLists, EvExportOK
  <2>3. EvRank(evRows["audit"], k) \in Nat
    BY <2>2, EvStampsAreFinite, EvRankType
  <2> QED
    BY <2>1, <2>3
<1>4. EvThrough(r)
  BY <1>1, <1>2 DEF EvExportOK, EvThrough
<1>5. EvInOrder(r) /\ EvFilesOK(r, evPresent)
  BY <1>1, <1>2 DEF EvExportOK, EvInOrder, EvFilesOK
<1>6. r.at = "hash" => r.offset = 0
  BY <1>1, <1>2 DEF EvExportOK
<1> QED
  BY <1>1, <1>2, <1>3, <1>4, <1>5, <1>6 DEF EvExportOK

LEMMA EvWalkIInv ==
  ASSUME EvIInv, NEW x \in EvExports, EvWalk(x)
  PROVE  EvIInv'
<1>1. PICK e : e = evExp[x]
  OBVIOUS
<1>2. PICK removed \in BOOLEAN : removed = (evStatus = "stopped")
  BY Zenon
<1>3. PICK r : r = [e EXCEPT !.at = "hash", !.names = evPresent, !.removed = removed]
  OBVIOUS
<1>4. e.at = "walk" /\ UNCHANGED <<evRows, evUsed, evPresent, evStatus>>
  BY <1>1 DEF EvWalk
<1>5. evExp' = [evExp EXCEPT ![x] = r]
  BY <1>1, <1>2, <1>3 DEF EvWalk, EvIInv, EvTypeOK
<1>6. e \in EvExport /\ EvExportOK(e, evRows, evPresent) /\ evPresent \in SUBSET EvFiles
  BY <1>1 DEF EvIInv, EvTypeOK
<1>7. /\ r \in EvExport /\ r.there = e.there /\ r.out = e.out /\ r.offset = e.offset /\ r.capped = e.capped
      /\ r.files = e.files /\ r.hashed = e.hashed /\ r.truncated = e.truncated
      /\ r.names = evPresent /\ r.at = "hash"
  BY <1>3, <1>6 DEF EvExport
<1>8. EvExportOK(r, evRows, evPresent)
  BY <1>1, <1>4, <1>6, <1>7, EvGoesOn DEF EvExportOK, EvFilesOK
<1> QED
  BY <1>4, <1>5, <1>7, <1>8, EvMoves

LEMMA EvFailsIInv ==
  ASSUME EvIInv, NEW x \in EvExports, evExp' = [evExp EXCEPT ![x].at = "failed"],
         UNCHANGED <<evRows, evUsed, evPresent, evStatus>>
  PROVE  EvIInv'
<1>1. PICK e : e = evExp[x]
  OBVIOUS
<1>2. /\ e \in EvExport /\ Cardinality(e.hashed) <= EvMaxFiles
      /\ e.truncated => Cardinality(e.hashed) = EvMaxFiles
  BY <1>1 DEF EvIInv, EvTypeOK, EvExportOK, EvFilesOK
<1>3. PICK r : r = [e EXCEPT !.at = "failed"]
  OBVIOUS
<1>4. evExp' = [evExp EXCEPT ![x] = r]
  BY <1>1, <1>3
<1>5. /\ r \in EvExport /\ r.there = e.there /\ r.out = e.out /\ r.offset = e.offset /\ r.capped = e.capped
      /\ r.files = e.files /\ r.hashed = e.hashed /\ r.truncated = e.truncated /\ r.at = "failed"
  BY <1>2, <1>3 DEF EvExport
<1>6. EvExportOK(r, evRows, evPresent)
  BY <1>1, <1>2, <1>5, EvGoesOn
<1> QED
  BY <1>4, <1>5, <1>6, EvMoves

\* The steps of the walk that hash nothing: on, off, at the limit, another name.
LEMMA EvHashStays ==
  ASSUME EvIInv, NEW x \in EvExports, evExp[x].at = "hash",
         UNCHANGED <<evRows, evUsed, evPresent, evStatus>>,
         NEW r \in EvExport, evExp' = [evExp EXCEPT ![x] = r],
         r.there = evExp[x].there, r.out = evExp[x].out, r.offset = evExp[x].offset,
         r.capped = evExp[x].capped, r.files = evExp[x].files, r.hashed = evExp[x].hashed,
         r.at \in {"hash", "audit"}, r.at = "hash" => r.files \subseteq r.names,
         r.at = "audit" => r.truncated \/ r.files \subseteq r.hashed,
         r.truncated => Cardinality(r.hashed) = EvMaxFiles
  PROVE  EvIInv'
<1>1. Cardinality(r.hashed) <= EvMaxFiles
  BY DEF EvIInv, EvExportOK, EvFilesOK
<1>2. EvExportOK(r, evRows, evPresent)
  BY <1>1, EvGoesOn
<1> QED
  BY <1>2, EvMoves

LEMMA EvHashIInv ==
  ASSUME EvIInv, NEW x \in EvExports, EvHash(x)
  PROVE  EvIInv'
<1>1. PICK e : e = evExp[x]
  OBVIOUS
<1>2. e.at = "hash" /\ UNCHANGED <<evRows, evUsed, evPresent, evStatus>>
  BY <1>1 DEF EvHash
<1>3. /\ e \in EvExport /\ e.files \subseteq e.names /\ e.files \subseteq evPresent
      /\ Cardinality(e.hashed) <= EvMaxFiles /\ (e.truncated => Cardinality(e.hashed) = EvMaxFiles)
      /\ evPresent \in SUBSET EvFiles
  BY <1>1, <1>2 DEF EvIInv, EvTypeOK, EvExportOK, EvFilesOK
<1>4. CASE e.names \ e.hashed = {} /\ evExp' = [evExp EXCEPT ![x].at = "audit"]
  <2>1. PICK r : r = [e EXCEPT !.at = "audit"]
    OBVIOUS
  <2>2. evExp' = [evExp EXCEPT ![x] = r]
    BY <1>1, <1>4, <2>1
  <2>3. /\ r \in EvExport /\ r.there = e.there /\ r.out = e.out /\ r.offset = e.offset /\ r.capped = e.capped
        /\ r.files = e.files /\ r.hashed = e.hashed /\ r.at = "audit" /\ r.truncated = e.truncated
    BY <1>3, <2>1 DEF EvExport
  <2>4. r.files \subseteq r.hashed
    BY <1>3, <1>4, <2>3
  <2> QED
    BY <1>1, <1>2, <1>3, <2>2, <2>3, <2>4, EvHashStays
<1>5. ASSUME NEW f \in e.names \cap evPresent, f \notin e.hashed, ~(Cardinality(e.hashed) >= EvMaxFiles),
             evExp' = [evExp EXCEPT ![x].hashed = e.hashed \cup {f}]
      PROVE  EvIInv'
  <2>1. PICK r : r = [e EXCEPT !.hashed = e.hashed \cup {f}]
    OBVIOUS
  <2>2. evExp' = [evExp EXCEPT ![x] = r]
    BY <1>1, <1>5, <2>1
  <2>3. e.hashed \cup {f} \in SUBSET EvFiles
    BY <1>3, <1>5 DEF EvExport
  <2>4. /\ r \in EvExport /\ r.there = e.there /\ r.out = e.out /\ r.offset = e.offset /\ r.capped = e.capped
        /\ r.files = e.files /\ r.names = e.names /\ r.at = "hash" /\ r.hashed = e.hashed \cup {f}
        /\ r.truncated = e.truncated
    BY <1>2, <1>3, <2>1, <2>3 DEF EvExport
  <2>5. IsFiniteSet(e.hashed)
    <3>1. e.hashed \subseteq EvFiles
      BY <1>3 DEF EvExport
    <3> QED
      BY <3>1, EvidenceAssumption, FS_Subset
  <2>6. Cardinality(e.hashed \cup {f}) = Cardinality(e.hashed) + 1 /\ Cardinality(e.hashed) \in Nat
    BY <1>5, <2>5, FS_AddElement, FS_CardinalityType
  <2>7. Cardinality(r.hashed) <= EvMaxFiles /\ ~e.truncated
    BY <1>3, <1>5, <2>4, <2>6, EvidenceAssumption
  <2>8. EvExportOK(r, evRows, evPresent)
    BY <1>1, <1>2, <1>3, <2>4, <2>7, EvGoesOn
  <2> QED
    BY <1>2, <2>2, <2>4, <2>8, EvMoves
<1>6. CASE evExp' = [evExp EXCEPT ![x].at = "failed"]
  BY <1>2, <1>6, EvFailsIInv
<1>7. CASE /\ e.names \ e.hashed # {} /\ Cardinality(e.hashed) >= EvMaxFiles
           /\ evExp' = [evExp EXCEPT ![x].at = "audit", ![x].truncated = TRUE]
  <2>1. PICK r : r = [e EXCEPT !.at = "audit", !.truncated = TRUE]
    OBVIOUS
  <2>2. evExp' = [evExp EXCEPT ![x] = r]
    BY <1>1, <1>7, <2>1
  <2>3. /\ r \in EvExport /\ r.there = e.there /\ r.out = e.out /\ r.offset = e.offset /\ r.capped = e.capped
        /\ r.files = e.files /\ r.hashed = e.hashed /\ r.at = "audit" /\ r.truncated = TRUE
    BY <1>3, <2>1 DEF EvExport
  <2>4. Cardinality(e.hashed) = EvMaxFiles
    <3>1. e.hashed \subseteq EvFiles
      BY <1>3 DEF EvExport
    <3>2. Cardinality(e.hashed) \in Nat
      BY <3>1, EvidenceAssumption, FS_Subset, FS_CardinalityType
    <3> QED
      BY <1>3, <1>7, <3>2, EvidenceAssumption
  <2> QED
    BY <1>1, <1>2, <2>2, <2>3, <2>4, EvHashStays
<1>8. ASSUME NEW names \in SUBSET EvFiles, e.files \subseteq names,
             evExp' = [evExp EXCEPT ![x].names = names]
      PROVE  EvIInv'
  <2>1. PICK r : r = [e EXCEPT !.names = names]
    OBVIOUS
  <2>2. evExp' = [evExp EXCEPT ![x] = r]
    BY <1>1, <1>8, <2>1
  <2>3. /\ r \in EvExport /\ r.there = e.there /\ r.out = e.out /\ r.offset = e.offset /\ r.capped = e.capped
        /\ r.files = e.files /\ r.hashed = e.hashed /\ r.at = "hash" /\ r.truncated = e.truncated
        /\ r.names = names
    BY <1>2, <1>3, <2>1 DEF EvExport
  <2> QED
    BY <1>1, <1>2, <1>3, <1>8, <2>2, <2>3, EvHashStays
<1>9. ASSUME NEW f \in (e.names \ e.hashed) \ evPresent, evExp' = [evExp EXCEPT ![x].names = e.names \ {f}]
      PROVE  EvIInv'
  <2>1. e.names \ {f} \in SUBSET EvFiles /\ e.files \subseteq e.names \ {f}
    BY <1>3, <1>9 DEF EvExport
  <2> QED
    BY <1>8, <1>9, <2>1
<1>10. ASSUME NEW f \in evPresent \ e.names, evExp' = [evExp EXCEPT ![x].names = e.names \cup {f}]
       PROVE  EvIInv'
  <2>1. e.names \cup {f} \in SUBSET EvFiles /\ e.files \subseteq e.names \cup {f}
    BY <1>3, <1>10 DEF EvExport
  <2> QED
    BY <1>8, <1>10, <2>1
<1>11. \/ e.names \ e.hashed = {} /\ evExp' = [evExp EXCEPT ![x].at = "audit"]
       \/ /\ e.names \ e.hashed # {} /\ Cardinality(e.hashed) >= EvMaxFiles
          /\ evExp' = [evExp EXCEPT ![x].at = "audit", ![x].truncated = TRUE]
       \/ \E f \in (e.names \ e.hashed) \cap evPresent :
            Cardinality(e.hashed) < EvMaxFiles /\ evExp' = [evExp EXCEPT ![x].hashed = e.hashed \cup {f}]
       \/ evExp' = [evExp EXCEPT ![x].at = "failed"]
       \/ \E f \in (e.names \ e.hashed) \ evPresent : evExp' = [evExp EXCEPT ![x].names = e.names \ {f}]
       \/ \E f \in evPresent \ e.names : evExp' = [evExp EXCEPT ![x].names = e.names \cup {f}]
  BY <1>1 DEF EvHash
<1>12. Cardinality(e.hashed) < EvMaxFiles => ~(Cardinality(e.hashed) >= EvMaxFiles)
  <2>1. e.hashed \subseteq EvFiles
    BY <1>3 DEF EvExport
  <2>2. Cardinality(e.hashed) \in Nat
    BY <2>1, EvidenceAssumption, FS_Subset, FS_CardinalityType
  <2> QED
    BY <2>2, EvidenceAssumption
<1> QED
  BY <1>4, <1>5, <1>6, <1>7, <1>9, <1>10, <1>11, <1>12

LEMMA EvBreakIInv ==
  ASSUME EvIInv, NEW x \in EvExports, EvBreak(x)
  PROVE  EvIInv'
<1>1. UNCHANGED <<evRows, evUsed, evPresent, evStatus>> /\ evExp' = [evExp EXCEPT ![x].at = "failed"]
  BY DEF EvBreak
<1> QED
  BY <1>1, EvFailsIInv

LEMMA EvHandOutIInv ==
  ASSUME EvIInv, NEW x \in EvExports, EvHandOut(x)
  PROVE  EvIInv'
<1>1. PICK e : e = evExp[x]
  OBVIOUS
<1>2. /\ e.at = "sign" /\ UNCHANGED <<evPresent, evStatus>>
      /\ evExp' = [evExp EXCEPT ![x].at = "handed"]
  BY <1>1 DEF EvHandOut
<1>3. e \in EvExport /\ EvExportOK(e, evRows, evPresent)
  BY <1>1 DEF EvIInv, EvTypeOK
<1>4. PICK r : r = [e EXCEPT !.at = "handed"]
  OBVIOUS
<1>5. evExp' = [evExp EXCEPT ![x] = r]
  BY <1>1, <1>2, <1>4
<1>6. /\ r \in EvExport /\ r.there = e.there /\ r.out = e.out /\ r.offset = e.offset /\ r.capped = e.capped
      /\ r.files = e.files /\ r.hashed = e.hashed /\ r.at = "handed" /\ r.truncated = e.truncated
  BY <1>3, <1>4 DEF EvExport
<1>7. EvExportOK(r, evRows, evPresent)
  BY <1>1, <1>2, <1>3, <1>6, EvGoesOn DEF EvExportOK, EvFilesOK
<1>8. /\ evRows \in [EvLists -> SUBSET EvStamps]
      /\ evRows' \in [EvLists -> SUBSET EvStamps] /\ evUsed' \in [EvLists -> SUBSET EvStamps]
      /\ \A l \in EvLists : evRows[l] \subseteq evRows'[l]
  BY DEF EvHandOut, EvIInv, EvTypeOK, EvLists
<1>9. ASSUME NEW y \in EvExports
      PROVE  evExp'[y] \in EvExport /\ EvExportOK(evExp'[y], evRows', evPresent)
  <2>1. PICK d : d = evExp'[y]
    OBVIOUS
  <2>2. d \in EvExport /\ EvExportOK(d, evRows, evPresent)
    BY <1>5, <1>6, <1>7, <2>1 DEF EvIInv, EvTypeOK
  <2>3. d.files \subseteq evPresent
    BY <2>2 DEF EvExportOK, EvFilesOK
  <2> QED
    BY <1>8, <2>1, <2>2, <2>3, EvGrows
<1>10. evExp' \in [EvExports -> EvExport]
  BY <1>5, <1>6 DEF EvIInv, EvTypeOK
<1>11. EvTypeOK'
  BY <1>2, <1>8, <1>10 DEF EvIInv, EvTypeOK
<1> QED
  BY <1>2, <1>9, <1>11 DEF EvIInv

LEMMA EvNextIInv ==
  ASSUME EvIInv, [EvNext]_evVars
  PROVE  EvIInv'
<1>1. ASSUME NEW x \in EvExports, EvListRuns(x) PROVE EvIInv'
  BY <1>1, EvTakePageIInv DEF EvListRuns, EvLists
<1>2. ASSUME NEW x \in EvExports, EvListAudit(x) PROVE EvIInv'
  BY <1>2, EvTakePageIInv DEF EvListAudit, EvLists
<1>3. CASE UNCHANGED evVars
  BY <1>3 DEF evVars, EvIInv, EvTypeOK
<1> QED
  BY <1>1, <1>2, <1>3, EvSessionIInv, EvRetainIInv, EvArriveIInv, EvWalkIInv, EvHashIInv, EvHandOutIInv,
     EvBreakIInv DEF EvNext

\* The initial states satisfy the invariant.
LEMMA EvInitIInv == EvInit => EvIInv
<1> SUFFICES ASSUME EvInit PROVE EvIInv
  OBVIOUS
<1>1. EvNothing \in [EvLists -> SUBSET EvStamps] /\ \A l \in EvLists : EvNothing[l] = {}
  BY DEF EvNothing
<1>2. PICK e : e = [at |-> "new", status |-> "running", out |-> EvNothing, offset |-> 0, taken |-> 0,
                    capped |-> {}, names |-> {}, hashed |-> {}, there |-> EvNothing, files |-> {},
                    removed |-> FALSE, truncated |-> FALSE]
  OBVIOUS
<1>3. 0 \in Nat /\ {} \in SUBSET EvLists /\ {} \in SUBSET EvFiles
  BY EvidenceAssumption
<1>4. e \in EvExport
  BY <1>1, <1>2, <1>3 DEF EvExport
<1>5. /\ e.at = "new" /\ e.out = EvNothing /\ e.there = EvNothing /\ e.offset = 0 /\ e.files = {}
      /\ Cardinality(e.hashed) = 0 /\ e.truncated = FALSE
  BY <1>2, FS_EmptySet
<1>6. \A x \in EvExports : evExp[x] = e
  BY <1>2 DEF EvInit
<1>7. EvTypeOK
  <2>1. evExp \in [EvExports -> EvExport]
    BY <1>2, <1>4 DEF EvInit
  <2> QED
    BY <1>1, <2>1 DEF EvInit, EvTypeOK
<1>8. EvExportOK(e, evRows, evPresent)
  <2>1. EvInOrder(e) /\ EvThrough(e) /\ EvFilesOK(e, evPresent)
    BY <1>1, <1>5, EvidenceAssumption DEF EvInOrder, EvThrough, EvFilesOK
  <2>2. EvAhead(e, evRows)
    BY <1>5 DEF EvAhead, EvLists
  <2> QED
    BY <1>1, <1>5, <2>1, <2>2 DEF EvExportOK
<1> QED
  BY <1>6, <1>7, <1>8 DEF EvIInv

\* What the invariant says of the property.
LEMMA EvIInvImplies == EvIInv => EvTypeOK /\ EvNoGap
<1> SUFFICES ASSUME EvIInv, NEW x \in EvExports, evExp[x].at = "handed"
             PROVE  /\ evExp[x].truncated \/ evExp[x].files \subseteq evExp[x].hashed
                    /\ evExp[x].truncated => Cardinality(evExp[x].hashed) = EvMaxFiles
                    /\ \A l \in EvLists : \A k \in evExp[x].there[l] \ evExp[x].out[l] :
                         l \in evExp[x].capped /\ \A j \in evExp[x].out[l] : k < j
  BY DEF EvNoGap, EvIInv
<1>1. EvExportOK(evExp[x], evRows, evPresent)
  BY DEF EvIInv
<1> QED
  BY <1>1 DEF EvExportOK, EvInOrder, EvThrough, EvFilesOK, EvLists

\* What there was when an export began and is still there is in the pack that is
\* handed out, unless its list was capped, and then it is older than all that is;
\* a file is left out only of a pack that holds MaxFiles of them and says so.
THEOREM PacksHaveNoGap == EvSpec => [](EvTypeOK /\ EvNoGap)
<1>1. EvInit => EvIInv
  BY EvInitIInv
<1>2. EvIInv /\ [EvNext]_evVars => EvIInv'
  BY EvNextIInv
<1>3. EvIInv => EvTypeOK /\ EvNoGap
  BY EvIInvImplies
<1> QED
  BY <1>1, <1>2, <1>3, PTL DEF EvSpec

-----------------------------------------------------------------------------
(* The components side by side *)

\* The component that moves keeps its own inductive invariant.
RcIInv ==
  /\ part \in Parts
  /\ part = "checkpoints" => CkIInv
  /\ part = "stores" => StIInv
  /\ part = "files" => FlIInv
  /\ part = "costs" => CoIInv /\ CoMoney
  /\ part = "reports" => CrIInv
  /\ part = "templates" => TeIInv
  /\ part = "missions" => MiIInv
  /\ part = "evidence" => EvIInv
  /\ part = "verdicts" => VeIInv
  /\ part = "messages" => HbIInv
  /\ part = "graph" => HgIInv
  /\ part = "export" => AxIInv

\* Each component starts in its own initial states.
LEMMA RcInitIInv == RecordsInit => RcIInv
<1> SUFFICES ASSUME RecordsInit PROVE RcIInv
  OBVIOUS
<1>1. CkIInv /\ StIInv /\ FlIInv /\ CoIInv /\ CrIInv /\ TeIInv
  BY CkInitIInv, StInitIInv, FlInitIInv, CoInitIInv, CrInitIInv, TeInitIInv DEF RecordsInit
<1>2. MiIInv /\ EvIInv /\ VeIInv /\ HbIInv /\ HgIInv /\ AxIInv
  BY MiInitIInv, EvInitIInv, VeInitIInv, HbInitIInv, HgInitIInv, AxInitIInv DEF RecordsInit
<1>3. CoMoney
  BY DEF RecordsInit, CoInit, CoMoney
<1>4. part \in Parts
  BY DEF RecordsInit
<1> QED
  BY <1>1, <1>2, <1>3, <1>4 DEF RcIInv

\* A step is one of the component that moves.
LEMMA RcMoves ==
  ASSUME [RecordsNext]_recordsVars
  PROVE  /\ part' = part
         /\ part = "checkpoints" => [CkNext]_ckVars
         /\ part = "stores" => [StNext]_stVars
         /\ part = "files" => [FlNext]_flVars
         /\ part = "costs" => [CoNext]_coVars
         /\ part = "reports" => [CrNext]_crVars
         /\ part = "templates" => [TeNext]_teVars
         /\ part = "missions" => [MiNext]_miVars
         /\ part = "evidence" => [EvNext]_evVars
         /\ part = "verdicts" => [VeNext]_veVars
         /\ part = "messages" => [HbNext]_hbVars
         /\ part = "graph" => [HgNext]_hgVars
         /\ part = "export" => [AxNext]_axVars
<1>1. CASE UNCHANGED recordsVars
  BY <1>1 DEF recordsVars, hbVars, hgVars
<1>2. CASE RecordsNext
  BY <1>2 DEF RecordsNext, OthersRest
<1> QED
  BY <1>1, <1>2

LEMMA RcNextIInv == RcIInv /\ [RecordsNext]_recordsVars => RcIInv'
<1> SUFFICES ASSUME RcIInv, [RecordsNext]_recordsVars
             PROVE  RcIInv'
  OBVIOUS
<1>1. part' = part /\ part \in Parts
  BY RcMoves DEF RcIInv
<1>2. /\ part = "checkpoints" => CkIInv'
      /\ part = "stores" => StIInv'
      /\ part = "files" => FlIInv'
      /\ part = "costs" => CoIInv' /\ CoMoney'
      /\ part = "reports" => CrIInv'
      /\ part = "templates" => TeIInv'
  BY RcMoves, CkNextIInv, StNextIInv, FlNextIInv, CoNextIInv, CoMoneyNext, CrNextIInv, TeNextIInv DEF RcIInv
<1>3. /\ part = "missions" => MiIInv'
      /\ part = "evidence" => EvIInv'
      /\ part = "verdicts" => VeIInv'
      /\ part = "messages" => HbIInv'
      /\ part = "graph" => HgIInv'
      /\ part = "export" => AxIInv'
  BY RcMoves, MiNextIInv, EvNextIInv, VeNextIInv, HbNextIInv, HgNextIInv, AxNextIInv DEF RcIInv
<1> QED
  BY <1>1, <1>2, <1>3 DEF RcIInv, Parts

\* A component's types are part of its invariant, also side by side.
LEMMA RcTypes == RcIInv => RecordsTypeOK
<1> SUFFICES ASSUME RcIInv PROVE RecordsTypeOK
  OBVIOUS
<1>1. /\ part = "checkpoints" => CkTypeOK
      /\ part = "stores" => StTypeOK
      /\ part = "files" => FlTypeOK
      /\ part = "costs" => CoTypeOK
      /\ part = "reports" => CrTypeOK
      /\ part = "templates" => TeTypeOK
  BY DEF RcIInv, CkIInv, StIInv, FlIInv, CoIInv, CoTypes, CoMoney, CoTypeOK, CrIInv, TeIInv
<1>2. /\ part = "missions" => MiTypeOK
      /\ part = "evidence" => EvTypeOK
      /\ part = "verdicts" => VeTypeOK
      /\ part = "messages" => HbTypeOK
      /\ part = "graph" => HgTypeOK
      /\ part = "export" => AxTypeOK
  BY MiIInvType, HbIInvImplies DEF RcIInv, MiIInv, EvIInv, VeIInv, HgIInv, AxIInv
<1>3. part \in Parts
  BY DEF RcIInv
<1>4. CASE part = "checkpoints"
  BY <1>1, <1>3, <1>4 DEF RecordsTypeOK
<1>5. CASE part = "stores"
  BY <1>1, <1>3, <1>5 DEF RecordsTypeOK
<1>6. CASE part = "files"
  BY <1>1, <1>3, <1>6 DEF RecordsTypeOK
<1>7. CASE part = "costs"
  BY <1>1, <1>3, <1>7 DEF RecordsTypeOK
<1>8. CASE part = "reports"
  BY <1>1, <1>3, <1>8 DEF RecordsTypeOK
<1>9. CASE part = "templates"
  BY <1>1, <1>3, <1>9 DEF RecordsTypeOK
<1>10. CASE part = "missions"
  BY <1>2, <1>3, <1>10 DEF RecordsTypeOK
<1>11. CASE part = "evidence"
  BY <1>2, <1>3, <1>11 DEF RecordsTypeOK
<1>12. CASE part = "verdicts"
  BY <1>2, <1>3, <1>12 DEF RecordsTypeOK
<1>13. CASE part = "messages"
  BY <1>2, <1>3, <1>13 DEF RecordsTypeOK
<1>14. CASE part = "graph"
  BY <1>2, <1>3, <1>14 DEF RecordsTypeOK
<1>15. CASE part = "export"
  BY <1>2, <1>3, <1>15 DEF RecordsTypeOK
<1> QED
  BY <1>3, <1>4, <1>5, <1>6, <1>7, <1>8, <1>9, <1>10, <1>11, <1>12, <1>13, <1>14, <1>15
     DEF Parts

\* A component that keeps rows or blobs keeps its types for any sizes.
THEOREM RecordsKeepTypes == RecordsSpec => []RecordsTypeOK
<1> QED
  BY RcInitIInv, RcNextIInv, RcTypes, PTL DEF RecordsSpec

\* A sealed verdict belongs to its run, a metric read back verifies and a cost
\* report adds up for its caller, messages and edges are of agents that were
\* there, and the export of the audit log skips nothing (internal/verify,
\* internal/cost, internal/collab, internal/siemexport).
THEOREM AccountsAreTruthful == RecordsSpec => []AccountsTruthful
<1>1. RcIInv => AccountsTruthful
  <2> SUFFICES ASSUME RcIInv PROVE AccountsTruthful
    OBVIOUS
  <2>1. part = "verdicts" => VeVerdictBelongs
    BY VeIInvImplies DEF RcIInv
  <2>2. part = "reports" => CrMetricsVerify /\ CrReportsAgree
    BY CrIInvImplies DEF RcIInv
  <2>3. part = "messages" => HbOfAgents
    BY HbIInvImplies DEF RcIInv
  <2>4. part = "graph" => HgOfAgents
    BY HgIInvImplies DEF RcIInv
  <2>5. part = "export" => AxNoneSkipped
    BY DEF RcIInv, AxIInv
  <2> QED
    BY <2>1, <2>2, <2>3, <2>4, <2>5 DEF AccountsTruthful
<1> QED
  BY <1>1, RcInitIInv, RcNextIInv, PTL DEF RecordsSpec
=============================================================================
