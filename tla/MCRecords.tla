------------------------------ MODULE MCRecords -----------------------------
(***************************************************************************)
(* The components that keep rows, archives and blobs, checked side by side: *)
(* they share no state with each other, so a behaviour is one of a single   *)
(* component, and the others rest in their initial states.  Messages and    *)
(* edges build on the same joins.                                           *)
(***************************************************************************)
EXTENDS Checkpoints, Stores, FileList, Costs, CostReports, Templates, Missions,
  Evidence, Verification, CollabHub, CollabGraph, AuditExport

VARIABLE part \* the component that moves

Parts == {"checkpoints", "stores", "files", "costs", "reports", "templates", "missions",
          "evidence", "verdicts", "messages", "graph", "export"}

recordsVars == <<part, ckVars, stVars, flVars, coVars, crVars, teVars, miVars, evVars,
  veVars, hbOwn, hgOwn, axVars, clVars>>

RecordsInit ==
  /\ part \in Parts
  /\ CkInit /\ StInit /\ FlInit /\ CoInit /\ CrInit /\ TeInit /\ MiInit /\ EvInit /\ VeInit
  /\ HbInit /\ HgInit /\ AxInit
  /\ part # "evidence" => evPresent = {}  \* one initial state for the others
  /\ part # "verdicts" => ~veFile
  /\ part # "export" => axChained

OthersRest ==
  /\ UNCHANGED part
  /\ IF part = "checkpoints" THEN TRUE ELSE UNCHANGED ckVars
  /\ IF part = "stores" THEN TRUE ELSE UNCHANGED stVars
  /\ IF part = "files" THEN TRUE ELSE UNCHANGED flVars
  /\ IF part = "costs" THEN TRUE ELSE UNCHANGED coVars
  /\ IF part = "reports" THEN TRUE ELSE UNCHANGED crVars
  /\ IF part = "templates" THEN TRUE ELSE UNCHANGED teVars
  /\ IF part = "missions" THEN TRUE ELSE UNCHANGED miVars
  /\ IF part = "evidence" THEN TRUE ELSE UNCHANGED evVars
  /\ IF part = "verdicts" THEN TRUE ELSE UNCHANGED veVars
  /\ IF part = "messages" THEN TRUE ELSE UNCHANGED hbOwn
  /\ IF part = "graph" THEN TRUE ELSE UNCHANGED hgOwn
  /\ IF part = "export" THEN TRUE ELSE UNCHANGED axVars
  /\ IF part \in {"messages", "graph"} THEN TRUE ELSE UNCHANGED clVars

RecordsNext ==
  \/ part = "checkpoints" /\ OthersRest /\ CkNext
  \/ part = "stores" /\ OthersRest /\ StNext
  \/ part = "files" /\ OthersRest /\ FlNext
  \/ part = "costs" /\ OthersRest /\ CoNext
  \/ part = "reports" /\ OthersRest /\ CrNext
  \/ part = "templates" /\ OthersRest /\ TeNext
  \/ part = "missions" /\ OthersRest /\ MiNext
  \/ part = "evidence" /\ OthersRest /\ EvNext
  \/ part = "verdicts" /\ OthersRest /\ VeNext
  \/ part = "messages" /\ OthersRest /\ HbNext
  \/ part = "graph" /\ OthersRest /\ HgNext
  \/ part = "export" /\ OthersRest /\ AxNext

RecordsSpec == RecordsInit /\ [][RecordsNext]_recordsVars

\* The variables of the component that moves keep their types.
RecordsTypeOK ==
  /\ part \in Parts
  /\ CASE part = "checkpoints" -> CkTypeOK
       [] part = "stores" -> StTypeOK
       [] part = "files" -> FlTypeOK
       [] part = "costs" -> CoTypeOK
       [] part = "reports" -> CrTypeOK
       [] part = "templates" -> TeTypeOK
       [] part = "missions" -> MiTypeOK
       [] part = "evidence" -> EvTypeOK
       [] part = "verdicts" -> VeTypeOK
       [] part = "messages" -> HbTypeOK
       [] part = "graph" -> HgTypeOK
       [] part = "export" -> AxTypeOK

\* What a caller is shown was earned: a sealed verdict belongs to its run, a
\* metric read back verifies and a cost report adds up for its caller, messages
\* and edges are of agents that were there, and the export of the audit log
\* skips nothing.
AccountsTruthful ==
  /\ part = "verdicts" => VeVerdictBelongs
  /\ part = "reports" => CrMetricsVerify /\ CrReportsAgree
  /\ part = "messages" => HbOfAgents
  /\ part = "graph" => HgOfAgents
  /\ part = "export" => AxNoneSkipped
=============================================================================
