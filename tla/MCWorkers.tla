------------------------------ MODULE MCWorkers -----------------------------
(***************************************************************************)
(* The components that work on a host or beside the API, checked side by    *)
(* side: they share no state with each other, so a behaviour is one of a    *)
(* single component, and the others rest in their initial states.           *)
(***************************************************************************)
EXTENDS HostTools, Egress, SandboxRuns, McpTasks, CiRunner, Limits, Gateway, Access,
  McpHttp, GithubRuns, TaskMemory, Redactor

CONSTANTS byteX, byteY \* the bytes of an output

VARIABLE part \* the component that moves

Parts == {"host", "egress", "runs", "tasks", "ci", "limits", "gateway", "access",
          "http", "github", "memory", "streams"}

workersVars == <<part, htVars, egVars, srVars, tkVars, ciVars, liVars, gwVars, acVars,
  mhVars, grVars, tmVars, rdVars>>

WorkersInit ==
  /\ part \in Parts
  /\ HtInit /\ EgInit /\ SrInit /\ TkInit /\ CiInit /\ LiInit /\ GwInit /\ AcInit /\ MhInit
  /\ GrInit /\ TmInit /\ RdInit
  /\ part # "limits" => liKind = "bucket"  \* one initial state for the others
  /\ part # "streams" => rdValues = {} /\ rdLive

OthersRest ==
  /\ UNCHANGED part
  /\ IF part = "host" THEN TRUE ELSE UNCHANGED htVars
  /\ IF part = "egress" THEN TRUE ELSE UNCHANGED egVars
  /\ IF part = "runs" THEN TRUE ELSE UNCHANGED srVars
  /\ IF part = "tasks" THEN TRUE ELSE UNCHANGED tkVars
  /\ IF part = "ci" THEN TRUE ELSE UNCHANGED ciVars
  /\ IF part = "limits" THEN TRUE ELSE UNCHANGED liVars
  /\ IF part = "gateway" THEN TRUE ELSE UNCHANGED gwVars
  /\ IF part = "access" THEN TRUE ELSE UNCHANGED acVars
  /\ IF part = "http" THEN TRUE ELSE UNCHANGED mhVars
  /\ IF part = "github" THEN TRUE ELSE UNCHANGED grVars
  /\ IF part = "memory" THEN TRUE ELSE UNCHANGED tmVars
  /\ IF part = "streams" THEN TRUE ELSE UNCHANGED rdVars

WorkersNext ==
  \/ part = "host" /\ OthersRest /\ HtNext
  \/ part = "egress" /\ OthersRest /\ EgNext
  \/ part = "runs" /\ OthersRest /\ SrNext
  \/ part = "tasks" /\ OthersRest /\ TkNext
  \/ part = "ci" /\ OthersRest /\ CiNext
  \/ part = "limits" /\ OthersRest /\ LiNext
  \/ part = "gateway" /\ OthersRest /\ GwNext
  \/ part = "access" /\ OthersRest /\ AcNext
  \/ part = "http" /\ OthersRest /\ MhNext
  \/ part = "github" /\ OthersRest /\ GrNext
  \/ part = "memory" /\ OthersRest /\ TmNext
  \/ part = "streams" /\ OthersRest /\ RdNext

WorkersSpec == WorkersInit /\ [][WorkersNext]_workersVars

\* Values that begin with, overlap or contain each other or themselves, and one
\* that is too short to be a needle.
Words == {<<byteX>>, <<byteX, byteX>>, <<byteX, byteY>>, <<byteX, byteX, byteY>>,
          <<byteX, byteY, byteX>>, <<byteY, byteX, byteY>>}

\* The variables of the component that moves keep their types.
WorkersTypeOK ==
  /\ part \in Parts
  /\ CASE part = "host" -> HtTypeOK
       [] part = "egress" -> EgTypeOK
       [] part = "runs" -> SrTypeOK
       [] part = "tasks" -> TkTypeOK
       [] part = "ci" -> CiTypeOK
       [] part = "limits" -> LiTypeOK
       [] part = "gateway" -> GwTypeOK
       [] part = "access" -> AcTypeOK
       [] part = "http" -> MhTypeOK
       [] part = "github" -> GrTypeOK
       [] part = "memory" -> TmTypeOK
       [] part = "streams" -> RdTypeOK

\* Calls stay within what they were given: the four limiters and the tiers of
\* the MCP server hold back what exceeds them, the commands of a call run in
\* order in a cloned repository, and a stop reaches every task.
CallsGuarded ==
  /\ part = "limits" => LiBounded
  /\ part = "http" => MhWindowed
  /\ part = "github" => GrInOrder
  /\ part = "memory" => TmStopsReach
=============================================================================
