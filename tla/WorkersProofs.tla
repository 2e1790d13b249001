---------------------------- MODULE WorkersProofs ----------------------------
(***************************************************************************)
(* Proofs about the components on a host and beside the API side by side:  *)
(* the one that moves keeps the inductive invariant that TasksProofs or    *)
(* HostProofs gives it.                                                    *)
(***************************************************************************)
EXTENDS MCWorkers, TasksProofs, HostProofs

-----------------------------------------------------------------------------
(* The components side by side *)

\* The component that moves keeps its own inductive invariant.
WkIInv ==
  /\ part \in Parts
  /\ part = "host" => HtIInv
  /\ part = "egress" => EgIInv
  /\ part = "runs" => SrIInv
  /\ part = "tasks" => TkIInv
  /\ part = "ci" => CiIInv
  /\ part = "limits" => LiIInv
  /\ part = "gateway" => GwIInv /\ GwSized
  /\ part = "access" => AcIInv
  /\ part = "http" => MhIInv
  /\ part = "github" => GrIInv
  /\ part = "memory" => TmIInv
  /\ part = "streams" => RdIInv

\* Each component starts in its own initial states.
LEMMA WkInitIInv == WorkersInit => WkIInv
<1> SUFFICES ASSUME WorkersInit PROVE WkIInv
  OBVIOUS
<1>1. HtIInv /\ EgIInv /\ SrIInv /\ TkIInv /\ CiIInv /\ LiIInv
  BY HtInitIInv, EgInitIInv, SrInitIInv, TkInitIInv, CiInitIInv, LiInitIInv DEF WorkersInit
<1>2. GwIInv /\ GwSized /\ AcIInv /\ MhIInv /\ GrIInv /\ TmIInv /\ RdIInv
  BY GwInitIInv, GwInitSized, AcInitIInv, MhInitIInv, GrInitIInv, TmInitIInv, RdInitIInv
     DEF WorkersInit
<1>3. part \in Parts
  BY DEF WorkersInit
<1> QED
  BY <1>1, <1>2, <1>3 DEF WkIInv

\* A step is one of the component that moves.
LEMMA WkMoves ==
  ASSUME [WorkersNext]_workersVars
  PROVE  /\ part' = part
         /\ part = "host" => [HtNext]_htVars
         /\ part = "egress" => [EgNext]_egVars
         /\ part = "runs" => [SrNext]_srVars
         /\ part = "tasks" => [TkNext]_tkVars
         /\ part = "ci" => [CiNext]_ciVars
         /\ part = "limits" => [LiNext]_liVars
         /\ part = "gateway" => [GwNext]_gwVars
         /\ part = "access" => [AcNext]_acVars
         /\ part = "http" => [MhNext]_mhVars
         /\ part = "github" => [GrNext]_grVars
         /\ part = "memory" => [TmNext]_tmVars
         /\ part = "streams" => [RdNext]_rdVars
<1>1. CASE UNCHANGED workersVars
  BY <1>1 DEF workersVars
<1>2. CASE WorkersNext
  BY <1>2 DEF WorkersNext, OthersRest
<1> QED
  BY <1>1, <1>2

LEMMA WkNextIInv == WkIInv /\ [WorkersNext]_workersVars => WkIInv'
<1> SUFFICES ASSUME WkIInv, [WorkersNext]_workersVars
             PROVE  WkIInv'
  OBVIOUS
<1>1. part' = part /\ part \in Parts
  BY WkMoves DEF WkIInv
<1>2. /\ part = "host" => HtIInv'
      /\ part = "egress" => EgIInv'
      /\ part = "runs" => SrIInv'
      /\ part = "tasks" => TkIInv'
      /\ part = "ci" => CiIInv'
      /\ part = "limits" => LiIInv'
  BY WkMoves, HtNextIInv, EgNextIInv, SrNextIInv, TkNextIInv, CiNextIInv, LiNextIInv DEF WkIInv
<1>3. /\ part = "gateway" => GwIInv' /\ GwSized'
      /\ part = "access" => AcIInv'
      /\ part = "http" => MhIInv'
      /\ part = "github" => GrIInv'
      /\ part = "memory" => TmIInv'
      /\ part = "streams" => RdIInv'
  BY WkMoves, GwNextIInv, GwNextSized, AcNextIInv, MhNextIInv, GrNextIInv, TmNextIInv,
     RdNextIInv, RdSameIInv DEF WkIInv
<1> QED
  BY <1>1, <1>2, <1>3 DEF WkIInv, Parts

\* A component's types are part of its invariant, also side by side.
LEMMA WkTypes == WkIInv => WorkersTypeOK
<1> SUFFICES ASSUME WkIInv PROVE WorkersTypeOK
  OBVIOUS
<1>1. /\ part = "host" => HtTypeOK
      /\ part = "egress" => EgTypeOK
      /\ part = "runs" => SrTypeOK
      /\ part = "tasks" => TkTypeOK
      /\ part = "ci" => CiTypeOK
      /\ part = "limits" => LiTypeOK
  BY DEF WkIInv, HtIInv, EgIInv, SrIInv, TkIInv, CiIInv, LiIInv
<1>2. /\ part = "gateway" => GwTypeOK
      /\ part = "access" => AcTypeOK
      /\ part = "http" => MhTypeOK
      /\ part = "github" => GrTypeOK
      /\ part = "memory" => TmTypeOK
      /\ part = "streams" => RdTypeOK
  BY GwSizedTypes DEF WkIInv, AcIInv, MhIInv, GrIInv, TmIInv, TmType, RdIInv
<1>3. part \in Parts
  BY DEF WkIInv
<1>4. CASE part = "host"
  BY <1>1, <1>3, <1>4 DEF WorkersTypeOK
<1>5. CASE part = "egress"
  BY <1>1, <1>3, <1>5 DEF WorkersTypeOK
<1>6. CASE part = "runs"
  BY <1>1, <1>3, <1>6 DEF WorkersTypeOK
<1>7. CASE part = "tasks"
  BY <1>1, <1>3, <1>7 DEF WorkersTypeOK
<1>8. CASE part = "ci"
  BY <1>1, <1>3, <1>8 DEF WorkersTypeOK
<1>9. CASE part = "limits"
  BY <1>1, <1>3, <1>9 DEF WorkersTypeOK
<1>10. CASE part = "gateway"
  BY <1>2, <1>3, <1>10 DEF WorkersTypeOK
<1>11. CASE part = "access"
  BY <1>2, <1>3, <1>11 DEF WorkersTypeOK
<1>12. CASE part = "http"
  BY <1>2, <1>3, <1>12 DEF WorkersTypeOK
<1>13. CASE part = "github"
  BY <1>2, <1>3, <1>13 DEF WorkersTypeOK
<1>14. CASE part = "memory"
  BY <1>2, <1>3, <1>14 DEF WorkersTypeOK
<1>15. CASE part = "streams"
  BY <1>2, <1>3, <1>15 DEF WorkersTypeOK
<1> QED
  BY <1>3, <1>4, <1>5, <1>6, <1>7, <1>8, <1>9, <1>10, <1>11, <1>12, <1>13, <1>14, <1>15
     DEF Parts

\* A component that works on a host or beside the API keeps its types for any sizes.
THEOREM WorkersKeepTypes == WorkersSpec => []WorkersTypeOK
<1> QED
  BY WkInitIInv, WkNextIInv, WkTypes, PTL DEF WorkersSpec

\* Limiters and tiers hold back what exceeds them, the commands of a call run in
\* order in a cloned repository, and a stop reaches every task
\* (internal/ratelimit, sdk/mcp).
THEOREM CallsAreGuarded == WorkersSpec => []CallsGuarded
<1>1. WkIInv => CallsGuarded
  <2> SUFFICES ASSUME WkIInv PROVE CallsGuarded
    OBVIOUS
  <2>1. part = "limits" => LiBounded
    BY LiIInvBounds DEF WkIInv
  <2>2. part = "http" => MhWindowed
    BY MhIInvWindowed DEF WkIInv
  <2>3. part = "github" => GrInOrder
    BY DEF WkIInv, GrIInv
  <2>4. part = "memory" => TmStopsReach
    BY TmIInvReaches DEF WkIInv
  <2> QED
    BY <2>1, <2>2, <2>3, <2>4 DEF CallsGuarded
<1> QED
  BY <1>1, WkInitIInv, WkNextIInv, PTL DEF WorkersSpec
=============================================================================
