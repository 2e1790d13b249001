-------------------------------- MODULE Missions --------------------------------
(***************************************************************************)
(* Missions (internal/missions, cmd/api/handlers/missions.go): playbooks,   *)
(* the runs recorded of them, and what a run's session cost.  Every change  *)
(* is a read, a decision, and one statement.  Callers are authorised.       *)
(***************************************************************************)
EXTENDS FiniteSets, Naturals

CONSTANTS
  MiClients,  \* requests under way at once
  MiIds,      \* missions ever made; all ask for the same slug
  MiRuns,     \* runs ever recorded
  MiMaxCost   \* bound: what a session costs

ASSUME MissionsAssumption == MiMaxCost \in Nat /\ IsFiniteSet(MiRuns)

VARIABLES
  miRows,   \* missions: published and use_count
  miRunRow, \* mission_runs, and the cost attributed to each
  miAt,     \* what each request has read and does next
  miCost    \* the sum of cost_metrics of the session all runs share

miVars == <<miRows, miRunRow, miAt, miCost>>

\* Statuses: pending and running are open, the four others are over.
MiStatuses == {"open", "over"}
MiNone == [state |-> "never"]
MiGone == [state |-> "deleted"]
MiIdle == [step |-> "idle"]
MiUnpriced == MiMaxCost + 1

MiRow == [state : {"there"}, published : BOOLEAN, uses : 0..Cardinality(MiRuns)]
MiRunRows == [state : {"there"}, mission : MiIds, session : BOOLEAN, status : MiStatuses,
              finished : BOOLEAN, cost : 0..MiUnpriced]

MiTypeOK ==
  /\ miRows \in [MiIds -> MiRow \cup {MiNone, MiGone}]
  /\ \A r \in MiRuns : miRunRow[r] \in MiRunRows \cup {MiNone, MiGone}
  /\ \A c \in MiClients :
       \/ miAt[c] \in {MiIdle, [step |-> "insert"]}
       \/ miAt[c] \in [step : {"update"}, id : MiIds, published : BOOLEAN]
       \/ miAt[c] \in [step : {"record"}, id : MiIds]
       \/ miAt[c] \in [step : {"change"}, run : MiRuns, status : MiStatuses]
       \/ miAt[c] \in [step : {"sum"}, run : MiRuns]
       \/ miAt[c] \in [step : {"upsert"}, run : MiRuns, cost : 0..MiMaxCost]
  /\ miCost \in 0..MiMaxCost

MiInit ==
  /\ miRows = [i \in MiIds |-> MiNone] /\ miRunRow = [r \in MiRuns |-> MiNone]
  /\ miAt = [c \in MiClients |-> MiIdle] /\ miCost = 0

MiThere(i) == miRows[i].state = "there"
MiRecorded(r) == miRunRow[r].state = "there"
MiSlugTaken == \E i \in MiIds : MiThere(i)
MiIs(c, step) == miAt[c].step = step
MiDoes(c, next) == miAt' = [miAt EXCEPT ![c] = next]

\* A statement may fail at any time, and the request with it.
MiFail(c) ==
  /\ miAt[c] # MiIdle /\ MiDoes(c, MiIdle)
  /\ UNCHANGED <<miRows, miRunRow, miCost>>

-----------------------------------------------------------------------------
(* Missions: Create, Update, Delete. *)

MiCreate(c) ==
  /\ MiIs(c, "idle") /\ ~MiSlugTaken /\ MiDoes(c, [step |-> "insert"])
  /\ UNCHANGED <<miRows, miRunRow, miCost>>

\* The slug is unique: of two creates one is refused.
MiInsert(c) ==
  /\ MiIs(c, "insert") /\ MiDoes(c, MiIdle)
  /\ \/ MiSlugTaken /\ UNCHANGED miRows
     \/ /\ ~MiSlugTaken
        /\ \E i \in MiIds, p \in BOOLEAN :
             /\ miRows[i] = MiNone
             /\ miRows' = [miRows EXCEPT ![i] = [state |-> "there", published |-> p, uses |-> 0]]
  /\ UNCHANGED <<miRunRow, miCost>>

MiGet(c, i) ==
  /\ MiIs(c, "idle") /\ MiThere(i)
  /\ MiDoes(c, [step |-> "update", id |-> i, published |-> miRows[i].published])
  /\ UNCHANGED <<miRows, miRunRow, miCost>>

MiPublish(i, p) == miRows' = [miRows EXCEPT ![i].published = p]

\* Update writes back every column it read but use_count, the named ones changed.
MiUpdate(c) ==
  /\ MiIs(c, "update") /\ MiDoes(c, MiIdle)
  /\ LET i == miAt[c].id IN
       \/ ~MiThere(i) /\ UNCHANGED miRows
       \/ MiThere(i) /\ MiPublish(i, miAt[c].published)
       \/ MiThere(i) /\ \E p \in BOOLEAN : MiPublish(i, p)
  /\ UNCHANGED <<miRunRow, miCost>>

\* The runs and their costs go with the mission.
MiDrop(i) ==
  /\ miRows' = [miRows EXCEPT ![i] = MiGone]
  /\ miRunRow' = [r \in MiRuns |->
       IF MiRecorded(r) /\ miRunRow[r].mission = i THEN MiGone ELSE miRunRow[r]]

MiDelete(i) == MiThere(i) /\ MiDrop(i) /\ UNCHANGED <<miAt, miCost>>

-----------------------------------------------------------------------------
(* Runs: RecordRun, UpdateRun. *)

MiGetForRun(c, i) ==
  /\ MiIs(c, "idle") /\ MiThere(i) /\ MiDoes(c, [step |-> "record", id |-> i])
  /\ UNCHANGED <<miRows, miRunRow, miCost>>

\* The handler records a run as "recorded", which is over; a trigger counts it.
MiRecordRun(c) ==
  /\ MiIs(c, "record") /\ MiDoes(c, MiIdle)
  /\ LET i == miAt[c].id IN
       \/ ~MiThere(i) /\ UNCHANGED <<miRows, miRunRow>>
       \/ \E r \in MiRuns, session \in BOOLEAN :
            /\ MiThere(i) /\ miRunRow[r] = MiNone
            /\ miRunRow' = [miRunRow EXCEPT ![r] =
                 [state |-> "there", mission |-> i, session |-> session, status |-> "over",
                  finished |-> TRUE, cost |-> MiUnpriced]]
            /\ miRows' = [miRows EXCEPT ![i].uses = @ + 1]
  /\ UNCHANGED <<miCost>>

MiGetRun(c, r) ==
  /\ MiIs(c, "idle") /\ MiRecorded(r)
  /\ MiDoes(c, [step |-> "change", run |-> r, status |-> miRunRow[r].status])
  /\ UNCHANGED <<miRows, miRunRow, miCost>>

\* A mutant: the columns the request does not name are left as they are.
MiStatusKept(c) == miRunRow[miAt[c].run].status

\* The status written when the request names none: the one that was read.
MiStatus(c) == miAt[c].status

\* UpdateRun: an over run keeps or gets its finishing time, an open one loses it.
MiUpdateRun(c) ==
  /\ MiIs(c, "change")
  /\ LET r == miAt[c].run IN
       /\ IF MiRecorded(r)
          THEN \/ \E status \in MiStatuses :
                    miRunRow' = [miRunRow EXCEPT ![r].status = status,
                                                 ![r].finished = status = "over"]
               \/ miRunRow' = [miRunRow EXCEPT ![r].status = MiStatus(c),
                                               ![r].finished = miAt[c].status = "over"]
          ELSE UNCHANGED miRunRow
       /\ \/ MiDoes(c, MiIdle)
          \/ MiRecorded(r) /\ miRunRow[r].session /\ MiDoes(c, [step |-> "sum", run |-> r])
  /\ UNCHANGED <<miRows, miCost>>

-----------------------------------------------------------------------------
(* AttributeRunCosts: the sum, then the upsert; each is a statement. *)

MiAttribute(c, r) ==
  /\ MiIs(c, "idle") /\ MiRecorded(r) /\ miRunRow[r].session
  /\ MiDoes(c, [step |-> "sum", run |-> r])
  /\ UNCHANGED <<miRows, miRunRow, miCost>>

MiSum(c) ==
  /\ MiIs(c, "sum")
  /\ MiDoes(c, [step |-> "upsert", run |-> miAt[c].run, cost |-> miCost])
  /\ UNCHANGED <<miRows, miRunRow, miCost>>

MiUpsert(c) ==
  /\ MiIs(c, "upsert") /\ MiDoes(c, MiIdle)
  /\ IF MiRecorded(miAt[c].run)
     THEN miRunRow' = [miRunRow EXCEPT ![miAt[c].run].cost = miAt[c].cost]
     ELSE UNCHANGED miRunRow
  /\ UNCHANGED <<miRows, miCost>>

\* The tracker adds a metric of the session.
MiAccrue ==
  /\ miCost < MiMaxCost /\ miCost' = miCost + 1
  /\ UNCHANGED <<miRows, miRunRow, miAt>>

MiNext ==
  \/ MiAccrue
  \/ \E i \in MiIds : MiDelete(i)
  \/ \E c \in MiClients :
       \/ MiCreate(c) \/ MiInsert(c) \/ MiUpdate(c) \/ MiRecordRun(c) \/ MiUpdateRun(c)
       \/ MiSum(c) \/ MiUpsert(c) \/ MiFail(c)
       \/ \E i \in MiIds : MiGet(c, i) \/ MiGetForRun(c, i)
       \/ \E r \in MiRuns : MiGetRun(c, r) \/ MiAttribute(c, r)

MiSpec == MiInit /\ [][MiNext]_miVars

-----------------------------------------------------------------------------
(* Properties. *)

\* What is recorded of a mission agrees: finished_at is set exactly on the runs
\* that are over, and use_count counts the runs, whatever updates overlap.
MiRecordsAgree ==
  /\ \A r \in MiRuns :
       MiRecorded(r) => (miRunRow[r].finished <=> miRunRow[r].status = "over")
  /\ \A i \in MiIds : MiThere(i) =>
       miRows[i].uses
         = Cardinality({r \in MiRuns : MiRecorded(r) /\ miRunRow[r].mission = i})
=============================================================================
