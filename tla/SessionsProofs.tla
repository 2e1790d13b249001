--------------------------- MODULE SessionsProofs ---------------------------
(* Proofs about Sessions, for every set of sessions and requests and every *)
(* bound on failures, crashes and calls.                                   *)
EXTENDS Sessions, FiniteSetTheorems, TLAPS

-----------------------------------------------------------------------------
(* The arithmetic of the quota: a set of counted creations and a set of    *)
(* open sessions, for every set of sessions, every quota and every degree  *)
(* of concurrency.                                                         *)

(* P holds the creations between their count and their insert, O the open  *)
(* sessions: what an actor is charged for is both together.                *)
Charged(P, O) ==
  \A a \in Actors :
    /\ Cardinality(P \cap SessionsOf(a)) <= Concurrency
    /\ Limited(a) => Cardinality((P \cup O) \cap SessionsOf(a))
                       < MaxSessionsPerActor + Concurrency

(* What the quota check of a creation finds. *)
Room(P, O, s) ==
  /\ Limited(Owner[s]) => Cardinality(O \cap SessionsOf(Owner[s])) < MaxSessionsPerActor
  /\ Cardinality(P \cap SessionsOf(Owner[s])) < Concurrency

(* Sets of sessions are finite and their sizes are ordered by inclusion. *)
LEMMA SubsetSize ==
  ASSUME NEW S \in SUBSET Sessions, NEW T \in SUBSET S
  PROVE  /\ IsFiniteSet(S)
         /\ Cardinality(S) \in Nat
         /\ Cardinality(T) \in Nat
         /\ Cardinality(T) <= Cardinality(S)
  <1>1. IsFiniteSet(S)
    BY FS_Subset, QuotaAssumption
  <1>2. IsFiniteSet(T) /\ Cardinality(T) <= Cardinality(S)
    BY <1>1, FS_Subset
  <1> QED
    BY <1>1, <1>2, FS_CardinalityType

(* A union is no larger than its parts. *)
LEMMA UnionSize ==
  ASSUME NEW S \in SUBSET Sessions, NEW T \in SUBSET Sessions
  PROVE  Cardinality(S \cup T) <= Cardinality(S) + Cardinality(T)
  <1>1. /\ IsFiniteSet(S) /\ IsFiniteSet(T)
        /\ Cardinality(S) \in Nat /\ Cardinality(T) \in Nat
    BY SubsetSize
  <1>2. Cardinality(S \cap T) \in Nat
    BY SubsetSize, S \cap T \in SUBSET S
  <1>3. Cardinality(S \cup T) = Cardinality(S) + Cardinality(T) - Cardinality(S \cap T)
    BY <1>1, FS_Union
  <1> QED
    BY <1>1, <1>2, <1>3

(* One more session adds at most one. *)
LEMMA AddSize ==
  ASSUME NEW S \in SUBSET Sessions, NEW s \in Sessions
  PROVE  Cardinality(S \cup {s}) <= Cardinality(S) + 1
  <1>1. IsFiniteSet(S) /\ Cardinality(S) \in Nat
    BY SubsetSize
  <1> QED
    BY <1>1, FS_AddElement

(* At the start nobody is charged. *)
LEMMA EmptyCharged == Charged({}, {})
  <1>1. \A a \in Actors : {} \cap SessionsOf(a) = {} /\ ({} \cup {}) \cap SessionsOf(a) = {}
    OBVIOUS
  <1> QED
    BY <1>1, FS_EmptySet, QuotaAssumption DEF Charged

(* A counted creation: the owner had room, and at most Concurrency - 1     *)
(* others of the same owner were between count and insert.                 *)
LEMMA AdmitCharged ==
  ASSUME NEW PP \in SUBSET Sessions, NEW OO \in SUBSET Sessions, NEW s \in Sessions,
         Charged(PP, OO), Room(PP, OO, s)
  PROVE  Charged(PP \cup {s}, OO)
  <1> SUFFICES ASSUME NEW a \in Actors
               PROVE  /\ Cardinality((PP \cup {s}) \cap SessionsOf(a)) <= Concurrency
                      /\ Limited(a) => Cardinality(((PP \cup {s}) \cup OO) \cap SessionsOf(a))
                                         < MaxSessionsPerActor + Concurrency
    BY DEF Charged
  <1> USE QuotaAssumption
  <1> DEFINE P == PP \cap SessionsOf(a)
  <1> DEFINE O == OO \cap SessionsOf(a)
  <1>1. P \in SUBSET Sessions /\ O \in SUBSET Sessions
    OBVIOUS
  <1>2. Cardinality(P) \in Nat /\ Cardinality(O) \in Nat
    BY <1>1, SubsetSize
  <1>3. CASE Owner[s] = a
    <2>1. (PP \cup {s}) \cap SessionsOf(a) = P \cup {s}
      BY <1>3 DEF SessionsOf
    <2>2. ((PP \cup {s}) \cup OO) \cap SessionsOf(a) = (P \cup {s}) \cup O
      BY <1>3 DEF SessionsOf
    <2>3. Cardinality(P) < Concurrency /\ (Limited(a) => Cardinality(O) < MaxSessionsPerActor)
      BY <1>3 DEF Room
    <2>4. P \cup {s} \in SUBSET Sessions /\ (P \cup {s}) \cup O \in SUBSET Sessions
      BY <1>1
    <2>5. Cardinality(P \cup {s}) \in Nat /\ Cardinality(P \cup {s}) <= Cardinality(P) + 1
      BY <1>1, <2>4, AddSize, SubsetSize
    <2>6. /\ Cardinality((P \cup {s}) \cup O) \in Nat
          /\ Cardinality((P \cup {s}) \cup O) <= Cardinality(P \cup {s}) + Cardinality(O)
      BY <1>1, <2>4, UnionSize, SubsetSize
    <2>7. Cardinality(P \cup {s}) <= Concurrency
      BY <1>2, <2>3, <2>5
    <2>8. Limited(a) => Cardinality((P \cup {s}) \cup O) < MaxSessionsPerActor + Concurrency
      BY <1>2, <2>3, <2>5, <2>6, <2>7
    <2> QED
      BY <2>1, <2>2, <2>7, <2>8
  <1>4. CASE Owner[s] # a
    <2>1. (PP \cup {s}) \cap SessionsOf(a) = PP \cap SessionsOf(a)
      BY <1>4 DEF SessionsOf
    <2>2. ((PP \cup {s}) \cup OO) \cap SessionsOf(a) = (PP \cup OO) \cap SessionsOf(a)
      BY <1>4 DEF SessionsOf
    <2> QED
      BY <2>1, <2>2 DEF Charged
  <1> QED
    BY <1>3, <1>4

(* Every other step only moves sessions out of what is charged. *)
LEMMA ShrinkCharged ==
  ASSUME NEW P \in SUBSET Sessions, NEW O \in SUBSET Sessions,
         NEW P2 \in SUBSET P, NEW O2, P2 \cup O2 \subseteq P \cup O,
         Charged(P, O)
  PROVE  Charged(P2, O2)
  <1> SUFFICES ASSUME NEW a \in Actors
               PROVE  /\ Cardinality(P2 \cap SessionsOf(a)) <= Concurrency
                      /\ Limited(a) => Cardinality((P2 \cup O2) \cap SessionsOf(a))
                                         < MaxSessionsPerActor + Concurrency
    BY DEF Charged
  <1> USE QuotaAssumption
  <1>1. /\ P \cap SessionsOf(a) \in SUBSET Sessions
        /\ (P \cup O) \cap SessionsOf(a) \in SUBSET Sessions
        /\ P2 \cap SessionsOf(a) \in SUBSET (P \cap SessionsOf(a))
        /\ (P2 \cup O2) \cap SessionsOf(a) \in SUBSET ((P \cup O) \cap SessionsOf(a))
    OBVIOUS
  <1>2. /\ Cardinality(P2 \cap SessionsOf(a)) \in Nat
        /\ Cardinality(P \cap SessionsOf(a)) \in Nat
        /\ Cardinality(P2 \cap SessionsOf(a)) <= Cardinality(P \cap SessionsOf(a))
    BY <1>1, SubsetSize
  <1>3. /\ Cardinality((P2 \cup O2) \cap SessionsOf(a)) \in Nat
        /\ Cardinality((P \cup O) \cap SessionsOf(a)) \in Nat
        /\ Cardinality((P2 \cup O2) \cap SessionsOf(a)) <= Cardinality((P \cup O) \cap SessionsOf(a))
    BY <1>1, SubsetSize
  <1>4. /\ Cardinality(P \cap SessionsOf(a)) <= Concurrency
        /\ Limited(a) => Cardinality((P \cup O) \cap SessionsOf(a))
                           < MaxSessionsPerActor + Concurrency
    BY DEF Charged
  <1> QED
    BY <1>2, <1>3, <1>4

(* What is charged bounds what is open. *)
LEMMA ChargedBound ==
  ASSUME NEW P \in SUBSET Sessions, NEW O \in SUBSET Sessions, Charged(P, O),
         NEW a \in Actors, Limited(a)
  PROVE  Cardinality(O \cap SessionsOf(a)) < MaxSessionsPerActor + Concurrency
  <1>1. /\ (P \cup O) \cap SessionsOf(a) \in SUBSET Sessions
        /\ O \cap SessionsOf(a) \in SUBSET ((P \cup O) \cap SessionsOf(a))
    OBVIOUS
  <1>2. /\ Cardinality(O \cap SessionsOf(a)) \in Nat
        /\ Cardinality((P \cup O) \cap SessionsOf(a)) \in Nat
        /\ Cardinality(O \cap SessionsOf(a)) <= Cardinality((P \cup O) \cap SessionsOf(a))
    BY <1>1, SubsetSize
  <1>3. Cardinality((P \cup O) \cap SessionsOf(a)) < MaxSessionsPerActor + Concurrency
    BY DEF Charged
  <1> QED
    BY <1>2, <1>3, QuotaAssumption

-----------------------------------------------------------------------------
(* The steps of a session. *)

(* Where a creation is tells what its row can be. *)
RowInv ==
  \A s \in Sessions :
    /\ create[s] \in {"new", "admitted", "ws"} => row[s] = NoRow
    /\ create[s] \in {"row", "box", "boxfail", "wipe", "undo", "undows", "running", "done"}
         => Exists(s)
    /\ row[s].cid \/ row[s].status = "running"
         => create[s] \in {"undo", "undows", "running", "done", "failed", "crashed"}
    /\ create[s] = "running" => row[s].cid
    /\ row[s].stopped \/ row[s].cid \/ row[s].fresh => Exists(s)

(* A DELETE works on an existing row, and on a stopped one once it marked. *)
DelInv ==
  \A d \in Deletes :
    /\ del[d].pc # "idle" => del[d].sid \in Sessions /\ Exists(del[d].sid)
    /\ del[d].pc = "log" => row[del[d].sid].stopped

(* So does the cleaner; it removes a workspace only after it marked the row. *)
GcInv ==
  /\ gc.pc \in {"mark", "clean", "log"} => gc.cur \in Sessions /\ Exists(gc.cur)
  /\ gc.pc \in {"clean", "log"} => row[gc.cur].stopped
  /\ gc.pc \in {"sweep", "mark", "clean", "log", "recon"} => \A s \in gc.todo : Exists(s)

(* A workspace is there while its creation needs it, unless a DELETE took  *)
(* it or the creation took it back.                                        *)
WsInv ==
  \A s \in Sessions :
    /\ create[s] = "ws" => s \in ws
    /\ Active(s) /\ (create[s] \in {"row", "box"} \/ row[s].status = "running") =>
         \/ s \in ws
         \/ create[s] = "failed"
         \/ \E d \in Deletes : del[d].sid = s /\ del[d].pc \in {"mark", "failed", "crashed"}

IInv == TypeOK /\ RowInv /\ DelInv /\ GcInv /\ WsInv /\ ContainerTracked /\ AuditTruthful
----------------------------------------------------------------------------
(* An update of an existing row that neither starts a session nor touches  *)
(* its container id keeps RowInv.                                          *)
LEMMA RowUpdateKeeps ==
  ASSUME RowInv, UNCHANGED create, NEW x \in Sessions, Exists(x),
         \A t \in Sessions : t # x => row'[t] = row[t],
         row'[x].status # "none", row'[x].cid = row[x].cid,
         row'[x].status = "running" => row[x].status = "running"
  PROVE  RowInv'
  <1>1. create[x] \notin {"new", "admitted", "ws"}
    BY DEF RowInv, Exists, NoRow
  <1>2. ASSUME NEW t \in Sessions
        PROVE  /\ create'[t] \in {"new", "admitted", "ws"} => row'[t] = NoRow
               /\ create'[t] \in {"row", "box", "boxfail", "wipe", "undo", "undows",
                                  "running", "done"} => row'[t].status # "none"
               /\ row'[t].cid \/ row'[t].status = "running"
                    => create'[t] \in {"undo", "undows", "running", "done", "failed", "crashed"}
               /\ create'[t] = "running" => row'[t].cid
               /\ row'[t].stopped \/ row'[t].cid \/ row'[t].fresh => row'[t].status # "none"
    <2>1. CASE t = x
      BY <1>1, <2>1 DEF RowInv
    <2>2. CASE t # x
      BY <2>2 DEF RowInv, Exists
    <2> QED
      BY <2>1, <2>2
  <1> QED
    BY <1>2 DEF RowInv, Exists, NoRow

----------------------------------------------------------------------------
(* One lemma per action: it keeps every part of the invariant. *)

(* The quota check of a creation writes nothing but its own progress. *)
LEMMA CreateAdmitKeeps ==
  ASSUME IInv, NEW s \in Sessions, CreateAdmit(s)
  PROVE  IInv'
  <1> USE DEF IInv, CreateAdmit, Step, Serving
  <1>1. TypeOK'
    BY DEF TypeOK, Rows, Handlers, Requests, Cleaners, Budgets, Actions
  <1>2. RowInv'
    BY DEF RowInv, Exists, NoRow, TypeOK, Rows, Requests, Cleaners
  <1>3. DelInv'
    BY DEF DelInv, Rows, Requests, Cleaners, Exists, TypeOK, RowInv, NoRow
  <1>4. GcInv'
    BY DEF GcInv, Rows, Requests, Cleaners, Exists, TypeOK, RowInv, NoRow
  <1>5. WsInv'
    BY DEF WsInv, Rows, Requests, Cleaners, Active, Exists, TypeOK, RowInv,
            DelInv, GcInv, NoRow
  <1>6. ContainerTracked'
    BY DEF ContainerTracked, Rows, Requests, Cleaners, TypeOK, RowInv
  <1>7. AuditTruthful'
    BY DEF AuditTruthful, Actions, Rows, Requests, Cleaners, TypeOK, RowInv,
            DelInv, GcInv, Exists, NoRow
  <1> QED
    BY <1>1, <1>2, <1>3, <1>4, <1>5, <1>6, <1>7

(* A refused creation leaves no trace. *)
LEMMA CreateRefuseKeeps ==
  ASSUME IInv, NEW s \in Sessions, CreateRefuse(s)
  PROVE  IInv'
  <1> USE DEF IInv, CreateRefuse, Step, Serving
  <1>1. TypeOK'
    BY DEF TypeOK, Rows, Handlers, Requests, Cleaners, Budgets, Actions
  <1>2. RowInv'
    BY DEF RowInv, Exists, NoRow, TypeOK, Rows, Requests, Cleaners
  <1>3. DelInv'
    BY DEF DelInv, Rows, Requests, Cleaners, Exists, TypeOK, RowInv, NoRow
  <1>4. GcInv'
    BY DEF GcInv, Rows, Requests, Cleaners, Exists, TypeOK, RowInv, NoRow
  <1>5. WsInv'
    BY DEF WsInv, Rows, Requests, Cleaners, Active, Exists, TypeOK, RowInv,
            DelInv, GcInv, NoRow
  <1>6. ContainerTracked'
    BY DEF ContainerTracked, Rows, Requests, Cleaners, TypeOK, RowInv
  <1>7. AuditTruthful'
    BY DEF AuditTruthful, Actions, Rows, Requests, Cleaners, TypeOK, RowInv,
            DelInv, GcInv, Exists, NoRow
  <1> QED
    BY <1>1, <1>2, <1>3, <1>4, <1>5, <1>6, <1>7

(* The workspace is made before any row names it. *)
LEMMA CreateWorkspaceKeeps ==
  ASSUME IInv, NEW s \in Sessions, CreateWorkspace(s)
  PROVE  IInv'
  <1> USE DEF IInv, CreateWorkspace, Step, Serving
  <1>1. TypeOK'
    BY DEF TypeOK, Rows, Handlers, Requests, Cleaners, Budgets, Actions
  <1>2. RowInv'
    BY DEF RowInv, Exists, NoRow, TypeOK, Rows, Requests, Cleaners
  <1>3. DelInv'
    BY DEF DelInv, Rows, Requests, Cleaners, Exists, TypeOK, RowInv, NoRow
  <1>4. GcInv'
    BY DEF GcInv, Rows, Requests, Cleaners, Exists, TypeOK, RowInv, NoRow
  <1>5. WsInv'
    BY DEF WsInv, Rows, Requests, Cleaners, Active, Exists, TypeOK, RowInv,
            DelInv, GcInv, NoRow
  <1>6. ContainerTracked'
    BY DEF ContainerTracked, Rows, Requests, Cleaners, TypeOK, RowInv
  <1>7. AuditTruthful'
    BY DEF AuditTruthful, Actions, Rows, Requests, Cleaners, TypeOK, RowInv,
            DelInv, GcInv, Exists, NoRow
  <1> QED
    BY <1>1, <1>2, <1>3, <1>4, <1>5, <1>6, <1>7

(* A failed workspace creation may leave a directory, never a row. *)
LEMMA CreateWorkspaceFailsKeeps ==
  ASSUME IInv, NEW s \in Sessions, CreateWorkspaceFails(s)
  PROVE  IInv'
  <1> USE DEF IInv, CreateWorkspaceFails, Step, Fault, Serving
  <1>1. TypeOK'
    BY DEF TypeOK, Rows, Handlers, Requests, Cleaners, Budgets, Actions
  <1>2. RowInv'
    BY DEF RowInv, Exists, NoRow, TypeOK, Rows, Requests, Cleaners
  <1>3. DelInv'
    BY DEF DelInv, Rows, Requests, Cleaners, Exists, TypeOK, RowInv, NoRow
  <1>4. GcInv'
    BY DEF GcInv, Rows, Requests, Cleaners, Exists, TypeOK, RowInv, NoRow
  <1>5. WsInv'
    BY DEF WsInv, Rows, Requests, Cleaners, Active, Exists, TypeOK, RowInv,
            DelInv, GcInv, NoRow
  <1>6. ContainerTracked'
    BY DEF ContainerTracked, Rows, Requests, Cleaners, TypeOK, RowInv
  <1>7. AuditTruthful'
    BY DEF AuditTruthful, Actions, Rows, Requests, Cleaners, TypeOK, RowInv,
            DelInv, GcInv, Exists, NoRow
  <1> QED
    BY <1>1, <1>2, <1>3, <1>4, <1>5, <1>6, <1>7

(* A refused restore removes a workspace no row names. *)
LEMMA CreateRestoreFailsKeeps ==
  ASSUME IInv, NEW s \in Sessions, CreateRestoreFails(s)
  PROVE  IInv'
  <1> USE DEF IInv, CreateRestoreFails, Step, RemoveWorkspace, Serving,
                  NoFault, Fault
  <1>1. TypeOK'
    BY DEF TypeOK, Rows, Handlers, Requests, Cleaners, Budgets, Actions
  <1>2. RowInv'
    BY DEF RowInv, Exists, NoRow, TypeOK, Rows, Requests, Cleaners
  <1>3. DelInv'
    BY DEF DelInv, Rows, Requests, Cleaners, Exists, TypeOK, RowInv, NoRow
  <1>4. GcInv'
    BY DEF GcInv, Rows, Requests, Cleaners, Exists, TypeOK, RowInv, NoRow
  <1>5. WsInv'
    BY DEF WsInv, Rows, Requests, Cleaners, Active, Exists, TypeOK, RowInv,
            DelInv, GcInv, NoRow
  <1>6. ContainerTracked'
    BY DEF ContainerTracked, Rows, Requests, Cleaners, TypeOK, RowInv
  <1>7. AuditTruthful'
    BY DEF AuditTruthful, Actions, Rows, Requests, Cleaners, TypeOK, RowInv,
            DelInv, GcInv, Exists, NoRow
  <1> QED
    BY <1>1, <1>2, <1>3, <1>4, <1>5, <1>6, <1>7

(* Refused labels leave a directory, never a row. *)
LEMMA CreateBadLabelsKeeps ==
  ASSUME IInv, NEW s \in Sessions, CreateBadLabels(s)
  PROVE  IInv'
  <1> USE DEF IInv, CreateBadLabels, Step, Serving
  <1>1. TypeOK'
    BY DEF TypeOK, Rows, Handlers, Requests, Cleaners, Budgets, Actions
  <1>2. RowInv'
    BY DEF RowInv, Exists, NoRow, TypeOK, Rows, Requests, Cleaners
  <1>3. DelInv'
    BY DEF DelInv, Rows, Requests, Cleaners, Exists, TypeOK, RowInv, NoRow
  <1>4. GcInv'
    BY DEF GcInv, Rows, Requests, Cleaners, Exists, TypeOK, RowInv, NoRow
  <1>5. WsInv'
    BY DEF WsInv, Rows, Requests, Cleaners, Active, Exists, TypeOK, RowInv,
            DelInv, GcInv, NoRow
  <1>6. ContainerTracked'
    BY DEF ContainerTracked, Rows, Requests, Cleaners, TypeOK, RowInv
  <1>7. AuditTruthful'
    BY DEF AuditTruthful, Actions, Rows, Requests, Cleaners, TypeOK, RowInv,
            DelInv, GcInv, Exists, NoRow
  <1> QED
    BY <1>1, <1>2, <1>3, <1>4, <1>5, <1>6, <1>7

(* The row appears once its workspace is there. *)
LEMMA CreateInsertKeeps ==
  ASSUME IInv, NEW s \in Sessions, CreateInsert(s)
  PROVE  IInv'
  <1> USE DEF IInv, CreateInsert, Step, CreateSession, Serving, Put
  <1>1. TypeOK'
    BY DEF TypeOK, Rows, Handlers, Requests, Cleaners, Budgets, Actions
  <1>2. RowInv'
    BY DEF RowInv, Exists, NoRow, TypeOK, Rows, Requests, Cleaners
  <1>3. DelInv'
    BY DEF DelInv, Rows, Requests, Cleaners, Exists, TypeOK, RowInv, NoRow
  <1>4. GcInv'
    BY DEF GcInv, Rows, Requests, Cleaners, Exists, TypeOK, RowInv, NoRow
  <1>5. WsInv'
    BY DEF WsInv, Rows, Requests, Cleaners, Active, Exists, TypeOK, RowInv,
            DelInv, GcInv, NoRow
  <1>6. ContainerTracked'
    BY DEF ContainerTracked, Rows, Requests, Cleaners, TypeOK, RowInv
  <1>7. AuditTruthful'
    BY DEF AuditTruthful, Actions, Rows, Requests, Cleaners, TypeOK, RowInv,
            DelInv, GcInv, Exists, NoRow
  <1> QED
    BY <1>1, <1>2, <1>3, <1>4, <1>5, <1>6, <1>7

(* A failed insert leaves no row, or one without a container. *)
LEMMA CreateInsertFailsKeeps ==
  ASSUME IInv, NEW s \in Sessions, CreateInsertFails(s)
  PROVE  IInv'
  <1>1. CASE UNCHANGED row
    <2> USE <1>1
    <2> USE DEF IInv, CreateInsertFails, Step, Fault, Serving
    <2>1. TypeOK'
      BY DEF TypeOK, Rows, Handlers, Requests, Cleaners, Budgets, Actions
    <2>2. RowInv'
      BY DEF RowInv, Exists, NoRow, TypeOK, Rows, Requests, Cleaners
    <2>3. DelInv'
      BY DEF DelInv, Rows, Requests, Cleaners, Exists, TypeOK, RowInv, NoRow
    <2>4. GcInv'
      BY DEF GcInv, Rows, Requests, Cleaners, Exists, TypeOK, RowInv, NoRow
    <2>5. WsInv'
      BY DEF WsInv, Rows, Requests, Cleaners, Active, Exists, TypeOK, RowInv,
              DelInv, GcInv, NoRow
    <2>6. ContainerTracked'
      BY DEF ContainerTracked, Rows, Requests, Cleaners, TypeOK, RowInv
    <2>7. AuditTruthful'
      BY DEF AuditTruthful, Actions, Rows, Requests, Cleaners, TypeOK, RowInv,
              DelInv, GcInv, Exists, NoRow
    <2> QED
      BY <2>1, <2>2, <2>3, <2>4, <2>5, <2>6, <2>7
  <1>2. CASE CreateSession(s)
    <2> USE <1>2
    <2> USE DEF IInv, CreateInsertFails, Step, CreateSession, Serving, Put, Fault
    <2>1. TypeOK'
      BY DEF TypeOK, Rows, Handlers, Requests, Cleaners, Budgets, Actions
    <2>2. RowInv'
      BY DEF RowInv, Exists, NoRow, TypeOK, Rows, Requests, Cleaners
    <2>3. DelInv'
      BY DEF DelInv, Rows, Requests, Cleaners, Exists, TypeOK, RowInv, NoRow
    <2>4. GcInv'
      BY DEF GcInv, Rows, Requests, Cleaners, Exists, TypeOK, RowInv, NoRow
    <2>5. WsInv'
      BY DEF WsInv, Rows, Requests, Cleaners, Active, Exists, TypeOK, RowInv,
              DelInv, GcInv, NoRow
    <2>6. ContainerTracked'
      BY DEF ContainerTracked, Rows, Requests, Cleaners, TypeOK, RowInv
    <2>7. AuditTruthful'
      BY DEF AuditTruthful, Actions, Rows, Requests, Cleaners, TypeOK, RowInv,
              DelInv, GcInv, Exists, NoRow
    <2> QED
      BY <2>1, <2>2, <2>3, <2>4, <2>5, <2>6, <2>7
  <1> QED
    BY <1>1, <1>2 DEF CreateInsertFails

(* Template and fork sessions get a row without a container id. *)
LEMMA CreateWithoutSandboxKeeps ==
  ASSUME IInv, NEW s \in Sessions, CreateWithoutSandbox(s)
  PROVE  IInv'
  <1> USE DEF IInv, CreateWithoutSandbox, Step, CreateSession, LogAction,
                  Serving, Put, NoFault, Fault
  <1>1. TypeOK'
    <2> USE DEF TypeOK
    <2>1. row' \in [Sessions -> Rows]
      BY DEF Rows
    <2>2. ws' \subseteq Sessions /\ box' \subseteq Sessions /\ stuck' \subseteq Sessions
      OBVIOUS
    <2>3. create' \in [Sessions -> Handlers] /\ up' \in {"serving", "stopping", "down", "starting"}
      BY DEF Handlers
    <2>4. del' \in [Deletes -> Requests]
      BY DEF Requests
    <2>5. gc' \in Cleaners
      BY DEF Cleaners
    <2>6. budget' \in Budgets
      BY DEF Budgets
    <2>7. gauge' \in Int /\ used' \subseteq Sessions /\ log' \in [Sessions -> SUBSET Actions]
      BY DEF Actions
    <2> QED
      BY <2>1, <2>2, <2>3, <2>4, <2>5, <2>6, <2>7
  <1>2. RowInv'
    BY DEF RowInv, Exists, NoRow, TypeOK, Rows, Requests, Cleaners
  <1>3. DelInv'
    BY DEF DelInv, Rows, Requests, Cleaners, Exists, TypeOK, RowInv, NoRow
  <1>4. GcInv'
    BY DEF GcInv, Rows, Requests, Cleaners, Exists, TypeOK, RowInv, NoRow
  <1>5. WsInv'
    BY DEF WsInv, Rows, Requests, Cleaners, Active, Exists, TypeOK, RowInv,
            DelInv, GcInv, NoRow
  <1>6. ContainerTracked'
    BY DEF ContainerTracked, Rows, Requests, Cleaners, TypeOK, RowInv
  <1>7. AuditTruthful'
    <2>1. row[s].stopped = FALSE /\ row[s].cid = FALSE
      BY DEF RowInv, NoRow
    <2>2. log[s] \cap {"deleted", "expired"} = {} /\ "created" \notin log[s]
      BY <2>1 DEF AuditTruthful
    <2>3. \A x \in Sessions : x # s => row'[x] = row[x] /\ log'[x] = log[x]
      BY DEF TypeOK
    <2>4. log'[s] \cap {"deleted", "expired"} = {} /\ "created" \notin log'[s]
      BY <2>2 DEF TypeOK
    <2> QED
      BY <2>3, <2>4 DEF AuditTruthful
  <1> QED
    BY <1>1, <1>2, <1>3, <1>4, <1>5, <1>6, <1>7

(* A started container is in its handler's hands. *)
LEMMA CreateSandboxKeeps ==
  ASSUME IInv, NEW s \in Sessions, CreateSandbox(s)
  PROVE  IInv'
  <1> USE DEF IInv, CreateSandbox, Step, Serving
  <1>1. TypeOK'
    BY DEF TypeOK, Rows, Handlers, Requests, Cleaners, Budgets, Actions
  <1>2. RowInv'
    BY DEF RowInv, Exists, NoRow, TypeOK, Rows, Requests, Cleaners
  <1>3. DelInv'
    BY DEF DelInv, Rows, Requests, Cleaners, Exists, TypeOK, RowInv, NoRow
  <1>4. GcInv'
    BY DEF GcInv, Rows, Requests, Cleaners, Exists, TypeOK, RowInv, NoRow
  <1>5. WsInv'
    BY DEF WsInv, Rows, Requests, Cleaners, Active, Exists, TypeOK, RowInv,
            DelInv, GcInv, NoRow
  <1>6. ContainerTracked'
    BY DEF ContainerTracked, Rows, Requests, Cleaners, TypeOK, RowInv
  <1>7. AuditTruthful'
    BY DEF AuditTruthful, Actions, Rows, Requests, Cleaners, TypeOK, RowInv,
            DelInv, GcInv, Exists, NoRow
  <1> QED
    BY <1>1, <1>2, <1>3, <1>4, <1>5, <1>6, <1>7

(* A container its failed creation could not remove is recorded as stuck. *)
LEMMA CreateSandboxFailsKeeps ==
  ASSUME IInv, NEW s \in Sessions, CreateSandboxFails(s)
  PROVE  IInv'
  <1> USE DEF IInv, CreateSandboxFails, Step, NoFault, Fault, Serving
  <1>1. TypeOK'
    BY DEF TypeOK, Rows, Handlers, Requests, Cleaners, Budgets, Actions
  <1>2. RowInv'
    BY DEF RowInv, Exists, NoRow, TypeOK, Rows, Requests, Cleaners
  <1>3. DelInv'
    BY DEF DelInv, Rows, Requests, Cleaners, Exists, TypeOK, RowInv, NoRow
  <1>4. GcInv'
    BY DEF GcInv, Rows, Requests, Cleaners, Exists, TypeOK, RowInv, NoRow
  <1>5. WsInv'
    BY DEF WsInv, Rows, Requests, Cleaners, Active, Exists, TypeOK, RowInv,
            DelInv, GcInv, NoRow
  <1>6. ContainerTracked'
    BY DEF ContainerTracked, Rows, Requests, Cleaners, TypeOK, RowInv
  <1>7. AuditTruthful'
    BY DEF AuditTruthful, Actions, Rows, Requests, Cleaners, TypeOK, RowInv,
            DelInv, GcInv, Exists, NoRow
  <1> QED
    BY <1>1, <1>2, <1>3, <1>4, <1>5, <1>6, <1>7

(* FailSession clears no container id that was stored. *)
LEMMA CreateFailKeeps ==
  ASSUME IInv, NEW s \in Sessions, CreateFail(s)
  PROVE  IInv'
  <1> USE DEF IInv, CreateFail, Step, FailSession, NoFault, Fault, Serving,
                  Put
  <1>1. TypeOK'
    <2> USE DEF TypeOK
    <2>1. row' \in [Sessions -> Rows]
      <3>1. CASE FailSession(s)
        BY <3>1 DEF Rows
      <3>2. CASE UNCHANGED row
        BY <3>2
      <3> QED
        BY <3>1, <3>2
    <2>2. ws' \subseteq Sessions /\ box' \subseteq Sessions /\ stuck' \subseteq Sessions
      OBVIOUS
    <2>3. create' \in [Sessions -> Handlers] /\ up' \in {"serving", "stopping", "down", "starting"}
      BY DEF Handlers
    <2>4. del' \in [Deletes -> Requests]
      BY DEF Requests
    <2>5. gc' \in Cleaners
      BY DEF Cleaners
    <2>6. budget' \in Budgets
      BY DEF Budgets
    <2>7. gauge' \in Int /\ used' \subseteq Sessions /\ log' \in [Sessions -> SUBSET Actions]
      BY DEF Actions
    <2> QED
      BY <2>1, <2>2, <2>3, <2>4, <2>5, <2>6, <2>7
  <1>2. RowInv'
    <2>1. CASE FailSession(s)
      BY <2>1 DEF RowInv, Exists, NoRow, TypeOK
    <2>2. CASE UNCHANGED row
      BY <2>2 DEF RowInv, Exists, NoRow, TypeOK
    <2> QED
      BY <2>1, <2>2
  <1>3. DelInv'
    BY DEF DelInv, Rows, Requests, Cleaners, Exists, TypeOK, RowInv, NoRow
  <1>4. GcInv'
    BY DEF GcInv, Rows, Requests, Cleaners, Exists, TypeOK, RowInv, NoRow
  <1>5. WsInv'
    BY DEF WsInv, Rows, Requests, Cleaners, Active, Exists, TypeOK, RowInv,
            DelInv, GcInv, NoRow
  <1>6. ContainerTracked'
    BY DEF ContainerTracked, Rows, Requests, Cleaners, TypeOK, RowInv
  <1>7. AuditTruthful'
    BY DEF AuditTruthful, Actions, Rows, Requests, Cleaners, TypeOK, RowInv,
            DelInv, GcInv, Exists, NoRow
  <1> QED
    BY <1>1, <1>2, <1>3, <1>4, <1>5, <1>6, <1>7

(* The workspace goes when the session never reached running. *)
LEMMA CreateWipeKeeps ==
  ASSUME IInv, NEW s \in Sessions, CreateWipe(s)
  PROVE  IInv'
  <1> USE DEF IInv, CreateWipe, Step, RemoveWorkspace, Serving, NoFault, Fault
  <1>1. TypeOK'
    BY DEF TypeOK, Rows, Handlers, Requests, Cleaners, Budgets, Actions
  <1>2. RowInv'
    BY DEF RowInv, Exists, NoRow, TypeOK, Rows, Requests, Cleaners
  <1>3. DelInv'
    BY DEF DelInv, Rows, Requests, Cleaners, Exists, TypeOK, RowInv, NoRow
  <1>4. GcInv'
    BY DEF GcInv, Rows, Requests, Cleaners, Exists, TypeOK, RowInv, NoRow
  <1>5. WsInv'
    BY DEF WsInv, Rows, Requests, Cleaners, Active, Exists, TypeOK, RowInv,
            DelInv, GcInv, NoRow
  <1>6. ContainerTracked'
    BY DEF ContainerTracked, Rows, Requests, Cleaners, TypeOK, RowInv
  <1>7. AuditTruthful'
    BY DEF AuditTruthful, Actions, Rows, Requests, Cleaners, TypeOK, RowInv,
            DelInv, GcInv, Exists, NoRow
  <1> QED
    BY <1>1, <1>2, <1>3, <1>4, <1>5, <1>6, <1>7

(* The container id reaches the row, whoever stopped the row meanwhile. *)
LEMMA CreatePersistKeeps ==
  ASSUME IInv, NEW s \in Sessions, CreatePersist(s)
  PROVE  IInv'
  <1> USE DEF IInv, CreatePersist, Step, UpdateSessionStatus, Serving, Put
  <1>1. TypeOK'
    <2> USE DEF TypeOK
    <2>1. row' \in [Sessions -> Rows]
      BY DEF Rows
    <2>2. ws' \subseteq Sessions /\ box' \subseteq Sessions /\ stuck' \subseteq Sessions
      OBVIOUS
    <2>3. create' \in [Sessions -> Handlers] /\ up' \in {"serving", "stopping", "down", "starting"}
      BY DEF Handlers
    <2>4. del' \in [Deletes -> Requests]
      BY DEF Requests
    <2>5. gc' \in Cleaners
      BY DEF Cleaners
    <2>6. budget' \in Budgets
      BY DEF Budgets
    <2>7. gauge' \in Int /\ used' \subseteq Sessions /\ log' \in [Sessions -> SUBSET Actions]
      BY DEF Actions
    <2> QED
      BY <2>1, <2>2, <2>3, <2>4, <2>5, <2>6, <2>7
  <1>2. RowInv'
    BY DEF RowInv, Exists, NoRow, TypeOK, Rows, Requests, Cleaners
  <1>3. DelInv'
    BY DEF DelInv, Rows, Requests, Cleaners, Exists, TypeOK, RowInv, NoRow
  <1>4. GcInv'
    BY DEF GcInv, Rows, Requests, Cleaners, Exists, TypeOK, RowInv, NoRow
  <1>5. WsInv'
    BY DEF WsInv, Rows, Requests, Cleaners, Active, Exists, TypeOK, RowInv,
            DelInv, GcInv, NoRow
  <1>6. ContainerTracked'
    BY DEF ContainerTracked, Rows, Requests, Cleaners, TypeOK, RowInv
  <1>7. AuditTruthful'
    BY DEF AuditTruthful, Actions, Rows, Requests, Cleaners, TypeOK, RowInv,
            DelInv, GcInv, Exists, NoRow
  <1> QED
    BY <1>1, <1>2, <1>3, <1>4, <1>5, <1>6, <1>7

(* Whether or not the id was stored, the handler holds its container. *)
LEMMA CreatePersistFailsKeeps ==
  ASSUME IInv, NEW s \in Sessions, CreatePersistFails(s)
  PROVE  IInv'
  <1>1. CASE UNCHANGED row
    <2> USE <1>1
    <2> USE DEF IInv, CreatePersistFails, Step, Fault, Serving
    <2>1. TypeOK'
      BY DEF TypeOK, Rows, Handlers, Requests, Cleaners, Budgets, Actions
    <2>2. RowInv'
      BY DEF RowInv, Exists, NoRow, TypeOK, Rows, Requests, Cleaners
    <2>3. DelInv'
      BY DEF DelInv, Rows, Requests, Cleaners, Exists, TypeOK, RowInv, NoRow
    <2>4. GcInv'
      BY DEF GcInv, Rows, Requests, Cleaners, Exists, TypeOK, RowInv, NoRow
    <2>5. WsInv'
      BY DEF WsInv, Rows, Requests, Cleaners, Active, Exists, TypeOK, RowInv,
              DelInv, GcInv, NoRow
    <2>6. ContainerTracked'
      BY DEF ContainerTracked, Rows, Requests, Cleaners, TypeOK, RowInv
    <2>7. AuditTruthful'
      BY DEF AuditTruthful, Actions, Rows, Requests, Cleaners, TypeOK, RowInv,
              DelInv, GcInv, Exists, NoRow
    <2> QED
      BY <2>1, <2>2, <2>3, <2>4, <2>5, <2>6, <2>7
  <1>2. CASE UpdateSessionStatus(s)
    <2> USE <1>2
    <2> USE DEF IInv, CreatePersistFails, Step, UpdateSessionStatus, Serving, Put, Fault
    <2>1. TypeOK'
      <3> USE DEF TypeOK
      <3>1. row' \in [Sessions -> Rows]
        BY DEF Rows
      <3>2. ws' \subseteq Sessions /\ box' \subseteq Sessions /\ stuck' \subseteq Sessions
        OBVIOUS
      <3>3. create' \in [Sessions -> Handlers] /\ up' \in {"serving", "stopping", "down", "starting"}
        BY DEF Handlers
      <3>4. del' \in [Deletes -> Requests]
        BY DEF Requests
      <3>5. gc' \in Cleaners
        BY DEF Cleaners
      <3>6. budget' \in Budgets
        BY DEF Budgets
      <3>7. gauge' \in Int /\ used' \subseteq Sessions /\ log' \in [Sessions -> SUBSET Actions]
        BY DEF Actions
      <3> QED
        BY <3>1, <3>2, <3>3, <3>4, <3>5, <3>6, <3>7
    <2>2. RowInv'
      BY DEF RowInv, Exists, NoRow, TypeOK, Rows, Requests, Cleaners
    <2>3. DelInv'
      BY DEF DelInv, Rows, Requests, Cleaners, Exists, TypeOK, RowInv, NoRow
    <2>4. GcInv'
      BY DEF GcInv, Rows, Requests, Cleaners, Exists, TypeOK, RowInv, NoRow
    <2>5. WsInv'
      BY DEF WsInv, Rows, Requests, Cleaners, Active, Exists, TypeOK, RowInv,
              DelInv, GcInv, NoRow
    <2>6. ContainerTracked'
      BY DEF ContainerTracked, Rows, Requests, Cleaners, TypeOK, RowInv
    <2>7. AuditTruthful'
      BY DEF AuditTruthful, Actions, Rows, Requests, Cleaners, TypeOK, RowInv,
              DelInv, GcInv, Exists, NoRow
    <2> QED
      BY <2>1, <2>2, <2>3, <2>4, <2>5, <2>6, <2>7
  <1> QED
    BY <1>1, <1>2 DEF CreatePersistFails

(* The handler gives its container back to Docker. *)
LEMMA CreateUndoSandboxKeeps ==
  ASSUME IInv, NEW s \in Sessions, CreateUndoSandbox(s)
  PROVE  IInv'
  <1> USE DEF IInv, CreateUndoSandbox, Step, StopSandbox, Serving, NoFault,
                  Fault
  <1>1. TypeOK'
    BY DEF TypeOK, Rows, Handlers, Requests, Cleaners, Budgets, Actions
  <1>2. RowInv'
    BY DEF RowInv, Exists, NoRow, TypeOK, Rows, Requests, Cleaners
  <1>3. DelInv'
    BY DEF DelInv, Rows, Requests, Cleaners, Exists, TypeOK, RowInv, NoRow
  <1>4. GcInv'
    BY DEF GcInv, Rows, Requests, Cleaners, Exists, TypeOK, RowInv, NoRow
  <1>5. WsInv'
    BY DEF WsInv, Rows, Requests, Cleaners, Active, Exists, TypeOK, RowInv,
            DelInv, GcInv, NoRow
  <1>6. ContainerTracked'
    BY DEF ContainerTracked, Rows, Requests, Cleaners, TypeOK, RowInv
  <1>7. AuditTruthful'
    BY DEF AuditTruthful, Actions, Rows, Requests, Cleaners, TypeOK, RowInv,
            DelInv, GcInv, Exists, NoRow
  <1> QED
    BY <1>1, <1>2, <1>3, <1>4, <1>5, <1>6, <1>7

(* The workspace goes when the session never reached running. *)
LEMMA CreateUndoWorkspaceKeeps ==
  ASSUME IInv, NEW s \in Sessions, CreateUndoWorkspace(s)
  PROVE  IInv'
  <1> USE DEF IInv, CreateUndoWorkspace, Step, RemoveWorkspace, Serving,
                  NoFault, Fault
  <1>1. TypeOK'
    BY DEF TypeOK, Rows, Handlers, Requests, Cleaners, Budgets, Actions
  <1>2. RowInv'
    BY DEF RowInv, Exists, NoRow, TypeOK, Rows, Requests, Cleaners
  <1>3. DelInv'
    BY DEF DelInv, Rows, Requests, Cleaners, Exists, TypeOK, RowInv, NoRow
  <1>4. GcInv'
    BY DEF GcInv, Rows, Requests, Cleaners, Exists, TypeOK, RowInv, NoRow
  <1>5. WsInv'
    BY DEF WsInv, Rows, Requests, Cleaners, Active, Exists, TypeOK, RowInv,
            DelInv, GcInv, NoRow
  <1>6. ContainerTracked'
    BY DEF ContainerTracked, Rows, Requests, Cleaners, TypeOK, RowInv
  <1>7. AuditTruthful'
    BY DEF AuditTruthful, Actions, Rows, Requests, Cleaners, TypeOK, RowInv,
            DelInv, GcInv, Exists, NoRow
  <1> QED
    BY <1>1, <1>2, <1>3, <1>4, <1>5, <1>6, <1>7

(* The audit entry follows the stored container id. *)
LEMMA CreateFinishKeeps ==
  ASSUME IInv, NEW s \in Sessions, CreateFinish(s)
  PROVE  IInv'
  <1> USE DEF IInv, CreateFinish, Step, LogAction, Serving, NoFault, Fault
  <1>1. TypeOK'
    BY DEF TypeOK, Rows, Handlers, Requests, Cleaners, Budgets, Actions
  <1>2. RowInv'
    BY DEF RowInv, Exists, NoRow, TypeOK, Rows, Requests, Cleaners
  <1>3. DelInv'
    BY DEF DelInv, Rows, Requests, Cleaners, Exists, TypeOK, RowInv, NoRow
  <1>4. GcInv'
    BY DEF GcInv, Rows, Requests, Cleaners, Exists, TypeOK, RowInv, NoRow
  <1>5. WsInv'
    BY DEF WsInv, Rows, Requests, Cleaners, Active, Exists, TypeOK, RowInv,
            DelInv, GcInv, NoRow
  <1>6. ContainerTracked'
    BY DEF ContainerTracked, Rows, Requests, Cleaners, TypeOK, RowInv
  <1>7. AuditTruthful'
    <2>1. row[s].cid
      BY DEF RowInv
    <2>2. \A t \in Sessions : log'[t] = log[t] \/ (t = s /\ log'[t] = log[t] \cup {"created"})
      BY DEF TypeOK
    <2> QED
      BY <2>1, <2>2 DEF AuditTruthful
  <1> QED
    BY <1>1, <1>2, <1>3, <1>4, <1>5, <1>6, <1>7

(* A DELETE starts from an existing row. *)
LEMMA DeleteBeginKeeps ==
  ASSUME IInv, NEW d \in Deletes, NEW s \in Sessions, DeleteBegin(d, s)
  PROVE  IInv'
  <1> USE DEF IInv, DeleteBegin, Serving
  <1>1. TypeOK'
    BY DEF TypeOK, Rows, Handlers, Requests, Cleaners, Budgets, Actions, Exists
  <1>2. RowInv'
    BY DEF RowInv, Exists, NoRow, TypeOK, Rows, Requests, Cleaners
  <1>3. DelInv'
    BY DEF DelInv, Rows, Requests, Cleaners, Exists, TypeOK, RowInv, NoRow
  <1>4. GcInv'
    BY DEF GcInv, Rows, Requests, Cleaners, Exists, TypeOK, RowInv, NoRow
  <1>5. WsInv'
    BY DEF WsInv, Rows, Requests, Cleaners, Active, Exists, TypeOK, RowInv,
            DelInv, GcInv, NoRow
  <1>6. ContainerTracked'
    BY DEF ContainerTracked, Rows, Requests, Cleaners, TypeOK, RowInv, Exists
  <1>7. AuditTruthful'
    BY DEF AuditTruthful, Actions, Rows, Requests, Cleaners, TypeOK, RowInv,
            DelInv, GcInv, Exists, NoRow
  <1> QED
    BY <1>1, <1>2, <1>3, <1>4, <1>5, <1>6, <1>7

(* Stopping the container a DELETE read about. *)
LEMMA DeleteStopKeeps ==
  ASSUME IInv, NEW d \in Deletes, DeleteStop(d)
  PROVE  IInv'
  <1> USE DEF IInv, DeleteStop, DeleteAt, StopSandbox, NoFault, Serving, Fault
  <1>1. TypeOK'
    <2> USE DEF TypeOK
    <2>1. row' \in [Sessions -> Rows]
      BY DEF Rows
    <2>2. ws' \subseteq Sessions /\ box' \subseteq Sessions /\ stuck' \subseteq Sessions
      OBVIOUS
    <2>3. create' \in [Sessions -> Handlers] /\ up' \in {"serving", "stopping", "down", "starting"}
      BY DEF Handlers
    <2>4. del' \in [Deletes -> Requests]
      BY DEF Requests
    <2>5. gc' \in Cleaners
      BY DEF Cleaners
    <2>6. budget' \in Budgets
      BY DEF Budgets
    <2>7. gauge' \in Int /\ used' \subseteq Sessions /\ log' \in [Sessions -> SUBSET Actions]
      BY DEF Actions
    <2> QED
      BY <2>1, <2>2, <2>3, <2>4, <2>5, <2>6, <2>7
  <1>2. RowInv'
    BY DEF RowInv, Exists, NoRow, TypeOK, Rows, Requests, Cleaners
  <1>3. DelInv'
    BY DEF DelInv, Rows, Requests, Cleaners, Exists, TypeOK, RowInv, NoRow
  <1>4. GcInv'
    BY DEF GcInv, Rows, Requests, Cleaners, Exists, TypeOK, RowInv, NoRow
  <1>5. WsInv'
    BY DEF WsInv, Rows, Requests, Cleaners, Active, Exists, TypeOK, RowInv,
            DelInv, GcInv, NoRow
  <1>6. ContainerTracked'
    BY DEF ContainerTracked, Rows, Requests, Cleaners, TypeOK, RowInv
  <1>7. AuditTruthful'
    BY DEF AuditTruthful, Actions, Rows, Requests, Cleaners, TypeOK, RowInv,
            DelInv, GcInv, Exists, NoRow
  <1> QED
    BY <1>1, <1>2, <1>3, <1>4, <1>5, <1>6, <1>7

(* The DELETE that removes a workspace is on its way to mark the row. *)
LEMMA DeleteWorkspaceKeeps ==
  ASSUME IInv, NEW d \in Deletes, DeleteWorkspace(d)
  PROVE  IInv'
  <1> USE DEF IInv, DeleteWorkspace, DeleteAt, RemoveWorkspace, Serving,
                  NoFault, Fault
  <1>1. TypeOK'
    <2> USE DEF TypeOK
    <2>1. row' \in [Sessions -> Rows]
      BY DEF Rows
    <2>2. ws' \subseteq Sessions /\ box' \subseteq Sessions /\ stuck' \subseteq Sessions
      OBVIOUS
    <2>3. create' \in [Sessions -> Handlers] /\ up' \in {"serving", "stopping", "down", "starting"}
      BY DEF Handlers
    <2>4. del' \in [Deletes -> Requests]
      BY DEF Requests
    <2>5. gc' \in Cleaners
      BY DEF Cleaners
    <2>6. budget' \in Budgets
      BY DEF Budgets
    <2>7. gauge' \in Int /\ used' \subseteq Sessions /\ log' \in [Sessions -> SUBSET Actions]
      BY DEF Actions
    <2> QED
      BY <2>1, <2>2, <2>3, <2>4, <2>5, <2>6, <2>7
  <1>2. RowInv'
    BY DEF RowInv, Exists, NoRow, TypeOK, Rows, Requests, Cleaners
  <1>3. DelInv'
    BY DEF DelInv, Rows, Requests, Cleaners, Exists, TypeOK, RowInv, NoRow
  <1>4. GcInv'
    BY DEF GcInv, Rows, Requests, Cleaners, Exists, TypeOK, RowInv, NoRow
  <1>5. WsInv'
    BY DEF WsInv, Rows, Requests, Cleaners, Active, Exists, TypeOK, RowInv,
            DelInv, GcInv, NoRow
  <1>6. ContainerTracked'
    BY DEF ContainerTracked, Rows, Requests, Cleaners, TypeOK, RowInv
  <1>7. AuditTruthful'
    BY DEF AuditTruthful, Actions, Rows, Requests, Cleaners, TypeOK, RowInv,
            DelInv, GcInv, Exists, NoRow
  <1> QED
    BY <1>1, <1>2, <1>3, <1>4, <1>5, <1>6, <1>7

(* The row is stopped before the DELETE reports it. *)
LEMMA DeleteMarkKeeps ==
  ASSUME IInv, NEW d \in Deletes, DeleteMark(d)
  PROVE  IInv'
  <1> USE DEF IInv, DeleteMark, DeleteAt, StopSession, Serving, Put
  <1>1. TypeOK'
    <2> USE DEF TypeOK
    <2>1. row' \in [Sessions -> Rows]
      BY DEF Rows
    <2>2. ws' \subseteq Sessions /\ box' \subseteq Sessions /\ stuck' \subseteq Sessions
      OBVIOUS
    <2>3. create' \in [Sessions -> Handlers] /\ up' \in {"serving", "stopping", "down", "starting"}
      BY DEF Handlers
    <2>4. del' \in [Deletes -> Requests]
      BY DEF Requests
    <2>5. gc' \in Cleaners
      BY DEF Cleaners
    <2>6. budget' \in Budgets
      BY DEF Budgets
    <2>7. gauge' \in Int /\ used' \subseteq Sessions /\ log' \in [Sessions -> SUBSET Actions]
      BY DEF Actions
    <2> QED
      BY <2>1, <2>2, <2>3, <2>4, <2>5, <2>6, <2>7
  <1>2. RowInv'
    <2>1. \A t \in Sessions : t # del[d].sid => row'[t] = row[t]
      BY DEF TypeOK
    <2>2. row'[del[d].sid].status # "none" /\ row'[del[d].sid].cid = row[del[d].sid].cid
      BY DEF TypeOK, Rows, Requests, Cleaners, DelInv, Exists
    <2>3. Exists(del[d].sid) /\ (row'[del[d].sid].status = "running" => row[del[d].sid].status = "running")
      BY DEF TypeOK, Rows, Requests, Cleaners, RowInv, DelInv, Exists, NoRow
    <2> QED
      BY <2>1, <2>2, <2>3, RowUpdateKeeps, del[d].sid \in Sessions DEF DelInv, GcInv
  <1>3. DelInv'
    BY DEF DelInv, Rows, Requests, Cleaners, Exists, TypeOK, RowInv, NoRow
  <1>4. GcInv'
    BY DEF GcInv, Rows, Requests, Cleaners, Exists, TypeOK, RowInv, NoRow
  <1>5. WsInv'
    BY DEF WsInv, Rows, Requests, Cleaners, Active, Exists, TypeOK, RowInv,
            DelInv, GcInv, NoRow
  <1>6. ContainerTracked'
    BY DEF ContainerTracked, Rows, Requests, Cleaners, TypeOK, RowInv
  <1>7. AuditTruthful'
    BY DEF AuditTruthful, Actions, Rows, Requests, Cleaners, TypeOK, RowInv,
            DelInv, GcInv, Exists, NoRow
  <1> QED
    BY <1>1, <1>2, <1>3, <1>4, <1>5, <1>6, <1>7

(* A DELETE that could not mark the row reports nothing. *)
LEMMA DeleteMarkFailsKeeps ==
  ASSUME IInv, NEW d \in Deletes, DeleteMarkFails(d)
  PROVE  IInv'
  <1>1. CASE UNCHANGED row
    <2> USE <1>1
    <2> USE DEF IInv, DeleteMarkFails, DeleteAt, Fault, Serving
    <2>1. TypeOK'
      <3> USE DEF TypeOK
      <3>1. row' \in [Sessions -> Rows]
        BY DEF Rows
      <3>2. ws' \subseteq Sessions /\ box' \subseteq Sessions /\ stuck' \subseteq Sessions
        OBVIOUS
      <3>3. create' \in [Sessions -> Handlers] /\ up' \in {"serving", "stopping", "down", "starting"}
        BY DEF Handlers
      <3>4. del' \in [Deletes -> Requests]
        BY DEF Requests
      <3>5. gc' \in Cleaners
        BY DEF Cleaners
      <3>6. budget' \in Budgets
        BY DEF Budgets
      <3>7. gauge' \in Int /\ used' \subseteq Sessions /\ log' \in [Sessions -> SUBSET Actions]
        BY DEF Actions
      <3> QED
        BY <3>1, <3>2, <3>3, <3>4, <3>5, <3>6, <3>7
    <2>2. RowInv'
      BY DEF RowInv, Exists, NoRow, TypeOK, Rows, Requests, Cleaners
    <2>3. DelInv'
      BY DEF DelInv, Rows, Requests, Cleaners, Exists, TypeOK, RowInv, NoRow
    <2>4. GcInv'
      BY DEF GcInv, Rows, Requests, Cleaners, Exists, TypeOK, RowInv, NoRow
    <2>5. WsInv'
      BY DEF WsInv, Rows, Requests, Cleaners, Active, Exists, TypeOK, RowInv,
              DelInv, GcInv, NoRow
    <2>6. ContainerTracked'
      BY DEF ContainerTracked, Rows, Requests, Cleaners, TypeOK, RowInv
    <2>7. AuditTruthful'
      BY DEF AuditTruthful, Actions, Rows, Requests, Cleaners, TypeOK, RowInv,
              DelInv, GcInv, Exists, NoRow
    <2> QED
      BY <2>1, <2>2, <2>3, <2>4, <2>5, <2>6, <2>7
  <1>2. CASE StopSession(del[d].sid)
    <2> USE <1>2
    <2> USE DEF IInv, DeleteMarkFails, DeleteAt, StopSession, Serving, Put, Fault
    <2>1. TypeOK'
      <3> USE DEF TypeOK
      <3>1. row' \in [Sessions -> Rows]
        BY DEF Rows
      <3>2. ws' \subseteq Sessions /\ box' \subseteq Sessions /\ stuck' \subseteq Sessions
        OBVIOUS
      <3>3. create' \in [Sessions -> Handlers] /\ up' \in {"serving", "stopping", "down", "starting"}
        BY DEF Handlers
      <3>4. del' \in [Deletes -> Requests]
        BY DEF Requests
      <3>5. gc' \in Cleaners
        BY DEF Cleaners
      <3>6. budget' \in Budgets
        BY DEF Budgets
      <3>7. gauge' \in Int /\ used' \subseteq Sessions /\ log' \in [Sessions -> SUBSET Actions]
        BY DEF Actions
      <3> QED
        BY <3>1, <3>2, <3>3, <3>4, <3>5, <3>6, <3>7
    <2>2. RowInv'
      <3>1. \A t \in Sessions : t # del[d].sid => row'[t] = row[t]
        BY DEF TypeOK
      <3>2. row'[del[d].sid].status # "none" /\ row'[del[d].sid].cid = row[del[d].sid].cid
        BY DEF TypeOK, Rows, Requests, Cleaners, DelInv, Exists
      <3>3. Exists(del[d].sid) /\ (row'[del[d].sid].status = "running" => row[del[d].sid].status = "running")
        BY DEF TypeOK, Rows, Requests, Cleaners, RowInv, DelInv, Exists, NoRow
      <3> QED
        BY <3>1, <3>2, <3>3, RowUpdateKeeps, del[d].sid \in Sessions DEF DelInv, GcInv
    <2>3. DelInv'
      BY DEF DelInv, Rows, Requests, Cleaners, Exists, TypeOK, RowInv, NoRow
    <2>4. GcInv'
      BY DEF GcInv, Rows, Requests, Cleaners, Exists, TypeOK, RowInv, NoRow
    <2>5. WsInv'
      BY DEF WsInv, Rows, Requests, Cleaners, Active, Exists, TypeOK, RowInv,
              DelInv, GcInv, NoRow
    <2>6. ContainerTracked'
      BY DEF ContainerTracked, Rows, Requests, Cleaners, TypeOK, RowInv
    <2>7. AuditTruthful'
      BY DEF AuditTruthful, Actions, Rows, Requests, Cleaners, TypeOK, RowInv,
              DelInv, GcInv, Exists, NoRow
    <2> QED
      BY <2>1, <2>2, <2>3, <2>4, <2>5, <2>6, <2>7
  <1> QED
    BY <1>1, <1>2 DEF DeleteMarkFails

(* The audit entry of a DELETE follows the stop. *)
LEMMA DeleteFinishKeeps ==
  ASSUME IInv, NEW d \in Deletes, DeleteFinish(d)
  PROVE  IInv'
  <1> USE DEF IInv, DeleteFinish, DeleteAt, LogAction, Serving, NoFault, Fault
  <1>1. TypeOK'
    <2> USE DEF TypeOK
    <2>1. row' \in [Sessions -> Rows]
      BY DEF Rows
    <2>2. ws' \subseteq Sessions /\ box' \subseteq Sessions /\ stuck' \subseteq Sessions
      OBVIOUS
    <2>3. create' \in [Sessions -> Handlers] /\ up' \in {"serving", "stopping", "down", "starting"}
      BY DEF Handlers
    <2>4. del' \in [Deletes -> Requests]
      BY DEF Requests
    <2>5. gc' \in Cleaners
      BY DEF Cleaners
    <2>6. budget' \in Budgets
      BY DEF Budgets
    <2>7. gauge' \in Int /\ used' \subseteq Sessions /\ log' \in [Sessions -> SUBSET Actions]
      BY DEF Actions
    <2> QED
      BY <2>1, <2>2, <2>3, <2>4, <2>5, <2>6, <2>7
  <1>2. RowInv'
    BY DEF RowInv, Exists, NoRow, TypeOK, Rows, Requests, Cleaners
  <1>3. DelInv'
    BY DEF DelInv, Rows, Requests, Cleaners, Exists, TypeOK, RowInv, NoRow
  <1>4. GcInv'
    BY DEF GcInv, Rows, Requests, Cleaners, Exists, TypeOK, RowInv, NoRow
  <1>5. WsInv'
    BY DEF WsInv, Rows, Requests, Cleaners, Active, Exists, TypeOK, RowInv,
            DelInv, GcInv, NoRow
  <1>6. ContainerTracked'
    BY DEF ContainerTracked, Rows, Requests, Cleaners, TypeOK, RowInv
  <1>7. AuditTruthful'
    BY DEF AuditTruthful, Actions, Rows, Requests, Cleaners, TypeOK, RowInv,
            DelInv, GcInv, Exists, NoRow
  <1> QED
    BY <1>1, <1>2, <1>3, <1>4, <1>5, <1>6, <1>7

(* The sweep lists existing rows. *)
LEMMA SweepListKeeps ==
  ASSUME IInv, SweepList
  PROVE  IInv'
  <1> USE DEF IInv, SweepList, Serving, ListActiveSessions
  <1>1. TypeOK'
    BY DEF TypeOK, Rows, Handlers, Requests, Cleaners, Budgets, Actions
  <1>2. RowInv'
    BY DEF RowInv, Exists, NoRow, TypeOK, Rows, Requests, Cleaners
  <1>3. DelInv'
    BY DEF DelInv, Rows, Requests, Cleaners, Exists, TypeOK, RowInv, NoRow
  <1>4. GcInv'
    BY DEF GcInv, Rows, Requests, Cleaners, Exists, TypeOK, RowInv, NoRow
  <1>5. WsInv'
    BY DEF WsInv, Rows, Requests, Cleaners, Active, Exists, TypeOK, RowInv,
            DelInv, GcInv, NoRow
  <1>6. ContainerTracked'
    BY DEF ContainerTracked, Rows, Requests, Cleaners, TypeOK, RowInv
  <1>7. AuditTruthful'
    BY DEF AuditTruthful, Actions, Rows, Requests, Cleaners, TypeOK, RowInv,
            DelInv, GcInv, Exists, NoRow
  <1> QED
    BY <1>1, <1>2, <1>3, <1>4, <1>5, <1>6, <1>7

(* The sweep stops a container and touches no workspace yet. *)
LEMMA SweepStopKeeps ==
  ASSUME IInv, NEW s \in Sessions, SweepStop(s)
  PROVE  IInv'
  <1> USE DEF IInv, SweepStop, Serving, StopSandbox, NoFault, Fault
  <1>1. TypeOK'
    <2> USE DEF TypeOK
    <2>1. row' \in [Sessions -> Rows]
      BY DEF Rows
    <2>2. ws' \subseteq Sessions /\ box' \subseteq Sessions /\ stuck' \subseteq Sessions
      OBVIOUS
    <2>3. create' \in [Sessions -> Handlers] /\ up' \in {"serving", "stopping", "down", "starting"}
      BY DEF Handlers
    <2>4. del' \in [Deletes -> Requests]
      BY DEF Requests
    <2>5. gc' \in Cleaners
      BY DEF Cleaners
    <2>6. budget' \in Budgets
      BY DEF Budgets
    <2>7. gauge' \in Int /\ used' \subseteq Sessions /\ log' \in [Sessions -> SUBSET Actions]
      BY DEF Actions
    <2> QED
      BY <2>1, <2>2, <2>3, <2>4, <2>5, <2>6, <2>7
  <1>2. RowInv'
    BY DEF RowInv, Exists, NoRow, TypeOK, Rows, Requests, Cleaners
  <1>3. DelInv'
    BY DEF DelInv, Rows, Requests, Cleaners, Exists, TypeOK, RowInv, NoRow
  <1>4. GcInv'
    BY DEF GcInv, Rows, Requests, Cleaners, Exists, TypeOK, RowInv, NoRow
  <1>5. WsInv'
    BY DEF WsInv, Rows, Requests, Cleaners, Active, Exists, TypeOK, RowInv,
            DelInv, GcInv, NoRow
  <1>6. ContainerTracked'
    BY DEF ContainerTracked, Rows, Requests, Cleaners, TypeOK, RowInv
  <1>7. AuditTruthful'
    BY DEF AuditTruthful, Actions, Rows, Requests, Cleaners, TypeOK, RowInv,
            DelInv, GcInv, Exists, NoRow
  <1> QED
    BY <1>1, <1>2, <1>3, <1>4, <1>5, <1>6, <1>7

(* The sweep stops the row before it removes the workspace. *)
LEMMA SweepMarkKeeps ==
  ASSUME IInv, SweepMark
  PROVE  IInv'
  <1> USE DEF IInv, SweepMark, Serving, StopSession, Put
  <1>1. TypeOK'
    <2> USE DEF TypeOK
    <2>1. row' \in [Sessions -> Rows]
      BY DEF Rows
    <2>2. ws' \subseteq Sessions /\ box' \subseteq Sessions /\ stuck' \subseteq Sessions
      OBVIOUS
    <2>3. create' \in [Sessions -> Handlers] /\ up' \in {"serving", "stopping", "down", "starting"}
      BY DEF Handlers
    <2>4. del' \in [Deletes -> Requests]
      BY DEF Requests
    <2>5. gc' \in Cleaners
      BY DEF Cleaners
    <2>6. budget' \in Budgets
      BY DEF Budgets
    <2>7. gauge' \in Int /\ used' \subseteq Sessions /\ log' \in [Sessions -> SUBSET Actions]
      BY DEF Actions
    <2> QED
      BY <2>1, <2>2, <2>3, <2>4, <2>5, <2>6, <2>7
  <1>2. RowInv'
    <2>1. \A t \in Sessions : t # gc.cur => row'[t] = row[t]
      BY DEF TypeOK
    <2>2. row'[gc.cur].status # "none" /\ row'[gc.cur].cid = row[gc.cur].cid
      BY DEF TypeOK, Rows, Requests, Cleaners, GcInv, Exists
    <2>3. Exists(gc.cur) /\ (row'[gc.cur].status = "running" => row[gc.cur].status = "running")
      BY DEF TypeOK, Rows, Requests, Cleaners, RowInv, GcInv, Exists, NoRow
    <2> QED
      BY <2>1, <2>2, <2>3, RowUpdateKeeps, gc.cur \in Sessions DEF DelInv, GcInv
  <1>3. DelInv'
    BY DEF DelInv, Rows, Requests, Cleaners, Exists, TypeOK, RowInv, NoRow
  <1>4. GcInv'
    BY DEF GcInv, Rows, Requests, Cleaners, Exists, TypeOK, RowInv, NoRow
  <1>5. WsInv'
    BY DEF WsInv, Rows, Requests, Cleaners, Active, Exists, TypeOK, RowInv,
            DelInv, GcInv, NoRow
  <1>6. ContainerTracked'
    BY DEF ContainerTracked, Rows, Requests, Cleaners, TypeOK, RowInv
  <1>7. AuditTruthful'
    BY DEF AuditTruthful, Actions, Rows, Requests, Cleaners, TypeOK, RowInv,
            DelInv, GcInv, Exists, NoRow
  <1> QED
    BY <1>1, <1>2, <1>3, <1>4, <1>5, <1>6, <1>7

(* A row whose mark reported an error keeps its workspace. *)
LEMMA SweepMarkFailsKeeps ==
  ASSUME IInv, SweepMarkFails
  PROVE  IInv'
  <1>1. CASE UNCHANGED row
    <2> USE <1>1
    <2> USE DEF IInv, SweepMarkFails, Serving, Fault, GcNext, Idle
    <2>1. TypeOK'
      <3> USE DEF TypeOK
      <3>1. row' \in [Sessions -> Rows]
        BY DEF Rows
      <3>2. ws' \subseteq Sessions /\ box' \subseteq Sessions /\ stuck' \subseteq Sessions
        OBVIOUS
      <3>3. create' \in [Sessions -> Handlers] /\ up' \in {"serving", "stopping", "down", "starting"}
        BY DEF Handlers
      <3>4. del' \in [Deletes -> Requests]
        BY DEF Requests
      <3>5. gc' \in Cleaners
        BY DEF Cleaners
      <3>6. budget' \in Budgets
        BY DEF Budgets
      <3>7. gauge' \in Int /\ used' \subseteq Sessions /\ log' \in [Sessions -> SUBSET Actions]
        BY DEF Actions
      <3> QED
        BY <3>1, <3>2, <3>3, <3>4, <3>5, <3>6, <3>7
    <2>2. RowInv'
      BY DEF RowInv, Exists, NoRow, TypeOK, Rows, Requests, Cleaners
    <2>3. DelInv'
      BY DEF DelInv, Rows, Requests, Cleaners, Exists, TypeOK, RowInv, NoRow
    <2>4. GcInv'
      BY DEF GcInv, Rows, Requests, Cleaners, Exists, TypeOK, RowInv, NoRow
    <2>5. WsInv'
      BY DEF WsInv, Rows, Requests, Cleaners, Active, Exists, TypeOK, RowInv,
              DelInv, GcInv, NoRow
    <2>6. ContainerTracked'
      BY DEF ContainerTracked, Rows, Requests, Cleaners, TypeOK, RowInv
    <2>7. AuditTruthful'
      BY DEF AuditTruthful, Actions, Rows, Requests, Cleaners, TypeOK, RowInv,
              DelInv, GcInv, Exists, NoRow
    <2> QED
      BY <2>1, <2>2, <2>3, <2>4, <2>5, <2>6, <2>7
  <1>2. CASE StopSession(gc.cur)
    <2> USE <1>2
    <2> USE DEF IInv, SweepMarkFails, Serving, StopSession, Put, GcNext, Idle, Fault
    <2>1. TypeOK'
      <3> USE DEF TypeOK
      <3>1. row' \in [Sessions -> Rows]
        BY DEF Rows
      <3>2. ws' \subseteq Sessions /\ box' \subseteq Sessions /\ stuck' \subseteq Sessions
        OBVIOUS
      <3>3. create' \in [Sessions -> Handlers] /\ up' \in {"serving", "stopping", "down", "starting"}
        BY DEF Handlers
      <3>4. del' \in [Deletes -> Requests]
        BY DEF Requests
      <3>5. gc' \in Cleaners
        BY DEF Cleaners
      <3>6. budget' \in Budgets
        BY DEF Budgets
      <3>7. gauge' \in Int /\ used' \subseteq Sessions /\ log' \in [Sessions -> SUBSET Actions]
        BY DEF Actions
      <3> QED
        BY <3>1, <3>2, <3>3, <3>4, <3>5, <3>6, <3>7
    <2>2. RowInv'
      <3>1. \A t \in Sessions : t # gc.cur => row'[t] = row[t]
        BY DEF TypeOK
      <3>2. row'[gc.cur].status # "none" /\ row'[gc.cur].cid = row[gc.cur].cid
        BY DEF TypeOK, Rows, Requests, Cleaners, GcInv, Exists
      <3>3. Exists(gc.cur) /\ (row'[gc.cur].status = "running" => row[gc.cur].status = "running")
        BY DEF TypeOK, Rows, Requests, Cleaners, RowInv, GcInv, Exists, NoRow
      <3> QED
        BY <3>1, <3>2, <3>3, RowUpdateKeeps, gc.cur \in Sessions DEF DelInv, GcInv
    <2>3. DelInv'
      BY DEF DelInv, Rows, Requests, Cleaners, Exists, TypeOK, RowInv, NoRow
    <2>4. GcInv'
      BY DEF GcInv, Rows, Requests, Cleaners, Exists, TypeOK, RowInv, NoRow
    <2>5. WsInv'
      BY DEF WsInv, Rows, Requests, Cleaners, Active, Exists, TypeOK, RowInv,
              DelInv, GcInv, NoRow
    <2>6. ContainerTracked'
      BY DEF ContainerTracked, Rows, Requests, Cleaners, TypeOK, RowInv
    <2>7. AuditTruthful'
      BY DEF AuditTruthful, Actions, Rows, Requests, Cleaners, TypeOK, RowInv,
              DelInv, GcInv, Exists, NoRow
    <2> QED
      BY <2>1, <2>2, <2>3, <2>4, <2>5, <2>6, <2>7
  <1> QED
    BY <1>1, <1>2 DEF SweepMarkFails

(* The cleaner removes the workspace of a stopped row. *)
LEMMA GcCleanKeeps ==
  ASSUME IInv, GcClean
  PROVE  IInv'
  <1> USE DEF IInv, GcClean, RemoveWorkspace, NoFault, Fault
  <1>1. TypeOK'
    BY DEF TypeOK, Rows, Handlers, Requests, Cleaners, Budgets, Actions
  <1>2. RowInv'
    BY DEF RowInv, Exists, NoRow, TypeOK, Rows, Requests, Cleaners
  <1>3. DelInv'
    BY DEF DelInv, Rows, Requests, Cleaners, Exists, TypeOK, RowInv, NoRow
  <1>4. GcInv'
    BY DEF GcInv, Rows, Requests, Cleaners, Exists, TypeOK, RowInv, NoRow
  <1>5. WsInv'
    BY DEF WsInv, Rows, Requests, Cleaners, Active, Exists, TypeOK, RowInv,
            DelInv, GcInv, NoRow
  <1>6. ContainerTracked'
    BY DEF ContainerTracked, Rows, Requests, Cleaners, TypeOK, RowInv
  <1>7. AuditTruthful'
    BY DEF AuditTruthful, Actions, Rows, Requests, Cleaners, TypeOK, RowInv,
            DelInv, GcInv, Exists, NoRow
  <1> QED
    BY <1>1, <1>2, <1>3, <1>4, <1>5, <1>6, <1>7

(* The cleaner's audit entry follows the stop. *)
LEMMA GcLogKeeps ==
  ASSUME IInv, GcLog
  PROVE  IInv'
  <1> USE DEF IInv, GcLog, LogAction, GcNext, NoFault, Fault, Idle
  <1>1. TypeOK'
    <2> USE DEF TypeOK
    <2>1. row' \in [Sessions -> Rows]
      BY DEF Rows
    <2>2. ws' \subseteq Sessions /\ box' \subseteq Sessions /\ stuck' \subseteq Sessions
      OBVIOUS
    <2>3. create' \in [Sessions -> Handlers] /\ up' \in {"serving", "stopping", "down", "starting"}
      BY DEF Handlers
    <2>4. del' \in [Deletes -> Requests]
      BY DEF Requests
    <2>5. gc' \in Cleaners
      BY DEF Cleaners
    <2>6. budget' \in Budgets
      BY DEF Budgets
    <2>7. gauge' \in Int /\ used' \subseteq Sessions /\ log' \in [Sessions -> SUBSET Actions]
      BY DEF Actions
    <2> QED
      BY <2>1, <2>2, <2>3, <2>4, <2>5, <2>6, <2>7
  <1>2. RowInv'
    BY DEF RowInv, Exists, NoRow, TypeOK, Rows, Requests, Cleaners
  <1>3. DelInv'
    BY DEF DelInv, Rows, Requests, Cleaners, Exists, TypeOK, RowInv, NoRow
  <1>4. GcInv'
    BY DEF GcInv, Rows, Requests, Cleaners, Exists, TypeOK, RowInv, NoRow
  <1>5. WsInv'
    BY DEF WsInv, Rows, Requests, Cleaners, Active, Exists, TypeOK, RowInv,
            DelInv, GcInv, NoRow
  <1>6. ContainerTracked'
    BY DEF ContainerTracked, Rows, Requests, Cleaners, TypeOK, RowInv
  <1>7. AuditTruthful'
    BY DEF AuditTruthful, Actions, Rows, Requests, Cleaners, TypeOK, RowInv,
            DelInv, GcInv, Exists, NoRow
  <1> QED
    BY <1>1, <1>2, <1>3, <1>4, <1>5, <1>6, <1>7

(* A shutdown removes containers and leaves rows and workspaces. *)
LEMMA ShutdownKeeps ==
  ASSUME IInv, Shutdown
  PROVE  IInv'
  <1> USE DEF IInv, Shutdown, ListActiveSessions
  <1>1. TypeOK'
    BY DEF TypeOK, Rows, Handlers, Requests, Cleaners, Budgets, Actions
  <1>2. RowInv'
    BY DEF RowInv, Exists, NoRow, TypeOK, Rows, Requests, Cleaners
  <1>3. DelInv'
    BY DEF DelInv, Rows, Requests, Cleaners, Exists, TypeOK, RowInv, NoRow
  <1>4. GcInv'
    BY DEF GcInv, Rows, Requests, Cleaners, Exists, TypeOK, RowInv, NoRow
  <1>5. WsInv'
    BY DEF WsInv, Rows, Requests, Cleaners, Active, Exists, TypeOK, RowInv,
            DelInv, GcInv, NoRow
  <1>6. ContainerTracked'
    BY DEF ContainerTracked, Rows, Requests, Cleaners, TypeOK, RowInv
  <1>7. AuditTruthful'
    BY DEF AuditTruthful, Actions, Rows, Requests, Cleaners, TypeOK, RowInv,
            DelInv, GcInv, Exists, NoRow
  <1> QED
    BY <1>1, <1>2, <1>3, <1>4, <1>5, <1>6, <1>7

(* A dying process forgets its handlers and keeps the three stores. *)
LEMMA CrashKeeps ==
  ASSUME IInv, Crash
  PROVE  IInv'
  <1> USE DEF IInv, Crash, InFlight, Idle
  <1>1. TypeOK'
    <2> USE DEF TypeOK
    <2>1. row' \in [Sessions -> Rows]
      BY DEF Rows
    <2>2. ws' \subseteq Sessions /\ box' \subseteq Sessions /\ stuck' \subseteq Sessions
      OBVIOUS
    <2>3. create' \in [Sessions -> Handlers] /\ up' \in {"serving", "stopping", "down", "starting"}
      BY DEF Handlers
    <2>4. del' \in [Deletes -> Requests]
      BY DEF Requests
    <2>5. gc' \in Cleaners
      BY DEF Cleaners
    <2>6. budget' \in Budgets
      BY DEF Budgets
    <2>7. gauge' \in Int /\ used' \subseteq Sessions /\ log' \in [Sessions -> SUBSET Actions]
      BY DEF Actions
    <2> QED
      BY <2>1, <2>2, <2>3, <2>4, <2>5, <2>6, <2>7
  <1>2. RowInv'
    BY DEF RowInv, Exists, NoRow, TypeOK, Rows, Requests, Cleaners
  <1>3. DelInv'
    BY DEF DelInv, Rows, Requests, Cleaners, Exists, TypeOK, RowInv, NoRow
  <1>4. GcInv'
    BY DEF GcInv, Rows, Requests, Cleaners, Exists, TypeOK, RowInv, NoRow
  <1>5. WsInv'
    BY DEF WsInv, Rows, Requests, Cleaners, Active, Exists, TypeOK, RowInv,
            DelInv, GcInv, NoRow
  <1>6. ContainerTracked'
    BY DEF ContainerTracked, Rows, Requests, Cleaners, TypeOK, RowInv
  <1>7. AuditTruthful'
    BY DEF AuditTruthful, Actions, Rows, Requests, Cleaners, TypeOK, RowInv,
            DelInv, GcInv, Exists, NoRow
  <1> QED
    BY <1>1, <1>2, <1>3, <1>4, <1>5, <1>6, <1>7

(* The reconciliation lists existing rows. *)
LEMMA RestartKeeps ==
  ASSUME IInv, Restart
  PROVE  IInv'
  <1> USE DEF IInv, Restart, Idle, ListActiveSessions
  <1>1. TypeOK'
    BY DEF TypeOK, Rows, Handlers, Requests, Cleaners, Budgets, Actions
  <1>2. RowInv'
    BY DEF RowInv, Exists, NoRow, TypeOK, Rows, Requests, Cleaners
  <1>3. DelInv'
    BY DEF DelInv, Rows, Requests, Cleaners, Exists, TypeOK, RowInv, NoRow
  <1>4. GcInv'
    BY DEF GcInv, Rows, Requests, Cleaners, Exists, TypeOK, RowInv, NoRow
  <1>5. WsInv'
    BY DEF WsInv, Rows, Requests, Cleaners, Active, Exists, TypeOK, RowInv,
            DelInv, GcInv, NoRow
  <1>6. ContainerTracked'
    BY DEF ContainerTracked, Rows, Requests, Cleaners, TypeOK, RowInv
  <1>7. AuditTruthful'
    BY DEF AuditTruthful, Actions, Rows, Requests, Cleaners, TypeOK, RowInv,
            DelInv, GcInv, Exists, NoRow
  <1> QED
    BY <1>1, <1>2, <1>3, <1>4, <1>5, <1>6, <1>7

(* A start without reconciliation changes no store. *)
LEMMA RestartUnreconciledKeeps ==
  ASSUME IInv, RestartUnreconciled
  PROVE  IInv'
  <1> USE DEF IInv, RestartUnreconciled, Fault
  <1>1. TypeOK'
    BY DEF TypeOK, Rows, Handlers, Requests, Cleaners, Budgets, Actions
  <1>2. RowInv'
    BY DEF RowInv, Exists, NoRow, TypeOK, Rows, Requests, Cleaners
  <1>3. DelInv'
    BY DEF DelInv, Rows, Requests, Cleaners, Exists, TypeOK, RowInv, NoRow
  <1>4. GcInv'
    BY DEF GcInv, Rows, Requests, Cleaners, Exists, TypeOK, RowInv, NoRow
  <1>5. WsInv'
    BY DEF WsInv, Rows, Requests, Cleaners, Active, Exists, TypeOK, RowInv,
            DelInv, GcInv, NoRow
  <1>6. ContainerTracked'
    BY DEF ContainerTracked, Rows, Requests, Cleaners, TypeOK, RowInv
  <1>7. AuditTruthful'
    BY DEF AuditTruthful, Actions, Rows, Requests, Cleaners, TypeOK, RowInv,
            DelInv, GcInv, Exists, NoRow
  <1> QED
    BY <1>1, <1>2, <1>3, <1>4, <1>5, <1>6, <1>7

(* A session whose container is there is left alone. *)
LEMMA ReconcileKeepKeeps ==
  ASSUME IInv, NEW s \in Sessions, ReconcileKeep(s)
  PROVE  IInv'
  <1> USE DEF IInv, ReconcileKeep, NoFault, Fault
  <1>1. TypeOK'
    <2> USE DEF TypeOK
    <2>1. row' \in [Sessions -> Rows]
      BY DEF Rows
    <2>2. ws' \subseteq Sessions /\ box' \subseteq Sessions /\ stuck' \subseteq Sessions
      OBVIOUS
    <2>3. create' \in [Sessions -> Handlers] /\ up' \in {"serving", "stopping", "down", "starting"}
      BY DEF Handlers
    <2>4. del' \in [Deletes -> Requests]
      BY DEF Requests
    <2>5. gc' \in Cleaners
      BY DEF Cleaners
    <2>6. budget' \in Budgets
      BY DEF Budgets
    <2>7. gauge' \in Int /\ used' \subseteq Sessions /\ log' \in [Sessions -> SUBSET Actions]
      BY DEF Actions
    <2> QED
      BY <2>1, <2>2, <2>3, <2>4, <2>5, <2>6, <2>7
  <1>2. RowInv'
    BY DEF RowInv, Exists, NoRow, TypeOK, Rows, Requests, Cleaners
  <1>3. DelInv'
    BY DEF DelInv, Rows, Requests, Cleaners, Exists, TypeOK, RowInv, NoRow
  <1>4. GcInv'
    BY DEF GcInv, Rows, Requests, Cleaners, Exists, TypeOK, RowInv, NoRow
  <1>5. WsInv'
    BY DEF WsInv, Rows, Requests, Cleaners, Active, Exists, TypeOK, RowInv,
            DelInv, GcInv, NoRow
  <1>6. ContainerTracked'
    BY DEF ContainerTracked, Rows, Requests, Cleaners, TypeOK, RowInv
  <1>7. AuditTruthful'
    BY DEF AuditTruthful, Actions, Rows, Requests, Cleaners, TypeOK, RowInv,
            DelInv, GcInv, Exists, NoRow
  <1> QED
    BY <1>1, <1>2, <1>3, <1>4, <1>5, <1>6, <1>7

(* A session whose container is gone is stopped first. *)
LEMMA ReconcileCloseKeeps ==
  ASSUME IInv, NEW s \in Sessions, ReconcileClose(s)
  PROVE  IInv'
  <1> USE DEF IInv, ReconcileClose, StopSession, Put
  <1>1. TypeOK'
    <2> USE DEF TypeOK
    <2>1. row' \in [Sessions -> Rows]
      BY DEF Rows
    <2>2. ws' \subseteq Sessions /\ box' \subseteq Sessions /\ stuck' \subseteq Sessions
      OBVIOUS
    <2>3. create' \in [Sessions -> Handlers] /\ up' \in {"serving", "stopping", "down", "starting"}
      BY DEF Handlers
    <2>4. del' \in [Deletes -> Requests]
      BY DEF Requests
    <2>5. gc' \in Cleaners
      BY DEF Cleaners
    <2>6. budget' \in Budgets
      BY DEF Budgets
    <2>7. gauge' \in Int /\ used' \subseteq Sessions /\ log' \in [Sessions -> SUBSET Actions]
      BY DEF Actions
    <2> QED
      BY <2>1, <2>2, <2>3, <2>4, <2>5, <2>6, <2>7
  <1>2. RowInv'
    <2>1. \A t \in Sessions : t # s => row'[t] = row[t]
      BY DEF TypeOK
    <2>2. row'[s].status # "none" /\ row'[s].cid = row[s].cid
      BY DEF TypeOK, Rows, Requests, Cleaners, GcInv, Exists
    <2>3. Exists(s) /\ (row'[s].status = "running" => row[s].status = "running")
      BY DEF TypeOK, Rows, Requests, Cleaners, RowInv, GcInv, Exists, NoRow
    <2> QED
      BY <2>1, <2>2, <2>3, RowUpdateKeeps
  <1>3. DelInv'
    BY DEF DelInv, Rows, Requests, Cleaners, Exists, TypeOK, RowInv, NoRow
  <1>4. GcInv'
    BY DEF GcInv, Rows, Requests, Cleaners, Exists, TypeOK, RowInv, NoRow
  <1>5. WsInv'
    BY DEF WsInv, Rows, Requests, Cleaners, Active, Exists, TypeOK, RowInv,
            DelInv, GcInv, NoRow
  <1>6. ContainerTracked'
    BY DEF ContainerTracked, Rows, Requests, Cleaners, TypeOK, RowInv
  <1>7. AuditTruthful'
    BY DEF AuditTruthful, Actions, Rows, Requests, Cleaners, TypeOK, RowInv,
            DelInv, GcInv, Exists, NoRow
  <1> QED
    BY <1>1, <1>2, <1>3, <1>4, <1>5, <1>6, <1>7

(* A close that reported an error leaves the workspace alone. *)
LEMMA ReconcileCloseFailsKeeps ==
  ASSUME IInv, NEW s \in Sessions, ReconcileCloseFails(s)
  PROVE  IInv'
  <1>1. CASE UNCHANGED row
    <2> USE <1>1
    <2> USE DEF IInv, ReconcileCloseFails, Fault
    <2>1. TypeOK'
      <3> USE DEF TypeOK
      <3>1. row' \in [Sessions -> Rows]
        BY DEF Rows
      <3>2. ws' \subseteq Sessions /\ box' \subseteq Sessions /\ stuck' \subseteq Sessions
        OBVIOUS
      <3>3. create' \in [Sessions -> Handlers] /\ up' \in {"serving", "stopping", "down", "starting"}
        BY DEF Handlers
      <3>4. del' \in [Deletes -> Requests]
        BY DEF Requests
      <3>5. gc' \in Cleaners
        BY DEF Cleaners
      <3>6. budget' \in Budgets
        BY DEF Budgets
      <3>7. gauge' \in Int /\ used' \subseteq Sessions /\ log' \in [Sessions -> SUBSET Actions]
        BY DEF Actions
      <3> QED
        BY <3>1, <3>2, <3>3, <3>4, <3>5, <3>6, <3>7
    <2>2. RowInv'
      BY DEF RowInv, Exists, NoRow, TypeOK, Rows, Requests, Cleaners
    <2>3. DelInv'
      BY DEF DelInv, Rows, Requests, Cleaners, Exists, TypeOK, RowInv, NoRow
    <2>4. GcInv'
      BY DEF GcInv, Rows, Requests, Cleaners, Exists, TypeOK, RowInv, NoRow
    <2>5. WsInv'
      BY DEF WsInv, Rows, Requests, Cleaners, Active, Exists, TypeOK, RowInv,
              DelInv, GcInv, NoRow
    <2>6. ContainerTracked'
      BY DEF ContainerTracked, Rows, Requests, Cleaners, TypeOK, RowInv
    <2>7. AuditTruthful'
      BY DEF AuditTruthful, Actions, Rows, Requests, Cleaners, TypeOK, RowInv,
              DelInv, GcInv, Exists, NoRow
    <2> QED
      BY <2>1, <2>2, <2>3, <2>4, <2>5, <2>6, <2>7
  <1>2. CASE StopSession(s)
    <2> USE <1>2
    <2> USE DEF IInv, ReconcileCloseFails, Fault, StopSession, Put
    <2>1. TypeOK'
      <3> USE DEF TypeOK
      <3>1. row' \in [Sessions -> Rows]
        BY DEF Rows
      <3>2. ws' \subseteq Sessions /\ box' \subseteq Sessions /\ stuck' \subseteq Sessions
        OBVIOUS
      <3>3. create' \in [Sessions -> Handlers] /\ up' \in {"serving", "stopping", "down", "starting"}
        BY DEF Handlers
      <3>4. del' \in [Deletes -> Requests]
        BY DEF Requests
      <3>5. gc' \in Cleaners
        BY DEF Cleaners
      <3>6. budget' \in Budgets
        BY DEF Budgets
      <3>7. gauge' \in Int /\ used' \subseteq Sessions /\ log' \in [Sessions -> SUBSET Actions]
        BY DEF Actions
      <3> QED
        BY <3>1, <3>2, <3>3, <3>4, <3>5, <3>6, <3>7
    <2>2. RowInv'
      <3>1. \A t \in Sessions : t # s => row'[t] = row[t]
        BY DEF TypeOK
      <3>2. row'[s].status # "none" /\ row'[s].cid = row[s].cid
        BY DEF TypeOK, Rows, Requests, Cleaners, GcInv, Exists
      <3>3. Exists(s) /\ (row'[s].status = "running" => row[s].status = "running")
        BY DEF TypeOK, Rows, Requests, Cleaners, RowInv, GcInv, Exists, NoRow
      <3> QED
        BY <3>1, <3>2, <3>3, RowUpdateKeeps
    <2>3. DelInv'
      BY DEF DelInv, Rows, Requests, Cleaners, Exists, TypeOK, RowInv, NoRow
    <2>4. GcInv'
      BY DEF GcInv, Rows, Requests, Cleaners, Exists, TypeOK, RowInv, NoRow
    <2>5. WsInv'
      BY DEF WsInv, Rows, Requests, Cleaners, Active, Exists, TypeOK, RowInv,
              DelInv, GcInv, NoRow
    <2>6. ContainerTracked'
      BY DEF ContainerTracked, Rows, Requests, Cleaners, TypeOK, RowInv
    <2>7. AuditTruthful'
      BY DEF AuditTruthful, Actions, Rows, Requests, Cleaners, TypeOK, RowInv,
              DelInv, GcInv, Exists, NoRow
    <2> QED
      BY <2>1, <2>2, <2>3, <2>4, <2>5, <2>6, <2>7
  <1> QED
    BY <1>1, <1>2 DEF ReconcileCloseFails

(* Leftover directories are listed. *)
LEMMA ReconcileDirsKeeps ==
  ASSUME IInv, ReconcileDirs
  PROVE  IInv'
  <1> USE DEF IInv, ReconcileDirs
  <1>1. TypeOK'
    BY DEF TypeOK, Rows, Handlers, Requests, Cleaners, Budgets, Actions
  <1>2. RowInv'
    BY DEF RowInv, Exists, NoRow, TypeOK, Rows, Requests, Cleaners
  <1>3. DelInv'
    BY DEF DelInv, Rows, Requests, Cleaners, Exists, TypeOK, RowInv, NoRow
  <1>4. GcInv'
    BY DEF GcInv, Rows, Requests, Cleaners, Exists, TypeOK, RowInv, NoRow
  <1>5. WsInv'
    BY DEF WsInv, Rows, Requests, Cleaners, Active, Exists, TypeOK, RowInv,
            DelInv, GcInv, NoRow
  <1>6. ContainerTracked'
    BY DEF ContainerTracked, Rows, Requests, Cleaners, TypeOK, RowInv
  <1>7. AuditTruthful'
    BY DEF AuditTruthful, Actions, Rows, Requests, Cleaners, TypeOK, RowInv,
            DelInv, GcInv, Exists, NoRow
  <1> QED
    BY <1>1, <1>2, <1>3, <1>4, <1>5, <1>6, <1>7

(* Only the directory of a stopped session is removed. *)
LEMMA ReconcileDirKeeps ==
  ASSUME IInv, NEW s \in Sessions, ReconcileDir(s)
  PROVE  IInv'
  <1> USE DEF IInv, ReconcileDir, RemoveWorkspace, NoFault, Fault
  <1>1. TypeOK'
    BY DEF TypeOK, Rows, Handlers, Requests, Cleaners, Budgets, Actions, Exists
  <1>2. RowInv'
    BY DEF RowInv, Exists, NoRow, TypeOK, Rows, Requests, Cleaners
  <1>3. DelInv'
    BY DEF DelInv, Rows, Requests, Cleaners, Exists, TypeOK, RowInv, NoRow
  <1>4. GcInv'
    BY DEF GcInv, Rows, Requests, Cleaners, Exists, TypeOK, RowInv, NoRow
  <1>5. WsInv'
    BY DEF WsInv, Rows, Requests, Cleaners, Active, Exists, TypeOK, RowInv,
            DelInv, GcInv, NoRow
  <1>6. ContainerTracked'
    BY DEF ContainerTracked, Rows, Requests, Cleaners, TypeOK, RowInv, Exists
  <1>7. AuditTruthful'
    BY DEF AuditTruthful, Actions, Rows, Requests, Cleaners, TypeOK, RowInv,
            DelInv, GcInv, Exists, NoRow
  <1> QED
    BY <1>1, <1>2, <1>3, <1>4, <1>5, <1>6, <1>7

(* The server starts to listen with an idle cleaner. *)
LEMMA StartServingKeeps ==
  ASSUME IInv, StartServing
  PROVE  IInv'
  <1> USE DEF IInv, StartServing, Idle
  <1>1. TypeOK'
    BY DEF TypeOK, Rows, Handlers, Requests, Cleaners, Budgets, Actions
  <1>2. RowInv'
    BY DEF RowInv, Exists, NoRow, TypeOK, Rows, Requests, Cleaners
  <1>3. DelInv'
    BY DEF DelInv, Rows, Requests, Cleaners, Exists, TypeOK, RowInv, NoRow
  <1>4. GcInv'
    BY DEF GcInv, Rows, Requests, Cleaners, Exists, TypeOK, RowInv, NoRow
  <1>5. WsInv'
    BY DEF WsInv, Rows, Requests, Cleaners, Active, Exists, TypeOK, RowInv,
            DelInv, GcInv, NoRow
  <1>6. ContainerTracked'
    BY DEF ContainerTracked, Rows, Requests, Cleaners, TypeOK, RowInv
  <1>7. AuditTruthful'
    BY DEF AuditTruthful, Actions, Rows, Requests, Cleaners, TypeOK, RowInv,
            DelInv, GcInv, Exists, NoRow
  <1> QED
    BY <1>1, <1>2, <1>3, <1>4, <1>5, <1>6, <1>7

(* A label update refreshes an existing row. *)
LEMMA UpdateLabelsKeeps ==
  ASSUME IInv, NEW s \in Sessions, UpdateLabels(s)
  PROVE  IInv'
  <1> USE DEF IInv, UpdateLabels, Serving, Call, Put
  <1>1. TypeOK'
    <2> USE DEF TypeOK
    <2>1. row' \in [Sessions -> Rows]
      BY DEF Rows
    <2>2. ws' \subseteq Sessions /\ box' \subseteq Sessions /\ stuck' \subseteq Sessions
      OBVIOUS
    <2>3. create' \in [Sessions -> Handlers] /\ up' \in {"serving", "stopping", "down", "starting"}
      BY DEF Handlers
    <2>4. del' \in [Deletes -> Requests]
      BY DEF Requests
    <2>5. gc' \in Cleaners
      BY DEF Cleaners
    <2>6. budget' \in Budgets
      BY DEF Budgets
    <2>7. gauge' \in Int /\ used' \subseteq Sessions /\ log' \in [Sessions -> SUBSET Actions]
      BY DEF Actions
    <2> QED
      BY <2>1, <2>2, <2>3, <2>4, <2>5, <2>6, <2>7
  <1>2. RowInv'
    <2>1. \A t \in Sessions : t # s => row'[t] = row[t]
      BY DEF TypeOK
    <2>2. row'[s].status # "none" /\ row'[s].cid = row[s].cid
      BY DEF TypeOK, Rows, Requests, Cleaners, Exists
    <2>3. Exists(s) /\ (row'[s].status = "running" => row[s].status = "running")
      BY DEF TypeOK, Rows, Requests, Cleaners, RowInv, Exists, NoRow
    <2> QED
      BY <2>1, <2>2, <2>3, RowUpdateKeeps
  <1>3. DelInv'
    BY DEF DelInv, Rows, Requests, Cleaners, Exists, TypeOK, RowInv, NoRow
  <1>4. GcInv'
    BY DEF GcInv, Rows, Requests, Cleaners, Exists, TypeOK, RowInv, NoRow
  <1>5. WsInv'
    BY DEF WsInv, Rows, Requests, Cleaners, Active, Exists, TypeOK, RowInv,
            DelInv, GcInv, NoRow
  <1>6. ContainerTracked'
    BY DEF ContainerTracked, Rows, Requests, Cleaners, TypeOK, RowInv, Exists
  <1>7. AuditTruthful'
    BY DEF AuditTruthful, Actions, Rows, Requests, Cleaners, TypeOK, RowInv,
            DelInv, GcInv, Exists, NoRow
  <1> QED
    BY <1>1, <1>2, <1>3, <1>4, <1>5, <1>6, <1>7

(* A command does not touch the row. *)
LEMMA RunCommandKeeps ==
  ASSUME IInv, NEW s \in Sessions, RunCommand(s)
  PROVE  IInv'
  <1> USE DEF IInv, RunCommand, Serving, Call
  <1>1. TypeOK'
    BY DEF TypeOK, Rows, Handlers, Requests, Cleaners, Budgets, Actions
  <1>2. RowInv'
    BY DEF RowInv, Exists, NoRow, TypeOK, Rows, Requests, Cleaners
  <1>3. DelInv'
    BY DEF DelInv, Rows, Requests, Cleaners, Exists, TypeOK, RowInv, NoRow
  <1>4. GcInv'
    BY DEF GcInv, Rows, Requests, Cleaners, Exists, TypeOK, RowInv, NoRow
  <1>5. WsInv'
    BY DEF WsInv, Rows, Requests, Cleaners, Active, Exists, TypeOK, RowInv,
            DelInv, GcInv, NoRow
  <1>6. ContainerTracked'
    BY DEF ContainerTracked, Rows, Requests, Cleaners, TypeOK, RowInv
  <1>7. AuditTruthful'
    BY DEF AuditTruthful, Actions, Rows, Requests, Cleaners, TypeOK, RowInv,
            DelInv, GcInv, Exists, NoRow
  <1> QED
    BY <1>1, <1>2, <1>3, <1>4, <1>5, <1>6, <1>7

(* Time only makes a row idle. *)
LEMMA AgeKeeps ==
  ASSUME IInv, NEW s \in Sessions, Age(s)
  PROVE  IInv'
  <1> USE DEF IInv, Age, Put
  <1>1. TypeOK'
    <2> USE DEF TypeOK
    <2>1. row' \in [Sessions -> Rows]
      BY DEF Rows
    <2>2. ws' \subseteq Sessions /\ box' \subseteq Sessions /\ stuck' \subseteq Sessions
      OBVIOUS
    <2>3. create' \in [Sessions -> Handlers] /\ up' \in {"serving", "stopping", "down", "starting"}
      BY DEF Handlers
    <2>4. del' \in [Deletes -> Requests]
      BY DEF Requests
    <2>5. gc' \in Cleaners
      BY DEF Cleaners
    <2>6. budget' \in Budgets
      BY DEF Budgets
    <2>7. gauge' \in Int /\ used' \subseteq Sessions /\ log' \in [Sessions -> SUBSET Actions]
      BY DEF Actions
    <2> QED
      BY <2>1, <2>2, <2>3, <2>4, <2>5, <2>6, <2>7
  <1>2. RowInv'
    <2>1. \A t \in Sessions : t # s => row'[t] = row[t]
      BY DEF TypeOK
    <2>2. row'[s].status # "none" /\ row'[s].cid = row[s].cid
      BY DEF TypeOK, Rows, Requests, Cleaners, RowInv, NoRow, Exists
    <2>3. Exists(s) /\ (row'[s].status = "running" => row[s].status = "running")
      BY DEF TypeOK, Rows, Requests, Cleaners, RowInv, RowInv, NoRow, Exists, NoRow
    <2> QED
      BY <2>1, <2>2, <2>3, RowUpdateKeeps
  <1>3. DelInv'
    BY DEF DelInv, Rows, Requests, Cleaners, Exists, TypeOK, RowInv, NoRow
  <1>4. GcInv'
    BY DEF GcInv, Rows, Requests, Cleaners, Exists, TypeOK, RowInv, NoRow
  <1>5. WsInv'
    BY DEF WsInv, Rows, Requests, Cleaners, Active, Exists, TypeOK, RowInv,
            DelInv, GcInv, NoRow
  <1>6. ContainerTracked'
    BY DEF ContainerTracked, Rows, Requests, Cleaners, TypeOK, RowInv
  <1>7. AuditTruthful'
    BY DEF AuditTruthful, Actions, Rows, Requests, Cleaners, TypeOK, RowInv,
            DelInv, GcInv, Exists, NoRow
  <1> QED
    BY <1>1, <1>2, <1>3, <1>4, <1>5, <1>6, <1>7

(* Time only makes a session unused. *)
LEMMA AgeUseKeeps ==
  ASSUME IInv, NEW s \in Sessions, AgeUse(s)
  PROVE  IInv'
  <1> USE DEF IInv, AgeUse
  <1>1. TypeOK'
    BY DEF TypeOK, Rows, Handlers, Requests, Cleaners, Budgets, Actions
  <1>2. RowInv'
    BY DEF RowInv, Exists, NoRow, TypeOK, Rows, Requests, Cleaners
  <1>3. DelInv'
    BY DEF DelInv, Rows, Requests, Cleaners, Exists, TypeOK, RowInv, NoRow
  <1>4. GcInv'
    BY DEF GcInv, Rows, Requests, Cleaners, Exists, TypeOK, RowInv, NoRow
  <1>5. WsInv'
    BY DEF WsInv, Rows, Requests, Cleaners, Active, Exists, TypeOK, RowInv,
            DelInv, GcInv, NoRow
  <1>6. ContainerTracked'
    BY DEF ContainerTracked, Rows, Requests, Cleaners, TypeOK, RowInv
  <1>7. AuditTruthful'
    BY DEF AuditTruthful, Actions, Rows, Requests, Cleaners, TypeOK, RowInv,
            DelInv, GcInv, Exists, NoRow
  <1> QED
    BY <1>1, <1>2, <1>3, <1>4, <1>5, <1>6, <1>7

(* A container that vanishes is one less to track. *)
LEMMA ContainerVanishesKeeps ==
  ASSUME IInv, NEW s \in Sessions, ContainerVanishes(s)
  PROVE  IInv'
  <1> USE DEF IInv, ContainerVanishes, Fault
  <1>1. TypeOK'
    BY DEF TypeOK, Rows, Handlers, Requests, Cleaners, Budgets, Actions
  <1>2. RowInv'
    BY DEF RowInv, Exists, NoRow, TypeOK, Rows, Requests, Cleaners
  <1>3. DelInv'
    BY DEF DelInv, Rows, Requests, Cleaners, Exists, TypeOK, RowInv, NoRow
  <1>4. GcInv'
    BY DEF GcInv, Rows, Requests, Cleaners, Exists, TypeOK, RowInv, NoRow
  <1>5. WsInv'
    BY DEF WsInv, Rows, Requests, Cleaners, Active, Exists, TypeOK, RowInv,
            DelInv, GcInv, NoRow
  <1>6. ContainerTracked'
    BY DEF ContainerTracked, Rows, Requests, Cleaners, TypeOK, RowInv
  <1>7. AuditTruthful'
    BY DEF AuditTruthful, Actions, Rows, Requests, Cleaners, TypeOK, RowInv,
            DelInv, GcInv, Exists, NoRow
  <1> QED
    BY <1>1, <1>2, <1>3, <1>4, <1>5, <1>6, <1>7

----------------------------------------------------------------------------
(* IInv is inductive: every interleaving of handlers, sweep, reconciliation, *)
(* failures and crashes keeps it.                                            *)
THEOREM Invariant == Spec => []IInv
  <1>1. Init => IInv
    <2> SUFFICES ASSUME Init PROVE IInv
      OBVIOUS
    <2> USE DEF Init, NoRow, Idle, Exists
    <2>1. TypeOK
      BY SessionsAssumption DEF TypeOK, Rows, Handlers, Requests, Cleaners, Budgets, Actions
    <2>2. RowInv /\ DelInv /\ GcInv /\ WsInv
      BY DEF RowInv, DelInv, GcInv, WsInv, Active
    <2>3. ContainerTracked /\ AuditTruthful
      BY DEF ContainerTracked, AuditTruthful
    <2> QED
      BY <2>1, <2>2, <2>3 DEF IInv
  <1>2. IInv /\ [Next]_vars => IInv'
    <2> SUFFICES ASSUME IInv, [Next]_vars PROVE IInv'
      OBVIOUS
    <2>1. ASSUME NEW s \in Sessions, Create(s) PROVE IInv'
      BY <2>1, CreateAdmitKeeps, CreateRefuseKeeps, CreateWorkspaceKeeps,
         CreateWorkspaceFailsKeeps, CreateRestoreFailsKeeps, CreateBadLabelsKeeps,
         CreateInsertKeeps, CreateInsertFailsKeeps, CreateWithoutSandboxKeeps,
         CreateSandboxKeeps, CreateSandboxFailsKeeps, CreateFailKeeps, CreateWipeKeeps,
         CreatePersistKeeps, CreatePersistFailsKeeps, CreateUndoSandboxKeeps,
         CreateUndoWorkspaceKeeps, CreateFinishKeeps DEF Create
    <2>2. ASSUME NEW d \in Deletes, Delete(d) PROVE IInv'
      BY <2>2, DeleteBeginKeeps, DeleteStopKeeps, DeleteWorkspaceKeeps, DeleteMarkKeeps,
         DeleteMarkFailsKeeps, DeleteFinishKeeps DEF Delete
    <2>3. CASE Sweep
      BY <2>3, SweepListKeeps, SweepMarkKeeps, SweepMarkFailsKeeps, GcCleanKeeps,
         GcLogKeeps, SweepStopKeeps DEF Sweep
    <2>4. CASE Reconcile
      BY <2>4, RestartKeeps, RestartUnreconciledKeeps, ReconcileDirsKeeps,
         StartServingKeeps, ReconcileKeepKeeps, ReconcileCloseKeeps,
         ReconcileCloseFailsKeeps, ReconcileDirKeeps
         DEF Reconcile
    <2>5. CASE Environment
      BY <2>5, UpdateLabelsKeeps, RunCommandKeeps, AgeKeeps, AgeUseKeeps,
         ContainerVanishesKeeps DEF Environment
    <2>6. CASE UNCHANGED vars
      <3> USE <2>6 DEF vars, IInv
      <3>1. TypeOK' /\ RowInv' /\ DelInv'
        BY DEF TypeOK, RowInv, DelInv, Exists
      <3>2. GcInv' /\ WsInv' /\ ContainerTracked' /\ AuditTruthful'
        BY DEF GcInv, WsInv, ContainerTracked, AuditTruthful, Active, Exists
      <3> QED
        BY <3>1, <3>2
    <2> QED
      BY <2>1, <2>2, <2>3, <2>4, <2>5, <2>6, ShutdownKeeps, CrashKeeps DEF Next
  <1> QED
    BY <1>1, <1>2, PTL DEF Spec

(* Every variable keeps its type. *)
THEOREM TypeCorrect == Spec => []TypeOK
  BY Invariant, PTL DEF IInv

(* A container is always in a row, in its handler's hands, stuck in Docker *)
(* or left by a crash in its very creation: Create's cleanup paths lose    *)
(* none.                                                                   *)
THEOREM NoLostContainer == Spec => []ContainerTracked
  BY Invariant, PTL DEF IInv

(* A session offered as running has its workspace, unless a DELETE is, or  *)
(* died or failed, between removing the workspace and marking the row, or  *)
(* its creation answered an error after the row had become "running".      *)
THEOREM WorkspaceKept == Spec => []RunningHasWorkspace
  <1>1. IInv => RunningHasWorkspace
    BY DEF IInv, WsInv, RunningHasWorkspace, Active, Exists
  <1> QED
    BY <1>1, Invariant, PTL

(* No audit entry reports an end that has not happened, nor a creation     *)
(* whose container id was not stored.                                      *)
THEOREM AuditIsTruthful == Spec => []AuditTruthful
  BY Invariant, PTL DEF IInv

----------------------------------------------------------------------------
(* The start of the server. *)

(* While nothing has failed: a session whose row names a container has it, *)
(* or is still on the reconciliation's list; once that list is done, so is *)
(* every directory of a stopped session.                                   *)
ReconInv ==
  budget.faults = MaxFaults =>
    /\ up = "starting" =>
         \A s \in ListActiveSessions : row[s].cid => s \in box \/ (gc.pc # "dirs" /\ s \in gc.todo)
    /\ gc.pc = "dirs" => \A s \in ws : row[s].stopped => s \in gc.todo

(* Only a start reconciles, and what has failed is not taken back. *)
StartInv ==
  /\ gc.pc \in {"recon", "dirs"} => up = "starting"
  /\ budget.faults <= MaxFaults
  /\ ReconInv

(* What failed leaves nothing to show. *)
LEMMA FaultKeeps ==
  ASSUME IInv, StartInv, Fault, gc'.pc \in {"recon", "dirs"} => up' = "starting"
  PROVE  StartInv'
  <1>1. budget.faults \in Nat /\ budget'.faults = budget.faults - 1
    BY SessionsAssumption DEF IInv, TypeOK, Budgets, Fault
  <1>2. MaxFaults \in Nat /\ budget'.faults < MaxFaults
    BY <1>1, SessionsAssumption DEF StartInv
  <1> QED
    BY <1>1, <1>2 DEF StartInv, ReconInv

(* While the server serves, or is down, there is nothing to reconcile. *)
LEMMA ServingKeeps ==
  ASSUME StartInv, up' # "starting", gc'.pc \notin {"recon", "dirs"},
         budget'.faults <= MaxFaults
  PROVE  StartInv'
  BY DEF StartInv, ReconInv

(* A request that is served leaves the cleaner and the process alone. *)
LEMMA RequestKeepsStart ==
  ASSUME IInv, StartInv, Serving, UNCHANGED <<gc, up>>, NoFault \/ Fault \/ Call
  PROVE  StartInv'
  <1>1. up' # "starting" /\ gc'.pc \notin {"recon", "dirs"}
    BY DEF Serving, StartInv
  <1>2. budget'.faults <= MaxFaults
    BY SessionsAssumption DEF IInv, TypeOK, Budgets, StartInv, NoFault, Fault, Call
  <1> QED
    BY <1>1, <1>2, ServingKeeps

LEMMA CreateKeepsStart ==
  ASSUME IInv, StartInv, NEW s \in Sessions, Create(s)
  PROVE  StartInv'
  <1>1. Serving /\ UNCHANGED <<gc, up>> /\ (NoFault \/ Fault)
    <2>1. CASE CreateAdmit(s) \/ CreateRefuse(s) \/ CreateWorkspace(s) \/ CreateBadLabels(s)
               \/ CreateInsert(s) \/ CreateSandbox(s) \/ CreatePersist(s)
      BY <2>1 DEF CreateAdmit, CreateRefuse, CreateWorkspace, CreateBadLabels, CreateInsert,
         CreateSandbox, CreatePersist, Step, NoFault
    <2>2. CASE CreateWorkspaceFails(s) \/ CreateRestoreFails(s) \/ CreateInsertFails(s)
               \/ CreateSandboxFails(s) \/ CreateFail(s) \/ CreateWipe(s)
      BY <2>2 DEF CreateWorkspaceFails, CreateRestoreFails, CreateInsertFails, CreateSandboxFails,
         CreateFail, CreateWipe, Step, RemoveWorkspace
    <2>3. CASE CreatePersistFails(s) \/ CreateUndoSandbox(s) \/ CreateUndoWorkspace(s)
               \/ CreateWithoutSandbox(s) \/ CreateFinish(s)
      BY <2>3 DEF CreatePersistFails, CreateUndoSandbox, CreateUndoWorkspace, CreateWithoutSandbox,
         CreateFinish, Step, RemoveWorkspace, StopSandbox, LogAction
    <2> QED
      BY <2>1, <2>2, <2>3 DEF Create
  <1> QED
    BY <1>1, RequestKeepsStart

LEMMA DeleteKeepsStart ==
  ASSUME IInv, StartInv, NEW d \in Deletes, Delete(d)
  PROVE  StartInv'
  <1>1. Serving /\ UNCHANGED <<gc, up>> /\ (NoFault \/ Fault)
    BY DEF Delete, DeleteBegin, DeleteStop, DeleteWorkspace, DeleteMark, DeleteMarkFails,
       DeleteFinish, DeleteAt, RemoveWorkspace, StopSandbox, LogAction, NoFault
  <1> QED
    BY <1>1, RequestKeepsStart

(* The sweep runs while the server serves; the reconciliation shares its   *)
(* last two steps and goes on with its list after them.                    *)
LEMMA SweepKeepsStart ==
  ASSUME IInv, StartInv, Sweep
  PROVE  StartInv'
  <1>1. ASSUME Serving, NoFault \/ Fault, UNCHANGED up, gc'.pc \notin {"recon", "dirs"}
        PROVE  StartInv'
    <2>1. up' # "starting"
      BY <1>1 DEF Serving
    <2>2. budget'.faults <= MaxFaults
      BY <1>1, SessionsAssumption DEF IInv, TypeOK, Budgets, StartInv, NoFault, Fault
    <2> QED
      BY <1>1, <2>1, <2>2, ServingKeeps
  <1>2. gc \in Cleaners
    BY DEF IInv, TypeOK
  <1>3. GcNext /\ up # "starting" => gc'.pc \notin {"recon", "dirs"}
    BY <1>2 DEF GcNext, Idle, Cleaners
  <1>4. CASE SweepList
    BY <1>1, <1>4 DEF SweepList, NoFault
  <1>5. ASSUME NEW s \in Sessions, SweepStop(s) PROVE StartInv'
    <2>1. gc'.pc = "mark"
      BY <1>2, <1>5 DEF SweepStop, Cleaners
    <2> QED
      BY <1>1, <1>5, <2>1 DEF SweepStop, StopSandbox
  <1>6. CASE SweepMark
    <2>1. gc'.pc = "clean"
      BY <1>2, <1>6 DEF SweepMark, Cleaners
    <2> QED
      BY <1>1, <1>6, <2>1 DEF SweepMark, NoFault
  <1>7. CASE SweepMarkFails
    BY <1>1, <1>3, <1>7 DEF SweepMarkFails, Serving
  <1>8. CASE GcClean \/ GcLog
    <2>1. UNCHANGED <<row, box, up>> /\ ws' \subseteq ws /\ (NoFault \/ Fault)
      BY <1>8 DEF GcClean, GcLog, RemoveWorkspace, LogAction
    <2>2. /\ gc'.pc # "dirs" /\ (gc'.pc = "recon" => up = "starting")
          /\ up = "starting" => gc'.todo = gc.todo
      <3>1. CASE GcClean
        BY <1>2, <3>1 DEF GcClean, Cleaners
      <3>2. CASE GcLog /\ up = "starting"
        <4>1. gc' = [gc EXCEPT !.pc = "recon", !.cur = NoSession]
          BY <3>2 DEF GcLog, GcNext
        <4> QED
          BY <1>2, <3>2, <4>1 DEF Cleaners
      <3>3. CASE GcLog /\ up # "starting"
        BY <1>3, <3>3 DEF GcLog
      <3> QED
        BY <1>8, <3>1, <3>2, <3>3
    <2>3. CASE Fault
      BY <2>1, <2>2, <2>3, FaultKeeps
    <2>4. CASE NoFault
      BY <2>1, <2>2, <2>4 DEF StartInv, ReconInv, ListActiveSessions, NoFault
    <2> QED
      BY <2>1, <2>3, <2>4
  <1> QED
    BY <1>4, <1>5, <1>6, <1>7, <1>8 DEF Sweep

(* The reconciliation itself. *)
LEMMA ReconcileKeepsStart ==
  ASSUME IInv, StartInv, Reconcile
  PROVE  StartInv'
  <1>1. gc \in Cleaners /\ row \in [Sessions -> Rows]
    BY DEF IInv, TypeOK
  <1>2. CASE Restart
    <2>1. gc'.pc = "recon" /\ gc'.todo = {s \in ListActiveSessions : row[s].cid}
      BY <1>2 DEF Restart, Idle
    <2> QED
      BY <1>2, <2>1 DEF Restart, StartInv, ReconInv, ListActiveSessions
  <1>3. CASE RestartUnreconciled
    BY <1>3, FaultKeeps DEF RestartUnreconciled, StartInv
  <1>4. ASSUME NEW s \in Sessions, ReconcileKeep(s) PROVE StartInv'
    <2>1. gc'.pc = "recon" /\ gc'.todo = gc.todo \ {s} /\ gc.pc = "recon" /\ UNCHANGED <<row, ws, box, up>>
      BY <1>1, <1>4 DEF ReconcileKeep, Cleaners
    <2>2. CASE Fault
      BY <2>1, <2>2, FaultKeeps DEF StartInv
    <2>3. CASE s \in box /\ NoFault
      <3>1. ListActiveSessions' = ListActiveSessions /\ UNCHANGED budget
        BY <2>1, <2>3 DEF ListActiveSessions, NoFault
      <3> QED
        BY <2>1, <2>3, <3>1 DEF StartInv, ReconInv
    <2> QED
      BY <1>4, <2>2, <2>3 DEF ReconcileKeep
  <1>5. ASSUME NEW s \in Sessions, ReconcileClose(s) PROVE StartInv'
    <2>1. /\ gc'.pc = "clean" /\ gc'.todo = gc.todo \ {s} /\ gc.pc = "recon"
          /\ UNCHANGED <<ws, box, up, budget>>
      BY <1>1, <1>5 DEF ReconcileClose, Cleaners
    <2>2. row'[s].stopped /\ \A t \in Sessions \ {s} : row'[t] = row[t]
      BY <1>1, <1>5 DEF ReconcileClose, StopSession, Put, Rows
    <2> QED
      BY <2>1, <2>2 DEF StartInv, ReconInv, ListActiveSessions
  <1>9. ASSUME NEW s \in Sessions, ReconcileCloseFails(s) PROVE StartInv'
    <2>1. gc'.pc = "recon" /\ gc.pc = "recon" /\ UNCHANGED up /\ Fault
      BY <1>1, <1>9 DEF ReconcileCloseFails, Cleaners
    <2> QED
      BY <2>1, FaultKeeps DEF StartInv
  <1>6. CASE ReconcileDirs
    <2>1. /\ gc'.pc = "dirs" /\ gc'.todo = ws /\ gc.pc = "recon" /\ gc.todo = {}
          /\ UNCHANGED <<row, ws, box, up, budget>>
      BY <1>1, <1>6 DEF ReconcileDirs, Cleaners
    <2> QED
      BY <2>1 DEF StartInv, ReconInv, ListActiveSessions
  <1>7. ASSUME NEW s \in Sessions, ReconcileDir(s) PROVE StartInv'
    <2>1. gc'.pc = "dirs" /\ gc'.todo = gc.todo \ {s} /\ gc.pc = "dirs" /\ UNCHANGED <<row, box, up>>
      BY <1>1, <1>7 DEF ReconcileDir, Cleaners
    <2>2. CASE Fault
      BY <2>1, <2>2, FaultKeeps DEF StartInv
    <2>3. CASE NoFault
      <3>1. row[s].stopped => Exists(s)
        BY DEF IInv, RowInv
      <3>2. ws' \subseteq ws
        BY <1>7 DEF ReconcileDir, RemoveWorkspace
      <3>3. row[s].stopped /\ ~Fault => s \notin ws'
        BY <1>7, <3>1 DEF ReconcileDir, RemoveWorkspace
      <3>4. ListActiveSessions' = ListActiveSessions /\ UNCHANGED budget
        BY <2>1, <2>3 DEF ListActiveSessions, NoFault
      <3> QED
        BY <2>1, <2>2, <2>3, <3>2, <3>3, <3>4 DEF StartInv, ReconInv
    <2> QED
      BY <1>7, <2>2, <2>3 DEF ReconcileDir, RemoveWorkspace
  <1>8. CASE StartServing
    BY <1>8, ServingKeeps DEF StartServing, StartInv, Idle
  <1> QED
    BY <1>2, <1>3, <1>4, <1>5, <1>6, <1>7, <1>8, <1>9 DEF Reconcile

LEMMA EnvironmentKeepsStart ==
  ASSUME IInv, StartInv, Environment
  PROVE  StartInv'
  <1>1. row \in [Sessions -> Rows]
    BY DEF IInv, TypeOK
  <1>2. ASSUME NEW s \in Sessions, UpdateLabels(s) \/ RunCommand(s) PROVE StartInv'
    BY <1>2, RequestKeepsStart DEF UpdateLabels, RunCommand
  <1>3. ASSUME NEW s \in Sessions, Age(s) \/ AgeUse(s) PROVE StartInv'
    <2>1. UNCHANGED <<ws, box, gc, up, budget>>
      BY <1>3 DEF Age, AgeUse
    <2>2. \A t \in Sessions : /\ row'[t].status = row[t].status /\ row'[t].stopped = row[t].stopped
                              /\ row'[t].cid = row[t].cid
      BY <1>1, <1>3 DEF Age, AgeUse, Put, Rows
    <2>3. ListActiveSessions' = ListActiveSessions
      BY <2>2 DEF ListActiveSessions
    <2>4. ws \subseteq Sessions
      BY DEF IInv, TypeOK
    <2> QED
      BY <2>1, <2>2, <2>3, <2>4 DEF StartInv, ReconInv, ListActiveSessions
  <1>4. ASSUME NEW s \in Sessions, ContainerVanishes(s) PROVE StartInv'
    BY <1>4, FaultKeeps DEF ContainerVanishes, StartInv
  <1> QED
    BY <1>2, <1>3, <1>4 DEF Environment

(* When the server starts to listen and no call failed, every active       *)
(* session whose row names a container has it, and no stopped session has a *)
(* directory left (ReconcileOrphans, removeStoppedWorkspaces).             *)
THEOREM StartIsReconciled == Spec => StartsReconciled
  <1>1. Init => StartInv
    BY SessionsAssumption DEF Init, Idle, StartInv, ReconInv
  <1>2. IInv /\ StartInv /\ [Next]_vars => StartInv'
    <2> SUFFICES ASSUME IInv, StartInv, [Next]_vars PROVE StartInv'
      OBVIOUS
    <2>1. CASE Shutdown
      <3>1. up' = "stopping" /\ UNCHANGED gc /\ up = "serving"
        BY <2>1 DEF Shutdown
      <3>2. budget'.faults = budget.faults
        BY <2>1 DEF Shutdown, IInv, TypeOK, Budgets
      <3> QED
        BY <3>1, <3>2, ServingKeeps DEF StartInv
    <2>2. CASE Crash
      <3>1. up' = "down" /\ gc'.pc = "off"
        BY <2>2 DEF Crash, Idle
      <3>2. budget'.faults = budget.faults
        BY <2>2 DEF Crash, IInv, TypeOK, Budgets
      <3> QED
        BY <3>1, <3>2, ServingKeeps DEF StartInv
    <2>3. CASE UNCHANGED vars
      BY <2>3 DEF vars, StartInv, ReconInv, ListActiveSessions
    <2> QED
      BY <2>1, <2>2, <2>3, CreateKeepsStart, DeleteKeepsStart, SweepKeepsStart, ReconcileKeepsStart,
         EnvironmentKeepsStart DEF Next
  <1>3. IInv /\ StartInv /\ [Next]_vars =>
          [StartServing /\ budget.faults = MaxFaults =>
             /\ \A s \in ListActiveSessions : row[s].cid => s \in box
             /\ \A s \in ws : ~row[s].stopped]_vars
    BY DEF StartServing, StartInv, ReconInv
  <1>4. Spec => []StartInv
    BY <1>1, <1>2, Invariant, PTL DEF Spec
  <1> QED
    BY <1>3, <1>4, Invariant, PTL DEF Spec, StartsReconciled

----------------------------------------------------------------------------
(* The refinement of the ledger. *)

(* The instance's Cardinality is the handlers' own. *)
LEMMA SameSize == \A S : Ledger!Cardinality(S) = Cardinality(S)
  BY DEF Ledger!Cardinality, Cardinality

(* A step that moves no creation in or out of the counted ones and neither *)
(* inserts nor stops a row is invisible to the ledger.                     *)
LEMMA QuietStep ==
  ASSUME \A t \in Sessions :
           /\ create'[t] \in {"admitted", "ws"} <=> create[t] \in {"admitted", "ws"}
           /\ row'[t].status # "none" <=> row[t].status # "none"
           /\ row'[t].stopped <=> row[t].stopped
  PROVE  UNCHANGED Ledger!vars
  BY DEF Ledger!vars, Counted, Active, Exists

(* Stopping an existing row closes it in the ledger, or repeats that. *)
LEMMA StopCloses ==
  ASSUME NEW x \in Sessions, Exists(x),
         \A t \in Sessions :
           create'[t] \in {"admitted", "ws"} <=> create[t] \in {"admitted", "ws"},
         \A t \in Sessions : t # x => row'[t] = row[t],
         row'[x].status # "none", row'[x].stopped
  PROVE  Ledger!Close(x) \/ UNCHANGED Ledger!vars
  <1>1. CASE row[x].stopped
    BY <1>1, QuietStep DEF Exists
  <1>2. CASE ~row[x].stopped
    BY <1>2 DEF Ledger!Close, Counted, Active, Exists
  <1> QED
    BY <1>1, <1>2

(* A creation is a ledger step: the count admits, the insert opens, an     *)
(* error before the insert drops, FailSession closes, the rest is quiet.   *)
LEMMA CreateRefines ==
  ASSUME IInv, NEW s \in Sessions, Create(s)
  PROVE  Ledger!Next \/ UNCHANGED Ledger!vars
  <1> USE DEF IInv, Step, Serving
  <1>1. CASE CreateAdmit(s)
    <2>1. {t \in SessionsOf(Owner[s]) : Active(t)}
            = {t \in Sessions : Active(t)} \cap SessionsOf(Owner[s])
      BY DEF SessionsOf
    <2>2. row[s] = NoRow /\ row' = row
      BY <1>1 DEF CreateAdmit, RowInv
    <2>3. Counted' = Counted \cup {s} /\ s \notin Counted
      BY <1>1 DEF CreateAdmit, Counted, TypeOK
    <2>a. s \notin Counted \cup {t \in Sessions : Active(t)}
                  \cup {t \in Sessions : Exists(t) /\ row[t].stopped}
      BY <2>2, <2>3 DEF Active, Exists, NoRow
    <2>b. Limited(Owner[s]) =>
            Cardinality({t \in Sessions : Active(t)} \cap SessionsOf(Owner[s]))
              < MaxSessionsPerActor
      BY <1>1, <2>1 DEF CreateAdmit, CountActiveSessionsByActor
    <2>c. Cardinality(Counted \cap SessionsOf(Owner[s])) < Concurrency
      BY <1>1 DEF CreateAdmit
    <2>d. UNCHANGED <<{t \in Sessions : Active(t)}, {t \in Sessions : Exists(t) /\ row[t].stopped}>>
      BY <2>2 DEF Active, Exists
    <2>4. Ledger!Admit(s)
      BY <2>a, <2>b, <2>c, <2>d, <2>3, SameSize, Zenon
         DEF Ledger!Admit, Ledger!SessionsOf, Ledger!Limited, SessionsOf, Limited
    <2> QED
      BY <2>4 DEF Ledger!Next
  <1>2. CASE \/ CreateInsert(s) \/ CreateWithoutSandbox(s)
             \/ CreateInsertFails(s) /\ CreateSession(s)
    <2>1. row[s] = NoRow /\ Counted' = Counted \ {s} /\ s \in Counted
      BY <1>2 DEF CreateInsert, CreateWithoutSandbox, CreateInsertFails, RowInv, Counted, TypeOK
    <2>2. /\ \A t \in Sessions : t # s => row'[t] = row[t]
          /\ row'[s].status = "created" /\ row'[s].stopped = FALSE
      BY <1>2 DEF CreateInsert, CreateWithoutSandbox, CreateInsertFails, CreateSession, Put, TypeOK
    <2>3. Ledger!Open(s)
      BY <2>1, <2>2 DEF Ledger!Open, Active, Exists, NoRow
    <2> QED
      BY <2>3 DEF Ledger!Next
  <1>3. CASE \/ CreateWorkspaceFails(s) \/ CreateRestoreFails(s) \/ CreateBadLabels(s)
             \/ CreateInsertFails(s) /\ UNCHANGED row
    <2>1. /\ Counted' = Counted \ {s} /\ s \in Counted /\ row' = row
      BY <1>3 DEF CreateWorkspaceFails, CreateRestoreFails, CreateBadLabels,
                  CreateInsertFails, Counted, TypeOK
    <2>2. Ledger!Drop({s})
      BY <2>1 DEF Ledger!Drop, Active, Exists
    <2> QED
      BY <2>2 DEF Ledger!Next
  <1>4. CASE CreateFail(s)
    <2>1. /\ Exists(s)
          /\ \A t \in Sessions : create'[t] \in {"admitted", "ws"} <=> create[t] \in {"admitted", "ws"}
      BY <1>4 DEF CreateFail, RowInv, TypeOK
    <2>2. CASE FailSession(s)
      <3>1. /\ \A t \in Sessions : t # s => row'[t] = row[t]
            /\ row'[s].status = "error" /\ row'[s].stopped = TRUE
        BY <2>2 DEF FailSession, Put, TypeOK
      <3> QED
        BY <2>1, <3>1, StopCloses DEF Ledger!Next
    <2>3. CASE UNCHANGED row
      BY <2>1, <2>3, QuietStep
    <2> QED
      BY <1>4, <2>2, <2>3 DEF CreateFail
  <1>5. CASE CreatePersist(s) \/ (CreatePersistFails(s) /\ UpdateSessionStatus(s))
    <2>1. /\ Exists(s)
          /\ \A t \in Sessions : create'[t] \in {"admitted", "ws"} <=> create[t] \in {"admitted", "ws"}
      BY <1>5 DEF CreatePersist, CreatePersistFails, RowInv, TypeOK
    <2>2. /\ \A t \in Sessions : t # s => row'[t] = row[t]
          /\ row'[s].status = "running" /\ row'[s].stopped = row[s].stopped
      BY <1>5 DEF CreatePersist, CreatePersistFails, UpdateSessionStatus, Put, TypeOK
    <2> QED
      BY <2>1, <2>2, QuietStep DEF Exists
  <1>6. CASE \/ CreateRefuse(s) \/ CreateWorkspace(s) \/ CreateSandbox(s)
             \/ CreateSandboxFails(s) \/ CreateWipe(s)
             \/ CreatePersistFails(s) /\ UNCHANGED row
             \/ CreateUndoSandbox(s) \/ CreateUndoWorkspace(s) \/ CreateFinish(s)
    <2>1. /\ UNCHANGED row
          /\ \A t \in Sessions : create'[t] \in {"admitted", "ws"} <=> create[t] \in {"admitted", "ws"}
      BY <1>6 DEF CreateRefuse, CreateWorkspace, CreateSandbox, CreateSandboxFails,
                  CreateWipe, CreatePersistFails, CreateUndoSandbox, CreateUndoWorkspace,
                  CreateFinish, TypeOK
    <2> QED
      BY <2>1, QuietStep
  <1>7. CreateInsertFails(s) => CreateSession(s) \/ UNCHANGED row
    BY DEF CreateInsertFails
  <1>8. CreatePersistFails(s) => UpdateSessionStatus(s) \/ UNCHANGED row
    BY DEF CreatePersistFails
  <1> QED
    BY <1>1, <1>2, <1>3, <1>4, <1>5, <1>6, <1>7, <1>8, Zenon DEF Create

(* Everyone else only stops rows, and a crash drops what was counted. *)
LEMMA OtherRefines ==
  ASSUME IInv, Next, \A s \in Sessions : ~Create(s)
  PROVE  Ledger!Next \/ UNCHANGED Ledger!vars
  <1> USE DEF IInv
  <1>1. ASSUME NEW d \in Deletes, DeleteMark(d) \/ (DeleteMarkFails(d) /\ StopSession(del[d].sid))
        PROVE  Ledger!Next \/ UNCHANGED Ledger!vars
    <2>1. /\ del[d].sid \in Sessions /\ Exists(del[d].sid) /\ UNCHANGED create
          /\ \A t \in Sessions : t # del[d].sid => row'[t] = row[t]
          /\ row'[del[d].sid].status = "stopped" /\ row'[del[d].sid].stopped = TRUE
      BY <1>1 DEF DeleteMark, DeleteMarkFails, DeleteAt, StopSession, Put, DelInv, TypeOK
    <2> QED
      BY <2>1, StopCloses DEF Ledger!Next
  <1>2. CASE SweepMark \/ (SweepMarkFails /\ StopSession(gc.cur))
    <2>1. /\ gc.cur \in Sessions /\ Exists(gc.cur) /\ UNCHANGED create
          /\ \A t \in Sessions : t # gc.cur => row'[t] = row[t]
          /\ row'[gc.cur].status = "stopped" /\ row'[gc.cur].stopped = TRUE
      BY <1>2 DEF SweepMark, SweepMarkFails, StopSession, Put, GcInv, TypeOK
    <2> QED
      BY <2>1, StopCloses DEF Ledger!Next
  <1>3. ASSUME NEW s \in Sessions,
               ReconcileClose(s) \/ (ReconcileCloseFails(s) /\ StopSession(s))
        PROVE  Ledger!Next \/ UNCHANGED Ledger!vars
    <2>1. /\ Exists(s) /\ UNCHANGED create
          /\ \A t \in Sessions : t # s => row'[t] = row[t]
          /\ row'[s].status = "stopped" /\ row'[s].stopped = TRUE
      BY <1>3 DEF ReconcileClose, ReconcileCloseFails, StopSession, Put, GcInv, TypeOK
    <2> QED
      BY <2>1, StopCloses DEF Ledger!Next
  <1>4. ASSUME NEW s \in Sessions, UpdateLabels(s) \/ Age(s)
        PROVE  UNCHANGED Ledger!vars
    <2>1. /\ UNCHANGED create
          /\ \A t \in Sessions : row'[t].status = row[t].status /\ row'[t].stopped = row[t].stopped
      BY <1>4 DEF UpdateLabels, Age, Put, TypeOK
    <2> QED
      BY <2>1, QuietStep
  <1>5. CASE Crash
    <2>1. Counted' = {} /\ row' = row /\ Counted \in SUBSET Sessions
      BY <1>5 DEF Crash, Counted, InFlight, Handlers, TypeOK
    <2>2. Ledger!Drop(Counted)
      BY <2>1 DEF Ledger!Drop, Active, Exists
    <2> QED
      BY <2>1, <2>2 DEF Ledger!Next
  <1>6. CASE UNCHANGED <<row, create>>
    BY <1>6, QuietStep
  <1>7. ASSUME NEW d \in Deletes, Delete(d)
        PROVE  \/ DeleteMark(d) \/ (DeleteMarkFails(d) /\ StopSession(del[d].sid))
               \/ UNCHANGED <<row, create>>
    BY <1>7 DEF Delete, DeleteBegin, DeleteStop, DeleteWorkspace, DeleteMarkFails, DeleteFinish
  <1>8. ASSUME Sweep
        PROVE  \/ SweepMark \/ (SweepMarkFails /\ StopSession(gc.cur))
               \/ UNCHANGED <<row, create>>
    BY <1>8 DEF Sweep, SweepList, SweepStop, SweepMarkFails, GcClean, GcLog
  <1>9. ASSUME Reconcile
        PROVE  \/ \E s \in Sessions :
                    ReconcileClose(s) \/ (ReconcileCloseFails(s) /\ StopSession(s))
               \/ UNCHANGED <<row, create>>
    BY <1>9 DEF Reconcile, Restart, RestartUnreconciled, ReconcileDirs, StartServing,
                ReconcileKeep, ReconcileCloseFails, ReconcileDir
  <1>10. ASSUME Environment
         PROVE  \/ \E s \in Sessions : UpdateLabels(s) \/ Age(s)
                \/ UNCHANGED <<row, create>>
    BY <1>10 DEF Environment, RunCommand, AgeUse, ContainerVanishes
  <1>11. ASSUME Shutdown PROVE UNCHANGED <<row, create>>
    BY <1>11 DEF Shutdown
  <1> QED
    BY <1>1, <1>2, <1>3, <1>4, <1>5, <1>6, <1>7, <1>8, <1>9, <1>10, <1>11 DEF Next

(* Every step is a step of the ledger or invisible to it. *)
LEMMA StepRefines ==
  ASSUME IInv, [Next]_vars
  PROVE  Ledger!Next \/ UNCHANGED Ledger!vars
  <1>1. CASE UNCHANGED vars
    BY <1>1, QuietStep DEF vars
  <1>2. CASE \E s \in Sessions : Create(s)
    <2>1. PICK s \in Sessions : Create(s)
      BY <1>2
    <2> QED
      BY <2>1, CreateRefines
  <1>3. CASE Next /\ \A s \in Sessions : ~Create(s)
    BY <1>3, OtherRefines
  <1> QED
    BY <1>1, <1>2, <1>3

(* The handlers, the cleaner and crashes implement the abstract ledger. *)
THEOREM Refinement == Spec => ImplementsLedger
  <1>1. Init => Ledger!Init
    BY DEF Init, Ledger!Init, Counted, Active, Exists, NoRow
  <1>2. IInv /\ [Next]_vars => [Ledger!Next]_Ledger!vars
    BY StepRefines
  <1> QED
    BY <1>1, <1>2, Invariant, PTL DEF Spec, ImplementsLedger, Ledger!Spec

(* The quota's true bound holds of the handlers: a step of the ledger they *)
(* implement keeps what every actor is charged for.                        *)
THEOREM Quota == Spec => []QuotaOvershootBounded
  <1> DEFINE O == {s \in Sessions : Active(s)}
  <1> DEFINE QInv == Charged(Counted, O)
  <1> USE DEF Counted
  <1>1. Init => QInv
    <2> SUFFICES ASSUME Init PROVE QInv
      OBVIOUS
    <2>1. Counted = {} /\ O = {}
      BY DEF Init, Active, Exists, NoRow
    <2> QED
      BY <2>1, EmptyCharged
  <1>2. IInv /\ [Next]_vars /\ QInv => QInv'
    <2> SUFFICES ASSUME QInv, Ledger!Next \/ UNCHANGED Ledger!vars PROVE QInv'
      BY StepRefines
    <2> USE DEF Ledger!Next
    <2>1. ASSUME NEW s \in Sessions, Ledger!Admit(s) PROVE QInv'
      <3>1. Room(Counted, O, s)
        BY <2>1, SameSize DEF Ledger!Admit, Ledger!SessionsOf, Ledger!Limited, SessionsOf, Limited, Room
      <3>2. Counted' = Counted \cup {s} /\ O' = O
        BY <2>1 DEF Ledger!Admit
      <3> QED
        BY <3>1, <3>2, AdmitCharged
    <2>2. CASE Counted' \subseteq Counted /\ Counted' \cup O' \subseteq Counted \cup O
      BY <2>2, ShrinkCharged
    <2>3. ASSUME NEW s \in Sessions, Ledger!Open(s) \/ Ledger!Close(s)
          PROVE  Counted' \subseteq Counted /\ Counted' \cup O' \subseteq Counted \cup O
      BY <2>3 DEF Ledger!Open, Ledger!Close
    <2>4. ASSUME NEW S \in SUBSET Sessions, Ledger!Drop(S)
          PROVE  Counted' \subseteq Counted /\ Counted' \cup O' \subseteq Counted \cup O
      BY <2>4 DEF Ledger!Drop
    <2>5. CASE UNCHANGED Ledger!vars
      BY <2>2, <2>5 DEF Ledger!vars
    <2> QED
      BY <2>1, <2>2, <2>3, <2>4, <2>5
  <1>3. QInv => QuotaOvershootBounded
    BY ChargedBound, SameSize
       DEF QuotaOvershootBounded, Ledger!QuotaOvershootBounded, Ledger!SessionsOf,
           Ledger!Limited, SessionsOf, Limited
  <1> HIDE DEF QInv
  <1> QED
    BY <1>1, <1>2, <1>3, Invariant, PTL DEF Spec
=============================================================================
