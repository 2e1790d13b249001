----------------------------- MODULE TasksProofs -----------------------------
(***************************************************************************)
(* Proofs about the work that outlives a request: the stop of a task and   *)
(* its memory (TaskMemory), tasks of the MCP server (McpTasks), the runs of*)
(* the GitHub application (GithubRuns), the requests of tenants (Access),  *)
(* the conversations of the local gateway (Gateway), the callers of the MCP*)
(* transport (McpHttp) and the rate limits (Limits).                       *)
(***************************************************************************)
EXTENDS TaskMemory, McpTasks, GithubRuns, Access, Gateway, McpHttp, Limits,
        FiniteSetTheorems, SequenceTheorems, WellFoundedInduction, TLAPS

-----------------------------------------------------------------------------
(* Task memory *)

\* Tasks under way, which the cap counts.
TmUnderWay == {t \in TmTasks : TmThere(t) /\ ~TmTerminal(t)}

\* Each record with its goroutine, and each request.
TmType ==
  /\ TmTypeOK
  /\ tmReq \in [TmReqs -> {TmIdle} \cup [pc : {"shared", "stop", "done"}, task : TmTasks]]

\* A task under way can be cancelled, and a request that is to cancel one has
\* ended it; an end is counted; a wait that is over has an answer.
TmInv ==
  /\ \A t \in TmTasks :
       /\ tmAt[t] = "new" => tmStatus[t] = "none"
       /\ tmAt[t] \in {"ask", "wait", "tool"} /\ TmThere(t) /\ ~TmTerminal(t) => t \in tmCancels
       /\ tmCounted[t] = IF TmTerminal(t) \/ tmStatus[t] = "gone" THEN 1 ELSE 0
       /\ tmAt[t] = "wait" /\ tmStatus[t] = "working" => tmAnswer[t] # "none"
       /\ TmTerminal(t) \/ tmStatus[t] = "gone" =>
            \/ tmAt[t] \in {"leave", "done"} \/ t \in tmStopped \/ t \in tmSweep
            \/ \E q \in TmReqs : tmReq[q] = [pc |-> "stop", task |-> t] /\ t \in tmCancels
  /\ \A q \in TmReqs : tmReq[q].pc = "stop" => TmTerminal(tmReq[q].task)

TmRanInv == \A t \in TmConfirm : \A r \in tmRan : r[1] = t => r[2] = "approve"

TmCapInv == Cardinality(TmUnderWay) <= TmMaxInflight

TmIInv == TmType /\ TmInv /\ TmRanInv /\ TmCapInv

LEMMA TmUnderWayFinite == IsFiniteSet(TmUnderWay) /\ Cardinality(TmUnderWay) \in Nat
  BY TaskMemoryAssumption, FS_Subset, FS_CardinalityType DEF TmUnderWay

\* The cap holds as long as no task is started.
LEMMA TmFewer ==
  ASSUME TmCapInv, TmUnderWay' \subseteq TmUnderWay
  PROVE  TmCapInv'
<1>1. IsFiniteSet(TmUnderWay') /\ Cardinality(TmUnderWay') <= Cardinality(TmUnderWay)
  BY TmUnderWayFinite, FS_Subset
<1>2. Cardinality(TmUnderWay') \in Nat
  BY <1>1, FS_CardinalityType
<1> QED
  BY <1>1, <1>2, TmUnderWayFinite, TaskMemoryAssumption DEF TmCapInv

LEMMA TmOneMore ==
  ASSUME NEW t
  PROVE  /\ IsFiniteSet(TmUnderWay \cup {t})
         /\ Cardinality(TmUnderWay \cup {t}) <= Cardinality(TmUnderWay) + 1
<1>1. CASE t \in TmUnderWay
  <2>1. TmUnderWay \cup {t} = TmUnderWay
    BY <1>1
  <2> QED
    BY <2>1, TmUnderWayFinite
<1>2. CASE t \notin TmUnderWay
  BY <1>2, TmUnderWayFinite, FS_AddElement
<1> QED
  BY <1>1, <1>2

LEMMA TmStartIInv ==
  ASSUME TmIInv, NEW t \in TmTasks, TmStart(t)
  PROVE  TmIInv'
<1> USE DEF TmStart, TmIInv, TmGoes, TmReqGoes, TmEnd, TmTerminal, TmThere, TmEnds, tmRecs
<1>1. TmType'
  BY DEF TmType, TmTypeOK, TmIdle
<1>2. TmInv'
  BY DEF TmType, TmTypeOK, TmInv, TmIdle
<1>3. TmRanInv'
  BY DEF TmType, TmTypeOK, TmInv, TmRanInv
<1>4. TmCapInv'
  <2>1. CASE TmInflight < TmMaxInflight
    <3>1. TmUnderWay' \subseteq TmUnderWay \cup {t}
      BY DEF TmType, TmTypeOK, TmUnderWay
    <3>2. /\ IsFiniteSet(TmUnderWay \cup {t})
          /\ Cardinality(TmUnderWay \cup {t}) <= Cardinality(TmUnderWay) + 1
      BY TmOneMore
    <3>3. /\ Cardinality(TmUnderWay') <= Cardinality(TmUnderWay \cup {t})
          /\ Cardinality(TmUnderWay') \in Nat /\ Cardinality(TmUnderWay \cup {t}) \in Nat
      BY <3>1, <3>2, FS_Subset, FS_CardinalityType
    <3>4. Cardinality(TmUnderWay) < TmMaxInflight
      BY <2>1 DEF TmInflight, TmUnderWay
    <3> QED
      BY <3>2, <3>3, <3>4, TmUnderWayFinite, TaskMemoryAssumption DEF TmCapInv
  <2>2. CASE ~(TmInflight < TmMaxInflight)
    <3>1. TmUnderWay' \subseteq TmUnderWay
      BY <2>2 DEF TmType, TmTypeOK, TmUnderWay
    <3> QED
      BY <3>1, TmFewer
  <2> QED
    BY <2>1, <2>2
<1> QED
  BY <1>1, <1>2, <1>3, <1>4

LEMMA TmAskIInv ==
  ASSUME TmIInv, NEW t \in TmTasks, TmAsk(t)
  PROVE  TmIInv'
<1> USE DEF TmAsk, TmIInv, TmGoes, TmReqGoes, TmEnd, TmTerminal, TmThere, TmEnds, tmRecs
<1>1. TmType'
  BY DEF TmType, TmTypeOK, TmIdle
<1>2. TmInv'
  BY DEF TmType, TmTypeOK, TmInv, TmIdle
<1>3. TmRanInv'
  BY DEF TmType, TmTypeOK, TmInv, TmRanInv
<1>4. TmUnderWay' \subseteq TmUnderWay
  BY DEF TmType, TmTypeOK, TmUnderWay
<1> QED
  BY <1>1, <1>2, <1>3, <1>4, TmFewer

LEMMA TmWaitIInv ==
  ASSUME TmIInv, NEW t \in TmTasks, TmWait(t)
  PROVE  TmIInv'
<1> USE DEF TmWait, TmIInv, TmGoes, TmReqGoes, TmEnd, TmTerminal, TmThere, TmEnds, tmRecs
<1>1. TmType'
  BY DEF TmType, TmTypeOK, TmIdle
<1>2. TmInv'
  BY DEF TmType, TmTypeOK, TmInv, TmIdle
<1>3. TmRanInv'
  <2>1. tmAnswer[t] \in {"none", "approve", "decline"}
    BY DEF TmType, TmTypeOK
  <2>2. tmRan' = tmRan \/ (tmRan' = tmRan \cup {<<t, tmAnswer[t]>>} /\ tmAnswer[t] = "approve")
    BY <2>1 DEF TmInv
  <2> QED
    BY <2>2 DEF TmRanInv
<1>4. TmUnderWay' \subseteq TmUnderWay
  BY DEF TmType, TmTypeOK, TmUnderWay
<1> QED
  BY <1>1, <1>2, <1>3, <1>4, TmFewer

LEMMA TmToolEndsIInv ==
  ASSUME TmIInv, NEW t \in TmTasks, TmToolEnds(t)
  PROVE  TmIInv'
<1> USE DEF TmToolEnds, TmIInv, TmGoes, TmReqGoes, TmEnd, TmTerminal, TmThere, TmEnds, tmRecs
<1>1. TmType'
  BY DEF TmType, TmTypeOK, TmIdle
<1>2. TmInv'
  BY DEF TmType, TmTypeOK, TmInv, TmIdle
<1>3. TmRanInv'
  BY DEF TmType, TmTypeOK, TmInv, TmRanInv
<1>4. TmUnderWay' \subseteq TmUnderWay
  BY DEF TmType, TmTypeOK, TmUnderWay
<1> QED
  BY <1>1, <1>2, <1>3, <1>4, TmFewer

LEMMA TmLeaveIInv ==
  ASSUME TmIInv, NEW t \in TmTasks, TmLeave(t)
  PROVE  TmIInv'
<1> USE DEF TmLeave, TmIInv, TmGoes, TmReqGoes, TmEnd, TmTerminal, TmThere, TmEnds, tmRecs
<1>1. TmType'
  BY DEF TmType, TmTypeOK, TmIdle
<1>2. TmInv'
  BY DEF TmType, TmTypeOK, TmInv, TmIdle
<1>3. TmRanInv'
  BY DEF TmType, TmTypeOK, TmInv, TmRanInv
<1>4. TmUnderWay' \subseteq TmUnderWay
  BY DEF TmType, TmTypeOK, TmUnderWay
<1> QED
  BY <1>1, <1>2, <1>3, <1>4, TmFewer

LEMMA TmExpireIInv ==
  ASSUME TmIInv, NEW old \in SUBSET TmTasks, TmExpire(old)
  PROVE  TmIInv'
<1> USE DEF TmExpire, TmTaken, TmIInv, TmGoes, TmReqGoes, TmEnd, TmTerminal, TmThere, TmEnds, tmRecs
<1>1. TmType'
  BY DEF TmType, TmTypeOK, TmIdle
<1>2. TmInv'
  BY DEF TmType, TmTypeOK, TmInv, TmIdle
<1>3. TmRanInv'
  BY DEF TmType, TmTypeOK, TmInv, TmRanInv
<1>4. TmUnderWay' \subseteq TmUnderWay
  BY DEF TmType, TmTypeOK, TmUnderWay
<1> QED
  BY <1>1, <1>2, <1>3, <1>4, TmFewer

LEMMA TmSweepStopsIInv ==
  ASSUME TmIInv, NEW t \in TmTasks, TmSweepStops(t)
  PROVE  TmIInv'
<1> USE DEF TmSweepStops, TmIInv, TmGoes, TmReqGoes, TmEnd, TmTerminal, TmThere, TmEnds, tmRecs
<1>1. TmType'
  BY DEF TmType, TmTypeOK, TmIdle
<1>2. TmInv'
  BY DEF TmType, TmTypeOK, TmInv, TmIdle
<1>3. TmRanInv'
  BY DEF TmType, TmTypeOK, TmInv, TmRanInv
<1>4. TmUnderWay' \subseteq TmUnderWay
  BY DEF TmType, TmTypeOK, TmUnderWay
<1> QED
  BY <1>1, <1>2, <1>3, <1>4, TmFewer

LEMMA TmEvictIInv ==
  ASSUME TmIInv, NEW t \in TmTasks, TmEvict(t)
  PROVE  TmIInv'
<1> USE DEF TmEvict, TmIInv, TmGoes, TmReqGoes, TmEnd, TmTerminal, TmThere, TmEnds, tmRecs
<1>1. TmType'
  BY DEF TmType, TmTypeOK, TmIdle
<1>2. TmInv'
  BY DEF TmType, TmTypeOK, TmInv, TmIdle
<1>3. TmRanInv'
  BY DEF TmType, TmTypeOK, TmInv, TmRanInv
<1>4. TmUnderWay' \subseteq TmUnderWay
  BY DEF TmType, TmTypeOK, TmUnderWay
<1> QED
  BY <1>1, <1>2, <1>3, <1>4, TmFewer

LEMMA TmReplyIInv ==
  ASSUME TmIInv, NEW q \in TmReqs, TmReply(q)
  PROVE  TmIInv'
<1> USE DEF TmReply, TmIInv, TmGoes, TmReqGoes, TmEnd, TmTerminal, TmThere, TmEnds, tmRecs
<1>1. TmType'
  BY DEF TmType, TmTypeOK, TmIdle
<1>2. TmInv'
  BY DEF TmType, TmTypeOK, TmInv, TmIdle
<1>3. TmRanInv'
  BY DEF TmType, TmTypeOK, TmInv, TmRanInv
<1>4. TmUnderWay' \subseteq TmUnderWay
  BY DEF TmType, TmTypeOK, TmUnderWay
<1> QED
  BY <1>1, <1>2, <1>3, <1>4, TmFewer

LEMMA TmStopIInv ==
  ASSUME TmIInv, NEW q \in TmReqs, TmStop(q)
  PROVE  TmIInv'
<1> USE DEF TmStop, TmIInv, TmGoes, TmReqGoes, TmEnd, TmTerminal, TmThere, TmEnds, tmRecs
<1>1. TmType'
  BY DEF TmType, TmTypeOK, TmIdle
<1>2. TmInv'
  BY DEF TmType, TmTypeOK, TmInv, TmIdle
<1>3. TmRanInv'
  BY DEF TmType, TmTypeOK, TmInv, TmRanInv
<1>4. TmUnderWay' \subseteq TmUnderWay
  BY DEF TmType, TmTypeOK, TmUnderWay
<1> QED
  BY <1>1, <1>2, <1>3, <1>4, TmFewer

LEMMA TmGetIInv ==
  ASSUME TmIInv, NEW q \in TmReqs, NEW t \in TmTasks, TmGet(q, t)
  PROVE  TmIInv'
<1> USE DEF TmGet, TmIInv, TmGoes, TmReqGoes, TmEnd, TmTerminal, TmThere, TmEnds, tmRecs
<1>1. TmType'
  BY DEF TmType, TmTypeOK, TmIdle
<1>2. TmInv'
  BY DEF TmType, TmTypeOK, TmInv, TmIdle
<1>3. TmRanInv'
  BY DEF TmType, TmTypeOK, TmInv, TmRanInv
<1>4. TmUnderWay' \subseteq TmUnderWay
  BY DEF TmType, TmTypeOK, TmUnderWay
<1> QED
  BY <1>1, <1>2, <1>3, <1>4, TmFewer

LEMMA TmCancelIInv ==
  ASSUME TmIInv, NEW q \in TmReqs, NEW t \in TmTasks, TmCancel(q, t)
  PROVE  TmIInv'
<1> USE DEF TmCancel, TmIInv, TmGoes, TmReqGoes, TmEnd, TmTerminal, TmThere, TmEnds, tmRecs
<1>1. TmType'
  BY DEF TmType, TmTypeOK, TmIdle
<1>2. TmInv'
  BY DEF TmType, TmTypeOK, TmInv, TmIdle
<1>3. TmRanInv'
  BY DEF TmType, TmTypeOK, TmInv, TmRanInv
<1>4. TmUnderWay' \subseteq TmUnderWay
  BY DEF TmType, TmTypeOK, TmUnderWay
<1> QED
  BY <1>1, <1>2, <1>3, <1>4, TmFewer

LEMMA TmRespondIInv ==
  ASSUME TmIInv, NEW q \in TmReqs, NEW t \in TmTasks, NEW answer \in {"approve", "decline"},
         TmRespond(q, t, answer)
  PROVE  TmIInv'
<1> USE DEF TmIInv
<1>1. /\ tmReq[q] = TmIdle /\ tmReq' = [tmReq EXCEPT ![q] = [pc |-> "done", task |-> t]]
      /\ UNCHANGED <<tmCancels, tmStopped, tmSweep, tmAt, tmRan, tmCounted>>
      /\ \/ /\ tmStatus[t] = "input_required"
            /\ tmStatus' = [tmStatus EXCEPT ![t] = "working"] /\ tmAsked' = tmAsked \ {t}
            /\ tmAnswer' = [tmAnswer EXCEPT ![t] = answer]
         \/ UNCHANGED <<tmStatus, tmAsked, tmAnswer>>
  BY DEF TmRespond, TmReqGoes, tmRecs
<1>2. tmUp' \in BOOLEAN
  BY DEF TmRespond, TmType, TmTypeOK
<1>3. tmReq' \in [TmReqs -> {TmIdle} \cup [pc : {"shared", "stop", "done"}, task : TmTasks]]
  BY <1>1 DEF TmType
<1>4. TmType'
  <2>1. \A p \in TmReqs : tmReq'[p] = TmIdle \/
          tmReq'[p] \in [pc : {"shared", "stop", "done"}, task : TmTasks]
    BY <1>3
  <2> QED
    BY <1>1, <1>2, <1>3, <2>1 DEF TmType, TmTypeOK
<1>5. TmInv'
  BY <1>1 DEF TmType, TmTypeOK, TmInv, TmIdle, TmTerminal, TmThere, TmEnds
<1>6. TmRanInv'
  BY <1>1 DEF TmRanInv
<1>7. TmUnderWay' \subseteq TmUnderWay
  BY <1>1 DEF TmType, TmTypeOK, TmUnderWay, TmTerminal, TmThere, TmEnds
<1> QED
  BY <1>4, <1>5, <1>6, <1>7, TmFewer

LEMMA TmInitIInv == TmInit => TmIInv
<1> SUFFICES ASSUME TmInit PROVE TmIInv
  OBVIOUS
<1> USE DEF TmInit, TmTerminal, TmThere, TmEnds, TmIdle
<1>1. TmType
  BY DEF TmType, TmTypeOK
<1>2. TmInv /\ TmRanInv
  BY DEF TmInv, TmRanInv
<1>3. TmUnderWay = {}
  BY DEF TmUnderWay
<1>4. TmCapInv
  BY <1>3, FS_EmptySet, TaskMemoryAssumption DEF TmCapInv
<1> QED
  BY <1>1, <1>2, <1>4 DEF TmIInv

LEMMA TmNextIInv == TmIInv /\ [TmNext]_tmVars => TmIInv'
<1> SUFFICES ASSUME TmIInv, [TmNext]_tmVars
             PROVE  TmIInv'
  OBVIOUS
<1>1. CASE UNCHANGED tmVars
  <2> USE <1>1 DEF tmVars, TmIInv, TmTerminal, TmThere
  <2>1. TmType'
    BY DEF TmType, TmTypeOK
  <2>2. TmInv' /\ TmRanInv'
    BY DEF TmInv, TmRanInv
  <2>3. TmUnderWay' \subseteq TmUnderWay
    BY DEF TmUnderWay
  <2> QED
    BY <2>1, <2>2, <2>3, TmFewer
<1> QED
  BY <1>1, TmStartIInv, TmAskIInv, TmWaitIInv, TmToolEndsIInv, TmLeaveIInv, TmExpireIInv, TmEvictIInv, TmSweepStopsIInv,
     TmReplyIInv, TmStopIInv, TmGetIInv, TmCancelIInv, TmRespondIInv DEF TmNext

LEMMA TmIInvReaches == TmIInv => TmTypeOK /\ TmStopsReach
<1> SUFFICES ASSUME TmIInv PROVE TmTypeOK /\ TmStopsReach
  OBVIOUS
<1>1. ASSUME NEW t \in TmTasks
      PROVE  /\ tmCounted[t] <= 1
             /\ tmCounted[t] = 1 <=> TmTerminal(t) \/ tmStatus[t] = "gone"
             /\ TmTerminal(t) \/ tmStatus[t] = "gone" =>
                  \/ tmAt[t] \in {"leave", "done"} \/ t \in tmStopped \/ t \in tmSweep
                  \/ \E q \in TmReqs : tmReq[q] = [pc |-> "stop", task |-> t] /\ t \in tmCancels
  BY DEF TmIInv, TmInv, TmTerminal
<1>3. Cardinality({t \in TmTasks : TmThere(t) /\ ~TmTerminal(t)}) <= TmMaxInflight
  BY DEF TmIInv, TmCapInv, TmUnderWay
<1> QED
  BY <1>1, <1>3 DEF TmStopsReach, TmIInv, TmType, TmRanInv

\* Without Redis, a background task whose record has ended is noticed by its
\* goroutine or is about to be by the sweep or a request, it ends once, the
\* in-flight cap is never exceeded, and a tool that needs confirmation runs on an approval only,
\* whatever cancellations, answers and the sweep overlap (sdk/mcp/tasks.go,
\* tasks_input.go).
THEOREM TaskEndsReach == TmSpec => [](TmTypeOK /\ TmStopsReach)
<1>1. TmSpec => []TmIInv
  BY TmInitIInv, TmNextIInv, PTL DEF TmSpec
<1>2. TmIInv => TmTypeOK /\ TmStopsReach
  BY TmIInvReaches
<1> QED
  BY <1>1, <1>2, PTL

-----------------------------------------------------------------------------
(* Tasks of the MCP server *)

\* Where each kind of actor can be.
TkPlacesOf(a) ==
  IF a \in TkTasks THEN {"new", "ask", "wait", "tool", "refuse", "giveup", "report", "done"}
  ELSE {"new", "done", "age"} \cup TkKinds

\* A goroutine works on its own task; only an update has read a record, of a
\* task that was started; a record that was over when it was read is as it was.
TkActorInv ==
  \A a \in TkActors :
    /\ tkAt[a] \in TkPlacesOf(a)
    /\ a \in TkTasks => tkOn[a] = a
    /\ TkUpdating(a) => tkOn[a] \in TkTasks
    /\ tkSeen[a] # TkGone =>
         /\ TkUpdating(a) /\ tkAt[tkOn[a]] # "new"
         /\ TkTerminal(tkSeen[a]) => tkRec[tkOn[a]] \in {tkSeen[a], TkGone}

\* A record is there only once its task was started, and a goroutine that waits
\* finds its question, an answer or the end.
TkRecInv ==
  \A t \in TkTasks :
    /\ tkAt[t] = "new" => tkRec[t] = TkGone
    /\ tkAt[t] = "wait" => tkRec[t].status # "working" \/ tkRec[t].answer # "none"

TkIInv == TkTypeOK /\ TkActorInv /\ TkRecInv /\ TkConfirmed

LEMMA TkGoneFacts ==
  /\ TkGone.status = "gone" /\ TkGone \notin TkRecord /\ ~TkTerminal(TkGone)
  /\ \A rec \in TkRecord \cup {TkGone} : rec # TkGone => rec \in TkRecord
  BY DEF TkGone, TkRecord, TkStatus, TkTerminal

LEMMA TkInitIInv == TkInit => TkIInv
<1> SUFFICES ASSUME TkInit PROVE TkIInv
  OBVIOUS
<1>1. TkTypeOK
  BY McpTasksAssumption DEF TkInit, TkTypeOK, TkPlaces
<1>2. TkActorInv /\ TkRecInv /\ TkConfirmed
  BY TkGoneFacts DEF TkInit, TkActorInv, TkRecInv, TkConfirmed, TkPlacesOf, TkUpdating, TkUpdates,
     TkKinds, TkActors
<1> QED
  BY <1>1, <1>2 DEF TkIInv

\* What an update makes of the record it read.
LEMMA TkChangeCases ==
  ASSUME NEW a \in TkActors, tkAt[a] \in TkUpdates, NEW rec \in TkRecord \cup {TkGone},
         NEW status \in TkOutcomes(a), NEW new, new = TkChange(a, rec, status), new # rec
  PROVE  /\ rec \in TkRecord /\ ~TkTerminal(rec) /\ new \in TkRecord
         /\ \/ tkAt[a] = "ask" /\ new.status = "input_required"
            \/ tkAt[a] # "ask" /\ TkTerminal(new)
            \/ tkAt[a] # "ask" /\ new.status = rec.status /\ new.answer = rec.answer
            \/ tkAt[a] # "ask" /\ new.answer # "none"
<1>1. rec \in TkRecord /\ ~TkTerminal(rec) /\ rec # TkGone
  BY TkGoneFacts DEF TkChange
<1> DEFINE set(s, answer) == [status |-> s, answer |-> answer, version |-> rec.version + 1]
<1>2. \A s \in TkStatus, answer \in TkAnswers :
        /\ set(s, answer) \in TkRecord
        /\ set(s, answer).status = s /\ set(s, answer).answer = answer
  BY <1>1 DEF TkRecord
<1>3. rec.status \in TkStatus /\ rec.answer \in TkAnswers
  BY <1>1 DEF TkRecord
<1>4. status \in {"completed", "failed", "cancelled"}
  BY DEF TkOutcomes
<1>5. CASE tkAt[a] = "ask"
  <2>1. new = set("input_required", "none")
    BY <1>1, <1>5 DEF TkChange
  <2> QED
    BY <1>1, <1>2, <1>5, <2>1 DEF TkStatus, TkAnswers
<1>6. CASE tkAt[a] = "message"
  <2>1. new = set(rec.status, rec.answer)
    BY <1>1, <1>6 DEF TkChange
  <2> QED
    BY <1>1, <1>2, <1>3, <1>6, <2>1
<1>7. CASE tkAt[a] \in {"approve", "decline"}
  <2>1. new = set("working", tkAt[a])
    BY <1>1, <1>7 DEF TkChange
  <2> QED
    BY <1>1, <1>2, <1>7, <2>1 DEF TkStatus, TkAnswers
<1>8. CASE tkAt[a] \notin {"ask", "message", "approve", "decline"}
  <2>1. new = set(status, rec.answer)
    BY <1>1, <1>8 DEF TkChange
  <2> QED
    BY <1>1, <1>2, <1>3, <1>4, <1>8, <2>1 DEF TkStatus, TkTerminal
<1> QED
  BY <1>5, <1>6, <1>7, <1>8

LEMMA TkReadIInv ==
  ASSUME TkIInv, NEW a \in TkActors, TkRead(a)
  PROVE  TkIInv'
<1> USE DEF TkIInv
<1>1. tkOn[a] \in TkTasks /\ tkOn[a] \in TkActors
  BY DEF TkRead, TkActorInv, TkActors
<1>2. TkTypeOK'
  BY <1>1 DEF TkRead, TkTypeOK
<1>3. TkActorInv'
  BY <1>1 DEF TkRead, TkTypeOK, TkActorInv, TkRecInv, TkPlacesOf, TkUpdating
<1>4. TkRecInv' /\ TkConfirmed'
  BY DEF TkRead, TkRecInv, TkConfirmed
<1> QED
  BY <1>2, <1>3, <1>4

\* An update that ends: the goroutine goes on to wait or is done.
LEMMA TkFollowType ==
  ASSUME TkIInv, NEW a \in TkActors, TkUpdating(a), NEW ok \in BOOLEAN, NEW changed \in BOOLEAN,
         TkFollow(a, ok, changed)
  PROVE  /\ tkSeen' = [tkSeen EXCEPT ![a] = TkGone] /\ tkBecame' \subseteq TkActors
         /\ tkSignal' \subseteq TkTasks
         /\ \E place \in {"wait", "refuse", "done"} :
              /\ tkAt' = [tkAt EXCEPT ![a] = place]
              /\ place # "done" => tkAt[a] = "ask" /\ a \in TkTasks
              /\ place = "wait" => ok
<1>1. tkOn[a] \in TkTasks
  BY DEF TkIInv, TkActorInv
<1>2. tkAt[a] = "ask" => a \in TkTasks
  BY DEF TkIInv, TkActorInv, TkPlacesOf, TkKinds
<1>3. tkSignal' \subseteq TkTasks
  BY <1>1 DEF TkFollow, TkIInv, TkTypeOK
<1>4. tkBecame' \subseteq TkActors
  BY DEF TkFollow, TkIInv, TkTypeOK
<1>5. \E place \in {"wait", "refuse", "done"} :
        /\ tkAt' = [tkAt EXCEPT ![a] = place]
        /\ place # "done" => tkAt[a] = "ask"
        /\ place = "wait" => ok
  BY DEF TkFollow, TkGoes
<1> QED
  BY <1>2, <1>3, <1>4, <1>5 DEF TkFollow

\* An update that changes nothing, by refusal, by failure or by a terminal record.
LEMMA TkEndsIInv ==
  ASSUME TkIInv, NEW a \in TkActors, TkUpdating(a), NEW ok \in BOOLEAN, TkFollow(a, ok, FALSE),
         ok /\ tkAt[a] = "ask" => TkTerminal(tkRec[tkOn[a]]) \/ tkRec[tkOn[a]] = TkGone,
         UNCHANGED <<tkRec, tkInflight, tkOn, tkStopped, tkOld, tkRan>>,
         tkCounted' \in [TkTasks -> Nat], tkFails' \in 0..TkMaxFails
  PROVE  TkIInv'
<1>1. PICK place \in {"wait", "refuse", "done"} :
        /\ tkAt' = [tkAt EXCEPT ![a] = place]
        /\ place # "done" => tkAt[a] = "ask" /\ a \in TkTasks
        /\ place = "wait" => ok
  BY TkFollowType
<1>2. /\ tkSeen' = [tkSeen EXCEPT ![a] = TkGone] /\ tkBecame' \subseteq TkActors
      /\ tkSignal' \subseteq TkTasks
  BY TkFollowType
<1>3. tkAt' \in [TkActors -> TkPlaces] /\ tkSeen' \in [TkActors -> TkRecord \cup {TkGone}]
  BY <1>1, <1>2 DEF TkIInv, TkTypeOK, TkPlaces, TkUpdates
<1>4. TkTypeOK'
  BY <1>2, <1>3 DEF TkIInv, TkTypeOK
<1>5. TkActorInv'
  <2>1. place \in TkPlacesOf(a) /\ place # "new"
    BY <1>1 DEF TkPlacesOf
  <2>2. \A b \in TkActors : tkAt'[b] \in TkPlacesOf(b)
    BY <1>1, <1>3, <2>1 DEF TkIInv, TkActorInv
  <2>3. ASSUME NEW b \in TkActors
        PROVE  /\ TkUpdating(b)' => tkOn'[b] \in TkTasks
               /\ tkSeen'[b] # TkGone =>
                    /\ TkUpdating(b)' /\ tkAt'[tkOn'[b]] # "new"
                    /\ TkTerminal(tkSeen'[b]) => tkRec'[tkOn'[b]] \in {tkSeen'[b], TkGone}
    <3>1. CASE b = a
      BY <1>2, <3>1 DEF TkIInv, TkActorInv, TkTypeOK
    <3>2. CASE b # a
      BY <1>1, <1>2, <1>3, <2>1, <3>2 DEF TkIInv, TkActorInv, TkTypeOK, TkUpdating
    <3> QED
      BY <3>1, <3>2
  <2> QED
    BY <2>2, <2>3 DEF TkIInv, TkActorInv, TkPlacesOf, TkUpdating, TkTerminal
<1>6. TkRecInv'
  <2>1. ASSUME NEW t \in TkTasks, tkAt'[t] = "new"
        PROVE  tkRec'[t] = TkGone
    BY <1>1, <2>1 DEF TkIInv, TkRecInv, TkTypeOK, TkActors
  <2>2. ASSUME NEW t \in TkTasks, tkAt'[t] = "wait"
        PROVE  tkRec'[t].status # "working" \/ tkRec'[t].answer # "none"
    <3>1. CASE t = a
      BY <1>1, <2>2, <3>1, TkGoneFacts DEF TkIInv, TkActorInv, TkTypeOK, TkActors, TkTerminal
    <3>2. CASE t # a
      BY <1>1, <2>2, <3>2 DEF TkIInv, TkRecInv, TkTypeOK, TkActors
    <3> QED
      BY <3>1, <3>2
  <2> QED
    BY <2>1, <2>2 DEF TkRecInv
<1> QED
  BY <1>4, <1>5, <1>6 DEF TkIInv, TkConfirmed

LEMMA TkUpdateFailsIInv ==
  ASSUME TkIInv, NEW a \in TkActors, TkUpdateFails(a)
  PROVE  TkIInv'
<1>1. tkOn[a] \in TkTasks
  BY DEF TkUpdateFails, TkIInv, TkActorInv
<1>2. tkCounted' \in [TkTasks -> Nat]
  BY <1>1 DEF TkUpdateFails, TkIInv, TkTypeOK
<1>3. tkFails' \in 0..TkMaxFails
  BY McpTasksAssumption DEF TkUpdateFails, TkFail, TkIInv, TkTypeOK
<1> QED
  BY <1>2, <1>3, TkEndsIInv DEF TkUpdateFails

\* A write that the comparison lets through.
LEMMA TkSetIInv ==
  ASSUME TkIInv, NEW a \in TkActors, TkUpdating(a), tkSeen[a] # TkGone,
         NEW status \in TkOutcomes(a), NEW new, new = TkChange(a, tkSeen[a], status),
         new # tkSeen[a], TkMatches(a), TkFollow(a, TRUE, TRUE),
         tkRec' = [tkRec EXCEPT ![tkOn[a]] = new], tkInflight' \subseteq TkTasks,
         tkCounted' \in [TkTasks -> Nat], UNCHANGED <<tkOn, tkStopped, tkOld, tkRan, tkFails>>
  PROVE  TkIInv'
<1>0. PICK t \in TkTasks : t = tkOn[a]
  BY DEF TkIInv, TkActorInv
<1>1. PICK place \in {"wait", "refuse", "done"} :
        /\ tkAt' = [tkAt EXCEPT ![a] = place]
        /\ place # "done" => tkAt[a] = "ask" /\ a \in TkTasks
  BY TkFollowType
<1>2. /\ tkSeen' = [tkSeen EXCEPT ![a] = TkGone] /\ tkBecame' \subseteq TkActors
      /\ tkSignal' \subseteq TkTasks
  BY TkFollowType
<1>3. /\ tkSeen[a] \in TkRecord /\ ~TkTerminal(tkSeen[a]) /\ new \in TkRecord
      /\ \/ tkAt[a] = "ask" /\ new.status = "input_required"
         \/ tkAt[a] # "ask" /\ TkTerminal(new)
         \/ tkAt[a] # "ask" /\ new.status = tkSeen[a].status /\ new.answer = tkSeen[a].answer
         \/ tkAt[a] # "ask" /\ new.answer # "none"
  BY TkChangeCases DEF TkIInv, TkTypeOK, TkUpdating
<1>4. /\ tkAt' \in [TkActors -> TkPlaces] /\ tkSeen' \in [TkActors -> TkRecord \cup {TkGone}]
      /\ tkRec' \in [TkTasks -> TkRecord \cup {TkGone}]
      /\ tkRec'[t] = new /\ \A u \in TkTasks \ {t} : tkRec'[u] = tkRec[u]
  BY <1>0, <1>1, <1>2, <1>3 DEF TkIInv, TkTypeOK, TkPlaces, TkUpdates
<1>5. TkTypeOK'
  BY <1>2, <1>4 DEF TkIInv, TkTypeOK
<1>6. tkRec[t] = tkSeen[a] /\ tkAt[t] # "new" /\ t \in TkActors
  BY <1>0 DEF TkMatches, TkIInv, TkActorInv, TkActors
<1>7. TkActorInv'
  <2>1. place \in TkPlacesOf(a) /\ place # "new"
    BY <1>1 DEF TkPlacesOf
  <2>2. \A b \in TkActors : tkAt'[b] \in TkPlacesOf(b)
    BY <1>1, <1>4, <2>1 DEF TkIInv, TkActorInv
  <2>3. ASSUME NEW b \in TkActors
        PROVE  /\ TkUpdating(b)' => tkOn'[b] \in TkTasks
               /\ tkSeen'[b] # TkGone =>
                    /\ TkUpdating(b)' /\ tkAt'[tkOn'[b]] # "new"
                    /\ TkTerminal(tkSeen'[b]) => tkRec'[tkOn'[b]] \in {tkSeen'[b], TkGone}
    <3>1. CASE b = a
      BY <1>2, <3>1 DEF TkIInv, TkActorInv, TkTypeOK
    <3>2. CASE b # a
      <4>1. tkSeen'[b] = tkSeen[b] /\ tkAt'[b] = tkAt[b] /\ tkOn'[b] = tkOn[b]
        BY <1>1, <1>2, <3>2 DEF TkIInv, TkTypeOK
      <4>2. tkSeen[b] # TkGone =>
              /\ TkUpdating(b) /\ tkAt[tkOn[b]] # "new" /\ tkOn[b] \in TkTasks
              /\ TkTerminal(tkSeen[b]) => tkRec[tkOn[b]] \in {tkSeen[b], TkGone}
        BY DEF TkIInv, TkActorInv
      <4>3. tkSeen[b] # TkGone /\ TkTerminal(tkSeen[b]) => tkOn[b] # t
        BY <1>3, <1>6, <4>2, TkGoneFacts
      <4>4. tkSeen[b] # TkGone => tkAt'[tkOn[b]] # "new"
        BY <1>1, <2>1, <4>2 DEF TkIInv, TkTypeOK, TkActors
      <4>5. TkUpdating(b) <=> TkUpdating(b)'
        BY <4>1 DEF TkUpdating
      <4>6. TkUpdating(b) => tkOn[b] \in TkTasks
        BY DEF TkIInv, TkActorInv
      <4> QED
        BY <1>4, <4>1, <4>2, <4>3, <4>4, <4>5, <4>6
    <3> QED
      BY <3>1, <3>2
  <2> QED
    BY <2>2, <2>3 DEF TkIInv, TkActorInv, TkPlacesOf, TkUpdating, TkTerminal
<1>8. TkRecInv'
  <2>1. ASSUME NEW u \in TkTasks, tkAt'[u] = "new"
        PROVE  tkRec'[u] = TkGone
    BY <1>1, <1>4, <1>6, <2>1 DEF TkIInv, TkRecInv, TkTypeOK, TkActors
  <2>2. ASSUME NEW u \in TkTasks, tkAt'[u] = "wait"
        PROVE  tkRec'[u].status # "working" \/ tkRec'[u].answer # "none"
    <3>1. CASE u = a
      <4>1. tkAt[a] = "ask" /\ t = a
        BY <1>0, <1>1, <2>2, <3>1 DEF TkIInv, TkActorInv, TkTypeOK
      <4> QED
        BY <1>3, <1>4, <3>1, <4>1
    <3>2. CASE u # a /\ u = t
      <4>1. tkAt[u] = "wait" /\ tkAt[a] # "ask"
        BY <1>0, <1>1, <2>2, <3>2
           DEF TkIInv, TkActorInv, TkTypeOK, TkActors, TkPlacesOf, TkKinds
      <4>2. tkSeen[a].status # "working" \/ tkSeen[a].answer # "none"
        BY <1>6, <3>2, <4>1 DEF TkIInv, TkRecInv
      <4> QED
        BY <1>3, <1>4, <3>2, <4>1, <4>2 DEF TkTerminal
    <3>3. CASE u # a /\ u # t
      BY <1>1, <1>4, <2>2, <3>3 DEF TkIInv, TkRecInv, TkTypeOK, TkActors
    <3> QED
      BY <3>1, <3>2, <3>3
  <2> QED
    BY <2>1, <2>2 DEF TkRecInv
<1> QED
  BY <1>5, <1>7, <1>8 DEF TkIInv, TkConfirmed

LEMMA TkWriteIInv ==
  ASSUME TkIInv, NEW a \in TkActors, TkWrite(a)
  PROVE  TkIInv'
<1>1. PICK status \in TkOutcomes(a) :
        LET t == tkOn[a]
            new == TkChange(a, tkSeen[a], status)
            became == new # tkSeen[a] /\ TkTerminal(new) IN
          IF new = tkSeen[a]
          THEN /\ TkFollow(a, TRUE, FALSE)
               /\ UNCHANGED <<tkRec, tkInflight>>
               /\ tkCounted' = [tkCounted EXCEPT ![t] = IF a \in tkBecame THEN @ + 1 ELSE @]
          ELSE IF TkMatches(a)
          THEN /\ TkFollow(a, TRUE, TRUE)
               /\ tkRec' = [tkRec EXCEPT ![t] = new]
               /\ tkInflight' = IF TkTerminal(new) THEN tkInflight \ {t} ELSE tkInflight
               /\ tkCounted' = [tkCounted EXCEPT ![t] = IF became THEN @ + 1 ELSE @]
          ELSE /\ tkSeen' = [tkSeen EXCEPT ![a] = TkGone]
               /\ tkBecame' = IF became THEN tkBecame \cup {a} ELSE tkBecame
               /\ UNCHANGED <<tkRec, tkInflight, tkAt, tkSignal, tkCounted>>
  BY DEF TkWrite
<1> DEFINE new == TkChange(a, tkSeen[a], status)
<1>2. /\ TkUpdating(a) /\ tkSeen[a] # TkGone /\ tkOn[a] \in TkTasks
      /\ UNCHANGED <<tkOn, tkStopped, tkOld, tkRan, tkFails>>
      /\ tkFails' \in 0..TkMaxFails /\ tkInflight \subseteq TkTasks
  BY DEF TkWrite, TkIInv, TkActorInv, TkTypeOK
<1>3. tkCounted' \in [TkTasks -> Nat]
  <2>1. tkCounted \in [TkTasks -> Nat] /\ tkCounted[tkOn[a]] + 1 \in Nat
    BY <1>2 DEF TkIInv, TkTypeOK
  <2>2. \/ tkCounted' = tkCounted
        \/ \E n \in {tkCounted[tkOn[a]], tkCounted[tkOn[a]] + 1} :
             tkCounted' = [tkCounted EXCEPT ![tkOn[a]] = n]
    <3>1. CASE new = tkSeen[a]
      BY <1>1, <3>1
    <3>2. CASE new # tkSeen[a] /\ TkMatches(a)
      BY <1>1, <3>2
    <3>3. CASE new # tkSeen[a] /\ ~TkMatches(a)
      BY <1>1, <3>3
    <3> QED
      BY <3>1, <3>2, <3>3
  <2> QED
    BY <2>1, <2>2
<1>4. CASE new = tkSeen[a]
  <2>1. tkAt[a] = "ask" => TkTerminal(tkSeen[a])
    <3>1. tkSeen[a] \in TkRecord
      BY <1>2, TkGoneFacts DEF TkIInv, TkTypeOK
    <3> DEFINE set(s, answer) == [status |-> s, answer |-> answer, version |-> tkSeen[a].version + 1]
    <3>2. set("input_required", "none").version # tkSeen[a].version
      BY <3>1 DEF TkRecord
    <3>3. tkAt[a] = "ask" /\ ~TkTerminal(tkSeen[a]) => new = set("input_required", "none")
      BY <1>2 DEF TkChange
    <3> QED
      BY <1>4, <3>2, <3>3
  <2>2. tkAt[a] = "ask" => TkTerminal(tkRec[tkOn[a]]) \/ tkRec[tkOn[a]] = TkGone
    BY <1>2, <2>1 DEF TkIInv, TkActorInv
  <2> QED
    BY <1>1, <1>2, <1>3, <1>4, <2>2, TkEndsIInv
<1>5. CASE new # tkSeen[a] /\ TkMatches(a)
  BY <1>1, <1>2, <1>3, <1>5, TkSetIInv
<1>6. CASE new # tkSeen[a] /\ ~TkMatches(a)
  <2>1. /\ tkSeen' = [tkSeen EXCEPT ![a] = TkGone] /\ tkBecame' \subseteq TkActors
        /\ UNCHANGED <<tkRec, tkInflight, tkAt, tkSignal, tkCounted>>
    BY <1>1, <1>6 DEF TkIInv, TkTypeOK
  <2>2. TkTypeOK'
    BY <1>2, <2>1 DEF TkIInv, TkTypeOK
  <2>3. TkActorInv'
    BY <1>2, <2>1 DEF TkIInv, TkTypeOK, TkActorInv, TkPlacesOf, TkUpdating, TkTerminal
  <2> QED
    BY <1>2, <2>1, <2>2, <2>3 DEF TkIInv, TkRecInv, TkConfirmed
<1> QED
  BY <1>4, <1>5, <1>6

LEMMA TkStartIInv ==
  ASSUME TkIInv, NEW t \in TkTasks, TkStart(t)
  PROVE  TkIInv'
<1> DEFINE rec == [status |-> "working", answer |-> "none", version |-> 1]
<1>1. /\ rec \in TkRecord /\ rec # TkGone /\ ~TkTerminal(rec)
      /\ t \in TkActors /\ ~TkUpdating(t) /\ tkSeen[t] = TkGone
      /\ tkRec[t] = TkGone
  BY TkGoneFacts
     DEF TkRecord, TkStatus, TkAnswers, TkTerminal, TkStart, TkIInv, TkActorInv, TkRecInv, TkActors,
         TkUpdating, TkUpdates, TkKinds
<1>2. \E place \in {"ask", "tool", "done"} :
        /\ tkAt' = [tkAt EXCEPT ![t] = place]
        /\ tkRan' = tkRan \/ (tkRan' = tkRan \cup {<<t, "none">>} /\ t \notin TkConfirm)
        /\ \/ tkRec' = tkRec /\ tkInflight' = tkInflight
           \/ tkRec' = [tkRec EXCEPT ![t] = rec] /\ tkInflight' = tkInflight \cup {t}
  BY DEF TkStart, TkGoes
<1>3. PICK place \in {"ask", "tool", "done"} :
        /\ tkAt' = [tkAt EXCEPT ![t] = place]
        /\ tkRan' = tkRan \/ (tkRan' = tkRan \cup {<<t, "none">>} /\ t \notin TkConfirm)
        /\ \/ tkRec' = tkRec /\ tkInflight' = tkInflight
           \/ tkRec' = [tkRec EXCEPT ![t] = rec] /\ tkInflight' = tkInflight \cup {t}
  BY <1>2
<1>4. UNCHANGED <<tkOn, tkSeen, tkSignal, tkStopped, tkOld, tkCounted, tkBecame, tkFails>>
  BY DEF TkStart
<1>5. /\ tkAt' \in [TkActors -> TkPlaces] /\ tkRec' \in [TkTasks -> TkRecord \cup {TkGone}]
      /\ \A u \in TkTasks \ {t} : tkRec'[u] = tkRec[u] /\ tkAt'[u] = tkAt[u]
  BY <1>1, <1>3 DEF TkIInv, TkTypeOK, TkPlaces, TkUpdates, TkActors
<1>6. TkTypeOK'
  BY <1>3, <1>4, <1>5 DEF TkIInv, TkTypeOK, TkAnswers
<1>7. TkActorInv'
  <2>1. \A b \in TkActors : tkAt'[b] \in TkPlacesOf(b)
    BY <1>3, <1>5 DEF TkIInv, TkActorInv, TkPlacesOf, TkTypeOK
  <2>2. ASSUME NEW b \in TkActors
        PROVE  /\ TkUpdating(b)' => tkOn'[b] \in TkTasks
               /\ tkSeen'[b] # TkGone =>
                    /\ TkUpdating(b)' /\ tkAt'[tkOn'[b]] # "new"
                    /\ TkTerminal(tkSeen'[b]) => tkRec'[tkOn'[b]] \in {tkSeen'[b], TkGone}
    <3>1. CASE b = t
      BY <1>1, <1>4, <3>1 DEF TkIInv, TkActorInv
    <3>2. CASE b # t
      <4>1. tkSeen'[b] = tkSeen[b] /\ tkAt'[b] = tkAt[b] /\ tkOn'[b] = tkOn[b]
        BY <1>3, <1>4, <3>2 DEF TkIInv, TkTypeOK
      <4>2. tkSeen[b] # TkGone =>
              /\ TkUpdating(b) /\ tkAt[tkOn[b]] # "new" /\ tkOn[b] \in TkTasks
              /\ TkTerminal(tkSeen[b]) => tkRec[tkOn[b]] \in {tkSeen[b], TkGone}
        BY DEF TkIInv, TkActorInv
      <4>3. tkSeen[b] # TkGone => tkOn[b] # t
        BY <4>2 DEF TkStart
      <4>4. TkUpdating(b) <=> TkUpdating(b)'
        BY <4>1 DEF TkUpdating
      <4>5. TkUpdating(b) => tkOn[b] \in TkTasks
        BY DEF TkIInv, TkActorInv
      <4> QED
        BY <1>5, <4>1, <4>2, <4>3, <4>4, <4>5
    <3> QED
      BY <3>1, <3>2
  <2> QED
    BY <1>4, <2>1, <2>2 DEF TkIInv, TkActorInv, TkPlacesOf, TkUpdating, TkTerminal
<1>8. TkRecInv'
  <2>1. tkAt'[t] = place
    BY <1>1, <1>3 DEF TkIInv, TkTypeOK
  <2> QED
    BY <1>5, <2>1 DEF TkIInv, TkRecInv
<1>9. TkConfirmed'
  <2>1. ASSUME NEW u \in TkConfirm, NEW answer \in {"none", "decline"}, <<u, answer>> \in tkRan'
        PROVE  FALSE
    <3>1. <<u, answer>> \notin tkRan
      BY DEF TkIInv, TkConfirmed
    <3>2. <<u, answer>> = <<t, "none">> /\ t \notin TkConfirm
      BY <1>3, <2>1, <3>1
    <3> QED
      BY <3>2
  <2> QED
    BY <2>1 DEF TkConfirmed
<1> QED
  BY <1>6, <1>7, <1>8, <1>9 DEF TkIInv

\* A goroutine that is in no update goes to another place.
LEMMA TkGoesIInv ==
  ASSUME TkIInv, NEW t \in TkTasks, tkAt[t] \in {"wait", "tool"},
         NEW place \in {"tool", "refuse", "giveup", "report"}, TkGoes(t, place),
         tkRan' \subseteq TkTasks \X TkAnswers, TkConfirmed', tkFails' \in 0..TkMaxFails,
         UNCHANGED <<tkRec, tkInflight, tkOn, tkSeen, tkSignal, tkStopped, tkOld, tkCounted, tkBecame>>
  PROVE  TkIInv'
<1>1. t \in TkActors /\ ~TkUpdating(t) /\ tkSeen[t] = TkGone /\ tkOn[t] = t
  BY DEF TkIInv, TkActorInv, TkActors, TkUpdating, TkUpdates, TkKinds
<1>2. /\ tkAt' \in [TkActors -> TkPlaces] /\ tkAt'[t] = place
      /\ \A b \in TkActors \ {t} : tkAt'[b] = tkAt[b]
  BY <1>1 DEF TkGoes, TkIInv, TkTypeOK, TkPlaces, TkUpdates
<1>3. TkTypeOK'
  BY <1>2 DEF TkIInv, TkTypeOK
<1>4. TkActorInv'
  <2>1. \A b \in TkActors : tkAt'[b] \in TkPlacesOf(b)
    BY <1>2 DEF TkIInv, TkActorInv, TkPlacesOf
  <2>2. ASSUME NEW b \in TkActors
        PROVE  /\ TkUpdating(b)' => tkOn[b] \in TkTasks
               /\ tkSeen[b] # TkGone => TkUpdating(b)' /\ tkAt'[tkOn[b]] # "new"
    <3>1. CASE b = t
      BY <1>1, <3>1
    <3>2. CASE b # t
      BY <1>1, <1>2, <3>2 DEF TkIInv, TkActorInv, TkUpdating, TkActors
    <3> QED
      BY <3>1, <3>2
  <2> QED
    BY <2>1, <2>2 DEF TkIInv, TkActorInv, TkPlacesOf, TkUpdating, TkTerminal
<1>5. TkRecInv'
  BY <1>2 DEF TkIInv, TkRecInv, TkActors
<1> QED
  BY <1>3, <1>4, <1>5 DEF TkIInv

LEMMA TkFailType ==
  ASSUME TkIInv, TkFail \/ UNCHANGED tkFails
  PROVE  tkFails' \in 0..TkMaxFails
  BY McpTasksAssumption DEF TkFail, TkIInv, TkTypeOK

LEMMA TkWaitIInv ==
  ASSUME TkIInv, NEW t \in TkTasks, TkWait(t)
  PROVE  TkIInv'
<1>1. tkFails' \in 0..TkMaxFails
  BY TkFailType DEF TkWait
<1>2. tkRec[t].status # "working" \/ tkRec[t].answer # "none"
  BY DEF TkWait, TkIInv, TkRecInv
<1>3. /\ tkAt[t] \in {"wait", "tool"}
      /\ UNCHANGED <<tkRec, tkInflight, tkOn, tkSeen, tkSignal, tkStopped, tkOld, tkCounted, tkBecame>>
  BY DEF TkWait
<1>4. CASE TkWaitOver(tkRec[t]) /\ TkApproved(tkRec[t].answer)
           /\ TkGoes(t, "tool") /\ tkRan' = tkRan \cup {<<t, tkRec[t].answer>>}
  <2>1. tkRec[t].answer = "approve"
    <3>1. tkRec[t] # TkGone
      BY <1>4, TkGoneFacts DEF TkWaitOver
    <3> QED
      BY <1>2, <1>4, <3>1 DEF TkWaitOver, TkApproved, TkIInv, TkTypeOK, TkRecord, TkAnswers
  <2>2. tkRan' \subseteq TkTasks \X TkAnswers /\ TkConfirmed'
    BY <1>4, <2>1 DEF TkIInv, TkTypeOK, TkAnswers, TkConfirmed
  <2> QED
    BY <1>1, <1>3, <1>4, <2>2, TkGoesIInv
<1>5. CASE (TkGoes(t, "refuse") \/ TkGoes(t, "giveup")) /\ UNCHANGED tkRan
  <2>1. tkRan' \subseteq TkTasks \X TkAnswers /\ TkConfirmed'
    BY <1>5 DEF TkIInv, TkTypeOK, TkConfirmed
  <2> QED
    BY <1>1, <1>3, <1>5, <2>1, TkGoesIInv
<1> QED
  BY <1>4, <1>5 DEF TkWait

LEMMA TkToolEndsIInv ==
  ASSUME TkIInv, NEW t \in TkTasks, TkToolEnds(t)
  PROVE  TkIInv'
<1>1. tkRan' \subseteq TkTasks \X TkAnswers /\ TkConfirmed' /\ tkFails' \in 0..TkMaxFails
  BY DEF TkToolEnds, TkIInv, TkTypeOK, TkConfirmed
<1> QED
  BY <1>1, TkGoesIInv DEF TkToolEnds

\* A signal that is taken and a task that gets old: no record, no place.
LEMMA TkMarksIInv ==
  ASSUME TkIInv, NEW t \in TkTasks, TkCancelled(t) \/ TkAges(t)
  PROVE  TkIInv'
<1>1. /\ UNCHANGED <<tkRec, tkInflight, tkAt, tkOn, tkSeen, tkSignal, tkRan, tkCounted, tkBecame, tkFails>>
      /\ tkStopped' \subseteq TkTasks /\ tkOld' \subseteq TkTasks
  BY DEF TkCancelled, TkAges, TkIInv, TkTypeOK
<1>2. TkTypeOK'
  BY <1>1 DEF TkIInv, TkTypeOK
<1> QED
  BY <1>1, <1>2 DEF TkIInv, TkActorInv, TkRecInv, TkConfirmed, TkPlacesOf, TkUpdating, TkTerminal

LEMMA TkKeyExpiresIInv ==
  ASSUME TkIInv, NEW t \in TkTasks, TkKeyExpires(t)
  PROVE  TkIInv'
<1>1. /\ tkRec' = [tkRec EXCEPT ![t] = TkGone]
      /\ UNCHANGED <<tkInflight, tkAt, tkOn, tkSeen, tkSignal, tkStopped, tkOld, tkRan,
                     tkCounted, tkBecame, tkFails>>
  BY DEF TkKeyExpires
<1>2. TkTypeOK'
  BY <1>1 DEF TkIInv, TkTypeOK
<1>3. TkActorInv'
  BY <1>1 DEF TkIInv, TkTypeOK, TkActorInv, TkPlacesOf, TkUpdating, TkTerminal
<1>4. TkRecInv'
  BY <1>1, TkGoneFacts DEF TkIInv, TkTypeOK, TkRecInv
<1> QED
  BY <1>1, <1>2, <1>3, <1>4 DEF TkIInv, TkConfirmed

\* A client or a sweep turns to a task that was started.
LEMMA TkTurnsIInv ==
  ASSUME TkIInv, NEW a \in TkClients \cup TkSweeps, tkAt[a] \in {"new", "done"},
         NEW kind \in TkKinds \cup {"age"}, NEW t \in TkTasks, tkRec[t] # TkGone,
         TkGoes(a, kind), tkOn' = [tkOn EXCEPT ![a] = t],
         UNCHANGED <<tkRec, tkInflight, tkSeen, tkSignal, tkStopped, tkOld, tkRan,
                     tkCounted, tkBecame, tkFails>>
  PROVE  TkIInv'
<1>1. /\ a \in TkActors /\ a \notin TkTasks /\ ~TkUpdating(a) /\ tkSeen[a] = TkGone
      /\ kind \in TkUpdates /\ kind # "new"
  BY McpTasksAssumption DEF TkIInv, TkActorInv, TkActors, TkUpdating, TkUpdates, TkKinds
<1>2. /\ tkAt' \in [TkActors -> TkPlaces] /\ tkAt'[a] = kind
      /\ tkOn' \in [TkActors -> TkTasks \cup {"nothing"}] /\ tkOn'[a] = t
      /\ \A b \in TkActors \ {a} : tkAt'[b] = tkAt[b] /\ tkOn'[b] = tkOn[b]
  BY <1>1 DEF TkGoes, TkIInv, TkTypeOK, TkPlaces
<1>3. TkTypeOK'
  BY <1>2 DEF TkIInv, TkTypeOK
<1>4. TkActorInv'
  <2>1. \A b \in TkActors : tkAt'[b] \in TkPlacesOf(b)
    BY <1>1, <1>2 DEF TkIInv, TkActorInv, TkPlacesOf
  <2>2. \A b \in TkActors : b \in TkTasks => tkOn'[b] = b
    BY <1>1, <1>2 DEF TkIInv, TkActorInv
  <2>3. ASSUME NEW b \in TkActors
        PROVE  /\ TkUpdating(b)' => tkOn'[b] \in TkTasks
               /\ tkSeen[b] # TkGone =>
                    /\ TkUpdating(b)' /\ tkAt'[tkOn'[b]] # "new"
                    /\ TkTerminal(tkSeen[b]) => tkRec[tkOn'[b]] \in {tkSeen[b], TkGone}
    <3>1. CASE b = a
      BY <1>1, <1>2, <3>1
    <3>2. CASE b # a
      <4>1. \A u \in TkTasks : tkAt'[u] = tkAt[u]
        BY <1>1, <1>2 DEF TkActors
      <4> QED
        BY <1>2, <3>2, <4>1 DEF TkIInv, TkActorInv, TkUpdating
    <3> QED
      BY <3>1, <3>2
  <2> QED
    BY <2>1, <2>2, <2>3 DEF TkActorInv, TkPlacesOf, TkUpdating, TkTerminal
<1>5. TkRecInv'
  BY <1>1, <1>2 DEF TkIInv, TkRecInv, TkActors
<1> QED
  BY <1>3, <1>4, <1>5 DEF TkIInv, TkConfirmed

LEMMA TkSweepIInv ==
  ASSUME TkIInv, NEW i \in TkSweeps, NEW t \in TkTasks, TkSweep(i, t)
  PROVE  TkIInv'
<1>1. CASE tkRec[t] # TkGone /\ TkGoes(i, "age") /\ tkOn' = [tkOn EXCEPT ![i] = t]
           /\ UNCHANGED <<tkInflight, tkFails>>
  BY <1>1, TkTurnsIInv DEF TkSweep
<1>2. CASE tkInflight' = tkInflight \ {t} /\ UNCHANGED <<tkAt, tkOn>>
           /\ (TkFail \/ UNCHANGED tkFails)
  <2>1. tkFails' \in 0..TkMaxFails
    BY <1>2, TkFailType
  <2>2. UNCHANGED <<tkRec, tkSeen, tkSignal, tkStopped, tkOld, tkRan, tkCounted, tkBecame>>
    BY DEF TkSweep
  <2>3. TkTypeOK'
    BY <1>2, <2>1, <2>2 DEF TkIInv, TkTypeOK
  <2> QED
    BY <1>2, <2>2, <2>3
       DEF TkIInv, TkActorInv, TkRecInv, TkConfirmed, TkPlacesOf, TkUpdating, TkTerminal
<1> QED
  BY <1>1, <1>2 DEF TkSweep

LEMMA TkNextIInv ==
  TkIInv /\ [TkNext]_tkVars => TkIInv'
<1> SUFFICES ASSUME TkIInv, [TkNext]_tkVars PROVE TkIInv'
  OBVIOUS
<1>1. CASE UNCHANGED tkVars
  BY <1>1 DEF tkVars, TkIInv, TkTypeOK, TkActorInv, TkRecInv, TkConfirmed, TkPlacesOf,
     TkUpdating, TkTerminal
<1>2. ASSUME NEW t \in TkTasks, NEW c \in TkClients, NEW kind \in TkKinds, TkRequest(c, kind, t)
      PROVE  TkIInv'
  BY <1>2, TkTurnsIInv DEF TkRequest
<1> QED
  BY <1>1, <1>2, TkStartIInv, TkWaitIInv, TkToolEndsIInv, TkMarksIInv, TkKeyExpiresIInv,
     TkSweepIInv, TkReadIInv, TkWriteIInv, TkUpdateFailsIInv DEF TkNext

\* A step leaves a finished record as it is, or the key is gone.
LEMMA TkNextFinal ==
  ASSUME TkIInv, [TkNext]_tkVars, NEW t \in TkTasks, TkTerminal(tkRec[t])
  PROVE  tkRec'[t] \in {tkRec[t], TkGone}
<1>1. ASSUME NEW u \in TkTasks, TkStart(u)
      PROVE  tkRec'[t] = tkRec[t]
  <2>1. tkRec[u] = TkGone
    BY <1>1 DEF TkStart, TkIInv, TkRecInv
  <2>2. u # t
    BY <2>1, TkGoneFacts
  <2> QED
    BY <1>1, <2>2 DEF TkStart, TkIInv, TkTypeOK
<1>2. ASSUME NEW a \in TkActors, TkWrite(a)
      PROVE  tkRec'[t] = tkRec[t]
  <2>1. PICK status \in TkOutcomes(a) :
          LET new == TkChange(a, tkSeen[a], status) IN
            \/ tkRec' = tkRec
            \/ new # tkSeen[a] /\ TkMatches(a) /\ tkRec' = [tkRec EXCEPT ![tkOn[a]] = new]
    BY <1>2 DEF TkWrite
  <2> DEFINE new == TkChange(a, tkSeen[a], status)
  <2>2. CASE tkRec' = tkRec
    BY <2>2
  <2>3. CASE new # tkSeen[a] /\ TkMatches(a) /\ tkRec' = [tkRec EXCEPT ![tkOn[a]] = new]
    <3>1. ~TkTerminal(tkSeen[a])
      BY <1>2, <2>3, TkChangeCases DEF TkWrite, TkUpdating, TkIInv, TkTypeOK
    <3>2. tkOn[a] # t
      BY <2>3, <3>1 DEF TkMatches
    <3> QED
      BY <2>3, <3>2 DEF TkIInv, TkTypeOK
  <2> QED
    BY <2>1, <2>2, <2>3
<1>3. ASSUME NEW u \in TkTasks, TkKeyExpires(u)
      PROVE  tkRec'[t] \in {tkRec[t], TkGone}
  BY <1>3 DEF TkKeyExpires, TkIInv, TkTypeOK
<1> QED
  BY <1>1, <1>2, <1>3
     DEF TkNext, tkVars, TkWait, TkToolEnds, TkCancelled, TkAges, TkRequest, TkSweep, TkRead,
         TkUpdateFails

(***************************************************************************)
(* A tool that needs confirmation runs on an approval that was given:      *)
(* startToolTask asks before it waits, an update answers only a record that*)
(* asks, and waitForInput returns on a record that is no longer asking.    *)
(* TkRecInv says what a waiting goroutine finds, for every interleaving of *)
(* clients, cancellations, sweeps and expiries.                            *)
(***************************************************************************)
THEOREM ToolsRunConfirmed == TkSpec => [](TkTypeOK /\ TkConfirmed)
<1>1. TkIInv => TkTypeOK /\ TkConfirmed
  BY DEF TkIInv
<1> QED
  BY <1>1, TkInitIInv, TkNextIInv, PTL DEF TkSpec

(***************************************************************************)
(* A finished task stays as it finished until its key expires: casSetTask  *)
(* writes only over the version that was read, and an update leaves a      *)
(* terminal record alone.                                                  *)
(***************************************************************************)
THEOREM FinishedTasksStay == TkSpec => TkFinal
<1>1. TkIInv /\ [TkNext]_tkVars =>
        [\A t \in TkTasks : TkTerminal(tkRec[t]) => tkRec'[t] \in {tkRec[t], TkGone}]_tkVars
  BY TkNextFinal
<1> QED
  BY <1>1, TkInitIInv, TkNextIInv, PTL DEF TkSpec, TkFinal

-----------------------------------------------------------------------------
(* Runs of the GitHub application *)

\* What each call has done at the place where it is.
GrPlaceInv ==
  \A c \in GrCalls :
    /\ grAt[c] \in {"create", "clone"} =>
         grNext[c] = 0 /\ \A i \in 0..GrCommands : grRuns[c][i] = "none"
    /\ grAt[c] = "command" =>
         /\ grNext[c] \in 1..GrCommands /\ grRuns[c][0] = "zero"
         /\ \A i \in 1..GrCommands :
              IF i < grNext[c] THEN grRuns[c][i] \in {"zero", "noexit"} ELSE grRuns[c][i] = "none"
    /\ grAt[c] # "done" => grAnswer[c] = "none"
    /\ grAt[c] = "cleanup" /\ ~grIsError[c] =>
         grRuns[c][0] = "zero" /\ \A i \in 1..GrCommands : grRuns[c][i] \in {"zero", "noexit"}

GrIInv == GrTypeOK /\ GrPlaceInv /\ GrInOrder

LEMMA GrInitIInv == GrInit => GrIInv
<1> SUFFICES ASSUME GrInit PROVE GrIInv
  OBVIOUS
<1>1. GrTypeOK
  BY GithubRunsAssumption DEF GrInit, GrTypeOK
<1>2. GrPlaceInv /\ GrInOrder
  BY GithubRunsAssumption DEF GrInit, GrPlaceInv, GrInOrder
<1> QED
  BY <1>1, <1>2 DEF GrIInv

\* What one call keeps; a step changes the state of one call only.
GrCallOK(at, next, session, runs, isError, answer, keep) ==
  /\ at \in {"create", "clone", "command", "cleanup", "done"} /\ next \in 0..GrCommands + 1
  /\ session \in {"none", "live", "deleted"}
  /\ runs \in [0..GrCommands -> {"none", "running", "killed"} \cup GrEnds]
  /\ isError \in BOOLEAN /\ answer \in {"none", "ok", "error"}
  /\ at \in {"create", "clone"} => next = 0 /\ \A i \in 0..GrCommands : runs[i] = "none"
  /\ at = "command" =>
       /\ next \in 1..GrCommands /\ runs[0] = "zero"
       /\ \A i \in 1..GrCommands :
            IF i < next THEN runs[i] \in {"zero", "noexit"} ELSE runs[i] = "none"
  /\ at # "done" => answer = "none"
  /\ at = "cleanup" /\ ~isError =>
       runs[0] = "zero" /\ \A i \in 1..GrCommands : runs[i] \in {"zero", "noexit"}
  /\ \A i \in 1..GrCommands : runs[i] # "none" =>
       runs[0] = "zero" /\ \A j \in 1..i - 1 : runs[j] \in {"zero", "noexit"}
  /\ answer = "ok" =>
       runs[0] = "zero" /\ \A i \in 1..GrCommands : runs[i] \in {"zero", "noexit"}
  /\ keep => session # "deleted"

GrOfCall(c) ==
  GrCallOK(grAt[c], grNext[c], grSession[c], grRuns[c], grIsError[c], grAnswer[c], c \in GrKeep)

LEMMA GrEveryCall ==
  GrIInv <=> /\ grAt = [c \in GrCalls |-> grAt[c]] /\ grNext = [c \in GrCalls |-> grNext[c]]
             /\ grSession = [c \in GrCalls |-> grSession[c]]
             /\ grRuns = [c \in GrCalls |-> grRuns[c]]
             /\ grIsError = [c \in GrCalls |-> grIsError[c]]
             /\ grAnswer = [c \in GrCalls |-> grAnswer[c]]
             /\ grCancelled \subseteq GrCalls /\ grFails \in 0..GrMaxFails
             /\ \A c \in GrCalls : GrOfCall(c)
  BY DEF GrIInv, GrTypeOK, GrPlaceInv, GrInOrder, GrOfCall, GrCallOK

GrBecomes(c, at, next, session, runs, isError, answer) ==
  /\ grAt' = [grAt EXCEPT ![c] = at] /\ grNext' = [grNext EXCEPT ![c] = next]
  /\ grSession' = [grSession EXCEPT ![c] = session] /\ grRuns' = [grRuns EXCEPT ![c] = runs]
  /\ grIsError' = [grIsError EXCEPT ![c] = isError] /\ grAnswer' = [grAnswer EXCEPT ![c] = answer]

\* A step that leaves one call in order leaves all of them.
LEMMA GrCallStep ==
  ASSUME GrIInv, NEW c \in GrCalls, NEW at, NEW next, NEW session, NEW runs, NEW isError, NEW answer,
         GrCallOK(at, next, session, runs, isError, answer, c \in GrKeep),
         GrBecomes(c, at, next, session, runs, isError, answer), grCancelled' \subseteq GrCalls, grFails' \in 0..GrMaxFails
  PROVE  GrIInv'
<1>1. GrTypeOK'
  BY DEF GrIInv, GrTypeOK, GrCallOK, GrBecomes
<1>2. ASSUME NEW d \in GrCalls
      PROVE  GrCallOK(grAt'[d], grNext'[d], grSession'[d], grRuns'[d], grIsError'[d], grAnswer'[d],
                      d \in GrKeep)
  <2>1. CASE d = c
    BY <2>1 DEF GrIInv, GrTypeOK, GrBecomes
  <2>2. CASE d # c
    <3>1. GrOfCall(d)
      BY GrEveryCall
    <3>2. /\ grAt'[d] = grAt[d] /\ grNext'[d] = grNext[d] /\ grSession'[d] = grSession[d]
          /\ grRuns'[d] = grRuns[d] /\ grIsError'[d] = grIsError[d] /\ grAnswer'[d] = grAnswer[d]
      BY <2>2 DEF GrIInv, GrTypeOK, GrBecomes
    <3> QED
      BY <3>1, <3>2 DEF GrOfCall
  <2> QED
    BY <2>1, <2>2
<1>3. GrPlaceInv'
  BY <1>2 DEF GrPlaceInv, GrCallOK
<1>4. GrInOrder'
  BY <1>2 DEF GrInOrder, GrCallOK
<1> QED
  BY <1>1, <1>3, <1>4 DEF GrIInv

\* What is unchanged is what it was.
LEMMA GrSame ==
  ASSUME GrIInv, NEW c \in GrCalls
  PROVE  /\ grAt = [grAt EXCEPT ![c] = grAt[c]] /\ grNext = [grNext EXCEPT ![c] = grNext[c]]
         /\ grSession = [grSession EXCEPT ![c] = grSession[c]]
         /\ grRuns = [grRuns EXCEPT ![c] = grRuns[c]]
         /\ grIsError = [grIsError EXCEPT ![c] = grIsError[c]]
         /\ grAnswer = [grAnswer EXCEPT ![c] = grAnswer[c]]
         /\ GrOfCall(c)
  BY GrEveryCall DEF GrIInv, GrTypeOK

LEMMA GrFailsType ==
  ASSUME GrIInv, NEW c \in GrCalls, UNCHANGED grFails \/ GrFail \/ GrRefused(c)
  PROVE  grFails' \in 0..GrMaxFails
  BY GithubRunsAssumption DEF GrIInv, GrTypeOK, GrFail, GrRefused

LEMMA GrCancelIInv ==
  ASSUME GrIInv, NEW c \in GrCalls, GrCancel(c)
  PROVE  GrIInv'
<1>1. grCancelled' \subseteq GrCalls /\ grFails' \in 0..GrMaxFails
  BY GrFailsType DEF GrCancel, GrIInv, GrTypeOK
<1> QED
  BY <1>1, GrSame, GrCallStep DEF GrCancel, GrOfCall, GrBecomes

LEMMA GrCreateIInv ==
  ASSUME GrIInv, NEW c \in GrCalls, GrCreate(c)
  PROVE  GrIInv'
<1>1. PICK at \in {"clone", "done"}, session \in {"live", grSession[c]}, answer \in {"none", "error"} :
        /\ grAt' = [grAt EXCEPT ![c] = at] /\ grSession' = [grSession EXCEPT ![c] = session]
        /\ grAnswer' = [grAnswer EXCEPT ![c] = answer]
        /\ at = "clone" => answer = "none"
  <2>1. grAnswer[c] = "none"
    BY GrSame DEF GrCreate, GrOfCall, GrCallOK
  <2> QED
    BY <2>1, GrSame DEF GrCreate, GrGoes, GrReturn
<1>2. UNCHANGED <<grNext, grCancelled, grRuns, grIsError>> /\ grAt[c] = "create"
  BY DEF GrCreate
<1>3. GrCallOK(at, grNext[c], session, grRuns[c], grIsError[c], answer, c \in GrKeep)
  BY <1>1, <1>2, GrSame DEF GrOfCall, GrCallOK
<1>4. grCancelled' \subseteq GrCalls /\ grFails' \in 0..GrMaxFails
  BY <1>2, GrFailsType DEF GrCreate, GrIInv, GrTypeOK
<1>to. GrBecomes(c, at, grNext[c], session, grRuns[c], grIsError[c], answer)
  BY <1>1, <1>2, GrSame DEF GrBecomes
<1> QED
  BY <1>to, <1>3, <1>4, GrCallStep

\* What RunCommand leaves at the command it is about.
LEMMA GrAskCases ==
  ASSUME GrIInv, NEW c \in GrCalls, NEW end \in GrEnds, NEW answered \in BOOLEAN,
         GrAsk(c, end, answered), grNext[c] \in 0..GrCommands
  PROVE  \E runs \in [0..GrCommands -> {"none", "running", "killed"} \cup GrEnds] :
           /\ grRuns' = [grRuns EXCEPT ![c] = runs]
           /\ \A i \in 0..GrCommands : i # grNext[c] => runs[i] = grRuns[c][i]
           /\ answered => runs[grNext[c]] = end
<1>1. grRuns \in [GrCalls -> [0..GrCommands -> {"none", "running", "killed"} \cup GrEnds]]
  BY DEF GrIInv, GrTypeOK
<1>2. ASSUME NEW state \in {"running"} \cup GrEnds, answered => state = end,
             grRuns' = [grRuns EXCEPT ![c][grNext[c]] = state]
      PROVE  \E runs \in [0..GrCommands -> {"none", "running", "killed"} \cup GrEnds] :
               /\ grRuns' = [grRuns EXCEPT ![c] = runs]
               /\ \A i \in 0..GrCommands : i # grNext[c] => runs[i] = grRuns[c][i]
               /\ answered => runs[grNext[c]] = end
  <2>1. [grRuns[c] EXCEPT ![grNext[c]] = state]
          \in [0..GrCommands -> {"none", "running", "killed"} \cup GrEnds]
    BY <1>1
  <2>2. /\ grRuns' = [grRuns EXCEPT ![c] = [grRuns[c] EXCEPT ![grNext[c]] = state]]
        /\ answered => [grRuns[c] EXCEPT ![grNext[c]] = state][grNext[c]] = end
        /\ \A i \in 0..GrCommands :
             i # grNext[c] => [grRuns[c] EXCEPT ![grNext[c]] = state][i] = grRuns[c][i]
    BY <1>1, <1>2
  <2> QED
    BY <2>1, <2>2
<1>3. CASE ~answered /\ UNCHANGED grRuns
  <2>1. grRuns[c] \in [0..GrCommands -> {"none", "running", "killed"} \cup GrEnds]
    BY <1>1
  <2>2. grRuns' = [grRuns EXCEPT ![c] = grRuns[c]]
    BY <1>1, <1>3
  <2> QED
    BY <1>3, <2>1, <2>2
<1> QED
  BY <1>2, <1>3 DEF GrAsk

LEMMA GrCloneIInv ==
  ASSUME GrIInv, NEW c \in GrCalls, GrClone(c)
  PROVE  GrIInv'
<1>1. PICK end \in GrEnds, answered \in BOOLEAN :
        /\ GrAsk(c, end, answered)
        /\ IF answered /\ GrCloned(end)
           THEN /\ GrGoes(c, IF GrCommands = 0 THEN "cleanup" ELSE "command")
                /\ grNext' = [grNext EXCEPT ![c] = 1] /\ UNCHANGED grIsError
           ELSE /\ GrGoes(c, "cleanup") /\ grIsError' = [grIsError EXCEPT ![c] = TRUE]
                /\ UNCHANGED grNext
  BY DEF GrClone
<1>2. grAt[c] = "clone" /\ UNCHANGED <<grCancelled, grSession, grAnswer>>
  BY DEF GrClone
<1>3. grFails' \in 0..GrMaxFails /\ grCancelled' \subseteq GrCalls
  BY <1>1, <1>2, GrFailsType DEF GrAsk, GrIInv, GrTypeOK
<1>4. grNext[c] = 0 /\ grAnswer[c] = "none" /\ \A i \in 0..GrCommands : grRuns[c][i] = "none"
  BY <1>2, GrSame DEF GrOfCall, GrCallOK
<1>5. PICK runs \in [0..GrCommands -> {"none", "running", "killed"} \cup GrEnds] :
        /\ grRuns' = [grRuns EXCEPT ![c] = runs]
        /\ \A i \in 0..GrCommands : i # grNext[c] => runs[i] = grRuns[c][i]
        /\ answered => runs[grNext[c]] = end
  BY <1>1, <1>4, GrAskCases, GithubRunsAssumption
<1>6. \A i \in 1..GrCommands : runs[i] = "none"
  BY <1>4, <1>5
<1>7. CASE answered /\ GrCloned(end)
  <2>1. PICK at \in {"cleanup", "command"} :
          grAt' = [grAt EXCEPT ![c] = at] /\ at = IF GrCommands = 0 THEN "cleanup" ELSE "command"
    BY <1>1, <1>7 DEF GrGoes
  <2>2. GrCallOK(at, 1, grSession[c], runs, grIsError[c], "none", c \in GrKeep)
    BY <1>4, <1>5, <1>6, <1>7, <2>1, GrSame, GithubRunsAssumption DEF GrOfCall, GrCallOK, GrCloned
  <2>to. GrBecomes(c, at, 1, grSession[c], runs, grIsError[c], "none")
    BY <1>1, <1>2, <1>4, <1>5, <1>7, <2>1, GrSame DEF GrBecomes
  <2> QED
    BY <2>to, <2>2, <1>3, GrCallStep
<1>8. CASE ~(answered /\ GrCloned(end))
  <2>1. GrCallOK("cleanup", grNext[c], grSession[c], runs, TRUE, "none", c \in GrKeep)
    BY <1>4, <1>5, <1>6, GrSame, GithubRunsAssumption DEF GrOfCall, GrCallOK
  <2>to. GrBecomes(c, "cleanup", grNext[c], grSession[c], runs, TRUE, "none")
    BY <1>1, <1>2, <1>4, <1>5, <1>8, GrSame DEF GrBecomes, GrGoes
  <2> QED
    BY <2>to, <2>1, <1>3, GrCallStep
<1> QED
  BY <1>7, <1>8

LEMMA GrCommandIInv ==
  ASSUME GrIInv, NEW c \in GrCalls, GrCommand(c)
  PROVE  GrIInv'
<1>1. PICK end \in GrEnds, answered \in BOOLEAN :
        /\ GrAsk(c, end, answered)
        /\ IF answered /\ ~GrStops(end)
           THEN /\ grNext' = [grNext EXCEPT ![c] = @ + 1] /\ UNCHANGED grIsError
                /\ GrGoes(c, IF grNext[c] = GrCommands THEN "cleanup" ELSE "command")
           ELSE /\ GrGoes(c, "cleanup") /\ grIsError' = [grIsError EXCEPT ![c] = TRUE]
                /\ UNCHANGED grNext
  BY DEF GrCommand
<1>2. grAt[c] = "command" /\ UNCHANGED <<grCancelled, grSession, grAnswer>>
  BY DEF GrCommand
<1>3. grFails' \in 0..GrMaxFails /\ grCancelled' \subseteq GrCalls
  BY <1>1, <1>2, GrFailsType DEF GrAsk, GrIInv, GrTypeOK
<1>4. /\ grNext[c] \in 1..GrCommands /\ grAnswer[c] = "none" /\ grRuns[c][0] = "zero"
      /\ \A i \in 1..GrCommands :
           IF i < grNext[c] THEN grRuns[c][i] \in {"zero", "noexit"} ELSE grRuns[c][i] = "none"
  BY <1>2, GrSame DEF GrOfCall, GrCallOK
<1>5. PICK runs \in [0..GrCommands -> {"none", "running", "killed"} \cup GrEnds] :
        /\ grRuns' = [grRuns EXCEPT ![c] = runs]
        /\ \A i \in 0..GrCommands : i # grNext[c] => runs[i] = grRuns[c][i]
        /\ answered => runs[grNext[c]] = end
  BY <1>1, <1>4, GrAskCases, GithubRunsAssumption
<1>6. /\ runs[0] = "zero"
      /\ \A i \in 1..GrCommands : i < grNext[c] => runs[i] \in {"zero", "noexit"}
      /\ \A i \in 1..GrCommands : i > grNext[c] => runs[i] = "none"
  BY <1>4, <1>5, GithubRunsAssumption
<1>7. \A i \in 1..GrCommands : runs[i] # "none" =>
        runs[0] = "zero" /\ \A j \in 1..i - 1 : runs[j] \in {"zero", "noexit"}
  BY <1>4, <1>6, GithubRunsAssumption
<1>8. CASE answered /\ ~GrStops(end)
  <2>1. PICK at \in {"cleanup", "command"} :
          /\ grAt' = [grAt EXCEPT ![c] = at]
          /\ at = IF grNext[c] = GrCommands THEN "cleanup" ELSE "command"
    BY <1>1, <1>8 DEF GrGoes
  <2>2. runs[grNext[c]] \in {"zero", "noexit"}
    BY <1>5, <1>8 DEF GrStops, GrEnds
  <2>3. \A i \in 1..GrCommands :
          IF i < grNext[c] + 1 THEN runs[i] \in {"zero", "noexit"} ELSE runs[i] = "none"
    BY <1>4, <1>6, <2>2, GithubRunsAssumption
  <2>4. at = "command" => grNext[c] + 1 \in 1..GrCommands
    BY <1>4, <2>1, GithubRunsAssumption
  <2>5. at = "cleanup" => \A i \in 1..GrCommands : runs[i] \in {"zero", "noexit"}
    BY <1>4, <2>1, <2>3, GithubRunsAssumption
  <2>6. grNext[c] + 1 \in 0..GrCommands + 1
    BY <1>4, GithubRunsAssumption
  <2>7. GrCallOK(at, grNext[c] + 1, grSession[c], runs, grIsError[c], "none", c \in GrKeep)
    BY <1>4, <1>5, <1>6, <1>7, <2>1, <2>3, <2>4, <2>5, <2>6, GrSame DEF GrOfCall, GrCallOK
  <2>8. grNext' = [grNext EXCEPT ![c] = grNext[c] + 1]
    BY <1>1, <1>8 DEF GrIInv, GrTypeOK
  <2>to. GrBecomes(c, at, grNext[c] + 1, grSession[c], runs, grIsError[c], "none")
    BY <1>1, <1>2, <1>4, <1>5, <1>8, <2>1, <2>8, GrSame DEF GrBecomes
  <2> QED
    BY <2>to, <2>7, <1>3, GrCallStep
<1>9. CASE ~(answered /\ ~GrStops(end))
  <2>1. GrCallOK("cleanup", grNext[c], grSession[c], runs, TRUE, "none", c \in GrKeep)
    BY <1>4, <1>5, <1>7, GrSame DEF GrOfCall, GrCallOK
  <2>to. GrBecomes(c, "cleanup", grNext[c], grSession[c], runs, TRUE, "none")
    BY <1>1, <1>2, <1>4, <1>5, <1>9, GrSame DEF GrBecomes, GrGoes
  <2> QED
    BY <2>to, <2>1, <1>3, GrCallStep
<1> QED
  BY <1>8, <1>9

LEMMA GrCleanupIInv ==
  ASSUME GrIInv, NEW c \in GrCalls, GrCleanup(c)
  PROVE  GrIInv'
<1>1. PICK answer \in {"ok", "error"} :
        /\ grAt' = [grAt EXCEPT ![c] = "done"] /\ grAnswer' = [grAnswer EXCEPT ![c] = answer]
        /\ answer = "ok" => ~grIsError[c]
  BY DEF GrCleanup, GrReturn, GrGoes
<1>2. UNCHANGED <<grNext, grCancelled, grIsError>> /\ grAt[c] = "cleanup"
  BY DEF GrCleanup
<1>3. grCancelled' \subseteq GrCalls /\ grFails' \in 0..GrMaxFails
  BY <1>2, GrFailsType DEF GrCleanup, GrIInv, GrTypeOK
<1>4. CASE UNCHANGED <<grSession, grRuns>>
  <2>1. GrCallOK("done", grNext[c], grSession[c], grRuns[c], grIsError[c], answer, c \in GrKeep)
    BY <1>1, <1>2, GrSame DEF GrOfCall, GrCallOK
  <2>to. GrBecomes(c, "done", grNext[c], grSession[c], grRuns[c], grIsError[c], answer)
    BY <1>1, <1>2, <1>4, GrSame DEF GrBecomes
  <2> QED
    BY <2>to, <2>1, <1>3, GrCallStep
<1>5. CASE c \notin GrKeep /\ GrDelete(c)
  <2> DEFINE kill(end) == IF end = "running" THEN "killed" ELSE end
             runs == [i \in 0..GrCommands |-> kill(grRuns[c][i])]
  <2>1. grSession' = [grSession EXCEPT ![c] = "deleted"] /\ grRuns' = [grRuns EXCEPT ![c] = runs]
    BY <1>5 DEF GrDelete
  <2>2. GrCallOK("done", grNext[c], "deleted", runs, grIsError[c], answer, c \in GrKeep)
    <3>1. grRuns[c] \in [0..GrCommands -> {"none", "running", "killed"} \cup GrEnds]
      BY DEF GrIInv, GrTypeOK
    <3>2. \A i \in 0..GrCommands :
            /\ runs[i] \in {"none", "running", "killed"} \cup GrEnds
            /\ runs[i] # "none" => grRuns[c][i] # "none"
            /\ grRuns[c][i] \in {"zero", "noexit"} => runs[i] = grRuns[c][i]
      BY <3>1
    <3>3. \A i \in 1..GrCommands : \A j \in 1..i - 1 : j \in 0..GrCommands
      BY GithubRunsAssumption
    <3>4. 0 \in 0..GrCommands /\ \A i \in 1..GrCommands : i \in 0..GrCommands
      BY GithubRunsAssumption
    <3>5. \A i \in 1..GrCommands : runs[i] # "none" =>
            runs[0] = "zero" /\ \A j \in 1..i - 1 : runs[j] \in {"zero", "noexit"}
      BY <3>2, <3>3, <3>4, GrSame DEF GrOfCall, GrCallOK
    <3>6. answer = "ok" => runs[0] = "zero" /\ \A i \in 1..GrCommands : runs[i] \in {"zero", "noexit"}
      BY <1>1, <1>2, <3>2, <3>4, GrSame DEF GrOfCall, GrCallOK
    <3>7. runs \in [0..GrCommands -> {"none", "running", "killed"} \cup GrEnds]
      BY <3>2
    <3> HIDE DEF runs
    <3> QED
      BY <1>1, <1>5, <3>5, <3>6, <3>7, GrSame DEF GrOfCall, GrCallOK
  <2>to. GrBecomes(c, "done", grNext[c], "deleted", runs, grIsError[c], answer)
    BY <1>1, <1>2, <2>1, GrSame DEF GrBecomes
  <2> QED
    BY <2>to, <2>2, <1>3, GrCallStep
<1> QED
  BY <1>4, <1>5 DEF GrCleanup

LEMMA GrRunEndsIInv ==
  ASSUME GrIInv, NEW c \in GrCalls, GrRunEnds(c)
  PROVE  GrIInv'
<1>1. PICK i \in 0..GrCommands, end \in GrEnds :
        grRuns[c][i] = "running" /\ grRuns' = [grRuns EXCEPT ![c][i] = end]
  BY DEF GrRunEnds
<1>2. UNCHANGED <<grAt, grNext, grCancelled, grSession, grIsError, grAnswer, grFails>>
  BY DEF GrRunEnds
<1> DEFINE runs == [grRuns[c] EXCEPT ![i] = end]
<1>3. grRuns' = [grRuns EXCEPT ![c] = runs]
  BY <1>1 DEF GrIInv, GrTypeOK
<1>4. grRuns[c] \in [0..GrCommands -> {"none", "running", "killed"} \cup GrEnds]
  BY DEF GrIInv, GrTypeOK
<1>5. runs \in [0..GrCommands -> {"none", "running", "killed"} \cup GrEnds]
  BY <1>4
<1>6. \A j \in 0..GrCommands :
        /\ runs[j] # "none" => grRuns[c][j] # "none"
        /\ grRuns[c][j] # "running" => runs[j] = grRuns[c][j]
  BY <1>1, <1>4
<1>7. GrCallOK(grAt[c], grNext[c], grSession[c], runs, grIsError[c], grAnswer[c], c \in GrKeep)
  <2>1. 0 \in 0..GrCommands /\ \A j \in 1..GrCommands : j \in 0..GrCommands
    BY GithubRunsAssumption
  <2>2. \A j \in 1..GrCommands : \A k \in 1..j - 1 : k \in 1..GrCommands
    BY GithubRunsAssumption
  <2>3. \A j \in 1..GrCommands : runs[j] # "none" =>
          runs[0] = "zero" /\ \A k \in 1..j - 1 : runs[k] \in {"zero", "noexit"}
    BY <1>6, <2>1, <2>2, GrSame DEF GrOfCall, GrCallOK
  <2>4. grAt[c] \in {"create", "clone"} => FALSE
    BY <1>1, GrSame DEF GrOfCall, GrCallOK
  <2>5. ASSUME grRuns[c][0] = "zero",
               \A j \in 1..GrCommands : grRuns[c][j] \in {"zero", "noexit", "none"}
        PROVE  FALSE
    <3>1. i = 0 \/ i \in 1..GrCommands
      BY GithubRunsAssumption
    <3> QED
      BY <1>1, <2>5, <3>1
  <2>6. grAt[c] # "command" /\ (grAt[c] = "cleanup" => grIsError[c]) /\ grAnswer[c] # "ok"
    BY <2>5, GrSame DEF GrOfCall, GrCallOK
  <2> HIDE DEF runs
  <2> QED
    BY <1>5, <2>3, <2>4, <2>6, GrSame DEF GrOfCall, GrCallOK
<1>8. grCancelled' \subseteq GrCalls /\ grFails' \in 0..GrMaxFails
  BY <1>2 DEF GrIInv, GrTypeOK
<1>to. GrBecomes(c, grAt[c], grNext[c], grSession[c], runs, grIsError[c], grAnswer[c])
  BY <1>2, <1>3, GrSame DEF GrBecomes
<1> QED
  BY <1>to, <1>7, <1>8, GrCallStep

LEMMA GrNextIInv ==
  GrIInv /\ [GrNext]_grVars => GrIInv'
<1> SUFFICES ASSUME GrIInv, [GrNext]_grVars PROVE GrIInv'
  OBVIOUS
<1>1. CASE UNCHANGED grVars
  BY <1>1 DEF grVars, GrIInv, GrTypeOK, GrPlaceInv, GrInOrder
<1> QED
  BY <1>1, GrCancelIInv, GrCreateIInv, GrCloneIInv, GrCommandIInv, GrCleanupIInv, GrRunEndsIInv
     DEF GrNext

(***************************************************************************)
(* toolRunGithubRepo runs its commands in order after a clone that exited  *)
(* with zero, never after a run that failed or is not known to have ended, *)
(* and deletes no session it was told to keep, whichever requests are      *)
(* refused, lose their answers or are cancelled, and whenever a run that   *)
(* nobody waits for ends.  GrPlaceInv says what is in the API at each place*)
(* of the call.                                                            *)
(***************************************************************************)
THEOREM CommandsRunInOrder == GrSpec => [](GrTypeOK /\ GrInOrder)
<1>1. GrIInv => GrTypeOK /\ GrInOrder
  BY DEF GrIInv
<1> QED
  BY <1>1, GrInitIInv, GrNextIInv, PTL DEF GrSpec

-----------------------------------------------------------------------------
(* Keys and organisations *)

\* A role was held since the request arrived that is enough for the operation.
AcHadRole(r) ==
  \E role \in DOMAIN AcRank : <<r.org, role>> \in r.had /\ AcRank[role] >= AcRank[AcNeeds[r.op]]

\* What holds of a request in flight: a key that was not usable when it came
\* stays so, what its key holds now is noted with it, and each place it reaches
\* was granted by the statement before.
AcReqOK(r) ==
  /\ acKey[r.key] # "none"
  /\ r.late => acKey[r.key] # "live"
  /\ AcHeld(r.key, acRole) \subseteq r.had
  /\ r.key \in acAllowed => r.may
  /\ r.session \in AcSessions
  /\ r.pc # "auth" => ~r.late
  /\ r.op \in {"add", "drop"} \/ r.pc = "role" => r.org # "none"
  /\ r.pc = "secret" => r.op = "use"
  /\ r.pc \in {"secret", "act"} =>
       \/ r.op = "use" /\ acMaker[r.session] = r.key
       \/ r.op = "make" /\ r.org = "none"
       \/ AcHadRole(r)
  /\ r.pc = "act" /\ r.op = "use" => r.may

AcReqInv ==
  /\ acReq \in [AcClients -> AcRequests \cup {AcIdle}]
  /\ \A c \in AcClients : acReq[c] # AcIdle => AcReqOK(acReq[c])

\* The owner of a session is the key that made it; only a session that was made
\* is in an organisation.
AcRowInv ==
  /\ \A s \in AcSessions : acOwner[s] = acMaker[s]
  /\ \A s \in AcSessions : acOrg[s] # "none" => acOwner[s] # "none"

AcIInv == AcTypeOK /\ AcReqInv /\ AcRowInv

LEMMA AcNeedsAre ==
  /\ DOMAIN AcNeeds = {"make", "use", "add", "drop"}
  /\ AcNeeds["make"] = "executor" /\ AcNeeds["use"] = "executor"
  /\ AcNeeds["add"] = "admin" /\ AcNeeds["drop"] = "admin"
  BY DEF AcNeeds

LEMMA AcRanksAre ==
  /\ DOMAIN AcRank = {"none", "viewer", "executor", "admin"}
  /\ AcRank["none"] = 0 /\ AcRank["viewer"] = 1 /\ AcRank["executor"] = 2 /\ AcRank["admin"] = 3
  BY DEF AcRank

LEMMA AcInitIInv == AcInit => AcIInv
<1> SUFFICES ASSUME AcInit PROVE AcIInv
  OBVIOUS
<1>1. acRole \in [AcOrgs -> [AcPrincipals -> DOMAIN AcRank]]
  BY AcRanksAre DEF AcInit
<1>2. acAdmin \in 0..AcMaxAdmin
  BY AccessAssumption DEF AcInit
<1>3. AcTypeOK
  BY <1>1, <1>2 DEF AcInit, AcTypeOK
<1>4. AcReqInv
  BY DEF AcInit, AcReqInv
<1> QED
  BY <1>3, <1>4 DEF AcInit, AcIInv, AcRowInv

\* A request in flight is a record of its type.
LEMMA AcInFlight ==
  ASSUME AcIInv, NEW c \in AcClients, acReq[c] # AcIdle
  PROVE  acReq[c] \in AcRequests /\ AcReqOK(acReq[c])
  BY DEF AcIInv, AcTypeOK, AcReqInv

LEMMA AcBusy ==
  ASSUME AcIInv, NEW c \in AcClients, acReq[c].pc \in {"auth", "load", "role", "secret", "act"}
  PROVE  acReq[c] # AcIdle /\ acReq[c] \in AcRequests /\ AcReqOK(acReq[c])
<1>1. acReq[c] # AcIdle
  BY DEF AcIdle
<1> QED
  BY <1>1, AcInFlight

\* One statement of one request, which changes no row.
LEMMA AcReqStep ==
  ASSUME AcIInv, NEW c \in AcClients, NEW r, r = AcIdle \/ (r \in AcRequests /\ AcReqOK(r)),
         acReq' = [acReq EXCEPT ![c] = r],
         UNCHANGED <<acRows, acKey, acName, acAllowed, acRole, acAdmin>>
  PROVE  AcIInv'
<1>1. /\ acReq' \in [AcClients -> AcRequests \cup {AcIdle}]
      /\ acReq'[c] = r /\ \A d \in AcClients \ {c} : acReq'[d] = acReq[d]
  BY DEF AcIInv, AcReqInv
<1>2. AcTypeOK'
  BY <1>1 DEF AcIInv, AcTypeOK, acRows
<1>3. ASSUME NEW d \in AcClients, acReq'[d] # AcIdle PROVE AcReqOK(acReq[d])'
  <2>1. AcReqOK(acReq'[d])
    BY <1>1, <1>3 DEF AcIInv, AcReqInv
  <2> QED
    BY <2>1 DEF AcReqOK, acRows
<1>4. AcReqInv'
  BY <1>1, <1>3 DEF AcReqInv
<1> QED
  BY <1>2, <1>4 DEF AcIInv, AcRowInv, acRows

\* The row of a key changes, and never back to live.
LEMMA AcKeyStep ==
  ASSUME AcIInv, NEW k \in AcKeys, NEW state \in {"live", "expired", "revoked", "purged"},
         state = "live" => acKey[k] = "none", acKey' = [acKey EXCEPT ![k] = state],
         UNCHANGED <<acRows, acName, acAllowed, acRole, acReq, acAdmin>>
  PROVE  AcIInv'
<1>1. AcTypeOK'
  BY DEF AcIInv, AcTypeOK, acRows
<1>2. ASSUME NEW d \in AcClients, acReq'[d] # AcIdle PROVE AcReqOK(acReq[d])'
  <2>1. acReq[d] \in AcRequests /\ AcReqOK(acReq[d])
    BY <1>2, AcInFlight
  <2>2. acReq[d].key \in AcKeys
    BY <2>1 DEF AcRequests
  <2>3. /\ acKey'[acReq[d].key] # "none"
        /\ acReq[d].late => acKey'[acReq[d].key] # "live"
    BY <2>1, <2>2 DEF AcReqOK, AcIInv, AcTypeOK
  <2> QED
    BY <2>1, <2>3 DEF AcReqOK, AcHadRole, acRows
<1>3. AcReqInv'
  BY <1>2 DEF AcIInv, AcReqInv
<1> QED
  BY <1>1, <1>3 DEF AcIInv, AcRowInv, acRows

\* What AcNote makes of a request: what its key holds now is there.
AcNotes(r, held, may, n) == n = [r EXCEPT !.had = r.had \cup held, !.may = r.may \/ may]
AcGrows(r, held, may, n) ==
  /\ n \in AcRequests
  /\ n.pc = r.pc /\ n.op = r.op /\ n.key = r.key /\ n.session = r.session
  /\ n.org = r.org /\ n.to = r.to /\ n.late = r.late
  /\ n.had = r.had \cup held /\ (r.may => n.may) /\ (may => n.may)

LEMMA AcNoted ==
  ASSUME NEW r \in AcRequests, NEW held \in SUBSET (AcOrgs \X DOMAIN AcRank), NEW may \in BOOLEAN,
         NEW n, AcNotes(r, held, may, n)
  PROVE  AcGrows(r, held, may, n)
<1> USE DEF AcNotes
<1>1. r.had \in SUBSET (AcOrgs \X DOMAIN AcRank) /\ r.may \in BOOLEAN
  BY DEF AcRequests
<1>2. r.had \cup held \in SUBSET (AcOrgs \X DOMAIN AcRank) /\ (r.may \/ may) \in BOOLEAN
  BY <1>1
<1>3. n \in AcRequests
  BY <1>2 DEF AcRequests
<1>4. /\ n.pc = r.pc /\ n.op = r.op /\ n.key = r.key /\ n.session = r.session
      /\ n.org = r.org /\ n.to = r.to /\ n.late = r.late
      /\ n.had = r.had \cup held /\ n.may = (r.may \/ may)
  BY DEF AcRequests
<1> QED
  BY <1>3, <1>4 DEF AcGrows

LEMMA AcHeldType ==
  ASSUME NEW k \in AcKeys, NEW roles \in [AcOrgs -> [AcPrincipals -> DOMAIN AcRank]]
  PROVE  AcHeld(k, roles) \in SUBSET (AcOrgs \X DOMAIN AcRank)
  BY DEF AcHeld, AcActor, AcPrincipals

\* Roles, secrets or the organisation of a session change, noted with every
\* request; a request may end with it.
LEMMA AcNoteStep ==
  ASSUME AcIInv, NEW reqs, \A c \in AcClients : reqs[c] \in {acReq[c], AcIdle},
         acReq' = AcNote(reqs, acRole', acAllowed'),
         acRole' \in [AcOrgs -> [AcPrincipals -> DOMAIN AcRank]], acAllowed' \subseteq AcKeys,
         UNCHANGED <<acKey, acName, acOwner, acMaker>>
  PROVE  AcReqInv'
<1>1. ASSUME NEW c \in AcClients, reqs[c] # AcIdle
      PROVE  acReq'[c] \in AcRequests /\ AcReqOK(acReq[c])'
  <2> DEFINE r == acReq[c]
             held == AcHeld(r.key, acRole')
             may == r.key \in acAllowed'
  <2>1. reqs[c] = r /\ r \in AcRequests /\ AcReqOK(r)
    BY <1>1, AcInFlight
  <2>2. r.key \in AcKeys
    BY <2>1 DEF AcRequests
  <2>3. held \in SUBSET (AcOrgs \X DOMAIN AcRank) /\ may \in BOOLEAN
    BY <2>2, AcHeldType
  <2>4. AcNotes(r, held, may, acReq'[c])
    BY <1>1, <2>1 DEF AcNote, AcNotes
  <2>5. AcGrows(r, held, may, acReq'[c])
    <3> HIDE DEF r, held, may
    <3> QED
      BY <2>1, <2>3, <2>4, AcNoted
  <2>6. AcHeld(acReq'[c].key, acRole') \subseteq acReq'[c].had
        /\ (acReq'[c].key \in acAllowed' => acReq'[c].may)
    BY <2>5 DEF AcGrows
  <2>7. AcHadRole(r) => AcHadRole(acReq'[c])
    BY <2>5 DEF AcHadRole, AcGrows
  <2>8. AcReqOK(acReq[c])'
    BY <2>1, <2>5, <2>6, <2>7 DEF AcReqOK, AcHadRole, AcGrows
  <2> QED
    BY <2>5, <2>8 DEF AcGrows
<1>2. ASSUME NEW c \in AcClients, reqs[c] = AcIdle PROVE acReq'[c] = AcIdle
  BY <1>2 DEF AcNote
<1>3. acReq' \in [AcClients -> AcRequests \cup {AcIdle}]
  <2>1. acReq' = [c \in AcClients |-> acReq'[c]]
    BY DEF AcNote
  <2> QED
    BY <1>1, <1>2, <2>1
<1> QED
  BY <1>1, <1>2, <1>3 DEF AcReqInv

LEMMA AcSetSecretsIInv ==
  ASSUME AcIInv, NEW k \in AcKeys, AcSetSecrets(k)
  PROVE  AcIInv'
<1>1. acAllowed' \subseteq AcKeys /\ acRole' \in [AcOrgs -> [AcPrincipals -> DOMAIN AcRank]]
  BY DEF AcIInv, AcTypeOK, AcSetSecrets
<1>2. acReq' = AcNote(acReq, acRole', acAllowed') /\ UNCHANGED <<acKey, acName, acOwner, acMaker>>
  BY DEF AcSetSecrets, acRows
<1>3. AcReqInv'
  BY <1>1, <1>2, AcNoteStep
<1>4. acAdmin' \in 0..AcMaxAdmin
  BY AccessAssumption DEF AcIInv, AcTypeOK, AcSetSecrets
<1>5. AcTypeOK'
  BY <1>1, <1>3, <1>4 DEF AcIInv, AcTypeOK, AcReqInv, AcSetSecrets, acRows
<1> QED
  BY <1>3, <1>5 DEF AcIInv, AcRowInv, AcSetSecrets, acRows

LEMMA AcCreateOrgIInv ==
  ASSUME AcIInv, NEW o \in AcOrgs, AcCreateOrg(o)
  PROVE  AcIInv'
<1>1. AcTypeOK'
  BY DEF AcIInv, AcTypeOK, AcCreateOrg
<1>2. AcReqInv'
  BY DEF AcIInv, AcReqInv, AcReqOK, AcHadRole, AcCreateOrg
<1> QED
  BY <1>1, <1>2 DEF AcIInv, AcRowInv, AcCreateOrg

LEMMA AcDeleteOrgIInv ==
  ASSUME AcIInv, NEW o \in AcOrgs, AcDeleteOrg(o)
  PROVE  AcIInv'
<1>1. acRole' \in [AcOrgs -> [AcPrincipals -> DOMAIN AcRank]]
  BY AcRanksAre DEF AcIInv, AcTypeOK, AcDeleteOrg
<1>2. acReq' = AcNote(acReq, acRole', acAllowed') /\ acAllowed' \subseteq AcKeys
      /\ UNCHANGED <<acKey, acName, acOwner, acMaker>>
  BY DEF AcDeleteOrg, AcIInv, AcTypeOK
<1>3. AcReqInv'
  BY <1>1, <1>2, AcNoteStep
<1>4. AcTypeOK'
  BY <1>1, <1>3 DEF AcIInv, AcTypeOK, AcReqInv, AcDeleteOrg
<1>5. AcRowInv'
  BY DEF AcIInv, AcTypeOK, AcRowInv, AcDeleteOrg
<1> QED
  BY <1>3, <1>4, <1>5 DEF AcIInv

LEMMA AcSetMemberIInv ==
  ASSUME AcIInv, NEW o \in AcOrgs, NEW p \in AcPrincipals, NEW role \in AcRoles \cup {"none"},
         AcSetMember(o, p, role)
  PROVE  AcIInv'
<1>1. role \in DOMAIN AcRank
  BY AccessAssumption, AcRanksAre
<1>2. acRole' \in [AcOrgs -> [AcPrincipals -> DOMAIN AcRank]]
  BY <1>1 DEF AcIInv, AcTypeOK, AcSetMember
<1>3. acReq' = AcNote(acReq, acRole', acAllowed') /\ acAllowed' \subseteq AcKeys
      /\ UNCHANGED <<acKey, acName, acOwner, acMaker>>
  BY DEF AcSetMember, AcIInv, AcTypeOK, acRows
<1>4. AcReqInv'
  BY <1>2, <1>3, AcNoteStep
<1>5. acAdmin' \in 0..AcMaxAdmin
  BY AccessAssumption DEF AcIInv, AcTypeOK, AcSetMember
<1>6. AcTypeOK'
  BY <1>2, <1>4, <1>5 DEF AcIInv, AcTypeOK, AcReqInv, AcSetMember, acRows
<1> QED
  BY <1>4, <1>6 DEF AcIInv, AcRowInv, AcSetMember, acRows

LEMMA AcArriveIInv ==
  ASSUME AcIInv, NEW c \in AcClients, AcArrive(c)
  PROVE  AcIInv'
<1>1. PICK op \in DOMAIN AcNeeds, k \in AcKeys, s \in AcSessions, o \in AcOrgs \cup {"none"}, to \in AcKeys :
        /\ acKey[k] # "none"
        /\ op = "use" => o = "none" /\ to = k
        /\ op = "make" => acOwner[s] = "none" /\ to = k
        /\ op \in {"add", "drop"} => o # "none" /\ s = CHOOSE t \in AcSessions : TRUE
        /\ acReq' = [acReq EXCEPT ![c] =
             [pc |-> "auth", op |-> op, key |-> k, session |-> s, org |-> o, to |-> to,
              late |-> ~AcUsable(k), had |-> AcHeld(k, acRole), may |-> k \in acAllowed]]
  BY Zenon DEF AcArrive
<1> DEFINE r == [pc |-> "auth", op |-> op, key |-> k, session |-> s, org |-> o, to |-> to,
                 late |-> ~AcUsable(k), had |-> AcHeld(k, acRole), may |-> k \in acAllowed]
<1>2. /\ AcHeld(k, acRole) \in SUBSET (AcOrgs \X DOMAIN AcRank)
      /\ (~AcUsable(k)) \in BOOLEAN /\ (k \in acAllowed) \in BOOLEAN
  BY AcHeldType DEF AcIInv, AcTypeOK, AcUsable
<1>3. r \in AcRequests
  BY <1>2 DEF AcRequests
<1>4. AcReqOK(r)
  BY <1>1 DEF AcReqOK, AcUsable
<1> QED
  BY <1>1, <1>3, <1>4, AcReqStep DEF AcArrive

\* A request goes on, or ends.
LEMMA AcGotoIInv ==
  ASSUME AcIInv, NEW c \in AcClients, NEW pc \in {"load", "role", "secret", "act"}, AcGoto(c, pc),
         acReq[c] # AcIdle,
         LET r == [acReq[c] EXCEPT !.pc = pc] IN r \in AcRequests => AcReqOK(r)
  PROVE  AcIInv'
<1>1. acReq[c] \in AcRequests
  BY AcInFlight
<1>2. [acReq[c] EXCEPT !.pc = pc] \in AcRequests
  BY <1>1 DEF AcRequests
<1>3. acReq' = [acReq EXCEPT ![c] = [acReq[c] EXCEPT !.pc = pc]]
  BY DEF AcGoto
<1> QED
  BY <1>2, <1>3, AcReqStep DEF AcGoto

LEMMA AcRefuseIInv ==
  ASSUME AcIInv, NEW c \in AcClients, AcRefuse(c)
  PROVE  AcIInv'
  BY AcReqStep DEF AcRefuse

LEMMA AcAuthIInv ==
  ASSUME AcIInv, NEW c \in AcClients, AcAuth(c)
  PROVE  AcIInv'
<1> DEFINE r == acReq[c]
<1>1. r.pc = "auth" /\ r # AcIdle /\ r \in AcRequests /\ AcReqOK(r)
  BY AcBusy DEF AcAuth
<1>2. CASE AcUsable(r.key) /\ AcGoto(c, "load")
  <2>1. AcReqOK([r EXCEPT !.pc = "load"])
    BY <1>1, <1>2 DEF AcReqOK, AcUsable, AcRequests
  <2> QED
    BY <1>1, <1>2, <2>1, AcGotoIInv
<1> QED
  BY <1>2, AcRefuseIInv DEF AcAuth

LEMMA AcLoadIInv ==
  ASSUME AcIInv, NEW c \in AcClients, AcLoad(c)
  PROVE  AcIInv'
<1> DEFINE r == acReq[c]
<1>1. r.pc = "load" /\ r # AcIdle /\ r \in AcRequests /\ AcReqOK(r)
  BY AcBusy DEF AcLoad
<1>2. CASE /\ r.op = "use" /\ acOwner[r.session] = AcActor(r.key)
           /\ acReq' = [acReq EXCEPT ![c] = [r EXCEPT !.pc = "secret"]]
           /\ UNCHANGED <<acRows, acKey, acName, acAllowed, acRole, acAdmin>>
  <2>1. [r EXCEPT !.pc = "secret"] \in AcRequests
    BY <1>1 DEF AcRequests
  <2>2. acMaker[r.session] = r.key
    BY <1>1, <1>2 DEF AcActor, AcIInv, AcRowInv, AcReqOK
  <2>3. AcReqOK([r EXCEPT !.pc = "secret"])
    BY <1>1, <1>2, <2>2 DEF AcReqOK, AcRequests
  <2> QED
    BY <1>2, <2>1, <2>3, AcReqStep
<1>3. CASE /\ r.op = "use" /\ acOwner[r.session] # AcActor(r.key) /\ acOrg[r.session] # "none"
           /\ acReq' = [acReq EXCEPT ![c].pc = "role", ![c].org = acOrg[r.session]]
           /\ UNCHANGED <<acRows, acKey, acName, acAllowed, acRole, acAdmin>>
  <2> DEFINE n == [r EXCEPT !.pc = "role", !.org = acOrg[r.session]]
  <2>1. acOrg[r.session] \in AcOrgs \cup {"none"}
    BY <1>1 DEF AcReqOK, AcIInv, AcTypeOK
  <2>2. n \in AcRequests
    BY <1>1, <2>1 DEF AcRequests
  <2>3. AcReqOK(n)
    BY <1>1, <1>3 DEF AcReqOK, AcRequests
  <2>4. acReq' = [acReq EXCEPT ![c] = n]
    BY <1>3 DEF AcIInv, AcReqInv
  <2> QED
    BY <1>3, <2>2, <2>3, <2>4, AcReqStep
<1>4. CASE r.op = "make" /\ r.org = "none" /\ AcGoto(c, "act")
  <2>1. AcReqOK([r EXCEPT !.pc = "act"])
    BY <1>1, <1>4 DEF AcReqOK, AcRequests
  <2> QED
    BY <1>1, <1>4, <2>1, AcGotoIInv
<1>5. CASE r.org # "none" /\ AcGoto(c, "role")
  <2>1. AcReqOK([r EXCEPT !.pc = "role"])
    BY <1>1, <1>5 DEF AcReqOK, AcRequests
  <2> QED
    BY <1>1, <1>5, <2>1, AcGotoIInv
<1>6. CASE AcRefuse(c)
  BY <1>6, AcRefuseIInv
<1> QED
  BY <1>2, <1>3, <1>4, <1>5, <1>6 DEF AcLoad

LEMMA AcCheckRoleIInv ==
  ASSUME AcIInv, NEW c \in AcClients, AcCheckRole(c)
  PROVE  AcIInv'
<1> DEFINE r == acReq[c]
           pc == IF r.op = "use" THEN "secret" ELSE "act"
           n == [r EXCEPT !.pc = pc]
<1>1. r.pc = "role" /\ r # AcIdle /\ r \in AcRequests /\ AcReqOK(r)
  BY AcBusy DEF AcCheckRole
<1>2. CASE /\ AcSuffices(acRole[r.org][AcActor(r.key)], AcNeeds[r.op])
           /\ AcGoto(c, pc)
  <2>1. r.org \in AcOrgs /\ r.key \in AcKeys /\ r.op \in DOMAIN AcNeeds
    BY <1>1 DEF AcReqOK, AcRequests
  <2>2. acRole[r.org][r.key] \in DOMAIN AcRank
    BY <2>1 DEF AcIInv, AcTypeOK, AcPrincipals
  <2>3. <<r.org, acRole[r.org][r.key]>> \in r.had
    BY <1>1, <2>1 DEF AcReqOK, AcHeld, AcActor
  <2>4. AcRank[acRole[r.org][r.key]] >= AcRank[AcNeeds[r.op]]
    BY <1>2 DEF AcSuffices, AcActor
  <2>5. AcHadRole(r)
    BY <2>2, <2>3, <2>4 DEF AcHadRole
  <2>6. /\ n.pc = pc /\ n.op = r.op /\ n.key = r.key /\ n.session = r.session /\ n.org = r.org
        /\ n.late = r.late /\ n.had = r.had /\ n.may = r.may
    BY <1>1 DEF AcRequests
  <2>7. AcHadRole(n)
    BY <2>5, <2>6 DEF AcHadRole
  <2>8. AcReqOK(n)
    BY <1>1, <2>6, <2>7 DEF AcReqOK
  <2> QED
    BY <1>1, <1>2, <2>8, AcGotoIInv
<1>3. CASE AcRefuse(c)
  BY <1>3, AcRefuseIInv
<1> QED
  BY <1>2, <1>3 DEF AcCheckRole

LEMMA AcCheckSecretIInv ==
  ASSUME AcIInv, NEW c \in AcClients, AcCheckSecret(c)
  PROVE  AcIInv'
<1> DEFINE r == acReq[c]
           n == [r EXCEPT !.pc = "act"]
<1>1. r.pc = "secret" /\ r # AcIdle /\ r \in AcRequests /\ AcReqOK(r)
  BY AcBusy DEF AcCheckSecret
<1>2. CASE r.key \in acAllowed /\ AcGoto(c, "act")
  <2>1. /\ n.pc = "act" /\ n.op = r.op /\ n.key = r.key /\ n.session = r.session /\ n.org = r.org
        /\ n.late = r.late /\ n.had = r.had /\ n.may = r.may
    BY <1>1 DEF AcRequests
  <2>2. AcHadRole(r) => AcHadRole(n)
    BY <2>1 DEF AcHadRole
  <2>3. AcReqOK(n)
    BY <1>1, <1>2, <2>1, <2>2 DEF AcReqOK
  <2> QED
    BY <1>1, <1>2, <2>3, AcGotoIInv
<1>3. CASE AcRefuse(c)
  BY <1>3, AcRefuseIInv
<1> QED
  BY <1>2, <1>3 DEF AcCheckSecret

\* A session is made, or its parent row or its id is no longer free.
LEMMA AcMakeIInv ==
  ASSUME AcIInv, NEW c \in AcClients, acReq[c].pc = "act", acReq[c].op = "make", AcAct(c)
  PROVE  AcIInv'
<1> DEFINE r == acReq[c]
<1>1. r # AcIdle /\ r \in AcRequests /\ AcReqOK(r)
  BY AcBusy
<1>2. r.session \in AcSessions /\ r.key \in AcKeys /\ r.org \in AcOrgs \cup {"none"} /\ r.key # "none"
  BY <1>1, AccessAssumption DEF AcReqOK, AcRequests
<1>3. acReq' = [acReq EXCEPT ![c] = AcIdle] /\ UNCHANGED <<acRole, acOrgs, acKey, acName, acAllowed, acAdmin>>
  BY DEF AcAct
<1>4. CASE UNCHANGED <<acOwner, acMaker, acOrg>>
  BY <1>3, <1>4, AcReqStep DEF acRows
<1>5. CASE /\ acOwner[r.session] = "none"
           /\ acOwner' = [acOwner EXCEPT ![r.session] = AcActor(r.key)]
           /\ acMaker' = [acMaker EXCEPT ![r.session] = r.key]
           /\ acOrg' = [acOrg EXCEPT ![r.session] = r.org]
  <2>1. /\ acOwner' \in [AcSessions -> AcPrincipals \cup {"none"}]
        /\ acMaker' \in [AcSessions -> AcKeys \cup {"none"}]
        /\ acOrg' \in [AcSessions -> AcOrgs \cup {"none"}]
    BY <1>2, <1>5 DEF AcIInv, AcTypeOK, AcActor, AcPrincipals
  <2>2. acReq' \in [AcClients -> AcRequests \cup {AcIdle}] /\ acReq'[c] = AcIdle
        /\ \A d \in AcClients \ {c} : acReq'[d] = acReq[d]
    BY <1>3 DEF AcIInv, AcReqInv
  <2>3. AcTypeOK'
    BY <1>3, <2>1, <2>2 DEF AcIInv, AcTypeOK
  <2>4. AcRowInv'
    BY <1>2, <1>5, <2>1 DEF AcIInv, AcTypeOK, AcRowInv, AcActor
  <2>5. \A s \in AcSessions, k \in AcKeys : acMaker[s] = k => acMaker'[s] = k
    BY <1>2, <1>5, AccessAssumption DEF AcIInv, AcTypeOK, AcRowInv
  <2>6. ASSUME NEW d \in AcClients, acReq'[d] # AcIdle PROVE AcReqOK(acReq[d])'
    <3>1. acReq'[d] = acReq[d] /\ acReq[d] \in AcRequests /\ AcReqOK(acReq[d])
      BY <2>2, <2>6, AcInFlight
    <3>2. acMaker[acReq[d].session] = acReq[d].key => acMaker'[acReq[d].session] = acReq[d].key
      BY <2>5, <3>1 DEF AcReqOK, AcRequests
    <3>3. /\ AcHadRole(acReq[d])' <=> AcHadRole(acReq[d])
          /\ AcHeld(acReq[d].key, acRole)' = AcHeld(acReq[d].key, acRole)
      BY <1>3, <3>1 DEF AcHadRole
    <3> QED
      BY <1>3, <3>1, <3>2, <3>3 DEF AcReqOK
  <2>7. AcReqInv'
    BY <2>2, <2>6 DEF AcReqInv
  <2> QED
    BY <2>3, <2>4, <2>7 DEF AcIInv
<1> QED
  BY <1>4, <1>5 DEF AcAct

LEMMA AcActIInv ==
  ASSUME AcIInv, NEW c \in AcClients, AcAct(c)
  PROVE  AcIInv'
<1> DEFINE r == acReq[c]
           done == [acReq EXCEPT ![c] = AcIdle]
<1>1. r.pc = "act" /\ r # AcIdle /\ r \in AcRequests /\ AcReqOK(r)
  BY AcBusy DEF AcAct
<1>2. CASE r.op = "make"
  BY <1>1, <1>2, AcMakeIInv
<1>3. CASE acReq' = done /\ UNCHANGED <<acRole, acRows>>
  BY <1>3, AcReqStep DEF AcAct
<1>4. CASE /\ r.op \in {"add", "drop"}
           /\ \E role \in IF r.op = "add" THEN AcRoles ELSE {"none"} :
                acRole' = [acRole EXCEPT ![r.org][r.to] = role]
           /\ acReq' = AcNote(done, acRole', acAllowed) /\ UNCHANGED acRows
  <2>1. PICK role \in AcRoles \cup {"none"} : acRole' = [acRole EXCEPT ![r.org][r.to] = role]
    BY <1>4
  <2>2. role \in DOMAIN AcRank
    BY AccessAssumption, AcRanksAre
  <2>3. acRole' \in [AcOrgs -> [AcPrincipals -> DOMAIN AcRank]]
    BY <2>1, <2>2 DEF AcIInv, AcTypeOK
  <2>4. UNCHANGED <<acKey, acName, acAllowed, acAdmin>> /\ UNCHANGED <<acOrgs, acOwner, acOrg, acMaker>>
    BY <1>4 DEF AcAct, acRows
  <2>5. \A d \in AcClients : done[d] \in {acReq[d], AcIdle}
    BY DEF AcIInv, AcReqInv
  <2>6. AcReqInv'
    <3>1. acReq' = AcNote(done, acRole', acAllowed') /\ acAllowed' \subseteq AcKeys
      BY <1>4, <2>4 DEF AcIInv, AcTypeOK
    <3> HIDE DEF done
    <3> QED
      BY <2>3, <2>4, <2>5, <3>1, AcNoteStep
  <2>7. AcTypeOK'
    BY <2>3, <2>4, <2>6 DEF AcIInv, AcTypeOK, AcReqInv
  <2> QED
    BY <2>4, <2>6, <2>7 DEF AcIInv, AcRowInv
<1> QED
  BY <1>1, <1>2, <1>3, <1>4 DEF AcAct

LEMMA AcNextIInv == AcIInv /\ [AcNext]_acVars => AcIInv'
<1> SUFFICES ASSUME AcIInv, [AcNext]_acVars PROVE AcIInv'
  OBVIOUS
<1>1. CASE UNCHANGED acVars
  BY <1>1 DEF acVars, AcIInv, AcTypeOK, AcReqInv, AcReqOK, AcHadRole, AcRowInv
<1>2. ASSUME NEW k \in AcKeys, AcCreateKey(k) \/ AcExpire(k) \/ AcRevoke(k) \/ AcPurge(k)
      PROVE  AcIInv'
  BY <1>2, AcKeyStep DEF AcCreateKey, AcExpire, AcRevoke, AcPurge
<1> QED
  BY <1>1, <1>2, AcSetSecretsIInv, AcCreateOrgIInv, AcDeleteOrgIInv, AcSetMemberIInv, AcArriveIInv,
     AcAuthIInv, AcLoadIInv, AcCheckRoleIInv, AcCheckSecretIInv, AcActIInv DEF AcNext

\* The three statements of who sees a session agree.
LEMMA AcListsAgree == AcIInv => AcListsMatch
<1> SUFFICES ASSUME AcIInv, NEW k \in AcKeys
             PROVE  LET open == {s \in AcSessions : AcAccessible(k, s)} IN
                      AcListed(k) = open /\ AcScoped(k) = open
  BY DEF AcListsMatch
<1>1. \A o \in AcOrgs : acRole[o][k] \in DOMAIN AcRank
  BY DEF AcIInv, AcTypeOK, AcPrincipals
<1>2. \A o \in AcOrgs : AcSuffices(acRole[o][k], "viewer") <=> acRole[o][k] # "none"
  BY <1>1, AcRanksAre DEF AcSuffices
<1>3. ASSUME NEW s \in AcSessions
      PROVE  AcAccessible(k, s) <=>
               acOwner[s] = k \/ \E o \in AcOrgs : acOrg[s] = o /\ acRole[o][k] # "none"
  <2>1. k # "none" /\ "none" \notin AcOrgs /\ acOrg[s] \in AcOrgs \cup {"none"}
    BY AccessAssumption DEF AcIInv, AcTypeOK
  <2>2. acOrg[s] # "none" => acOwner[s] # "none"
    BY DEF AcIInv, AcRowInv
  <2> QED
    BY <1>2, <2>1, <2>2 DEF AcAccessible, AcActor
<1>4. AcListed(k) = {s \in AcSessions : AcAccessible(k, s)}
  BY <1>3 DEF AcListed, AcActor
<1>5. AcScoped(k) = {s \in AcSessions : AcAccessible(k, s)}
  BY <1>3 DEF AcScoped, AcActor
<1> QED
  BY <1>4, <1>5

(***************************************************************************)
(* Tenants stay apart: between any two statements of a request its key may *)
(* be revoked, purged or given the name of another, members removed and    *)
(* organisations deleted, and still it has its effect only for who was     *)
(* entitled since it arrived (APIKeyAuth, sessionIfAccessible,             *)
(* requireOrgAccess, authorizeSecrets), and the lists and costs are of the *)
(* sessions that may be opened.  AcReqOK says what each statement has      *)
(* granted and that no key goes back to live.                              *)
(***************************************************************************)
THEOREM TenantsStayApart == AcSpec => [](AcTypeOK /\ AcTenantsApart)
<1>1. ASSUME AcIInv, NEW c \in AcClients, acReq[c].pc = "act"
      PROVE  LET r == acReq[c] IN
               /\ ~r.late /\ (r.op = "use" => r.may)
               /\ \/ r.op = "use" /\ acMaker[r.session] = r.key
                  \/ r.op = "make" /\ r.org = "none"
                  \/ AcHadRole(r)
  BY <1>1, AcBusy DEF AcReqOK
<1>2. AcIInv => AcEntitled
  BY <1>1 DEF AcEntitled, AcHadRole
<1>3. AcIInv => AcTypeOK /\ AcTenantsApart
  BY <1>2, AcListsAgree DEF AcIInv, AcTenantsApart
<1> QED
  BY <1>3, AcInitIInv, AcNextIInv, PTL DEF AcSpec

-----------------------------------------------------------------------------
(* The local gateway *)

\* A request with the types of its fields.
GwReqType ==
  [at : GwPlaces, conv : GwConvs \cup {"none"}, named : GwSessions \cup {"none"},
   session : GwSessions \cup {"none"}, round : Nat, calls : Seq(GwTools \cup {"foreign"}),
   captured : Seq(GwTools), gone : SUBSET GwSessions]

GwTypes ==
  /\ gwBound \in [GwConvs -> GwSessions \cup {"none"}]
  /\ gwStatus \in [GwSessions -> {"absent", "running", "stopped"}]
  /\ gwMadeFor \in [GwSessions -> GwReqs \cup {"none"}]
  /\ gwReq \in [GwReqs -> GwReqType] /\ gwRan \in [GwReqs -> Seq(GwRun)]

\* The session is of the conversation of the request.
GwOwned(q, s) ==
  \E p \in GwReqs :
    /\ p = q \/ (gwReq[p].conv = gwReq[q].conv /\ gwReq[q].conv # "none")
    /\ gwMadeFor[s] = p \/ gwReq[p].named = s

\* What holds of a request at each place of its way.
GwReqOK(q) ==
  /\ gwReq[q].at = "new" => gwReq[q] = GwNew
  /\ gwReq[q].at \in {"new", "look", "unbind", "create", "bind"} => gwRan[q] = <<>>
  /\ \A s \in gwReq[q].gone : gwStatus[s] = "stopped"
  /\ gwReq[q].at = "look" => gwReq[q].session \in GwSessions /\ GwOwned(q, gwReq[q].session)
  /\ gwReq[q].at \in {"bind", "ask", "tools", "mission", "record"} \/ gwRan[q] # <<>> =>
       /\ gwReq[q].session \in GwSessions \ gwReq[q].gone
       /\ GwOwned(q, gwReq[q].session)
  /\ gwReq[q].at = "tools" => gwReq[q].calls # <<>>
  /\ \A i \in DOMAIN gwRan[q] : gwRan[q][i].session = gwReq[q].session
  /\ GwLists(gwReq[q].captured, gwRan[q])

\* A conversation is bound to a session that one of its requests made or named.
GwBoundInv ==
  \A c \in GwConvs : gwBound[c] # "none" =>
    \E p \in GwReqs : gwReq[p].conv = c /\ (gwMadeFor[gwBound[c]] = p \/ gwReq[p].named = gwBound[c])

\* A mission is what a request that is through with its tools captured.
GwMissionInv ==
  \A m \in gwMissions : \E q \in GwReqs :
    /\ gwReq[q].conv = m.conv /\ gwReq[q].at \in {"record", "done"}
    /\ gwReq[q].session = m.session /\ gwReq[q].captured = m.steps

GwIInv ==
  /\ GwTypes /\ (\A q \in GwReqs : GwReqOK(q)) /\ GwBoundInv /\ GwMissionInv
  /\ \A s \in GwSessions : gwStatus[s] = "absent" => gwMadeFor[s] = "none"

\* How many calls fit in the first rounds, and how many a request has behind it.
GwRoom(n) == n * GwMaxCalls
GwBefore == {"new", "look", "unbind", "create", "bind", "ask"}

GwFit(r) ==
  /\ r.round <= GwMaxLoops /\ Len(r.calls) <= GwMaxCalls
  /\ Len(r.captured) <= GwRoom(GwMaxLoops)
  /\ r.at \in GwBefore => r.round < GwMaxLoops /\ Len(r.captured) <= GwRoom(r.round)
  /\ r.at = "tools" => r.round < GwMaxLoops /\ Len(r.captured) + Len(r.calls) <= GwRoom(r.round + 1)

\* Rounds, calls and failures have their bounds, and a run is recorded of a mission.
GwSized ==
  /\ \A q \in GwReqs : GwFit(gwReq[q])
  /\ \A q \in GwReqs : gwReq[q].at = "record" => GwSlug(q) \in gwMissions
  /\ gwMissions \subseteq GwMission /\ gwRecorded \subseteq gwMissions \X GwSessions
  /\ gwFails \in 0..GwMaxFails

\* Nothing lists nothing; a call that was answered is the next step, one that
\* was not is none.
LEMMA GwListsNothing == GwLists(<<>>, <<>>)
<1>1. Len(<<>>) = 0 /\ 1..0 = {}
  OBVIOUS
<1>2. [i \in {} |-> 0] \in [{} -> {}]
  OBVIOUS
<1> QED
  BY <1>1, <1>2, Zenon DEF GwLists

LEMMA GwListsAnswered ==
  ASSUME NEW steps \in Seq(GwTools), NEW ran \in Seq(GwRun), GwLists(steps, ran),
         NEW run \in GwRun, run.answered
  PROVE  GwLists(Append(steps, run.tool), Append(ran, run))
<1> DEFINE n == Len(steps)
           k == Len(ran)
           N == Len(Append(steps, run.tool))
           K == Len(Append(ran, run))
<1>1. PICK at \in [1..n -> 1..k] :
        /\ \A i, j \in 1..n : i < j => at[i] < at[j]
        /\ \A l \in 1..k : ran[l].answered <=> \E i \in 1..n : at[i] = l
        /\ \A i \in 1..n : ran[at[i]].tool = steps[i]
  BY DEF GwLists
<1> DEFINE to == [i \in 1..N |-> IF i = N THEN K ELSE at[i]]
<1>2. n \in Nat /\ k \in Nat /\ run.tool \in GwTools
  BY DEF GwRun
<1>3. /\ N = n + 1 /\ K = k + 1
      /\ \A i \in 1..n : Append(steps, run.tool)[i] = steps[i]
      /\ Append(steps, run.tool)[N] = run.tool
      /\ \A l \in 1..k : Append(ran, run)[l] = ran[l]
      /\ Append(ran, run)[K] = run
  BY <1>2
<1> HIDE DEF n, k, N, K
<1>4. /\ to \in [1..N -> 1..K] /\ to[N] = K
      /\ \A i \in 1..n : to[i] = at[i] /\ to[i] \in 1..k
  <2>1. N \in 1..N /\ K \in 1..K /\ 1..k \subseteq 1..K
    BY <1>2, <1>3
  <2>2. \A i \in 1..n : i \in 1..N /\ i # N /\ at[i] \in 1..k
    BY <1>1, <1>2, <1>3
  <2>3. \A i \in 1..N : i = N \/ i \in 1..n
    BY <1>2, <1>3
  <2>4. \A i \in 1..N : (IF i = N THEN K ELSE at[i]) \in 1..K
    BY <2>1, <2>2, <2>3
  <2> QED
    BY <2>1, <2>2, <2>4
<1> HIDE DEF to
<1>5. ASSUME NEW i \in 1..N, NEW j \in 1..N, i < j PROVE to[i] < to[j]
  <2>1. i \in 1..n /\ (j = N \/ j \in 1..n)
    BY <1>2, <1>3, <1>5
  <2>2. CASE j = N
    <3>1. to[i] \in 1..k /\ to[j] = K
      BY <1>4, <2>1, <2>2
    <3> QED
      BY <1>2, <1>3, <3>1
  <2>3. CASE j \in 1..n
    BY <1>1, <1>4, <1>5, <2>1, <2>3
  <2> QED
    BY <2>1, <2>2, <2>3
<1>6. ASSUME NEW l \in 1..K
      PROVE  Append(ran, run)[l].answered <=> \E i \in 1..N : to[i] = l
  <2>1. CASE l = K
    <3>1. N \in 1..N /\ to[N] = l
      BY <1>2, <1>3, <1>4, <2>1
    <3>2. Append(ran, run)[l].answered
      BY <1>3, <2>1
    <3> QED
      BY <3>1, <3>2
  <2>2. CASE l \in 1..k
    <3>1. (\E i \in 1..N : to[i] = l) <=> \E i \in 1..n : at[i] = l
      BY <1>2, <1>3, <1>4, <2>2
    <3>2. Append(ran, run)[l] = ran[l]
      BY <1>3, <2>2
    <3> QED
      BY <1>1, <2>2, <3>1, <3>2
  <2>3. l = K \/ l \in 1..k
    BY <1>2, <1>3
  <2> QED
    BY <2>1, <2>2, <2>3
<1>7. ASSUME NEW i \in 1..N
      PROVE  Append(ran, run)[to[i]].tool = Append(steps, run.tool)[i]
  <2>1. CASE i = N
    BY <1>3, <1>4, <2>1
  <2>2. CASE i \in 1..n
    <3>1. to[i] = at[i] /\ at[i] \in 1..k /\ ran[at[i]].tool = steps[i]
      BY <1>1, <1>4, <2>2
    <3> QED
      BY <1>3, <2>2, <3>1
  <2>3. i = N \/ i \in 1..n
    BY <1>2, <1>3
  <2> QED
    BY <2>1, <2>2, <2>3
<1>8. \E f \in [1..N -> 1..K] :
        /\ \A i, j \in 1..N : i < j => f[i] < f[j]
        /\ \A l \in 1..K : Append(ran, run)[l].answered <=> \E i \in 1..N : f[i] = l
        /\ \A i \in 1..N : Append(ran, run)[f[i]].tool = Append(steps, run.tool)[i]
  BY <1>4, <1>5, <1>6, <1>7, Zenon
<1> QED
  BY <1>8, Zenon DEF GwLists, N, K

LEMMA GwListsUnanswered ==
  ASSUME NEW steps \in Seq(GwTools), NEW ran \in Seq(GwRun), GwLists(steps, ran),
         NEW run \in GwRun, ~run.answered
  PROVE  GwLists(steps, Append(ran, run))
<1> DEFINE n == Len(steps)
           k == Len(ran)
           K == Len(Append(ran, run))
<1>1. PICK at \in [1..n -> 1..k] :
        /\ \A i, j \in 1..n : i < j => at[i] < at[j]
        /\ \A l \in 1..k : ran[l].answered <=> \E i \in 1..n : at[i] = l
        /\ \A i \in 1..n : ran[at[i]].tool = steps[i]
  BY DEF GwLists
<1>2. n \in Nat /\ k \in Nat
  OBVIOUS
<1>3. /\ K = k + 1 /\ Append(ran, run)[K] = run
      /\ \A l \in 1..k : Append(ran, run)[l] = ran[l]
  BY <1>2
<1> HIDE DEF n, k, K
<1>4. at \in [1..n -> 1..K] /\ \A i \in 1..n : at[i] \in 1..k
  <2>1. 1..k \subseteq 1..K
    BY <1>2, <1>3
  <2>2. \A i \in 1..n : at[i] \in 1..k
    BY <1>1
  <2> QED
    BY <1>1, <2>1, <2>2
<1>5. ASSUME NEW l \in 1..K
      PROVE  Append(ran, run)[l].answered <=> \E i \in 1..n : at[i] = l
  <2>1. CASE l = K
    <3>1. ~\E i \in 1..n : at[i] = l
      BY <1>2, <1>3, <1>4, <2>1
    <3>2. ~Append(ran, run)[l].answered
      BY <1>3, <2>1
    <3> QED
      BY <3>1, <3>2
  <2>2. CASE l \in 1..k
    <3>1. Append(ran, run)[l] = ran[l]
      BY <1>3, <2>2
    <3> QED
      BY <1>1, <2>2, <3>1
  <2>3. l = K \/ l \in 1..k
    BY <1>2, <1>3
  <2> QED
    BY <2>1, <2>2, <2>3
<1>6. \A i \in 1..n : Append(ran, run)[at[i]].tool = steps[i]
  BY <1>1, <1>3, <1>4
<1>7. \E f \in [1..n -> 1..K] :
        /\ \A i, j \in 1..n : i < j => f[i] < f[j]
        /\ \A l \in 1..K : Append(ran, run)[l].answered <=> \E i \in 1..n : f[i] = l
        /\ \A i \in 1..n : Append(ran, run)[f[i]].tool = steps[i]
  BY <1>1, <1>4, <1>5, <1>6, Zenon
<1> QED
  BY <1>7, Zenon DEF GwLists, n, K

LEMMA GwInitIInv == GwInit => GwIInv
<1> SUFFICES ASSUME GwInit PROVE GwIInv
  OBVIOUS
<1>1. <<>> \in Seq(GwTools \cup {"foreign"}) /\ <<>> \in Seq(GwTools) /\ <<>> \in Seq(GwRun)
      /\ 0 \in Nat /\ {} \in SUBSET GwSessions /\ "new" \in GwPlaces
  BY DEF GwPlaces
<1>2. GwNew \in GwReqType
  BY <1>1 DEF GwNew, GwReqType
<1>3. GwTypes
  BY <1>1, <1>2 DEF GwInit, GwTypes
<1>4. ASSUME NEW q \in GwReqs PROVE GwReqOK(q)
  <2>1. gwReq[q] = GwNew /\ gwRan[q] = <<>> /\ DOMAIN gwRan[q] = {}
    BY DEF GwInit
  <2>2. /\ GwNew.at = "new" /\ GwNew.gone = {} /\ GwNew.captured = <<>>
    BY DEF GwNew
  <2> QED
    BY <2>1, <2>2, GwListsNothing DEF GwReqOK
<1> QED
  BY <1>3, <1>4 DEF GwInit, GwIInv, GwBoundInv, GwMissionInv

\* What no step changes of a request that is in, nor of a session that was made.
GwFrame ==
  /\ \A p \in GwReqs : gwReq[p].at # "new" =>
       /\ gwReq'[p].at # "new" /\ gwReq'[p].conv = gwReq[p].conv /\ gwReq'[p].named = gwReq[p].named
       /\ gwReq'[p].gone = gwReq[p].gone
  /\ \A p \in GwReqs : gwReq[p].at \in {"record", "done"} =>
       /\ gwReq'[p].at \in {"record", "done"}
       /\ gwReq'[p].session = gwReq[p].session /\ gwReq'[p].captured = gwReq[p].captured
  /\ \A s \in GwSessions : gwMadeFor[s] # "none" => gwMadeFor'[s] = gwMadeFor[s]
  /\ \A s \in GwSessions : gwStatus[s] = "stopped" => gwStatus'[s] = "stopped"

LEMMA GwNewIsBlank ==
  ASSUME GwIInv, NEW q \in GwReqs, gwReq[q].at = "new"
  PROVE  gwReq[q] = GwNew /\ gwReq[q].conv = "none" /\ gwReq[q].named = "none" /\ gwReq[q].gone = {}
<1>1. gwReq[q] = GwNew
  BY DEF GwIInv, GwReqOK
<1> QED
  BY <1>1 DEF GwNew

\* Whose a session is stays so.
LEMMA GwOwnedStays ==
  ASSUME GwIInv, GwFrame, NEW q \in GwReqs, gwReq[q].at # "new", NEW s \in GwSessions, GwOwned(q, s)
  PROVE  GwOwned(q, s)'
<1>1. PICK p \in GwReqs :
        /\ p = q \/ (gwReq[p].conv = gwReq[q].conv /\ gwReq[q].conv # "none")
        /\ gwMadeFor[s] = p \/ gwReq[p].named = s
  BY DEF GwOwned
<1>2. gwReq[p].at # "new"
  BY <1>1, GwNewIsBlank
<1>3. gwMadeFor[s] = p => gwMadeFor'[s] = p
  BY GatewayAssumption DEF GwFrame
<1>4. /\ gwReq'[p].conv = gwReq[p].conv /\ gwReq'[q].conv = gwReq[q].conv
      /\ gwReq'[p].named = gwReq[p].named
  BY <1>2 DEF GwFrame
<1> QED
  BY <1>1, <1>3, <1>4 DEF GwOwned

\* A request that does not move stays right.
LEMMA GwOtherStays ==
  ASSUME GwIInv, GwFrame, NEW q \in GwReqs, gwReq'[q] = gwReq[q], gwRan'[q] = gwRan[q]
  PROVE  GwReqOK(q)'
<1>1. GwReqOK(q) /\ gwReq[q] \in GwReqType
  BY DEF GwIInv, GwTypes
<1>2. gwReq[q].session \in GwSessions \cup {"none"} /\ gwReq[q].gone \subseteq GwSessions
  BY <1>1 DEF GwReqType
<1>3. gwReq[q].at # "new" /\ gwReq[q].session \in GwSessions /\ GwOwned(q, gwReq[q].session)
        => GwOwned(q, gwReq[q].session)'
  BY GwOwnedStays
<1>4. \A s \in gwReq[q].gone : gwStatus'[s] = "stopped"
  BY <1>1, <1>2 DEF GwReqOK, GwFrame
<1>5. gwReq[q].at = "new" => gwRan[q] = <<>>
  BY <1>1 DEF GwReqOK
<1> QED
  BY <1>1, <1>3, <1>4, <1>5 DEF GwReqOK

\* One request moves; its conversation may be bound to its session.
LEMMA GwStep ==
  ASSUME GwIInv, GwFrame, GwTypes', NEW q \in GwReqs, GwReqOK(q)',
         \A p \in GwReqs \ {q} : gwReq'[p] = gwReq[p] /\ gwRan'[p] = gwRan[p],
         \A c \in GwConvs :
           \/ gwBound'[c] \in {gwBound[c], "none"}
           \/ /\ gwReq[q].at # "new" /\ gwReq[q].conv = c
              /\ gwBound'[c] \in GwSessions /\ GwOwned(q, gwBound'[c]),
         \A m \in gwMissions' \ gwMissions :
           /\ gwReq'[q].conv = m.conv /\ gwReq'[q].at \in {"record", "done"}
           /\ gwReq'[q].session = m.session /\ gwReq'[q].captured = m.steps,
         \A s \in GwSessions : gwStatus'[s] = "absent" => gwStatus[s] = "absent" /\ gwMadeFor'[s] = gwMadeFor[s]
  PROVE  GwIInv'
<1>1. \A p \in GwReqs : GwReqOK(p)'
  BY GwOtherStays
<1>2. GwBoundInv'
  <2> SUFFICES ASSUME NEW c \in GwConvs, gwBound'[c] # "none"
               PROVE  \E p \in GwReqs :
                        gwReq'[p].conv = c /\ (gwMadeFor'[gwBound'[c]] = p \/ gwReq'[p].named = gwBound'[c])
    BY DEF GwBoundInv
  <2>1. gwBound'[c] \in GwSessions /\ c # "none"
    BY GatewayAssumption DEF GwTypes
  <2>2. \E p \in GwReqs :
          gwReq[p].conv = c /\ (gwMadeFor[gwBound'[c]] = p \/ gwReq[p].named = gwBound'[c])
    <3>1. CASE gwBound'[c] = gwBound[c]
      BY <3>1 DEF GwIInv, GwBoundInv
    <3>2. CASE /\ gwReq[q].conv = c
               /\ gwBound'[c] \in GwSessions /\ GwOwned(q, gwBound'[c])
      BY <3>2 DEF GwOwned
    <3> QED
      BY <3>1, <3>2
  <2>3. PICK p \in GwReqs :
          gwReq[p].conv = c /\ (gwMadeFor[gwBound'[c]] = p \/ gwReq[p].named = gwBound'[c])
    BY <2>2
  <2>4. gwReq[p].at # "new"
    BY <2>1, <2>3, GwNewIsBlank
  <2>5. gwMadeFor[gwBound'[c]] = p => gwMadeFor'[gwBound'[c]] = p
    BY <2>1, GatewayAssumption DEF GwFrame
  <2> QED
    BY <2>3, <2>4, <2>5 DEF GwFrame
<1>3. GwMissionInv'
  <2> SUFFICES ASSUME NEW m \in gwMissions'
               PROVE  \E p \in GwReqs :
                        /\ gwReq'[p].conv = m.conv /\ gwReq'[p].at \in {"record", "done"}
                        /\ gwReq'[p].session = m.session /\ gwReq'[p].captured = m.steps
    BY DEF GwMissionInv
  <2>1. CASE m \in gwMissions
    <3>1. PICK p \in GwReqs :
            /\ gwReq[p].conv = m.conv /\ gwReq[p].at \in {"record", "done"}
            /\ gwReq[p].session = m.session /\ gwReq[p].captured = m.steps
      BY <2>1 DEF GwIInv, GwMissionInv
    <3> QED
      BY <3>1 DEF GwFrame
  <2> QED
    BY <2>1
<1>4. \A s \in GwSessions : gwStatus'[s] = "absent" => gwMadeFor'[s] = "none"
  BY DEF GwIInv
<1> QED
  BY <1>1, <1>2, <1>3, <1>4 DEF GwIInv

\* A request that only goes from one place to another.
GwMoves(q, r) ==
  /\ r \in GwReqType /\ gwReq' = [gwReq EXCEPT ![q] = r]
  /\ gwReq[q].at # "new" /\ r.at # "new"
  /\ gwReq[q].at \in {"record", "done"} =>
       r.at \in {"record", "done"} /\ r.session = gwReq[q].session /\ r.captured = gwReq[q].captured
  /\ r.conv = gwReq[q].conv /\ r.named = gwReq[q].named /\ r.gone = gwReq[q].gone

LEMMA GwMoveFrame ==
  ASSUME GwIInv, NEW q \in GwReqs, NEW r, GwMoves(q, r),
         \A s \in GwSessions : gwMadeFor[s] # "none" => gwMadeFor'[s] = gwMadeFor[s],
         \A s \in GwSessions : gwStatus[s] = "stopped" => gwStatus'[s] = "stopped"
  PROVE  /\ GwFrame /\ gwReq' \in [GwReqs -> GwReqType] /\ gwReq'[q] = r
         /\ \A p \in GwReqs \ {q} : gwReq'[p] = gwReq[p]
<1>1. gwReq' \in [GwReqs -> GwReqType] /\ gwReq'[q] = r
      /\ \A p \in GwReqs \ {q} : gwReq'[p] = gwReq[p]
  BY DEF GwMoves, GwIInv, GwTypes
<1> QED
  BY <1>1 DEF GwMoves, GwFrame

\* It moves while sessions, runs and missions stay as they are.
LEMMA GwMoveStep ==
  ASSUME GwIInv, NEW q \in GwReqs, NEW r, GwMoves(q, r),
         gwBound' \in [GwConvs -> GwSessions \cup {"none"}],
         \A c \in GwConvs :
           \/ gwBound'[c] \in {gwBound[c], "none"}
           \/ gwReq[q].conv = c /\ gwBound'[c] \in GwSessions /\ GwOwned(q, gwBound'[c]),
         UNCHANGED <<gwStatus, gwMadeFor, gwRan>>,
         \A m \in gwMissions' \ gwMissions :
           r.conv = m.conv /\ r.at \in {"record", "done"} /\ r.session = m.session /\ r.captured = m.steps,
         r.at \in {"look", "unbind", "create", "bind"} => gwRan[q] = <<>>,
         r.at = "look" => r.session = gwReq[q].session /\ gwReq[q].at = "look",
         r.at \in {"bind", "ask", "tools", "mission", "record"} \/ gwRan[q] # <<>> =>
           /\ r.session \in GwSessions \ gwReq[q].gone /\ GwOwned(q, r.session)
           /\ r.session = gwReq[q].session \/ gwRan[q] = <<>>,
         r.at = "tools" => r.calls # <<>>,
         r.captured = gwReq[q].captured
  PROVE  GwIInv'
<1>1. /\ GwFrame /\ gwReq' \in [GwReqs -> GwReqType] /\ gwReq'[q] = r
      /\ \A p \in GwReqs \ {q} : gwReq'[p] = gwReq[p]
  BY GwMoveFrame
<1>2. GwTypes'
  BY <1>1 DEF GwIInv, GwTypes
<1>3. r.at # "new" /\ gwReq[q].at # "new" /\ r.gone = gwReq[q].gone
  BY DEF GwMoves
<1>4. GwReqOK(q)
  BY DEF GwIInv
<1>5. \A s \in GwSessions : GwOwned(q, s) => GwOwned(q, s)'
  BY <1>1, <1>3, GwOwnedStays
<1>6. GwReqOK(q)'
  <2>1. \A s \in r.gone : gwStatus'[s] = "stopped"
    BY <1>3, <1>4 DEF GwReqOK
  <2>2. r.at = "look" => r.session \in GwSessions /\ GwOwned(q, r.session)'
    BY <1>4, <1>5 DEF GwReqOK
  <2>3. r.at \in {"bind", "ask", "tools", "mission", "record"} \/ gwRan[q] # <<>> =>
          r.session \in GwSessions \ r.gone /\ GwOwned(q, r.session)'
    BY <1>3, <1>5
  <2>4. \A i \in DOMAIN gwRan[q] : gwRan[q][i].session = r.session
    <3>1. CASE gwRan[q] = <<>>
      <4>1. DOMAIN gwRan[q] = {}
        BY <3>1
      <4> QED
        BY <4>1
    <3>2. CASE gwRan[q] # <<>>
      BY <1>4, <3>2 DEF GwReqOK
    <3> QED
      BY <3>1, <3>2
  <2>5. GwLists(r.captured, gwRan[q])
    BY <1>4 DEF GwReqOK
  <2> QED
    BY <1>1, <1>3, <2>1, <2>2, <2>3, <2>4, <2>5 DEF GwReqOK
<1>7. \A s \in GwSessions : gwStatus'[s] = "absent" => gwStatus[s] = "absent" /\ gwMadeFor'[s] = gwMadeFor[s]
  OBVIOUS
<1>8. \A p \in GwReqs \ {q} : gwReq'[p] = gwReq[p] /\ gwRan'[p] = gwRan[p]
  BY <1>1
<1>9. \A m \in gwMissions' \ gwMissions :
        /\ gwReq'[q].conv = m.conv /\ gwReq'[q].at \in {"record", "done"}
        /\ gwReq'[q].session = m.session /\ gwReq'[q].captured = m.steps
  BY <1>1
<1> QED
  BY <1>1, <1>2, <1>3, <1>6, <1>7, <1>8, <1>9, GwStep

\* Going to a place changes nothing else of the request.
LEMMA GwGoesTo ==
  ASSUME GwIInv, NEW q \in GwReqs, NEW place \in GwPlaces \ {"new"}, GwGoes(q, place),
         gwReq[q].at # "new", gwReq[q].at \in {"record", "done"} => place \in {"record", "done"}
  PROVE  \E r : /\ GwMoves(q, r) /\ r.at = place /\ r.session = gwReq[q].session
                /\ r.calls = gwReq[q].calls /\ r.captured = gwReq[q].captured
<1> DEFINE r == [gwReq[q] EXCEPT !.at = place]
<1>1. gwReq[q] \in GwReqType
  BY DEF GwIInv, GwTypes
<1>2. r \in GwReqType
  BY <1>1 DEF GwReqType
<1>3. gwReq' = [gwReq EXCEPT ![q] = r]
  BY DEF GwGoes
<1>4. /\ r.at = place /\ r.session = gwReq[q].session /\ r.calls = gwReq[q].calls
      /\ r.captured = gwReq[q].captured /\ r.conv = gwReq[q].conv /\ r.named = gwReq[q].named
      /\ r.gone = gwReq[q].gone
  BY <1>1 DEF GwReqType
<1>5. GwMoves(q, r)
  BY <1>2, <1>3, <1>4 DEF GwMoves
<1> QED
  BY <1>4, <1>5

\* Where a request goes that keeps its session, and nothing else changes.
LEMMA GwGoesStep ==
  ASSUME GwIInv, NEW q \in GwReqs, NEW place \in GwPlaces \ {"new", "look", "tools"}, GwGoes(q, place),
         gwReq[q].at # "new", gwReq[q].at \in {"record", "done"} => place \in {"record", "done"},
         gwBound' \in [GwConvs -> GwSessions \cup {"none"}],
         \A c \in GwConvs :
           \/ gwBound'[c] \in {gwBound[c], "none"}
           \/ gwReq[q].conv = c /\ gwBound'[c] \in GwSessions /\ GwOwned(q, gwBound'[c]),
         UNCHANGED <<gwStatus, gwMadeFor, gwRan>>,
         gwMissions' # gwMissions => place \in {"record", "done"} /\ gwMissions' = gwMissions \cup {GwSlug(q)},
         place \in {"unbind", "create"} => gwReq[q].at \in {"look", "unbind"},
         place = "bind" => gwReq[q].at = "look",
         place \in {"bind", "ask", "mission", "record"} =>
           \/ gwReq[q].at \in {"bind", "ask", "tools", "mission", "record"}
           \/ gwReq[q].session \notin gwReq[q].gone /\ gwReq[q].at = "look"
  PROVE  GwIInv'
<1>1. PICK r : /\ GwMoves(q, r) /\ r.at = place /\ r.session = gwReq[q].session
               /\ r.calls = gwReq[q].calls /\ r.captured = gwReq[q].captured
  BY GwGoesTo
<1>2. GwReqOK(q)
  BY DEF GwIInv
<1>3. ASSUME NEW m \in gwMissions' \ gwMissions
      PROVE  r.conv = m.conv /\ r.at \in {"record", "done"} /\ r.session = m.session /\ r.captured = m.steps
  <2>1. m = GwSlug(q) /\ place \in {"record", "done"}
    OBVIOUS
  <2> QED
    BY <1>1, <2>1 DEF GwSlug, GwMoves
<1>4. r.at \in {"look", "unbind", "create", "bind"} => gwRan[q] = <<>>
  BY <1>1, <1>2 DEF GwReqOK
<1>5. r.at \in {"bind", "ask", "tools", "mission", "record"} \/ gwRan[q] # <<>> =>
        /\ r.session \in GwSessions \ gwReq[q].gone /\ GwOwned(q, r.session)
        /\ r.session = gwReq[q].session \/ gwRan[q] = <<>>
  BY <1>1, <1>2 DEF GwReqOK
<1> QED
  BY <1>1, <1>3, <1>4, <1>5, GwMoveStep

LEMMA GwLookIInv ==
  ASSUME GwIInv, NEW q \in GwReqs, GwLook(q)
  PROVE  GwIInv'
<1> DEFINE r == gwReq[q]
<1>1. /\ r.at = "look" /\ UNCHANGED <<gwBound, gwStatus, gwMadeFor, gwRan, gwMissions>>
  BY DEF GwLook, GwAt, GwApi
<1>2. /\ gwBound' \in [GwConvs -> GwSessions \cup {"none"}]
      /\ \A c \in GwConvs : gwBound'[c] \in {gwBound[c], "none"}
  BY <1>1 DEF GwIInv, GwTypes
<1>3. CASE GwUsable(r.session) /\ GwGoes(q, IF r.named = "none" THEN "ask" ELSE "bind")
  <2>1. r.session \notin r.gone
    BY <1>3 DEF GwIInv, GwReqOK, GwUsable
  <2>2. CASE GwGoes(q, "ask")
    BY <1>1, <1>2, <2>1, <2>2, GwGoesStep DEF GwPlaces
  <2>3. CASE GwGoes(q, "bind")
    BY <1>1, <1>2, <2>1, <2>3, GwGoesStep DEF GwPlaces
  <2> QED
    BY <1>3, <2>2, <2>3
<1>4. CASE GwGoes(q, IF r.named = "none" THEN "unbind" ELSE "done")
  <2>1. CASE GwGoes(q, "unbind")
    BY <1>1, <1>2, <2>1, GwGoesStep DEF GwPlaces
  <2>2. CASE GwGoes(q, "done")
    BY <1>1, <1>2, <2>2, GwGoesStep DEF GwPlaces
  <2> QED
    BY <1>4, <2>1, <2>2
<1> QED
  BY <1>3, <1>4 DEF GwLook

LEMMA GwUnbindIInv ==
  ASSUME GwIInv, NEW q \in GwReqs, GwUnbind(q)
  PROVE  GwIInv'
<1>1. /\ gwReq[q].at = "unbind" /\ GwGoes(q, "create")
      /\ UNCHANGED <<gwStatus, gwMadeFor, gwRan, gwMissions>>
  BY DEF GwUnbind, GwAt, GwApi
<1>2. /\ gwBound' \in [GwConvs -> GwSessions \cup {"none"}]
      /\ \A c \in GwConvs : gwBound'[c] \in {gwBound[c], "none"}
  BY DEF GwUnbind, GwIInv, GwTypes
<1> QED
  BY <1>1, <1>2, GwGoesStep DEF GwPlaces

LEMMA GwBindIInv ==
  ASSUME GwIInv, NEW q \in GwReqs, GwBind(q)
  PROVE  GwIInv'
<1>1. /\ gwReq[q].at = "bind" /\ GwGoes(q, "ask")
      /\ UNCHANGED <<gwStatus, gwMadeFor, gwRan, gwMissions>>
  BY DEF GwBind, GwAt, GwApi
<1>2. gwReq[q].session \in GwSessions /\ GwOwned(q, gwReq[q].session)
  BY <1>1 DEF GwIInv, GwReqOK
<1>3. /\ gwBound' \in [GwConvs -> GwSessions \cup {"none"}]
      /\ \A c \in GwConvs :
           \/ gwBound'[c] \in {gwBound[c], "none"}
           \/ gwReq[q].conv = c /\ gwBound'[c] \in GwSessions /\ GwOwned(q, gwBound'[c])
  BY <1>2 DEF GwBind, GwIInv, GwTypes
<1> QED
  BY <1>1, <1>3, GwGoesStep DEF GwPlaces

LEMMA GwCreateMissionIInv ==
  ASSUME GwIInv, NEW q \in GwReqs, GwCreateMission(q)
  PROVE  GwIInv'
<1>1. /\ gwReq[q].at = "mission" /\ UNCHANGED <<gwBound, gwStatus, gwMadeFor, gwRan>>
      /\ gwMissions' # gwMissions => gwMissions' = gwMissions \cup {GwSlug(q)}
  BY DEF GwCreateMission, GwAt
<1>2. /\ gwBound' \in [GwConvs -> GwSessions \cup {"none"}]
      /\ \A c \in GwConvs : gwBound'[c] \in {gwBound[c], "none"}
  BY <1>1 DEF GwIInv, GwTypes
<1>3. CASE GwGoes(q, "record")
  BY <1>1, <1>2, <1>3, GwGoesStep DEF GwPlaces
<1>4. CASE GwGoes(q, "done")
  BY <1>1, <1>2, <1>4, GwGoesStep DEF GwPlaces
<1> QED
  BY <1>3, <1>4 DEF GwCreateMission

LEMMA GwRecordRunIInv ==
  ASSUME GwIInv, NEW q \in GwReqs, GwRecordRun(q)
  PROVE  GwIInv'
<1>1. /\ gwReq[q].at = "record" /\ GwGoes(q, "done")
      /\ UNCHANGED <<gwBound, gwStatus, gwMadeFor, gwRan, gwMissions>>
  BY DEF GwRecordRun, GwAt
<1>2. /\ gwBound' \in [GwConvs -> GwSessions \cup {"none"}]
      /\ \A c \in GwConvs : gwBound'[c] \in {gwBound[c], "none"}
  BY <1>1 DEF GwIInv, GwTypes
<1> QED
  BY <1>1, <1>2, GwGoesStep DEF GwPlaces

LEMMA GwCallsAreSequences == GwCalls \subseteq Seq(GwTools \cup {"foreign"})
<1> SUFFICES ASSUME NEW n \in 0..GwMaxCalls, NEW calls \in [1..n -> GwTools \cup {"foreign"}]
             PROVE  calls \in Seq(GwTools \cup {"foreign"})
  BY DEF GwCalls
<1>1. n \in Nat
  BY GatewayAssumption
<1> QED
  BY <1>1

LEMMA GwAskIInv ==
  ASSUME GwIInv, NEW q \in GwReqs, GwAsk(q)
  PROVE  GwIInv'
<1>1. /\ gwReq[q].at = "ask" /\ UNCHANGED <<gwBound, gwStatus, gwMadeFor, gwRan, gwMissions>>
  BY DEF GwAsk, GwAt, GwApi
<1>2. /\ gwBound' \in [GwConvs -> GwSessions \cup {"none"}]
      /\ \A c \in GwConvs : gwBound'[c] \in {gwBound[c], "none"}
  BY <1>1 DEF GwIInv, GwTypes
<1>3. ASSUME NEW calls \in GwCalls \ {<<>>}, gwReq' = [gwReq EXCEPT ![q].at = "tools", ![q].calls = calls]
      PROVE  GwIInv'
  <2> DEFINE r == [gwReq[q] EXCEPT !.at = "tools", !.calls = calls]
  <2>1. gwReq[q] \in GwReqType /\ GwReqOK(q)
    BY DEF GwIInv, GwTypes
  <2>2. calls \in Seq(GwTools \cup {"foreign"}) /\ calls # <<>>
    BY GwCallsAreSequences
  <2>3. r \in GwReqType
    BY <2>1, <2>2 DEF GwReqType, GwPlaces
  <2>4. /\ r.at = "tools" /\ r.session = gwReq[q].session /\ r.calls = calls
        /\ r.captured = gwReq[q].captured /\ r.conv = gwReq[q].conv /\ r.named = gwReq[q].named
        /\ r.gone = gwReq[q].gone
    BY <2>1 DEF GwReqType
  <2>5. gwReq' = [gwReq EXCEPT ![q] = r]
    BY <1>3 DEF GwIInv, GwTypes
  <2> HIDE DEF r
  <2>6. GwMoves(q, r)
    BY <1>1, <2>3, <2>4, <2>5 DEF GwMoves
  <2>7. gwReq[q].session \in GwSessions \ gwReq[q].gone /\ GwOwned(q, gwReq[q].session)
    BY <1>1, <2>1 DEF GwReqOK
  <2> QED
    BY <1>1, <1>2, <2>2, <2>4, <2>6, <2>7, GwMoveStep
<1>4. CASE GwGoes(q, IF gwReq[q].captured = <<>> THEN "done" ELSE "mission")
  <2>1. CASE GwGoes(q, "mission")
    BY <1>1, <1>2, <2>1, GwGoesStep DEF GwPlaces
  <2>2. CASE GwGoes(q, "done")
    BY <1>1, <1>2, <2>2, GwGoesStep DEF GwPlaces
  <2> QED
    BY <1>4, <2>1, <2>2
<1>5. CASE GwGoes(q, "done")
  BY <1>1, <1>2, <1>5, GwGoesStep DEF GwPlaces
<1> QED
  BY <1>3, <1>4, <1>5 DEF GwAsk

GwArrived(place, c, n, s, gone) ==
  [GwNew EXCEPT !.at = place, !.conv = c, !.named = n, !.session = s, !.gone = gone]

LEMMA GwArriveIInv ==
  ASSUME GwIInv, NEW q \in GwReqs, GwArrive(q)
  PROVE  GwIInv'
<1>1. PICK c \in GwConvs \cup {"none"}, n \in {s \in GwSessions : gwStatus[s] # "absent"} \cup {"none"} :
        LET bound == IF c = "none" THEN "none" ELSE gwBound[c] IN
          /\ GwAt(q, "new")
          /\ gwReq' = [gwReq EXCEPT ![q] =
               [GwNew EXCEPT !.at = IF n = "none" /\ bound = "none" THEN "create" ELSE "look",
                  !.conv = c, !.named = n, !.session = IF n # "none" THEN n ELSE bound,
                  !.gone = {s \in GwSessions : gwStatus[s] = "stopped"}]]
          /\ UNCHANGED <<gwBound, GwApi, gwFails>>
  BY DEF GwArrive
<1>2. gwReq[q].at = "new" /\ UNCHANGED <<gwBound, gwStatus, gwMadeFor, gwRan, gwMissions>>
  BY <1>1 DEF GwAt, GwApi
<1>3. n \in GwSessions \cup {"none"} /\ c \in GwConvs \cup {"none"}
      /\ (IF c = "none" THEN "none" ELSE gwBound[c]) \in GwSessions \cup {"none"}
  BY DEF GwIInv, GwTypes
<1>4. \E place \in GwPlaces, session \in GwSessions \cup {"none"}, gone \in SUBSET GwSessions :
        /\ gwReq' = [gwReq EXCEPT ![q] = GwArrived(place, c, n, session, gone)]
        /\ place \in {"create", "look"}
        /\ place = "look" =>
             /\ session \in GwSessions
             /\ n = session \/ (n = "none" /\ c \in GwConvs /\ gwBound[c] = session)
        /\ \A s \in gone : gwStatus[s] = "stopped"
  <2> DEFINE bound == IF c = "none" THEN "none" ELSE gwBound[c]
             session == IF n # "none" THEN n ELSE bound
             place == IF n = "none" /\ bound = "none" THEN "create" ELSE "look"
             gone == {s \in GwSessions : gwStatus[s] = "stopped"}
  <2>1. gwReq' = [gwReq EXCEPT ![q] = GwArrived(place, c, n, session, gone)]
    BY <1>1 DEF GwArrived
  <2>2. /\ session \in GwSessions \cup {"none"} /\ place \in {"create", "look"}
        /\ gone \in SUBSET GwSessions /\ \A s \in gone : gwStatus[s] = "stopped"
        /\ place = "look" =>
             /\ session \in GwSessions
             /\ n = session \/ (n = "none" /\ c \in GwConvs /\ gwBound[c] = session)
    BY <1>3
  <2> HIDE DEF session, place, gone
  <2>3. place \in GwPlaces
    BY <2>2 DEF GwPlaces
  <2> QED
    BY <2>1, <2>2, <2>3
<1>5. PICK place \in GwPlaces, session \in GwSessions \cup {"none"}, gone \in SUBSET GwSessions :
        /\ gwReq' = [gwReq EXCEPT ![q] = GwArrived(place, c, n, session, gone)]
        /\ place \in {"create", "look"}
        /\ place = "look" =>
             /\ session \in GwSessions
             /\ n = session \/ (n = "none" /\ c \in GwConvs /\ gwBound[c] = session)
        /\ \A s \in gone : gwStatus[s] = "stopped"
  BY <1>4
<1>6. PICK req :
        /\ req = GwArrived(place, c, n, session, gone)
        /\ req \in GwReqType /\ req.at = place /\ req.conv = c /\ req.named = n
        /\ req.session = session /\ req.gone = gone /\ req.captured = <<>>
  <2>1. <<>> \in Seq(GwTools \cup {"foreign"}) /\ <<>> \in Seq(GwTools)
        /\ 0 \in Nat /\ {} \in SUBSET GwSessions /\ "new" \in GwPlaces
    BY DEF GwPlaces
  <2>2. GwNew \in GwReqType /\ GwNew.captured = <<>>
    BY <2>1 DEF GwNew, GwReqType
  <2>3. /\ GwArrived(place, c, n, session, gone) \in GwReqType
        /\ GwArrived(place, c, n, session, gone).at = place
        /\ GwArrived(place, c, n, session, gone).conv = c
        /\ GwArrived(place, c, n, session, gone).named = n
        /\ GwArrived(place, c, n, session, gone).session = session
        /\ GwArrived(place, c, n, session, gone).gone = gone
        /\ GwArrived(place, c, n, session, gone).captured = <<>>
    BY <1>3, <1>5, <2>2 DEF GwReqType, GwArrived
  <2> QED
    BY <2>3
<1>8. /\ gwReq' = [gwReq EXCEPT ![q] = req] /\ req \in GwReqType
      /\ req.at \in {"create", "look"} /\ req.conv = c /\ req.named = n /\ req.captured = <<>>
      /\ req.at = "look" =>
           /\ req.session \in GwSessions
           /\ n = req.session \/ (n = "none" /\ c \in GwConvs /\ gwBound[c] = req.session)
      /\ \A s \in req.gone : gwStatus[s] = "stopped"
  BY <1>5, <1>6
<1>9. /\ gwReq' \in [GwReqs -> GwReqType] /\ gwReq'[q] = req
      /\ \A p \in GwReqs \ {q} : gwReq'[p] = gwReq[p]
  BY <1>8 DEF GwIInv, GwTypes
<1>10. GwTypes'
  BY <1>2, <1>9 DEF GwIInv, GwTypes
<1>11. GwFrame
  BY <1>2, <1>9 DEF GwFrame
<1>12. gwRan[q] = <<>>
  BY <1>2 DEF GwIInv, GwReqOK
<1>13. req.at = "look" => GwOwned(q, req.session)'
  <2> SUFFICES ASSUME req.at = "look" PROVE GwOwned(q, req.session)'
    OBVIOUS
  <2>1. CASE n = req.session
    <3>1. gwReq'[q].named = req.session
      BY <1>8, <1>9, <2>1
    <3> QED
      BY <3>1 DEF GwOwned
  <2>2. CASE c \in GwConvs /\ gwBound[c] = req.session
    <3>1. req.session # "none" /\ c # "none"
      BY <1>8, <2>2, GatewayAssumption
    <3>2. PICK p \in GwReqs : gwReq[p].conv = c /\ (gwMadeFor[req.session] = p \/ gwReq[p].named = req.session)
      BY <2>2, <3>1 DEF GwIInv, GwBoundInv
    <3>3. p # q
      BY <1>2, <3>1, <3>2, GwNewIsBlank
    <3>4. gwReq'[p] = gwReq[p] /\ gwReq'[q].conv = c /\ gwMadeFor' = gwMadeFor
      BY <1>2, <1>8, <1>9, <3>3
    <3> QED
      BY <3>1, <3>2, <3>4 DEF GwOwned
  <2> QED
    BY <1>8, <2>1, <2>2
<1>14. GwReqOK(q)'
  <2>1. DOMAIN gwRan[q] = {} /\ gwRan' = gwRan
    BY <1>2, <1>12
  <2>2. GwLists(req.captured, gwRan[q])
    BY <1>8, <1>12, GwListsNothing
  <2>3. \A s \in req.gone : gwStatus'[s] = "stopped"
    BY <1>2, <1>8
  <2> QED
    BY <1>8, <1>9, <1>12, <1>13, <2>1, <2>2, <2>3 DEF GwReqOK
<1>15. /\ \A p \in GwReqs \ {q} : gwReq'[p] = gwReq[p] /\ gwRan'[p] = gwRan[p]
       /\ \A d \in GwConvs : gwBound'[d] \in {gwBound[d], "none"}
       /\ gwMissions' \ gwMissions = {}
       /\ \A s \in GwSessions : gwStatus'[s] = "absent" => gwStatus[s] = "absent" /\ gwMadeFor'[s] = gwMadeFor[s]
  BY <1>2, <1>9
<1> QED
  BY <1>10, <1>11, <1>14, <1>15, GwStep

LEMMA GwCreateIInv ==
  ASSUME GwIInv, NEW q \in GwReqs, GwCreate(q)
  PROVE  GwIInv'
<1>1. gwReq[q].at = "create" /\ UNCHANGED <<gwBound, gwRan, gwMissions>>
      /\ gwReq[q] \in GwReqType /\ GwReqOK(q)
  BY DEF GwCreate, GwAt, GwIInv, GwTypes
<1>2. CASE GwGoes(q, "done") /\ UNCHANGED <<gwStatus, gwMadeFor>>
  <2>1. /\ gwBound' \in [GwConvs -> GwSessions \cup {"none"}]
        /\ \A c \in GwConvs : gwBound'[c] \in {gwBound[c], "none"}
    BY <1>1 DEF GwIInv, GwTypes
  <2> QED
    BY <1>1, <1>2, <2>1, GwGoesStep DEF GwPlaces
<1>3. ASSUME NEW s \in GwSessions, gwStatus[s] = "absent",
             gwStatus' = [gwStatus EXCEPT ![s] = "running"], gwMadeFor' = [gwMadeFor EXCEPT ![s] = q],
             NEW r, GwMoves(q, r), r.captured = gwReq[q].captured,
             r.at = "done" \/ (r.at = "bind" /\ r.session = s)
      PROVE  GwIInv'
  <2>1. gwMadeFor[s] = "none"
    BY <1>3 DEF GwIInv
  <2>2. /\ gwStatus' \in [GwSessions -> {"absent", "running", "stopped"}] /\ gwStatus'[s] = "running"
        /\ gwMadeFor' \in [GwSessions -> GwReqs \cup {"none"}] /\ gwMadeFor'[s] = q
        /\ \A t \in GwSessions \ {s} : gwStatus'[t] = gwStatus[t] /\ gwMadeFor'[t] = gwMadeFor[t]
    BY <1>3 DEF GwIInv, GwTypes
  <2>3. /\ \A t \in GwSessions : gwMadeFor[t] # "none" => gwMadeFor'[t] = gwMadeFor[t]
        /\ \A t \in GwSessions : gwStatus[t] = "stopped" => gwStatus'[t] = "stopped"
        /\ \A t \in GwSessions : gwStatus'[t] = "absent" => gwStatus[t] = "absent" /\ gwMadeFor'[t] = gwMadeFor[t]
    BY <1>3, <2>1, <2>2
  <2>4. /\ GwFrame /\ gwReq' \in [GwReqs -> GwReqType] /\ gwReq'[q] = r
        /\ \A p \in GwReqs \ {q} : gwReq'[p] = gwReq[p]
    BY <1>3, <2>3, GwMoveFrame
  <2>5. GwTypes'
    BY <1>1, <2>2, <2>4 DEF GwIInv, GwTypes
  <2>6. r.gone = gwReq[q].gone /\ r.gone \subseteq GwSessions /\ s \notin r.gone
    <3>1. r.gone = gwReq[q].gone
      BY <1>3 DEF GwMoves
    <3>2. gwReq[q].gone \subseteq GwSessions
      BY <1>1 DEF GwReqType
    <3> QED
      BY <1>1, <1>3, <3>1, <3>2 DEF GwReqOK
  <2>7. \A t \in r.gone : gwStatus'[t] = "stopped"
    BY <1>1, <2>3, <2>6 DEF GwReqOK
  <2>8. GwOwned(q, s)'
    BY <2>2 DEF GwOwned
  <2>9. gwRan'[q] = <<>> /\ DOMAIN gwRan'[q] = {} /\ GwLists(r.captured, gwRan'[q])
    BY <1>1, <1>3 DEF GwReqOK
  <2>10. GwReqOK(q)'
    BY <1>3, <2>4, <2>6, <2>7, <2>8, <2>9 DEF GwReqOK
  <2>11. /\ \A p \in GwReqs \ {q} : gwReq'[p] = gwReq[p] /\ gwRan'[p] = gwRan[p]
         /\ \A d \in GwConvs : gwBound'[d] \in {gwBound[d], "none"}
         /\ gwMissions' \ gwMissions = {}
    BY <1>1, <2>4
  <2> QED
    BY <2>3, <2>4, <2>5, <2>10, <2>11, GwStep
<1>4. ASSUME NEW s \in GwSessions, gwStatus[s] = "absent",
             gwStatus' = [gwStatus EXCEPT ![s] = "running"], gwMadeFor' = [gwMadeFor EXCEPT ![s] = q],
             \/ gwReq' = [gwReq EXCEPT ![q].at = "bind", ![q].session = s]
             \/ GwGoes(q, "done")
      PROVE  GwIInv'
  <2>1. CASE GwGoes(q, "done")
    <3>1. PICK r : GwMoves(q, r) /\ r.at = "done" /\ r.captured = gwReq[q].captured
      BY <1>1, <2>1, GwGoesTo DEF GwPlaces
    <3> QED
      BY <1>3, <1>4, <3>1
  <2>2. CASE gwReq' = [gwReq EXCEPT ![q].at = "bind", ![q].session = s]
    <3> DEFINE r == [gwReq[q] EXCEPT !.at = "bind", !.session = s]
    <3>1. r \in GwReqType
      BY <1>1 DEF GwReqType, GwPlaces
    <3>2. /\ r.at = "bind" /\ r.session = s /\ r.captured = gwReq[q].captured
          /\ r.conv = gwReq[q].conv /\ r.named = gwReq[q].named /\ r.gone = gwReq[q].gone
      BY <1>1 DEF GwReqType
    <3>3. gwReq' = [gwReq EXCEPT ![q] = r]
      BY <2>2 DEF GwIInv, GwTypes
    <3> HIDE DEF r
    <3>4. GwMoves(q, r)
      BY <1>1, <3>1, <3>2, <3>3 DEF GwMoves
    <3> QED
      BY <1>3, <1>4, <3>2, <3>4
  <2> QED
    BY <1>4, <2>1, <2>2
<1> QED
  BY <1>2, <1>4 DEF GwCreate

\* After a call the round goes on, or it ended and the model is asked again, or not.
LEMMA GwCalledMoves ==
  ASSUME GwIInv, NEW q \in GwReqs, gwReq[q].at = "tools",
         NEW answered \in BOOLEAN, GwCalled(q, answered)
  PROVE  \E r :
           /\ GwMoves(q, r) /\ r.at \in {"tools", "ask", "done"} /\ r.session = gwReq[q].session
           /\ r.at = "tools" => r.calls # <<>>
           /\ r.captured = IF GwCaptures(Head(gwReq[q].calls), answered)
                           THEN Append(gwReq[q].captured, Head(gwReq[q].calls))
                           ELSE gwReq[q].captured
<1>1. /\ gwReq[q] \in GwReqType /\ gwReq[q].calls # <<>>
      /\ gwReq[q].calls \in Seq(GwTools \cup {"foreign"}) /\ gwReq[q].captured \in Seq(GwTools)
      /\ gwReq[q].round \in Nat
  BY DEF GwIInv, GwTypes, GwReqOK, GwReqType
<1>2. PICK calls, captured, round, place :
        /\ calls = Tail(gwReq[q].calls)
        /\ captured = IF GwCaptures(Head(gwReq[q].calls), answered)
                      THEN Append(gwReq[q].captured, Head(gwReq[q].calls))
                      ELSE gwReq[q].captured
        /\ round = IF Len(gwReq[q].calls) = 1 THEN gwReq[q].round + 1 ELSE gwReq[q].round
        /\ place = IF Len(gwReq[q].calls) # 1 THEN "tools"
                   ELSE IF gwReq[q].round + 1 < GwMaxLoops THEN "ask" ELSE "done"
  OBVIOUS
<1>3. calls \in Seq(GwTools \cup {"foreign"}) /\ (place = "tools" => calls # <<>>)
  <2>1. calls \in Seq(GwTools \cup {"foreign"})
    BY <1>1, <1>2
  <2>2. ASSUME place = "tools" PROVE Len(calls) # 0
    <3>1. Len(gwReq[q].calls) # 1
      BY <1>2, <2>2
    <3>2. Len(calls) = Len(gwReq[q].calls) - 1
      BY <1>1, <1>2
    <3> QED
      BY <3>1, <3>2
  <2> QED
    BY <2>1, <2>2
<1>4. round \in Nat /\ place \in {"tools", "ask", "done"}
  BY <1>1, <1>2
<1>5. captured \in Seq(GwTools)
  <2>1. GwCaptures(Head(gwReq[q].calls), answered) => Head(gwReq[q].calls) \in GwTools
    BY <1>1 DEF GwCaptures
  <2> QED
    BY <1>1, <1>2, <2>1
<1>6. PICK r : r = [gwReq[q] EXCEPT !.calls = calls, !.round = round, !.captured = captured, !.at = place]
  OBVIOUS
<1>7. gwReq' = [gwReq EXCEPT ![q] = r]
  <2>1. r = [gwReq[q] EXCEPT !.calls = Tail(gwReq[q].calls),
               !.round = IF Len(gwReq[q].calls) = 1 THEN gwReq[q].round + 1 ELSE gwReq[q].round,
               !.captured = IF GwCaptures(Head(gwReq[q].calls), answered)
                            THEN Append(gwReq[q].captured, Head(gwReq[q].calls))
                            ELSE gwReq[q].captured,
               !.at = IF Len(gwReq[q].calls) # 1 THEN "tools"
                      ELSE IF gwReq[q].round + 1 < GwMaxLoops THEN "ask" ELSE "done"]
    BY <1>2, <1>6
  <2> QED
    BY <1>1, <2>1 DEF GwCalled
<1>8. /\ r \in GwReqType /\ r.at = place /\ r.session = gwReq[q].session /\ r.calls = calls
      /\ r.captured = captured /\ r.conv = gwReq[q].conv /\ r.named = gwReq[q].named
      /\ r.gone = gwReq[q].gone
  BY <1>1, <1>3, <1>4, <1>5, <1>6 DEF GwReqType, GwPlaces
<1>9. GwMoves(q, r)
  BY <1>4, <1>7, <1>8 DEF GwMoves
<1> QED
  BY <1>2, <1>3, <1>4, <1>8, <1>9

LEMMA GwToolIInv ==
  ASSUME GwIInv, NEW q \in GwReqs, GwTool(q)
  PROVE  GwIInv'
<1>1. gwReq[q].at = "tools" /\ UNCHANGED <<gwBound, gwStatus, gwMadeFor, gwMissions>>
  BY DEF GwTool, GwAt
<1>2. /\ gwReq[q] \in GwReqType /\ GwReqOK(q) /\ gwReq[q].calls # <<>>
      /\ gwReq[q].session \in GwSessions \ gwReq[q].gone /\ GwOwned(q, gwReq[q].session)
      /\ gwReq[q].captured \in Seq(GwTools) /\ gwRan[q] \in Seq(GwRun)
  BY <1>1 DEF GwIInv, GwTypes, GwReqOK, GwReqType
<1>3. /\ gwBound' \in [GwConvs -> GwSessions \cup {"none"}]
      /\ \A c \in GwConvs : gwBound'[c] \in {gwBound[c], "none"}
  BY <1>1 DEF GwIInv, GwTypes
<1>4. CASE GwCalled(q, FALSE) /\ gwRan' = gwRan
  <2>1. PICK r :
          /\ GwMoves(q, r) /\ r.at \in {"tools", "ask", "done"} /\ r.session = gwReq[q].session
          /\ r.at = "tools" => r.calls # <<>>
          /\ r.captured = IF GwCaptures(Head(gwReq[q].calls), FALSE)
                          THEN Append(gwReq[q].captured, Head(gwReq[q].calls))
                          ELSE gwReq[q].captured
    BY <1>1, <1>4, GwCalledMoves
  <2>2. r.captured = gwReq[q].captured
    BY <2>1 DEF GwCaptures
  <2> QED
    BY <1>1, <1>2, <1>3, <1>4, <2>1, <2>2, GwMoveStep
<1>5. ASSUME NEW answered \in BOOLEAN, Head(gwReq[q].calls) \in GwTools, GwCalled(q, answered),
             gwRan' = [gwRan EXCEPT ![q] =
               Append(gwRan[q], [tool |-> Head(gwReq[q].calls), session |-> gwReq[q].session,
                                 answered |-> answered])]
      PROVE  GwIInv'
  <2>1. PICK r :
          /\ GwMoves(q, r) /\ r.at \in {"tools", "ask", "done"} /\ r.session = gwReq[q].session
          /\ r.at = "tools" => r.calls # <<>>
          /\ r.captured = IF GwCaptures(Head(gwReq[q].calls), answered)
                          THEN Append(gwReq[q].captured, Head(gwReq[q].calls))
                          ELSE gwReq[q].captured
    BY <1>1, <1>5, GwCalledMoves
  <2>2. PICK run : run = [tool |-> Head(gwReq[q].calls), session |-> gwReq[q].session,
                          answered |-> answered]
    OBVIOUS
  <2>3. /\ run \in GwRun /\ run.tool = Head(gwReq[q].calls) /\ run.session = gwReq[q].session
        /\ run.answered = answered
    BY <1>2, <1>5, <2>2 DEF GwRun
  <2>4. /\ gwRan' \in [GwReqs -> Seq(GwRun)] /\ gwRan'[q] = Append(gwRan[q], run)
        /\ \A p \in GwReqs \ {q} : gwRan'[p] = gwRan[p]
    <3>1. gwRan' = [gwRan EXCEPT ![q] = Append(gwRan[q], run)]
      BY <1>5, <2>2
    <3>2. Append(gwRan[q], run) \in Seq(GwRun)
      BY <1>2, <2>3
    <3> HIDE <1>5, <2>1, <2>2, <2>3
    <3> QED
      BY <3>1, <3>2 DEF GwIInv, GwTypes
  <2>5. GwLists(r.captured, gwRan'[q])
    <3>1. GwLists(gwReq[q].captured, gwRan[q]) /\ run.tool # "foreign"
      BY <1>2, <1>5, <2>3, GatewayAssumption DEF GwReqOK
    <3>2. CASE run.answered
      <4>1. r.captured = Append(gwReq[q].captured, run.tool)
        BY <2>1, <2>3, <3>1, <3>2 DEF GwCaptures
      <4>2. GwLists(Append(gwReq[q].captured, run.tool), Append(gwRan[q], run))
        BY <1>2, <2>3, <3>1, <3>2, GwListsAnswered
      <4> QED
        BY <2>4, <4>1, <4>2
    <3>3. CASE ~run.answered
      <4>1. r.captured = gwReq[q].captured
        BY <2>1, <2>3, <3>3 DEF GwCaptures
      <4>2. GwLists(gwReq[q].captured, Append(gwRan[q], run))
        BY <1>2, <2>3, <3>1, <3>3, GwListsUnanswered
      <4> QED
        BY <2>4, <4>1, <4>2
    <3> QED
      BY <3>2, <3>3
  <2>6. \A i \in DOMAIN gwRan'[q] : gwRan'[q][i].session = gwReq[q].session
    <3>1. \A i \in DOMAIN gwRan[q] : gwRan[q][i].session = gwReq[q].session
      BY <1>2 DEF GwReqOK
    <3>2. ASSUME NEW i \in DOMAIN Append(gwRan[q], run)
          PROVE  \/ Append(gwRan[q], run)[i] = run
                 \/ i \in DOMAIN gwRan[q] /\ Append(gwRan[q], run)[i] = gwRan[q][i]
      BY <1>2, <2>3
    <3> QED
      BY <2>3, <2>4, <3>1, <3>2
  <2>7. /\ GwFrame /\ gwReq' \in [GwReqs -> GwReqType] /\ gwReq'[q] = r
        /\ \A p \in GwReqs \ {q} : gwReq'[p] = gwReq[p]
    BY <1>1, <2>1, GwMoveFrame
  <2>8. GwTypes'
    BY <1>1, <2>4, <2>7 DEF GwIInv, GwTypes
  <2>9. GwOwned(q, gwReq[q].session)' /\ r.gone = gwReq[q].gone /\ r.at # "new"
    BY <1>1, <1>2, <2>1, <2>7, GwOwnedStays DEF GwMoves
  <2>10. \A s \in r.gone : gwStatus'[s] = "stopped"
    BY <1>1, <1>2, <2>9 DEF GwReqOK
  <2>11. GwReqOK(q)'
    BY <1>2, <2>1, <2>5, <2>6, <2>7, <2>9, <2>10 DEF GwReqOK
  <2>12. /\ \A p \in GwReqs \ {q} : gwReq'[p] = gwReq[p] /\ gwRan'[p] = gwRan[p]
         /\ \A d \in GwConvs : gwBound'[d] \in {gwBound[d], "none"}
         /\ gwMissions' \ gwMissions = {}
         /\ \A s \in GwSessions : gwStatus'[s] = "absent" => gwStatus[s] = "absent" /\ gwMadeFor'[s] = gwMadeFor[s]
    BY <1>1, <1>3, <2>4, <2>7
  <2> QED
    BY <2>7, <2>8, <2>11, <2>12, GwStep
<1> QED
  BY <1>4, <1>5 DEF GwTool

\* A session ends: a request that came in before does not count it as gone.
LEMMA GwStopIInv ==
  ASSUME GwIInv, NEW s \in GwSessions, GwStop(s)
  PROVE  GwIInv'
<1>1. /\ gwStatus[s] = "running" /\ UNCHANGED <<gwBound, gwMadeFor, gwReq, gwRan, gwMissions>>
      /\ gwStatus' \in [GwSessions -> {"absent", "running", "stopped"}] /\ gwStatus'[s] = "stopped"
      /\ \A t \in GwSessions \ {s} : gwStatus'[t] = gwStatus[t]
  BY DEF GwStop, GwIInv, GwTypes
<1>2. GwTypes'
  BY <1>1 DEF GwIInv, GwTypes
<1>3. \A t \in GwSessions : gwStatus[t] = "stopped" => gwStatus'[t] = "stopped"
  BY <1>1
<1>4. GwFrame
  BY <1>1, <1>3 DEF GwFrame
<1>5. \A q \in GwReqs : GwReqOK(q)'
  BY <1>1, <1>4, GwOtherStays
<1>6. GwBoundInv' /\ GwMissionInv'
  BY <1>1 DEF GwIInv, GwBoundInv, GwMissionInv
<1>7. \A t \in GwSessions : gwStatus'[t] = "absent" => gwMadeFor'[t] = "none"
  BY <1>1 DEF GwIInv
<1> QED
  BY <1>2, <1>5, <1>6, <1>7 DEF GwIInv

\* A restart forgets every binding and cuts every request short.
LEMMA GwRestartIInv ==
  ASSUME GwIInv, GwRestart
  PROVE  GwIInv'
<1>1. /\ UNCHANGED <<gwStatus, gwMadeFor, gwRan, gwMissions>>
      /\ gwBound' = [c \in GwConvs |-> "none"]
  BY DEF GwRestart, GwApi
<1>2. ASSUME NEW q \in GwReqs
      PROVE  /\ gwReq'[q] \in GwReqType
             /\ gwReq[q].at = "new" => gwReq'[q] = gwReq[q]
             /\ gwReq[q].at # "new" =>
                  /\ gwReq'[q].at = "done" /\ gwReq'[q].conv = gwReq[q].conv
                  /\ gwReq'[q].named = gwReq[q].named /\ gwReq'[q].session = gwReq[q].session
                  /\ gwReq'[q].captured = gwReq[q].captured /\ gwReq'[q].gone = gwReq[q].gone
  <2>1. gwReq[q] \in GwReqType
    BY DEF GwIInv, GwTypes
  <2>2. CASE gwReq[q].at = "new"
    BY <2>1, <2>2 DEF GwRestart, GwAt
  <2>3. CASE gwReq[q].at # "new"
    <3>1. gwReq'[q] = [gwReq[q] EXCEPT !.at = "done"]
      BY <2>3 DEF GwRestart, GwAt
    <3> QED
      BY <2>1, <2>3, <3>1 DEF GwReqType, GwPlaces
  <2> QED
    BY <2>2, <2>3
<1>3. GwTypes'
  <2>1. gwReq' \in [GwReqs -> GwReqType]
    <3>1. gwReq' = [q \in GwReqs |-> gwReq'[q]]
      BY DEF GwRestart
    <3> QED
      BY <1>2, <3>1
  <2> QED
    BY <1>1, <2>1 DEF GwIInv, GwTypes
<1>4. GwFrame
  BY <1>1, <1>2 DEF GwFrame
<1>5. ASSUME NEW q \in GwReqs PROVE GwReqOK(q)'
  <2>1. CASE gwReq[q].at = "new"
    BY <1>1, <1>2, <1>4, <2>1, GwOtherStays
  <2>2. CASE gwReq[q].at # "new"
    <3>1. GwReqOK(q) /\ gwReq[q] \in GwReqType
      BY DEF GwIInv, GwTypes
    <3>2. ASSUME gwReq[q].session \in GwSessions, GwOwned(q, gwReq[q].session)
          PROVE  GwOwned(q, gwReq[q].session)'
      <4>1. \A s \in GwSessions : GwOwned(q, s) => GwOwned(q, s)'
        BY <1>4, <2>2, GwOwnedStays
      <4>2. PICK s \in GwSessions : s = gwReq[q].session
        BY <3>2
      <4>3. s = gwReq'[q].session
        BY <1>2, <2>2, <4>2
      <4> QED
        BY <3>2, <4>1, <4>2, <4>3
    <3>3. /\ gwReq'[q].at = "done" /\ gwReq'[q].session = gwReq[q].session
          /\ gwReq'[q].captured = gwReq[q].captured /\ gwReq'[q].gone = gwReq[q].gone
      BY <1>2, <2>2
    <3> QED
      BY <1>1, <3>1, <3>2, <3>3 DEF GwReqOK
  <2> QED
    BY <2>1, <2>2
<1>6. GwBoundInv'
  BY <1>1 DEF GwBoundInv
<1>7. GwMissionInv'
  <2> SUFFICES ASSUME NEW m \in gwMissions
               PROVE  \E p \in GwReqs :
                        /\ gwReq'[p].conv = m.conv /\ gwReq'[p].at \in {"record", "done"}
                        /\ gwReq'[p].session = m.session /\ gwReq'[p].captured = m.steps
    BY <1>1 DEF GwMissionInv
  <2>1. PICK p \in GwReqs :
          /\ gwReq[p].conv = m.conv /\ gwReq[p].at \in {"record", "done"}
          /\ gwReq[p].session = m.session /\ gwReq[p].captured = m.steps
    BY DEF GwIInv, GwMissionInv
  <2> QED
    BY <1>2, <2>1
<1> QED
  BY <1>1, <1>3, <1>5, <1>6, <1>7 DEF GwIInv

LEMMA GwNextIInv ==
  ASSUME GwIInv, [GwNext]_gwVars
  PROVE  GwIInv'
<1>1. ASSUME NEW q \in GwReqs,
             \/ GwArrive(q) \/ GwLook(q) \/ GwUnbind(q) \/ GwCreate(q) \/ GwBind(q)
             \/ GwAsk(q) \/ GwTool(q) \/ GwCreateMission(q) \/ GwRecordRun(q)
      PROVE  GwIInv'
  BY <1>1, GwArriveIInv, GwLookIInv, GwUnbindIInv, GwCreateIInv, GwBindIInv, GwAskIInv, GwToolIInv,
     GwCreateMissionIInv, GwRecordRunIInv
<1>2. CASE UNCHANGED gwVars
  BY <1>2 DEF gwVars, GwIInv, GwTypes, GwReqOK, GwOwned, GwBoundInv, GwMissionInv
<1> QED
  BY <1>1, <1>2, GwStopIInv, GwRestartIInv DEF GwNext

LEMMA GwIInvTraced == GwIInv => GwTraced
<1> SUFFICES ASSUME GwIInv PROVE GwTraced
  OBVIOUS
<1>1. GwOwnSession
  <2> SUFFICES ASSUME NEW q \in GwReqs, NEW i \in DOMAIN gwRan[q]
               PROVE  gwRan[q][i].session \notin gwReq[q].gone /\ GwOwned(q, gwRan[q][i].session)
    BY DEF GwOwnSession, GwOwned
  <2>1. GwReqOK(q)
    BY DEF GwIInv
  <2>2. gwRan[q] # <<>>
    OBVIOUS
  <2> QED
    BY <2>1, <2>2 DEF GwReqOK
<1>2. GwMissionsTrue
  <2> SUFFICES ASSUME NEW m \in gwMissions
               PROVE  \E q \in GwReqs :
                        /\ gwReq[q].conv = m.conv /\ gwReq[q].at \in {"record", "done"}
                        /\ GwLists(m.steps, gwRan[q])
                        /\ \A i \in DOMAIN gwRan[q] : gwRan[q][i].answered => gwRan[q][i].session = m.session
    BY DEF GwMissionsTrue
  <2>1. PICK q \in GwReqs :
          /\ gwReq[q].conv = m.conv /\ gwReq[q].at \in {"record", "done"}
          /\ gwReq[q].session = m.session /\ gwReq[q].captured = m.steps
    BY DEF GwIInv, GwMissionInv
  <2>2. GwLists(m.steps, gwRan[q]) /\ \A i \in DOMAIN gwRan[q] : gwRan[q][i].session = m.session
    BY <2>1 DEF GwIInv, GwReqOK
  <2> QED
    BY <2>1, <2>2
<1> QED
  BY <1>1, <1>2 DEF GwTraced

-----------------------------------------------------------------------------
\* Rounds and calls have their bounds, so the types hold as they are declared.

LEMMA GwRooms ==
  /\ \A n \in Nat : GwRoom(n) \in Nat /\ GwRoom(n + 1) = GwRoom(n) + GwMaxCalls
  /\ \A m, n \in Nat : m <= n => GwRoom(m) <= GwRoom(n)
  /\ GwMaxCalls \in Nat /\ GwMaxLoops \in Nat /\ GwMaxLoops >= 1 /\ GwRoom(0) = 0
<1>1. GwMaxCalls \in Nat /\ GwMaxLoops \in Nat /\ GwMaxLoops >= 1
  BY GatewayAssumption
<1>2. ASSUME NEW M \in Nat, NEW n \in Nat PROVE n * M \in Nat /\ (n + 1) * M = n * M + M
  OBVIOUS
<1>3. ASSUME NEW M \in Nat, NEW m \in Nat, NEW n \in Nat, m <= n PROVE m * M <= n * M
  <2>1. PICK d \in Nat : n = m + d
    <3>1. n - m \in Nat /\ n = m + (n - m)
      BY <1>3
    <3> QED
      BY <3>1
  <2>2. n * M = m * M + d * M /\ d * M \in Nat /\ m * M \in Nat
    BY <2>1
  <2> QED
    BY <2>2
<1>4. GwRoom(0) = 0
  BY <1>1 DEF GwRoom
<1>5. \A n \in Nat : GwRoom(n) \in Nat /\ GwRoom(n + 1) = GwRoom(n) + GwMaxCalls
  BY <1>1, <1>2 DEF GwRoom
<1>6. \A m, n \in Nat : m <= n => GwRoom(m) <= GwRoom(n)
  BY <1>1, <1>3 DEF GwRoom
<1> QED
  BY <1>1, <1>4, <1>5, <1>6

LEMMA GwRequestFacts ==
  ASSUME GwIInv, NEW q \in GwReqs
  PROVE  /\ gwReq[q] \in GwReqType /\ gwReq[q].at \in GwPlaces /\ gwReq[q].round \in Nat
         /\ Len(gwReq[q].calls) \in Nat /\ Len(gwReq[q].captured) \in Nat
         /\ gwReq[q].calls \in Seq(GwTools \cup {"foreign"}) /\ gwReq[q].captured \in Seq(GwTools)
         /\ gwReq[q].conv \in GwConvs \cup {"none"} /\ gwReq[q].session \in GwSessions \cup {"none"}
<1>1. gwReq[q] \in GwReqType
  BY DEF GwIInv, GwTypes
<1> QED
  BY <1>1, LenProperties DEF GwReqType

\* Calls that are not too many are calls, and steps that are not too many are steps.
LEMMA GwShortSteps ==
  ASSUME NEW s \in Seq(GwTools), Len(s) <= GwRoom(GwMaxLoops)
  PROVE  s \in GwSteps
<1>1. Len(s) \in Nat /\ s \in [1..Len(s) -> GwTools]
  BY LenProperties
<1>2. GwRoom(GwMaxLoops) \in Nat
  BY GwRooms
<1>3. Len(s) \in 0..GwRoom(GwMaxLoops)
  BY <1>1, <1>2
<1> QED
  BY <1>1, <1>3 DEF GwSteps, GwRoom

LEMMA GwShortCalls ==
  ASSUME NEW s \in Seq(GwTools \cup {"foreign"}), Len(s) <= GwMaxCalls
  PROVE  s \in GwCalls
<1>1. Len(s) \in Nat /\ s \in [1..Len(s) -> GwTools \cup {"foreign"}]
  BY LenProperties
<1>2. Len(s) \in 0..GwMaxCalls
  BY <1>1, GwRooms
<1> QED
  BY <1>1, <1>2 DEF GwCalls

LEMMA GwCallsAreShort ==
  ASSUME NEW s \in GwCalls
  PROVE  Len(s) <= GwMaxCalls /\ Len(s) \in Nat
<1>1. PICK n \in 0..GwMaxCalls : s \in [1..n -> GwTools \cup {"foreign"}]
  BY DEF GwCalls
<1>2. n \in Nat /\ n <= GwMaxCalls
  BY <1>1, GwRooms
<1>3. Len(s) = n
  BY <1>1, <1>2
<1> QED
  BY <1>2, <1>3

LEMMA GwSizedTypes ==
  ASSUME GwIInv, GwSized
  PROVE  GwTypeOK
<1>1. ASSUME NEW q \in GwReqs PROVE gwReq[q] \in GwRequest
  <2>1. GwFit(gwReq[q])
    BY DEF GwSized
  <2>2. gwReq[q].round \in 0..GwMaxLoops
    <3>1. gwReq[q].round <= GwMaxLoops /\ gwReq[q].round \in Nat /\ GwMaxLoops \in Nat
      BY <2>1, GwRequestFacts, GatewayAssumption DEF GwFit
    <3> QED
      BY <3>1
  <2>3. gwReq[q].calls \in GwCalls
    BY <2>1, GwRequestFacts, GwShortCalls DEF GwFit
  <2>4. gwReq[q].captured \in GwSteps
    BY <2>1, GwRequestFacts, GwShortSteps DEF GwFit
  <2>5. gwReq[q] \in GwReqType
    BY GwRequestFacts
  <2> QED
    BY <2>2, <2>3, <2>4, <2>5 DEF GwReqType, GwRequest
<1>2. gwReq \in [GwReqs -> GwRequest]
  BY <1>1 DEF GwIInv, GwTypes
<1> QED
  BY <1>2 DEF GwIInv, GwTypes, GwSized, GwTypeOK

LEMMA GwFailCounts ==
  ASSUME GwSized, GwFail \/ gwFails' = gwFails
  PROVE  gwFails' \in 0..GwMaxFails
<1>1. gwFails \in 0..GwMaxFails /\ GwMaxFails \in Nat
  BY GatewayAssumption DEF GwSized
<1> QED
  BY <1>1 DEF GwFail

\* What is left of the bounds when one request moves.
GwSlugOf(r) == [conv |-> r.conv, session |-> r.session, steps |-> r.captured]

GwBooks ==
  /\ gwMissions \subseteq gwMissions' /\ gwMissions' \subseteq GwMission
  /\ gwRecorded' \subseteq gwMissions' \X GwSessions /\ gwFails' \in 0..GwMaxFails

LEMMA GwSizedStep ==
  ASSUME GwIInv, GwSized, NEW q \in GwReqs, NEW r, gwReq' = [gwReq EXCEPT ![q] = r], GwFit(r),
         r.at = "record" => GwSlugOf(r) \in gwMissions', GwBooks
  PROVE  GwSized'
<1>1. ASSUME NEW p \in GwReqs
      PROVE  GwFit(gwReq'[p]) /\ (gwReq'[p].at = "record" => GwSlug(p)' \in gwMissions')
  <2>1. CASE p = q
    <3>1. gwReq'[p] = r
      BY <2>1 DEF GwIInv, GwTypes
    <3> QED
      BY <3>1 DEF GwSlug, GwSlugOf
  <2>2. CASE p # q
    <3>1. gwReq'[p] = gwReq[p]
      BY <2>2 DEF GwIInv, GwTypes
    <3>2. GwSlug(p)' = GwSlug(p)
      BY <3>1 DEF GwSlug
    <3> QED
      BY <3>1, <3>2 DEF GwSized, GwBooks
  <2> QED
    BY <2>1, <2>2
<1> QED
  BY <1>1 DEF GwSized, GwBooks

\* A request that goes somewhere else and keeps what it has.
LEMMA GwSizedGoes ==
  ASSUME GwIInv, GwSized, NEW q \in GwReqs, NEW place \in GwPlaces \ {"tools"}, GwGoes(q, place),
         place \in GwBefore => gwReq[q].at \in GwBefore,
         place = "record" => GwSlug(q) \in gwMissions', GwBooks
  PROVE  GwSized'
<1>1. PICK r : r = [gwReq[q] EXCEPT !.at = place]
  OBVIOUS
<1>2. gwReq' = [gwReq EXCEPT ![q] = r]
  BY <1>1 DEF GwGoes
<1>3. /\ r.at = place /\ r.session = gwReq[q].session /\ r.calls = gwReq[q].calls
      /\ r.captured = gwReq[q].captured /\ r.conv = gwReq[q].conv /\ r.round = gwReq[q].round
  BY <1>1, GwRequestFacts DEF GwReqType
<1>4. GwFit(gwReq[q])
  BY DEF GwSized
<1>5. GwFit(r)
  BY <1>3, <1>4 DEF GwFit
<1>6. GwSlugOf(r) = GwSlug(q)
  BY <1>3 DEF GwSlugOf, GwSlug
<1> QED
  BY <1>2, <1>3, <1>5, <1>6, GwSizedStep

LEMMA GwSameBooks ==
  ASSUME GwSized, GwFail \/ gwFails' = gwFails, UNCHANGED <<gwMissions, gwRecorded>>
  PROVE  GwBooks
  BY GwFailCounts DEF GwSized, GwBooks

LEMMA GwInitSized == GwInit => GwSized
<1> SUFFICES ASSUME GwInit PROVE GwSized
  OBVIOUS
<1>1. GwMaxFails \in Nat /\ 0 \in 0..GwMaxFails
  BY GatewayAssumption
<1>2. \A q \in GwReqs : gwReq[q] = GwNew
  BY DEF GwInit
<1>3. GwFit(GwNew) /\ GwNew.at # "record"
  <2>1. /\ GwNew.at = "new" /\ GwNew.round = 0 /\ Len(GwNew.calls) = 0 /\ Len(GwNew.captured) = 0
    BY DEF GwNew
  <2>2. GwRoom(GwMaxLoops) \in Nat
    BY GwRooms
  <2> QED
    BY <2>1, <2>2, GwRooms DEF GwFit, GwBefore
<1> QED
  BY <1>1, <1>2, <1>3 DEF GwSized, GwInit

LEMMA GwArriveSized ==
  ASSUME GwIInv, GwSized, NEW q \in GwReqs, GwArrive(q)
  PROVE  GwSized'
<1>0. PICK c, n, bound :
        /\ gwReq' = [gwReq EXCEPT ![q] =
             [GwNew EXCEPT !.at = IF n = "none" /\ bound = "none" THEN "create" ELSE "look",
                !.conv = c, !.named = n, !.session = IF n # "none" THEN n ELSE bound,
                !.gone = {s \in GwSessions : gwStatus[s] = "stopped"}]]
        /\ UNCHANGED <<gwBound, GwApi, gwFails>>
  <2>1. PICK c \in GwConvs \cup {"none"}, n \in {s \in GwSessions : gwStatus[s] # "absent"} \cup {"none"} :
          LET bound == IF c = "none" THEN "none" ELSE gwBound[c] IN
            /\ GwAt(q, "new")
            /\ gwReq' = [gwReq EXCEPT ![q] =
                 [GwNew EXCEPT !.at = IF n = "none" /\ bound = "none" THEN "create" ELSE "look",
                    !.conv = c, !.named = n, !.session = IF n # "none" THEN n ELSE bound,
                    !.gone = {s \in GwSessions : gwStatus[s] = "stopped"}]]
            /\ UNCHANGED <<gwBound, GwApi, gwFails>>
    BY Zenon DEF GwArrive
  <2> QED
    BY <2>1, Zenon
<1>7. PICK place, session, gone :
        /\ place = IF n = "none" /\ bound = "none" THEN "create" ELSE "look"
        /\ session = IF n # "none" THEN n ELSE bound
        /\ gone = {s \in GwSessions : gwStatus[s] = "stopped"}
  OBVIOUS
<1>1. /\ place \in {"create", "look"}
      /\ gwReq' = [gwReq EXCEPT ![q] =
           [GwNew EXCEPT !.at = place, !.conv = c, !.named = n, !.session = session, !.gone = gone]]
  BY <1>0, <1>7
<1>2. PICK r : r = [GwNew EXCEPT !.at = place, !.conv = c, !.named = n, !.session = session, !.gone = gone]
  OBVIOUS
<1>3. r.at = place /\ r.round = 0 /\ Len(r.calls) = 0 /\ Len(r.captured) = 0
  BY <1>2 DEF GwNew
<1>4. GwRoom(GwMaxLoops) \in Nat
  BY GwRooms
<1>5. GwFit(r)
  BY <1>1, <1>3, <1>4, GwRooms DEF GwFit, GwBefore
<1>6. GwBooks
  BY <1>0, GwSameBooks DEF GwApi
<1> QED
  BY <1>1, <1>2, <1>3, <1>5, <1>6, GwSizedStep

LEMMA GwLookSized ==
  ASSUME GwIInv, GwSized, NEW q \in GwReqs, GwLook(q)
  PROVE  GwSized'
<1>1. gwReq[q].at \in GwBefore
  BY DEF GwLook, GwAt, GwBefore
<1>2. GwBooks
  BY GwSameBooks DEF GwLook, GwApi
<1>3. \/ GwGoes(q, "ask") \/ GwGoes(q, "bind") \/ GwGoes(q, "unbind") \/ GwGoes(q, "done")
  BY DEF GwLook
<1> QED
  BY <1>1, <1>2, <1>3, GwSizedGoes DEF GwPlaces, GwBefore

LEMMA GwUnbindSized ==
  ASSUME GwIInv, GwSized, NEW q \in GwReqs, GwUnbind(q)
  PROVE  GwSized'
<1>1. gwReq[q].at \in GwBefore /\ GwGoes(q, "create")
  BY DEF GwUnbind, GwAt, GwBefore
<1>2. GwBooks
  BY GwSameBooks DEF GwUnbind, GwApi
<1> QED
  BY <1>1, <1>2, GwSizedGoes DEF GwPlaces, GwBefore

LEMMA GwBindSized ==
  ASSUME GwIInv, GwSized, NEW q \in GwReqs, GwBind(q)
  PROVE  GwSized'
<1>1. gwReq[q].at \in GwBefore /\ GwGoes(q, "ask")
  BY DEF GwBind, GwAt, GwBefore
<1>2. GwBooks
  BY GwSameBooks DEF GwBind, GwApi
<1> QED
  BY <1>1, <1>2, GwSizedGoes DEF GwPlaces, GwBefore

LEMMA GwCreateSized ==
  ASSUME GwIInv, GwSized, NEW q \in GwReqs, GwCreate(q)
  PROVE  GwSized'
<1>1. gwReq[q].at = "create" /\ gwReq[q].at \in GwBefore
  BY DEF GwCreate, GwAt, GwBefore
<1>2. GwBooks
  BY GwSameBooks DEF GwCreate
<1>3. CASE GwGoes(q, "done")
  BY <1>1, <1>2, <1>3, GwSizedGoes DEF GwPlaces, GwBefore
<1>4. ASSUME NEW s \in GwSessions, gwReq' = [gwReq EXCEPT ![q].at = "bind", ![q].session = s]
      PROVE  GwSized'
  <2>1. PICK r : r = [gwReq[q] EXCEPT !.at = "bind", !.session = s]
    OBVIOUS
  <2>2. gwReq' = [gwReq EXCEPT ![q] = r]
    BY <1>4, <2>1 DEF GwIInv, GwTypes
  <2>3. r.at = "bind" /\ r.calls = gwReq[q].calls /\ r.captured = gwReq[q].captured
        /\ r.round = gwReq[q].round
    BY <2>1, GwRequestFacts DEF GwReqType
  <2>4. GwFit(gwReq[q])
    BY DEF GwSized
  <2>5. GwFit(r)
    BY <1>1, <2>3, <2>4 DEF GwFit
  <2> QED
    BY <1>2, <2>2, <2>3, <2>5, GwSizedStep
<1> QED
  BY <1>3, <1>4 DEF GwCreate

LEMMA GwAskSized ==
  ASSUME GwIInv, GwSized, NEW q \in GwReqs, GwAsk(q)
  PROVE  GwSized'
<1>1. gwReq[q].at = "ask" /\ gwReq[q].at \in GwBefore
  BY DEF GwAsk, GwAt, GwBefore
<1>2. GwBooks
  BY GwSameBooks DEF GwAsk, GwApi
<1>3. CASE GwGoes(q, "done") \/ GwGoes(q, "mission")
  BY <1>1, <1>2, <1>3, GwSizedGoes DEF GwPlaces, GwBefore
<1>4. ASSUME NEW calls \in GwCalls, gwReq' = [gwReq EXCEPT ![q].at = "tools", ![q].calls = calls]
      PROVE  GwSized'
  <2>1. PICK r : r = [gwReq[q] EXCEPT !.at = "tools", !.calls = calls]
    OBVIOUS
  <2>2. gwReq' = [gwReq EXCEPT ![q] = r]
    BY <1>4, <2>1 DEF GwIInv, GwTypes
  <2>3. r.at = "tools" /\ r.calls = calls /\ r.captured = gwReq[q].captured /\ r.round = gwReq[q].round
    BY <2>1, GwRequestFacts DEF GwReqType
  <2>4. GwFit(gwReq[q]) /\ gwReq[q].round \in Nat /\ Len(gwReq[q].captured) \in Nat
    BY GwRequestFacts DEF GwSized
  <2>5. Len(calls) \in Nat /\ Len(calls) <= GwMaxCalls
    BY GwCallsAreShort
  <2>6. /\ GwRoom(gwReq[q].round) \in Nat
        /\ GwRoom(gwReq[q].round + 1) = GwRoom(gwReq[q].round) + GwMaxCalls
        /\ GwMaxCalls \in Nat
    BY <2>4, GwRooms
  <2>7. gwReq[q].round < GwMaxLoops /\ Len(gwReq[q].captured) <= GwRoom(gwReq[q].round)
    BY <1>1, <2>4 DEF GwFit
  <2>8. Len(gwReq[q].captured) + Len(calls) <= GwRoom(gwReq[q].round + 1)
    BY <2>4, <2>5, <2>6, <2>7
  <2>9. GwFit(r)
    BY <2>3, <2>4, <2>5, <2>7, <2>8 DEF GwFit, GwBefore
  <2> QED
    BY <1>2, <2>2, <2>3, <2>9, GwSizedStep
<1> QED
  BY <1>3, <1>4 DEF GwAsk

LEMMA GwToolSized ==
  ASSUME GwIInv, GwSized, NEW q \in GwReqs, GwTool(q)
  PROVE  GwSized'
<1>1. gwReq[q].at = "tools" /\ GwBooks
  BY GwSameBooks DEF GwTool, GwAt
<1>2. ASSUME NEW answered \in BOOLEAN, GwCalled(q, answered) PROVE GwSized'
  <2> DEFINE n == Len(gwReq[q].calls)
             L == Len(gwReq[q].captured)
             round == gwReq[q].round
  <2>1. PICK calls, captured, left, place :
          /\ calls = Tail(gwReq[q].calls)
          /\ captured = IF GwCaptures(Head(gwReq[q].calls), answered)
                        THEN Append(gwReq[q].captured, Head(gwReq[q].calls))
                        ELSE gwReq[q].captured
          /\ left = IF n = 1 THEN round + 1 ELSE round
          /\ place = IF n # 1 THEN "tools" ELSE IF round + 1 < GwMaxLoops THEN "ask" ELSE "done"
    OBVIOUS
  <2>2. PICK r : r = [gwReq[q] EXCEPT !.calls = calls, !.round = left, !.captured = captured, !.at = place]
    OBVIOUS
  <2>3. gwReq' = [gwReq EXCEPT ![q] = r]
    BY <1>2, <2>1, <2>2 DEF GwCalled
  <2>4. r.at = place /\ r.calls = calls /\ r.captured = captured /\ r.round = left
    BY <2>2, GwRequestFacts DEF GwReqType
  <2>5. n \in Nat /\ L \in Nat /\ round \in Nat /\ n >= 1
    <3>1. n \in Nat /\ L \in Nat /\ round \in Nat /\ gwReq[q].calls \in Seq(GwTools \cup {"foreign"})
      BY GwRequestFacts
    <3>2. gwReq[q].calls # <<>>
      BY <1>1 DEF GwIInv, GwReqOK
    <3> QED
      BY <3>1, <3>2
  <2>6. Len(calls) = n - 1
    BY <2>1, <2>5, GwRequestFacts
  <2>7. Len(captured) \in Nat /\ Len(captured) <= L + 1
    <3>1. CASE captured = gwReq[q].captured
      BY <2>5, <3>1
    <3>2. CASE captured = Append(gwReq[q].captured, Head(gwReq[q].calls))
      BY <2>5, <3>2, GwRequestFacts
    <3> QED
      BY <2>1, <3>1, <3>2
  <2>8. GwFit(gwReq[q])
    BY DEF GwSized
  <2>9. round < GwMaxLoops /\ L + n <= GwRoom(round + 1) /\ n <= GwMaxCalls
    BY <1>1, <2>8 DEF GwFit
  <2> HIDE DEF n, L, round
  <2> DEFINE next == round + 1
  <2>20. next \in Nat /\ next <= GwMaxLoops /\ GwMaxLoops \in Nat /\ GwMaxCalls \in Nat
    BY <2>5, <2>9, GatewayAssumption
  <2> HIDE DEF next
  <2>21. GwRoom(next) \in Nat /\ GwRoom(GwMaxLoops) \in Nat /\ GwRoom(next) <= GwRoom(GwMaxLoops)
    BY <2>20, GwRooms
  <2>10. /\ GwRoom(round + 1) \in Nat /\ GwRoom(GwMaxLoops) \in Nat
         /\ GwMaxLoops \in Nat /\ GwMaxCalls \in Nat /\ round + 1 <= GwMaxLoops
    BY <2>20, <2>21 DEF next
  <2>11. GwRoom(round + 1) <= GwRoom(GwMaxLoops)
    BY <2>21 DEF next
  <2>12. CASE n = 1
    <3>1. left = round + 1 /\ place \in {"ask", "done"} /\ (place = "ask" => round + 1 < GwMaxLoops)
      BY <2>1, <2>12
    <3>2. Len(captured) <= GwRoom(round + 1) /\ Len(captured) <= GwRoom(GwMaxLoops)
          /\ Len(calls) <= GwMaxCalls
      BY <2>5, <2>6, <2>7, <2>9, <2>10, <2>11, <2>12
    <3>3. GwFit(r)
      BY <2>4, <2>5, <2>10, <3>1, <3>2 DEF GwFit, GwBefore
    <3>4. r.at # "record"
      BY <2>4, <3>1
    <3> QED
      BY <1>1, <2>3, <3>3, <3>4, GwSizedStep
  <2>13. CASE n # 1
    <3>1. left = round /\ place = "tools"
      BY <2>1, <2>13
    <3>2. /\ Len(captured) + Len(calls) <= GwRoom(round + 1) /\ Len(calls) <= GwMaxCalls
          /\ Len(captured) <= GwRoom(GwMaxLoops)
      BY <2>5, <2>6, <2>7, <2>9, <2>10, <2>11
    <3>3. GwFit(r)
      BY <2>4, <2>5, <2>9, <2>10, <3>1, <3>2 DEF GwFit, GwBefore
    <3>4. r.at # "record"
      BY <2>4, <3>1
    <3> QED
      BY <1>1, <2>3, <3>3, <3>4, GwSizedStep
  <2> QED
    BY <2>12, <2>13
<1> QED
  BY <1>2 DEF GwTool

LEMMA GwCreateMissionSized ==
  ASSUME GwIInv, GwSized, NEW q \in GwReqs, GwCreateMission(q)
  PROVE  GwSized'
<1>1. gwReq[q].at = "mission" /\ gwRecorded' = gwRecorded
  BY DEF GwCreateMission, GwAt
<1>2. GwSlug(q) \in GwMission
  <2>1. gwReq[q].session \in GwSessions
    BY <1>1 DEF GwIInv, GwReqOK
  <2>2. gwReq[q].captured \in GwSteps
    BY GwRequestFacts, GwShortSteps DEF GwSized, GwFit
  <2> QED
    BY <2>1, <2>2, GwRequestFacts DEF GwSlug, GwMission
<1>3. /\ gwMissions' \in {gwMissions, gwMissions \cup {GwSlug(q)}}
      /\ \/ GwGoes(q, "record") /\ GwSlug(q) \in gwMissions'
         \/ GwGoes(q, "done")
  BY DEF GwCreateMission
<1>4. GwBooks
  <2>1. gwFails' \in 0..GwMaxFails
    BY GwFailCounts DEF GwCreateMission
  <2> QED
    BY <1>1, <1>2, <1>3, <2>1 DEF GwBooks, GwSized
<1> QED
  BY <1>3, <1>4, GwSizedGoes DEF GwPlaces, GwBefore

LEMMA GwRecordRunSized ==
  ASSUME GwIInv, GwSized, NEW q \in GwReqs, GwRecordRun(q)
  PROVE  GwSized'
<1>1. gwReq[q].at = "record" /\ GwGoes(q, "done") /\ gwMissions' = gwMissions
  BY DEF GwRecordRun, GwAt
<1>2. GwSlug(q) \in gwMissions /\ gwReq[q].session \in GwSessions
  BY <1>1 DEF GwSized, GwIInv, GwReqOK
<1>3. gwRecorded' \in {gwRecorded, gwRecorded \cup {<<GwSlug(q), gwReq[q].session>>}}
  BY DEF GwRecordRun
<1>4. gwFails' \in 0..GwMaxFails
  BY GwFailCounts DEF GwRecordRun
<1>5. GwBooks
  BY <1>1, <1>2, <1>3, <1>4 DEF GwBooks, GwSized
<1> QED
  BY <1>1, <1>5, GwSizedGoes DEF GwPlaces, GwBefore

LEMMA GwRestartSized ==
  ASSUME GwIInv, GwSized, GwRestart
  PROVE  GwSized'
<1>1. GwBooks
  BY GwSameBooks DEF GwRestart, GwApi
<1>2. ASSUME NEW q \in GwReqs PROVE GwFit(gwReq'[q]) /\ gwReq'[q].at # "record"
  <2>1. GwFit(gwReq[q])
    BY DEF GwSized
  <2>2. CASE gwReq[q].at = "new"
    <3>1. gwReq'[q] = gwReq[q]
      BY <2>2 DEF GwRestart, GwAt
    <3> QED
      BY <2>1, <2>2, <3>1
  <2>3. CASE gwReq[q].at # "new"
    <3>1. PICK r : r = [gwReq[q] EXCEPT !.at = "done"]
      OBVIOUS
    <3>2. gwReq'[q] = r
      BY <2>3, <3>1 DEF GwRestart, GwAt
    <3>3. r.at = "done" /\ r.calls = gwReq[q].calls /\ r.captured = gwReq[q].captured
          /\ r.round = gwReq[q].round
      BY <3>1, GwRequestFacts DEF GwReqType
    <3>4. GwFit(r)
      BY <2>1, <3>3 DEF GwFit, GwBefore
    <3> QED
      BY <3>2, <3>3, <3>4
  <2> QED
    BY <2>2, <2>3
<1> QED
  BY <1>1, <1>2 DEF GwSized, GwBooks

LEMMA GwNextSized ==
  ASSUME GwIInv, GwSized, [GwNext]_gwVars
  PROVE  GwSized'
<1>1. ASSUME UNCHANGED <<gwReq, gwMissions, gwRecorded, gwFails>> PROVE GwSized'
  <2>1. \A q \in GwReqs : GwSlug(q)' = GwSlug(q)
    BY <1>1 DEF GwSlug
  <2> QED
    BY <1>1, <2>1 DEF GwSized
<1>2. CASE UNCHANGED gwVars
  BY <1>1, <1>2 DEF gwVars
<1>3. ASSUME NEW s \in GwSessions, GwStop(s) PROVE GwSized'
  BY <1>1, <1>3 DEF GwStop
<1>4. ASSUME NEW q \in GwReqs,
             \/ GwArrive(q) \/ GwLook(q) \/ GwUnbind(q) \/ GwCreate(q) \/ GwBind(q)
             \/ GwAsk(q) \/ GwTool(q) \/ GwCreateMission(q) \/ GwRecordRun(q)
      PROVE  GwSized'
  BY <1>4, GwArriveSized, GwLookSized, GwUnbindSized, GwCreateSized, GwBindSized, GwAskSized,
     GwToolSized, GwCreateMissionSized, GwRecordRunSized
<1> QED
  BY <1>2, <1>3, <1>4, GwRestartSized DEF GwNext

\* A tool call runs in a session made or named for the request's own
\* conversation and never in one that had ended before it came in, and a mission
\* lists what one request ran there with success, in order.
THEOREM ConversationsAreTraced == GwSpec => [](GwTypeOK /\ GwTraced)
<1>1. GwInit => GwIInv /\ GwSized
  BY GwInitIInv, GwInitSized
<1>2. (GwIInv /\ GwSized) /\ [GwNext]_gwVars => (GwIInv /\ GwSized)'
  BY GwNextIInv, GwNextSized
<1>3. GwIInv /\ GwSized => GwTypeOK /\ GwTraced
  BY GwIInvTraced, GwSizedTypes
<1> QED
  BY <1>1, <1>2, <1>3, PTL DEF GwSpec

-----------------------------------------------------------------------------
(* Sessions of the MCP transport *)

\* No window got more than its limit of a caller in any minute.
MhWithin ==
  \A w \in MhWindowNames, c \in MhClients, t \in MhTimes : Cardinality(MhGot(w, c, t)) <= MhLimits[w]

\* A request that may still go to a tier passed the global window, and one that
\* used a tier up got through.
MhPassedInv ==
  /\ \A e \in mhPassed : mhStep[e[2]] # "new"
  /\ \A r \in MhReqs : mhStep[r] \in {"admitted", "authorized"} =>
       mhCaller[r] \in MhClients /\ \E g \in mhPassed : g[1] = "global" /\ g[2] = r
  /\ \A e \in mhPassed : e[1] # "global" =>
       /\ mhStep[e[2]] \in {"running", "answered", "cut"}
       /\ \E g \in mhPassed : g[1] = "global" /\ g[2] = e[2]

MhIInv == MhTypeOK /\ IsFiniteSet(mhPassed) /\ MhWithin /\ MhPassedInv

LEMMA MhLimitsArePositive == \A w \in MhWindowNames : MhLimits[w] \in Nat \ {0}
  BY McpHttpAssumption DEF MhWindowNames, MhLimits

\* Nothing enters a window.
LEMMA MhNothingEnters ==
  ASSUME MhIInv, MhTypeOK', UNCHANGED <<mhPassed, mhCaller>>,
         \A r \in MhReqs : mhStep[r] # "new" => mhStep'[r] # "new",
         \A r \in MhReqs : mhStep'[r] \in {"admitted", "authorized"} => mhStep[r] \in {"admitted", "authorized"},
         \A r \in MhReqs : mhStep[r] \in {"running", "answered", "cut"} => mhStep'[r] \in {"running", "answered", "cut"}
  PROVE  MhIInv'
<1>1. \A e \in mhPassed : e[2] \in MhReqs
  BY DEF MhIInv, MhTypeOK
<1>2. MhWithin'
  BY DEF MhIInv, MhWithin, MhGot
<1>3. MhPassedInv'
  BY <1>1 DEF MhIInv, MhPassedInv
<1> QED
  BY <1>2, <1>3 DEF MhIInv

\* A request refused at the door is a caller's all the same.
LEMMA MhOtherCaller ==
  ASSUME MhIInv, NEW r \in MhReqs, mhStep[r] = "new",
         NEW d \in MhClients, mhCaller' = [mhCaller EXCEPT ![r] = d],
         NEW e \in mhPassed
  PROVE  mhCaller'[e[2]] = mhCaller[e[2]] /\ e[2] \in MhReqs \ {r}
<1>1. e[2] \in MhReqs /\ e[2] # r
  BY DEF MhIInv, MhTypeOK, MhPassedInv
<1> QED
  BY <1>1 DEF MhIInv, MhTypeOK

\* A request that finds room enters the window, and no minute has too many.
LEMMA MhEnters ==
  ASSUME MhIInv, MhTypeOK', NEW w \in MhWindowNames, NEW r \in MhReqs, NEW c \in MhClients,
         MhRoom(w, c), mhPassed' = mhPassed \cup {<<w, r, mhClock>>},
         \A e \in mhPassed : mhCaller'[e[2]] = mhCaller[e[2]], mhCaller'[r] = c
  PROVE  IsFiniteSet(mhPassed)' /\ MhWithin'
<1> DEFINE new == <<w, r, mhClock>>
<1>1. IsFiniteSet(mhPassed')
  BY FS_AddElement DEF MhIInv
<1>2. ASSUME NEW v \in MhWindowNames, NEW d \in MhClients, NEW t \in MhTimes
      PROVE  Cardinality(MhGot(v, d, t))' <= MhLimits[v]
  <2> DEFINE old == MhGot(v, d, t)
  <2>1. IsFiniteSet(old) /\ Cardinality(old) <= MhLimits[v] /\ old \subseteq mhPassed
    <3>1. old \subseteq mhPassed
      BY DEF MhGot
    <3> QED
      BY <3>1, FS_Subset DEF MhIInv, MhWithin
  <2>2. MhGot(v, d, t)' \subseteq old \cup {new}
    BY DEF MhGot
  <2>3. CASE new \notin MhGot(v, d, t)'
    <3>1. MhGot(v, d, t)' \subseteq old
      BY <2>2, <2>3
    <3>2. Cardinality(MhGot(v, d, t)') <= Cardinality(old) /\ Cardinality(MhGot(v, d, t)') \in Nat
          /\ Cardinality(old) \in Nat
      BY <2>1, <3>1, FS_Subset, FS_CardinalityType
    <3> QED
      BY <2>1, <3>2, MhLimitsArePositive
  <2>4. CASE new \in MhGot(v, d, t)'
    <3>1. v = w /\ d = c /\ t <= mhClock /\ mhClock < t + MhMinute
      BY <2>4 DEF MhGot
    <3> DEFINE recent == MhRecent(w, c)
    <3>2. old \subseteq recent
      <4> SUFFICES ASSUME NEW e \in old PROVE e \in recent
        OBVIOUS
      <4>1. e \in mhPassed /\ e[1] = w /\ mhCaller[e[2]] = c /\ t <= e[3] /\ e[3] \in MhTimes
        BY <3>1 DEF MhGot, MhIInv, MhTypeOK
      <4>2. e[3] + MhMinute > mhClock
        BY <3>1, <4>1, McpHttpAssumption DEF MhTimes, MhIInv, MhTypeOK
      <4> QED
        BY <4>1, <4>2 DEF MhRecent
    <3>3. IsFiniteSet(recent)
      <4>1. recent \subseteq mhPassed
        BY DEF MhRecent
      <4> QED
        BY <4>1, FS_Subset DEF MhIInv
    <3>4. Cardinality(old) < MhLimits[w]
      <4>1. Cardinality(recent) < MhLimits[w]
        BY DEF MhRoom
      <4>2. Cardinality(old) <= Cardinality(recent)
        BY <3>2, <3>3, FS_Subset
      <4> QED
        BY <2>1, <3>3, <4>1, <4>2, FS_CardinalityType, MhLimitsArePositive
    <3>5. IsFiniteSet(old \cup {new}) /\ Cardinality(old \cup {new}) <= Cardinality(old) + 1
      <4> HIDE DEF old, new
      <4>1. Cardinality(old) \in Nat
        BY <2>1, FS_CardinalityType
      <4>2. /\ IsFiniteSet(old \cup {new})
            /\ Cardinality(old \cup {new}) = IF new \in old THEN Cardinality(old) ELSE Cardinality(old) + 1
        BY <2>1, FS_AddElement
      <4> QED
        BY <4>1, <4>2
    <3>6. Cardinality(MhGot(v, d, t)') <= Cardinality(old \cup {new})
          /\ Cardinality(MhGot(v, d, t)') \in Nat
      BY <2>2, <3>5, FS_Subset, FS_CardinalityType
    <3> QED
      BY <2>1, <3>1, <3>4, <3>5, <3>6, FS_CardinalityType, MhLimitsArePositive
  <2> QED
    BY <2>3, <2>4
<1> QED
  BY <1>1, <1>2 DEF MhWithin

LEMMA MhAdmitIInv ==
  ASSUME MhIInv, NEW r \in MhReqs, NEW c \in MhClients, NEW tool \in MhTools, MhAdmit(r, c, tool)
  PROVE  MhIInv'
<1>1. /\ mhStep[r] = "new" /\ UNCHANGED <<mhClock, mhServer>>
      /\ mhCaller' = [mhCaller EXCEPT ![r] = c] /\ mhTool' = [mhTool EXCEPT ![r] = tool]
      /\ MhAllow("global", r, c, "admitted")
  BY DEF MhAdmit
<1>2. /\ mhCaller' \in [MhReqs -> MhClients \cup {"nobody"}] /\ mhTool' \in [MhReqs -> {"heavy", "write", "read"}]
      /\ mhCaller'[r] = c
  BY <1>1, McpHttpAssumption DEF MhIInv, MhTypeOK
<1>3. \A e \in mhPassed : mhCaller'[e[2]] = mhCaller[e[2]] /\ e[2] \in MhReqs \ {r}
  BY <1>1, MhOtherCaller
<1>6. \A p \in MhReqs \ {r} : mhCaller'[p] = mhCaller[p]
  BY <1>1 DEF MhIInv, MhTypeOK
<1>4. CASE /\ MhRoom("global", c) /\ mhStep' = [mhStep EXCEPT ![r] = "admitted"]
           /\ mhPassed' = mhPassed \cup {<<"global", r, mhClock>>}
  <2>1. MhTypeOK'
    BY <1>1, <1>2, <1>4 DEF MhIInv, MhTypeOK, MhWindowNames
  <2>2. IsFiniteSet(mhPassed)' /\ MhWithin'
    BY <1>2, <1>3, <1>4, <2>1, MhEnters DEF MhWindowNames
  <2>3. mhStep'[r] = "admitted" /\ \A p \in MhReqs \ {r} : mhStep'[p] = mhStep[p]
    BY <1>4 DEF MhIInv, MhTypeOK
  <2>4. MhPassedInv'
    <3> DEFINE new == <<"global", r, mhClock>>
    <3>1. new[1] = "global" /\ new[2] = r /\ mhPassed' = mhPassed \cup {new}
      BY <1>4
    <3> HIDE DEF new
    <3> QED
      BY <1>2, <1>3, <1>6, <2>3, <3>1 DEF MhIInv, MhPassedInv
  <2> QED
    BY <2>1, <2>2, <2>4 DEF MhIInv
<1>5. CASE mhStep' = [mhStep EXCEPT ![r] = "limited"] /\ mhPassed' = mhPassed
  <2>1. MhTypeOK'
    BY <1>1, <1>2, <1>5 DEF MhIInv, MhTypeOK
  <2>2. mhStep'[r] = "limited" /\ \A p \in MhReqs \ {r} : mhStep'[p] = mhStep[p]
    BY <1>5 DEF MhIInv, MhTypeOK
  <2>3. MhPassedInv'
    BY <1>3, <1>5, <1>6, <2>2 DEF MhIInv, MhPassedInv
  <2>4. MhWithin'
    <3> SUFFICES ASSUME NEW v \in MhWindowNames, NEW d \in MhClients, NEW t \in MhTimes
                 PROVE  Cardinality(MhGot(v, d, t))' <= MhLimits[v]
      BY DEF MhWithin
    <3>1. MhGot(v, d, t)' = MhGot(v, d, t)
      BY <1>3, <1>5 DEF MhGot
    <3> QED
      BY <3>1 DEF MhIInv, MhWithin
  <2> QED
    BY <1>5, <2>1, <2>3, <2>4 DEF MhIInv
<1> QED
  BY <1>1, <1>4, <1>5 DEF MhAllow, MhMove

LEMMA MhDispatchIInv ==
  ASSUME MhIInv, NEW r \in MhReqs, MhDispatch(r)
  PROVE  MhIInv'
<1>1. mhStep[r] = "authorized" /\ UNCHANGED <<mhClock, mhCaller, mhTool, mhServer>>
  BY DEF MhDispatch
<1>2. CASE mhStep' \in {[mhStep EXCEPT ![r] = "running"], [mhStep EXCEPT ![r] = "limited"]}
           /\ mhPassed' = mhPassed
  <2>1. mhStep'[r] \in {"running", "limited"} /\ \A p \in MhReqs \ {r} : mhStep'[p] = mhStep[p]
    BY <1>2 DEF MhIInv, MhTypeOK
  <2>2. MhTypeOK'
    BY <1>1, <1>2 DEF MhIInv, MhTypeOK
  <2> QED
    BY <1>1, <1>2, <2>1, <2>2, MhNothingEnters
<1>3. CASE /\ mhTool[r] # "read" /\ MhRoom(mhTool[r], mhCaller[r])
           /\ mhStep' = [mhStep EXCEPT ![r] = "running"]
           /\ mhPassed' = mhPassed \cup {<<mhTool[r], r, mhClock>>}
  <2>1. mhTool[r] \in MhWindowNames
    BY <1>3 DEF MhIInv, MhTypeOK, MhWindowNames
  <2>2. MhTypeOK'
    BY <1>1, <1>3, <2>1 DEF MhIInv, MhTypeOK
  <2>3. mhStep'[r] = "running" /\ \A p \in MhReqs \ {r} : mhStep'[p] = mhStep[p]
    BY <1>3 DEF MhIInv, MhTypeOK
  <2>4. PICK g \in mhPassed : g[1] = "global" /\ g[2] = r
    BY <1>1 DEF MhIInv, MhPassedInv
  <2>5. mhCaller[r] \in MhClients
    BY <1>1 DEF MhIInv, MhPassedInv
  <2>6. IsFiniteSet(mhPassed)' /\ MhWithin'
    BY <1>1, <1>3, <2>1, <2>2, <2>5, MhEnters
  <2>7. MhPassedInv'
    <3> DEFINE new == <<mhTool[r], r, mhClock>>
    <3>1. new[2] = r /\ mhPassed' = mhPassed \cup {new}
      BY <1>3
    <3>2. \A e \in mhPassed : e[2] \in MhReqs
      BY DEF MhIInv, MhTypeOK
    <3> HIDE DEF new
    <3> QED
      BY <1>1, <2>3, <2>4, <3>1, <3>2 DEF MhIInv, MhPassedInv
  <2> QED
    BY <2>2, <2>6, <2>7 DEF MhIInv
<1> QED
  BY <1>2, <1>3 DEF MhDispatch, MhAllow, MhMove

LEMMA MhNextIInv ==
  ASSUME MhIInv, [MhNext]_mhVars
  PROVE  MhIInv'
<1>1. CASE MhTick
  <2>1. MhTypeOK' /\ UNCHANGED <<mhCaller, mhTool, mhStep, mhServer, mhPassed>>
    BY <1>1, McpHttpAssumption DEF MhTick, MhIInv, MhTypeOK, MhTimes
  <2> QED
    BY <2>1, MhNothingEnters
<1>2. ASSUME NEW r \in MhReqs, MhAuthorize(r) PROVE MhIInv'
  <2>1. PICK step \in {"authorized", "unauthorized"} :
          /\ mhStep[r] = "admitted" /\ mhStep' = [mhStep EXCEPT ![r] = step]
          /\ UNCHANGED <<mhClock, mhCaller, mhTool, mhServer, mhPassed>>
    BY <1>2 DEF MhAuthorize, MhMove
  <2>2. MhTypeOK'
    BY <2>1 DEF MhIInv, MhTypeOK
  <2>3. mhStep'[r] = step /\ \A p \in MhReqs \ {r} : mhStep'[p] = mhStep[p]
    BY <2>1 DEF MhIInv, MhTypeOK
  <2> QED
    BY <2>1, <2>2, <2>3, MhNothingEnters
<1>3. ASSUME NEW r \in MhReqs, MhAnswer(r) PROVE MhIInv'
  <2>1. /\ mhStep[r] = "running" /\ mhStep' = [mhStep EXCEPT ![r] = "answered"]
        /\ UNCHANGED <<mhClock, mhCaller, mhTool, mhServer, mhPassed>>
    BY <1>3 DEF MhAnswer, MhMove
  <2>2. MhTypeOK'
    BY <2>1 DEF MhIInv, MhTypeOK
  <2>3. mhStep'[r] = "answered" /\ \A p \in MhReqs \ {r} : mhStep'[p] = mhStep[p]
    BY <2>1 DEF MhIInv, MhTypeOK
  <2> QED
    BY <2>1, <2>2, <2>3, MhNothingEnters
<1>4. CASE MhSignal
  <2>1. MhTypeOK' /\ UNCHANGED <<mhCaller, mhTool, mhStep, mhPassed>>
    BY <1>4 DEF MhSignal, MhIInv, MhTypeOK
  <2> QED
    BY <2>1, MhNothingEnters
<1>5. CASE MhExit
  <2>1. /\ mhStep' = [r \in MhReqs |-> IF mhStep[r] \in {"admitted", "authorized", "running"}
                                      THEN "cut" ELSE mhStep[r]]
        /\ mhServer' = "exited" /\ UNCHANGED <<mhClock, mhCaller, mhTool, mhPassed>>
    BY <1>5 DEF MhExit
  <2>2. MhTypeOK'
    BY <2>1 DEF MhIInv, MhTypeOK
  <2> QED
    BY <2>1, <2>2, MhNothingEnters
<1>6. CASE UNCHANGED mhVars
  <2>1. MhTypeOK' /\ UNCHANGED <<mhCaller, mhTool, mhStep, mhPassed>>
    BY <1>6 DEF mhVars, MhIInv, MhTypeOK
  <2> QED
    BY <2>1, MhNothingEnters
<1> QED
  BY <1>1, <1>2, <1>3, <1>4, <1>5, <1>6, MhAdmitIInv, MhDispatchIInv DEF MhNext

LEMMA MhIInvWindowed == MhIInv => MhWindowed
  BY DEF MhIInv, MhWithin, MhPassedInv, MhWindowed

LEMMA MhInitIInv == MhInit => MhIInv
<1> SUFFICES ASSUME MhInit PROVE MhIInv
  OBVIOUS
<1>1. MhTypeOK
  BY McpHttpAssumption DEF MhInit, MhTypeOK, MhTimes
<1>2. IsFiniteSet(mhPassed)
  BY FS_EmptySet DEF MhInit
<1>3. MhWithin
  <2> SUFFICES ASSUME NEW w \in MhWindowNames, NEW c \in MhClients, NEW t \in MhTimes
               PROVE  Cardinality(MhGot(w, c, t)) <= MhLimits[w]
    BY DEF MhWithin
  <2>1. MhGot(w, c, t) = {}
    BY DEF MhGot, MhInit
  <2> QED
    BY <2>1, FS_EmptySet, MhLimitsArePositive
<1> QED
  BY <1>1, <1>2, <1>3 DEF MhInit, MhIInv, MhPassedInv

\* No caller gets more than its limit through a window in any minute, and only
\* a request that passed the global window uses up a tier.
THEOREM CallersAreWindowed == MhSpec => [](MhTypeOK /\ MhWindowed)
<1>1. MhInit => MhIInv
  BY MhInitIInv
<1>2. MhIInv /\ [MhNext]_mhVars => MhIInv'
  BY MhNextIInv
<1>3. MhIInv => MhTypeOK /\ MhWindowed
  BY MhIInvWindowed DEF MhIInv
<1> QED
  BY <1>1, <1>2, <1>3, PTL DEF MhSpec

-----------------------------------------------------------------------------
(* Rate limits *)

LiK == Min({LiLimit, Cardinality(LiReqs)})

\* What a bucket would hold if it were asked now.
LiNow(b) == Min({LiFull, liBucket[b].tokens + (liClock - liBucket[b].last) * LiLimit})

\* What the caller finds.
LiLevel == IF liMap = 0 THEN LiFull ELSE LiNow(liMap)

\* How often, at most, a bucket has been forgotten since: the one in the map
\* was made after that.
LiUntil == IF liMap = 0 THEN liClock ELSE liBucket[liMap].last
LiForgets(from) == IF LiUntil < from THEN 0 ELSE 1 + (LiUntil - from) \div (LiIdle + 1)

\* What Redis has let through since, at most.
LiCounted(from) ==
  IF liKind = "redis"
  THEN LiLimit * (LiMinuteOf(liClock) - LiMinuteOf(from)) + Min({LiLimit, liCount[LiMinuteOf(liClock)]})
  ELSE 0

\* The requests that hold a forgotten bucket, and how many of them may pass.
LiHolders == {q \in LiReqs : liReq[q] \notin {0, liMap}}
LiSpare(h) ==
  \A q \in LiHolders : Cardinality(LiHolders) <= h \/ LiNow(liReq[q]) < (h + 1) * LiMinute

\* What was let through since a tick, what the bucket would let through now and
\* what the holders of the forgotten one may get: no more than flowed in.
LiPotential(h) ==
  \A from \in 1..liClock :
    LiMinute * LiPassed(from, liClock) + LiLevel + LiMinute * h
      <= LiFull + (liClock - from) * LiLimit
           + LiMinute * (LiK * LiForgets(from)) + LiMinute * LiCounted(from)

\* All of these are numbers.
LiSized ==
  /\ LiLevel \in Nat /\ LiLevel <= LiFull
  /\ \A from \in 1..liClock : LiForgets(from) \in Nat /\ LiCounted(from) \in Nat

\* At most one bucket is forgotten and held, forgotten in this tick.
LiHeldInv ==
  /\ \A b \in LiIds : liBucket[b].last <= liClock
  /\ \A p, q \in LiHolders : liReq[p] = liReq[q]
  /\ LiHolders # {} /\ liMap # 0 => liBucket[liMap].last = liClock

\* A window keeps its stamps for a minute.
LiWindowInv ==
  /\ liMap = 0 /\ \A q \in LiReqs : liReq[q] = 0
  /\ \A t \in LiTicks : liWindow[t] <= liOk[t] /\ (t > liClock - LiMinute => liWindow[t] = liOk[t])
  /\ \A from \in 1..liClock : LiWithin(from, liClock)

LiBucketInv ==
  /\ LiHeldInv /\ \E h \in 0..LiK : LiSpare(h) /\ LiPotential(h)
  /\ \A m \in LiMinutes : m > LiMinuteOf(liClock) => liCount[m] = 0

LiPast ==
  /\ IsFiniteSet(LiUnits(liOk, LiTicks)) /\ \A t \in LiTicks : t > liClock => liOk[t] = 0
  /\ \A from, to \in LiTicks : from <= to /\ to < liClock => LiWithin(from, to)

LiIInv ==
  /\ LiTypeOK /\ LiPast
  /\ IF liKind \in {"bucket", "redis"} THEN LiBucketInv ELSE LiWindowInv

(***************************************************************************)
(* Numbers.                                                                *)
(***************************************************************************)

LEMMA LiMinOf ==
  ASSUME NEW a \in Int, NEW b \in Int
  PROVE  Min({a, b}) = IF a <= b THEN a ELSE b
<1>1. \E x \in {a, b} : \A y \in {a, b} : x <= y
  OBVIOUS
<1>2. Min({a, b}) \in {a, b} /\ \A y \in {a, b} : Min({a, b}) <= y
  BY <1>1 DEF Min
<1> QED
  BY <1>2

LEMMA LiTimesGrows ==
  ASSUME NEW a \in Nat, NEW b \in Nat, NEW c \in Nat, a <= b
  PROVE  a * c <= b * c /\ c * a <= c * b /\ a * c \in Nat /\ c * a \in Nat
<1>1. b * c = a * c + (b - a) * c
  OBVIOUS
<1>2. (b - a) * c \in Nat /\ a * c \in Nat
  OBVIOUS
<1> QED
  BY <1>1, <1>2

\* The quotient is the number of times the divisor fits.
LEMMA LiQuotient ==
  ASSUME NEW a \in Nat, NEW d \in Nat \ {0}
  PROVE  a \div d \in Nat /\ d * (a \div d) <= a /\ a < d * (a \div d) + d
  OBVIOUS

LEMMA LiFitsIn ==
  ASSUME NEW p \in Int, NEW x \in Nat, NEW d \in Nat \ {0}, d * p <= x
  PROVE  p <= x \div d
<1> DEFINE n == x \div d
<1>1. n \in Nat /\ x < d * n + d
  BY LiQuotient
<1> HIDE DEF n
<1>2. SUFFICES ASSUME n + 1 <= p PROVE FALSE
  BY <1>1 DEF n
<1>3. d * (n + 1) <= d * p
  BY <1>1, <1>2, LiTimesGrows
<1>4. d * (n + 1) = d * n + d
  BY <1>1
<1> QED
  BY <1>1, <1>3, <1>4

LEMMA LiQuotientGrows ==
  ASSUME NEW a \in Nat, NEW b \in Nat, NEW d \in Nat \ {0}, a <= b
  PROVE  a \div d <= b \div d
<1>1. a \div d \in Nat /\ d * (a \div d) <= a
  BY LiQuotient
<1> QED
  BY <1>1, LiFitsIn

\* One more divisor further, one more time.
LEMMA LiQuotientStep ==
  ASSUME NEW a \in Nat, NEW b \in Nat, NEW d \in Nat \ {0}, a + d <= b
  PROVE  1 + a \div d <= b \div d
<1> DEFINE n == a \div d
<1>1. n \in Nat /\ d * n <= a
  BY LiQuotient
<1> HIDE DEF n
<1>2. d * (1 + n) <= b
  BY <1>1
<1>3. 1 + n <= b \div d
  BY <1>1, <1>2, LiFitsIn
<1> QED
  BY <1>3 DEF n

LEMMA LiConstants ==
  /\ LiLimit \in Nat \ {0} /\ LiMinute \in Nat \ {0} /\ LiIdle \in Nat /\ LiIdle >= LiMinute
  /\ LiFull \in Nat /\ LiFull = LiLimit * LiMinute /\ LiMinute <= LiFull
  /\ Cardinality(LiReqs) \in Nat
  /\ LiK \in Nat /\ LiK = IF LiLimit <= Cardinality(LiReqs) THEN LiLimit ELSE Cardinality(LiReqs)
  /\ LiMaxClock \in Nat \ {0}
<1>1. Cardinality(LiReqs) \in Nat
  BY LimitsAssumption, FS_CardinalityType
<1>2. LiK = IF LiLimit <= Cardinality(LiReqs) THEN LiLimit ELSE Cardinality(LiReqs)
  BY <1>1, LiMinOf, LimitsAssumption DEF LiK
<1>3. 1 * LiMinute <= LiLimit * LiMinute /\ LiLimit * LiMinute \in Nat
  BY LimitsAssumption, LiTimesGrows
<1> QED
  BY <1>1, <1>2, <1>3, LimitsAssumption DEF LiFull

\* Minutes follow each other.
LEMMA LiMinuteGrows ==
  ASSUME NEW s \in Nat, NEW t \in Nat, s <= t
  PROVE  LiMinuteOf(s) \in Nat /\ LiMinuteOf(t) \in Nat /\ LiMinuteOf(s) <= LiMinuteOf(t)
  BY LiConstants, LiQuotient, LiQuotientGrows DEF LiMinuteOf

LEMMA LiTypes ==
  ASSUME LiTypeOK
  PROVE  /\ liClock \in Nat \ {0} /\ liClock \in LiTicks /\ LiTicks \subseteq Nat \ {0}
         /\ LiMinuteOf(liClock) \in LiMinutes /\ liCount[LiMinuteOf(liClock)] \in Nat
         /\ \A b \in LiIds : /\ liBucket[b] \in [tokens : 0..LiFull, last : 0..LiMaxClock]
                             /\ liBucket[b].tokens \in 0..LiFull /\ liBucket[b].last \in Nat
<1>1. liClock \in Nat \ {0} /\ liClock \in LiTicks /\ LiTicks \subseteq Nat \ {0}
  BY LiConstants DEF LiTypeOK, LiTicks
<1>2. LiMinuteOf(liClock) \in LiMinutes
  BY <1>1 DEF LiMinutes
<1>3. liCount[LiMinuteOf(liClock)] \in Nat
  BY <1>2 DEF LiTypeOK
<1>4. ASSUME NEW b \in LiIds
      PROVE  /\ liBucket[b] \in [tokens : 0..LiFull, last : 0..LiMaxClock]
             /\ liBucket[b].tokens \in 0..LiFull /\ liBucket[b].last \in Nat
  <2>1. liBucket[b] \in [tokens : 0..LiFull, last : 0..LiMaxClock]
    BY DEF LiTypeOK
  <2> QED
    BY <2>1, LiConstants
<1> QED
  BY <1>1, <1>2, <1>3, <1>4

\* A bucket holds no more than a full one.
LEMMA LiNowType ==
  ASSUME LiTypeOK, NEW b \in LiIds, liBucket[b].last <= liClock
  PROVE  /\ liClock - liBucket[b].last \in Nat /\ (liClock - liBucket[b].last) * LiLimit \in Nat
         /\ LiNow(b) \in Nat /\ LiNow(b) <= LiFull
         /\ LiNow(b) = IF LiFull <= liBucket[b].tokens + (liClock - liBucket[b].last) * LiLimit THEN LiFull
                       ELSE liBucket[b].tokens + (liClock - liBucket[b].last) * LiLimit
<1> DEFINE k == liBucket[b].tokens
           d == liClock - liBucket[b].last
<1>1. k \in Nat /\ d \in Nat
  BY LiTypes, LiConstants
<1>2. d * LiLimit \in Nat
  BY <1>1, LiConstants
<1>3. LiNow(b) = Min({LiFull, k + d * LiLimit})
  BY DEF LiNow
<1> HIDE DEF k, d
<1>4. LiNow(b) = IF LiFull <= k + d * LiLimit THEN LiFull ELSE k + d * LiLimit
  BY <1>1, <1>2, <1>3, LiMinOf, LiConstants
<1>5. LiNow(b) \in Nat /\ LiNow(b) <= LiFull
  BY <1>1, <1>2, <1>4, LiConstants
<1> QED
  BY <1>1, <1>2, <1>4, <1>5 DEF k, d

LEMMA LiLevelType ==
  ASSUME LiTypeOK, LiHeldInv
  PROVE  LiLevel \in Nat /\ LiLevel <= LiFull
<1>1. liMap # 0 => liMap \in LiIds /\ liBucket[liMap].last <= liClock
  BY DEF LiTypeOK, LiHeldInv
<1> QED
  BY <1>1, LiNowType, LiConstants DEF LiLevel

LEMMA LiForgetsType ==
  ASSUME LiTypeOK, LiHeldInv, NEW from \in 1..liClock
  PROVE  /\ LiForgets(from) \in Nat
         /\ liClock - from \in Nat /\ LiForgets(from) <= 1 + (liClock - from) \div (LiIdle + 1)
<1> DEFINE until == LiUntil
<1>1. until \in Nat /\ until <= liClock /\ from \in Nat /\ liClock \in Nat
  BY LiTypes DEF LiTypeOK, LiHeldInv, LiUntil
<1>2. LiForgets(from) = IF until < from THEN 0 ELSE 1 + (until - from) \div (LiIdle + 1)
  BY DEF LiForgets
<1> HIDE DEF until
<1>3. LiIdle + 1 \in Nat \ {0}
  BY LiConstants
<1>4. (liClock - from) \div (LiIdle + 1) \in Nat
  BY <1>1, <1>3, LiQuotient
<1>5. CASE until < from
  BY <1>1, <1>2, <1>4, <1>5
<1>6. CASE from <= until
  <2>1. (until - from) \div (LiIdle + 1) \in Nat
    BY <1>1, <1>3, <1>6, LiQuotient
  <2>2. (until - from) \div (LiIdle + 1) <= (liClock - from) \div (LiIdle + 1)
    BY <1>1, <1>3, <1>6, LiQuotientGrows
  <2> QED
    BY <1>1, <1>2, <1>4, <1>6, <2>1, <2>2
<1> QED
  BY <1>1, <1>5, <1>6

LEMMA LiCountedType ==
  ASSUME LiTypeOK, NEW from \in 1..liClock
  PROVE  /\ LiCounted(from) \in Nat /\ (liKind # "redis" => LiCounted(from) = 0)
         /\ LiMinuteOf(liClock) - LiMinuteOf(from) \in Nat
         /\ LiCounted(from) <= LiLimit * (1 + LiMinuteOf(liClock) - LiMinuteOf(from))
         /\ liKind = "redis" =>
              LiCounted(from) = LiLimit * (LiMinuteOf(liClock) - LiMinuteOf(from))
                + IF LiLimit <= liCount[LiMinuteOf(liClock)] THEN LiLimit ELSE liCount[LiMinuteOf(liClock)]
<1> DEFINE d == LiMinuteOf(liClock) - LiMinuteOf(from)
           n == liCount[LiMinuteOf(liClock)]
<1>1. d \in Nat /\ n \in Nat /\ LiLimit \in Nat
  <2>1. liClock \in Nat /\ from \in Nat /\ from <= liClock
    BY LiTypes
  <2>2. LiMinuteOf(liClock) \in Nat /\ LiMinuteOf(from) \in Nat /\ LiMinuteOf(from) <= LiMinuteOf(liClock)
    BY <2>1, LiMinuteGrows
  <2> QED
    BY <2>2, LiTypes, LiConstants
<1>2. LiMinuteOf(liClock) \in Nat /\ LiMinuteOf(from) \in Nat
  BY LiTypes, LiMinuteGrows
<1>3. Min({LiLimit, n}) = IF LiLimit <= n THEN LiLimit ELSE n
  BY <1>1, LiMinOf
<1>4. LiCounted(from) = IF liKind = "redis" THEN LiLimit * d + Min({LiLimit, n}) ELSE 0
  BY DEF LiCounted
<1>5. 1 + LiMinuteOf(liClock) - LiMinuteOf(from) = 1 + d
  BY <1>2
<1> HIDE DEF d, n
<1>6. LiLimit * d \in Nat /\ LiLimit * (1 + d) = LiLimit * d + LiLimit
  BY <1>1
<1>7. /\ LiCounted(from) \in Nat /\ (liKind # "redis" => LiCounted(from) = 0)
      /\ LiCounted(from) <= LiLimit * (1 + d)
  BY <1>1, <1>3, <1>4, <1>6
<1>8. liKind = "redis" => LiCounted(from) = LiLimit * d + IF LiLimit <= n THEN LiLimit ELSE n
  BY <1>3, <1>4
<1> QED
  BY <1>1, <1>5, <1>7, <1>8 DEF d, n

-----------------------------------------------------------------------------
(***************************************************************************)
(* Sums.                                                                   *)
(***************************************************************************)

LEMMA LiUnit ==
  ASSUME NEW many, NEW ticks, NEW u
  PROVE  u \in LiUnits(many, ticks) <=> \E t \in ticks : \E n \in 1..many[t] : u = <<t, n>>
  BY DEF LiUnits

LEMMA LiFewerUnits ==
  ASSUME NEW many, NEW ticks, NEW fewer, NEW some \in SUBSET ticks, IsFiniteSet(LiUnits(many, ticks)),
         \A t \in some : fewer[t] \in Nat /\ many[t] \in Nat /\ fewer[t] <= many[t]
  PROVE  /\ LiUnits(fewer, some) \subseteq LiUnits(many, ticks)
         /\ IsFiniteSet(LiUnits(fewer, some)) /\ Cardinality(LiUnits(fewer, some)) \in Nat
         /\ Cardinality(LiUnits(fewer, some)) <= Cardinality(LiUnits(many, ticks))
<1>1. ASSUME NEW u \in LiUnits(fewer, some) PROVE u \in LiUnits(many, ticks)
  <2>1. PICK t \in some : \E n \in 1..fewer[t] : u = <<t, n>>
    BY LiUnit
  <2>9. PICK n \in 1..fewer[t] : u = <<t, n>>
    BY <2>1
  <2>2. n \in 1..many[t] /\ t \in ticks
    BY <2>1, <2>9
  <2> QED
    BY <2>1, <2>9, <2>2, LiUnit
<1> QED
  BY <1>1, FS_Subset, FS_CardinalityType

\* One more at a tick is one unit more.
LEMMA LiOneMore ==
  ASSUME NEW some, NEW many, NEW more, NEW c, IsFiniteSet(LiUnits(many, some)),
         \A t \in some : many[t] \in Nat /\ more[t] = IF t = c THEN many[t] + 1 ELSE many[t]
  PROVE  /\ IsFiniteSet(LiUnits(more, some)) /\ Cardinality(LiUnits(many, some)) \in Nat
         /\ c \in some => Cardinality(LiUnits(more, some)) = Cardinality(LiUnits(many, some)) + 1
         /\ c \notin some => LiUnits(more, some) = LiUnits(many, some)
<1>1. \A t \in some : many[t] \in Nat /\ more[t] = IF t = c THEN many[t] + 1 ELSE many[t]
  OBVIOUS
<1>3. Cardinality(LiUnits(many, some)) \in Nat
  BY FS_CardinalityType
<1>4. CASE c \in some
  <2> DEFINE new == <<c, many[c] + 1>>
  <2>1. ASSUME NEW u \in LiUnits(more, some) PROVE u \in LiUnits(many, some) \cup {new}
    <3>1. PICK t \in some : \E n \in 1..more[t] : u = <<t, n>>
      BY DEF LiUnits
    <3>9. PICK n \in 1..more[t] : u = <<t, n>>
      BY <3>1
    <3>2. n \in 1..many[t] \/ (t = c /\ n = many[c] + 1)
      BY <1>1, <3>1, <3>9
    <3> QED
      BY <3>1, <3>9, <3>2, LiUnit
  <2>2. ASSUME NEW u \in LiUnits(many, some) PROVE u \in LiUnits(more, some)
    <3>1. PICK t \in some : \E n \in 1..many[t] : u = <<t, n>>
      BY LiUnit
    <3>9. PICK n \in 1..many[t] : u = <<t, n>>
      BY <3>1
    <3>2. many[t] \in Nat /\ n \in 1..more[t]
      BY <1>1, <3>1, <3>9
    <3> QED
      BY <3>1, <3>9, <3>2, LiUnit
  <2>3. new \in LiUnits(more, some)
    <3>1. many[c] + 1 \in 1..more[c]
      BY <1>1, <1>4
    <3> QED
      BY <1>4, <3>1, LiUnit
  <2>4. new \notin LiUnits(many, some)
    <3>1. \A u \in LiUnits(many, some) : \E t \in some : \E n \in 1..many[t] : u = <<t, n>>
      BY DEF LiUnits
    <3>2. \A t \in some : \A n \in 1..many[t] : new # <<t, n>>
      BY <1>1, <1>4
    <3> HIDE DEF new
    <3> QED
      BY <3>1, <3>2
  <2> HIDE DEF new
  <2>5. LiUnits(more, some) = LiUnits(many, some) \cup {new}
    BY <2>1, <2>2, <2>3
  <2>6. /\ IsFiniteSet(LiUnits(many, some) \cup {new})
        /\ Cardinality(LiUnits(many, some) \cup {new})
             = IF new \in LiUnits(many, some) THEN Cardinality(LiUnits(many, some))
               ELSE Cardinality(LiUnits(many, some)) + 1
    BY FS_AddElement
  <2> QED
    BY <1>3, <1>4, <2>4, <2>5, <2>6
<1>5. CASE c \notin some
  <2>1. \A t \in some : more[t] = many[t]
    BY <1>1, <1>5
  <2>2. LiUnits(more, some) = LiUnits(many, some)
    BY <2>1 DEF LiUnits
  <2> QED
    BY <1>3, <1>5, <2>2
<1> QED
  BY <1>4, <1>5

\* What is let through adds to each stretch that ends now, to none that is over.
LEMMA LiPassAdds ==
  ASSUME LiTypeOK, LiPast, UNCHANGED <<liKind, liClock>>, NEW yes \in BOOLEAN, LiPass(yes)
  PROVE  /\ LiPast' /\ liOk' \in [LiTicks -> Nat]
         /\ \A from \in 1..liClock : /\ LiPassed(from, liClock) \in Nat
                                     /\ LiPassed(from, liClock)' = LiPassed(from, liClock) + IF yes THEN 1 ELSE 0
<1>1. /\ liOk \in [LiTicks -> Nat] /\ liClock \in LiTicks /\ liClock \in Nat /\ LiTicks \subseteq Nat \ {0}
      /\ IsFiniteSet(LiUnits(liOk, LiTicks)) /\ 1..liClock \subseteq LiTicks
  BY LiTypes, LiConstants DEF LiTypeOK, LiPast, LiTicks
<1>2. ASSUME NEW from \in LiTicks, NEW to \in LiTicks
      PROVE  /\ from..to \subseteq LiTicks /\ IsFiniteSet(LiUnits(liOk, from..to))
             /\ LiPassed(from, to) \in Nat
  <2>1. from..to \in SUBSET LiTicks
    BY LiConstants DEF LiTicks
  <2>2. \A t \in from..to : liOk[t] \in Nat /\ liOk[t] <= liOk[t]
    BY <1>1, <2>1
  <2>3. IsFiniteSet(LiUnits(liOk, from..to)) /\ Cardinality(LiUnits(liOk, from..to)) \in Nat
    BY <1>1, <2>1, <2>2, LiFewerUnits
  <2> QED
    BY <2>1, <2>3 DEF LiPassed
<1>3. CASE ~yes
  <2>1. liOk' = liOk
    BY <1>3 DEF LiPass
  <2>2. ASSUME NEW from \in LiTicks, NEW to \in LiTicks
        PROVE  /\ LiPassed(from, to)' = LiPassed(from, to)
               /\ LiWithin(from, to)' = LiWithin(from, to)
    BY <2>1 DEF LiPassed, LiWithin
  <2>3. LiPast'
    BY <2>1, <2>2 DEF LiPast
  <2>4. ASSUME NEW from \in 1..liClock
        PROVE  LiPassed(from, liClock) \in Nat /\ LiPassed(from, liClock)' = LiPassed(from, liClock)
    BY <1>1, <1>2, <2>1 DEF LiPassed
  <2> QED
    BY <1>1, <1>3, <2>1, <2>3, <2>4
<1>4. CASE yes
  <2>1. liOk' = [liOk EXCEPT ![liClock] = @ + 1]
    BY <1>4 DEF LiPass
  <2>9. ASSUME NEW some \in SUBSET LiTicks, IsFiniteSet(LiUnits(liOk, some))
        PROVE  /\ IsFiniteSet(LiUnits(liOk', some)) /\ Cardinality(LiUnits(liOk, some)) \in Nat
               /\ liClock \in some =>
                    Cardinality(LiUnits(liOk', some)) = Cardinality(LiUnits(liOk, some)) + 1
               /\ liClock \notin some => LiUnits(liOk', some) = LiUnits(liOk, some)
    <3>1. \A t \in some : liOk[t] \in Nat /\ liOk'[t] = IF t = liClock THEN liOk[t] + 1 ELSE liOk[t]
      BY <1>1, <2>1
    <3> QED
      BY <2>9, <3>1, LiOneMore
  <2>2. IsFiniteSet(LiUnits(liOk', LiTicks))
    BY <1>1, <2>9
  <2>3. liOk' \in [LiTicks -> Nat] /\ \A t \in LiTicks : t > liClock => liOk'[t] = 0
    BY <1>1, <2>1 DEF LiPast
  <2>4. ASSUME NEW from \in LiTicks, NEW to \in LiTicks, from <= to, to < liClock
        PROVE  LiWithin(from, to)'
    <3> DEFINE some == from..to
    <3>1. liClock \notin some /\ some \in SUBSET LiTicks /\ IsFiniteSet(LiUnits(liOk, some))
      BY <1>1, <1>2, <2>4
    <3> HIDE DEF some
    <3>2. LiUnits(liOk', some) = LiUnits(liOk, some)
      BY <3>1, <2>9
    <3>3. LiPassed(from, to)' = LiPassed(from, to)
      BY <3>2 DEF LiPassed, some
    <3>4. LiWithin(from, to)
      BY <2>4 DEF LiPast
    <3> QED
      BY <3>3, <3>4 DEF LiWithin
  <2>5. ASSUME NEW from \in 1..liClock
        PROVE  /\ LiPassed(from, liClock) \in Nat
               /\ LiPassed(from, liClock)' = LiPassed(from, liClock) + 1
    <3> DEFINE some == from..liClock
    <3>1. liClock \in some /\ some \in SUBSET LiTicks /\ IsFiniteSet(LiUnits(liOk, some))
      BY <1>1, <1>2
    <3> HIDE DEF some
    <3>2. Cardinality(LiUnits(liOk', some)) = Cardinality(LiUnits(liOk, some)) + 1
          /\ Cardinality(LiUnits(liOk, some)) \in Nat
      BY <3>1, <2>9
    <3> QED
      BY <3>2 DEF LiPassed, some
  <2>6. LiPast'
    BY <2>2, <2>3, <2>4 DEF LiPast
  <2> QED
    BY <1>4, <2>3, <2>5, <2>6
<1> QED
  BY <1>3, <1>4

\* Nothing is let through later than now.
LEMMA LiNothingLater ==
  ASSUME LiTypeOK, LiPast, NEW from \in LiTicks, NEW to \in LiTicks, liClock <= to
  PROVE  /\ from <= liClock => LiPassed(from, to) = LiPassed(from, liClock) /\ LiPassed(from, to) \in Nat
         /\ liClock < from => LiPassed(from, to) = 0
<1>1. /\ LiTicks \subseteq Nat /\ from..to \in SUBSET LiTicks /\ liClock \in LiTicks
      /\ from..liClock \in SUBSET LiTicks /\ liOk \in [LiTicks -> Nat]
  BY LiTypes, LiConstants DEF LiTicks, LiTypeOK
<1>2. \A t \in LiTicks : t > liClock => 1..liOk[t] = {}
  BY DEF LiPast
<1>3. CASE from <= liClock
  <2>1. ASSUME NEW t \in from..to, t \notin from..liClock PROVE 1..liOk[t] = {}
    BY <1>1, <1>2, <2>1
  <2>2. from..liClock \subseteq from..to
    BY <1>1
  <2>3. LiUnits(liOk, from..to) = LiUnits(liOk, from..liClock)
    BY <2>1, <2>2 DEF LiUnits
  <2>4. \A t \in from..to : liOk[t] \in Nat /\ liOk[t] <= liOk[t]
    BY <1>1
  <2>5. Cardinality(LiUnits(liOk, from..to)) \in Nat
    BY <1>1, <2>4, LiFewerUnits DEF LiPast
  <2> QED
    BY <1>1, <1>3, <2>3, <2>5 DEF LiPassed
<1>4. CASE liClock < from
  <2>1. ASSUME NEW t \in from..to PROVE 1..liOk[t] = {}
    BY <1>1, <1>2, <1>4
  <2>2. LiUnits(liOk, from..to) = {}
    BY <2>1 DEF LiUnits
  <2> QED
    <3>1. Cardinality({}) = 0
      BY FS_EmptySet
    <3>2. LiPassed(from, to) = 0
      BY <2>2, <3>1 DEF LiPassed
    <3> QED
      BY <1>1, <1>4, <3>2
<1> QED
  BY <1>1, <1>3, <1>4

-----------------------------------------------------------------------------
(***************************************************************************)
(* The potential.                                                          *)
(***************************************************************************)

LEMMA LiForgetsGrows ==
  ASSUME LiTypeOK, LiHeldInv, LiUntil' \in Nat, LiUntil <= LiUntil', NEW from \in 1..liClock
  PROVE  LiForgets(from) <= LiForgets(from)' /\ LiForgets(from)' \in Nat
<1> DEFINE u == LiUntil
           w == LiUntil'
<1>1. u \in Nat /\ w \in Nat /\ from \in Nat /\ u <= w
  BY LiTypes DEF LiTypeOK, LiHeldInv, LiUntil
<1>2. /\ LiForgets(from) = IF u < from THEN 0 ELSE 1 + (u - from) \div (LiIdle + 1)
      /\ LiForgets(from)' = IF w < from THEN 0 ELSE 1 + (w - from) \div (LiIdle + 1)
  BY DEF LiForgets
<1>3. LiIdle + 1 \in Nat \ {0}
  BY LiConstants
<1> HIDE DEF u, w
<1>4. from <= w => (w - from) \div (LiIdle + 1) \in Nat
  BY <1>1, <1>3, LiQuotient
<1>5. from <= u => (u - from) \div (LiIdle + 1) <= (w - from) \div (LiIdle + 1)
                   /\ (u - from) \div (LiIdle + 1) \in Nat
  BY <1>1, <1>3, LiQuotientGrows, LiQuotient
<1> QED
  BY <1>1, <1>2, <1>4, <1>5

LEMMA LiSizes == LiTypeOK /\ LiHeldInv => LiSized
<1> SUFFICES ASSUME LiTypeOK, LiHeldInv PROVE LiSized
  OBVIOUS
<1> QED
  BY LiLevelType, LiForgetsType, LiCountedType DEF LiSized

\* Within a tick: what is let through is taken from the level, from the holders,
\* or granted by Redis, and a bucket is forgotten at a price.
LEMMA LiPotentialMoves ==
  ASSUME LiTypeOK, LiHeldInv, LiTypeOK', LiHeldInv', UNCHANGED liClock,
         NEW h \in Nat, LiPotential(h), NEW k \in Nat, NEW y \in Nat, NEW g \in Nat, NEW r \in Nat,
         \A from \in 1..liClock : /\ LiPassed(from, liClock) \in Nat
                                  /\ LiPassed(from, liClock)' = LiPassed(from, liClock) + y,
         \A from \in 1..liClock : LiForgets(from) + g <= LiForgets(from)',
         \A from \in 1..liClock : LiCounted(from) + r <= LiCounted(from)',
         LiLevel' + LiMinute * (k + y) <= LiLevel + LiMinute * h + LiMinute * (LiK * g) + LiMinute * r
  PROVE  LiPotential(k)'
<1> SUFFICES ASSUME NEW from \in 1..liClock
             PROVE  (LiMinute * LiPassed(from, liClock) + LiLevel + LiMinute * k
                      <= LiFull + (liClock - from) * LiLimit
                           + LiMinute * (LiK * LiForgets(from)) + LiMinute * LiCounted(from))'
  BY DEF LiPotential
<1>1. LiSized
  BY LiSizes
<1>2. (LiTypeOK /\ LiHeldInv => LiSized)'
  BY LiSizes, PTL
<1>3. liClock' = liClock /\ from \in Nat /\ liClock - from \in Nat
  BY LiTypes
<1> DEFINE p == LiPassed(from, liClock)
           B == LiFull + (liClock - from) * LiLimit
<1>4. B \in Nat /\ p \in Nat /\ LiPassed(from, liClock)' = p + y
  BY <1>3, LiConstants
<1>5. LiMinute * p + LiLevel + LiMinute * h <= B + LiMinute * (LiK * LiForgets(from)) + LiMinute * LiCounted(from)
  BY DEF LiPotential
<1>6. /\ LiLevel \in Nat /\ LiForgets(from) \in Nat /\ LiCounted(from) \in Nat
      /\ LiLevel' \in Nat /\ LiForgets(from)' \in Nat /\ LiCounted(from)' \in Nat
  BY <1>1, <1>2, <1>3 DEF LiSized
<1>7. /\ LiForgets(from) + g <= LiForgets(from)' /\ LiCounted(from) + r <= LiCounted(from)'
      /\ LiMinute \in Nat /\ LiK \in Nat
  BY LiConstants
<1> DEFINE K == LiK
           F == LiForgets(from)
           G == LiForgets(from)'
           C == LiCounted(from)
           D == LiCounted(from)'
           V == LiLevel
           W == LiLevel'
           m == LiMinute
<1>8. /\ m * p + V + m * h <= B + m * (K * F) + m * C
      /\ F + g <= G /\ C + r <= D
      /\ W + m * (k + y) <= V + m * h + m * (K * g) + m * r
      /\ p \in Nat /\ B \in Nat /\ K \in Nat /\ F \in Nat /\ G \in Nat /\ C \in Nat /\ D \in Nat
      /\ V \in Nat /\ W \in Nat /\ m \in Nat
  BY <1>4, <1>5, <1>6, <1>7
<1> HIDE DEF p, B, K, F, G, C, D, V, W, m
<1>9. K * (F + g) <= K * G /\ K * (F + g) \in Nat /\ K * G \in Nat
  BY <1>8, LiTimesGrows
<1>10. m * (K * (F + g)) <= m * (K * G)
  BY <1>8, <1>9, LiTimesGrows
<1>11. m * (C + r) <= m * D
  BY <1>8, LiTimesGrows
<1>12. /\ m * (K * (F + g)) = m * (K * F) + m * (K * g) /\ m * (C + r) = m * C + m * r
       /\ m * (p + y) = m * p + m * y /\ m * (k + y) = m * k + m * y
  BY <1>8
<1>13. m * (p + y) + W + m * k <= B + m * (K * G) + m * D
  BY <1>8, <1>10, <1>11, <1>12
<1> QED
  BY <1>3, <1>4, <1>13 DEF B, K, G, D, W, m

-----------------------------------------------------------------------------
(***************************************************************************)
(* What the potential bounds.                                              *)
(***************************************************************************)

LEMMA LiBucketsGrow ==
  ASSUME NEW from \in Nat, NEW s \in Nat, NEW t \in Nat, from <= s, s <= t
  PROVE  /\ LiBuckets(from, s) \in Nat /\ LiBuckets(from, s) <= LiBuckets(from, t)
         /\ LiBuckets(from, s) = LiLimit + ((s - from) * LiLimit) \div LiMinute
                                   + (1 + (s - from) \div (LiIdle + 1)) * LiK
<1> DEFINE a == s - from
           b == t - from
           I == LiIdle + 1
<1>1. a \in Nat /\ b \in Nat /\ a <= b /\ I \in Nat \ {0} /\ LiLimit \in Nat /\ LiMinute \in Nat \ {0} /\ LiK \in Nat
  BY LiConstants
<1>2. /\ LiBuckets(from, s) = LiLimit + (a * LiLimit) \div LiMinute + (1 + a \div I) * LiK
      /\ LiBuckets(from, t) = LiLimit + (b * LiLimit) \div LiMinute + (1 + b \div I) * LiK
  BY DEF LiBuckets, LiK
<1> HIDE DEF a, b, I
<1>3. a \div I \in Nat /\ b \div I \in Nat /\ a \div I <= b \div I
  BY <1>1, LiQuotient, LiQuotientGrows
<1>4. (1 + a \div I) * LiK \in Nat /\ (1 + b \div I) * LiK \in Nat /\ (1 + a \div I) * LiK <= (1 + b \div I) * LiK
  BY <1>1, <1>3, LiTimesGrows
<1>5. a * LiLimit \in Nat /\ b * LiLimit \in Nat /\ a * LiLimit <= b * LiLimit
  BY <1>1, LiTimesGrows
<1>6. /\ (a * LiLimit) \div LiMinute \in Nat /\ (b * LiLimit) \div LiMinute \in Nat
      /\ (a * LiLimit) \div LiMinute <= (b * LiLimit) \div LiMinute
  BY <1>1, <1>5, LiQuotient, LiQuotientGrows
<1>7. LiBuckets(from, s) \in Nat /\ LiBuckets(from, s) <= LiBuckets(from, t)
  BY <1>1, <1>2, <1>4, <1>6
<1> QED
  BY <1>2, <1>7 DEF a, I

LEMMA LiPotentialBounds ==
  ASSUME LiTypeOK, LiHeldInv, liKind \in {"bucket", "redis"}, NEW h \in Nat, LiPotential(h),
         NEW from \in 1..liClock, LiPassed(from, liClock) \in Nat
  PROVE  LiWithin(from, liClock)
<1> DEFINE p == LiPassed(from, liClock)
           d == liClock - from
           F == LiForgets(from)
           G == 1 + d \div (LiIdle + 1)
           C == LiCounted(from)
           x == d * LiLimit
<1>1. /\ d \in Nat /\ F \in Nat /\ C \in Nat /\ F <= G /\ LiLevel \in Nat /\ p \in Nat
      /\ from \in Nat /\ liClock \in Nat
  BY LiForgetsType, LiCountedType, LiLevelType, LiTypes
<1>2. /\ LiK \in Nat /\ LiMinute \in Nat \ {0} /\ LiLimit \in Nat /\ LiIdle + 1 \in Nat \ {0}
      /\ LiFull = LiLimit * LiMinute
  BY LiConstants
<1>3. LiMinute * p + LiLevel + LiMinute * h <= LiFull + x + LiMinute * (LiK * F) + LiMinute * C
  BY DEF LiPotential
<1>4. d \div (LiIdle + 1) \in Nat /\ x \in Nat
  BY <1>1, <1>2, LiQuotient
<1>5. LiBuckets(from, liClock) = LiLimit + x \div LiMinute + G * LiK
  BY <1>1, LiBucketsGrow
<1>6. /\ liKind = "bucket" => C = 0
      /\ C <= LiLimit * (1 + LiMinuteOf(liClock) - LiMinuteOf(from))
  BY LiCountedType
<1>7. G \in Nat
  BY <1>4
<1> HIDE DEF p, d, F, G, C, x
<1>8. LiK * F <= LiK * G /\ LiK * F \in Nat /\ LiK * G \in Nat /\ LiK * G = G * LiK
  BY <1>1, <1>2, <1>7, LiTimesGrows
<1>9. LiMinute * (LiK * F) <= LiMinute * (LiK * G)
  BY <1>2, <1>8, LiTimesGrows
<1>10. LiMinute * h \in Nat
  BY <1>2
<1>11. LiMinute * (p - (LiLimit + G * LiK + C)) <= x
  <2>1. LiMinute * (p - (LiLimit + G * LiK + C))
          = LiMinute * p - LiMinute * LiLimit - LiMinute * (LiK * G) - LiMinute * C
    BY <1>1, <1>2, <1>7, <1>8
  <2>2. LiMinute * LiLimit = LiFull
    BY <1>2
  <2>3. LiMinute * p \in Nat /\ LiMinute * (LiK * G) \in Nat /\ LiMinute * (LiK * F) \in Nat /\ LiMinute * C \in Nat /\ LiFull \in Nat
    BY <1>1, <1>2, <1>8, LiConstants
  <2> QED
    BY <1>1, <1>3, <1>4, <1>9, <1>10, <2>1, <2>2, <2>3
<1>12. p - (LiLimit + G * LiK + C) \in Int
  BY <1>1, <1>2, <1>8
<1>13. p - (LiLimit + G * LiK + C) <= x \div LiMinute /\ x \div LiMinute \in Nat
  BY <1>2, <1>4, <1>11, <1>12, LiFitsIn, LiQuotient
<1>14. p <= LiBuckets(from, liClock) + C
  BY <1>1, <1>2, <1>5, <1>8, <1>13
<1>15. CASE liKind = "bucket"
  <2>1. p <= LiBuckets(from, liClock)
    BY <1>1, <1>2, <1>5, <1>8, <1>6, <1>13, <1>14, <1>15
  <2> QED
    BY <1>15, <2>1 DEF LiWithin, p
<1>16. CASE liKind = "redis"
  <2> DEFINE D == LiLimit * (1 + LiMinuteOf(liClock) - LiMinuteOf(from))
  <2>1. D \in Int /\ LiBuckets(from, liClock) \in Nat
    <3>1. LiMinuteOf(liClock) \in Nat /\ LiMinuteOf(from) \in Nat
      BY <1>1, LiMinuteGrows
    <3>2. LiBuckets(from, liClock) \in Nat
      BY <1>1, LiBucketsGrow
    <3> QED
      BY <1>2, <3>1, <3>2
  <2>2. C <= D
    BY <1>6
  <2> HIDE DEF D
  <2>3. p <= LiBuckets(from, liClock) + D
    BY <1>1, <1>14, <2>1, <2>2
  <2> QED
    BY <1>16, <2>3 DEF LiWithin, p, D
<1> QED
  BY <1>15, <1>16

\* What was not too much then is not too much later.
LEMMA LiWithinLater ==
  ASSUME LiTypeOK, NEW from \in LiTicks, NEW s \in LiTicks, NEW t \in LiTicks, from <= s, s <= t,
         LiPassed(from, s) \in Nat, LiPassed(from, t) = LiPassed(from, s), LiWithin(from, s)
  PROVE  LiWithin(from, t)
<1>1. from \in Nat /\ s \in Nat /\ t \in Nat /\ LiLimit \in Nat /\ LiMinute \in Nat
  BY LiTypes, LiConstants
<1>2. LiBuckets(from, s) \in Nat /\ LiBuckets(from, s) <= LiBuckets(from, t) /\ LiBuckets(from, t) \in Nat
  BY <1>1, LiBucketsGrow
<1>3. CASE liKind = "bucket"
  BY <1>2, <1>3 DEF LiWithin
<1>4. CASE liKind = "redis"
  <2> DEFINE a == 1 + LiMinuteOf(s) - LiMinuteOf(from)
             b == 1 + LiMinuteOf(t) - LiMinuteOf(from)
  <2>1. a \in Nat /\ b \in Nat /\ a <= b
    <3>1. /\ LiMinuteOf(from) \in Nat /\ LiMinuteOf(s) \in Nat /\ LiMinuteOf(t) \in Nat
          /\ LiMinuteOf(from) <= LiMinuteOf(s) /\ LiMinuteOf(s) <= LiMinuteOf(t)
      BY <1>1, LiMinuteGrows
    <3> QED
      BY <3>1
  <2>2. LiPassed(from, s) <= LiBuckets(from, s) + LiLimit * a
    BY <1>4 DEF LiWithin
  <2> HIDE DEF a, b
  <2>3. LiLimit * a <= LiLimit * b /\ LiLimit * a \in Nat /\ LiLimit * b \in Nat
    BY <1>1, <2>1, LiTimesGrows
  <2>4. LiPassed(from, t) <= LiBuckets(from, t) + LiLimit * b
    BY <1>2, <2>2, <2>3
  <2> QED
    BY <1>4, <2>4 DEF LiWithin, b
<1>5. CASE liKind \notin {"bucket", "redis"}
  <2>1. s - from < LiMinute => LiPassed(from, s) <= LiLimit
    BY <1>5 DEF LiWithin
  <2>2. t - from < LiMinute => LiPassed(from, t) <= LiLimit
    BY <1>1, <2>1
  <2> QED
    BY <1>5, <2>2 DEF LiWithin
<1> QED
  BY <1>3, <1>4, <1>5

\* A stretch in which nothing was let through.
LEMMA LiWithinNothing ==
  ASSUME LiTypeOK, NEW from \in LiTicks, NEW t \in LiTicks, from <= t, LiPassed(from, t) = 0
  PROVE  LiWithin(from, t)
<1>1. from \in Nat /\ t \in Nat /\ LiLimit \in Nat
  BY LiTypes, LiConstants
<1>2. LiBuckets(from, t) \in Nat
  BY <1>1, LiBucketsGrow
<1>3. LiLimit * (1 + LiMinuteOf(t) - LiMinuteOf(from)) \in Nat
  <2>1. 1 + LiMinuteOf(t) - LiMinuteOf(from) \in Nat
    <3>1. LiMinuteOf(from) \in Nat /\ LiMinuteOf(t) \in Nat /\ LiMinuteOf(from) <= LiMinuteOf(t)
      BY <1>1, LiMinuteGrows
    <3> QED
      BY <3>1
  <2> QED
    BY <1>1, <2>1
<1>4. CASE liKind = "bucket"
  BY <1>2, <1>4 DEF LiWithin
<1>5. CASE liKind = "redis"
  BY <1>2, <1>3, <1>5 DEF LiWithin
<1>6. CASE liKind \notin {"bucket", "redis"}
  BY <1>1, <1>6 DEF LiWithin
<1> QED
  BY <1>4, <1>5, <1>6

LEMMA LiIInvBounds == LiIInv => LiTypeOK /\ LiBounded
<1> SUFFICES ASSUME LiIInv, NEW from \in LiTicks, NEW to \in LiTicks, from <= to
             PROVE  LiTypeOK /\ LiWithin(from, to)
  BY DEF LiIInv, LiBounded
<1>1. LiTypeOK /\ LiPast /\ liClock \in LiTicks /\ LiTicks \subseteq Nat \ {0}
  BY LiTypes DEF LiIInv
<1>2. CASE to < liClock
  BY <1>1, <1>2 DEF LiPast
<1>3. CASE liClock <= to /\ from <= liClock
  <2>1. LiPassed(from, to) = LiPassed(from, liClock) /\ LiPassed(from, to) \in Nat /\ from \in 1..liClock
    BY <1>1, <1>3, LiNothingLater
  <2>2. LiWithin(from, liClock)
    <3>1. CASE liKind \in {"bucket", "redis"}
      <4>1. LiHeldInv /\ \E h \in 0..LiK : LiPotential(h)
        BY <3>1 DEF LiIInv, LiBucketInv
      <4>2. PICK h \in Nat : LiPotential(h)
        BY <4>1, LiConstants
      <4> QED
        BY <1>1, <2>1, <3>1, <4>1, <4>2, LiPotentialBounds
    <3>2. CASE liKind \notin {"bucket", "redis"}
      BY <2>1, <3>2 DEF LiIInv, LiWindowInv
    <3> QED
      BY <3>1, <3>2
  <2> QED
    BY <1>1, <1>3, <2>1, <2>2, LiWithinLater
<1>4. CASE liClock < from
  BY <1>1, <1>4, LiNothingLater, LiWithinNothing
<1> QED
  BY <1>1, <1>2, <1>3, <1>4

\* A counter that grows by one may let one through while it is within the limit.
LEMMA LiCountedGrows ==
  ASSUME LiTypeOK, LiTypeOK', UNCHANGED <<liKind, liClock>>, NEW from \in 1..liClock,
         liCount[LiMinuteOf(liClock)] <= liCount'[LiMinuteOf(liClock)]
  PROVE  /\ LiCounted(from) + 0 <= LiCounted(from)'
         /\ liKind = "redis" /\ liCount[LiMinuteOf(liClock)] + 1 = liCount'[LiMinuteOf(liClock)] =>
              LiCounted(from) + (IF liCount'[LiMinuteOf(liClock)] <= LiLimit THEN 1 ELSE 0) <= LiCounted(from)'
<1> DEFINE m == LiMinuteOf(liClock)
           n == liCount[m]
           k == liCount'[m]
           d == LiMinuteOf(liClock) - LiMinuteOf(from)
<1>1. m \in LiMinutes /\ n \in Nat /\ k \in Nat /\ LiLimit \in Nat /\ n <= k
  BY LiTypes, LiConstants DEF LiTypeOK
<1>2. d \in Nat /\ LiLimit * d \in Nat
  BY <1>1, LiCountedType
<1>3. /\ LiCounted(from) = IF liKind = "redis" THEN LiLimit * d + Min({LiLimit, n}) ELSE 0
      /\ LiCounted(from)' = IF liKind = "redis" THEN LiLimit * d + Min({LiLimit, k}) ELSE 0
  BY DEF LiCounted
<1> HIDE DEF m, n, k, d
<1>4. Min({LiLimit, n}) = IF LiLimit <= n THEN LiLimit ELSE n
  BY <1>1, LiMinOf
<1>5. Min({LiLimit, k}) = IF LiLimit <= k THEN LiLimit ELSE k
  BY <1>1, LiMinOf
<1>6. LiCounted(from) + 0 <= LiCounted(from)'
  BY <1>1, <1>2, <1>3, <1>4, <1>5
<1>7. liKind = "redis" /\ n + 1 = k => LiCounted(from) + (IF k <= LiLimit THEN 1 ELSE 0) <= LiCounted(from)'
  BY <1>1, <1>2, <1>3, <1>4, <1>5
<1> QED
  BY <1>6, <1>7 DEF m, n, k

-----------------------------------------------------------------------------
(***************************************************************************)
(* Token buckets.                                                          *)
(***************************************************************************)

\* There is always an id that nobody refers to.
LEMMA LiFreshId ==
  ASSUME LiTypeOK, NEW b, b = Min(LiIds \ {liReq[p] : p \in LiReqs})
  PROVE  b \in LiIds /\ b # 0 /\ \A p \in LiReqs : liReq[p] # b
<1> DEFINE held == {liReq[p] : p \in LiReqs}
           f == [p \in LiReqs |-> liReq[p]]
           N == Cardinality(LiReqs)
<1>1. N \in Nat /\ LiIds = 1..(N + 1)
  BY LiConstants DEF LiIds
<1>2. f \in Surjection(LiReqs, held)
  BY DEF Surjection
<1>3. IsFiniteSet(held) /\ Cardinality(held) <= N
  <2> HIDE DEF held, f
  <2> QED
    BY <1>2, FS_Surjection, LimitsAssumption
<1> HIDE DEF held, f, N
<1>4. LiIds \ held # {}
  <2> SUFFICES ASSUME LiIds \subseteq held PROVE FALSE
    OBVIOUS
  <2>1. Cardinality(LiIds) = N + 1
    BY <1>1, FS_Interval
  <2>2. Cardinality(LiIds) <= Cardinality(held) /\ Cardinality(held) \in Nat
    BY <1>3, FS_Subset, FS_CardinalityType
  <2> QED
    BY <1>1, <1>3, <2>1, <2>2
<1> DEFINE T == LiIds \ held
<1>5. T \subseteq Nat \ {0} /\ T # {}
  BY <1>1, <1>4
<1> HIDE DEF T
<1>6. PICK x \in T : \A y \in T : ~(<<y, x>> \in OpToRel(<, Nat))
  BY <1>5, NatLessThanWellFounded, WFMin
<1>7. \A y \in T : ~(y < x)
  BY <1>5, <1>6, Zenon DEF OpToRel
<1>8. \A y \in T : x <= y
  BY <1>5, <1>7
<1>9. Min(T) \in T
  BY <1>8 DEF Min
<1>10. b \in LiIds /\ b \notin held /\ b # 0
  BY <1>1, <1>9 DEF T, held
<1> QED
  BY <1>10 DEF held

\* With as much through as before, and a bucket found, all is as it was.
LEMMA LiFindIInv ==
  ASSUME LiIInv, liKind \in {"bucket", "redis"}, NEW q \in LiReqs, liReq[q] = 0, LiFind(q),
         UNCHANGED <<liKind, liClock, liWindow, liOk>>, liCount' \in [LiMinutes -> Nat],
         \A m \in LiMinutes : m > LiMinuteOf(liClock) => liCount'[m] = liCount[m],
         liCount[LiMinuteOf(liClock)] <= liCount'[LiMinuteOf(liClock)]
  PROVE  LiIInv'
<1>1. LiTypeOK /\ LiHeldInv /\ LiPast /\ LiBucketInv
  BY DEF LiIInv, LiBucketInv
<1>2. PICK b \in LiIds :
        /\ b # 0 /\ liMap' = b /\ liReq' = [liReq EXCEPT ![q] = b]
        /\ \/ liMap = b /\ liBucket' = liBucket
           \/ /\ liMap = 0 /\ \A p \in LiReqs : liReq[p] # b
              /\ liBucket' = [liBucket EXCEPT ![b] = [tokens |-> LiFull, last |-> liClock]]
  <2>1. CASE liMap # 0
    BY <1>1, <2>1 DEF LiFind, LiTypeOK
  <2>2. CASE liMap = 0
    <3> DEFINE b == Min(LiIds \ {liReq[p] : p \in LiReqs})
    <3>1. b \in LiIds /\ b # 0 /\ \A p \in LiReqs : liReq[p] # b
      BY <1>1, LiFreshId
    <3>2. /\ liMap' = b /\ liReq' = [liReq EXCEPT ![q] = b]
          /\ liBucket' = [liBucket EXCEPT ![b] = [tokens |-> LiFull, last |-> liClock]]
      BY <2>2 DEF LiFind
    <3> HIDE DEF b
    <3> QED
      BY <2>2, <3>1, <3>2
  <2> QED
    BY <2>1, <2>2
<1>3. /\ liClock \in Nat \ {0} /\ liClock \in LiTicks /\ LiFull \in Nat /\ LiMaxClock \in Nat
      /\ LiMinuteOf(liClock) \in LiMinutes /\ liCount[LiMinuteOf(liClock)] \in Nat
  BY <1>1, LiTypes, LiConstants
<1>4. LiTypeOK'
  <2>1. liReq' \in [LiReqs -> LiIds \cup {0}]
    BY <1>1, <1>2 DEF LiTypeOK
  <2>2. [tokens |-> LiFull, last |-> liClock] \in [tokens : 0..LiFull, last : 0..LiMaxClock]
    BY <1>3 DEF LiTicks
  <2>3. liBucket' \in [LiIds -> [tokens : 0..LiFull, last : 0..LiMaxClock]]
    BY <1>1, <1>2, <2>2 DEF LiTypeOK
  <2> QED
    BY <1>1, <1>2, <2>1, <2>3 DEF LiTypeOK
<1>5. \A c \in LiIds : /\ liBucket'[c].last <= liClock
                       /\ liBucket'[c] = IF liMap = 0 /\ c = b THEN [tokens |-> LiFull, last |-> liClock] ELSE liBucket[c]
  <2>1. \A c \in LiIds : liBucket'[c] = IF liMap = 0 /\ c = b THEN [tokens |-> LiFull, last |-> liClock] ELSE liBucket[c]
    BY <1>1, <1>2 DEF LiTypeOK
  <2> QED
    BY <1>1, <1>3, <2>1 DEF LiHeldInv
<1>6. LiHolders' = LiHolders /\ \A p \in LiHolders : liReq'[p] = liReq[p] /\ liReq[p] # b /\ liReq[p] \in LiIds
  <2>1. \A p \in LiReqs : liReq'[p] = IF p = q THEN b ELSE liReq[p]
    BY <1>1, <1>2 DEF LiTypeOK
  <2>2. \A p \in LiReqs : liReq[p] \notin {0, liMap} <=> liReq'[p] \notin {0, b}
    BY <1>2, <2>1
  <2>3. LiHolders' = LiHolders
    BY <1>2, <2>2 DEF LiHolders
  <2> QED
    BY <1>1, <1>2, <2>1, <2>2, <2>3 DEF LiHolders, LiTypeOK
<1>7. LiHeldInv'
  <2>1. liMap = 0 => liBucket'[b].last = liClock
    BY <1>5
  <2>2. liMap # 0 => liMap = b /\ liBucket' = liBucket
    BY <1>2
  <2> QED
    BY <1>1, <1>2, <1>5, <1>6, <2>1, <2>2 DEF LiHeldInv
<1>8. LiPast' /\ \A from \in 1..liClock : /\ LiPassed(from, liClock) \in Nat
                                          /\ LiPassed(from, liClock)' = LiPassed(from, liClock) + 0
  <2>1. LiPass(FALSE)
    BY DEF LiPass
  <2> QED
    BY <1>1, <2>1, LiPassAdds
<1>9. LiLevel' = LiLevel
  <2>1. CASE liMap = 0
    <3>1. liBucket'[b].tokens = LiFull /\ liBucket'[b].last = liClock /\ liClock' = liClock
      BY <1>5, <2>1
    <3>2. LiNow(b)' = Min({LiFull, LiFull + (liClock - liClock) * LiLimit})
      BY <3>1 DEF LiNow
    <3>3. LiFull + (liClock - liClock) * LiLimit = LiFull
      BY <1>3, LiConstants
    <3>4. Min({LiFull, LiFull}) = LiFull
      BY <1>3, LiMinOf
    <3> QED
      BY <1>2, <2>1, <3>2, <3>3, <3>4 DEF LiLevel
  <2>2. CASE liMap # 0
    BY <1>2, <2>2 DEF LiLevel, LiNow
  <2> QED
    BY <2>1, <2>2
<1>10. \A from \in 1..liClock : LiForgets(from) + 0 <= LiForgets(from)'
  <2>1. LiUntil \in Nat /\ LiUntil' = LiUntil
    <3>1. CASE liMap = 0
      BY <1>2, <1>3, <1>5, <3>1 DEF LiUntil
    <3>2. CASE liMap # 0
      BY <1>1, <1>2, <3>2, LiTypes DEF LiUntil
    <3> QED
      BY <3>1, <3>2
  <2>2. ASSUME NEW from \in 1..liClock PROVE LiForgets(from) \in Nat /\ LiForgets(from)' = LiForgets(from)
    BY <1>1, <2>1, LiForgetsType DEF LiForgets
  <2> QED
    BY <2>2
<1>11. \A from \in 1..liClock : LiCounted(from) + 0 <= LiCounted(from)'
  BY <1>1, <1>4, LiCountedGrows
<1>12. PICK h \in 0..LiK : LiSpare(h) /\ LiPotential(h)
  BY <1>1 DEF LiBucketInv
<1>13. LiPotential(h)'
  <2>1. LiLevel \in Nat /\ LiMinute \in Nat /\ LiK \in Nat /\ h \in Nat
    BY <1>1, LiLevelType, LiConstants
  <2>2. LiLevel' + LiMinute * (h + 0) <= LiLevel + LiMinute * h + LiMinute * (LiK * 0) + LiMinute * 0
    BY <1>9, <2>1
  <2> QED
    BY <1>1, <1>4, <1>7, <1>8, <1>10, <1>11, <1>12, <2>1, <2>2, LiPotentialMoves
<1>14. LiSpare(h)'
  <2>1. ASSUME NEW p \in LiHolders PROVE LiNow(liReq[p])' = LiNow(liReq[p])
    <3>1. liReq'[p] = liReq[p] /\ liBucket'[liReq[p]] = liBucket[liReq[p]]
      BY <1>5, <1>6
    <3> QED
      BY <3>1 DEF LiNow
  <2> QED
    BY <1>6, <1>12, <2>1 DEF LiSpare
<1>15. \A m \in LiMinutes : m > LiMinuteOf(liClock) => liCount'[m] = 0
  BY <1>1 DEF LiBucketInv
<1> QED
  BY <1>4, <1>7, <1>8, <1>12, <1>13, <1>14, <1>15 DEF LiIInv, LiBucketInv

\* The bucket a request holds is asked: it holds what has flowed in, and gives
\* a token if it has one.
LEMMA LiAsked ==
  ASSUME LiTypeOK, LiHeldInv, NEW q \in LiReqs, LiTake(q), NEW b, b = liReq[q]
  PROVE  /\ b # 0 /\ b \in LiIds /\ liReq' = [liReq EXCEPT ![q] = 0] /\ LiPass(LiMinute <= LiNow(b))
         /\ UNCHANGED <<liKind, liClock, liMap, liCount, liWindow>>
         /\ liBucket' \in [LiIds -> [tokens : 0..LiFull, last : 0..LiMaxClock]]
         /\ liBucket'[b].last = liClock /\ \A c \in LiIds \ {b} : liBucket'[c] = liBucket[c]
         /\ LiNow(b)' = IF LiMinute <= LiNow(b) THEN LiNow(b) - LiMinute ELSE LiNow(b)
<1> DEFINE tokens == LiNow(b)
           left == IF tokens >= LiMinute THEN tokens - LiMinute ELSE tokens
<1>1. /\ b # 0 /\ liReq' = [liReq EXCEPT ![q] = 0] /\ LiPass(tokens >= LiMinute)
      /\ liBucket' = [liBucket EXCEPT ![b] = [tokens |-> left, last |-> liClock]]
      /\ UNCHANGED <<liKind, liClock, liMap, liCount, liWindow>>
  BY DEF LiTake, LiNow
<1>2. b \in LiIds
  BY <1>1 DEF LiTypeOK
<1>3. tokens \in Nat /\ tokens <= LiFull
  BY <1>2, LiNowType DEF LiHeldInv
<1>4. /\ liClock \in Nat /\ liClock \in LiTicks /\ LiMinute \in Nat /\ LiFull \in Nat /\ LiLimit \in Nat
      /\ LiMaxClock \in Nat
  BY LiTypes, LiConstants
<1>5. (tokens >= LiMinute) = (LiMinute <= tokens)
  BY <1>3, <1>4
<1>6. left \in Nat /\ left <= LiFull /\ left = IF LiMinute <= tokens THEN tokens - LiMinute ELSE tokens
  <2> HIDE DEF tokens
  <2> QED
    BY <1>3, <1>4
<1> HIDE DEF left, tokens
<1>7. [tokens |-> left, last |-> liClock] \in [tokens : 0..LiFull, last : 0..LiMaxClock]
  BY <1>4, <1>6 DEF LiTicks
<1>8. /\ liBucket'[b] = [tokens |-> left, last |-> liClock]
      /\ \A c \in LiIds \ {b} : liBucket'[c] = liBucket[c]
      /\ liBucket' \in [LiIds -> [tokens : 0..LiFull, last : 0..LiMaxClock]]
  BY <1>1, <1>2, <1>7 DEF LiTypeOK
<1>9. liBucket'[b].tokens = left /\ liBucket'[b].last = liClock /\ liClock' = liClock
  BY <1>1, <1>8
<1>10. LiNow(b)' = left
  <2>1. left + (liClock - liClock) * LiLimit = left
    BY <1>4, <1>6
  <2>2. Min({LiFull, left}) = left
    BY <1>4, <1>6, LiMinOf
  <2> QED
    BY <1>9, <2>1, <2>2 DEF LiNow
<1>11. LiPass(LiMinute <= LiNow(b))
  BY <1>1, <1>5 DEF tokens
<1> QED
  BY <1>1, <1>2, <1>6, <1>8, <1>9, <1>10, <1>11 DEF tokens

LEMMA LiTakeIInv ==
  ASSUME LiIInv, liKind \in {"bucket", "redis"}, NEW q \in LiReqs, LiTake(q)
  PROVE  LiIInv'
<1>1. LiTypeOK /\ LiHeldInv /\ LiPast /\ LiBucketInv
  BY DEF LiIInv, LiBucketInv
<1>2. PICK b : b = liReq[q]
  OBVIOUS
<1>3. /\ b # 0 /\ b \in LiIds /\ liReq' = [liReq EXCEPT ![q] = 0] /\ LiPass(LiMinute <= LiNow(b))
      /\ UNCHANGED <<liKind, liClock, liMap, liCount, liWindow>>
      /\ liBucket' \in [LiIds -> [tokens : 0..LiFull, last : 0..LiMaxClock]]
      /\ liBucket'[b].last = liClock /\ \A c \in LiIds \ {b} : liBucket'[c] = liBucket[c]
      /\ LiNow(b)' = IF LiMinute <= LiNow(b) THEN LiNow(b) - LiMinute ELSE LiNow(b)
  BY <1>1, <1>2, LiAsked
<1>4. /\ liClock \in Nat \ {0} /\ LiMinute \in Nat \ {0} /\ LiK \in Nat /\ LiFull \in Nat /\ LiLevel \in Nat
      /\ LiNow(b) \in Nat /\ liMap \in LiIds \cup {0}
  BY <1>1, <1>3, LiTypes, LiConstants, LiLevelType, LiNowType DEF LiHeldInv, LiTypeOK
<1> DEFINE yes == LiMinute <= LiNow(b)
           y == IF yes THEN 1 ELSE 0
<1>5. /\ LiPast' /\ liOk' \in [LiTicks -> Nat]
      /\ \A from \in 1..liClock : /\ LiPassed(from, liClock) \in Nat
                                  /\ LiPassed(from, liClock)' = LiPassed(from, liClock) + y
  <2>1. yes \in BOOLEAN /\ LiPass(yes)
    BY <1>3
  <2> HIDE DEF yes
  <2> QED
    BY <1>1, <1>3, <2>1, LiPassAdds
<1>6. \A p \in LiReqs : liReq'[p] = IF p = q THEN 0 ELSE liReq[p]
  BY <1>1, <1>3 DEF LiTypeOK
<1>7. LiTypeOK'
  <2>1. liReq' \in [LiReqs -> LiIds \cup {0}]
    BY <1>1, <1>3 DEF LiTypeOK
  <2> QED
    BY <1>1, <1>3, <1>5, <2>1 DEF LiTypeOK
<1>8. \A c \in LiIds : liBucket'[c].last <= liClock /\ liBucket[c].last <= liBucket'[c].last /\ liBucket[c].last \in Nat
  BY <1>1, <1>3, <1>4, LiTypes DEF LiHeldInv
<1>9. LiHolders' = LiHolders \ {q} /\ \A p \in LiHolders' : liReq'[p] = liReq[p] /\ liReq[p] \in LiIds
  BY <1>1, <1>3, <1>6 DEF LiHolders, LiTypeOK
<1>10. LiHeldInv'
  <2>1. \A c \in LiIds : liBucket'[c].last <= liClock'
    BY <1>3, <1>8
  <2>2. \A p, r \in LiHolders' : liReq'[p] = liReq'[r]
    BY <1>1, <1>9 DEF LiHeldInv
  <2>3. LiHolders' # {} /\ liMap' # 0 => liBucket'[liMap'].last = liClock'
    BY <1>1, <1>3, <1>4, <1>9 DEF LiHeldInv
  <2> QED
    BY <2>1, <2>2, <2>3 DEF LiHeldInv
<1>11. \A from \in 1..liClock : LiForgets(from) + 0 <= LiForgets(from)'
  <2>1. LiUntil' \in Nat /\ LiUntil <= LiUntil'
    BY <1>3, <1>4, <1>7, <1>8, LiTypes DEF LiUntil, LiTypeOK
  <2>2. \A from \in 1..liClock : LiForgets(from) <= LiForgets(from)' /\ LiForgets(from) \in Nat
    BY <1>1, <2>1, LiForgetsGrows, LiForgetsType
  <2> QED
    BY <2>2
<1>12. \A from \in 1..liClock : LiCounted(from) + 0 <= LiCounted(from)'
  <2>1. liCount[LiMinuteOf(liClock)] <= liCount'[LiMinuteOf(liClock)]
    BY <1>1, <1>3, LiTypes
  <2> QED
    BY <1>1, <1>3, <1>7, <2>1, LiCountedGrows
<1>13. PICK h \in 0..LiK : LiSpare(h) /\ LiPotential(h)
  BY <1>1 DEF LiBucketInv
<1>14. \E k \in 0..LiK : LiSpare(k)' /\ LiPotential(k)'
  <2>1. CASE b = liMap
    <3>1. LiLevel = LiNow(b) /\ LiLevel' = LiNow(b)'
      BY <1>3, <2>1 DEF LiLevel
    <3>2. LiLevel' + LiMinute * (h + y) <= LiLevel + LiMinute * h + LiMinute * (LiK * 0) + LiMinute * 0
      <4>1. LiLevel' + LiMinute * y = LiLevel
        BY <1>3, <1>4, <3>1
      <4>2. LiMinute * (h + y) = LiMinute * h + LiMinute * y /\ LiMinute * (LiK * 0) = 0 /\ LiMinute * 0 = 0
            /\ LiMinute * h \in Nat /\ LiMinute * y \in Nat
        BY <1>4
      <4>3. LiLevel' \in Int
        BY <1>3, <1>4, <3>1
      <4> HIDE DEF y
      <4> QED
        BY <1>4, <4>1, <4>2, <4>3
    <3>3. y \in Nat /\ h \in Nat
      BY <1>4
    <3> HIDE DEF y
    <3>4. LiPotential(h)'
      BY <1>1, <1>3, <1>5, <1>7, <1>10, <1>11, <1>12, <1>13, <3>2, <3>3, LiPotentialMoves
    <3>5. LiHolders' = LiHolders
      BY <1>2, <1>9, <2>1 DEF LiHolders
    <3>6. ASSUME NEW p \in LiHolders PROVE LiNow(liReq[p])' = LiNow(liReq[p])
      <4>1. liReq'[p] = liReq[p] /\ liBucket'[liReq[p]] = liBucket[liReq[p]]
        BY <1>3, <1>9, <2>1, <3>5 DEF LiHolders
      <4> QED
        BY <1>3, <4>1 DEF LiNow
    <3>7. LiSpare(h)'
      BY <1>13, <3>5, <3>6 DEF LiSpare
    <3> QED
      BY <3>4, <3>7
  <2>2. CASE b # liMap
    <3>1. q \in LiHolders /\ \A p \in LiHolders : liReq[p] = b
      BY <1>1, <1>2, <1>3, <2>2 DEF LiHolders, LiHeldInv
    <3> DEFINE n == Cardinality(LiHolders)
    <3>2. n \in Nat /\ n >= 1 /\ Cardinality(LiHolders)' = n - 1
      <4>1. IsFiniteSet(LiHolders)
        BY LimitsAssumption, FS_Subset DEF LiHolders
      <4>2. Cardinality(LiHolders \ {q}) = n - 1 /\ Cardinality(LiHolders \ {q}) \in Nat /\ n \in Nat
        BY <3>1, <4>1, FS_RemoveElement, FS_CardinalityType
      <4> QED
        BY <1>9, <4>2
    <3>3. n <= h \/ LiNow(b) < (h + 1) * LiMinute
      BY <1>13, <3>1 DEF LiSpare
    <3> HIDE DEF n
    <3>4. PICK k \in 0..LiK : k = IF yes THEN h - 1 ELSE h
      <4>1. CASE yes
        <5>1. h # 0
          BY <1>4, <3>2, <3>3, <4>1
        <5> QED
          BY <1>4, <4>1, <5>1
      <4>2. CASE ~yes
        BY <1>4, <4>2
      <4> QED
        BY <4>1, <4>2
    <3>5. n - 1 <= k \/ LiNow(b)' < (k + 1) * LiMinute
      <4>1. CASE yes
        <5>1. k = h - 1 /\ LiNow(b)' = LiNow(b) - LiMinute /\ h \in Nat
          BY <1>3, <1>4, <3>4, <4>1
        <5>2. (k + 1) * LiMinute = (h + 1) * LiMinute - LiMinute
          BY <1>4, <5>1
        <5>3. (h + 1) * LiMinute \in Nat
          BY <1>4, <5>1
        <5> QED
          BY <1>4, <3>2, <3>3, <5>1, <5>2, <5>3
      <4>2. CASE ~yes
        <5>1. k = h /\ LiNow(b)' = LiNow(b) /\ h \in Nat
          BY <1>3, <1>4, <3>4, <4>2
        <5> QED
          BY <1>4, <3>2, <3>3, <5>1
      <4> QED
        BY <4>1, <4>2
    <3>6. LiSpare(k)'
      BY <1>9, <3>1, <3>2, <3>5 DEF LiSpare
    <3>7. LiLevel' = LiLevel
      <4>1. CASE liMap = 0
        BY <1>3, <4>1 DEF LiLevel
      <4>2. CASE liMap # 0
        <5>1. liBucket'[liMap] = liBucket[liMap]
          BY <1>3, <1>4, <2>2, <4>2
        <5> QED
          BY <1>3, <4>2, <5>1 DEF LiLevel, LiNow
      <4> QED
        BY <4>1, <4>2
    <3>8. k + y = h /\ k \in Nat /\ y \in Nat /\ h \in Nat
      BY <1>4, <3>4
    <3> HIDE DEF y
    <3>9. LiLevel' + LiMinute * (k + y) <= LiLevel + LiMinute * h + LiMinute * (LiK * 0) + LiMinute * 0
      BY <1>4, <3>7, <3>8
    <3>10. LiPotential(k)'
      BY <1>1, <1>3, <1>5, <1>7, <1>10, <1>11, <1>12, <1>13, <3>8, <3>9, LiPotentialMoves
    <3> QED
      BY <3>6, <3>10
  <2> QED
    BY <2>1, <2>2
<1> HIDE DEF y, yes
<1>15. LiBucketInv'
  BY <1>1, <1>3, <1>10, <1>14 DEF LiBucketInv
<1> QED
  BY <1>3, <1>5, <1>7, <1>15 DEF LiIInv

\* An idle bucket is full, so nothing is lost with it but what its holders take.
LEMMA LiGcIInv ==
  ASSUME LiIInv, liKind \in {"bucket", "redis"}, LiGc
  PROVE  LiIInv'
<1>1. LiTypeOK /\ LiHeldInv /\ LiPast /\ LiBucketInv
  BY DEF LiIInv, LiBucketInv
<1>2. /\ liMap # 0 /\ liClock - liBucket[liMap].last > LiIdle /\ liMap' = 0
      /\ UNCHANGED <<liKind, liClock, liBucket, liReq, liCount, liWindow, liOk>>
  BY DEF LiGc, LiStale
<1>3. PICK b \in LiIds : b = liMap
  BY <1>1, <1>2 DEF LiTypeOK
<1> DEFINE last == liBucket[b].last
<1>4. /\ liClock \in Nat \ {0} /\ last \in Nat /\ last + (LiIdle + 1) <= liClock
      /\ LiIdle \in Nat /\ LiMinute \in Nat \ {0} /\ LiLimit \in Nat \ {0} /\ LiMinute <= LiIdle
      /\ LiFull \in Nat /\ LiFull = LiLimit * LiMinute /\ LiK \in Nat
  BY <1>1, <1>2, <1>3, LiTypes, LiConstants
<1>5. LiTypeOK'
  BY <1>1, <1>2 DEF LiTypeOK
<1>6. LiHolders = {}
  BY <1>1, <1>2, <1>3, <1>4 DEF LiHeldInv
<1>7. \A p \in LiHolders' : p \in LiReqs /\ liReq[p] = b
  BY <1>2, <1>3, <1>6 DEF LiHolders
<1>8. LiHeldInv'
  BY <1>1, <1>2, <1>7 DEF LiHeldInv
<1>9. LiLevel = LiFull /\ LiLevel' = LiFull /\ LiNow(b) = LiFull
  <2> DEFINE d == liClock - liBucket[b].last
  <2>1. d \in Nat /\ LiMinute <= d /\ liBucket[b].tokens \in Nat
    BY <1>1, <1>4, LiTypes, LiConstants
  <2>2. LiNow(b) = IF LiFull <= liBucket[b].tokens + d * LiLimit THEN LiFull ELSE liBucket[b].tokens + d * LiLimit
    BY <1>1, LiNowType DEF LiHeldInv
  <2> HIDE DEF d
  <2>3. LiMinute * LiLimit <= d * LiLimit /\ d * LiLimit \in Nat
    BY <1>4, <2>1, LiTimesGrows
  <2>4. LiNow(b) = LiFull
    BY <1>4, <2>1, <2>2, <2>3
  <2> QED
    BY <1>2, <1>3, <2>4 DEF LiLevel
<1>10. LiPast' /\ \A from \in 1..liClock : /\ LiPassed(from, liClock) \in Nat
                                           /\ LiPassed(from, liClock)' = LiPassed(from, liClock) + 0
  <2>1. LiPass(FALSE)
    BY <1>2 DEF LiPass
  <2> QED
    BY <1>1, <1>2, <2>1, LiPassAdds
<1>11. ASSUME NEW from \in 1..liClock PROVE LiForgets(from) + 1 <= LiForgets(from)'
  <2> DEFINE I == LiIdle + 1
             c == liClock
  <2>1. /\ LiForgets(from) = IF last < from THEN 0 ELSE 1 + (last - from) \div I
        /\ LiForgets(from)' = IF c < from THEN 0 ELSE 1 + (c - from) \div I
    BY <1>2, <1>3 DEF LiForgets, LiUntil
  <2>2. I \in Nat \ {0} /\ c \in Nat /\ from \in Nat /\ from <= c /\ last \in Nat /\ last + I <= c
    BY <1>4
  <2> HIDE DEF I, c, last
  <2>3. (c - from) \div I \in Nat
    BY <2>2, LiQuotient
  <2>4. from <= last => 1 + (last - from) \div I <= (c - from) \div I
    BY <2>2, LiQuotientStep
  <2>5. from <= last => (last - from) \div I \in Nat
    BY <2>2, LiQuotient
  <2> QED
    BY <2>1, <2>2, <2>3, <2>4, <2>5
<1>12. \A from \in 1..liClock : LiCounted(from) + 0 <= LiCounted(from)'
  <2>1. liCount[LiMinuteOf(liClock)] <= liCount'[LiMinuteOf(liClock)]
    BY <1>1, <1>2, LiTypes
  <2> QED
    BY <1>1, <1>2, <1>5, <2>1, LiCountedGrows
<1>13. PICK h \in 0..LiK : LiSpare(h) /\ LiPotential(h)
  BY <1>1 DEF LiBucketInv
<1>14. LiPotential(LiK)'
  <2>1. LiLevel' + LiMinute * (LiK + 0) <= LiLevel + LiMinute * h + LiMinute * (LiK * 1) + LiMinute * 0
    BY <1>4, <1>9
  <2>2. LiK \in Nat /\ h \in Nat /\ 0 \in Nat /\ 1 \in Nat /\ liClock' = liClock
    BY <1>2, <1>4
  <2> QED
    BY <1>1, <1>5, <1>8, <1>10, <1>11, <1>12, <1>13, <2>1, <2>2, LiPotentialMoves
<1>15. LiSpare(LiK)'
  <2> SUFFICES ASSUME NEW p \in LiHolders'
               PROVE  Cardinality(LiHolders') <= LiK \/ LiNow(liReq[p])' < (LiK + 1) * LiMinute
    BY DEF LiSpare, LiK
  <2>1. LiNow(liReq[p])' = LiFull
    <3>1. liReq'[p] = b
      BY <1>2, <1>7
    <3> QED
      BY <1>2, <1>9, <3>1 DEF LiNow
  <2>2. Cardinality(LiHolders') <= Cardinality(LiReqs) /\ Cardinality(LiHolders') \in Nat
    <3>1. LiHolders' \subseteq LiReqs
      BY <1>7
    <3> QED
      BY <3>1, LimitsAssumption, FS_Subset, FS_CardinalityType
  <2>3. CASE LiK = LiLimit
    <3>1. (LiLimit + 1) * LiMinute = LiFull + LiMinute
      BY <1>4
    <3> QED
      BY <1>4, <2>1, <2>3, <3>1
  <2> QED
    BY <2>2, <2>3, LiConstants
<1>16. \E k \in 0..LiK : LiSpare(k)' /\ LiPotential(k)'
  <2>1. PICK k \in 0..LiK : k = LiK
    BY <1>4
  <2>2. LiK' = LiK
    BY DEF LiK
  <2> QED
    BY <1>14, <1>15, <2>1, <2>2 DEF LiSpare, LiPotential
<1>17. LiBucketInv'
  <2>1. \A m \in LiMinutes : m > LiMinuteOf(liClock) => liCount[m] = 0
    BY <1>1 DEF LiBucketInv
  <2> QED
    BY <1>2, <1>8, <1>16, <2>1 DEF LiBucketInv
<1> QED
  BY <1>2, <1>5, <1>10, <1>17 DEF LiIInv

\* Redis answers: it counts, and lets through up to the limit.
LEMMA LiIncrIInv ==
  ASSUME LiIInv, NEW q \in LiReqs, LiIncr(q)
  PROVE  LiIInv'
<1> DEFINE m == LiMinuteOf(liClock)
<1>1. LiTypeOK /\ LiHeldInv /\ LiPast /\ LiBucketInv /\ liKind = "redis"
  BY DEF LiIInv, LiBucketInv, LiIncr
<1>2. liReq[q] = 0 /\ UNCHANGED <<liKind, liClock, liWindow>>
  BY DEF LiIncr
<1>3. m \in LiMinutes /\ liCount[m] \in Nat /\ LiLimit \in Nat /\ m \in Nat
  BY <1>1, LiTypes, LiConstants, LiMinuteGrows
<1>4. CASE /\ liCount' = [liCount EXCEPT ![m] = @ + 1] /\ LiPass(liCount'[m] <= LiLimit)
           /\ UNCHANGED <<liMap, liBucket, liReq>>
  <2> DEFINE yes == liCount[m] + 1 <= LiLimit
             y == IF yes THEN 1 ELSE 0
  <2>1. liCount'[m] = liCount[m] + 1 /\ \A n \in LiMinutes \ {m} : liCount'[n] = liCount[n]
    BY <1>1, <1>3, <1>4 DEF LiTypeOK
  <2>2. liCount' \in [LiMinutes -> Nat]
    BY <1>1, <1>3, <1>4 DEF LiTypeOK
  <2>3. LiPass(yes) /\ yes \in BOOLEAN
    BY <1>4, <2>1
  <2>4. /\ LiPast' /\ liOk' \in [LiTicks -> Nat]
        /\ \A from \in 1..liClock : /\ LiPassed(from, liClock) \in Nat
                                    /\ LiPassed(from, liClock)' = LiPassed(from, liClock) + y
    <3> HIDE DEF yes
    <3> QED
      BY <1>1, <1>2, <2>3, LiPassAdds
  <2>5. LiTypeOK'
    BY <1>1, <1>2, <1>4, <2>2, <2>4 DEF LiTypeOK
  <2>6. LiHolders' = LiHolders /\ LiLevel' = LiLevel /\ LiHeldInv'
    BY <1>1, <1>2, <1>4 DEF LiHolders, LiLevel, LiNow, LiHeldInv
  <2>7. \A from \in 1..liClock : LiForgets(from) + 0 <= LiForgets(from)'
    <3>1. ASSUME NEW from \in 1..liClock PROVE LiForgets(from)' = LiForgets(from) /\ LiForgets(from) \in Nat
      BY <1>1, <1>2, <1>4, LiForgetsType DEF LiForgets, LiUntil
    <3> QED
      BY <3>1
  <2>8. \A from \in 1..liClock : LiCounted(from) + y <= LiCounted(from)'
    <3> SUFFICES ASSUME NEW from \in 1..liClock PROVE LiCounted(from) + y <= LiCounted(from)'
      OBVIOUS
    <3>1. liCount[m] <= liCount'[m] /\ liCount[m] + 1 = liCount'[m]
      BY <1>3, <2>1
    <3>2. LiCounted(from) + (IF liCount'[m] <= LiLimit THEN 1 ELSE 0) <= LiCounted(from)'
      BY <1>1, <1>2, <2>5, <3>1, LiCountedGrows
    <3> QED
      BY <2>1, <3>2
  <2>9. PICK h \in 0..LiK : LiSpare(h) /\ LiPotential(h)
    BY <1>1 DEF LiBucketInv
  <2>10. LiSpare(h)'
    <3>1. \A p \in LiHolders : LiNow(liReq[p])' = LiNow(liReq[p])
      BY <1>2, <1>4 DEF LiNow
    <3> QED
      BY <2>6, <2>9, <3>1 DEF LiSpare
  <2>11. LiPotential(h)'
    <3>1. LiLevel \in Nat /\ LiMinute \in Nat /\ LiK \in Nat /\ h \in Nat /\ y \in Nat
      BY <1>1, LiLevelType, LiConstants
    <3> HIDE DEF y
    <3>2. LiLevel' + LiMinute * (h + y) <= LiLevel + LiMinute * h + LiMinute * (LiK * 0) + LiMinute * y
      BY <2>6, <3>1
    <3> QED
      BY <1>1, <1>2, <2>4, <2>5, <2>6, <2>7, <2>8, <2>9, <3>1, <3>2, LiPotentialMoves
  <2>12. \A n \in LiMinutes : n > m => liCount'[n] = 0
    BY <1>1, <1>3, <2>1 DEF LiBucketInv
  <2>13. LiBucketInv'
    BY <1>2, <2>6, <2>9, <2>10, <2>11, <2>12 DEF LiBucketInv
  <2> QED
    BY <1>1, <1>2, <2>4, <2>5, <2>13 DEF LiIInv
<1>5. CASE /\ UNCHANGED liCount \/ liCount' = [liCount EXCEPT ![m] = @ + 1]
           /\ LiFind(q) /\ UNCHANGED liOk
  <2>1. liCount' \in [LiMinutes -> Nat]
    BY <1>1, <1>3, <1>5 DEF LiTypeOK
  <2>2. /\ \A n \in LiMinutes : n > m => liCount'[n] = liCount[n]
        /\ liCount[m] <= liCount'[m]
    BY <1>1, <1>3, <1>5 DEF LiTypeOK
  <2> HIDE DEF m
  <2> QED
    BY <1>1, <1>2, <1>5, <2>1, <2>2, LiFindIInv DEF m
<1> QED
  BY <1>4, <1>5 DEF LiIncr

-----------------------------------------------------------------------------
(***************************************************************************)
(* The clock.                                                              *)
(***************************************************************************)

\* What ends with this tick is within its bound, and nothing is through after it.
LEMMA LiTickPast ==
  ASSUME LiIInv, LiTick, NEW c, c = liClock
  PROVE  /\ LiPast' /\ LiTypeOK' /\ c \in Nat \ {0} /\ c + 1 \in LiTicks /\ liClock' = c + 1
         /\ \A from \in 1..c : LiPassed(from, c) \in Nat /\ LiPassed(from, liClock)' = LiPassed(from, c)
         /\ LiPassed(c + 1, liClock)' = 0
<1>1. LiTypeOK /\ LiPast /\ LiBounded
  BY LiIInvBounds DEF LiIInv
<1>2. /\ c < LiMaxClock /\ liClock' = c + 1
      /\ UNCHANGED <<liKind, liMap, liBucket, liReq, liCount, liWindow, liOk>>
  BY DEF LiTick
<1>3. /\ c \in Nat \ {0} /\ c \in LiTicks /\ LiTicks \subseteq Nat \ {0} /\ c + 1 \in LiTicks
      /\ 1..c \subseteq LiTicks
  BY <1>1, <1>2, LiTypes, LiConstants DEF LiTicks
<1>4. ASSUME NEW from \in LiTicks, NEW to \in LiTicks
      PROVE  LiPassed(from, to)' = LiPassed(from, to) /\ LiWithin(from, to)' = LiWithin(from, to)
  BY <1>2 DEF LiPassed, LiWithin
<1>5. LiTypeOK'
  BY <1>1, <1>2, <1>3 DEF LiTypeOK
<1>6. LiPast'
  <2>1. IsFiniteSet(LiUnits(liOk, LiTicks))' /\ \A t \in LiTicks : t > liClock' => liOk'[t] = 0
    BY <1>1, <1>2, <1>3 DEF LiPast
  <2>2. \A from, to \in LiTicks : from <= to /\ to < c + 1 => LiWithin(from, to)'
    BY <1>1, <1>4 DEF LiBounded
  <2> QED
    BY <1>2, <2>1, <2>2 DEF LiPast
<1>7. ASSUME NEW from \in 1..c
      PROVE  LiPassed(from, c) \in Nat /\ LiPassed(from, c + 1) = LiPassed(from, c)
  BY <1>1, <1>3, LiNothingLater
<1>8. LiPassed(c + 1, c + 1) = 0
  BY <1>1, <1>3, LiNothingLater
<1>9. ASSUME NEW from PROVE LiPassed(from, liClock)' = LiPassed(from, c + 1)
  BY <1>2 DEF LiPassed
<1> QED
  BY <1>2, <1>3, <1>5, <1>6, <1>7, <1>8, <1>9

\* What flows into the bucket in a tick is what the bound grows by.
LEMMA LiLevelRises ==
  ASSUME LiTypeOK, LiHeldInv, liClock' = liClock + 1, UNCHANGED <<liMap, liBucket>>
  PROVE  LiLevel' \in Nat /\ LiLevel' <= LiFull /\ LiLevel' <= LiLevel + LiLimit
<1>1. /\ LiFull \in Nat /\ LiLimit \in Nat /\ liClock \in Nat /\ liMap \in LiIds \cup {0}
      /\ LiLevel \in Nat
  BY LiConstants, LiTypes, LiLevelType DEF LiTypeOK
<1>2. CASE liMap = 0
  BY <1>1, <1>2 DEF LiLevel
<1>3. CASE liMap # 0
  <2> DEFINE k == liBucket[liMap].tokens
             last == liBucket[liMap].last
             d == (liClock - last) * LiLimit
             e == (liClock + 1 - last) * LiLimit
  <2>1. k \in Nat /\ last \in Nat /\ last <= liClock
    BY <1>1, <1>3, LiTypes DEF LiHeldInv
  <2>2. LiLevel = Min({LiFull, k + d}) /\ LiLevel' = Min({LiFull, k + e})
    <3>1. LiLevel = Min({LiFull, k + d})
      BY <1>3 DEF LiLevel, LiNow
    <3>2. LiLevel' = LiNow(liMap)'
      BY <1>3 DEF LiLevel
    <3>3. liMap' = liMap /\ liBucket' = liBucket /\ liClock' = liClock + 1 /\ LiFull' = LiFull
      BY DEF LiFull
    <3>4. LiNow(liMap)' = Min({LiFull, liBucket'[liMap'].tokens + (liClock' - liBucket'[liMap'].last) * LiLimit})
      BY <3>3 DEF LiNow
    <3>5. liBucket'[liMap'].tokens = k /\ liBucket'[liMap'].last = last
      BY <3>3
    <3> HIDE DEF k, last
    <3>6. LiLevel' = Min({LiFull, k + e})
      BY <1>1, <2>1, <3>2, <3>3, <3>4, <3>5
    <3> HIDE DEF d, e
    <3> QED
      BY <3>1, <3>6
  <2>3. d \in Nat /\ e \in Nat /\ e = d + LiLimit
    <3> HIDE DEF last
    <3>1. liClock - last \in Nat
      BY <1>1, <2>1
    <3>2. (liClock + 1 - last) * LiLimit = (liClock - last) * LiLimit + LiLimit
      BY <1>1, <2>1
    <3> QED
      BY <1>1, <3>1, <3>2
  <2> HIDE DEF k, last, d, e
  <2>4. Min({LiFull, k + d}) = IF LiFull <= k + d THEN LiFull ELSE k + d
    BY <1>1, <2>1, <2>3, LiMinOf
  <2>5. Min({LiFull, k + e}) = IF LiFull <= k + e THEN LiFull ELSE k + e
    BY <1>1, <2>1, <2>3, LiMinOf
  <2> QED
    BY <1>1, <2>1, <2>2, <2>3, <2>4, <2>5
<1> QED
  BY <1>2, <1>3

\* A new minute grants no more than the counter of the last one had left.
LEMMA LiCountedRises ==
  ASSUME LiTypeOK, LiTypeOK', liClock' = liClock + 1, UNCHANGED <<liKind, liCount>>, NEW from \in 1..liClock
  PROVE  LiCounted(from) \in Nat /\ LiCounted(from) <= LiCounted(from)'
<1> DEFINE m == LiMinuteOf(liClock)
           n == LiMinuteOf(liClock + 1)
           o == LiMinuteOf(from)
           j == liCount[m]
           k == liCount[n]
<1>1. /\ liClock \in Nat /\ from \in Nat /\ LiLimit \in Nat
      /\ m \in Nat /\ n \in Nat /\ o \in Nat /\ o <= m /\ m <= n
  <2>1. liClock \in Nat /\ from \in Nat /\ LiLimit \in Nat /\ from <= liClock
    BY LiTypes, LiConstants
  <2> QED
    BY <2>1, LiMinuteGrows
<1>2. j \in Nat /\ k \in Nat
  <2>1. liClock + 1 \in LiTicks
    BY DEF LiTypeOK
  <2>2. n \in LiMinutes
    BY <2>1 DEF LiMinutes
  <2> QED
    BY <2>2, LiTypes DEF LiTypeOK
<1>3. /\ LiCounted(from) = IF liKind = "redis" THEN LiLimit * (m - o) + Min({LiLimit, j}) ELSE 0
      /\ LiCounted(from)' = IF liKind = "redis" THEN LiLimit * (n - o) + Min({LiLimit, k}) ELSE 0
  BY DEF LiCounted
<1>4. m = n => j = k
  OBVIOUS
<1> HIDE DEF m, n, o, j, k
<1>5. Min({LiLimit, j}) = IF LiLimit <= j THEN LiLimit ELSE j
  BY <1>1, <1>2, LiMinOf
<1>6. Min({LiLimit, k}) = IF LiLimit <= k THEN LiLimit ELSE k
  BY <1>1, <1>2, LiMinOf
<1>7. LiLimit * (m - o) \in Nat /\ LiLimit * (n - o) \in Nat
  BY <1>1
<1>8. m < n => LiLimit * (m - o) + LiLimit <= LiLimit * (n - o)
  <2> SUFFICES ASSUME m < n PROVE LiLimit * (m - o) + LiLimit <= LiLimit * (n - o)
    OBVIOUS
  <2>1. LiLimit * (m - o + 1) <= LiLimit * (n - o)
    BY <1>1, LiTimesGrows
  <2>2. LiLimit * (m - o + 1) = LiLimit * (m - o) + LiLimit
    BY <1>1
  <2> QED
    BY <2>1, <2>2
<1>9. Min({LiLimit, j}) \in Nat /\ Min({LiLimit, k}) \in Nat /\ Min({LiLimit, j}) <= LiLimit
  BY <1>1, <1>2, <1>5, <1>6
<1>10. CASE m = n
  BY <1>3, <1>4, <1>7, <1>9, <1>10
<1>11. CASE m < n
  BY <1>1, <1>3, <1>7, <1>8, <1>9, <1>11
<1> QED
  BY <1>1, <1>10, <1>11

LEMMA LiTickBuckets ==
  ASSUME LiIInv, liKind \in {"bucket", "redis"}, LiTick
  PROVE  LiBucketInv'
<1>1. LiTypeOK /\ LiHeldInv /\ LiPast /\ LiBucketInv
  BY DEF LiIInv, LiBucketInv
<1>2. PICK c : c = liClock
  OBVIOUS
<1>3. /\ LiTypeOK' /\ c \in Nat \ {0} /\ c + 1 \in LiTicks /\ liClock' = c + 1
      /\ \A from \in 1..c : LiPassed(from, c) \in Nat /\ LiPassed(from, liClock)' = LiPassed(from, c)
      /\ LiPassed(c + 1, liClock)' = 0
  BY <1>2, LiTickPast
<1>4. /\ UNCHANGED <<liKind, liMap, liBucket, liReq, liCount, liWindow, liOk>>
      /\ \A q \in LiReqs : liReq[q] = 0
  BY DEF LiTick
<1>5. LiHolders' = {}
  BY <1>4 DEF LiHolders
<1>6. LiHeldInv'
  <2>1. \A b \in LiIds : liBucket'[b].last <= c + 1
    BY <1>1, <1>2, <1>3, <1>4, LiTypes DEF LiHeldInv
  <2> QED
    BY <1>3, <1>5, <2>1 DEF LiHeldInv
<1>7. PICK h \in 0..LiK : LiPotential(h)
  BY <1>1 DEF LiBucketInv
<1>8. /\ LiMinute \in Nat /\ LiK \in Nat /\ LiFull \in Nat /\ LiLimit \in Nat /\ LiLevel \in Nat /\ h \in Nat
  BY <1>1, LiConstants, LiLevelType
<1>9. LiLevel' \in Nat /\ LiLevel' <= LiFull /\ LiLevel' <= LiLevel + LiLimit
  BY <1>1, <1>2, <1>3, <1>4, LiLevelRises
<1>10. (LiTypeOK /\ LiHeldInv => LiSized)'
  BY LiSizes, PTL
<1>11. \A from \in 1..(c + 1) : LiForgets(from)' \in Nat /\ LiCounted(from)' \in Nat
  BY <1>3, <1>6, <1>10 DEF LiSized
<1>12. ASSUME NEW from \in 1..c
       PROVE  LiMinute * LiPassed(from, liClock)' + LiLevel'
                <= LiFull + (c + 1 - from) * LiLimit
                     + LiMinute * (LiK * LiForgets(from)') + LiMinute * LiCounted(from)'
  <2> DEFINE p == LiPassed(from, c)
             F == LiForgets(from)
             G == LiForgets(from)'
             C == LiCounted(from)
             D == LiCounted(from)'
             V == LiLevel
             W == LiLevel'
             B == (c - from) * LiLimit
  <2>1. F \in Nat /\ F <= G /\ G \in Nat
    <3>1. LiUntil' \in Nat /\ LiUntil <= LiUntil'
      <4>1. CASE liMap = 0
        BY <1>2, <1>3, <1>4, <4>1 DEF LiUntil
      <4>2. CASE liMap # 0
        BY <1>1, <1>4, <4>2, LiTypes DEF LiUntil, LiTypeOK
      <4> QED
        BY <4>1, <4>2
    <3> QED
      BY <1>1, <1>2, <3>1, LiForgetsGrows, LiForgetsType
  <2>2. C \in Nat /\ D \in Nat /\ C <= D
    BY <1>1, <1>2, <1>3, <1>4, <1>11, LiCountedRises
  <2>3. p \in Nat /\ LiPassed(from, liClock)' = p
    BY <1>3
  <2>4. LiMinute * p + V + LiMinute * h <= LiFull + B + LiMinute * (LiK * F) + LiMinute * C
    BY <1>2, <1>7 DEF LiPotential
  <2>5. B \in Nat /\ (c + 1 - from) * LiLimit = B + LiLimit
    <3>1. from \in Nat /\ c - from \in Nat /\ c \in Nat
      BY <1>3
    <3> QED
      BY <1>8, <3>1
  <2>6. V \in Nat /\ W \in Nat /\ W <= V + LiLimit
    BY <1>8, <1>9
  <2> HIDE DEF p, F, G, C, D, V, W, B
  <2>7. LiK * F <= LiK * G /\ LiK * F \in Nat /\ LiK * G \in Nat
    BY <1>8, <2>1, LiTimesGrows
  <2>8. /\ LiMinute * (LiK * F) <= LiMinute * (LiK * G) /\ LiMinute * (LiK * F) \in Nat
        /\ LiMinute * (LiK * G) \in Nat
    BY <1>8, <2>7, LiTimesGrows
  <2>9. LiMinute * C <= LiMinute * D /\ LiMinute * C \in Nat /\ LiMinute * D \in Nat
    BY <1>8, <2>2, LiTimesGrows
  <2>10. LiMinute * p \in Nat /\ LiMinute * h \in Nat
    BY <1>8, <2>3
  <2>11. LiMinute * p + W <= LiFull + (B + LiLimit) + LiMinute * (LiK * G) + LiMinute * D
    BY <1>8, <2>4, <2>5, <2>6, <2>8, <2>9, <2>10
  <2> QED
    BY <2>3, <2>5, <2>11 DEF W, G, D
<1>13. ASSUME NEW from \in 1..(c + 1)
       PROVE  LiMinute * LiPassed(from, liClock)' + LiLevel' + LiMinute * 0
                <= LiFull + (c + 1 - from) * LiLimit
                     + LiMinute * (LiK * LiForgets(from)') + LiMinute * LiCounted(from)'
  <2>1. CASE from \in 1..c
    <3>1. LiMinute * LiPassed(from, liClock)' \in Nat /\ LiMinute * 0 = 0
      BY <1>3, <1>8, <2>1
    <3> QED
      BY <1>9, <1>12, <2>1, <3>1
  <2>2. CASE from = c + 1
    <3> DEFINE G == LiForgets(from)'
               D == LiCounted(from)'
    <3>1. LiPassed(from, liClock)' = 0 /\ G \in Nat /\ D \in Nat
      BY <1>3, <1>11, <2>2
    <3>2. (c + 1 - from) * LiLimit = 0
      BY <1>3, <1>8, <2>2
    <3> HIDE DEF G, D
    <3>3. LiMinute * (LiK * G) \in Nat /\ LiMinute * D \in Nat
      <4>1. LiK * G \in Nat
        BY <1>8, <3>1
      <4> QED
        BY <1>8, <3>1, <4>1
    <3>4. LiMinute * 0 + LiLevel' + LiMinute * 0 <= LiFull + 0 + LiMinute * (LiK * G) + LiMinute * D
      BY <1>8, <1>9, <3>3
    <3> QED
      BY <3>1, <3>2, <3>4 DEF G, D
  <2> QED
    BY <1>3, <2>1, <2>2
<1>14. LiPotential(0)'
  <2> SUFFICES ASSUME NEW from \in 1..liClock'
               PROVE  (LiMinute * LiPassed(from, liClock) + LiLevel + LiMinute * 0
                        <= LiFull + (liClock - from) * LiLimit
                             + LiMinute * (LiK * LiForgets(from)) + LiMinute * LiCounted(from))'
    BY DEF LiPotential
  <2>1. LiK' = LiK /\ LiFull' = LiFull /\ from \in 1..(c + 1)
    BY <1>3 DEF LiK, LiFull
  <2> QED
    BY <1>3, <1>13, <2>1
<1>15. LiSpare(0)'
  BY <1>5 DEF LiSpare
<1>16. \A m \in LiMinutes : m > LiMinuteOf(c + 1) => liCount'[m] = 0
  <2>1. LiMinuteOf(c) \in Nat /\ LiMinuteOf(c + 1) \in Nat /\ LiMinuteOf(c) <= LiMinuteOf(c + 1)
    BY <1>3, LiMinuteGrows
  <2>2. \A m \in LiMinutes : m \in Nat
    <3>1. \A t \in LiTicks : t \in Nat
      BY LiConstants DEF LiTicks
    <3> QED
      BY <3>1, LiMinuteGrows DEF LiMinutes
  <2> QED
    BY <1>1, <1>2, <1>4, <2>1, <2>2 DEF LiBucketInv
<1>17. 0 \in 0..LiK /\ LiK' = LiK
  BY <1>8 DEF LiK
<1> QED
  BY <1>3, <1>6, <1>14, <1>15, <1>16, <1>17 DEF LiBucketInv

-----------------------------------------------------------------------------
(***************************************************************************)
(* Sliding windows.                                                        *)
(***************************************************************************)

\* What is fresh is what was let through in the last minute.
LEMMA LiFreshOnes ==
  ASSUME LiTypeOK, LiPast, LiWindowInv
  PROVE  /\ LiFresh \in [LiTicks -> 0..LiLimit] /\ liOk \in [LiTicks -> Nat]
         /\ \A t \in LiTicks : /\ LiFresh[t] <= liOk[t] /\ LiFresh[t] \in Nat
                               /\ t > liClock - LiMinute => LiFresh[t] = liOk[t]
         /\ IsFiniteSet(LiUnits(LiFresh, LiTicks)) /\ Cardinality(LiUnits(LiFresh, LiTicks)) \in Nat
<1>1. LiFresh \in [LiTicks -> 0..LiLimit] /\ liOk \in [LiTicks -> Nat] /\ LiLimit \in Nat
  BY LiConstants DEF LiFresh, LiTypeOK
<1>2. \A t \in LiTicks : /\ LiFresh[t] <= liOk[t] /\ LiFresh[t] \in Nat /\ liOk[t] \in Nat
                         /\ t > liClock - LiMinute => LiFresh[t] = liOk[t]
  BY <1>1 DEF LiFresh, LiWindowInv
<1>3. LiTicks \in SUBSET LiTicks
  OBVIOUS
<1>4. IsFiniteSet(LiUnits(LiFresh, LiTicks)) /\ Cardinality(LiUnits(LiFresh, LiTicks)) \in Nat
  BY <1>2, <1>3, LiFewerUnits DEF LiPast
<1> QED
  BY <1>1, <1>2, <1>4

LEMMA LiSlideIInv ==
  ASSUME LiIInv, liKind \notin {"bucket", "redis"}, LiSlide(LiFresh),
         UNCHANGED <<liKind, liClock, liMap, liBucket, liReq, liCount>>
  PROVE  LiIInv'
<1> DEFINE n == Cardinality(LiUnits(LiFresh, LiTicks))
           room == n < LiLimit
           y == IF room THEN 1 ELSE 0
<1>1. LiTypeOK /\ LiPast /\ LiWindowInv
  BY DEF LiIInv
<1>2. /\ LiFresh \in [LiTicks -> 0..LiLimit] /\ liOk \in [LiTicks -> Nat] /\ n \in Nat
      /\ \A t \in LiTicks : /\ LiFresh[t] <= liOk[t] /\ LiFresh[t] \in Nat
                            /\ t > liClock - LiMinute => LiFresh[t] = liOk[t]
      /\ IsFiniteSet(LiUnits(LiFresh, LiTicks))
  BY <1>1, LiFreshOnes
<1>3. /\ liClock \in Nat \ {0} /\ liClock \in LiTicks /\ LiLimit \in Nat /\ LiMinute \in Nat \ {0}
      /\ LiTicks \subseteq Nat \ {0} /\ 1..liClock \subseteq LiTicks
  BY <1>1, LiTypes, LiConstants DEF LiTicks
<1>4. LiPass(room) /\ liWindow' = IF room THEN [LiFresh EXCEPT ![liClock] = @ + 1] ELSE LiFresh
  BY DEF LiSlide
<1>5. /\ LiPast' /\ liOk' \in [LiTicks -> Nat]
      /\ \A from \in 1..liClock : /\ LiPassed(from, liClock) \in Nat
                                  /\ LiPassed(from, liClock)' = LiPassed(from, liClock) + y
  <2>1. room \in BOOLEAN
    OBVIOUS
  <2> HIDE DEF room
  <2> QED
    BY <1>1, <1>4, <2>1, LiPassAdds
<1>6. ASSUME NEW from \in 1..liClock, liClock - from < LiMinute
      PROVE  LiPassed(from, liClock) <= n /\ LiPassed(from, liClock) \in Nat
  <2> DEFINE some == from..liClock
  <2>1. some \in SUBSET LiTicks
    BY <1>3
  <2>2. \A t \in some : liOk[t] \in Nat /\ LiFresh[t] \in Nat /\ liOk[t] <= LiFresh[t]
    BY <1>2, <1>3, <1>6, <2>1
  <2> HIDE DEF some
  <2>3. Cardinality(LiUnits(liOk, some)) <= n /\ Cardinality(LiUnits(liOk, some)) \in Nat
    BY <1>2, <2>1, <2>2, LiFewerUnits
  <2> QED
    BY <2>3 DEF LiPassed, some
<1>7. room => LiFresh[liClock] + 1 \in 0..LiLimit
  <2> SUFFICES ASSUME room PROVE LiFresh[liClock] + 1 \in 0..LiLimit
    OBVIOUS
  <2> DEFINE k == LiFresh[liClock]
             U == LiUnits(LiFresh, {liClock})
  <2>1. k \in Nat
    BY <1>2, <1>3
  <2>2. Cardinality(U) <= n /\ IsFiniteSet(U) /\ Cardinality(U) \in Nat
    <3>1. {liClock} \in SUBSET LiTicks /\ \A t \in {liClock} : LiFresh[t] \in Nat /\ LiFresh[t] <= LiFresh[t]
      BY <1>2, <1>3
    <3> QED
      BY <1>2, <3>1, LiFewerUnits
  <2>3. Cardinality(U) = k
    <3>1. U = {liClock} \X (1..k)
      BY DEF LiUnits
    <3>2. IsFiniteSet({liClock}) /\ Cardinality({liClock}) = 1
      BY FS_Singleton
    <3>3. IsFiniteSet(1..k) /\ Cardinality(1..k) = k
      BY <2>1, FS_Interval
    <3>4. Cardinality({liClock} \X (1..k)) = Cardinality({liClock}) * Cardinality(1..k)
      BY <3>2, <3>3, FS_Product
    <3> HIDE DEF U, k
    <3> QED
      BY <2>1, <3>1, <3>2, <3>3, <3>4
  <2> HIDE DEF U
  <2> QED
    BY <1>2, <1>3, <2>1, <2>2, <2>3
<1>8. liWindow' \in [LiTicks -> 0..LiLimit]
  BY <1>2, <1>3, <1>4, <1>7
<1>9. LiTypeOK'
  BY <1>1, <1>5, <1>8 DEF LiTypeOK
<1>10. \A t \in LiTicks : /\ liWindow'[t] = LiFresh[t] + (IF t = liClock THEN y ELSE 0)
                          /\ liOk'[t] = liOk[t] + (IF t = liClock THEN y ELSE 0)
  <2>1. CASE room
    BY <1>2, <1>3, <1>4, <2>1 DEF LiPass
  <2>2. CASE ~room
    BY <1>2, <1>3, <1>4, <2>2 DEF LiPass
  <2> QED
    BY <2>1, <2>2
<1>11. \A t \in LiTicks : liWindow'[t] <= liOk'[t] /\ (t > liClock - LiMinute => liWindow'[t] = liOk'[t])
  <2> HIDE DEF y
  <2>1. y \in Nat
    BY DEF y
  <2> QED
    BY <1>2, <1>3, <1>10, <2>1
<1>12. ASSUME NEW from \in 1..liClock PROVE LiWithin(from, liClock)'
  <2>1. liClock - from < LiMinute => LiPassed(from, liClock)' <= LiLimit
    <3> SUFFICES ASSUME liClock - from < LiMinute PROVE LiPassed(from, liClock)' <= LiLimit
      OBVIOUS
    <3>1. LiPassed(from, liClock) <= LiLimit
      BY <1>1 DEF LiWindowInv, LiWithin
    <3>2. LiPassed(from, liClock) <= n /\ LiPassed(from, liClock) \in Nat
          /\ LiPassed(from, liClock)' = LiPassed(from, liClock) + y
      BY <1>5, <1>6
    <3> HIDE DEF n
    <3> QED
      BY <1>2, <1>3, <3>1, <3>2
  <2> QED
    BY <2>1 DEF LiWithin
<1>13. LiWindowInv'
  BY <1>1, <1>11, <1>12 DEF LiWindowInv
<1> QED
  BY <1>5, <1>9, <1>13 DEF LiIInv

LEMMA LiSweepIInv ==
  ASSUME LiIInv, LiSweep
  PROVE  LiIInv'
<1>1. /\ LiTypeOK /\ LiPast /\ LiWindowInv /\ liKind \notin {"bucket", "redis"}
      /\ liWindow' = LiFresh /\ UNCHANGED <<liKind, liClock, liMap, liBucket, liReq, liCount, liOk>>
  BY DEF LiIInv, LiSweep
<1>2. /\ LiFresh \in [LiTicks -> 0..LiLimit]
      /\ \A t \in LiTicks : /\ LiFresh[t] <= liOk[t]
                            /\ t > liClock - LiMinute => LiFresh[t] = liOk[t]
  BY <1>1, LiFreshOnes
<1>3. LiTypeOK'
  BY <1>1, <1>2 DEF LiTypeOK
<1>4. ASSUME NEW from, NEW to PROVE LiWithin(from, to)' = LiWithin(from, to)
  BY <1>1 DEF LiWithin, LiPassed
<1>5. LiPast'
  BY <1>1, <1>4 DEF LiPast
<1>6. \A from \in 1..liClock : LiWithin(from, liClock)'
  BY <1>1 DEF LiWindowInv, LiWithin, LiPassed
<1>7. LiWindowInv'
  BY <1>1, <1>2, <1>6 DEF LiWindowInv
<1> QED
  BY <1>1, <1>3, <1>5, <1>7 DEF LiIInv

LEMMA LiTickWindows ==
  ASSUME LiIInv, liKind \notin {"bucket", "redis"}, LiTick
  PROVE  LiWindowInv'
<1>1. LiTypeOK /\ LiPast /\ LiWindowInv
  BY DEF LiIInv
<1>2. PICK c : c = liClock
  OBVIOUS
<1>3. /\ c \in Nat \ {0} /\ c + 1 \in LiTicks /\ liClock' = c + 1
      /\ \A from \in 1..c : LiPassed(from, c) \in Nat /\ LiPassed(from, liClock)' = LiPassed(from, c)
      /\ LiPassed(c + 1, liClock)' = 0
  BY <1>2, LiTickPast
<1>4. /\ UNCHANGED <<liKind, liMap, liBucket, liReq, liCount, liWindow, liOk>>
      /\ LiMinute \in Nat /\ LiLimit \in Nat /\ LiTicks \subseteq Nat
  BY <1>1, LiConstants, LiTypes DEF LiTick
<1>5. \A t \in LiTicks : liWindow'[t] <= liOk'[t] /\ (t > c + 1 - LiMinute => liWindow'[t] = liOk'[t])
  BY <1>1, <1>2, <1>3, <1>4 DEF LiWindowInv
<1>6. ASSUME NEW from \in 1..(c + 1) PROVE c + 1 - from < LiMinute => LiPassed(from, liClock)' <= LiLimit
  <2>1. CASE from \in 1..c
    <3>1. c - from < LiMinute => LiPassed(from, c) <= LiLimit
      BY <1>1, <1>2, <2>1 DEF LiWindowInv, LiWithin
    <3> QED
      BY <1>3, <1>4, <2>1, <3>1
  <2>2. CASE from = c + 1
    BY <1>3, <1>4, <2>2
  <2> QED
    BY <1>3, <2>1, <2>2
<1>7. \A from \in 1..(c + 1) : LiWithin(from, liClock)'
  BY <1>3, <1>4, <1>6 DEF LiWithin
<1>8. liMap' = 0 /\ \A q \in LiReqs : liReq'[q] = 0
  BY <1>1, <1>4 DEF LiWindowInv
<1>9. \A t \in LiTicks : /\ liWindow'[t] <= liOk'[t]
                         /\ t > liClock' - LiMinute => liWindow'[t] = liOk'[t]
  BY <1>3, <1>4, <1>5
<1>10. \A from \in 1..liClock' : LiWithin(from, liClock)'
  BY <1>3, <1>7
<1> QED
  BY <1>8, <1>9, <1>10 DEF LiWindowInv

-----------------------------------------------------------------------------

LEMMA LiInitIInv == LiInit => LiIInv
<1> SUFFICES ASSUME LiInit PROVE LiIInv
  OBVIOUS
<1>1. /\ liClock = 1 /\ liMap = 0 /\ liBucket = [b \in LiIds |-> [tokens |-> 0, last |-> 0]]
      /\ liReq = [q \in LiReqs |-> 0] /\ liCount = [m \in LiMinutes |-> 0]
      /\ liWindow = [t \in LiTicks |-> 0] /\ liOk = [t \in LiTicks |-> 0]
      /\ liKind \in {"bucket", "redis", "mcp", "gateway"}
  BY DEF LiInit
<1>2. /\ LiFull \in Nat /\ LiLimit \in Nat /\ LiMinute \in Nat /\ LiMaxClock \in Nat \ {0} /\ LiK \in Nat
      /\ 1 \in LiTicks
  BY LiConstants DEF LiTicks
<1>3. LiTypeOK
  <2>1. [tokens |-> 0, last |-> 0] \in [tokens : 0..LiFull, last : 0..LiMaxClock]
    BY <1>2
  <2> QED
    BY <1>1, <1>2, <2>1 DEF LiTypeOK
<1>4. LiPast
  <2>1. LiUnits(liOk, LiTicks) = {}
    <3>1. \A t \in LiTicks : 1..liOk[t] = {}
      BY <1>1
    <3> QED
      BY <3>1 DEF LiUnits
  <2>2. IsFiniteSet(LiUnits(liOk, LiTicks))
    BY <2>1, FS_EmptySet
  <2>3. \A t \in LiTicks : liOk[t] = 0
    BY <1>1
  <2>4. \A from, to \in LiTicks : ~(from <= to /\ to < liClock)
    BY <1>1, LiConstants DEF LiTicks
  <2> QED
    BY <2>2, <2>3, <2>4 DEF LiPast
<1>5. LiPassed(1, 1) = 0
  <2>1. LiUnits(liOk, 1..1) = {}
    <3>1. \A t \in 1..1 : 1..liOk[t] = {}
      BY <1>1, <1>2
    <3> QED
      BY <3>1 DEF LiUnits
  <2> QED
    BY <2>1, FS_EmptySet DEF LiPassed
<1>6. LiWithin(1, 1)
  BY <1>2, <1>3, <1>5, LiWithinNothing
<1>7. LiWindowInv
  BY <1>1, <1>2, <1>6 DEF LiWindowInv
<1>8. LiHolders = {}
  BY <1>1 DEF LiHolders
<1>9. LiHeldInv
  BY <1>1, <1>8 DEF LiHeldInv
<1>10. LiSpare(0)
  BY <1>8 DEF LiSpare
<1>11. LiPotential(0)
  <2>1. LiForgets(1) \in Nat /\ LiCounted(1) \in Nat
    BY <1>1, <1>3, <1>9, LiForgetsType, LiCountedType
  <2>2. LiLevel = LiFull
    BY <1>1 DEF LiLevel
  <2>3. LiMinute * (LiK * LiForgets(1)) \in Nat /\ LiMinute * LiCounted(1) \in Nat
    <3>1. LiK * LiForgets(1) \in Nat
      BY <1>2, <2>1
    <3> QED
      BY <1>2, <2>1, <3>1
  <2>4. LiMinute * LiPassed(1, 1) + LiLevel + LiMinute * 0
          <= LiFull + (1 - 1) * LiLimit + LiMinute * (LiK * LiForgets(1)) + LiMinute * LiCounted(1)
    <3> DEFINE a == LiMinute * (LiK * LiForgets(1))
               b == LiMinute * LiCounted(1)
    <3>1. a \in Nat /\ b \in Nat
      BY <2>3
    <3> HIDE DEF a, b
    <3>2. LiMinute * 0 + LiFull + LiMinute * 0 <= LiFull + (1 - 1) * LiLimit + a + b
      BY <1>2, <3>1
    <3> QED
      BY <1>5, <2>2, <3>2 DEF a, b
  <2> QED
    BY <1>1, <2>4 DEF LiPotential
<1>12. \A m \in LiMinutes : liCount[m] = 0
  BY <1>1
<1>13. LiBucketInv
  BY <1>2, <1>9, <1>10, <1>11, <1>12 DEF LiBucketInv
<1> QED
  BY <1>3, <1>4, <1>7, <1>13 DEF LiIInv

LEMMA LiNextIInv == LiIInv /\ [LiNext]_liVars => LiIInv'
<1> SUFFICES ASSUME LiIInv, [LiNext]_liVars PROVE LiIInv'
  OBVIOUS
<1>1. LiTypeOK /\ LiPast /\ (liKind \notin {"bucket", "redis"} => liMap = 0 /\ \A q \in LiReqs : liReq[q] = 0)
  BY DEF LiIInv, LiWindowInv
<1>2. CASE LiTick
  <2>1. LiTypeOK' /\ LiPast' /\ liKind' = liKind
    <3>1. PICK c : c = liClock
      OBVIOUS
    <3> QED
      BY <1>2, <3>1, LiTickPast DEF LiTick
  <2>2. liKind \in {"bucket", "redis"} => LiBucketInv'
    BY <1>2, LiTickBuckets
  <2>3. liKind \notin {"bucket", "redis"} => LiWindowInv'
    BY <1>2, LiTickWindows
  <2> QED
    BY <2>1, <2>2, <2>3 DEF LiIInv
<1>3. CASE LiGc
  <2>1. liKind \in {"bucket", "redis"}
    BY <1>1, <1>3 DEF LiGc
  <2> QED
    BY <1>3, <2>1, LiGcIInv
<1>4. CASE LiAllowMcp
  BY <1>4, LiSlideIInv DEF LiAllowMcp
<1>5. CASE LiAllowGateway
  BY <1>5, LiSlideIInv DEF LiAllowGateway
<1>6. CASE LiSweep
  BY <1>6, LiSweepIInv
<1>7. ASSUME NEW q \in LiReqs, LiAsk(q) PROVE LiIInv'
  <2>1. /\ liKind = "bucket" /\ liReq[q] = 0 /\ LiFind(q)
        /\ UNCHANGED <<liKind, liClock, liCount, liWindow, liOk>>
    BY <1>7 DEF LiAsk
  <2>2. /\ liCount' \in [LiMinutes -> Nat] /\ \A m \in LiMinutes : liCount'[m] = liCount[m]
        /\ liCount[LiMinuteOf(liClock)] <= liCount'[LiMinuteOf(liClock)]
    BY <1>1, <2>1, LiTypes DEF LiTypeOK
  <2> QED
    BY <2>1, <2>2, LiFindIInv
<1>8. ASSUME NEW q \in LiReqs, LiTake(q) PROVE LiIInv'
  <2>1. liKind \in {"bucket", "redis"}
    BY <1>1, <1>8 DEF LiTake
  <2> QED
    BY <1>8, <2>1, LiTakeIInv
<1>9. ASSUME NEW q \in LiReqs, LiIncr(q) PROVE LiIInv'
  BY <1>9, LiIncrIInv
<1>10. CASE UNCHANGED liVars
  <2>1. UNCHANGED <<liKind, liClock, liMap, liBucket, liReq, liCount, liWindow, liOk>>
    BY <1>10 DEF liVars
  <2>2. LiTypeOK'
    BY <1>1, <2>1 DEF LiTypeOK
  <2>3. LiPast'
    BY <1>1, <2>1 DEF LiPast, LiWithin, LiPassed
  <2>4. LiBucketInv => LiBucketInv'
    BY <2>1 DEF LiBucketInv, LiHeldInv, LiHolders, LiSpare, LiNow, LiPotential, LiPassed, LiLevel, LiK,
                LiForgets, LiUntil, LiCounted
  <2>5. LiWindowInv => LiWindowInv'
    BY <2>1 DEF LiWindowInv, LiWithin, LiPassed
  <2> QED
    BY <2>1, <2>2, <2>3, <2>4, <2>5 DEF LiIInv
<1> QED
  BY <1>2, <1>3, <1>4, <1>5, <1>6, <1>7, <1>8, <1>9, <1>10 DEF LiNext

\* Over any stretch of time a window lets through no more than its limit in a
\* minute, a bucket no more than a full one, what flows in and what the holders
\* of forgotten ones take, and Redis its limit for each minute on top of that
\* (allow, gc and the middleware of ratelimit.go and of both windows).
THEOREM CallsAreBounded == LiSpec => [](LiTypeOK /\ LiBounded)
<1>1. LiInit => LiIInv
  BY LiInitIInv
<1>2. LiIInv /\ [LiNext]_liVars => LiIInv'
  BY LiNextIInv
<1>3. LiIInv => LiTypeOK /\ LiBounded
  BY LiIInvBounds
<1> QED
  BY <1>1, <1>2, <1>3, PTL DEF LiSpec
=============================================================================
