----------------------------- MODULE HostProofs -----------------------------
(***************************************************************************)
(* Proofs about what runs on the host: the tools of its sandboxes          *)
(* (HostTools), the rules for their traffic (Egress), the timeout of a     *)
(* command (SandboxRuns), the CI runner (CiRunner), and what a command's   *)
(* output leaves with (Redactor). A buffer is processed by recursion over  *)
(* its length: what it gives is proved with the shortest buffer for which  *)
(* it would not hold.                                                      *)
(***************************************************************************)
EXTENDS HostTools, Egress, SandboxRuns, CiRunner, Redactor, FiniteSetTheorems,
        FunctionTheorems, SequenceTheorems, WellFoundedInduction, TLAPS

-----------------------------------------------------------------------------
(* Host tools *)

\* The container in the goroutine's hands, and the one that is up of it.
HtHands == IF htFill \in {"create", "start", "push"} THEN {htHeld} ELSE {}
HtUp == IF htFill \in {"start", "push"} THEN {htHeld} ELSE {}

\* The pool and the goroutine share no container, and there is room for the
\* one it makes.
HtPoolInv ==
  /\ HtHands \subseteq htMade /\ htPool \subseteq htMade /\ HtHands \cap htPool = {}
  /\ htLeft \subseteq htMade /\ htLeft \cap (htPool \cup HtHands) = {}
  /\ htBoxesUp \ htLeft = htPool \cup HtUp
  /\ htDirs \subseteq htPool \cup HtHands \cup htLeft
  /\ Cardinality(htPool) <= HtSize
  /\ htFill \in {"verify", "create", "start", "push"} => Cardinality(htPool) < HtSize

\* Projects are drawn once each, a limit is set before the sandbox is made, and
\* the supervisor is installed once it is ready.
HtSessionInv ==
  /\ htReady => htInstalled
  /\ htLabel # {} => htInstalled
  /\ \A s \in HtSessions :
       /\ IF htStep[s] = "new" THEN htProject[s] = 0 ELSE htProject[s] \in 1..htSequence
       /\ htStep[s] \in {"sandbox", "running"} => htProject[s] \in htLimits
       /\ \A t \in HtSessions \ {s} :
            htStep[s] # "new" /\ htStep[t] # "new" => htProject[s] # htProject[t]

HtIInv == HtTypeOK /\ HtPoolInv /\ HtSessionInv

LEMMA HtInitIInv == HtInit => HtIInv
<1> SUFFICES ASSUME HtInit PROVE HtIInv
  OBVIOUS
<1>1. HtTypeOK
  <2>1. 0 \in 0..HtMaxFails /\ 0 \in 0..0 /\ {} \subseteq 1..0
    BY HostToolsAssumption
  <2>2. htStep \in [HtSessions -> {"new", "project", "limit", "sandbox", "running", "failed"}]
    BY DEF HtInit
  <2>3. htProject \in [HtSessions -> 0..htSequence]
    BY <2>1 DEF HtInit
  <2>4. htReady \in BOOLEAN /\ htCooling \in BOOLEAN /\ htInstalled \in BOOLEAN
    BY DEF HtInit
  <2> QED
    BY <2>1, <2>2, <2>3, <2>4 DEF HtInit, HtTypeOK, HtFills
<1>2. Cardinality({}) = 0
  BY FS_EmptySet
<1>3. HtPoolInv
  BY <1>2, HostToolsAssumption DEF HtInit, HtPoolInv, HtHands, HtUp
<1>4. HtSessionInv
  BY DEF HtInit, HtSessionInv
<1> QED
  BY <1>1, <1>3, <1>4 DEF HtIInv

\* The pool is finite, as the containers that can be made are.
LEMMA HtPoolFinite ==
  ASSUME HtIInv
  PROVE  IsFiniteSet(htPool) /\ Cardinality(htPool) \in Nat
<1>1. htPool \subseteq HtBoxes /\ IsFiniteSet(HtBoxes)
  BY HostToolsAssumption DEF HtIInv, HtTypeOK
<1>2. IsFiniteSet(htPool)
  BY <1>1, FS_Subset
<1> QED
  BY <1>2, FS_CardinalityType

\* The supervisor's volume: what is ready is installed and stays so.
LEMMA HtSupervisorKeeps ==
  ASSUME HtIInv, HtMounted \/ HtUnmounted \/ UNCHANGED <<htSupervisor, htFails>>
  PROVE  /\ htReady' \in BOOLEAN /\ htCooling' \in BOOLEAN /\ htInstalled' \in BOOLEAN
         /\ htFails' \in 0..HtMaxFails
         /\ htReady' => htInstalled'
         /\ htInstalled => htInstalled'
         /\ HtMounted => htInstalled'
<1>1. CASE HtMounted
  BY <1>1 DEF HtMounted, HtIInv, HtTypeOK
<1>2. CASE HtUnmounted
  <2>1. htFails' \in 0..HtMaxFails
    BY <1>2, HostToolsAssumption DEF HtUnmounted, HtFail, HtIInv, HtTypeOK
  <2>2. htCooling' \in BOOLEAN /\ htReady' = htReady /\ htInstalled' = htInstalled
    BY <1>2 DEF HtUnmounted, htSupervisor, HtIInv, HtTypeOK
  <2>3. HtMounted => htInstalled'
    BY DEF HtMounted
  <2> QED
    BY <2>1, <2>2, <2>3 DEF HtIInv, HtTypeOK, HtSessionInv
<1>3. CASE UNCHANGED <<htSupervisor, htFails>>
  <2>1. HtMounted => htInstalled'
    BY DEF HtMounted
  <2> QED
    BY <1>3, <2>1 DEF htSupervisor, HtIInv, HtTypeOK, HtSessionInv
<1> QED
  BY <1>1, <1>2, <1>3

LEMMA HtFailType ==
  ASSUME HtIInv, HtFail
  PROVE  htFails' \in 0..HtMaxFails
  BY HostToolsAssumption DEF HtFail, HtIInv, HtTypeOK

\* A step of the pool keeps what sessions have, a step of a session keeps the
\* pool.
LEMMA HtSessionsKept ==
  ASSUME HtIInv, UNCHANGED htSessionVars, htReady' => htInstalled', htInstalled => htInstalled'
  PROVE  HtSessionInv'
  BY DEF htSessionVars, HtIInv, HtSessionInv

LEMMA HtPoolKept ==
  ASSUME HtIInv, UNCHANGED htPoolVars
  PROVE  HtPoolInv'
  BY DEF htPoolVars, HtIInv, HtPoolInv, HtHands, HtUp

LEMMA HtMinuteIInv ==
  ASSUME HtIInv, HtMinutePasses
  PROVE  HtIInv'
<1>1. HtTypeOK'
  BY DEF HtMinutePasses, htPoolVars, htSessionVars, HtIInv, HtTypeOK
<1>2. HtPoolInv'
  BY HtPoolKept DEF HtMinutePasses
<1>3. HtSessionInv'
  BY HtSessionsKept DEF HtMinutePasses, HtIInv, HtSessionInv
<1> QED
  BY <1>1, <1>2, <1>3 DEF HtIInv

\* Steps of the goroutine, and of Stop, that touch no container.
LEMMA HtTurnsIInv ==
  ASSUME HtIInv, HtFillStops \/ HtFillChecks \/ HtWaited \/ HtClose
  PROVE  HtIInv'
<1>1. UNCHANGED <<htHeld, htPool, htBoxesUp, htDirs, htLeft, htMade, htSupervisor, htSessionVars, htFails>>
  BY DEF HtFillStops, HtFillChecks, HtWaited, HtClose
<1>2. /\ htFill' \in HtFills /\ htStop' \in {"open", "draining", "returned"}
      /\ \/ htFill' = htFill
         \/ htFill \notin {"create", "start", "push"} /\ htFill' \in {"gone", "check"}
         \/ htFill \notin {"create", "start", "push"} /\ htFill' = "verify" /\ HtHasRoom
  BY DEF HtFillStops, HtFillChecks, HtWaited, HtClose, HtFills, HtIInv, HtTypeOK
<1>3. HtTypeOK'
  BY <1>1, <1>2 DEF HtIInv, HtTypeOK, htSupervisor, htSessionVars
<1>4. HtPoolInv'
  BY <1>1, <1>2 DEF HtIInv, HtPoolInv, HtHands, HtUp, HtHasRoom
<1>5. HtSessionInv'
  BY <1>1, HtSessionsKept DEF htSupervisor, HtIInv, HtSessionInv
<1> QED
  BY <1>3, <1>4, <1>5 DEF HtIInv

LEMMA HtVerifyIInv ==
  ASSUME HtIInv, HtVerify
  PROVE  HtIInv'
<1>1. htFill = "verify" /\ UNCHANGED <<htPool, htBoxesUp, htStop, htSessionVars>>
  BY DEF HtVerify
<1>2. CASE /\ \E b \in HtBoxes \ htMade :
                htHeld' = b /\ htMade' = htMade \cup {b} /\ htDirs' = htDirs \cup {b}
           /\ htFill' = "create" /\ UNCHANGED htLeft
           /\ HtMounted \/ HtUnmounted
  <2>1. PICK b \in HtBoxes \ htMade :
          htHeld' = b /\ htMade' = htMade \cup {b} /\ htDirs' = htDirs \cup {b}
    BY <1>2
  <2>2. /\ htReady' \in BOOLEAN /\ htCooling' \in BOOLEAN /\ htInstalled' \in BOOLEAN
        /\ htFails' \in 0..HtMaxFails /\ (htReady' => htInstalled') /\ (htInstalled => htInstalled')
    BY <1>2, HtSupervisorKeeps
  <2>3. HtTypeOK'
    BY <1>1, <1>2, <2>1, <2>2 DEF HtIInv, HtTypeOK, HtFills, htSessionVars
  <2>4. HtPoolInv'
    BY <1>1, <1>2, <2>1 DEF HtIInv, HtPoolInv, HtHands, HtUp
  <2>5. HtSessionInv'
    BY <1>1, <2>2, HtSessionsKept
  <2> QED
    BY <2>3, <2>4, <2>5 DEF HtIInv
<1>3. ASSUME HtFail, htFill' = "wait", UNCHANGED <<htHeld, htSupervisor>>,
             \/ \E b \in HtBoxes \ htMade :
                  htMade' = htMade \cup {b} /\ htDirs' = htDirs \cup {b} /\ htLeft' = htLeft \cup {b}
             \/ UNCHANGED <<htMade, htDirs, htLeft>>
      PROVE  HtIInv'
  <2>1. PICK gone \in SUBSET HtBoxes : /\ gone \cap htMade = {} /\ htMade' = htMade \cup gone
                                       /\ htDirs' = htDirs \cup gone /\ htLeft' = htLeft \cup gone
    <3>1. ASSUME NEW b \in HtBoxes \ htMade, htMade' = htMade \cup {b}, htDirs' = htDirs \cup {b},
                 htLeft' = htLeft \cup {b}
          PROVE  \E gone \in SUBSET HtBoxes : /\ gone \cap htMade = {} /\ htMade' = htMade \cup gone
                                             /\ htDirs' = htDirs \cup gone /\ htLeft' = htLeft \cup gone
      <4>1. {b} \in SUBSET HtBoxes /\ {b} \cap htMade = {}
        BY <3>1
      <4> QED
        BY <3>1, <4>1
    <3>2. CASE UNCHANGED <<htMade, htDirs, htLeft>>
      <4>1. {} \in SUBSET HtBoxes /\ {} \cap htMade = {} /\ htMade' = htMade \cup {}
            /\ htDirs' = htDirs \cup {} /\ htLeft' = htLeft \cup {}
        BY <3>2
      <4> QED
        BY <4>1
    <3> QED
      BY <1>3, <3>1, <3>2
  <2>2. HtTypeOK'
    BY <1>1, <1>3, <2>1, HtFailType DEF HtIInv, HtTypeOK, HtFills, htSessionVars, htSupervisor
  <2>3. HtHands = {} /\ HtUp = {} /\ HtHands' = {} /\ HtUp' = {}
    BY <1>1, <1>3 DEF HtHands, HtUp
  <2>4. gone \cap htBoxesUp = {} /\ gone \cap htPool = {}
    BY <2>1, <2>3 DEF HtIInv, HtPoolInv
  <2>5. HtPoolInv'
    BY <1>1, <1>3, <2>1, <2>3, <2>4 DEF HtIInv, HtPoolInv
  <2>6. HtSessionInv'
    BY <1>1, <1>3, HtSessionsKept DEF htSupervisor, HtIInv, HtSessionInv
  <2> QED
    BY <2>2, <2>5, <2>6 DEF HtIInv
<1> QED
  BY <1>2, <1>3 DEF HtVerify

\* A container in the goroutine's hands is given up, cleaned up after or not.
LEMMA HtGivesUp ==
  ASSUME HtIInv, htFill \in {"create", "start", "push"}, htFill' \in {"wait", "gone"}, htHeld' = "none",
         HtRemoved(htHeld) \/ HtLeaves(htHeld), htFails' \in 0..HtMaxFails,
         UNCHANGED <<htPool, htMade, htStop, htSupervisor, htSessionVars>>
  PROVE  HtIInv'
<1>1. htHeld \in HtBoxes /\ htHeld \notin htPool /\ htHeld \in htMade /\ htHeld \notin htLeft
  BY DEF HtIInv, HtTypeOK, HtPoolInv, HtHands
<1>2. /\ htBoxesUp' \in {htBoxesUp \ {htHeld}, htBoxesUp \cup {htHeld}}
      /\ htDirs' \in {htDirs \ {htHeld}, htDirs \cup {htHeld}}
      /\ \/ htLeft' = htLeft \cup {htHeld}
         \/ htBoxesUp' = htBoxesUp \ {htHeld} /\ htDirs' = htDirs \ {htHeld} /\ htLeft' = htLeft
  BY DEF HtRemoved, HtLeaves
<1>3. HtTypeOK'
  BY <1>1, <1>2 DEF HtIInv, HtTypeOK, HtFills, htSupervisor, htSessionVars
<1>4. HtHands = {htHeld} /\ HtUp \subseteq {htHeld} /\ HtHands' = {} /\ HtUp' = {}
  BY DEF HtHands, HtUp
<1>5. HtPoolInv'
  <2>1. htBoxesUp \ htLeft = htPool \cup HtUp /\ htDirs \subseteq htPool \cup HtHands \cup htLeft
    BY DEF HtIInv, HtPoolInv
  <2>2. htBoxesUp' \ htLeft' = htPool
    BY <1>1, <1>2, <1>4, <2>1
  <2>3. htDirs' \subseteq htPool \cup htLeft'
    BY <1>1, <1>2, <1>4, <2>1
  <2>4. htLeft' \subseteq htMade /\ htLeft' \cap htPool = {}
    BY <1>1, <1>2 DEF HtIInv, HtPoolInv
  <2> QED
    BY <1>4, <2>2, <2>3, <2>4 DEF HtIInv, HtPoolInv
<1>6. HtSessionInv'
  BY HtSessionsKept DEF htSupervisor, HtIInv, HtSessionInv
<1> QED
  BY <1>3, <1>5, <1>6 DEF HtIInv

\* A container is created or started, or given up.
LEMMA HtMakesIInv ==
  ASSUME HtIInv, HtCreate \/ HtStart
  PROVE  HtIInv'
<1>1. UNCHANGED <<htPool, htMade, htStop, htSupervisor, htSessionVars>>
  BY DEF HtCreate, HtStart
<1>2. /\ htFill \in {"create", "start"}
      /\ htHeld \in HtBoxes /\ htHeld \notin htPool /\ htHeld \notin htLeft
      /\ Cardinality(htPool) < HtSize
  BY DEF HtCreate, HtStart, HtIInv, HtTypeOK, HtPoolInv, HtHands
<1>3. CASE htHeld' = "none" /\ htFill' = "wait" /\ HtFail /\ (HtRemoved(htHeld) \/ HtLeaves(htHeld))
  BY <1>1, <1>2, <1>3, HtFailType, HtGivesUp
<1>4. CASE \/ /\ htFill = "create" /\ htFill' = "start" /\ htBoxesUp' = htBoxesUp \cup {htHeld}
              /\ UNCHANGED <<htDirs, htLeft, htHeld, htFails>>
           \/ htFill = "start" /\ htFill' = "push" /\ UNCHANGED <<htBoxesUp, htDirs, htLeft, htHeld, htFails>>
  <2>1. HtTypeOK'
    BY <1>1, <1>2, <1>4 DEF HtIInv, HtTypeOK, HtFills, htSupervisor, htSessionVars
  <2>2. HtPoolInv'
    BY <1>1, <1>2, <1>4 DEF HtIInv, HtPoolInv, HtHands, HtUp
  <2>3. HtSessionInv'
    BY <1>1, HtSessionsKept DEF htSupervisor, HtIInv, HtSessionInv
  <2> QED
    BY <2>1, <2>2, <2>3 DEF HtIInv
<1> QED
  BY <1>2, <1>3, <1>4 DEF HtCreate, HtStart

LEMMA HtPushIInv ==
  ASSUME HtIInv, HtPush
  PROVE  HtIInv'
<1>1. /\ htFill = "push" /\ htHeld' = "none"
      /\ UNCHANGED <<htMade, htStop, htSupervisor, htSessionVars>>
  BY DEF HtPush
<1>2. htHeld \in HtBoxes /\ htHeld \notin htPool /\ htHeld \in htMade /\ htHeld \notin htLeft
  BY <1>1 DEF HtIInv, HtTypeOK, HtPoolInv, HtHands
<1>3. CASE /\ htPool' = htPool \cup {htHeld} /\ htFill' = "check"
           /\ UNCHANGED <<htBoxesUp, htDirs, htLeft, htFails>> /\ Cardinality(htPool) < HtSize
  <2>1. HtTypeOK'
    BY <1>1, <1>2, <1>3 DEF HtIInv, HtTypeOK, HtFills, htSupervisor, htSessionVars
  <2>2. Cardinality(htPool') <= HtSize
    <3>1. Cardinality(htPool \cup {htHeld}) = Cardinality(htPool) + 1
      BY <1>2, HtPoolFinite, FS_AddElement
    <3> QED
      BY <1>3, <3>1, HtPoolFinite, HostToolsAssumption
  <2>3. HtPoolInv'
    BY <1>1, <1>2, <1>3, <2>2 DEF HtIInv, HtPoolInv, HtHands, HtUp
  <2>4. HtSessionInv'
    BY <1>1, HtSessionsKept DEF htSupervisor, HtIInv, HtSessionInv
  <2> QED
    BY <2>1, <2>3, <2>4 DEF HtIInv
<1>4. CASE /\ htFill' = "gone" /\ UNCHANGED htPool
           /\ (HtRemoved(htHeld) /\ UNCHANGED htFails) \/ (HtFail /\ HtLeaves(htHeld))
  <2>1. htFails' \in 0..HtMaxFails
    BY <1>4, HtFailType DEF HtIInv, HtTypeOK
  <2> QED
    BY <1>1, <1>4, <2>1, HtGivesUp
<1> QED
  BY <1>3, <1>4 DEF HtPush

LEMMA HtDrainIInv ==
  ASSUME HtIInv, HtDrain
  PROVE  HtIInv'
<1>1. UNCHANGED <<htFill, htHeld, htMade, htSupervisor, htSessionVars>>
  BY DEF HtDrain
<1>2. htStop' \in {"open", "draining", "returned"} /\ htFails' \in 0..HtMaxFails
  BY HtFailType DEF HtDrain, HtIInv, HtTypeOK
<1>3. ASSUME NEW b \in htPool, htPool' = htPool \ {b}, HtRemoved(b) \/ HtLeaves(b)
      PROVE  HtIInv'
  <2>1. /\ htBoxesUp' \in {htBoxesUp \ {b}, htBoxesUp \cup {b}}
        /\ htDirs' \in {htDirs \ {b}, htDirs \cup {b}}
        /\ \/ htLeft' = htLeft \cup {b}
           \/ htBoxesUp' = htBoxesUp \ {b} /\ htDirs' = htDirs \ {b} /\ htLeft' = htLeft
    BY <1>3 DEF HtRemoved, HtLeaves
  <2>2. Cardinality(htPool') \in Nat /\ Cardinality(htPool') <= Cardinality(htPool)
    BY <1>3, HtPoolFinite, FS_Subset, FS_CardinalityType
  <2>3. HtTypeOK'
    <3>1. b \in HtBoxes
      BY <1>3 DEF HtIInv, HtTypeOK
    <3> QED
      BY <1>1, <1>2, <1>3, <2>1, <3>1 DEF HtIInv, HtTypeOK, htSupervisor, htSessionVars
  <2>4. /\ HtHands' = HtHands /\ HtUp' = HtUp /\ HtUp \subseteq HtHands
        /\ b \notin HtHands /\ b \notin htLeft /\ b \in htMade
    BY <1>1, <1>3 DEF HtHands, HtUp, HtIInv, HtPoolInv
  <2>5. HtPoolInv'
    <3>1. Cardinality(htPool') <= HtSize
      BY <2>2, HtPoolFinite, HostToolsAssumption DEF HtIInv, HtPoolInv
    <3>2. htFill' \in {"verify", "create", "start", "push"} => Cardinality(htPool') < HtSize
      BY <1>1, <2>2, HtPoolFinite, HostToolsAssumption DEF HtIInv, HtPoolInv
    <3>3. /\ htBoxesUp \ htLeft = htPool \cup HtUp /\ htDirs \subseteq htPool \cup HtHands \cup htLeft
          /\ htLeft \subseteq htMade /\ htLeft \cap (htPool \cup HtHands) = {}
          /\ HtHands \subseteq htMade /\ htPool \subseteq htMade /\ HtHands \cap htPool = {}
      BY DEF HtIInv, HtPoolInv
    <3>4. htBoxesUp' \ htLeft' = htPool' \cup HtUp
      BY <1>3, <2>1, <2>4, <3>3
    <3>5. htDirs' \subseteq htPool' \cup HtHands \cup htLeft'
      BY <1>3, <2>1, <2>4, <3>3
    <3>6. htLeft' \subseteq htMade /\ htLeft' \cap (htPool' \cup HtHands) = {}
      BY <1>3, <2>1, <2>4, <3>3
    <3> QED
      BY <1>1, <1>3, <2>4, <3>1, <3>2, <3>3, <3>4, <3>5, <3>6 DEF HtPoolInv
  <2>6. HtSessionInv'
    BY <1>1, HtSessionsKept DEF htSupervisor, HtIInv, HtSessionInv
  <2> QED
    BY <2>3, <2>5, <2>6 DEF HtIInv
<1>4. CASE UNCHANGED <<htPool, htDirs, htBoxesUp, htLeft>>
  <2>1. HtTypeOK'
    BY <1>1, <1>2, <1>4 DEF HtIInv, HtTypeOK, htSupervisor, htSessionVars
  <2>2. HtPoolInv'
    BY <1>1, <1>4 DEF HtIInv, HtPoolInv, HtHands, HtUp
  <2>3. HtSessionInv'
    BY <1>1, HtSessionsKept DEF htSupervisor, HtIInv, HtSessionInv
  <2> QED
    BY <2>1, <2>2, <2>3 DEF HtIInv
<1> QED
  BY <1>3, <1>4 DEF HtDrain

LEMMA HtNextIdIInv ==
  ASSUME HtIInv, NEW s \in HtSessions, HtNextId(s)
  PROVE  HtIInv'
<1>1. /\ htStep[s] = "new" /\ htStep' = [htStep EXCEPT ![s] = "project"]
      /\ htProject' = [htProject EXCEPT ![s] = htSequence + 1]
      /\ UNCHANGED <<htPoolVars, htSupervisor, htLimits, htLabel, htFails>>
  BY DEF HtNextId, HtMove
<1>2. PICK n \in Nat : n = htSequence /\ htSequence' = n + 1
  BY DEF HtNextId, HtIInv, HtTypeOK
<1>3. 1..n \subseteq 1..(n + 1) /\ 0..n \subseteq 0..(n + 1) /\ n + 1 \in 1..(n + 1)
      /\ n + 1 \notin 1..n
  BY <1>2
<1>4. HtTypeOK'
  <2>1. htProject' \in [HtSessions -> 0..htSequence']
    BY <1>1, <1>2, <1>3 DEF HtIInv, HtTypeOK
  <2>2. htLimits' \subseteq 1..htSequence' /\ htSequence' \in Nat
    BY <1>1, <1>2, <1>3 DEF HtIInv, HtTypeOK
  <2> QED
    BY <1>1, <2>1, <2>2 DEF HtIInv, HtTypeOK, htPoolVars, htSupervisor
<1>5. HtPoolInv'
  BY <1>1, HtPoolKept
<1>6. HtSessionInv'
  <2>1. /\ htProject'[s] = n + 1 /\ htStep'[s] = "project"
        /\ \A t \in HtSessions \ {s} : htProject'[t] = htProject[t] /\ htStep'[t] = htStep[t]
    BY <1>1, <1>2 DEF HtIInv, HtTypeOK
  <2>2. \A t \in HtSessions : htStep[t] # "new" => htProject[t] \in 1..n
    BY <1>2 DEF HtIInv, HtSessionInv
  <2>3. \A t \in HtSessions :
          IF htStep'[t] = "new" THEN htProject'[t] = 0 ELSE htProject'[t] \in 1..htSequence'
    BY <1>2, <1>3, <2>1, <2>2 DEF HtIInv, HtSessionInv
  <2>4. ASSUME NEW t \in HtSessions, NEW u \in HtSessions \ {t},
               htStep'[t] # "new", htStep'[u] # "new"
        PROVE  htProject'[t] # htProject'[u]
    BY <1>3, <2>1, <2>2, <2>4 DEF HtIInv, HtSessionInv
  <2>5. \A t \in HtSessions : htStep'[t] \in {"sandbox", "running"} => htProject'[t] \in htLimits'
    BY <1>1, <2>1 DEF HtIInv, HtSessionInv
  <2>6. (htReady' => htInstalled') /\ (htLabel' # {} => htInstalled')
    BY <1>1 DEF HtIInv, HtSessionInv, htSupervisor
  <2> QED
    BY <2>3, <2>4, <2>5, <2>6 DEF HtSessionInv
<1> QED
  BY <1>4, <1>5, <1>6 DEF HtIInv

\* A session with its project goes on or fails: limits and labels only grow.
LEMMA HtMovesIInv ==
  ASSUME HtIInv, NEW s \in HtSessions, htStep[s] \in {"project", "sandbox"},
         NEW step \in {"sandbox", "running", "failed"}, HtMove(s, step),
         htStep[s] = "project" => step # "running",
         htLimits' \in {htLimits, htLimits \cup {htProject[s]}},
         step = "sandbox" => htProject[s] \in htLimits',
         htLabel' \in {htLabel, htLabel \cup {s}}, htLabel' # htLabel => htInstalled',
         htReady' \in BOOLEAN, htCooling' \in BOOLEAN, htInstalled' \in BOOLEAN,
         htFails' \in 0..HtMaxFails, htReady' => htInstalled', htInstalled => htInstalled',
         UNCHANGED <<htPoolVars, htProject, htSequence>>
  PROVE  HtIInv'
<1>1. htProject[s] \in 1..htSequence
  BY DEF HtIInv, HtSessionInv
<1>2. /\ htStep' = [htStep EXCEPT ![s] = step] /\ htStep'[s] = step
      /\ \A t \in HtSessions \ {s} : htStep'[t] = htStep[t]
  BY DEF HtMove, HtIInv, HtTypeOK
<1>3. HtTypeOK'
  <2>1. htLimits' \subseteq 1..htSequence' /\ htLabel' \subseteq HtSessions
    BY <1>1 DEF HtIInv, HtTypeOK
  <2> QED
    BY <1>2, <2>1 DEF HtIInv, HtTypeOK, htPoolVars
<1>4. HtPoolInv'
  BY HtPoolKept
<1>5. HtSessionInv'
  <2>1. htLabel' # {} => htInstalled'
    BY DEF HtIInv, HtSessionInv
  <2>2. \A t \in HtSessions :
          /\ htStep'[t] # "new" <=> htStep[t] # "new"
          /\ IF htStep'[t] = "new" THEN htProject'[t] = 0 ELSE htProject'[t] \in 1..htSequence'
    BY <1>2 DEF HtIInv, HtSessionInv
  <2>3. ASSUME NEW t \in HtSessions, htStep'[t] \in {"sandbox", "running"}
        PROVE  htProject[t] \in htLimits'
    <3>1. CASE t = s
      BY <1>2, <2>3, <3>1 DEF HtIInv, HtSessionInv
    <3>2. CASE t # s
      BY <1>2, <2>3, <3>2 DEF HtIInv, HtSessionInv
    <3> QED
      BY <3>1, <3>2
  <2>4. \A t \in HtSessions : \A u \in HtSessions \ {t} :
          htStep'[t] # "new" /\ htStep'[u] # "new" => htProject'[t] # htProject'[u]
    BY <2>2 DEF HtIInv, HtSessionInv
  <2>5. htReady' => htInstalled'
    OBVIOUS
  <2> QED
    BY <2>1, <2>2, <2>3, <2>4, <2>5 DEF HtSessionInv
<1> QED
  BY <1>3, <1>4, <1>5 DEF HtIInv

LEMMA HtApplyIInv ==
  ASSUME HtIInv, NEW s \in HtSessions, HtApply(s)
  PROVE  HtIInv'
<1>1. htStep[s] = "project" /\ UNCHANGED <<htPoolVars, htProject, htSequence, htLabel>>
  BY DEF HtApply
<1>2. CASE HtMounted /\ HtLimitSet(s) /\ HtMove(s, "sandbox")
  BY <1>1, <1>2, HtSupervisorKeeps, HtMovesIInv DEF HtLimitSet
<1>3. CASE HtUnmounted /\ HtMove(s, "failed") /\ UNCHANGED htLimits
  BY <1>1, <1>3, HtSupervisorKeeps, HtMovesIInv
<1>4. CASE /\ htReady' = TRUE /\ htInstalled' = TRUE /\ UNCHANGED htCooling
           /\ HtFail /\ HtMove(s, "failed")
           /\ HtLimitSet(s) \/ UNCHANGED htLimits
  <2>1. htCooling' \in BOOLEAN
    BY <1>4 DEF HtIInv, HtTypeOK
  <2> QED
    BY <1>1, <1>4, <2>1, HtFailType, HtMovesIInv DEF HtLimitSet
<1> QED
  BY <1>2, <1>3, <1>4 DEF HtApply

LEMMA HtSandboxIInv ==
  ASSUME HtIInv, NEW s \in HtSessions, HtSandbox(s)
  PROVE  HtIInv'
<1>1. /\ htStep[s] = "sandbox" /\ HtMove(s, "running")
      /\ UNCHANGED <<htPoolVars, htProject, htLimits, htSequence>>
  BY DEF HtSandbox
<1>2. CASE HtMounted /\ htLabel' = htLabel \cup {s}
  BY <1>1, <1>2, HtSupervisorKeeps, HtMovesIInv
<1>3. CASE HtUnmounted /\ UNCHANGED htLabel
  BY <1>1, <1>3, HtSupervisorKeeps, HtMovesIInv
<1> QED
  BY <1>2, <1>3 DEF HtSandbox

LEMMA HtNextIInv ==
  HtIInv /\ [HtNext]_htVars => HtIInv'
<1> SUFFICES ASSUME HtIInv, [HtNext]_htVars PROVE HtIInv'
  OBVIOUS
<1>1. CASE UNCHANGED htVars
  BY <1>1 DEF htVars, htPoolVars, htSupervisor, htSessionVars, HtIInv, HtTypeOK, HtPoolInv,
     HtSessionInv, HtHands, HtUp
<1> QED
  BY <1>1, HtMinuteIInv, HtTurnsIInv, HtVerifyIInv, HtMakesIInv, HtPushIInv, HtDrainIInv,
     HtNextIdIInv, HtApplyIInv, HtSandboxIInv DEF HtNext, HtPoolNext

\* From the parts of the invariant to what a session may rely on.
LEMMA HtReadyHost ==
  ASSUME HtIInv
  PROVE  HtHostReady
<1>1. Cardinality(htBoxesUp \ htLeft) <= HtSize
  <2>1. CASE htFill \in {"start", "push"}
    <3>1. htBoxesUp \ htLeft = htPool \cup {htHeld} /\ htHeld \notin htPool /\ Cardinality(htPool) < HtSize
      BY <2>1 DEF HtIInv, HtPoolInv, HtHands, HtUp
    <3>2. Cardinality(htBoxesUp \ htLeft) = Cardinality(htPool) + 1
      BY <3>1, HtPoolFinite, FS_AddElement
    <3> QED
      BY <3>1, <3>2, HtPoolFinite, HostToolsAssumption
  <2>2. CASE htFill \notin {"start", "push"}
    BY <2>2 DEF HtIInv, HtPoolInv, HtUp
  <2> QED
    BY <2>1, <2>2
<1>2. htDirs \subseteq htBoxesUp \cup {htHeld} \cup htLeft
  BY DEF HtIInv, HtPoolInv, HtHands, HtUp
<1>3. HtSandboxPrepared
  <2>1. ASSUME NEW s \in HtSessions, htStep[s] = "running"
        PROVE  /\ s \in htLabel => htInstalled
               /\ htProject[s] \in htLimits
               /\ \A t \in HtSessions \ {s} : htProject[t] # htProject[s]
    <3>1. (s \in htLabel => htInstalled) /\ htProject[s] \in htLimits
      BY <2>1 DEF HtIInv, HtSessionInv
    <3>2. ASSUME NEW t \in HtSessions \ {s}
          PROVE  htProject[t] # htProject[s]
      <4>1. CASE htStep[t] # "new"
        BY <2>1, <4>1 DEF HtIInv, HtSessionInv
      <4>2. CASE htStep[t] = "new"
        BY <2>1, <4>2 DEF HtIInv, HtSessionInv
      <4> QED
        BY <4>1, <4>2
    <3> QED
      BY <3>1, <3>2
  <2> QED
    BY <2>1 DEF HtSandboxPrepared
<1> QED
  BY <1>1, <1>2, <1>3 DEF HtHostReady, HtPoolBounded

(***************************************************************************)
(* The warm pool never holds more containers than its size, the one being  *)
(* made included, and leaves no directory behind but where a clean-up or   *)
(* Chmod failed or an answer was lost; sessions that are created at once   *)
(* draw different projects, have their limit set and find the supervisor   *)
(* that their label promises (pool.fill, Stop, NextID, supervisorMount).   *)
(* HtPoolInv follows the container in the goroutine's hands.               *)
(***************************************************************************)
THEOREM HostIsReady == HtSpec => [](HtTypeOK /\ HtHostReady)
<1>1. HtIInv => HtTypeOK /\ HtHostReady
  BY HtReadyHost DEF HtIInv
<1> QED
  BY <1>1, HtInitIInv, HtNextIInv, PTL DEF HtSpec

-----------------------------------------------------------------------------
(* Rules for egress *)

\* The rules in place after the first n commands.
EgAfter(n) ==
  {rule \in EgNeeded : \E i \in 1..n : EgApplied[i] = rule}

\* What there is of one sandbox at each step; one whose cleanup failed is only
\* known to go through the same steps.
EgSandboxOK(step, net, box, rules, next, stops, spoilt) ==
  /\ step # "up" => \A k \in EgStops : stops[k] = "none"
  /\ step \in {"idle", "network", "box", "start"} => ~spoilt
  /\ step \in {"idle", "network"} => box = "none" /\ rules = {} /\ next = 0
  /\ step = "idle" => ~net
  /\ step = "box" => box = "created" /\ next \in 0..4 /\ rules = EgAfter(next)
  /\ step = "start" => box = "created" /\ rules = EgNeeded
  /\ step \in {"unrule", "unbox"} /\ ~spoilt => box = "created"
  /\ step \in {"unbox", "unnet"} /\ ~spoilt => rules = {}
  /\ step = "unnet" /\ ~spoilt => box = "none"
  /\ step = "up" /\ ~spoilt =>
       /\ box \in {"running", "none"} /\ (box = "running" => rules = EgNeeded)
       /\ \A k \in EgStops : stops[k] \in {"removed", "unruled", "done", "blind"} => box = "none"
       /\ box = "none" /\ rules # {} => \E k \in EgStops : stops[k] = "removed"
       /\ box = "none" /\ net => \E k \in EgStops : stops[k] \in {"removed", "unruled"}
  /\ step = "gone" /\ ~spoilt => box = "none" /\ ~net /\ rules = {}

EgStopsOf(s) == [k \in EgStops |-> egStops[s, k]]

EgBoxInv ==
  \A s \in EgSessions :
    EgSandboxOK(egStep[s], s \in egNetworks, egBox[s], egRules[s], egNext[s], EgStopsOf(s), s \in egSpoilt)

EgIInv == EgTypeOK /\ EgBoxInv

LEMMA EgRuleFacts ==
  /\ EgNeeded \subseteq EgRuleNames /\ EgNeeded # {}
  /\ EgAfter(0) = {} /\ EgAfter(5) = EgNeeded
  /\ \A n \in 0..4 : EgAfter(n) \subseteq EgRuleNames
  /\ \A n \in 0..4 :
       LET rule == EgApplied[n + 1] IN
         EgAfter(n + 1) = IF rule = "v6" /\ ~EgV6 THEN EgAfter(n) ELSE EgAfter(n) \cup {rule}
<1>1. /\ EgNeeded \subseteq EgRuleNames /\ EgNeeded # {}
      /\ EgAfter(0) = {}
      /\ \A n \in 0..4 : EgAfter(n) \subseteq EgRuleNames
  BY DEF EgNeeded, EgAfter, EgRuleNames
<1>2. /\ EgApplied[1] = "chain" /\ EgApplied[2] = "forward" /\ EgApplied[3] = "in-chain"
      /\ EgApplied[4] = "input" /\ EgApplied[5] = "v6"
  BY DEF EgApplied
<1>3. EgAfter(5) = EgNeeded
  BY <1>2 DEF EgAfter, EgNeeded, EgRuleNames
<1>4. ASSUME NEW n \in 0..4
      PROVE  EgAfter(n + 1) = IF EgApplied[n + 1] = "v6" /\ ~EgV6 THEN EgAfter(n)
                              ELSE EgAfter(n) \cup {EgApplied[n + 1]}
  <2>1. 1..(n + 1) = 1..n \cup {n + 1}
    OBVIOUS
  <2>2. EgApplied[n + 1] \in EgRuleNames
    BY <1>2 DEF EgRuleNames
  <2>3. EgApplied[n + 1] \in EgNeeded <=> ~(EgApplied[n + 1] = "v6" /\ ~EgV6)
    BY <2>2 DEF EgNeeded, EgRuleNames
  <2> QED
    BY <2>1, <2>3 DEF EgAfter
<1> QED
  BY <1>1, <1>3, <1>4

LEMMA EgLeftWithin ==
  ASSUME NEW rules, NEW left \in EgLeft(rules)
  PROVE  left \subseteq rules
  BY DEF EgLeft

\* What there is of one sandbox, with its types.
EgSandboxGood(step, net, box, rules, next, stops, spoilt) ==
  /\ step \in EgSteps /\ box \in {"none", "created", "running"} /\ next \in 0..5
  /\ rules \subseteq EgRuleNames /\ stops \in [EgStops -> EgStopSteps]
  /\ EgSandboxOK(step, net, box, rules, next, stops, spoilt)

EgOfSandbox(s) ==
  EgSandboxGood(egStep[s], s \in egNetworks, egBox[s], egRules[s], egNext[s], EgStopsOf(s), s \in egSpoilt)

LEMMA EgEverySandbox ==
  ASSUME EgIInv, NEW s \in EgSessions
  PROVE  EgOfSandbox(s)
<1>1. EgStopsOf(s) \in [EgStops -> EgStopSteps]
  BY DEF EgStopsOf, EgIInv, EgTypeOK
<1> QED
  BY <1>1 DEF EgOfSandbox, EgSandboxGood, EgIInv, EgTypeOK, EgBoxInv

LEMMA EgInitIInv == EgInit => EgIInv
<1> SUFFICES ASSUME EgInit PROVE EgIInv
  OBVIOUS
<1>1. EgTypeOK
  <2>1. 0 \in 0..EgMaxFails /\ 0 \in 0..5
    BY EgressAssumption
  <2> QED
    BY <2>1 DEF EgInit, EgTypeOK, EgSteps, EgStopSteps
<1>2. ASSUME NEW s \in EgSessions
      PROVE  EgSandboxOK(egStep[s], s \in egNetworks, egBox[s], egRules[s], egNext[s], EgStopsOf(s),
                         s \in egSpoilt)
  <2>1. \A k \in EgStops : EgStopsOf(s)[k] = "none"
    BY DEF EgInit, EgStopsOf
  <2> QED
    BY <2>1 DEF EgInit, EgSandboxOK
<1> QED
  BY <1>1, <1>2 DEF EgIInv, EgBoxInv

\* A step of one sandbox.
EgBecomes(s, step, net, box, rules, next, stops, spoilt) ==
  /\ egStep' = [egStep EXCEPT ![s] = step] /\ egBox' = [egBox EXCEPT ![s] = box]
  /\ egRules' = [egRules EXCEPT ![s] = rules] /\ egNext' = [egNext EXCEPT ![s] = next]
  /\ egNetworks' = IF net THEN egNetworks \cup {s} ELSE egNetworks \ {s}
  /\ egSpoilt' = IF spoilt THEN egSpoilt \cup {s} ELSE egSpoilt \ {s}
  /\ egStops' = [p \in EgSessions \X EgStops |-> IF p[1] = s THEN stops[p[2]] ELSE egStops[p]]

LEMMA EgOneSandbox ==
  ASSUME EgIInv, NEW s \in EgSessions, NEW step, NEW net \in BOOLEAN, NEW box, NEW rules, NEW next,
         NEW stops, NEW spoilt \in BOOLEAN,
         EgSandboxGood(step, net, box, rules, next, stops, spoilt),
         EgBecomes(s, step, net, box, rules, next, stops, spoilt), egFails' \in 0..EgMaxFails
  PROVE  EgIInv'
<1>1. EgTypeOK'
  <2>1. ASSUME NEW p \in EgSessions \X EgStops
        PROVE  egStops'[p] \in EgStopSteps
    BY DEF EgIInv, EgTypeOK, EgSandboxGood, EgBecomes
  <2>2. egStops' \in [EgSessions \X EgStops -> EgStopSteps]
    BY <2>1 DEF EgBecomes
  <2>3. egNetworks' \subseteq EgSessions /\ egSpoilt' \subseteq EgSessions
    BY DEF EgIInv, EgTypeOK, EgBecomes
  <2> QED
    BY <2>2, <2>3 DEF EgIInv, EgTypeOK, EgSandboxGood, EgBecomes
<1>2. ASSUME NEW t \in EgSessions
      PROVE  EgSandboxGood(egStep'[t], t \in egNetworks', egBox'[t], egRules'[t], egNext'[t],
                         [k \in EgStops |-> egStops'[t, k]], t \in egSpoilt')
  <2>1. CASE t = s
    <3>1. /\ egStep'[t] = step /\ egBox'[t] = box /\ egRules'[t] = rules /\ egNext'[t] = next
          /\ t \in egNetworks' <=> net
          /\ t \in egSpoilt' <=> spoilt
      BY <2>1 DEF EgIInv, EgTypeOK, EgBecomes
    <3>2. \A k \in EgStops : <<t, k>> \in EgSessions \X EgStops /\ <<t, k>>[1] = s /\ <<t, k>>[2] = k
      BY <2>1
    <3>3. \A k \in EgStops : egStops'[t, k] = stops[k]
      BY <3>2 DEF EgBecomes
    <3>4. [k \in EgStops |-> egStops'[t, k]] = stops
      BY <3>3 DEF EgSandboxGood
    <3> QED
      BY <3>1, <3>4 DEF EgSandboxGood, EgSandboxOK
  <2>2. CASE t # s
    <3>1. /\ egStep'[t] = egStep[t] /\ egBox'[t] = egBox[t] /\ egRules'[t] = egRules[t]
          /\ egNext'[t] = egNext[t]
          /\ t \in egNetworks' <=> t \in egNetworks
          /\ t \in egSpoilt' <=> t \in egSpoilt
      BY <2>2 DEF EgIInv, EgTypeOK, EgBecomes
    <3>2. \A k \in EgStops : <<t, k>> \in EgSessions \X EgStops /\ <<t, k>>[1] # s
      BY <2>2
    <3>3. \A k \in EgStops : egStops'[t, k] = egStops[t, k]
      BY <3>2 DEF EgBecomes
    <3>4. [k \in EgStops |-> egStops'[t, k]] = EgStopsOf(t)
      BY <3>3 DEF EgStopsOf
    <3>5. EgOfSandbox(t)
      BY EgEverySandbox
    <3> QED
      BY <3>1, <3>4, <3>5 DEF EgOfSandbox, EgSandboxGood, EgSandboxOK
  <2> QED
    BY <2>1, <2>2
<1>3. EgBoxInv'
  BY <1>2 DEF EgBoxInv, EgSandboxGood, EgStopsOf
<1> QED
  BY <1>1, <1>3 DEF EgIInv

\* What is unchanged is what it was.
LEMMA EgSame ==
  ASSUME EgIInv, NEW s \in EgSessions
  PROVE  /\ egStep = [egStep EXCEPT ![s] = egStep[s]] /\ egBox = [egBox EXCEPT ![s] = egBox[s]]
         /\ egRules = [egRules EXCEPT ![s] = egRules[s]] /\ egNext = [egNext EXCEPT ![s] = egNext[s]]
         /\ egNetworks = IF s \in egNetworks THEN egNetworks \cup {s} ELSE egNetworks \ {s}
         /\ egSpoilt = IF s \in egSpoilt THEN egSpoilt \cup {s} ELSE egSpoilt \ {s}
         /\ egStops = [p \in EgSessions \X EgStops |->
                         IF p[1] = s THEN EgStopsOf(s)[p[2]] ELSE egStops[p]]
<1>1. ASSUME NEW p \in EgSessions \X EgStops
      PROVE  egStops[p] = IF p[1] = s THEN EgStopsOf(s)[p[2]] ELSE egStops[p]
  <2>1. p = <<p[1], p[2]>> /\ p[2] \in EgStops
    OBVIOUS
  <2>2. EgStopsOf(s)[p[2]] = egStops[<<s, p[2]>>]
    BY <2>1 DEF EgStopsOf
  <2> QED
    BY <2>1, <2>2
<1>2. egStops = [p \in EgSessions \X EgStops |-> egStops[p]]
  BY DEF EgIInv, EgTypeOK
<1>3. egStops = [p \in EgSessions \X EgStops |->
                  IF p[1] = s THEN EgStopsOf(s)[p[2]] ELSE egStops[p]]
  BY <1>1, <1>2
<1> QED
  BY <1>3 DEF EgIInv, EgTypeOK

LEMMA EgStopsSet ==
  ASSUME EgIInv, NEW s \in EgSessions, NEW k \in EgStops, NEW state,
         egStops' = [egStops EXCEPT ![<<s, k>>] = state]
  PROVE  egStops' = [p \in EgSessions \X EgStops |->
                       IF p[1] = s THEN [EgStopsOf(s) EXCEPT ![k] = state][p[2]] ELSE egStops[p]]
<1>1. egStops' = [p \in EgSessions \X EgStops |-> IF p = <<s, k>> THEN state ELSE egStops[p]]
  BY DEF EgIInv, EgTypeOK
<1>2. ASSUME NEW p \in EgSessions \X EgStops
      PROVE  (IF p = <<s, k>> THEN state ELSE egStops[p])
             = IF p[1] = s THEN [EgStopsOf(s) EXCEPT ![k] = state][p[2]] ELSE egStops[p]
  <2>1. p = <<p[1], p[2]>> /\ p[1] \in EgSessions /\ p[2] \in EgStops
    OBVIOUS
  <2>2. p[1] = s => [EgStopsOf(s) EXCEPT ![k] = state][p[2]]
                      = IF p[2] = k THEN state ELSE egStops[<<s, p[2]>>]
    BY <2>1 DEF EgStopsOf
  <2>3. CASE p[1] = s /\ p[2] = k
    BY <2>1, <2>2, <2>3
  <2>4. CASE p[1] = s /\ p[2] # k
    <3>1. p # <<s, k>> /\ p = <<s, p[2]>>
      BY <2>1, <2>4
    <3> QED
      BY <2>2, <2>4, <3>1
  <2>5. CASE p[1] # s
    <3>1. p # <<s, k>>
      BY <2>5
    <3> QED
      BY <2>5, <3>1
  <2> QED
    BY <2>3, <2>4, <2>5
<1> QED
  BY <1>1, <1>2

LEMMA EgFailsType ==
  ASSUME EgIInv, EgFail \/ UNCHANGED egFails
  PROVE  egFails' \in 0..EgMaxFails
  BY EgressAssumption DEF EgFail, EgIInv, EgTypeOK

LEMMA EgMember ==
  ASSUME NEW S, NEW s
  PROVE  \E has \in BOOLEAN : has <=> s \in S
<1>1. CASE s \in S
  <2> WITNESS TRUE \in BOOLEAN
  <2> QED
    BY <1>1
<1>2. CASE s \notin S
  <2> WITNESS FALSE \in BOOLEAN
  <2> QED
    BY <1>2
<1> QED
  BY <1>1, <1>2

\* A step of one sandbox that says what it becomes; the sets it is in change
\* for it alone, and what it becomes fits them.
EgTo(s, step, box, rules, next, stops) ==
  /\ egStep' = [egStep EXCEPT ![s] = step] /\ egBox' = [egBox EXCEPT ![s] = box]
  /\ egRules' = [egRules EXCEPT ![s] = rules] /\ egNext' = [egNext EXCEPT ![s] = next]
  /\ egStops' = [p \in EgSessions \X EgStops |-> IF p[1] = s THEN stops[p[2]] ELSE egStops[p]]
  /\ egNetworks' \in {egNetworks, egNetworks \cup {s}, egNetworks \ {s}}
  /\ egSpoilt' \in {egSpoilt, egSpoilt \cup {s}}
  /\ EgFail \/ UNCHANGED egFails

EgFits(s, step, box, rules, next, stops) ==
  \A net, spoilt \in BOOLEAN :
    (net <=> s \in egNetworks') /\ (spoilt <=> s \in egSpoilt') =>
      EgSandboxGood(step, net, box, rules, next, stops, spoilt)

LEMMA EgStepIInv ==
  ASSUME EgIInv, NEW s \in EgSessions, NEW step, NEW box, NEW rules, NEW next, NEW stops,
         EgTo(s, step, box, rules, next, stops), EgFits(s, step, box, rules, next, stops)
  PROVE  EgIInv'
<1>1. PICK net \in BOOLEAN : net <=> s \in egNetworks'
  BY EgMember
<1>2. PICK spoilt \in BOOLEAN : spoilt <=> s \in egSpoilt'
  BY EgMember
<1>3. /\ egNetworks' = IF net THEN egNetworks \cup {s} ELSE egNetworks \ {s}
      /\ egSpoilt' = IF spoilt THEN egSpoilt \cup {s} ELSE egSpoilt \ {s}
  BY <1>1, <1>2 DEF EgTo
<1>4. EgBecomes(s, step, net, box, rules, next, stops, spoilt)
  BY <1>3 DEF EgBecomes, EgTo
<1>5. EgSandboxGood(step, net, box, rules, next, stops, spoilt)
  BY <1>1, <1>2 DEF EgFits
<1> QED
  BY <1>4, <1>5, EgFailsType, EgOneSandbox DEF EgTo

LEMMA EgNetworkIInv ==
  ASSUME EgIInv, NEW s \in EgSessions, EgNetwork(s)
  PROVE  EgIInv'
<1>1. PICK step \in {"network", "gone"} :
        /\ egStep' = [egStep EXCEPT ![s] = step]
        /\ \/ step = "network" /\ egNetworks' = egNetworks \cup {s} /\ UNCHANGED egSpoilt
           \/ step = "gone" /\ UNCHANGED <<egNetworks, egSpoilt>>
           \/ /\ step = "gone" /\ egNetworks' = egNetworks \cup {s}
              /\ egSpoilt' = egSpoilt \cup {s}
  BY DEF EgNetwork, EgMove, EgSpoil
<1>2. egStep[s] = "idle" /\ UNCHANGED <<egBox, egRules, egNext, egStops>> /\ (EgFail \/ UNCHANGED egFails)
  BY DEF EgNetwork
<1>3. ASSUME NEW net \in BOOLEAN, NEW spoilt \in BOOLEAN,
             net <=> s \in egNetworks', spoilt <=> s \in egSpoilt'
      PROVE  EgSandboxGood(step, net, egBox[s], egRules[s], egNext[s], EgStopsOf(s), spoilt)
  <2>1. EgOfSandbox(s)
    BY EgEverySandbox
  <2> QED
    BY <1>1, <1>2, <1>3, <2>1 DEF EgOfSandbox, EgSandboxGood, EgSandboxOK, EgSteps
<1>4. /\ egBox' = [egBox EXCEPT ![s] = egBox[s]]
      /\ egRules' = [egRules EXCEPT ![s] = egRules[s]]
      /\ egNext' = [egNext EXCEPT ![s] = egNext[s]]
      /\ egStops' = [p \in EgSessions \X EgStops |->
                       IF p[1] = s THEN EgStopsOf(s)[p[2]] ELSE egStops[p]]
  BY <1>2, EgSame
<1>to. EgTo(s, step, egBox[s], egRules[s], egNext[s], EgStopsOf(s))
  BY <1>1, <1>2, <1>4 DEF EgTo
<1>fits. EgFits(s, step, egBox[s], egRules[s], egNext[s], EgStopsOf(s))
  BY <1>3 DEF EgFits
<1> QED
  BY <1>to, <1>fits, EgStepIInv

LEMMA EgCreateIInv ==
  ASSUME EgIInv, NEW s \in EgSessions, EgCreate(s)
  PROVE  EgIInv'
<1>1. PICK step \in {"box", "gone"}, box \in {"none", "created"} :
        /\ egStep' = [egStep EXCEPT ![s] = step] /\ egBox' = [egBox EXCEPT ![s] = box]
        /\ \/ step = "box" /\ box = "created" /\ UNCHANGED <<egNetworks, egSpoilt>>
           \/ step = "gone" /\ box = "none" /\ egNetworks' = egNetworks \ {s} /\ UNCHANGED egSpoilt
           \/ /\ step = "gone" /\ egSpoilt' = egSpoilt \cup {s}
              /\ egNetworks' \in {egNetworks, egNetworks \ {s}}
  <2>1. egBox = [egBox EXCEPT ![s] = "none"]
    BY EgSame, EgEverySandbox DEF EgCreate, EgOfSandbox, EgSandboxGood, EgSandboxOK
  <2> QED
    BY <2>1 DEF EgCreate, EgMove, EgSpoil, EgBecomeBox
<1>2. egStep[s] = "network" /\ UNCHANGED <<egRules, egNext, egStops>> /\ (EgFail \/ UNCHANGED egFails)
  BY DEF EgCreate
<1>3. ASSUME NEW net \in BOOLEAN, NEW spoilt \in BOOLEAN,
             net <=> s \in egNetworks', spoilt <=> s \in egSpoilt'
      PROVE  EgSandboxGood(step, net, box, egRules[s], egNext[s], EgStopsOf(s), spoilt)
  <2>1. EgOfSandbox(s)
    BY EgEverySandbox
  <2> QED
    BY <1>1, <1>2, <1>3, <2>1, EgRuleFacts DEF EgOfSandbox, EgSandboxGood, EgSandboxOK, EgSteps
<1>4. /\ egRules' = [egRules EXCEPT ![s] = egRules[s]]
      /\ egNext' = [egNext EXCEPT ![s] = egNext[s]]
      /\ egStops' = [p \in EgSessions \X EgStops |->
                       IF p[1] = s THEN EgStopsOf(s)[p[2]] ELSE egStops[p]]
  BY <1>2, EgSame
<1>to. EgTo(s, step, box, egRules[s], egNext[s], EgStopsOf(s))
  BY <1>1, <1>2, <1>4 DEF EgTo
<1>fits. EgFits(s, step, box, egRules[s], egNext[s], EgStopsOf(s))
  BY <1>3 DEF EgFits
<1> QED
  BY <1>to, <1>fits, EgStepIInv

LEMMA EgApplyIInv ==
  ASSUME EgIInv, NEW s \in EgSessions, EgApply(s)
  PROVE  EgIInv'
<1>1. egStep[s] = "box" /\ EgOfSandbox(s) /\ UNCHANGED <<egNetworks, egBox, egStops, egSpoilt>>
  BY EgEverySandbox DEF EgApply
<1>2. PICK n \in 0..4 : n = egNext[s] /\ egRules[s] = EgAfter(n) /\ egBox[s] = "created"
  BY <1>1 DEF EgOfSandbox, EgSandboxGood, EgSandboxOK
<1> DEFINE rule == EgApplied[n + 1]
<1>3. PICK rules : rules = IF rule = "v6" /\ ~EgV6 THEN EgAfter(n) ELSE EgAfter(n) \cup {rule}
  OBVIOUS
<1>4. rules = EgAfter(n + 1)
  BY <1>3, EgRuleFacts
<1>5. /\ EgAfter(n) \subseteq EgRuleNames /\ EgAfter(n + 1) \subseteq EgRuleNames
      /\ n = 4 => EgAfter(n + 1) = EgNeeded
      /\ n # 4 => n + 1 \in 0..4
      /\ n + 1 \in 0..5
  BY EgRuleFacts DEF EgAfter, EgNeeded
<1>6. /\ egBox' = [egBox EXCEPT ![s] = egBox[s]]
      /\ egStops' = [p \in EgSessions \X EgStops |->
                       IF p[1] = s THEN EgStopsOf(s)[p[2]] ELSE egStops[p]]
  BY <1>1, EgSame
<1>7. Len(EgApplied) = 5 /\ (n + 1 = 5 <=> n = 4)
  BY DEF EgApplied
<1>8. CASE /\ egNext' = [egNext EXCEPT ![s] = n + 1] /\ egRules' = [egRules EXCEPT ![s] = rules]
           /\ IF n + 1 = Len(EgApplied) THEN EgMove(s, "start") ELSE UNCHANGED egStep
           /\ UNCHANGED egFails
  <2>1. PICK step \in {"box", "start"} : egStep' = [egStep EXCEPT ![s] = step] /\ (step = "start" <=> n = 4)
    BY <1>1, <1>7, <1>8, EgSame DEF EgMove
  <2>2. ASSUME NEW net \in BOOLEAN, NEW spoilt \in BOOLEAN,
               net <=> s \in egNetworks', spoilt <=> s \in egSpoilt'
        PROVE  EgSandboxGood(step, net, egBox[s], rules, n + 1, EgStopsOf(s), spoilt)
    BY <1>1, <1>2, <1>4, <1>5, <2>1, <2>2 DEF EgOfSandbox, EgSandboxGood, EgSandboxOK, EgSteps
  <2>to. EgTo(s, step, egBox[s], rules, n + 1, EgStopsOf(s))
    BY <1>1, <1>6, <1>8, <2>1 DEF EgTo
  <2>fits. EgFits(s, step, egBox[s], rules, n + 1, EgStopsOf(s))
    BY <2>2 DEF EgFits
  <2> QED
    BY <2>to, <2>fits, EgStepIInv
<1>9. ASSUME EgFail, EgMove(s, "unrule"), UNCHANGED egNext, NEW left \in {EgAfter(n), rules},
             egRules' = [egRules EXCEPT ![s] = left]
      PROVE  EgIInv'
  <2>1. ASSUME NEW net \in BOOLEAN, NEW spoilt \in BOOLEAN,
               net <=> s \in egNetworks', spoilt <=> s \in egSpoilt'
        PROVE  EgSandboxGood("unrule", net, egBox[s], left, egNext[s], EgStopsOf(s), spoilt)
    BY <1>1, <1>2, <1>4, <1>5, <1>9, <2>1 DEF EgOfSandbox, EgSandboxGood, EgSandboxOK, EgSteps
  <2>2. egNext' = [egNext EXCEPT ![s] = egNext[s]]
    BY <1>9, EgSame
  <2>to. EgTo(s, "unrule", egBox[s], left, egNext[s], EgStopsOf(s))
    BY <1>1, <1>6, <1>9, <2>2 DEF EgTo, EgMove
  <2>fits. EgFits(s, "unrule", egBox[s], left, egNext[s], EgStopsOf(s))
    BY <2>1 DEF EgFits
  <2> QED
    BY <2>to, <2>fits, EgStepIInv
<1>10. \/ /\ egNext' = [egNext EXCEPT ![s] = n + 1] /\ egRules' = [egRules EXCEPT ![s] = rules]
          /\ IF n + 1 = Len(EgApplied) THEN EgMove(s, "start") ELSE UNCHANGED egStep
          /\ UNCHANGED egFails
       \/ /\ EgFail /\ EgMove(s, "unrule") /\ UNCHANGED egNext
          /\ \E left \in {EgAfter(n), rules} : egRules' = [egRules EXCEPT ![s] = left]
  BY <1>2, <1>3 DEF EgApply
<1> QED
  BY <1>8, <1>9, <1>10

LEMMA EgStartIInv ==
  ASSUME EgIInv, NEW s \in EgSessions, EgStart(s)
  PROVE  EgIInv'
<1>1. egStep[s] = "start" /\ EgOfSandbox(s) /\ UNCHANGED <<egNext, egStops, egNetworks, egRules>>
  BY EgEverySandbox DEF EgStart
<1>2. PICK step \in {"up", "unrule"}, box \in {"running", "created"} :
        /\ egStep' = [egStep EXCEPT ![s] = step] /\ egBox' = [egBox EXCEPT ![s] = box]
        /\ \/ step = "up" /\ box = "running" /\ UNCHANGED egSpoilt
           \/ step = "unrule" /\ box = "created" /\ UNCHANGED egSpoilt
           \/ step = "unrule" /\ box = "running" /\ egSpoilt' = egSpoilt \cup {s}
        /\ EgFail \/ UNCHANGED egFails
  <2>1. egBox = [egBox EXCEPT ![s] = "created"]
    BY <1>1, EgSame DEF EgOfSandbox, EgSandboxGood, EgSandboxOK
  <2> QED
    BY <2>1 DEF EgStart, EgMove, EgSpoil, EgBecomeBox
<1>3. ASSUME NEW net \in BOOLEAN, NEW spoilt \in BOOLEAN,
             net <=> s \in egNetworks', spoilt <=> s \in egSpoilt'
      PROVE  EgSandboxGood(step, net, box, egRules[s], egNext[s], EgStopsOf(s), spoilt)
  BY <1>1, <1>2, <1>3 DEF EgOfSandbox, EgSandboxGood, EgSandboxOK, EgSteps
<1>4. /\ egRules' = [egRules EXCEPT ![s] = egRules[s]]
      /\ egNext' = [egNext EXCEPT ![s] = egNext[s]]
      /\ egStops' = [p \in EgSessions \X EgStops |->
                       IF p[1] = s THEN EgStopsOf(s)[p[2]] ELSE egStops[p]]
  BY <1>1, EgSame
<1>to. EgTo(s, step, box, egRules[s], egNext[s], EgStopsOf(s))
  BY <1>1, <1>2, <1>4 DEF EgTo
<1>fits. EgFits(s, step, box, egRules[s], egNext[s], EgStopsOf(s))
  BY <1>3 DEF EgFits
<1> QED
  BY <1>to, <1>fits, EgStepIInv

\* What a step of a cleanup may leave.
LEMMA EgDropsRules ==
  ASSUME EgIInv, NEW s \in EgSessions, EgDropRules(s)
  PROVE  /\ \E rules \in SUBSET egRules[s] :
              /\ egRules' = [egRules EXCEPT ![s] = rules]
              /\ (rules = {} /\ UNCHANGED egSpoilt) \/ egSpoilt' = egSpoilt \cup {s}
         /\ EgFail \/ UNCHANGED egFails
  BY EgLeftWithin DEF EgDropRules, EgSpoil

LEMMA EgDropsBox ==
  ASSUME EgIInv, NEW s \in EgSessions, EgDropBox(s)
  PROVE  /\ \E box \in {"none", "created", "running"} :
              /\ egBox' = [egBox EXCEPT ![s] = box]
              /\ (box = "none" /\ UNCHANGED egSpoilt) \/ egSpoilt' = egSpoilt \cup {s}
         /\ EgFail \/ UNCHANGED egFails
<1>1. egBox[s] \in {"none", "created", "running"}
  BY DEF EgIInv, EgTypeOK
<1> QED
  BY <1>1 DEF EgDropBox, EgSpoil, EgBecomeBox

LEMMA EgDropsNetwork ==
  ASSUME EgIInv, NEW s \in EgSessions, EgDropNetwork(s)
  PROVE  /\ egNetworks' \in {egNetworks, egNetworks \ {s}}
         /\ (s \notin egNetworks' /\ UNCHANGED egSpoilt) \/ egSpoilt' = egSpoilt \cup {s}
         /\ EgFail \/ UNCHANGED egFails
  BY DEF EgDropNetwork, EgSpoil

LEMMA EgUndoIInv ==
  ASSUME EgIInv, NEW s \in EgSessions, EgUndo(s)
  PROVE  EgIInv'
<1>1. EgOfSandbox(s) /\ UNCHANGED <<egNext, egStops>>
  BY EgEverySandbox DEF EgUndo
<1>2. /\ egNext' = [egNext EXCEPT ![s] = egNext[s]]
      /\ egStops' = [p \in EgSessions \X EgStops |->
                       IF p[1] = s THEN EgStopsOf(s)[p[2]] ELSE egStops[p]]
  BY <1>1, EgSame
<1>3. CASE /\ egStep[s] = "unrule" /\ EgMove(s, "unbox") /\ EgDropRules(s) /\ UNCHANGED <<egBox, egNetworks>>
  <2>1. PICK rules \in SUBSET egRules[s] :
          /\ egRules' = [egRules EXCEPT ![s] = rules]
          /\ (rules = {} /\ UNCHANGED egSpoilt) \/ egSpoilt' = egSpoilt \cup {s}
    BY <1>3, EgDropsRules
  <2>2. ASSUME NEW net \in BOOLEAN, NEW spoilt \in BOOLEAN,
               net <=> s \in egNetworks', spoilt <=> s \in egSpoilt'
        PROVE  EgSandboxGood("unbox", net, egBox[s], rules, egNext[s], EgStopsOf(s), spoilt)
    BY <1>1, <1>3, <2>1, <2>2 DEF EgOfSandbox, EgSandboxGood, EgSandboxOK, EgSteps
  <2>3. egBox' = [egBox EXCEPT ![s] = egBox[s]]
    BY <1>3, EgSame
  <2>to. EgTo(s, "unbox", egBox[s], rules, egNext[s], EgStopsOf(s))
    BY <1>2, <1>3, <2>1, <2>3, EgDropsRules DEF EgTo, EgMove
  <2>fits. EgFits(s, "unbox", egBox[s], rules, egNext[s], EgStopsOf(s))
    BY <2>2 DEF EgFits
  <2> QED
    BY <2>to, <2>fits, EgStepIInv
<1>4. CASE /\ egStep[s] = "unbox" /\ EgMove(s, "unnet") /\ EgDropBox(s) /\ UNCHANGED <<egRules, egNetworks>>
  <2>1. PICK box \in {"none", "created", "running"} :
          /\ egBox' = [egBox EXCEPT ![s] = box]
          /\ (box = "none" /\ UNCHANGED egSpoilt) \/ egSpoilt' = egSpoilt \cup {s}
    BY <1>4, EgDropsBox
  <2>2. ASSUME NEW net \in BOOLEAN, NEW spoilt \in BOOLEAN,
               net <=> s \in egNetworks', spoilt <=> s \in egSpoilt'
        PROVE  EgSandboxGood("unnet", net, box, egRules[s], egNext[s], EgStopsOf(s), spoilt)
    BY <1>1, <1>4, <2>1, <2>2 DEF EgOfSandbox, EgSandboxGood, EgSandboxOK, EgSteps
  <2>3. egRules' = [egRules EXCEPT ![s] = egRules[s]]
    BY <1>4, EgSame
  <2>to. EgTo(s, "unnet", box, egRules[s], egNext[s], EgStopsOf(s))
    BY <1>2, <1>4, <2>1, <2>3, EgDropsBox DEF EgTo, EgMove
  <2>fits. EgFits(s, "unnet", box, egRules[s], egNext[s], EgStopsOf(s))
    BY <2>2 DEF EgFits
  <2> QED
    BY <2>to, <2>fits, EgStepIInv
<1>5. CASE /\ egStep[s] = "unnet" /\ EgMove(s, "gone") /\ EgDropNetwork(s) /\ UNCHANGED <<egRules, egBox>>
  <2>1. ASSUME NEW net \in BOOLEAN, NEW spoilt \in BOOLEAN,
               net <=> s \in egNetworks', spoilt <=> s \in egSpoilt'
        PROVE  EgSandboxGood("gone", net, egBox[s], egRules[s], egNext[s], EgStopsOf(s), spoilt)
    BY <1>1, <1>5, <2>1, EgDropsNetwork DEF EgOfSandbox, EgSandboxGood, EgSandboxOK, EgSteps
  <2>2. /\ egBox' = [egBox EXCEPT ![s] = egBox[s]] /\ egRules' = [egRules EXCEPT ![s] = egRules[s]]
    BY <1>5, EgSame
  <2>to. EgTo(s, "gone", egBox[s], egRules[s], egNext[s], EgStopsOf(s))
    BY <1>2, <1>5, <2>2, EgDropsNetwork DEF EgTo, EgMove
  <2>fits. EgFits(s, "gone", egBox[s], egRules[s], egNext[s], EgStopsOf(s))
    BY <2>1 DEF EgFits
  <2> QED
    BY <2>to, <2>fits, EgStepIInv
<1> QED
  BY <1>3, <1>4, <1>5 DEF EgUndo

\* One call of StopSandbox moves on.
EgMovedTo(s, k, step, stops) ==
  /\ stops[k] = step /\ \A j \in EgStops \ {k} : stops[j] = EgStopsOf(s)[j]
  /\ egStops' = [p \in EgSessions \X EgStops |-> IF p[1] = s THEN stops[p[2]] ELSE egStops[p]]

LEMMA EgStopsMoved ==
  ASSUME EgIInv, NEW s \in EgSessions, NEW k \in EgStops, NEW step \in EgStopSteps, EgStopMove(s, k, step)
  PROVE  \E stops \in [EgStops -> EgStopSteps] : EgMovedTo(s, k, step, stops)
<1> DEFINE stops == [EgStopsOf(s) EXCEPT ![k] = step]
<1>1. stops \in [EgStops -> EgStopSteps] /\ stops[k] = step /\ \A j \in EgStops \ {k} : stops[j] = EgStopsOf(s)[j]
  BY EgEverySandbox DEF EgOfSandbox, EgSandboxGood
<1>2. egStops' = [p \in EgSessions \X EgStops |-> IF p[1] = s THEN stops[p[2]] ELSE egStops[p]]
  BY EgStopsSet DEF EgStopMove
<1>3. EgMovedTo(s, k, step, stops)
  BY <1>1, <1>2 DEF EgMovedTo
<1> HIDE DEF stops
<1> QED
  BY <1>1, <1>3

LEMMA EgInspectIInv ==
  ASSUME EgIInv, NEW s \in EgSessions, NEW k \in EgStops, EgInspect(s, k)
  PROVE  EgIInv'
<1>1. /\ egStep[s] = "up" /\ egStops[s, k] \in {"none", "done"}
      /\ UNCHANGED <<egStep, egNetworks, egBox, egRules, egNext>> /\ EgOfSandbox(s)
  BY EgEverySandbox DEF EgInspect
<1>2. EgStopsOf(s)[k] \in {"none", "done"}
  BY <1>1 DEF EgStopsOf
<1>3. PICK step \in {"inspected", "blind"} :
        /\ EgStopMove(s, k, step)
        /\ \/ UNCHANGED egSpoilt /\ (step = "blind" => egBox[s] = "none")
           \/ egSpoilt' = egSpoilt \cup {s}
        /\ EgFail \/ UNCHANGED egFails
  BY DEF EgInspect, EgSpoil
<1>4. step \in EgStopSteps
  BY DEF EgStopSteps
<1>5. PICK stops \in [EgStops -> EgStopSteps] :
        /\ stops[k] = step /\ \A j \in EgStops \ {k} : stops[j] = EgStopsOf(s)[j]
        /\ egStops' = [p \in EgSessions \X EgStops |-> IF p[1] = s THEN stops[p[2]] ELSE egStops[p]]
  <2>1. PICK stops \in [EgStops -> EgStopSteps] : EgMovedTo(s, k, step, stops)
    BY <1>3, <1>4, EgStopsMoved
  <2> QED
    BY <2>1 DEF EgMovedTo
<1>6. ASSUME NEW net \in BOOLEAN, NEW spoilt \in BOOLEAN,
             net <=> s \in egNetworks', spoilt <=> s \in egSpoilt'
      PROVE  EgSandboxGood(egStep[s], net, egBox[s], egRules[s], egNext[s], stops, spoilt)
  <2>1. /\ \A j \in EgStops : EgStopsOf(s)[j] \in {"removed", "unruled"} => stops[j] = EgStopsOf(s)[j]
        /\ ~spoilt => s \notin egSpoilt
    BY <1>2, <1>3, <1>5, <1>6
  <2>2. ASSUME ~spoilt, NEW j \in EgStops, stops[j] \in {"removed", "unruled", "done", "blind"}
        PROVE  egBox[s] = "none"
    <3>1. CASE j = k
      BY <1>3, <1>5, <1>6, <2>2, <3>1
    <3>2. CASE j # k
      BY <1>1, <1>5, <2>1, <2>2, <3>2 DEF EgOfSandbox, EgSandboxGood, EgSandboxOK
    <3> QED
      BY <3>1, <3>2
  <2> QED
    BY <1>1, <1>6, <2>1, <2>2 DEF EgOfSandbox, EgSandboxGood, EgSandboxOK
<1>7. /\ egStep' = [egStep EXCEPT ![s] = egStep[s]]
      /\ egBox' = [egBox EXCEPT ![s] = egBox[s]]
      /\ egRules' = [egRules EXCEPT ![s] = egRules[s]]
      /\ egNext' = [egNext EXCEPT ![s] = egNext[s]]
  BY <1>1, EgSame
<1>8. egNetworks' = egNetworks /\ egSpoilt' \in {egSpoilt, egSpoilt \cup {s}}
  BY <1>1, <1>3
<1>to. EgTo(s, egStep[s], egBox[s], egRules[s], egNext[s], stops)
  BY <1>3, <1>5, <1>7, <1>8 DEF EgTo
<1>fits. EgFits(s, egStep[s], egBox[s], egRules[s], egNext[s], stops)
  BY <1>6 DEF EgFits
<1> QED
  BY <1>to, <1>fits, EgStepIInv

LEMMA EgRemoveIInv ==
  ASSUME EgIInv, NEW s \in EgSessions, NEW k \in EgStops, EgRemove(s, k)
  PROVE  EgIInv'
<1>1. /\ UNCHANGED <<egStep, egNetworks, egRules, egNext>> /\ EgOfSandbox(s)
      /\ EgFail \/ UNCHANGED egFails
  BY EgEverySandbox, EgDropsBox DEF EgRemove
<1>2. PICK step \in {"removed", "done"} :
        /\ EgStopMove(s, k, step)
        /\ \/ EgStopsOf(s)[k] = "inspected" /\ step = "removed"
           \/ EgStopsOf(s)[k] = "blind" /\ step = "done"
  BY DEF EgRemove, EgStopsOf
<1>3. egStep[s] = "up" /\ step \in EgStopSteps
  BY <1>1, <1>2 DEF EgOfSandbox, EgSandboxGood, EgSandboxOK, EgStopSteps
<1>4. PICK box \in {"none", "created", "running"} :
        /\ egBox' = [egBox EXCEPT ![s] = box]
        /\ (box = "none" /\ UNCHANGED egSpoilt) \/ egSpoilt' = egSpoilt \cup {s}
  BY EgDropsBox DEF EgRemove
<1>5. PICK stops \in [EgStops -> EgStopSteps] :
        /\ stops[k] = step /\ \A j \in EgStops \ {k} : stops[j] = EgStopsOf(s)[j]
        /\ egStops' = [p \in EgSessions \X EgStops |-> IF p[1] = s THEN stops[p[2]] ELSE egStops[p]]
  <2>1. PICK stops \in [EgStops -> EgStopSteps] : EgMovedTo(s, k, step, stops)
    BY <1>2, <1>3, EgStopsMoved
  <2> QED
    BY <2>1 DEF EgMovedTo
<1>6. ASSUME NEW net \in BOOLEAN, NEW spoilt \in BOOLEAN,
             net <=> s \in egNetworks', spoilt <=> s \in egSpoilt'
      PROVE  EgSandboxGood(egStep[s], net, box, egRules[s], egNext[s], stops, spoilt)
  <2>1. ~spoilt => s \notin egSpoilt /\ box = "none"
    BY <1>4, <1>6
  <2>2. \A j \in EgStops : EgStopsOf(s)[j] \in {"removed", "unruled"} => stops[j] = EgStopsOf(s)[j]
    BY <1>2, <1>5
  <2>3. ASSUME ~spoilt, \A j \in EgStops : stops[j] # "removed"
        PROVE  egRules[s] = {} /\ (net => \E j \in EgStops : stops[j] = "unruled")
    <3>1. EgStopsOf(s)[k] = "blind"
      BY <1>2, <1>5, <2>3
    <3>2. egBox[s] = "none"
      BY <1>1, <1>3, <2>1, <2>3, <3>1 DEF EgOfSandbox, EgSandboxGood, EgSandboxOK
    <3>3. net <=> s \in egNetworks
      BY <1>1, <1>6
    <3>4. \A j \in EgStops : EgStopsOf(s)[j] # "removed"
      BY <2>2, <2>3
    <3> QED
      BY <1>1, <1>3, <2>1, <2>2, <2>3, <3>2, <3>3, <3>4 DEF EgOfSandbox, EgSandboxGood, EgSandboxOK
  <2> QED
    BY <1>1, <1>3, <2>1, <2>3 DEF EgOfSandbox, EgSandboxGood, EgSandboxOK
<1>7. /\ egStep' = [egStep EXCEPT ![s] = egStep[s]]
      /\ egRules' = [egRules EXCEPT ![s] = egRules[s]]
      /\ egNext' = [egNext EXCEPT ![s] = egNext[s]]
  BY <1>1, EgSame
<1>8. egNetworks' = egNetworks /\ egSpoilt' \in {egSpoilt, egSpoilt \cup {s}}
  BY <1>1, <1>4
<1>to. EgTo(s, egStep[s], box, egRules[s], egNext[s], stops)
  BY <1>1, <1>4, <1>5, <1>7, <1>8 DEF EgTo
<1>fits. EgFits(s, egStep[s], box, egRules[s], egNext[s], stops)
  BY <1>6 DEF EgFits
<1> QED
  BY <1>to, <1>fits, EgStepIInv

LEMMA EgUnruleIInv ==
  ASSUME EgIInv, NEW s \in EgSessions, NEW k \in EgStops, EgUnrule(s, k)
  PROVE  EgIInv'
<1>1. /\ EgStopMove(s, k, "unruled") /\ UNCHANGED <<egStep, egNetworks, egBox, egNext>> /\ EgOfSandbox(s)
      /\ EgFail \/ UNCHANGED egFails
  BY EgEverySandbox, EgDropsRules DEF EgUnrule
<1>2. EgStopsOf(s)[k] = "removed" /\ egStep[s] = "up" /\ "unruled" \in EgStopSteps
  BY <1>1 DEF EgUnrule, EgStopsOf, EgOfSandbox, EgSandboxGood, EgSandboxOK, EgStopSteps
<1>3. PICK rules \in SUBSET egRules[s] :
        /\ egRules' = [egRules EXCEPT ![s] = rules]
        /\ (rules = {} /\ UNCHANGED egSpoilt) \/ egSpoilt' = egSpoilt \cup {s}
  BY EgDropsRules DEF EgUnrule
<1>4. PICK stops \in [EgStops -> EgStopSteps] :
        /\ stops[k] = "unruled" /\ \A j \in EgStops \ {k} : stops[j] = EgStopsOf(s)[j]
        /\ egStops' = [p \in EgSessions \X EgStops |-> IF p[1] = s THEN stops[p[2]] ELSE egStops[p]]
  <2>1. PICK stops \in [EgStops -> EgStopSteps] : EgMovedTo(s, k, "unruled", stops)
    BY <1>1, <1>2, EgStopsMoved
  <2> QED
    BY <2>1 DEF EgMovedTo
<1>5. ASSUME NEW net \in BOOLEAN, NEW spoilt \in BOOLEAN,
             net <=> s \in egNetworks', spoilt <=> s \in egSpoilt'
      PROVE  EgSandboxGood(egStep[s], net, egBox[s], rules, egNext[s], stops, spoilt)
  <2>1. ~spoilt => s \notin egSpoilt /\ rules = {} /\ egBox[s] = "none"
    BY <1>1, <1>2, <1>3, <1>5 DEF EgOfSandbox, EgSandboxGood, EgSandboxOK
  <2>2. rules \subseteq EgRuleNames
    BY <1>1 DEF EgOfSandbox, EgSandboxGood
  <2> QED
    BY <1>1, <1>2, <1>4, <2>1, <2>2 DEF EgOfSandbox, EgSandboxGood, EgSandboxOK
<1>6. /\ egStep' = [egStep EXCEPT ![s] = egStep[s]]
      /\ egBox' = [egBox EXCEPT ![s] = egBox[s]]
      /\ egNext' = [egNext EXCEPT ![s] = egNext[s]]
  BY <1>1, EgSame
<1>7. egNetworks' = egNetworks /\ egSpoilt' \in {egSpoilt, egSpoilt \cup {s}}
  BY <1>1, <1>3
<1>to. EgTo(s, egStep[s], egBox[s], rules, egNext[s], stops)
  BY <1>1, <1>3, <1>4, <1>6, <1>7 DEF EgTo
<1>fits. EgFits(s, egStep[s], egBox[s], rules, egNext[s], stops)
  BY <1>5 DEF EgFits
<1> QED
  BY <1>to, <1>fits, EgStepIInv

LEMMA EgUnnetIInv ==
  ASSUME EgIInv, NEW s \in EgSessions, NEW k \in EgStops, EgUnnet(s, k)
  PROVE  EgIInv'
<1>1. /\ EgStopMove(s, k, "done") /\ UNCHANGED <<egStep, egRules, egBox, egNext>> /\ EgOfSandbox(s)
      /\ EgFail \/ UNCHANGED egFails
      /\ egNetworks' \in {egNetworks, egNetworks \ {s}}
      /\ (s \notin egNetworks' /\ UNCHANGED egSpoilt) \/ egSpoilt' = egSpoilt \cup {s}
  BY EgEverySandbox, EgDropsNetwork DEF EgUnnet
<1>2. EgStopsOf(s)[k] = "unruled" /\ egStep[s] = "up" /\ "done" \in EgStopSteps
  BY <1>1 DEF EgUnnet, EgStopsOf, EgOfSandbox, EgSandboxGood, EgSandboxOK, EgStopSteps
<1>3. PICK stops \in [EgStops -> EgStopSteps] :
        /\ stops[k] = "done" /\ \A j \in EgStops \ {k} : stops[j] = EgStopsOf(s)[j]
        /\ egStops' = [p \in EgSessions \X EgStops |-> IF p[1] = s THEN stops[p[2]] ELSE egStops[p]]
  <2>1. PICK stops \in [EgStops -> EgStopSteps] : EgMovedTo(s, k, "done", stops)
    BY <1>1, <1>2, EgStopsMoved
  <2> QED
    BY <2>1 DEF EgMovedTo
<1>4. ASSUME NEW net \in BOOLEAN, NEW spoilt \in BOOLEAN,
             net <=> s \in egNetworks', spoilt <=> s \in egSpoilt'
      PROVE  EgSandboxGood(egStep[s], net, egBox[s], egRules[s], egNext[s], stops, spoilt)
  <2>1. ~spoilt => s \notin egSpoilt /\ ~net /\ egBox[s] = "none"
    BY <1>1, <1>2, <1>4 DEF EgOfSandbox, EgSandboxGood, EgSandboxOK
  <2>2. ASSUME ~spoilt, egRules[s] # {}
        PROVE  \E j \in EgStops : stops[j] = "removed"
    <3>1. PICK j \in EgStops : EgStopsOf(s)[j] = "removed"
      BY <1>1, <1>2, <2>1, <2>2 DEF EgOfSandbox, EgSandboxGood, EgSandboxOK
    <3> QED
      BY <1>2, <1>3, <3>1
  <2> QED
    BY <1>1, <1>2, <2>1, <2>2 DEF EgOfSandbox, EgSandboxGood, EgSandboxOK
<1>5. /\ egStep' = [egStep EXCEPT ![s] = egStep[s]]
      /\ egBox' = [egBox EXCEPT ![s] = egBox[s]]
      /\ egRules' = [egRules EXCEPT ![s] = egRules[s]]
      /\ egNext' = [egNext EXCEPT ![s] = egNext[s]]
  BY <1>1, EgSame
<1>6. egSpoilt' \in {egSpoilt, egSpoilt \cup {s}}
  BY <1>1
<1>to. EgTo(s, egStep[s], egBox[s], egRules[s], egNext[s], stops)
  BY <1>1, <1>3, <1>5, <1>6 DEF EgTo
<1>fits. EgFits(s, egStep[s], egBox[s], egRules[s], egNext[s], stops)
  BY <1>4 DEF EgFits
<1> QED
  BY <1>to, <1>fits, EgStepIInv

LEMMA EgNextIInv ==
  EgIInv /\ [EgNext]_egVars => EgIInv'
<1> SUFFICES ASSUME EgIInv, [EgNext]_egVars PROVE EgIInv'
  OBVIOUS
<1>1. CASE UNCHANGED egVars
  BY <1>1 DEF egVars, EgIInv, EgTypeOK, EgBoxInv, EgStopsOf
<1> QED
  BY <1>1, EgNetworkIInv, EgCreateIInv, EgApplyIInv, EgStartIInv, EgUndoIInv, EgInspectIInv, EgRemoveIInv,
     EgUnruleIInv, EgUnnetIInv DEF EgNext

LEMMA EgFollows ==
  ASSUME EgIInv
  PROVE  EgRulesFollowBox
<1>1. ASSUME NEW s \in EgSessions, egBox[s] = "running", s \notin egSpoilt
      PROVE  EgNeeded \subseteq egRules[s]
  <2>1. EgOfSandbox(s)
    BY EgEverySandbox
  <2>2. egStep[s] = "up"
    BY <1>1, <2>1 DEF EgOfSandbox, EgSandboxGood, EgSandboxOK, EgSteps
  <2> QED
    BY <1>1, <2>1, <2>2 DEF EgOfSandbox, EgSandboxGood, EgSandboxOK
<1>2. ASSUME NEW s \in EgSessions, s \notin egSpoilt,
             \/ egStep[s] = "gone"
             \/ /\ \E k \in EgStops : egStops[s, k] = "done"
                /\ \A k \in EgStops : egStops[s, k] \in {"none", "done"}
      PROVE  egBox[s] = "none" /\ s \notin egNetworks /\ egRules[s] = {}
  <2>1. EgOfSandbox(s)
    BY EgEverySandbox
  <2>2. CASE egStep[s] = "gone"
    BY <1>2, <2>1, <2>2 DEF EgOfSandbox, EgSandboxGood, EgSandboxOK
  <2>3. ASSUME NEW k \in EgStops, egStops[s, k] = "done",
               \A j \in EgStops : egStops[s, j] \in {"none", "done"}
        PROVE  egBox[s] = "none" /\ s \notin egNetworks /\ egRules[s] = {}
    <3>1. EgStopsOf(s)[k] = "done" /\ \A j \in EgStops : EgStopsOf(s)[j] \in {"none", "done"}
      BY <2>3 DEF EgStopsOf
    <3>2. egStep[s] = "up"
      BY <2>1, <3>1 DEF EgOfSandbox, EgSandboxGood, EgSandboxOK
    <3> QED
      BY <1>2, <2>1, <3>1, <3>2 DEF EgOfSandbox, EgSandboxGood, EgSandboxOK
  <2> QED
    BY <1>2, <2>2, <2>3
<1> QED
  BY <1>1, <1>2 DEF EgRulesFollowBox, EgEnforced, EgNothingLeft

(***************************************************************************)
(* The rules of a sandbox are there exactly as long as it may run:         *)
(* CreateSandbox installs every one before it starts the container and     *)
(* StopSandbox removes them after it, two removals at once included, unless*)
(* a call that cleans up failed or an answer was lost (egSpoilt).          *)
(***************************************************************************)
THEOREM RulesFollowBox == EgSpec => [](EgTypeOK /\ EgRulesFollowBox)
<1>1. EgIInv => EgTypeOK /\ EgRulesFollowBox
  BY EgFollows DEF EgIInv
<1> QED
  BY <1>1, EgInitIInv, EgNextIInv, PTL DEF EgSpec

-----------------------------------------------------------------------------
(* Commands in the sandbox *)

\* A request that has no command yet: its clock stands still and its row does
\* not say timeout.
SrBegins == {"none", "size", "over", "under", "resume", "prepare", "exec"}

\* A supervised command that was never frozen runs in a sandbox that is not
\* paused, for no longer than its timeout; a request that gave up on it, and
\* whose client is still there, has waited longer.
SrRunInv ==
  \A r \in SrRuns :
    /\ srAt[r] \in SrBegins =>
         srAge[r] = 0 /\ srCmd[r] = "none" /\ srRow[r] # "timeout" /\ r \notin srSuper
    /\ srBox = "none" => srAt[r] = "none"
    /\ r \in srSuper /\ srCmd[r] = "running" /\ r \notin srFrozen =>
         /\ ~srPaused /\ srAge[r] <= SrTimeout
         /\ srAt[r] = "timeout" => r \in srLeft

SrIInv == SrTypeOK /\ SrRunInv /\ SrTimeoutStops

LEMMA SrInitIInv == SrInit => SrIInv
<1> SUFFICES ASSUME SrInit PROVE SrIInv
  OBVIOUS
<1>1. SrTypeOK
  <2>1. 0 \in 0..(SrTimeout + SrGrace)
    BY SandboxRunsAssumption
  <2> QED
    BY <2>1 DEF SrInit, SrTypeOK, SrBoxes, SrSteps, SrRows, SrCommands
<1>2. SrRunInv /\ SrTimeoutStops
  BY DEF SrInit, SrRunInv, SrTimeoutStops
<1> QED
  BY <1>1, <1>2 DEF SrIInv

\* What one run keeps, in a sandbox.
SrRunOK(box, paused, at, left, row, cmd, age, frozen, super) ==
  /\ at \in SrSteps /\ row \in SrRows /\ cmd \in SrCommands /\ age \in 0..(SrTimeout + SrGrace)
  /\ at \in SrBegins => age = 0 /\ cmd = "none" /\ row # "timeout" /\ ~super
  /\ box = "none" => at = "none"
  /\ super /\ cmd = "running" /\ ~frozen =>
       /\ ~paused /\ age <= SrTimeout
       /\ at = "timeout" => left
  /\ row = "timeout" /\ super => cmd # "running" \/ frozen

SrOfRun(r) ==
  SrRunOK(srBox, srPaused, srAt[r], r \in srLeft, srRow[r], srCmd[r], srAge[r], r \in srFrozen, r \in srSuper)

SrShared(box, paused, over, sweep, left, frozen, super) ==
  /\ box \in SrBoxes /\ paused \in BOOLEAN /\ over \in BOOLEAN /\ sweep \in {"idle", "over"}
  /\ left \subseteq SrRuns /\ frozen \subseteq SrRuns /\ super \subseteq SrRuns

LEMMA SrEveryRun ==
  SrIInv <=> /\ srAt = [r \in SrRuns |-> srAt[r]] /\ srRow = [r \in SrRuns |-> srRow[r]]
             /\ srCmd = [r \in SrRuns |-> srCmd[r]] /\ srAge = [r \in SrRuns |-> srAge[r]]
             /\ SrShared(srBox, srPaused, srOver, srSweep, srLeft, srFrozen, srSuper)
             /\ \A r \in SrRuns : SrOfRun(r)
  BY DEF SrIInv, SrTypeOK, SrRunInv, SrTimeoutStops, SrOfRun, SrRunOK, SrShared

\* A step that leaves each run in order.
LEMMA SrAllRuns ==
  ASSUME SrIInv, SrShared(srBox', srPaused', srOver', srSweep', srLeft', srFrozen', srSuper'),
         srAt' = [r \in SrRuns |-> srAt'[r]], srRow' = [r \in SrRuns |-> srRow'[r]],
         srCmd' = [r \in SrRuns |-> srCmd'[r]], srAge' = [r \in SrRuns |-> srAge'[r]],
         \A r \in SrRuns : SrRunOK(srBox', srPaused', srAt'[r], r \in srLeft', srRow'[r], srCmd'[r],
                                   srAge'[r], r \in srFrozen', r \in srSuper')
  PROVE  SrIInv'
<1>1. SrTypeOK'
  BY DEF SrTypeOK, SrShared, SrRunOK
<1>2. SrRunInv'
  BY DEF SrRunInv, SrRunOK
<1>3. SrTimeoutStops'
  BY DEF SrTimeoutStops, SrRunOK
<1> QED
  BY <1>1, <1>2, <1>3 DEF SrIInv

\* A step of one run.
SrBecomes(r, at, row, cmd) ==
  /\ srAt' = [srAt EXCEPT ![r] = at] /\ srRow' = [srRow EXCEPT ![r] = row]
  /\ srCmd' = [srCmd EXCEPT ![r] = cmd]
  /\ UNCHANGED <<srBox, srPaused, srOver, srSweep, srLeft, srAge, srFrozen, srSuper>>

LEMMA SrOneRun ==
  ASSUME SrIInv, NEW r \in SrRuns, NEW at, NEW row, NEW cmd,
         SrBecomes(r, at, row, cmd),
         SrRunOK(srBox, srPaused, at, r \in srLeft, row, cmd, srAge[r], r \in srFrozen, r \in srSuper)
  PROVE  SrIInv'
<1>1. SrShared(srBox', srPaused', srOver', srSweep', srLeft', srFrozen', srSuper')
  BY SrEveryRun DEF SrBecomes
<1>2. /\ srAt' = [q \in SrRuns |-> srAt'[q]] /\ srRow' = [q \in SrRuns |-> srRow'[q]]
      /\ srCmd' = [q \in SrRuns |-> srCmd'[q]] /\ srAge' = [q \in SrRuns |-> srAge'[q]]
  BY DEF SrIInv, SrTypeOK, SrBecomes
<1>3. ASSUME NEW q \in SrRuns
      PROVE  SrRunOK(srBox', srPaused', srAt'[q], q \in srLeft', srRow'[q], srCmd'[q],
                     srAge'[q], q \in srFrozen', q \in srSuper')
  <2>1. CASE q = r
    BY <2>1 DEF SrIInv, SrTypeOK, SrBecomes
  <2>2. CASE q # r
    <3>1. SrOfRun(q)
      BY SrEveryRun
    <3>2. srAt'[q] = srAt[q] /\ srRow'[q] = srRow[q] /\ srCmd'[q] = srCmd[q]
      BY <2>2 DEF SrIInv, SrTypeOK, SrBecomes
    <3> QED
      BY <3>1, <3>2 DEF SrOfRun, SrBecomes
  <2> QED
    BY <2>1, <2>2
<1> QED
  BY <1>1, <1>2, <1>3, SrAllRuns

LEMMA SrSame ==
  ASSUME SrIInv, NEW r \in SrRuns
  PROVE  /\ srAt = [srAt EXCEPT ![r] = srAt[r]] /\ srRow = [srRow EXCEPT ![r] = srRow[r]]
         /\ srCmd = [srCmd EXCEPT ![r] = srCmd[r]]
         /\ SrOfRun(r)
  BY SrEveryRun DEF SrIInv, SrTypeOK

\* Steps of the sandbox and the sweep that no run takes part in.
LEMMA SrSandboxIInv ==
  ASSUME SrIInv, SrSandbox \/ SrCommandFills \/ SrDeleteFiles \/ SrSweepMeasures
  PROVE  SrIInv'
<1>1. UNCHANGED <<srPaused, srAt, srLeft, srRow, srCmd, srAge, srFrozen, srSuper>>
  BY DEF SrSandbox, SrCommandFills, SrDeleteFiles, SrSweepMeasures
<1>2. srBox' = srBox \/ (srBox = "none" /\ srBox' \in {"plain", "supervised"})
  BY DEF SrSandbox, SrCommandFills, SrDeleteFiles, SrSweepMeasures
<1>3. SrTypeOK'
  BY <1>1, <1>2
     DEF SrIInv, SrTypeOK, SrBoxes, SrSandbox, SrCommandFills, SrDeleteFiles, SrSweepMeasures
<1>4. SrRunInv' /\ SrTimeoutStops'
  BY <1>1, <1>2 DEF SrIInv, SrRunInv, SrTimeoutStops, SrBegins
<1> QED
  BY <1>3, <1>4 DEF SrIInv

LEMMA SrRemoveIInv ==
  ASSUME SrIInv, SrRemove
  PROVE  SrIInv'
<1>1. srBox' = "removed" /\ srPaused' = FALSE
  BY DEF SrRemove
<1>2. UNCHANGED <<srOver, srSweep, srAt, srLeft, srRow, srAge, srFrozen, srSuper>>
  BY DEF SrRemove
<1>3. \A r \in SrRuns : srCmd'[r] = IF srCmd[r] = "running" THEN "died" ELSE srCmd[r]
  BY DEF SrRemove, SrRunning
<1>4. srCmd' \in [SrRuns -> SrCommands]
  BY DEF SrRemove, SrRunning, SrIInv, SrTypeOK, SrCommands
<1>5. SrTypeOK'
  BY <1>1, <1>2, <1>4 DEF SrIInv, SrTypeOK, SrBoxes
<1>6. SrRunInv' /\ SrTimeoutStops'
  BY <1>1, <1>2, <1>3 DEF SrIInv, SrRunInv, SrTimeoutStops, SrBegins
<1> QED
  BY <1>5, <1>6 DEF SrIInv

LEMMA SrTickIInv ==
  ASSUME SrIInv, SrTick
  PROVE  SrIInv'
<1>1. UNCHANGED <<srBox, srPaused, srOver, srSweep, srAt, srLeft, srRow, srCmd, srFrozen, srSuper>>
  BY DEF SrTick
<1>2. srAge' = [r \in SrRuns |-> IF r \in SrTimed THEN srAge[r] + 1 ELSE srAge[r]]
  BY DEF SrTick
<1>3. ASSUME NEW r \in SrRuns
      PROVE  SrRunOK(srBox, srPaused, srAt[r], r \in srLeft, srRow[r], srCmd[r],
                     srAge'[r], r \in srFrozen, r \in srSuper)
  <2>1. SrOfRun(r)
    BY SrEveryRun
  <2>2. CASE r \in SrTimed
    <3>1. srAge'[r] = srAge[r] + 1 /\ srAge[r] < SrTimeout + SrGrace /\ srAge[r] \in Nat
      BY <1>2, <2>1, <2>2, SandboxRunsAssumption DEF SrTimed, SrOfRun, SrRunOK
    <3>2. srAge'[r] \in 0..(SrTimeout + SrGrace)
      BY <3>1, SandboxRunsAssumption
    <3>3. srAt[r] \notin SrBegins
      BY <2>1, <2>2 DEF SrTimed, SrRunning, SrOfRun, SrRunOK, SrBegins
    <3>4. r \in srSuper /\ srCmd[r] = "running" /\ ~srPaused => srAge'[r] <= SrTimeout
      BY <3>1, SandboxRunsAssumption DEF SrTick, SrRunning
    <3> QED
      BY <2>1, <3>2, <3>3, <3>4 DEF SrOfRun, SrRunOK
  <2>3. CASE r \notin SrTimed
    BY <1>2, <2>1, <2>3 DEF SrOfRun
  <2> QED
    BY <2>2, <2>3
<1> QED
  BY <1>1, <1>2, <1>3, SrAllRuns, SrEveryRun

\* A pause freezes what runs; a resume lets it go on.
LEMMA SrPauseIInv ==
  ASSUME SrIInv, NEW at, srAt' = [r \in SrRuns |-> at[r]],
         \A r \in SrRuns : \/ at[r] = srAt[r]
                           \/ srAt[r] \in SrBegins \ {"none"} /\ at[r] \in SrSteps \ {"timeout"},
         \/ SrPause
         \/ UNCHANGED <<srPaused, srFrozen>>
         \/ srPaused' = FALSE /\ UNCHANGED srFrozen,
         srSweep' \in {"idle", "over"}, UNCHANGED <<srBox, srOver, srLeft, srRow, srCmd, srAge, srSuper>>
  PROVE  SrIInv'
<1>1. SrShared(srBox', srPaused', srOver', srSweep', srLeft', srFrozen', srSuper')
  BY DEF SrIInv, SrTypeOK, SrShared, SrPause, SrRunning
<1>2. ASSUME NEW r \in SrRuns
      PROVE  SrRunOK(srBox', srPaused', srAt'[r], r \in srLeft', srRow'[r], srCmd'[r],
                     srAge'[r], r \in srFrozen', r \in srSuper')
  <2>1. SrOfRun(r)
    BY SrEveryRun
  <2>2. \/ srPaused' = TRUE /\ (srCmd[r] = "running" => r \in srFrozen') /\ (r \in srFrozen => r \in srFrozen')
        \/ UNCHANGED <<srPaused, srFrozen>>
        \/ srPaused' = FALSE /\ UNCHANGED srFrozen
    BY DEF SrPause, SrRunning
  <2>3. srAt'[r] = srAt[r] \/ (srAt[r] \in SrBegins \ {"none"} /\ srAt'[r] \in SrSteps \ {"timeout"})
    OBVIOUS
  <2> QED
    BY <2>1, <2>2, <2>3 DEF SrOfRun, SrRunOK
<1>3. /\ srAt' = [q \in SrRuns |-> srAt'[q]] /\ srRow' = [q \in SrRuns |-> srRow'[q]]
      /\ srCmd' = [q \in SrRuns |-> srCmd'[q]] /\ srAge' = [q \in SrRuns |-> srAge'[q]]
  BY DEF SrIInv, SrTypeOK
<1> QED
  BY <1>1, <1>2, <1>3, SrAllRuns

LEMMA SrSweepPausesIInv ==
  ASSUME SrIInv, SrSweepPauses
  PROVE  SrIInv'
<1>1. srAt' = [r \in SrRuns |-> srAt[r]]
  BY DEF SrSweepPauses, SrIInv, SrTypeOK
<1> QED
  BY <1>1, SrPauseIInv DEF SrSweepPauses

LEMMA SrRefuseIInv ==
  ASSUME SrIInv, NEW r \in SrRuns, SrRefuse(r)
  PROVE  SrIInv'
<1> DEFINE at == [srAt EXCEPT ![r] = "ended"]
<1>1. srAt' = [q \in SrRuns |-> at[q]] /\ srAt[r] = "over"
  BY DEF SrRefuse, SrMove, SrIInv, SrTypeOK
<1>2. \A q \in SrRuns : \/ at[q] = srAt[q]
                        \/ srAt[q] \in SrBegins \ {"none"} /\ at[q] \in SrSteps \ {"timeout"}
  BY <1>1 DEF SrIInv, SrTypeOK, SrBegins, SrSteps
<1>3. srSweep' \in {"idle", "over"} /\ UNCHANGED <<srBox, srOver, srLeft, srRow, srCmd, srAge, srSuper>>
  BY DEF SrRefuse, SrIInv, SrTypeOK
<1>4. SrPause \/ UNCHANGED <<srPaused, srFrozen>>
  BY DEF SrRefuse
<1> QED
  BY <1>1, <1>2, <1>3, <1>4, SrPauseIInv

LEMMA SrResumeIInv ==
  ASSUME SrIInv, NEW r \in SrRuns, SrResume(r)
  PROVE  SrIInv'
<1>1. PICK place \in {"prepare", "ended"} : srAt' = [srAt EXCEPT ![r] = place]
  BY DEF SrResume, SrMove
<1> DEFINE at == [srAt EXCEPT ![r] = place]
<1>2. srAt' = [q \in SrRuns |-> at[q]] /\ srAt[r] = "resume"
  BY <1>1 DEF SrResume, SrIInv, SrTypeOK
<1>3. \A q \in SrRuns : \/ at[q] = srAt[q]
                        \/ srAt[q] \in SrBegins \ {"none"} /\ at[q] \in SrSteps \ {"timeout"}
  BY <1>2 DEF SrIInv, SrTypeOK, SrBegins, SrSteps
<1>4. srSweep' \in {"idle", "over"} /\ UNCHANGED <<srBox, srOver, srLeft, srRow, srCmd, srAge, srSuper>>
  BY DEF SrResume, SrIInv, SrTypeOK
<1>5. UNCHANGED <<srPaused, srFrozen>> \/ (srPaused' = FALSE /\ UNCHANGED srFrozen)
  BY DEF SrResume
<1> QED
  BY <1>2, <1>3, <1>4, <1>5, SrPauseIInv

\* The request on its way to its command.
LEMMA SrBeginIInv ==
  ASSUME SrIInv, NEW r \in SrRuns,
         SrRequest(r) \/ SrAdmitMeasures(r) \/ SrAdmitInspects(r) \/ SrPrepare(r)
  PROVE  SrIInv'
<1>1. PICK place \in {"size", "over", "under", "resume", "prepare", "exec", "ended"} :
        srAt' = [srAt EXCEPT ![r] = place]
  BY DEF SrRequest, SrAdmitMeasures, SrAdmitInspects, SrPrepare, SrMove
<1>2. PICK row \in {srRow[r], "pending"} : srRow' = [srRow EXCEPT ![r] = row]
  BY SrSame DEF SrRequest, SrAdmitMeasures, SrAdmitInspects, SrPrepare
<1>3. /\ srAt[r] \in SrBegins /\ srBox # "none"
      /\ UNCHANGED <<srBox, srPaused, srOver, srSweep, srLeft, srCmd, srAge, srFrozen, srSuper>>
  BY SrSame DEF SrRequest, SrAdmitMeasures, SrAdmitInspects, SrPrepare, SrBegins, SrUp,
     SrOfRun, SrRunOK
<1>4. SrRunOK(srBox, srPaused, place, r \in srLeft, row, srCmd[r], srAge[r], r \in srFrozen, r \in srSuper)
  BY <1>1, <1>2, <1>3, SrSame DEF SrOfRun, SrRunOK, SrSteps, SrRows
<1>to. SrBecomes(r, place, row, srCmd[r])
  BY <1>1, <1>2, <1>3, SrSame DEF SrBecomes
<1> QED
  BY <1>4, <1>to, SrOneRun

LEMMA SrClientLeavesIInv ==
  ASSUME SrIInv, NEW r \in SrRuns, SrClientLeaves(r)
  PROVE  SrIInv'
<1>1. srLeft' = srLeft \cup {r}
  BY DEF SrClientLeaves
<1>2. UNCHANGED <<srBox, srPaused, srOver, srSweep, srAt, srRow, srCmd, srAge, srFrozen, srSuper>>
  BY DEF SrClientLeaves
<1>3. SrTypeOK'
  BY <1>1, <1>2 DEF SrIInv, SrTypeOK
<1>4. SrRunInv' /\ SrTimeoutStops'
  BY <1>1, <1>2 DEF SrIInv, SrRunInv, SrTimeoutStops, SrBegins
<1> QED
  BY <1>3, <1>4 DEF SrIInv

\* A command starts, under the supervisor or not, or it does not.
LEMMA SrExecIInv ==
  ASSUME SrIInv, NEW r \in SrRuns, SrExec(r)
  PROVE  SrIInv'
<1>1. PICK place \in {"wait", "failed"}, cmd \in {"running", "none"} :
        /\ srAt' = [srAt EXCEPT ![r] = place] /\ srCmd' = [srCmd EXCEPT ![r] = cmd]
        /\ cmd = "running" => ~srPaused
  BY SrSame DEF SrExec, SrMove, SrOfRun, SrRunOK, SrBegins
<1>2. /\ srAt[r] = "exec"
      /\ UNCHANGED <<srBox, srPaused, srOver, srSweep, srLeft, srRow, srAge, srFrozen>>
  BY DEF SrExec
<1>3. srSuper' = srSuper \/ srSuper' = srSuper \cup {r}
  BY DEF SrExec
<1>4. SrShared(srBox', srPaused', srOver', srSweep', srLeft', srFrozen', srSuper')
  BY <1>2, <1>3, SrEveryRun DEF SrShared
<1>5. /\ srAt' = [q \in SrRuns |-> srAt'[q]] /\ srRow' = [q \in SrRuns |-> srRow'[q]]
      /\ srCmd' = [q \in SrRuns |-> srCmd'[q]] /\ srAge' = [q \in SrRuns |-> srAge'[q]]
  BY <1>1, <1>2 DEF SrIInv, SrTypeOK
<1>6. ASSUME NEW q \in SrRuns
      PROVE  SrRunOK(srBox', srPaused', srAt'[q], q \in srLeft', srRow'[q], srCmd'[q],
                     srAge'[q], q \in srFrozen', q \in srSuper')
  <2>1. CASE q = r
    <3>1. /\ srAge[r] = 0 /\ srCmd[r] = "none" /\ srRow[r] # "timeout" /\ srBox # "none"
          /\ srRow[r] \in SrRows /\ srAge[r] \in 0..(SrTimeout + SrGrace)
      BY <1>2, SrSame DEF SrOfRun, SrRunOK, SrBegins
    <3>2. place \in SrSteps /\ place \notin SrBegins /\ place # "timeout" /\ cmd \in SrCommands
      BY <1>1 DEF SrSteps, SrBegins, SrCommands
    <3>3. srAge[r] <= SrTimeout
      BY <3>1, SandboxRunsAssumption
    <3>4. srAt'[r] = place /\ srCmd'[r] = cmd
      BY <1>1 DEF SrIInv, SrTypeOK
    <3> QED
      BY <1>1, <1>2, <2>1, <3>1, <3>2, <3>3, <3>4 DEF SrRunOK
  <2>2. CASE q # r
    <3>1. SrOfRun(q)
      BY SrEveryRun
    <3>2. srAt'[q] = srAt[q] /\ srCmd'[q] = srCmd[q] /\ (q \in srSuper' <=> q \in srSuper)
      BY <1>1, <1>3, <2>2 DEF SrIInv, SrTypeOK
    <3> QED
      BY <1>2, <3>1, <3>2 DEF SrOfRun, SrRunOK
  <2> QED
    BY <2>1, <2>2
<1> QED
  BY <1>4, <1>5, <1>6, SrAllRuns

LEMMA SrGivesUpIInv ==
  ASSUME SrIInv, NEW r \in SrRuns, SrGivesUp(r)
  PROVE  SrIInv'
<1>1. /\ srAt[r] = "wait" /\ srAt' = [srAt EXCEPT ![r] = "timeout"]
      /\ UNCHANGED <<srBox, srPaused, srOver, srSweep, srLeft, srRow, srCmd, srAge, srFrozen, srSuper>>
  BY DEF SrGivesUp, SrMove
<1>2. r \in srSuper /\ r \notin srLeft => srAge[r] > SrTimeout
  BY SrSame, SandboxRunsAssumption DEF SrGivesUp, SrWaitFor, SrOfRun, SrRunOK
<1>3. srAge[r] \in Nat
  BY SrSame, SandboxRunsAssumption DEF SrOfRun, SrRunOK
<1>4. SrRunOK(srBox, srPaused, "timeout", r \in srLeft, srRow[r], srCmd[r], srAge[r], r \in srFrozen, r \in srSuper)
  BY <1>1, <1>2, <1>3, SrSame, SandboxRunsAssumption DEF SrOfRun, SrRunOK, SrSteps, SrBegins
<1>to. SrBecomes(r, "timeout", srRow[r], srCmd[r])
  BY <1>1, SrSame DEF SrBecomes
<1> QED
  BY <1>4, <1>to, SrOneRun

LEMMA SrInspectsIInv ==
  ASSUME SrIInv, NEW r \in SrRuns, SrInspects(r)
  PROVE  SrIInv'
<1>1. PICK place \in {"completed", "failed", "timeout"} :
        /\ srAt' = [srAt EXCEPT ![r] = place]
        /\ place = "timeout" => srCmd[r] = "exit 124"
  BY DEF SrInspects, SrMove, SrStatus
<1>2. /\ srAt[r] = "wait"
      /\ UNCHANGED <<srBox, srPaused, srOver, srSweep, srLeft, srRow, srCmd, srAge, srFrozen, srSuper>>
  BY DEF SrInspects
<1>3. SrRunOK(srBox, srPaused, place, r \in srLeft, srRow[r], srCmd[r], srAge[r], r \in srFrozen, r \in srSuper)
  BY <1>1, <1>2, SrSame DEF SrOfRun, SrRunOK, SrSteps, SrBegins
<1>to. SrBecomes(r, place, srRow[r], srCmd[r])
  BY <1>1, <1>2, SrSame DEF SrBecomes
<1> QED
  BY <1>3, <1>to, SrOneRun

LEMMA SrFinishIInv ==
  ASSUME SrIInv, NEW r \in SrRuns, SrFinish(r)
  PROVE  SrIInv'
<1>1. /\ srAt[r] \in {"completed", "failed", "timeout"} /\ srAt' = [srAt EXCEPT ![r] = "ended"]
      /\ UNCHANGED <<srBox, srPaused, srOver, srSweep, srLeft, srCmd, srAge, srFrozen, srSuper>>
  BY DEF SrFinish, SrMove
<1>2. PICK row \in {srAt[r], srRow[r]} :
        /\ srRow' = [srRow EXCEPT ![r] = row]
        /\ row = srRow[r] \/ r \notin srLeft
  BY SrSame DEF SrFinish
<1>3. SrRunOK(srBox, srPaused, "ended", r \in srLeft, row, srCmd[r], srAge[r], r \in srFrozen, r \in srSuper)
  BY <1>1, <1>2, SrSame DEF SrOfRun, SrRunOK, SrSteps, SrRows, SrBegins
<1>to. SrBecomes(r, "ended", row, srCmd[r])
  BY <1>1, <1>2, SrSame DEF SrBecomes
<1> QED
  BY <1>3, <1>to, SrOneRun

LEMMA SrCommandIInv ==
  ASSUME SrIInv, NEW r \in SrRuns, SrCommandEnds(r) \/ SrSupervisorKills(r)
  PROVE  SrIInv'
<1>1. PICK cmd \in {"exit 0", "exit 1", "exit 124"} : srCmd' = [srCmd EXCEPT ![r] = cmd]
  BY DEF SrCommandEnds, SrSupervisorKills
<1>2. /\ srCmd[r] = "running"
      /\ UNCHANGED <<srBox, srPaused, srOver, srSweep, srAt, srLeft, srRow, srAge, srFrozen, srSuper>>
  BY DEF SrCommandEnds, SrSupervisorKills, SrRunning
<1>3. SrRunOK(srBox, srPaused, srAt[r], r \in srLeft, srRow[r], cmd, srAge[r], r \in srFrozen, r \in srSuper)
  BY <1>1, <1>2, SrSame DEF SrOfRun, SrRunOK, SrCommands
<1>to. SrBecomes(r, srAt[r], srRow[r], cmd)
  BY <1>1, <1>2, SrSame DEF SrBecomes
<1> QED
  BY <1>3, <1>to, SrOneRun

LEMMA SrNextIInv ==
  SrIInv /\ [SrNext]_srVars => SrIInv'
<1> SUFFICES ASSUME SrIInv, [SrNext]_srVars PROVE SrIInv'
  OBVIOUS
<1>1. CASE UNCHANGED srVars
  BY <1>1 DEF srVars, SrIInv, SrTypeOK, SrRunInv, SrTimeoutStops
<1> QED
  BY <1>1, SrSandboxIInv, SrRemoveIInv, SrTickIInv, SrSweepPausesIInv, SrRefuseIInv, SrResumeIInv,
     SrBeginIInv, SrClientLeavesIInv, SrExecIInv, SrGivesUpIInv, SrInspectsIInv, SrFinishIInv,
     SrCommandIInv DEF SrNext

(***************************************************************************)
(* A supervised command whose row says timeout has been stopped, unless the*)
(* workspace cap froze it: the API waits longer than the supervisor        *)
(* (waitFor), a clock that goes on finds the command killed or frozen      *)
(* (SrRunInv), and a client that left has its row as it was.               *)
(***************************************************************************)
THEOREM TimeoutStopsCommand == SrSpec => [](SrTypeOK /\ SrTimeoutStops)
<1>1. SrIInv => SrTypeOK /\ SrTimeoutStops
  BY DEF SrIInv
<1> QED
  BY <1>1, SrInitIInv, SrNextIInv, PTL DEF SrSpec

-----------------------------------------------------------------------------
(* The CI runner *)

\* How far the goroutine of a webhook is, and what allPass then stands for: as
\* many commands exited with zero as it has been through.
CiRunInv ==
  \A r \in CiRuns :
    /\ ciAt[r] \in {"none", "pending", "session", "clone"} => ciDone[r] = 0 /\ ciPassed[r] = 0
    /\ ciAt[r] = "command" => ciDone[r] < CiCommands
    /\ ciAt[r] = "command" /\ ciPass[r] => ciPassed[r] = ciDone[r]
    /\ ciAt[r] \in {"delete", "status", "ended"} /\ ciPass[r] => ciPassed[r] = CiCommands

\* A green commit was made so by a goroutine that ended, with allPass.
CiStatusInv ==
  \A c \in 1..CiCommits :
    ciStatus[c][1] = "success" =>
      /\ ciStatus[c][2] \in CiRuns
      /\ ciAt[ciStatus[c][2]] = "ended" /\ ciPass[ciStatus[c][2]]

CiIInv == CiTypeOK /\ CiRunInv /\ CiStatusInv

LEMMA CiInitIInv == CiInit => CiIInv
<1> SUFFICES ASSUME CiInit PROVE CiIInv
  OBVIOUS
<1>1. CiTypeOK
  BY CiRunnerAssumption DEF CiInit, CiTypeOK, CiPlaces, CiStates
<1>2. CiRunInv /\ CiStatusInv
  BY DEF CiInit, CiRunInv, CiStatusInv
<1> QED
  BY <1>1, <1>2 DEF CiIInv

LEMMA CiFailsType ==
  ASSUME CiIInv, NEW r \in CiRuns, CiWorks(r) \/ CiBreaks(r) \/ UNCHANGED ciFails
  PROVE  ciFails' \in 0..CiMaxFails
  BY CiRunnerAssumption DEF CiIInv, CiTypeOK, CiWorks, CiBreaks

\* A goroutine goes from a place to a later one; its counts follow.
LEMMA CiGoesIInv ==
  ASSUME CiIInv, NEW r \in CiRuns, ciAt[r] # "ended", NEW place \in CiPlaces, CiGoes(r, place),
         NEW done \in 0..CiCommands, NEW passed \in 0..CiCommands, NEW pass \in BOOLEAN,
         ciDone' = [ciDone EXCEPT ![r] = done], ciPassed' = [ciPassed EXCEPT ![r] = passed],
         ciPass' = [ciPass EXCEPT ![r] = pass],
         place \in {"none", "pending", "session", "clone"} => done = 0 /\ passed = 0,
         place = "command" => done < CiCommands /\ (pass => passed = done),
         place \in {"delete", "status", "ended"} /\ pass => passed = CiCommands,
         ciStatus' = ciStatus
  PROVE  CiRunInv' /\ CiStatusInv' /\ ciAt' \in [CiRuns -> CiPlaces]
         /\ ciDone' \in [CiRuns -> 0..CiCommands] /\ ciPassed' \in [CiRuns -> 0..CiCommands]
         /\ ciPass' \in [CiRuns -> BOOLEAN]
<1>1. /\ ciAt' \in [CiRuns -> CiPlaces] /\ ciPass' \in [CiRuns -> BOOLEAN]
      /\ ciDone' \in [CiRuns -> 0..CiCommands] /\ ciPassed' \in [CiRuns -> 0..CiCommands]
  BY DEF CiGoes, CiIInv, CiTypeOK
<1>2. \A q \in CiRuns \ {r} :
        /\ ciAt'[q] = ciAt[q] /\ ciDone'[q] = ciDone[q] /\ ciPassed'[q] = ciPassed[q]
        /\ ciPass'[q] = ciPass[q]
  BY DEF CiGoes, CiIInv, CiTypeOK
<1>3. ciAt'[r] = place /\ ciDone'[r] = done /\ ciPassed'[r] = passed /\ ciPass'[r] = pass
  BY DEF CiGoes, CiIInv, CiTypeOK
<1>4. CiRunInv'
  <2>1. ASSUME NEW q \in CiRuns
        PROVE  /\ ciAt'[q] \in {"none", "pending", "session", "clone"} =>
                    ciDone'[q] = 0 /\ ciPassed'[q] = 0
               /\ ciAt'[q] = "command" => ciDone'[q] < CiCommands
               /\ ciAt'[q] = "command" /\ ciPass'[q] => ciPassed'[q] = ciDone'[q]
               /\ ciAt'[q] \in {"delete", "status", "ended"} /\ ciPass'[q] =>
                    ciPassed'[q] = CiCommands
    <3>1. CASE q = r
      BY <1>3, <3>1
    <3>2. CASE q # r
      BY <1>2, <3>2 DEF CiIInv, CiRunInv
    <3> QED
      BY <3>1, <3>2
  <2> QED
    BY <2>1 DEF CiRunInv
<1>5. CiStatusInv'
  BY <1>2 DEF CiIInv, CiStatusInv
<1> QED
  BY <1>1, <1>4, <1>5

\* A status that is posted by a goroutine under way, or by one that ends.
LEMMA CiReportInv ==
  ASSUME CiIInv, NEW r \in CiRuns, NEW state \in CiStates, CiReport(r, state),
         NEW place \in CiPlaces, ciAt[r] # "ended", CiGoes(r, place),
         state = "success" => place = "ended" /\ ciPass[r],
         UNCHANGED <<ciDone, ciPass, ciPassed>>
  PROVE  /\ CiStatusInv'
         /\ ciStatus' \in [1..CiCommits -> CiStates \X (CiRuns \cup {"nobody"})]
<1>1. ciStatus' \in [1..CiCommits -> CiStates \X (CiRuns \cup {"nobody"})]
  BY DEF CiReport, CiIInv, CiTypeOK
<1>2. ASSUME NEW c \in 1..CiCommits, ciStatus'[c][1] = "success"
      PROVE  /\ ciStatus'[c][2] \in CiRuns
             /\ ciAt'[ciStatus'[c][2]] = "ended" /\ ciPass'[ciStatus'[c][2]]
  <2>1. CASE c = ciSha[r]
    <3>1. ciStatus'[c] = <<state, r>>
      BY <2>1 DEF CiReport, CiIInv, CiTypeOK
    <3>2. state = "success" /\ ciStatus'[c][2] = r
      BY <1>2, <3>1
    <3> QED
      BY <3>2 DEF CiGoes, CiIInv, CiTypeOK
  <2>2. CASE c # ciSha[r]
    <3>1. ciStatus'[c] = ciStatus[c]
      BY <2>2 DEF CiReport, CiIInv, CiTypeOK
    <3>2. /\ ciStatus[c][2] \in CiRuns
          /\ ciAt[ciStatus[c][2]] = "ended" /\ ciPass[ciStatus[c][2]]
      BY <1>2, <3>1 DEF CiIInv, CiStatusInv
    <3> QED
      BY <3>1, <3>2 DEF CiGoes, CiIInv, CiTypeOK
  <2> QED
    BY <2>1, <2>2
<1> QED
  BY <1>1, <1>2 DEF CiStatusInv

LEMMA CiTurnIInv ==
  ASSUME CiIInv, NEW r \in CiRuns, ciAt[r] # "ended", NEW place \in CiPlaces, CiGoes(r, place),
         place \in {"none", "pending", "session", "clone"} => ciDone[r] = 0 /\ ciPassed[r] = 0,
         place = "command" => ciDone[r] < CiCommands /\ (ciPass[r] => ciPassed[r] = ciDone[r]),
         place \in {"delete", "status", "ended"} /\ ciPass[r] => ciPassed[r] = CiCommands,
         UNCHANGED <<ciDone, ciPass, ciPassed>>
  PROVE  CiRunInv' /\ ciAt' \in [CiRuns -> CiPlaces] /\ (UNCHANGED ciStatus => CiStatusInv')
<1>1. /\ ciAt' \in [CiRuns -> CiPlaces] /\ ciAt'[r] = place
      /\ \A q \in CiRuns \ {r} : ciAt'[q] = ciAt[q]
  BY DEF CiGoes, CiIInv, CiTypeOK
<1>2. CiRunInv'
  BY <1>1 DEF CiIInv, CiRunInv
<1>3. UNCHANGED ciStatus => CiStatusInv'
  BY <1>1 DEF CiIInv, CiStatusInv
<1> QED
  BY <1>1, <1>2, <1>3

\* Steps that no goroutine takes.
LEMMA CiOutsideIInv ==
  ASSUME CiIInv,
         CiPush \/ CiShutdown \/ CiExit \/ \E r \in CiRuns : CiHandlerReturns(r)
  PROVE  CiIInv'
<1>1. UNCHANGED <<ciSha, ciAt, ciDone, ciPass, ciCloned, ciPassed, ciSessions, ciStatus, ciFails>>
  BY DEF CiPush, CiShutdown, CiExit, CiHandlerReturns
<1>2. /\ ciHead' \in 1..CiCommits /\ ciLive' \subseteq CiRuns
      /\ ciServer' \in {"up", "closing", "exited"}
  BY CiRunnerAssumption DEF CiPush, CiShutdown, CiExit, CiHandlerReturns, CiIInv, CiTypeOK
<1>3. CiTypeOK'
  BY <1>1, <1>2 DEF CiIInv, CiTypeOK
<1> QED
  BY <1>1, <1>3 DEF CiIInv, CiRunInv, CiStatusInv

LEMMA CiWebhookIInv ==
  ASSUME CiIInv, NEW r \in CiRuns, CiWebhook(r)
  PROVE  CiIInv'
<1>1. /\ ciAt[r] = "none" /\ CiGoes(r, "pending") /\ ciDone[r] = 0 /\ ciPassed[r] = 0
      /\ UNCHANGED <<ciHead, ciDone, ciPass, ciCloned, ciPassed, ciSessions, ciStatus, ciServer, ciFails>>
      /\ "pending" \in CiPlaces
  BY DEF CiWebhook, CiIInv, CiRunInv, CiPlaces
<1>2. CiRunInv' /\ CiStatusInv' /\ ciAt' \in [CiRuns -> CiPlaces]
  BY <1>1, CiTurnIInv
<1>3. ciSha' \in [CiRuns -> 0..CiCommits] /\ ciLive' \subseteq CiRuns
  BY CiRunnerAssumption DEF CiWebhook, CiIInv, CiTypeOK
<1>4. CiTypeOK'
  BY <1>1, <1>2, <1>3 DEF CiIInv, CiTypeOK
<1> QED
  BY <1>2, <1>4 DEF CiIInv

LEMMA CiPendingIInv ==
  ASSUME CiIInv, NEW r \in CiRuns, CiPending(r)
  PROVE  CiIInv'
<1>1. /\ ciAt[r] = "pending" /\ CiGoes(r, "session") /\ ciDone[r] = 0 /\ ciPassed[r] = 0
      /\ UNCHANGED <<ciHead, ciSha, ciDone, ciPass, ciCloned, ciPassed, ciLive, ciSessions, ciServer>>
      /\ "session" \in CiPlaces /\ "pending" \in CiStates
  BY DEF CiPending, CiAtStep, CiIInv, CiRunInv, CiPlaces, CiStates
<1>2. CiRunInv' /\ ciAt' \in [CiRuns -> CiPlaces] /\ (UNCHANGED ciStatus => CiStatusInv')
  BY <1>1, CiTurnIInv
<1>3. /\ CiStatusInv'
      /\ ciStatus' \in [1..CiCommits -> CiStates \X (CiRuns \cup {"nobody"})]
  <2>1. CASE CiReport(r, "pending")
    BY <1>1, <2>1, CiReportInv
  <2>2. CASE UNCHANGED ciStatus
    BY <1>2, <2>2 DEF CiIInv, CiTypeOK
  <2> QED
    BY <2>1, <2>2 DEF CiPending
<1>4. ciFails' \in 0..CiMaxFails
  BY CiFailsType DEF CiPending
<1>5. CiTypeOK'
  BY <1>1, <1>2, <1>3, <1>4 DEF CiIInv, CiTypeOK
<1> QED
  BY <1>2, <1>3, <1>5 DEF CiIInv

\* The places between: allPass may be lost, the counts are as they were.
LEMMA CiBetweenIInv ==
  ASSUME CiIInv, NEW r \in CiRuns, NEW place \in CiPlaces, NEW pass \in BOOLEAN,
         \/ ciAt[r] = "session" /\ place \in {"clone", "status"} /\ (place = "status" => ~pass)
         \/ ciAt[r] = "clone" /\ place \in {"command", "delete"} /\ (place = "delete" => ~pass)
         \/ ciAt[r] = "delete" /\ place = "status" /\ pass = ciPass[r],
         CiGoes(r, place), ciPass' = [ciPass EXCEPT ![r] = pass],
         ciFails' \in 0..CiMaxFails, ciSessions' \subseteq CiRuns,
         ciCloned' \in [CiRuns -> 0..CiCommits],
         UNCHANGED <<ciHead, ciSha, ciDone, ciPassed, ciLive, ciStatus, ciServer>>
  PROVE  CiIInv'
<1>1. /\ ciDone[r] \in 0..CiCommands /\ ciPassed[r] \in 0..CiCommands /\ 0 < CiCommands
      /\ ciDone' = [ciDone EXCEPT ![r] = ciDone[r]]
      /\ ciPassed' = [ciPassed EXCEPT ![r] = ciPassed[r]]
  BY CiRunnerAssumption DEF CiIInv, CiTypeOK
<1>2. /\ place \in {"none", "pending", "session", "clone"} => ciDone[r] = 0 /\ ciPassed[r] = 0
      /\ place = "command" => ciDone[r] < CiCommands /\ (pass => ciPassed[r] = ciDone[r])
      /\ place \in {"delete", "status", "ended"} /\ pass => ciPassed[r] = CiCommands
      /\ ciAt[r] # "ended"
  BY <1>1 DEF CiIInv, CiRunInv
<1>3. /\ CiRunInv' /\ CiStatusInv' /\ ciAt' \in [CiRuns -> CiPlaces]
      /\ ciPass' \in [CiRuns -> BOOLEAN]
  BY <1>1, <1>2, CiGoesIInv
<1>4. CiTypeOK'
  BY <1>3 DEF CiIInv, CiTypeOK
<1> QED
  BY <1>3, <1>4 DEF CiIInv

LEMMA CiCreateSessionIInv ==
  ASSUME CiIInv, NEW r \in CiRuns, CiCreateSession(r)
  PROVE  CiIInv'
<1>1. ciFails' \in 0..CiMaxFails /\ ciPass[r] \in BOOLEAN /\ ciPass = [ciPass EXCEPT ![r] = ciPass[r]]
  BY CiFailsType DEF CiCreateSession, CiIInv, CiTypeOK
<1>2. ciCloned' \in [CiRuns -> 0..CiCommits] /\ ciSessions' \subseteq CiRuns
  BY DEF CiCreateSession, CiIInv, CiTypeOK
<1>3. \E place \in {"clone", "status"}, pass \in BOOLEAN :
        /\ CiGoes(r, place) /\ ciPass' = [ciPass EXCEPT ![r] = pass]
        /\ place = "status" => ~pass
  BY <1>1 DEF CiCreateSession
<1>4. {"clone", "status"} \subseteq CiPlaces
  BY DEF CiPlaces
<1> QED
  BY <1>1, <1>2, <1>3, <1>4, CiBetweenIInv DEF CiCreateSession, CiAtStep

LEMMA CiCloneIInv ==
  ASSUME CiIInv, NEW r \in CiRuns, CiClone(r)
  PROVE  CiIInv'
<1>1. ciFails' \in 0..CiMaxFails /\ ciPass[r] \in BOOLEAN /\ ciPass = [ciPass EXCEPT ![r] = ciPass[r]]
  BY CiFailsType DEF CiClone, CiIInv, CiTypeOK
<1>2. ciCloned' \in [CiRuns -> 0..CiCommits] /\ ciSessions' \subseteq CiRuns
  <2>1. ciHead \in 0..CiCommits /\ ciCloned \in [CiRuns -> 0..CiCommits]
    BY CiRunnerAssumption DEF CiIInv, CiTypeOK
  <2>2. ciCloned' = [ciCloned EXCEPT ![r] = ciHead] \/ ciCloned' = ciCloned
    BY DEF CiClone
  <2> QED
    BY <2>1, <2>2 DEF CiClone, CiIInv, CiTypeOK
<1>3. \E place \in {"command", "delete"}, pass \in BOOLEAN :
        /\ CiGoes(r, place) /\ ciPass' = [ciPass EXCEPT ![r] = pass]
        /\ place = "delete" => ~pass
  BY <1>1 DEF CiClone
<1>4. {"command", "delete"} \subseteq CiPlaces
  BY DEF CiPlaces
<1> QED
  BY <1>1, <1>2, <1>3, <1>4, CiBetweenIInv DEF CiClone, CiAtStep

LEMMA CiDeleteIInv ==
  ASSUME CiIInv, NEW r \in CiRuns, CiDelete(r)
  PROVE  CiIInv'
<1>1. ciFails' \in 0..CiMaxFails /\ ciPass[r] \in BOOLEAN /\ ciPass = [ciPass EXCEPT ![r] = ciPass[r]]
  BY CiFailsType DEF CiDelete, CiIInv, CiTypeOK
<1>2. /\ ciCloned' \in [CiRuns -> 0..CiCommits] /\ ciSessions' \subseteq CiRuns
      /\ "status" \in CiPlaces /\ ciPass' = [ciPass EXCEPT ![r] = ciPass[r]]
  BY <1>1 DEF CiDelete, CiIInv, CiTypeOK, CiPlaces
<1> QED
  BY <1>1, <1>2, CiBetweenIInv DEF CiDelete, CiAtStep

LEMMA CiCommandIInv ==
  ASSUME CiIInv, NEW r \in CiRuns, CiCommand(r)
  PROVE  CiIInv'
<1>1. /\ ciAt[r] = "command" /\ ciDone[r] < CiCommands /\ ciPass[r] \in BOOLEAN
      /\ ciDone[r] \in 0..CiCommands /\ ciPassed[r] \in 0..CiCommands
      /\ ciPass[r] => ciPassed[r] = ciDone[r]
      /\ ciPass = [ciPass EXCEPT ![r] = ciPass[r]]
      /\ ciPassed = [ciPassed EXCEPT ![r] = ciPassed[r]]
  BY DEF CiCommand, CiAtStep, CiIInv, CiTypeOK, CiRunInv
<1>2. PICK done \in 0..CiCommands :
        /\ done = ciDone[r] + 1 /\ ciDone' = [ciDone EXCEPT ![r] = done]
        /\ CiGoes(r, IF done = CiCommands THEN "delete" ELSE "command")
  <2>1. ciDone[r] + 1 \in 0..CiCommands
    BY <1>1, CiRunnerAssumption
  <2>2. /\ ciDone' = [ciDone EXCEPT ![r] = ciDone[r] + 1]
        /\ CiGoes(r, IF ciDone[r] + 1 = CiCommands THEN "delete" ELSE "command")
    BY DEF CiCommand
  <2> QED
    BY <2>1, <2>2
<1>3. PICK place \in CiPlaces :
        /\ CiGoes(r, place) /\ place = IF done = CiCommands THEN "delete" ELSE "command"
  BY <1>2 DEF CiPlaces
<1>4. PICK pass \in BOOLEAN, passed \in 0..CiCommands :
        /\ ciPass' = [ciPass EXCEPT ![r] = pass] /\ ciPassed' = [ciPassed EXCEPT ![r] = passed]
        /\ pass => passed = done
  <2>1. CASE UNCHANGED ciPassed /\ ciPass' = [ciPass EXCEPT ![r] = FALSE]
    BY <1>1, <2>1
  <2>2. CASE ~ciPass[r] /\ UNCHANGED <<ciPass, ciPassed>>
    BY <1>1, <2>2
  <2>3. CASE /\ ciPass[r] /\ UNCHANGED ciPass
             /\ ciPassed' = [ciPassed EXCEPT ![r] = ciPassed[r] + 1]
    BY <1>1, <1>2, <2>3, CiRunnerAssumption
  <2> QED
    BY <2>1, <2>2, <2>3 DEF CiCommand, CiFailsPass
<1>5. /\ place \notin {"none", "pending", "session", "clone", "status", "ended"}
      /\ place = "command" => done < CiCommands
      /\ place = "delete" => done = CiCommands
  BY <1>3, CiRunnerAssumption
<1>6. UNCHANGED <<ciHead, ciSha, ciCloned, ciLive, ciSessions, ciStatus, ciServer>>
  BY DEF CiCommand
<1>7. /\ CiRunInv' /\ CiStatusInv' /\ ciAt' \in [CiRuns -> CiPlaces]
      /\ ciPass' \in [CiRuns -> BOOLEAN]
      /\ ciDone' \in [CiRuns -> 0..CiCommands] /\ ciPassed' \in [CiRuns -> 0..CiCommands]
  BY <1>1, <1>2, <1>3, <1>4, <1>5, <1>6, CiGoesIInv
<1>8. ciFails' \in 0..CiMaxFails
  BY CiFailsType DEF CiCommand
<1>9. CiTypeOK'
  BY <1>6, <1>7, <1>8 DEF CiIInv, CiTypeOK
<1> QED
  BY <1>7, <1>9 DEF CiIInv

LEMMA CiPostResultsIInv ==
  ASSUME CiIInv, NEW r \in CiRuns, CiPostResults(r)
  PROVE  CiIInv'
<1>1. /\ ciAt[r] = "status" /\ CiGoes(r, "ended") /\ (ciPass[r] => ciPassed[r] = CiCommands)
      /\ UNCHANGED <<ciHead, ciSha, ciDone, ciPass, ciCloned, ciPassed, ciLive, ciSessions, ciServer>>
      /\ "ended" \in CiPlaces
  BY DEF CiPostResults, CiAtStep, CiIInv, CiRunInv, CiPlaces
<1>2. CiRunInv' /\ ciAt' \in [CiRuns -> CiPlaces] /\ (UNCHANGED ciStatus => CiStatusInv')
  BY <1>1, CiTurnIInv
<1>3. /\ CiStatusInv'
      /\ ciStatus' \in [1..CiCommits -> CiStates \X (CiRuns \cup {"nobody"})]
  <2>1. ASSUME NEW state \in CiStates, CiReport(r, state), state = "success" => ciPass[r]
        PROVE  /\ CiStatusInv'
               /\ ciStatus' \in [1..CiCommits -> CiStates \X (CiRuns \cup {"nobody"})]
    BY <1>1, <2>1, CiReportInv
  <2>2. CASE UNCHANGED ciStatus
    BY <1>2, <2>2 DEF CiIInv, CiTypeOK
  <2> QED
    BY <2>1, <2>2 DEF CiPostResults, CiStates
<1>4. ciFails' \in 0..CiMaxFails
  BY CiFailsType DEF CiPostResults
<1>5. CiTypeOK'
  BY <1>1, <1>2, <1>3, <1>4 DEF CiIInv, CiTypeOK
<1> QED
  BY <1>2, <1>3, <1>5 DEF CiIInv

LEMMA CiNextIInv ==
  CiIInv /\ [CiNext]_ciVars => CiIInv'
<1> SUFFICES ASSUME CiIInv, [CiNext]_ciVars PROVE CiIInv'
  OBVIOUS
<1>1. CASE UNCHANGED ciVars
  BY <1>1 DEF ciVars, CiIInv, CiTypeOK, CiRunInv, CiStatusInv
<1> QED
  BY <1>1, CiOutsideIInv, CiWebhookIInv, CiPendingIInv, CiCreateSessionIInv, CiCloneIInv,
     CiCommandIInv, CiDeleteIInv, CiPostResultsIInv DEF CiNext

(***************************************************************************)
(* A commit is green only when every test command of the run that says so  *)
(* was run and exited with zero (executeSteps, postResults), whatever      *)
(* failed or was cancelled before and whichever other runs report on the   *)
(* same commit: CiRunInv says what allPass stands for at each place.       *)
(***************************************************************************)
THEOREM GreenIsEarned == CiSpec => [](CiTypeOK /\ CiGreenEarned)
<1>1. CiIInv => CiTypeOK /\ CiGreenEarned
  BY DEF CiIInv, CiRunInv, CiStatusInv, CiGreenEarned
<1> QED
  BY <1>1, CiInitIInv, CiNextIInv, PTL DEF CiSpec

-----------------------------------------------------------------------------
(* The secrets in the output *)

\* What was read is where the output begins, all of it while it is read.
RdInOrder ==
  /\ \A k \in RdStreams :
       /\ IsPrefix(rdHeard[k], rdSaid[k])
       /\ rdDemux = "reads" => rdHeard[k] = rdSaid[k]
  /\ rdDemux = "short" => \E j \in RdStreams : rdCut[j]

\* The bytes and the counters of the two streams agree.
RdCounts ==
  \A k \in RdStreams :
    /\ rdCut[k] <=> Len(rdHeard[k]) > RdLimit
    /\ rdPassed[k] = Len(RdKept(k))

\* What left and what is held is what was kept; Execute holds all of it, until it
\* fails.
RdNothingLost ==
  /\ \A k \in RdStreams :
       /\ rdDemux # "failed" => RdUnmarked(rdOut[k]) \o rdHold[k] = RdKept(k)
       /\ rdDemux = "failed" => rdOut[k] = <<>>
       /\ ~rdLive /\ ~rdEnded => rdOut[k] = <<>>
       /\ rdEnded => rdHold[k] = <<>>
  /\ rdDemux = "failed" => rdEnded

\* Nothing but a needle is replaced.
RdMarked == \A k \in RdStreams : rdOut[k] \in Seq(RdBytes \union RdNeedles)

\* n may begin at place p of what is known of the output so far.
RdBegins(n, text, p) == \A x \in 1..Len(n) : p + x - 1 <= Len(text) => text[p + x - 1] = n[x]

\* No needle begins in what left, and after the end none that there is room for.
RdNoneBegins(needles, out, hold, final) ==
  \A p \in 1..Len(out), n \in needles :
    out[p] \in RdBytes /\ RdBegins(n, out \o hold, p) => final /\ Len(out) - p + 1 < Len(n)

RdSafe == \A k \in RdStreams : RdNoneBegins(RdNeedles, rdOut[k], rdHold[k], rdEnded)

RdApart(needles) == \A m, n \in needles : IsPrefix(m, n) => m = n

\* What left, and what is held, is what one pass gives, whatever follows.
RdSaves(needles, kept, out, hold) ==
  \A more \in Seq(RdBytes) :
    RdProcess(needles, kept \o more, TRUE).out = out \o RdProcess(needles, hold \o more, TRUE).out

RdOnePass ==
  RdApart(RdNeedles) /\ rdDemux # "failed" => \A k \in RdStreams :
    IF rdEnded THEN rdOut[k] = RdProcess(RdNeedles, RdKept(k), TRUE).out
    ELSE RdSaves(RdNeedles, RdKept(k), rdOut[k], rdHold[k])

RdIInv == RdTypeOK /\ RdInOrder /\ RdCounts /\ RdMarked /\ RdNothingLost /\ RdSafe /\ RdOnePass

\* A set of numbers that is not empty has a least one.
LEMMA RdLeast ==
  ASSUME NEW T, T \subseteq Nat, T # {}
  PROVE  \E x \in T : \A y \in T : x <= y
<1>1. PICK x \in T : \A y \in T : ~(<<y, x>> \in OpToRel(<, Nat))
  BY NatLessThanWellFounded, WFMin
<1>2. \A y \in T : ~(y < x)
  BY <1>1, Zenon DEF OpToRel
<1>3. ASSUME NEW y \in T PROVE x <= y
  <2>1. x \in Nat /\ y \in Nat
    OBVIOUS
  <2> QED
    BY <1>2, <2>1
<1> QED
  BY <1>3

\* Concatenation of bytes, and of what leaves.
LEMMA RdByteAssoc == \A a, b, c \in Seq(RdBytes) : (a \o b) \o c = a \o (b \o c)
  BY ConcatAssociative

LEMMA RdItemAssoc ==
  ASSUME NEW needles
  PROVE  \A a, b, c \in Seq(RdBytes \union needles) : (a \o b) \o c = a \o (b \o c)
  BY ConcatAssociative

\* A value is a sequence of bytes.
LEMMA RdStringFacts ==
  ASSUME NEW v \in RdStrings(RdMaxLen)
  PROVE  v \in Seq(RdBytes) /\ Len(v) \in 1..RdMaxLen /\ v # <<>> /\ v \notin RdBytes
<1>1. PICK k \in 1..RdMaxLen : v \in [1..k -> RdBytes]
  BY DEF RdStrings
<1>2. k \in Nat /\ RdMaxLen \in Nat
  BY RedactorAssumption
<1>3. v \in Seq(RdBytes)
  BY <1>1, <1>2, SeqDef
<1>5. DOMAIN v = 1..Len(v) /\ Len(v) \in Nat
  BY <1>3, LenProperties
<1>6. DOMAIN v = 1..k
  BY <1>1
<1>7. Len(v) = k
  <2>1. \A m, n \in Nat : 1..m = 1..n => m = n
    OBVIOUS
  <2>2. 1..Len(v) = 1..k
    BY <1>5, <1>6
  <2> QED
    BY <1>2, <1>5, <2>1, <2>2, Zenon
<1>4. v \notin RdBytes
  BY RedactorAssumption
<1> QED
  BY <1>2, <1>3, <1>4, <1>7, EmptySeq

\* What is left when k bytes are left.
LEMMA RdLeftFacts ==
  ASSUME NEW buf \in Seq(RdBytes), NEW k \in 0..Len(buf)
  PROVE  /\ RdLeft(buf, k) \in Seq(RdBytes) /\ Len(RdLeft(buf, k)) = k
         /\ \A i \in 1..k : RdLeft(buf, k)[i] = buf[Len(buf) - k + i]
<1> DEFINE m == Len(buf) - k + 1
           n == Len(buf)
<1>1. m \in Int /\ n \in Int /\ n - m + 1 = k /\ m >= 1
  OBVIOUS
<1>2. \A i \in m..n : buf[i] \in RdBytes
  BY <1>1, ElementOfSeq
<1> HIDE DEF m, n
<1>3. /\ SubSeq(buf, m, n) \in Seq(RdBytes)
      /\ Len(SubSeq(buf, m, n)) = IF m <= n THEN n - m + 1 ELSE 0
      /\ \A i \in 1..n - m + 1 : SubSeq(buf, m, n)[i] = buf[m + i - 1]
  BY <1>1, <1>2, SubSeqProperties
<1>4. RdLeft(buf, k) = SubSeq(buf, m, n)
  BY DEF RdLeft, m, n
<1>5. Len(RdLeft(buf, k)) = k
  BY <1>1, <1>3, <1>4
<1>6. \A i \in 1..k : RdLeft(buf, k)[i] = buf[Len(buf) - k + i]
  BY <1>1, <1>3, <1>4 DEF m, n
<1> QED
  BY <1>3, <1>4, <1>5, <1>6

LEMMA RdLeftWhole ==
  ASSUME NEW buf \in Seq(RdBytes)
  PROVE  RdLeft(buf, Len(buf)) = buf
<1>1. Len(buf) \in 0..Len(buf)
  OBVIOUS
<1>2. ASSUME NEW i \in 1..Len(buf) PROVE RdLeft(buf, Len(buf))[i] = buf[i]
  <2>1. RdLeft(buf, Len(buf))[i] = buf[Len(buf) - Len(buf) + i]
    BY <1>1, RdLeftFacts
  <2>2. Len(buf) - Len(buf) + i = i
    BY LenProperties
  <2> QED
    BY <2>1, <2>2
<1> QED
  BY <1>1, <1>2, RdLeftFacts, SeqEqual

LEMMA RdLeftOfLeft ==
  ASSUME NEW buf \in Seq(RdBytes), NEW j \in 0..Len(buf), NEW k \in 0..j
  PROVE  RdLeft(RdLeft(buf, j), k) = RdLeft(buf, k)
<1> DEFINE b == RdLeft(buf, j)
<1>1. /\ b \in Seq(RdBytes) /\ Len(b) = j
      /\ \A i \in 1..j : b[i] = buf[Len(buf) - j + i]
  BY RdLeftFacts
<1>0. Len(buf) \in Nat
  BY LenProperties
<1>2. k \in 0..Len(buf) /\ k \in 0..Len(b) /\ Len(buf) \in Nat
  BY <1>0, <1>1
<1> HIDE DEF b
<1>3. /\ RdLeft(b, k) \in Seq(RdBytes) /\ Len(RdLeft(b, k)) = k
      /\ \A i \in 1..k : RdLeft(b, k)[i] = b[Len(b) - k + i]
  BY <1>1, <1>2, RdLeftFacts
<1>4. /\ RdLeft(buf, k) \in Seq(RdBytes) /\ Len(RdLeft(buf, k)) = k
      /\ \A i \in 1..k : RdLeft(buf, k)[i] = buf[Len(buf) - k + i]
  BY <1>2, RdLeftFacts
<1>5. ASSUME NEW i \in 1..k PROVE RdLeft(b, k)[i] = RdLeft(buf, k)[i]
  <2>1. j - k + i \in 1..j /\ Len(buf) - j + (j - k + i) = Len(buf) - k + i
    BY <1>2
  <2> QED
    BY <1>1, <1>3, <1>4, <2>1
<1>6. RdLeft(b, k) = RdLeft(buf, k)
  BY <1>3, <1>4, <1>5, SeqEqual
<1> QED
  BY <1>6 DEF b

\* A prefix, place by place.
LEMMA RdPrefixFacts ==
  ASSUME NEW s \in Seq(RdBytes), NEW t \in Seq(RdBytes)
  PROVE  IsPrefix(s, t) <=> Len(s) <= Len(t) /\ \A x \in 1..Len(s) : s[x] = t[x]
<1> DEFINE u == SubSeq(s, 1, Len(s))
           v == SubSeq(t, 1, Len(s))
<1>0. CASE ~(Len(s) <= Len(t))
  BY <1>0 DEF IsPrefix
<1>1. CASE Len(s) <= Len(t)
  <2>1. u = s
    BY SubSeqFull
  <2>2. Len(s) \in Nat /\ Len(t) \in Nat /\ \A i \in 1..Len(s) : t[i] \in RdBytes
    BY <1>1, ElementOfSeq
  <2>3. v \in Seq(RdBytes) /\ Len(v) = Len(s) /\ \A i \in 1..Len(s) : v[i] = t[i]
    <3>1. /\ v \in Seq(RdBytes) /\ Len(v) = IF 1 <= Len(s) THEN Len(s) - 1 + 1 ELSE 0
          /\ \A i \in 1..Len(s) - 1 + 1 : v[i] = t[1 + i - 1]
      BY <2>2, SubSeqProperties
    <3> QED
      BY <2>2, <3>1
  <2> HIDE DEF u, v
  <2>4. s = v <=> \A x \in 1..Len(s) : s[x] = t[x]
    BY <2>3, SeqEqual
  <2> QED
    BY <1>1, <2>1, <2>4 DEF IsPrefix, u, v
<1> QED
  BY <1>0, <1>1

\* The needles a text starts with, and the longest of them.
LEMMA RdMatchFacts ==
  ASSUME NEW needles, needles \subseteq RdStrings(RdMaxLen), NEW t \in Seq(RdBytes),
         NEW n \in RdMatches(needles, t)
  PROVE  n \in needles /\ Len(n) <= Len(t) /\ \A x \in 1..Len(n) : n[x] = t[x]
<1>1. n \in needles /\ IsPrefix(n, t)
  BY DEF RdMatches
<1>2. n \in Seq(RdBytes)
  BY <1>1, RdStringFacts
<1> QED
  BY <1>1, <1>2, RdPrefixFacts

LEMMA RdLongestFacts ==
  ASSUME NEW needles, needles \subseteq RdStrings(RdMaxLen), needles # {}
  PROVE  RdLongest(needles) \in needles
<1> DEFINE T == {RdMaxLen - Len(m) : m \in needles}
<1>0. RdMaxLen \in Nat /\ \A m \in needles : Len(m) \in 1..RdMaxLen
  BY RedactorAssumption, RdStringFacts
<1>1. T \subseteq Nat /\ T # {}
  BY <1>0
<1>2. PICK x \in T : \A y \in T : x <= y
  <2> HIDE DEF T
  <2> QED
    BY <1>1, RdLeast
<1>3. PICK n \in needles : x = RdMaxLen - Len(n)
  BY <1>2
<1>4. ASSUME NEW m \in needles PROVE Len(m) <= Len(n)
  <2>1. x <= RdMaxLen - Len(m)
    BY <1>2
  <2> QED
    BY <1>0, <1>3, <2>1
<1> QED
  BY <1>3, <1>4 DEF RdLongest

-----------------------------------------------------------------------------
\* The scan.  What it gives for a tail is made of a shorter tail.

RdResult(needles) == [out : Seq(RdBytes \union needles), rest : Seq(RdBytes)]

\* The four things a step may do with a tail.
RdMarks(needles, done, tail, r) ==
  LET n == RdLongest(RdMatches(needles, tail))
  IN  /\ tail # <<>> /\ RdMatches(needles, tail) # {}
      /\ n \in RdMatches(needles, tail) /\ Len(n) \in 1..Len(tail)
      /\ r = [out |-> <<n>> \o done[Len(tail) - Len(n)].out, rest |-> done[Len(tail) - Len(n)].rest]
RdWaits(needles, tail, final, r) ==
  /\ tail # <<>> /\ RdMatches(needles, tail) = {} /\ ~final /\ RdCouldExtend(needles, tail)
  /\ r = [out |-> <<>>, rest |-> tail]
RdPasses(needles, done, tail, final, r) ==
  /\ tail # <<>> /\ RdMatches(needles, tail) = {} /\ ~(~final /\ RdCouldExtend(needles, tail))
  /\ r = [out |-> <<Head(tail)>> \o done[Len(tail) - 1].out, rest |-> done[Len(tail) - 1].rest]

LEMMA RdStepCases ==
  ASSUME NEW needles, needles \subseteq RdStrings(RdMaxLen), NEW done,
         NEW tail \in Seq(RdBytes), NEW final \in BOOLEAN
  PROVE  \/ tail = <<>> /\ RdStep(needles, done, tail, final) = [out |-> <<>>, rest |-> <<>>]
         \/ RdMarks(needles, done, tail, RdStep(needles, done, tail, final))
         \/ RdWaits(needles, tail, final, RdStep(needles, done, tail, final))
         \/ RdPasses(needles, done, tail, final, RdStep(needles, done, tail, final))
<1> DEFINE M == RdMatches(needles, tail)
           n == RdLongest(M)
<1>1. CASE tail = <<>>
  BY <1>1 DEF RdStep
<1>2. CASE tail # <<>> /\ M # {}
  <2>1. M \subseteq RdStrings(RdMaxLen)
    BY DEF RdMatches
  <2>2. n \in M
    BY <1>2, <2>1, RdLongestFacts
  <2>3. Len(n) <= Len(tail) /\ n \in needles
    BY <2>2, RdMatchFacts
  <2>4. Len(n) \in 1..Len(tail)
    BY <2>3, RdStringFacts, LenProperties
  <2>5. RdStep(needles, done, tail, final)
          = [out |-> <<n>> \o done[Len(tail) - Len(n)].out, rest |-> done[Len(tail) - Len(n)].rest]
    BY <1>2 DEF RdStep
  <2> QED
    BY <1>2, <2>2, <2>4, <2>5 DEF RdMarks
<1>3. CASE tail # <<>> /\ M = {} /\ ~final /\ RdCouldExtend(needles, tail)
  BY <1>3 DEF RdStep, RdWaits
<1>4. CASE tail # <<>> /\ M = {} /\ ~(~final /\ RdCouldExtend(needles, tail))
  BY <1>4 DEF RdStep, RdPasses
<1> QED
  BY <1>1, <1>2, <1>3, <1>4

\* A step depends on what shorter tails gave, and keeps their type.
LEMMA RdStepLocal ==
  ASSUME NEW needles, needles \subseteq RdStrings(RdMaxLen), NEW f, NEW g,
         NEW tail \in Seq(RdBytes), NEW final \in BOOLEAN,
         \A k \in 0..(Len(tail) - 1) : f[k] = g[k]
  PROVE  RdStep(needles, f, tail, final) = RdStep(needles, g, tail, final)
<1> DEFINE M == RdMatches(needles, tail)
           n == RdLongest(M)
<1>1. CASE tail # <<>> /\ M # {}
  <2>1. M \subseteq RdStrings(RdMaxLen)
    BY DEF RdMatches
  <2>2. n \in M
    BY <1>1, <2>1, RdLongestFacts
  <2>3. Len(n) <= Len(tail) /\ n \in needles
    BY <2>2, RdMatchFacts
  <2>4. Len(tail) - Len(n) \in 0..(Len(tail) - 1)
    BY <2>3, RdStringFacts, LenProperties
  <2>5. f[Len(tail) - Len(n)] = g[Len(tail) - Len(n)]
    BY <2>4
  <2> QED
    BY <1>1, <2>5 DEF RdStep
<1>2. CASE tail # <<>> /\ M = {}
  <2>1. Len(tail) \in Nat /\ Len(tail) # 0
    BY <1>2, EmptySeq
  <2>2. f[Len(tail) - 1] = g[Len(tail) - 1]
    BY <2>1
  <2> QED
    BY <1>2, <2>2 DEF RdStep
<1>3. CASE tail = <<>>
  BY <1>3 DEF RdStep
<1> QED
  BY <1>1, <1>2, <1>3

LEMMA RdAhead ==
  ASSUME NEW needles, NEW item \in RdBytes \union needles, NEW r \in RdResult(needles)
  PROVE  [out |-> <<item>> \o r.out, rest |-> r.rest] \in RdResult(needles)
<1>1. <<item>> \in Seq(RdBytes \union needles) /\ r.out \in Seq(RdBytes \union needles)
  BY DEF RdResult
<1>2. <<item>> \o r.out \in Seq(RdBytes \union needles)
  BY <1>1, ConcatProperties
<1> QED
  BY <1>2 DEF RdResult

LEMMA RdStepType ==
  ASSUME NEW needles, needles \subseteq RdStrings(RdMaxLen), NEW f,
         NEW tail \in Seq(RdBytes), NEW final \in BOOLEAN,
         \A k \in 0..(Len(tail) - 1) : f[k] \in RdResult(needles)
  PROVE  RdStep(needles, f, tail, final) \in RdResult(needles)
<1> DEFINE r == RdStep(needles, f, tail, final)
           n == RdLongest(RdMatches(needles, tail))
<1>1. CASE tail = <<>> /\ r = [out |-> <<>>, rest |-> <<>>]
  <2>1. <<>> \in Seq(RdBytes \union needles) /\ <<>> \in Seq(RdBytes)
    BY EmptySeq
  <2>2. [out |-> <<>>, rest |-> <<>>] \in RdResult(needles)
    BY <2>1 DEF RdResult
  <2> QED
    BY <1>1, <2>2
<1>2. CASE RdMarks(needles, f, tail, r)
  <2>1. n \in needles /\ Len(n) \in 1..Len(tail) /\ Len(tail) \in Nat
    BY <1>2, RdMatchFacts, LenProperties DEF RdMarks
  <2>2. f[Len(tail) - Len(n)] \in RdResult(needles)
    BY <2>1
  <2> QED
    BY <1>2, <2>1, <2>2, RdAhead DEF RdMarks
<1>3. CASE RdWaits(needles, tail, final, r)
  BY <1>3, EmptySeq DEF RdResult, RdWaits
<1>4. CASE RdPasses(needles, f, tail, final, r)
  <2>1. Len(tail) \in Nat /\ Len(tail) # 0 /\ Head(tail) \in RdBytes
    BY <1>4, EmptySeq, HeadTailProperties DEF RdPasses
  <2>2. f[Len(tail) - 1] \in RdResult(needles)
    BY <2>1
  <2> QED
    BY <1>4, <2>1, <2>2, RdAhead DEF RdPasses
<1> HIDE DEF r
<1>5. QED
  BY <1>1, <1>2, <1>3, <1>4, RdStepCases DEF r

\* f is the scan of the last m bytes of buf.
RdScans(needles, buf, final, f, m) ==
  \A k \in 0..m : f[k] = RdStep(needles, f, RdLeft(buf, k), final)

\* Two scans of tails that are the same give the same.
LEMMA RdSameScan ==
  ASSUME NEW needles, needles \subseteq RdStrings(RdMaxLen), NEW final \in BOOLEAN,
         NEW b \in Seq(RdBytes), NEW c \in Seq(RdBytes), NEW m \in 0..Len(b), m \in 0..Len(c),
         \A k \in 0..m : RdLeft(b, k) = RdLeft(c, k),
         NEW f, RdScans(needles, b, final, f, m), NEW g, RdScans(needles, c, final, g, m)
  PROVE  \A k \in 0..m : f[k] = g[k]
<1> DEFINE T == {k \in 0..m : f[k] # g[k]}
<1> SUFFICES ASSUME T # {} PROVE FALSE
  OBVIOUS
<1>0. Len(b) \in Nat /\ m \in Nat
  BY LenProperties
<1>1. PICK x \in T : \A y \in T : x <= y
  <2>1. T \subseteq Nat
    BY <1>0
  <2> HIDE DEF T
  <2> QED
    BY <2>1, RdLeast
<1>2. x \in 0..m /\ f[x] # g[x] /\ x \in 0..Len(b)
  BY <1>0
<1>3. \A k \in 0..(x - 1) : f[k] = g[k]
  <2> SUFFICES ASSUME NEW k \in 0..(x - 1), f[k] # g[k] PROVE FALSE
    OBVIOUS
  <2>1. k \in T
    BY <1>0, <1>2
  <2> QED
    BY <1>1, <1>2, <2>1
<1> DEFINE t == RdLeft(b, x)
<1>4. t \in Seq(RdBytes) /\ Len(t) = x
  BY <1>2, RdLeftFacts
<1>5. f[x] = RdStep(needles, f, t, final) /\ g[x] = RdStep(needles, g, t, final)
  BY <1>2 DEF RdScans
<1> HIDE DEF t
<1>6. RdStep(needles, f, t, final) = RdStep(needles, g, t, final)
  BY <1>3, <1>4, RdStepLocal
<1> QED
  BY <1>2, <1>5, <1>6

\* There is a scan of any buffer.
LEMMA RdScanExists ==
  ASSUME NEW needles, needles \subseteq RdStrings(RdMaxLen), NEW final \in BOOLEAN,
         NEW buf \in Seq(RdBytes)
  PROVE  \E f \in [0..Len(buf) -> RdResult(needles)] : RdScans(needles, buf, final, f, Len(buf))
<1> DEFINE There(m) == \E f \in [0..m -> RdResult(needles)] : RdScans(needles, buf, final, f, m)
           T == {m \in 0..Len(buf) : ~There(m)}
<1>0. Len(buf) \in Nat
  BY LenProperties
<1> SUFFICES ASSUME T # {} PROVE FALSE
  BY <1>0
<1>1. PICK x \in T : \A y \in T : x <= y
  <2>1. T \subseteq Nat
    BY <1>0
  <2> HIDE DEF T
  <2> QED
    BY <2>1, RdLeast
<1>2. x \in 0..Len(buf) /\ ~There(x)
  OBVIOUS
<1> DEFINE t == RdLeft(buf, x)
<1>4. t \in Seq(RdBytes) /\ Len(t) = x
  BY <1>2, RdLeftFacts
<1>5. PICK f : /\ \A k \in 0..(x - 1) : f[k] \in RdResult(needles)
               /\ \A k \in 0..(x - 1) : f[k] = RdStep(needles, f, RdLeft(buf, k), final)
  <2>1. CASE x = 0
    BY <2>1
  <2>2. CASE x # 0
    <3>1. x - 1 \in 0..Len(buf) /\ ~(x <= x - 1)
      BY <1>0, <1>2, <2>2
    <3>2. There(x - 1)
      BY <1>1, <3>1
    <3> QED
      BY <3>2 DEF RdScans
  <2> QED
    BY <2>1, <2>2
<1> DEFINE s == RdStep(needles, f, t, final)
           g == [k \in 0..x |-> IF k = x THEN s ELSE f[k]]
<1>6. s \in RdResult(needles)
  <2> HIDE DEF t
  <2> QED
    BY <1>4, <1>5, RdStepType
<1>7. g \in [0..x -> RdResult(needles)]
  <2> HIDE DEF s
  <2>1. \A k \in 0..x : k # x => k \in 0..(x - 1)
    BY <1>0, <1>2
  <2> QED
    BY <1>5, <1>6, <2>1
<1>8. ASSUME NEW k \in 0..x PROVE g[k] = RdStep(needles, g, RdLeft(buf, k), final)
  <2> DEFINE u == RdLeft(buf, k)
  <2>0. k \in 0..Len(buf) /\ k \in Nat /\ x \in Nat
    BY <1>0, <1>2
  <2>1. u \in Seq(RdBytes) /\ Len(u) = k
    BY <2>0, RdLeftFacts
  <2>2. \A j \in 0..(k - 1) : f[j] = g[j]
    <3> SUFFICES ASSUME NEW j \in 0..(k - 1) PROVE f[j] = g[j]
      OBVIOUS
    <3>1. j \in 0..x /\ j # x
      BY <2>0
    <3> QED
      BY <3>1
  <2>3. RdStep(needles, f, u, final) = RdStep(needles, g, u, final)
    <3> HIDE DEF u, g
    <3> QED
      BY <2>1, <2>2, RdStepLocal
  <2>4. g[k] = RdStep(needles, f, u, final)
    <3>1. CASE k = x
      BY <3>1
    <3>2. CASE k # x
      <4>1. k \in 0..(x - 1)
        BY <2>0, <3>2
      <4> QED
        BY <1>5, <3>2, <4>1
    <3> QED
      BY <3>1, <3>2
  <2> QED
    BY <2>3, <2>4
<1>9. RdScans(needles, buf, final, g, x)
  <2> HIDE DEF g
  <2> QED
    BY <1>8 DEF RdScans
<1> HIDE DEF g
<1> QED
  BY <1>2, <1>7, <1>9

\* RdScan is the scan.
LEMMA RdScanIs ==
  ASSUME NEW needles, needles \subseteq RdStrings(RdMaxLen), NEW final \in BOOLEAN,
         NEW buf \in Seq(RdBytes)
  PROVE  /\ RdScans(needles, buf, final, RdScan(needles, buf, final), Len(buf))
         /\ \A k \in 0..Len(buf) : RdScan(needles, buf, final)[k] \in RdResult(needles)
<1> DEFINE h == RdScan(needles, buf, final)
<1>1. h = CHOOSE f : f = [k \in 0..Len(buf) |-> RdStep(needles, f, RdLeft(buf, k), final)]
  BY DEF RdScan
<1>2. PICK f \in [0..Len(buf) -> RdResult(needles)] : RdScans(needles, buf, final, f, Len(buf))
  BY RdScanExists
<1>3. f = [k \in 0..Len(buf) |-> RdStep(needles, f, RdLeft(buf, k), final)]
  BY <1>2 DEF RdScans
<1>4. h = [k \in 0..Len(buf) |-> RdStep(needles, h, RdLeft(buf, k), final)]
  <2> HIDE DEF h
  <2> QED
    BY <1>1, <1>3
<1> HIDE DEF h
<1>5. RdScans(needles, buf, final, h, Len(buf))
  BY <1>4 DEF RdScans
<1>6. Len(buf) \in 0..Len(buf)
  BY LenProperties
<1>7. \A k \in 0..Len(buf) : f[k] = h[k]
  BY <1>2, <1>5, <1>6, RdSameScan
<1>8. \A k \in 0..Len(buf) : h[k] \in RdResult(needles)
  BY <1>2, <1>7
<1> QED
  BY <1>5, <1>8 DEF h

\* What the scan gives for the last k bytes is what processing them gives.
LEMMA RdScanOfLeft ==
  ASSUME NEW needles, needles \subseteq RdStrings(RdMaxLen), NEW final \in BOOLEAN,
         NEW buf \in Seq(RdBytes), NEW k \in 0..Len(buf)
  PROVE  RdScan(needles, buf, final)[k] = RdProcess(needles, RdLeft(buf, k), final)
<1> DEFINE b == RdLeft(buf, k)
           f == RdScan(needles, buf, final)
           g == RdScan(needles, b, final)
<1>1. b \in Seq(RdBytes) /\ Len(b) = k
  BY RdLeftFacts
<1>0. Len(buf) \in Nat /\ k \in 0..k /\ k \in 0..Len(b) /\ \A i \in 0..k : i \in 0..Len(buf)
  BY <1>1, LenProperties
<1>2. \A i \in 0..k : RdLeft(buf, i) = RdLeft(b, i)
  BY RdLeftOfLeft
<1>3. RdScans(needles, buf, final, f, k)
  BY <1>0, RdScanIs DEF RdScans
<1> HIDE DEF b
<1>4. RdScans(needles, b, final, g, k)
  BY <1>1, RdScanIs
<1> HIDE DEF f, g
<1>5. f[k] = g[k]
  BY <1>0, <1>1, <1>2, <1>3, <1>4, RdSameScan
<1> QED
  BY <1>1, <1>5 DEF RdProcess, f, g, b

\* A sequence of bytes is any part at its start, and what is left of it.
LEMMA RdSplitOff ==
  ASSUME NEW t \in Seq(RdBytes), NEW s \in Seq(RdBytes), Len(s) <= Len(t),
         \A x \in 1..Len(s) : s[x] = t[x]
  PROVE  t = s \o RdLeft(t, Len(t) - Len(s)) /\ RdLeft(t, Len(t) - Len(s)) \in Seq(RdBytes)
<1> DEFINE k == Len(t) - Len(s)
           u == RdLeft(t, k)
<1>1. k \in 0..Len(t) /\ Len(t) \in Nat /\ Len(s) \in Nat
  BY LenProperties
<1>2. /\ u \in Seq(RdBytes) /\ Len(u) = k
      /\ \A i \in 1..k : u[i] = t[Len(t) - k + i]
  BY <1>1, RdLeftFacts
<1> HIDE DEF u
<1>3. /\ s \o u \in Seq(RdBytes) /\ Len(s \o u) = Len(s) + Len(u)
      /\ \A i \in 1..Len(s) + Len(u) : (s \o u)[i] = IF i <= Len(s) THEN s[i] ELSE u[i - Len(s)]
  BY <1>2, ConcatProperties
<1>4. Len(s \o u) = Len(t)
  BY <1>1, <1>2, <1>3
<1>5. ASSUME NEW i \in 1..Len(t) PROVE (s \o u)[i] = t[i]
  <2>1. CASE i <= Len(s)
    <3>1. i \in 1..Len(s)
      BY <1>1, <2>1
    <3> QED
      BY <1>1, <1>2, <1>3, <2>1, <3>1
  <2>2. CASE ~(i <= Len(s))
    <3>1. i - Len(s) \in 1..k /\ Len(t) - k + (i - Len(s)) = i
      BY <1>1, <2>2
    <3>2. (s \o u)[i] = u[i - Len(s)]
      BY <1>1, <1>2, <1>3, <2>2
    <3> QED
      BY <1>2, <3>1, <3>2
  <2> QED
    BY <2>1, <2>2
<1>6. s \o u = t
  BY <1>3, <1>4, <1>5, SeqEqual
<1> QED
  BY <1>2, <1>6 DEF u

\* The two ways a needle or a byte leaves, as what is processed.
RdGives(needles, t, u, item, final) ==
  /\ RdProcess(needles, t, final).out = <<item>> \o RdProcess(needles, u, final).out
  /\ RdProcess(needles, t, final).rest = RdProcess(needles, u, final).rest

RdUnfolds(needles, t, final) ==
  \/ t = <<>> /\ RdProcess(needles, t, final) = [out |-> <<>>, rest |-> <<>>]
  \/ \E n \in RdMatches(needles, t), u \in Seq(RdBytes) :
       t = n \o u /\ Len(u) < Len(t) /\ RdGives(needles, t, u, n, final)
  \/ /\ RdMatches(needles, t) = {} /\ ~final /\ RdCouldExtend(needles, t)
     /\ RdProcess(needles, t, final) = [out |-> <<>>, rest |-> t]
  \/ /\ RdMatches(needles, t) = {} /\ t # <<>> /\ (final \/ ~RdCouldExtend(needles, t))
     /\ \E b \in RdBytes, u \in Seq(RdBytes) :
          t = <<b>> \o u /\ Len(u) < Len(t) /\ RdGives(needles, t, u, b, final)

LEMMA RdUnfold ==
  ASSUME NEW needles, needles \subseteq RdStrings(RdMaxLen), NEW final \in BOOLEAN,
         NEW t \in Seq(RdBytes)
  PROVE  RdUnfolds(needles, t, final) /\ RdProcess(needles, t, final) \in RdResult(needles)
<1> DEFINE f == RdScan(needles, t, final)
           r == RdStep(needles, f, t, final)
           n == RdLongest(RdMatches(needles, t))
<1>0. Len(t) \in Nat /\ Len(t) \in 0..Len(t)
  BY LenProperties
<1>1. RdLeft(t, Len(t)) = t
  BY RdLeftWhole
<1>2. RdProcess(needles, t, final) = r
  BY <1>0, <1>1, RdScanIs DEF RdProcess, RdScans
<1>3. RdProcess(needles, t, final) \in RdResult(needles)
  BY <1>0, RdScanIs DEF RdProcess
<1>4. \A k \in 0..Len(t) : f[k] = RdProcess(needles, RdLeft(t, k), final)
  BY RdScanOfLeft
<1> HIDE DEF f
<1>5. CASE t = <<>> /\ r = [out |-> <<>>, rest |-> <<>>]
  BY <1>2, <1>3, <1>5 DEF RdUnfolds
<1>6. CASE RdMarks(needles, f, t, r)
  <2> DEFINE k == Len(t) - Len(n)
             u == RdLeft(t, k)
  <2>1. n \in RdMatches(needles, t) /\ Len(n) \in 1..Len(t) /\ \A x \in 1..Len(n) : n[x] = t[x]
    BY <1>6, RdMatchFacts DEF RdMarks
  <2>2. n \in Seq(RdBytes)
    BY <2>1, RdStringFacts DEF RdMatches
  <2>3. t = n \o u /\ u \in Seq(RdBytes)
    <3> HIDE DEF n
    <3> QED
      BY <1>0, <2>1, <2>2, RdSplitOff
  <2>4. k \in 0..Len(t) /\ k < Len(t)
    BY <1>0, <2>1
  <2>5. Len(u) = k
    BY <2>4, RdLeftFacts
  <2>6. f[k] = RdProcess(needles, u, final)
    BY <1>4, <2>4
  <2>7. r = [out |-> <<n>> \o f[k].out, rest |-> f[k].rest]
    BY <1>6 DEF RdMarks
  <2> HIDE DEF r, k, u, n
  <2>8. RdGives(needles, t, u, n, final)
    BY <1>2, <2>6, <2>7 DEF RdGives
  <2> QED
    BY <1>3, <2>1, <2>3, <2>4, <2>5, <2>8 DEF RdUnfolds
<1>7. CASE RdWaits(needles, t, final, r)
  BY <1>2, <1>3, <1>7 DEF RdUnfolds, RdWaits
<1>8. CASE RdPasses(needles, f, t, final, r)
  <2> DEFINE k == Len(t) - 1
             u == RdLeft(t, k)
             b == Head(t)
  <2>1. /\ t # <<>> /\ RdMatches(needles, t) = {} /\ (final \/ ~RdCouldExtend(needles, t))
        /\ r = [out |-> <<b>> \o f[k].out, rest |-> f[k].rest]
    BY <1>8 DEF RdPasses
  <2>2. b \in RdBytes /\ b = t[1] /\ Len(t) # 0
    BY <2>1, HeadTailProperties, EmptySeq
  <2>3. <<b>> \in Seq(RdBytes) /\ Len(<<b>>) = 1 /\ \A x \in 1..1 : <<b>>[x] = t[x]
    BY <2>2
  <2>4. k \in 0..Len(t) /\ k < Len(t)
    BY <1>0, <2>2
  <2>5. t = <<b>> \o u /\ u \in Seq(RdBytes)
    <3> DEFINE w == <<b>>
    <3>1. w \in Seq(RdBytes) /\ Len(w) = 1 /\ Len(w) <= Len(t)
      BY <1>0, <2>2, <2>3
    <3>2. \A x \in 1..Len(w) : w[x] = t[x]
      BY <2>3
    <3> HIDE DEF w, b
    <3>3. t = w \o RdLeft(t, Len(t) - Len(w)) /\ RdLeft(t, Len(t) - Len(w)) \in Seq(RdBytes)
      BY <3>1, <3>2, RdSplitOff
    <3> QED
      BY <3>1, <3>3 DEF w
  <2>6. Len(u) = k
    BY <2>4, RdLeftFacts
  <2>7. f[k] = RdProcess(needles, u, final)
    BY <1>4, <2>4
  <2> HIDE DEF r, k, u, b
  <2>8. RdGives(needles, t, u, b, final)
    BY <1>2, <2>1, <2>7 DEF RdGives
  <2> QED
    BY <1>3, <2>1, <2>2, <2>4, <2>5, <2>6, <2>8 DEF RdUnfolds
<1> HIDE DEF r
<1>9. QED
  BY <1>3, <1>5, <1>6, <1>7, <1>8, RdStepCases DEF r

-----------------------------------------------------------------------------
\* The output with the values back in their places.

RdShown(item) == IF item \in RdBytes THEN <<item>> ELSE item

\* F is the way FlattenSeq goes through the first m members of seqs.
RdFlattens(seqs, F, m) ==
  \A i \in 1..m : F[i] = IF i = 1 THEN seqs[i] ELSE F[i - 1] \o seqs[i]

RdSameStart(s, t, m) == \A i \in 1..m : s[i] = t[i]

LEMMA RdFlattensSame ==
  ASSUME NEW m \in Nat, NEW s, NEW t, RdSameStart(s, t, m),
         NEW F, RdFlattens(s, F, m), NEW G, RdFlattens(t, G, m)
  PROVE  RdSameStart(F, G, m)
<1> DEFINE T == {i \in 1..m : F[i] # G[i]}
<1> SUFFICES ASSUME T # {} PROVE FALSE
  BY DEF RdSameStart
<1>1. PICK x \in T : \A y \in T : x <= y
  <2>1. T \subseteq Nat
    OBVIOUS
  <2> HIDE DEF T
  <2> QED
    BY <2>1, RdLeast
<1>2. x \in 1..m /\ F[x] # G[x] /\ s[x] = t[x]
  BY DEF RdSameStart
<1>3. /\ F[x] = IF x = 1 THEN s[x] ELSE F[x - 1] \o s[x]
      /\ G[x] = IF x = 1 THEN t[x] ELSE G[x - 1] \o t[x]
  BY <1>2 DEF RdFlattens
<1>4. x # 1 => F[x - 1] = G[x - 1]
  <2> SUFFICES ASSUME x # 1, F[x - 1] # G[x - 1] PROVE FALSE
    OBVIOUS
  <2>1. x - 1 \in 1..m /\ ~(x <= x - 1)
    BY <1>2
  <2>2. x - 1 \in T
    BY <2>1
  <2> QED
    BY <1>1, <2>1, <2>2
<1> QED
  BY <1>2, <1>3, <1>4

LEMMA RdFlattensExists ==
  ASSUME NEW m \in Nat, NEW s
  PROVE  \E F : F = [i \in 1..m |-> IF i = 1 THEN s[i] ELSE F[i - 1] \o s[i]]
<1> DEFINE There(k) == \E F : RdFlattens(s, F, k)
           T == {k \in 0..m : ~There(k)}
<1>1. ASSUME T # {} PROVE FALSE
  <2>1. PICK x \in T : \A y \in T : x <= y
    <3>1. T \subseteq Nat
      OBVIOUS
    <3> HIDE DEF T
    <3> QED
      BY <1>1, <3>1, RdLeast
  <2>2. x \in 0..m /\ ~There(x)
    OBVIOUS
  <2>3. x # 0
    <3>1. There(0)
      BY DEF RdFlattens
    <3> QED
      BY <2>2, <3>1
  <2>4. x - 1 \in 0..m /\ ~(x <= x - 1)
    BY <2>2, <2>3
  <2>5. PICK F : RdFlattens(s, F, x - 1)
    BY <2>1, <2>4
  <2> DEFINE v == IF x = 1 THEN s[x] ELSE F[x - 1] \o s[x]
             G == [i \in 1..x |-> IF i = x THEN v ELSE F[i]]
  <2>6. ASSUME NEW i \in 1..x PROVE G[i] = IF i = 1 THEN s[i] ELSE G[i - 1] \o s[i]
    <3>0. x \in Nat /\ i \in Nat
      BY <2>2
    <3>1. i # 1 => G[i - 1] = F[i - 1]
      <4> SUFFICES ASSUME i # 1 PROVE G[i - 1] = F[i - 1]
        OBVIOUS
      <4>1. i - 1 \in 1..x /\ i - 1 # x
        BY <3>0
      <4> QED
        BY <4>1
    <3>2. CASE i = x
      <4>1. G[i] = v
        BY <3>2
      <4> HIDE DEF G
      <4> QED
        BY <3>1, <3>2, <4>1
    <3>3. CASE i # x
      <4>1. G[i] = F[i] /\ i \in 1..x - 1
        BY <3>0, <3>3
      <4>2. F[i] = IF i = 1 THEN s[i] ELSE F[i - 1] \o s[i]
        BY <2>5, <4>1 DEF RdFlattens
      <4> HIDE DEF G
      <4> QED
        BY <3>1, <4>1, <4>2
    <3> QED
      BY <3>2, <3>3
  <2>7. RdFlattens(s, G, x)
    <3> HIDE DEF G
    <3> QED
      BY <2>6 DEF RdFlattens
  <2> HIDE DEF G
  <2> QED
    BY <2>2, <2>7
<1>2. PICK F : RdFlattens(s, F, m)
  BY <1>1
<1> DEFINE G == [i \in 1..m |-> F[i]]
<1>3. ASSUME NEW i \in 1..m
      PROVE  G[i] = IF i = 1 THEN s[i] ELSE G[i - 1] \o s[i]
  <2>1. i # 1 => i - 1 \in 1..m
    OBVIOUS
  <2> QED
    BY <1>2, <2>1 DEF RdFlattens
<1>4. G = [i \in 1..m |-> IF i = 1 THEN s[i] ELSE G[i - 1] \o s[i]]
  <2>1. G = [i \in 1..m |-> G[i]]
    OBVIOUS
  <2> HIDE DEF G
  <2> QED
    BY <1>3, <2>1
<1> HIDE DEF G
<1> QED
  BY <1>4

LEMMA RdFlattenIs ==
  ASSUME NEW s, Len(s) \in Nat, Len(s) # 0
  PROVE  \E F : RdFlattens(s, F, Len(s)) /\ FlattenSeq(s) = F[Len(s)]
<1> DEFINE F == CHOOSE F : F = [i \in 1..Len(s) |-> IF i = 1 THEN s[i] ELSE F[i - 1] \o s[i]]
<1>1. FlattenSeq(s) = F[Len(s)]
  BY DEF FlattenSeq
<1>2. F = [i \in 1..Len(s) |-> IF i = 1 THEN s[i] ELSE F[i - 1] \o s[i]]
  <2>1. \E G : G = [i \in 1..Len(s) |-> IF i = 1 THEN s[i] ELSE G[i - 1] \o s[i]]
    BY RdFlattensExists
  <2> QED
    BY <2>1, Zenon
<1> HIDE DEF F
<1>3. RdFlattens(s, F, Len(s))
  BY <1>2 DEF RdFlattens
<1> QED
  BY <1>1, <1>3

LEMMA RdShownType ==
  ASSUME NEW needles, needles \subseteq RdStrings(RdMaxLen), NEW x \in RdBytes \union needles
  PROVE  RdShown(x) \in Seq(RdBytes)
<1>1. CASE x \in RdBytes
  BY <1>1 DEF RdShown
<1>2. CASE x \notin RdBytes
  BY <1>2, RdStringFacts DEF RdShown
<1> QED
  BY <1>1, <1>2

RdShownAll(out) == [i \in DOMAIN out |-> IF out[i] \in RdBytes THEN <<out[i]>> ELSE out[i]]

LEMMA RdShownAllFacts ==
  ASSUME NEW needles, needles \subseteq RdStrings(RdMaxLen), NEW out \in Seq(RdBytes \union needles)
  PROVE  /\ Len(RdShownAll(out)) = Len(out) /\ RdShownAll(out) \in Seq(Seq(RdBytes))
         /\ \A i \in 1..Len(out) : RdShownAll(out)[i] = RdShown(out[i])
<1> DEFINE w == RdShownAll(out)
           L == Len(out)
<1>1. L \in Nat /\ DOMAIN out = 1..L
  BY LenProperties
<1>2. DOMAIN w = 1..L /\ \A i \in 1..L : w[i] = RdShown(out[i])
  BY <1>1 DEF RdShownAll, RdShown
<1>3. \A i \in 1..L : w[i] \in Seq(RdBytes)
  <2> SUFFICES ASSUME NEW i \in 1..L PROVE w[i] \in Seq(RdBytes)
    OBVIOUS
  <2>1. out[i] \in RdBytes \union needles
    BY ElementOfSeq
  <2> HIDE DEF w
  <2> QED
    BY <1>2, <2>1, RdShownType
<1>4. w \in [1..L -> Seq(RdBytes)]
  <2>1. w = [i \in DOMAIN w |-> w[i]]
    BY DEF RdShownAll
  <2> HIDE DEF w
  <2> QED
    BY <1>2, <1>3, <2>1
<1> HIDE DEF w, L
<1>5. w \in Seq(Seq(RdBytes))
  BY <1>1, <1>4, SeqDef
<1>6. DOMAIN w = 1..Len(w) /\ Len(w) \in Nat
  BY <1>5, LenProperties
<1>7. Len(w) = L
  <2>1. \A m, n \in Nat : 1..m = 1..n => m = n
    OBVIOUS
  <2>2. 1..Len(w) = 1..L
    BY <1>2, <1>6
  <2> QED
    BY <1>1, <1>6, <2>1, <2>2, Zenon
<1> QED
  BY <1>2, <1>5, <1>7 DEF w, L

LEMMA RdUnmarkedNothing == RdUnmarked(<<>>) = <<>>
<1> DEFINE w == RdShownAll(<<>>)
<1>1. <<>> \in Seq(RdBytes \union {}) /\ Len(<<>>) = 0 /\ {} \subseteq RdStrings(RdMaxLen)
  BY EmptySeq
<1>2. Len(w) = 0 /\ w \in Seq(Seq(RdBytes))
  BY <1>1, RdShownAllFacts
<1>3. RdUnmarked(<<>>) = FlattenSeq(w)
  BY DEF RdUnmarked, RdShownAll
<1> HIDE DEF w
<1>4. w = <<>>
  BY <1>2, EmptySeq
<1>5. FlattenSeq(w) = w
  BY <1>2 DEF FlattenSeq
<1> QED
  BY <1>3, <1>4, <1>5

LEMMA RdUnmarkedAppend ==
  ASSUME NEW needles, needles \subseteq RdStrings(RdMaxLen),
         NEW out \in Seq(RdBytes \union needles), NEW x \in RdBytes \union needles
  PROVE  RdUnmarked(Append(out, x)) = RdUnmarked(out) \o RdShown(x)
<1> DEFINE L == Len(out)
           a == RdShownAll(out)
           more == Append(out, x)
           b == RdShownAll(more)
<1>1. /\ L \in Nat /\ Len(more) = L + 1 /\ more \in Seq(RdBytes \union needles)
      /\ \A i \in 1..L : more[i] = out[i]
      /\ more[L + 1] = x
  BY LenProperties, AppendProperties
<1>2. RdUnmarked(more) = FlattenSeq(b) /\ RdUnmarked(out) = FlattenSeq(a)
  BY DEF RdUnmarked, RdShownAll
<1> HIDE DEF more
<1>3. Len(a) = L /\ \A i \in 1..L : a[i] = RdShown(out[i])
  BY RdShownAllFacts
<1>4. Len(b) = L + 1 /\ \A i \in 1..L + 1 : b[i] = RdShown(more[i])
  BY <1>1, RdShownAllFacts
<1> HIDE DEF a, b
<1>5. PICK F : RdFlattens(b, F, L + 1) /\ FlattenSeq(b) = F[L + 1]
  BY <1>1, <1>4, RdFlattenIs
<1>6. b[L + 1] = RdShown(x) /\ \A i \in 1..L : b[i] = a[i]
  BY <1>1, <1>3, <1>4
<1>7. CASE L = 0
  <2>1. out = <<>>
    BY <1>7, EmptySeq
  <2>2. F[1] = b[1]
    BY <1>5, <1>7 DEF RdFlattens
  <2>3. FlattenSeq(b) = RdShown(x)
    BY <1>5, <1>6, <1>7, <2>2
  <2>4. <<>> \o RdShown(x) = RdShown(x)
    BY RdShownType, ConcatEmptySeq
  <2> QED
    BY <1>2, <2>1, <2>3, <2>4, RdUnmarkedNothing DEF more
<1>8. CASE L # 0
  <2>1. PICK G : RdFlattens(a, G, L) /\ FlattenSeq(a) = G[L]
    BY <1>1, <1>3, <1>8, RdFlattenIs
  <2>2. RdFlattens(b, F, L)
    <3>1. L \in Nat /\ RdFlattens(b, F, L + 1)
      BY <1>1, <1>5
    <3> HIDE DEF L
    <3>2. \A i \in 1..L : i \in 1..L + 1
      BY <3>1
    <3> QED
      BY <3>1, <3>2 DEF RdFlattens
  <2>3. F[L] = G[L]
    <3>1. L \in 1..L
      BY <1>1, <1>8
    <3>2. RdSameStart(b, a, L)
      BY <1>6 DEF RdSameStart
    <3> HIDE DEF L
    <3>3. RdSameStart(F, G, L)
      BY <1>1, <2>1, <2>2, <3>2, RdFlattensSame
    <3> QED
      BY <3>1, <3>3 DEF RdSameStart
  <2>4. F[L + 1] = F[L] \o b[L + 1]
    <3>1. L + 1 \in 1..L + 1 /\ L + 1 # 1 /\ (L + 1) - 1 = L
      BY <1>1, <1>8
    <3> QED
      BY <1>5, <3>1 DEF RdFlattens
  <2> QED
    BY <1>2, <1>5, <1>6, <2>1, <2>3, <2>4 DEF more
<1> QED
  BY <1>7, <1>8

LEMMA RdUnmarkedType ==
  ASSUME NEW needles, needles \subseteq RdStrings(RdMaxLen), NEW out \in Seq(RdBytes \union needles)
  PROVE  RdUnmarked(out) \in Seq(RdBytes)
<1> DEFINE Items == RdBytes \union needles
           T == {Len(s) : s \in {s \in Seq(Items) : RdUnmarked(s) \notin Seq(RdBytes)}}
<1> SUFFICES ASSUME T # {} PROVE FALSE
  OBVIOUS
<1>1. PICK x \in T : \A y \in T : x <= y
  <2>1. T \subseteq Nat
    BY LenProperties
  <2> HIDE DEF T
  <2> QED
    BY <2>1, RdLeast
<1>2. PICK s \in Seq(Items) : RdUnmarked(s) \notin Seq(RdBytes) /\ x = Len(s)
  OBVIOUS
<1>3. s # <<>>
  BY <1>2, RdUnmarkedNothing, EmptySeq
<1>4. PICK u \in Seq(Items), e \in Items : s = Append(u, e)
  BY <1>3, SequenceEmptyOrAppend
<1>5. Len(s) = Len(u) + 1 /\ Len(u) \in Nat
  BY <1>4, AppendProperties, LenProperties
<1>6. RdUnmarked(u) \in Seq(RdBytes)
  <2> SUFFICES ASSUME RdUnmarked(u) \notin Seq(RdBytes) PROVE FALSE
    OBVIOUS
  <2>1. Len(u) \in T
    OBVIOUS
  <2> HIDE DEF T
  <2>2. x <= Len(u) /\ x = Len(u) + 1
    BY <1>1, <1>2, <1>5, <2>1
  <2> QED
    BY <1>5, <2>2
<1>7. RdShown(e) \in Seq(RdBytes)
  BY RdShownType
<1>8. RdUnmarked(s) = RdUnmarked(u) \o RdShown(e)
  BY <1>4, RdUnmarkedAppend
<1> QED
  BY <1>2, <1>6, <1>7, <1>8, ConcatProperties

LEMMA RdUnmarkedConcat ==
  ASSUME NEW needles, needles \subseteq RdStrings(RdMaxLen),
         NEW out \in Seq(RdBytes \union needles), NEW end \in Seq(RdBytes \union needles)
  PROVE  RdUnmarked(out \o end) = RdUnmarked(out) \o RdUnmarked(end)
<1> DEFINE Items == RdBytes \union needles
           Bad == {s \in Seq(Items) : RdUnmarked(out \o s) # RdUnmarked(out) \o RdUnmarked(s)}
           T == {Len(s) : s \in Bad}
<1> SUFFICES ASSUME T # {} PROVE FALSE
  OBVIOUS
<1>1. PICK x \in T : \A y \in T : x <= y
  <2>1. T \subseteq Nat
    BY LenProperties
  <2> HIDE DEF T
  <2> QED
    BY <2>1, RdLeast
<1>2. PICK s \in Seq(Items) : x = Len(s) /\ RdUnmarked(out \o s) # RdUnmarked(out) \o RdUnmarked(s)
  OBVIOUS
<1> HIDE DEF T
<1>0. RdUnmarked(out) \in Seq(RdBytes)
  BY RdUnmarkedType
<1>3. s # <<>>
  <2> SUFFICES ASSUME s = <<>> PROVE FALSE
    OBVIOUS
  <2>1. out \o s = out /\ RdUnmarked(out) \o <<>> = RdUnmarked(out)
    BY <1>0, ConcatEmptySeq
  <2> QED
    BY <1>2, <2>1, RdUnmarkedNothing
<1>4. PICK u \in Seq(Items), e \in Items : s = Append(u, e)
  BY <1>3, SequenceEmptyOrAppend
<1>5. Len(s) = Len(u) + 1 /\ Len(u) \in Nat
  BY <1>4, AppendProperties, LenProperties
<1>6. RdUnmarked(out \o u) = RdUnmarked(out) \o RdUnmarked(u)
  <2> SUFFICES ASSUME u \in Bad PROVE FALSE
    OBVIOUS
  <2>1. Len(u) \in T
    BY DEF T
  <2>2. x <= Len(u) /\ x = Len(u) + 1
    BY <1>1, <1>2, <1>5, <2>1
  <2> QED
    BY <1>5, <2>2
<1>7. RdShown(e) \in Seq(RdBytes) /\ RdUnmarked(u) \in Seq(RdBytes)
  BY RdShownType, RdUnmarkedType
<1>8. RdUnmarked(s) = RdUnmarked(u) \o RdShown(e)
  BY <1>4, RdUnmarkedAppend
<1>9. out \o s = Append(out \o u, e) /\ out \o u \in Seq(Items)
  <2> DEFINE w == <<e>>
  <2>1. s = u \o w /\ w \in Seq(Items)
    BY <1>4, AppendIsConcat
  <2>2. out \o u \in Seq(Items)
    BY ConcatProperties
  <2>3. Append(out \o u, e) = (out \o u) \o w
    BY <2>2, AppendIsConcat
  <2> HIDE DEF w
  <2>4. (out \o u) \o w = out \o (u \o w)
    BY <2>1, RdItemAssoc
  <2> QED
    BY <2>1, <2>2, <2>3, <2>4
<1>10. RdUnmarked(out \o s) = RdUnmarked(out \o u) \o RdShown(e)
  BY <1>9, RdUnmarkedAppend
<1>11. (RdUnmarked(out) \o RdUnmarked(u)) \o RdShown(e) = RdUnmarked(out) \o (RdUnmarked(u) \o RdShown(e))
  BY <1>0, <1>7, RdByteAssoc
<1> QED
  BY <1>2, <1>6, <1>8, <1>10, <1>11

LEMMA RdUnmarkedAhead ==
  ASSUME NEW needles, needles \subseteq RdStrings(RdMaxLen),
         NEW x \in RdBytes \union needles, NEW end \in Seq(RdBytes \union needles)
  PROVE  RdUnmarked(<<x>> \o end) = RdShown(x) \o RdUnmarked(end)
<1>1. <<>> \in Seq(RdBytes \union needles) /\ <<x>> \in Seq(RdBytes \union needles)
  BY EmptySeq
<1>2. <<x>> = Append(<<>>, x)
  OBVIOUS
<1>3. RdUnmarked(<<x>>) = RdUnmarked(<<>>) \o RdShown(x)
  BY <1>1, <1>2, RdUnmarkedAppend
<1>4. RdUnmarked(<<x>>) = RdShown(x)
  BY <1>3, RdShownType, RdUnmarkedNothing, ConcatEmptySeq
<1> QED
  BY <1>1, <1>4, RdUnmarkedConcat

-----------------------------------------------------------------------------
\* What processing does to a buffer, by induction over its length.

\* A buffer that comes before every other one for which something fails.
LEMMA RdShortest ==
  ASSUME NEW Bad, Bad \subseteq Seq(RdBytes), Bad # {}
  PROVE  \E t \in Bad : \A u \in Seq(RdBytes) : Len(u) < Len(t) => u \notin Bad
<1> DEFINE T == {Len(t) : t \in Bad}
<1>1. T \subseteq Nat /\ T # {}
  BY LenProperties
<1>2. PICK x \in T : \A y \in T : x <= y
  <2> HIDE DEF T
  <2> QED
    BY <1>1, RdLeast
<1>3. PICK t \in Bad : x = Len(t)
  OBVIOUS
<1>4. ASSUME NEW u \in Seq(RdBytes), Len(u) < Len(t), u \in Bad PROVE FALSE
  <2>1. Len(u) \in T
    BY <1>4
  <2> HIDE DEF T
  <2>2. x <= Len(u) /\ x \in Nat /\ Len(u) \in Nat
    BY <1>1, <1>2, <2>1
  <2> QED
    BY <1>3, <1>4, <2>2
<1> QED
  BY <1>4

\* The parts of what a result gives are sequences, and of what they are.
LEMMA RdResultTypes ==
  ASSUME NEW needles, NEW r \in RdResult(needles)
  PROVE  r.out \in Seq(RdBytes \union needles) /\ r.rest \in Seq(RdBytes)
  BY DEF RdResult

\* Nothing waits after the end.
LEMMA RdFinalRest ==
  ASSUME NEW needles, needles \subseteq RdStrings(RdMaxLen), NEW t \in Seq(RdBytes)
  PROVE  RdProcess(needles, t, TRUE).rest = <<>>
<1> DEFINE Bad == {s \in Seq(RdBytes) : RdProcess(needles, s, TRUE).rest # <<>>}
<1> SUFFICES ASSUME Bad # {} PROVE FALSE
  OBVIOUS
<1>1. PICK s \in Bad : \A u \in Seq(RdBytes) : Len(u) < Len(s) => u \notin Bad
  <2>1. Bad \subseteq Seq(RdBytes)
    OBVIOUS
  <2> HIDE DEF Bad
  <2> QED
    BY <2>1, RdShortest
<1>2. s \in Seq(RdBytes) /\ RdProcess(needles, s, TRUE).rest # <<>>
  OBVIOUS
<1>3. \A u \in Seq(RdBytes) : Len(u) < Len(s) => RdProcess(needles, u, TRUE).rest = <<>>
  BY <1>1
<1> HIDE DEF Bad
<1>4. RdUnfolds(needles, s, TRUE)
  BY <1>2, RdUnfold
<1>5. CASE RdProcess(needles, s, TRUE) = [out |-> <<>>, rest |-> <<>>]
  <2>1. [out |-> <<>>, rest |-> <<>>].rest = <<>>
    OBVIOUS
  <2>2. RdProcess(needles, s, TRUE).rest = <<>>
    BY <1>5, <2>1, Zenon
  <2> QED
    BY <1>2, <2>2
<1>6. CASE \E x, u \in Seq(RdBytes) : Len(u) < Len(s) /\ RdGives(needles, s, u, x, TRUE)
  BY <1>2, <1>3, <1>6 DEF RdGives
<1>7. CASE \E x \in RdBytes, u \in Seq(RdBytes) : Len(u) < Len(s) /\ RdGives(needles, s, u, x, TRUE)
  BY <1>2, <1>3, <1>7 DEF RdGives
<1>8. \A n \in RdMatches(needles, s) : n \in Seq(RdBytes)
  BY RdStringFacts DEF RdMatches
<1> QED
  BY <1>4, <1>5, <1>6, <1>7, <1>8 DEF RdUnfolds

\* Nothing is lost.
LEMMA RdKeepsAll ==
  ASSUME NEW needles, needles \subseteq RdStrings(RdMaxLen), NEW final \in BOOLEAN,
         NEW t \in Seq(RdBytes)
  PROVE  RdUnmarked(RdProcess(needles, t, final).out) \o RdProcess(needles, t, final).rest = t
<1> DEFINE P(s) == RdProcess(needles, s, final)
           Whole(s) == RdUnmarked(P(s).out) \o P(s).rest
           Bad == {s \in Seq(RdBytes) : Whole(s) # s}
<1> SUFFICES ASSUME Bad # {} PROVE FALSE
  OBVIOUS
<1>1. PICK s \in Bad : \A u \in Seq(RdBytes) : Len(u) < Len(s) => u \notin Bad
  <2>1. Bad \subseteq Seq(RdBytes)
    OBVIOUS
  <2> HIDE DEF Bad
  <2> QED
    BY <2>1, RdShortest
<1>2. s \in Seq(RdBytes) /\ Whole(s) # s
  OBVIOUS
<1>3. \A u \in Seq(RdBytes) : Len(u) < Len(s) => Whole(u) = u
  BY <1>1
<1> HIDE DEF Bad
<1>4. RdUnfolds(needles, s, final)
  BY <1>2, RdUnfold
<1>5. ASSUME NEW x \in RdBytes \union needles, NEW u \in Seq(RdBytes), Len(u) < Len(s),
             RdGives(needles, s, u, x, final)
      PROVE  Whole(s) = RdShown(x) \o u
  <2>1. P(u).out \in Seq(RdBytes \union needles) /\ P(u).rest \in Seq(RdBytes)
    BY RdUnfold, RdResultTypes
  <2>2. RdUnmarked(P(s).out) = RdShown(x) \o RdUnmarked(P(u).out)
    BY <1>5, <2>1, RdUnmarkedAhead DEF RdGives
  <2>3. RdShown(x) \in Seq(RdBytes) /\ RdUnmarked(P(u).out) \in Seq(RdBytes)
    BY <2>1, RdShownType, RdUnmarkedType
  <2>4. (RdShown(x) \o RdUnmarked(P(u).out)) \o P(u).rest = RdShown(x) \o Whole(u)
    BY <2>1, <2>3, RdByteAssoc
  <2>5. P(s).rest = P(u).rest
    BY <1>5 DEF RdGives
  <2>6. Whole(u) = u
    BY <1>3, <1>5
  <2> QED
    BY <2>2, <2>4, <2>5, <2>6
<1>6. CASE s = <<>> /\ P(s) = [out |-> <<>>, rest |-> <<>>]
  <2>0. P(s).out = <<>> /\ P(s).rest = <<>>
    BY <1>6
  <2>1. Whole(s) = RdUnmarked(<<>>) \o <<>>
    BY <2>0
  <2>2. <<>> \o <<>> = <<>>
    BY <1>2, <1>6, ConcatEmptySeq
  <2> QED
    BY <1>2, <1>6, <2>1, <2>2, RdUnmarkedNothing
<1>7. CASE \E n \in RdMatches(needles, s), u \in Seq(RdBytes) :
             s = n \o u /\ Len(u) < Len(s) /\ RdGives(needles, s, u, n, final)
  <2>1. PICK n \in RdMatches(needles, s), u \in Seq(RdBytes) :
               s = n \o u /\ Len(u) < Len(s) /\ RdGives(needles, s, u, n, final)
    BY <1>7
  <2>2. n \in needles /\ RdShown(n) = n
    BY <2>1, RdStringFacts DEF RdMatches, RdShown
  <2> HIDE DEF Whole
  <2> QED
    BY <1>2, <1>5, <2>1, <2>2
<1>8. CASE P(s) = [out |-> <<>>, rest |-> s]
  <2>1. Whole(s) = RdUnmarked(<<>>) \o s
    BY <1>8
  <2>2. <<>> \o s = s
    BY <1>2, ConcatEmptySeq
  <2> QED
    BY <1>2, <2>1, <2>2, RdUnmarkedNothing
<1>9. CASE \E b \in RdBytes, u \in Seq(RdBytes) :
             s = <<b>> \o u /\ Len(u) < Len(s) /\ RdGives(needles, s, u, b, final)
  <2>1. PICK b \in RdBytes, u \in Seq(RdBytes) :
               s = <<b>> \o u /\ Len(u) < Len(s) /\ RdGives(needles, s, u, b, final)
    BY <1>9
  <2>2. RdShown(b) = <<b>>
    BY DEF RdShown
  <2>3. Whole(s) = RdShown(b) \o u
    BY <1>5, <2>1
  <2> HIDE DEF Whole
  <2> QED
    BY <1>2, <2>1, <2>2, <2>3
<1> QED
  BY <1>4, <1>6, <1>7, <1>8, <1>9 DEF RdUnfolds

\* What left and what is held, up to the first mark, is what was processed.
RdFollows(s, t) ==
  /\ \A q \in 1..Len(s) : (\A x \in 1..q : s[x] \in RdBytes) => q <= Len(t) /\ s[q] = t[q]
  /\ (\A x \in 1..Len(s) : s[x] \in RdBytes) => Len(s) = Len(t)

LEMMA RdAheadFacts ==
  ASSUME NEW S, NEW x \in S, NEW s \in Seq(S)
  PROVE  /\ <<x>> \o s \in Seq(S) /\ Len(<<x>> \o s) = Len(s) + 1
         /\ (<<x>> \o s)[1] = x
         /\ \A i \in 1..Len(s) : (<<x>> \o s)[i + 1] = s[i]
<1> DEFINE w == <<x>>
<1>1. w \in Seq(S) /\ Len(w) = 1 /\ w[1] = x /\ Len(s) \in Nat
  BY LenProperties
<1> HIDE DEF w
<1>2. /\ w \o s \in Seq(S) /\ Len(w \o s) = Len(w) + Len(s)
      /\ \A i \in 1..Len(w) + Len(s) : (w \o s)[i] = IF i <= Len(w) THEN w[i] ELSE s[i - Len(w)]
  BY <1>1, ConcatProperties
<1>3. (w \o s)[1] = x
  BY <1>1, <1>2
<1>4. ASSUME NEW i \in 1..Len(s) PROVE (w \o s)[i + 1] = s[i]
  <2>1. i + 1 \in 1..Len(w) + Len(s) /\ ~(i + 1 <= Len(w)) /\ i + 1 - Len(w) = i
    BY <1>1
  <2> QED
    BY <1>2, <2>1
<1>5. Len(w \o s) = Len(s) + 1
  BY <1>1, <1>2
<1> QED
  BY <1>2, <1>3, <1>4, <1>5 DEF w

LEMMA RdFollowsByte ==
  ASSUME NEW needles, NEW x \in RdBytes, NEW s \in Seq(RdBytes \union needles),
         NEW u \in Seq(RdBytes), RdFollows(s, u)
  PROVE  RdFollows(<<x>> \o s, <<x>> \o u)
<1> DEFINE v == <<x>> \o s
           t == <<x>> \o u
<1>1. /\ Len(v) = Len(s) + 1 /\ v[1] = x /\ \A i \in 1..Len(s) : v[i + 1] = s[i]
      /\ Len(t) = Len(u) + 1 /\ t[1] = x /\ \A i \in 1..Len(u) : t[i + 1] = u[i]
  BY RdAheadFacts
<1>2. Len(s) \in Nat /\ Len(u) \in Nat
  BY LenProperties
<1> HIDE DEF v, t
<1>3. ASSUME NEW q \in 1..Len(v), \A y \in 1..q : v[y] \in RdBytes
      PROVE  q <= Len(t) /\ v[q] = t[q]
  <2>1. CASE q = 1
    BY <1>1, <1>2, <2>1
  <2>2. CASE q # 1
    <3>1. q - 1 \in 1..Len(s) /\ (q - 1) + 1 = q
      BY <1>1, <1>2, <2>2
    <3>2. ASSUME NEW y \in 1..q - 1 PROVE s[y] \in RdBytes
      <4>1. y \in 1..Len(s) /\ y + 1 \in 1..q
        BY <1>2, <3>1
      <4> QED
        BY <1>1, <1>3, <4>1
    <3>3. q - 1 <= Len(u) /\ s[q - 1] = u[q - 1]
      BY <3>1, <3>2 DEF RdFollows
    <3>4. q - 1 \in 1..Len(u)
      BY <1>2, <3>1, <3>3
    <3>5. v[q] = s[q - 1] /\ t[q] = u[q - 1]
      BY <1>1, <3>1, <3>4
    <3> QED
      BY <1>1, <1>2, <3>1, <3>3, <3>5
  <2> QED
    BY <2>1, <2>2
<1>4. ASSUME \A y \in 1..Len(v) : v[y] \in RdBytes PROVE Len(v) = Len(t)
  <2>1. ASSUME NEW y \in 1..Len(s) PROVE s[y] \in RdBytes
    <3>1. y + 1 \in 1..Len(v)
      BY <1>1, <1>2
    <3> QED
      BY <1>1, <1>4, <3>1
  <2>2. Len(s) = Len(u)
    BY <2>1 DEF RdFollows
  <2> QED
    BY <1>1, <2>2
<1>5. RdFollows(v, t)
  BY <1>3, <1>4 DEF RdFollows
<1> QED
  BY <1>5 DEF v, t

LEMMA RdFollowsMark ==
  ASSUME NEW needles, NEW n \in needles, n \notin RdBytes, NEW s \in Seq(RdBytes \union needles), NEW t
  PROVE  RdFollows(<<n>> \o s, t)
<1> DEFINE v == <<n>> \o s
<1>1. Len(v) = Len(s) + 1 /\ v[1] = n /\ Len(s) \in Nat
  BY RdAheadFacts, LenProperties
<1> HIDE DEF v
<1>2. v[1] \notin RdBytes /\ 1 \in 1..Len(v) /\ \A q \in 1..Len(v) : 1 \in 1..q
  BY <1>1
<1>3. RdFollows(v, t)
  BY <1>2 DEF RdFollows
<1> QED
  BY <1>3 DEF v

\* What is known of the output of a buffer.
RdText(needles, t, final) == RdProcess(needles, t, final).out \o RdProcess(needles, t, final).rest

LEMMA RdTextAhead ==
  ASSUME NEW needles, needles \subseteq RdStrings(RdMaxLen), NEW final \in BOOLEAN,
         NEW t \in Seq(RdBytes), NEW u \in Seq(RdBytes), NEW x \in RdBytes \union needles,
         RdGives(needles, t, u, x, final)
  PROVE  /\ RdText(needles, u, final) \in Seq(RdBytes \union needles)
         /\ RdText(needles, t, final) = <<x>> \o RdText(needles, u, final)
<1> DEFINE w == <<x>>
           o == RdProcess(needles, u, final).out
           h == RdProcess(needles, u, final).rest
<1>1. o \in Seq(RdBytes \union needles) /\ h \in Seq(RdBytes)
  BY RdUnfold, RdResultTypes
<1>2. h \in Seq(RdBytes \union needles)
  BY <1>1, SeqMonotonic
<1>3. w \in Seq(RdBytes \union needles)
  OBVIOUS
<1>4. RdText(needles, t, final) = (w \o o) \o h
  BY DEF RdGives, RdText
<1> HIDE DEF w, o, h
<1>5. (w \o o) \o h = w \o (o \o h)
  BY <1>1, <1>2, <1>3, RdItemAssoc
<1>6. o \o h \in Seq(RdBytes \union needles)
  BY <1>1, <1>2, ConcatProperties
<1> QED
  BY <1>4, <1>5, <1>6 DEF RdText, w, o, h

LEMMA RdTextFollows ==
  ASSUME NEW needles, needles \subseteq RdStrings(RdMaxLen), NEW final \in BOOLEAN,
         NEW t \in Seq(RdBytes)
  PROVE  RdFollows(RdText(needles, t, final), t)
<1> DEFINE P(s) == RdProcess(needles, s, final)
           Bad == {s \in Seq(RdBytes) : ~RdFollows(RdText(needles, s, final), s)}
<1> SUFFICES ASSUME Bad # {} PROVE FALSE
  OBVIOUS
<1>1. PICK s \in Bad : \A u \in Seq(RdBytes) : Len(u) < Len(s) => u \notin Bad
  <2>1. Bad \subseteq Seq(RdBytes)
    OBVIOUS
  <2> HIDE DEF Bad
  <2> QED
    BY <2>1, RdShortest
<1>2. s \in Seq(RdBytes) /\ ~RdFollows(RdText(needles, s, final), s)
  OBVIOUS
<1>3. \A u \in Seq(RdBytes) : Len(u) < Len(s) => RdFollows(RdText(needles, u, final), u)
  BY <1>1
<1> HIDE DEF Bad
<1>4. RdUnfolds(needles, s, final)
  BY <1>2, RdUnfold
<1>5. RdFollows(s, s)
  BY DEF RdFollows
<1>6. CASE s = <<>> /\ P(s) = [out |-> <<>>, rest |-> <<>>]
  <2>0. P(s).out = <<>> /\ P(s).rest = <<>>
    BY <1>6
  <2>1. <<>> \o <<>> = <<>>
    BY <1>2, <1>6, ConcatEmptySeq
  <2>2. RdText(needles, s, final) = s
    BY <1>6, <2>0, <2>1 DEF RdText
  <2> QED
    BY <1>2, <1>5, <2>2
<1>7. CASE \E n \in RdMatches(needles, s), u \in Seq(RdBytes) :
             s = n \o u /\ Len(u) < Len(s) /\ RdGives(needles, s, u, n, final)
  <2>1. PICK n \in RdMatches(needles, s), u \in Seq(RdBytes) :
               s = n \o u /\ Len(u) < Len(s) /\ RdGives(needles, s, u, n, final)
    BY <1>7
  <2>2. n \in needles /\ n \notin RdBytes
    BY <2>1, RdStringFacts DEF RdMatches
  <2> DEFINE w == <<n>> \o RdText(needles, u, final)
  <2>3. n \in RdBytes \union needles /\ RdGives(needles, s, u, n, final)
    BY <2>1, <2>2
  <2>4. RdText(needles, u, final) \in Seq(RdBytes \union needles) /\ RdText(needles, s, final) = w
    BY <1>2, <2>3, RdTextAhead, Zenon
  <2>5. RdFollows(w, s)
    BY <2>2, <2>4, RdFollowsMark
  <2> HIDE DEF w
  <2> QED
    BY <1>2, <2>4, <2>5
<1>8. CASE P(s) = [out |-> <<>>, rest |-> s]
  <2>0. P(s).out = <<>> /\ P(s).rest = s
    BY <1>8
  <2>1. RdText(needles, s, final) = s
    BY <1>2, <2>0, ConcatEmptySeq DEF RdText
  <2> QED
    BY <1>2, <1>5, <2>1
<1>9. CASE \E b \in RdBytes, u \in Seq(RdBytes) :
             s = <<b>> \o u /\ Len(u) < Len(s) /\ RdGives(needles, s, u, b, final)
  <2>1. PICK b \in RdBytes, u \in Seq(RdBytes) :
               s = <<b>> \o u /\ Len(u) < Len(s) /\ RdGives(needles, s, u, b, final)
    BY <1>9
  <2>2. RdFollows(RdText(needles, u, final), u)
    BY <1>3, <2>1
  <2>5. b \in RdBytes \union needles /\ RdGives(needles, s, u, b, final)
    BY <2>1
  <2>3. /\ RdText(needles, u, final) \in Seq(RdBytes \union needles)
        /\ RdText(needles, s, final) = <<b>> \o RdText(needles, u, final)
    BY <1>2, <2>5, RdTextAhead, Zenon
  <2>4. RdFollows(<<b>> \o RdText(needles, u, final), <<b>> \o u)
    BY <2>2, <2>3, RdFollowsByte
  <2> QED
    BY <1>2, <2>1, <2>3, <2>4
<1> QED
  BY <1>4, <1>6, <1>7, <1>8, <1>9 DEF RdUnfolds

\* What starts with bytes of a needle is the needle, or all of it is its start.
LEMMA RdBeginsFirst ==
  ASSUME NEW needles, needles \subseteq RdStrings(RdMaxLen), NEW t \in Seq(RdBytes),
         NEW s \in Seq(RdBytes \union needles), RdFollows(s, t),
         NEW n \in needles, RdBegins(n, s, 1)
  PROVE  n \in RdMatches(needles, t) \/ (Len(s) < Len(n) /\ RdCouldExtend(needles, t))
<1>0. Len(s) \in Nat /\ Len(t) \in Nat /\ n \in Seq(RdBytes) /\ Len(n) \in Nat
  BY LenProperties, RdStringFacts
<1>1. ASSUME NEW x \in 1..Len(n), x <= Len(s) PROVE s[x] = n[x] /\ s[x] \in RdBytes /\ x \in 1..Len(s)
  <2>1. 1 + x - 1 = x /\ x \in 1..Len(s)
    BY <1>0, <1>1
  <2>2. s[x] = n[x]
    BY <1>1, <2>1 DEF RdBegins
  <2>3. n[x] \in RdBytes
    BY <1>0, ElementOfSeq
  <2> QED
    BY <2>1, <2>2, <2>3
<1>2. ASSUME NEW x \in 1..Len(n), x <= Len(s) PROVE x <= Len(t) /\ t[x] = n[x]
  <2>1. x \in 1..Len(s)
    BY <1>1, <1>2
  <2>2. ASSUME NEW y \in 1..x PROVE s[y] \in RdBytes
    <3>1. y \in 1..Len(n) /\ y <= Len(s)
      BY <1>0, <1>2
    <3> QED
      BY <1>1, <3>1
  <2>3. x <= Len(t) /\ s[x] = t[x]
    BY <2>1, <2>2 DEF RdFollows
  <2> QED
    BY <1>1, <1>2, <2>3
<1>3. CASE Len(n) <= Len(s)
  <2>1. \A x \in 1..Len(n) : x <= Len(s)
    BY <1>0, <1>3
  <2>2. \A x \in 1..Len(n) : n[x] = t[x]
    BY <1>2, <2>1
  <2>3. Len(n) <= Len(t)
    <3>1. Len(n) \in 1..Len(n)
      BY <1>0, RdStringFacts
    <3> QED
      BY <1>2, <2>1, <3>1
  <2>4. IsPrefix(n, t)
    BY <1>0, <2>2, <2>3, RdPrefixFacts
  <2> QED
    BY <2>4 DEF RdMatches
<1>4. CASE ~(Len(n) <= Len(s))
  <2>1. \A x \in 1..Len(s) : x \in 1..Len(n) /\ x <= Len(s)
    BY <1>0, <1>4
  <2>2. Len(s) = Len(t)
    BY <1>1, <2>1 DEF RdFollows
  <2>3. \A x \in 1..Len(t) : t[x] = n[x]
    BY <1>2, <2>1, <2>2
  <2>4. Len(t) < Len(n) /\ Len(t) <= Len(n) /\ Len(s) < Len(n)
    BY <1>0, <1>4, <2>2
  <2>5. IsPrefix(t, n)
    BY <1>0, <2>3, <2>4, RdPrefixFacts
  <2> QED
    BY <2>4, <2>5 DEF RdCouldExtend
<1> QED
  BY <1>3, <1>4

\* One more item in front, from which no needle begins.
LEMMA RdNoneBeginsAhead ==
  ASSUME NEW needles, NEW final \in BOOLEAN, NEW x \in RdBytes \union needles,
         NEW o \in Seq(RdBytes \union needles), NEW h \in Seq(RdBytes),
         RdNoneBegins(needles, o, h, final), \A n \in needles : Len(n) \in Nat,
         x \in RdBytes => \A n \in needles :
           RdBegins(n, <<x>> \o (o \o h), 1) => final /\ Len(o) + 1 < Len(n)
  PROVE  RdNoneBegins(needles, <<x>> \o o, h, final)
<1> DEFINE v == <<x>> \o o
           w == <<x>> \o (o \o h)
           u == o \o h
<1>1. h \in Seq(RdBytes \union needles) /\ <<x>> \in Seq(RdBytes \union needles)
  BY SeqMonotonic
<1>2. u \in Seq(RdBytes \union needles) /\ Len(u) = Len(o) + Len(h) /\ Len(o) \in Nat /\ Len(h) \in Nat
  BY <1>1, ConcatProperties, LenProperties
<1>3. v \o h = w
  <2> DEFINE a == <<x>>
  <2>1. a \in Seq(RdBytes \union needles)
    BY <1>1
  <2> HIDE DEF a
  <2>2. (a \o o) \o h = a \o (o \o h)
    BY <1>1, <2>1, RdItemAssoc
  <2> QED
    BY <2>2 DEF a
<1>4. Len(v) = Len(o) + 1 /\ v[1] = x /\ \A i \in 1..Len(o) : v[i + 1] = o[i]
  BY RdAheadFacts
<1> HIDE DEF u
<1>5. Len(w) = Len(u) + 1 /\ w[1] = x /\ \A i \in 1..Len(u) : w[i + 1] = u[i]
  BY <1>2, RdAheadFacts DEF u
<1>6. \A n \in needles : x \in RdBytes /\ RdBegins(n, w, 1) => final /\ Len(o) + 1 < Len(n)
  OBVIOUS
<1> HIDE DEF v, w
<1>7. ASSUME NEW p \in 1..Len(v), NEW n \in needles, v[p] \in RdBytes, RdBegins(n, w, p)
      PROVE  final /\ Len(v) - p + 1 < Len(n)
  <2>1. CASE p = 1
    <3>1. final /\ Len(o) + 1 < Len(n)
      BY <1>4, <1>6, <1>7, <2>1
    <3>2. Len(v) - p + 1 = Len(o) + 1
      BY <1>2, <1>4, <2>1
    <3> QED
      BY <3>1, <3>2
  <2>2. CASE p # 1
    <3>1. p - 1 \in 1..Len(o) /\ (p - 1) + 1 = p
      BY <1>2, <1>4, <2>2
    <3>2. o[p - 1] \in RdBytes
      BY <1>4, <1>7, <3>1
    <3>3. ASSUME NEW y \in 1..Len(n), (p - 1) + y - 1 <= Len(u) PROVE u[(p - 1) + y - 1] = n[y]
      <4>0. y \in Int /\ p \in Int /\ Len(u) \in Nat
        BY <1>2, LenProperties
      <4>1. (p - 1) + y - 1 \in 1..Len(u) /\ ((p - 1) + y - 1) + 1 = p + y - 1 /\ p + y - 1 <= Len(w)
        BY <1>5, <3>1, <3>3, <4>0
      <4>2. w[p + y - 1] = n[y]
        BY <1>7, <4>1 DEF RdBegins
      <4> QED
        BY <1>5, <4>1, <4>2
    <3>4. RdBegins(n, u, p - 1)
      BY <3>3 DEF RdBegins
    <3>5. final /\ Len(o) - (p - 1) + 1 < Len(n)
      BY <3>1, <3>2, <3>4 DEF RdNoneBegins, u
    <3>6. Len(v) - p + 1 = Len(o) - (p - 1) + 1
      BY <1>2, <1>4
    <3> QED
      BY <3>5, <3>6
  <2> QED
    BY <2>1, <2>2
<1>8. RdNoneBegins(needles, v, h, final)
  BY <1>3, <1>7 DEF RdNoneBegins
<1> QED
  BY <1>8 DEF v

\* From what leaves no needle begins.
LEMMA RdProcessSafe ==
  ASSUME NEW needles, needles \subseteq RdStrings(RdMaxLen), NEW final \in BOOLEAN,
         NEW t \in Seq(RdBytes)
  PROVE  RdNoneBegins(needles, RdProcess(needles, t, final).out, RdProcess(needles, t, final).rest, final)
<1> DEFINE P(s) == RdProcess(needles, s, final)
           Safe(s) == RdNoneBegins(needles, P(s).out, P(s).rest, final)
           Bad == {s \in Seq(RdBytes) : ~Safe(s)}
<1> SUFFICES ASSUME Bad # {} PROVE FALSE
  OBVIOUS
<1>1. PICK s \in Bad : \A u \in Seq(RdBytes) : Len(u) < Len(s) => u \notin Bad
  <2>1. Bad \subseteq Seq(RdBytes)
    OBVIOUS
  <2> HIDE DEF Bad
  <2> QED
    BY <2>1, RdShortest
<1>2. s \in Seq(RdBytes) /\ ~Safe(s)
  OBVIOUS
<1>3. \A u \in Seq(RdBytes) : Len(u) < Len(s) => Safe(u)
  BY <1>1
<1> HIDE DEF Bad
<1>4. RdUnfolds(needles, s, final)
  BY <1>2, RdUnfold
<1>n. \A n \in needles : Len(n) \in Nat
  BY RdStringFacts, LenProperties
<1>5. CASE P(s).out = <<>>
  <2>1. Len(P(s).out) = 0 /\ 1..0 = {}
    BY <1>5
  <2>2. 1..Len(P(s).out) = {}
    BY <2>1
  <2> QED
    BY <1>2, <2>2 DEF RdNoneBegins
<1>6. ASSUME NEW x \in RdBytes \union needles, NEW u \in Seq(RdBytes), Len(u) < Len(s),
             RdGives(needles, s, u, x, final),
             x \in RdBytes => RdMatches(needles, s) = {} /\ (final \/ ~RdCouldExtend(needles, s))
      PROVE  Safe(s)
  <2> DEFINE o == P(u).out
             h == P(u).rest
             w == <<x>> \o (o \o h)
  <2>1. o \in Seq(RdBytes \union needles) /\ h \in Seq(RdBytes)
    BY RdUnfold, RdResultTypes
  <2>2. Safe(u)
    BY <1>3, <1>6
  <2>3. P(s).out = <<x>> \o o /\ P(s).rest = h
    BY <1>6 DEF RdGives
  <2>4. /\ RdText(needles, u, final) \in Seq(RdBytes \union needles)
        /\ RdText(needles, s, final) = <<x>> \o RdText(needles, u, final)
    <3>1. RdGives(needles, s, u, x, final)
      BY <1>6
    <3> QED
      BY <1>2, <3>1, RdTextAhead, Zenon
  <2>5. RdText(needles, s, final) = w /\ RdText(needles, u, final) = o \o h
    BY <2>4 DEF RdText
  <2>6. RdFollows(w, s)
    BY <1>2, <2>5, RdTextFollows
  <2>7. Len(w) = Len(o \o h) + 1 /\ w \in Seq(RdBytes \union needles)
    <3> DEFINE v == RdText(needles, u, final)
    <3>1. v \in Seq(RdBytes \union needles) /\ v = o \o h
      BY <2>4, <2>5
    <3> HIDE DEF v
    <3>2. Len(<<x>> \o v) = Len(v) + 1 /\ <<x>> \o v \in Seq(RdBytes \union needles)
      BY <3>1, RdAheadFacts
    <3> QED
      BY <3>1, <3>2
  <2>8. Len(o \o h) = Len(o) + Len(h) /\ Len(o) \in Nat /\ Len(h) \in Nat
    <3>1. h \in Seq(RdBytes \union needles)
      BY <2>1, SeqMonotonic
    <3> QED
      BY <2>1, <3>1, ConcatProperties, LenProperties
  <2>9. ASSUME x \in RdBytes, NEW n \in needles, RdBegins(n, w, 1)
        PROVE  final /\ Len(o) + 1 < Len(n)
    <3> HIDE DEF w, o, h
    <3>1. n \in RdMatches(needles, s) \/ (Len(w) < Len(n) /\ RdCouldExtend(needles, s))
      BY <1>2, <2>6, <2>7, <2>9, RdBeginsFirst
    <3>2. final /\ Len(w) < Len(n)
      BY <1>6, <2>9, <3>1
    <3> QED
      BY <1>n, <2>7, <2>8, <3>2
  <2>10. RdNoneBegins(needles, <<x>> \o o, h, final)
    <3>1. RdNoneBegins(needles, o, h, final)
      BY <2>2
    <3> HIDE DEF o, h
    <3> QED
      BY <1>n, <2>1, <2>9, <3>1, RdNoneBeginsAhead
  <2> QED
    BY <2>3, <2>10
<1>7. CASE P(s) = [out |-> <<>>, rest |-> <<>>]
  <2>1. P(s).out = <<>>
    BY <1>7
  <2> QED
    BY <1>5, <2>1
<1>8. CASE P(s) = [out |-> <<>>, rest |-> s]
  <2>1. P(s).out = <<>>
    BY <1>8
  <2> QED
    BY <1>5, <2>1
<1>9. CASE \E n \in RdMatches(needles, s), u \in Seq(RdBytes) :
             s = n \o u /\ Len(u) < Len(s) /\ RdGives(needles, s, u, n, final)
  <2>1. PICK n \in RdMatches(needles, s), u \in Seq(RdBytes) :
               s = n \o u /\ Len(u) < Len(s) /\ RdGives(needles, s, u, n, final)
    BY <1>9
  <2>2. n \in needles /\ n \notin RdBytes /\ n \in RdBytes \union needles
    BY <2>1, RdStringFacts DEF RdMatches
  <2> HIDE DEF Safe
  <2> QED
    BY <1>2, <1>6, <2>1, <2>2
<1>10. CASE /\ RdMatches(needles, s) = {} /\ s # <<>> /\ (final \/ ~RdCouldExtend(needles, s))
            /\ \E b \in RdBytes, u \in Seq(RdBytes) :
                 s = <<b>> \o u /\ Len(u) < Len(s) /\ RdGives(needles, s, u, b, final)
  <2>1. PICK b \in RdBytes, u \in Seq(RdBytes) :
               s = <<b>> \o u /\ Len(u) < Len(s) /\ RdGives(needles, s, u, b, final)
    BY <1>10
  <2> HIDE DEF Safe
  <2> QED
    BY <1>2, <1>6, <1>10, <2>1
<1> HIDE DEF Safe
<1> QED
  BY <1>4, <1>7, <1>8, <1>9, <1>10 DEF RdUnfolds

\* What leaves next, after what left before, leaves room for no needle.
LEMMA RdNoneBeginsJoin ==
  ASSUME NEW needles, needles \subseteq RdStrings(RdMaxLen), NEW final \in BOOLEAN,
         NEW o1 \in Seq(RdBytes \union needles), NEW h1 \in Seq(RdBytes), NEW bytes \in Seq(RdBytes),
         NEW o2 \in Seq(RdBytes \union needles), NEW h2 \in Seq(RdBytes),
         RdNoneBegins(needles, o1, h1, FALSE), RdNoneBegins(needles, o2, h2, final),
         RdFollows(o2 \o h2, h1 \o bytes)
  PROVE  RdNoneBegins(needles, o1 \o o2, h2, final)
<1> DEFINE Items == RdBytes \union needles
           w == o2 \o h2
           a == o1 \o w
           b == o1 \o h1
           o == o1 \o o2
           buf == h1 \o bytes
<1>1. h1 \in Seq(Items) /\ h2 \in Seq(Items) /\ w \in Seq(Items)
  BY SeqMonotonic, ConcatProperties
<1>2. a = o \o h2
  BY <1>1, RdItemAssoc
<1>3. Len(o1) \in Nat /\ Len(h1) \in Nat /\ Len(o2) \in Nat /\ Len(h2) \in Nat /\ Len(bytes) \in Nat
  BY LenProperties
<1>4. Len(w) = Len(o2) + Len(h2)
  BY <1>1, ConcatProperties
<1> HIDE DEF w
<1>5. /\ Len(a) = Len(o1) + Len(w)
      /\ \A i \in 1..Len(o1) + Len(w) : a[i] = IF i <= Len(o1) THEN o1[i] ELSE w[i - Len(o1)]
  BY <1>1, ConcatProperties
<1>6. /\ Len(b) = Len(o1) + Len(h1)
      /\ \A i \in 1..Len(o1) + Len(h1) : b[i] = IF i <= Len(o1) THEN o1[i] ELSE h1[i - Len(o1)]
  BY <1>1, ConcatProperties
<1>7. /\ Len(o) = Len(o1) + Len(o2)
      /\ \A i \in 1..Len(o1) + Len(o2) : o[i] = IF i <= Len(o1) THEN o1[i] ELSE o2[i - Len(o1)]
  BY <1>1, ConcatProperties
<1>8. Len(buf) = Len(h1) + Len(bytes) /\ \A i \in 1..Len(h1) : buf[i] = h1[i]
  <2>1. /\ Len(buf) = Len(h1) + Len(bytes)
        /\ \A i \in 1..Len(h1) + Len(bytes) : buf[i] = IF i <= Len(h1) THEN h1[i] ELSE bytes[i - Len(h1)]
    BY ConcatProperties
  <2>2. \A i \in 1..Len(h1) : i \in 1..Len(h1) + Len(bytes) /\ i <= Len(h1)
    BY <1>3
  <2> QED
    BY <2>1, <2>2
<1>9. RdFollows(w, buf)
  BY DEF w
<1> HIDE DEF a, b, o, buf, Items
<1>10. \A n \in needles : Len(n) \in Nat /\ \A x \in 1..Len(n) : n[x] \in RdBytes
  BY RdStringFacts, ElementOfSeq
<1>11. ASSUME NEW p \in 1..Len(o), NEW n \in needles, o[p] \in RdBytes, RdBegins(n, a, p), p <= Len(o1)
       PROVE  FALSE
  <2>0. p \in 1..Len(o1) /\ p \in Nat /\ Len(w) \in Nat
    BY <1>3, <1>4, <1>11
  <2>1. o1[p] \in RdBytes
    BY <1>3, <1>7, <1>11, <2>0
  <2>2. ASSUME NEW x \in 1..Len(n), p + x - 1 <= Len(b) PROVE b[p + x - 1] = n[x]
    <3>0. x \in Nat /\ p + x - 1 \in 1..Len(o1) + Len(h1)
      BY <1>3, <1>6, <1>10, <2>0, <2>2
    <3>1. CASE p + x - 1 <= Len(o1)
      <4>1. p + x - 1 \in 1..Len(o1) + Len(w) /\ p + x - 1 <= Len(a)
        BY <1>3, <1>5, <2>0, <3>0, <3>1
      <4>2. a[p + x - 1] = o1[p + x - 1] /\ b[p + x - 1] = o1[p + x - 1]
        BY <1>5, <1>6, <3>0, <3>1, <4>1
      <4>3. a[p + x - 1] = n[x]
        BY <1>11, <4>1 DEF RdBegins
      <4> QED
        BY <4>2, <4>3
    <3>2. CASE ~(p + x - 1 <= Len(o1))
      <4> DEFINE y == p + x - 1 - Len(o1)
      <4>1. y \in 1..Len(h1) /\ y \in Nat
        BY <1>3, <2>0, <3>0, <3>2
      <4>2. b[p + x - 1] = h1[y]
        <5>1. b[p + x - 1] = IF p + x - 1 <= Len(o1) THEN o1[p + x - 1] ELSE h1[p + x - 1 - Len(o1)]
          <6> DEFINE i == p + x - 1
          <6>1. i \in 1..Len(o1) + Len(h1)
            BY <3>0
          <6> HIDE DEF i
          <6>2. b[i] = IF i <= Len(o1) THEN o1[i] ELSE h1[i - Len(o1)]
            BY <1>6, <6>1
          <6> QED
            BY <6>2 DEF i
        <5> QED
          BY <3>2, <5>1
      <4>3. ASSUME NEW z \in 1..Len(w), z <= y
            PROVE  w[z] \in RdBytes /\ (z = y => w[z] = n[x])
        <5> DEFINE j == Len(o1) + z - p + 1
        <5>0. z \in Nat
          BY <2>0
        <5>1. j \in 1..x /\ j \in 1..Len(n) /\ p + j - 1 = Len(o1) + z /\ (z = y => j = x)
          BY <1>3, <1>10, <2>0, <3>0, <4>1, <4>3, <5>0
        <5>2. Len(o1) + z \in 1..Len(o1) + Len(w) /\ ~(Len(o1) + z <= Len(o1)) /\ Len(o1) + z - Len(o1) = z
          BY <1>3, <2>0, <5>0
        <5>3. a[Len(o1) + z] = w[z] /\ Len(o1) + z <= Len(a)
          BY <1>5, <5>0, <5>2, <2>0, <1>3
        <5> HIDE DEF j
        <5>4. a[p + j - 1] = n[j]
          BY <1>11, <5>1, <5>3 DEF RdBegins
        <5> QED
          BY <1>10, <5>1, <5>3, <5>4
      <4> HIDE DEF y
      <4>4. y <= Len(w)
        <5> SUFFICES ASSUME ~(y <= Len(w)) PROVE FALSE
          OBVIOUS
        <5>1. \A z \in 1..Len(w) : z <= y
          BY <2>0, <4>1
        <5>2. \A z \in 1..Len(w) : w[z] \in RdBytes
          BY <4>3, <5>1
        <5>3. Len(w) = Len(buf)
          BY <1>9, <5>2 DEF RdFollows
        <5> QED
          BY <1>3, <1>8, <4>1, <5>3
      <4>5. y \in 1..Len(w) /\ \A z \in 1..y : z \in 1..Len(w) /\ z <= y
        BY <2>0, <4>1, <4>4
      <4>6. w[y] = buf[y]
        BY <1>9, <4>3, <4>5 DEF RdFollows
      <4>7. w[y] = n[x]
        BY <2>0, <4>1, <4>3, <4>5
      <4> QED
        BY <1>8, <4>1, <4>2, <4>6, <4>7
    <3> QED
      BY <3>1, <3>2
  <2>3. RdBegins(n, b, p)
    BY <2>2 DEF RdBegins
  <2> QED
    BY <2>0, <2>1, <2>3 DEF RdNoneBegins, b
<1>12. ASSUME NEW p \in 1..Len(o), NEW n \in needles, o[p] \in RdBytes, RdBegins(n, a, p), ~(p <= Len(o1))
       PROVE  final /\ Len(o) - p + 1 < Len(n)
  <2> DEFINE r == p - Len(o1)
  <2>0. p \in Nat /\ r \in 1..Len(o2) /\ r \in Nat /\ Len(w) \in Nat /\ p = r + Len(o1)
    BY <1>3, <1>4, <1>7, <1>12
  <2>1. o2[r] \in RdBytes
    BY <1>3, <1>7, <1>12, <2>0
  <2> HIDE DEF r
  <2>2. ASSUME NEW x \in 1..Len(n), r + x - 1 <= Len(w) PROVE w[r + x - 1] = n[x]
    <3>0. x \in Nat /\ x >= 1
      BY <1>10
    <3>1. /\ p + x - 1 \in 1..Len(o1) + Len(w) /\ ~(p + x - 1 <= Len(o1)) /\ p + x - 1 <= Len(a)
          /\ p + x - 1 - Len(o1) = r + x - 1
      BY <1>3, <1>5, <2>0, <2>2, <3>0
    <3>2. a[p + x - 1] = w[r + x - 1]
      BY <1>5, <3>1
    <3>3. a[p + x - 1] = n[x]
      BY <1>12, <3>1 DEF RdBegins
    <3> QED
      BY <3>2, <3>3
  <2>3. RdBegins(n, w, r)
    BY <2>2 DEF RdBegins
  <2>4. final /\ Len(o2) - r + 1 < Len(n)
    BY <2>0, <2>1, <2>3 DEF RdNoneBegins, w
  <2>5. Len(o) - p + 1 = Len(o2) - r + 1
    BY <1>3, <1>7, <2>0
  <2> QED
    BY <2>4, <2>5
<1>13. \A p \in 1..Len(o), n \in needles :
         o[p] \in RdBytes /\ RdBegins(n, a, p) => final /\ Len(o) - p + 1 < Len(n)
  BY <1>11, <1>12
<1> QED
  BY <1>2, <1>13 DEF RdNoneBegins, o

-----------------------------------------------------------------------------
\* One pass, and two in turn.

\* With no needle the start of another, a needle that a buffer starts with is the
\* only one.
LEMMA RdOneMatch ==
  ASSUME NEW needles, needles \subseteq RdStrings(RdMaxLen), RdApart(needles),
         NEW t \in Seq(RdBytes), NEW m \in RdMatches(needles, t), NEW n \in RdMatches(needles, t)
  PROVE  m = n
<1>1. /\ m \in needles /\ Len(m) <= Len(t) /\ \A x \in 1..Len(m) : m[x] = t[x]
      /\ n \in needles /\ Len(n) <= Len(t) /\ \A x \in 1..Len(n) : n[x] = t[x]
  <2>1. m \in needles /\ Len(m) <= Len(t) /\ \A x \in 1..Len(m) : m[x] = t[x]
    <3>1. m \in needles /\ IsPrefix(m, t)
      BY DEF RdMatches
    <3>2. m \in Seq(RdBytes)
      BY <3>1, RdStringFacts
    <3> QED
      BY <3>1, <3>2, RdPrefixFacts
  <2>2. n \in needles /\ Len(n) <= Len(t) /\ \A x \in 1..Len(n) : n[x] = t[x]
    <3>1. n \in needles /\ IsPrefix(n, t)
      BY DEF RdMatches
    <3>2. n \in Seq(RdBytes)
      BY <3>1, RdStringFacts
    <3> QED
      BY <3>1, <3>2, RdPrefixFacts
  <2> QED
    BY <2>1, <2>2
<1>2. m \in Seq(RdBytes) /\ n \in Seq(RdBytes) /\ Len(m) \in Nat /\ Len(n) \in Nat
  BY <1>1, RdStringFacts, LenProperties
<1>3. CASE Len(m) <= Len(n)
  <2>1. \A x \in 1..Len(m) : m[x] = n[x]
    BY <1>1, <1>2, <1>3
  <2> QED
    BY <1>1, <1>2, <1>3, <2>1, RdPrefixFacts DEF RdApart
<1>4. CASE Len(n) <= Len(m)
  <2>1. \A x \in 1..Len(n) : n[x] = m[x]
    BY <1>1, <1>2, <1>4
  <2> QED
    BY <1>1, <1>2, <1>4, <2>1, RdPrefixFacts DEF RdApart
<1> QED
  BY <1>2, <1>3, <1>4

\* What a buffer starts with, so does a longer one; and what the longer one
\* starts with, the buffer starts with or could become.
LEMMA RdMatchesLonger ==
  ASSUME NEW needles, needles \subseteq RdStrings(RdMaxLen),
         NEW t \in Seq(RdBytes), NEW c \in Seq(RdBytes)
  PROVE  /\ RdMatches(needles, t) \subseteq RdMatches(needles, t \o c)
         /\ RdMatches(needles, t) = {} /\ ~RdCouldExtend(needles, t) => RdMatches(needles, t \o c) = {}
<1> DEFINE w == t \o c
<1>1. /\ w \in Seq(RdBytes) /\ Len(w) = Len(t) + Len(c)
      /\ \A i \in 1..Len(t) + Len(c) : w[i] = IF i <= Len(t) THEN t[i] ELSE c[i - Len(t)]
  BY ConcatProperties
<1>2. Len(t) \in Nat /\ Len(c) \in Nat
  BY LenProperties
<1> HIDE DEF w
<1>3. \A i \in 1..Len(t) : w[i] = t[i]
  <2>1. \A i \in 1..Len(t) : i \in 1..Len(t) + Len(c) /\ i <= Len(t)
    BY <1>2
  <2> QED
    BY <1>1, <2>1
<1>4. ASSUME NEW n \in RdMatches(needles, t) PROVE n \in RdMatches(needles, w)
  <2>0. n \in needles /\ IsPrefix(n, t)
    BY DEF RdMatches
  <2>1. n \in needles /\ Len(n) <= Len(t) /\ \A x \in 1..Len(n) : n[x] = t[x]
    BY <2>0, RdStringFacts, RdPrefixFacts
  <2>2. Len(n) \in Nat /\ n \in Seq(RdBytes)
    BY <2>1, RdStringFacts, LenProperties
  <2>3. Len(n) <= Len(w)
    BY <1>1, <1>2, <2>1, <2>2
  <2>4. \A x \in 1..Len(n) : n[x] = w[x]
    BY <1>2, <1>3, <2>1, <2>2
  <2>5. IsPrefix(n, w)
    BY <1>1, <2>2, <2>3, <2>4, RdPrefixFacts
  <2> QED
    BY <2>1, <2>5 DEF RdMatches
<1>5. ASSUME RdMatches(needles, t) = {}, ~RdCouldExtend(needles, t), NEW n \in RdMatches(needles, w)
      PROVE  FALSE
  <2>0. n \in needles /\ IsPrefix(n, w)
    BY DEF RdMatches
  <2>1. n \in needles /\ Len(n) <= Len(w) /\ \A x \in 1..Len(n) : n[x] = w[x]
    BY <1>1, <2>0, RdStringFacts, RdPrefixFacts
  <2>2. Len(n) \in Nat /\ n \in Seq(RdBytes)
    BY <2>1, RdStringFacts, LenProperties
  <2>3. CASE Len(n) <= Len(t)
    <3>1. \A x \in 1..Len(n) : n[x] = t[x]
      BY <1>2, <1>3, <2>1, <2>2, <2>3
    <3>2. IsPrefix(n, t)
      BY <2>2, <2>3, <3>1, RdPrefixFacts
    <3> QED
      BY <1>5, <2>1, <3>2 DEF RdMatches
  <2>4. CASE ~(Len(n) <= Len(t))
    <3>1. \A x \in 1..Len(t) : t[x] = n[x]
      BY <1>2, <1>3, <2>1, <2>2, <2>4
    <3>2. Len(t) < Len(n) /\ Len(t) <= Len(n)
      BY <1>2, <2>2, <2>4
    <3>3. IsPrefix(t, n)
      BY <2>2, <3>1, <3>2, RdPrefixFacts
    <3> QED
      BY <1>5, <2>1, <3>2, <3>3 DEF RdCouldExtend
  <2> QED
    BY <2>3, <2>4
<1> QED
  BY <1>4, <1>5 DEF w

\* The same start taken off leaves the same.
LEMMA RdCancel ==
  ASSUME NEW a \in Seq(RdBytes), NEW b \in Seq(RdBytes), NEW c \in Seq(RdBytes), a \o b = a \o c
  PROVE  b = c
  BY ConcatSimplifications

\* To process the start, and then what is held with the rest, gives what
\* processing all of it gives.
RdInTurn(needles, t, c) ==
  RdProcess(needles, t \o c, TRUE).out
    = RdProcess(needles, t, FALSE).out
        \o RdProcess(needles, RdProcess(needles, t, FALSE).rest \o c, TRUE).out

LEMMA RdInTurnAhead ==
  ASSUME NEW needles, needles \subseteq RdStrings(RdMaxLen), NEW c \in Seq(RdBytes),
         NEW t \in Seq(RdBytes), NEW u \in Seq(RdBytes), NEW x \in RdBytes \union needles,
         RdGives(needles, t, u, x, FALSE), RdGives(needles, t \o c, u \o c, x, TRUE),
         RdInTurn(needles, u, c)
  PROVE  RdInTurn(needles, t, c)
<1> DEFINE w == <<x>>
           o == RdProcess(needles, u, FALSE).out
           h == RdProcess(needles, u, FALSE).rest
           e == RdProcess(needles, h \o c, TRUE).out
<1>1. o \in Seq(RdBytes \union needles) /\ h \in Seq(RdBytes)
  BY RdUnfold, RdResultTypes
<1>2. h \o c \in Seq(RdBytes)
  BY <1>1, ConcatProperties
<1>3. e \in Seq(RdBytes \union needles)
  <2> HIDE DEF h
  <2> QED
    BY <1>2, RdUnfold, RdResultTypes
<1>4. w \in Seq(RdBytes \union needles)
  OBVIOUS
<1>5. RdProcess(needles, t \o c, TRUE).out = w \o RdProcess(needles, u \o c, TRUE).out
  BY DEF RdGives
<1>6. RdProcess(needles, u \o c, TRUE).out = o \o e
  BY DEF RdInTurn
<1>7. RdProcess(needles, t, FALSE).out = w \o o /\ RdProcess(needles, t, FALSE).rest = h
  BY DEF RdGives
<1> HIDE DEF w, o, h, e
<1>8. (w \o o) \o e = w \o (o \o e)
  BY <1>1, <1>3, <1>4, RdItemAssoc
<1> QED
  BY <1>5, <1>6, <1>7, <1>8 DEF RdInTurn, e

LEMMA RdTwoInTurn ==
  ASSUME NEW needles, needles \subseteq RdStrings(RdMaxLen), RdApart(needles),
         NEW t \in Seq(RdBytes), NEW c \in Seq(RdBytes)
  PROVE  RdInTurn(needles, t, c)
<1> DEFINE P(s) == RdProcess(needles, s, FALSE)
           Bad == {s \in Seq(RdBytes) : ~RdInTurn(needles, s, c)}
<1> SUFFICES ASSUME Bad # {} PROVE FALSE
  OBVIOUS
<1>1. PICK s \in Bad : \A u \in Seq(RdBytes) : Len(u) < Len(s) => u \notin Bad
  <2>1. Bad \subseteq Seq(RdBytes)
    OBVIOUS
  <2> HIDE DEF Bad
  <2> QED
    BY <2>1, RdShortest
<1>2. s \in Seq(RdBytes) /\ ~RdInTurn(needles, s, c)
  OBVIOUS
<1>3. \A u \in Seq(RdBytes) : Len(u) < Len(s) => RdInTurn(needles, u, c)
  BY <1>1
<1> HIDE DEF Bad
<1>4. RdUnfolds(needles, s, FALSE)
  BY <1>2, RdUnfold
<1>5. s \o c \in Seq(RdBytes)
  BY <1>2, ConcatProperties
<1>6. RdUnfolds(needles, s \o c, TRUE) /\ RdProcess(needles, s \o c, TRUE).out \in Seq(RdBytes \union needles)
  BY <1>5, RdUnfold, RdResultTypes
<1>7. CASE P(s).out = <<>> /\ P(s).rest = s
  <2>1. <<>> \o RdProcess(needles, s \o c, TRUE).out = RdProcess(needles, s \o c, TRUE).out
    BY <1>6, ConcatEmptySeq
  <2> QED
    BY <1>2, <1>7, <2>1 DEF RdInTurn
<1>8. CASE s = <<>> /\ P(s) = [out |-> <<>>, rest |-> <<>>]
  <2>1. [out |-> <<>>, rest |-> <<>>].out = <<>> /\ [out |-> <<>>, rest |-> <<>>].rest = <<>>
    OBVIOUS
  <2> QED
    BY <1>7, <1>8, <2>1, Zenon
<1>9. CASE P(s) = [out |-> <<>>, rest |-> s]
  <2>1. [out |-> <<>>, rest |-> s].out = <<>> /\ [out |-> <<>>, rest |-> s].rest = s
    OBVIOUS
  <2> QED
    BY <1>7, <1>9, <2>1, Zenon
<1>10. CASE \E n \in RdMatches(needles, s), u \in Seq(RdBytes) :
              s = n \o u /\ Len(u) < Len(s) /\ RdGives(needles, s, u, n, FALSE)
  <2>1. PICK n \in RdMatches(needles, s), u \in Seq(RdBytes) :
               s = n \o u /\ Len(u) < Len(s) /\ RdGives(needles, s, u, n, FALSE)
    BY <1>10
  <2>2. n \in needles /\ n \in Seq(RdBytes) /\ n \in RdMatches(needles, s \o c)
    BY <1>2, <2>1, RdStringFacts, RdMatchesLonger DEF RdMatches
  <2>3. \E m \in RdMatches(needles, s \o c), v \in Seq(RdBytes) :
          s \o c = m \o v /\ Len(v) < Len(s \o c) /\ RdGives(needles, s \o c, v, m, TRUE)
    <3>1. RdMatches(needles, s \o c) # {} /\ s \o c # <<>>
      <4>1. Len(n) >= 1 /\ Len(n) <= Len(s \o c) /\ Len(n) \in Nat
        BY <1>5, <2>2, RdStringFacts, RdMatchFacts
      <4>2. Len(<<>>) = 0
        OBVIOUS
      <4> QED
        BY <2>2, <4>1, <4>2
    <3> QED
      BY <1>6, <3>1 DEF RdUnfolds
  <2>4. PICK m \in RdMatches(needles, s \o c), v \in Seq(RdBytes) :
          s \o c = m \o v /\ Len(v) < Len(s \o c) /\ RdGives(needles, s \o c, v, m, TRUE)
    BY <2>3
  <2>5. m = n
    BY <1>5, <2>2, <2>4, RdOneMatch
  <2>6. s \o c = n \o (u \o c) /\ u \o c \in Seq(RdBytes)
    BY <2>1, <2>2, RdByteAssoc, ConcatProperties
  <2>7. n \o v = n \o (u \o c)
    BY <2>4, <2>5, <2>6
  <2>8. v = u \o c
    BY <2>2, <2>4, <2>6, <2>7, RdCancel
  <2>9. RdGives(needles, s \o c, u \o c, n, TRUE)
    BY <2>4, <2>5, <2>8
  <2>10. RdInTurn(needles, u, c)
    BY <1>3, <2>1
  <2> QED
    BY <1>2, <2>1, <2>2, <2>9, <2>10, RdInTurnAhead
<1>11. CASE /\ RdMatches(needles, s) = {} /\ s # <<>> /\ ~RdCouldExtend(needles, s)
            /\ \E b \in RdBytes, u \in Seq(RdBytes) :
                 s = <<b>> \o u /\ Len(u) < Len(s) /\ RdGives(needles, s, u, b, FALSE)
  <2>1. PICK b \in RdBytes, u \in Seq(RdBytes) :
               s = <<b>> \o u /\ Len(u) < Len(s) /\ RdGives(needles, s, u, b, FALSE)
    BY <1>11
  <2>2. RdMatches(needles, s \o c) = {} /\ s \o c # <<>>
    <3>1. RdMatches(needles, s \o c) = {}
      BY <1>2, <1>11, RdMatchesLonger
    <3>2. s \o c # <<>>
      BY <1>2, <1>11, ConcatEqualIffEmpty
    <3> QED
      BY <3>1, <3>2
  <2>3. PICK d \in RdBytes, v \in Seq(RdBytes) :
          s \o c = <<d>> \o v /\ Len(v) < Len(s \o c) /\ RdGives(needles, s \o c, v, d, TRUE)
    BY <1>6, <2>2 DEF RdUnfolds
  <2> DEFINE w == <<b>>
  <2>4. w \in Seq(RdBytes) /\ s = w \o u
    BY <2>1
  <2>5. s \o c = <<b>> \o (u \o c) /\ u \o c \in Seq(RdBytes)
    <3> HIDE DEF w
    <3>1. s \o c = w \o (u \o c) /\ u \o c \in Seq(RdBytes)
      BY <2>4, RdByteAssoc, ConcatProperties
    <3> QED
      BY <3>1 DEF w
  <2>6. d = b
    <3>1. (<<d>> \o v)[1] = d
      BY RdAheadFacts
    <3>2. (<<b>> \o (u \o c))[1] = b
      BY <2>5, RdAheadFacts
    <3> QED
      BY <2>3, <2>5, <3>1, <3>2
  <2>7. v = u \o c
    <3>1. w \o v = w \o (u \o c)
      BY <2>3, <2>5, <2>6
    <3> HIDE DEF w
    <3> QED
      BY <2>4, <2>5, <3>1, RdCancel
  <2>8. RdGives(needles, s \o c, u \o c, b, TRUE)
    BY <2>3, <2>6, <2>7
  <2>9. RdInTurn(needles, u, c)
    BY <1>3, <2>1
  <2> HIDE DEF w
  <2> QED
    BY <1>2, <2>1, <2>8, <2>9, RdInTurnAhead
<1> QED
  BY <1>4, <1>8, <1>9, <1>10, <1>11 DEF RdUnfolds

-----------------------------------------------------------------------------
\* The limit.

\* The first n bytes, of more.
RdFirst(s, n) == IF Len(s) > n THEN SubSeq(s, 1, n) ELSE s

LEMMA RdFirstFacts ==
  ASSUME NEW s \in Seq(RdBytes), NEW n \in Nat
  PROVE  /\ RdFirst(s, n) \in Seq(RdBytes)
         /\ Len(s) > n => Len(RdFirst(s, n)) = n
         /\ ~(Len(s) > n) => Len(RdFirst(s, n)) = Len(s)
         /\ \A i \in 1..Len(RdFirst(s, n)) : RdFirst(s, n)[i] = s[i]
         /\ RdFirst(s, n) # s <=> Len(s) > n
<1>1. CASE Len(s) > n
  <2> DEFINE w == SubSeq(s, 1, n)
  <2>0. Len(s) \in Nat
    BY LenProperties
  <2>1. \A i \in 1..n : s[i] \in RdBytes
    BY <1>1, <2>0, ElementOfSeq
  <2>2. /\ w \in Seq(RdBytes) /\ Len(w) = IF 1 <= n THEN n - 1 + 1 ELSE 0
        /\ \A i \in 1..n - 1 + 1 : w[i] = s[1 + i - 1]
    BY <2>1, SubSeqProperties
  <2> HIDE DEF w
  <2>3. Len(w) = n /\ \A i \in 1..n : w[i] = s[i]
    BY <2>2
  <2>4. RdFirst(s, n) = w
    BY <1>1 DEF RdFirst, w
  <2>5. w # s
    BY <1>1, <2>0, <2>3
  <2> QED
    BY <1>1, <2>2, <2>3, <2>4, <2>5
<1>2. CASE ~(Len(s) > n)
  BY <1>2 DEF RdFirst
<1> QED
  BY <1>1, <1>2

\* What a Write keeps, after what was kept.
RdKeeps(said, bytes, limit, kept, fits) ==
  /\ kept \in Seq(RdBytes) /\ fits \in Seq(RdBytes) /\ Len(kept) + Len(fits) \in 0..limit
  /\ kept \o fits = RdFirst(said \o bytes, limit)
  /\ Len(kept \o fits) = Len(kept) + Len(fits)
  /\ Len(said \o bytes) > limit <=> Len(said) > limit \/ fits # bytes

LEMMA RdLimitStep ==
  ASSUME NEW said \in Seq(RdBytes), NEW bytes \in Seq(RdBytes), NEW limit \in Nat,
         NEW kept, kept = RdFirst(said, limit),
         NEW fits, fits = RdFirst(bytes, limit - Len(kept))
  PROVE  RdKeeps(said, bytes, limit, kept, fits)
<1> DEFINE all == said \o bytes
           left == limit - Len(kept)
           both == kept \o fits
           whole == RdFirst(all, limit)
<1>0. Len(said) \in Nat /\ Len(bytes) \in Nat
  BY LenProperties
<1>1. /\ all \in Seq(RdBytes) /\ Len(all) = Len(said) + Len(bytes)
      /\ \A i \in 1..Len(said) + Len(bytes) : all[i] = IF i <= Len(said) THEN said[i] ELSE bytes[i - Len(said)]
  BY ConcatProperties
<1> HIDE DEF all
<1>2. /\ kept \in Seq(RdBytes)
      /\ Len(said) > limit => Len(kept) = limit
      /\ ~(Len(said) > limit) => Len(kept) = Len(said)
      /\ \A i \in 1..Len(kept) : kept[i] = said[i]
  BY RdFirstFacts
<1>3. left \in Nat /\ Len(kept) \in Nat
  BY <1>0, <1>2
<1>4. /\ fits \in Seq(RdBytes)
      /\ Len(bytes) > left => Len(fits) = left
      /\ ~(Len(bytes) > left) => Len(fits) = Len(bytes)
      /\ \A i \in 1..Len(fits) : fits[i] = bytes[i]
      /\ fits # bytes <=> Len(bytes) > left
  BY <1>3, RdFirstFacts
<1>5. Len(fits) \in Nat /\ left + Len(kept) = limit
  BY <1>2, <1>4, LenProperties
<1> HIDE DEF left
<1>6. /\ both \in Seq(RdBytes) /\ Len(both) = Len(kept) + Len(fits)
      /\ \A i \in 1..Len(kept) + Len(fits) : both[i] = IF i <= Len(kept) THEN kept[i] ELSE fits[i - Len(kept)]
  BY <1>2, <1>4, ConcatProperties
<1>7. /\ whole \in Seq(RdBytes)
      /\ Len(all) > limit => Len(whole) = limit
      /\ ~(Len(all) > limit) => Len(whole) = Len(all)
      /\ \A i \in 1..Len(whole) : whole[i] = all[i]
  BY <1>1, RdFirstFacts
<1> HIDE DEF both, whole
<1>8. Len(all) > limit <=> Len(said) > limit \/ fits # bytes
  BY <1>0, <1>1, <1>2, <1>3, <1>4, <1>5
<1>9. Len(both) = Len(whole) /\ Len(both) \in 0..limit /\ Len(both) <= Len(all)
  BY <1>0, <1>1, <1>2, <1>3, <1>4, <1>5, <1>6, <1>7
<1>10. ASSUME NEW i \in 1..Len(both) PROVE both[i] = whole[i]
  <2>0. i \in Nat /\ i >= 1 /\ i <= Len(kept) + Len(fits) /\ i \in 1..Len(said) + Len(bytes)
    BY <1>0, <1>1, <1>3, <1>5, <1>6, <1>9
  <2>1. whole[i] = all[i]
    BY <1>7, <1>9
  <2>2. CASE i <= Len(kept)
    <3>1. i \in 1..Len(kept) /\ i <= Len(said)
      BY <1>0, <1>2, <1>3, <2>0, <2>2
    <3>2. all[i] = said[i]
      BY <1>1, <2>0, <3>1
    <3>3. both[i] = kept[i]
      BY <1>6, <2>2
    <3> QED
      BY <1>2, <2>1, <3>1, <3>2, <3>3
  <2>3. CASE ~(i <= Len(kept))
    <3>1. Len(said) = Len(kept)
      BY <1>0, <1>2, <1>3, <1>5, <1>6, <1>9, <2>0, <2>3
    <3>2. i - Len(said) \in 1..Len(fits) /\ ~(i <= Len(said))
      BY <1>0, <1>3, <1>5, <2>0, <2>3, <3>1
    <3>3. all[i] = bytes[i - Len(said)]
      BY <1>1, <2>0, <3>2
    <3>4. both[i] = fits[i - Len(said)]
      BY <1>6, <2>3, <3>1
    <3> QED
      BY <1>4, <2>1, <3>2, <3>3, <3>4
  <2> QED
    BY <2>2, <2>3
<1>11. both = whole
  BY <1>6, <1>7, <1>9, <1>10, SeqEqual
<1> QED
  BY <1>2, <1>4, <1>6, <1>8, <1>9, <1>11 DEF all, both, whole, RdKeeps

-----------------------------------------------------------------------------
\* What a Write, or the end, does to one stream.

RdJoins(needles, final, o, h, fits, kept, r) ==
  /\ r.out \in Seq(RdBytes \union needles) /\ r.rest \in Seq(RdBytes)
  /\ o \o r.out \in Seq(RdBytes \union needles)
  /\ RdUnmarked(o \o r.out) \o r.rest = kept \o fits
  /\ RdNoneBegins(needles, o \o r.out, r.rest, final)
  /\ final => r.rest = <<>>

LEMMA RdProcessStep ==
  ASSUME NEW needles, needles \subseteq RdStrings(RdMaxLen), NEW final \in BOOLEAN,
         NEW o \in Seq(RdBytes \union needles), NEW h \in Seq(RdBytes), NEW fits \in Seq(RdBytes),
         NEW kept, RdUnmarked(o) \o h = kept, RdNoneBegins(needles, o, h, FALSE),
         NEW r, r = RdProcess(needles, h \o fits, final)
  PROVE  RdJoins(needles, final, o, h, fits, kept, r)
<1> DEFINE buf == h \o fits
<1>1. buf \in Seq(RdBytes)
  BY ConcatProperties
<1>2. r.out \in Seq(RdBytes \union needles) /\ r.rest \in Seq(RdBytes)
  <2> HIDE DEF buf
  <2>1. RdProcess(needles, buf, final) \in RdResult(needles)
    BY <1>1, RdUnfold
  <2> QED
    BY <2>1, RdResultTypes DEF buf
<1>3. o \o r.out \in Seq(RdBytes \union needles)
  BY <1>2, ConcatProperties
<1>4. RdUnmarked(o \o r.out) \o r.rest = kept \o fits
  <2> DEFINE a == RdUnmarked(o)
             b == RdUnmarked(r.out)
             e == r.rest
  <2>1. a \in Seq(RdBytes) /\ b \in Seq(RdBytes) /\ e \in Seq(RdBytes)
    BY <1>2, RdUnmarkedType
  <2>2. RdUnmarked(o \o r.out) = a \o b
    BY <1>2, RdUnmarkedConcat
  <2>3. b \o e = buf
    BY <1>1, RdKeepsAll
  <2> HIDE DEF a, b, e
  <2>4. (a \o b) \o e = a \o (b \o e)
    BY <2>1, RdByteAssoc
  <2>5. (a \o h) \o fits = a \o (h \o fits)
    BY <2>1, RdByteAssoc
  <2>6. a \o h = kept
    BY DEF a
  <2> QED
    BY <2>2, <2>3, <2>4, <2>5, <2>6 DEF e
<1>5. RdNoneBegins(needles, o \o r.out, r.rest, final)
  <2>1. RdNoneBegins(needles, r.out, r.rest, final)
    BY <1>1, RdProcessSafe
  <2>2. RdFollows(r.out \o r.rest, h \o fits)
    BY <1>1, RdTextFollows DEF RdText
  <2> QED
    BY <1>2, <2>1, <2>2, RdNoneBeginsJoin
<1>6. final => r.rest = <<>>
  <2> HIDE DEF buf
  <2>1. RdProcess(needles, buf, TRUE).rest = <<>>
    BY <1>1, RdFinalRest
  <2> QED
    BY <2>1 DEF buf
<1> QED
  BY <1>2, <1>3, <1>4, <1>5, <1>6 DEF RdJoins

LEMMA RdSavesStep ==
  ASSUME NEW needles, needles \subseteq RdStrings(RdMaxLen), RdApart(needles),
         NEW o \in Seq(RdBytes \union needles), NEW h \in Seq(RdBytes), NEW fits \in Seq(RdBytes),
         NEW kept \in Seq(RdBytes), RdSaves(needles, kept, o, h),
         NEW r, r = RdProcess(needles, h \o fits, FALSE)
  PROVE  RdSaves(needles, kept \o fits, o \o r.out, r.rest)
<1> SUFFICES ASSUME NEW more \in Seq(RdBytes)
             PROVE  RdProcess(needles, (kept \o fits) \o more, TRUE).out
                      = (o \o r.out) \o RdProcess(needles, r.rest \o more, TRUE).out
  BY DEF RdSaves
<1> DEFINE buf == h \o fits
           later == fits \o more
           e == RdProcess(needles, r.rest \o more, TRUE).out
<1>1. buf \in Seq(RdBytes) /\ later \in Seq(RdBytes)
  BY ConcatProperties
<1>2. (kept \o fits) \o more = kept \o later /\ h \o later = buf \o more
  BY RdByteAssoc
<1>3. RdProcess(needles, kept \o later, TRUE).out = o \o RdProcess(needles, h \o later, TRUE).out
  BY <1>1 DEF RdSaves
<1>4. r.out \in Seq(RdBytes \union needles) /\ r.rest \in Seq(RdBytes)
  <2> HIDE DEF buf
  <2>1. RdProcess(needles, buf, FALSE) \in RdResult(needles)
    BY <1>1, RdUnfold
  <2> QED
    BY <2>1, RdResultTypes DEF buf
<1>5. RdProcess(needles, buf \o more, TRUE).out = r.out \o e
  <2>1. RdInTurn(needles, buf, more)
    <3> HIDE DEF buf
    <3> QED
      BY <1>1, RdTwoInTurn
  <2> QED
    BY <2>1 DEF RdInTurn
<1>6. e \in Seq(RdBytes \union needles)
  <2>1. r.rest \o more \in Seq(RdBytes)
    BY <1>4, ConcatProperties
  <2> QED
    BY <2>1, RdUnfold, RdResultTypes
<1> HIDE DEF e
<1> HIDE DEF buf, later
<1>7. (o \o r.out) \o e = o \o (r.out \o e)
  <2> DEFINE q == r.out
  <2>1. q \in Seq(RdBytes \union needles)
    BY <1>4
  <2> HIDE DEF q
  <2>2. (o \o q) \o e = o \o (q \o e)
    BY <1>6, <2>1, RdItemAssoc
  <2> QED
    BY <2>2 DEF q
<1> QED
  BY <1>2, <1>3, <1>5, <1>7 DEF e

LEMMA RdSavesEnd ==
  ASSUME NEW needles, NEW o, NEW h \in Seq(RdBytes), NEW kept \in Seq(RdBytes),
         RdSaves(needles, kept, o, h)
  PROVE  RdProcess(needles, kept, TRUE).out = o \o RdProcess(needles, h, TRUE).out
<1>1. <<>> \in Seq(RdBytes) /\ kept \o <<>> = kept /\ h \o <<>> = h
  BY EmptySeq, ConcatEmptySeq
<1>2. RdProcess(needles, kept \o <<>>, TRUE).out = o \o RdProcess(needles, h \o <<>>, TRUE).out
  BY <1>1 DEF RdSaves
<1> QED
  BY <1>1, <1>2

LEMMA RdSavesBuffer ==
  ASSUME NEW needles, needles \subseteq RdStrings(RdMaxLen), NEW kept \in Seq(RdBytes)
  PROVE  RdSaves(needles, kept, <<>>, kept)
<1> SUFFICES ASSUME NEW more \in Seq(RdBytes)
             PROVE  RdProcess(needles, kept \o more, TRUE).out
                      = <<>> \o RdProcess(needles, kept \o more, TRUE).out
  BY DEF RdSaves
<1> DEFINE buf == kept \o more
<1>1. buf \in Seq(RdBytes)
  BY ConcatProperties
<1> HIDE DEF buf
<1>2. RdProcess(needles, buf, TRUE).out \in Seq(RdBytes \union needles)
  BY <1>1, RdUnfold, RdResultTypes
<1>3. RdProcess(needles, buf, TRUE).out = <<>> \o RdProcess(needles, buf, TRUE).out
  BY <1>2, ConcatEmptySeq
<1> QED
  BY <1>3 DEF buf

-----------------------------------------------------------------------------
\* The steps of the component.

\* Bytes of a frame are bytes.
LEMMA RdFrameBytes ==
  ASSUME NEW n \in Nat, NEW v \in RdStrings(n)
  PROVE  v \in Seq(RdBytes)
<1>1. PICK k \in 1..n : v \in [1..k -> RdBytes]
  BY DEF RdStrings
<1>2. k \in Nat
  BY <1>1
<1> QED
  BY <1>1, <1>2, SeqDef

LEMMA RdNeedlesAreValues ==
  ASSUME RdTypeOK
  PROVE  RdNeedles \subseteq RdStrings(RdMaxLen) /\ RdNeedles \subseteq rdValues
  BY DEF RdTypeOK, RdNeedles

\* What a stream kept.
LEMMA RdKeptIs ==
  ASSUME RdTypeOK, RdCounts, NEW k \in RdStreams
  PROVE  RdKept(k) = RdFirst(rdHeard[k], RdLimit) /\ RdKept(k) \in Seq(RdBytes)
<1>1. RdKept(k) = RdFirst(rdHeard[k], RdLimit)
  BY DEF RdCounts, RdKept, RdFirst
<1>2. rdHeard[k] \in Seq(RdBytes) /\ RdLimit \in Nat
  BY RedactorAssumption DEF RdTypeOK
<1> QED
  BY <1>1, <1>2, RdFirstFacts

\* More of a stream, after what was read of it.
LEMMA RdPrefixGrows ==
  ASSUME NEW s \in Seq(RdBytes), NEW t \in Seq(RdBytes), NEW b \in Seq(RdBytes), IsPrefix(s, t)
  PROVE  IsPrefix(s, t \o b)
<1> DEFINE u == t \o b
<1>1. /\ u \in Seq(RdBytes) /\ Len(u) = Len(t) + Len(b)
      /\ \A x \in 1..Len(t) + Len(b) : u[x] = IF x <= Len(t) THEN t[x] ELSE b[x - Len(t)]
  BY ConcatProperties
<1>2. Len(s) <= Len(t) /\ \A x \in 1..Len(s) : s[x] = t[x]
  BY RdPrefixFacts
<1>3. Len(s) \in Nat /\ Len(t) \in Nat /\ Len(b) \in Nat
  BY LenProperties
<1> HIDE DEF u
<1>4. Len(s) <= Len(u) /\ \A x \in 1..Len(s) : s[x] = u[x]
  BY <1>1, <1>2, <1>3
<1> QED
  BY <1>1, <1>4, RdPrefixFacts DEF u

LEMMA RdPrefixSame ==
  ASSUME NEW s \in Seq(RdBytes)
  PROVE  IsPrefix(s, s)
<1>1. Len(s) <= Len(s)
  BY LenProperties
<1> QED
  BY <1>1, RdPrefixFacts

LEMMA RdInitIInv ==
  ASSUME RdInit
  PROVE  RdIInv
<1>1. rdValues \subseteq RdStrings(RdMaxLen)
  BY RedactorAssumption DEF RdInit, kSubset
<1>2. /\ rdLive \in BOOLEAN /\ rdEnded = FALSE /\ rdDemux = "reads"
      /\ \A k \in RdStreams : rdSaid[k] = <<>> /\ rdHeard[k] = <<>> /\ rdPassed[k] = 0 /\ rdCut[k] = FALSE
                              /\ rdHold[k] = <<>> /\ rdOut[k] = <<>>
  BY DEF RdInit
<1>3. RdLimit \in Nat /\ 0 \in 0..RdLimit
  BY RedactorAssumption
<1>4. <<>> \in Seq(RdBytes) /\ <<>> \in Seq(RdBytes \union rdValues) /\ <<>> \in Seq(RdBytes \union RdNeedles)
      /\ Len(<<>>) = 0
  BY EmptySeq
<1>5. RdTypeOK
  BY <1>1, <1>3, <1>4 DEF RdInit, RdTypeOK
<1>6. \A k \in RdStreams : RdKept(k) = <<>>
  BY <1>2 DEF RdKept
<1>7. RdCounts
  BY <1>2, <1>3, <1>4, <1>6 DEF RdCounts
<1>8. RdMarked
  BY <1>2, <1>4 DEF RdMarked
<1>9. RdNothingLost
  <2>1. <<>> \o <<>> = <<>>
    BY <1>4, ConcatEmptySeq
  <2> QED
    BY <1>2, <1>6, <2>1, RdUnmarkedNothing DEF RdNothingLost
<1>10. RdSafe
  BY <1>2, <1>4 DEF RdSafe, RdNoneBegins
<1>11. RdOnePass
  <2>1. RdSaves(RdNeedles, <<>>, <<>>, <<>>)
    BY <1>4, <1>5, RdNeedlesAreValues, RdSavesBuffer
  <2> QED
    BY <1>2, <1>6, <2>1 DEF RdOnePass
<1>12. RdInOrder
  BY <1>2, <1>4, RdPrefixSame DEF RdInOrder
<1> QED
  BY <1>12, <1>5, <1>7, <1>8, <1>9, <1>10, <1>11 DEF RdIInv

\* A frame that is read.
LEMMA RdReadIInv ==
  ASSUME RdIInv, NEW k \in RdStreams, NEW bytes \in RdStrings(RdMaxFrame), RdFrame(k, bytes),
         rdDemux = "reads"
  PROVE  RdIInv'
<1> DEFINE fits == RdFits(k, bytes)
           N == RdNeedles
           o == rdOut[k]
           h == rdHold[k]
           kept == RdKept(k)
<1>0. RdTypeOK /\ RdCounts /\ RdMarked /\ RdNothingLost /\ RdSafe /\ RdOnePass /\ RdInOrder
  BY DEF RdIInv
<1>1. /\ N \subseteq RdStrings(RdMaxLen) /\ N \subseteq rdValues
      /\ RdLimit \in Nat /\ bytes \in Seq(RdBytes)
  BY <1>0, RedactorAssumption, RdFrameBytes, RdNeedlesAreValues
<1>2. rdValues' = rdValues /\ rdLive' = rdLive /\ rdEnded' = rdEnded /\ ~rdEnded /\ N' = N
  BY DEF RdFrame, RdNeedles
<1>read. /\ RdRead(k, bytes) /\ rdDemux # "failed"
         /\ rdSaid' = [rdSaid EXCEPT ![k] = @ \o bytes]
  BY DEF RdFrame
<1>demux. /\ rdDemux' \in {"reads", "short"} /\ rdDemux' # "failed"
          /\ rdDemux' = "short" => fits # bytes
  BY <1>read DEF RdRead, RdShort
<1>3. /\ rdHeard[k] \in Seq(RdBytes) /\ h \in Seq(RdBytes) /\ o \in Seq(RdBytes \union N)
      /\ rdPassed[k] = Len(kept)
      /\ rdCut[k] <=> Len(rdHeard[k]) > RdLimit
      /\ RdUnmarked(o) \o h = kept
      /\ ~rdLive => o = <<>>
      /\ RdNoneBegins(N, o, h, FALSE)
      /\ RdApart(N) => RdSaves(N, kept, o, h)
  BY <1>0, <1>2, <1>read DEF RdTypeOK, RdCounts, RdMarked, RdNothingLost, RdSafe, RdOnePass
<1>4. kept = RdFirst(rdHeard[k], RdLimit) /\ fits = RdFirst(bytes, RdLimit - Len(kept))
      /\ kept \in Seq(RdBytes)
  BY <1>0, <1>3, RdKeptIs DEF RdFits, RdFirst
<1>5. /\ rdHeard' = [rdHeard EXCEPT ![k] = @ \o bytes]
      /\ rdPassed' = [rdPassed EXCEPT ![k] = @ + Len(fits)]
      /\ rdCut' = [rdCut EXCEPT ![k] = @ \/ fits # bytes]
  BY <1>read DEF RdRead
<1>6. \/ rdLive /\ RdWrite(k, fits)
      \/ ~rdLive /\ RdBuffer(k, fits)
  BY <1>read DEF RdRead
<1> HIDE DEF fits, kept
<1>7. /\ fits \in Seq(RdBytes) /\ Len(kept) + Len(fits) \in 0..RdLimit
      /\ kept \o fits = RdFirst(rdHeard[k] \o bytes, RdLimit)
      /\ Len(kept \o fits) = Len(kept) + Len(fits)
      /\ Len(rdHeard[k] \o bytes) > RdLimit <=> Len(rdHeard[k]) > RdLimit \/ fits # bytes
  <2> DEFINE said == rdHeard[k]
  <2>1. said \in Seq(RdBytes) /\ kept = RdFirst(said, RdLimit)
    BY <1>3, <1>4
  <2> HIDE DEF said, N, o, h
  <2>2. RdKeeps(said, bytes, RdLimit, kept, fits)
    BY <1>1, <1>4, <2>1, RdLimitStep
  <2> QED
    BY <2>2 DEF said, RdKeeps
\* What the step leaves of the stream.
<1>8. /\ rdHeard'[k] = rdHeard[k] \o bytes /\ rdPassed'[k] = Len(kept) + Len(fits)
      /\ rdCut'[k] <=> Len(rdHeard'[k]) > RdLimit
      /\ rdHeard'[k] \in Seq(RdBytes) /\ rdCut'[k] \in BOOLEAN
  <2>1. rdHeard'[k] = rdHeard[k] \o bytes /\ rdPassed'[k] = Len(kept) + Len(fits)
        /\ rdCut'[k] = (rdCut[k] \/ fits # bytes)
    BY <1>0, <1>3, <1>5 DEF RdTypeOK
  <2>2. rdHeard[k] \o bytes \in Seq(RdBytes)
    BY <1>1, <1>3, ConcatProperties
  <2> QED
    BY <1>3, <1>7, <2>1, <2>2
<1>9. RdKept(k)' = kept \o fits
  BY <1>7, <1>8 DEF RdKept, RdFirst
<1>10. /\ rdHold' = [rdHold EXCEPT ![k] = rdHold'[k]] /\ rdOut' = [rdOut EXCEPT ![k] = rdOut'[k]]
       /\ rdHold'[k] \in Seq(RdBytes) /\ rdOut'[k] \in Seq(RdBytes \union N)
       /\ RdUnmarked(rdOut'[k]) \o rdHold'[k] = kept \o fits
       /\ ~rdLive => rdOut'[k] = <<>>
       /\ RdNoneBegins(N, rdOut'[k], rdHold'[k], FALSE)
       /\ RdApart(N) => RdSaves(N, kept \o fits, rdOut'[k], rdHold'[k])
  <2>1. CASE rdLive /\ RdWrite(k, fits)
    <3> DEFINE r == RdProcess(N, h \o fits, FALSE)
    <3>1. rdHold' = [rdHold EXCEPT ![k] = r.rest] /\ rdOut' = [rdOut EXCEPT ![k] = o \o r.out]
      BY <2>1 DEF RdWrite
    <3>2. rdHold'[k] = r.rest /\ rdOut'[k] = o \o r.out
      BY <1>0, <3>1 DEF RdTypeOK
    <3>3. PICK s : s = r
      OBVIOUS
    <3>4. /\ s.rest \in Seq(RdBytes) /\ o \o s.out \in Seq(RdBytes \union N)
          /\ RdUnmarked(o \o s.out) \o s.rest = kept \o fits
          /\ RdNoneBegins(N, o \o s.out, s.rest, FALSE)
      <4> HIDE DEF o, h, N
      <4>1. s = RdProcess(N, h \o fits, FALSE)
        BY <3>3
      <4> HIDE DEF r
      <4>2. RdJoins(N, FALSE, o, h, fits, kept, s)
        BY <1>1, <1>3, <1>7, <4>1, RdProcessStep
      <4> QED
        BY <4>2 DEF RdJoins
    <3>5. RdApart(N) => RdSaves(N, kept \o fits, o \o s.out, s.rest)
      BY <1>1, <1>3, <1>4, <1>7, <3>3, RdSavesStep
    <3>6. rdHold' = [rdHold EXCEPT ![k] = s.rest] /\ rdOut' = [rdOut EXCEPT ![k] = o \o s.out]
          /\ rdHold'[k] = s.rest /\ rdOut'[k] = o \o s.out
      BY <3>1, <3>2, <3>3
    <3> HIDE DEF r, o, h, N
    <3> QED
      BY <2>1, <3>4, <3>5, <3>6
  <2>2. CASE ~rdLive /\ RdBuffer(k, fits)
    <3>1. rdHold' = [rdHold EXCEPT ![k] = h \o fits] /\ rdOut' = rdOut /\ o = <<>>
      BY <1>3, <2>2 DEF RdBuffer
    <3>2. rdHold'[k] = h \o fits /\ rdOut'[k] = <<>> /\ rdOut' = [rdOut EXCEPT ![k] = rdOut'[k]]
          /\ rdHold' = [rdHold EXCEPT ![k] = rdHold'[k]]
      BY <1>0, <3>1 DEF RdTypeOK
    <3>3. h = kept
      BY <1>3, <3>1, RdUnmarkedNothing, ConcatEmptySeq
    <3>4. kept \o fits \in Seq(RdBytes) /\ <<>> \in Seq(RdBytes \union N) /\ Len(<<>>) = 0
      BY <1>4, <1>7, ConcatProperties, EmptySeq
    <3>5. RdUnmarked(<<>>) \o (kept \o fits) = kept \o fits
      BY <3>4, RdUnmarkedNothing, ConcatEmptySeq
    <3>6. RdNoneBegins(N, <<>>, kept \o fits, FALSE)
      BY <3>4 DEF RdNoneBegins
    <3>7. RdSaves(N, kept \o fits, <<>>, kept \o fits)
      BY <1>1, <3>4, RdSavesBuffer
    <3> HIDE DEF o, h, N
    <3> QED
      BY <2>2, <3>2, <3>3, <3>4, <3>5, <3>6, <3>7
  <2> QED
    BY <1>6, <2>1, <2>2
\* The other stream.
<1>11. ASSUME NEW j \in RdStreams, j # k
       PROVE  /\ rdHeard'[j] = rdHeard[j] /\ rdPassed'[j] = rdPassed[j] /\ rdCut'[j] = rdCut[j]
              /\ rdHold'[j] = rdHold[j] /\ rdOut'[j] = rdOut[j] /\ RdKept(j)' = RdKept(j)
  <2>1. /\ rdHeard'[j] = rdHeard[j] /\ rdPassed'[j] = rdPassed[j] /\ rdCut'[j] = rdCut[j]
        /\ rdHold'[j] = rdHold[j] /\ rdOut'[j] = rdOut[j]
    BY <1>0, <1>5, <1>10, <1>11 DEF RdTypeOK
  <2> QED
    BY <2>1 DEF RdKept
\* The invariant, part by part.
<1>12. RdTypeOK'
  <2>1. rdOut'[k] \in Seq(RdBytes \union rdValues)
    BY <1>1, <1>10, SeqMonotonic
  <2>2. rdPassed'[k] \in 0..RdLimit
    BY <1>7, <1>8
  <2> HIDE DEF o, h, N
  <2>5. rdSaid' \in [RdStreams -> Seq(RdBytes)]
    <3>1. rdSaid[k] \in Seq(RdBytes)
      BY <1>0 DEF RdTypeOK
    <3>2. rdSaid[k] \o bytes \in Seq(RdBytes)
      BY <1>1, <3>1, ConcatProperties
    <3> QED
      BY <1>0, <1>read, <3>2 DEF RdTypeOK
  <2>3. /\ rdHeard' \in [RdStreams -> Seq(RdBytes)] /\ rdPassed' \in [RdStreams -> 0..RdLimit]
        /\ rdCut' \in [RdStreams -> BOOLEAN]
    BY <1>0, <1>5, <1>8, <2>2 DEF RdTypeOK
  <2>4. rdHold' \in [RdStreams -> Seq(RdBytes)] /\ rdOut' \in [RdStreams -> Seq(RdBytes \union rdValues)]
    BY <1>0, <1>10, <2>1 DEF RdTypeOK
  <2> QED
    BY <1>0, <1>2, <1>demux, <2>3, <2>4, <2>5 DEF RdTypeOK
<1> HIDE DEF o, h, N
<1>13. RdCounts'
  BY <1>0, <1>7, <1>8, <1>9, <1>11 DEF RdCounts
<1>14. RdMarked'
  BY <1>0, <1>2, <1>10, <1>11 DEF RdMarked, N
<1>15. RdNothingLost'
  BY <1>demux, <1>read, <1>0, <1>2, <1>9, <1>10, <1>11 DEF RdNothingLost
<1>16. RdSafe'
  <2>1. rdEnded = FALSE /\ rdEnded' = FALSE /\ RdNeedles' = RdNeedles
    BY <1>0, <1>2 DEF RdTypeOK, N
  <2>2. ASSUME NEW j \in RdStreams PROVE RdNoneBegins(RdNeedles, rdOut'[j], rdHold'[j], FALSE)
    <3>1. CASE j = k
      BY <1>10, <3>1 DEF N
    <3>2. CASE j # k
      BY <1>0, <1>11, <2>1, <3>2 DEF RdSafe
    <3> QED
      BY <3>1, <3>2
  <2> QED
    BY <2>1, <2>2 DEF RdSafe
<1>17. RdOnePass'
  BY <1>demux, <1>read, <1>0, <1>2, <1>9, <1>10, <1>11 DEF RdOnePass, N
<1>18. RdInOrder'
  <2>1. ASSUME NEW j \in RdStreams PROVE rdHeard'[j] = rdSaid'[j] /\ rdHeard'[j] \in Seq(RdBytes)
    <3>1. rdHeard[j] = rdSaid[j] /\ rdSaid \in [RdStreams -> Seq(RdBytes)]
      BY <1>0 DEF RdInOrder, RdTypeOK
    <3>2. CASE j = k
      BY <1>8, <1>read, <3>1, <3>2
    <3>3. CASE j # k
      BY <1>0, <1>11, <1>read, <3>1, <3>3 DEF RdTypeOK
    <3> QED
      BY <3>2, <3>3
  <2>2. rdDemux' = "short" => rdCut'[k]
    BY <1>0, <1>5, <1>demux DEF RdTypeOK
  <2> QED
    BY <2>1, <2>2, RdPrefixSame DEF RdInOrder
<1> QED
  BY <1>18, <1>12, <1>13, <1>14, <1>15, <1>16, <1>17 DEF RdIInv

\* A frame that nobody reads.
LEMMA RdUnreadIInv ==
  ASSUME RdIInv, NEW k \in RdStreams, NEW bytes \in RdStrings(RdMaxFrame), RdFrame(k, bytes),
         rdDemux # "reads"
  PROVE  RdIInv'
<1>0. RdTypeOK /\ RdInOrder /\ RdCounts /\ RdMarked /\ RdNothingLost /\ RdSafe /\ RdOnePass
  BY DEF RdIInv
<1>1. /\ rdSaid' = [rdSaid EXCEPT ![k] = @ \o bytes]
      /\ UNCHANGED <<rdValues, rdLive, rdHeard, rdDemux, rdPassed, rdCut, rdHold, rdOut, rdEnded>>
  BY DEF RdFrame
<1>2. (\A j \in RdStreams : RdKept(j)' = RdKept(j)) /\ RdNeedles' = RdNeedles
  BY <1>1 DEF RdKept, RdNeedles
<1>3. rdSaid[k] \in Seq(RdBytes) /\ bytes \in Seq(RdBytes) /\ rdHeard[k] \in Seq(RdBytes)
  BY <1>0, RedactorAssumption, RdFrameBytes DEF RdTypeOK
<1>4. rdSaid[k] \o bytes \in Seq(RdBytes) /\ IsPrefix(rdHeard[k], rdSaid[k] \o bytes)
  <2>1. IsPrefix(rdHeard[k], rdSaid[k])
    BY <1>0 DEF RdInOrder
  <2> QED
    BY <1>3, <2>1, RdPrefixGrows, ConcatProperties
<1>5. \A j \in RdStreams : rdSaid'[j] = IF j = k THEN rdSaid[k] \o bytes ELSE rdSaid[j]
  BY <1>0, <1>1 DEF RdTypeOK
<1>6. RdTypeOK'
  <2>1. rdSaid' \in [RdStreams -> Seq(RdBytes)]
    BY <1>0, <1>1, <1>4 DEF RdTypeOK
  <2> QED
    BY <1>0, <1>1, <2>1 DEF RdTypeOK
<1>7. RdInOrder'
  BY <1>0, <1>1, <1>4, <1>5 DEF RdInOrder
<1>8. RdCounts' /\ RdMarked' /\ RdNothingLost'
  BY <1>0, <1>1, <1>2 DEF RdCounts, RdMarked, RdNothingLost
<1>9. RdSafe' /\ RdOnePass'
  BY <1>0, <1>1, <1>2 DEF RdSafe, RdOnePass
<1> QED
  BY <1>6, <1>7, <1>8, <1>9 DEF RdIInv

LEMMA RdBreakIInv ==
  ASSUME RdIInv, RdBreak
  PROVE  RdIInv'
<1>1. /\ rdDemux = "reads" /\ rdDemux' = "broken"
      /\ UNCHANGED <<rdValues, rdLive, rdSaid, rdHeard, rdPassed, rdCut, rdHold, rdOut, rdEnded>>
  BY DEF RdBreak
<1>2. (\A j \in RdStreams : RdKept(j)' = RdKept(j)) /\ RdNeedles' = RdNeedles
  BY <1>1 DEF RdKept, RdNeedles
<1>3. RdTypeOK' /\ RdInOrder' /\ RdCounts' /\ RdMarked' /\ RdNothingLost'
  BY <1>1, <1>2 DEF RdIInv, RdTypeOK, RdInOrder, RdCounts, RdMarked, RdNothingLost
<1>4. RdSafe' /\ RdOnePass'
  BY <1>1, <1>2 DEF RdIInv, RdSafe, RdOnePass
<1> QED
  BY <1>3, <1>4 DEF RdIInv

\* Execute fails, and nothing has left.
LEMMA RdFailIInv ==
  ASSUME RdIInv, RdFail
  PROVE  RdIInv'
<1>1. /\ ~rdEnded /\ ~rdLive /\ rdEnded' = TRUE /\ rdDemux' = "failed"
      /\ rdHold' = [k \in RdStreams |-> <<>>]
      /\ UNCHANGED <<rdValues, rdLive, rdSaid, rdHeard, rdPassed, rdCut, rdOut>>
  BY DEF RdFail
<1>2. (\A j \in RdStreams : RdKept(j)' = RdKept(j)) /\ RdNeedles' = RdNeedles
  BY <1>1 DEF RdKept, RdNeedles
<1>3. \A k \in RdStreams : rdHold'[k] = <<>> /\ rdOut'[k] = <<>>
  BY <1>1 DEF RdIInv, RdNothingLost
<1>4. <<>> \in Seq(RdBytes) /\ Len(<<>>) = 0
  BY EmptySeq
<1>5. RdTypeOK'
  BY <1>1, <1>4 DEF RdIInv, RdTypeOK
<1>6. RdInOrder' /\ RdCounts' /\ RdMarked' /\ RdNothingLost'
  BY <1>1, <1>2, <1>3 DEF RdIInv, RdInOrder, RdCounts, RdMarked, RdNothingLost
<1>7. RdSafe' /\ RdOnePass'
  BY <1>1, <1>3, <1>4 DEF RdSafe, RdNoneBegins, RdOnePass
<1> QED
  BY <1>5, <1>6, <1>7 DEF RdIInv

LEMMA RdEndIInv ==
  ASSUME RdIInv, RdEnd
  PROVE  RdIInv'
<1>0. RdTypeOK /\ RdCounts /\ RdMarked /\ RdNothingLost /\ RdSafe /\ RdOnePass /\ RdInOrder
  BY DEF RdIInv
<1> DEFINE N == RdNeedles
<1>1. N \subseteq RdStrings(RdMaxLen) /\ N \subseteq rdValues
  BY <1>0, RdNeedlesAreValues
<1>2. /\ rdValues' = rdValues /\ rdLive' = rdLive /\ rdEnded' /\ rdEnded' = TRUE /\ ~rdEnded /\ N' = N
      /\ rdDemux' = rdDemux /\ rdDemux # "failed"
      /\ rdSaid' = rdSaid /\ rdHeard' = rdHeard /\ rdPassed' = rdPassed /\ rdCut' = rdCut
      /\ rdHold' = [k \in RdStreams |-> <<>>]
      /\ rdOut' = [k \in RdStreams |-> rdOut[k] \o RdClose(k)]
  BY <1>0 DEF RdEnd, RdNeedles, RdNothingLost
<1>3. \A k \in RdStreams : RdKept(k)' = RdKept(k)
  BY <1>2 DEF RdKept
<1>4. ASSUME NEW k \in RdStreams
      PROVE  /\ rdOut'[k] \in Seq(RdBytes \union N)
             /\ RdUnmarked(rdOut'[k]) \o <<>> = RdKept(k)
             /\ RdNoneBegins(N, rdOut'[k], <<>>, TRUE)
             /\ RdApart(N) => rdOut'[k] = RdProcess(N, RdKept(k), TRUE).out
  <2> DEFINE o == rdOut[k]
             h == rdHold[k]
             kept == RdKept(k)
             none == <<>>
  <2>1. /\ h \in Seq(RdBytes) /\ o \in Seq(RdBytes \union N)
        /\ RdUnmarked(o) \o h = kept /\ RdNoneBegins(N, o, h, FALSE)
        /\ RdApart(N) => RdSaves(N, kept, o, h)
    BY <1>0, <1>2 DEF RdTypeOK, RdMarked, RdNothingLost, RdSafe, RdOnePass
  <2>2. kept \in Seq(RdBytes)
    BY <1>0, RdKeptIs
  <2>3. rdOut'[k] = o \o RdProcess(N, h, TRUE).out
    BY <1>2 DEF RdClose
  <2>4. none \in Seq(RdBytes) /\ h \o none = h /\ kept \o none = kept
    BY <2>1, <2>2, EmptySeq, ConcatEmptySeq
  <2>5. PICK s : s = RdProcess(N, h \o none, TRUE)
    OBVIOUS
  <2>6. /\ o \o s.out \in Seq(RdBytes \union N)
        /\ RdUnmarked(o \o s.out) \o s.rest = kept \o none
        /\ RdNoneBegins(N, o \o s.out, s.rest, TRUE)
        /\ s.rest = <<>>
    <3> HIDE DEF o, h, N, none
    <3>1. RdJoins(N, TRUE, o, h, none, kept, s)
      BY <1>1, <2>1, <2>4, <2>5, RdProcessStep
    <3> QED
      BY <3>1 DEF RdJoins
  <2>7. RdApart(N) => RdProcess(N, kept, TRUE).out = o \o RdProcess(N, h, TRUE).out
    BY <2>1, <2>2, RdSavesEnd
  <2>8. rdOut'[k] = o \o s.out
    BY <2>3, <2>4, <2>5
  <2> HIDE DEF o, h, kept, N
  <2>9. rdOut'[k] \in Seq(RdBytes \union N)
    BY <2>6, <2>8
  <2>10. RdUnmarked(rdOut'[k]) \o <<>> = kept
    BY <2>4, <2>6, <2>8
  <2>11. RdNoneBegins(N, rdOut'[k], <<>>, TRUE)
    BY <2>6, <2>8
  <2>12. RdApart(N) => rdOut'[k] = RdProcess(N, kept, TRUE).out
    BY <2>3, <2>7
  <2> QED
    BY <2>9, <2>10, <2>11, <2>12 DEF kept
<1>5. \A k \in RdStreams : rdHold'[k] = <<>>
  BY <1>2
<1>6. RdTypeOK'
  <2>1. <<>> \in Seq(RdBytes)
    BY EmptySeq
  <2>2. \A k \in RdStreams : rdOut'[k] \in Seq(RdBytes \union rdValues)
    BY <1>1, <1>4, SeqMonotonic
  <2>3. rdOut' \in [RdStreams -> Seq(RdBytes \union rdValues)]
    BY <1>2, <2>2
  <2> QED
    BY <1>0, <1>2, <2>1, <2>3 DEF RdTypeOK
<1> HIDE DEF N
<1>7. RdCounts'
  BY <1>0, <1>2, <1>3 DEF RdCounts
<1>8. RdMarked'
  BY <1>2, <1>4 DEF RdMarked, N
<1>9. RdNothingLost'
  BY <1>2, <1>3, <1>4, <1>5 DEF RdNothingLost
<1>10. RdSafe'
  BY <1>2, <1>4, <1>5 DEF RdSafe, N
<1>11. RdOnePass'
  BY <1>2, <1>3, <1>4 DEF RdOnePass, N
<1>12. RdInOrder'
  BY <1>0, <1>2 DEF RdInOrder
<1> QED
  BY <1>12, <1>6, <1>7, <1>8, <1>9, <1>10, <1>11 DEF RdIInv

LEMMA RdNextIInv ==
  ASSUME RdIInv, RdNext
  PROVE  RdIInv'
  BY RdReadIInv, RdUnreadIInv, RdBreakIInv, RdEndIInv, RdFailIInv DEF RdNext

LEMMA RdSameIInv ==
  ASSUME RdIInv, UNCHANGED rdVars
  PROVE  RdIInv'
<1>1. \A k \in RdStreams : RdKept(k)' = RdKept(k)
  BY DEF RdKept, rdVars
<1>2. RdNeedles' = RdNeedles
  BY DEF RdNeedles, rdVars
<1> QED
  BY <1>1, <1>2 DEF RdIInv, RdTypeOK, RdInOrder, RdCounts, RdMarked, RdNothingLost, RdSafe, RdOnePass, rdVars

LEMMA RdIInvRedacted ==
  ASSUME RdIInv
  PROVE  RdRedacted
<1>0. RdTypeOK /\ RdCounts /\ RdMarked /\ RdNothingLost /\ RdSafe /\ RdOnePass /\ RdInOrder
  BY DEF RdIInv
<1>1. ASSUME NEW k \in RdStreams, NEW n \in RdNeedles, NEW i \in 0..Len(rdOut[k]),
             IsPrefix(n, SubSeq(rdOut[k], i + 1, Len(rdOut[k])))
      PROVE  FALSE
  <2> DEFINE out == rdOut[k]
             h == rdHold[k]
             L == Len(out)
             p == i + 1
             end == SubSeq(out, p, L)
             text == out \o h
  <2>1. n \in Seq(RdBytes) /\ Len(n) \in Nat /\ Len(n) >= 1
    BY <1>0, RdNeedlesAreValues, RdStringFacts
  <2>2. out \in Seq(RdBytes \union RdNeedles) /\ h \in Seq(RdBytes \union RdNeedles) /\ L \in Nat
    <3>1. out \in Seq(RdBytes \union RdNeedles) /\ h \in Seq(RdBytes)
      BY <1>0 DEF RdMarked, RdTypeOK
    <3> QED
      BY <3>1, SeqMonotonic, LenProperties
  <2>3. p \in Int /\ L \in Int /\ p >= 1 /\ \A x \in p..L : out[x] \in RdBytes \union RdNeedles
    BY <2>2, ElementOfSeq
  <2>4. RdNoneBegins(RdNeedles, out, h, rdEnded)
    BY <1>0 DEF RdSafe
  <2>5. IsPrefix(n, end)
    BY <1>1
  <2> HIDE DEF out, h, L, p
  <2>6. /\ Len(end) = IF p <= L THEN L - p + 1 ELSE 0
        /\ \A x \in 1..L - p + 1 : end[x] = out[p + x - 1]
    BY <2>3, SubSeqProperties
  <2>7. end \in Seq(RdBytes \union RdNeedles)
    BY <2>3, SubSeqProperties
  <2> HIDE DEF end
  <2>8. Len(n) <= Len(end) /\ SubSeq(n, 1, Len(n)) = SubSeq(end, 1, Len(n))
    BY <2>5 DEF IsPrefix
  <2>9. p <= L /\ Len(n) <= L - p + 1 /\ p \in 1..L
    BY <2>1, <2>3, <2>6, <2>8
  <2>10. \A x \in 1..Len(n) : n[x] = end[x]
    <3>1. SubSeq(n, 1, Len(n)) = n
      BY <2>1, SubSeqFull
    <3>2. Len(end) \in Nat /\ \A x \in 1..Len(n) : end[x] \in RdBytes \union RdNeedles
      BY <2>1, <2>7, <2>8, ElementOfSeq, LenProperties
    <3>3. \A x \in 1..Len(n) - 1 + 1 : SubSeq(end, 1, Len(n))[x] = end[1 + x - 1]
      BY <2>1, <3>2, SubSeqProperties
    <3>4. \A x \in 1..Len(n) : SubSeq(end, 1, Len(n))[x] = end[x]
      BY <2>1, <3>3
    <3> QED
      BY <2>8, <3>1, <3>4
  <2>11. \A x \in 1..Len(n) : out[p + x - 1] = n[x]
    BY <2>1, <2>3, <2>6, <2>9, <2>10
  <2>12. \A x \in 1..L : text[x] = out[x]
    <3>1. \A x \in 1..Len(out) + Len(h) : text[x] = IF x <= Len(out) THEN out[x] ELSE h[x - Len(out)]
      BY <2>2, ConcatProperties
    <3>2. Len(h) \in Nat
      BY <2>2, LenProperties
    <3> HIDE DEF text
    <3> QED
      BY <2>2, <3>1, <3>2 DEF L
  <2> HIDE DEF text
  <2>13. ASSUME NEW x \in 1..Len(n) PROVE text[p + x - 1] = n[x]
    <3>1. p + x - 1 \in 1..L
      BY <2>1, <2>3, <2>9
    <3> QED
      BY <2>11, <2>12, <3>1
  <2>14. RdBegins(n, text, p)
    BY <2>13 DEF RdBegins
  <2>15. out[p] \in RdBytes
    <3>1. 1 \in 1..Len(n) /\ p + 1 - 1 = p
      BY <2>1, <2>3
    <3>2. out[p] = n[1]
      BY <2>11, <3>1
    <3> QED
      BY <2>1, <3>1, <3>2, ElementOfSeq
  <2>16. L - p + 1 < Len(n)
    BY <2>4, <2>9, <2>14, <2>15 DEF RdNoneBegins, L, text
  <2> QED
    BY <2>1, <2>3, <2>9, <2>16
<1>2. ASSUME NEW k \in RdStreams
      PROVE  /\ rdDemux = "failed" => rdOut[k] = <<>>
             /\ rdDemux # "failed" => RdUnmarked(rdOut[k]) \o rdHold[k] = RdKept(k)
             /\ rdDemux # "failed" /\ rdEnded =>
                  \/ rdOut[k] = RdProcess(RdNeedles, RdKept(k), TRUE).out
                  \/ \E m, n \in RdNeedles : m # n /\ IsPrefix(m, n)
  BY <1>0 DEF RdNothingLost, RdOnePass, RdApart
<1>3. ASSUME NEW k \in RdStreams
      PROVE  /\ rdCut[k] <=> Len(rdHeard[k]) > RdLimit
             /\ IsPrefix(rdHeard[k], rdSaid[k])
             /\ rdHeard[k] = rdSaid[k] \/ rdDemux \in {"broken", "failed"} \/ \E j \in RdStreams : rdCut[j]
  BY <1>0 DEF RdCounts, RdInOrder, RdTypeOK
<1> QED
  BY <1>1, <1>2, <1>3 DEF RdRedacted

\* What a command writes, cut into frames as it may be, leaves with every needle
\* of the run replaced: what was read up to the limit, in order and as one pass
\* over it leaves it unless one needle starts with another; and nothing is missing
\* but behind a lost connection, a failure or the flag of a cut
\* (internal/secrets/redact.go:86-127,150-174, internal/docker/exec.go:219-288).
THEOREM SecretsStayHidden == RdSpec => [](RdTypeOK /\ RdRedacted)
<1>1. RdInit => RdIInv
  BY RdInitIInv
<1>2. RdIInv /\ [RdNext]_rdVars => RdIInv'
  BY RdNextIInv, RdSameIInv
<1>3. RdIInv => RdTypeOK /\ RdRedacted
  BY RdIInvRedacted DEF RdIInv
<1> QED
  BY <1>1, <1>2, <1>3, PTL DEF RdSpec
=============================================================================
