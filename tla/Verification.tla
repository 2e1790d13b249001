----------------------------- MODULE Verification -----------------------------
(***************************************************************************)
(* Verifications (cmd/api/handlers/verify.go, internal/verify): an outcome is *)
(* judged against a check, the verdict stored, and sealed at once or later,   *)
(* while the run it is about may still go on and the workspace changes.       *)
(* Digest and HMAC are taken to hold: what is modelled is what they cover.    *)
(***************************************************************************)
EXTENDS Naturals, FiniteSets

CONSTANT VeReqs \* requests that judge an outcome

VARIABLES
  veRun,    \* what the run has stored
  veFile,   \* does the path a check asks for exist?
  veReq,    \* where each request is
  veSaved,  \* rows of run_verifications
  veSealed  \* evidence records handed out

veVars == <<veRun, veFile, veReq, veSaved, veSealed>>

\* The wanted text is not in the output, within the 64 KiB a record embeds of
\* it, or after them.
VeObservation == [exit : {"none", "zero", "other"}, stdout : {"without", "with", "deep"}]
VeUnseen == [exit |-> "none", stdout |-> "without"]
VeJudged ==
  [kind : {"evaluate", "inline"}, spec : {"exit", "stdout", "file"}, obs : VeObservation,
   run : BOOLEAN, passed : BOOLEAN]
VeIdle == [kind |-> "evaluate", spec |-> "exit", obs |-> VeUnseen, run |-> FALSE, passed |-> FALSE]

VeTypeOK ==
  /\ veRun \in VeObservation /\ veFile \in BOOLEAN
  /\ veReq \in [VeReqs -> [at : {"new", "judge", "done"}, rec : VeJudged]]
  /\ veSaved \subseteq VeJudged
  /\ \A s \in veSealed : s.rec \in VeJudged /\ s.cut \in BOOLEAN

VeInit ==
  /\ veRun = VeUnseen /\ veFile \in BOOLEAN
  /\ veReq = [q \in VeReqs |-> [at |-> "new", rec |-> VeIdle]]
  /\ veSaved = {} /\ veSealed = {}

-----------------------------------------------------------------------------
\* The run ends, once.
VeFinish ==
  /\ veRun = VeUnseen
  /\ \E obs \in VeObservation \ {VeUnseen} : obs.exit # "none" /\ veRun' = obs
  /\ UNCHANGED <<veFile, veReq, veSaved, veSealed>>

\* Another command writes the path or removes it.
VeTouch == veFile' = ~veFile /\ UNCHANGED <<veRun, veReq, veSaved, veSealed>>

\* Evaluate and Evidence up to the run row.  What a request says of the outcome
\* stands before the run's in the first, and does not count in the second;
\* silent is what it leaves out.
VeObserve(q) ==
  \E kind \in {"evaluate", "inline"}, spec \in {"exit", "stdout", "file"}, run \in BOOLEAN,
     told \in VeObservation, silent \in SUBSET {"exit", "stdout"} :
    LET obs ==
          IF ~run THEN told
          ELSE [f \in {"exit", "stdout"} |->
                  IF kind = "inline" \/ f \in silent THEN veRun[f] ELSE told[f]] IN
      /\ veReq[q].at = "new"
      /\ veReq' = [veReq EXCEPT ![q] = [at |-> "judge",
           rec |-> [kind |-> kind, spec |-> spec, obs |-> obs, run |-> run, passed |-> FALSE]]]
      /\ UNCHANGED <<veFile, veRun, veSaved, veSealed>>

\* verify.Evaluate of one check; a path is looked up now.
VeEvaluate(rec) ==
  CASE rec.spec = "exit" -> rec.obs.exit = "zero"
    [] rec.spec = "stdout" -> rec.obs.stdout # "without"
    [] rec.spec = "file" -> veFile

\* BuildEvidence embeds the first 64 KiB and marks the cut.
VeBuild(rec) ==
  [rec |-> [rec EXCEPT !.obs.stdout = IF @ = "deep" THEN "without" ELSE @],
   cut |-> rec.obs.stdout = "deep"]

\* The verdict, and Save or the record sealed at once.  Save may fail.
VeJudge(q) ==
  LET rec == [veReq[q].rec EXCEPT !.passed = VeEvaluate(veReq[q].rec)] IN
    /\ veReq[q].at = "judge" /\ veReq' = [veReq EXCEPT ![q].at = "done"]
    /\ \/ rec.kind = "evaluate" /\ veSaved' = veSaved \cup {rec} /\ UNCHANGED veSealed
       \/ rec.kind = "inline" /\ veSealed' = veSealed \cup {VeBuild(rec)} /\ UNCHANGED veSaved
       \/ UNCHANGED <<veSaved, veSealed>>
    /\ UNCHANGED <<veFile, veRun>>

\* A mutant: the observation is read again from the run.
VePopulateRun(rec) == IF rec.run THEN [rec EXCEPT !.obs = veRun] ELSE rec

\* populateEvidenceFromRecord takes observation and verdict from the row.
VePopulate(rec) == rec

\* GetEvidence, and Evidence by the id of a verification.
VeSealSaved ==
  \E rec \in veSaved :
    /\ veSealed' = veSealed \cup {VeBuild(VePopulate(rec))}
    /\ UNCHANGED <<veFile, veRun, veReq, veSaved>>

VeNext ==
  \/ VeFinish \/ VeTouch \/ VeSealSaved
  \/ \E q \in VeReqs : VeObserve(q) \/ VeJudge(q)

VeSpec == VeInit /\ [][VeNext]_veVars

-----------------------------------------------------------------------------
\* The verdict of a sealed record is that of its own observation, unless the
\* record says that it shows a part of it only (verify.go:471).
VeVerdictBelongs ==
  \A s \in veSealed :
    /\ s.rec.spec = "exit" => s.rec.passed = (s.rec.obs.exit = "zero")
    /\ s.rec.spec = "stdout" /\ ~s.cut => s.rec.passed = (s.rec.obs.stdout = "with")

\* verify.go:319, "client overrides must not be HMAC-sealed under a real
\* run_id".  Refuted: see README, Disagreements.
VeTrustAnchor ==
  \A s \in veSealed : s.rec.run =>
    s.rec.obs.exit \in {"none", veRun.exit} /\ s.rec.obs.stdout \in {"without", veRun.stdout}
=============================================================================
