------------------------------- MODULE CiRunner -------------------------------
(***************************************************************************)
(* The CI runner (cmd/ci-runner): each pull request webhook starts a         *)
(* goroutine that drives a VaultRun session and reports to GitHub.  A call   *)
(* to either service works only while the context of the goroutine lives:    *)
(* the context of the webhook request.  Comments, chat messages and the      *)
(* texts of all reports are left out.                                        *)
(***************************************************************************)
EXTENDS Naturals, FiniteSets

CONSTANTS
  CiRuns,     \* webhooks
  CiCommits,  \* bound: commits pushed to the branch
  CiCommands, \* length of CI_TEST_COMMANDS
  CiMaxFails  \* bound: calls that fail

ASSUME CiRunnerAssumption == CiCommits \in Nat \ {0} /\ CiCommands \in Nat \ {0} /\ CiMaxFails \in Nat

VARIABLES
  ciHead,     \* the commit at the head of the branch
  ciSha,      \* the commit each webhook names, 0 before
  ciAt,       \* what each goroutine does next
  ciDone,     \* test commands it has been through
  ciPass,     \* allPass
  ciCloned,   \* the commit its clone holds
  ciPassed,   \* test commands that exited 0
  ciLive,     \* handlers that have not returned: their context lives
  ciSessions, \* goroutines whose session exists
  ciStatus,   \* the status of each commit, and the goroutine that set it
  ciServer,   \* up, closing, exited
  ciFails     \* failures so far

ciVars == <<ciHead, ciSha, ciAt, ciDone, ciPass, ciCloned, ciPassed, ciLive, ciSessions, ciStatus,
            ciServer, ciFails>>

CiPlaces == {"none", "pending", "session", "clone", "command", "delete", "status", "ended"}
CiStates == {"none", "pending", "success", "failure"}

CiTypeOK ==
  /\ ciHead \in 1..CiCommits /\ ciSha \in [CiRuns -> 0..CiCommits]
  /\ ciAt \in [CiRuns -> CiPlaces]
  /\ ciDone \in [CiRuns -> 0..CiCommands] /\ ciPassed \in [CiRuns -> 0..CiCommands]
  /\ ciPass \in [CiRuns -> BOOLEAN] /\ ciCloned \in [CiRuns -> 0..CiCommits]
  /\ ciLive \subseteq CiRuns /\ ciSessions \subseteq CiRuns
  /\ ciStatus \in [1..CiCommits -> CiStates \X (CiRuns \cup {"nobody"})]
  /\ ciServer \in {"up", "closing", "exited"} /\ ciFails \in 0..CiMaxFails

CiInit ==
  /\ ciHead = 1 /\ ciSha = [r \in CiRuns |-> 0] /\ ciAt = [r \in CiRuns |-> "none"]
  /\ ciDone = [r \in CiRuns |-> 0] /\ ciPassed = [r \in CiRuns |-> 0]
  /\ ciPass = [r \in CiRuns |-> TRUE] /\ ciCloned = [r \in CiRuns |-> 0]
  /\ ciLive = {} /\ ciSessions = {}
  /\ ciStatus = [c \in 1..CiCommits |-> <<"none", "nobody">>]
  /\ ciServer = "up" /\ ciFails = 0

CiAtStep(r, place) == ciAt[r] = place /\ ciServer # "exited"
CiGoes(r, place) == ciAt' = [ciAt EXCEPT ![r] = place]

\* A call to GitHub or to VaultRun: it fails once the context is cancelled.
CiWorks(r) == r \in ciLive /\ UNCHANGED ciFails
CiBreaks(r) ==
  \/ r \notin ciLive /\ UNCHANGED ciFails
  \/ ciFails < CiMaxFails /\ ciFails' = ciFails + 1

CiPush ==
  /\ ciHead < CiCommits /\ ciHead' = ciHead + 1
  /\ UNCHANGED <<ciSha, ciAt, ciDone, ciPass, ciCloned, ciPassed, ciLive, ciSessions, ciStatus,
                 ciServer, ciFails>>

\* ServeHTTP for an opened, synchronised or reopened pull request.
CiWebhook(r) ==
  /\ ciAt[r] = "none" /\ ciServer = "up"
  /\ \E sha \in 1..ciHead : ciSha' = [ciSha EXCEPT ![r] = sha]
  /\ CiGoes(r, "pending") /\ ciLive' = ciLive \cup {r}
  /\ UNCHANGED <<ciHead, ciDone, ciPass, ciCloned, ciPassed, ciSessions, ciStatus, ciServer, ciFails>>

\* net/http cancels the context of the request when its handler has returned.
CiHandlerReturns(r) ==
  /\ r \in ciLive /\ ciLive' = ciLive \ {r}
  /\ UNCHANGED <<ciHead, ciSha, ciAt, ciDone, ciPass, ciCloned, ciPassed, ciSessions, ciStatus,
                 ciServer, ciFails>>

-----------------------------------------------------------------------------
(* runCI. *)

CiReport(r, state) == ciStatus' = [ciStatus EXCEPT ![ciSha[r]] = <<state, r>>]

CiPending(r) ==
  /\ CiAtStep(r, "pending") /\ CiGoes(r, "session")
  /\ \/ CiWorks(r) /\ CiReport(r, "pending")
     \/ CiBreaks(r) /\ UNCHANGED ciStatus
  /\ UNCHANGED <<ciHead, ciSha, ciDone, ciPass, ciCloned, ciPassed, ciLive, ciSessions, ciServer>>

CiCreateSession(r) ==
  /\ CiAtStep(r, "session")
  /\ \/ CiWorks(r) /\ CiGoes(r, "clone") /\ ciSessions' = ciSessions \cup {r} /\ UNCHANGED ciPass
     \/ CiBreaks(r) /\ CiGoes(r, "status") /\ ciPass' = [ciPass EXCEPT ![r] = FALSE]
        /\ UNCHANGED ciSessions
  /\ UNCHANGED <<ciHead, ciSha, ciDone, ciCloned, ciPassed, ciLive, ciStatus, ciServer>>

\* The clone is of the branch, at the commit it has by then.
CiClone(r) ==
  /\ CiAtStep(r, "clone")
  /\ \/ CiWorks(r) /\ CiGoes(r, "command") /\ ciCloned' = [ciCloned EXCEPT ![r] = ciHead]
        /\ UNCHANGED ciPass
     \/ /\ CiWorks(r) \/ CiBreaks(r)
        /\ CiGoes(r, "delete") /\ ciPass' = [ciPass EXCEPT ![r] = FALSE] /\ UNCHANGED ciCloned
  /\ UNCHANGED <<ciHead, ciSha, ciDone, ciPassed, ciLive, ciSessions, ciStatus, ciServer>>

\* A mutant: a command that could not be run is left out of allPass.
CiFailsPassUnrun(r, ran) == ran

\* A command that failed, or could not be run, fails the whole.
CiFailsPass(r, ran) == TRUE

\* One test command; after a failure the others are skipped.
CiCommand(r) ==
  /\ CiAtStep(r, "command")
  /\ LET next == ciDone[r] + 1 IN
       /\ ciDone' = [ciDone EXCEPT ![r] = next]
       /\ CiGoes(r, IF next = CiCommands THEN "delete" ELSE "command")
       /\ \/ /\ ~ciPass[r] /\ UNCHANGED <<ciPass, ciPassed, ciFails>>
          \/ /\ ciPass[r] /\ CiWorks(r)
             /\ ciPassed' = [ciPassed EXCEPT ![r] = @ + 1] /\ UNCHANGED ciPass
          \/ /\ ciPass[r] /\ UNCHANGED ciPassed
             /\ \E ran \in BOOLEAN :
                  /\ IF ran THEN CiWorks(r) ELSE CiBreaks(r)
                  /\ ciPass' = [ciPass EXCEPT ![r] = ~CiFailsPass(r, ran)]
  /\ UNCHANGED <<ciHead, ciSha, ciCloned, ciLive, ciSessions, ciStatus, ciServer>>

\* The deferred DeleteSession; its error is dropped.
CiDelete(r) ==
  /\ CiAtStep(r, "delete") /\ CiGoes(r, "status")
  /\ \/ CiWorks(r) /\ ciSessions' = ciSessions \ {r}
     \/ CiBreaks(r) /\ UNCHANGED ciSessions
  /\ UNCHANGED <<ciHead, ciSha, ciDone, ciPass, ciCloned, ciPassed, ciLive, ciStatus, ciServer>>

\* postResults.
CiPostResults(r) ==
  /\ CiAtStep(r, "status") /\ CiGoes(r, "ended")
  /\ \/ CiWorks(r) /\ CiReport(r, IF ciPass[r] THEN "success" ELSE "failure")
     \/ CiBreaks(r) /\ UNCHANGED ciStatus
  /\ UNCHANGED <<ciHead, ciSha, ciDone, ciPass, ciCloned, ciPassed, ciLive, ciSessions, ciServer>>

-----------------------------------------------------------------------------
(* main: Shutdown waits for handlers, not for goroutines. *)

CiShutdown ==
  /\ ciServer = "up" /\ ciServer' = "closing"
  /\ UNCHANGED <<ciHead, ciSha, ciAt, ciDone, ciPass, ciCloned, ciPassed, ciLive, ciSessions,
                 ciStatus, ciFails>>

CiExit ==
  /\ ciServer = "closing" /\ ciLive = {} /\ ciServer' = "exited"
  /\ UNCHANGED <<ciHead, ciSha, ciAt, ciDone, ciPass, ciCloned, ciPassed, ciLive, ciSessions,
                 ciStatus, ciFails>>

CiNext ==
  \/ CiPush \/ CiShutdown \/ CiExit
  \/ \E r \in CiRuns : \/ CiWebhook(r) \/ CiHandlerReturns(r)
                       \/ CiPending(r) \/ CiCreateSession(r) \/ CiClone(r) \/ CiCommand(r)
                       \/ CiDelete(r) \/ CiPostResults(r)

CiSpec == CiInit /\ [][CiNext]_ciVars

-----------------------------------------------------------------------------
(* Properties. *)

\* A commit is green only when every test command was run and exited 0, in
\* every order of errors, cancellation and other runs of the same commit
\* (executeSteps).
CiGreenEarned ==
  \A c \in 1..CiCommits :
    ciStatus[c][1] = "success" => ciPassed[ciStatus[c][2]] = CiCommands

\* runner.go: the pipeline ends with "the result as a PR comment + final commit
\* status"; a run to which no call failed has reported it.
CiResultPosted ==
  ciFails = 0 =>
    \A r \in CiRuns : ciAt[r] = "ended" => ciStatus[ciSha[r]][1] \in {"success", "failure"}

\* docs/ci-runner.md: the runner "waits up to 5 minutes for in-flight CI runs
\* to complete before exiting".
CiDrained == ciServer = "exited" => \A r \in CiRuns : ciAt[r] \in {"none", "ended"}

\* The result is that of the commit it is posted on.
CiTestsCommit ==
  \A c \in 1..CiCommits : ciStatus[c][1] = "success" => ciCloned[ciStatus[c][2]] = c
=============================================================================
