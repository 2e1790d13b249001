------------------------------ MODULE GithubRuns ------------------------------
(***************************************************************************)
(* run_github_repo of the MCP server (sdk/mcp/tools.go, client.go): one tool  *)
(* call creates a session through the API, clones, runs the commands in      *)
(* order and deletes the session.  Every request to the API may be refused,  *)
(* or done although its answer is lost (120 s, or the caller went); a        *)
(* cancelled call asks for nothing any more.                                 *)
(***************************************************************************)
EXTENDS Naturals

CONSTANTS
  GrCalls,    \* tool calls
  GrKeep,     \* those with keep_session
  GrCommands, \* how many commands each call has
  GrMaxFails  \* bound: refused requests and lost answers

ASSUME GithubRunsAssumption ==
  GrKeep \subseteq GrCalls /\ GrCommands \in Nat /\ GrMaxFails \in Nat

VARIABLES
  grAt,        \* what each call does next
  grNext,      \* the command it is at; 0 is the clone
  grCancelled, \* calls whose context is cancelled
  grSession,   \* the session in the API
  grRuns,      \* the runs in the API, by command
  grIsError,   \* isError
  grAnswer,    \* what the tool returned
  grFails      \* failures so far

grVars == <<grAt, grNext, grCancelled, grSession, grRuns, grIsError, grAnswer, grFails>>

\* zero and nonzero: exit codes; noexit: an exec that failed, a run without one.
GrEnds == {"zero", "nonzero", "noexit"}

GrTypeOK ==
  /\ grAt \in [GrCalls -> {"create", "clone", "command", "cleanup", "done"}]
  /\ grNext \in [GrCalls -> 0..GrCommands + 1]
  /\ grCancelled \subseteq GrCalls
  /\ grSession \in [GrCalls -> {"none", "live", "deleted"}]
  /\ grRuns \in [GrCalls -> [0..GrCommands -> {"none", "running", "killed"} \cup GrEnds]]
  /\ grIsError \in [GrCalls -> BOOLEAN]
  /\ grAnswer \in [GrCalls -> {"none", "ok", "error"}] /\ grFails \in 0..GrMaxFails

GrInit ==
  /\ grAt = [c \in GrCalls |-> "create"] /\ grNext = [c \in GrCalls |-> 0]
  /\ grCancelled = {} /\ grSession = [c \in GrCalls |-> "none"]
  /\ grRuns = [c \in GrCalls |-> [i \in 0..GrCommands |-> "none"]]
  /\ grIsError = [c \in GrCalls |-> FALSE] /\ grAnswer = [c \in GrCalls |-> "none"]
  /\ grFails = 0

GrGoes(c, at) == grAt' = [grAt EXCEPT ![c] = at]
GrFail == grFails < GrMaxFails /\ grFails' = grFails + 1

\* vaultRunClient.do: a request under a cancelled context is not sent; any
\* other may be refused.
GrRefused(c) == IF c \in grCancelled THEN UNCHANGED grFails ELSE GrFail

\* The caller goes, or the task is cancelled.
GrCancel(c) ==
  /\ grAt[c] # "done" /\ c \notin grCancelled /\ grCancelled' = grCancelled \cup {c}
  /\ UNCHANGED <<grAt, grNext, grSession, grRuns, grIsError, grAnswer, grFails>>

GrReturn(c, answer) == GrGoes(c, "done") /\ grAnswer' = [grAnswer EXCEPT ![c] = answer]

-----------------------------------------------------------------------------
(* toolRunGithubRepo. *)

\* CreateSession; without its answer the tool does not know the session.
GrCreate(c) ==
  /\ grAt[c] = "create"
  /\ \/ /\ c \notin grCancelled /\ grSession' = [grSession EXCEPT ![c] = "live"]
        /\ \/ GrGoes(c, "clone") /\ UNCHANGED <<grAnswer, grFails>>
           \/ GrFail /\ GrReturn(c, "error")
     \/ GrRefused(c) /\ GrReturn(c, "error") /\ UNCHANGED grSession
  /\ UNCHANGED <<grNext, grCancelled, grRuns, grIsError>>

\* A mutant: a clone without an exit code goes through, as a command does.
GrClonedUnlessFailed(end) == end # "nonzero"

\* cloneRun.ExitCode is there, and zero.
GrCloned(end) == end = "zero"

\* A command stops the sequence when it has an exit code that is not zero.
GrStops(end) == end = "nonzero"

\* RunCommand for the clone or a command: with an answer, with the answer lost
\* while the run goes on, or refused.
GrAsk(c, end, answered) ==
  \/ /\ c \notin grCancelled /\ answered /\ UNCHANGED grFails
     /\ grRuns' = [grRuns EXCEPT ![c][grNext[c]] = end]
  \/ /\ c \notin grCancelled /\ ~answered /\ GrFail
     /\ grRuns' = [grRuns EXCEPT ![c][grNext[c]] = "running"]
  \/ ~answered /\ GrRefused(c) /\ UNCHANGED grRuns

\* After a clone with a token, the remote's URL is set once more; what comes
\* of it is not looked at.
GrClone(c) ==
  /\ grAt[c] = "clone"
  /\ \E end \in GrEnds, answered \in BOOLEAN :
       /\ GrAsk(c, end, answered)
       /\ IF answered /\ GrCloned(end)
          THEN /\ GrGoes(c, IF GrCommands = 0 THEN "cleanup" ELSE "command")
               /\ grNext' = [grNext EXCEPT ![c] = 1] /\ UNCHANGED grIsError
          ELSE /\ GrGoes(c, "cleanup") /\ grIsError' = [grIsError EXCEPT ![c] = TRUE]
               /\ UNCHANGED grNext
  /\ UNCHANGED <<grCancelled, grSession, grAnswer>>

GrCommand(c) ==
  /\ grAt[c] = "command"
  /\ \E end \in GrEnds, answered \in BOOLEAN :
       /\ GrAsk(c, end, answered)
       /\ IF answered /\ ~GrStops(end)
          THEN /\ grNext' = [grNext EXCEPT ![c] = @ + 1] /\ UNCHANGED grIsError
               /\ GrGoes(c, IF grNext[c] = GrCommands THEN "cleanup" ELSE "command")
          ELSE /\ GrGoes(c, "cleanup") /\ grIsError' = [grIsError EXCEPT ![c] = TRUE]
               /\ UNCHANGED grNext
  /\ UNCHANGED <<grCancelled, grSession, grAnswer>>

\* A session that is deleted takes its runs with it.
GrDelete(c) ==
  /\ grSession' = [grSession EXCEPT ![c] = "deleted"]
  /\ LET Kill(end) == IF end = "running" THEN "killed" ELSE end
     IN grRuns' = [grRuns EXCEPT ![c] = [i \in 0..GrCommands |-> Kill(grRuns[c][i])]]

\* cleanup, under the context of the call, and the answer.
GrCleanup(c) ==
  /\ grAt[c] = "cleanup" /\ GrReturn(c, IF grIsError[c] THEN "error" ELSE "ok")
  /\ IF c \in GrKeep THEN UNCHANGED <<grSession, grRuns, grFails>>
     ELSE \/ c \notin grCancelled /\ GrDelete(c) /\ UNCHANGED grFails
          \/ GrRefused(c) /\ UNCHANGED <<grSession, grRuns>>
  /\ UNCHANGED <<grNext, grCancelled, grIsError>>

\* A run nobody waits for comes to its end.
GrRunEnds(c) ==
  /\ \E i \in 0..GrCommands, end \in GrEnds :
       grRuns[c][i] = "running" /\ grRuns' = [grRuns EXCEPT ![c][i] = end]
  /\ UNCHANGED <<grAt, grNext, grCancelled, grSession, grIsError, grAnswer, grFails>>

GrNext == \E c \in GrCalls : \/ GrCancel(c) \/ GrCreate(c) \/ GrClone(c) \/ GrCommand(c)
                             \/ GrCleanup(c) \/ GrRunEnds(c)

GrSpec == GrInit /\ [][GrNext]_grVars

-----------------------------------------------------------------------------
(* Properties. *)

\* The tool description: "Clone a GitHub repository into a new sandbox session
\* and run commands sequentially."  Nothing runs without a clone that exited
\* with zero, nor after a run that failed or is not known to have ended; a
\* result that is no error means that all of them ran; and a session that
\* is kept stays.
GrInOrder ==
  \A c \in GrCalls :
    /\ \A i \in 1..GrCommands : grRuns[c][i] # "none" =>
         grRuns[c][0] = "zero" /\ \A j \in 1..i - 1 : grRuns[c][j] \in {"zero", "noexit"}
    /\ grAnswer[c] = "ok" =>
         grRuns[c][0] = "zero" /\ \A i \in 1..GrCommands : grRuns[c][i] \in {"zero", "noexit"}
    /\ c \in GrKeep => grSession[c] # "deleted"

\* tools.go:1518: "(session will be deleted)": after the call the session is
\* gone, whoever cancelled.
GrSessionGone ==
  \A c \in GrCalls \ GrKeep : grAnswer[c] # "none" => grSession[c] # "live"

\* toolRunCommand, tools.go:1056: a run with status failed is an error.  A
\* result that is no error has no failed run.
GrGreen == \A c \in GrCalls : grAnswer[c] = "ok" => \A i \in 0..GrCommands : grRuns[c][i] = "zero"
=============================================================================
