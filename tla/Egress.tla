-------------------------------- MODULE Egress --------------------------------
(***************************************************************************)
(* The network of a sandbox with egress rules (internal/docker/container.go *)
(* CreateSandbox and StopSandbox, netpolicy.go): a bridge network of its    *)
(* own, iptables chains for traffic that is forwarded and traffic to the    *)
(* host, and a rule that drops IPv6.  Every call to the daemon may fail, or *)
(* be done although its answer is lost, and so may each iptables command    *)
(* and each step of a cleanup.  Which addresses a rule names is left out.   *)
(***************************************************************************)
EXTENDS Naturals, Sequences, FiniteSets

CONSTANTS
  EgSessions, \* sessions with network_enabled and an enforceable policy
  EgV6,       \* whether ip6tables is installed
  EgMaxFails  \* bound: failures of calls

ASSUME EgressAssumption == EgV6 \in BOOLEAN /\ EgMaxFails \in Nat

VARIABLES
  egStep,     \* where the creation or removal of each sandbox is
  egNetworks, \* session networks that exist
  egBox,      \* the container: none, created, running
  egRules,    \* the rules and chains of each sandbox that are in place
  egNext,     \* the number of rules applied so far
  egStops,    \* StopSandbox calls: what each has done
  egSpoilt,   \* history: a call that cleans up failed, or an answer was lost
  egFails     \* failures so far

egVars == <<egStep, egNetworks, egBox, egRules, egNext, egStops, egSpoilt, egFails>>

EgStops == {"user", "expiry"}
EgSteps == {"idle", "network", "box", "start", "up", "unrule", "unbox", "unnet", "gone"}
EgStopSteps == {"none", "inspected", "blind", "removed", "unruled", "done"}
EgRuleNames == {"chain", "forward", "in-chain", "input", "v6"}

EgTypeOK ==
  /\ egStep \in [EgSessions -> EgSteps] /\ egNetworks \subseteq EgSessions
  /\ egBox \in [EgSessions -> {"none", "created", "running"}]
  /\ egRules \in [EgSessions -> SUBSET EgRuleNames]
  /\ egNext \in [EgSessions -> 0..5] /\ egStops \in [EgSessions \X EgStops -> EgStopSteps]
  /\ egSpoilt \subseteq EgSessions /\ egFails \in 0..EgMaxFails

EgInit ==
  /\ egStep = [s \in EgSessions |-> "idle"] /\ egNetworks = {}
  /\ egBox = [s \in EgSessions |-> "none"] /\ egRules = [s \in EgSessions |-> {}]
  /\ egNext = [s \in EgSessions |-> 0] /\ egSpoilt = {} /\ egFails = 0
  /\ egStops = [p \in EgSessions \X EgStops |-> "none"]

EgMove(s, step) == egStep' = [egStep EXCEPT ![s] = step]
EgFail == egFails < EgMaxFails /\ egFails' = egFails + 1
EgSpoil(s) == egSpoilt' = egSpoilt \cup {s}
EgBecomeBox(s, box) == egBox' = [egBox EXCEPT ![s] = box]

\* The order in which applyEgressPolicy installs; chains go with their rules.
EgApplied == <<"chain", "forward", "in-chain", "input", "v6">>

\* A chain that something still jumps to cannot be deleted.
EgDeletable(rules, rule) ==
  /\ rule \in rules
  /\ rule = "in-chain" => "input" \notin rules
  /\ rule = "chain" => "forward" \notin rules

\* What removeEgressPolicy may leave: everything goes, or commands that failed
\* left their rule, and with it the chain it jumps to.
EgLeft(rules) ==
  {left \in SUBSET rules :
     \A rule \in rules \ left :
       EgDeletable(left \cup {rule}, rule)}

-----------------------------------------------------------------------------
(* CreateSandbox. *)

\* NetworkCreate and NetworkInspect.  A network that is made although the
\* answer is lost, or that cannot be inspected nor removed, stays.
EgNetwork(s) ==
  /\ egStep[s] = "idle"
  /\ \/ EgMove(s, "network") /\ egNetworks' = egNetworks \cup {s} /\ UNCHANGED <<egFails, egSpoilt>>
     \/ EgFail /\ EgMove(s, "gone") /\ UNCHANGED <<egNetworks, egSpoilt>>
     \/ EgFail /\ EgMove(s, "gone") /\ egNetworks' = egNetworks \cup {s} /\ EgSpoil(s)
  /\ UNCHANGED <<egBox, egRules, egNext, egStops>>

\* ContainerCreate.  When it fails the network alone is removed.
EgCreate(s) ==
  /\ egStep[s] = "network"
  /\ \/ EgMove(s, "box") /\ EgBecomeBox(s, "created") /\ UNCHANGED <<egFails, egNetworks, egSpoilt>>
     \/ /\ EgFail /\ EgMove(s, "gone")
        /\ egNetworks' = egNetworks \ {s} /\ UNCHANGED <<egSpoilt, egBox>>
     \/ /\ EgFail /\ EgMove(s, "gone") /\ EgSpoil(s)
        /\ egNetworks' \in {egNetworks, egNetworks \ {s}}
        /\ \E box \in {"none", "created"} : EgBecomeBox(s, box)
  /\ UNCHANGED <<egRules, egNext, egStops>>

\* One iptables command group of applyEgressPolicy; ip6tables may be missing.
\* A group that fails may have made its chain.
EgApply(s) ==
  LET rule == EgApplied[egNext[s] + 1]
      rules == IF rule = "v6" /\ ~EgV6 THEN egRules[s] ELSE egRules[s] \cup {rule} IN
    /\ egStep[s] = "box"
    /\ \/ /\ egNext' = [egNext EXCEPT ![s] = @ + 1]
          /\ egRules' = [egRules EXCEPT ![s] = rules]
          /\ IF egNext[s] + 1 = Len(EgApplied) THEN EgMove(s, "start") ELSE UNCHANGED egStep
          /\ UNCHANGED egFails
       \/ /\ EgFail /\ EgMove(s, "unrule") /\ UNCHANGED egNext
          /\ \E left \in {egRules[s], rules} : egRules' = [egRules EXCEPT ![s] = left]
    /\ UNCHANGED <<egNetworks, egBox, egStops, egSpoilt>>

\* ContainerStart: failed, the container runs when only its answer was lost.
EgStart(s) ==
  /\ egStep[s] = "start"
  /\ \/ EgMove(s, "up") /\ EgBecomeBox(s, "running") /\ UNCHANGED <<egFails, egSpoilt>>
     \/ EgFail /\ EgMove(s, "unrule") /\ UNCHANGED <<egBox, egSpoilt>>
     \/ EgFail /\ EgMove(s, "unrule") /\ EgBecomeBox(s, "running") /\ EgSpoil(s)
  /\ UNCHANGED <<egNext, egStops, egNetworks, egRules>>

-----------------------------------------------------------------------------
(* The steps of a cleanup, whose errors are logged or dropped. *)

\* removeEgressPolicy.
EgDropRules(s) ==
  \/ egRules' = [egRules EXCEPT ![s] = {}] /\ UNCHANGED <<egFails, egSpoilt>>
  \/ /\ EgFail /\ EgSpoil(s)
     /\ \E left \in EgLeft(egRules[s]) : egRules' = [egRules EXCEPT ![s] = left]

\* ContainerStop and ContainerRemove: either may be all that is done, or both
\* although the answer is lost.
EgDropBox(s) ==
  \/ EgBecomeBox(s, "none") /\ UNCHANGED <<egFails, egSpoilt>>
  \/ /\ EgFail /\ EgSpoil(s)
     /\ \E box \in {egBox[s], "none"} \cup (IF egBox[s] = "running" THEN {"created"} ELSE {}) :
          EgBecomeBox(s, box)

\* NetworkRemove: the daemon keeps a network a container runs in.
EgDropNetwork(s) ==
  \/ egBox[s] # "running" /\ egNetworks' = egNetworks \ {s} /\ UNCHANGED <<egFails, egSpoilt>>
  \/ egBox[s] = "running" /\ EgSpoil(s) /\ UNCHANGED <<egNetworks, egFails>>
  \/ EgFail /\ EgSpoil(s) /\ egNetworks' \in {egNetworks, egNetworks \ {s}}

\* A creation that failed after its container was made is undone in this order.
EgUndo(s) ==
  /\ \/ /\ egStep[s] = "unrule" /\ EgMove(s, "unbox") /\ EgDropRules(s)
        /\ UNCHANGED <<egBox, egNetworks>>
     \/ /\ egStep[s] = "unbox" /\ EgMove(s, "unnet") /\ EgDropBox(s)
        /\ UNCHANGED <<egRules, egNetworks>>
     \/ /\ egStep[s] = "unnet" /\ EgMove(s, "gone") /\ EgDropNetwork(s)
        /\ UNCHANGED <<egRules, egBox>>
  /\ UNCHANGED <<egNext, egStops>>

-----------------------------------------------------------------------------
(* StopSandbox.  A deletion and the expiry loop may run it at once, and a
   deletion again later. *)

EgStopMove(s, k, step) == egStops' = [egStops EXCEPT ![<<s, k>>] = step]

\* Only a caller that could inspect the container knows its network.
EgInspect(s, k) ==
  /\ egStep[s] = "up" /\ egStops[s, k] \in {"none", "done"}
  /\ \/ egBox[s] # "none" /\ EgStopMove(s, k, "inspected") /\ UNCHANGED <<egSpoilt, egFails>>
     \/ egBox[s] = "none" /\ EgStopMove(s, k, "blind") /\ UNCHANGED <<egSpoilt, egFails>>
     \/ egBox[s] # "none" /\ EgFail /\ EgStopMove(s, k, "blind") /\ EgSpoil(s)
  /\ UNCHANGED <<egStep, egNetworks, egBox, egRules, egNext>>

\* A mutant: the rules go first.
EgRemoveRulesFirst(s, k) ==
  /\ egStops[s, k] = "inspected" /\ EgStopMove(s, k, "removed") /\ EgDropRules(s)
  /\ UNCHANGED <<egStep, egNetworks, egBox, egNext>>

EgRemove(s, k) ==
  /\ \/ egStops[s, k] = "inspected" /\ EgStopMove(s, k, "removed")
     \/ egStops[s, k] = "blind" /\ EgStopMove(s, k, "done")
  /\ EgDropBox(s)
  /\ UNCHANGED <<egStep, egNetworks, egRules, egNext>>

\* The rules and the network; the second of two callers finds them gone.
EgUnrule(s, k) ==
  /\ egStops[s, k] = "removed" /\ EgStopMove(s, k, "unruled") /\ EgDropRules(s)
  /\ UNCHANGED <<egStep, egNetworks, egBox, egNext>>

EgUnnet(s, k) ==
  /\ egStops[s, k] = "unruled" /\ EgStopMove(s, k, "done") /\ EgDropNetwork(s)
  /\ UNCHANGED <<egStep, egRules, egBox, egNext>>

EgNext ==
  \E s \in EgSessions :
    \/ EgNetwork(s) \/ EgCreate(s) \/ EgApply(s) \/ EgStart(s) \/ EgUndo(s)
    \/ \E k \in EgStops : EgInspect(s, k) \/ EgRemove(s, k) \/ EgUnrule(s, k) \/ EgUnnet(s, k)

EgSpec == EgInit /\ [][EgNext]_egVars

-----------------------------------------------------------------------------
(* Properties. *)

EgNeeded == EgRuleNames \ (IF EgV6 THEN {} ELSE {"v6"})

\* A sandbox that runs has every rule of its policy in place, from before it
\* starts until it is removed, unless a call that cleans up failed or the
\* answer to one of CreateSandbox or StopSandbox was lost.
EgEnforced ==
  \A s \in EgSessions :
    egBox[s] = "running" /\ s \notin egSpoilt => EgNeeded \subseteq egRules[s]

\* container.go:307, "returning an error prevents a sandbox declared with
\* AllowedHosts from running with unrestricted network access".  Refuted: when
\* the answer to ContainerStart is lost the rules are removed, and the container
\* after them, on the context that may have ended.
EgNeverUnruled ==
  \A s \in EgSessions : egBox[s] = "running" => EgNeeded \subseteq egRules[s]

\* A creation that failed and a sandbox that was stopped leave no network, no
\* rule and no container, with the same exception.
EgNothingLeft ==
  \A s \in EgSessions :
    /\ s \notin egSpoilt
    /\ \/ egStep[s] = "gone"
       \/ /\ \E k \in EgStops : egStops[s, k] = "done"
          /\ \A k \in EgStops : egStops[s, k] \in {"none", "done"}
    => egBox[s] = "none" /\ s \notin egNetworks /\ egRules[s] = {}

\* Both together: a sandbox's rules are there exactly as long as it may run.
EgRulesFollowBox == EgEnforced /\ EgNothingLeft
=============================================================================
