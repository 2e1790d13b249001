------------------------------ MODULE CostReports ------------------------------
(***************************************************************************)
(* What is stored and what is reported of the costs (internal/cost/          *)
(* tracker.go, handlers/costs.go): metrics are signed before the database     *)
(* rounds them, and a report is put together from several statements while   *)
(* sweeps record metrics and the operator changes memberships.  When metrics *)
(* are recorded is the module Costs'; nothing in the program creates alerts, *)
(* so that their part of the reports is always empty.                        *)
(***************************************************************************)
EXTENDS Naturals, FiniteSets

CONSTANTS
  CrPrincipals, \* API keys
  CrOrgs,       \* organisations
  CrSessions,   \* sessions
  CrMonths,     \* months
  CrReqs,       \* requests
  CrEnds,       \* ends of periods: a period began at 0, ten units are a microsecond
  CrLimits,     \* monthly limits: ten units are a cent
  CrTop,        \* limit: the sessions a breakdown lists
  CrMaxMetrics, \* bound: metrics
  CrMaxAdmin    \* bound: changes of memberships

ASSUME CostReportsAssumption ==
  /\ CrEnds \subseteq Nat /\ CrLimits \subseteq Nat /\ CrTop \in Nat /\ CrMaxMetrics \in Nat
  /\ CrMaxAdmin \in Nat /\ {"none", "master"} \cap (CrPrincipals \cup CrOrgs \cup CrSessions) = {}
  /\ IsFiniteSet(CrSessions) /\ CrOrgs \cap CrSessions = {}

VARIABLES
  crOwner,   \* sessions.created_by, "none" while there is no session
  crOrg,     \* sessions.org_id
  crRole,    \* org_members
  crMetrics, \* cost_metrics
  crBudget,  \* cost_budgets.monthly_limit by organisation and month, 0 while there is none
  crReq,     \* each request
  crAdmin    \* changes so far

crVars == <<crOwner, crOrg, crRole, crMetrics, crBudget, crReq, crAdmin>>

CrCallers == CrPrincipals \cup {"master"}
CrRoles == {"none", "viewer", "admin"}

CrTypeOK ==
  /\ crOwner \in [CrSessions -> CrCallers \cup {"none"}]
  /\ crOrg \in [CrSessions -> CrOrgs \cup {"none"}]
  /\ crRole \in [CrOrgs -> [CrPrincipals -> CrRoles]]
  /\ \A m \in crMetrics : m.session \in CrSessions /\ m.month \in CrMonths /\ m.total \in Nat
  /\ crBudget \in [CrOrgs -> [CrMonths -> Nat]]
  /\ \A q \in CrReqs :
       /\ crReq[q].pc \in {"idle", "totals", "top", "count", "list", "summary", "role", "org",
                           "budget", "set", "done", "refused"}
       /\ crReq[q].seen \subseteq CrSessions /\ crReq[q].total \in Nat /\ crReq[q].count \in Nat
       /\ crReq[q].stable \in BOOLEAN
  /\ crAdmin \in 0..CrMaxAdmin

CrIdle ==
  [pc |-> "idle", who |-> "none", on |-> "none", month |-> "none", seen |-> {}, stable |-> TRUE,
   total |-> 0, top |-> {}, count |-> 0]

CrInit ==
  /\ crOwner = [s \in CrSessions |-> "none"] /\ crOrg = [s \in CrSessions |-> "none"]
  /\ crRole = [o \in CrOrgs |-> [p \in CrPrincipals |-> "none"]]
  /\ crMetrics = {} /\ crBudget = [o \in CrOrgs |-> [m \in CrMonths |-> 0]]
  /\ crReq = [q \in CrReqs |-> CrIdle] /\ crAdmin = 0

-----------------------------------------------------------------------------
(* Metrics. *)

\* roundTo, and what a DECIMAL column does.
CrRound(v, quantum) == ((v + quantum \div 2) \div quantum) * quantum

\* Truncate(time.Microsecond); the column rounds.
CrTruncate(v) == (v \div 10) * 10

\* The columns of a row.
CrColumns(m) ==
  [m EXCEPT !.end = CrRound(@, 10), !.cpu = CrRound(@, 4), !.memory = CrRound(@, 4),
            !.compute = CrRound(@, 10), !.total = CrRound(@, 10)]

\* checksum covers every field that makes a metric's meaning; sign covers the
\* checksum.
CrChecksum(m) == <<m.session, m.month, m.end, m.cpu, m.memory, m.compute, m.total>>

\* calculateComputeCost: the rates of the one rate card; storage and network
\* are not metered.
CrCost(cpu, memory) == 2 * cpu + memory

\* A mutant: the sum is taken of costs that are not rounded yet.
CrMetricUnrounded(s, month, end) ==
  LET cpu == CrRound(end, 4)
      memory == CrRound(3 * end, 4) IN
    [session |-> s, month |-> month, end |-> CrTruncate(end), cpu |-> cpu, memory |-> memory,
     compute |-> CrRound(CrCost(cpu, memory), 10), total |-> CrCost(cpu, memory),
     checksum |-> <<>>, n |-> 0]

\* RecordMetric, up to the INSERT: every field is brought to what its column
\* holds, costs are taken from rounded usage.
CrMetric(s, month, end) ==
  LET cpu == CrRound(end, 4)
      memory == CrRound(3 * end, 4)
      compute == CrRound(CrCost(cpu, memory), 10) IN
    [session |-> s, month |-> month, end |-> CrTruncate(end), cpu |-> cpu, memory |-> memory,
     compute |-> compute, total |-> CrRound(compute, 10), checksum |-> <<>>, n |-> 0]

CrRecord(s, month, end) ==
  /\ crOwner[s] # "none" /\ Cardinality(crMetrics) < CrMaxMetrics
  /\ LET m == CrMetric(s, month, end)
         row == [CrColumns(m) EXCEPT !.checksum = CrChecksum(m), !.n = Cardinality(crMetrics)] IN
       crMetrics' = crMetrics \cup {row}
  /\ UNCHANGED <<crOwner, crOrg, crRole, crBudget, crReq, crAdmin>>

\* VerifyMetric, with a signing key.
CrVerify(row) == CrChecksum(row) = row.checksum

CrOf(ss, months) == {m \in crMetrics : m.session \in ss /\ m.month \in months}

\* SUM(total_cost), counted unit by unit.
CrUnits(ms) == UNION {{m} \X (1..m.total) : m \in ms}
CrSum(ms) == Cardinality(CrUnits(ms))

-----------------------------------------------------------------------------
(* Sessions and memberships. *)

\* A principal's role in an organisation; the master key may do anything.
CrRoleIn(role, o, p) == IF p = "master" THEN "admin" ELSE IF o = "none" THEN "none" ELSE role[o][p]

\* checkSessionAccess for a viewer.
CrMaySee(p, org, role) ==
  {s \in CrSessions : crOwner[s] # "none" /\ (crOwner[s] = p \/ CrRoleIn(role, org[s], p) # "none")}

\* A mutant: what is seen is what the organisations have.
CrPredicateOrgs(p, s) == crOrg[s] # "none" \/ crOwner[s] = p

\* sessionPredicate, the condition in a query.
CrPredicate(p, s) ==
  \/ p = "master" \/ crOwner[s] = p
  \/ p # "master" /\ crOrg[s] \in {o \in CrOrgs : crRole[o][p] # "none"}

CrVisible(p) == {s \in CrSessions : crOwner[s] # "none" /\ CrPredicate(p, s)}

\* What a caller comes to see is noted with its request, and that it changed.
CrNote(org, role) ==
  [q \in CrReqs |->
     LET who == crReq[q].who
         now == CrMaySee(who, org, role) IN
       IF who = "none" THEN crReq[q]
       ELSE [crReq[q] EXCEPT !.seen = @ \cup now, !.stable = @ /\ now = CrMaySee(who, crOrg, crRole)]]

\* Create, for no organisation or by a member that is more than a viewer; the
\* session has no metrics yet.
CrCreate(s, p, o) ==
  /\ crOwner[s] = "none" /\ (IF o = "none" THEN TRUE ELSE CrRoleIn(crRole, o, p) = "admin")
  /\ crOwner' = [crOwner EXCEPT ![s] = p] /\ crOrg' = [crOrg EXCEPT ![s] = o]
  /\ crReq' = [q \in CrReqs |->
                 IF crReq[q].who = p \/ (crReq[q].who # "none" /\ CrRoleIn(crRole, o, crReq[q].who) # "none")
                 THEN [crReq[q] EXCEPT !.seen = @ \cup {s}] ELSE crReq[q]]
  /\ UNCHANGED <<crRole, crMetrics, crBudget, crAdmin>>

CrSetMember(o, p, r) ==
  /\ crRole[o][p] # r /\ crAdmin < CrMaxAdmin /\ crAdmin' = crAdmin + 1
  /\ crRole' = [crRole EXCEPT ![o][p] = r] /\ crReq' = CrNote(crOrg, crRole')
  /\ UNCHANGED <<crOwner, crOrg, crMetrics, crBudget>>

\* DeleteOrg: memberships and budgets go, its sessions stay without one.  What
\* is left is an organisation that was made anew.
CrDeleteOrg(o) ==
  /\ crAdmin < CrMaxAdmin /\ crAdmin' = crAdmin + 1
  /\ crRole' = [crRole EXCEPT ![o] = [p \in CrPrincipals |-> "none"]]
  /\ crOrg' = [s \in CrSessions |-> IF crOrg[s] = o THEN "none" ELSE crOrg[s]]
  /\ crBudget' = [crBudget EXCEPT ![o] = [m \in CrMonths |-> 0]]
  /\ crReq' = CrNote(crOrg', crRole') /\ UNCHANGED <<crOwner, crMetrics>>

-----------------------------------------------------------------------------
(* Reports: each step is a statement. *)

CrRows == <<crOwner, crOrg, crRole, crMetrics, crAdmin>>

CrStep(q, from, to) ==
  crReq[q].pc = from /\ crReq' = [crReq EXCEPT ![q] = to] /\ UNCHANGED CrRows

CrStart(q, who, pc, on, month) ==
  /\ CrStep(q, "idle", [CrIdle EXCEPT !.pc = pc, !.who = who, !.on = on, !.month = month,
                                      !.seen = CrMaySee(who, crOrg, crRole)])
  /\ UNCHANGED crBudget

\* GetCostBreakdown for one month, within callerScope.
CrTotals(q) ==
  LET r == crReq[q] IN
    /\ CrStep(q, "totals", [r EXCEPT !.pc = "top", !.total = CrSum(CrOf(CrVisible(r.who), {r.month}))])
    /\ UNCHANGED crBudget

\* HAVING SUM(total_cost) > 0.
CrSpent(r) ==
  {<<s, CrSum(CrOf({s}, {r.month}))>> : s \in {s \in CrVisible(r.who) : CrSum(CrOf({s}, {r.month})) > 0}}

\* ORDER BY total_cost DESC LIMIT.
CrTopSessions(q) ==
  LET r == crReq[q]
      spent == CrSpent(r) IN
    r.pc = "top" /\ \E top \in SUBSET spent :
      /\ Cardinality(top) = (IF Cardinality(spent) < CrTop THEN Cardinality(spent) ELSE CrTop)
      /\ \A in \in top, out \in spent \ top : in[2] >= out[2]
      /\ CrStep(q, "top", [r EXCEPT !.pc = "count", !.top = top]) /\ UNCHANGED crBudget

CrCount(q) ==
  LET r == crReq[q] IN
    /\ CrStep(q, "count", [r EXCEPT !.pc = "done", !.count = Cardinality(CrSpent(r))])
    /\ UNCHANGED crBudget

\* GetSessionCosts: the access check and the list of metrics, then the summary.
CrList(q) ==
  LET r == crReq[q] IN
    /\ r.pc = "list"
    /\ IF r.on \in CrMaySee(r.who, crOrg, crRole)
       THEN CrStep(q, "list", [r EXCEPT !.pc = "summary", !.top = CrOf({r.on}, CrMonths)])
       ELSE CrStep(q, "list", [r EXCEPT !.pc = "refused"])
    /\ UNCHANGED crBudget

CrSummary(q) ==
  LET r == crReq[q] IN
    /\ CrStep(q, "summary", [r EXCEPT !.pc = "done", !.total = CrSum(CrOf({r.on}, CrMonths))])
    /\ UNCHANGED crBudget

\* GetBudget: the row, if there is one.
CrGetBudget(o, month) == {crBudget[o][month]} \ {0}

\* GetOrgCosts: the role, the summary, the budget.
CrOrgCosts(q) ==
  LET r == crReq[q] IN
    /\ \/ CrStep(q, "role", [r EXCEPT !.pc = IF CrRoleIn(crRole, r.on, r.who) # "none" THEN "org" ELSE "refused"])
       \/ LET of == {s \in CrSessions : crOrg[s] = r.on} IN
            CrStep(q, "org", [r EXCEPT !.pc = "budget", !.total = CrSum(CrOf(of, {r.month})),
                                       !.count = Cardinality(of)])
       \/ CrStep(q, "budget", [r EXCEPT !.pc = "done", !.top = CrGetBudget(r.on, r.month)])
    /\ UNCHANGED crBudget

\* BudgetOpts.validate.
CrValid(limit) == limit > 0

\* Tracker.SetBudget: one row for an organisation and a month; the column
\* keeps cents.
CrStoreBudget(o, month, limit) == crBudget' = [crBudget EXCEPT ![o][month] = CrRound(limit, 10)]

\* CostHandler.SetBudget: an admin, a limit that validate lets through.
CrSetBudget(q, limit) ==
  LET r == crReq[q] IN
    /\ r.pc = "set"
    /\ IF CrRoleIn(crRole, r.on, r.who) = "admin" /\ CrValid(limit)
       THEN CrStep(q, "set", [r EXCEPT !.pc = "done"]) /\ CrStoreBudget(r.on, r.month, limit)
       ELSE CrStep(q, "set", [r EXCEPT !.pc = "refused"]) /\ UNCHANGED crBudget

CrNext ==
  \/ \E s \in CrSessions, month \in CrMonths, end \in CrEnds : CrRecord(s, month, end)
  \/ \E s \in CrSessions, p \in CrCallers, o \in CrOrgs \cup {"none"} : CrCreate(s, p, o)
  \/ \E o \in CrOrgs : CrDeleteOrg(o) \/ \E p \in CrPrincipals, r \in CrRoles : CrSetMember(o, p, r)
  \/ \E q \in CrReqs :
       \/ \E who \in CrCallers, month \in CrMonths :
            \/ CrStart(q, who, "totals", "none", month)
            \/ \E o \in CrOrgs : CrStart(q, who, "role", o, month) \/ CrStart(q, who, "set", o, month)
       \/ \E who \in CrCallers, s \in CrSessions : CrStart(q, who, "list", s, "none")
       \/ CrTotals(q) \/ CrTopSessions(q) \/ CrCount(q) \/ CrList(q) \/ CrSummary(q) \/ CrOrgCosts(q)
       \/ \E limit \in CrLimits : CrSetBudget(q, limit)

CrSpec == CrInit /\ [][CrNext]_crVars

-----------------------------------------------------------------------------
(* Properties. *)

\* RecordMetric: "Otherwise the checksum covers values the database then rounds,
\* and every metric would fail VerifyMetric when read back."
CrMetricsVerify == \A row \in crMetrics : CrVerify(row)

\* What a list of sessions and their costs comes to.
CrListed(top) == UNION {{t} \X (1..t[2]) : t \in top}

CrIsBreakdown(r) == r.pc = "done" /\ r.on = "none"
CrIsSession(r) == r.pc = "done" /\ r.on \in CrSessions

\* Scope, "restricts a cost query to the data one caller is allowed to see",
\* and GetCostBreakdown, "TotalSessions tells how many sessions there are beyond
\* the cap".  Whatever is recorded and whoever joins or leaves in between, a
\* report is made of sessions that the caller could see in its course; with
\* what the caller sees unchanged, no session is listed that is not counted,
\* and a list below the cap accounts for the whole total; a session's summary
\* covers every metric in its list.
CrReportsAgree ==
  \A q \in CrReqs : LET r == crReq[q] IN
    /\ CrIsBreakdown(r) =>
         /\ {t[1] : t \in r.top} \subseteq r.seen
         /\ r.total <= CrSum(CrOf(r.seen, {r.month}))
         /\ r.stable => /\ Cardinality(r.top) <= r.count
                        /\ r.count < CrTop => r.total <= Cardinality(CrListed(r.top))
    /\ CrIsSession(r) => r.on \in r.seen /\ CrSum(r.top) <= r.total

\* BudgetOpts.validate: "A negative or zero limit is rejected rather than
\* stored".  Short of a step of an administrator that deletes the organisation,
\* a budget above zero is not replaced by zero.
CrBudgetUsable ==
  [][crAdmin' = crAdmin =>
       \A o \in CrOrgs, m \in CrMonths : crBudget[o][m] > 0 => crBudget'[o][m] > 0]_crVars
=============================================================================
