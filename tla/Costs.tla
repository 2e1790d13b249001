--------------------------------- MODULE Costs ---------------------------------
(***************************************************************************)
(* Billing of running sessions (internal/cost/accrual.go, RecordMetric of    *)
(* tracker.go): every API instance sweeps all sessions each minute, and a    *)
(* unique index on the start of a period keeps two of them from billing the  *)
(* same time.  One unit of time costs one unit.  All clocks agree.           *)
(***************************************************************************)
EXTENDS Naturals, FiniteSets, FiniteSetsExt

CONSTANTS
  CoSessions,  \* sessions
  CoInstances, \* API instances
  CoMonths,    \* instants at which a calendar month begins
  CoMinSpan,   \* MinAccrualSpan
  CoMaxClock   \* bound: instants

ASSUME CostsAssumption ==
  /\ CoMonths \subseteq Nat /\ IsFiniteSet(CoMonths)
  /\ CoMinSpan \in Nat /\ CoMaxClock \in Nat \ {0}

VARIABLES
  coClock,   \* the time
  coMade,    \* created_at of each session, 0 while there is none
  coStopped, \* stopped_at of each session, 0 before the first stop
  coMetrics, \* cost_metrics: the periods billed for each session
  coTotal,   \* sessions.total_cost
  coNow,     \* the time each sweep was started with, 0 between sweeps
  coPlan,    \* the periods each sweep has still to record
  coSum      \* sums read by an UPDATE of total_cost that waits for its row

coVars == <<coClock, coMade, coStopped, coMetrics, coTotal, coNow, coPlan, coSum>>

CoTimes == 1..CoMaxClock
\* A metric's period is not empty and lies in one month.
CoPeriods ==
  {p \in CoTimes \X CoTimes : p[1] < p[2] /\ ~\E m \in CoMonths : p[1] < m /\ m < p[2]}

CoTypeOK ==
  /\ coClock \in CoTimes
  /\ coMade \in [CoSessions -> 0..CoMaxClock] /\ coStopped \in [CoSessions -> 0..CoMaxClock]
  /\ coMetrics \in [CoSessions -> SUBSET CoPeriods]
  /\ coTotal \in [CoSessions -> Nat]
  /\ coNow \in [CoInstances -> 0..CoMaxClock]
  /\ coPlan \subseteq CoInstances \X CoSessions \X CoTimes \X CoTimes
  /\ coSum \subseteq CoInstances \X CoSessions \X Nat

CoInit ==
  /\ coClock = 1
  /\ coMade = [s \in CoSessions |-> 0] /\ coStopped = [s \in CoSessions |-> 0]
  /\ coMetrics = [s \in CoSessions |-> {}] /\ coTotal = [s \in CoSessions |-> 0]
  /\ coNow = [i \in CoInstances |-> 0] /\ coPlan = {} /\ coSum = {}

CoTick ==
  /\ coClock < CoMaxClock /\ coClock' = coClock + 1
  /\ UNCHANGED <<coMade, coStopped, coMetrics, coTotal, coNow, coPlan, coSum>>

CoCreate(s) ==
  /\ coMade[s] = 0 /\ coMade' = [coMade EXCEPT ![s] = coClock]
  /\ UNCHANGED <<coClock, coStopped, coMetrics, coTotal, coNow, coPlan, coSum>>

\* StopSession and FailSession stamp the end whether or not there is one
\* already: DELETE accepts a session that has stopped.
CoStop(s) ==
  /\ coMade[s] # 0 /\ coStopped' = [coStopped EXCEPT ![s] = coClock]
  /\ UNCHANGED <<coClock, coMade, coMetrics, coTotal, coNow, coPlan, coSum>>

-----------------------------------------------------------------------------
(* AccrueUsage. *)

\* COALESCE(MAX(period_end), created_at).
CoSince(s) == Max({coMade[s]} \cup {p[2] : p \in coMetrics[s]})

CoDue(s) == coMade[s] # 0 /\ (coStopped[s] = 0 \/ coStopped[s] > CoSince(s))

\* A mutant: a session that has stopped is billed up to now.
CoBillEndNow(s, now) == now

\* The end of what planAccrual bills.
CoBillEnd(s, now) == IF coStopped[s] # 0 THEN Min({coStopped[s], now}) ELSE now

\* A mutant: periods are not split.
CoSplitWhole(start, end) == {<<start, end>>}

\* The months between two instants, one period each.
CoSplit(start, end) ==
  LET cuts == {start, end} \cup {m \in CoMonths : start < m /\ m < end} IN
    {p \in cuts \X cuts : p[1] < p[2] /\ ~\E c \in cuts : p[1] < c /\ c < p[2]}

CoPlanAccrual(s, now) ==
  LET start == CoSince(s)
      end == CoBillEnd(s, now) IN
    IF end > start /\ (coStopped[s] # 0 \/ end - start >= CoMinSpan)
    THEN CoSplit(start, end) ELSE {}

\* The ticker: time.Now is taken before the sessions are listed.
CoSweep(i) ==
  /\ coNow[i] = 0 /\ ~\E w \in coPlan : w[1] = i
  /\ coNow' = [coNow EXCEPT ![i] = coClock]
  /\ UNCHANGED <<coClock, coMade, coStopped, coMetrics, coTotal, coPlan, coSum>>

CoList(i) ==
  /\ coNow[i] # 0 /\ coNow' = [coNow EXCEPT ![i] = 0]
  /\ coPlan' = coPlan \cup {w \in {i} \X CoSessions \X CoTimes \X CoTimes :
                               CoDue(w[2]) /\ <<w[3], w[4]>> \in CoPlanAccrual(w[2], coNow[i])}
  /\ UNCHANGED <<coClock, coMade, coStopped, coMetrics, coTotal, coSum>>

CoOf(i, s) == {w \in coPlan : w[1] = i /\ w[2] = s}

\* A mutant: only the same period is a conflict.
CoConflictSame(s, start, end) == <<start, end>> \in coMetrics[s]

\* cost_metrics_period_unique.
CoConflict(s, start, end) == \E p \in coMetrics[s] : p[1] = start

\* SUM(total_cost) of a session's metrics, counted unit by unit.
CoUnits(metrics) == UNION {{p} \X (p[1] + 1 .. p[2]) : p \in metrics}
CoBilled(metrics) == Cardinality(CoUnits(metrics))

\* RecordMetric, its INSERT: the earliest period the sweep has for a session;
\* a conflict or an error leaves the rest of the session to a later sweep.
CoInsert(i, s) ==
  \E w \in CoOf(i, s) :
    /\ \A other \in CoOf(i, s) : w[3] <= other[3]
    /\ ~\E t \in coSum : t[1] = i
    /\ \/ /\ ~CoConflict(s, w[3], w[4])
          /\ coMetrics' = [coMetrics EXCEPT ![s] = @ \cup {<<w[3], w[4]>>}]
          /\ coPlan' = coPlan \ {w}
          /\ coSum' = coSum \cup {<<i, s, CoBilled(coMetrics'[s])>>}
       \/ coPlan' = coPlan \ CoOf(i, s) /\ UNCHANGED <<coMetrics, coSum>>
    /\ UNCHANGED <<coClock, coMade, coStopped, coTotal, coNow>>

\* The UPDATE of total_cost: the sum is of its snapshot, the row may have to
\* wait for another UPDATE.  It may fail, and the metric stays.
CoUpdateTotal(i) ==
  \E t \in coSum :
    /\ t[1] = i /\ coSum' = coSum \ {t}
    /\ \/ coTotal' = [coTotal EXCEPT ![t[2]] = t[3]] /\ UNCHANGED coPlan
       \/ coPlan' = coPlan \ CoOf(i, t[2]) /\ UNCHANGED coTotal
    /\ UNCHANGED <<coClock, coMade, coStopped, coMetrics, coNow>>

\* An instance stops in the middle of a sweep.
CoCrash(i) ==
  /\ coPlan' = {w \in coPlan : w[1] # i} /\ coSum' = {t \in coSum : t[1] # i}
  /\ coNow' = [coNow EXCEPT ![i] = 0]
  /\ UNCHANGED <<coClock, coMade, coStopped, coMetrics, coTotal>>

CoNext ==
  \/ CoTick
  \/ \E s \in CoSessions : CoCreate(s) \/ CoStop(s)
  \/ \E i \in CoInstances : \/ CoSweep(i) \/ CoList(i) \/ CoUpdateTotal(i) \/ CoCrash(i)
                            \/ \E s \in CoSessions : CoInsert(i, s)

CoSpec == CoInit /\ [][CoNext]_coVars

-----------------------------------------------------------------------------
(* Properties. *)

\* AccrueUsage: "safe to call repeatedly and from several API instances".
\* What is billed for a session never overlaps and leaves no gap, from its
\* creation on; it does not cross a month and never runs past the end that
\* was stamped last.  (A second DELETE moves that end, and the time since the
\* first is then billed too: CoStopStands.)
CoBilledOnce ==
  \A s \in CoSessions :
    /\ \A t \in coMade[s] .. CoSince(s) - 1 :
         Cardinality({p \in coMetrics[s] : p[1] <= t /\ t < p[2]}) = (IF coMade[s] = 0 THEN 0 ELSE 1)
    /\ \A p \in coMetrics[s] :
         /\ p[1] >= coMade[s] /\ ~\E m \in CoMonths : p[1] < m /\ m < p[2]
         /\ coStopped[s] # 0 => p[2] <= coStopped[s]

\* usageFor: "for as long as it ran".  The end of a session is stamped again
\* by every further StopSession, and what is billed follows it.
CoStopStands ==
  [][\A s \in CoSessions : coStopped[s] # 0 => coStopped'[s] = coStopped[s]]_coVars
=============================================================================
