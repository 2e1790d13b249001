--------------------------------- MODULE Limits ---------------------------------
(***************************************************************************)
(* Rate limits of one caller: the token buckets of the API                   *)
(* (cmd/api/middleware/ratelimit.go), its counters in Redis with the buckets *)
(* as the fallback, and the sliding windows of the MCP server                *)
(* (sdk/mcp/http.go) and of the local gateway                                *)
(* (internal/localgateway/ratelimit.go).  A behaviour is of one of the four. *)
(* Time is in ticks, tokens in parts of a request.                           *)
(***************************************************************************)
EXTENDS Naturals, FiniteSets, FiniteSetsExt

CONSTANTS
  LiReqs,    \* requests in flight
  LiLimit,   \* requests per minute
  LiMinute,  \* ticks in a minute
  LiIdle,    \* ticks after which gc forgets a bucket: ten minutes
  LiMaxClock \* bound: ticks

\* What makes gc harmless: an idle bucket is full again before it is forgotten.
ASSUME LimitsAssumption ==
  /\ IsFiniteSet(LiReqs) /\ LiLimit \in Nat \ {0} /\ LiMinute \in Nat \ {0}
  /\ LiIdle \in Nat /\ LiIdle >= LiMinute /\ LiMaxClock \in Nat \ {0}

VARIABLES
  liKind,   \* which of the four limiters
  liClock,  \* the time
  liMap,    \* the bucket the map has for the caller, 0 for none
  liBucket, \* tokens and last use of the buckets
  liReq,    \* the bucket each request has taken from the map, 0 before
  liCount,  \* the counters in Redis, by minute
  liWindow, \* how many stamps of each tick the window keeps
  liOk      \* how many requests were let through at each tick

liVars == <<liKind, liClock, liMap, liBucket, liReq, liCount, liWindow, liOk>>

LiTicks == 1..LiMaxClock
LiIds == 1 .. Cardinality(LiReqs) + 1
LiFull == LiLimit * LiMinute
LiMinuteOf(t) == t \div LiMinute
LiMinutes == {LiMinuteOf(t) : t \in LiTicks}

LiTypeOK ==
  /\ liKind \in {"bucket", "redis", "mcp", "gateway"} /\ liClock \in LiTicks
  /\ liMap \in LiIds \cup {0} /\ liBucket \in [LiIds -> [tokens : 0..LiFull, last : 0..LiMaxClock]]
  /\ liReq \in [LiReqs -> LiIds \cup {0}] /\ liCount \in [LiMinutes -> Nat]
  /\ liWindow \in [LiTicks -> 0..LiLimit] /\ liOk \in [LiTicks -> Nat]

LiInit ==
  /\ liKind \in {"bucket", "redis", "mcp", "gateway"} /\ liClock = 1
  /\ liMap = 0 /\ liBucket = [b \in LiIds |-> [tokens |-> 0, last |-> 0]]
  /\ liReq = [q \in LiReqs |-> 0] /\ liCount = [m \in LiMinutes |-> 0]
  /\ liWindow = [t \in LiTicks |-> 0] /\ liOk = [t \in LiTicks |-> 0]

\* The two locks of one request are taken within a tick.
LiTick ==
  /\ \A q \in LiReqs : liReq[q] = 0
  /\ liClock < LiMaxClock /\ liClock' = liClock + 1
  /\ UNCHANGED <<liKind, liMap, liBucket, liReq, liCount, liWindow, liOk>>

LiPass(yes) == liOk' = IF yes THEN [liOk EXCEPT ![liClock] = @ + 1] ELSE liOk

-----------------------------------------------------------------------------
(* Token buckets.  The map's lock is released before the bucket's is taken. *)

\* limiter.allow, up to the bucket: a caller the map does not know has a full
\* one.  Ids of buckets nobody refers to are used again.
LiFind(q) ==
  /\ IF liMap # 0
     THEN liReq' = [liReq EXCEPT ![q] = liMap] /\ UNCHANGED <<liMap, liBucket>>
     ELSE LET b == Min(LiIds \ {liReq[p] : p \in LiReqs}) IN
            /\ liMap' = b /\ liReq' = [liReq EXCEPT ![q] = b]
            /\ liBucket' = [liBucket EXCEPT ![b] = [tokens |-> LiFull, last |-> liClock]]

\* RateLimit and ActorRateLimit.
LiAsk(q) ==
  /\ liKind = "bucket" /\ liReq[q] = 0 /\ LiFind(q)
  /\ UNCHANGED <<liKind, liClock, liCount, liWindow, liOk>>

\* bucket.allow.
LiTake(q) ==
  LET b == liBucket[liReq[q]]
      tokens == Min({LiFull, b.tokens + (liClock - b.last) * LiLimit}) IN
    /\ liReq[q] # 0 /\ liReq' = [liReq EXCEPT ![q] = 0]
    /\ liBucket' = [liBucket EXCEPT ![liReq[q]] =
         [tokens |-> IF tokens >= LiMinute THEN tokens - LiMinute ELSE tokens, last |-> liClock]]
    /\ LiPass(tokens >= LiMinute)
    /\ UNCHANGED <<liKind, liClock, liMap, liCount, liWindow>>

\* A mutant: a bucket is forgotten although it was used a moment ago.
LiForgotten(b) == liClock > liBucket[b].last

\* Idle for more than ten minutes.
LiStale(b) == liClock - liBucket[b].last > LiIdle

\* limiter.gc, every five minutes; a request may hold the bucket it forgets.
LiGc ==
  /\ liMap # 0 /\ LiStale(liMap) /\ liMap' = 0
  /\ UNCHANGED <<liKind, liClock, liBucket, liReq, liCount, liWindow, liOk>>

\* NewRedisRateLimit and NewRedisActorRateLimit: INCR of the counter of this
\* minute, which may be applied although its answer is an error.  A counter
\* expires after its minute (EXPIRE, 90 seconds) and is never read again.
LiIncr(q) ==
  LET m == LiMinuteOf(liClock) IN
    /\ liKind = "redis" /\ liReq[q] = 0
    /\ \/ /\ liCount' = [liCount EXCEPT ![m] = @ + 1] /\ LiPass(liCount'[m] <= LiLimit)
          /\ liCount[m] <= LiLimit \* the count above the limit is not told apart
          /\ UNCHANGED <<liMap, liBucket, liReq>>
       \/ /\ \/ UNCHANGED liCount
             \/ liCount[m] <= LiLimit /\ liCount' = [liCount EXCEPT ![m] = @ + 1]
          /\ LiFind(q) /\ UNCHANGED liOk
    /\ UNCHANGED <<liKind, liClock, liWindow>>

-----------------------------------------------------------------------------
(* Sliding windows; one lock for all of it. *)

LiFresh == [t \in LiTicks |-> IF t > liClock - LiMinute THEN liWindow[t] ELSE 0]

\* A sum over ticks is the number of its units.
LiUnits(many, ticks) == UNION {{t} \X (1 .. many[t]) : t \in ticks}

\* The check and the new stamp.
LiSlide(window) ==
  LET room == Cardinality(LiUnits(window, LiTicks)) < LiLimit IN
    /\ LiPass(room)
    /\ liWindow' = IF room THEN [window EXCEPT ![liClock] = @ + 1] ELSE window

\* ipRateLimiter.allow of the MCP server: each 1024th call sweeps first.
LiAllowMcp ==
  /\ liKind = "mcp" /\ LiSlide(LiFresh)
  /\ UNCHANGED <<liKind, liClock, liMap, liBucket, liReq, liCount>>

\* sweepLocked: a caller with no fresh stamp is forgotten.
LiSweep ==
  /\ liKind \in {"mcp", "gateway"} /\ \A t \in LiTicks : LiFresh[t] = 0
  /\ liWindow' = LiFresh
  /\ UNCHANGED <<liKind, liClock, liMap, liBucket, liReq, liCount, liOk>>

\* The gateway's sweeps last, when it knows more than 10000 callers.
LiAllowGateway ==
  /\ liKind = "gateway" /\ LiSlide(LiFresh)
  /\ UNCHANGED <<liKind, liClock, liMap, liBucket, liReq, liCount>>

LiNext ==
  \/ LiTick \/ LiGc \/ LiAllowMcp \/ LiAllowGateway \/ LiSweep
  \/ \E q \in LiReqs : LiAsk(q) \/ LiTake(q) \/ LiIncr(q)

LiSpec == LiInit /\ [][LiNext]_liVars

-----------------------------------------------------------------------------
(* Properties. *)

LiPassed(from, to) == Cardinality(LiUnits(liOk, from..to))

\* What buckets let through from one tick to another: a full bucket, what
\* flows in, and, each time it has been idle for long enough to be forgotten,
\* the requests in flight that held it.
LiBuckets(from, to) ==
  LiLimit + ((to - from) * LiLimit) \div LiMinute
    + (1 + (to - from) \div (LiIdle + 1)) * Min({LiLimit, Cardinality(LiReqs)})

\* What a limiter may let through from one tick to another.
LiWithin(from, to) ==
  CASE liKind = "bucket" -> LiPassed(from, to) <= LiBuckets(from, to)
    [] liKind = "redis" -> LiPassed(from, to) <= LiBuckets(from, to) +
                             LiLimit * (1 + LiMinuteOf(to) - LiMinuteOf(from))
    [] OTHER -> to - from < LiMinute => LiPassed(from, to) <= LiLimit

\* However requests, minutes, gc, sweeps and failures of Redis interleave, over
\* any stretch of time a window lets through no more than the limit in a
\* minute, a bucket no more than a full one and what flows in (and the few
\* that held a forgotten one), and Redis the limit for each minute begun, on
\* top of what its fallback would.
LiBounded == \A from, to \in LiTicks : from <= to => LiWithin(from, to)

\* ratelimit.go: "at most requestsPerMinute requests per unique client IP".
LiPerMinute == \A t \in LiTicks : LiPassed(t, Min({LiMaxClock, t + LiMinute - 1})) <= LiLimit
=============================================================================
