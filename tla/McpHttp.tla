-------------------------------- MODULE McpHttp --------------------------------
(***************************************************************************)
(* The HTTP transport of the MCP server (sdk/mcp/http.go, bridge.go): the    *)
(* order of the global window, the token, and the window of the tier, what   *)
(* each of them knows of the caller behind a proxy, and the shutdown.  The    *)
(* sweeps of a window are in Limits, tools in McpTasks and GithubRuns.        *)
(***************************************************************************)
EXTENDS Naturals, FiniteSets

CONSTANTS
  MhReqs,     \* requests
  MhClients,  \* callers
  MhTools,    \* the kinds of tools they call: heavy, write, read
  MhProxied,  \* the requests come through a trusted proxy
  MhGlobal,   \* rateLimit
  MhWrite,    \* writeTierLimit
  MhHeavy,    \* heavyTierLimit
  MhMinute,   \* length of a window
  MhMaxClock  \* bound: instants

ASSUME McpHttpAssumption ==
  /\ MhProxied \in BOOLEAN /\ MhTools \subseteq {"heavy", "write", "read"}
  /\ {MhGlobal, MhWrite, MhHeavy, MhMinute, MhMaxClock} \subseteq Nat \ {0}
  /\ "proxy" \notin MhClients /\ "nobody" \notin MhClients

VARIABLES
  mhClock,   \* the time
  mhCaller,  \* who sends each request
  mhTool,    \* the kind of tool it calls: heavy, write or read
  mhStep,    \* how far the request is
  mhServer,  \* up, draining, or exited
  mhPassed   \* the requests each window has let pass, and when

mhVars == <<mhClock, mhCaller, mhTool, mhStep, mhServer, mhPassed>>

MhWindowNames == {"global", "write", "heavy"}
\* httpConfigFromEnv: a half and a third of the global limit unless set.
MhLimits == [global |-> MhGlobal, write |-> MhWrite, heavy |-> MhHeavy]
MhTimes == 1..MhMaxClock

MhTypeOK ==
  /\ mhClock \in MhTimes
  /\ mhCaller \in [MhReqs -> MhClients \cup {"nobody"}]
  /\ mhTool \in [MhReqs -> {"heavy", "write", "read"}]
  /\ mhStep \in [MhReqs -> {"new", "admitted", "authorized", "running", "answered",
                            "limited", "unauthorized", "cut"}]
  /\ mhServer \in {"up", "draining", "exited"}
  /\ mhPassed \subseteq MhWindowNames \X MhReqs \X MhTimes

MhInit ==
  /\ mhClock = 1
  /\ mhCaller = [r \in MhReqs |-> "nobody"] /\ mhTool = [r \in MhReqs |-> "read"]
  /\ mhStep = [r \in MhReqs |-> "new"]
  /\ mhServer = "up" /\ mhPassed = {}

MhTick ==
  /\ mhClock < MhMaxClock /\ mhClock' = mhClock + 1
  /\ UNCHANGED <<mhCaller, mhTool, mhStep, mhServer, mhPassed>>

MhMove(r, step) == mhStep' = [mhStep EXCEPT ![r] = step]

-----------------------------------------------------------------------------
(* ipRateLimiter. *)

\* clientIPFromRequest: the peer of the connection, a proxy or not.
MhPeer(c) == IF MhProxied THEN "proxy" ELSE c

\* The address a window is kept for: gin knows the caller behind a trusted
\* proxy, the tiers see the peer.
MhAddress(w, c) == IF w = "global" THEN c ELSE MhPeer(c)

\* What the window of a caller's address holds.
MhRecent(w, c) ==
  {e \in mhPassed : /\ e[1] = w /\ e[3] + MhMinute > mhClock
                    /\ MhAddress(w, mhCaller[e[2]]) = MhAddress(w, c)}

\* A mutant: windows of whole minutes, as a counter per minute would have.
MhRoomMinute(w, c) ==
  Cardinality({e \in MhRecent(w, c) : e[3] \div MhMinute = mhClock \div MhMinute}) < MhLimits[w]

MhRoom(w, c) == Cardinality(MhRecent(w, c)) < MhLimits[w]

\* allow: the request enters the window, or is refused.
MhAllow(w, r, c, passed) ==
  IF MhRoom(w, c)
  THEN MhMove(r, passed) /\ mhPassed' = mhPassed \cup {<<w, r, mhClock>>}
  ELSE MhMove(r, "limited") /\ UNCHANGED mhPassed

-----------------------------------------------------------------------------
(* buildHTTPEngine. *)

\* The global window comes before anything else.
MhAdmit(r, c, tool) ==
  /\ mhStep[r] = "new" /\ mhServer = "up" /\ MhAllow("global", r, c, "admitted")
  /\ mhCaller' = [mhCaller EXCEPT ![r] = c] /\ mhTool' = [mhTool EXCEPT ![r] = tool]
  /\ UNCHANGED <<mhClock, mhServer>>

\* The bearer token is right or not.
MhAuthorize(r) ==
  /\ mhStep[r] = "admitted" /\ mhServer # "exited"
  /\ \E step \in {"authorized", "unauthorized"} : MhMove(r, step)
  /\ UNCHANGED <<mhClock, mhCaller, mhTool, mhServer, mhPassed>>

\* heavyTools and writeTools have a limiter of their own.
MhDispatch(r) ==
  /\ mhStep[r] = "authorized" /\ mhServer # "exited"
  /\ \/ /\ mhTool[r] # "read"
        /\ MhAllow(mhTool[r], r, mhCaller[r], "running")
     \/ /\ mhTool[r] = "read" /\ MhMove(r, "running")
        /\ UNCHANGED mhPassed
  /\ UNCHANGED <<mhClock, mhCaller, mhTool, mhServer>>

MhAnswer(r) ==
  /\ mhStep[r] = "running" /\ mhServer # "exited" /\ MhMove(r, "answered")
  /\ UNCHANGED <<mhClock, mhCaller, mhTool, mhServer, mhPassed>>

-----------------------------------------------------------------------------
(* startHTTPServer. *)

\* The signal: gracefulStop calls Shutdown, which closes the listener and
\* waits for the requests under way.
MhSignal ==
  /\ mhServer = "up" /\ mhServer' = "draining"
  /\ UNCHANGED <<mhClock, mhCaller, mhTool, mhStep, mhPassed>>

\* ListenAndServe returns as soon as the listener is closed, and main with it:
\* nobody waits for the goroutine of gracefulStop.
MhExit ==
  /\ mhServer = "draining" /\ mhServer' = "exited"
  /\ mhStep' = [r \in MhReqs |-> IF mhStep[r] \in {"admitted", "authorized", "running"}
                                 THEN "cut" ELSE mhStep[r]]
  /\ UNCHANGED <<mhClock, mhCaller, mhTool, mhPassed>>

MhNext ==
  \/ MhTick \/ MhSignal \/ MhExit
  \/ \E r \in MhReqs :
       \/ \E c \in MhClients, tool \in MhTools : MhAdmit(r, c, tool)
       \/ MhAuthorize(r) \/ MhDispatch(r) \/ MhAnswer(r)

MhSpec == MhInit /\ [][MhNext]_mhVars

-----------------------------------------------------------------------------
(* Properties. *)

\* What a caller got through a window from an instant on, for a minute.
MhGot(w, c, t) ==
  {e \in mhPassed : e[1] = w /\ mhCaller[e[2]] = c /\ t <= e[3] /\ e[3] < t + MhMinute}

\* docs/mcp.md, Rate limiting: no caller gets more through a window in any
\* minute than its limit, also in one that begins between two requests; and
\* only requests that passed the global window and have a token use up a tier.
MhWindowed ==
  /\ \A w \in MhWindowNames, c \in MhClients, t \in MhTimes :
       Cardinality(MhGot(w, c, t)) <= MhLimits[w]
  /\ \A e \in mhPassed :
       e[1] # "global" => /\ mhStep[e[2]] \in {"running", "answered", "cut"}
                          /\ \E g \in mhPassed : g[1] = "global" /\ g[2] = e[2]

\* docs/mcp.md:330: "Set MCP_TRUSTED_PROXIES so rate limiting uses the real
\* client IP": what other callers sent does not use up a caller's tier.
MhOwnTier ==
  [][\A r \in MhReqs :
       (mhStep[r] = "authorized" /\ mhStep'[r] = "limited") =>
         Cardinality({e \in MhRecent(mhTool[r], mhCaller[r]) : mhCaller[e[2]] = mhCaller[r]})
           >= MhLimits[mhTool[r]]]_mhVars

\* http.go:538: "in-flight requests are given httpShutdownTimeout to complete
\* before the process exits cleanly".
MhDrained == \A r \in MhReqs : mhStep[r] # "cut"
=============================================================================
