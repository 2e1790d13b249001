--------------------------------- MODULE Access ---------------------------------
(***************************************************************************)
(* API keys, organisations and the checks in front of every handler          *)
(* (cmd/api/middleware/auth.go, handlers/keys.go, orgs.go, hub.go, the       *)
(* scopes of internal/cost/tracker.go).  A request is a sequence of          *)
(* statements: its key, the session or organisation, the caller's role, the  *)
(* key's secrets, and only then its effect; the operator changes keys and    *)
(* memberships in between.  Audit entries are the audit log's (AuditChain),  *)
(* last_used_at decides nothing.                                             *)
(***************************************************************************)
EXTENDS Naturals, FiniteSets

CONSTANTS
  AcKeys,     \* ids of API keys, never used twice
  AcNames,    \* names of API keys: unique among the rows
  AcOrgs,     \* ids of organisations, never used twice
  AcSessions, \* ids of sessions
  AcClients,  \* requests in flight
  AcRoles,    \* roles that are given
  AcMaxAdmin  \* bound: changes of memberships and secrets by the operator

ASSUME AccessAssumption ==
  /\ AcRoles \subseteq {"viewer", "executor", "admin"} /\ AcMaxAdmin \in Nat
  /\ "none" \notin AcKeys \cup AcNames \cup AcOrgs \cup AcSessions

VARIABLES
  acKey,     \* each row of api_keys: its state, and its name
  acName,
  acAllowed, \* the keys that may use the secret at hand
  acOrgs,    \* organisations: not made, up or deleted
  acRole,    \* org_members: the role of each principal
  acOwner,   \* sessions.created_by, "none" while there is no session
  acOrg,     \* sessions.org_id
  acMaker,   \* the key that made each session
  acReq,     \* each request
  acAdmin    \* changes so far

acVars == <<acKey, acName, acAllowed, acOrgs, acRole, acOwner, acOrg, acMaker, acReq, acAdmin>>
acRows == <<acOrgs, acOwner, acOrg, acMaker>>

AcPrincipals == AcKeys \cup AcNames
AcRank == [r \in {"none", "viewer", "executor", "admin"} |->
             CASE r = "none" -> 0 [] r = "viewer" -> 1 [] r = "executor" -> 2 [] r = "admin" -> 3]

\* What an operation asks of a member.
AcNeeds == [op \in {"make", "use", "add", "drop"} |->
              IF op \in {"make", "use"} THEN "executor" ELSE "admin"]

AcIdle == [pc |-> "idle"]
AcRequests ==
  [pc : {"auth", "load", "role", "secret", "act"}, op : DOMAIN AcNeeds, key : AcKeys,
   session : AcSessions \cup {"none"}, org : AcOrgs \cup {"none"}, to : AcKeys \cup {"none"},
   late : BOOLEAN, had : SUBSET (AcOrgs \X DOMAIN AcRank), may : BOOLEAN]

AcTypeOK ==
  /\ acKey \in [AcKeys -> {"none", "live", "expired", "revoked", "purged"}]
  /\ acName \in [AcKeys -> AcNames] /\ acAllowed \subseteq AcKeys
  /\ acOrgs \in [AcOrgs -> {"none", "up", "deleted"}]
  /\ acRole \in [AcOrgs -> [AcPrincipals -> DOMAIN AcRank]]
  /\ acOwner \in [AcSessions -> AcPrincipals \cup {"none"}]
  /\ acOrg \in [AcSessions -> AcOrgs \cup {"none"}] /\ acMaker \in [AcSessions -> AcKeys \cup {"none"}]
  /\ \A c \in AcClients : acReq[c] = AcIdle \/ acReq[c] \in AcRequests
  /\ acAdmin \in 0..AcMaxAdmin

AcInit ==
  /\ acKey = [k \in AcKeys |-> "none"] /\ acName \in [AcKeys -> AcNames] /\ acAllowed = AcKeys
  /\ acOrgs = [o \in AcOrgs |-> "none"]
  /\ acRole = [o \in AcOrgs |-> [p \in AcPrincipals |-> "none"]]
  /\ acOwner = [s \in AcSessions |-> "none"] /\ acOrg = [s \in AcSessions |-> "none"]
  /\ acMaker = [s \in AcSessions |-> "none"]
  /\ acReq = [c \in AcClients |-> AcIdle] /\ acAdmin = 0

\* A mutant: the caller is known by the name of its key.
AcActorName(k) == acName[k]

\* middleware.Actor: the id of the key, never its name.
AcActor(k) == k

AcHeld(k, roles) == {<<o, roles[o][AcActor(k)]>> : o \in AcOrgs}

\* What changes under a request in flight is noted with the request.
AcNote(reqs, roles, allowed) ==
  [c \in AcClients |->
     IF reqs[c] = AcIdle THEN AcIdle
     ELSE [reqs[c] EXCEPT !.had = @ \cup AcHeld(reqs[c].key, roles), !.may = @ \/ reqs[c].key \in allowed]]

-----------------------------------------------------------------------------
(* The operator's requests, with the master key; each is one statement.     *)

\* Create: the name is unique among the rows.
AcCreateKey(k) ==
  /\ acKey[k] = "none"
  /\ ~\E other \in AcKeys : acKey[other] \notin {"none", "purged"} /\ acName[other] = acName[k]
  /\ acKey' = [acKey EXCEPT ![k] = "live"]
  /\ UNCHANGED <<acRows, acName, acAllowed, acRole, acReq, acAdmin>>

\* expires_at passes; the row stays active.
AcExpire(k) ==
  /\ acKey[k] = "live" /\ acKey' = [acKey EXCEPT ![k] = "expired"]
  /\ UNCHANGED <<acRows, acName, acAllowed, acRole, acReq, acAdmin>>

\* Revoke may be repeated.
AcRevoke(k) ==
  /\ acKey[k] \in {"live", "expired", "revoked"} /\ acKey' = [acKey EXCEPT ![k] = "revoked"]
  /\ UNCHANGED <<acRows, acName, acAllowed, acRole, acReq, acAdmin>>

\* purge, PurgeAPIKey: only a revoked key; its memberships and sessions stay.
AcPurge(k) ==
  /\ acKey[k] = "revoked" /\ acKey' = [acKey EXCEPT ![k] = "purged"]
  /\ UNCHANGED <<acRows, acName, acAllowed, acRole, acReq, acAdmin>>

AcSetSecrets(k) ==
  /\ acKey[k] \notin {"none", "purged"} /\ acAdmin < AcMaxAdmin /\ acAdmin' = acAdmin + 1
  /\ acAllowed' \in {acAllowed \cup {k}, acAllowed \ {k}} /\ acAllowed' # acAllowed
  /\ acReq' = AcNote(acReq, acRole, acAllowed')
  /\ UNCHANGED <<acRows, acKey, acName, acRole>>

\* Create: the organisations have different slugs, or it answers 409.
AcCreateOrg(o) ==
  /\ acOrgs[o] = "none" /\ acOrgs' = [acOrgs EXCEPT ![o] = "up"]
  /\ UNCHANGED <<acKey, acName, acAllowed, acRole, acOwner, acOrg, acMaker, acReq, acAdmin>>

\* DeleteOrg: memberships go with it, its sessions lose their org_id.
AcDeleteOrg(o) ==
  /\ acOrgs[o] = "up" /\ acOrgs' = [acOrgs EXCEPT ![o] = "deleted"]
  /\ acRole' = [acRole EXCEPT ![o] = [p \in AcPrincipals |-> "none"]]
  /\ acOrg' = [s \in AcSessions |-> IF acOrg[s] = o THEN "none" ELSE acOrg[s]]
  /\ acReq' = AcNote(acReq, acRole', acAllowed)
  /\ UNCHANGED <<acKey, acName, acAllowed, acOwner, acMaker, acAdmin>>

\* AddMember and RemoveMember by the operator: any string but a few reserved
\* ones is a principal.
AcSetMember(o, p, r) ==
  /\ acOrgs[o] = "up" /\ acRole[o][p] # r /\ acAdmin < AcMaxAdmin /\ acAdmin' = acAdmin + 1
  /\ acRole' = [acRole EXCEPT ![o][p] = r] /\ acReq' = AcNote(acReq, acRole', acAllowed)
  /\ UNCHANGED <<acRows, acKey, acName, acAllowed>>

-----------------------------------------------------------------------------
(* The requests of clients. *)

\* The row is live: by the hash of a key, or by the id in a session cookie.
AcUsable(k) == acKey[k] = "live"

\* A client sends whatever key it was ever given.
AcArrive(c) ==
  /\ acReq[c] = AcIdle
  /\ \E op \in DOMAIN AcNeeds, k \in AcKeys, s \in AcSessions, o \in AcOrgs \cup {"none"}, to \in AcKeys :
       /\ acKey[k] # "none"
       /\ op = "use" => o = "none" /\ to = k
       /\ op = "make" => acOwner[s] = "none" /\ to = k
       /\ op \in {"add", "drop"} => o # "none" /\ s = CHOOSE t \in AcSessions : TRUE
       /\ acReq' = [acReq EXCEPT ![c] =
            [pc |-> "auth", op |-> op, key |-> k, session |-> s, org |-> o, to |-> to,
             late |-> ~AcUsable(k), had |-> AcHeld(k, acRole), may |-> k \in acAllowed]]
  /\ UNCHANGED <<acRows, acKey, acName, acAllowed, acRole, acAdmin>>

AcGoto(c, pc) ==
  /\ acReq' = [acReq EXCEPT ![c].pc = pc]
  /\ UNCHANGED <<acRows, acKey, acName, acAllowed, acRole, acAdmin>>
AcRefuse(c) ==
  /\ acReq' = [acReq EXCEPT ![c] = AcIdle]
  /\ UNCHANGED <<acRows, acKey, acName, acAllowed, acRole, acAdmin>>

\* APIKeyAuth: also refuses a change that carries a cookie and not the header
\* of the dashboard.
AcAuth(c) ==
  /\ acReq[c].pc = "auth"
  /\ \/ AcUsable(acReq[c].key) /\ AcGoto(c, "load")
     \/ AcRefuse(c)

\* GetSession or GetOrg.  A session's owner needs no role, nor does a session
\* without organisation.
AcLoad(c) ==
  LET r == acReq[c]
      next == [r EXCEPT !.pc = IF r.op = "use" THEN "secret" ELSE "act"] IN
    /\ r.pc = "load"
    /\ \/ /\ r.op = "use" /\ acOwner[r.session] = AcActor(r.key)
          /\ acReq' = [acReq EXCEPT ![c] = next]
          /\ UNCHANGED <<acRows, acKey, acName, acAllowed, acRole, acAdmin>>
       \/ /\ r.op = "use" /\ acOwner[r.session] # AcActor(r.key) /\ acOrg[r.session] # "none"
          /\ acReq' = [acReq EXCEPT ![c].pc = "role", ![c].org = acOrg[r.session]]
          /\ UNCHANGED <<acRows, acKey, acName, acAllowed, acRole, acAdmin>>
       \/ r.op = "use" /\ acOwner[r.session] # AcActor(r.key) /\ acOrg[r.session] = "none" /\ AcRefuse(c)
       \/ r.op = "make" /\ r.org = "none" /\ AcGoto(c, "act")
       \/ /\ r.op # "use" /\ r.org # "none"
          /\ IF acOrgs[r.org] = "up" THEN AcGoto(c, "role") ELSE AcRefuse(c)

\* RoleAtLeast, of a member.
AcSuffices(role, need) == AcRank[role] > 0 /\ AcRank[role] >= AcRank[need]

\* GetOrgMemberRole: sessionIfAccessible and requireOrgAccess.
AcCheckRole(c) ==
  LET r == acReq[c] IN
    /\ r.pc = "role"
    /\ IF AcSuffices(acRole[r.org][AcActor(r.key)], AcNeeds[r.op])
       THEN AcGoto(c, IF r.op = "use" THEN "secret" ELSE "act") ELSE AcRefuse(c)

\* authorizeSecrets, of a run that wants one: a row that is gone permits
\* nothing, although NULL means everything.
AcCheckSecret(c) ==
  LET r == acReq[c] IN
    /\ r.pc = "secret"
    /\ IF acKey[r.key] # "purged" /\ r.key \in acAllowed THEN AcGoto(c, "act") ELSE AcRefuse(c)

-----------------------------------------------------------------------------
(* Three statements of one rule. *)

\* sessionIfAccessible, for whoever may look.
AcAccessible(k, s) ==
  /\ acOwner[s] # "none"
  /\ \/ acOwner[s] = AcActor(k)
     \/ acOrg[s] # "none" /\ AcSuffices(acRole[acOrg[s]][AcActor(k)], "viewer")

\* ListSessionsForActor: sessions joined with the caller's memberships.
AcListed(k) ==
  LET joined == {row \in AcSessions \X AcOrgs :
                   acOrg[row[1]] = row[2] /\ acRole[row[2]][AcActor(k)] # "none"} IN
    {s \in AcSessions : acOwner[s] = AcActor(k) \/ \E o \in AcOrgs : <<s, o>> \in joined}

\* sessionPredicate and alertPredicate: what the caller's costs add up, and
\* whose alerts ResolveAlert writes, are of sessions in these.
AcScoped(k) ==
  LET mine == {o \in AcOrgs : acRole[o][AcActor(k)] # "none"} IN
    {s \in AcSessions : acOwner[s] = AcActor(k) \/ acOrg[s] \in mine}

\* The effect.  A session's organisation and a membership need their parent
\* row; a run is the subject of other modules.
AcAct(c) ==
  LET r == acReq[c]
      done == [acReq EXCEPT ![c] = AcIdle] IN
    /\ r.pc = "act"
    /\ \/ /\ r.op = "make"
          /\ IF acOwner[r.session] = "none" /\ (r.org = "none" \/ acOrgs[r.org] = "up")
             THEN /\ acOwner' = [acOwner EXCEPT ![r.session] = AcActor(r.key)]
                  /\ acMaker' = [acMaker EXCEPT ![r.session] = r.key]
                  /\ acOrg' = [acOrg EXCEPT ![r.session] = r.org]
             ELSE UNCHANGED <<acOwner, acMaker, acOrg>>
          /\ acReq' = done /\ UNCHANGED <<acRole, acOrgs>>
       \/ r.op = "use" /\ acReq' = done /\ UNCHANGED <<acRole, acRows>>
       \/ /\ r.op \in {"add", "drop"} /\ acOrgs[r.org] = "up"
          /\ \E role \in IF r.op = "add" THEN AcRoles ELSE {"none"} :
               acRole' = [acRole EXCEPT ![r.org][r.to] = role]
          /\ acReq' = AcNote(done, acRole', acAllowed) /\ UNCHANGED acRows
       \/ r.op \in {"add", "drop"} /\ acOrgs[r.org] # "up" /\ acReq' = done /\ UNCHANGED <<acRole, acRows>>
    /\ UNCHANGED <<acKey, acName, acAllowed, acAdmin>>

AcNext ==
  \/ \E k \in AcKeys : AcCreateKey(k) \/ AcExpire(k) \/ AcRevoke(k) \/ AcPurge(k) \/ AcSetSecrets(k)
  \/ \E o \in AcOrgs : \/ AcCreateOrg(o) \/ AcDeleteOrg(o)
                       \/ \E p \in AcPrincipals, r \in AcRoles \cup {"none"} : AcSetMember(o, p, r)
  \/ \E c \in AcClients : AcArrive(c) \/ AcAuth(c) \/ AcLoad(c) \/ AcCheckRole(c) \/ AcCheckSecret(c) \/ AcAct(c)

AcSpec == AcInit /\ [][AcNext]_acVars

-----------------------------------------------------------------------------
(* Properties. *)

\* Whatever is revoked, purged, given the same name or moved between two of
\* its statements, a request has its effect only for a key that was in force
\* when it arrived; on a session that the very key made, or in whose
\* organisation it held the role since then; and with a secret it was
\* permitted since then.
AcEntitled ==
  \A c \in AcClients :
    acReq[c].pc = "act" =>
      LET r == acReq[c] IN
        /\ ~r.late /\ (r.op = "use" => r.may)
        /\ \/ r.op = "use" /\ acMaker[r.session] = r.key
           \/ r.op = "make" /\ r.org = "none"
           \/ \E role \in DOMAIN AcRank : <<r.org, role>> \in r.had /\ AcRank[role] >= AcRank[AcNeeds[r.op]]

\* tracker.go: "Visibility mirrors Hub.checkSessionAccess".  The list
\* and the costs are of the sessions that may be opened, and of no other,
\* whoever was removed and whichever organisation deleted.
AcListsMatch ==
  \A k \in AcKeys : LET open == {s \in AcSessions : AcAccessible(k, s)} IN
                      AcListed(k) = open /\ AcScoped(k) = open

\* Both together: tenants stay apart.
AcTenantsApart == AcEntitled /\ AcListsMatch

\* orgs.go: a member's principal is an "API key name (actor)".  The caller is
\* known by the id, so such a member may do nothing.
AcNamesAreMembers ==
  \A o \in AcOrgs, k \in AcKeys :
    acKey[k] = "live" /\ AcRank[acRole[o][acName[k]]] > 0 => AcRank[acRole[o][AcActor(k)]] > 0
=============================================================================
