------------------------------- MODULE Templates -------------------------------
(***************************************************************************)
(* Session templates (internal/templates, cmd/api/handlers/templates.go):   *)
(* rows that many callers read, change, use and delete, and the built-in    *)
(* template that every API process inserts at its start.  Callers are taken *)
(* to be authorised.  A trigger of the database counts the uses.            *)
(***************************************************************************)
EXTENDS Naturals

CONSTANTS
  TeClients,   \* requests under way at once
  TeInstances, \* API processes that start
  TeMaxUses,   \* bound: uses recorded of one template
  TeMaxFails   \* bound: statements that fail

ASSUME TemplatesAssumption == TeMaxUses \in Nat /\ TeMaxFails \in Nat

VARIABLES
  teRows,     \* session_templates
  teUsed,     \* rows inserted into template_usage for each template
  teAt,       \* what each request has read and does next
  teStart,    \* each process: its Bootstrap, then serving or exited
  teFails

teVars == <<teRows, teUsed, teAt, teStart, teFails>>

\* One template of a caller beside the built-in one; it may take its slug.
TeIds == {"builtin", "custom"}
TeSlugs == {"builtin", "other"}
TeImages == {"allowed", "refused"} \* by the deployment's policy

TeRow == [slug : TeSlugs, image : TeImages, published : BOOLEAN, uses : 0..TeMaxUses]
TeNone == [slug |-> "never", image |-> "allowed", published |-> FALSE, uses |-> 0]
TeGone == [TeNone EXCEPT !.slug = "deleted"]
TeIdle == [step |-> "idle"]

TeTypeOK ==
  /\ teRows \in [TeIds -> TeRow \cup {TeNone, TeGone}] /\ teUsed \in [TeIds -> 0..TeMaxUses]
  /\ \A c \in TeClients :
       \/ teAt[c] = TeIdle
       \/ teAt[c] \in [step : {"update", "use"}, id : TeIds, row : TeRow]
       \/ teAt[c] \in [step : {"link", "usage"}, id : TeIds]
       \/ teAt[c] \in [step : {"insert"}, slug : TeSlugs]
  /\ teStart \in [TeInstances -> {"check", "insert", "serving", "exited"}]
  /\ teFails \in 0..TeMaxFails

TeInit ==
  /\ teRows = [i \in TeIds |-> TeNone] /\ teUsed = [i \in TeIds |-> 0]
  /\ teAt = [c \in TeClients |-> TeIdle]
  /\ teStart = [n \in TeInstances |-> "check"] /\ teFails = 0

TeThere(i) == teRows[i] \notin {TeNone, TeGone}
TeTaken(slug) == \E i \in TeIds : teRows[i].slug = slug
TeServing == \E n \in TeInstances : teStart[n] = "serving"
TeIs(c, step) == teAt[c].step = step
TeDoes(c, next) == teAt' = [teAt EXCEPT ![c] = next]
TePut(i, row) == teRows' = [teRows EXCEPT ![i] = row]
TeFail == teFails < TeMaxFails /\ teFails' = teFails + 1

-----------------------------------------------------------------------------
(* Bootstrap, for each process; an insert that conflicts ends it. *)

TeBootChecks(n) ==
  /\ teStart[n] = "check"
  /\ teStart' = [teStart EXCEPT ![n] = IF TeThere("builtin") THEN "serving" ELSE "insert"]
  /\ UNCHANGED <<teRows, teUsed, teAt, teFails>>

TeBootInserts(n) ==
  /\ teStart[n] = "insert"
  /\ IF TeThere("builtin") \/ TeTaken("builtin")
     THEN teStart' = [teStart EXCEPT ![n] = "exited"] /\ UNCHANGED teRows
     ELSE /\ teStart' = [teStart EXCEPT ![n] = "serving"]
          /\ TePut("builtin", [TeNone EXCEPT !.slug = "builtin", !.published = TRUE])
  /\ UNCHANGED <<teUsed, teAt, teFails>>

\* A process ends, and another takes its place.
TeRestart(n) ==
  /\ teStart[n] = "serving" /\ teStart' = [teStart EXCEPT ![n] = "check"]
  /\ UNCHANGED <<teRows, teUsed, teAt, teFails>>

-----------------------------------------------------------------------------
(* Create, Update, Delete. *)

\* Create: the slug is looked up, then the row inserted; the slug is unique.
TeCreate(c, slug) ==
  /\ TeIs(c, "idle") /\ TeServing /\ ~TeTaken(slug)
  /\ TeDoes(c, [step |-> "insert", slug |-> slug])
  /\ UNCHANGED <<teRows, teUsed, teStart, teFails>>

TeInsert(c) ==
  /\ TeIs(c, "insert") /\ TeDoes(c, TeIdle)
  /\ \/ teRows["custom"] = TeNone /\ ~TeTaken(teAt[c].slug)
        /\ TePut("custom", [TeNone EXCEPT !.slug = teAt[c].slug]) /\ UNCHANGED teFails
     \/ TeTaken(teAt[c].slug) /\ UNCHANGED <<teRows, teFails>>
     \/ TeFail /\ UNCHANGED teRows
  /\ UNCHANGED <<teUsed, teStart>>

\* Get: the row an update or a use goes on from.
TeGet(c, i, step) ==
  /\ TeIs(c, "idle") /\ TeServing /\ TeThere(i)
  /\ TeDoes(c, [step |-> step, id |-> i, row |-> teRows[i]])
  /\ UNCHANGED <<teRows, teUsed, teStart, teFails>>

\* A mutant: the row that was read is written back with the change.
TeBaseRead(c) == teAt[c].row

\* What an update leaves as it is: only the columns it names are written.
TeBase(c) == teRows[teAt[c].id]

TeUpdate(c) ==
  /\ TeIs(c, "update") /\ TeDoes(c, TeIdle)
  /\ \/ /\ TeThere(teAt[c].id) /\ UNCHANGED teFails
        /\ \/ \E image \in TeImages : TePut(teAt[c].id, [TeBase(c) EXCEPT !.image = image])
           \/ \E p \in BOOLEAN : TePut(teAt[c].id, [TeBase(c) EXCEPT !.published = p])
     \/ ~TeThere(teAt[c].id) /\ UNCHANGED <<teRows, teFails>>
     \/ TeFail /\ UNCHANGED teRows
  /\ UNCHANGED <<teUsed, teStart>>

\* The usage rows go with the template.
TeDrop(i) ==
  /\ TePut(i, IF i = "builtin" THEN TeNone ELSE TeGone)
  /\ teUsed' = [teUsed EXCEPT ![i] = 0]

TeDelete(i) ==
  /\ TeServing /\ TeThere(i) /\ TeDrop(i) /\ UNCHANGED <<teAt, teStart, teFails>>

-----------------------------------------------------------------------------
(* CreateSessionFromTemplate. *)

\* enforceSessionPolicy, then the session's row: both with the row that was
\* read; what follows of the session is in Sessions.
TeUse(c) ==
  /\ TeIs(c, "use")
  /\ \/ /\ teAt[c].row.image = "allowed"
        /\ TeDoes(c, [step |-> "link", id |-> teAt[c].id]) /\ UNCHANGED teFails
     \/ teAt[c].row.image = "refused" /\ TeDoes(c, TeIdle) /\ UNCHANGED teFails
     \/ TeFail /\ TeDoes(c, TeIdle)
  /\ UNCHANGED <<teRows, teUsed, teStart>>

\* The link to a template that is gone fails; the session stays.
TeLink(c) ==
  /\ TeIs(c, "link")
  /\ \/ TeThere(teAt[c].id) /\ TeDoes(c, [teAt[c] EXCEPT !.step = "usage"]) /\ UNCHANGED teFails
     \/ ~TeThere(teAt[c].id) /\ TeDoes(c, TeIdle) /\ UNCHANGED teFails
     \/ TeFail /\ TeDoes(c, TeIdle)
  /\ UNCHANGED <<teRows, teUsed, teStart>>

\* RecordUsage and the trigger on its table; an error is logged.
TeRecordUsage(c) ==
  /\ TeIs(c, "usage") /\ TeDoes(c, TeIdle)
  /\ LET i == teAt[c].id IN
       \/ /\ TeThere(i) /\ teUsed[i] < TeMaxUses /\ UNCHANGED teFails
          /\ teUsed' = [teUsed EXCEPT ![i] = @ + 1]
          /\ TePut(i, [teRows[i] EXCEPT !.uses = @ + 1])
       \/ ~TeThere(i) /\ UNCHANGED <<teRows, teUsed, teFails>>
       \/ TeFail /\ UNCHANGED <<teRows, teUsed>>
  /\ UNCHANGED teStart

TeNext ==
  \/ \E n \in TeInstances : TeBootChecks(n) \/ TeBootInserts(n) \/ TeRestart(n)
  \/ \E i \in TeIds : TeDelete(i)
  \/ \E c \in TeClients :
       \/ \E slug \in TeSlugs : TeCreate(c, slug)
       \/ \E i \in TeIds : TeGet(c, i, "update") \/ TeGet(c, i, "use")
       \/ TeInsert(c) \/ TeUpdate(c) \/ TeUse(c) \/ TeLink(c) \/ TeRecordUsage(c)

TeSpec == TeInit /\ [][TeNext]_teVars

-----------------------------------------------------------------------------
(* Properties. *)

\* 016_template_usage_optional_org.up.sql: a usage row that is missed leaves
\* "use_count wrong (the counter is driven by a trigger on this table)"; and no
\* update that began before a use loses it.
TeUsesCounted == \A i \in TeIds : teRows[i].uses = teUsed[i]

\* main.go: "Bootstrap built-in templates (idempotent)": a process that starts
\* without a failing statement gets to serve.
TeStarts == teFails = 0 => \A n \in TeInstances : teStart[n] # "exited"
=============================================================================
