----------------------------- MODULE AuditChain -----------------------------
(***************************************************************************)
(* The signed and chained audit log (internal/audit): appending an entry,  *)
(* retention, the integrity scan with its cache and the classification of  *)
(* a page, over the tables audit_logs and audit_chain.                     *)
(*                                                                         *)
(* Log and Prune run in a transaction under one advisory lock, so each is  *)
(* one step here and a rollback is no step.  The readers take no lock and  *)
(* no transaction: the scan reads the fingerprint, the head, the chained   *)
(* rows and the unchained rows, the marking of a page its entries, the     *)
(* head and the predecessors, in statements that others interleave with.   *)
(*                                                                         *)
(* HMACs are symbolic.  A signature is the number of the Log call that     *)
(* made it, 0 is the empty string and -1 something nobody signed; `good'   *)
(* says that the row is still what its signature covers.  Editing the      *)
(* database directly never makes a good row out of a bad one.              *)
(***************************************************************************)
EXTENDS Integers, FiniteSets

CONSTANTS
  Legacy,      \* the rows from before chaining, signed or not
  Retention,   \* AUDIT_LOG_RETENTION_DAYS
  MaxAppends,  \* bound: entries written
  MaxTime,     \* bound: the clock
  MaxEdits,    \* bound: direct changes to the tables
  MaxSkews,    \* bound: times the clock is set back
  MaxReaders   \* bound: scans and pages under way at once

ASSUME AuditAssumption ==
  /\ Legacy \subseteq [sig : {"none", "v2"}, time : {0}]
  /\ Retention \in Nat /\ MaxAppends \in Nat /\ MaxTime \in Nat
  /\ MaxEdits \in Nat /\ MaxSkews \in Nat /\ MaxReaders \in Nat

VARIABLES
  log,      \* audit_logs with a seq: number -> row
  loose,    \* audit_logs without a seq
  head,     \* the row of audit_chain
  now,      \* the clock
  written,  \* Log calls so far
  edits,    \* direct changes so far
  skews,    \* times the clock was set back so far
  scan,     \* the Integrity call that holds scanMu, with what it has read
  cache,    \* Logger.integrity with its fingerprint
  answer,   \* the status the last Integrity call returned
  page      \* the page that is being marked, with what was read for it

vars == <<log, loose, head, now, written, edits, skews, scan, cache, answer, page>>

Signatures == Nat \cup {-1}
Entries == [sig : Signatures, good : BOOLEAN, prev : Signatures, time : Nat]
Unnumbered == [sig : {"none", "v2", "v3"}, time : Nat]
Heads == [state : {"none", "valid", "altered"}, seq : Nat, sig : Signatures,
          pruned : Nat, start : Nat]
Statuses == {"none", "ok", "compromised", "not_started"}

TypeOK ==
  /\ DOMAIN log \subseteq Nat \ {0}
  /\ log \in [DOMAIN log -> Entries]
  /\ loose \subseteq Unnumbered
  /\ head \in Heads
  /\ now \in Nat /\ written \in Nat /\ edits \in Nat /\ skews \in Nat
  /\ scan.pc \in {"idle", "head", "rows", "loose"}
  /\ answer \in Statuses
  /\ page.pc \in {"idle", "head", "preds"}

NoHead == [state |-> "none", seq |-> 0, sig |-> 0, pruned |-> 0, start |-> 0]
NoScan == [pc |-> "idle"]
NoCache == [status |-> "none"]
NoPage == [pc |-> "idle"]

Init ==
  /\ log = << >>
  /\ loose = Legacy
  /\ head = NoHead
  /\ now = 1
  /\ written = 0 /\ edits = 0 /\ skews = 0
  /\ scan = NoScan /\ cache = NoCache /\ answer = "none" /\ page = NoPage

Seqs == DOMAIN log
Tables == [log |-> log, loose |-> loose, head |-> head]

Newest(L) == CHOOSE n \in DOMAIN L : \A m \in DOMAIN L : m <= n
First(L, n) == \A m \in DOMAIN L : n <= m

----------------------------------------------------------------------------
(* Log. *)

(* What sign and CreateAuditLog store for the next call. *)
NewEntry(p) == [sig |-> written + 1, good |-> TRUE, prev |-> p, time |-> now]

Put(n, e) == [m \in DOMAIN log \cup {n} |-> IF m = n THEN e ELSE log[m]]

(* Mutant: numbering from zero. *)
LogFirstZero ==
  /\ head.state = "none" /\ Seqs = {}
  /\ log' = Put(0, NewEntry(0))
  /\ head' = [state |-> "valid", seq |-> 0, sig |-> written + 1, pruned |-> 0, start |-> now]

(* No head and no chained rows: the chain starts with this entry. *)
LogFirst ==
  /\ head.state = "none" /\ Seqs = {}
  /\ log' = Put(1, NewEntry(0))
  /\ head' = [state |-> "valid", seq |-> 1, sig |-> written + 1, pruned |-> 0, start |-> now]

LogChained ==
  /\ head.state = "valid"
  /\ log' = Put(head.seq + 1, NewEntry(head.sig))
  /\ head' = [head EXCEPT !.seq = @ + 1, !.sig = written + 1]

(* Mutant: a head that fails verification is signed again. *)
LogRepairsHead ==
  /\ head.state = "altered" \/ (head.state = "none" /\ Seqs # {})
  /\ LET n == IF Seqs = {} THEN 0 ELSE Newest(log)
     IN  /\ log' = Put(n + 1, NewEntry(IF n = 0 THEN 0 ELSE log[n].sig))
         /\ head' = [head EXCEPT !.state = "valid", !.seq = n + 1, !.sig = written + 1]

(* The head is missing or fails verification: it is left as it is, so the  *)
(* evidence stays, and the entry follows the newest row.                   *)
LogUntrusted ==
  /\ head.state = "altered" \/ (head.state = "none" /\ Seqs # {})
  /\ LET n == IF Seqs = {} THEN 0 ELSE Newest(log)
     IN  log' = Put(n + 1, NewEntry(IF n = 0 THEN 0 ELSE log[n].sig))
  /\ UNCHANGED head

Log ==
  /\ written < MaxAppends
  /\ written' = written + 1
  /\ LogFirst \/ LogChained \/ LogUntrusted
  /\ UNCHANGED <<loose, now, edits, skews, scan, cache, answer, page>>

----------------------------------------------------------------------------
(* Prune, called by the cleaner with now - Retention. *)

Cutoff == now - Retention

(* The rows oldPrefix walks: everything before the first young one. *)
Walked == {n \in Seqs : \A m \in Seqs : m <= n => log[m].time < Cutoff}

(* Mutant: only the numbering is checked. *)
FailsInPrefixUnverified(n) ==
  \/ First(log, n) /\ n # head.pruned + 1
  \/ ~First(log, n) /\ (n - 1) \notin Seqs

FailsInPrefix(n) ==
  \/ First(log, n) /\ n # head.pruned + 1
  \/ ~First(log, n) /\ (n - 1) \notin Seqs
  \/ log[n].sig = 0 \/ ~log[n].good
  \/ n = 1 /\ log[n].prev # 0
  \/ (n - 1) \in Seqs /\ (log[n].prev # log[n - 1].sig \/ log[n].time < log[n - 1].time)

(* A row older than the cutoff behind a younger one. *)
MovedBack == \E n \in Seqs \ Walked : log[n].time < Cutoff

Blocked ==
  \/ head.state = "altered"
  \/ head.state = "none" /\ Seqs # {}
  \/ head.state = "valid" /\ (MovedBack \/ \E n \in Walked : FailsInPrefix(n))

Deleted == IF head.state = "valid" THEN Walked ELSE {}

(* Mutant: the boundary is not recorded in the head. *)
HeadAfterPruneUnrecorded == head

HeadAfterPrune ==
  IF Deleted = {} THEN head
  ELSE [head EXCEPT !.pruned = CHOOSE n \in Deleted : \A m \in Deleted : m <= n]

(* Unnumbered rows go too, but only those from before the chain. *)
LooseAfterPrune ==
  {u \in loose : u.time >= Cutoff \/ (head.state = "valid" /\ u.time >= head.start)}

Prune ==
  /\ ~Blocked
  /\ log' = [n \in Seqs \ Deleted |-> log[n]]
  /\ head' = HeadAfterPrune
  /\ loose' = LooseAfterPrune
  /\ page' = IF page.pc = "preds" THEN [page EXCEPT !.pruned = @ \cup Deleted] ELSE page
  /\ UNCHANGED <<now, written, edits, skews, scan, cache, answer>>

----------------------------------------------------------------------------
(* The verdict of a scan on the head h, the rows L and the unnumbered      *)
(* rows U it read.                                                         *)

Gap(h, L, n) ==
  IF First(L, n) THEN h.state = "valid" /\ n > h.pruned + 1 ELSE (n - 1) \notin DOMAIN L

Reason(h, L, n) ==
  IF L[n].sig = 0 THEN "signature removed"
  ELSE IF ~L[n].good THEN "changed"
  ELSE IF n = 1 /\ L[n].prev # 0 THEN "first has parent"
  ELSE IF (n - 1) \in DOMAIN L /\ L[n].prev # L[n - 1].sig THEN "previous changed"
  ELSE IF Gap(h, L, n) THEN "previous missing"
  ELSE "none"

HeadProblem(h, L) ==
  \/ h.state = "none" /\ DOMAIN L # {}
  \/ h.state = "altered"
  \/ /\ h.state = "valid"
     /\ IF DOMAIN L = {} THEN h.seq > h.pruned
        ELSE Newest(L) # h.seq \/ L[Newest(L)].sig # h.sig

LooseProblem(h, U) ==
  h.state = "valid" /\ \E u \in U : u.time >= h.start /\ u.sig # "v2"

Status(h, L, U) ==
  IF HeadProblem(h, L) \/ LooseProblem(h, U) \/ \E n \in DOMAIN L : Reason(h, L, n) # "none"
  THEN "compromised"
  ELSE IF h.state = "none" THEN "not_started" ELSE "ok"

----------------------------------------------------------------------------
(* Integrity: scanMu, fingerprint, cache, scan. *)

Unchanged == UNCHANGED <<log, loose, head, now, written, edits, skews>>

(* A scan or a page more may begin. *)
ReaderFree == (IF scan = NoScan THEN 0 ELSE 1) + (IF page = NoPage THEN 0 ELSE 1) < MaxReaders

(* The cached verdict, while the fingerprint is the same and it is young. *)
IntegrityCached ==
  /\ scan = NoScan
  /\ cache # NoCache
  /\ cache.fp = Tables
  /\ answer' = cache.status
  /\ UNCHANGED <<scan, cache, page>> /\ Unchanged

IntegrityBegin ==
  /\ scan = NoScan /\ ReaderFree
  /\ scan' = [pc |-> "head", fp |-> Tables]
  /\ UNCHANGED <<cache, answer, page>> /\ Unchanged

ScanHead ==
  /\ scan.pc = "head"
  /\ scan' = [pc |-> "rows", fp |-> scan.fp, head |-> head]
  /\ UNCHANGED <<cache, answer, page>> /\ Unchanged

ScanRows ==
  /\ scan.pc = "rows"
  /\ scan' = [pc |-> "loose", fp |-> scan.fp, head |-> scan.head, log |-> log]
  /\ UNCHANGED <<cache, answer, page>> /\ Unchanged

(* Mutant: the result is stored under the fingerprint of the end. *)
ScanFinishLateFingerprint ==
  /\ scan.pc = "loose"
  /\ answer' = Status(scan.head, scan.log, loose)
  /\ cache' = [status |-> answer', fp |-> Tables]
  /\ scan' = NoScan
  /\ UNCHANGED page /\ Unchanged

ScanFinish ==
  /\ scan.pc = "loose"
  /\ answer' = Status(scan.head, scan.log, loose)
  /\ cache' = [status |-> answer', fp |-> scan.fp]
  /\ scan' = NoScan
  /\ UNCHANGED page /\ Unchanged

(* A statement fails: the verdict and the cache stay as they were. *)
ScanFails ==
  /\ scan # NoScan
  /\ scan' = NoScan
  /\ UNCHANGED <<cache, answer, page>> /\ Unchanged

(* The process restarts with an empty cache. *)
Restart ==
  /\ scan' = NoScan /\ cache' = NoCache /\ answer' = "none" /\ page' = NoPage
  /\ Unchanged

----------------------------------------------------------------------------
(* Classify: a page of entries is read (GET /audit, an evidence pack), then *)
(* the head, then the signatures of the entries before them.  The fields    *)
(* `failing', `excused' and `pruned' record what is owed to the page: the   *)
(* entries a scan would have reported when it was read, whether something   *)
(* else than the log as written was read, and the rows retention deleted    *)
(* after the head was read.                                                 *)

(* One page stands for all: every entry is marked by itself. *)
PageRead ==
  /\ page = NoPage /\ ReaderFree
  /\ page' = [pc |-> "head", rows |-> log, head |-> NoHead, pruned |-> {},
              failing |-> IF head.state = "valid"
                          THEN {n \in Seqs : Reason(head, log, n) # "none"} ELSE {},
              excused |-> head.state # "valid"]
  /\ UNCHANGED <<scan, cache, answer>> /\ Unchanged

(* A head that cannot be read is as good as none. *)
PageHead ==
  /\ page.pc = "head"
  /\ \/ page' = [page EXCEPT !.pc = "preds", !.head = head]
     \/ page' = [page EXCEPT !.pc = "preds", !.excused = TRUE]
  /\ UNCHANGED <<scan, cache, answer>> /\ Unchanged

(* Mutant: the entry right after the pruned ones may miss its predecessor. *)
ClassifyOffByOne(n, preds) ==
  IF \/ page.rows[n].sig = 0 \/ ~page.rows[n].good
     \/ IF n = 1 THEN page.rows[n].prev # 0
        ELSE IF (n - 1) \in DOMAIN preds THEN page.rows[n].prev # preds[n - 1].sig
        ELSE n - 2 > (IF page.head.state = "valid" THEN page.head.pruned ELSE 0)
  THEN "invalid" ELSE "valid"

(* The status of one entry, from the predecessors that were found. *)
Classify(n, preds) ==
  IF \/ page.rows[n].sig = 0 \/ ~page.rows[n].good
     \/ IF n = 1 THEN page.rows[n].prev # 0
        ELSE IF (n - 1) \in DOMAIN preds THEN page.rows[n].prev # preds[n - 1].sig
        ELSE n - 1 > (IF page.head.state = "valid" THEN page.head.pruned ELSE 0)
  THEN "invalid" ELSE "valid"

(* The entries the page shows as invalid. *)
Marked(preds) == {n \in DOMAIN page.rows : Classify(n, preds) = "invalid"}

PageMark ==
  /\ page.pc = "preds"
  /\ page' = NoPage
  /\ UNCHANGED <<scan, cache, answer>> /\ Unchanged

----------------------------------------------------------------------------
(* The environment: time, and changes to the tables past the API, of the   *)
(* kinds the Logger documentation lists.                                   *)

Tick ==
  /\ now < MaxTime
  /\ now' = now + 1
  /\ UNCHANGED <<log, loose, head, written, edits, skews, scan, cache, answer, page>>

(* NTP, or another replica's clock. *)
ClockSetBack ==
  /\ skews < MaxSkews /\ now > 1
  /\ skews' = skews + 1
  /\ now' = now - 1
  /\ UNCHANGED <<log, loose, head, written, edits, scan, cache, answer, page>>

Edit ==
  /\ edits < MaxEdits
  /\ edits' = edits + 1
  /\ page' = IF page = NoPage THEN page ELSE [page EXCEPT !.excused = TRUE]
  /\ UNCHANGED <<now, written, skews, scan, cache, answer>>

(* The row n with signature g and time t, and nobody signed that. *)
Rewritten(n, g, t) == [sig |-> g, good |-> FALSE, prev |-> log[n].prev, time |-> t]

Change(n) ==
  /\ \/ \E g \in {log[n].sig, 0, -1} : log' = [log EXCEPT ![n] = Rewritten(n, g, log[n].time)]
     \/ \E t \in {0, MaxTime} : log' = [log EXCEPT ![n] = Rewritten(n, log[n].sig, t)]
  /\ UNCHANGED <<loose, head>>

(* Erasing the head and every row leaves nothing to compare: the chain     *)
(* makes no promise about that.                                            *)
Erase(n) ==
  /\ head.state # "none" \/ Seqs # {n}
  /\ log' = [m \in Seqs \ {n} |-> log[m]]
  /\ loose' \in {loose, loose \cup {[sig |-> "v3", time |-> log[n].time]}}
  /\ UNCHANGED head

ChangeHead ==
  /\ head.state # "none"
  /\ \/ head' = [head EXCEPT !.state = "altered"]
     \/ head' = NoHead /\ Seqs # {}
  /\ UNCHANGED <<log, loose>>

EditTables ==
  /\ Edit
  /\ ChangeHead \/ \E n \in Seqs : Change(n) \/ Erase(n)

Next ==
  \/ Log \/ Prune
  \/ IntegrityCached \/ IntegrityBegin \/ ScanHead \/ ScanRows \/ ScanFinish
  \/ ScanFails \/ Restart
  \/ PageRead \/ PageHead \/ PageMark
  \/ Tick \/ ClockSetBack \/ EditTables

Spec == Init /\ [][Next]_vars

----------------------------------------------------------------------------
(* What holds. *)

(* An untouched log verifies, however it was appended to and pruned, also  *)
(* across clock changes.                                                   *)
UntouchedVerifies ==
  edits = 0 => Status(head, log, loose) \in {"ok", "not_started"}

(* Evidence stays: once a row or the head was changed, removed, renumbered *)
(* or redated, no later append, retention run or further edit makes the    *)
(* log verify again.                                                       *)
EvidenceStays == edits > 0 => Status(head, log, loose) = "compromised"

(* Retention deletes a prefix of the chain, and of that only rows that are *)
(* what was signed and were written before the cutoff: a moved timestamp   *)
(* never pulls a younger row into the deletion.                            *)
PrunesOldPrefix ==
  [][Prune => \A n \in Seqs \ DOMAIN log' :
       /\ log[n].good /\ log[n].time < Cutoff
       /\ \A m \in Seqs : m < n => m \notin DOMAIN log']_vars

(* Retention is only ever paused by an edit or by a clock that went back.  *)
RetentionNotStuck == edits = 0 /\ skews = 0 => ~Blocked

(* Whenever a page that was read is marked from here, every entry the     *)
(* whole-log scan would have reported when it was read is marked, whatever *)
(* was appended, pruned or edited since and also when the head or the      *)
(* predecessors could not be read.  Nothing else is marked, but for an     *)
(* entry whose predecessor retention deleted after the head was read, and  *)
(* for pages that met an edit or a failed read (Classify).                 *)
PageTruthful ==
  page.pc = "preds" =>
    /\ \A preds \in {log, << >>} : page.failing \subseteq Marked(preds)
    /\ ~page.excused => \A n \in Marked(log) \ page.failing : n - 1 \in page.pruned

(* A verdict the cache may answer with is the verdict on the tables as     *)
(* they are: the fingerprint is older than the scan, so whatever the scan  *)
(* raced with invalidates it (Integrity).                                  *)
CacheTruthful ==
  cache # NoCache /\ cache.fp = Tables => cache.status = Status(head, log, loose)

----------------------------------------------------------------------------
(* What the documentation says and the code does not do. *)

(* docs/configuration.md: "so a pruned log still verifies"; an untouched   *)
(* log is never reported compromised.                                      *)
NoFalseAlarm == answer = "compromised" => edits > 0
=============================================================================
