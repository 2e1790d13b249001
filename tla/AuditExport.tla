------------------------------ MODULE AuditExport -----------------------------
(***************************************************************************)
(* The export of the audit log to an outside store (internal/siemexport):    *)
(* every 30 s the entries dated after a bookmark are posted, and the         *)
(* bookmark moves to the last of them.  With AUDIT_HMAC_KEY an entry is      *)
(* dated and inserted under one lock; without it the two are apart, and two  *)
(* writers may insert in another order than they took the time.  An entry is *)
(* its place in the order of insertion; what the chain adds is AuditChain's. *)
(***************************************************************************)
EXTENDS FiniteSetsExt, Integers, Sequences

CONSTANTS
  AxWriters,   \* calls of Log under way
  AxBatch,     \* entries of a POST (500)
  AxKeep,      \* AUDIT_LOG_RETENTION_DAYS, in ticks
  AxMaxLog,    \* bound: entries
  AxMaxClock   \* bound: the clock, in microseconds that matter

ASSUME AuditExportAssumption ==
  /\ AxBatch \in Nat \ {0} /\ AxKeep \in Nat /\ AxMaxLog \in Nat /\ AxMaxClock \in Nat

VARIABLES
  axChained,  \* AUDIT_HMAC_KEY is set
  axClock,
  axHeld,     \* the time each writer took; -1 when it took none
  axLog,      \* the entries' timestamps, in the order of insertion
  axGone,     \* entries that retention deleted
  axPc,       \* the exporter waits for its ticker, or for the answer to a POST
  axBatch,    \* the entries it is posting
  axMark,     \* bookmark
  axSince,    \* history: when this exporter was started
  axGot       \* entries the outside store has

axVars == <<axChained, axClock, axHeld, axLog, axGone, axPc, axBatch, axMark, axSince, axGot>>

AxTimes == 0..AxMaxClock
AxEntries == DOMAIN axLog

AxTypeOK ==
  /\ axChained \in BOOLEAN /\ {axClock, axMark, axSince} \subseteq AxTimes
  /\ axHeld \in [AxWriters -> AxTimes \union {-1}]
  /\ axLog \in Seq(AxTimes) /\ Len(axLog) <= AxMaxLog
  /\ axGone \subseteq AxEntries /\ axGot \subseteq AxEntries /\ axBatch \subseteq AxEntries
  /\ axPc \in {"idle", "post"}

\* New: the bookmark starts from now.
AxInit ==
  /\ axChained \in BOOLEAN /\ axClock = 0 /\ axHeld = [w \in AxWriters |-> -1]
  /\ axLog = <<>> /\ axGone = {} /\ axPc = "idle" /\ axBatch = {}
  /\ axMark = 0 /\ axSince = 0 /\ axGot = {}

-----------------------------------------------------------------------------
(* The log *)

AxTick ==
  /\ axClock < AxMaxClock /\ axClock' = axClock + 1
  /\ UNCHANGED <<axChained, axHeld, axLog, axGone, axPc, axBatch, axMark, axSince, axGot>>

\* Log takes the time ...
AxStamp(w) ==
  /\ ~axChained /\ axHeld[w] = -1 /\ axHeld' = [axHeld EXCEPT ![w] = axClock]
  /\ UNCHANGED <<axChained, axClock, axLog, axGone, axPc, axBatch, axMark, axSince, axGot>>

\* ... and inserts the entry; both at once in a chained log.
AxAppend(w) ==
  LET time == IF axChained THEN axClock ELSE axHeld[w] IN
  /\ time # -1 /\ Len(axLog) < AxMaxLog
  /\ axLog' = Append(axLog, time) /\ axHeld' = [axHeld EXCEPT ![w] = -1]
  /\ UNCHANGED <<axChained, axClock, axGone, axPc, axBatch, axMark, axSince, axGot>>

\* DeleteOldAuditLogs; retention of a chained log may stop earlier.
AxPrune ==
  /\ \E cutoff \in AxTimes :
       /\ cutoff = axClock - AxKeep \/ (axChained /\ cutoff < axClock - AxKeep)
       /\ axGone' = axGone \union {i \in AxEntries : axLog[i] < cutoff}
  /\ UNCHANGED <<axChained, axClock, axHeld, axLog, axPc, axBatch, axMark, axSince, axGot>>

-----------------------------------------------------------------------------
(* The exporter *)

\* ListAuditSince: the earliest that are dated after the bookmark, in any order
\* when they carry the same time.
AxListed(batch) ==
  LET since == {i \in AxEntries \ axGone : axLog[i] > axMark} IN
  /\ batch \subseteq since /\ Cardinality(batch) = Min({AxBatch, Cardinality(since)})
  /\ \A i \in batch, j \in since \ batch : axLog[i] <= axLog[j]

AxList ==
  /\ axPc = "idle" /\ axPc' = "post"
  /\ \E batch \in (SUBSET AxEntries) \ {{}} : AxListed(batch) /\ axBatch' = batch
  /\ UNCHANGED <<axChained, axClock, axHeld, axLog, axGone, axMark, axSince, axGot>>

\* A mutant: the bookmark moves to the time of the export.
AxBookmarkNow(batch) == axClock

AxBookmark(batch) == Max({axLog[i] : i \in batch})

\* The POST: what was not received, and what was received although its answer
\* is an error or is lost, is posted again at the next tick.
AxPost ==
  /\ axPc = "post" /\ axPc' = "idle" /\ axBatch' = {}
  /\ \/ axGot' = axGot \union axBatch /\ axMark' = AxBookmark(axBatch)
     \/ axGot' = axGot \union axBatch /\ UNCHANGED axMark
     \/ UNCHANGED <<axGot, axMark>>
  /\ UNCHANGED <<axChained, axClock, axHeld, axLog, axGone, axSince>>

\* The process ends, with the entries its writers had not inserted, and starts.
AxRestart ==
  /\ axPc' = "idle" /\ axBatch' = {} /\ axHeld' = [w \in AxWriters |-> -1]
  /\ axMark' = axClock /\ axSince' = axClock
  /\ UNCHANGED <<axChained, axClock, axLog, axGone, axGot>>

AxNext ==
  \/ AxTick \/ AxPrune \/ AxList \/ AxPost \/ AxRestart
  \/ \E w \in AxWriters : AxStamp(w) \/ AxAppend(w)

AxSpec == AxInit /\ [][AxNext]_axVars

-----------------------------------------------------------------------------

\* However inserts, failed and lost posts, retention and ticks interleave, the
\* bookmark of a running exporter passes over no entry that the outside store
\* has not got: but for one that was inserted behind an entry dated later, and
\* for one that shares its microsecond with the last of a batch
\* (internal/siemexport/exporter.go:11,95-136).
AxNoneSkipped ==
  \A i \in AxEntries \ (axGone \union axGot) :
    axSince < axLog[i] /\ axLog[i] <= axMark =>
      \E j \in axGot : axLog[j] = axLog[i] \/ (j < i /\ axLog[i] < axLog[j])

\* docs/operations.md:19, "stream the audit log off the host with
\* AUDIT_EXPORT_URL to lose nothing".  Refuted: the bookmark is kept in memory,
\* and what was written since the last export when the process ends, or before
\* the exporter of the next one starts, is never posted.
AxLoseNothing ==
  \A i \in AxEntries : axLog[i] > 0 => i \in axGot \/ i \in axGone \/ axLog[i] > axMark

=============================================================================
