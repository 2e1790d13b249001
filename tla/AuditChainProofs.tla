-------------------------- MODULE AuditChainProofs --------------------------
(* Proofs about AuditChain for chains of every length, any number of edits *)
(* and clock changes, and every retention period.                          *)
EXTENDS AuditChain, WellFoundedInduction, TLAPS

(* Row numbers the head accounts for. *)
Numbers == (head.pruned + 1)..head.seq

Sizes ==
  /\ written \in Nat /\ edits \in Nat /\ skews \in Nat /\ now \in Nat \ {0}
  /\ head \in Heads
  /\ Seqs \subseteq 1..written
  /\ log \in [Seqs -> Entries]
  /\ head.seq <= written
  /\ loose \subseteq Unnumbered

(* The head covers the rows; without one there are rows exactly when the   *)
(* tables were edited; a head that fails verification was edited.          *)
HeadInv ==
  /\ head.state = "valid" =>
       head.seq >= 1 /\ head.pruned <= head.seq /\ head.start >= 1 /\ Seqs \subseteq Numbers
  /\ head.state = "altered" => edits > 0
  /\ head.state = "none" => (edits = 0 <=> Seqs = {})

(* An untouched chain is complete, signed and linked up to its head. *)
CleanInv ==
  edits = 0 =>
    /\ \A u \in loose : u.time = 0
    /\ head.state = "valid" =>
         /\ Seqs = Numbers
         /\ \A n \in Seqs : log[n].good /\ log[n].sig > 0
         /\ \A n \in Seqs : n = 1 => log[n].prev = 0
         /\ \A n \in Seqs : (n - 1) \in Seqs => log[n].prev = log[n - 1].sig
         /\ Seqs # {} => log[head.seq].sig = head.sig

(* An edited chain under a valid head has a hole or a row that fails. *)
EvidenceInv ==
  edits > 0 /\ head.state = "valid" => \E n \in Numbers : n \notin Seqs \/ ~log[n].good

(* Without clock changes and edits, rows are dated in order. *)
OrderInv ==
  edits = 0 /\ skews = 0 =>
    /\ \A n \in Seqs : log[n].time <= now
    /\ \A m, n \in Seqs : m <= n => log[m].time <= log[n].time

PageShape ==
  \/ page = NoPage
  \/ page \in [pc : {"head", "preds"}, rows : {page.rows}, head : Heads,
               pruned : SUBSET Nat, failing : SUBSET Nat, excused : BOOLEAN]

ScanInv ==
  /\ scan.pc \in {"idle", "head", "rows", "loose"} /\ answer \in Statuses
  /\ cache.status \in Statuses
  /\ PageShape

IInv == Sizes /\ HeadInv /\ CleanInv /\ EvidenceInv /\ OrderInv

(* Signatures are numbered in the order they were made; what is good       *)
(* follows something signed before it.                                     *)
SigInv ==
  /\ head.sig <= written /\ (head.state = "none" => head = NoHead)
  /\ \A n \in Seqs : log[n].sig <= written /\ (log[n].good => log[n].prev < log[n].sig)

(* A row that h accounts for is missing, was changed, or was written after *)
(* h: whatever else happens to the log, h never accounts for it again.     *)
Misses(h, L) ==
  \E n \in (h.pruned + 1)..h.seq : n \notin DOMAIN L \/ ~L[n].good \/ L[n].sig > h.sig

Fails(h, L) == HeadProblem(h, L) \/ \E n \in DOMAIN L : Reason(h, L, n) # "none"

Bad(T) == Status(T.head, T.log, T.loose) = "compromised"

(* T is what the tables were, or still are: an untouched log only grows at *)
(* its head and shrinks behind it.                                         *)
Older(T) ==
  edits = 0 =>
    /\ T.head.seq <= head.seq /\ T.head.pruned <= head.pruned /\ loose \subseteq T.loose
    /\ T.head.seq = head.seq /\ T.head.pruned = head.pruned => T.head = head /\ T.log = log

PrintInv(T) == T.head \in Heads /\ Older(T) /\ (Bad(T) => edits > 0)

(* The head a scan has read, when it began on a log that did not verify.   *)
HeadRead(h) ==
  /\ h \in Heads /\ h.sig <= written
  /\ h.state = "none" => head.state = "none"
  /\ h.state = "valid" => Misses(h, log)

ReadInv ==
  scan.pc # "idle" =>
    /\ PrintInv(scan.fp)
    /\ scan.pc \in {"rows", "loose"} /\ edits = 0 /\ scan.fp = Tables => scan.head = head
    /\ scan.pc = "rows" /\ Bad(scan.fp) => HeadRead(scan.head)
    /\ scan.pc = "loose" /\ edits = 0 /\ scan.fp = Tables => scan.log = log
    /\ scan.pc = "loose" /\ Bad(scan.fp) => Fails(scan.head, scan.log)

CacheInv ==
  cache # NoCache =>
    /\ PrintInv(cache.fp)
    /\ Bad(cache.fp) => cache.status = "compromised"
    /\ edits = 0 /\ cache.fp = Tables => cache.status = Status(head, log, loose)

ReadsInv == SigInv /\ ReadInv /\ CacheInv

(* Under a head that verifies, good rows name the row before them, as long *)
(* as that is good, and the newest one is what the head signed.            *)
LinkInv ==
  head.state = "valid" =>
    /\ head.sig \in 1..written
    /\ head.seq \in Seqs /\ log[head.seq].good => log[head.seq].sig = head.sig
    /\ \A n \in Seqs : log[n].good /\ n > 1 =>
         /\ log[n].prev \in 1..written
         /\ (n - 1) \in Seqs /\ log[n - 1].good => log[n].prev = log[n - 1].sig

(* What n's predecessor can no longer be: what n names, or a row that      *)
(* retention would delete.                                                 *)
Orphan(n) ==
  /\ n \in Nat /\ n > 1 /\ page.rows[n].prev \in 1..written
  /\ (n - 1) \in Seqs => log[n - 1].sig # page.rows[n].prev
  /\ head.state = "valid" => (n - 1) \in Numbers /\ ((n - 1) \notin Seqs \/ ~log[n - 1].good)
  /\ page.pc = "preds" /\ page.head.state = "valid" => n - 1 > page.head.pruned

SelfBad(n) ==
  page.rows[n].sig = 0 \/ ~page.rows[n].good \/ (n = 1 /\ page.rows[n].prev # 0)

(* An entry of the page the scan would have reported when it was read. *)
Owed(n) == n \in DOMAIN page.rows /\ edits > 0 /\ (SelfBad(n) \/ Orphan(n))

(* What retention had deleted when the page's head was read, or so far. *)
Boundary == IF page.pc = "preds" THEN page.head.pruned ELSE head.pruned

(* An entry of the page the scan would not have reported. *)
Linked(n) ==
  /\ n \in Nat /\ n > 1
  /\ (n - 1) \in Seqs => log[n - 1].sig = page.rows[n].prev
  /\ (n - 1) \notin Seqs => n - 1 <= head.pruned /\ (n - 1 <= Boundary \/ n - 1 \in page.pruned)

Sound(n) == ~SelfBad(n) /\ (n = 1 \/ Linked(n))

PageInv ==
  page # NoPage =>
    /\ page.pc = "head" => page.head.state = "none"
    /\ \A n \in page.failing : Owed(n)
    /\ ~page.excused =>
         /\ head.state = "valid"
         /\ page.pc = "preds" => page.head.state = "valid"
         /\ \A n \in DOMAIN page.rows \ page.failing : Sound(n)

tables == <<log, loose, head, now, written, edits, skews>>

----------------------------------------------------------------------------
(* Every non-empty set of naturals has a least element. *)
LEMMA Least ==
  ASSUME NEW S \in SUBSET Nat, S # {}
  PROVE  \E n \in S : \A m \in S : n <= m
  <1>1. PICK x \in S : \A y \in S : ~(<<y, x>> \in OpToRel(<, Nat))
    BY NatLessThanWellFounded, WFMin
  <1>2. \A y \in S : ~(y < x)
    BY <1>1, Zenon DEF OpToRel
  <1> QED
    BY <1>2

(* Every non-empty bounded one has a greatest. *)
LEMMA Greatest ==
  ASSUME NEW N \in Nat, NEW S \in SUBSET (1..N), S # {}
  PROVE  \E n \in S : \A m \in S : m <= n
  <1> DEFINE T == {N - n : n \in S}
  <1>1. T \in SUBSET Nat
    OBVIOUS
  <1>2. PICK s \in S : TRUE
    OBVIOUS
  <1>3. N - s \in T
    OBVIOUS
  <1>4. PICK t \in T : \A u \in T : t <= u
    BY <1>1, <1>3, Least
  <1>5. PICK n \in S : t = N - n
    OBVIOUS
  <1>6. \A m \in S : N - n <= N - m
    BY <1>4, <1>5
  <1> QED
    BY <1>6

(* The newest row is one that no other exceeds. *)
LEMMA NewestIsMax ==
  ASSUME NEW L, DOMAIN L \subseteq 1..written, written \in Nat, DOMAIN L # {}
  PROVE  Newest(L) \in DOMAIN L /\ \A m \in DOMAIN L : m <= Newest(L)
  <1>1. \E n \in DOMAIN L : \A m \in DOMAIN L : m <= n
    BY Greatest
  <1> QED
    BY <1>1 DEF Newest

----------------------------------------------------------------------------
(* Appending keeps the invariant. *)
LEMMA LogKeeps ==
  ASSUME IInv, Log
  PROVE  IInv'
  <1> USE DEF IInv, Seqs
  <1>0. /\ written' = written + 1 /\ UNCHANGED <<loose, now, edits, skews>>
        /\ written \in Nat /\ now \in Nat /\ now >= 1
    BY DEF Log, Sizes
  <1>1. CASE LogFirst
    <2>1. /\ DOMAIN log' = {1}
          /\ log'[1] = [sig |-> written + 1, good |-> TRUE, prev |-> 0, time |-> now]
          /\ edits = 0
          /\ head' = [state |-> "valid", seq |-> 1, sig |-> written + 1, pruned |-> 0, start |-> now]
      BY <1>1 DEF LogFirst, Put, NewEntry, HeadInv
    <2>2. Sizes'
      <3>1. log' \in [{1} -> Entries]
        BY <1>0, <1>1, <2>1 DEF LogFirst, Put, NewEntry, Entries, Signatures
      <3>2. head' \in Heads
        BY <1>0, <2>1 DEF Heads, Signatures
      <3> QED
        BY <1>0, <2>1, <3>1, <3>2 DEF Sizes
    <2>3. HeadInv' /\ EvidenceInv' /\ OrderInv'
      BY <1>0, <2>1 DEF HeadInv, EvidenceInv, OrderInv, Numbers
    <2>4. CleanInv'
      BY <1>0, <2>1 DEF CleanInv, Numbers
    <2> QED
      BY <2>2, <2>3, <2>4
  <1>2. CASE LogChained
    <2> DEFINE k == head.seq + 1
    <2>1. /\ DOMAIN log' = Seqs \cup {k}
          /\ log'[k] = [sig |-> written + 1, good |-> TRUE, prev |-> head.sig, time |-> now]
          /\ \A n \in Seqs : n # k => log'[n] = log[n]
          /\ head.state = "valid"
          /\ head'.state = "valid" /\ head'.seq = k /\ head'.sig = written + 1
          /\ head'.pruned = head.pruned /\ head'.start = head.start
      BY <1>2 DEF LogChained, Put, NewEntry, Sizes, Heads
    <2>2. /\ head.seq \in Nat /\ head.pruned \in Nat /\ head.seq >= 1 /\ head.pruned <= head.seq
          /\ head.start >= 1 /\ Seqs \subseteq Numbers /\ k \notin Seqs /\ head.sig \in Signatures
          /\ head.seq <= written /\ head.start \in Nat
      BY <2>1 DEF HeadInv, Sizes, Heads, Numbers
    <2>3. Sizes'
      <3>0. head.seq + 1 \in Nat /\ written + 1 \in Signatures
        BY <1>0, <2>2 DEF Signatures
      <3>1. head' \in Heads
        BY <1>2, <3>0 DEF LogChained, Sizes, Heads
      <3>2. log' \in [Seqs \cup {k} -> Entries]
        BY <1>0, <1>2, <2>2 DEF LogChained, Put, NewEntry, Sizes, Entries, Signatures
      <3>3. Seqs \cup {k} \subseteq 1..(written + 1)
        BY <1>0, <2>2 DEF Sizes
      <3> QED
        BY <1>0, <2>1, <2>2, <3>1, <3>2, <3>3 DEF Sizes
    <2>4. HeadInv'
      BY <1>0, <2>1, <2>2 DEF HeadInv, Numbers
    <2>5. CleanInv'
      <3> SUFFICES ASSUME edits = 0 PROVE CleanInv'
        BY <1>0 DEF CleanInv
      <3>1. \A u \in loose' : u.time = 0
        BY <1>0 DEF CleanInv
      <3>2. DOMAIN log' = Numbers'
        BY <2>1, <2>2 DEF CleanInv, Numbers
      <3>3. \A n \in DOMAIN log' : log'[n].good /\ log'[n].sig > 0 /\ (n = 1 => log'[n].prev = 0)
        BY <1>0, <2>1, <2>2 DEF CleanInv
      <3>4. \A n \in DOMAIN log' : (n - 1) \in DOMAIN log' => log'[n].prev = log'[n - 1].sig
        <4>1. ASSUME NEW n \in Seqs, (n - 1) \in DOMAIN log'
              PROVE  log'[n].prev = log'[n - 1].sig
          <5>1. (n - 1) \in Seqs
            BY <2>1, <2>2, <4>1 DEF Numbers
          <5> QED
            BY <2>1, <2>2, <5>1 DEF CleanInv
        <4>2. ASSUME head.seq \in Seqs
              PROVE  log'[k].prev = log'[k - 1].sig
          BY <2>1, <2>2, <4>2 DEF CleanInv
        <4>3. k - 1 = head.seq /\ head.seq # k
          BY <2>2
        <4> QED
          BY <2>1, <4>1, <4>2, <4>3
      <3> QED
        BY <2>1, <3>1, <3>2, <3>3, <3>4 DEF CleanInv
    <2>6. EvidenceInv'
      BY <1>0, <2>1, <2>2 DEF EvidenceInv, Numbers
    <2>7. OrderInv'
      BY <1>0, <2>1, <2>2 DEF OrderInv, Numbers
    <2> QED
      BY <2>3, <2>4, <2>5, <2>6, <2>7
  <1>3. CASE LogUntrusted
    <2> DEFINE n == IF Seqs = {} THEN 0 ELSE Newest(log)
    <2>1. n \in 0..written /\ (n = 0 <=> Seqs = {}) /\ (n # 0 => n \in Seqs)
      <3>1. CASE Seqs = {}
        BY <1>0, <3>1
      <3>2. CASE Seqs # {}
        <4>1. Newest(log) \in Seqs
          BY <1>0, <3>2, NewestIsMax DEF Sizes
        <4> QED
          BY <1>0, <3>2, <4>1 DEF Sizes
      <3> QED
        BY <3>1, <3>2
    <2>2. /\ DOMAIN log' = Seqs \cup {n + 1}
          /\ head' = head /\ head.state # "valid"
          /\ edits > 0
      BY <1>3 DEF LogUntrusted, Put, HeadInv, Sizes
    <2>3. Sizes'
      <3>1. log' \in [Seqs \cup {n + 1} -> Entries]
        <4>1. NewEntry(IF n = 0 THEN 0 ELSE log[n].sig) \in Entries
          BY <1>0, <2>1 DEF NewEntry, Sizes, Entries, Signatures
        <4>2. log' = Put(n + 1, NewEntry(IF n = 0 THEN 0 ELSE log[n].sig))
          BY <1>3 DEF LogUntrusted
        <4> QED
          BY <4>1, <4>2 DEF Put, Sizes
      <3> QED
        BY <1>0, <2>1, <2>2, <3>1 DEF Sizes, Heads
    <2>4. HeadInv' /\ CleanInv' /\ EvidenceInv' /\ OrderInv'
      BY <1>0, <2>2 DEF HeadInv, CleanInv, EvidenceInv, OrderInv
    <2> QED
      BY <2>3, <2>4
  <1> QED
    BY <1>1, <1>2, <1>3 DEF Log

----------------------------------------------------------------------------
(* What retention deletes when it is not blocked: a run of good rows right *)
(* behind the recorded boundary.                                           *)
LEMMA WalkedPrefix ==
  ASSUME IInv, ~Blocked, head.state = "valid", Walked # {},
         NEW p, p = CHOOSE n \in Walked : \A m \in Walked : m <= n
  PROVE  /\ p \in Walked /\ p \in Nat
         /\ \A m \in Walked : m <= p
         /\ \A m \in Seqs : m <= p => m \in Walked
         /\ \A n \in (head.pruned + 1)..p : n \in Walked /\ log[n].good
  <1> USE DEF IInv
  <1>0. /\ written \in Nat /\ head.pruned \in Nat /\ Seqs \subseteq 1..written
        /\ Walked \subseteq Seqs /\ Seqs \subseteq Numbers
    BY DEF Sizes, Heads, Walked, HeadInv
  <1>1. \E n \in Walked : \A m \in Walked : m <= n
    BY <1>0, Greatest
  <1>2. p \in Walked /\ \A m \in Walked : m <= p
    BY <1>1
  <1>3. p \in Nat /\ Seqs \subseteq Nat
    <2>1. Seqs \subseteq Nat
      BY <1>0
    <2> QED
      BY <1>0, <1>2, <2>1, Zenon
  <1>4. \A m \in Seqs : m <= p => m \in Walked
    <2> SUFFICES ASSUME NEW m \in Seqs, m <= p PROVE m \in Walked
      OBVIOUS
    <2>1. \A l \in Seqs : l <= m => l <= p
      BY <1>3
    <2>2. \A l \in Seqs : l <= p => log[l].time < Cutoff
      BY <1>2, Zenon DEF Walked
    <2> QED
      BY <2>1, <2>2, Zenon DEF Walked
  <1>5. \A n \in Walked : ~FailsInPrefix(n)
    BY DEF Blocked
  <1>6. \A n \in Walked : log[n].good
    BY <1>5 DEF FailsInPrefix
  <1>7. (head.pruned + 1)..p \subseteq Walked
    <2> DEFINE Holes == {p - n : n \in ((head.pruned + 1)..p) \ Walked}
    <2> SUFFICES ASSUME NEW h \in ((head.pruned + 1)..p) \ Walked PROVE FALSE
      OBVIOUS
    <2>1. Holes \in SUBSET Nat
      BY <1>0, <1>3
    <2>2. p - h \in Holes
      OBVIOUS
    <2>3. PICK d \in Holes : \A e \in Holes : d <= e
      BY <2>1, <2>2, Least
    <2>4. PICK n \in ((head.pruned + 1)..p) \ Walked : d = p - n
      OBVIOUS
    <2>5. n \in Nat /\ n < p /\ n >= head.pruned + 1
      BY <1>0, <1>2, <1>3, <2>4
    <2>6. n + 1 \in Walked
      <3> SUFFICES ASSUME n + 1 \notin Walked PROVE FALSE
        OBVIOUS
      <3>1. n + 1 \in ((head.pruned + 1)..p) \ Walked
        BY <1>0, <1>3, <2>5
      <3>2. p - (n + 1) \in Holes
        BY <3>1
      <3>3. p - n <= p - (n + 1)
        BY <2>3, <2>4, <3>2
      <3> QED
        BY <1>3, <2>5, <3>3
    <2>7. n \notin Seqs
      BY <1>4, <2>4, <2>5
    <2>8. (n + 1) - 1 = n
      BY <2>5
    <2>9. First(log, n + 1) /\ n + 1 = head.pruned + 1
      BY <1>5, <2>6, <2>7, <2>8 DEF FailsInPrefix
    <2> QED
      BY <1>0, <2>5, <2>9
  <1> QED
    BY <1>2, <1>3, <1>4, <1>6, <1>7

(* Retention keeps the invariant. *)
LEMMA PruneKeeps ==
  ASSUME IInv, Prune
  PROVE  IInv'
  <1> USE DEF IInv
  <1>0. UNCHANGED <<now, written, edits, skews>> /\ ~Blocked /\ loose' \subseteq loose
    BY DEF Prune, LooseAfterPrune
  <1>1. CASE Deleted = {}
    <2>1. head' = head /\ DOMAIN log' = Seqs /\ \A n \in Seqs : log'[n] = log[n]
      BY <1>1 DEF Prune, HeadAfterPrune
    <2>2. log' = log
      BY <1>1, <2>1 DEF Prune, Sizes, Seqs
    <2>3. Sizes' /\ HeadInv' /\ OrderInv'
      BY <1>0, <2>1, <2>2 DEF Sizes, HeadInv, OrderInv, Seqs, Numbers
    <2>4. CleanInv' /\ EvidenceInv'
      BY <1>0, <2>1, <2>2 DEF CleanInv, EvidenceInv, Seqs, Numbers
    <2> QED
      BY <2>3, <2>4
  <1>2. CASE Deleted # {}
    <2> DEFINE p == CHOOSE n \in Walked : \A m \in Walked : m <= n
    <2>1. head.state = "valid" /\ Deleted = Walked /\ Walked # {} /\ Walked \subseteq Seqs
      BY <1>2 DEF Deleted, Walked
    <2>2. /\ p \in Walked /\ p \in Nat /\ \A m \in Walked : m <= p
          /\ \A m \in Seqs : m <= p => m \in Walked
          /\ \A n \in (head.pruned + 1)..p : n \in Walked /\ log[n].good
      BY <1>0, <2>1, WalkedPrefix
    <2>3. /\ head'.state = "valid" /\ head'.seq = head.seq /\ head'.sig = head.sig
          /\ head'.start = head.start /\ head'.pruned = p /\ head' \in Heads
      <3>1. head' = [head EXCEPT !.pruned = p]
        BY <1>2, <2>1 DEF Prune, HeadAfterPrune
      <3> HIDE DEF p
      <3> QED
        BY <2>1, <2>2, <3>1 DEF Sizes, Heads
    <2> HIDE DEF p
    <2>4. /\ DOMAIN log' = Seqs \ Walked
          /\ \A n \in Seqs \ Walked : log'[n] = log[n]
          /\ log' \in [Seqs \ Walked -> Entries]
      BY <2>1 DEF Prune, Sizes
    <2>5. /\ head.seq \in Nat /\ head.pruned \in Nat /\ head.pruned + 1 <= p /\ p <= head.seq
          /\ Seqs \subseteq Numbers /\ written \in Nat /\ Seqs \subseteq 1..written
          /\ head.seq >= 1 /\ head.start >= 1
      BY <2>1, <2>2 DEF HeadInv, Sizes, Heads, Numbers
    <2>6. Sizes'
      BY <1>0, <2>3, <2>4, <2>5 DEF Sizes, Seqs
    <2>7. \A n \in Seqs \ Walked : n \in Nat /\ n > p
      BY <2>2, <2>5
    <2>8. HeadInv'
      <3>1. \A n \in Seqs \ Walked : n \in (p + 1)..head.seq
        BY <2>2, <2>5, <2>7 DEF Numbers
      <3>2. DOMAIN log' \subseteq Numbers'
        BY <2>3, <2>4, <3>1 DEF Numbers
      <3> QED
        BY <2>3, <2>5, <3>2 DEF HeadInv, Seqs
    <2>9. CleanInv'
      <3> SUFFICES ASSUME edits = 0 PROVE CleanInv'
        BY <1>0 DEF CleanInv
      <3>1. \A u \in loose' : u.time = 0
        BY <1>0 DEF CleanInv
      <3>2. DOMAIN log' = Numbers'
        BY <2>1, <2>2, <2>3, <2>4, <2>5, <2>7 DEF CleanInv, Numbers
      <3>3. \A n \in DOMAIN log' : /\ log'[n].good /\ log'[n].sig > 0
                                   /\ n = 1 => log'[n].prev = 0
                                   /\ (n - 1) \in DOMAIN log' => log'[n].prev = log'[n - 1].sig
        BY <2>1, <2>4 DEF CleanInv
      <3>4. DOMAIN log' # {} => log'[head'.seq].sig = head'.sig
        <4> SUFFICES ASSUME DOMAIN log' # {} PROVE log'[head'.seq].sig = head'.sig
          OBVIOUS
        <4>1. head.seq \in DOMAIN log'
          <5>1. DOMAIN log' = (p + 1)..head.seq
            BY <2>3, <3>2 DEF Numbers
          <5>2. PICK n \in DOMAIN log' : TRUE
            OBVIOUS
          <5> QED
            BY <2>2, <2>5, <5>1, <5>2
        <4> QED
          BY <2>1, <2>3, <2>4, <4>1 DEF CleanInv
      <3> QED
        BY <3>1, <3>2, <3>3, <3>4 DEF CleanInv, Seqs
    <2>10. EvidenceInv'
      <3> SUFFICES ASSUME edits > 0 PROVE \E n \in Numbers' : n \notin DOMAIN log' \/ ~log'[n].good
        BY <1>0 DEF EvidenceInv, Seqs
      <3>1. PICK n \in Numbers : n \notin Seqs \/ ~log[n].good
        BY <2>1 DEF EvidenceInv
      <3>2. n \in Nat /\ n > p
        BY <2>1, <2>2, <2>5, <3>1 DEF Numbers
      <3>3. n \in Numbers'
        BY <2>2, <2>3, <2>5, <3>1, <3>2 DEF Numbers
      <3> QED
        BY <2>4, <3>1, <3>3
    <2>11. OrderInv'
      BY <1>0, <2>4 DEF OrderInv, Seqs
    <2> QED
      BY <2>6, <2>8, <2>9, <2>10, <2>11
  <1> QED
    BY <1>1, <1>2
----------------------------------------------------------------------------
(* Overwriting a row with one that does not verify. *)
LEMMA ReplaceRow ==
  ASSUME Sizes, NEW n \in Seqs, NEW e \in Entries, ~e.good, log' = [log EXCEPT ![n] = e]
  PROVE  DOMAIN log' = Seqs /\ ~log'[n].good /\ log' \in [Seqs -> Entries]
  BY DEF Sizes, Seqs

(* A direct change of the tables keeps the invariant. *)
LEMMA EditKeeps ==
  ASSUME IInv, EditTables
  PROVE  IInv'
  <1> USE DEF IInv, Seqs
  <1>0. /\ UNCHANGED <<now, written, skews>> /\ edits' = edits + 1 /\ edits \in Nat /\ edits' > 0
        /\ edits' \in Nat
    BY DEF EditTables, Edit, Sizes
  <1>1. CleanInv' /\ OrderInv'
    BY <1>0 DEF CleanInv, OrderInv
  <1>2. CASE ChangeHead
    <2>1. UNCHANGED <<log, loose>>
      BY <1>2 DEF ChangeHead
    <2>2. head' \in Heads /\ head'.seq <= written
      <3>1. CASE head' = [head EXCEPT !.state = "altered"]
        BY <3>1 DEF Sizes, Heads
      <3>2. CASE head' = NoHead
        BY <3>2 DEF Sizes, Heads, NoHead, Signatures
      <3> QED
        BY <1>2, <3>1, <3>2 DEF ChangeHead
    <2>3. Sizes'
      BY <1>0, <2>1, <2>2 DEF Sizes
    <2>4. HeadInv' /\ EvidenceInv'
      <3>1. CASE head' = [head EXCEPT !.state = "altered"]
        BY <1>0, <3>1 DEF HeadInv, EvidenceInv, Sizes, Heads
      <3>2. CASE head' = NoHead /\ Seqs # {}
        BY <1>0, <2>1, <3>2 DEF HeadInv, EvidenceInv, NoHead
      <3> QED
        BY <1>2, <3>1, <3>2 DEF ChangeHead
    <2> QED
      BY <1>1, <2>3, <2>4
  <1>3. ASSUME NEW n \in Seqs, Change(n) PROVE IInv'
    <2>1. /\ UNCHANGED <<loose, head>> /\ DOMAIN log' = Seqs
          /\ ~log'[n].good
          /\ log' \in [Seqs -> Entries]
      <3>0. log[n] \in Entries /\ UNCHANGED <<loose, head>>
        BY <1>3 DEF Change, Sizes
      <3>1. \A g \in {log[n].sig, 0, -1}, x \in {log[n].time, 0, MaxTime} :
              Rewritten(n, g, x) \in Entries /\ ~Rewritten(n, g, x).good
        BY <3>0, AuditAssumption DEF Entries, Signatures, Rewritten
      <3>2. PICK g \in {log[n].sig, 0, -1}, x \in {log[n].time, 0, MaxTime} :
              log' = [log EXCEPT ![n] = Rewritten(n, g, x)]
        BY <1>3 DEF Change
      <3> QED
        BY <3>0, <3>1, <3>2, ReplaceRow
    <2>2. Sizes'
      BY <1>0, <2>1 DEF Sizes
    <2>3. HeadInv' /\ EvidenceInv'
      BY <1>0, <2>1 DEF HeadInv, EvidenceInv, Numbers
    <2> QED
      BY <1>1, <2>2, <2>3
  <1>4. ASSUME NEW n \in Seqs, Erase(n) PROVE IInv'
    <2>1. /\ UNCHANGED head /\ DOMAIN log' = Seqs \ {n}
          /\ log' \in [Seqs \ {n} -> Entries]
          /\ loose' \subseteq Unnumbered
          /\ head.state # "none" \/ Seqs # {n}
      BY <1>4 DEF Erase, Sizes, Entries, Unnumbered
    <2>2. Sizes'
      BY <1>0, <2>1 DEF Sizes
    <2>3. head.state = "none" => DOMAIN log' # {}
      BY <2>1
    <2>4. HeadInv'
      BY <1>0, <2>1, <2>3 DEF HeadInv, Numbers
    <2>5. EvidenceInv'
      BY <2>1 DEF HeadInv, EvidenceInv, Numbers
    <2> QED
      BY <1>1, <2>2, <2>4, <2>5
  <1> QED
    BY <1>2, <1>3, <1>4 DEF EditTables

(* A step that leaves the tables and the clock alone keeps the invariant. *)
LEMMA QuietKeeps ==
  ASSUME IInv, UNCHANGED tables
  PROVE  IInv'
  BY DEF IInv, tables, Sizes, HeadInv, CleanInv, EvidenceInv, OrderInv, Seqs, Numbers

(* So does the clock. *)
LEMMA ClockKeeps ==
  ASSUME IInv, Tick \/ ClockSetBack
  PROVE  IInv'
  <1> USE DEF IInv, Seqs
  <1>1. /\ UNCHANGED <<log, loose, head, written, edits>> /\ now' \in Nat \ {0} /\ skews' \in Nat
        /\ skews' = 0 => skews = 0 /\ now' >= now
    BY DEF Tick, ClockSetBack, Sizes
  <1>2. Sizes' /\ HeadInv' /\ CleanInv' /\ EvidenceInv'
    BY <1>1 DEF Sizes, HeadInv, CleanInv, EvidenceInv, Numbers
  <1>3. OrderInv'
    BY <1>1 DEF OrderInv, Sizes, Entries
  <1> QED
    BY <1>2, <1>3

(* What changes the tables leaves a page's entries and its head alone; it  *)
(* adds to what was pruned and to what excuses.                            *)
LEMMA TablesKeepPage ==
  ASSUME IInv, PageShape, Log \/ Prune \/ EditTables \/ Tick \/ ClockSetBack
  PROVE  /\ PageShape'
         /\ page = NoPage => page' = NoPage
         /\ page # NoPage =>
              /\ page' # NoPage
              /\ page'.pc = page.pc /\ page'.rows = page.rows /\ page'.head = page.head
              /\ page'.failing = page.failing /\ page.pruned \subseteq page'.pruned
              /\ page.excused => page'.excused
              /\ EditTables => page'.excused
              /\ Prune /\ page.pc = "preds" => Deleted \subseteq page'.pruned
  <1>1. CASE page = NoPage
    BY <1>1 DEF NoPage, Log, Prune, EditTables, Edit, Tick, ClockSetBack, PageShape
  <1>2. CASE page # NoPage
    <2>1. PICK S : S = page.rows
      OBVIOUS
    <2>2. page \in [pc : {"head", "preds"}, rows : {S}, head : Heads,
                   pruned : SUBSET Nat, failing : SUBSET Nat, excused : BOOLEAN]
      BY <1>2, <2>1 DEF PageShape
    <2>3. Deleted \subseteq Nat
      BY DEF Deleted, Walked, IInv, Sizes, Seqs
    <2>4. CASE EditTables
      <3>1. page' = [page EXCEPT !.excused = TRUE]
        BY <1>2, <2>4 DEF EditTables, Edit
      <3>2. ~Prune
        BY <2>4 DEF EditTables, Edit, Prune, IInv, Sizes
      <3> QED
        BY <1>2, <2>1, <2>2, <3>1, <3>2 DEF PageShape, NoPage
    <2>5. CASE Prune /\ page.pc = "preds"
      <3>1. page' = [page EXCEPT !.pruned = @ \cup Deleted]
        BY <2>5 DEF Prune
      <3>2. ~EditTables
        BY <2>5 DEF EditTables, Edit, Prune, IInv, Sizes
      <3> QED
        BY <1>2, <2>1, <2>2, <2>3, <3>1, <3>2 DEF PageShape, NoPage
    <2>6. CASE ~EditTables /\ ~(Prune /\ page.pc = "preds")
      <3>1. page' = page
        BY <2>6 DEF Log, Prune, Tick, ClockSetBack
      <3> QED
        BY <1>2, <2>6, <3>1 DEF PageShape
    <2> QED
      BY <2>4, <2>5, <2>6
  <1> QED
    BY <1>1, <1>2

(* The steps of a page. *)
LEMMA PageSteps ==
  ASSUME IInv, PageShape, PageRead \/ PageHead \/ PageMark
  PROVE  PageShape'
  <1>0. head \in Heads /\ Seqs \subseteq Nat
    BY DEF IInv, Sizes
  <1>1. CASE PageRead
    <2>1. PICK F : F = IF head.state = "valid"
                       THEN {n \in Seqs : Reason(head, log, n) # "none"} ELSE {}
      OBVIOUS
    <2>2. F \in SUBSET Nat /\ NoHead \in Heads
      BY <1>0, <2>1 DEF NoHead, Heads, Signatures
    <2>3. page' = [pc |-> "head", rows |-> log, head |-> NoHead, pruned |-> {}, failing |-> F,
                   excused |-> head.state # "valid"]
      BY <1>1, <2>1 DEF PageRead
    <2> HIDE DEF NoHead
    <2> QED
      BY <2>2, <2>3 DEF PageShape
  <1>2. CASE PageHead
    <2>1. PICK S : S = page.rows
      OBVIOUS
    <2>2. page \in [pc : {"head", "preds"}, rows : {S}, head : Heads,
                   pruned : SUBSET Nat, failing : SUBSET Nat, excused : BOOLEAN]
      BY <1>2, <2>1 DEF PageShape, PageHead, NoPage
    <2> QED
      BY <1>0, <1>2, <2>2 DEF PageHead, PageShape
  <1>3. CASE PageMark
    BY <1>3 DEF PageMark, PageShape
  <1> QED
    BY <1>1, <1>2, <1>3

(* The verdict is always one of the statuses. *)
LEMMA StatusType == \A h, L, U : Status(h, L, U) \in Statuses
  BY DEF Status, Statuses

(* The invariant holds throughout: appends, retention, scans, clock        *)
(* changes and edits in any order.                                         *)
THEOREM Invariant == Spec => [](IInv /\ ScanInv)
  <1>1. Init => IInv /\ ScanInv
    <2> SUFFICES ASSUME Init PROVE IInv /\ ScanInv
      OBVIOUS
    <2>1. Seqs = {} /\ log \in [Seqs -> Entries] /\ head = NoHead /\ edits = 0 /\ written = 0
      BY DEF Init, Seqs
    <2>2. Sizes
      <3>1. head \in Heads /\ head.seq <= written
        BY <2>1 DEF NoHead, Heads, Signatures
      <3>2. loose \subseteq Unnumbered
        BY AuditAssumption DEF Init, Unnumbered
      <3> QED
        BY <2>1, <3>1, <3>2 DEF Init, Sizes
    <2>3. HeadInv /\ EvidenceInv /\ OrderInv
      BY <2>1 DEF HeadInv, EvidenceInv, OrderInv, NoHead
    <2>4. CleanInv
      BY <2>1, AuditAssumption DEF CleanInv, Init, NoHead
    <2>5. ScanInv
      BY DEF Init, ScanInv, NoScan, NoCache, Statuses, PageShape
    <2> QED
      BY <2>2, <2>3, <2>4, <2>5 DEF IInv
  <1>2. IInv /\ ScanInv /\ [Next]_vars => IInv' /\ ScanInv'
    <2> SUFFICES ASSUME IInv, ScanInv, [Next]_vars PROVE IInv' /\ ScanInv'
      OBVIOUS
    <2>1. CASE Log \/ Prune \/ EditTables \/ Tick \/ ClockSetBack
      <3>1. UNCHANGED <<scan, cache, answer>>
        BY <2>1 DEF Log, Prune, EditTables, Edit, Tick, ClockSetBack
      <3>2. ScanInv'
        BY <2>1, <3>1, TablesKeepPage DEF ScanInv, PageShape
      <3> QED
        BY <2>1, <3>2, LogKeeps, PruneKeeps, EditKeeps, ClockKeeps
    <2>2. CASE IntegrityCached \/ IntegrityBegin \/ ScanHead \/ ScanRows \/ ScanFails
      <3>1. UNCHANGED tables
        BY <2>2 DEF IntegrityCached, IntegrityBegin, ScanHead, ScanRows, ScanFails, Unchanged, tables
      <3>2. ScanInv'
        BY <2>2 DEF IntegrityCached, IntegrityBegin, ScanHead, ScanRows, ScanFails, ScanInv, NoScan,
                    PageShape
      <3> QED
        BY <3>1, <3>2, QuietKeeps
    <2>3. CASE ScanFinish \/ Restart \/ UNCHANGED vars
      <3>1. UNCHANGED tables
        BY <2>3 DEF ScanFinish, Restart, Unchanged, tables, vars
      <3>2. ScanInv'
        BY <2>3, StatusType DEF ScanFinish, Restart, ScanInv, NoScan, NoCache, Statuses, vars,
                                PageShape
      <3> QED
        BY <3>1, <3>2, QuietKeeps
    <2>4. CASE PageRead \/ PageHead \/ PageMark
      <3>1. UNCHANGED tables /\ UNCHANGED <<scan, cache, answer>>
        BY <2>4 DEF PageRead, PageHead, PageMark, Unchanged, tables
      <3>2. PageShape'
        BY <2>4, PageSteps DEF ScanInv
      <3> QED
        BY <3>1, <3>2, QuietKeeps DEF ScanInv
    <2> QED
      BY <2>1, <2>2, <2>3, <2>4 DEF Next
  <1> QED
    BY <1>1, <1>2, PTL DEF Spec

(* Every variable keeps its type. *)
THEOREM TypeCorrect == Spec => []TypeOK
  <1>1. IInv /\ ScanInv => TypeOK
    BY DEF IInv, ScanInv, Sizes, TypeOK, Seqs, PageShape, NoPage
  <1> QED
    BY <1>1, Invariant, PTL

(* The invariant says that an untouched log verifies ... *)
LEMMA CleanVerifies == IInv => UntouchedVerifies
  <1> SUFFICES ASSUME IInv, edits = 0
               PROVE  Status(head, log, loose) \in {"ok", "not_started"}
    BY DEF UntouchedVerifies
  <1> USE DEF IInv, Seqs
  <1>0. head.state \in {"none", "valid"}
    BY DEF Sizes, Heads, HeadInv
  <1>1. CASE head.state = "none"
    BY <1>1 DEF HeadInv, Status, HeadProblem, LooseProblem
  <1>2. CASE head.state = "valid"
    <2>1. /\ head.seq \in Nat /\ head.pruned \in Nat /\ head.start \in Nat /\ head.start >= 1
          /\ Seqs = Numbers /\ written \in Nat /\ Seqs \subseteq 1..written
      BY <1>2 DEF Sizes, Heads, HeadInv, CleanInv
    <2>2. ~HeadProblem(head, log)
      <3>1. CASE Seqs = {}
        BY <1>2, <2>1, <3>1 DEF HeadProblem, Numbers
      <3>2. CASE Seqs # {}
        <4>1. Newest(log) \in Seqs /\ \A m \in Seqs : m <= Newest(log)
          BY <2>1, <3>2, NewestIsMax
        <4>2. head.seq \in Seqs /\ \A m \in Seqs : m <= head.seq
          BY <2>1, <3>2 DEF Numbers
        <4>3. Newest(log) = head.seq
          BY <2>1, <4>1, <4>2 DEF Numbers
        <4> QED
          BY <1>2, <3>2, <4>3 DEF HeadProblem, CleanInv
      <3> QED
        BY <3>1, <3>2
    <2>3. ~LooseProblem(head, loose)
      BY <2>1 DEF LooseProblem, CleanInv
    <2>4. ASSUME NEW n \in Seqs PROVE Reason(head, log, n) = "none"
      <3>1. ~Gap(head, log, n)
        <4>1. CASE First(log, n)
          <5>1. (head.pruned + 1) \in Seqs
            BY <2>1 DEF Numbers
          <5>2. n <= head.pruned + 1
            BY <4>1, <5>1 DEF First
          <5> QED
            BY <2>1, <4>1, <5>2 DEF Gap
        <4>2. CASE ~First(log, n)
          <5>1. PICK m \in Seqs : ~(n <= m)
            BY <4>2 DEF First
          <5>2. (n - 1) \in Seqs
            BY <2>1, <5>1 DEF Numbers
          <5> QED
            BY <4>2, <5>2 DEF Gap
        <4> QED
          BY <4>1, <4>2
      <3>2. log[n].sig > 0 /\ log[n].sig # 0
        BY <1>2 DEF CleanInv, Sizes, Entries, Signatures
      <3> QED
        BY <1>2, <3>1, <3>2 DEF Reason, CleanInv
    <2> QED
      BY <1>2, <2>2, <2>3, <2>4 DEF Status
  <1> QED
    BY <1>0, <1>1, <1>2

(* A log nobody edited verifies, whatever was appended and pruned and      *)
(* however the clock went.                                                 *)
THEOREM UntouchedLogVerifies == Spec => []UntouchedVerifies
  BY CleanVerifies, Invariant, PTL

(* ... and that an edited one does not. *)
LEMMA EditedFails == IInv => EvidenceStays
  <1> SUFFICES ASSUME IInv, edits > 0
               PROVE  HeadProblem(head, log) \/ \E n \in Seqs : Reason(head, log, n) # "none"
    BY DEF EvidenceStays, Status, Seqs
  <1> USE DEF IInv, Seqs
  <1>0. head.state \in {"none", "valid", "altered"}
    BY DEF Sizes, Heads
  <1>1. CASE head.state # "valid"
    BY <1>0, <1>1 DEF HeadInv, HeadProblem, Sizes
  <1>2. CASE head.state = "valid"
    <2>1. /\ head.seq \in Nat /\ head.pruned \in Nat
          /\ Seqs \subseteq Numbers /\ written \in Nat /\ Seqs \subseteq 1..written
      BY <1>2 DEF Sizes, Heads, HeadInv
    <2>2. PICK n \in Numbers : n \notin Seqs \/ ~log[n].good
      BY <1>2 DEF EvidenceInv
    <2>3. CASE n \in Seqs
      BY <2>2, <2>3 DEF Reason
    <2>4. CASE Seqs = {}
      BY <1>2, <2>1, <2>2, <2>4 DEF HeadProblem, Numbers
    <2>5. CASE Seqs # {} /\ Newest(log) # head.seq
      BY <1>2, <2>5 DEF HeadProblem
    <2>6. CASE n \notin Seqs /\ Seqs # {} /\ Newest(log) = head.seq
      <3> DEFINE Above == {m \in Seqs : m > n}
      <3>1. n \in Nat /\ Above \in SUBSET Nat /\ n >= head.pruned + 1
        BY <2>1 DEF Numbers
      <3>2. head.seq \in Above
        <4>1. head.seq \in Seqs
          BY <2>1, <2>6, NewestIsMax
        <4> QED
          BY <2>1, <2>6, <3>1, <4>1 DEF Numbers
      <3>3. PICK m \in Above : \A k \in Above : m <= k
        BY <3>1, <3>2, Least
      <3>4. (m - 1) \notin Seqs
        <4> SUFFICES ASSUME (m - 1) \in Seqs PROVE FALSE
          OBVIOUS
        <4>1. m \in Nat /\ m > n /\ m - 1 # n
          BY <2>6, <3>1, <3>3
        <4>2. m - 1 \in Above
          BY <3>1, <4>1
        <4> QED
          BY <3>3, <4>1, <4>2
      <3>5. Gap(head, log, m)
        BY <1>2, <2>1, <3>1, <3>3, <3>4 DEF Gap
      <3> QED
        BY <3>3, <3>5 DEF Reason
    <2> QED
      BY <2>3, <2>4, <2>5, <2>6
  <1> QED
    BY <1>1, <1>2

(* Nothing makes an edited log verify again. *)
THEOREM EvidenceIsKept == Spec => []EvidenceStays
  BY EditedFails, Invariant, PTL

(* Retention is paused by nothing but an edit or a clock set back. *)
THEOREM RetentionRuns == Spec => []RetentionNotStuck
  <1>1. IInv => RetentionNotStuck
    <2> SUFFICES ASSUME IInv, edits = 0, skews = 0 PROVE ~Blocked
      BY DEF RetentionNotStuck
    <2> USE DEF IInv, Seqs
    <2>1. /\ head.state # "altered" /\ (head.state = "none" => Seqs = {})
          /\ head.pruned \in Nat /\ head.seq \in Nat /\ Seqs \subseteq Nat
          /\ now \in Nat /\ Retention \in Nat
          /\ \A n \in Seqs : log[n].time \in Nat
      BY AuditAssumption DEF HeadInv, Sizes, Heads, Entries
    <2>2. ~MovedBack
      <3> SUFFICES ASSUME NEW n \in Seqs \ Walked, log[n].time < Cutoff PROVE FALSE
        BY DEF MovedBack
      <3>1. PICK m \in Seqs : m <= n /\ ~(log[m].time < Cutoff)
        BY DEF Walked
      <3>2. log[m].time <= log[n].time
        BY <3>1 DEF OrderInv
      <3> QED
        BY <2>1, <3>1, <3>2 DEF Cutoff
    <2>3. ASSUME head.state = "valid", NEW n \in Walked PROVE ~FailsInPrefix(n)
      <3>1. n \in Seqs /\ Seqs = Numbers
        BY <2>3 DEF Walked, CleanInv
      <3>2. (First(log, n) => n = head.pruned + 1) /\ (~First(log, n) => (n - 1) \in Seqs)
        BY <2>1, <3>1 DEF First, Numbers
      <3>3. log[n].good /\ log[n].sig # 0 /\ (n = 1 => log[n].prev = 0)
        BY <2>3, <3>1 DEF CleanInv, Sizes, Entries, Signatures
      <3>4. ASSUME (n - 1) \in Seqs
            PROVE  log[n].prev = log[n - 1].sig /\ ~(log[n].time < log[n - 1].time)
        <4>1. log[n].prev = log[n - 1].sig
          BY <2>3, <3>1, <3>4 DEF CleanInv
        <4>2. log[n - 1].time <= log[n].time
          BY <2>1, <3>1, <3>4 DEF OrderInv
        <4> QED
          BY <2>1, <3>1, <3>4, <4>1, <4>2
      <3> QED
        BY <3>2, <3>3, <3>4 DEF FailsInPrefix
    <2> QED
      BY <2>1, <2>2, <2>3 DEF Blocked
  <1> QED
    BY <1>1, Invariant, PTL

(* Retention deletes an old and intact prefix, nothing else. *)
THEOREM PruneIsSafe == Spec => PrunesOldPrefix
  <1>1. IInv /\ [Next]_vars =>
          [Prune => \A n \in Seqs \ DOMAIN log' :
             /\ log[n].good /\ log[n].time < Cutoff
             /\ \A m \in Seqs : m < n => m \notin DOMAIN log']_vars
    <2> SUFFICES ASSUME IInv, Prune, NEW n \in Seqs \ DOMAIN log'
                 PROVE  /\ log[n].good /\ log[n].time < Cutoff
                        /\ \A m \in Seqs : m < n => m \notin DOMAIN log'
      OBVIOUS
    <2>1. DOMAIN log' = Seqs \ Deleted /\ ~Blocked
      BY DEF Prune
    <2>2. head.state = "valid" /\ Deleted = Walked /\ n \in Walked
      BY <2>1 DEF Deleted
    <2>3. Seqs \subseteq Nat
      BY DEF IInv, Sizes
    <2>4. log[n].good /\ log[n].time < Cutoff
      BY <2>1, <2>2, <2>3 DEF Blocked, FailsInPrefix, Walked
    <2>5. \A m \in Seqs : m < n => m \in Walked
      BY <2>2, <2>3 DEF Walked
    <2> QED
      BY <2>1, <2>2, <2>4, <2>5
  <1> QED
    BY <1>1, Invariant, PTL DEF Spec, PrunesOldPrefix

----------------------------------------------------------------------------
(* What a verdict is worth that was read while the log went on.            *)

(* A step of the log keeps the order of signatures. *)
LEMMA SigKeeps ==
  ASSUME IInv, SigInv, Log \/ Prune \/ EditTables
  PROVE  SigInv'
  <1> USE DEF Seqs
  <1>0. /\ written \in Nat /\ head \in Heads /\ head.sig <= written /\ head.sig \in Int
        /\ DOMAIN log \subseteq 1..written
        /\ \A n \in DOMAIN log : log[n] \in Entries /\ log[n].sig \in Int /\ log[n].prev \in Int
        /\ \A n \in DOMAIN log : log[n].sig <= written /\ (log[n].good => log[n].prev < log[n].sig)
    BY DEF IInv, Sizes, SigInv, Entries, Signatures, Heads
  <1>1. ASSUME Log, NEW n, NEW p \in Int, p <= written, log' = Put(n, NewEntry(p)), head'.sig <= written + 1,
               head'.state = "none" => head' = NoHead
        PROVE  SigInv'
    <2>1. written' = written + 1
      BY <1>1 DEF Log
    <2>2. ASSUME NEW m \in DOMAIN log'
          PROVE  log'[m].sig <= written + 1 /\ (log'[m].good => log'[m].prev < log'[m].sig)
      <3>1. CASE m = n
        BY <1>0, <1>1, <3>1 DEF Put, NewEntry
      <3>2. CASE m # n
        <4>1. m \in DOMAIN log /\ log'[m] = log[m]
          BY <1>1, <3>2 DEF Put
        <4> QED
          BY <1>0, <4>1
      <3> QED
        BY <3>1, <3>2
    <2> QED
      BY <1>1, <2>1, <2>2 DEF SigInv
  <1>2. CASE Log
    <2>1. CASE LogFirst
      BY <1>0, <1>1, <1>2, <2>1 DEF LogFirst
    <2>2. CASE LogChained
      <3>1. head'.sig = written + 1 /\ head'.state = "valid"
        BY <1>0, <2>2 DEF LogChained, Heads
      <3> QED
        BY <1>0, <1>1, <1>2, <2>2, <3>1 DEF LogChained
    <2>3. CASE LogUntrusted
      <3> DEFINE n == IF DOMAIN log = {} THEN 0 ELSE Newest(log)
                 p == IF n = 0 THEN 0 ELSE log[n].sig
      <3>1. log' = Put(n + 1, NewEntry(p)) /\ head' = head
        BY <2>3 DEF LogUntrusted
      <3>2. p \in Int /\ p <= written
        <4>1. CASE DOMAIN log = {}
          BY <1>0, <4>1
        <4>2. CASE DOMAIN log # {}
          BY <1>0, <4>2, NewestIsMax
        <4> QED
          BY <4>1, <4>2
      <3>3. head'.sig <= written + 1 /\ (head'.state = "none" => head' = NoHead)
        BY <1>0, <3>1 DEF SigInv
      <3> HIDE DEF n, p
      <3> QED
        BY <1>1, <1>2, <3>1, <3>2, <3>3
    <2> QED
      BY <1>2, <2>1, <2>2, <2>3 DEF Log
  <1>3. CASE Prune
    <2>1. written' = written /\ head'.sig = head.sig /\ (head'.state = "none" => head' = NoHead)
      BY <1>3, <1>0 DEF Prune, HeadAfterPrune, Deleted, Heads, SigInv
    <2>2. DOMAIN log' \subseteq DOMAIN log /\ \A n \in DOMAIN log' : log'[n] = log[n]
      BY <1>3 DEF Prune
    <2> QED
      BY <1>0, <2>1, <2>2 DEF SigInv
  <1>4. CASE EditTables
    <2>1. written' = written
      BY <1>4 DEF EditTables, Edit
    <2>2. CASE ChangeHead
      <3>1. log' = log
        BY <2>2 DEF ChangeHead
      <3>2. head'.sig <= written /\ (head'.state = "none" => head' = NoHead)
        BY <1>0, <2>2 DEF ChangeHead, Heads, NoHead
      <3> QED
        BY <1>0, <2>1, <3>1, <3>2 DEF SigInv
    <2>3. ASSUME NEW n \in DOMAIN log, Change(n) PROVE SigInv'
      <3>1. PICK g \in {log[n].sig, 0, -1}, x \in {log[n].time, 0, MaxTime} :
              log' = [log EXCEPT ![n] = Rewritten(n, g, x)]
        BY <2>3 DEF Change
      <3>2. /\ DOMAIN log' = DOMAIN log /\ log'[n].sig = g /\ ~log'[n].good /\ head' = head
            /\ \A m \in DOMAIN log : m # n => log'[m] = log[m]
        BY <2>3, <3>1 DEF Change, Rewritten
      <3> QED
        BY <1>0, <2>1, <3>2 DEF SigInv
    <2>4. ASSUME NEW n \in DOMAIN log, Erase(n) PROVE SigInv'
      <3>1. head' = head /\ DOMAIN log' \subseteq DOMAIN log /\ \A m \in DOMAIN log' : log'[m] = log[m]
        BY <2>4 DEF Erase
      <3> QED
        BY <1>0, <2>1, <3>1 DEF SigInv
    <2> QED
      BY <1>4, <2>2, <2>3, <2>4 DEF EditTables
  <1> QED
    BY <1>2, <1>3, <1>4

(* What a head misses it misses for good. *)
LEMMA MissesStays ==
  ASSUME IInv, NEW h \in Heads, h.sig <= written, Misses(h, log), Log \/ Prune \/ EditTables
  PROVE  Misses(h, log')
  <1> USE DEF Seqs
  <1>1. PICK n \in (h.pruned + 1)..h.seq : n \notin DOMAIN log \/ ~log[n].good \/ log[n].sig > h.sig
    BY DEF Misses
  <1>2. written \in Nat /\ h.sig \in Int
    BY DEF IInv, Sizes, Heads, Signatures
  <1> SUFFICES n \in DOMAIN log' => ~log'[n].good \/ log'[n].sig > h.sig
    BY <1>1 DEF Misses
  <1>3. ASSUME NEW m, NEW p, log' = Put(m, NewEntry(p))
        PROVE  n \in DOMAIN log' => ~log'[n].good \/ log'[n].sig > h.sig
    <2>1. CASE n = m
      BY <1>2, <1>3, <2>1 DEF Put, NewEntry
    <2>2. CASE n # m
      BY <1>1, <1>3, <2>2 DEF Put
    <2> QED
      BY <2>1, <2>2
  <1>4. CASE Log
    BY <1>3, <1>4 DEF Log, LogFirst, LogChained, LogUntrusted
  <1>5. CASE Prune
    BY <1>1, <1>5 DEF Prune
  <1>6. ASSUME EditTables, ChangeHead
        PROVE  n \in DOMAIN log' => ~log'[n].good \/ log'[n].sig > h.sig
    BY <1>1, <1>6 DEF ChangeHead
  <1>7. ASSUME NEW m \in DOMAIN log, Change(m)
        PROVE  n \in DOMAIN log' => ~log'[n].good \/ log'[n].sig > h.sig
    BY <1>1, <1>7 DEF Change, Rewritten
  <1>8. ASSUME NEW m \in DOMAIN log, Erase(m)
        PROVE  n \in DOMAIN log' => ~log'[n].good \/ log'[n].sig > h.sig
    BY <1>1, <1>8 DEF Erase
  <1> QED
    BY <1>4, <1>5, <1>6, <1>7, <1>8 DEF EditTables

(* And the scan says so: where everything is linked and ends in what h     *)
(* signed, every row of h is there and older than h.                       *)
LEMMA MissesFails ==
  ASSUME IInv, SigInv, NEW h \in Heads, h.state = "valid", Misses(h, log)
  PROVE  Fails(h, log)
  <1> USE DEF Seqs
  <1> SUFFICES ASSUME ~HeadProblem(h, log), \A n \in DOMAIN log : Reason(h, log, n) = "none"
               PROVE  FALSE
    BY DEF Fails
  <1>1. PICK n \in (h.pruned + 1)..h.seq : n \notin DOMAIN log \/ ~log[n].good \/ log[n].sig > h.sig
    BY DEF Misses
  <1>2. /\ written \in Nat /\ DOMAIN log \subseteq 1..written /\ h.seq \in Nat /\ h.pruned \in Nat
        /\ h.sig \in Int /\ n \in Nat /\ h.seq > h.pruned
        /\ \A m \in DOMAIN log : /\ log[m].sig \in Int /\ log[m].prev \in Int
                                 /\ log[m].good => log[m].prev < log[m].sig
    BY <1>1 DEF IInv, Sizes, Heads, Signatures, Entries, SigInv
  <1>3. DOMAIN log # {} /\ Newest(log) = h.seq /\ log[Newest(log)].sig = h.sig
    <2>1. h.seq > h.pruned
      BY <1>2
    <2> QED
      BY <2>1, Zenon DEF HeadProblem
  <1>4. h.seq \in DOMAIN log /\ log[h.seq].sig = h.sig
    BY <1>2, <1>3, NewestIsMax
  <1>5. ASSUME NEW m \in DOMAIN log
        PROVE  log[m].good /\ ~Gap(h, log, m) /\ ((m - 1) \in DOMAIN log => log[m].prev = log[m - 1].sig)
    BY DEF Reason
  <1> DEFINE S == {k \in (h.pruned + 1)..h.seq : k \notin DOMAIN log \/ log[k].sig > h.sig}
  <1>6. n \in S
    BY <1>1, <1>5
  <1>7. h.seq \in Nat /\ S \in SUBSET (1..h.seq) /\ S # {}
    BY <1>2, <1>6
  <1>8. PICK k \in S : \A m \in S : m <= k
    BY <1>7, Greatest
  <1>9. k \in Nat /\ k >= h.pruned + 1 /\ k < h.seq
    BY <1>2, <1>4, <1>7
  <1>10. k + 1 \in DOMAIN log /\ log[k + 1].sig <= h.sig
    <2>1. k + 1 \in (h.pruned + 1)..h.seq /\ k + 1 \notin S
      BY <1>2, <1>7, <1>8, <1>9
    <2>2. k + 1 \in DOMAIN log /\ ~(log[k + 1].sig > h.sig)
      BY <2>1
    <2> QED
      BY <1>2, <2>2
  <1>11. (k + 1) - 1 = k
    BY <1>9
  <1>12. k \in DOMAIN log
    BY <1>2, <1>5, <1>9, <1>10, <1>11 DEF Gap
  <1>13. log[k].sig = log[k + 1].prev /\ log[k + 1].prev < log[k + 1].sig
    BY <1>2, <1>5, <1>10, <1>11, <1>12
  <1>14. ~(log[k].sig > h.sig)
    BY <1>2, <1>10, <1>12, <1>13
  <1> QED
    BY <1>8, <1>12, <1>14

(* An untouched log never comes back to what it was. *)
LEMMA OlderKeeps ==
  ASSUME IInv, SigInv, Log \/ Prune \/ EditTables, NEW T, PrintInv(T)
  PROVE  PrintInv(T)' /\ (edits' = 0 /\ T = Tables' => Tables' = Tables)
  <1> USE DEF Seqs
  <1>1. edits \in Nat /\ edits' \in Nat /\ edits <= edits' /\ (EditTables => edits' > 0)
    BY DEF Log, Prune, EditTables, Edit, IInv, Sizes
  <1>2. T.head \in Heads /\ (Bad(T) => edits' > 0)
    BY <1>1 DEF PrintInv
  <1>3. ASSUME edits' = 0
        PROVE  Older(T)' /\ (T = Tables' => Tables' = Tables)
    <2>1. /\ edits = 0 /\ (Log \/ Prune) /\ T.head.seq \in Nat /\ T.head.pruned \in Nat
          /\ head.seq \in Nat /\ head.pruned \in Nat /\ T.head.sig \in Int
          /\ T.head.seq <= head.seq /\ T.head.pruned <= head.pruned /\ loose \subseteq T.loose
          /\ T.head.seq = head.seq /\ T.head.pruned = head.pruned => T.head = head /\ T.log = log
      BY <1>1, <1>2, <1>3 DEF PrintInv, Older, Heads, Signatures, IInv, Sizes
    <2>2. head.state # "altered" /\ (head.state = "none" => DOMAIN log = {} /\ head = NoHead)
      BY <2>1 DEF IInv, HeadInv, SigInv
    <2>3. ASSUME /\ T.head.seq < head'.seq \/ T.head.pruned < head'.pruned
                 /\ head'.seq \in Nat /\ head'.pruned \in Nat
                 /\ T.head.seq <= head'.seq /\ T.head.pruned <= head'.pruned /\ loose' \subseteq loose
          PROVE  Older(T)' /\ T # Tables'
      BY <2>1, <2>3 DEF Older, Tables
    <2>4. CASE Log
      <3>1. /\ head'.seq = head.seq + 1 /\ head'.pruned = head.pruned /\ loose' = loose
        <4>1. CASE LogFirst
          BY <2>2, <2>4, <4>1 DEF Log, LogFirst, NoHead
        <4>2. CASE LogChained
          BY <2>4, <4>2 DEF Log, LogChained, IInv, Sizes, Heads
        <4> QED
          BY <2>2, <2>4, <4>1, <4>2 DEF Log, LogUntrusted
      <3> QED
        BY <2>1, <2>3, <3>1
    <2>5. CASE Prune /\ Deleted = {}
      <3>1. head' = head /\ loose' \subseteq loose
        BY <2>5 DEF Prune, HeadAfterPrune, LooseAfterPrune
      <3>2. log' = log
        BY <2>5 DEF Prune, IInv, Sizes
      <3>3. Older(T)'
        BY <2>1, <3>1, <3>2 DEF Older
      <3>4. ASSUME T = Tables' PROVE Tables' = Tables
        <4>1. T.loose = loose'
          BY <3>4 DEF Tables
        <4>2. loose' = loose
          BY <2>1, <3>1, <4>1
        <4> QED
          BY <3>1, <3>2, <4>2 DEF Tables
      <3> QED
        BY <3>3, <3>4
    <2>6. CASE Prune /\ Deleted # {}
      <3>1. PICK p : p = CHOOSE n \in Walked : \A m \in Walked : m <= n
        OBVIOUS
      <3>2. Deleted = Walked /\ head.state = "valid" /\ ~Blocked
        BY <2>6 DEF Deleted, Prune
      <3>3. p \in Walked /\ p \in Nat
        BY <2>6, <3>1, <3>2, WalkedPrefix
      <3>4. p > head.pruned
        BY <2>1, <3>2, <3>3 DEF Walked, IInv, HeadInv, Numbers
      <3>5. head' = [head EXCEPT !.pruned = p] /\ loose' \subseteq loose
        BY <2>6, <3>1, <3>2 DEF Prune, HeadAfterPrune, LooseAfterPrune
      <3>6. head'.pruned = p /\ head'.seq = head.seq
        BY <3>5 DEF IInv, Sizes, Heads
      <3> QED
        BY <2>1, <2>3, <3>3, <3>4, <3>5, <3>6
    <2> QED
      BY <2>1, <2>4, <2>5, <2>6
  <1>4. Older(T)'
    BY <1>3 DEF Older
  <1> QED
    BY <1>2, <1>3, <1>4 DEF PrintInv

(* What a scan has read, and what is cached, while the log goes on. *)
LEMMA TablesKeepReads ==
  ASSUME IInv, ReadsInv, Log \/ Prune \/ EditTables
  PROVE  ReadInv' /\ CacheInv'
  <1> USE DEF Seqs
  <1>0. UNCHANGED <<scan, cache>> /\ SigInv
    BY DEF Log, Prune, EditTables, Edit, ReadsInv
  <1>1. ASSUME scan.pc # "idle" PROVE ReadInv'
    <2>1. PICK T : T = scan.fp
      OBVIOUS
    <2>2. PICK h : h = scan.head
      OBVIOUS
    <2>3. /\ PrintInv(T)
          /\ scan.pc \in {"rows", "loose"} /\ edits = 0 /\ T = Tables => h = head
          /\ scan.pc = "rows" /\ Bad(T) => HeadRead(h)
          /\ scan.pc = "loose" /\ edits = 0 /\ T = Tables => scan.log = log
          /\ scan.pc = "loose" /\ Bad(T) => Fails(h, scan.log)
      BY <1>1, <2>1, <2>2 DEF ReadsInv, ReadInv
    <2>4. PrintInv(T)' /\ (edits' = 0 /\ T = Tables' => Tables' = Tables)
      BY <1>0, <2>3, OlderKeeps
    <2>5. edits' = 0 => edits = 0
      BY DEF Log, Prune, EditTables, Edit, IInv, Sizes
    <2>6. Tables' = Tables => head' = head /\ log' = log
      BY DEF Tables
    <2>7. ASSUME scan.pc = "rows", Bad(T) PROVE HeadRead(h)'
      <3>1. edits > 0 /\ h \in Heads /\ h.sig <= written /\ h.sig \in Int
            /\ written \in Nat /\ written' \in Nat /\ written <= written'
        BY <2>3, <2>7 DEF PrintInv, HeadRead, IInv, Sizes, Heads, Signatures,
                          Log, Prune, EditTables, Edit
      <3>2. h.state = "valid" => Misses(h, log')
        BY <2>3, <2>7, <3>1, MissesStays DEF HeadRead
      <3>3. h.state = "none" => head'.state = "none"
        <4> SUFFICES ASSUME h.state = "none" PROVE head'.state = "none"
          OBVIOUS
        <4>1. HeadRead(h) /\ edits # 0
          BY <2>3, <2>7, <3>1 DEF IInv, Sizes
        <4>2. head.state = "none" /\ DOMAIN log # {}
          BY <4>1 DEF HeadRead, IInv, HeadInv
        <4> QED
          BY <4>2 DEF Log, LogFirst, LogChained, LogUntrusted, Prune, HeadAfterPrune, Deleted,
                      EditTables, ChangeHead, Change, Erase
      <3> QED
        BY <3>1, <3>2, <3>3 DEF HeadRead
    <2>8. scan'.fp = T /\ scan'.head = h /\ scan'.pc = scan.pc /\ scan'.log = scan.log
      BY <1>0, <2>1, <2>2
    <2> QED
      BY <2>3, <2>4, <2>5, <2>6, <2>7, <2>8 DEF ReadInv
  <1>2. ASSUME cache # NoCache PROVE CacheInv'
    <2>1. PICK T : T = cache.fp
      OBVIOUS
    <2>2. /\ PrintInv(T)
          /\ Bad(T) => cache.status = "compromised"
          /\ edits = 0 /\ T = Tables => cache.status = Status(head, log, loose)
      BY <1>2, <2>1 DEF ReadsInv, CacheInv
    <2>3. PrintInv(T)' /\ (edits' = 0 /\ T = Tables' => Tables' = Tables)
      BY <1>0, <2>2, OlderKeeps
    <2>4. edits' = 0 => edits = 0
      BY DEF Log, Prune, EditTables, Edit, IInv, Sizes
    <2>5. Tables' = Tables => head' = head /\ log' = log /\ loose' = loose
      BY DEF Tables
    <2>6. cache'.fp = T /\ cache'.status = cache.status
      BY <1>0, <2>1
    <2> QED
      BY <2>2, <2>3, <2>4, <2>5, <2>6 DEF CacheInv
  <1> QED
    BY <1>0, <1>1, <1>2 DEF ReadInv, CacheInv

(* The steps of a scan. *)
LEMMA ScansKeepReads ==
  ASSUME IInv, ReadsInv, UNCHANGED tables,
         \/ IntegrityCached \/ IntegrityBegin \/ ScanHead \/ ScanRows \/ ScanFinish
         \/ ScanFails \/ Restart \/ UNCHANGED <<scan, cache>>
  PROVE  ReadsInv'
  <1> USE DEF Seqs
  <1>1. UNCHANGED <<log, loose, head, written, edits>> /\ SigInv' /\ Tables' = Tables
    BY DEF tables, ReadsInv, SigInv, Tables
  <1>2. \A T : PrintInv(T) => PrintInv(T)'
    BY <1>1 DEF PrintInv, Older
  <1>3. scan' = scan => ReadInv'
    BY <1>1, <1>2 DEF ReadsInv, ReadInv, HeadRead
  <1>4. cache' = cache => CacheInv'
    BY <1>1, <1>2 DEF ReadsInv, CacheInv
  <1>5. scan' = NoScan => ReadInv'
    BY DEF ReadInv, NoScan
  <1>6. CASE IntegrityBegin
    <2>1. Bad(Tables) => edits > 0
      <3> SUFFICES ASSUME edits = 0 PROVE ~Bad(Tables)
        BY DEF IInv, Sizes
      <3>1. Status(head, log, loose) \in {"ok", "not_started"}
        BY CleanVerifies DEF UntouchedVerifies
      <3>2. Tables.head = head /\ Tables.log = log /\ Tables.loose = loose
        BY DEF Tables
      <3> QED
        BY <3>1, <3>2 DEF Bad
    <2>2. PrintInv(Tables)
      <3>1. Tables.head = head /\ Tables.log = log /\ Tables.loose = loose
        BY DEF Tables
      <3>2. head \in Heads /\ head.seq <= head.seq /\ head.pruned <= head.pruned
        BY DEF IInv, Sizes, Heads
      <3> QED
        BY <2>1, <3>1, <3>2, Zenon DEF PrintInv, Older
    <2>3. PICK T : T = Tables
      OBVIOUS
    <2>4. scan'.pc = "head" /\ scan'.fp = T
      BY <1>6, <2>3 DEF IntegrityBegin
    <2>5. PrintInv(T)'
      BY <1>2, <2>2, <2>3
    <2>6. ReadInv'
      BY <2>4, <2>5 DEF ReadInv
    <2> QED
      BY <1>1, <1>4, <1>6, <2>6 DEF IntegrityBegin, ReadsInv
  <1>7. CASE ScanHead
    <2>1. PICK T : T = scan.fp
      OBVIOUS
    <2>2. PrintInv(T)
      BY <1>7, <2>1 DEF ScanHead, ReadsInv, ReadInv
    <2>3. ASSUME Bad(T) PROVE HeadRead(head)
      <3>1. edits > 0
        BY <2>2, <2>3 DEF PrintInv
      <3>2. head.state = "valid" => Misses(head, log)
        BY <3>1 DEF IInv, EvidenceInv, Misses, Numbers
      <3> QED
        BY <3>2 DEF HeadRead, IInv, Sizes, ReadsInv, SigInv
    <2>4. PICK h : h = head
      OBVIOUS
    <2>5. Bad(T) => HeadRead(h)'
      BY <1>1, <2>3, <2>4 DEF HeadRead
    <2>7. scan'.pc = "rows" /\ scan'.fp = T /\ scan'.head = h
      BY <1>7, <2>1, <2>4 DEF ScanHead
    <2>6. ReadInv'
      BY <1>1, <1>2, <2>2, <2>4, <2>5, <2>7 DEF ReadInv
    <2> QED
      BY <1>1, <1>4, <1>7, <2>6 DEF ScanHead, ReadsInv
  <1>8. CASE ScanRows
    <2>1. PICK T : T = scan.fp
      OBVIOUS
    <2>2. PICK h : h = scan.head
      OBVIOUS
    <2>3. /\ PrintInv(T) /\ (edits = 0 /\ T = Tables => h = head) /\ (Bad(T) => HeadRead(h))
      BY <1>8, <2>1, <2>2 DEF ScanRows, ReadsInv, ReadInv
    <2>4. ASSUME Bad(T) PROVE Fails(h, log)
      <3>1. edits > 0 /\ h \in Heads /\ h.state \in {"none", "valid", "altered"}
        BY <2>3, <2>4 DEF PrintInv, HeadRead, Heads
      <3>2. CASE h.state = "valid"
        BY <2>3, <2>4, <3>1, <3>2, MissesFails DEF HeadRead, ReadsInv
      <3>3. CASE h.state = "altered"
        BY <3>3 DEF Fails, HeadProblem
      <3>4. CASE h.state = "none"
        <4>1. head.state = "none" /\ DOMAIN log # {}
          BY <2>3, <2>4, <3>1, <3>4 DEF HeadRead, IInv, HeadInv
        <4> QED
          BY <3>4, <4>1 DEF Fails, HeadProblem
      <3> QED
        BY <3>1, <3>2, <3>3, <3>4
    <2>5. scan'.pc = "loose" /\ scan'.fp = T /\ scan'.head = h /\ scan'.log = log
      BY <1>8, <2>1, <2>2 DEF ScanRows
    <2>6. ReadInv'
      BY <1>1, <1>2, <2>3, <2>4, <2>5 DEF ReadInv
    <2> QED
      BY <1>1, <1>4, <1>8, <2>6 DEF ScanRows, ReadsInv
  <1>9. CASE ScanFinish
    <2>1. PICK T : T = scan.fp
      OBVIOUS
    <2>2. PICK s : s = Status(scan.head, scan.log, loose)
      OBVIOUS
    <2>3. /\ PrintInv(T)
          /\ edits = 0 /\ T = Tables => scan.head = head /\ scan.log = log
          /\ Bad(T) => Fails(scan.head, scan.log)
      BY <1>9, <2>1 DEF ScanFinish, ReadsInv, ReadInv
    <2>4. Bad(T) => s = "compromised"
      BY <2>2, <2>3 DEF Fails, Status
    <2>5. edits = 0 /\ T = Tables => s = Status(head, log, loose)
      BY <2>2, <2>3
    <2>6. cache'.status = s /\ cache'.fp = T /\ scan' = NoScan
      BY <1>9, <2>1, <2>2 DEF ScanFinish
    <2>7. CacheInv'
      BY <1>1, <1>2, <2>3, <2>4, <2>5, <2>6 DEF CacheInv
    <2> QED
      BY <1>1, <1>5, <2>6, <2>7 DEF ReadsInv
  <1>10. CASE Restart
    BY <1>1, <1>5, <1>10 DEF Restart, CacheInv, ReadsInv
  <1>11. CASE IntegrityCached \/ ScanFails \/ UNCHANGED <<scan, cache>>
    BY <1>1, <1>3, <1>4, <1>5, <1>11 DEF IntegrityCached, ScanFails, ReadsInv
  <1> QED
    BY <1>6, <1>7, <1>8, <1>9, <1>10, <1>11

(* A cached verdict that the fingerprint still allows is the one a scan    *)
(* would come to, whatever was appended, pruned or edited while it was     *)
(* being made.                                                             *)
THEOREM CacheIsTruthful == Spec => []CacheTruthful
  <1>1. Init => ReadsInv
    BY DEF Init, ReadsInv, SigInv, ReadInv, CacheInv, NoScan, NoHead, Seqs
  <1>2. IInv /\ IInv' /\ ReadsInv /\ [Next]_vars => ReadsInv'
    <2> SUFFICES ASSUME IInv, ReadsInv, [Next]_vars PROVE ReadsInv'
      OBVIOUS
    <2>1. CASE Log \/ Prune \/ EditTables
      BY <2>1, SigKeeps, TablesKeepReads DEF ReadsInv
    <2>2. CASE Tick \/ ClockSetBack
      <3>1. UNCHANGED <<log, loose, head, written, edits, scan, cache>>
        BY <2>2 DEF Tick, ClockSetBack
      <3> QED
        BY <3>1 DEF ReadsInv, SigInv, ReadInv, CacheInv, PrintInv, Older, HeadRead, Tables, Seqs
    <2>3. CASE \/ IntegrityCached \/ IntegrityBegin \/ ScanHead \/ ScanRows \/ ScanFinish
               \/ ScanFails \/ Restart
      <3>1. UNCHANGED tables
        BY <2>3 DEF IntegrityCached, IntegrityBegin, ScanHead, ScanRows, ScanFinish, ScanFails,
                    Restart, Unchanged, tables
      <3> QED
        BY <2>3, <3>1, ScansKeepReads
    <2>4. CASE PageRead \/ PageHead \/ PageMark \/ UNCHANGED vars
      <3>1. UNCHANGED tables /\ UNCHANGED <<scan, cache>>
        BY <2>4 DEF PageRead, PageHead, PageMark, Unchanged, vars, tables
      <3> QED
        BY <3>1, ScansKeepReads
    <2> QED
      BY <2>1, <2>2, <2>3, <2>4 DEF Next
  <1>3. IInv /\ ReadsInv => CacheTruthful
    <2> SUFFICES ASSUME IInv, ReadsInv, cache # NoCache, cache.fp = Tables
                 PROVE  cache.status = Status(head, log, loose)
      BY DEF CacheTruthful
    <2>1. CASE edits = 0
      BY <2>1 DEF ReadsInv, CacheInv
    <2>2. CASE edits > 0
      <3>1. Status(head, log, loose) = "compromised"
        BY <2>2, EditedFails DEF EvidenceStays
      <3>2. Bad(cache.fp)
        BY <3>1 DEF Bad, Tables
      <3> QED
        BY <3>1, <3>2 DEF ReadsInv, CacheInv
    <2> QED
      BY <2>1, <2>2 DEF IInv, Sizes
  <1>4. Spec => [](IInv /\ ScanInv)
    BY Invariant
  <1> QED
    BY <1>1, <1>2, <1>3, <1>4, PTL DEF Spec

----------------------------------------------------------------------------
(* What the marks of a page are worth that was read while the log went on. *)

(* A head that verifies keeps naming what it signed. *)
LEMMA LinkKeeps ==
  ASSUME IInv, LinkInv, Log \/ Prune \/ EditTables
  PROVE  LinkInv'
  <1> USE DEF Seqs
  <1> SUFFICES ASSUME head'.state = "valid" PROVE LinkInv'
    BY DEF LinkInv
  <1>0. /\ written \in Nat /\ head \in Heads /\ head.seq \in Nat /\ DOMAIN log \subseteq 1..written
        /\ \A n \in DOMAIN log : log[n] \in Entries
        /\ head.state = "valid" => DOMAIN log \subseteq (head.pruned + 1)..head.seq
    BY DEF IInv, Sizes, Heads, HeadInv, Numbers, Seqs
  <1>1. CASE Log /\ LogFirst
    <2>1. /\ DOMAIN log' = {1} /\ log'[1].sig = written + 1 /\ written' = written + 1
          /\ head'.sig = written + 1 /\ head'.seq = 1
      BY <1>1 DEF Log, LogFirst, Put, NewEntry
    <2> QED
      BY <1>0, <2>1 DEF LinkInv
  <1>2. CASE Log /\ LogChained
    <2> DEFINE k == head.seq + 1
    <2>1. /\ DOMAIN log' = DOMAIN log \cup {k} /\ log'[k].sig = written + 1 /\ written' = written + 1
          /\ log'[k].prev = head.sig /\ head'.sig = written + 1 /\ head'.seq = k
          /\ k \notin DOMAIN log /\ head.state = "valid"
          /\ \A n \in DOMAIN log : log'[n] = log[n]
      BY <1>0, <1>2 DEF Log, LogChained, Put, NewEntry, Heads
    <2>2. /\ head.sig \in 1..written
          /\ head.seq \in DOMAIN log /\ log[head.seq].good => log[head.seq].sig = head.sig
      BY <2>1 DEF LinkInv
    <2>3. head'.sig \in 1..written' /\ log'[head'.seq].sig = head'.sig
      BY <1>0, <2>1
    <2>4. ASSUME NEW n \in DOMAIN log', log'[n].good, n > 1
          PROVE  /\ log'[n].prev \in 1..written'
                 /\ (n - 1) \in DOMAIN log' /\ log'[n - 1].good => log'[n].prev = log'[n - 1].sig
      <3>1. CASE n = k
        <4>1. n - 1 = head.seq /\ head.seq # k
          BY <1>0, <3>1
        <4> QED
          BY <1>0, <2>1, <2>2, <3>1, <4>1
      <3>2. CASE n \in DOMAIN log
        <4>1. (n - 1) \in DOMAIN log' => (n - 1) \in DOMAIN log
          BY <1>0, <2>1, <3>2
        <4>2. log[n].prev \in 1..written
          BY <2>1, <2>4, <3>2 DEF LinkInv
        <4>3. (n - 1) \in DOMAIN log /\ log[n - 1].good => log[n].prev = log[n - 1].sig
          BY <2>1, <2>4, <3>2 DEF LinkInv
        <4> QED
          BY <1>0, <2>1, <3>2, <4>1, <4>2, <4>3
      <3> QED
        BY <2>1, <3>1, <3>2
    <2> QED
      BY <2>3, <2>4 DEF LinkInv
  <1>3. CASE Log /\ LogUntrusted
    BY <1>3 DEF LogUntrusted
  <1>4. ASSUME written' = written, head.state = "valid", head'.sig = head.sig, head'.seq = head.seq,
               DOMAIN log' \subseteq DOMAIN log,
               \A n \in DOMAIN log' : log'[n].good => log'[n] = log[n]
        PROVE  LinkInv'
    BY <1>4 DEF LinkInv
  <1>5. CASE Prune
    <2>1. head'.state = head.state /\ head'.sig = head.sig /\ head'.seq = head.seq
      BY <1>0, <1>5 DEF Prune, HeadAfterPrune, Heads
    <2> QED
      BY <1>4, <1>5, <2>1 DEF Prune
  <1>6. CASE EditTables
    <2>1. written' = written
      BY <1>6 DEF EditTables, Edit
    <2>2. CASE ChangeHead
      BY <1>0, <2>2 DEF ChangeHead, Heads, NoHead
    <2>3. ASSUME NEW m \in DOMAIN log, Change(m) PROVE LinkInv'
      <3>1. PICK g \in {log[m].sig, 0, -1}, x \in {log[m].time, 0, MaxTime} :
              log' = [log EXCEPT ![m] = Rewritten(m, g, x)]
        BY <2>3 DEF Change
      <3>2. /\ DOMAIN log' = DOMAIN log /\ ~log'[m].good /\ head' = head
            /\ \A n \in DOMAIN log : n # m => log'[n] = log[n]
        BY <2>3, <3>1 DEF Change, Rewritten
      <3> QED
        BY <1>4, <2>1, <3>2
    <2>4. ASSUME NEW m \in DOMAIN log, Erase(m) PROVE LinkInv'
      <3>1. head' = head /\ DOMAIN log' \subseteq DOMAIN log /\ \A n \in DOMAIN log' : log'[n] = log[n]
        BY <2>4 DEF Erase
      <3> QED
        BY <1>4, <2>1, <3>1
    <2> QED
      BY <1>6, <2>2, <2>3, <2>4 DEF EditTables
  <1> QED
    BY <1>1, <1>2, <1>3, <1>5, <1>6 DEF Log

(* What retention deletes is good and lies right behind its boundary. *)
LEMMA PruneBoundary ==
  ASSUME IInv, Prune, head.state = "valid"
  PROVE  /\ head'.state = "valid" /\ head'.seq = head.seq
         /\ head.pruned \in Nat /\ head'.pruned \in Nat /\ head.pruned <= head'.pruned
         /\ \A n \in Deleted : n <= head'.pruned
         /\ \A n \in (head.pruned + 1)..head'.pruned : n \in Seqs /\ log[n].good
         /\ DOMAIN log' = Seqs \ Deleted /\ \A n \in DOMAIN log' : log'[n] = log[n]
  <1>0. head \in Heads /\ head.pruned \in Nat /\ Deleted = Walked /\ ~Blocked
    BY DEF IInv, Sizes, Heads, Deleted, Prune
  <1>1. DOMAIN log' = Seqs \ Deleted /\ \A n \in DOMAIN log' : log'[n] = log[n]
    BY DEF Prune
  <1>2. CASE Deleted = {}
    BY <1>0, <1>1, <1>2 DEF Prune, HeadAfterPrune
  <1>3. CASE Deleted # {}
    <2>1. PICK p : p = CHOOSE n \in Walked : \A m \in Walked : m <= n
      OBVIOUS
    <2>2. /\ p \in Walked /\ p \in Nat /\ \A m \in Walked : m <= p
          /\ \A n \in (head.pruned + 1)..p : n \in Walked /\ log[n].good
      BY <1>0, <1>3, <2>1, WalkedPrefix
    <2>3. head' = [head EXCEPT !.pruned = p]
      BY <1>0, <1>3, <2>1 DEF Prune, HeadAfterPrune
    <2>4. head'.state = "valid" /\ head'.seq = head.seq /\ head'.pruned = p
      BY <1>0, <2>3 DEF Heads
    <2>5. p >= head.pruned
      BY <1>0, <2>2 DEF Walked, IInv, HeadInv, Numbers, Seqs
    <2>6. \A n \in Walked : n \in Seqs
      BY DEF Walked
    <2> QED
      BY <1>0, <1>1, <2>2, <2>4, <2>5, <2>6
  <1> QED
    BY <1>2, <1>3

(* An edited log never gets a head that verifies again. *)
LEMMA HeadStaysLost ==
  ASSUME IInv, Log \/ Prune \/ EditTables, edits > 0, head'.state = "valid"
  PROVE  head.state = "valid"
  <1>1. head \in Heads /\ (head.state = "none" => Seqs # {})
    BY DEF IInv, Sizes, HeadInv
  <1>2. CASE LogFirst
    BY <1>1, <1>2 DEF LogFirst
  <1>3. CASE LogChained
    BY <1>3 DEF LogChained
  <1>4. CASE LogUntrusted
    BY <1>1, <1>4 DEF LogUntrusted
  <1>5. CASE Prune
    BY <1>1, <1>5 DEF Prune, HeadAfterPrune, Deleted
  <1>6. CASE ChangeHead
    BY <1>1, <1>6 DEF ChangeHead, NoHead, Heads
  <1>7. ASSUME NEW n \in Seqs, Change(n)
        PROVE  head.state = "valid"
    BY <1>1, <1>7 DEF Change
  <1>8. ASSUME NEW n \in Seqs, Erase(n)
        PROVE  head.state = "valid"
    BY <1>1, <1>8 DEF Erase
  <1> QED
    BY <1>2, <1>3, <1>4, <1>5, <1>6, <1>7, <1>8 DEF Log, EditTables

(* The predecessor of an orphan does not come back, and retention never    *)
(* reaches it.                                                             *)
LEMMA OrphanKeeps ==
  ASSUME IInv, PageShape, page # NoPage, Log \/ Prune \/ EditTables, edits > 0, NEW n, Orphan(n)
  PROVE  Orphan(n)'
  <1> USE DEF Seqs
  <1>0. /\ page'.pc = page.pc /\ page'.rows = page.rows /\ page'.head = page.head
    BY TablesKeepPage
  <1>1. PICK q : q = page.rows[n].prev
    OBVIOUS
  <1>2. /\ n \in Nat /\ n > 1 /\ q \in 1..written /\ written \in Nat
        /\ (n - 1) \in DOMAIN log => log[n - 1].sig # q
        /\ head.state = "valid" =>
             (n - 1) \in Numbers /\ ((n - 1) \notin DOMAIN log \/ ~log[n - 1].good)
        /\ page.pc = "preds" /\ page.head.state = "valid" => n - 1 > page.head.pruned
    BY <1>1 DEF Orphan, IInv, Sizes
  <1>3. written' \in Nat /\ written <= written'
    BY <1>2 DEF Log, Prune, EditTables, Edit
  <1>4. (n - 1) \in DOMAIN log' => log'[n - 1].sig # q
    <2>1. ASSUME NEW m, NEW p, log' = Put(m, NewEntry(p)), (n - 1) \in DOMAIN log'
          PROVE  log'[n - 1].sig # q
      <3>1. CASE n - 1 = m
        BY <1>2, <2>1, <3>1 DEF Put, NewEntry
      <3>2. CASE n - 1 # m
        BY <1>2, <2>1, <3>2 DEF Put
      <3> QED
        BY <3>1, <3>2
    <2>2. CASE Log
      BY <2>1, <2>2 DEF Log, LogFirst, LogChained, LogUntrusted
    <2>3. CASE Prune
      BY <1>2, <2>3 DEF Prune
    <2>4. CASE ChangeHead
      BY <1>2, <2>4 DEF ChangeHead
    <2>5. ASSUME NEW m \in DOMAIN log, Change(m), (n - 1) \in DOMAIN log'
          PROVE  log'[n - 1].sig # q
      <3>1. PICK g \in {log[m].sig, 0, -1}, x \in {log[m].time, 0, MaxTime} :
              log' = [log EXCEPT ![m] = Rewritten(m, g, x)]
        BY <2>5 DEF Change
      <3>2. /\ DOMAIN log' = DOMAIN log /\ log'[m].sig = g
            /\ \A k \in DOMAIN log : k # m => log'[k] = log[k]
        BY <2>5, <3>1 DEF Rewritten
      <3>3. n - 1 = m => g # q
        BY <1>2, <2>5, <3>2
      <3> QED
        BY <1>2, <2>5, <3>2, <3>3
    <2>6. ASSUME NEW m \in DOMAIN log, Erase(m), (n - 1) \in DOMAIN log'
          PROVE  log'[n - 1].sig # q
      BY <1>2, <2>6 DEF Erase
    <2> QED
      BY <2>2, <2>3, <2>4, <2>5, <2>6 DEF EditTables
  <1>5. ASSUME head'.state = "valid"
        PROVE  (n - 1) \in Numbers' /\ ((n - 1) \notin DOMAIN log' \/ ~log'[n - 1].good)
    <2>0. head.state = "valid"
      BY <1>5, HeadStaysLost
    <2>1. /\ head \in Heads /\ head.seq \in Nat /\ head.pruned \in Nat
          /\ (n - 1) \in (head.pruned + 1)..head.seq
          /\ (n - 1) \notin DOMAIN log \/ ~log[n - 1].good
      BY <1>2, <2>0 DEF IInv, Sizes, Heads, Numbers
    <2>2. CASE Log
      <3>1. /\ DOMAIN log' = DOMAIN log \cup {head.seq + 1}
            /\ \A k \in DOMAIN log : k # head.seq + 1 => log'[k] = log[k]
            /\ head'.seq = head.seq + 1 /\ head'.pruned = head.pruned
        BY <2>0, <2>1, <2>2 DEF Log, LogFirst, LogChained, LogUntrusted, Put, Heads
      <3> QED
        BY <2>1, <3>1 DEF Numbers
    <2>3. CASE Prune
      <3>1. ~((n - 1) \in (head.pruned + 1)..head'.pruned)
        BY <2>0, <2>1, <2>3, PruneBoundary
      <3> QED
        BY <2>0, <2>1, <2>3, <3>1, PruneBoundary DEF Numbers
    <2>4. CASE EditTables /\ ChangeHead
      BY <1>5, <2>1, <2>4 DEF ChangeHead, Heads, NoHead
    <2>5. ASSUME NEW m \in DOMAIN log, Change(m)
          PROVE  (n - 1) \in Numbers' /\ ((n - 1) \notin DOMAIN log' \/ ~log'[n - 1].good)
      <3>1. /\ DOMAIN log' = DOMAIN log /\ head' = head
            /\ \A k \in DOMAIN log : ~log'[k].good \/ log'[k] = log[k]
        BY <2>5 DEF Change, Rewritten
      <3> QED
        BY <2>1, <3>1 DEF Numbers
    <2>6. ASSUME NEW m \in DOMAIN log, Erase(m)
          PROVE  (n - 1) \in Numbers' /\ ((n - 1) \notin DOMAIN log' \/ ~log'[n - 1].good)
      <3>1. head' = head /\ DOMAIN log' \subseteq DOMAIN log /\ \A k \in DOMAIN log' : log'[k] = log[k]
        BY <2>6 DEF Erase
      <3> QED
        BY <2>1, <3>1 DEF Numbers
    <2> QED
      BY <2>2, <2>3, <2>4, <2>5, <2>6 DEF EditTables
  <1> QED
    BY <1>0, <1>1, <1>2, <1>3, <1>4, <1>5 DEF Orphan

(* While nothing is edited a link of the page stays, or its other end is   *)
(* behind the boundary or among what was pruned.                           *)
LEMMA LinkedKeeps ==
  ASSUME IInv, PageShape, page # NoPage, Log \/ Prune, head.state = "valid", NEW n, Linked(n)
  PROVE  Linked(n)' /\ head'.state = "valid"
  <1> USE DEF Seqs
  <1>0. /\ page'.pc = page.pc /\ page'.rows = page.rows /\ page'.head = page.head
        /\ page.pruned \subseteq page'.pruned
        /\ Prune /\ page.pc = "preds" => Deleted \subseteq page'.pruned
    BY TablesKeepPage
  <1>1. PICK q : q = page.rows[n].prev
    OBVIOUS
  <1>2. PICK b : b = page.head.pruned
    OBVIOUS
  <1>3. /\ n \in Nat /\ n > 1 /\ head \in Heads /\ head.seq \in Nat /\ head.pruned \in Nat
        /\ head.pruned <= head.seq /\ DOMAIN log \subseteq (head.pruned + 1)..head.seq
        /\ (n - 1) \in DOMAIN log => log[n - 1].sig = q
        /\ (n - 1) \notin DOMAIN log =>
             /\ n - 1 <= head.pruned
             /\ \/ page.pc = "preds" /\ n - 1 <= b
                \/ page.pc # "preds"
                \/ n - 1 \in page.pruned
    BY <1>1, <1>2 DEF Linked, Boundary, IInv, Sizes, Heads, HeadInv, Numbers
  <1>4. CASE Log
    <2>0. /\ log' = Put(head.seq + 1, NewEntry(head.sig))
          /\ head' = [head EXCEPT !.seq = @ + 1, !.sig = written + 1]
      BY <1>4 DEF Log, LogFirst, LogChained, LogUntrusted
    <2>1. /\ DOMAIN log' = DOMAIN log \cup {head.seq + 1}
          /\ \A k \in DOMAIN log : log'[k] = log[k]
          /\ head'.state = "valid" /\ head'.pruned = head.pruned
      <3>1. head'.state = "valid" /\ head'.pruned = head.pruned
        BY <1>3, <2>0 DEF Heads
      <3>2. head.seq + 1 \notin DOMAIN log
        BY <1>3
      <3> QED
        BY <2>0, <3>1, <3>2 DEF Put
    <2>2. n - 1 # head.seq + 1
      BY <1>3
    <2> QED
      BY <1>0, <1>1, <1>2, <1>3, <2>1, <2>2 DEF Linked, Boundary
  <1>5. CASE Prune
    <2>1. /\ head'.state = "valid" /\ head'.pruned \in Nat /\ head.pruned <= head'.pruned
          /\ \A m \in Deleted : m <= head'.pruned
          /\ DOMAIN log' = DOMAIN log \ Deleted /\ \A m \in DOMAIN log' : log'[m] = log[m]
      BY <1>5, PruneBoundary
    <2>2. (n - 1) \in DOMAIN log' => log'[n - 1].sig = q
      BY <1>3, <2>1
    <2>3. ASSUME (n - 1) \notin DOMAIN log'
          PROVE  /\ n - 1 <= head'.pruned
                 /\ \/ page.pc = "preds" /\ n - 1 <= b
                    \/ page.pc # "preds"
                    \/ n - 1 \in page'.pruned
      <3>1. CASE (n - 1) \in DOMAIN log
        <4>1. n - 1 \in Deleted
          BY <2>1, <2>3, <3>1
        <4> QED
          BY <1>0, <1>5, <2>1, <4>1
      <3>2. CASE (n - 1) \notin DOMAIN log
        BY <1>0, <1>3, <2>1, <3>2
      <3> QED
        BY <3>1, <3>2
    <2> QED
      BY <1>0, <1>1, <1>2, <1>3, <2>1, <2>2, <2>3 DEF Linked, Boundary
  <1> QED
    BY <1>4, <1>5

(* What the log does leaves to a page what it is owed. *)
LEMMA TablesKeepPages ==
  ASSUME IInv, PageShape, PageInv, Log \/ Prune \/ EditTables
  PROVE  PageInv'
  <1> SUFFICES ASSUME page # NoPage PROVE PageInv'
    BY TablesKeepPage DEF PageInv
  <1>1. /\ page'.pc = page.pc /\ page'.rows = page.rows /\ page'.head = page.head
        /\ page'.failing = page.failing
        /\ page.excused => page'.excused
        /\ EditTables => page'.excused
    BY TablesKeepPage
  <1>2. ASSUME NEW n \in page.failing PROVE Owed(n)'
    <2>1. Owed(n)
      BY DEF PageInv
    <2>2. edits' > 0
      BY <2>1 DEF Owed, Log, Prune, EditTables, Edit, IInv, Sizes
    <2>3. SelfBad(n) => SelfBad(n)'
      BY <1>1 DEF SelfBad
    <2>4. Orphan(n) => Orphan(n)'
      BY <2>1, OrphanKeeps DEF Owed
    <2> QED
      BY <1>1, <2>1, <2>2, <2>3, <2>4 DEF Owed
  <1>3. ASSUME ~page'.excused
        PROVE  /\ head'.state = "valid"
               /\ page'.pc = "preds" => page'.head.state = "valid"
               /\ \A n \in DOMAIN page'.rows \ page'.failing : Sound(n)'
    <2>1. /\ Log \/ Prune
          /\ head.state = "valid" /\ (page.pc = "preds" => page.head.state = "valid")
          /\ \A n \in DOMAIN page.rows \ page.failing : Sound(n)
      BY <1>1, <1>3 DEF PageInv
    <2>2. head'.state = "valid"
      <3>1. head \in Heads
        BY DEF IInv, Sizes
      <3> QED
        BY <2>1, <3>1 DEF Log, LogFirst, LogChained, LogUntrusted, Prune, HeadAfterPrune, Heads
    <2>3. ASSUME NEW n \in DOMAIN page.rows \ page.failing PROVE Sound(n)'
      <3>1. Sound(n)
        BY <2>1
      <3>2. SelfBad(n)' => SelfBad(n)
        BY <1>1 DEF SelfBad
      <3>3. Linked(n) => Linked(n)'
        BY <2>1, LinkedKeeps
      <3> QED
        BY <3>1, <3>2, <3>3 DEF Sound
    <2> QED
      BY <1>1, <2>1, <2>2, <2>3
  <1>4. page.pc = "head" => page.head.state = "none"
    BY DEF PageInv
  <1> QED
    BY <1>1, <1>2, <1>3, <1>4 DEF PageInv

(* A page that is read now is owed what the scan would say now. *)
LEMMA PageReadKeeps ==
  ASSUME IInv, LinkInv, PageRead
  PROVE  PageInv'
  <1> USE DEF Seqs
  <1>0. /\ page'.pc = "head" /\ page'.rows = log /\ page'.head = NoHead
        /\ page'.failing = IF head.state = "valid"
                           THEN {n \in DOMAIN log : Reason(head, log, n) # "none"} ELSE {}
        /\ page'.excused = (head.state # "valid")
    BY DEF PageRead
  <1>1. /\ UNCHANGED <<log, head, written, edits>> /\ edits \in Nat
    BY DEF PageRead, Unchanged, IInv, Sizes
  <1>2. ASSUME head.state = "valid", NEW n \in DOMAIN log
        PROVE  /\ Reason(head, log, n) # "none" => edits > 0 /\ (SelfBad(n)' \/ Orphan(n)')
               /\ Reason(head, log, n) = "none" => Sound(n)'
    <2>1. /\ head.pruned \in Nat /\ head.seq \in Nat /\ DOMAIN log \subseteq (head.pruned + 1)..head.seq
          /\ n \in Nat /\ n >= head.pruned + 1 /\ n <= head.seq
      BY <1>2 DEF IInv, Sizes, Heads, HeadInv, Numbers
    <2>2. SelfBad(n)' <=> log[n].sig = 0 \/ ~log[n].good \/ (n = 1 /\ log[n].prev # 0)
      BY <1>0 DEF SelfBad
    <2>3. Reason(head, log, n) # "none" => edits > 0
      <3> SUFFICES ASSUME edits = 0, Reason(head, log, n) # "none" PROVE FALSE
        BY <1>1
      <3>1. Status(head, log, loose) \in {"ok", "not_started"}
        BY CleanVerifies DEF UntouchedVerifies
      <3> QED
        BY <3>1 DEF Status
    <2>4. CASE n = 1
      <3>1. head.pruned = 0 /\ (n - 1) \notin DOMAIN log /\ ~Gap(head, log, n)
        <4>1. head.pruned = 0 /\ \A m \in DOMAIN log : m >= 1 /\ m \in Nat
          BY <2>1, <2>4
        <4> QED
          BY <2>4, <4>1 DEF Gap, First
      <3> QED
        BY <2>2, <2>3, <2>4, <3>1 DEF Reason, Sound
    <2>5. CASE n # 1
      <3>1. Gap(head, log, n) <=> (n - 1) \notin DOMAIN log /\ n - 1 > head.pruned
        <4>1. CASE First(log, n)
          <5>1. (n - 1) \notin DOMAIN log
            BY <2>1, <4>1 DEF First
          <5> QED
            BY <1>2, <2>1, <4>1, <5>1 DEF Gap
        <4>2. CASE ~First(log, n)
          <5>1. PICK m \in DOMAIN log : ~(n <= m)
            BY <4>2 DEF First
          <5>2. m \in Nat /\ m >= head.pruned + 1 /\ m < n
            BY <2>1, <5>1
          <5>3. (n - 1) \notin DOMAIN log => n - 1 > head.pruned
            BY <2>1, <5>1, <5>2
          <5> QED
            BY <4>2, <5>3 DEF Gap
        <4> QED
          BY <4>1, <4>2
      <3>2. ASSUME Reason(head, log, n) # "none", ~SelfBad(n)'
            PROVE  Orphan(n)'
        <4>1. log[n].good /\ n > 1
          BY <2>1, <2>2, <2>5, <3>2
        <4>2. /\ log[n].prev \in 1..written
              /\ (n - 1) \in DOMAIN log /\ log[n - 1].good => log[n].prev = log[n - 1].sig
          BY <1>2, <4>1 DEF LinkInv
        <4>3. \/ (n - 1) \in DOMAIN log /\ log[n].prev # log[n - 1].sig
              \/ (n - 1) \notin DOMAIN log /\ n - 1 > head.pruned
          BY <2>2, <2>5, <3>1, <3>2 DEF Reason
        <4>4. (n - 1) \in Numbers
          BY <2>1, <4>1, <4>3 DEF Numbers
        <4>5. (n - 1) \notin DOMAIN log \/ ~log[n - 1].good
          BY <4>2, <4>3
        <4>6. (n - 1) \in DOMAIN log => log[n - 1].sig # log[n].prev
          BY <4>3
        <4>7. Numbers' = Numbers
          BY <1>1 DEF Numbers
        <4> QED
          BY <1>0, <1>1, <2>1, <4>1, <4>2, <4>4, <4>5, <4>6, <4>7 DEF Orphan
      <3>3. ASSUME Reason(head, log, n) = "none"
            PROVE  Sound(n)'
        <4>1. /\ ~SelfBad(n)'
              /\ (n - 1) \in DOMAIN log => log[n].prev = log[n - 1].sig
              /\ (n - 1) \notin DOMAIN log => ~(n - 1 > head.pruned)
          BY <2>2, <2>5, <3>1, <3>3 DEF Reason
        <4>2. Boundary' = head.pruned
          BY <1>0, <1>1 DEF Boundary
        <4>3. (n - 1) \notin DOMAIN log => n - 1 <= head.pruned
          BY <2>1, <4>1
        <4> QED
          BY <1>0, <1>1, <2>1, <2>5, <4>1, <4>2, <4>3 DEF Sound, Linked
      <3> QED
        BY <2>3, <3>2, <3>3
    <2> QED
      BY <2>4, <2>5
  <1>3. NoHead.state = "none"
    BY DEF NoHead
  <1> QED
    BY <1>0, <1>1, <1>2, <1>3 DEF PageInv, Owed

(* The head a page reads is as new as the log, or none. *)
LEMMA PageHeadKeeps ==
  ASSUME IInv, PageShape, PageInv, PageHead
  PROVE  PageInv'
  <1> USE DEF Seqs
  <1>0. /\ UNCHANGED <<log, head, written, edits>> /\ page # NoPage /\ page.pc = "head"
        /\ Numbers' = Numbers
    BY DEF PageHead, Unchanged, NoPage, Numbers
  <1>1. /\ page'.pc = "preds" /\ page'.rows = page.rows /\ page'.failing = page.failing
        /\ page'.pruned = page.pruned
        /\ \/ page'.head = head /\ page'.excused = page.excused
           \/ page'.head = page.head /\ page'.excused = TRUE
    <2>1. PICK S : S = page.rows
      OBVIOUS
    <2>2. page \in [pc : {"head", "preds"}, rows : {S}, head : Heads,
                   pruned : SUBSET Nat, failing : SUBSET Nat, excused : BOOLEAN]
      BY <1>0, <2>1 DEF PageShape
    <2> QED
      BY <2>2 DEF PageHead
  <1>2. page.head.state = "none"
    BY <1>0 DEF PageInv
  <1>3. ASSUME NEW n \in page.failing PROVE Owed(n)'
    <2>1. Owed(n)
      BY <1>0 DEF PageInv
    <2>2. SelfBad(n) => SelfBad(n)'
      BY <1>1 DEF SelfBad
    <2>3. ASSUME Orphan(n) PROVE Orphan(n)'
      <3>1. page'.head.state = "valid" => page'.head = head
        BY <1>1, <1>2
      <3>2. head.state = "valid" => n - 1 > head.pruned
        BY <2>3 DEF Orphan, Numbers, IInv, Sizes, Heads
      <3> QED
        BY <1>0, <1>1, <2>3, <3>1, <3>2 DEF Orphan
    <2> QED
      BY <1>0, <1>1, <2>1, <2>2, <2>3 DEF Owed
  <1>4. ASSUME ~page'.excused
        PROVE  /\ head'.state = "valid" /\ page'.head.state = "valid"
               /\ \A n \in DOMAIN page'.rows \ page'.failing : Sound(n)'
    <2>1. /\ page'.head = head /\ head.state = "valid"
          /\ \A n \in DOMAIN page.rows \ page.failing : Sound(n)
      BY <1>0, <1>1, <1>4 DEF PageInv
    <2>2. Boundary' = Boundary
      BY <1>0, <1>1, <2>1 DEF Boundary
    <2>3. ASSUME NEW n \in DOMAIN page.rows \ page.failing PROVE Sound(n)'
      BY <1>0, <1>1, <2>1, <2>2 DEF Sound, Linked, SelfBad
    <2> QED
      BY <1>0, <1>1, <2>1, <2>3
  <1> QED
    BY <1>1, <1>3, <1>4 DEF PageInv

(* The rest leaves log and page alone, or puts the page away. *)
LEMMA QuietKeepsPages ==
  ASSUME PageInv, LinkInv, UNCHANGED <<log, head, written, edits>>
  PROVE  /\ LinkInv'
         /\ UNCHANGED page \/ page' = NoPage => PageInv'
  <1>1. LinkInv'
    BY DEF LinkInv, Seqs
  <1>2. UNCHANGED page => PageInv'
    <2> SUFFICES ASSUME UNCHANGED page PROVE PageInv'
      OBVIOUS
    <2>1. Seqs' = Seqs /\ Numbers' = Numbers /\ Boundary' = Boundary
      BY DEF Seqs, Numbers, Boundary
    <2>2. \A n : (SelfBad(n)' <=> SelfBad(n)) /\ (Orphan(n)' <=> Orphan(n)) /\ (Linked(n)' <=> Linked(n))
      BY <2>1 DEF SelfBad, Orphan, Linked
    <2> QED
      BY <2>2 DEF PageInv, Owed, Sound
  <1>3. page' = NoPage => PageInv'
    BY DEF PageInv
  <1> QED
    BY <1>1, <1>2, <1>3

(* Whatever the log went through between its three reads, the page marks   *)
(* every entry the scan would have reported, and without an edit or a      *)
(* failed read nothing else but the successors of what retention deleted   *)
(* after the head was read.                                                *)
THEOREM PageIsTruthful == Spec => []PageTruthful
  <1>1. Init => LinkInv /\ PageInv
    BY DEF Init, LinkInv, PageInv, NoHead, NoPage
  <1>2. IInv /\ ScanInv /\ LinkInv /\ PageInv /\ [Next]_vars => LinkInv' /\ PageInv'
    <2> SUFFICES ASSUME IInv, PageShape, LinkInv, PageInv, [Next]_vars PROVE LinkInv' /\ PageInv'
      BY DEF ScanInv
    <2>1. CASE Log \/ Prune \/ EditTables
      BY <2>1, LinkKeeps, TablesKeepPages
    <2>2. CASE Tick \/ ClockSetBack
      BY <2>2, QuietKeepsPages DEF Tick, ClockSetBack
    <2>3. CASE \/ IntegrityCached \/ IntegrityBegin \/ ScanHead \/ ScanRows \/ ScanFinish
               \/ ScanFails \/ Restart \/ PageMark \/ UNCHANGED vars
      BY <2>3, QuietKeepsPages
         DEF IntegrityCached, IntegrityBegin, ScanHead, ScanRows, ScanFinish, ScanFails,
             Restart, PageMark, Unchanged, vars
    <2>4. CASE PageRead
      BY <2>4, PageReadKeeps, QuietKeepsPages DEF PageRead, Unchanged
    <2>5. CASE PageHead
      BY <2>5, PageHeadKeeps, QuietKeepsPages DEF PageHead, Unchanged
    <2> QED
      BY <2>1, <2>2, <2>3, <2>4, <2>5 DEF Next
  <1>3. IInv /\ ScanInv /\ PageInv => PageTruthful
    <2> SUFFICES ASSUME IInv, PageShape, PageInv, page.pc = "preds"
                 PROVE  /\ \A preds \in {log, << >>} : page.failing \subseteq Marked(preds)
                        /\ ~page.excused =>
                             \A n \in Marked(log) \ page.failing : n - 1 \in page.pruned
      BY DEF PageTruthful, ScanInv
    <2>0. page # NoPage
      BY DEF NoPage
    <2>1. ASSUME NEW preds \in {log, << >>}, NEW n \in page.failing
          PROVE  n \in Marked(preds)
      <3>1. Owed(n)
        BY <2>0 DEF PageInv
      <3>2. SelfBad(n) => Classify(n, preds) = "invalid"
        BY DEF SelfBad, Classify
      <3>3. ASSUME Orphan(n) PROVE Classify(n, preds) = "invalid"
        <4>1. (n - 1) \in DOMAIN preds => preds[n - 1].sig # page.rows[n].prev
          <5>1. CASE preds = log
            BY <3>3, <5>1 DEF Orphan, Seqs
          <5>2. CASE preds = << >>
            BY <5>2
          <5> QED
            BY <5>1, <5>2
        <4>2. n # 1 /\ n - 1 > (IF page.head.state = "valid" THEN page.head.pruned ELSE 0)
          BY <3>3 DEF Orphan
        <4> QED
          BY <4>1, <4>2 DEF Classify
      <3> QED
        BY <3>1, <3>2, <3>3 DEF Owed, Marked
    <2>2. ASSUME ~page.excused, NEW n \in Marked(log) \ page.failing
          PROVE  n - 1 \in page.pruned
      <3>1. Sound(n) /\ page.head.state = "valid" /\ page.head \in Heads
        BY <2>0, <2>2 DEF PageInv, Marked, PageShape
      <3>2. Classify(n, log) = "invalid" /\ ~SelfBad(n)
        BY <2>2, <3>1 DEF Marked, Sound
      <3>3. n # 1
        BY <3>2 DEF Classify, SelfBad
      <3>4. Linked(n)
        BY <3>1, <3>3 DEF Sound
      <3>5. (n - 1) \notin DOMAIN log /\ n - 1 > page.head.pruned
        BY <3>1, <3>2, <3>3, <3>4 DEF Classify, SelfBad, Linked, Seqs
      <3> QED
        BY <3>1, <3>4, <3>5 DEF Linked, Boundary, Seqs, Heads
    <2> QED
      BY <2>1, <2>2
  <1>4. Spec => [](IInv /\ ScanInv)
    BY Invariant
  <1> QED
    BY <1>1, <1>2, <1>3, <1>4, PTL DEF Spec
=============================================================================
