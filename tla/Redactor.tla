------------------------------- MODULE Redactor -------------------------------
(***************************************************************************)
(* What a command writes, on its way to the row or to the SSE stream: the    *)
(* frames of the attach connection are split into stdout and stderr and cut  *)
(* at a size (internal/docker/exec.go), and the secrets of the run are       *)
(* replaced (internal/secrets/redact.go, internal/runner).  A base64 form    *)
(* of a value is one more value here; the place of a secret in the output    *)
(* holds the value it replaced.  Streams of unknown types are discarded.     *)
(***************************************************************************)
EXTENDS Integers, FiniteSets, SequencesExt

CONSTANTS
  RdBytes,      \* the bytes that are written
  RdMinLen,     \* MinRedactLen
  RdMaxLen,     \* bound: length of a value
  RdWords,      \* bound: the strings among which the values are
  RdMaxValues,  \* bound: values injected into the command
  RdLimit,      \* MaxOutputBytes, for each stream
  RdMaxFrame,   \* bound: bytes of one Write
  RdMaxOutput   \* bound: bytes the command writes, to both streams

RdStrings(n) == UNION {[1..k -> RdBytes] : k \in 1..n}

ASSUME RedactorAssumption ==
  /\ {RdMinLen, RdMaxLen, RdLimit, RdMaxFrame, RdMaxOutput} \subseteq Nat \ {0}
  /\ IsFiniteSet(RdBytes) /\ RdMaxValues \in Nat
  /\ RdWords \subseteq RdStrings(RdMaxLen)
  /\ RdBytes \cap RdStrings(RdMaxLen) = {}   \* a mark is not taken for a byte

VARIABLES
  rdValues,  \* the values of SecretEnv
  rdLive,    \* Stream, or Execute: redacted as it comes, or when it is over
  rdSaid,    \* history: what the command wrote to each stream
  rdHeard,   \* history: what of it limitedWriter was given
  rdDemux,   \* demuxDockerStream: reads, or why it no longer does
  rdPassed,  \* limitedWriter.n
  rdCut,     \* limitedWriter.truncated
  rdHold,    \* redactWriter.hold; the whole buffer of Execute
  rdOut,     \* what left: bytes, and values in place of which a mark stands
  rdEnded    \* the command is over and the writers are closed

rdVars == <<rdValues, rdLive, rdSaid, rdHeard, rdDemux, rdPassed, rdCut, rdHold, rdOut, rdEnded>>

RdStreams == {"stdout", "stderr"}

RdTypeOK ==
  /\ rdValues \subseteq RdStrings(RdMaxLen) /\ rdLive \in BOOLEAN /\ rdEnded \in BOOLEAN
  /\ rdDemux \in {"reads", "short", "broken", "failed"}
  /\ rdPassed \in [RdStreams -> 0..RdLimit] /\ rdCut \in [RdStreams -> BOOLEAN]
  /\ {rdSaid, rdHeard, rdHold} \subseteq [RdStreams -> Seq(RdBytes)]
  /\ rdOut \in [RdStreams -> Seq(RdBytes \union rdValues)]

RdInit ==
  /\ rdValues \in UNION {kSubset(n, RdWords) : n \in 0..RdMaxValues}
  /\ rdLive \in BOOLEAN /\ rdEnded = FALSE
  /\ rdSaid = [k \in RdStreams |-> <<>>] /\ rdPassed = [k \in RdStreams |-> 0]
  /\ rdCut = [k \in RdStreams |-> FALSE]
  /\ rdHeard = [k \in RdStreams |-> <<>>] /\ rdDemux = "reads"
  /\ rdHold = [k \in RdStreams |-> <<>>] /\ rdOut = [k \in RdStreams |-> <<>>]

-----------------------------------------------------------------------------
(* The redactor *)

\* NewRedactor: a value that is too short would blank ordinary output.
RdNeedles == {v \in rdValues : Len(v) >= RdMinLen}

\* The needles that buf starts with; the longest comes first in the list.
RdMatches(needles, buf) == {n \in needles : IsPrefix(n, buf)}
RdLongest(needles) == CHOOSE n \in needles : \A m \in needles : Len(m) <= Len(n)

\* couldExtend for the tail of a chunk.
RdCouldExtendShort(needles, tail) ==
  \E n \in needles : Len(tail) < Len(n) - 1 /\ IsPrefix(tail, n)
RdCouldExtend(needles, tail) == \E n \in needles : Len(tail) < Len(n) /\ IsPrefix(tail, n)

\* What is left of buf when k bytes are left.
RdLeft(buf, k) == SubSeq(buf, Len(buf) - k + 1, Len(buf))

\* process, with tail left to scan: a needle is replaced, a tail that could become
\* one waits, or a byte leaves; done[k] is what the scan of the last k bytes gives.
RdStep(needles, done, tail, final) ==
  LET then(item, k) == [out |-> <<item>> \o done[k].out, rest |-> done[k].rest]
  IN  IF tail = <<>> THEN [out |-> <<>>, rest |-> <<>>]
      ELSE IF RdMatches(needles, tail) # {}
        THEN LET n == RdLongest(RdMatches(needles, tail)) IN then(n, Len(tail) - Len(n))
      ELSE IF ~final /\ RdCouldExtend(needles, tail) THEN [out |-> <<>>, rest |-> tail]
      ELSE then(Head(tail), Len(tail) - 1)

RdScan(needles, buf, final) ==
  LET scan[k \in 0..Len(buf)] == RdStep(needles, scan, RdLeft(buf, k), final)
  IN  scan

\* process: what can leave, and the tail that has to wait for more.
RdProcess(needles, buf, final) == RdScan(needles, buf, final)[Len(buf)]

-----------------------------------------------------------------------------
(* The output of a command *)

\* A mutant: the limit is looked at before the write alone.
RdFitsLate(k, bytes) == IF rdPassed[k] >= RdLimit THEN <<>> ELSE bytes

\* limitedWriter: what is beyond the limit is dropped.
RdFits(k, bytes) ==
  LET left == RdLimit - rdPassed[k]
  IN  IF Len(bytes) > left THEN SubSeq(bytes, 1, left) ELSE bytes

\* Write of the redacting writer: what can leave leaves, the rest is held.
RdWrite(k, bytes) ==
  LET done == RdProcess(RdNeedles, rdHold[k] \o bytes, FALSE)
  IN  /\ rdHold' = [rdHold EXCEPT ![k] = done.rest]
      /\ rdOut' = [rdOut EXCEPT ![k] = @ \o done.out]

\* Exec buffers the full output.
RdBuffer(k, bytes) == rdHold' = [rdHold EXCEPT ![k] = @ \o bytes] /\ UNCHANGED rdOut

\* Close of the redacting writer.
RdClose(k) == RdProcess(RdNeedles, rdHold[k], TRUE).out

\* limitedWriter.Write across the limit says that it wrote less than it was
\* given, at which io.CopyN ends the loop for both streams; at the limit it says
\* that it wrote all.
RdShort(k, bytes) == rdPassed[k] < RdLimit /\ RdFits(k, bytes) # bytes

RdRead(k, bytes) ==
  /\ rdHeard' = [rdHeard EXCEPT ![k] = @ \o bytes]
  /\ rdPassed' = [rdPassed EXCEPT ![k] = @ + Len(RdFits(k, bytes))]
  /\ rdCut' = [rdCut EXCEPT ![k] = @ \/ RdFits(k, bytes) # bytes]
  /\ rdDemux' = IF RdShort(k, bytes) THEN "short" ELSE "reads"
  /\ IF rdLive THEN RdWrite(k, RdFits(k, bytes)) ELSE RdBuffer(k, RdFits(k, bytes))

\* demuxDockerStream: bytes of a frame of one of the two streams arrive, or
\* nobody reads them any more.
RdFrame(k, bytes) ==
  /\ ~rdEnded
  /\ Len(rdSaid["stdout"]) + Len(rdSaid["stderr"]) + Len(bytes) <= RdMaxOutput
  /\ rdSaid' = [rdSaid EXCEPT ![k] = @ \o bytes]
  /\ IF rdDemux = "reads" THEN RdRead(k, bytes)
     ELSE UNCHANGED <<rdHeard, rdDemux, rdPassed, rdCut, rdHold, rdOut>>
  /\ UNCHANGED <<rdValues, rdLive, rdEnded>>

\* The connection fails, or is closed at the deadline.
RdBreak ==
  /\ ~rdEnded /\ rdDemux = "reads" /\ rdDemux' = "broken"
  /\ UNCHANGED <<rdValues, rdLive, rdSaid, rdHeard, rdPassed, rdCut, rdHold, rdOut, rdEnded>>

\* The call to Docker returns: both writers are closed, or the two buffers of
\* Execute are redacted.
RdEnd ==
  /\ ~rdEnded /\ rdEnded' = TRUE
  /\ rdOut' = [k \in RdStreams |-> rdOut[k] \o RdClose(k)]
  /\ rdHold' = [k \in RdStreams |-> <<>>]
  /\ UNCHANGED <<rdValues, rdLive, rdSaid, rdHeard, rdDemux, rdPassed, rdCut>>

\* It returns an error: Execute drops what it buffered.
RdFail ==
  /\ ~rdEnded /\ ~rdLive /\ rdEnded' = TRUE /\ rdDemux' = "failed"
  /\ rdHold' = [k \in RdStreams |-> <<>>]
  /\ UNCHANGED <<rdValues, rdLive, rdSaid, rdHeard, rdPassed, rdCut, rdOut>>

RdNext ==
  \/ \E k \in RdStreams, bytes \in RdStrings(RdMaxFrame) : RdFrame(k, bytes)
  \/ RdBreak \/ RdEnd \/ RdFail

RdSpec == RdInit /\ [][RdNext]_rdVars

-----------------------------------------------------------------------------

\* What was read of a stream that is not beyond the limit.
RdKept(k) == IF rdCut[k] THEN SubSeq(rdHeard[k], 1, RdLimit) ELSE rdHeard[k]

\* The output with the values back in their places.
RdUnmarked(out) ==
  FlattenSeq([i \in DOMAIN out |-> IF out[i] \in RdBytes THEN <<out[i]>> ELSE out[i]])

\* However the output is cut into frames, no injected value leaves as it is and
\* nothing but a value is replaced; what leaves is what was read up to the limit,
\* in order, and what one pass over all of it leaves, unless one value starts with
\* another (internal/secrets/redact.go:86-127,150-174, docs/secrets.md:49-67).  A
\* run that failed keeps nothing; otherwise bytes are missing only behind what was
\* read, and only if the connection was lost or output_truncated says so
\* (internal/docker/exec.go:219-248,266-288).
RdRedacted ==
  \A k \in RdStreams :
    /\ \A n \in RdNeedles, i \in 0..Len(rdOut[k]) : ~IsPrefix(n, SubSeq(rdOut[k], i + 1, Len(rdOut[k])))
    /\ IF rdDemux = "failed" THEN rdOut[k] = <<>>
       ELSE /\ RdUnmarked(rdOut[k]) \o rdHold[k] = RdKept(k)
            /\ rdEnded =>
                 \/ rdOut[k] = RdProcess(RdNeedles, RdKept(k), TRUE).out
                 \/ \E m, n \in RdNeedles : m # n /\ IsPrefix(m, n)
    /\ rdCut[k] <=> Len(rdHeard[k]) > RdLimit
    /\ IsPrefix(rdHeard[k], rdSaid[k])
    /\ rdHeard[k] = rdSaid[k] \/ rdDemux \in {"broken", "failed"} \/ \E j \in RdStreams : rdCut[j]

\* Refuted by the code: "Excess output is truncated" (docs/security.md:152), and
\* nothing else.  The write that crosses the limit of one stream ends the reading
\* of both, and what the other still writes is lost (internal/docker/exec.go:243).
RdOnlyExcessLost ==
  rdDemux = "short" => \A k \in RdStreams : rdHeard[k] = rdSaid[k] \/ Len(rdSaid[k]) > RdLimit

\* Refuted by the code: "a secret that contains a shorter one is replaced
\* whole" (internal/secrets/redact.go:64, redact_test.go:37).  A chunk that ends
\* with the shorter value is replaced at once, and the rest of the longer one
\* leaves as it is.
RdLongestWins ==
  rdEnded /\ rdDemux # "failed" =>
    \A k \in RdStreams : rdOut[k] = RdProcess(RdNeedles, RdKept(k), TRUE).out

=============================================================================
