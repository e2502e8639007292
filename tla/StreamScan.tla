----------------------------- MODULE StreamScan -----------------------------
(***************************************************************************)
(* Scanner.ScanReader and Scanner.MatchesReader (compiler/               *)
(* scanner_stream.go): an io.Reader is scanned through a sliding buffer of *)
(* at most overlap + chunk + lookahead bytes.  Each round reads a chunk, keeps the *)
(* first HeaderSize bytes for integer reads, matches every evaluated rule  *)
(* in the window, keeps the occurrences this window owns, may stop early   *)
(* when a monotonic rule already holds, and slides.  At the end the rules  *)
(* are evaluated on what was kept.                                         *)
(*                                                                         *)
(* The bytes are abstracted to what the matchers find in them.  An input   *)
(* has a length, the spans a matcher can be led to see when it looks at a  *)
(* part of the input only ("spans"), and those of them that really are     *)
(* occurrences in the whole input ("occ").  A window that holds all the    *)
(* bytes that decide a span reports it iff it is an occurrence.  A window  *)
(* that does not may report a regex span that is provisional, and takes a  *)
(* missing byte next to a text candidate for a word boundary.              *)
(***************************************************************************)
EXTENDS RuleSet

CONSTANTS
    Pattern,            \* the attributes of each pattern
    Inputs,             \* the inputs a reader may deliver
    ChunkSize,          \* WithStreamChunkSize
    StreamOverlapSize,  \* WithStreamOverlapSize, 0 for automatic
    MinSpan,            \* the 64 maxStreamingOverlap starts from, scaled
    Margin,             \* the 4096 it adds, scaled
    VerificationDistance, \* regexVerificationDistance, scaled
    MaxMatchSpan,       \* WithMaxMatchSpan, 0 for no cap
    HeaderSize,         \* streamingHeaderSize, scaled
    FastScan,           \* WithFastScan
    EarlyTermination,   \* WithStreamEarlyTermination; MatchesReader sets it
    Fallible,           \* rules whose condition may exceed the interpreter's limits
    MaxScans            \* bound: scans made with one Scanner

Lookahead == 2

Faults == {"none", "unexpectedEOF", "other"}

\* A span of a pattern: a matchSpan with an absolute offset.
IsSpan(s, n) ==
    /\ s.pat \in Patterns /\ s.start \in Nat /\ s.len \in Nat
    /\ s.start < n /\ s.start + s.len <= n

ASSUME StreamAssumption ==
    /\ IsFiniteSet(Patterns)
    /\ \A p \in Patterns :
        /\ Pattern[p].rule \in RuleIds
        /\ Pattern[p].kind \in {"text", "regex", "hex"}
        \* str.Length, len(Tokens), pattern.maxLength (-1: unbounded)
        /\ Pattern[p].measure \in Nat \cup {-1}
        /\ Pattern[p].kind # "regex" => Pattern[p].measure \in Nat
        /\ Pattern[p].wide \in BOOLEAN
        /\ Pattern[p].verify \in {"none", "forward", "both"}
        \* bytes around a span that its modifiers and assertions look at
        /\ Pattern[p].boundary \in 0 .. Lookahead
        /\ Pattern[p].kind = "hex" => Pattern[p].boundary = 0
    \* a condition observes the occurrences of its own rule's strings
    /\ \A r \in RuleIds : \A c \in Rule[r].clauses :
        \A p \in c.need \cup c.twice \cup c.absent : Pattern[p].rule = r
    /\ ChunkSize \in Nat \ {0} /\ StreamOverlapSize \in Nat
    /\ MinSpan \in Nat /\ Margin \in Nat /\ VerificationDistance \in Nat
    /\ MaxMatchSpan \in Nat /\ HeaderSize \in Nat /\ MaxScans \in Nat
    /\ FastScan \in BOOLEAN /\ EarlyTermination \in BOOLEAN
    /\ Fallible \subseteq RuleIds
    /\ \A i \in Inputs :
        /\ i.length \in Nat /\ IsFiniteSet(i.spans)
        /\ \A s \in i.spans : IsSpan(s, i.length)
        /\ i.occ \subseteq i.spans
        \* the reader fails, for good, after "faultAt" bytes
        /\ i.fault \in Faults /\ i.faultAt \in 0 .. i.length

Lesser(a, b) == IF a <= b THEN a ELSE b
Greater(a, b) == IF a >= b THEN a ELSE b

---------------------------------------------------------------------------
(* Sizes derived from the rule set. *)

\* -1 stands for legacy analysis with no proven horizon.
StreamingRegexLength(p) ==
    IF Pattern[p].measure >= 0
    THEN IF Pattern[p].wide THEN 2 * Pattern[p].measure ELSE Pattern[p].measure
    ELSE CASE Pattern[p].verify = "forward" -> VerificationDistance
           [] Pattern[p].verify = "both" -> 2 * VerificationDistance
           [] Pattern[p].verify = "none" -> -1

StreamRegexHorizon(p) ==
    LET horizon == StreamingRegexLength(p)
        capped == /\ MaxMatchSpan > 0
                  /\ \/ Pattern[p].verify = "none"
                     \/ MaxMatchSpan <= VerificationDistance
                  /\ horizon < 0 \/ MaxMatchSpan < horizon
    IN IF capped THEN MaxMatchSpan ELSE horizon

\* What the ownership test is given: only regexes have a horizon.
Horizon(p) == IF Pattern[p].kind = "regex" THEN StreamRegexHorizon(p) ELSE -1

\* The widest pattern of all rules, as maxStreamingOverlap measures it, and the
\* margin.
MaxStreamingOverlap ==
    LET measured == {MinSpan} \cup
            {IF Pattern[p].kind = "regex" THEN StreamingRegexLength(p)
                                          ELSE Pattern[p].measure : p \in Patterns}
    IN Max(measured) + Margin

UnboundedRegexes ==
    {p \in Patterns : /\ Pattern[p].kind = "regex"
                      /\ Pattern[p].measure < 0
                      /\ ShouldEvaluateRule(Pattern[p].rule)}

\* effectiveStreamOverlapSize fails before anything is read.
NoFiniteHorizon == \E p \in UnboundedRegexes : StreamRegexHorizon(p) < 0

\* Error: an unbounded regex does not raise the overlap.
ConfiguredOverlapOnly == IF StreamOverlapSize > 0 THEN StreamOverlapSize
                                                  ELSE MaxStreamingOverlap

EffectiveStreamOverlapSize ==
    LET configured == IF StreamOverlapSize > 0 THEN StreamOverlapSize
                                               ELSE MaxStreamingOverlap
    IN Max({configured} \cup {StreamRegexHorizon(p) + Lookahead : p \in UnboundedRegexes})

---------------------------------------------------------------------------
(* One window: the bytes from offset to end of the input, of which those from *)
(* start to limit are the new chunk and the rest overlap and lookahead.       *)

Visible(w, s) == w.offset <= s.start /\ s.start + s.len <= w.end

\* The last byte that decides whether a span at s.start is an occurrence.
Reach(s) == s.start + (IF Horizon(s.pat) >= 0 THEN Horizon(s.pat) ELSE s.len)

\* The window holds every byte that decides s, or the input has no further ones.
Decided(w, s, n) ==
    /\ w.offset = 0 \/ w.offset <= s.start - Pattern[s.pat].boundary
    /\ w.end = n \/ Reach(s) + Pattern[s.pat].boundary <= w.end

\* What matching the window must report: the occurrences it can decide, and the
\* text occurrences it holds (a missing neighbour cannot hide one) ...
Certain(w, i) ==
    {s \in i.occ : /\ Visible(w, s)
                   /\ Decided(w, s, i.length) \/ Pattern[s.pat].kind = "text"}

\* ... and what else it may.
Provisional(w, i) ==
    {s \in i.spans \ Certain(w, i) : Visible(w, s) /\ ~Decided(w, s, i.length)}

LocalViews(w, i) ==
    {Certain(w, i) \cup u :
        u \in {v \in SUBSET Provisional(w, i) :
                \A s, t \in v : s.pat = t.pat /\ s.start = t.start => s = t}}

\* Error: the horizon is not held back at the end of a window.
OwnsUnsettled(w, s) ==
    LET horizon == Horizon(s.pat)
    IN IF horizon >= 0 /\ horizon <= EffectiveStreamOverlapSize - Lookahead
       THEN Greater(0, w.start - horizon) <= s.start /\ s.start < w.limit
       ELSE w.start < s.start + s.len /\ s.start + s.len <= w.limit

\* Error: the start at the limit belongs to two windows.
OwnsLimitTwice(w, s) ==
    LET horizon == Horizon(s.pat)
    IN IF horizon >= 0 /\ horizon <= EffectiveStreamOverlapSize - Lookahead
       THEN /\ Greater(0, w.start - horizon) <= s.start
            /\ s.start <= IF w.final THEN w.limit ELSE Greater(0, w.limit - horizon)
       ELSE w.start < s.start + s.len /\ s.start + s.len <= w.limit

\* Error: a match belongs to the chunk its start lies in.
OwnsByStart(w, s) == w.start <= s.start /\ s.start < w.limit

\* streamMatchWindow.owns
Owns(w, s) ==
    LET horizon == Horizon(s.pat)
        first == Greater(0, w.start - horizon)
        limit == IF w.final THEN w.limit ELSE Greater(0, w.limit - horizon)
    IN IF horizon >= 0 /\ horizon <= EffectiveStreamOverlapSize - Lookahead
       THEN first <= s.start /\ s.start < limit
       ELSE IF s.len = 0
            THEN w.start <= s.start /\ s.start < w.limit
            ELSE w.start < s.start + s.len /\ s.start + s.len <= w.limit

\* Error: conditions that count occurrences are clipped too.
ClippedAlways(p) == FastScan

\* In fast-scan mode only one span per pattern is looked at (maxMatchesPerPattern).
ClippedPattern(p) == FastScan /\ FastScanSafe(Pattern[p].rule)

\* A text pattern gives its slot to the first candidate of the window, by end,
\* before ownership is tested; the others to the first they own, by start.
Clipped(w, view, p) ==
    LET mine == {s \in view : s.pat = p}
        owned == {s \in mine : Owns(w, s)}
    IN IF Pattern[p].kind = "text"
       THEN {s \in owned : \A t \in mine : s.start + s.len <= t.start + t.len}
       ELSE {s \in owned : \A t \in owned : s.start <= t.start}

\* The spans of a view that the round adds to accumulatedSpans.
Kept(w, view, acc) ==
    {s \in view :
        /\ ShouldEvaluateRule(Pattern[s.pat].rule)
        /\ Owns(w, s)
        /\ ClippedPattern(s.pat) =>
              /\ \A t \in acc : t.pat # s.pat
              /\ s \in Clipped(w, view, s.pat)}

---------------------------------------------------------------------------
VARIABLES
    input,       \* what the reader of the current scan delivers
    cancelled,   \* ctx.Err() # nil
    pc,          \* where scanReaderStream is
    pos,         \* currentStreamOffset
    overlapLen,  \* overlapLen
    window,      \* window, and whether the chunk was cut short by EOF
    header,      \* len(acc.headerBlock)
    acc,         \* acc.accumulatedSpans, as one set
    dense,       \* Scanner.ruleResultsDense
    asserts,     \* Scanner.assertionResults of the header constraints
    evalAt,      \* the rule evaluateStreamMatches is at
    result,      \* what the current scan returned
    scans        \* how many scans were started

streamVars == <<pos, overlapLen, window, header, acc>>
vars == <<input, cancelled, pc, streamVars, dense, asserts, evalAt, result, scans>>

NoWindow == [offset |-> 0, start |-> 0, limit |-> 0, end |-> 0,
             final |-> FALSE, eof |-> FALSE]
NoInput == [length |-> 0, spans |-> {}, occ |-> {}, fault |-> "none", faultAt |-> 0]
NoResult == [status |-> "none", rules |-> {}]
Failed == [status |-> "error", rules |-> {}]

NoResults == [r \in RuleIds |-> FALSE]
HeaderEnds == {Rule[r].headerEnd : r \in RuleIds} \ {0}
NoAsserts == [k \in HeaderEnds |-> "unknown"]

Init ==
    /\ input = NoInput /\ cancelled = FALSE /\ pc = "idle"
    /\ pos = 0 /\ overlapLen = 0 /\ window = NoWindow /\ header = 0 /\ acc = {}
    /\ dense = NoResults /\ asserts = NoAsserts
    /\ evalAt = 1 /\ result = NoResult /\ scans = 0

\* Error: the accumulator of the last scan is used again.
StartScanWithOldSpans ==
    /\ pc \in {"idle", "done"} /\ scans < MaxScans
    /\ \E i \in Inputs : input' = i
    /\ scans' = scans + 1 /\ cancelled' = FALSE
    /\ pos' = 0 /\ overlapLen' = 0 /\ window' = NoWindow /\ header' = 0
    /\ pc' = "read" /\ result' = NoResult
    /\ UNCHANGED <<acc, dense, asserts, evalAt>>

\* Scanner.ScanReaderWithContext is called with a fresh context and reader.  The
\* scanner keeps what the last scan left in ruleResultsDense and assertionResults.
StartScan ==
    /\ pc \in {"idle", "done"} /\ scans < MaxScans
    /\ \E i \in Inputs : input' = i
    /\ scans' = scans + 1
    /\ cancelled' = FALSE
    /\ pos' = 0 /\ overlapLen' = 0 /\ window' = NoWindow /\ header' = 0 /\ acc' = {}
    /\ IF NoFiniteHorizon THEN pc' = "done" /\ result' = Failed
                          ELSE pc' = "read" /\ result' = NoResult
    /\ UNCHANGED <<dense, asserts, evalAt>>

\* The caller cancels the context.
Cancel ==
    /\ pc \notin {"idle", "done"} /\ ~cancelled
    /\ cancelled' = TRUE
    /\ UNCHANGED <<input, pc, streamVars, dense, asserts, evalAt, result, scans>>

\* ctx.Err() at the top of a round and in contextReader, inside and between the
\* rules of a window, and before each rule of evaluateStreamMatches.
Abort ==
    /\ cancelled
    /\ \/ pc \in {"read", "match"}
       \/ pc = "evaluate" /\ evalAt <= NumRules
    /\ result' = Failed /\ pc' = "done"
    /\ UNCHANGED <<input, cancelled, streamVars, dense, asserts, evalAt, scans>>

---------------------------------------------------------------------------
(* Reading a chunk.  The reader's failures are sticky. *)

\* The bytes the reader will ever deliver.
Available == IF input.fault = "none" THEN input.length ELSE input.faultAt

ChunkLength == Lesser(ChunkSize, Available - pos)

\* The classes of error io.ReadFull and Peek distinguish.  A chunk cut short by the
\* end of the input is io.ErrUnexpectedEOF, or io.EOF when it is empty.
ReadError == IF ChunkLength = ChunkSize THEN "none"
             ELSE IF input.fault = "other" THEN "other" ELSE "eof"

PeekLength == Lesser(Lookahead, Available - pos - ChunkLength)

\* Error: any failure of Peek is taken for the end of the input.
PeekErrorIgnored == IF PeekLength = Lookahead THEN "none" ELSE "eof"

PeekError == IF PeekLength = Lookahead THEN "none"
             ELSE IF input.fault = "none" THEN "eof" ELSE input.fault

\* A failed read or a failed peek ends the scan.  An empty read does not reach Peek.
ReadFails ==
    /\ pc = "read" /\ ~cancelled
    /\ \/ ReadError = "other"
       \/ ChunkLength # 0 /\ PeekError \notin {"none", "eof"}
    /\ result' = Failed /\ pc' = "done"
    /\ UNCHANGED <<input, cancelled, streamVars, dense, asserts, evalAt, scans>>

\* evaluateStreamMatches begins by clearing what earlier rounds and scans left.
StartEvaluation ==
    /\ dense' = NoResults /\ asserts' = NoAsserts
    /\ evalAt' = 1 /\ pc' = "evaluate"

\* Error: an empty read is tried again.
ReadNothingAgain ==
    /\ pc = "read" /\ ~cancelled
    /\ ReadError # "other" /\ ChunkLength = 0
    /\ UNCHANGED vars

ReadNothing ==
    /\ pc = "read" /\ ~cancelled
    /\ ReadError # "other" /\ ChunkLength = 0
    /\ StartEvaluation
    /\ UNCHANGED <<input, cancelled, streamVars, result, scans>>

\* The window of this round.
NextWindow ==
    [offset |-> pos - overlapLen, start |-> pos, limit |-> pos + ChunkLength,
     end |-> pos + ChunkLength + PeekLength,
     final |-> ReadError # "none" \/ (PeekError = "eof" /\ PeekLength = 0),
     eof |-> ReadError # "none"]

\* Error: the overlap, already in the header, is appended again.
RetainHeaderWithOverlap(w) == Lesser(header + (w.end - w.offset), HeaderSize)

\* retainHeader appends the part of the window behind the header.
RetainHeader(w) ==
    IF header < HeaderSize THEN header + Lesser(w.end - header, HeaderSize - header)
                           ELSE header

\* Error: assertions outlive the header they were evaluated on.
KeepAsserts == asserts

\* Cached assertions that were undefined on a shorter header are stale.
RefreshAsserts == IF header < HeaderSize /\ EarlyTermination THEN NoAsserts ELSE asserts

ReadChunk ==
    /\ pc = "read" /\ ~cancelled
    /\ ReadError # "other" /\ ChunkLength # 0 /\ PeekError \in {"none", "eof"}
    /\ window' = NextWindow
    /\ header' = RetainHeader(NextWindow)
    /\ asserts' = RefreshAsserts
    /\ pc' = "match"
    /\ UNCHANGED <<input, cancelled, pos, overlapLen, acc, dense, evalAt, result, scans>>

\* Every evaluated rule is matched in the window and the owned spans are kept.
MatchWindow ==
    /\ pc = "match" /\ ~cancelled
    /\ \E view \in LocalViews(window, input) : acc' = acc \cup Kept(window, view, acc)
    /\ pc' = "check"
    /\ UNCHANGED <<input, cancelled, pos, overlapLen, window, header, dense, asserts,
                   evalAt, result, scans>>

---------------------------------------------------------------------------
(* checkStreamEarlyTermination and the end of a round. *)

\* The match context a condition is run in: one count per pattern and distinct
\* start, the retained header, and the filesize counted so far.
Count(spans, p) == Cardinality({s.start : s \in {t \in spans : t.pat = p}})
Facts == [count |-> [p \in Patterns |-> Count(acc, p)], readable |-> 1 .. header, size |-> pos]

ChecksEarly == EarlyTermination /\ EvaluatedGlobalRules = {}

\* The rules whose header constraints the check looks at, through assertionResults ...
Gated ==
    {r \in RuleIds : /\ CanRuleEarlyTerminate(r) /\ HasMatchingTag(r)
                     /\ \E s \in acc : Pattern[s.pat].rule = r}

AssertResult(k) == IF asserts[k] # "unknown" THEN asserts[k]
                   ELSE IF header >= k THEN "true" ELSE "undefined"

\* ... and those whose condition it runs.
Attempted == {r \in Gated : Rule[r].headerEnd # 0 => AssertResult(Rule[r].headerEnd) = "true"}

\* The check ignores a condition that fails: because the context was cancelled, or
\* because the iterations of all checks, and of the last scan, add up to the limit.
MayFail == IF cancelled THEN Attempted ELSE Attempted \cap Fallible

\* The results the first rule to hold can see: it is the first, so what was run before
\* it was false, and the rest, with what failed, is what ruleResultsDense held.
SeenResults(failing) == [r \in RuleIds |-> dense[r] /\ r \notin Attempted \ failing]

Satisfied(failing) ==
    {r \in Attempted \ failing : Holds(r, Facts, SeenResults(failing))}

\* The round ends the loop with currentStreamOffset still at the start of its chunk.
EarlyExit ==
    /\ pc = "check" /\ ChecksEarly
    /\ \E failing \in SUBSET MayFail : Satisfied(failing) # {}
    /\ StartEvaluation
    /\ UNCHANGED <<input, cancelled, streamVars, result, scans>>

\* Error: only the last chunk is carried over.
NextOverlapOfChunk == Lesser(EffectiveStreamOverlapSize, window.limit - window.start)

\* The bytes kept for the next window.
NextOverlap ==
    Lesser(EffectiveStreamOverlapSize, overlapLen + (window.limit - window.start))

\* The loop goes on: the end of the input is reached, or the trailing bytes become
\* the next overlap.
Advance ==
    /\ pc = "check"
    /\ \E failing \in SUBSET MayFail :
        /\ ChecksEarly => Satisfied(failing) = {}
        /\ IF window.eof
           THEN StartEvaluation /\ UNCHANGED overlapLen
           ELSE /\ overlapLen' = NextOverlap
                /\ dense' = IF ChecksEarly THEN SeenResults(failing) ELSE dense
                /\ asserts' = IF ChecksEarly
                              THEN [k \in HeaderEnds |->
                                       IF \E r \in Gated : Rule[r].headerEnd = k
                                       THEN AssertResult(k) ELSE asserts[k]]
                              ELSE asserts
                /\ pc' = "read" /\ UNCHANGED evalAt
    /\ pos' = window.limit
    /\ UNCHANGED <<input, cancelled, window, header, acc, result, scans>>

---------------------------------------------------------------------------
(* evaluateStreamMatches *)

EvaluateRule ==
    /\ pc = "evaluate" /\ ~cancelled /\ evalAt <= NumRules
    /\ dense' = IF ShouldEvaluateRule(evalAt)
                THEN [dense EXCEPT ![evalAt] = Holds(evalAt, Facts, dense)]
                ELSE dense
    /\ evalAt' = evalAt + 1
    /\ UNCHANGED <<input, cancelled, pc, streamVars, asserts, result, scans>>

\* A condition that is run fails: the call ends, and the results before it stay.
ConditionFails ==
    /\ pc = "evaluate" /\ evalAt \in Fallible /\ ShouldEvaluateRule(evalAt)
    /\ {Rule[evalAt].headerEnd} \ {0} \subseteq Facts.readable
    /\ result' = Failed /\ pc' = "done"
    /\ UNCHANGED <<input, cancelled, streamVars, dense, asserts, evalAt, scans>>

Report ==
    /\ pc = "evaluate" /\ evalAt > NumRules
    /\ result' = [status |-> "ok", rules |-> Reported(dense, EarlyTermination)]
    /\ dense' = NoResults
    /\ pc' = "done"
    /\ UNCHANGED <<input, cancelled, streamVars, asserts, evalAt, scans>>

Round == ReadFails \/ ReadNothing \/ ReadChunk \/ MatchWindow \/ EarlyExit \/ Advance
Evaluation == EvaluateRule \/ ConditionFails \/ Report

Next == StartScan \/ Cancel \/ Abort \/ Round \/ Evaluation

Spec == Init /\ [][Next]_vars

\* The scan is one goroutine running straight-line code and the reader returns, so a
\* step that stays possible is taken.  Nothing obliges the caller to scan or cancel.
FairSpec == Spec /\ WF_vars(Abort \/ Round \/ Evaluation)

---------------------------------------------------------------------------
(* Properties *)

\* Every variable has its type.
TypeOK ==
    /\ input = NoInput \/ input.occ \subseteq input.spans
    /\ cancelled \in BOOLEAN
    /\ pc \in {"idle", "read", "match", "check", "evaluate", "done"}
    /\ pos \in Nat /\ overlapLen \in Nat /\ header \in Nat
    /\ window \in [offset : Nat, start : Nat, limit : Nat, end : Nat,
                   final : BOOLEAN, eof : BOOLEAN]
    /\ acc \subseteq input.spans
    /\ dense \in [RuleIds -> BOOLEAN]
    /\ asserts \in [HeaderEnds -> {"unknown", "true", "undefined"}]
    /\ evalAt \in 1 .. (NumRules + 1)
    /\ result.status \in {"none", "ok", "error"} /\ result.rules \subseteq RuleIds
    /\ scans \in 0 .. MaxScans

\* The buffer always carries over everything that was read, up to its capacity, and
\* the retained header is the longest possible prefix: it starts before the window
\* ends and ends behind the start of the next one, so that retainHeader neither
\* leaves a gap nor slices out of range.
HeaderHoldsPrefix ==
    /\ pc = "read" => /\ overlapLen = Lesser(EffectiveStreamOverlapSize, pos)
                      /\ header < HeaderSize => pos - overlapLen <= header
    /\ pc \in {"match", "check"} => header = Lesser(HeaderSize, window.end)

\* The spans the window arithmetic is made for: a regex decided within its horizon
\* when the overlap holds the horizon and two bytes more, and a text or hex span
\* that the overlap can carry over with its neighbouring byte.
WithinReach(s) ==
    IF Pattern[s.pat].kind = "regex"
    THEN /\ Horizon(s.pat) >= 0
         /\ Horizon(s.pat) <= EffectiveStreamOverlapSize - Lookahead
         /\ s.len <= Horizon(s.pat)
    ELSE /\ s.len > 0
         /\ s.len + Pattern[s.pat].boundary <= EffectiveStreamOverlapSize + 1

\* Where the windows matched so far end.
MatchedTo == IF pc = "check" THEN window.limit ELSE pos

\* The part of the input whose occurrences are final once everything before "to" was
\* the primary part of a window.
Settled(s, to) ==
    \/ to = input.length
    \/ IF Pattern[s.pat].kind = "regex" THEN s.start < to - Horizon(s.pat)
                                        ELSE s.start + s.len <= to

\* Between two rounds exactly the settled occurrences have been kept: none is missed at
\* a chunk boundary, and no provisional span of an earlier window survives
\* (streamMatchWindow.owns, with the overlap and the lookahead of the loop).
KeepsExactlySettled ==
    pc \in {"read", "match", "check"} =>
        \A s \in input.spans :
            WithinReach(s) /\ ~ClippedPattern(s.pat) =>
                (s \in acc <=> /\ s \in input.occ
                               /\ ShouldEvaluateRule(Pattern[s.pat].rule)
                               /\ Settled(s, MatchedTo))

\* "streamMatchWindow assigns each settled start to exactly one window": what was kept
\* is not owned again, so accumulatedMatches never holds a match twice.
NeverOwnedTwice == pc = "match" => \A s \in acc : ~Owns(window, s)

\* The facts and the public rules of the same input scanned as one buffer.
BufferFacts(i) ==
    [count |-> [p \in Patterns |-> Count(i.occ, p)], readable |-> 1 .. i.length, size |-> i.length]
BufferReport(i) == Reported(RuleResults(BufferFacts(i)), FALSE)

\* A reader scan that succeeds reports what ScanWithContext reports for the same bytes.
StreamAgreesWithBuffer ==
    result.status = "ok" /\ ~EarlyTermination => result.rules = BufferReport(input)

\* A reader scan implements the contract of ScanReader: its steps inside a call are
\* invisible, and each call ends in the one answer or an error that has a cause.
Contract ==
    INSTANCE ReaderContract WITH
        Unstreamable <- NoFiniteHorizon,
        Fallible <- (Fallible # {}),
        ReportFor <- BufferReport,
        status <- IF pc = "idle" THEN "idle"
                  ELSE IF pc = "done" THEN result.status ELSE "running",
        rules <- result.rules
ImplementsContract == Contract!Spec

\* MatchesReader answers as Matches does: an early exit neither invents a match nor
\* ends the scan without one that a longer scan would have found.
EarlyAnswerAgrees ==
    result.status = "ok" => (result.rules = {} <=> BufferReport(input) = {})

\* The rule an early-terminating scan returns is one the whole input matches.
EarlyRuleIsConfirmed == result.status = "ok" => result.rules \subseteq BufferReport(input)

\* The loop goes on only when no rule that may end it, and whose condition does not
\* fail, holds on what was kept and retained, whatever assertionResults has cached since
\* the header was shorter.
EarlyExitIsPrompt ==
    [][pc = "check" /\ pc' = "read" /\ ChecksEarly /\ ~cancelled =>
        \A r \in Gated \ Fallible : ~Holds(r, Facts, NoResults)]_vars

\* A scan that read to the end did not swallow a failure of the reader.
ReaderErrorsSurface ==
    result.status = "ok" /\ ~EarlyTermination => input.fault = "none"

\* A scan returns, however the reader ends and whenever it is cancelled.
ScanReturns == pc \notin {"idle", "done"} ~> pc = "done"
============================================================================
