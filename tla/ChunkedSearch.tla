---------------------------- MODULE ChunkedSearch ----------------------------
(***************************************************************************)
(* compiler.StreamingProcessor (compiler/streaming_processor.go): the text *)
(* strings of a program in a file or a buffer, chunk by chunk.  A window   *)
(* is a chunk with the overlap before it and up to two bytes after it, and *)
(* owns the occurrences whose last byte lies in the chunk.  The error of   *)
(* the Peek at those bytes is dropped, and the next read may work again.   *)
(* GetProgress is called by others at any time.                            *)
(*                                                                         *)
(* A candidate is a place where the bytes of a string are; "guard" says    *)
(* which neighbour makes the fullword test fail, and from how many bytes   *)
(* away it is seen (two for a wide string).                                *)
(***************************************************************************)
EXTENDS Integers, Sequences, FiniteSets, SequencesExt

CONSTANTS
    Candidates,    \* the candidates of the inputs that callers pass
    Lengths,       \* their lengths, in bytes
    ChunkSizes,    \* StreamingProcessor.ChunkSize
    Kinds,         \* "bytes" (ProcessBytes), "file", "pipe" (ProcessFile)
    MaxCalls       \* bound: calls of Process

BoundaryContext == 2     \* streamingBoundaryContext

ASSUME CandidateAssumption ==
    /\ IsFiniteSet(Candidates) /\ Candidates # {}
    /\ \A c \in Candidates :
          /\ c.start \in Nat /\ c.end \in Nat /\ c.start < c.end
          /\ c.guard \in [side : {"none", "before", "after"}, reach : 1 .. 2]
ASSUME SizeAssumption ==
    Lengths \subseteq Nat /\ ChunkSizes \subseteq Nat \ {0} /\ MaxCalls \in Nat
ASSUME KindAssumption == Kinds \subseteq {"bytes", "file", "pipe"} /\ Kinds # {}

VARIABLES
    input,      \* what is searched: kind, its length, and the one Stat promised
    chunkSize,  \* effectiveChunkSize
    early,      \* EarlyTermination
    cancelled,
    pc,
    offset,     \* currentStreamOffset, primaryStart
    overlap,    \* overlapLen
    primary,    \* the chunk of the window: its first byte and the byte after its last
    atEnd,      \* readErr is EOF or ErrUnexpectedEOF
    ahead,      \* len(lookahead)
    cut,        \* history: the windows searched so far whose Peek failed
    matches,    \* allMatches
    progress,   \* streamingProgress
    result,
    calls

window == <<offset, overlap, primary, atEnd, ahead, cut>>
vars == <<input, chunkSize, early, cancelled, pc, window, matches, progress, result, calls>>

Smaller(a, b) == IF a < b THEN a ELSE b
Larger(a, b) == IF a < b THEN b ELSE a

\* verifyTextMatch, matchPassesModifiers, on the bytes of first .. last - 1: a neighbour
\* that is not among them does not count.
Passes(c, first, last) ==
    CASE c.guard.side = "none" -> TRUE
      [] c.guard.side = "before" -> c.start - c.guard.reach < first
      [] c.guard.side = "after" -> c.end + c.guard.reach > last

Longest == CHOOSE n \in {c.end - c.start : c \in Candidates} :
               \A c \in Candidates : c.end - c.start <= n

\* Error: enough for the string, but not for the bytes before it.
PatternOverlap == Longest - 1

\* effectiveOverlapSize
OverlapSize == Longest - 1 + BoundaryContext

Init ==
    /\ input = [kind |-> CHOOSE k \in Kinds : TRUE, length |-> 0, size |-> 0]
    /\ chunkSize \in ChunkSizes /\ early \in BOOLEAN
    /\ cancelled = FALSE /\ pc = "idle"
    /\ offset = 0 /\ overlap = 0 /\ primary = <<0, 0>> /\ atEnd = FALSE
    /\ ahead = 0 /\ cut = {}
    /\ matches = <<>> /\ progress = [total |-> 0, processed |-> 0, found |-> 0]
    /\ result = "none" /\ calls = 0

\* SetChunkSize, EnableEarlyTermination, between calls; the last result was taken.
Configure ==
    /\ pc = "idle" /\ chunkSize' \in ChunkSizes /\ early' \in BOOLEAN
    /\ result' = "none"
    /\ UNCHANGED <<input, cancelled, pc, window, matches, progress, calls>>

\* ProcessBytes, ProcessFile: the counters start again.  Between Stat and the reads a file
\* may grow or shrink; a pipe has no size.
Start ==
    /\ pc = "idle" /\ calls < MaxCalls /\ calls' = calls + 1
    /\ \E k \in Kinds, n \in Lengths, s \in Lengths :
          /\ k = "bytes" => s = n
          /\ k = "pipe" => s = 0
          /\ input' = [kind |-> k, length |-> n, size |-> s]
          /\ progress' = [total |-> s, processed |-> 0, found |-> 0]
    /\ cancelled' = FALSE /\ result' = "none" /\ matches' = <<>>
    /\ offset' = 0 /\ overlap' = 0 /\ primary' = <<0, 0>> /\ atEnd' = FALSE
    /\ ahead' = 0 /\ cut' = {}
    /\ pc' = "chunk"
    /\ UNCHANGED <<chunkSize, early>>

Cancel ==
    /\ pc # "idle" /\ ~cancelled /\ cancelled' = TRUE
    /\ UNCHANGED <<input, chunkSize, early, pc, window, matches, progress, result, calls>>

Stop(r) ==
    /\ pc' = "idle" /\ result' = r
    /\ UNCHANGED <<input, chunkSize, early, cancelled, window, matches, progress, calls>>

Abort == cancelled /\ pc # "idle" /\ Stop("error")

\* What is left of a regular file is what Stat said; bytes of a growing file are not read.
ReadSize == IF input.kind = "file" THEN Smaller(chunkSize, input.size - offset) ELSE chunkSize
Got == Smaller(ReadSize, input.length - offset)

ReadFails == ~cancelled /\ pc = "chunk" /\ input.kind # "bytes" /\ Stop("error")

\* Error: only what Stat said ends the scan.
FinishAtSize ==
    /\ ~cancelled /\ pc = "chunk" /\ ReadSize <= 0
    /\ Stop("done")

\* The end of the input: no chunk is left, or nothing could be read of the last.
Finish ==
    /\ ~cancelled /\ pc = "chunk"
    /\ ReadSize <= 0 \/ Got <= 0
    /\ Stop("done")

\* The bytes there are to look at after a chunk, and how many of them a window gets: all
\* of a buffer, but of a file those that Peek has read when it fails.
Peekable(limit) == Smaller(BoundaryContext, input.length - limit)
Peeked(limit) == IF input.kind = "bytes" THEN {Peekable(limit)} ELSE 0 .. Peekable(limit)

\* Error: the window of a full chunk is taken for the last.
ReadChunkShort ==
    /\ ~cancelled /\ pc = "chunk" /\ ReadSize > 0 /\ Got > 0
    /\ primary' = <<offset, offset + Got>>
    /\ atEnd' = (offset + Got >= input.size)
    /\ ahead' \in Peeked(offset + Got)
    /\ pc' = "search"
    /\ UNCHANGED <<input, chunkSize, early, cancelled, offset, overlap, cut, matches, progress,
                   result, calls>>

\* A chunk: io.ReadFull and Peek for a file, the next slice of a buffer.
ReadChunk ==
    /\ ~cancelled /\ pc = "chunk" /\ ReadSize > 0 /\ Got > 0
    /\ primary' = <<offset, offset + Got>>
    /\ atEnd' = (input.kind # "bytes" /\ Got < ReadSize)
    /\ ahead' \in Peeked(offset + Got)
    /\ pc' = "search"
    /\ UNCHANGED <<input, chunkSize, early, cancelled, offset, overlap, cut, matches, progress,
                   result, calls>>

\* The bytes of the window: the overlap, the chunk and the lookahead.
WindowStart == IF input.kind = "bytes" THEN Larger(primary[1] - OverlapSize, 0)
               ELSE primary[1] - overlap
WindowEnd == primary[2] + ahead

\* Error: an occurrence belongs to every chunk that it ends in or touches.
OwnsTouched(c) == c.end > primary[1] /\ c.start < primary[2]

\* createRuleMatch: the chunk of the last byte owns the occurrence.
Owns(c) == c.end > primary[1] /\ c.end <= primary[2]

FoundHere ==
    {c \in Candidates : /\ WindowStart <= c.start /\ c.end <= WindowEnd
                        /\ Passes(c, WindowStart, WindowEnd) /\ Owns(c)}

\* Error: the counters are those of the chunk.
CountChunk == [progress EXCEPT !.processed = primary[2] - primary[1],
                               !.found = Cardinality(FoundHere)]

\* updateProgress
Counted == [progress EXCEPT !.processed = @ + primary[2] - primary[1],
                            !.found = @ + Cardinality(FoundHere)]

NextOverlap == Smaller(OverlapSize, overlap + primary[2] - primary[1])

StopsEarly == early /\ FoundHere # {}

\* processChunk, updateProgress; then the scan ends, or the overlap is kept for the next.
\* Rules and strings are searched one after the other, in any order here.
SearchChunk ==
    /\ ~cancelled /\ pc = "search"
    /\ matches' = matches \o SetToSeq(FoundHere)
    /\ progress' = Counted
    /\ offset' = primary[2]
    /\ overlap' = NextOverlap
    /\ cut' = IF ahead < Peekable(primary[2])
              THEN cut \cup {[start |-> primary[1], limit |-> primary[2], end |-> WindowEnd]}
              ELSE cut
    /\ IF StopsEarly \/ atEnd
       THEN pc' = "idle" /\ result' = "done"
       ELSE pc' = "chunk" /\ UNCHANGED result
    /\ UNCHANGED <<input, chunkSize, early, cancelled, primary, atEnd, ahead, calls>>

Processing == Finish \/ ReadChunk \/ SearchChunk
Next == Configure \/ Start \/ Cancel \/ Abort \/ ReadFails \/ Processing

Spec == Init /\ [][Next]_vars

\* The loop is straight-line code; readers of files answer.
FairSpec == Spec /\ WF_vars(Abort \/ Processing)

---------------------------------------------------------------------------
(* Properties *)

Real(c) == c.end <= input.length /\ Passes(c, 0, input.length)

\* The byte that refutes c lies behind the end of window w, which owns c.
Unseen(w, c) ==
    /\ c.guard.side = "after"
    /\ w.start < c.end /\ c.end <= w.limit /\ w.end < c.end + c.guard.reach

\* Whatever the chunks are, each occurrence that ends in the bytes searched so far is
\* reported once.  What else is reported is exactly what a neighbour refutes that a failed
\* Peek has hidden: no candidate is let through at the edge of any other window.
ReportsEachOnce ==
    /\ Range(matches) =
          {c \in Candidates : c.end <= offset /\ (Real(c) \/ \E w \in cut : Unseen(w, c))}
    /\ Len(matches) = Cardinality(Range(matches))

\* "StreamingProcessor reports exact text-pattern matches", with "enough lookahead to
\* validate fullword": what a successful call returns are occurrences.
SuccessIsExact == result = "done" => \A c \in Range(matches) : Real(c)

\* The counters that others read are those of the chunks searched so far, and of a buffer
\* or an unchanged file never more than its size.
ProgressIsExact ==
    /\ progress.processed = offset /\ progress.found = Len(matches)
    /\ input.kind # "pipe" => progress.processed <= progress.total

\* A call that succeeds has searched what there was to search, or stopped at the end of the
\* first chunk with a match.
DoneMeansDone ==
    result = "done" =>
        \/ offset = IF input.kind = "file" THEN Smaller(input.size, input.length)
                    ELSE input.length
        \/ /\ early
           /\ \A c \in Range(matches) : c.end > primary[1]
           /\ matches # <<>>

\* Every call returns.
ProcessReturns == pc # "idle" ~> pc = "idle"
=============================================================================
