-------------------------- MODULE StreamScanProofs --------------------------
(***************************************************************************)
(* Theorems about StreamScan, for every rule set, every input and every    *)
(* size: the window arithmetic of scanReaderStream keeps each settled      *)
(* occurrence once, and nothing else.                                      *)
(***************************************************************************)
EXTENDS StreamScan, RuleSetFacts

---------------------------------------------------------------------------
(* The overlap is a natural number. *)

\* Every horizon is an integer, and a negative one is -1.
LEMMA HorizonType ==
    ASSUME NEW p \in Patterns
    PROVE  /\ StreamingRegexLength(p) \in Nat \cup {-1}
           /\ StreamRegexHorizon(p) \in Nat \cup {-1}
           /\ Horizon(p) \in Nat \cup {-1}
<1>1. /\ Pattern[p].measure \in Nat \cup {-1} /\ Pattern[p].wide \in BOOLEAN
      /\ Pattern[p].verify \in {"none", "forward", "both"}
      /\ VerificationDistance \in Nat /\ MaxMatchSpan \in Nat
    BY StreamAssumption
<1>2. StreamingRegexLength(p) \in Nat \cup {-1}
    <2>1. CASE Pattern[p].measure >= 0
        BY <1>1, <2>1 DEF StreamingRegexLength
    <2>2. CASE ~(Pattern[p].measure >= 0)
        BY <1>1, <2>2 DEF StreamingRegexLength
    <2> QED BY <2>1, <2>2
<1>3. StreamRegexHorizon(p) \in Nat \cup {-1}
    BY <1>1, <1>2 DEF StreamRegexHorizon
<1> QED BY <1>2, <1>3 DEF Horizon

\* What maxStreamingOverlap measures of a pattern.
MeasuredSpan(p) == IF Pattern[p].kind = "regex" THEN StreamingRegexLength(p)
                                                ELSE Pattern[p].measure

\* maxStreamingOverlap and effectiveStreamOverlapSize return sizes, and these are as large
\* as the widest pattern asks for.
LEMMA OverlapCovers ==
    /\ EffectiveStreamOverlapSize \in Nat
    /\ StreamOverlapSize = 0 =>
          \A p \in Patterns : MeasuredSpan(p) + Margin <= EffectiveStreamOverlapSize
    /\ \A p \in UnboundedRegexes :
          StreamRegexHorizon(p) + Lookahead <= EffectiveStreamOverlapSize
<1>1. IsFiniteSet(Patterns) /\ MinSpan \in Nat /\ Margin \in Nat /\ StreamOverlapSize \in Nat
    BY StreamAssumption
<1> DEFINE span(p) == MeasuredSpan(p)
           measured == {MinSpan} \cup {span(p) : p \in Patterns}
           raised == {StreamRegexHorizon(p) + Lookahead : p \in UnboundedRegexes}
           configured == IF StreamOverlapSize > 0 THEN StreamOverlapSize
                                                  ELSE MaxStreamingOverlap
<1>2. Max(measured) \in Nat /\ \A p \in Patterns : span(p) \in Int /\ span(p) <= Max(measured)
    <2> DEFINE f == [p \in Patterns |-> span(p)]
    <2>1. {span(p) : p \in Patterns} = {f[p] : p \in Patterns}
        OBVIOUS
    <2>2. IsFiniteSet({f[p] : p \in Patterns})
        <3> HIDE DEF span
        <3>1. DOMAIN f = Patterns /\ f \in [Patterns -> {f[p] : p \in Patterns}]
            OBVIOUS
        <3> HIDE DEF f
        <3> QED BY <1>1, <3>1, FiniteImage
    <2>3. IsFiniteSet(measured)
        <3> HIDE DEF span, f
        <3> QED BY <2>1, <2>2, FS_Singleton, FS_Union
    <2>4. measured \subseteq Int /\ \A p \in Patterns : span(p) \in Int /\ span(p) \in measured
        <3>1. ASSUME NEW p \in Patterns PROVE span(p) \in Int
            BY HorizonType, StreamAssumption DEF MeasuredSpan
        <3> HIDE DEF span
        <3> QED BY <1>1, <3>1
    <2> HIDE DEF measured
    <2>5. MinSpan \in measured
        BY DEF measured
    <2>6. measured # {}
        BY <2>5
    <2>7. Max(measured) \in measured /\ Max(measured) >= MinSpan /\ \A m \in measured : Max(measured) >= m
        BY <2>3, <2>4, <2>5, <2>6, FiniteSetHasMax
    <2>8. Max(measured) \in Int
        BY <2>4, <2>7
    <2>9. MinSpan \in Nat
        BY <1>1
    <2> HIDE DEF span, f
    <2> QED BY <2>4, <2>7, <2>8, <2>9
<1>3. MaxStreamingOverlap = Max(measured) + Margin /\ MaxStreamingOverlap \in Nat
    BY <1>1, <1>2 DEF MaxStreamingOverlap, MeasuredSpan
<1>4. configured \in Nat
    BY <1>1, <1>3
<1>5. /\ Max({configured} \cup raised) \in Nat
      /\ configured <= Max({configured} \cup raised)
      /\ \A h \in raised : h <= Max({configured} \cup raised)
    <2> DEFINE f == [p \in UnboundedRegexes |-> StreamRegexHorizon(p) + Lookahead]
    <2>1. raised = {f[p] : p \in UnboundedRegexes}
        OBVIOUS
    <2>2. IsFiniteSet({f[p] : p \in UnboundedRegexes})
        <3>1. IsFiniteSet(UnboundedRegexes)
            BY <1>1, FS_Subset DEF UnboundedRegexes
        <3>2. /\ DOMAIN f = UnboundedRegexes
              /\ f \in [UnboundedRegexes -> {f[p] : p \in UnboundedRegexes}]
            OBVIOUS
        <3> HIDE DEF f
        <3> QED BY <3>1, <3>2, FiniteImage
    <2>3. IsFiniteSet({configured} \cup raised)
        <3> HIDE DEF f, raised, configured
        <3> QED BY <2>1, <2>2, FS_Singleton, FS_Union
    <2>4. {configured} \cup raised \subseteq Int
        BY <1>4, HorizonType DEF UnboundedRegexes, Lookahead
    <2> HIDE DEF raised, configured, measured, f
    <2> DEFINE both == {configured} \cup raised
    <2>5. both # {} /\ configured \in both /\ \A h \in raised : h \in both
        OBVIOUS
    <2>6. IsFiniteSet(both) /\ both \subseteq Int
        BY <2>3, <2>4
    <2>7. Max(both) \in both /\ \A y \in both : Max(both) >= y
        <3> HIDE DEF both
        <3> QED BY <2>5, <2>6, FiniteSetHasMax
    <2>8. Max(both) \in Int /\ Max(both) >= configured /\ \A h \in raised : Max(both) >= h /\ h \in Int
        <3> HIDE DEF both
        <3> QED BY <2>5, <2>6, <2>7
    <2> HIDE DEF both
    <2>9. Max(both) \in Nat /\ configured <= Max(both) /\ \A h \in raised : h <= Max(both)
        BY <1>4, <2>8
    <2> QED BY <2>9 DEF both
<1>6. EffectiveStreamOverlapSize = Max({configured} \cup raised)
    BY DEF EffectiveStreamOverlapSize
<1>7. \A p \in UnboundedRegexes : StreamRegexHorizon(p) + Lookahead \in raised
    OBVIOUS
<1>8. StreamOverlapSize = 0 => configured = MaxStreamingOverlap
    OBVIOUS
<1> HIDE DEF configured, raised, measured
<1>9. ASSUME StreamOverlapSize = 0, NEW p \in Patterns
      PROVE  MeasuredSpan(p) + Margin <= EffectiveStreamOverlapSize
    BY <1>1, <1>2, <1>3, <1>4, <1>5, <1>6, <1>8, <1>9
<1> QED BY <1>5, <1>6, <1>7, <1>9

LEMMA OverlapType == EffectiveStreamOverlapSize \in Nat
BY OverlapCovers

---------------------------------------------------------------------------
(* The inductive invariant. *)

\* A scan is reading or matching windows.
Scanning == pc \in {"read", "match", "check"}

\* Every variable has its type, and a scan reads one of the inputs.
TypeInv ==
    /\ pc \in {"idle", "read", "match", "check", "evaluate", "done"}
    /\ IF pc = "idle" THEN input = NoInput ELSE input \in Inputs
    /\ cancelled \in BOOLEAN
    /\ pos \in Nat /\ overlapLen \in Nat /\ header \in Nat
    /\ window \in [offset : Nat, start : Nat, limit : Nat, end : Nat,
                   final : BOOLEAN, eof : BOOLEAN]
    /\ acc \subseteq input.spans
    /\ dense \in [RuleIds -> BOOLEAN]
    /\ asserts \in [HeaderEnds -> {"unknown", "true", "undefined"}]
    /\ evalAt \in 1 .. (NumRules + 1)
    /\ result \in [status : {"none", "ok", "error"}, rules : SUBSET RuleIds]
    /\ scans \in 0 .. MaxScans

\* At the top of a round the buffer holds as much of what was read as it can, and the
\* header reaches at least to pos and at most to the end of the last window.
BufferInv ==
    pc = "read" =>
        /\ pos <= Available
        /\ overlapLen = Lesser(EffectiveStreamOverlapSize, pos)
        /\ Lesser(HeaderSize, pos) <= header
        /\ header <= Lesser(HeaderSize, Lesser(pos + Lookahead, Available))

\* Inside a round the window is the one that was read, and its header is retained.
WindowInv ==
    pc \in {"match", "check"} =>
        /\ pos <= Available
        /\ overlapLen = Lesser(EffectiveStreamOverlapSize, pos)
        /\ window = NextWindow
        /\ ChunkLength # 0
        /\ ReadError # "other" /\ PeekError \in {"none", "eof"}
        /\ header = Lesser(HeaderSize, window.end)

\* No window whose primary part starts at "to" owns s.
Behind(s, to) ==
    IF Horizon(s.pat) >= 0 /\ Horizon(s.pat) <= EffectiveStreamOverlapSize - Lookahead
    THEN s.start < to - Horizon(s.pat) \/ to = Available
    ELSE IF s.len = 0 THEN s.start < to ELSE s.start + s.len <= to

\* What was kept lies behind the windows to come.
BehindInv == Scanning => \A s \in acc : Behind(s, MatchedTo)

IInv == TypeInv /\ BufferInv /\ WindowInv /\ BehindInv /\ KeepsExactlySettled

---------------------------------------------------------------------------
(* The shape of a window. *)

\* The lengths of a read are natural numbers and lie inside the input.
LEMMA ReadType ==
    ASSUME input \in Inputs, pos \in Nat, pos <= Available
    PROVE  /\ input.length \in Nat /\ Available \in Nat /\ Available <= input.length
           /\ ChunkLength \in Nat /\ ChunkLength <= ChunkSize
           /\ pos + ChunkLength <= Available
           /\ PeekLength \in 0 .. Lookahead
           /\ pos + ChunkLength + PeekLength <= Available
           /\ input.fault \in Faults
<1>1. /\ input.length \in Nat /\ input.faultAt \in 0 .. input.length /\ input.fault \in Faults
      /\ ChunkSize \in Nat \ {0}
    BY StreamAssumption
<1>2. Available \in Nat /\ Available <= input.length
    BY <1>1 DEF Available
<1>3. ChunkLength \in Nat /\ ChunkLength <= ChunkSize /\ pos + ChunkLength <= Available
    BY <1>1, <1>2 DEF ChunkLength, Lesser
<1>4. PeekLength \in 0 .. Lookahead /\ pos + ChunkLength + PeekLength <= Available
    BY <1>2, <1>3 DEF PeekLength, Lesser, Lookahead
<1> QED BY <1>1, <1>2, <1>3, <1>4

\* A window is final iff it ends the input; any other sees past its chunk, and so far
\* that it has two bytes of lookahead unless it sees the end of the input.
LEMMA WindowShape ==
    ASSUME input \in Inputs, pos \in Nat, pos <= Available, overlapLen \in Nat,
           overlapLen <= pos, window = NextWindow, ChunkLength # 0,
           ReadError # "other", PeekError \in {"none", "eof"}
    PROVE  /\ window \in [offset : Nat, start : Nat, limit : Nat, end : Nat,
                          final : BOOLEAN, eof : BOOLEAN]
           /\ window.offset = pos - overlapLen /\ window.start = pos
           /\ window.limit = pos + ChunkLength
           /\ window.end = window.limit + PeekLength
           /\ pos < window.limit /\ window.limit <= window.end
           /\ window.end <= Available /\ window.end <= window.limit + Lookahead
           /\ window.end = Lesser(window.limit + Lookahead, Available)
           /\ window.final => window.limit = Available
           /\ ~window.final => /\ window.limit < window.end
                               /\ \/ window.end = window.limit + Lookahead
                                  \/ window.end = input.length
           /\ window.final => window.limit = input.length /\ input.fault = "none"
           /\ window.eof => window.final
           /\ input.fault = "none" \/ window.limit + Lookahead <= Available
<1>1. /\ input.length \in Nat /\ Available \in Nat /\ Available <= input.length
      /\ ChunkLength \in Nat /\ ChunkLength <= ChunkSize
      /\ pos + ChunkLength <= Available
      /\ PeekLength \in 0 .. Lookahead
      /\ pos + ChunkLength + PeekLength <= Available
      /\ input.fault \in Faults
    BY ReadType
<1>2. ChunkSize \in Nat
    BY StreamAssumption
<1>3. PeekLength = Lesser(Lookahead, Available - pos - ChunkLength)
    BY DEF PeekLength
<1>4. ChunkLength = Lesser(ChunkSize, Available - pos)
    BY DEF ChunkLength
<1>5. /\ window.offset = pos - overlapLen /\ window.start = pos
      /\ window.limit = pos + ChunkLength
      /\ window.end = pos + ChunkLength + PeekLength
      /\ window.final <=> ReadError # "none" \/ (PeekError = "eof" /\ PeekLength = 0)
      /\ window = [offset |-> pos - overlapLen, start |-> pos, limit |-> pos + ChunkLength,
                   end |-> pos + ChunkLength + PeekLength,
                   final |-> window.final, eof |-> window.eof]
    BY DEF NextWindow
<1>6. window.final \in BOOLEAN /\ window.eof \in BOOLEAN
    BY DEF NextWindow
<1>7. ReadError # "none" => ChunkLength < ChunkSize
    BY <1>1, <1>2 DEF ReadError
<1>8. ReadError # "none" => pos + ChunkLength = Available
    BY <1>1, <1>2, <1>4, <1>7 DEF Lesser
<1>9. PeekLength # Lookahead => PeekError = "eof" /\ input.fault = "none"
    BY <1>1 DEF PeekError, Faults
<1>10. PeekLength = 0 => pos + ChunkLength = Available
    BY <1>1, <1>3 DEF Lesser, Lookahead
<1>11. ReadError # "none" => input.fault # "other"
    BY <1>7 DEF ReadError
<1>12. window.final => window.limit = Available
    BY <1>5, <1>8, <1>10
<1>13. window.final => input.fault = "none"
    <2>1. CASE ReadError # "none"
        <3>1. PeekLength = 0
            BY <1>1, <1>3, <1>8, <2>1 DEF Lesser, Lookahead
        <3> QED BY <1>9, <3>1 DEF Lookahead
    <2>2. CASE PeekError = "eof" /\ PeekLength = 0
        BY <1>9, <2>2 DEF Lookahead
    <2> QED BY <1>5, <2>1, <2>2
<1>14. input.fault = "none" => Available = input.length
    BY DEF Available
<1>15. ~window.final => PeekLength # 0
    <2>1. PeekLength = 0 => PeekError = "eof"
        BY <1>9 DEF Lookahead
    <2> QED BY <1>5, <2>1
<1>16. ~window.final => window.end = window.limit + Lookahead \/ window.end = input.length
    <2>1. CASE PeekLength = Lookahead
        BY <1>1, <1>5, <2>1
    <2>2. CASE PeekLength # Lookahead
        <3>1. Available = input.length
            BY <1>9, <1>14, <2>2
        <3>2. pos + ChunkLength + PeekLength = Available
            BY <1>1, <1>3, <2>2 DEF Lesser, Lookahead
        <3> QED BY <1>5, <3>1, <3>2
    <2> QED BY <2>1, <2>2
<1>17. window.end = Lesser(window.limit + Lookahead, Available)
    BY <1>1, <1>3, <1>5 DEF Lesser, Lookahead
<1>18. /\ window.end = window.limit + PeekLength
       /\ pos < window.limit /\ window.limit <= window.end
       /\ window.end <= Available /\ window.end <= window.limit + Lookahead
       /\ window.offset \in Nat /\ window.start \in Nat /\ window.limit \in Nat
       /\ window.end \in Nat
    BY <1>1, <1>5 DEF Lookahead
<1>19. window \in [offset : Nat, start : Nat, limit : Nat, end : Nat,
                   final : BOOLEAN, eof : BOOLEAN]
    BY <1>5, <1>6, <1>18
<1>20. ~window.final => window.limit < window.end
    BY <1>1, <1>15, <1>18
<1>21. window.eof => window.final
    BY DEF NextWindow
<1>22. input.fault = "none" \/ window.limit + Lookahead <= Available
    BY <1>1, <1>5, <1>9
<1> QED BY <1>5, <1>12, <1>13, <1>14, <1>16, <1>17, <1>18, <1>19, <1>20, <1>21, <1>22

\* The same holds of the window of a round that has read its chunk.
LEMMA WindowFacts ==
    ASSUME TypeInv, WindowInv, pc \in {"match", "check"}
    PROVE  /\ input \in Inputs /\ input.length \in Nat
           /\ Available \in Nat /\ Available <= input.length
           /\ window.offset \in Nat /\ window.start \in Nat /\ window.limit \in Nat
           /\ window.end \in Nat /\ window.final \in BOOLEAN
           /\ window.offset = pos - overlapLen /\ window.start = pos
           /\ overlapLen = Lesser(EffectiveStreamOverlapSize, pos)
           /\ window.limit = pos + ChunkLength
           /\ pos < window.limit /\ window.limit <= window.end
           /\ window.end <= Available /\ window.end <= window.limit + Lookahead
           /\ window.end = Lesser(window.limit + Lookahead, Available)
           /\ window.final => window.limit = Available
           /\ ~window.final => /\ window.limit < window.end
                               /\ \/ window.end = window.limit + Lookahead
                                  \/ window.end = input.length
           /\ window.final => window.limit = input.length /\ input.fault = "none"
           /\ window.eof => window.final
           /\ input.fault = "none" \/ window.limit + Lookahead <= Available
<1>1. input \in Inputs /\ pos \in Nat /\ overlapLen \in Nat
    BY DEF TypeInv
<1>2. /\ pos <= Available /\ overlapLen = Lesser(EffectiveStreamOverlapSize, pos)
      /\ window = NextWindow /\ ChunkLength # 0
      /\ ReadError # "other" /\ PeekError \in {"none", "eof"}
    BY DEF WindowInv
<1>3. overlapLen <= pos
    BY <1>1, <1>2, OverlapType DEF Lesser
<1>4. input.length \in Nat /\ Available \in Nat /\ Available <= input.length
    BY <1>1, <1>2, ReadType
<1>5. window \in [offset : Nat, start : Nat, limit : Nat, end : Nat,
                  final : BOOLEAN, eof : BOOLEAN]
    BY <1>1, <1>2, <1>3, WindowShape
<1>6. /\ window.offset \in Nat /\ window.start \in Nat /\ window.limit \in Nat
      /\ window.end \in Nat /\ window.final \in BOOLEAN
    BY <1>5
<1> QED BY <1>1, <1>2, <1>3, <1>4, <1>6, WindowShape

\* What a window is determined by.
LEMMA SameWindow ==
    ASSUME input' = input, pos' = pos, overlapLen' = overlapLen
    PROVE  /\ Available' = Available /\ ChunkLength' = ChunkLength
           /\ ReadError' = ReadError /\ PeekError' = PeekError
           /\ NextWindow' = NextWindow
<1>1. Available' = Available
    BY DEF Available
<1>2. ChunkLength' = ChunkLength
    BY <1>1 DEF ChunkLength
<1>3. PeekLength' = PeekLength /\ ReadError' = ReadError
    BY <1>1, <1>2 DEF PeekLength, ReadError
<1>4. PeekError' = PeekError
    BY <1>3 DEF PeekError
<1> QED BY <1>1, <1>2, <1>3, <1>4 DEF NextWindow

\* A chosen view consists of spans of the input.
LEMMA ViewIsOfInput ==
    ASSUME input \in Inputs, NEW view \in LocalViews(window, input)
    PROVE  view \subseteq input.spans
<1>1. input.occ \subseteq input.spans
    BY StreamAssumption
<1> QED BY <1>1 DEF LocalViews, Certain, Provisional

---------------------------------------------------------------------------
(* Every variable keeps its type. *)

LEMMA InitialTypes ==
    /\ NoInput.spans = {} /\ NoWindow \in [offset : Nat, start : Nat, limit : Nat, end : Nat,
                                           final : BOOLEAN, eof : BOOLEAN]
    /\ NoResults \in [RuleIds -> BOOLEAN]
    /\ NoAsserts \in [HeaderEnds -> {"unknown", "true", "undefined"}]
    /\ 1 \in 1 .. (NumRules + 1)
    /\ NoResult \in [status : {"none", "ok", "error"}, rules : SUBSET RuleIds]
    /\ Failed \in [status : {"none", "ok", "error"}, rules : SUBSET RuleIds]
BY RuleSetAssumption DEF NoInput, NoWindow, NoResults, NoAsserts, NoResult, Failed

\* The window of a round that has read a chunk, before it is stored.
LEMMA NextWindowType ==
    ASSUME TypeInv, BufferInv, ReadChunk
    PROVE  /\ NextWindow \in [offset : Nat, start : Nat, limit : Nat, end : Nat,
                              final : BOOLEAN, eof : BOOLEAN]
           /\ NextWindow.end \in Nat
           /\ NextWindow.end = Lesser(NextWindow.limit + Lookahead, Available)
           /\ pos < NextWindow.limit /\ NextWindow.limit <= NextWindow.end
           /\ NextWindow.limit \in Nat /\ Available \in Nat
<1>1. /\ input \in Inputs /\ pos \in Nat /\ overlapLen \in Nat
      /\ pos <= Available /\ overlapLen = Lesser(EffectiveStreamOverlapSize, pos)
      /\ ChunkLength # 0 /\ ReadError # "other" /\ PeekError \in {"none", "eof"}
      /\ input' = input /\ pos' = pos /\ overlapLen' = overlapLen
    BY DEF TypeInv, BufferInv, ReadChunk
<1>2. overlapLen <= pos
    BY <1>1, OverlapType DEF Lesser
<1>3. /\ Available \in Nat /\ ChunkLength \in Nat /\ pos + ChunkLength <= Available
      /\ PeekLength \in 0 .. Lookahead
    BY <1>1, ReadType
<1>4. /\ NextWindow.limit = pos + ChunkLength
      /\ NextWindow.end = pos + ChunkLength + PeekLength
      /\ PeekLength = Lesser(Lookahead, Available - pos - ChunkLength)
    BY DEF NextWindow, PeekLength
<1>5. /\ NextWindow.limit \in Nat /\ NextWindow.end \in Nat
      /\ NextWindow.end = Lesser(NextWindow.limit + Lookahead, Available)
      /\ pos < NextWindow.limit /\ NextWindow.limit <= NextWindow.end
    BY <1>1, <1>3, <1>4 DEF Lesser, Lookahead
<1>6. pos - overlapLen \in Nat
    BY <1>1, <1>2
<1>7. NextWindow \in [offset : Nat, start : Nat, limit : Nat, end : Nat,
                      final : BOOLEAN, eof : BOOLEAN]
    <2>1. pos + ChunkLength \in Nat /\ pos + ChunkLength + PeekLength \in Nat
        BY <1>4, <1>5
    <2> QED BY <1>1, <1>6, <2>1 DEF NextWindow
<1> QED BY <1>3, <1>5, <1>7

LEMMA TypeStep ==
    ASSUME TypeInv, BufferInv, WindowInv, [Next]_vars
    PROVE  TypeInv'
<1> USE DEF TypeInv
<1>1. CASE StartScan
    <2>1. MaxScans \in Nat
        BY StreamAssumption
    <2>2. scans' \in 0 .. MaxScans
        BY <1>1, <2>1 DEF StartScan
    <2>3. input' \in Inputs /\ acc' \subseteq input'.spans
        BY <1>1 DEF StartScan
    <2>4. /\ pc' \in {"read", "done"} /\ window' = NoWindow
          /\ result' \in [status : {"none", "ok", "error"}, rules : SUBSET RuleIds]
        BY <1>1, InitialTypes DEF StartScan
    <2>5. /\ cancelled' \in BOOLEAN /\ pos' \in Nat /\ overlapLen' \in Nat /\ header' \in Nat
          /\ UNCHANGED <<dense, asserts, evalAt>>
        BY <1>1 DEF StartScan
    <2> QED BY <2>2, <2>3, <2>4, <2>5, InitialTypes
<1>2. CASE Cancel
    BY <1>2 DEF Cancel, streamVars
<1>3. CASE Abort
    BY <1>3, InitialTypes DEF Abort, streamVars
<1>4. CASE ReadFails
    BY <1>4, InitialTypes DEF ReadFails, streamVars
<1>5. CASE ReadNothing
    BY <1>5, InitialTypes DEF ReadNothing, StartEvaluation, streamVars
<1>6. CASE ReadChunk
    <2>1. window' \in [offset : Nat, start : Nat, limit : Nat, end : Nat,
                       final : BOOLEAN, eof : BOOLEAN]
        BY <1>6, NextWindowType DEF ReadChunk
    <2>2. header' \in Nat
        BY <1>6, NextWindowType, StreamAssumption DEF ReadChunk, RetainHeader, Lesser
    <2>3. asserts' \in [HeaderEnds -> {"unknown", "true", "undefined"}]
        BY <1>6, InitialTypes DEF ReadChunk, RefreshAsserts
    <2> QED BY <1>6, <2>1, <2>2, <2>3 DEF ReadChunk
<1>7. CASE MatchWindow
    <2>1. PICK view \in LocalViews(window, input) : acc' = acc \cup Kept(window, view, acc)
        BY <1>7 DEF MatchWindow
    <2>2. acc' \subseteq input.spans
        BY <1>7, <2>1, ViewIsOfInput DEF MatchWindow, Kept
    <2> QED BY <1>7, <2>2 DEF MatchWindow
<1>8. CASE EarlyExit
    BY <1>8, InitialTypes DEF EarlyExit, StartEvaluation, streamVars
<1>9. CASE Advance
    <2>1. pos' \in Nat /\ window.limit \in Nat /\ window.start \in Nat
        BY <1>9, WindowFacts DEF Advance
    <2>2. CASE window.eof
        BY <1>9, <2>1, <2>2, InitialTypes DEF Advance, StartEvaluation
    <2>3. CASE ~window.eof
        <3>1. NextOverlap \in Nat
            BY <1>9, <2>1, OverlapType, WindowFacts DEF Advance, NextOverlap, Lesser
        <3>2. dense' \in [RuleIds -> BOOLEAN]
            <4>1. \A failing : SeenResults(failing) \in [RuleIds -> BOOLEAN]
                BY DEF SeenResults
            <4> QED BY <1>9, <2>3, <4>1 DEF Advance
        <3>3. asserts' \in [HeaderEnds -> {"unknown", "true", "undefined"}]
            BY <1>9, <2>3 DEF Advance, AssertResult
        <3> QED BY <1>9, <2>1, <2>3, <3>1, <3>2, <3>3 DEF Advance
    <2> QED BY <2>2, <2>3
<1>10. CASE EvaluateRule
    <2>1. evalAt \in RuleIds /\ evalAt' \in 1 .. (NumRules + 1)
        BY <1>10, RuleSetAssumption DEF EvaluateRule, RuleIds
    <2>2. Holds(evalAt, Facts, dense) \in BOOLEAN
        BY DEF Holds
    <2>3. dense' \in [RuleIds -> BOOLEAN]
        BY <1>10, <2>1, <2>2 DEF EvaluateRule
    <2> QED BY <1>10, <2>1, <2>3 DEF EvaluateRule, streamVars
<1>11. CASE Report
    <2>1. Reported(dense, EarlyTermination) \subseteq RuleIds
        BY DEF Reported, ReportedIf
    <2> QED BY <1>11, <2>1, InitialTypes DEF Report, streamVars
<1>12. CASE UNCHANGED vars
    BY <1>12 DEF vars, streamVars
<1>13. CASE ConditionFails
    BY <1>13, InitialTypes DEF ConditionFails, streamVars
<1> QED BY <1>1, <1>2, <1>3, <1>4, <1>5, <1>6, <1>7, <1>8, <1>9, <1>10, <1>11, <1>12, <1>13
        DEF Next, Round, Evaluation

---------------------------------------------------------------------------
(* The buffer and the window. *)

LEMMA BufferStep ==
    ASSUME TypeInv, TypeInv', BufferInv, WindowInv, [Next]_vars
    PROVE  BufferInv'
<1> SUFFICES ASSUME pc' = "read"
             PROVE  /\ pos' <= Available'
                    /\ overlapLen' = Lesser(EffectiveStreamOverlapSize, pos')
                    /\ Lesser(HeaderSize, pos') <= header'
                    /\ header' <= Lesser(HeaderSize, Lesser(pos' + Lookahead, Available'))
    BY DEF BufferInv
<1> USE OverlapType
<1>1. HeaderSize \in Nat
    BY StreamAssumption
<1>2. CASE StartScan
    <2>1. pos' = 0 /\ overlapLen' = 0 /\ header' = 0 /\ input' \in Inputs
        BY <1>2 DEF StartScan
    <2>2. Available' \in Nat
        BY <2>1, StreamAssumption DEF Available
    <2> QED BY <1>1, <2>1, <2>2 DEF Lesser, Lookahead
<1>3. CASE Advance
    <2>1. pc = "check" /\ pos' = window.limit /\ overlapLen' = NextOverlap
          /\ input' = input /\ header' = header
        BY <1>3 DEF Advance, StartEvaluation
    <2>2. Available' = Available
        BY <2>1 DEF Available
    <2>3. /\ Available \in Nat /\ pos < window.limit /\ window.limit <= window.end
          /\ window.limit \in Nat /\ window.start = pos /\ window.end \in Nat
          /\ window.end = Lesser(window.limit + Lookahead, Available)
          /\ overlapLen = Lesser(EffectiveStreamOverlapSize, pos) /\ pos \in Nat
          /\ window.end <= Available
        BY <2>1, WindowFacts DEF TypeInv
    <2>4. header = Lesser(HeaderSize, window.end)
        BY <2>1 DEF WindowInv
    <2>5. overlapLen' = Lesser(EffectiveStreamOverlapSize, pos')
        BY <2>1, <2>3 DEF NextOverlap, Lesser
    <2>6. Lesser(HeaderSize, pos') <= header
        BY <1>1, <2>1, <2>3, <2>4 DEF Lesser
    <2>7. header' <= Lesser(HeaderSize, Lesser(pos' + Lookahead, Available'))
        BY <1>1, <2>1, <2>2, <2>3, <2>4 DEF Lesser
    <2>8. pos' <= Available'
        BY <2>1, <2>2, <2>3
    <2> QED BY <2>1, <2>5, <2>6, <2>7, <2>8
<1>4. CASE UNCHANGED <<input, pc, pos, overlapLen, header>>
    BY <1>4 DEF BufferInv, Available
<1>5. CASE Cancel
    BY <1>4, <1>5 DEF Cancel, streamVars
<1>6. CASE Abort \/ ReadFails \/ ReadNothing \/ ReadChunk \/ MatchWindow \/ EarlyExit
           \/ ConditionFails \/ Report
    BY <1>6 DEF Abort, ReadFails, ReadNothing, ReadChunk, MatchWindow, EarlyExit,
                ConditionFails, Report, StartEvaluation
<1>7. CASE EvaluateRule
    BY <1>4, <1>7 DEF EvaluateRule, streamVars
<1>8. CASE UNCHANGED vars
    BY <1>4, <1>8 DEF vars, streamVars
<1> QED BY <1>2, <1>3, <1>5, <1>6, <1>7, <1>8 DEF Next, Round, Evaluation

\* The step that reads a chunk establishes WindowInv, the others keep it.
LEMMA WindowStep ==
    ASSUME TypeInv, BufferInv, WindowInv, [Next]_vars
    PROVE  WindowInv'
<1> SUFFICES ASSUME pc' \in {"match", "check"}
             PROVE  WindowInv'
    BY DEF WindowInv
<1>1. CASE ReadChunk
    <2>1. /\ pos <= Available
          /\ overlapLen = Lesser(EffectiveStreamOverlapSize, pos)
          /\ header <= Lesser(HeaderSize, Lesser(pos + Lookahead, Available))
          /\ window' = NextWindow /\ ChunkLength # 0
          /\ ReadError # "other" /\ PeekError \in {"none", "eof"}
          /\ header' = RetainHeader(NextWindow)
          /\ input' = input /\ pos' = pos /\ overlapLen' = overlapLen
        BY <1>1 DEF ReadChunk, BufferInv
    <2>2. header' = Lesser(HeaderSize, NextWindow.end)
        <3>1. /\ NextWindow.end \in Nat /\ NextWindow.limit \in Nat /\ Available \in Nat
              /\ NextWindow.end = Lesser(NextWindow.limit + Lookahead, Available)
              /\ pos < NextWindow.limit
            BY <1>1, NextWindowType
        <3>2. HeaderSize \in Nat /\ header \in Nat /\ pos \in Nat
            BY StreamAssumption DEF TypeInv
        <3>3. CASE header < HeaderSize
            BY <2>1, <3>1, <3>2, <3>3 DEF RetainHeader, Lesser
        <3>4. CASE ~(header < HeaderSize)
            BY <2>1, <3>1, <3>2, <3>4 DEF RetainHeader, Lesser, Lookahead
        <3> QED BY <3>3, <3>4
    <2> QED BY <2>1, <2>2, SameWindow DEF WindowInv
<1>2. CASE UNCHANGED <<input, pos, overlapLen, window, header>> /\ pc \in {"match", "check"}
    BY <1>2, SameWindow DEF WindowInv
<1>3. CASE MatchWindow
    BY <1>2, <1>3 DEF MatchWindow
<1>4. CASE Cancel
    BY <1>2, <1>4 DEF Cancel, streamVars
<1>5. CASE StartScan
    BY <1>5 DEF StartScan
<1>6. CASE Abort \/ ReadFails \/ ReadNothing \/ EarlyExit \/ Evaluation
    BY <1>6 DEF Abort, ReadFails, ReadNothing, EarlyExit, Evaluation, Report, EvaluateRule,
                ConditionFails, StartEvaluation
<1>7. CASE Advance
    BY <1>7 DEF Advance, StartEvaluation
<1>8. CASE UNCHANGED vars
    BY <1>2, <1>8 DEF vars, streamVars
<1> QED BY <1>1, <1>3, <1>4, <1>5, <1>6, <1>7, <1>8 DEF Next, Round, Evaluation

---------------------------------------------------------------------------
(* Ownership. *)

\* The spans of an input lie in it.
LEMMA SpanType ==
    ASSUME NEW i \in Inputs, NEW s \in i.spans
    PROVE  /\ s.pat \in Patterns /\ s.start \in Nat /\ s.len \in Nat
           /\ s.start < i.length /\ s.start + s.len <= i.length
           /\ Horizon(s.pat) \in Nat \cup {-1}
           /\ Pattern[s.pat].boundary \in 0 .. Lookahead
           /\ Pattern[s.pat].kind \in {"text", "regex", "hex"}
           /\ Pattern[s.pat].kind = "hex" => Pattern[s.pat].boundary = 0
           /\ Pattern[s.pat].kind # "regex" => Horizon(s.pat) = -1
<1>1. IsSpan(s, i.length)
    BY StreamAssumption
<1>2. s.pat \in Patterns /\ s.start \in Nat /\ s.len \in Nat
      /\ s.start < i.length /\ s.start + s.len <= i.length
    BY <1>1 DEF IsSpan
<1> QED BY <1>2, HorizonType, StreamAssumption DEF Horizon

\* What a window owns lies behind the windows after it.
LEMMA OwnedIsBehind ==
    ASSUME TypeInv, WindowInv, pc = "match", NEW s \in input.spans, Owns(window, s)
    PROVE  Behind(s, window.limit)
<1>1. /\ window.limit \in Nat /\ window.start \in Nat
      /\ window.final => window.limit = Available
    BY WindowFacts
<1>2. s.start \in Nat /\ s.len \in Nat /\ Horizon(s.pat) \in Nat \cup {-1}
    BY SpanType DEF TypeInv
<1> QED BY <1>1, <1>2 DEF Owns, Behind, Greater

\* What lies behind the start of a window's primary part is not owned by it.
LEMMA BehindIsNotOwned ==
    ASSUME TypeInv, WindowInv, pc = "match", NEW s \in input.spans, Behind(s, pos)
    PROVE  ~Owns(window, s) /\ Behind(s, window.limit)
<1>1. /\ window.limit \in Nat /\ window.start = pos /\ pos \in Nat
      /\ pos < window.limit /\ window.limit <= window.end /\ window.end <= Available
      /\ Available \in Nat /\ window.end \in Nat
    BY WindowFacts DEF TypeInv
<1>2. s.start \in Nat /\ s.len \in Nat /\ Horizon(s.pat) \in Nat \cup {-1}
    BY SpanType DEF TypeInv
<1>3. pos # Available
    BY <1>1
<1> QED BY <1>1, <1>2, <1>3 DEF Owns, Behind, Greater

LEMMA BehindStep ==
    ASSUME TypeInv, TypeInv', WindowInv, BehindInv, [Next]_vars
    PROVE  BehindInv'
<1> SUFFICES ASSUME Scanning', NEW s \in acc'
             PROVE  Behind(s, MatchedTo)'
    BY DEF BehindInv
<1>1. ASSUME input' = input, MatchedTo' = MatchedTo, acc' = acc, Scanning
      PROVE  Behind(s, MatchedTo)'
    <2>1. Behind(s, MatchedTo)
        BY <1>1 DEF BehindInv
    <2>2. Available' = Available
        BY <1>1 DEF Available
    <2> QED BY <1>1, <2>1, <2>2 DEF Behind
<1>2. CASE StartScan
    BY <1>2 DEF StartScan
<1>3. CASE MatchWindow
    <2>1. PICK view \in LocalViews(window, input) : acc' = acc \cup Kept(window, view, acc)
        BY <1>3 DEF MatchWindow
    <2>2. /\ pc = "match" /\ pc' = "check" /\ input' = input /\ window' = window
        BY <1>3 DEF MatchWindow
    <2>3. MatchedTo = pos /\ MatchedTo' = window.limit /\ Available' = Available
        BY <2>2 DEF MatchedTo, Available
    <2>4. input \in Inputs /\ acc \subseteq input.spans
        BY <2>2 DEF TypeInv
    <2>5. Behind(s, window.limit)
        <3>1. CASE s \in acc
            BY <2>2, <2>3, <2>4, <3>1, BehindIsNotOwned DEF BehindInv, Scanning
        <3>2. CASE s \in Kept(window, view, acc)
            <4>1. s \in input.spans /\ Owns(window, s)
                BY <2>4, <3>2, ViewIsOfInput DEF Kept
            <4> QED BY <2>2, <4>1, OwnedIsBehind
        <3> QED BY <2>1, <3>1, <3>2
    <2> QED BY <2>3, <2>5 DEF Behind
<1>4. CASE ReadChunk
    BY <1>1, <1>4 DEF ReadChunk, MatchedTo, Scanning
<1>5. CASE Advance
    BY <1>1, <1>5 DEF Advance, MatchedTo, Scanning
<1>6. CASE Cancel
    BY <1>1, <1>6 DEF Cancel, streamVars, MatchedTo, Scanning
<1>7. CASE Abort \/ ReadFails \/ ReadNothing \/ EarlyExit \/ Evaluation
    BY <1>7 DEF Abort, ReadFails, ReadNothing, EarlyExit, Evaluation, Report, EvaluateRule,
                ConditionFails, StartEvaluation, Scanning
<1>8. CASE UNCHANGED vars
    BY <1>1, <1>8 DEF vars, streamVars, MatchedTo, Scanning
<1> QED BY <1>2, <1>3, <1>4, <1>5, <1>6, <1>7, <1>8 DEF Next, Round, Evaluation

---------------------------------------------------------------------------
(* Between two rounds exactly the settled occurrences have been kept. *)

\* A window owns the spans that settle with it.
LEMMA OwnedIsSettled ==
    ASSUME TypeInv, WindowInv, pc = "match",
           NEW s \in input.spans, WithinReach(s)
    PROVE  Owns(window, s) <=> Settled(s, window.limit) /\ ~Settled(s, pos)
<1>1. /\ window.limit \in Nat /\ window.start = pos /\ pos \in Nat /\ window.end \in Nat
      /\ pos < window.limit /\ window.limit <= window.end /\ window.end <= Available
      /\ Available \in Nat /\ Available <= input.length /\ input.length \in Nat
      /\ window.final => window.limit = input.length
      /\ ~window.final => window.limit < window.end
    BY WindowFacts DEF TypeInv
<1>2. /\ s.start \in Nat /\ s.len \in Nat /\ s.start < input.length
      /\ s.start + s.len <= input.length
      /\ Horizon(s.pat) \in Nat \cup {-1}
      /\ Pattern[s.pat].kind # "regex" => Horizon(s.pat) = -1
    BY SpanType DEF TypeInv
<1>3. pos # input.length
    BY <1>1
<1>4. CASE Pattern[s.pat].kind = "regex"
    <2>1. /\ Horizon(s.pat) >= 0
          /\ Horizon(s.pat) <= EffectiveStreamOverlapSize - Lookahead
        BY <1>4 DEF WithinReach
    <2>2. Settled(s, pos) <=> s.start < pos - Horizon(s.pat)
        BY <1>3, <1>4 DEF Settled
    <2>3. Settled(s, window.limit) <=>
              window.limit = input.length \/ s.start < window.limit - Horizon(s.pat)
        BY <1>4 DEF Settled
    <2>4. CASE window.final
        <3>1. Owns(window, s) <=>
                 /\ Greater(0, pos - Horizon(s.pat)) <= s.start /\ s.start < window.limit
            BY <1>1, <2>1, <2>4 DEF Owns
        <3> QED BY <1>1, <1>2, <2>2, <2>3, <2>4, <3>1 DEF Greater
    <2>5. CASE ~window.final
        <3>1. Owns(window, s) <=>
                 /\ Greater(0, pos - Horizon(s.pat)) <= s.start
                 /\ s.start < Greater(0, window.limit - Horizon(s.pat))
            BY <1>1, <2>1, <2>5 DEF Owns
        <3>2. window.limit # input.length
            BY <1>1, <2>5
        <3> QED BY <1>1, <1>2, <2>2, <2>3, <3>1, <3>2 DEF Greater
    <2> QED BY <2>4, <2>5
<1>5. CASE Pattern[s.pat].kind # "regex"
    <2>1. Horizon(s.pat) = -1 /\ s.len > 0
        BY <1>2, <1>5 DEF WithinReach
    <2>2. Owns(window, s) <=> pos < s.start + s.len /\ s.start + s.len <= window.limit
        BY <1>1, <1>2, <2>1 DEF Owns
    <2>3. Settled(s, pos) <=> s.start + s.len <= pos
        BY <1>3, <1>5 DEF Settled
    <2>4. Settled(s, window.limit) <=>
              window.limit = input.length \/ s.start + s.len <= window.limit
        BY <1>5 DEF Settled
    <2> QED BY <1>1, <1>2, <2>2, <2>3, <2>4
<1> QED BY <1>4, <1>5

\* What a window owns it can decide: the overlap holds its left context, and the
\* horizon held back, or the lookahead, its right context.
LEMMA OwnedIsDecided ==
    ASSUME TypeInv, WindowInv, pc = "match",
           NEW s \in input.spans, WithinReach(s), Owns(window, s)
    PROVE  Visible(window, s) /\ Decided(window, s, input.length)
<1>1. /\ window.limit \in Nat /\ window.start = pos /\ pos \in Nat /\ window.end \in Nat
      /\ pos < window.limit /\ window.limit <= window.end /\ window.end <= Available
      /\ Available \in Nat /\ Available <= input.length /\ input.length \in Nat
      /\ window.offset = pos - overlapLen
      /\ overlapLen = Lesser(EffectiveStreamOverlapSize, pos)
      /\ window.final => window.limit = input.length
      /\ ~window.final => /\ window.limit < window.end
                          /\ \/ window.end = window.limit + Lookahead
                             \/ window.end = input.length
    BY WindowFacts DEF TypeInv
<1>2. /\ s.start \in Nat /\ s.len \in Nat /\ s.start < input.length
      /\ s.start + s.len <= input.length
      /\ Horizon(s.pat) \in Nat \cup {-1}
      /\ Pattern[s.pat].boundary \in 0 .. Lookahead
      /\ Pattern[s.pat].kind # "regex" => Horizon(s.pat) = -1
    BY SpanType DEF TypeInv
<1>3. EffectiveStreamOverlapSize \in Nat
    BY OverlapType
<1>4. \/ window.offset = 0
      \/ window.offset = pos - EffectiveStreamOverlapSize /\ window.offset \in Nat
    BY <1>1, <1>3 DEF Lesser
<1>5. window.final => window.end = input.length
    BY <1>1
<1>6. CASE Pattern[s.pat].kind = "regex"
    <2>1. /\ Horizon(s.pat) \in Nat /\ s.len <= Horizon(s.pat)
          /\ Horizon(s.pat) <= EffectiveStreamOverlapSize - Lookahead
        BY <1>2, <1>6 DEF WithinReach
    <2>2. pos - Horizon(s.pat) <= s.start
        BY <1>1, <1>2, <2>1 DEF Owns, Greater
    <2>3. \/ window.offset = 0
          \/ window.offset <= s.start - Pattern[s.pat].boundary
        BY <1>1, <1>2, <1>3, <1>4, <2>1, <2>2 DEF Lookahead
    <2>4. window.offset <= s.start
        BY <1>2, <1>4, <2>3 DEF Lookahead
    <2>5. ~window.final => s.start + Horizon(s.pat) < window.limit
        <3> SUFFICES ASSUME ~window.final PROVE s.start + Horizon(s.pat) < window.limit
            OBVIOUS
        <3>1. s.start < Greater(0, window.limit - Horizon(s.pat))
            BY <2>1 DEF Owns
        <3> QED BY <1>1, <1>2, <2>1, <3>1 DEF Greater
    <2>6. s.start + s.len <= window.end
        BY <1>1, <1>2, <1>5, <2>1, <2>5
    <2>7. Reach(s) = s.start + Horizon(s.pat)
        BY <2>1 DEF Reach
    <2>8. window.end = input.length \/ Reach(s) + Pattern[s.pat].boundary <= window.end
        BY <1>1, <1>2, <1>5, <2>1, <2>5, <2>7 DEF Lookahead
    <2> QED BY <2>3, <2>4, <2>6, <2>8 DEF Visible, Decided
<1>7. CASE Pattern[s.pat].kind # "regex"
    <2>1. /\ Horizon(s.pat) = -1 /\ s.len > 0
          /\ s.len + Pattern[s.pat].boundary <= EffectiveStreamOverlapSize + 1
        BY <1>2, <1>7 DEF WithinReach
    <2>2. pos < s.start + s.len /\ s.start + s.len <= window.limit
        BY <1>1, <1>2, <2>1 DEF Owns
    <2>3. \/ window.offset = 0
          \/ window.offset <= s.start - Pattern[s.pat].boundary
        BY <1>1, <1>2, <1>3, <1>4, <2>1, <2>2 DEF Lookahead
    <2>4. window.offset <= s.start
        BY <1>2, <1>4, <2>3 DEF Lookahead
    <2>5. s.start + s.len <= window.end
        BY <1>1, <1>2, <2>2
    <2>6. Reach(s) = s.start + s.len
        BY <2>1 DEF Reach
    <2>7. window.end = input.length \/ Reach(s) + Pattern[s.pat].boundary <= window.end
        BY <1>1, <1>2, <1>5, <2>2, <2>6 DEF Lookahead
    <2> QED BY <2>3, <2>4, <2>5, <2>7 DEF Visible, Decided
<1> QED BY <1>6, <1>7

\* What is settled stays settled.
LEMMA SettledGrows ==
    ASSUME TypeInv, WindowInv, pc = "match", NEW s \in input.spans, Settled(s, pos)
    PROVE  Settled(s, window.limit)
<1>1. /\ window.limit \in Nat /\ pos \in Nat /\ pos < window.limit
      /\ window.limit <= window.end /\ window.end <= Available
      /\ Available \in Nat /\ Available <= input.length /\ input.length \in Nat
      /\ window.end \in Nat
    BY WindowFacts DEF TypeInv
<1>2. /\ s.start \in Nat /\ s.len \in Nat /\ Horizon(s.pat) \in Nat \cup {-1}
    BY SpanType DEF TypeInv
<1>3. pos # input.length
    BY <1>1
<1> QED BY <1>1, <1>2, <1>3 DEF Settled

\* A round keeps the occurrences that settle with its window.
LEMMA MatchKeepsSettled ==
    ASSUME TypeInv, WindowInv, KeepsExactlySettled, MatchWindow,
           NEW s \in input.spans, WithinReach(s), ~ClippedPattern(s.pat)
    PROVE  s \in acc' <=> /\ s \in input.occ
                          /\ ShouldEvaluateRule(Pattern[s.pat].rule)
                          /\ Settled(s, window.limit)
<1>1. PICK view \in LocalViews(window, input) : acc' = acc \cup Kept(window, view, acc)
    BY DEF MatchWindow
<1>2. PICK u \in SUBSET Provisional(window, input) : view = Certain(window, input) \cup u
    BY <1>1 DEF LocalViews
<1>3. pc = "match" /\ MatchedTo = pos
    BY DEF MatchWindow, MatchedTo
<1>4. s \in acc <=> /\ s \in input.occ
                    /\ ShouldEvaluateRule(Pattern[s.pat].rule)
                    /\ Settled(s, pos)
    BY <1>3 DEF KeepsExactlySettled
<1>5. Owns(window, s) <=> Settled(s, window.limit) /\ ~Settled(s, pos)
    BY <1>3, OwnedIsSettled
<1>6. Settled(s, pos) => Settled(s, window.limit)
    BY <1>3, SettledGrows
<1>7. Owns(window, s) => (s \in view <=> s \in input.occ)
    <2> SUFFICES ASSUME Owns(window, s) PROVE s \in view <=> s \in input.occ
        OBVIOUS
    <2>1. Visible(window, s) /\ Decided(window, s, input.length)
        BY <1>3, OwnedIsDecided
    <2>2. s \in Certain(window, input) <=> s \in input.occ
        BY <2>1 DEF Certain
    <2>3. s \notin u
        BY <1>2, <2>1 DEF Provisional
    <2> QED BY <1>2, <2>2, <2>3
<1>8. s \in Kept(window, view, acc) <=>
          s \in view /\ ShouldEvaluateRule(Pattern[s.pat].rule) /\ Owns(window, s)
    BY DEF Kept
<1> QED BY <1>1, <1>4, <1>5, <1>6, <1>7, <1>8

\* Nothing is settled before anything was read.
LEMMA NothingSettledAtZero ==
    ASSUME NEW i \in Inputs, NEW s \in i.spans, WithinReach(s)
    PROVE  /\ 0 # i.length
           /\ ~(IF Pattern[s.pat].kind = "regex" THEN s.start < 0 - Horizon(s.pat)
                                                 ELSE s.start + s.len <= 0)
<1>1. /\ s.start \in Nat /\ s.len \in Nat /\ s.start < i.length
      /\ i.length \in Nat /\ Horizon(s.pat) \in Nat \cup {-1}
    BY SpanType, StreamAssumption
<1> QED BY <1>1 DEF WithinReach

LEMMA SettledStep ==
    ASSUME TypeInv, TypeInv', WindowInv, KeepsExactlySettled, [Next]_vars
    PROVE  KeepsExactlySettled'
<1> SUFFICES ASSUME Scanning',
                    NEW s \in input'.spans, WithinReach(s), ~ClippedPattern(s.pat)
             PROVE  s \in acc' <=> /\ s \in input'.occ
                                   /\ ShouldEvaluateRule(Pattern[s.pat].rule)
                                   /\ Settled(s, MatchedTo)'
    BY DEF KeepsExactlySettled, Scanning
<1>1. ASSUME input' = input, MatchedTo' = MatchedTo, acc' = acc, Scanning
      PROVE  s \in acc' <=> /\ s \in input'.occ
                            /\ ShouldEvaluateRule(Pattern[s.pat].rule)
                            /\ Settled(s, MatchedTo)'
    <2>1. Settled(s, MatchedTo)' <=> Settled(s, MatchedTo)
        BY <1>1 DEF Settled
    <2> QED BY <1>1, <2>1 DEF KeepsExactlySettled, Scanning
<1>2. CASE StartScan
    <2>1. pc' = "read" /\ input' \in Inputs /\ pos' = 0 /\ acc' = {}
        BY <1>2 DEF StartScan, Scanning
    <2>2. MatchedTo' = 0
        BY <2>1 DEF MatchedTo
    <2>3. ~Settled(s, MatchedTo)'
        BY <2>1, <2>2, NothingSettledAtZero DEF Settled
    <2> QED BY <2>1, <2>3
<1>3. CASE MatchWindow
    <2>1. input' = input /\ MatchedTo' = window.limit
        BY <1>3 DEF MatchWindow, MatchedTo
    <2>2. Settled(s, MatchedTo)' <=> Settled(s, window.limit)
        BY <2>1 DEF Settled
    <2> QED BY <1>3, <2>1, <2>2, MatchKeepsSettled
<1>4. CASE ReadChunk
    BY <1>1, <1>4 DEF ReadChunk, MatchedTo, Scanning
<1>5. CASE Advance
    BY <1>1, <1>5 DEF Advance, MatchedTo, Scanning
<1>6. CASE Cancel
    BY <1>1, <1>6 DEF Cancel, streamVars, MatchedTo, Scanning
<1>7. CASE Abort \/ ReadFails \/ ReadNothing \/ EarlyExit \/ Evaluation
    BY <1>7 DEF Abort, ReadFails, ReadNothing, EarlyExit, Evaluation, Report, EvaluateRule,
                ConditionFails, StartEvaluation, Scanning
<1>8. CASE UNCHANGED vars
    BY <1>1, <1>8 DEF vars, streamVars, MatchedTo, Scanning
<1> QED BY <1>2, <1>3, <1>4, <1>5, <1>6, <1>7, <1>8 DEF Next, Round, Evaluation

---------------------------------------------------------------------------
(* The theorems. *)

LEMMA InitialInvariant == Init => IInv
<1> SUFFICES ASSUME Init PROVE IInv
    OBVIOUS
<1>1. 0 \in 0 .. MaxScans
    BY StreamAssumption
<1>2. TypeInv
    BY <1>1, InitialTypes DEF Init, TypeInv
<1>3. BufferInv /\ WindowInv /\ BehindInv /\ KeepsExactlySettled
    BY DEF Init, BufferInv, WindowInv, BehindInv, Scanning, KeepsExactlySettled
<1> QED BY <1>2, <1>3 DEF IInv

\* IInv is an inductive invariant of every scanner, reader and sequence of scans.
THEOREM InductiveInvariant == Spec => []IInv
<1>1. Init => IInv
    BY InitialInvariant
<1>2. IInv /\ [Next]_vars => IInv'
    <2> SUFFICES ASSUME IInv, [Next]_vars PROVE IInv'
        OBVIOUS
    <2> USE DEF IInv
    <2>1. TypeInv'
        BY TypeStep
    <2>2. BufferInv'
        BY <2>1, BufferStep
    <2>3. WindowInv'
        BY WindowStep
    <2>4. BehindInv'
        BY <2>1, BehindStep
    <2>5. KeepsExactlySettled'
        BY <2>1, SettledStep
    <2> QED BY <2>1, <2>2, <2>3, <2>4, <2>5
<1> QED BY <1>1, <1>2, PTL DEF Spec

\* The variables of scanReaderStream and of the scanner it leaves behind have their
\* types, in every scan.
THEOREM TypesHold == Spec => []TypeOK
<1>1. IInv => TypeOK
    <2> SUFFICES ASSUME TypeInv PROVE TypeOK
        BY DEF IInv
    <2>1. input = NoInput \/ input.occ \subseteq input.spans
        BY StreamAssumption DEF TypeInv
    <2> QED BY <2>1 DEF TypeInv, TypeOK
<1> QED BY <1>1, InductiveInvariant, PTL

\* The header that integer reads use is the longest prefix that can be retained, and
\* retainHeader always finds its next byte in the window.
THEOREM HeaderIsPrefix == Spec => []HeaderHoldsPrefix
<1>1. IInv => HeaderHoldsPrefix
    <2> SUFFICES ASSUME IInv PROVE HeaderHoldsPrefix
        OBVIOUS
    <2>1. CASE pc = "read"
        <3>1. /\ pos \in Nat /\ overlapLen \in Nat /\ header \in Nat /\ HeaderSize \in Nat
              /\ overlapLen = Lesser(EffectiveStreamOverlapSize, pos)
              /\ Lesser(HeaderSize, pos) <= header
            BY <2>1, StreamAssumption DEF IInv, TypeInv, BufferInv
        <3> QED BY <2>1, <3>1, OverlapType DEF HeaderHoldsPrefix, Lesser
    <2>2. CASE pc # "read"
        BY <2>2 DEF IInv, WindowInv, HeaderHoldsPrefix
    <2> QED BY <2>1, <2>2
<1> QED BY <1>1, InductiveInvariant, PTL

\* Ownership is exclusive: no window owns a span that an earlier one kept
\* (streamMatchWindow.owns), whatever the sizes are.
THEOREM OwnershipIsExclusive == Spec => []NeverOwnedTwice
<1>1. IInv => NeverOwnedTwice
    <2> SUFFICES ASSUME IInv, pc = "match", NEW s \in acc PROVE ~Owns(window, s)
        BY DEF NeverOwnedTwice
    <2>1. s \in input.spans /\ MatchedTo = pos
        BY DEF IInv, TypeInv, MatchedTo
    <2>2. Behind(s, pos)
        BY <2>1 DEF IInv, BehindInv, Scanning
    <2> QED BY <2>1, <2>2, BehindIsNotOwned DEF IInv
<1> QED BY <1>1, InductiveInvariant, PTL

\* The windows of scanReaderStream keep every occurrence that is settled and no span
\* that is not, for every chunk size, overlap, pattern and input.
THEOREM WindowsKeepExactlySettled == Spec => []KeepsExactlySettled
<1>1. IInv => KeepsExactlySettled
    BY DEF IInv
<1> QED BY <1>1, InductiveInvariant, PTL

---------------------------------------------------------------------------
(* The end of a scan *)

\* What the window arithmetic asks of a rule set and of its readers.  The first is what
\* effectiveStreamOverlapSize is for; without the others an answer may be wrong: a reader
\* whose first error is io.ErrUnexpectedEOF seems empty, a text string with a fullword test
\* may lose its slot to a candidate of an earlier window, and a read behind the header is
\* undefined.
Streamable ==
    /\ \A i \in Inputs :
          /\ \A s \in i.spans : ShouldEvaluateRule(Pattern[s.pat].rule) => WithinReach(s)
          /\ i.fault = "unexpectedEOF" => i.faultAt # 0
    /\ \A p \in Patterns :
          ClippedPattern(p) /\ ShouldEvaluateRule(Pattern[p].rule) /\ Pattern[p].kind = "text"
              => Pattern[p].boundary = 0
    /\ \A r \in RuleIds : ShouldEvaluateRule(r) => \A n \in ReadsOf(r) : n <= HeaderSize

FreshScanner == MaxScans <= 1

\* Nothing but occurrences of evaluated strings is kept.
RealInv == \A s \in acc : s \in input.occ /\ ShouldEvaluateRule(Pattern[s.pat].rule)

\* A string with one slot has an occurrence in it once one of them is settled.
SlotInv ==
    Scanning =>
        \A p \in Patterns : ClippedPattern(p) /\ ShouldEvaluateRule(Pattern[p].rule) =>
            \A s \in input.occ : s.pat = p /\ Settled(s, MatchedTo) => \E t \in acc : t.pat = p

\* A reader that fails at the end of what it delivers is noticed two bytes before.
FaultInv ==
    pc = "read" => pos = 0 \/ input.fault = "none" \/ pos + Lookahead <= Available

\* A fresh scanner has no results before the last loop.
FreshInv ==
    FreshScanner => /\ scans = 0 => pc = "idle"
                    /\ pc = "idle" \/ Scanning => dense = NoResults

\* The whole input was read, and what it holds was kept.
AllRead ==
    /\ input.fault = "none" /\ pos = input.length /\ header = Lesser(HeaderSize, input.length)
    /\ \A p \in Patterns : ShouldEvaluateRule(Pattern[p].rule) =>
          IF ClippedPattern(p)
          THEN (\E s \in input.occ : s.pat = p) => \E t \in acc : t.pat = p
          ELSE \A s \in input.occ : s.pat = p => s \in acc

\* Or a rule that may end the scan matched a part of it.
ExitTaken ==
    /\ ChecksEarly /\ pos <= input.length /\ header <= input.length
    /\ FreshScanner =>
          \E r \in RuleIds : /\ CanRuleEarlyTerminate(r) /\ HasMatchingTag(r)
                             /\ ShouldEvaluateRule(r) /\ Holds(r, Facts, NoResults)

EndInv == pc = "evaluate" \/ result.status = "ok" => AllRead \/ ExitTaken

\* The last loop follows the meaning of the rules, and the answer is that.
VerdictInv ==
    pc = "evaluate" => /\ \A q \in 1 .. (evalAt - 1) : dense[q] = RuleResults(Facts)[q]
                       /\ \A q \in evalAt .. NumRules : ~dense[q]

AnswerInv ==
    /\ pc \notin {"idle", "done"} => result = NoResult
    /\ result.status = "ok" =>
          /\ pc = "done"
          /\ result.rules = Reported(RuleResults(Facts), EarlyTermination)

\* An assertion is cached as undefined only while the header does not reach it.
AssertInv ==
    EarlyTermination /\ (pc \in {"match", "check"} \/ (pc = "read" /\ header >= HeaderSize)) =>
        \A k \in HeaderEnds : asserts[k] = "undefined" => header < k

\* What is kept is real.
LEMMA KeptIsReal ==
    ASSUME Streamable, TypeInv, WindowInv, pc = "match",
           NEW view \in LocalViews(window, input), NEW s \in Kept(window, view, acc)
    PROVE  s \in input.occ /\ ShouldEvaluateRule(Pattern[s.pat].rule)
<1>1. input \in Inputs
    BY DEF TypeInv
<1>2. PICK u \in SUBSET Provisional(window, input) : view = Certain(window, input) \cup u
    BY DEF LocalViews
<1>3. s \in view /\ s \in input.spans /\ ShouldEvaluateRule(Pattern[s.pat].rule)
      /\ Owns(window, s)
    BY <1>1, ViewIsOfInput DEF Kept
<1>4. Decided(window, s, input.length)
    BY <1>1, <1>3, OwnedIsDecided DEF Streamable
<1>5. s \notin u
    BY <1>2, <1>4 DEF Provisional
<1> QED BY <1>2, <1>3, <1>5 DEF Certain

LEMMA RealStep ==
    ASSUME Streamable, TypeInv, WindowInv, RealInv, [Next]_vars
    PROVE  RealInv'
<1>1. CASE MatchWindow
    <2>1. PICK view \in LocalViews(window, input) : acc' = acc \cup Kept(window, view, acc)
        BY <1>1 DEF MatchWindow
    <2>2. pc = "match" /\ input' = input
        BY <1>1 DEF MatchWindow
    <2> QED BY <2>1, <2>2, KeptIsReal DEF RealInv
<1>2. CASE StartScan
    BY <1>2 DEF StartScan, RealInv
<1>3. CASE UNCHANGED <<input, acc>>
    BY <1>3 DEF RealInv
<1> QED BY <1>1, <1>2, <1>3
        DEF Next, Round, Evaluation, Cancel, Abort, ReadFails, ReadNothing, ReadChunk,
            EarlyExit, Advance, EvaluateRule, ConditionFails, Report, vars, streamVars

\* A window that sees an occurrence settle gives the slot of its string to one.
LEMMA SlotIsTaken ==
    ASSUME Streamable, TypeInv, WindowInv, SlotInv, pc = "match",
           NEW view \in LocalViews(window, input),
           NEW s \in input.occ, ClippedPattern(s.pat), ShouldEvaluateRule(Pattern[s.pat].rule),
           Settled(s, window.limit), \A t \in acc : t.pat # s.pat
    PROVE  \E t \in Kept(window, view, acc) : t.pat = s.pat
<1>1. input \in Inputs /\ input.occ \subseteq input.spans /\ MatchedTo = pos
    BY StreamAssumption DEF TypeInv, MatchedTo
<1>2. PICK u \in SUBSET Provisional(window, input) : view = Certain(window, input) \cup u
    BY DEF LocalViews
<1>3. view \subseteq input.spans
    BY <1>1, ViewIsOfInput
<1>4. s \in input.spans /\ s.pat \in Patterns
    BY <1>1, SpanType
<1>5. ASSUME NEW t \in input.occ, t.pat = s.pat PROVE ~Settled(t, pos)
    BY <1>1, <1>4, <1>5 DEF SlotInv, Scanning
<1>6. ASSUME NEW t \in input.occ, t.pat = s.pat, Settled(t, window.limit)
      PROVE  Owns(window, t) /\ t \in view
    <2>1. t \in input.spans /\ WithinReach(t)
        BY <1>1, <1>6 DEF Streamable
    <2>2. Owns(window, t)
        BY <1>5, <1>6, <2>1, OwnedIsSettled
    <2>3. t \in Certain(window, input)
        BY <1>6, <2>1, <2>2, OwnedIsDecided DEF Certain
    <2> QED BY <1>2, <2>2, <2>3
<1>7. Owns(window, s) /\ s \in view
    BY <1>6
<1>8. CASE Pattern[s.pat].kind = "text"
    <2> DEFINE mine == {t \in view : t.pat = s.pat}
               ends == {t.start + t.len : t \in mine}
    <2>1. /\ ends \subseteq Nat /\ ends # {}
          /\ \A t \in mine : t.start \in Nat /\ t.len \in Nat
        BY <1>1, <1>3, <1>7, SpanType
    <2>2. PICK e \in ends : \A f \in ends : e <= f
        <3> HIDE DEF ends
        <3> QED BY <2>1, LeastNumber
    <2>3. PICK t \in mine : e = t.start + t.len
        OBVIOUS
    <2>4. \A v \in mine : t.start + t.len <= v.start + v.len
        BY <2>2, <2>3
    <2>5. t \in input.occ
        <3>1. Visible(window, t)
            BY <1>2 DEF Certain, Provisional
        <3>2. Pattern[t.pat].boundary = 0 /\ Horizon(t.pat) = -1
            BY <1>4, <1>8 DEF Streamable, Horizon
        <3>3. window.offset \in Nat /\ window.end \in Nat /\ t.start \in Nat /\ t.len \in Nat
            BY <2>1, WindowFacts
        <3>4. Decided(window, t, input.length)
            BY <3>1, <3>2, <3>3 DEF Visible, Decided, Reach
        <3>5. t \notin u
            BY <1>2, <3>4 DEF Provisional
        <3> QED BY <1>2, <3>5 DEF Certain
    <2>6. Settled(t, window.limit)
        <3>1. s \in mine /\ t.start + t.len <= s.start + s.len
            BY <1>7, <2>4
        <3>2. /\ s.start \in Nat /\ s.len \in Nat /\ t.start \in Nat /\ t.len \in Nat
              /\ window.limit \in Nat
            BY <2>1, <3>1, WindowFacts
        <3> QED BY <1>8, <3>1, <3>2 DEF Settled
    <2>7. Owns(window, t)
        BY <1>6, <2>5, <2>6
    <2>8. t \in Clipped(window, view, s.pat)
        BY <1>8, <2>4, <2>7 DEF Clipped
    <2> QED BY <2>7, <2>8 DEF Kept
<1>9. CASE Pattern[s.pat].kind # "text"
    <2> DEFINE owned == {t \in view : t.pat = s.pat /\ Owns(window, t)}
               starts == {t.start : t \in owned}
    <2>1. starts \subseteq Nat /\ starts # {} /\ \A t \in owned : t.start \in Nat
        BY <1>1, <1>3, <1>7, SpanType
    <2>2. PICK n \in starts : \A m \in starts : n <= m
        <3> HIDE DEF starts
        <3> QED BY <2>1, LeastNumber
    <2>3. PICK t \in owned : n = t.start
        OBVIOUS
    <2>4. \A v \in owned : t.start <= v.start
        BY <2>2, <2>3
    <2>5. t \in Clipped(window, view, s.pat)
        BY <1>9, <2>4 DEF Clipped
    <2> QED BY <2>5 DEF Kept
<1> QED BY <1>8, <1>9

LEMMA SlotStep ==
    ASSUME Streamable, TypeInv, TypeInv', WindowInv, SlotInv, [Next]_vars
    PROVE  SlotInv'
<1> SUFFICES ASSUME Scanning', NEW s \in input'.occ, ClippedPattern(s.pat),
                    ShouldEvaluateRule(Pattern[s.pat].rule), Settled(s, MatchedTo)'
             PROVE  \E t \in acc' : t.pat = s.pat
    BY DEF SlotInv
<1>0. ASSUME NEW i \in Inputs PROVE i.occ \subseteq i.spans /\ \A t \in i.occ : t.pat \in Patterns
    BY <1>0, SpanType, StreamAssumption
<1>1. ASSUME input' = input, MatchedTo' = MatchedTo, acc' = acc, Scanning
      PROVE  \E t \in acc' : t.pat = s.pat
    <2>1. Settled(s, MatchedTo)' <=> Settled(s, MatchedTo)
        BY <1>1 DEF Settled
    <2>2. s.pat \in Patterns
        BY <1>0, <1>1 DEF TypeInv, Scanning
    <2> QED BY <1>1, <2>1, <2>2 DEF SlotInv
<1>2. CASE StartScan
    <2>1. input' \in Inputs /\ pos' = 0 /\ pc' = "read"
        BY <1>2 DEF StartScan, Scanning
    <2>2. MatchedTo' = 0
        BY <2>1 DEF MatchedTo
    <2>3. s \in input'.spans /\ WithinReach(s)
        BY <1>0, <2>1 DEF Streamable
    <2> QED BY <2>1, <2>2, <2>3, NothingSettledAtZero DEF Settled
<1>3. CASE MatchWindow
    <2>1. PICK view \in LocalViews(window, input) : acc' = acc \cup Kept(window, view, acc)
        BY <1>3 DEF MatchWindow
    <2>2. pc = "match" /\ input' = input /\ MatchedTo' = window.limit
        BY <1>3 DEF MatchWindow, MatchedTo
    <2>3. Settled(s, window.limit)
        BY <2>2 DEF Settled
    <2> QED BY <2>1, <2>2, <2>3, SlotIsTaken
<1>4. CASE ReadChunk
    BY <1>1, <1>4 DEF ReadChunk, MatchedTo, Scanning
<1>5. CASE Advance
    BY <1>1, <1>5 DEF Advance, MatchedTo, Scanning
<1>6. CASE Cancel
    BY <1>1, <1>6 DEF Cancel, streamVars, MatchedTo, Scanning
<1>7. CASE Abort \/ ReadFails \/ ReadNothing \/ EarlyExit \/ Evaluation
    BY <1>7 DEF Abort, ReadFails, ReadNothing, EarlyExit, Evaluation, Report, EvaluateRule,
                ConditionFails, StartEvaluation, Scanning
<1>8. CASE UNCHANGED vars
    BY <1>1, <1>8 DEF vars, streamVars, MatchedTo, Scanning
<1> QED BY <1>2, <1>3, <1>4, <1>5, <1>6, <1>7, <1>8 DEF Next, Round, Evaluation

\* A window short of two bytes of lookahead sees the end of the input, not a failure.
LEMMA FaultStep ==
    ASSUME TypeInv, WindowInv, FaultInv, [Next]_vars
    PROVE  FaultInv'
<1>1. CASE StartScan
    BY <1>1 DEF StartScan, FaultInv
<1>2. CASE Advance
    <2>1. pc = "check" /\ pos' = window.limit /\ input' = input
        BY <1>2 DEF Advance
    <2>2. input.fault = "none" \/ window.limit + Lookahead <= Available
        BY <2>1, WindowFacts
    <2> QED BY <2>1, <2>2 DEF FaultInv, Available
<1>3. CASE UNCHANGED <<input, pc, pos>>
    BY <1>3 DEF FaultInv, Available
<1>4. CASE pc' # "read"
    BY <1>4 DEF FaultInv
<1> QED BY <1>1, <1>2, <1>3, <1>4
        DEF Next, Round, Evaluation, Cancel, Abort, ReadFails, ReadNothing, ReadChunk, MatchWindow,
            EarlyExit, StartEvaluation, EvaluateRule, ConditionFails, Report, vars, streamVars

\* Only the last loop sets results.
LEMMA FreshStep ==
    ASSUME TypeInv, FreshInv, [Next]_vars
    PROVE  FreshInv'
<1> SUFFICES ASSUME FreshScanner
             PROVE  /\ scans' = 0 => pc' = "idle"
                    /\ pc' = "idle" \/ Scanning' => dense' = NoResults
    BY DEF FreshInv
<1>0. MaxScans \in Nat /\ MaxScans <= 1 /\ scans \in 0 .. MaxScans
    BY StreamAssumption DEF FreshScanner, TypeInv
<1>1. CASE StartScan
    <2>1. scans < MaxScans /\ scans' = scans + 1 /\ dense' = dense
        BY <1>1 DEF StartScan
    <2>2. scans = 0 /\ scans' = 1
        BY <1>0, <2>1
    <2> QED BY <2>1, <2>2 DEF FreshInv
<1>2. CASE Advance
    <2>1. dense = NoResults /\ scans # 0 /\ scans' = scans
        BY <1>2 DEF Advance, FreshInv, Scanning
    <2>2. \A failing : SeenResults(failing) = NoResults
        BY <2>1 DEF SeenResults, NoResults
    <2> QED BY <1>2, <2>1, <2>2 DEF Advance, StartEvaluation
<1>3. CASE UNCHANGED <<pc, dense, scans>>
    BY <1>3 DEF FreshInv, Scanning
<1>4. CASE ReadChunk \/ MatchWindow
    BY <1>4 DEF ReadChunk, MatchWindow, FreshInv, Scanning
<1>5. CASE Abort \/ ReadFails \/ ReadNothing \/ EarlyExit \/ Evaluation
    BY <1>5 DEF Abort, ReadFails, ReadNothing, EarlyExit, StartEvaluation, Evaluation,
                EvaluateRule, ConditionFails, Report, FreshInv, Scanning
<1> QED BY <1>1, <1>2, <1>3, <1>4, <1>5 DEF Next, Round, Evaluation, Cancel, vars, streamVars

\* An assertion that was undefined is asked again when the header grows.
LEMMA AssertStep ==
    ASSUME TypeInv, WindowInv, AssertInv, [Next]_vars
    PROVE  AssertInv'
<1> SUFFICES ASSUME EarlyTermination,
                    pc' \in {"match", "check"} \/ (pc' = "read" /\ header' >= HeaderSize),
                    NEW k \in HeaderEnds, asserts'[k] = "undefined"
             PROVE  header' < k
    BY DEF AssertInv
<1>0. HeaderSize \in Nat /\ header \in Nat /\ k \in Nat /\ k # 0
    BY StreamAssumption, RuleSetAssumption DEF TypeInv, HeaderEnds
<1>1. CASE StartScan
    BY <1>0, <1>1 DEF StartScan
<1>2. CASE ReadChunk
    <2>1. asserts' = RefreshAsserts /\ header' = RetainHeader(NextWindow) /\ pc = "read"
        BY <1>2 DEF ReadChunk
    <2>2. ~(header < HeaderSize)
        BY <2>1 DEF RefreshAsserts, NoAsserts
    <2>3. header' = header /\ asserts' = asserts
        BY <2>1, <2>2 DEF RetainHeader, RefreshAsserts
    <2> QED BY <1>0, <2>1, <2>2, <2>3 DEF AssertInv
<1>3. CASE Advance
    <2>1. pc = "check" /\ header' = header /\ pc' = "read"
        BY <1>3 DEF Advance, StartEvaluation
    <2>2. asserts'[k] \in {AssertResult(k), asserts[k]}
        BY <1>3, <2>1 DEF Advance, StartEvaluation
    <2>3. asserts[k] = "undefined" \/ ~(header >= k)
        BY <2>2 DEF AssertResult
    <2> QED BY <1>0, <2>1, <2>3 DEF AssertInv
<1>4. CASE UNCHANGED <<pc, header, asserts>>
    BY <1>4 DEF AssertInv
<1>5. CASE MatchWindow
    BY <1>5 DEF MatchWindow, AssertInv
<1>6. CASE Abort \/ ReadFails \/ ReadNothing \/ EarlyExit \/ Evaluation
    BY <1>6 DEF Abort, ReadFails, ReadNothing, EarlyExit, StartEvaluation, Evaluation,
                EvaluateRule, ConditionFails, Report
<1> QED BY <1>1, <1>2, <1>3, <1>4, <1>5, <1>6
        DEF Next, Round, Evaluation, Cancel, vars, streamVars

\* The last loop gives each rule its meaning on what was kept.
LEMMA AnswerStep ==
    ASSUME TypeInv, TypeInv', VerdictInv, AnswerInv, [Next]_vars
    PROVE  VerdictInv' /\ AnswerInv'
<1>0. NumRules \in Nat
    BY RuleSetAssumption
<1>1. ASSUME UNCHANGED <<acc, header, pos>> PROVE Facts' = Facts
    BY <1>1 DEF Facts
<1>2. CASE EvaluateRule
    <2>1. /\ evalAt \in RuleIds /\ evalAt \in Nat /\ evalAt' = evalAt + 1 /\ pc = "evaluate"
          /\ UNCHANGED <<acc, header, pos, pc, result>>
        BY <1>0, <1>2 DEF EvaluateRule, TypeInv, streamVars, RuleIds
    <2>2. dense' = IF ShouldEvaluateRule(evalAt)
                   THEN [dense EXCEPT ![evalAt] = Holds(evalAt, Facts, dense)] ELSE dense
        BY <1>2 DEF EvaluateRule
    <2>3. RuleResults(Facts)[evalAt] = (ShouldEvaluateRule(evalAt) /\ Holds(evalAt, Facts, dense))
        BY <2>1, LoopFollowsResults DEF VerdictInv
    <2>4. \A q \in RuleIds \ {evalAt} : dense'[q] = dense[q]
        BY <2>2 DEF TypeInv
    <2>5. dense'[evalAt] = RuleResults(Facts)[evalAt]
        <3>1. CASE ShouldEvaluateRule(evalAt)
            <4>1. dense'[evalAt] = Holds(evalAt, Facts, dense)
                BY <2>1, <2>2, <3>1 DEF TypeInv
            <4>2. Holds(evalAt, Facts, dense) \in BOOLEAN
                BY DEF Holds
            <4>3. RuleResults(Facts)[evalAt] = Holds(evalAt, Facts, dense)
                BY <2>3, <3>1, <4>2
            <4> QED BY <4>1, <4>3
        <3>2. CASE ~ShouldEvaluateRule(evalAt)
            <4>1. ~dense[evalAt] /\ dense[evalAt] \in BOOLEAN
                BY <1>0, <2>1 DEF VerdictInv, TypeInv, RuleIds
            <4>2. RuleResults(Facts)[evalAt] = FALSE
                BY <2>3, <3>2
            <4> QED BY <2>2, <3>2, <4>1, <4>2
        <3> QED BY <3>1, <3>2
    <2>6. VerdictInv'
        <3>1. \A q \in 1 .. evalAt : dense'[q] = RuleResults(Facts)[q]
            BY <1>0, <2>1, <2>4, <2>5 DEF VerdictInv, RuleIds
        <3>2. \A q \in (evalAt + 1) .. NumRules : ~dense'[q]
            BY <1>0, <2>1, <2>4 DEF VerdictInv, RuleIds
        <3>3. Facts' = Facts /\ (evalAt + 1) - 1 = evalAt
            BY <1>1, <2>1
        <3> HIDE DEF Facts
        <3> QED BY <2>1, <3>1, <3>2, <3>3 DEF VerdictInv
    <2> HIDE DEF Facts
    <2> QED BY <1>1, <2>1, <2>6 DEF AnswerInv, NoResult
<1>3. CASE Report
    <2>1. /\ pc = "evaluate" /\ pc' = "done" /\ evalAt > NumRules /\ evalAt \in 1 .. (NumRules + 1)
          /\ result' = [status |-> "ok", rules |-> Reported(dense, EarlyTermination)]
          /\ UNCHANGED <<acc, header, pos>>
        BY <1>3 DEF Report, TypeInv, streamVars
    <2>2. dense = RuleResults(Facts)
        <3>1. \A q \in RuleIds : dense[q] = RuleResults(Facts)[q]
            BY <1>0, <2>1 DEF VerdictInv, RuleIds
        <3>2. RuleResults(Facts) \in [RuleIds -> BOOLEAN]
            BY ResultsUnfold
        <3> QED BY <3>1, <3>2 DEF TypeInv
    <2> HIDE DEF Facts
    <2> QED BY <1>1, <2>1, <2>2 DEF VerdictInv, AnswerInv
<1>4. CASE ReadNothing \/ EarlyExit \/ (Advance /\ window.eof)
    <2>1. dense' = NoResults /\ evalAt' = 1 /\ pc' = "evaluate" /\ result' = result
          /\ pc \in {"read", "check"}
        BY <1>4 DEF ReadNothing, EarlyExit, Advance, StartEvaluation, streamVars
    <2>2. \A q \in 1 .. NumRules : ~dense'[q]
        BY <2>1 DEF NoResults, RuleIds
    <2> QED BY <2>1, <2>2 DEF VerdictInv, AnswerInv, NoResult
<1>5. CASE Cancel \/ UNCHANGED vars
    <2>1. UNCHANGED <<acc, header, pos, dense, pc, evalAt, result>>
        BY <1>5 DEF Cancel, vars, streamVars
    <2> HIDE DEF Facts
    <2> QED BY <1>1, <2>1 DEF VerdictInv, AnswerInv, NoResult
<1>6. CASE ReadChunk \/ MatchWindow \/ (Advance /\ ~window.eof)
    <2>1. pc' \in {"read", "match", "check"} /\ result' = result
          /\ pc \in {"read", "match", "check"}
        BY <1>6 DEF ReadChunk, MatchWindow, Advance
    <2> QED BY <2>1 DEF VerdictInv, AnswerInv, NoResult
<1>7. CASE StartScan \/ Abort \/ ReadFails \/ ConditionFails
    <2>1. \/ pc' = "done" /\ result' = Failed
          \/ pc' = "read" /\ result' = NoResult
        BY <1>7 DEF StartScan, Abort, ReadFails, ConditionFails
    <2> QED BY <2>1 DEF VerdictInv, AnswerInv, NoResult, Failed
<1> QED BY <1>2, <1>3, <1>4, <1>5, <1>6, <1>7 DEF Next, Round, Evaluation

\* At the end of the input every occurrence is settled.
LEMMA EverythingRead ==
    ASSUME Streamable, TypeInv, KeepsExactlySettled, SlotInv, Scanning,
           MatchedTo = input.length, pos' = input.length,
           input.fault = "none", header = Lesser(HeaderSize, input.length),
           UNCHANGED <<input, acc, header>>
    PROVE  AllRead'
<1>1. input \in Inputs /\ input.occ \subseteq input.spans
    BY StreamAssumption DEF TypeInv, Scanning
<1>2. ASSUME NEW s \in input.occ, ShouldEvaluateRule(Pattern[s.pat].rule)
      PROVE  s.pat \in Patterns /\ WithinReach(s) /\ Settled(s, MatchedTo)
    BY <1>1, <1>2, SpanType DEF Streamable, Settled
<1>3. ASSUME NEW s \in input.occ, ShouldEvaluateRule(Pattern[s.pat].rule), ~ClippedPattern(s.pat)
      PROVE  s \in acc
    BY <1>1, <1>2, <1>3 DEF KeepsExactlySettled, Scanning
<1>4. ASSUME NEW s \in input.occ, ShouldEvaluateRule(Pattern[s.pat].rule), ClippedPattern(s.pat)
      PROVE  \E t \in acc : t.pat = s.pat
    BY <1>2, <1>4 DEF SlotInv
<1> QED BY <1>3, <1>4 DEF AllRead

LEMMA EndStep ==
    ASSUME Streamable, TypeInv, BufferInv, WindowInv, KeepsExactlySettled, RealInv, SlotInv,
           FaultInv, FreshInv, AnswerInv, EndInv, [Next]_vars
    PROVE  EndInv'
<1>0. HeaderSize \in Nat /\ ChunkSize \in Nat \ {0}
    BY StreamAssumption
<1>1. ASSUME UNCHANGED <<input, pos, header, acc>>, AllRead \/ ExitTaken
      PROVE  (AllRead \/ ExitTaken)'
    <2>1. Facts' = Facts
        BY <1>1 DEF Facts
    <2> HIDE DEF Facts
    <2> QED BY <1>1, <2>1 DEF AllRead, ExitTaken
<1>2. CASE ReadNothing
    <2>1. /\ pc = "read" /\ ReadError # "other" /\ ChunkLength = 0 /\ pos \in Nat
          /\ input \in Inputs /\ pos <= Available
          /\ UNCHANGED <<input, pos, header, acc>>
        BY <1>2 DEF ReadNothing, streamVars, TypeInv, BufferInv
    <2>2. Available \in Nat /\ Available <= input.length /\ input.fault \in Faults
          /\ input.length \in Nat
        BY <2>1, ReadType
    <2>3. pos = Available /\ input.fault # "other"
        BY <1>0, <2>1, <2>2 DEF ChunkLength, Lesser, ReadError
    <2>4. input.fault = "none"
        <3> SUFFICES ASSUME input.fault = "unexpectedEOF" PROVE FALSE
            BY <2>2, <2>3 DEF Faults
        <3>1. pos = 0
            BY <2>1, <2>2, <2>3 DEF FaultInv, Lookahead
        <3>2. Available = input.faultAt
            BY DEF Available
        <3> QED BY <2>1, <2>3, <3>1, <3>2 DEF Streamable
    <2>5. pos = input.length
        BY <2>3, <2>4 DEF Available
    <2>6. header = Lesser(HeaderSize, input.length)
        <3>1. /\ Lesser(HeaderSize, pos) <= header /\ header \in Nat
              /\ header <= Lesser(HeaderSize, Lesser(pos + Lookahead, Available))
            BY <2>1 DEF BufferInv, TypeInv
        <3> QED BY <1>0, <2>1, <2>2, <2>3, <2>5, <3>1 DEF Lesser, Lookahead
    <2>7. AllRead'
        BY <2>1, <2>4, <2>5, <2>6, EverythingRead DEF MatchedTo, Scanning
    <2> QED BY <2>7 DEF EndInv
<1>3. CASE Advance /\ window.eof
    <2>1. pc = "check" /\ pos' = window.limit /\ UNCHANGED <<input, header, acc>>
        BY <1>3 DEF Advance
    <2>2. /\ window.limit = input.length /\ input.fault = "none" /\ input.length \in Nat
          /\ window.limit <= window.end /\ window.end <= Available /\ Available <= input.length
          /\ window.end \in Nat /\ Available \in Nat
        BY <1>3, <2>1, WindowFacts
    <2>3. header = Lesser(HeaderSize, input.length)
        <3>1. window.end = input.length
            BY <2>2
        <3> QED BY <2>1, <3>1 DEF WindowInv
    <2>4. AllRead'
        BY <2>1, <2>2, <2>3, EverythingRead DEF MatchedTo, Scanning
    <2> QED BY <2>4 DEF EndInv
<1>4. CASE EarlyExit
    <2>1. /\ pc = "check" /\ ChecksEarly /\ \E failing : Satisfied(failing) # {}
          /\ UNCHANGED <<input, pos, header, acc>>
        BY <1>4 DEF EarlyExit, streamVars
    <2>2. pos <= input.length /\ header <= input.length
        <3>1. /\ window.limit \in Nat /\ window.end \in Nat /\ Available \in Nat
              /\ input.length \in Nat /\ pos < window.limit /\ window.limit <= window.end
              /\ window.end <= Available /\ Available <= input.length
            BY <2>1, WindowFacts
        <3> QED BY <1>0, <2>1, <3>1 DEF WindowInv, Lesser, TypeInv
    <2>3. ASSUME FreshScanner
          PROVE  \E r \in RuleIds : /\ CanRuleEarlyTerminate(r) /\ HasMatchingTag(r)
                                    /\ ShouldEvaluateRule(r) /\ Holds(r, Facts, NoResults)
        <3>1. \A failing : SeenResults(failing) = NoResults
            BY <2>1, <2>3 DEF FreshInv, Scanning, SeenResults, NoResults
        <3>2. PICK failing : Satisfied(failing) # {}
            BY <2>1
        <3>3. PICK r \in Attempted : Holds(r, Facts, SeenResults(failing))
            BY <3>2 DEF Satisfied
        <3>4. /\ r \in RuleIds /\ CanRuleEarlyTerminate(r) /\ HasMatchingTag(r)
              /\ \E s \in acc : Pattern[s.pat].rule = r
            BY <3>3 DEF Attempted, Gated
        <3>5. ShouldEvaluateRule(r)
            BY <3>4 DEF RealInv
        <3> QED BY <3>1, <3>3, <3>4, <3>5
    <2>4. ExitTaken
        BY <2>1, <2>2, <2>3 DEF ExitTaken
    <2> QED BY <1>1, <2>1, <2>4 DEF EndInv
<1>5. CASE EvaluateRule \/ Report \/ Cancel \/ UNCHANGED vars
    <2>1. UNCHANGED <<input, pos, header, acc>>
        BY <1>5 DEF EvaluateRule, Report, Cancel, vars, streamVars
    <2>2. pc' = "evaluate" \/ result'.status = "ok" => pc = "evaluate" \/ result.status = "ok"
        BY <1>5 DEF EvaluateRule, Report, Cancel, vars
    <2> QED BY <1>1, <2>1, <2>2 DEF EndInv
<1>6. CASE ReadChunk \/ MatchWindow \/ (Advance /\ ~window.eof)
    <2>1. pc' # "evaluate" /\ result' = result /\ pc \in {"read", "match", "check"}
        BY <1>6 DEF ReadChunk, MatchWindow, Advance
    <2> QED BY <2>1 DEF EndInv, AnswerInv, NoResult
<1>7. CASE StartScan \/ Abort \/ ReadFails \/ ConditionFails
    <2>1. pc' # "evaluate" /\ result' \in {Failed, NoResult}
        BY <1>7 DEF StartScan, Abort, ReadFails, ConditionFails
    <2> QED BY <2>1 DEF EndInv, Failed, NoResult
<1> QED BY <1>2, <1>3, <1>4, <1>5, <1>6, <1>7 DEF Next, Round, Evaluation

\* What holds when a scan ends.
FinalInv == RealInv /\ SlotInv /\ FaultInv /\ EndInv
LoopInv == FreshInv /\ AssertInv /\ VerdictInv /\ AnswerInv

LEMMA InitialLoop == Init => LoopInv /\ FinalInv
<1> SUFFICES ASSUME Init PROVE LoopInv /\ FinalInv
    OBVIOUS
<1>1. LoopInv
    BY DEF Init, LoopInv, FreshInv, AssertInv, VerdictInv, AnswerInv, NoResult
<1>2. FinalInv
    BY DEF Init, FinalInv, RealInv, SlotInv, FaultInv, EndInv, Scanning, NoResult
<1> QED BY <1>1, <1>2

\* The last loop, the results a scanner keeps between its calls, and the cached assertions
\* are in order, whatever is scanned.
THEOREM LoopInvariant == Spec => []LoopInv
<1>1. Init => LoopInv
    BY InitialLoop
<1>2. IInv /\ IInv' /\ LoopInv /\ [Next]_vars => LoopInv'
    BY FreshStep, AssertStep, AnswerStep DEF IInv, LoopInv
<1> QED BY <1>1, <1>2, InductiveInvariant, PTL DEF Spec

\* A scan ends with the whole input read and its occurrences kept, or with a rule that may
\* end it.
THEOREM EndInvariant == ASSUME Streamable PROVE Spec => []FinalInv
<1>1. Init => FinalInv
    BY InitialLoop
<1>2. IInv /\ IInv' /\ LoopInv /\ FinalInv /\ [Next]_vars => FinalInv'
    BY RealStep, SlotStep, FaultStep, EndStep DEF IInv, LoopInv, FinalInv
<1> QED BY <1>1, <1>2, InductiveInvariant, LoopInvariant, PTL DEF Spec

---------------------------------------------------------------------------
(* Answers *)

\* A scan that returned an answer was given an input.
LEMMA AnsweredInput ==
    ASSUME TypeInv, AnswerInv, result.status = "ok"
    PROVE  input \in Inputs
BY DEF TypeInv, AnswerInv

\* The numbers of retained and of all occurrences.
LEMMA CountsCompare ==
    ASSUME TypeInv, RealInv, input \in Inputs, NEW p \in Patterns
    PROVE  /\ Count(acc, p) \in Nat /\ Count(input.occ, p) \in Nat
           /\ Count(acc, p) > 0 <=> \E s \in acc : s.pat = p
           /\ Count(input.occ, p) > 0 <=> \E s \in input.occ : s.pat = p
           /\ Count(acc, p) <= Count(input.occ, p)
<1>1. IsFiniteSet(input.occ) /\ acc \subseteq input.occ
    BY FS_Subset, StreamAssumption DEF RealInv
<1>2. IsFiniteSet(acc)
    BY <1>1, FS_Subset
<1>3. Count(acc, p) <= Count(input.occ, p)
    <2> DEFINE all == {s \in input.occ : s.pat = p}
               kept == {s \in acc : s.pat = p}
               f == [s \in all |-> s.start]
               starts == {f[s] : s \in all}
               seen == {s.start : s \in kept}
    <2>1. kept \subseteq all
        BY <1>1
    <2>2. seen \subseteq starts
        BY <2>1
    <2>3. IsFiniteSet(starts)
        <3>1. IsFiniteSet(all)
            BY <1>1, FS_Subset
        <3>2. DOMAIN f = all /\ f \in [all -> {f[s] : s \in all}]
            OBVIOUS
        <3> HIDE DEF f, all
        <3> QED BY <3>1, <3>2, FiniteImage
    <2>4. Count(acc, p) = Cardinality(seen)
        BY DEF Count
    <2>5. Count(input.occ, p) = Cardinality(starts)
        <3>1. starts = {s.start : s \in all}
            OBVIOUS
        <3> QED BY <3>1 DEF Count
    <2> HIDE DEF seen, starts
    <2> QED BY <2>2, <2>3, <2>4, <2>5, FS_Subset
<1>4. ASSUME NEW S, IsFiniteSet(S)
      PROVE  Count(S, p) \in Nat /\ (Count(S, p) > 0 <=> \E s \in S : s.pat = p)
    BY <1>4, StartsOfPattern DEF Count
<1> QED BY <1>1, <1>2, <1>3, <1>4

\* What a condition asks of a string is about its own rule's strings.
LEMMA AskedPattern ==
    ASSUME NEW r \in RuleIds, NEW c \in Rule[r].clauses, NEW p \in c.need \cup c.twice \cup c.absent
    PROVE  p \in Patterns /\ Pattern[p].rule = r
BY StreamAssumption, RuleSetAssumption DEF Clause

\* When everything was read, the conditions see what they would see in one buffer.
LEMMA AllReadMeansBuffer ==
    ASSUME Streamable, TypeInv, RealInv, input \in Inputs, AllRead
    PROVE  RuleResults(Facts) = RuleResults(BufferFacts(input))
<1> DEFINE B == BufferFacts(input)
<1>1. Facts.size = B.size
    BY DEF Facts, BufferFacts, AllRead
<1>2. ASSUME NEW r \in RuleIds, ShouldEvaluateRule(r), NEW n \in ReadsOf(r)
      PROVE  n \in Facts.readable <=> n \in B.readable
    <2>1. n \in Nat /\ n <= HeaderSize
        <3>1. n \in Nat
            BY RuleSetAssumption DEF ReadsOf, Clause
        <3> QED BY <1>2, <3>1 DEF Streamable
    <2>2. header = Lesser(HeaderSize, input.length) /\ HeaderSize \in Nat /\ input.length \in Nat
        BY StreamAssumption DEF AllRead
    <2>3. Facts.readable = 1 .. header /\ B.readable = 1 .. input.length
        BY DEF Facts, BufferFacts
    <2> QED BY <2>1, <2>2, <2>3 DEF Lesser
<1>3. ASSUME NEW r \in RuleIds, ShouldEvaluateRule(r), NEW c \in Rule[r].clauses,
             NEW p \in c.need \cup c.twice \cup c.absent
      PROVE  /\ Facts.count[p] \in Nat /\ B.count[p] \in Nat
             /\ Facts.count[p] > 0 <=> B.count[p] > 0
             /\ FastScanSafe(r) \/ Facts.count[p] = B.count[p]
    <2>1. p \in Patterns /\ Pattern[p].rule = r
        BY <1>3, AskedPattern
    <2>2. Facts.count[p] = Count(acc, p) /\ B.count[p] = Count(input.occ, p)
        BY <2>1 DEF Facts, BufferFacts
    <2>3. \A s \in acc : s \in input.occ
        BY DEF RealInv
    <2>4. (\E s \in acc : s.pat = p) <=> (\E s \in input.occ : s.pat = p)
        BY <1>3, <2>1, <2>3 DEF AllRead
    <2>5. ASSUME ~FastScanSafe(r) PROVE Count(acc, p) = Count(input.occ, p)
        <3>1. ~ClippedPattern(p)
            BY <2>1, <2>5 DEF ClippedPattern
        <3>2. {s \in acc : s.pat = p} = {s \in input.occ : s.pat = p}
            BY <1>3, <2>1, <2>3, <3>1 DEF AllRead
        <3> QED BY <3>2 DEF Count
    <2> HIDE DEF B
    <2> QED BY <2>1, <2>2, <2>4, <2>5, CountsCompare
<1> HIDE DEF B
<1>4. RuleResults(Facts) = RuleResults(B)
    BY <1>1, <1>2, <1>3, SameCountsSameResults
<1> QED BY <1>4 DEF B

\* A scan that read to the end answers as the scan of one buffer.
LEMMA FullAnswer ==
    ASSUME Streamable, TypeInv, RealInv, AnswerInv, EndInv, ~EarlyTermination, result.status = "ok"
    PROVE  result.rules = BufferReport(input) /\ input.fault = "none"
<1>1. input \in Inputs
    BY AnsweredInput
<1>2. AllRead
    BY DEF EndInv, ExitTaken, ChecksEarly
<1>3. result.rules = Reported(RuleResults(Facts), FALSE)
    <2> HIDE DEF Facts
    <2>1. EarlyTermination = FALSE
        BY StreamAssumption
    <2> QED BY <2>1 DEF AnswerInv
<1> QED BY <1>1, <1>2, <1>3, AllReadMeansBuffer DEF BufferReport, AllRead

\* A reader scan that succeeds reports what ScanWithContext reports for the same bytes,
\* whatever the chunks, the overlap and the horizons are (scanReaderStream).
THEOREM StreamAgrees == ASSUME Streamable PROVE Spec => []StreamAgreesWithBuffer
<1>1. IInv /\ LoopInv /\ FinalInv => StreamAgreesWithBuffer
    BY FullAnswer DEF IInv, LoopInv, FinalInv, StreamAgreesWithBuffer
<1> QED BY <1>1, InductiveInvariant, LoopInvariant, EndInvariant, PTL

\* The automatic overlap reaches every span that is no longer than was measured of its
\* pattern, when the margin holds the two bytes around it (effectiveStreamOverlapSize).
THEOREM AutomaticOverlapReaches ==
    ASSUME StreamOverlapSize = 0, Margin >= Lookahead, ~NoFiniteHorizon,
           NEW i \in Inputs, NEW s \in i.spans, ShouldEvaluateRule(Pattern[s.pat].rule),
           IF Pattern[s.pat].kind = "regex" THEN s.len <= Horizon(s.pat)
           ELSE s.len > 0 /\ s.len <= Pattern[s.pat].measure
    PROVE  WithinReach(s)
<1> DEFINE p == s.pat
<1>1. /\ p \in Patterns /\ s.len \in Nat /\ Pattern[p].boundary \in 0 .. Lookahead
      /\ Margin \in Nat /\ EffectiveStreamOverlapSize \in Nat
      /\ Pattern[p].measure \in Nat \cup {-1} /\ Pattern[p].wide \in BOOLEAN
      /\ MaxMatchSpan \in Nat
      /\ StreamingRegexLength(p) \in Nat \cup {-1} /\ StreamRegexHorizon(p) \in Nat \cup {-1}
    BY SpanType, StreamAssumption, OverlapType, HorizonType
<1>2. MeasuredSpan(p) + Margin <= EffectiveStreamOverlapSize
    BY <1>1, OverlapCovers
<1>3. CASE Pattern[p].kind = "regex"
    <2>1. Horizon(p) = StreamRegexHorizon(p) /\ MeasuredSpan(p) = StreamingRegexLength(p)
        BY <1>3 DEF Horizon, MeasuredSpan
    <2>2. CASE Pattern[p].measure >= 0
        <3>1. StreamingRegexLength(p) >= 0
            BY <1>1, <2>2 DEF StreamingRegexLength
        <3>2. StreamRegexHorizon(p) >= 0 /\ StreamRegexHorizon(p) <= StreamingRegexLength(p)
            BY <1>1, <3>1 DEF StreamRegexHorizon
        <3> QED BY <1>1, <1>2, <1>3, <2>1, <3>2 DEF WithinReach, Lookahead
    <2>3. CASE ~(Pattern[p].measure >= 0)
        <3>1. p \in UnboundedRegexes
            BY <1>1, <1>3, <2>3 DEF UnboundedRegexes
        <3>2. StreamRegexHorizon(p) >= 0
            BY <1>1, <3>1 DEF NoFiniteHorizon
        <3>3. StreamRegexHorizon(p) + Lookahead <= EffectiveStreamOverlapSize
            BY <3>1, OverlapCovers
        <3> QED BY <1>1, <1>3, <2>1, <3>2, <3>3 DEF WithinReach, Lookahead
    <2> QED BY <2>2, <2>3
<1>4. CASE Pattern[p].kind # "regex"
    <2>1. MeasuredSpan(p) = Pattern[p].measure
        BY <1>4 DEF MeasuredSpan
    <2> QED BY <1>1, <1>2, <1>4, <2>1 DEF WithinReach, Lookahead
<1> QED BY <1>3, <1>4

---------------------------------------------------------------------------
(* The refinement *)

\* Each step of a scan is a step of the contract or hidden inside a call.
LEMMA StepImplements ==
    ASSUME Streamable, ~EarlyTermination, IInv, IInv', LoopInv, FinalInv, FinalInv', LoopInv',
           [Next]_vars
    PROVE  [Contract!Next]_(Contract!vars)
<1> DEFINE Status == IF pc = "idle" THEN "idle"
                     ELSE IF pc = "done" THEN result.status ELSE "running"
<1>0. TypeInv /\ TypeInv' /\ AnswerInv /\ AnswerInv' /\ WindowInv
    BY DEF IInv, LoopInv
<1>1. Failed = [status |-> "error", rules |-> {}] /\ NoResult = [status |-> "none", rules |-> {}]
    BY DEF Failed, NoResult
<1>2. ASSUME StartScan PROVE Contract!Begin
    <2>1. /\ pc \in {"idle", "done"} /\ scans < MaxScans /\ scans' = scans + 1
          /\ cancelled' = FALSE
          /\ IF NoFiniteHorizon THEN pc' = "done" /\ result' = Failed
                                ELSE pc' = "read" /\ result' = NoResult
        BY <1>2 DEF StartScan
    <2>2. Status # "running"
        BY <1>0, <2>1 DEF TypeInv
    <2>3. Status' = (IF NoFiniteHorizon THEN "error" ELSE "running") /\ result'.rules = {}
        BY <1>1, <2>1
    <2> QED BY <2>1, <2>2, <2>3 DEF Contract!Begin
<1>3. ASSUME Cancel PROVE Contract!Cancel
    <2>1. /\ pc \notin {"idle", "done"} /\ ~cancelled /\ cancelled' = TRUE
          /\ UNCHANGED <<input, pc, result, scans>>
        BY <1>3 DEF Cancel
    <2>2. Status = "running" /\ Status' = "running" /\ result'.rules = result.rules
        BY <2>1
    <2> QED BY <2>1, <2>2 DEF Contract!Cancel
<1>4. ASSUME Abort \/ ReadFails \/ ConditionFails PROVE Contract!Fail
    <2>1. /\ pc \in {"read", "match", "evaluate"} /\ pc' = "done" /\ result' = Failed
          /\ UNCHANGED <<input, cancelled, scans>>
        BY <1>4 DEF Abort, ReadFails, ConditionFails
    <2>2. cancelled \/ input.fault # "none" \/ Fallible # {}
        <3>1. ASSUME ReadError = "other" PROVE input.fault # "none"
            BY <3>1 DEF ReadError
        <3>2. ASSUME PeekError \notin {"none", "eof"} PROVE input.fault # "none"
            BY <3>2 DEF PeekError
        <3>3. ASSUME ConditionFails PROVE Fallible # {}
            BY <3>3 DEF ConditionFails
        <3> QED BY <1>4, <3>1, <3>2, <3>3 DEF Abort, ReadFails
    <2>3. Status = "running" /\ Status' = "error" /\ result'.rules = {}
        BY <1>1, <2>1
    <2> QED BY <2>1, <2>2, <2>3 DEF Contract!Fail
<1>5. ASSUME Report PROVE Contract!Answer
    <2>1. /\ pc = "evaluate" /\ pc' = "done" /\ result'.status = "ok"
          /\ UNCHANGED <<input, cancelled, scans>>
        BY <1>5 DEF Report
    <2>2. result'.rules = BufferReport(input) /\ input.fault = "none"
        <3>1. TypeInv' /\ RealInv' /\ EndInv' /\ result'.status = "ok"
            BY <1>0, <2>1 DEF FinalInv
        <3>2. (TypeInv /\ RealInv /\ AnswerInv /\ EndInv /\ result.status = "ok"
                  => result.rules = BufferReport(input) /\ input.fault = "none")'
            BY FullAnswer, PTL
        <3> QED BY <1>0, <2>1, <3>1, <3>2
    <2>3. Status = "running" /\ Status' = "ok"
        BY <2>1
    <2> QED BY <2>1, <2>2, <2>3 DEF Contract!Answer
<1>6. ASSUME ReadNothing \/ ReadChunk \/ MatchWindow \/ EarlyExit \/ Advance \/ EvaluateRule
             \/ UNCHANGED vars
      PROVE  UNCHANGED Contract!vars
    <2>1. /\ UNCHANGED <<input, cancelled, result, scans>>
          /\ pc' = pc \/ (pc \notin {"idle", "done"} /\ pc' \notin {"idle", "done"})
        BY <1>6 DEF ReadNothing, ReadChunk, MatchWindow, EarlyExit, Advance, EvaluateRule,
                    StartEvaluation, vars
    <2>2. Status' = Status
        BY <2>1
    <2> QED BY <2>1, <2>2 DEF Contract!vars
<1> QED BY <1>2, <1>3, <1>4, <1>5, <1>6
        DEF Next, Round, Evaluation, Contract!Next

LEMMA InitImplements == Init => Contract!Init
BY DEF Init, NoResult, Contract!Init

\* Scanner.ScanReaderWithContext keeps the contract of a reader scan: one answer, that of one
\* buffer, or an error with a cause, which is a condition that fails too, and no call depends
\* on an earlier one.
THEOREM ReaderImplementsContract ==
    ASSUME Streamable, ~EarlyTermination PROVE Spec => ImplementsContract
<1>1. /\ IInv /\ IInv' /\ LoopInv /\ LoopInv' /\ FinalInv /\ FinalInv' /\ [Next]_vars
      => [Contract!Next]_(Contract!vars)
    BY StepImplements
<1> QED BY <1>1, InitImplements, InductiveInvariant, LoopInvariant, EndInvariant, PTL
        DEF Spec, ImplementsContract, Contract!Spec

---------------------------------------------------------------------------
(* Early termination *)

\* While an early check runs on a fresh scanner, the cached assertions are those of the header
\* it has, and no rule is judged on results of before.
LEMMA CheckIsCurrent ==
    ASSUME TypeInv, FreshScanner, FreshInv, AssertInv, pc = "check", ChecksEarly,
           NEW failing, NEW r \in Gated \ failing, Holds(r, Facts, NoResults)
    PROVE  r \in Satisfied(failing)
<1>1. SeenResults(failing) = NoResults
    BY DEF FreshInv, Scanning, SeenResults, NoResults
<1>2. r \in RuleIds /\ header \in Nat /\ Rule[r].headerEnd \in Nat
    BY RuleSetAssumption DEF Gated, TypeInv
<1>3. ASSUME Rule[r].headerEnd # 0 PROVE AssertResult(Rule[r].headerEnd) = "true"
    <2> DEFINE k == Rule[r].headerEnd
    <2>1. k \in 1 .. header
        <3>1. {k} \ {0} \subseteq Facts.readable
            BY DEF Holds
        <3>2. Facts.readable = 1 .. header
            BY DEF Facts
        <3> QED BY <1>3, <3>1, <3>2
    <2>2. k \in HeaderEnds /\ header >= k
        BY <1>2, <1>3, <2>1 DEF HeaderEnds
    <2>3. asserts[k] \in {"unknown", "true"}
        <3>1. asserts[k] \in {"unknown", "true", "undefined"}
            BY <2>2 DEF TypeInv
        <3>2. asserts[k] = "undefined" => header < k
            BY <2>2 DEF AssertInv, ChecksEarly
        <3> QED BY <1>2, <2>2, <3>1, <3>2
    <2> QED BY <2>2, <2>3 DEF AssertResult
<1>4. r \in Attempted
    BY <1>3 DEF Attempted
<1> QED BY <1>1, <1>4 DEF Satisfied

\* On a fresh scanner the loop goes on only when no rule that may end it, and whose condition
\* does not fail, holds, whatever assertionResults has cached since the header was shorter
\* (checkStreamEarlyTermination).
THEOREM EarlyExitsPrompt == ASSUME FreshScanner PROVE Spec => EarlyExitIsPrompt
<1> DEFINE A == pc = "check" /\ pc' = "read" /\ ChecksEarly /\ ~cancelled =>
                    \A r \in Gated \ Fallible : ~Holds(r, Facts, NoResults)
<1>1. IInv /\ LoopInv /\ [Next]_vars => [A]_vars
    <2> SUFFICES ASSUME IInv, LoopInv, Next, pc = "check", pc' = "read", ChecksEarly, ~cancelled,
                        NEW r \in Gated \ Fallible, Holds(r, Facts, NoResults)
                 PROVE  FALSE
        <3> HIDE DEF Facts
        <3> QED OBVIOUS
    <2>1. Advance
        BY DEF Next, Round, Evaluation, StartScan, Cancel, Abort, ReadFails, ReadNothing,
               ReadChunk, MatchWindow, EarlyExit, StartEvaluation, EvaluateRule,
               ConditionFails, Report
    <2>2. PICK failing \in SUBSET (Attempted \cap Fallible) : Satisfied(failing) = {}
        BY <2>1 DEF Advance, MayFail
    <2>3. r \in Gated \ failing
        BY <2>2
    <2> QED BY <2>2, <2>3, CheckIsCurrent DEF IInv, LoopInv
<1> QED BY <1>1, InductiveInvariant, LoopInvariant, PTL DEF Spec, EarlyExitIsPrompt

\* What was seen of the input when a scan ends is part of what there is.
LEMMA FactsGrow ==
    ASSUME TypeInv, RealInv, input \in Inputs, pos <= input.length, header <= input.length
    PROVE  HasMore(Facts, BufferFacts(input)) /\ HasMore(Facts, Facts)
<1> DEFINE B == BufferFacts(input)
<1>1. pos \in Nat /\ header \in Nat /\ input.length \in Nat
    BY StreamAssumption DEF TypeInv
<1>2. /\ Facts.size = pos /\ B.size = input.length
      /\ Facts.readable = 1 .. header /\ B.readable = 1 .. input.length
    BY DEF Facts, BufferFacts
<1>3. /\ \A n \in Facts.readable : n \in B.readable
      /\ 0 \notin B.readable /\ 0 \notin Facts.readable
    BY <1>1, <1>2
<1>4. ASSUME NEW r \in RuleIds, NEW c \in Rule[r].clauses,
             NEW p \in c.need \cup c.twice \cup c.absent
      PROVE  Facts.count[p] \in Nat /\ B.count[p] \in Nat /\ Facts.count[p] <= B.count[p]
    <2>1. p \in Patterns
        BY AskedPattern
    <2>2. Facts.count[p] = Count(acc, p) /\ B.count[p] = Count(input.occ, p)
        BY <2>1 DEF Facts, BufferFacts
    <2> HIDE DEF B
    <2> QED BY <2>1, <2>2, CountsCompare
<1> HIDE DEF B
<1>5. HasMore(Facts, B)
    BY <1>1, <1>2, <1>3, <1>4 DEF HasMore
<1>6. HasMore(Facts, Facts)
    BY <1>1, <1>2, <1>3, <1>4 DEF HasMore
<1> QED BY <1>5, <1>6 DEF B

\* Without evaluated global rules nothing hides a rule.
LEMMA NoGlobalsHide ==
    ASSUME EvaluatedGlobalRules = {}, NEW f
    PROVE  AllGlobalMatched(f)
BY DEF AllGlobalMatched

\* A rule that an early-terminating scan returns matches the whole input, when the conditions
\* are positive and no hook stops the list (evaluateStreamMatches after an early exit).
THEOREM EarlyRulesConfirmed ==
    ASSUME Streamable, OnlyPositive, \A r \in RuleIds : Rule[r].hook # "stop"
    PROVE  Spec => []EarlyRuleIsConfirmed
<1>1. IInv /\ LoopInv /\ FinalInv => EarlyRuleIsConfirmed
    <2> SUFFICES ASSUME IInv, LoopInv, FinalInv, result.status = "ok"
                 PROVE  result.rules \subseteq BufferReport(input)
        BY DEF EarlyRuleIsConfirmed
    <2> DEFINE R == RuleResults(Facts)
               B == RuleResults(BufferFacts(input))
    <2>1. /\ TypeInv /\ RealInv /\ AnswerInv /\ input \in Inputs /\ EarlyTermination \in BOOLEAN
          /\ AllRead \/ ExitTaken
        BY AnsweredInput, StreamAssumption DEF IInv, LoopInv, FinalInv, EndInv
    <2>2. /\ result.rules = ReportedIf(R, EarlyTermination, AllGlobalMatched(R))
          /\ BufferReport(input) = ReportedIf(B, FALSE, AllGlobalMatched(B))
        BY <2>1 DEF AnswerInv, BufferReport, Reported
    <2>3. AllGlobalMatched(R) \in BOOLEAN /\ AllGlobalMatched(B) \in BOOLEAN
        BY DEF AllGlobalMatched
    <2>4. CASE AllRead
        <3>1. R = B
            BY <2>1, <2>4, AllReadMeansBuffer
        <3> HIDE DEF R, B
        <3>2. CASE EarlyTermination = TRUE
            BY <2>2, <2>3, <3>1, <3>2, ReportBegins
        <3>3. CASE EarlyTermination = FALSE
            BY <2>2, <3>1, <3>3
        <3> QED BY <2>1, <3>2, <3>3
    <2>5. CASE ExitTaken
        <3>1. HasMore(Facts, BufferFacts(input)) /\ EvaluatedGlobalRules = {}
            BY <2>1, <2>5, FactsGrow DEF ExitTaken, ChecksEarly
        <3>2. \A r \in RuleIds : R[r] => B[r]
            BY <3>1, MoreFactsMoreResults
        <3>3. AllGlobalMatched(R) = TRUE /\ AllGlobalMatched(B) = TRUE
            BY <3>1, NoGlobalsHide DEF AllGlobalMatched
        <3> HIDE DEF R, B
        <3>4. Accepted(R, TRUE) \subseteq Accepted(B, TRUE)
            BY <3>2 DEF Accepted
        <3>5. result.rules \subseteq Accepted(R, TRUE)
            BY <2>1, <2>2, <3>3, ReportBegins
        <3>6. BufferReport(input) = Accepted(B, TRUE)
            BY <2>2, <3>3, ReportBegins
        <3> QED BY <3>4, <3>5, <3>6
    <2> QED BY <2>1, <2>4, <2>5
<1> QED BY <1>1, InductiveInvariant, LoopInvariant, EndInvariant, PTL

\* MatchesReader answers as Matches does, on a fresh scanner, when the conditions are positive
\* and no hook skips a rule.
THEOREM EarlyAnswersAgree ==
    ASSUME Streamable, FreshScanner, OnlyPositive, \A r \in RuleIds : Rule[r].hook # "skip"
    PROVE  Spec => []EarlyAnswerAgrees
<1>1. IInv /\ LoopInv /\ FinalInv => EarlyAnswerAgrees
    <2> SUFFICES ASSUME IInv, LoopInv, FinalInv, result.status = "ok"
                 PROVE  result.rules = {} <=> BufferReport(input) = {}
        BY DEF EarlyAnswerAgrees
    <2> DEFINE R == RuleResults(Facts)
               B == RuleResults(BufferFacts(input))
    <2>1. /\ TypeInv /\ RealInv /\ AnswerInv /\ input \in Inputs /\ EarlyTermination \in BOOLEAN
          /\ AllRead \/ ExitTaken
        BY AnsweredInput, StreamAssumption DEF IInv, LoopInv, FinalInv, EndInv
    <2>2. /\ result.rules = ReportedIf(R, EarlyTermination, AllGlobalMatched(R))
          /\ BufferReport(input) = ReportedIf(B, FALSE, AllGlobalMatched(B))
        BY <2>1 DEF AnswerInv, BufferReport, Reported
    <2>3. AllGlobalMatched(R) \in BOOLEAN /\ AllGlobalMatched(B) \in BOOLEAN
        BY DEF AllGlobalMatched
    <2>4. /\ result.rules = {} <=> Accepted(R, AllGlobalMatched(R)) = {}
          /\ BufferReport(input) = {} <=> Accepted(B, AllGlobalMatched(B)) = {}
        <3> HIDE DEF R, B
        <3> QED BY <2>1, <2>2, <2>3, ReportBegins
    <2>5. CASE AllRead
        <3>1. R = B
            BY <2>1, <2>5, AllReadMeansBuffer
        <3> HIDE DEF R, B
        <3> QED BY <2>4, <3>1
    <2>6. CASE ExitTaken
        <3>1. PICK r \in RuleIds : /\ CanRuleEarlyTerminate(r) /\ HasMatchingTag(r)
                                   /\ ShouldEvaluateRule(r) /\ Holds(r, Facts, NoResults)
            BY <2>6 DEF ExitTaken
        <3>2. /\ HasMore(Facts, BufferFacts(input)) /\ HasMore(Facts, Facts)
              /\ EvaluatedGlobalRules = {}
            BY <2>1, <2>6, FactsGrow DEF ExitTaken, ChecksEarly
        <3>3. R[r]
            <4>1. \A q \in 1 .. (r - 1) : NoResults[q] => R[q]
                <5>1. \A q \in 1 .. (r - 1) : q \in RuleIds
                    BY RuleSetAssumption DEF RuleIds
                <5> QED BY <5>1 DEF NoResults
            <4>2. Holds(r, Facts, R)
                BY <3>1, <3>2, <4>1, PositiveHoldsOn
            <4>3. R[r] = (ShouldEvaluateRule(r) /\ Holds(r, Facts, R))
                BY LoopFollowsResults
            <4> QED BY <3>1, <4>2, <4>3
        <3>4. B[r]
            BY <3>2, <3>3, MoreFactsMoreResults
        <3>5. AllGlobalMatched(R) /\ AllGlobalMatched(B)
            BY <3>2, NoGlobalsHide
        <3> HIDE DEF R, B
        <3>6. r \in Accepted(R, AllGlobalMatched(R)) /\ r \in Accepted(B, AllGlobalMatched(B))
            BY <3>1, <3>3, <3>4, <3>5 DEF Accepted, CanRuleEarlyTerminate
        <3> QED BY <2>4, <3>6
    <2> QED BY <2>1, <2>5, <2>6
<1> QED BY <1>1, InductiveInvariant, LoopInvariant, EndInvariant, PTL
=============================================================================
