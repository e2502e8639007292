------------------------- MODULE ChunkedSearchProofs -------------------------
(***************************************************************************)
(* Theorems about ChunkedSearch, for any strings, inputs and chunk sizes.  *)
(***************************************************************************)
EXTENDS ChunkedSearch, FiniteSetFacts, SequenceTheorems

---------------------------------------------------------------------------
(* Sequences of the members of a set. *)

\* A list of a finite set has each of its members once.
LEMMA SetToSeqLists ==
    ASSUME NEW S, IsFiniteSet(S)
    PROVE  /\ SetToSeq(S) \in Seq(S)
           /\ Range(SetToSeq(S)) = S /\ Len(SetToSeq(S)) = Cardinality(S)
<1> DEFINE n == Cardinality(S)
           f == SetToSeq(S)
<1>1. n \in Nat /\ ExistsBijection(1 .. n, S)
    BY FS_CardinalityType
<1>2. PICK g : g \in Injection(1 .. n, S)
    BY <1>1 DEF ExistsBijection, Bijection
<1>3. f \in [1 .. n -> S] /\ IsInjective(f)
    BY <1>2 DEF SetToSeq, Injection
<1>4. f \in Injection(1 .. n, S)
    BY <1>3 DEF Injection
<1>5. IsFiniteSet(1 .. n) /\ Cardinality(1 .. n) = n
    BY <1>1, FS_Interval
<1>6. f \in Surjection(1 .. n, S)
    <2> HIDE DEF f
    <2> QED BY <1>4, <1>5, FS_Injection
<1>7. f \in Seq(S) /\ Len(f) = n /\ DOMAIN f = 1 .. n
    BY <1>1, <1>3
<1>8. {f[i] : i \in 1 .. n} = S
    <2> HIDE DEF f
    <2> QED BY <1>3, <1>6 DEF Surjection
<1> QED BY <1>7, <1>8 DEF Range

\* The members of two lists, one after the other.
LEMMA RangeOfConcat ==
    ASSUME NEW S, NEW s \in Seq(S), NEW t \in Seq(S)
    PROVE  Range(s \o t) = Range(s) \cup Range(t)
<1>1. DOMAIN s = 1 .. Len(s) /\ DOMAIN t = 1 .. Len(t) /\ Len(s) \in Nat /\ Len(t) \in Nat
    OBVIOUS
<1>2. DOMAIN (s \o t) = 1 .. (Len(s) + Len(t))
    OBVIOUS
<1>3. \A i \in 1 .. Len(s) : (s \o t)[i] = s[i]
    BY <1>1
<1>4. \A i \in 1 .. Len(t) : (s \o t)[Len(s) + i] = t[i] /\ Len(s) + i \in 1 .. (Len(s) + Len(t))
    BY <1>1
<1>5. \A i \in 1 .. (Len(s) + Len(t)) :
          i \in 1 .. Len(s) \/ (i - Len(s) \in 1 .. Len(t) /\ (s \o t)[i] = t[i - Len(s)])
    BY <1>1
<1>6. Range(s) \cup Range(t) \subseteq Range(s \o t)
    <2>1. ASSUME NEW i \in 1 .. Len(s) PROVE s[i] \in Range(s \o t)
        <3>1. i \in DOMAIN (s \o t) /\ (s \o t)[i] = s[i]
            BY <1>1, <1>2, <1>3
        <3> QED BY <3>1 DEF Range
    <2>2. ASSUME NEW i \in 1 .. Len(t) PROVE t[i] \in Range(s \o t)
        <3>1. Len(s) + i \in DOMAIN (s \o t) /\ (s \o t)[Len(s) + i] = t[i]
            BY <1>1, <1>2, <1>4
        <3> QED BY <3>1 DEF Range
    <2> QED BY <1>1, <2>1, <2>2 DEF Range
<1>7. Range(s \o t) \subseteq Range(s) \cup Range(t)
    BY <1>1, <1>2, <1>3, <1>5 DEF Range
<1> QED BY <1>6, <1>7

---------------------------------------------------------------------------
(* The inductive invariant. *)

\* What may be read of the input.
InputInv ==
    /\ input.length \in Nat /\ input.size \in Nat /\ input.kind \in Kinds
    /\ chunkSize \in Nat \ {0} /\ early \in BOOLEAN
    /\ input.kind = "bytes" => input.size = input.length

\* The next window begins where the last chunk ended, with as much of the bytes before as
\* there are, up to the overlap.
WindowInv ==
    /\ offset \in Nat /\ offset <= input.length
    /\ input.kind = "file" => offset <= input.size
    /\ pc \in {"idle", "chunk", "search"}
    /\ pc # "idle" => overlap = Smaller(OverlapSize, offset)
    /\ pc # "idle" => result = "none"
    /\ pc # "idle" /\ early => matches = <<>>
    /\ pc = "search" => /\ primary[1] = offset /\ primary[2] = offset + Got
                        /\ ReadSize > 0 /\ Got > 0
                        /\ atEnd = (input.kind # "bytes" /\ Got < ReadSize)
                        /\ ahead \in Peeked(primary[2])

\* What a failed Peek hides was searched before.
CutInv ==
    \A w \in cut : w \in [start : Nat, limit : Nat, end : Nat] /\ w.limit <= offset

LetThrough(c) == \E w \in cut : Unseen(w, c)

Searched == {c \in Candidates : c.end <= offset /\ (Real(c) \/ LetThrough(c))}

MatchesInv ==
    /\ matches \in Seq(Candidates)
    /\ Range(matches) = Searched /\ Len(matches) = Cardinality(Searched)

CountersInv ==
    /\ progress = [total |-> progress.total, processed |-> offset, found |-> Len(matches)]
    /\ progress.total = input.size

IInv == InputInv /\ WindowInv /\ CutInv /\ MatchesInv /\ CountersInv /\ DoneMeansDone

---------------------------------------------------------------------------
(* The arithmetic of a window. *)

\* The longest string is a string, and bounds the others.
LEMMA LongestBounds ==
    /\ Longest \in Nat \ {0}
    /\ \A c \in Candidates : c.end - c.start <= Longest
<1> DEFINE f == [c \in Candidates |-> c.end - c.start]
           lengths == {f[c] : c \in Candidates}
<1>1. IsFiniteSet(lengths)
    <2>1. DOMAIN f = Candidates /\ f \in [Candidates -> {f[c] : c \in Candidates}]
        OBVIOUS
    <2> HIDE DEF f
    <2> QED BY <2>1, FiniteImage, CandidateAssumption
<1>2. lengths \subseteq Nat \ {0} /\ lengths \subseteq Int /\ lengths # {}
    BY CandidateAssumption
<1>3. PICK m \in lengths : \A n \in lengths : m >= n
    <2> HIDE DEF lengths
    <2> QED BY <1>1, <1>2, FiniteSetHasMax
<1>4. m \in {c.end - c.start : c \in Candidates} /\ \A c \in Candidates : c.end - c.start <= m
    <2>1. \A c \in Candidates : f[c] \in lengths /\ f[c] = c.end - c.start
        OBVIOUS
    <2> QED BY <1>2, <1>3, <2>1
<1>5. /\ Longest \in {c.end - c.start : c \in Candidates}
      /\ \A c \in Candidates : c.end - c.start <= Longest
    BY <1>4 DEF Longest
<1> QED BY <1>5, CandidateAssumption

\* The window that is searched, and what a failed Peek lets through in it.
ThisWindow == [start |-> primary[1], limit |-> primary[2], end |-> WindowEnd]
CutHere == ahead < Peekable(primary[2])

\* What a window owns and finds is what ends in its chunk and is real: the window holds
\* the whole string, and every byte that decides the fullword test, unless Peek failed.
LEMMA WindowDecides ==
    ASSUME InputInv, WindowInv, pc = "search", NEW c \in Candidates
    PROVE  c \in FoundHere <=> /\ c.end > offset /\ c.end <= primary[2]
                               /\ Real(c) \/ (CutHere /\ Unseen(ThisWindow, c))
<1> DEFINE first == WindowStart
           last == WindowEnd
<1>1. /\ c.start \in Nat /\ c.end \in Nat /\ c.start < c.end /\ c.end - c.start <= Longest
      /\ Longest \in Nat \ {0} /\ c.guard.reach \in 1 .. 2
      /\ c.guard.side \in {"none", "before", "after"}
    BY LongestBounds, CandidateAssumption
<1>2. /\ offset \in Nat /\ primary[1] = offset /\ primary[2] \in Nat /\ primary[2] > offset
      /\ primary[2] <= input.length /\ input.length \in Nat
    <2>1. Got \in Int /\ Got <= input.length - offset
        BY DEF InputInv, WindowInv, Got, ReadSize, Smaller
    <2> QED BY <2>1 DEF InputInv, WindowInv
<1>3. first = Larger(offset - (Longest + 1), 0)
    BY <1>1, <1>2 DEF WindowStart, WindowInv, OverlapSize, BoundaryContext, Smaller, Larger
<1>4. /\ last = primary[2] + ahead /\ Peekable(primary[2]) = Smaller(2, input.length - primary[2])
      /\ ahead \in 0 .. Peekable(primary[2])
    <2>1. Peekable(primary[2]) = Smaller(2, input.length - primary[2])
        BY DEF Peekable, BoundaryContext
    <2>2. Peekable(primary[2]) \in Nat
        BY <1>2, <2>1 DEF Smaller
    <2>3. ahead \in Peeked(primary[2])
        BY DEF WindowInv
    <2> QED BY <2>1, <2>2, <2>3 DEF WindowEnd, Peeked
<1>5. /\ CutHere <=> ahead < Peekable(primary[2])
      /\ Unseen(ThisWindow, c) <=> /\ c.guard.side = "after"
                                   /\ primary[1] < c.end /\ c.end <= primary[2]
                                   /\ last < c.end + c.guard.reach
    BY DEF CutHere, ThisWindow, Unseen
<1> HIDE DEF first, last
<1>6. CASE c.end > offset /\ c.end <= primary[2]
    <2>1. first <= c.start /\ c.end <= last
        BY <1>1, <1>2, <1>3, <1>4, <1>6 DEF Smaller, Larger
    <2>2. c.start - c.guard.reach < first <=> c.start - c.guard.reach < 0
        BY <1>1, <1>2, <1>3, <1>6 DEF Larger
    <2>3. c.end + c.guard.reach > last <=> \/ c.end + c.guard.reach > input.length
                                           \/ CutHere /\ last < c.end + c.guard.reach
        BY <1>1, <1>2, <1>4, <1>5, <1>6 DEF Smaller
    <2>4. CASE c.guard.side = "after"
        <3>1. Passes(c, first, last) <=> Passes(c, 0, input.length)
                                         \/ (CutHere /\ Unseen(ThisWindow, c))
            BY <1>2, <1>5, <1>6, <2>3, <2>4 DEF Passes
        <3> QED BY <1>1, <1>2, <1>6, <2>1, <3>1 DEF FoundHere, Owns, Real, first, last
    <2>5. CASE c.guard.side # "after"
        <3>1. Passes(c, first, last) <=> Passes(c, 0, input.length)
            BY <1>1, <2>2, <2>5 DEF Passes
        <3>2. ~Unseen(ThisWindow, c)
            BY <1>5, <2>5
        <3> QED BY <1>1, <1>2, <1>6, <2>1, <3>1, <3>2 DEF FoundHere, Owns, Real, first, last
    <2> QED BY <2>4, <2>5
<1>7. CASE ~(c.end > offset /\ c.end <= primary[2])
    <2>1. c \notin FoundHere
        BY <1>2, <1>7 DEF FoundHere, Owns
    <2> QED BY <1>7, <2>1
<1> QED BY <1>6, <1>7

\* What was let through before a chunk is searched, and what is after.
LEMMA CutGrows ==
    ASSUME IInv, SearchChunk
    PROVE  /\ CutInv'
           /\ \A c \in Candidates : LetThrough(c)' <=>
                  LetThrough(c) \/ (CutHere /\ Unseen(ThisWindow, c))
           /\ \A c \in Candidates : c.end > offset => ~LetThrough(c)
<1>1. /\ cut' = IF CutHere THEN cut \cup {ThisWindow} ELSE cut
      /\ offset' = primary[2] /\ pc = "search"
    BY DEF SearchChunk, CutHere, ThisWindow
<1>2. /\ offset \in Nat /\ primary[1] = offset /\ primary[2] \in Nat /\ offset < primary[2]
      /\ WindowEnd \in Nat
    <2>1. /\ offset \in Nat /\ primary[1] = offset /\ primary[2] = offset + Got
          /\ Got \in Nat /\ Got > 0 /\ input.length \in Nat /\ primary[2] <= input.length
        BY <1>1 DEF IInv, InputInv, WindowInv, Got, ReadSize, Smaller
    <2>2. Peekable(primary[2]) \in Nat /\ ahead \in Peeked(primary[2])
        BY <1>1, <2>1 DEF IInv, WindowInv, Peekable, BoundaryContext, Smaller
    <2>3. ahead \in Nat
        BY <2>2 DEF Peeked
    <2> QED BY <2>1, <2>3 DEF WindowEnd
<1>3. ThisWindow \in [start : Nat, limit : Nat, end : Nat] /\ ThisWindow.limit = primary[2]
    BY <1>2 DEF ThisWindow
<1>4. CutInv'
    BY <1>1, <1>2, <1>3 DEF IInv, CutInv
<1>5. ASSUME NEW c \in Candidates
      PROVE  LetThrough(c)' <=> LetThrough(c) \/ (CutHere /\ Unseen(ThisWindow, c))
    <2>1. LetThrough(c)' <=> \E w \in cut' : Unseen(w, c)
        BY DEF LetThrough, Unseen
    <2> QED BY <1>1, <2>1 DEF LetThrough
<1>6. ASSUME NEW c \in Candidates, c.end > offset
      PROVE  ~LetThrough(c)
    BY <1>2, <1>6, CandidateAssumption DEF IInv, CutInv, LetThrough, Unseen
<1> QED BY <1>4, <1>5, <1>6

---------------------------------------------------------------------------
(* The steps. *)

LEMMA InitIsSound == Init => IInv
<1> SUFFICES ASSUME Init PROVE IInv
    OBVIOUS
<1>1. InputInv /\ WindowInv /\ CutInv
    BY KindAssumption, SizeAssumption DEF Init, InputInv, WindowInv, CutInv
<1>2. Searched = {}
    BY CandidateAssumption DEF Init, Searched
<1>3. MatchesInv
    BY <1>2, FS_EmptySet DEF Init, MatchesInv, Range
<1>4. CountersInv /\ DoneMeansDone
    BY DEF Init, CountersInv, DoneMeansDone
<1> QED BY <1>1, <1>3, <1>4 DEF IInv

\* What a step that touches neither the input nor what was searched keeps.
LEMMA SearchedStays ==
    ASSUME IInv, UNCHANGED <<input, offset, cut, matches, progress>>
    PROVE  CutInv' /\ MatchesInv' /\ CountersInv'
<1>1. Searched' = Searched
    BY DEF Searched, LetThrough, Unseen, Real, Passes
<1> QED BY <1>1 DEF IInv, CutInv, MatchesInv, CountersInv

\* A chunk adds what ends in it.
LEMMA SearchAdds ==
    ASSUME IInv, SearchChunk
    PROVE  CutInv' /\ MatchesInv' /\ CountersInv'
<1>1. offset' = primary[2] /\ input' = input /\ pc = "search"
      /\ matches' = matches \o SetToSeq(FoundHere) /\ progress' = Counted
    BY DEF SearchChunk
<1>2. \A c \in Candidates : c \in FoundHere <=>
          /\ c.end > offset /\ c.end <= primary[2]
          /\ Real(c) \/ (CutHere /\ Unseen(ThisWindow, c))
    <2>1. InputInv /\ WindowInv /\ pc = "search"
        BY <1>1 DEF IInv
    <2> QED BY <2>1, WindowDecides
<1>3. FoundHere \subseteq Candidates /\ IsFiniteSet(FoundHere)
    <2>1. FoundHere \subseteq Candidates
        BY DEF FoundHere
    <2> QED BY <2>1, CandidateAssumption, FS_Subset
<1>4. Searched \subseteq Candidates /\ IsFiniteSet(Searched)
    <2>1. Searched \subseteq Candidates
        BY DEF Searched
    <2> QED BY <2>1, CandidateAssumption, FS_Subset
<1>5. offset \in Nat /\ primary[2] \in Nat /\ offset < primary[2] /\ primary[1] = offset
    BY <1>1 DEF IInv, InputInv, WindowInv, Got, ReadSize, Smaller
<1>6. Searched' = {c \in Candidates : c.end <= primary[2] /\ (Real(c) \/ LetThrough(c)')}
    BY <1>1 DEF Searched, Real, Passes
<1>7. Searched' = Searched \cup FoundHere /\ Searched \cap FoundHere = {}
    <2>1. \A c \in Candidates : c.end \in Nat
        BY CandidateAssumption
    <2>2. \A c \in Candidates : c \in Searched <=> c.end <= offset /\ (Real(c) \/ LetThrough(c))
        BY DEF Searched
    <2>3. \A c \in Candidates : c \in Searched' <=>
              /\ c.end <= primary[2]
              /\ Real(c) \/ LetThrough(c) \/ (CutHere /\ Unseen(ThisWindow, c))
        BY <1>6, CutGrows
    <2>6. \A c \in Candidates : /\ Unseen(ThisWindow, c) => c.end > offset
                                /\ c.end > offset => ~LetThrough(c)
        BY <1>5, CutGrows, CandidateAssumption DEF Unseen, ThisWindow
    <2>4. Searched' \subseteq Candidates
        BY <1>6
    <2>5. \A c \in Candidates : /\ c \in Searched' <=> c \in Searched \/ c \in FoundHere
                                /\ ~(c \in Searched /\ c \in FoundHere)
        BY <1>2, <1>5, <2>1, <2>2, <2>3, <2>6
    <2> QED BY <1>3, <1>4, <2>4, <2>5
<1>8. /\ SetToSeq(FoundHere) \in Seq(FoundHere) /\ Range(SetToSeq(FoundHere)) = FoundHere
      /\ Len(SetToSeq(FoundHere)) = Cardinality(FoundHere)
    BY <1>3, SetToSeqLists
<1>9. SetToSeq(FoundHere) \in Seq(Candidates)
    <2> DEFINE list == SetToSeq(FoundHere)
    <2> HIDE DEF list
    <2>1. list \in Seq(FoundHere)
        BY <1>8 DEF list
    <2>2. list \in Seq(Candidates)
        BY <1>3, <2>1
    <2> QED BY <2>2 DEF list
<1>10. matches \in Seq(Candidates) /\ Range(matches) = Searched /\ Len(matches) = Cardinality(Searched)
    BY DEF IInv, MatchesInv
<1>11. matches' \in Seq(Candidates) /\ Len(matches') = Len(matches) + Cardinality(FoundHere)
    <2> DEFINE list == SetToSeq(FoundHere)
    <2>1. list \in Seq(Candidates) /\ Len(list) = Cardinality(FoundHere) /\ matches' = matches \o list
        BY <1>1, <1>8, <1>9
    <2> HIDE DEF list
    <2>2. /\ matches \o list \in Seq(Candidates)
          /\ Len(matches \o list) = Len(matches) + Len(list)
        BY <1>10, <2>1, ConcatProperties
    <2> QED BY <2>1, <2>2
<1>12. Range(matches') = Searched'
    BY <1>1, <1>7, <1>8, <1>9, <1>10, RangeOfConcat
<1>13. Cardinality(Searched') = Cardinality(Searched) + Cardinality(FoundHere)
    <2>1. /\ Cardinality(Searched \cup FoundHere)
             = Cardinality(Searched) + Cardinality(FoundHere) - Cardinality(Searched \cap FoundHere)
          /\ Cardinality(Searched) \in Nat /\ Cardinality(FoundHere) \in Nat
        BY <1>3, <1>4, FS_Union, FS_CardinalityType
    <2> QED BY <1>7, <2>1, FS_EmptySet
<1>14. MatchesInv'
    BY <1>10, <1>11, <1>12, <1>13 DEF MatchesInv
<1>15. CountersInv'
    <2>1. /\ progress = [total |-> input.size, processed |-> offset, found |-> Len(matches)]
          /\ progress.processed = offset /\ progress.found = Len(matches)
        BY DEF IInv, CountersInv
    <2>2. Counted = [total |-> input.size, processed |-> offset + primary[2] - primary[1],
                     found |-> Len(matches) + Cardinality(FoundHere)]
        <3> DEFINE read == primary[2] - primary[1]
                   more == Cardinality(FoundHere)
        <3>1. Counted = [progress EXCEPT !.processed = offset + primary[2] - primary[1],
                                         !.found = Len(matches) + more]
            BY <2>1, Zenon DEF Counted
        <3> HIDE DEF more
        <3>2. Counted = [total |-> input.size, processed |-> offset + primary[2] - primary[1],
                         found |-> Len(matches) + more]
            BY <2>1, <3>1
        <3> QED BY <3>2 DEF more
    <2>3. offset + primary[2] - primary[1] = primary[2]
        BY <1>5
    <2> QED BY <1>1, <1>11, <2>2, <2>3 DEF CountersInv
<1> QED BY <1>14, <1>15, CutGrows

\* The window that follows a chunk.
LEMMA SearchSlides ==
    ASSUME IInv, SearchChunk
    PROVE  InputInv' /\ WindowInv' /\ DoneMeansDone'
<1>1. /\ offset' = primary[2] /\ overlap' = NextOverlap /\ pc = "search" /\ primary' = primary
      /\ matches' = matches \o SetToSeq(FoundHere)
      /\ UNCHANGED <<input, chunkSize, early, primary, atEnd>>
    BY DEF SearchChunk
<1>2. InputInv'
    BY <1>1 DEF IInv, InputInv
<1>3. /\ offset \in Nat /\ primary[1] = offset /\ primary[2] = offset + Got
      /\ Got \in Nat /\ Got > 0 /\ Got <= input.length - offset
      /\ input.kind = "file" => Got <= input.size - offset
      /\ input.length \in Nat /\ input.size \in Nat
      /\ primary[2] \in Nat /\ primary[2] <= input.length
    <2>1. /\ input.length \in Nat /\ input.size \in Nat /\ chunkSize \in Nat
          /\ offset \in Nat /\ offset <= input.length
          /\ primary[1] = offset /\ primary[2] = offset + Got /\ Got > 0
        BY <1>1 DEF IInv, InputInv, WindowInv
    <2>2. ReadSize \in Int /\ (input.kind = "file" => ReadSize <= input.size - offset)
        BY <2>1 DEF ReadSize, Smaller
    <2>3. Got \in Int /\ Got <= input.length - offset /\ Got <= ReadSize
        BY <2>1, <2>2 DEF Got, Smaller
    <2> QED BY <2>1, <2>2, <2>3
<1>4. overlap' = Smaller(OverlapSize, primary[2])
    BY <1>1, <1>3, LongestBounds
       DEF IInv, WindowInv, NextOverlap, OverlapSize, BoundaryContext, Smaller
<1>5. FoundHere = {} => SetToSeq(FoundHere) = <<>> /\ matches' = matches
    <2> SUFFICES ASSUME FoundHere = {} PROVE SetToSeq(FoundHere) = <<>> /\ matches' = matches
        OBVIOUS
    <2>1. SetToSeq(FoundHere) \in Seq({}) /\ Len(SetToSeq(FoundHere)) = 0
        BY SetToSeqLists, FS_EmptySet
    <2>2. SetToSeq(FoundHere) = <<>>
        <3> DEFINE list == SetToSeq(FoundHere)
        <3> HIDE DEF list
        <3>1. list \in Seq({}) /\ Len(list) = 0
            BY <2>1 DEF list
        <3>2. list = <<>>
            BY <3>1
        <3> QED BY <3>2 DEF list
    <2> QED BY <1>1, <2>2 DEF IInv, MatchesInv
<1>6. CASE StopsEarly \/ atEnd
    <2>1. pc' = "idle" /\ result' = "done"
        BY <1>6 DEF SearchChunk
    <2>2. WindowInv'
        BY <1>1, <1>3, <1>4, <2>1 DEF WindowInv
    <2>3. CASE atEnd
        <3>1. Got = input.length - offset /\ (input.kind = "file" => input.length <= input.size)
            <4>1. Got < ReadSize /\ chunkSize \in Nat
                BY <1>1, <2>3 DEF IInv, InputInv, WindowInv
            <4>2. ReadSize \in Int /\ (input.kind = "file" => ReadSize <= input.size - offset)
                BY <1>3, <4>1 DEF ReadSize, Smaller
            <4>3. Got = input.length - offset
                BY <1>3, <4>1, <4>2 DEF Got, Smaller
            <4> QED BY <1>3, <4>1, <4>2, <4>3
        <3>2. offset' = IF input'.kind = "file" THEN Smaller(input'.size, input'.length)
                        ELSE input'.length
            BY <1>1, <1>3, <3>1 DEF Smaller
        <3> QED BY <1>2, <2>2, <3>2 DEF DoneMeansDone
    <2>4. CASE StopsEarly
        <3>1. early' /\ matches = <<>> /\ FoundHere # {} /\ IsFiniteSet(FoundHere)
            <4>1. FoundHere \subseteq Candidates
                BY DEF FoundHere
            <4>2. IsFiniteSet(FoundHere)
                BY <4>1, CandidateAssumption, FS_Subset
            <4> QED BY <1>1, <2>4, <4>2 DEF StopsEarly, IInv, WindowInv
        <3>2. Range(SetToSeq(FoundHere)) = FoundHere /\ SetToSeq(FoundHere) \in Seq(FoundHere)
            BY <3>1, SetToSeqLists
        <3>3. matches' = SetToSeq(FoundHere)
            BY <1>1, <3>1, <3>2
        <3>4. Range(<<>>) = {}
            BY DEF Range
        <3>5. matches' # <<>> /\ \A c \in Range(matches') : c.end > primary'[1]
            <4>1. \A c \in FoundHere : c.end > primary[1]
                BY DEF FoundHere, Owns
            <4> QED BY <1>1, <3>1, <3>2, <3>3, <3>4, <4>1
        <3> QED BY <1>2, <2>2, <3>1, <3>5 DEF DoneMeansDone
    <2> QED BY <1>2, <1>6, <2>2, <2>3, <2>4
<1>7. CASE ~(StopsEarly \/ atEnd)
    <2>1. pc' = "chunk" /\ result' = "none"
        BY <1>1, <1>7 DEF SearchChunk, IInv, WindowInv
    <2>2. early' => matches' = <<>>
        BY <1>1, <1>5, <1>7 DEF StopsEarly, IInv, WindowInv
    <2>3. WindowInv'
        BY <1>1, <1>3, <1>4, <2>1, <2>2, LongestBounds DEF WindowInv, OverlapSize
    <2> QED BY <1>2, <2>1, <2>3 DEF DoneMeansDone
<1> QED BY <1>6, <1>7

LEMMA StepIsSound == IInv /\ [Next]_vars => IInv'
<1> SUFFICES ASSUME IInv, [Next]_vars PROVE IInv'
    OBVIOUS
<1> USE DEF IInv, window
<1>1. CASE Configure
    <2>1. UNCHANGED <<input, offset, cut, matches, progress>>
        BY <1>1 DEF Configure
    <2>2. InputInv' /\ WindowInv' /\ DoneMeansDone'
        BY <1>1, SizeAssumption DEF Configure, InputInv, WindowInv, DoneMeansDone
    <2> QED BY <2>1, <2>2, SearchedStays
<1>2. CASE Start
    <2>1. PICK k \in Kinds, n \in Lengths, s \in Lengths :
              /\ k = "bytes" => s = n
              /\ k = "pipe" => s = 0
              /\ input' = [kind |-> k, length |-> n, size |-> s]
              /\ progress' = [total |-> s, processed |-> 0, found |-> 0]
        BY <1>2 DEF Start
    <2>2. InputInv'
        BY <1>2, <2>1, SizeAssumption DEF Start, InputInv
    <2>3. WindowInv' /\ DoneMeansDone'
        BY <1>2, <2>1, <2>2, LongestBounds
           DEF Start, InputInv, WindowInv, DoneMeansDone, OverlapSize, BoundaryContext, Smaller
    <2>4. Searched' = {}
        BY <1>2, CandidateAssumption DEF Start, Searched
    <2>5. MatchesInv'
        BY <1>2, <2>4, FS_EmptySet DEF Start, MatchesInv, Range
    <2>6. CountersInv' /\ CutInv'
        BY <1>2, <2>1 DEF Start, CountersInv, CutInv
    <2> QED BY <2>2, <2>3, <2>5, <2>6
<1>3. CASE Cancel \/ UNCHANGED vars
    <2>1. UNCHANGED <<input, chunkSize, early, pc, window, matches, progress, result>>
        BY <1>3 DEF Cancel, vars
    <2>2. InputInv' /\ WindowInv' /\ DoneMeansDone'
        BY <2>1 DEF InputInv, WindowInv, DoneMeansDone, Got, ReadSize, Peeked, Peekable
    <2> QED BY <2>1, <2>2, SearchedStays
<1>4. CASE Abort \/ ReadFails
    <2>1. /\ pc' = "idle" /\ result' = "error"
          /\ UNCHANGED <<input, chunkSize, early, window, matches, progress>>
        BY <1>4 DEF Abort, ReadFails, Stop
    <2>2. InputInv' /\ WindowInv' /\ DoneMeansDone'
        BY <2>1 DEF InputInv, WindowInv, DoneMeansDone
    <2> QED BY <2>1, <2>2, SearchedStays
<1>5. CASE Finish
    <2>1. /\ pc' = "idle" /\ result' = "done" /\ pc = "chunk" /\ (ReadSize <= 0 \/ Got <= 0)
          /\ UNCHANGED <<input, chunkSize, early, window, matches, progress>>
        BY <1>5 DEF Finish, Stop
    <2>2. InputInv' /\ WindowInv'
        BY <2>1 DEF InputInv, WindowInv
    <2>3. offset = IF input.kind = "file" THEN Smaller(input.size, input.length) ELSE input.length
        BY <2>1 DEF InputInv, WindowInv, Got, ReadSize, Smaller
    <2>4. DoneMeansDone'
        BY <2>1, <2>3 DEF DoneMeansDone
    <2> QED BY <2>1, <2>2, <2>4, SearchedStays
<1>6. CASE ReadChunk
    <2>1. /\ pc = "chunk" /\ pc' = "search" /\ ReadSize > 0 /\ Got > 0
          /\ primary' = <<offset, offset + Got>>
          /\ atEnd' = (input.kind # "bytes" /\ Got < ReadSize)
          /\ ahead' \in Peeked(offset + Got)
          /\ UNCHANGED <<input, chunkSize, early, offset, overlap, cut, matches, progress, result>>
        BY <1>6 DEF ReadChunk
    <2>2. Got' = Got /\ ReadSize' = ReadSize /\ Peeked(primary[2])' = Peeked(offset + Got)
        BY <2>1 DEF Got, ReadSize, Peeked, Peekable
    <2>3. InputInv' /\ DoneMeansDone'
        BY <2>1 DEF InputInv, WindowInv, DoneMeansDone
    <2>4. WindowInv'
        BY <2>1, <2>2 DEF WindowInv
    <2> QED BY <2>1, <2>3, <2>4, SearchedStays
<1>7. CASE SearchChunk
    BY <1>7, SearchAdds, SearchSlides
<1> QED BY <1>1, <1>2, <1>3, <1>4, <1>5, <1>6, <1>7 DEF Next, Processing

---------------------------------------------------------------------------
(* The theorems. *)

THEOREM SearchInvariant == Spec => []IInv
BY InitIsSound, StepIsSound, PTL DEF Spec

\* For strings of any length and chunks of any size, each occurrence is reported once, by
\* the chunk it ends in, and of what a neighbour refutes exactly that is reported whose
\* neighbour a failed Peek has hidden (StreamingProcessor).
THEOREM OccurrencesReportedOnce == Spec => []ReportsEachOnce
<1>1. IInv => ReportsEachOnce
    BY DEF IInv, MatchesInv, Searched, LetThrough, ReportsEachOnce
<1> QED BY <1>1, SearchInvariant, PTL

\* While no Peek has failed, a search is exact: what it reports are the occurrences that end
\* in the bytes searched so far, each once.
THEOREM UncutIsExact ==
    Spec => [](cut = {} => /\ Range(matches) = {c \in Candidates : c.end <= offset /\ Real(c)}
                           /\ Len(matches) = Cardinality(Range(matches)))
<1>1. IInv => (cut = {} => /\ Range(matches) = {c \in Candidates : c.end <= offset /\ Real(c)}
                           /\ Len(matches) = Cardinality(Range(matches)))
    BY DEF IInv, MatchesInv, Searched, LetThrough
<1> QED BY <1>1, SearchInvariant, PTL

\* The counters are those of the bytes searched, and never more than the size of a buffer
\* or of a file.
THEOREM CountersAreExact == Spec => []ProgressIsExact
<1>1. IInv => ProgressIsExact
    <2> SUFFICES ASSUME IInv PROVE ProgressIsExact
        OBVIOUS
    <2>1. progress.processed = offset /\ progress.found = Len(matches) /\ progress.total = input.size
        BY DEF IInv, CountersInv
    <2>2. input.kind # "pipe" => offset <= input.size
        BY KindAssumption DEF IInv, InputInv, WindowInv
    <2> QED BY <2>1, <2>2 DEF ProgressIsExact
<1> QED BY <1>1, SearchInvariant, PTL

\* A call that succeeds has searched all, or stopped at the first chunk with a match.
THEOREM SuccessIsComplete == Spec => []DoneMeansDone
<1>1. IInv => DoneMeansDone
    BY DEF IInv
<1> QED BY <1>1, SearchInvariant, PTL
=============================================================================
