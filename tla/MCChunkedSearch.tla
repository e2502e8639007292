---- MODULE MCChunkedSearch ----
(* Strings of one to three bytes around chunks of one to four, with fullword tests that *)
(* fail one or two bytes before or after.                                              *)
EXTENDS ChunkedSearch

At(start, end, side, reach) ==
    [start |-> start, end |-> end, guard |-> [side |-> side, reach |-> reach]]

MCCandidates ==
    {At(0, 1, "none", 1), At(1, 4, "none", 1), At(2, 5, "before", 2), At(3, 6, "after", 2),
     At(3, 5, "after", 1), At(4, 5, "none", 1), At(4, 7, "before", 2), At(5, 7, "none", 2)}
MCLengths == {0, 4, 5, 6, 8}
MCChunkSizes == {1, 2, 3, 4}
MCKinds == {"bytes", "file", "pipe"}
====
