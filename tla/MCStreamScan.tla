---------------------------- MODULE MCStreamScan ----------------------------
(***************************************************************************)
(* Instances of StreamScan for TLC: rule sets, patterns and inputs.  Every *)
(* length is scaled down; what matters is that inputs are several windows  *)
(* long, that spans cross chunk boundaries, and that the header limit, the *)
(* overlap and the horizons lie inside the input.                          *)
(***************************************************************************)
EXTENDS StreamScan

CONSTANTS t, x, y   \* string identifiers

---------------------------------------------------------------------------
(* Building blocks *)

Always ==
    [need |-> {}, twice |-> {}, absent |-> {}, rules |-> {}, notRules |-> {},
     bytes |-> 0, noBytes |-> 0, size |-> 0]
Public(clauses) ==
    [private |-> FALSE, global |-> FALSE, tagged |-> TRUE, gated |-> FALSE,
     usesModule |-> FALSE, headerEnd |-> 0, hook |-> "continue", clauses |-> clauses]
Private(clauses) == [Public(clauses) EXCEPT !.private = TRUE]
Needs(p) == [Always EXCEPT !.need = {p}]

Text(r, n, b) == [rule |-> r, kind |-> "text", measure |-> n, wide |-> FALSE,
                  verify |-> "none", boundary |-> b]
Regex(r, n) == [Text(r, n, 2) EXCEPT !.kind = "regex"]
Hex(r, n) == [Text(r, n, 0) EXCEPT !.kind = "hex"]

SpansOf(p, n, lengths) ==
    {s \in [pat : {p}, start : 0 .. n, len : lengths] : s.start < n /\ s.start + s.len <= n}

AtMostOne(S) == {{}} \cup {{s} : s \in S}
AtMostTwo(S) == {{}} \cup {{s, u} : s \in S, u \in S}

\* A pattern has one occurrence per start.
Consistent(occ) == \A s, u \in occ : s.pat = u.pat /\ s.start = u.start => s = u

Input(n, spans, occ) ==
    [length |-> n, spans |-> spans, occ |-> occ, fault |-> "none", faultAt |-> 0]

\* The inputs of length n with the given candidate spans, any of them real.
InputsOver(n, candidates) ==
    UNION {{Input(n, spans, occ) : occ \in {o \in SUBSET spans : Consistent(o)}} :
           spans \in candidates}
Both(A, B) == {a \cup b : a \in A, b \in B}

\* Readers that fail after f bytes.
FaultyInputs(n, kinds, positions) ==
    {[Input(n, {}, {}) EXCEPT !.fault = k, !.faultAt = f] : k \in kinds, f \in positions}
=============================================================================
