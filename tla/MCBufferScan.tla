---------------------------- MODULE MCBufferScan ----------------------------
(***************************************************************************)
(* Instances of BufferScan for TLC: small rule sets whose rules share      *)
(* regexes and hex strings, and inputs that differ in one string each.     *)
(***************************************************************************)
EXTENDS BufferScan

CONSTANTS t, u, w, x, x2, y, g, h, f   \* string identifiers
CONSTANTS kt, ku, kw, kx, ky, kg, kh, kf   \* what they are matched by

Always ==
    [need |-> {}, twice |-> {}, absent |-> {}, rules |-> {}, notRules |-> {},
     bytes |-> 0, noBytes |-> 0, size |-> 0]
Public0(clauses) ==
    [private |-> FALSE, global |-> FALSE, tagged |-> TRUE, gated |-> FALSE,
     usesModule |-> FALSE, headerEnd |-> 0, hook |-> "continue", clauses |-> clauses]
Needs(p) == [Always EXCEPT !.need = {p}]
Str(r, kind, key, score) == [rule |-> r, kind |-> kind, key |-> key, score |-> score]

(* core:  A: $t and $x           private B: $u and not $y
          C: #x2 > 1 or A        global D: not B or filesize >= 9
          E: $g or $h            F: $f or uint16(2) == ..  (header at 0)       *)
CoreRules ==
    << Public0({[Always EXCEPT !.need = {t, x}]}),
       [Public0({[Always EXCEPT !.need = {u}, !.absent = {y}]}) EXCEPT !.private = TRUE],
       Public0({[Always EXCEPT !.twice = {x2}], [Always EXCEPT !.rules = {1}]}),
       [Public0({[Always EXCEPT !.notRules = {2}], [Always EXCEPT !.size = 9]})
           EXCEPT !.global = TRUE],
       Public0({Needs(g), Needs(h)}),
       [Public0({Needs(f), [Always EXCEPT !.bytes = 4]}) EXCEPT !.headerEnd = 3] >>
CorePattern ==
    [p \in {t, u, x, x2, y, g, h, f} |->
        CASE p = t -> Str(1, "text", kt, 2)   [] p = x -> Str(1, "regex", kx, 3)
          [] p = u -> Str(2, "text", ku, 2)   [] p = y -> Str(2, "hex", ky, 1)
          [] p = x2 -> Str(3, "regex", kx, 3)
          [] p = g -> Str(5, "regex", kg, 3)  [] p = h -> Str(5, "hex", kh, 3)
          [] p = f -> Str(6, "regex", kf, 0)]
CoreLookup ==
    << [owner |-> x, wide |-> FALSE], [owner |-> g, wide |-> FALSE],
       [owner |-> g, wide |-> TRUE], [owner |-> h, wide |-> FALSE],
       [owner |-> y, wide |-> FALSE] >>

Hit(k, a) == [key |-> k, wide |-> FALSE, at |-> a, real |-> TRUE]
Wide(k, a) == [key |-> k, wide |-> TRUE, at |-> a, real |-> TRUE]
False(k, a) == [key |-> k, wide |-> FALSE, at |-> a, real |-> FALSE]
Data(n, shared, fixed, hits) ==
    [length |-> n, base |-> 1, size |-> 9, sparse |-> shared, dense |-> fixed,
     short |-> TRUE, hits |-> hits]

\* A, and B by its text string; two counted matches of a shared regex, a forbidden hex
\* string and a missing text string; the same without the shared search, with two matches
\* of a hex string; a wide match behind a false one, and a text candidate that is not
\* verified; hex strings only.
CoreInputs ==
    {Data(4, TRUE, TRUE, {Hit(kt, 0), Hit(kx, 1), Hit(ku, 2), Hit(kf, 3)}),
     Data(3, TRUE, FALSE, {Hit(kx, 1), Hit(kx, 2), Hit(ku, 0), Hit(ky, 1)}),
     Data(4, FALSE, TRUE, {Hit(ku, 0), Hit(kx, 0), Hit(kx, 2), Hit(kh, 1), Hit(kh, 3)}),
     Data(2, TRUE, TRUE, {False(kg, 0), Wide(kg, 0), False(kt, 1), Hit(ky, 0)}),
     Data(4, FALSE, FALSE, {Hit(ky, 1), Hit(ku, 1), Hit(kt, 2)})}

Option(fast, reported, prefilter, profiled, dispatch, background) ==
    [fast |-> fast, reportedOnly |-> reported, prefilter |-> prefilter,
     profiled |-> profiled, dispatch |-> dispatch, background |-> background]
CoreOptions ==
    {Option(FALSE, FALSE, TRUE, FALSE, FALSE, FALSE),
     Option(TRUE, TRUE, TRUE, FALSE, TRUE, TRUE),
     Option(FALSE, TRUE, TRUE, TRUE, TRUE, TRUE),
     Option(FALSE, FALSE, FALSE, FALSE, FALSE, FALSE)}

(* gate:  global A: $u         B: $t and $x  (the hook skips)    private C: $y or $h
          untagged D: $x2 and not $g      E: $f and D (the hook stops)   gated F: $w   *)
GateRules ==
    << [Public0({Needs(u)}) EXCEPT !.global = TRUE],
       [Public0({[Always EXCEPT !.need = {t, x}]}) EXCEPT !.hook = "skip"],
       [Public0({Needs(y), Needs(h)}) EXCEPT !.private = TRUE],
       [Public0({[Always EXCEPT !.need = {x2}, !.absent = {g}]}) EXCEPT !.tagged = FALSE],
       [Public0({[Always EXCEPT !.need = {f}, !.rules = {4}]}) EXCEPT !.hook = "stop"],
       [Public0({Needs(w)}) EXCEPT !.gated = TRUE] >>
GatePattern ==
    [p \in {t, u, w, x, x2, y, g, h, f} |->
        CASE p = u -> Str(1, "text", ku, 2)    [] p = t -> Str(2, "text", kt, 2)
          [] p = x -> Str(2, "regex", kx, 0)   [] p = y -> Str(3, "text", ky, 1)
          [] p = h -> Str(3, "hex", kh, 3)     [] p = x2 -> Str(4, "regex", kx, 0)
          [] p = g -> Str(4, "hex", kg, 1)     [] p = f -> Str(5, "text", kf, 3)
          [] p = w -> Str(6, "text", kw, 3)]
GateLookup == << [owner |-> x, wide |-> FALSE], [owner |-> h, wide |-> FALSE] >>

\* No anchor; the global rule fails; everything holds; a text string that is not verified;
\* a match of the gated rule only.
GateInputs ==
    {Data(2, TRUE, FALSE, {Hit(kg, 0)}),
     Data(3, TRUE, FALSE, {Hit(kt, 0), Hit(kx, 1)}),
     Data(4, TRUE, FALSE, {Hit(ku, 0), Hit(kt, 0), Hit(kx, 1), Hit(kf, 2), Hit(kh, 3)}),
     Data(4, TRUE, FALSE, {Hit(ku, 0), False(kt, 0), Hit(kx, 1), Hit(kf, 2), Hit(kg, 3)}),
     Data(2, TRUE, FALSE, {Hit(ku, 0), Hit(kw, 1), False(kh, 0)})}
GateOptions ==
    {Option(FALSE, TRUE, TRUE, FALSE, FALSE, FALSE),
     Option(TRUE, FALSE, TRUE, FALSE, FALSE, TRUE),
     Option(FALSE, TRUE, TRUE, TRUE, FALSE, TRUE)}

(* encodings:  A: $t and $x  where $x is a regex with "ascii wide"        B: $u          *)
EncodingRules == << Public0({[Always EXCEPT !.need = {t, x}]}), Public0({Needs(u)}) >>
EncodingPattern ==
    [p \in {t, u, x} |->
        CASE p = t -> Str(1, "text", kt, 2)   [] p = x -> Str(1, "regex", kx, 3)
          [] p = u -> Str(2, "text", ku, 2)]
EncodingLookup == << [owner |-> x, wide |-> FALSE], [owner |-> x, wide |-> TRUE] >>

\* A wide match behind nothing, behind a false candidate of the other encoding, and alone.
EncodingInputs ==
    {Data(4, TRUE, FALSE, {Hit(kt, 0), Wide(kx, 2)}),
     Data(4, TRUE, FALSE, {Hit(kt, 0), False(kx, 1), Wide(kx, 2)}),
     Data(4, TRUE, FALSE, {Hit(ku, 0), Wide(kx, 2)})}

NoEntries == << >>
PlainOptions == {Option(FALSE, FALSE, TRUE, FALSE, FALSE, TRUE)}

(* short:  private A: $h        B: #y > 1, where $y is the hex string $h             *)
ShortRules ==
    << [Public0({Needs(h)}) EXCEPT !.private = TRUE],
       Public0({[Always EXCEPT !.twice = {y}]}) >>
ShortPattern ==
    [p \in {h, y} |-> IF p = h THEN Str(1, "hex", kh, 3) ELSE Str(2, "hex", kh, 3)]

ShortInputs ==
    {Data(3, FALSE, FALSE, hits) :
        hits \in {{Hit(kh, 0)}, {Hit(kh, 0), Hit(kh, 2)}, {False(kh, 1), Hit(kh, 2)}}}

(* cancelled:  A: $f, a regex at a fixed offset        B: $t                            *)
CancelledRules == << Public0({Needs(f)}), Public0({Needs(t)}) >>
CancelledPattern ==
    [p \in {f, t} |-> IF p = f THEN Str(1, "regex", kf, 0) ELSE Str(2, "text", kt, 2)]
CancelledInputs ==
    {Data(3, sparse, TRUE, hits) : sparse \in BOOLEAN, hits \in {{Hit(kf, 0), Hit(kt, 2)}, {Hit(kt, 1)}}}
CancelledOptions == {Option(FALSE, FALSE, TRUE, FALSE, TRUE, FALSE)}
=============================================================================
