---- MODULE MCScannerPool ----
(* Three goroutines, two scanner objects more than hands, a setter at any time. *)
EXTENDS ScannerPool, TLC

CONSTANTS c1, c2, s1, s2, s3, i1, i2, none, v1, v2, bad

MCCallers == {c1, c2}
MCEnvironments == {none, v1, v2}
MCLimits == {0, 1}
MCScanners == {s1, s2, s3}
MCInterpreters == {i1, i2}

Symmetry == Permutations(MCCallers) \cup Permutations(MCScanners)
            \cup Permutations(MCInterpreters) \cup Permutations({v1, v2})
====
