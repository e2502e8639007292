SPECIFICATION Spec
CONSTANTS
    c1 = c1
    c2 = c2
    s1 = s1
    s2 = s2
    s3 = s3
    i1 = i1
    i2 = i2
    none = none
    v1 = v1
    v2 = v2
    bad = bad
    Callers <- MCCallers
    Environments <- MCEnvironments
    NoValues = none
    Undeclared = bad
    NoScanner = nilScanner
    NoInterpreter = nilInterpreter
    Limits <- MCLimits
    Scanners <- MCScanners
    Interpreters <- MCInterpreters
SYMMETRY Symmetry
INVARIANTS ExclusiveUse RunsUnderOneSetting
PROPERTY ImplementsSharedProgram
