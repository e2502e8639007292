SPECIFICATION FairSpec
CONSTANTS
    t = t
    u = u
    w = w
    x = x
    x2 = x2
    y = y
    g = g
    h = h
    f = f
    kt = kt
    ku = ku
    kw = kw
    kx = kx
    ky = ky
    kg = kg
    kh = kh
    kf = kf
    Patterns = {t, u, w, x, x2, y, g, h, f}
    NumRules = 6
    Rule <- GateRules
    TagFilter = TRUE
    Pattern <- GatePattern
    Lookup <- GateLookup
    FixedRegex = {}
    Compact = TRUE
    Inputs <- GateInputs
    Ops = {"scan", "matches", "rules", "block"}
    OptionSets <- GateOptions
    ReadWidth = 2
    Fallible = {3}
    EpochLimit = 1
    MaxCalls = 2
INVARIANT
    AnswersAgree
CHECK_DEADLOCK FALSE
