SPECIFICATION FairSpec
CONSTANTS
    t = t
    u = u
    w = w
    x = x
    x2 = x2
    y = y
    g = g
    h = h
    f = f
    kt = kt
    ku = ku
    kw = kw
    kx = kx
    ky = ky
    kg = kg
    kh = kh
    kf = kf
    Patterns = {f, t}
    NumRules = 2
    Rule <- CancelledRules
    TagFilter = FALSE
    Pattern <- CancelledPattern
    Lookup <- NoEntries
    FixedRegex = {kf}
    Compact = FALSE
    Inputs <- CancelledInputs
    Ops = {"scan", "matches", "rules", "block"}
    OptionSets <- CancelledOptions
    ReadWidth = 2
    Fallible = {}
    EpochLimit = 1
    MaxCalls = 2
INVARIANT
    AnswersAgree
CHECK_DEADLOCK FALSE
