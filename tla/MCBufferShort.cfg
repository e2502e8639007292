SPECIFICATION FairSpec
CONSTANTS
    t = t
    u = u
    w = w
    x = x
    x2 = x2
    y = y
    g = g
    h = h
    f = f
    kt = kt
    ku = ku
    kw = kw
    kx = kx
    ky = ky
    kg = kg
    kh = kh
    kf = kf
    Patterns = {h, y}
    NumRules = 2
    Rule <- ShortRules
    TagFilter = FALSE
    Pattern <- ShortPattern
    Lookup <- NoEntries
    FixedRegex = {}
    Compact = FALSE
    Inputs <- ShortInputs
    Ops = {"scan", "matches", "rules", "block"}
    OptionSets <- PlainOptions
    ReadWidth = 2
    Fallible = {}
    EpochLimit = 1
    MaxCalls = 2
INVARIANT
    AnswersAgree
CHECK_DEADLOCK FALSE
