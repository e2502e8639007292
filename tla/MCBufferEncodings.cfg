SPECIFICATION FairSpec
CONSTANTS
    t = t
    u = u
    w = w
    x = x
    x2 = x2
    y = y
    g = g
    h = h
    f = f
    kt = kt
    ku = ku
    kw = kw
    kx = kx
    ky = ky
    kg = kg
    kh = kh
    kf = kf
    Patterns = {t, u, x}
    NumRules = 2
    Rule <- EncodingRules
    TagFilter = FALSE
    Pattern <- EncodingPattern
    Lookup <- EncodingLookup
    FixedRegex = {}
    Compact = FALSE
    Inputs <- EncodingInputs
    Ops = {"scan", "matches", "rules", "block"}
    OptionSets <- PlainOptions
    ReadWidth = 2
    Fallible = {}
    EpochLimit = 1
    MaxCalls = 2
INVARIANT
    AnswersAgree
CHECK_DEADLOCK FALSE
