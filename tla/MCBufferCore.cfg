SPECIFICATION FairSpec
CONSTANTS
    t = t
    u = u
    w = w
    x = x
    x2 = x2
    y = y
    g = g
    h = h
    f = f
    kt = kt
    ku = ku
    kw = kw
    kx = kx
    ky = ky
    kg = kg
    kh = kh
    kf = kf
    Patterns = {t, u, x, x2, y, g, h, f}
    NumRules = 6
    Rule <- CoreRules
    TagFilter = FALSE
    Pattern <- CorePattern
    Lookup <- CoreLookup
    FixedRegex = {kf}
    Compact = FALSE
    Inputs <- CoreInputs
    Ops = {"scan", "matches", "rules", "block"}
    OptionSets <- CoreOptions
    ReadWidth = 2
    Fallible = {}
    EpochLimit = 1
    MaxCalls = 2
INVARIANTS
    AnswersAgree
    CandidatesCoverMatches
    CacheIsOfThisInput
    MarksAreFresh
PROPERTY
    CallReturns
CHECK_DEADLOCK FALSE
