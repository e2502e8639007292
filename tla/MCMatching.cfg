SPECIFICATION MatchingSpec
CONSTANTS
    Bytes <- TextBytes
    Jobs <- TextJobs
    Inputs <- TextInputs
    LongInput = 4
    DenseRoot = 2
    DenseSingle = 3
    NearCandidate = 2
    MaxSparseRoot = 4
    SearchWindow = 3
    HexStrings <- MCHexStrings
    KeySets <- MCKeySets
    HexInputs <- MCHexInputs
    AtomWidth = 2
    RegexStrings <- MCRegexStrings
    Compiled <- MCCompiled
    ByteOf <- LexemeBytes
    MarginASCII = 1
    MarginWide = 2
    ReuseWork = 3
    ReuseInput = 3
INVARIANTS
    TextIsMeaning
    HexIsMeaning
    HexAtomIsMandatory
    RegexIsMeaning
CHECK_DEADLOCK FALSE
