SPECIFICATION FairSpec
CONSTANTS
    Candidates <- MCCandidates
    Lengths <- MCLengths
    ChunkSizes <- MCChunkSizes
    Kinds <- MCKinds
    MaxCalls = 2
INVARIANTS ReportsEachOnce ProgressIsExact DoneMeansDone
PROPERTY ProcessReturns
CHECK_DEADLOCK FALSE
