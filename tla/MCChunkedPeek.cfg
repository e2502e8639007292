SPECIFICATION Spec
CONSTANTS
    Candidates <- MCCandidates
    Lengths <- MCLengths
    ChunkSizes <- MCChunkSizes
    Kinds <- MCKinds
    MaxCalls = 1
INVARIANT SuccessIsExact
CHECK_DEADLOCK FALSE
