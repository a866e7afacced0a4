CONSTANTS
    s1 = s1
    s2 = s2
    s3 = s3
    s4 = s4
    NoSeq = NoSeq
    Seqs = {s1, s2, s3, s4}
    Tokens = {1}
    StopTokens = {}
    Prompts <- MCPrompts
    NumBlocks = 5
    BlockSize = 2
    EnablePrefixCaching = TRUE
    MaxOutput = 2
    MaxModelLen = 12
    MaxNumSeqs = 3
    MaxNumBatchedTokens = 5
SYMMETRY Symmetry
SPECIFICATION MixedSpec
CHECK_DEADLOCK FALSE
INVARIANTS
    EngineTypeOK
    RunningWithinLimit
    StarvedByThePool
    StreamIsOutput
    KnownIsQueued
    LiveRequestsAreQueued
    TokensWithinBudget
    ChunkIsCovered
    DecodeKeepsItsSchedule
    BlocksFollowStatus
