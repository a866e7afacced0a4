CONSTANTS
    s1 = s1
    s2 = s2
    s3 = s3
    NoSeq = NoSeq
    Seqs = {s1, s2, s3}
    Tokens = {1, 2}
    StopTokens = {2}
    Prompts <- MCPromptsMixed
    NumBlocks = 3
    BlockSize = 2
    EnablePrefixCaching = TRUE
    MaxOutput = 2
    MaxModelLen = 8
    MaxNumSeqs = 1
    MaxNumBatchedTokens = 5
SYMMETRY Symmetry
SPECIFICATION EngineSpec
CHECK_DEADLOCK FALSE
INVARIANT
    ComputedIsInCache
