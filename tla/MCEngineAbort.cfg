CONSTANTS
    s1 = s1
    s2 = s2
    NoSeq = NoSeq
    Seqs = {s1, s2}
    Tokens = {1, 2}
    StopTokens = {2}
    Prompts <- MCPrompts
    NumBlocks = 8
    BlockSize = 2
    EnablePrefixCaching = TRUE
    MaxOutput = 2
    MaxModelLen = 7
    MaxNumSeqs = 2
    MaxNumBatchedTokens = 2
SYMMETRY Symmetry
SPECIFICATION EngineSpec
CHECK_DEADLOCK FALSE
INVARIANT
    LoopSurvives
