CONSTANTS
    s1 = s1
    s2 = s2
    NoSeq = NoSeq
    Seqs = {s1, s2}
    Tokens = {1}
    Prompts <- MCPrompts
    NumBlocks = 3
    BlockSize = 2
    EnablePrefixCaching = TRUE
    MaxOutput = 3
    MaxNumSeqs = 2
    MaxNumBatchedTokens = 3
SYMMETRY Symmetry
SPECIFICATION SchedulerSpec
CHECK_DEADLOCK FALSE
INVARIANT
    OneItemEach
