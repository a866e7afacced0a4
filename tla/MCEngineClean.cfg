CONSTANTS
    s1 = s1
    s2 = s2
    s3 = s3
    NoSeq = NoSeq
    Seqs = {s1, s2, s3}
    Tokens = {1, 2}
    StopTokens = {2}
    Prompts <- MCPromptsMixed
    NumBlocks = 4
    BlockSize = 2
    EnablePrefixCaching = TRUE
    MaxOutput = 2
    MaxModelLen = 8
    MaxNumSeqs = 2
    MaxNumBatchedTokens = 3
SYMMETRY Symmetry
SPECIFICATION CleanSpec
CHECK_DEADLOCK FALSE
INVARIANTS
    OneWriterPerSlot
    ContextIsOwn
    ComputedIsInCache
    UnwrittenIsBeingPrefilled
    EndedLeaveTheQueues
    UntouchedItemsFit
PROPERTY
    ImplementsLifecycle
