CONSTANTS
    s1 = s1
    s2 = s2
    NoSeq = NoSeq
    Seqs = {s1, s2}
    Tokens = {1, 2}
    Prompts <- MCPrompts
    NumBlocks = 3
    BlockSize = 2
    EnablePrefixCaching = TRUE
    MaxOutput = 1
SYMMETRY Symmetry
SPECIFICATION PoolSpec
INVARIANTS
    PoolTypeOK
    RefCountsExact
    FreeListsExact
    CacheCoherent
    HashNamesContent
    SharedBlocksAgree
    AdmitNeverRunsDry
    PrefixLeavesWork
PROPERTIES
    EvictOnlyWhenDry
    HeldHashIsStable
