CONSTANTS
    Vocab = {"lead", "trail", "eos"}
    MaxWeight = 3
    Whole = 4
    MaxModelLen = 5
    SamplingParams <- MCSamplingParams
    Prompts <- MCPrompts
    Logits <- MCLogits
    Watched <- MCWatched
    MaxStrays = 1
SPECIFICATION DemoSpec
CHECK_DEADLOCK FALSE
INVARIANT
    NothingBeyondTopP
