CONSTANTS
    Modes <- MCModes
    Chunks <- MCChunks
    Declared = {"x", "y"}
    Custom = {"x"}
    MaxFrames = 2
    FirstCutoff = 1
    BetweenCutoff = 2
SPECIFICATION FairSpec
INVARIANTS
    TypeOK AnswerWellFormed UnfinishedNotCompleted
    FramesInOrder NextRequestIsWhole CutWhenSilent
PROPERTIES StreamEnds
