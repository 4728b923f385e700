SPECIFICATION Spec
CONSTANTS
    NoLine = NoLine
    Ways = 1
    WordsPerLine = 2
    NLines = 3
    NSets = 1
    QueueSize = 2
    MemQueueSize = 2
    MaxRequests = 3
    MaxSlots = 1
    Configs <- Evicting
INVARIANT NothingLost
