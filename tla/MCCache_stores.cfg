SPECIFICATION FairSpec
CONSTANTS
    NoLine = NoLine
    Ways = 1
    WordsPerLine = 2
    NLines = 3
    NSets = 1
    QueueSize = 2
    MemQueueSize = 2
    MaxRequests = 4
    MaxSlots = 1
    Configs <- Sound
INVARIANTS TypeOK ReadsAreCurrent StoreBufferInStep NothingLost
PROPERTY ComesToRest
