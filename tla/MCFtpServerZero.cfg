SPECIFICATION Spec
CONSTANTS
    PosFds = {1, 2, 3, 4}
    Fd0 = 0
    NoFd <- MinusOne
    Pick <- FirstFree
    ZeroUsable = TRUE
    QueueMax = 2
    TxRetriesMax = 1
    Uint8 = 4
    RxTimeout = 0
    DataTimeout = 0
    MaxChunks = 1
    Volumes = 1
    MaxOthers = 1
    ListItems = 2
PROPERTY
    DroppedOnlyWhenClosed
