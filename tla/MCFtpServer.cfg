SPECIFICATION Spec
CONSTANTS
    f1 = f1
    f2 = f2
    f3 = f3
    f4 = f4
    PosFds <- FourFds
    Fd0 = Fd0
    NoFd = NoFd
    Pick <- AnyFree
    ZeroUsable = TRUE
    QueueMax = 3
    TxRetriesMax = 1
    Uint8 = 4
    RxTimeout = 0
    DataTimeout = 0
    MaxChunks = 1
    Volumes = 1
    MaxOthers = 1
    ListItems = 2
SYMMETRY FdSymmetry
INVARIANTS
    TypeOK
    SocketsExclusive
    NoSocketLeak
    AcceptOnOpenSocket
    DataInFlight
    TransferNeedsLogin
    NoUnsavedData
    RetryBound
    RootListingComplete
PROPERTY
    AcknowledgedClosed
