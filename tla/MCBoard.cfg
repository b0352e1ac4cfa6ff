SPECIFICATION Spec
CONSTANTS
    Components = {"boot", "stdin", "frame", "serial", "vib", "fifo"}
    MaxCuts = 2
    MaxErrors = 1
    RingSize = 3
    StoreOnce = {TRUE, FALSE}
    MaxChars = 7
    START_FRAME_1 = 3
    START_FRAME_2 = 2
    Width = 2
    Size = 5
    Limit = 6
    MaxRequests = 3
    Frequences = {0, 1, 2, 3}
    Runtimes = {0, 1, 2}
    FreqMax = 2
    Runs = {1, 2}
    Elem = {e1, e2, e3}
    Junk = e1
    uiElementsMax = 4
CHECK_DEADLOCK FALSE
INVARIANTS
    BoardTypeOK
    RunsUserProgram
    NothingLost
    FrameParsed
    ReadingFromThisCall
    ZeroNeedsOverlap
    RingConsistent
PROPERTIES
    UserFilesKept
    ReachesScripts
    InputDelivered
    CallReturns
    MotorStops
    ImplementsQueue
