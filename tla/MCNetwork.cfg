SPECIFICATION Spec
CONSTANTS
    Components = {"wifi", "socket", "ble", "path", "queue"}
    Builds = {TRUE, FALSE}
    MaxEvents = 4
    Timeouts = {0, 1, 2, 5}
    Forever = Forever
    Poll = 2
    Width = 2
    Lengths = {0, 1, 2}
    Capacity = 2
    MaxElapsed = 7
    Clients = {c1, c2}
    NoClient = NoClient
    MaxQueue = 4
    Chars = {"/", "a", "b"}
    Params <- MCParams
    MaxPath = 6
    Blocks = {b1, b2, b3, b4}
    ftpBuffer = ftpBuffer
    uiElementsMax = 3
CHECK_DEADLOCK FALSE
INVARIANTS
    NetworkTypeOK
    StaysDisconnected
    Reassociation
    OutcomeTrue
    OneLink
    HeapOwnership
    RingAfterFlush
PROPERTIES
    CallEnds
    Serves
    Navigates
