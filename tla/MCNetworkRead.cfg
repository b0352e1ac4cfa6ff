SPECIFICATION Spec
CONSTANTS
    Components = {"socket"}
    Builds = {TRUE}
    MaxEvents = 1
    Timeouts = {2}
    Forever = Forever
    Poll = 2
    Width = 2
    Lengths = {1, 2}
    Capacity = 2
    MaxElapsed = 4
    Clients = {c1}
    NoClient = NoClient
    MaxQueue = 0
    Chars = {"/", "a", "b"}
    Params <- MCParams
    MaxPath = 6
    Blocks = {b1}
    ftpBuffer = ftpBuffer
    uiElementsMax = 1
CHECK_DEADLOCK FALSE
INVARIANT
    TimeoutRaised
