SPECIFICATION Spec
CONSTANTS
    Components = {"serial"}
    MaxCuts = 0
    MaxErrors = 0
    RingSize = 3
    StoreOnce = {TRUE}
    MaxChars = 0
    START_FRAME_1 = 3
    START_FRAME_2 = 2
    Width = 2
    Size = 5
    Limit = 6
    MaxRequests = 1
    Frequences = {1}
    Runtimes = {1}
    FreqMax = 2
    Runs = {1}
    Elem = {e1}
    Junk = e1
    uiElementsMax = 1
CHECK_DEADLOCK FALSE
INVARIANT
    AnswerReturned
