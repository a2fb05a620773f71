CONSTANTS
    c1 = c1
    c2 = c2
    c3 = c3
    b1 = b1
    b2 = b2
    Calls = {c1, c2, c3}
    Batches = {b1, b2}
    Asks <- MCAsks
    Kinds = {"tcp", "ws"}
    MaxSockets = 2
    MaxBlocks = 1
    None = None
    ReceiveGap = 2
    ChangeGap = 1
SPECIFICATION FairSpec
INVARIANTS TypeOK EachIsTimed AnswersAreOwn AnswersAreTaken
PROPERTIES CallsEnd
CHECK_DEADLOCK FALSE
