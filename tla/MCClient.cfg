CONSTANTS
    u1 = u1
    u2 = u2
    Users = {u1, u2}
    MaxCalls = 2
    MaxSteps = 4
    MaxFails = 1
    None = None
SPECIFICATION MCSpec
INVARIANTS TypeOK ExchangeIsOwn HoldingsAreOwn WorkIsUnderWay OneSubmission
PROPERTIES StatusShown
CHECK_DEADLOCK FALSE
