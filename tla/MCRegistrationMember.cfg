CONSTANTS
    Nodes = {m1, m2, n1}
    Founders = {m1, m2}
    This = m1
    Requests = {q1, q2}
    Operations = {"register", "initiate", "approve", "remove", "hear"}
    Outages = TRUE
    MaxCrashes = 0
SPECIFICATION Spec
PROPERTIES MembersAreKnown
CHECK_DEADLOCK FALSE
