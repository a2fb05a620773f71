CONSTANTS
    Nodes = {m1, m2, n1}
    Founders = {m1, m2}
    This = m1
    Requests = {q1, q2, q3, q4}
    Operations = {"register", "initiate", "approve", "remove", "hear"}
    Outages = TRUE
    MaxCrashes = 1
SYMMETRY Symmetry
SPECIFICATION Spec
INVARIANTS TypeOK JoinsAreAgreed VerdictSettles ListedOnce
PROPERTY ImplementsAdmission
CHECK_DEADLOCK FALSE
