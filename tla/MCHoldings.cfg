CONSTANTS
    Exchanges = {e1, e2}
    Customers = {c1}
    Bodies <- MCBodies
    Sums <- MCSums
    Requests = {r1, r2, r3}
    Operations = {"submit", "cancel", "fund", "queue", "uid", "email"}
    Outages = TRUE
    MaxCrashes = 1
SYMMETRY Symmetry
SPECIFICATION Spec
INVARIANTS TypeOK SubmissionsSettle StatusSettles VerifiedIsBacked
