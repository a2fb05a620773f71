CONSTANTS
    Exchanges = {e1}
    Customers = {c1}
    Bodies <- MCBodies
    Sums <- MCSums
    Requests = {r1, r2}
    Operations = {"submit", "uid"}
    Outages = FALSE
    MaxCrashes = 0
SYMMETRY Symmetry
SPECIFICATION Spec
INVARIANT SuccessIsVerified
