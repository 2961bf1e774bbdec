CONSTANTS
    Keys = {k1, k2, k3, k4}
    Requests = {r1, r2}
    NoRequest = NoRequest
    Capacity = 3
SPECIFICATION Spec
SYMMETRY Symmetry
INVARIANTS TypeOK SlotsPartitioned
PROPERTY RefinesPendingRequests
