CONSTANTS
    Keys = {k1, k2, k3, k4, k5}
    Capacity = 4
SPECIFICATION Spec
INVARIANTS TypeOK OneKeyPerEntry
