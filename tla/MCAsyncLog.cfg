CONSTANTS
    Workers = {w1, w2}
    LogRingSize = 4
    Burst = 1
    BatchSize = 2
    MaxEvents = 5
    NoSlot = NoSlot
SPECIFICATION Spec
INVARIANTS TypeOK SlotsConserved CountersNeverExceed LeavesAtMostOneBurst
PROPERTIES FileFollowsSubmissions StopEndsAll
