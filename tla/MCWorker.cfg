CONSTANTS
    Programs = {"classifier", "bench", "bench_drop", "prototype"}
    Mbufs = {m1, m2, m3}
    BurstSize = 2
    TxRoom = 2
    DropAnomaly = TRUE
    MaxPackets = 5
SPECIFICATION Spec
INVARIANTS TypeOK MbufsConserved ForwardedInOrder
PROPERTY BurstReturns
