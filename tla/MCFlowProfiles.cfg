CONSTANTS
    Programs = {"doh", "iot", "tls_bench", "tcp_bench", "iot_multicore"}
    Endpoints <- ThreeEndpoints
    TlsLens = {0, 7}
    Lens = {40, 60}
    Gaps = {0, 3}
    Flags = {1}
    CfgWindow = 2
    BenchWindow = 2
    MaxFlows = 2
    QueueSize = 1
    MaxPackets = 5
    None = None
SPECIFICATION Spec
INVARIANTS VectorsExact ContractNeverRejects
