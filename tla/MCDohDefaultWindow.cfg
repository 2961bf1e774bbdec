CONSTANTS
    Programs = {"doh"}
    Endpoints <- TwoEndpoints
    TlsLens = {7}
    Lens = {}
    Gaps = {0}
    Flags = {}
    CfgWindow = 0
    BenchWindow = 2
    MaxFlows = 1
    QueueSize = 1
    MaxPackets = 16
    None = None
SPECIFICATION Spec
INVARIANT ContractNeverRejects
