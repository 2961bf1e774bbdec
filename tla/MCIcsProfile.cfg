CONSTANTS
    Tids = {1, 2}
    Units = {1}
    Addrs = {0, 2}
    AddrSpace = 3
    RegVals = {0, 40000}
    MaxRegs = 2
    CfgWindow = 3
    MaxWindow = 2
    MaxPending = 1
    MaxSensors = 2
    QueueSize = 1
    InputDim = 16
    AllowPad = FALSE
    MaxPackets = 6
    Clock <- MCClock
    None = None
SPECIFICATION Spec
INVARIANTS TypeOK AttributionRight ContractNeverRejects
PROPERTIES KeepsSensorWindows QueueIsFifo DropsOnlyInLongResponse HandlerReturns
