CONSTANTS
    Tids = {1}
    Units = {1}
    Addrs = {0, 2}
    AddrSpace = 3
    RegVals = {0, 65535}
    MaxRegs = 2
    PendingCap = 2
    WindowSize = 2
    MaxSensors = 2
    MaxReadings = 5
    None = None
SPECIFICATION MbSpec
INVARIANTS AttributionRight StateCoversHistory
