CONSTANTS
    WorkerCount = 2
    MaxStuck = 2
SPECIFICATION Spec
INVARIANTS NothingUsedAfterItsEnd MadeOfLiveParts NothingLeftBehind
