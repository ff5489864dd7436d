SPECIFICATION ForwardingSpec
CONSTANTS
    Blueprint <- FifoBlueprints
    Absent = Absent
    Invocations = {i1, i2}
    MaxMessages = 3
    BatchSize = 2
    MaxCrashes = 0
INVARIANT GroupOrderIsPreserved
