SPECIFICATION ForwardingSpec
CONSTANTS
    Blueprint <- ForwardBlueprints
    Absent = Absent
    Invocations = {i1, i2}
    MaxMessages = 2
    BatchSize = 2
    MaxCrashes = 1
INVARIANTS ForwardingTypeOK
PROPERTIES DeliversToEveryTopic EveryMessageSettles
