SPECIFICATION BackingsSpec
CONSTANTS
    Blueprint <- RunnerLinkBlueprints
    Absent = Absent
INVARIANTS RunnerLinksOnlyItsTarget
