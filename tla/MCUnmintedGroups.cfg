SPECIFICATION BackingsSpec
CONSTANTS
    Blueprint <- DriftBlueprints
    Absent = Absent
INVARIANTS EveryGroupIsMinted
