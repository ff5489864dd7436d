SPECIFICATION Spec
CONSTANTS
    Api <- ChainedApis
    Absent = Absent
INVARIANT DocumentedGuardsApply
