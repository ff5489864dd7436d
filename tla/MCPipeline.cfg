SPECIFICATION Spec
CONSTANTS
    Blueprint <- PipelineBlueprints
    SupportedRuntime = {"nodejs", "python"}
    NoLayer = NoLayer
    Outside = Outside
    Fingerprint <- MCFingerprint
    ReferenceSafe <- MCReferenceSafe
INVARIANTS TypeOK LeastPrivilege SharedByIsComplete StoreInStep
    LayersCoverRuntimes TriggersReachHandlers ReferencesResolve
PROPERTY NothingReplaced
