SPECIFICATION Spec
CONSTANTS
    Blueprint <- SharedTriggerBlueprints
    SupportedRuntime = {"nodejs", "python"}
    NoLayer = NoLayer
    Outside = Outside
    Fingerprint <- MCFingerprint
    ReferenceSafe <- MCReferenceSafe
INVARIANT EveryAbsorberTriggered
