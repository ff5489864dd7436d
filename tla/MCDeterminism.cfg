SPECIFICATION Spec
CONSTANTS
    Blueprint <- OrderBlueprints
    SupportedRuntime = {"nodejs", "python"}
    NoLayer = NoLayer
    Outside = Outside
    Fingerprint <- MCFingerprint
    ReferenceSafe <- MCReferenceSafe
PROPERTIES OutputDependsOnBlueprintOnly EveryHandlerSettled
