SPECIFICATION Spec
CONSTANTS
    Wiring <- AllWirings
    Handler = "h"
    Absent = Absent
INVARIANTS TypeOK SourcesReachFunction PlacementReachesFunction
    OrderDoesNotShow SilenceMeansDelivered BucketEventsStamped
    SettingsApplyOrReported
