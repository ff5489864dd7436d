SPECIFICATION BackingsSpec
CONSTANTS
    Blueprint <- BackingBlueprints
    Absent = Absent
INVARIANTS BackingsTypeOK FirstEntryKept ConnectionsAreWhole StoreEntriesResolve
    BackingReferencesResolve DatabaseHandlersCanLogIn CacheHandlersCanLogIn
    RunnerReachesItsDatabase GroupsAreMinted InternalLinksApart
    ConfigStoresAreFound SubscriptionsAreAskedFor SpecsFitTogether
