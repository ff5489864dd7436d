SPECIFICATION Spec
CONSTANTS
    Api <- RoutedApis
    Absent = Absent
INVARIANTS TypeOK RoutesOnOwnProtocol AuthorizersFitRoutes GuardedRoutesStayGuarded
    GuardsAreInvocable DanglingIsReported MappingKeysApart
