--------------------------- MODULE SqlDatabaseEmit ---------------------------
(***************************************************************************)
(* What is emitted for a SQL database: an Aurora cluster, or an instance   *)
(* behind a proxy; a reader, the application user's secret, and the        *)
(* maintenance runner that creates that user.                              *)
(***************************************************************************)
EXTENDS BackingBlueprint

InstanceName(d) == <<d, "rds_instance">>
ClusterName(d) == <<d, "rds_cluster">>
ReaderName(d) == <<d, "rds_reader">>
DbSubnetGroupName(d) == <<d, "rds_subnet_group">>
ProxyName(d) == <<d, "rds_proxy">>
ProxyRoleName(d) == <<d, "rds_proxy_role">>
AppUserSecretName(d) == <<d, "sqldb_app_user_secret">>
RunnerName(d) == <<d, "sqldb_maintenance_runner">>
RunnerRoleName(d) == <<d, "sqldb_maintenance_runner_role">>

HostKey(d) == <<d, "rds_instance", "host">>
ReadHostKey(d) == <<d, "rds_instance", "read_host">>
DatabaseNameKey(d) == <<d, "rds_instance", "database_name">>

ProxyTarget == "celerity.internal.sqldatabase.proxyTarget"
MaintenanceTarget == "celerity.internal.sqldatabase.maintenanceTarget"

AuroraEnabled(b, d) == DeployConfig(b.aurora, LogicalName(b, d), FALSE)

\* The application has a secret of its own unless it authenticates with IAM.
AppUserAuth(b, d) == AuthMode(b, d) # "iam"
AppUserSecret(d) == <<AppUserSecretName(d), "id">>

\* A slip: the instance keeps it, on Aurora as well.
MasterSecretOfInstance(b, d) == <<InstanceName(d), "masterUserSecret">>

\* The secret RDS keeps for the master user.
MasterSecret(b, d) ==
    <<IF AuroraEnabled(b, d) THEN ClusterName(d) ELSE InstanceName(d),
      "masterUserSecret">>

\* What the application, and the runner, connect to.
Endpoint(b, d) == IF AuroraEnabled(b, d) THEN ClusterName(d) ELSE ProxyName(d)

-----------------------------------------------------------------------------
(* Resources.                                                              *)

\* A slip: an author's label of the same key is left in place.
ProxyTargetLabelsKept(b, d) ==
    LabelsAnd(OneLabel(ProxyTarget, LogicalName(b, d)), OwnLabels(b, d))

\* A copy: the label is the instance's alone.
ProxyTargetLabels(b, d) ==
    LabelsWith(OwnLabels(b, d), ProxyTarget, LogicalName(b, d))

InDatabaseGroup(b, d) == {<<VpcOf(b, d), SecurityGroup(d, "db")>>}
SubnetRefs(b, d) == {DbSubnetGroupName(d)}

StandaloneInstance(b, d) ==
    [Concrete("rds/dbInstance", d) EXCEPT
        !.labels = ProxyTargetLabels(b, d), !.selector = b.selector[d],
        !.refs = SubnetRefs(b, d), !.groups = InDatabaseGroup(b, d),
        !.master = AppUserAuth(b, d)]

\* A slip: only the master is registered with the proxy.
RegisteredMasterOnly(b, d) ==
    IF AppUserAuth(b, d) THEN {MasterSecret(b, d)} ELSE {}

\* What the proxy authenticates with, to the database and for the application.
RegisteredSecrets(b, d) ==
    IF AppUserAuth(b, d) THEN {MasterSecret(b, d), AppUserSecret(d)} ELSE {}

\* The role reads every secret the proxy is registered with, or connects.
ProxyRole(b, d) ==
    [Concrete("iam/role", d) EXCEPT
        !.secrets = RegisteredSecrets(b, d),
        !.refs = IF AppUserAuth(b, d) THEN {} ELSE {InstanceName(d)}]

Proxy(b, d) ==
    [WithOwnLabels(b, d, Concrete("rds/dbProxy", d)) EXCEPT
        !.selector = OneLabel(ProxyTarget, LogicalName(b, d)),
        !.refs = {ProxyRoleName(d), VpcName(VpcOf(b, d))},
        !.groups = {<<VpcOf(b, d), SecurityGroup(d, "proxy")>>},
        !.secrets = RegisteredSecrets(b, d)]

AuroraCluster(b, d) ==
    [WithOwnLabels(b, d, Concrete("rds/dbCluster", d)) EXCEPT
        !.selector = b.selector[d],
        !.refs = SubnetRefs(b, d), !.groups = InDatabaseGroup(b, d),
        !.master = AppUserAuth(b, d)]

ClusterMember(b, d) ==
    [WithOwnLabels(b, d, Concrete("rds/dbInstance", d)) EXCEPT
        !.refs = {ClusterName(d)}]

TopologyResources(b, d) ==
    IF AuroraEnabled(b, d)
    THEN Entry(ClusterName(d), AuroraCluster(b, d))
            ++ Entry(InstanceName(d), ClusterMember(b, d))
    ELSE Entry(InstanceName(d), StandaloneInstance(b, d))
            ++ Entry(ProxyName(d), Proxy(b, d))
            ++ Entry(ProxyRoleName(d), ProxyRole(b, d))

ReaderInstance(b, d) ==
    IF AuroraEnabled(b, d) THEN ClusterMember(b, d)
    ELSE [ClusterMember(b, d) EXCEPT !.refs = {InstanceName(d)}]

\* A copy of the database's labels.
AppUserSecretResource(b, d) ==
    [Concrete("secretsmanager/secret", d) EXCEPT !.labels = OwnLabels(b, d)]

DbSubnetGroup(b, d) ==
    [Concrete("rds/dbSubnetGroup", d) EXCEPT !.refs = {VpcName(VpcOf(b, d))}]

-----------------------------------------------------------------------------
(* The maintenance runner.                                                 *)

RunnerSecrets(b, d) ==
    IF AppUserAuth(b, d) THEN {MasterSecret(b, d), AppUserSecret(d)} ELSE {}

\* Placed by the labels its VPC selects by; it selects what it connects to.
MaintenanceRunner(b, d) ==
    [Concrete("lambda/function", d) EXCEPT
        !.labels = b.selector[VpcOf(b, d)],
        !.selector = OneLabel(MaintenanceTarget, <<d>>),
        !.refs = {RunnerRoleName(d), HostKey(d), DatabaseNameKey(d)},
        !.secrets = RunnerSecrets(b, d)]

MaintenanceRunnerRole(b, d) ==
    [Concrete("iam/role", d) EXCEPT
        !.secrets = RunnerSecrets(b, d),
        !.refs = IF AppUserAuth(b, d) THEN {} ELSE {InstanceName(d)}]

RunnerDiagnostics(b, d) ==
    IF b.artefact THEN {} ELSE {Warning(d, "no runner artefact")}

\* A slip: the runner connects to the instance.
MarkInstance(b, d, resources) ==
    [resources EXCEPT ![InstanceName(d)].labels =
        LabelsWith(@, MaintenanceTarget, <<d>>)]

\* The mark is written into the endpoint's label map, and so into the map of all
\* who share it.
MarkTarget(b, d, resources) ==
    LET marked(n) == \/ n = Endpoint(b, d)
                     \/ resources[n].shared /\ resources[Endpoint(b, d)].shared
    IN  [n \in DOMAIN resources |->
            IF marked(n)
            THEN [resources[n] EXCEPT !.labels =
                    LabelsWith(@, MaintenanceTarget, <<d>>)]
            ELSE resources[n]]

-----------------------------------------------------------------------------
(* The emitter.                                                            *)

PresetUnsuitableForSql(b, d) ==
    \E v \in PlacedIn(b, d) : VpcPreset(b, v) \in {"public", "light-public", "light"}

UnmarkedResources(b, d) ==
    Entry(DbSubnetGroupName(d), DbSubnetGroup(b, d))
        ++ TopologyResources(b, d)
        ++ When(d \in b.replicas, Entry(ReaderName(d), ReaderInstance(b, d)))
        ++ When(AppUserAuth(b, d),
                Entry(AppUserSecretName(d), AppUserSecretResource(b, d)))
        ++ Entry(RunnerName(d), MaintenanceRunner(b, d))
        ++ Entry(RunnerRoleName(d), MaintenanceRunnerRole(b, d))

DatabaseResources(b, d) == MarkTarget(b, d, UnmarkedResources(b, d))

\* Value -> the resource whose endpoint it is; the database name is a literal.
DbDerivedValues(b, d) ==
    Entry(HostKey(d), Endpoint(b, d)) ++ Entry(DatabaseNameKey(d), Absent)
        ++ When(d \in b.replicas,
                Entry(ReadHostKey(d), IF AuroraEnabled(b, d) THEN ClusterName(d)
                                      ELSE ReaderName(d)))

\* What is wrong with the spec is reported before what is wrong with the VPC.
EmitSqlDatabase(b, d) ==
    LET deferred == DeferredErrors(b, d, {"engine", "authMode", "readReplicas"})
    IN  CASE deferred # {} -> NothingEmitted(deferred)
          [] deferred = {} /\ PresetUnsuitableForSql(b, d) ->
                NothingEmitted({Error(d, "preset")})
          [] deferred = {} /\ PlacedIn(b, d) = {} ->
                NothingEmitted({Error(d, "no VPC")})
          [] OTHER ->
                EmitResult(DatabaseResources(b, d), DbDerivedValues(b, d),
                           RunnerDiagnostics(b, d))

\* What a handler that authenticates with IAM is given the right to connect to.
AuthTargetForHandler(b, d) ==
    IF AuroraEnabled(b, d) THEN ClusterName(d) ELSE ProxyName(d)
=============================================================================
