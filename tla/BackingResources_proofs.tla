----------------------- MODULE BackingResources_proofs -----------------------
(***************************************************************************)
(* What the backings of a transform come to, for every blueprint and every *)
(* order of the emitters: each emitted resource is its own emitter's, and  *)
(* what the store, the functions and the other resources say of it holds.  *)
(***************************************************************************)
EXTENDS BackingResources, ResourcesStore_proofs, FiniteSetTheorems,
        WellFoundedInduction

-----------------------------------------------------------------------------
(* The emitters by kind, and the names they use.                           *)

ResultOf(x, r) ==
    CASE x.kind[r] = "sqlDatabase" -> EmitSqlDatabase(x, r)
      [] x.kind[r] = "cache" -> EmitCache(x, r)
      [] x.kind[r] = "queue" -> EmitQueue(x, r)
      [] x.kind[r] = "topic" -> EmitTopic(x, r)
      [] x.kind[r] = "bucket" -> EmitBucket(x, r)
      [] x.kind[r] = "datastore" -> EmitDatastore(x, r)
      [] x.kind[r] = "config" -> EmitConfig(x, r)
      [] x.kind[r] = "vpc" -> EmitVpc(x, r)

Fields == {"type", "of", "labels", "selector", "shared", "refs", "groups", "secrets",
           "master", "spec"}

-----------------------------------------------------------------------------
(* What is emitted for a database.                                         *)

DatabaseNames(x, d) ==
    {DbSubnetGroupName(d), InstanceName(d), RunnerName(d), RunnerRoleName(d)}
        \cup {n \in {ClusterName(d)} : AuroraEnabled(x, d)}
        \cup {n \in {ProxyName(d), ProxyRoleName(d)} : ~AuroraEnabled(x, d)}
        \cup {n \in {ReaderName(d)} : d \in x.replicas}
        \cup {n \in {AppUserSecretName(d)} : AppUserAuth(x, d)}

LEMMA NamesApart ==
    ASSUME NEW d
    PROVE  /\ DbSubnetGroupName(d) \notin {InstanceName(d), RunnerName(d),
                RunnerRoleName(d), ClusterName(d), ProxyName(d), ProxyRoleName(d),
                ReaderName(d), AppUserSecretName(d)}
           /\ InstanceName(d) \notin {RunnerName(d), RunnerRoleName(d), ClusterName(d),
                ProxyName(d), ProxyRoleName(d), ReaderName(d), AppUserSecretName(d)}
           /\ RunnerName(d) \notin {RunnerRoleName(d), ClusterName(d), ProxyName(d),
                ProxyRoleName(d), ReaderName(d), AppUserSecretName(d)}
           /\ RunnerRoleName(d) \notin {ClusterName(d), ProxyName(d), ProxyRoleName(d),
                ReaderName(d), AppUserSecretName(d)}
           /\ ClusterName(d) \notin {ProxyName(d), ProxyRoleName(d), ReaderName(d),
                AppUserSecretName(d)}
           /\ ProxyName(d) \notin {ProxyRoleName(d), ReaderName(d), AppUserSecretName(d)}
           /\ ProxyRoleName(d) \notin {ReaderName(d), AppUserSecretName(d)}
           /\ ReaderName(d) # AppUserSecretName(d)
BY DEF DbSubnetGroupName, InstanceName, RunnerName, RunnerRoleName, ClusterName,
       ProxyName, ProxyRoleName, ReaderName, AppUserSecretName

LEMMA DatabaseNamesOwn ==
    ASSUME NEW x, NEW d, NEW n \in DatabaseNames(x, d)
    PROVE  n[1] = d
BY DEF DatabaseNames, DbSubnetGroupName, InstanceName, RunnerName, RunnerRoleName,
       ClusterName, ProxyName, ProxyRoleName, ReaderName, AppUserSecretName

LEMMA TopologyParts ==
    ASSUME NEW x, NEW d
    PROVE  /\ AuroraEnabled(x, d) =>
                /\ DOMAIN TopologyResources(x, d) = {ClusterName(d), InstanceName(d)}
                /\ TopologyResources(x, d)[ClusterName(d)] = AuroraCluster(x, d)
                /\ TopologyResources(x, d)[InstanceName(d)] = ClusterMember(x, d)
           /\ ~AuroraEnabled(x, d) =>
                /\ DOMAIN TopologyResources(x, d)
                        = {InstanceName(d), ProxyName(d), ProxyRoleName(d)}
                /\ TopologyResources(x, d)[InstanceName(d)] = StandaloneInstance(x, d)
                /\ TopologyResources(x, d)[ProxyName(d)] = Proxy(x, d)
                /\ TopologyResources(x, d)[ProxyRoleName(d)] = ProxyRole(x, d)
<1>1. CASE AuroraEnabled(x, d)
  BY <1>1, NamesApart DEF TopologyResources, Entry, ++
<1>2. CASE ~AuroraEnabled(x, d)
  BY <1>2, NamesApart DEF TopologyResources, Entry, ++
<1> QED
  BY <1>1, <1>2

\* The resources of a database by their names, before the runner's target is marked.
LEMMA UnmarkedParts ==
    ASSUME NEW x, NEW d
    PROVE  /\ DOMAIN UnmarkedResources(x, d) = DatabaseNames(x, d)
           /\ UnmarkedResources(x, d)[DbSubnetGroupName(d)] = DbSubnetGroup(x, d)
           /\ UnmarkedResources(x, d)[RunnerName(d)] = MaintenanceRunner(x, d)
           /\ UnmarkedResources(x, d)[RunnerRoleName(d)] = MaintenanceRunnerRole(x, d)
           /\ AuroraEnabled(x, d) =>
                /\ UnmarkedResources(x, d)[ClusterName(d)] = AuroraCluster(x, d)
                /\ UnmarkedResources(x, d)[InstanceName(d)] = ClusterMember(x, d)
           /\ ~AuroraEnabled(x, d) =>
                /\ UnmarkedResources(x, d)[InstanceName(d)] = StandaloneInstance(x, d)
                /\ UnmarkedResources(x, d)[ProxyName(d)] = Proxy(x, d)
                /\ UnmarkedResources(x, d)[ProxyRoleName(d)] = ProxyRole(x, d)
           /\ d \in x.replicas =>
                UnmarkedResources(x, d)[ReaderName(d)] = ReaderInstance(x, d)
           /\ AppUserAuth(x, d) =>
                UnmarkedResources(x, d)[AppUserSecretName(d)] = AppUserSecretResource(x, d)
<1> DEFINE f1 == Entry(DbSubnetGroupName(d), DbSubnetGroup(x, d))
           f2 == TopologyResources(x, d)
           f3 == When(d \in x.replicas, Entry(ReaderName(d), ReaderInstance(x, d)))
           f4 == When(AppUserAuth(x, d),
                      Entry(AppUserSecretName(d), AppUserSecretResource(x, d)))
           f5 == Entry(RunnerName(d), MaintenanceRunner(x, d))
           f6 == Entry(RunnerRoleName(d), MaintenanceRunnerRole(x, d))
           u == f1 ++ f2 ++ f3 ++ f4 ++ f5 ++ f6
<1>1. UnmarkedResources(x, d) = u
  BY DEF UnmarkedResources
<1>2. DOMAIN f1 = {DbSubnetGroupName(d)} /\ f1[DbSubnetGroupName(d)] = DbSubnetGroup(x, d)
  BY DEF Entry
<1>3. /\ d \in x.replicas =>
            DOMAIN f3 = {ReaderName(d)} /\ f3[ReaderName(d)] = ReaderInstance(x, d)
      /\ d \notin x.replicas => DOMAIN f3 = {}
  BY DEF Entry, When
<1>4. /\ AppUserAuth(x, d) => DOMAIN f4 = {AppUserSecretName(d)}
            /\ f4[AppUserSecretName(d)] = AppUserSecretResource(x, d)
      /\ ~AppUserAuth(x, d) => DOMAIN f4 = {}
  BY DEF Entry, When
<1>5. /\ DOMAIN f5 = {RunnerName(d)} /\ f5[RunnerName(d)] = MaintenanceRunner(x, d)
      /\ DOMAIN f6 = {RunnerRoleName(d)}
      /\ f6[RunnerRoleName(d)] = MaintenanceRunnerRole(x, d)
  BY DEF Entry
<1> HIDE DEF f1, f2, f3, f4, f5, f6
<1>6. /\ DOMAIN u = DOMAIN f1 \cup DOMAIN f2 \cup DOMAIN f3 \cup DOMAIN f4
                        \cup DOMAIN f5 \cup DOMAIN f6
      /\ \A n \in DOMAIN f1 : u[n] = f1[n]
      /\ \A n \in DOMAIN f2 \ DOMAIN f1 : u[n] = f2[n]
      /\ \A n \in DOMAIN f3 \ (DOMAIN f1 \cup DOMAIN f2) : u[n] = f3[n]
      /\ \A n \in DOMAIN f4 \ (DOMAIN f1 \cup DOMAIN f2 \cup DOMAIN f3) : u[n] = f4[n]
      /\ \A n \in DOMAIN f5 \ (DOMAIN f1 \cup DOMAIN f2 \cup DOMAIN f3 \cup DOMAIN f4) :
            u[n] = f5[n]
      /\ \A n \in DOMAIN f6 \ (DOMAIN f1 \cup DOMAIN f2 \cup DOMAIN f3 \cup DOMAIN f4
                                    \cup DOMAIN f5) : u[n] = f6[n]
  BY DEF ++
<1> HIDE DEF u
<1>7. CASE AuroraEnabled(x, d)
  <2>1. /\ DOMAIN f2 = {ClusterName(d), InstanceName(d)}
        /\ f2[ClusterName(d)] = AuroraCluster(x, d)
        /\ f2[InstanceName(d)] = ClusterMember(x, d)
    BY <1>7, TopologyParts DEF f2
  <2>2. DOMAIN u = DatabaseNames(x, d)
    BY <1>2, <1>3, <1>4, <1>5, <1>6, <1>7, <2>1 DEF DatabaseNames
  <2> QED
    BY <1>1, <1>2, <1>3, <1>4, <1>5, <1>6, <1>7, <2>1, <2>2, NamesApart
<1>8. CASE ~AuroraEnabled(x, d)
  <2>1. /\ DOMAIN f2 = {InstanceName(d), ProxyName(d), ProxyRoleName(d)}
        /\ f2[InstanceName(d)] = StandaloneInstance(x, d)
        /\ f2[ProxyName(d)] = Proxy(x, d)
        /\ f2[ProxyRoleName(d)] = ProxyRole(x, d)
    BY <1>8, TopologyParts DEF f2
  <2>2. DOMAIN u = DatabaseNames(x, d)
    BY <1>2, <1>3, <1>4, <1>5, <1>6, <1>8, <2>1 DEF DatabaseNames
  <2> QED
    BY <1>1, <1>2, <1>3, <1>4, <1>5, <1>6, <1>8, <2>1, <2>2, NamesApart
<1> QED
  BY <1>7, <1>8

\* What a resource is and what it refers to.
Relates(p, type, r, refs, groups, secrets) ==
    /\ DOMAIN p = Fields /\ p.type = type /\ p.of = r
    /\ p.refs = refs /\ p.groups = groups /\ p.secrets = secrets

IsOf(p, r) == DOMAIN p = Fields /\ p.of = r

LEMMA RelatesIsOf ==
    ASSUME NEW p, NEW t, NEW r, NEW rs, NEW gs, NEW ss, Relates(p, t, r, rs, gs, ss)
    PROVE  IsOf(p, r)
BY DEF Relates, IsOf

LEMMA TopologyRelates ==
    ASSUME NEW x, NEW d
    PROVE  /\ Relates(AuroraCluster(x, d), "rds/dbCluster", d, SubnetRefs(x, d),
                      InDatabaseGroup(x, d), {})
           /\ Relates(ClusterMember(x, d), "rds/dbInstance", d, {ClusterName(d)}, {}, {})
           /\ Relates(StandaloneInstance(x, d), "rds/dbInstance", d, SubnetRefs(x, d),
                      InDatabaseGroup(x, d), {})
           /\ Relates(Proxy(x, d), "rds/dbProxy", d,
                      {ProxyRoleName(d), VpcName(VpcOf(x, d))},
                      {<<VpcOf(x, d), SecurityGroup(d, "proxy")>>}, RegisteredSecrets(x, d))
           /\ Relates(ProxyRole(x, d), "iam/role", d,
                      IF AppUserAuth(x, d) THEN {} ELSE {InstanceName(d)}, {},
                      RegisteredSecrets(x, d))
<1>1. Relates(AuroraCluster(x, d), "rds/dbCluster", d, SubnetRefs(x, d),
              InDatabaseGroup(x, d), {})
  BY DEF Relates, Fields, AuroraCluster, WithOwnLabels, Concrete
<1>2. Relates(ClusterMember(x, d), "rds/dbInstance", d, {ClusterName(d)}, {}, {})
  BY DEF Relates, Fields, ClusterMember, WithOwnLabels, Concrete
<1>3. Relates(StandaloneInstance(x, d), "rds/dbInstance", d, SubnetRefs(x, d),
              InDatabaseGroup(x, d), {})
  BY DEF Relates, Fields, StandaloneInstance, Concrete
<1>4. Relates(Proxy(x, d), "rds/dbProxy", d, {ProxyRoleName(d), VpcName(VpcOf(x, d))},
              {<<VpcOf(x, d), SecurityGroup(d, "proxy")>>}, RegisteredSecrets(x, d))
  BY DEF Relates, Fields, Proxy, WithOwnLabels, Concrete
<1>5. Relates(ProxyRole(x, d), "iam/role", d,
              IF AppUserAuth(x, d) THEN {} ELSE {InstanceName(d)}, {},
              RegisteredSecrets(x, d))
  BY DEF Relates, Fields, ProxyRole, Concrete
<1> QED
  BY <1>1, <1>2, <1>3, <1>4, <1>5

LEMMA RunnerRelates ==
    ASSUME NEW x, NEW d
    PROVE  /\ Relates(MaintenanceRunner(x, d), "lambda/function", d,
                      {RunnerRoleName(d), HostKey(d), DatabaseNameKey(d)}, {},
                      RunnerSecrets(x, d))
           /\ Relates(MaintenanceRunnerRole(x, d), "iam/role", d,
                      IF AppUserAuth(x, d) THEN {} ELSE {InstanceName(d)}, {},
                      RunnerSecrets(x, d))
           /\ Relates(DbSubnetGroup(x, d), "rds/dbSubnetGroup", d,
                      {VpcName(VpcOf(x, d))}, {}, {})
           /\ Relates(ReaderInstance(x, d), "rds/dbInstance", d,
                      IF AuroraEnabled(x, d) THEN {ClusterName(d)} ELSE {InstanceName(d)},
                      {}, {})
           /\ Relates(AppUserSecretResource(x, d), "secretsmanager/secret", d, {}, {}, {})
<1>1. Relates(MaintenanceRunner(x, d), "lambda/function", d,
              {RunnerRoleName(d), HostKey(d), DatabaseNameKey(d)}, {}, RunnerSecrets(x, d))
  BY DEF Relates, Fields, MaintenanceRunner, Concrete
<1>2. Relates(MaintenanceRunnerRole(x, d), "iam/role", d,
              IF AppUserAuth(x, d) THEN {} ELSE {InstanceName(d)}, {}, RunnerSecrets(x, d))
  BY DEF Relates, Fields, MaintenanceRunnerRole, Concrete
<1>3. Relates(DbSubnetGroup(x, d), "rds/dbSubnetGroup", d, {VpcName(VpcOf(x, d))}, {}, {})
  BY DEF Relates, Fields, DbSubnetGroup, Concrete
<1>4. Relates(ReaderInstance(x, d), "rds/dbInstance", d,
              IF AuroraEnabled(x, d) THEN {ClusterName(d)} ELSE {InstanceName(d)}, {}, {})
  <2>1. CASE AuroraEnabled(x, d)
    BY <2>1 DEF Relates, Fields, ReaderInstance, ClusterMember, WithOwnLabels, Concrete
  <2>2. CASE ~AuroraEnabled(x, d)
    BY <2>2 DEF Relates, Fields, ReaderInstance, ClusterMember, WithOwnLabels, Concrete
  <2> QED
    BY <2>1, <2>2
<1>5. Relates(AppUserSecretResource(x, d), "secretsmanager/secret", d, {}, {}, {})
  BY DEF Relates, Fields, AppUserSecretResource, Concrete
<1> QED
  BY <1>1, <1>2, <1>3, <1>4, <1>5

\* Who master, labels and selector are of interest.
LEMMA DatabaseLabels ==
    ASSUME NEW x, NEW d
    PROVE  /\ AuroraCluster(x, d).labels = OwnLabels(x, d)
           /\ ClusterMember(x, d).labels = OwnLabels(x, d)
           /\ ReaderInstance(x, d).labels = OwnLabels(x, d)
           /\ StandaloneInstance(x, d).labels = ProxyTargetLabels(x, d)
           /\ Proxy(x, d).labels = OwnLabels(x, d)
           /\ ProxyRole(x, d).labels = NoLabels
           /\ DbSubnetGroup(x, d).labels = NoLabels
           /\ MaintenanceRunnerRole(x, d).labels = NoLabels
           /\ MaintenanceRunner(x, d).labels = x.selector[VpcOf(x, d)]
           /\ AppUserSecretResource(x, d).labels = OwnLabels(x, d)
<1>1. /\ AuroraCluster(x, d).labels = OwnLabels(x, d)
      /\ ClusterMember(x, d).labels = OwnLabels(x, d)
      /\ StandaloneInstance(x, d).labels = ProxyTargetLabels(x, d)
      /\ Proxy(x, d).labels = OwnLabels(x, d)
  BY DEF AuroraCluster, ClusterMember, StandaloneInstance, Proxy, WithOwnLabels, Concrete
<1>2. /\ ProxyRole(x, d).labels = NoLabels /\ DbSubnetGroup(x, d).labels = NoLabels
      /\ MaintenanceRunnerRole(x, d).labels = NoLabels
      /\ MaintenanceRunner(x, d).labels = x.selector[VpcOf(x, d)]
      /\ AppUserSecretResource(x, d).labels = OwnLabels(x, d)
  BY DEF ProxyRole, DbSubnetGroup, MaintenanceRunnerRole, MaintenanceRunner,
         AppUserSecretResource, Concrete
<1>3. ReaderInstance(x, d).labels = OwnLabels(x, d)
  BY DEF ReaderInstance, ClusterMember, WithOwnLabels, Concrete
<1> QED
  BY <1>1, <1>2, <1>3

\* The mark touches labels alone, those of the endpoint and of who shares them.
MarkedCopy(p, d) == [p EXCEPT !.labels = LabelsWith(@, MaintenanceTarget, <<d>>)]

LEMMA DatabaseMarked ==
    ASSUME NEW x, NEW d, NEW n \in DatabaseNames(x, d)
    PROVE  \/ DatabaseResources(x, d)[n] = UnmarkedResources(x, d)[n]
           \/ DatabaseResources(x, d)[n] = MarkedCopy(UnmarkedResources(x, d)[n], d)
BY UnmarkedParts DEF DatabaseResources, MarkTarget, MarkedCopy

LEMMA EndpointMarked ==
    ASSUME NEW x, NEW d
    PROVE  DatabaseResources(x, d)[Endpoint(x, d)]
            = MarkedCopy(UnmarkedResources(x, d)[Endpoint(x, d)], d)
<1>1. Endpoint(x, d) \in DatabaseNames(x, d)
  BY DEF Endpoint, DatabaseNames
<1> QED
  BY <1>1, UnmarkedParts DEF DatabaseResources, MarkTarget, MarkedCopy

LEMMA UnsharedUnmarked ==
    ASSUME NEW x, NEW d, NEW n \in DatabaseNames(x, d),
           n # Endpoint(x, d), UnmarkedResources(x, d)[n].shared = FALSE
    PROVE  DatabaseResources(x, d)[n] = UnmarkedResources(x, d)[n]
BY UnmarkedParts DEF DatabaseResources, MarkTarget

LEMMA MarkedFields ==
    ASSUME NEW p, NEW d, DOMAIN p = Fields
    PROVE  /\ DOMAIN MarkedCopy(p, d) = Fields
           /\ MarkedCopy(p, d).type = p.type /\ MarkedCopy(p, d).of = p.of
           /\ MarkedCopy(p, d).selector = p.selector
           /\ MarkedCopy(p, d).refs = p.refs /\ MarkedCopy(p, d).groups = p.groups
           /\ MarkedCopy(p, d).secrets = p.secrets
           /\ MarkedCopy(p, d).master = p.master
           /\ MarkedCopy(p, d).labels = LabelsWith(p.labels, MaintenanceTarget, <<d>>)
BY DEF MarkedCopy, Fields

LEMMA MarkedRelates ==
    ASSUME NEW x, NEW d, NEW n \in DatabaseNames(x, d),
           NEW p, UnmarkedResources(x, d)[n] = p,
           NEW type, NEW refs, NEW groups, NEW secrets,
           Relates(p, type, d, refs, groups, secrets)
    PROVE  Relates(DatabaseResources(x, d)[n], type, d, refs, groups, secrets)
<1>1. Relates(MarkedCopy(p, d), type, d, refs, groups, secrets)
  BY DEF Relates, MarkedCopy, Fields
<1>2. DatabaseResources(x, d)[n] = p \/ DatabaseResources(x, d)[n] = MarkedCopy(p, d)
  <2>1. \/ DatabaseResources(x, d)[n] = UnmarkedResources(x, d)[n]
        \/ DatabaseResources(x, d)[n] = MarkedCopy(UnmarkedResources(x, d)[n], d)
    BY DatabaseMarked
  <2> QED
    BY <2>1
<1> QED
  BY <1>1, <1>2

LEMMA DatabaseDomain ==
    ASSUME NEW x, NEW d
    PROVE  DOMAIN DatabaseResources(x, d) = DatabaseNames(x, d)
BY UnmarkedParts DEF DatabaseResources, MarkTarget

LEMMA DatabaseValues ==
    ASSUME NEW x, NEW d
    PROVE  /\ DOMAIN DbDerivedValues(x, d)
                = {HostKey(d), DatabaseNameKey(d)}
                    \cup {k \in {ReadHostKey(d)} : d \in x.replicas}
           /\ DbDerivedValues(x, d)[HostKey(d)] = Endpoint(x, d)
<1>1. HostKey(d) # DatabaseNameKey(d) /\ HostKey(d) # ReadHostKey(d)
  BY DEF HostKey, DatabaseNameKey, ReadHostKey
<1> QED
  BY <1>1 DEF DbDerivedValues, Entry, When, ++

LEMMA EndpointEmitted ==
    ASSUME NEW x, NEW d
    PROVE  Endpoint(x, d) \in DatabaseNames(x, d)
BY DEF Endpoint, DatabaseNames


\* The resources of a database by their names.
LEMMA DatabaseParts ==
    ASSUME NEW x, NEW d
    PROVE  /\ Relates(DatabaseResources(x, d)[DbSubnetGroupName(d)],
                      "rds/dbSubnetGroup", d, {VpcName(VpcOf(x, d))}, {}, {})
           /\ Relates(DatabaseResources(x, d)[RunnerName(d)], "lambda/function", d,
                      {RunnerRoleName(d), HostKey(d), DatabaseNameKey(d)}, {},
                      RunnerSecrets(x, d))
           /\ Relates(DatabaseResources(x, d)[RunnerRoleName(d)], "iam/role", d,
                      IF AppUserAuth(x, d) THEN {} ELSE {InstanceName(d)}, {},
                      RunnerSecrets(x, d))
           /\ d \in x.replicas =>
                Relates(DatabaseResources(x, d)[ReaderName(d)], "rds/dbInstance", d,
                        IF AuroraEnabled(x, d) THEN {ClusterName(d)} ELSE {InstanceName(d)},
                        {}, {})
           /\ AppUserAuth(x, d) =>
                Relates(DatabaseResources(x, d)[AppUserSecretName(d)],
                        "secretsmanager/secret", d, {}, {}, {})
<1>1. {DbSubnetGroupName(d), RunnerName(d), RunnerRoleName(d)} \subseteq DatabaseNames(x, d)
  BY DEF DatabaseNames
<1>2. Relates(DatabaseResources(x, d)[DbSubnetGroupName(d)],
              "rds/dbSubnetGroup", d, {VpcName(VpcOf(x, d))}, {}, {})
  BY <1>1, UnmarkedParts, RunnerRelates, MarkedRelates
<1>3. Relates(DatabaseResources(x, d)[RunnerName(d)], "lambda/function", d,
              {RunnerRoleName(d), HostKey(d), DatabaseNameKey(d)}, {}, RunnerSecrets(x, d))
  BY <1>1, UnmarkedParts, RunnerRelates, MarkedRelates
<1>4. Relates(DatabaseResources(x, d)[RunnerRoleName(d)], "iam/role", d,
              IF AppUserAuth(x, d) THEN {} ELSE {InstanceName(d)}, {}, RunnerSecrets(x, d))
  BY <1>1, UnmarkedParts, RunnerRelates, MarkedRelates
<1>5. ASSUME d \in x.replicas
      PROVE  Relates(DatabaseResources(x, d)[ReaderName(d)], "rds/dbInstance", d,
                     IF AuroraEnabled(x, d) THEN {ClusterName(d)} ELSE {InstanceName(d)},
                     {}, {})
  <2>1. ReaderName(d) \in DatabaseNames(x, d)
    BY <1>5 DEF DatabaseNames
  <2>2. UnmarkedResources(x, d)[ReaderName(d)] = ReaderInstance(x, d)
    BY <1>5, UnmarkedParts
  <2> QED
    BY <2>1, <2>2, RunnerRelates, MarkedRelates
<1>6. ASSUME AppUserAuth(x, d)
      PROVE  Relates(DatabaseResources(x, d)[AppUserSecretName(d)],
                     "secretsmanager/secret", d, {}, {}, {})
  <2>1. AppUserSecretName(d) \in DatabaseNames(x, d)
    BY <1>6 DEF DatabaseNames
  <2> QED
    BY <1>6, <2>1, UnmarkedParts, RunnerRelates, MarkedRelates
<1> QED
  BY <1>2, <1>3, <1>4, <1>5, <1>6

LEMMA AuroraParts ==
    ASSUME NEW x, NEW d, AuroraEnabled(x, d)
    PROVE  /\ Relates(DatabaseResources(x, d)[ClusterName(d)], "rds/dbCluster", d,
                      SubnetRefs(x, d), InDatabaseGroup(x, d), {})
           /\ Relates(DatabaseResources(x, d)[InstanceName(d)], "rds/dbInstance", d,
                      {ClusterName(d)}, {}, {})
<1>1. {ClusterName(d), InstanceName(d)} \subseteq DatabaseNames(x, d)
  BY DEF DatabaseNames
<1>2. Relates(DatabaseResources(x, d)[ClusterName(d)], "rds/dbCluster", d,
              SubnetRefs(x, d), InDatabaseGroup(x, d), {})
  BY <1>1, UnmarkedParts, TopologyRelates, MarkedRelates
<1>3. Relates(DatabaseResources(x, d)[InstanceName(d)], "rds/dbInstance", d,
              {ClusterName(d)}, {}, {})
  <2>1. UnmarkedResources(x, d)[InstanceName(d)] = ClusterMember(x, d)
    BY UnmarkedParts
  <2>2. Relates(ClusterMember(x, d), "rds/dbInstance", d, {ClusterName(d)}, {}, {})
    BY TopologyRelates
  <2> QED
    BY <1>1, <2>1, <2>2, MarkedRelates
<1> QED
  BY <1>2, <1>3

LEMMA StandaloneParts ==
    ASSUME NEW x, NEW d, ~AuroraEnabled(x, d)
    PROVE  /\ Relates(DatabaseResources(x, d)[InstanceName(d)], "rds/dbInstance", d,
                      SubnetRefs(x, d), InDatabaseGroup(x, d), {})
           /\ Relates(DatabaseResources(x, d)[ProxyName(d)], "rds/dbProxy", d,
                      {ProxyRoleName(d), VpcName(VpcOf(x, d))},
                      {<<VpcOf(x, d), SecurityGroup(d, "proxy")>>}, RegisteredSecrets(x, d))
           /\ Relates(DatabaseResources(x, d)[ProxyRoleName(d)], "iam/role", d,
                      IF AppUserAuth(x, d) THEN {} ELSE {InstanceName(d)}, {},
                      RegisteredSecrets(x, d))
<1>1. {InstanceName(d), ProxyName(d), ProxyRoleName(d)} \subseteq DatabaseNames(x, d)
  BY DEF DatabaseNames
<1>2. Relates(DatabaseResources(x, d)[InstanceName(d)], "rds/dbInstance", d,
              SubnetRefs(x, d), InDatabaseGroup(x, d), {})
  BY <1>1, UnmarkedParts, TopologyRelates, MarkedRelates
<1>3. Relates(DatabaseResources(x, d)[ProxyName(d)], "rds/dbProxy", d,
              {ProxyRoleName(d), VpcName(VpcOf(x, d))},
              {<<VpcOf(x, d), SecurityGroup(d, "proxy")>>}, RegisteredSecrets(x, d))
  BY <1>1, UnmarkedParts, TopologyRelates, MarkedRelates
<1>4. Relates(DatabaseResources(x, d)[ProxyRoleName(d)], "iam/role", d,
              IF AppUserAuth(x, d) THEN {} ELSE {InstanceName(d)}, {},
              RegisteredSecrets(x, d))
  BY <1>1, UnmarkedParts, TopologyRelates, MarkedRelates
<1> QED
  BY <1>2, <1>3, <1>4

\* Each is of the database.
LEMMA DatabaseOwn ==
    ASSUME NEW x, NEW d, NEW n \in DatabaseNames(x, d)
    PROVE  IsOf(DatabaseResources(x, d)[n], d)
<1>1. \A p, t, rs, gs, ss : Relates(p, t, d, rs, gs, ss) => IsOf(p, d)
  BY RelatesIsOf
<1>2. n \in {DbSubnetGroupName(d), RunnerName(d), RunnerRoleName(d)}
        => IsOf(DatabaseResources(x, d)[n], d)
  BY <1>1, DatabaseParts
<1>3. n = ReaderName(d) /\ d \in x.replicas => IsOf(DatabaseResources(x, d)[n], d)
  BY <1>1, DatabaseParts
<1>4. n = AppUserSecretName(d) /\ AppUserAuth(x, d) => IsOf(DatabaseResources(x, d)[n], d)
  BY <1>1, DatabaseParts
<1>5. AuroraEnabled(x, d) /\ n \in {ClusterName(d), InstanceName(d)}
        => IsOf(DatabaseResources(x, d)[n], d)
  BY <1>1, AuroraParts
<1>6. ~AuroraEnabled(x, d) /\ n \in {InstanceName(d), ProxyName(d), ProxyRoleName(d)}
        => IsOf(DatabaseResources(x, d)[n], d)
  BY <1>1, StandaloneParts
<1> QED
  BY <1>2, <1>3, <1>4, <1>5, <1>6 DEF DatabaseNames
-----------------------------------------------------------------------------
(* What is emitted for a cache.                                            *)

CacheNames(x, c) ==
    {ReplicationGroupName(c)}
        \cup {n \in {CacheSubnetGroupName(c)} : PlacedIn(x, c) # {}}
        \cup {n \in {AuthSecretName(c)} : AuthMode(x, c) # "iam"}
        \cup {n \in {IamUserName(c), UserGroupName(c)} : AuthMode(x, c) = "iam"}

LEMMA CacheNamesApart ==
    ASSUME NEW c
    PROVE  /\ ReplicationGroupName(c) \notin {CacheSubnetGroupName(c), AuthSecretName(c),
                IamUserName(c), UserGroupName(c)}
           /\ CacheSubnetGroupName(c) \notin {AuthSecretName(c), IamUserName(c),
                UserGroupName(c)}
           /\ AuthSecretName(c) \notin {IamUserName(c), UserGroupName(c)}
           /\ IamUserName(c) # UserGroupName(c)
BY DEF ReplicationGroupName, CacheSubnetGroupName, AuthSecretName, IamUserName,
       UserGroupName

LEMMA CacheNamesOwn ==
    ASSUME NEW x, NEW c, NEW n \in CacheNames(x, c)
    PROVE  n[1] = c
BY DEF CacheNames, ReplicationGroupName, CacheSubnetGroupName, AuthSecretName,
       IamUserName, UserGroupName

\* The resources of a cache by their names.
LEMMA CacheContents ==
    ASSUME NEW x, NEW c
    PROVE  /\ DOMAIN CacheResources(x, c) = CacheNames(x, c)
           /\ CacheResources(x, c)[ReplicationGroupName(c)] = ReplicationGroup(x, c)
           /\ PlacedIn(x, c) # {} =>
                CacheResources(x, c)[CacheSubnetGroupName(c)] = CacheSubnetGroup(x, c)
           /\ AuthMode(x, c) # "iam" =>
                CacheResources(x, c)[AuthSecretName(c)] = AuthSecret(x, c)
           /\ AuthMode(x, c) = "iam" =>
                /\ CacheResources(x, c)[IamUserName(c)] = IamUser(c)
                /\ CacheResources(x, c)[UserGroupName(c)] = UserGroup(c)
<1> DEFINE f1 == Entry(ReplicationGroupName(c), ReplicationGroup(x, c))
           f2 == When(PlacedIn(x, c) # {},
                      Entry(CacheSubnetGroupName(c), CacheSubnetGroup(x, c)))
           f3 == CacheAuthResources(x, c)
           u == f1 ++ f2 ++ f3
<1>1. CacheResources(x, c) = u
  BY DEF CacheResources
<1>2. /\ DOMAIN f1 = {ReplicationGroupName(c)}
      /\ f1[ReplicationGroupName(c)] = ReplicationGroup(x, c)
  BY DEF Entry
<1>3. /\ PlacedIn(x, c) # {} => DOMAIN f2 = {CacheSubnetGroupName(c)}
            /\ f2[CacheSubnetGroupName(c)] = CacheSubnetGroup(x, c)
      /\ PlacedIn(x, c) = {} => DOMAIN f2 = {}
  BY DEF Entry, When
<1>4. AuthMode(x, c) # "iam" => DOMAIN f3 = {AuthSecretName(c)}
            /\ f3[AuthSecretName(c)] = AuthSecret(x, c)
  BY DEF Entry, CacheAuthResources
<1>5. AuthMode(x, c) = "iam" => DOMAIN f3 = {IamUserName(c), UserGroupName(c)}
            /\ f3[IamUserName(c)] = IamUser(c) /\ f3[UserGroupName(c)] = UserGroup(c)
  BY CacheNamesApart DEF Entry, CacheAuthResources, ++
<1> HIDE DEF f1, f2, f3
<1>6. /\ DOMAIN u = DOMAIN f1 \cup DOMAIN f2 \cup DOMAIN f3
      /\ \A n \in DOMAIN f1 : u[n] = f1[n]
      /\ \A n \in DOMAIN f2 \ DOMAIN f1 : u[n] = f2[n]
      /\ \A n \in DOMAIN f3 \ (DOMAIN f1 \cup DOMAIN f2) : u[n] = f3[n]
  BY DEF ++
<1> HIDE DEF u
<1>7. DOMAIN u = CacheNames(x, c)
  BY <1>2, <1>3, <1>4, <1>5, <1>6 DEF CacheNames
<1> QED
  BY <1>1, <1>2, <1>3, <1>4, <1>5, <1>6, <1>7, CacheNamesApart

GroupRefs(x, c) ==
    (IF AuthMode(x, c) = "iam" THEN {UserGroupName(c)} ELSE {})
        \cup (IF PlacedIn(x, c) = {} THEN {} ELSE {CacheSubnetGroupName(c)})
GroupGroups(x, c) ==
    IF PlacedIn(x, c) = {} THEN {} ELSE {<<VpcOf(x, c), SecurityGroup(c, "cache")>>}

LEMMA ReplicationGroupRelates ==
    ASSUME NEW x, NEW c
    PROVE  /\ Relates(ReplicationGroup(x, c), "elasticache/replicationGroup", c,
                      GroupRefs(x, c), GroupGroups(x, c), {})
           /\ ReplicationGroup(x, c).labels = OwnLabels(x, c)
           /\ ReplicationGroup(x, c).selector = CacheSelector(x, c)
<1>1. CASE PlacedIn(x, c) = {}
  BY <1>1 DEF ReplicationGroup, Relates, Fields, WithOwnLabels, Concrete, GroupRefs,
              GroupGroups
<1>2. CASE PlacedIn(x, c) # {}
  BY <1>2 DEF ReplicationGroup, Relates, Fields, WithOwnLabels, Concrete, GroupRefs,
              GroupGroups
<1> QED
  BY <1>1, <1>2

LEMMA CacheRelates ==
    ASSUME NEW x, NEW c
    PROVE  /\ Relates(CacheSubnetGroup(x, c), "elasticache/subnetGroup", c,
                      {VpcName(VpcOf(x, c))}, {}, {})
           /\ CacheSubnetGroup(x, c).labels = NoLabels
           /\ Relates(AuthSecret(x, c), "secretsmanager/secret", c, {}, {}, {})
           /\ AuthSecret(x, c).labels
                = LabelsWith(OwnLabels(x, c), CacheAuthLabel, LogicalName(x, c))
           /\ Relates(IamUser(c), "elasticache/user", c, {}, {}, {})
           /\ IamUser(c).labels = NoLabels
           /\ Relates(UserGroup(c), "elasticache/userGroup", c, {IamUserName(c)}, {}, {})
           /\ UserGroup(c).labels = NoLabels
BY DEF CacheSubnetGroup, AuthSecret, IamUser, UserGroup, Relates, Fields, Concrete

LEMMA CacheParts ==
    ASSUME NEW x, NEW c
    PROVE  /\ Relates(CacheResources(x, c)[ReplicationGroupName(c)],
                      "elasticache/replicationGroup", c, GroupRefs(x, c),
                      GroupGroups(x, c), {})
           /\ PlacedIn(x, c) # {} =>
                Relates(CacheResources(x, c)[CacheSubnetGroupName(c)],
                        "elasticache/subnetGroup", c, {VpcName(VpcOf(x, c))}, {}, {})
           /\ AuthMode(x, c) # "iam" =>
                Relates(CacheResources(x, c)[AuthSecretName(c)],
                        "secretsmanager/secret", c, {}, {}, {})
           /\ AuthMode(x, c) = "iam" =>
                /\ Relates(CacheResources(x, c)[IamUserName(c)], "elasticache/user", c,
                           {}, {}, {})
                /\ Relates(CacheResources(x, c)[UserGroupName(c)],
                           "elasticache/userGroup", c, {IamUserName(c)}, {}, {})
<1>1. Relates(CacheResources(x, c)[ReplicationGroupName(c)],
              "elasticache/replicationGroup", c, GroupRefs(x, c), GroupGroups(x, c), {})
  BY CacheContents, ReplicationGroupRelates
<1>2. ASSUME PlacedIn(x, c) # {}
      PROVE  Relates(CacheResources(x, c)[CacheSubnetGroupName(c)],
                     "elasticache/subnetGroup", c, {VpcName(VpcOf(x, c))}, {}, {})
  <2>1. CacheResources(x, c)[CacheSubnetGroupName(c)] = CacheSubnetGroup(x, c)
    BY <1>2, CacheContents
  <2> QED
    BY <2>1, CacheRelates
<1>3. ASSUME AuthMode(x, c) # "iam"
      PROVE  Relates(CacheResources(x, c)[AuthSecretName(c)],
                     "secretsmanager/secret", c, {}, {}, {})
  <2>1. CacheResources(x, c)[AuthSecretName(c)] = AuthSecret(x, c)
    BY <1>3, CacheContents
  <2> QED
    BY <2>1, CacheRelates
<1>4. ASSUME AuthMode(x, c) = "iam"
      PROVE  /\ Relates(CacheResources(x, c)[IamUserName(c)], "elasticache/user", c,
                        {}, {}, {})
             /\ Relates(CacheResources(x, c)[UserGroupName(c)],
                        "elasticache/userGroup", c, {IamUserName(c)}, {}, {})
  BY <1>4, CacheContents, CacheRelates
<1> QED
  BY <1>1, <1>2, <1>3, <1>4

LEMMA CacheOwn ==
    ASSUME NEW x, NEW c, NEW n \in CacheNames(x, c)
    PROVE  IsOf(CacheResources(x, c)[n], c)
<1>1. \A p, t, rs, gs, ss : Relates(p, t, c, rs, gs, ss) => IsOf(p, c)
  BY RelatesIsOf
<1>2. IsOf(CacheResources(x, c)[ReplicationGroupName(c)], c)
  BY <1>1, CacheParts
<1>3. PlacedIn(x, c) # {} => IsOf(CacheResources(x, c)[CacheSubnetGroupName(c)], c)
  BY <1>1, CacheParts
<1>4. AuthMode(x, c) # "iam" => IsOf(CacheResources(x, c)[AuthSecretName(c)], c)
  BY <1>1, CacheParts
<1>5. AuthMode(x, c) = "iam" => /\ IsOf(CacheResources(x, c)[IamUserName(c)], c)
                                /\ IsOf(CacheResources(x, c)[UserGroupName(c)], c)
  BY <1>1, CacheParts
<1> QED
  BY <1>2, <1>3, <1>4, <1>5 DEF CacheNames

-----------------------------------------------------------------------------
(* What is emitted for the others.                                         *)

LEMMA QueueParts ==
    ASSUME NEW x, NEW q
    PROVE  /\ Relates(Queue(x, q), "sqs/queue", q, {}, {}, {})
           /\ Queue(x, q).labels = OwnLabels(x, q)
           /\ Relates(QueueOrTopic(x, q, "sns/topic"), "sns/topic", q, {}, {}, {})
           /\ QueueOrTopic(x, q, "sns/topic").labels = OwnLabels(x, q)
           /\ Relates(Forwarder(x, q), "lambda/function", q, {ForwarderRoleName(q)}, {}, {})
           /\ Forwarder(x, q).labels = OneLabel(ForwardLabel, <<q>>)
           /\ Relates(ForwarderRole(q), "iam/role", q, {}, {}, {})
           /\ ForwarderRole(q).labels = NoLabels
<1>1. /\ Relates(Queue(x, q), "sqs/queue", q, {}, {}, {})
      /\ Queue(x, q).labels = OwnLabels(x, q)
  BY DEF Queue, QueueWith, QueueOrTopic, WithOwnLabels, Relates, Fields, Concrete
<1>2. /\ Relates(QueueOrTopic(x, q, "sns/topic"), "sns/topic", q, {}, {}, {})
      /\ QueueOrTopic(x, q, "sns/topic").labels = OwnLabels(x, q)
  BY DEF QueueOrTopic, WithOwnLabels, Relates, Fields, Concrete
<1>3. /\ Relates(Forwarder(x, q), "lambda/function", q, {ForwarderRoleName(q)}, {}, {})
      /\ Forwarder(x, q).labels = OneLabel(ForwardLabel, <<q>>)
      /\ Relates(ForwarderRole(q), "iam/role", q, {}, {}, {})
      /\ ForwarderRole(q).labels = NoLabels
  BY DEF Forwarder, ForwarderRole, Relates, Fields, Concrete
<1> QED
  BY <1>1, <1>2, <1>3

LEMMA StorageParts ==
    ASSUME NEW x, NEW r
    PROVE  /\ Relates(Bucket(x, r), "s3/bucket", r, {}, {}, {})
           /\ Bucket(x, r).labels = OwnLabels(x, r)
           /\ Relates(Table(x, r), "dynamodb/table", r, {}, {}, {})
           /\ Table(x, r).labels = OwnLabels(x, r)
           /\ Relates(ConfigSecret(x, r), "secretsmanager/secret", r, {}, {}, {})
           /\ ConfigSecret(x, r).labels = HandlerSelectorLabels(x, r)
           /\ Relates(ParameterTree(x, r), "ssm/parameterTree", r, {}, {}, {})
           /\ ParameterTree(x, r).labels = HandlerSelectorLabels(x, r)
<1>1. /\ Relates(Bucket(x, r), "s3/bucket", r, {}, {}, {})
      /\ Bucket(x, r).labels = OwnLabels(x, r)
  BY DEF Bucket, WithOwnLabels, Relates, Fields, Concrete
<1>2. /\ Relates(Table(x, r), "dynamodb/table", r, {}, {}, {})
      /\ Table(x, r).labels = OwnLabels(x, r)
  BY DEF Table, WithOwnLabels, Relates, Fields, Concrete
<1>3. /\ Relates(ConfigSecret(x, r), "secretsmanager/secret", r, {}, {}, {})
      /\ ConfigSecret(x, r).labels = HandlerSelectorLabels(x, r)
      /\ Relates(ParameterTree(x, r), "ssm/parameterTree", r, {}, {}, {})
      /\ ParameterTree(x, r).labels = HandlerSelectorLabels(x, r)
  BY DEF ConfigSecret, ParameterTree, Relates, Fields, Concrete
<1> QED
  BY <1>1, <1>2, <1>3

VpcGroups(x, v) ==
    IF x.preset[v] = "referenced" THEN {} ELSE {<<v, g>> : g \in MintedGroups(x, v)}

LEMMA VpcParts ==
    ASSUME NEW x, NEW v
    PROVE  /\ Relates(FlexVpc(x, v), "flex/vpc", v, {}, VpcGroups(x, v), {})
           /\ FlexVpc(x, v).labels = OwnLabels(x, v)
           /\ FlexVpc(x, v).selector = x.selector[v]
BY DEF FlexVpc, VpcGroups, WithOwnLabels, Relates, Fields, Concrete

-----------------------------------------------------------------------------
(* What an emitter returns, by the kind of the backing.                    *)

\* The emitter refuses: it emits nothing and says why.
Refuses(result, r) ==
    /\ DOMAIN result.resources = {} /\ DOMAIN result.values = {}
    /\ \E y \in result.diagnostics : y.level = "error" /\ y.about = r

\* What it returns is of the backing it was called for.
OwnResult(result, r) ==
    /\ \A n \in DOMAIN result.resources : n[1] = r /\ result.resources[n].of = r
    /\ \A k \in DOMAIN result.values : k[1] = r
    /\ \A y \in result.diagnostics : y.about = r

LEMMA NothingRefuses ==
    ASSUME NEW r, NEW D, D # {}, \A y \in D : \E w : y = Error(r, w)
    PROVE  Refuses(NothingEmitted(D), r) /\ OwnResult(NothingEmitted(D), r)
<1>1. \A y \in D : y.level = "error" /\ y.about = r
  BY DEF Error
<1> QED
  BY <1>1 DEF Refuses, OwnResult, NothingEmitted, EmitResult

LEMMA ErrorRefuses ==
    ASSUME NEW r, NEW w
    PROVE  /\ Refuses(NothingEmitted({Error(r, w)}), r)
           /\ OwnResult(NothingEmitted({Error(r, w)}), r)
<1> DEFINE D == {Error(r, w)}
<1>1. D # {} /\ \A y \in D : \E z : y = Error(r, z)
  OBVIOUS
<1> HIDE DEF D
<1>2. Refuses(NothingEmitted(D), r) /\ OwnResult(NothingEmitted(D), r)
  BY <1>1, NothingRefuses
<1> QED
  BY <1>2 DEF D

LEMMA ResultFields ==
    ASSUME NEW rs, NEW vs, NEW ds
    PROVE  /\ EmitResult(rs, vs, ds).resources = rs
           /\ EmitResult(rs, vs, ds).values = vs
           /\ EmitResult(rs, vs, ds).diagnostics = ds
BY DEF EmitResult

LEMMA DeferredAreErrors ==
    ASSUME NEW x, NEW r, NEW fs, NEW y \in DeferredErrors(x, r, fs)
    PROVE  \E w : y = Error(r, w)
BY DEF DeferredErrors

\* A database is emitted whole, in a VPC, or refused.
SqlEmitted(x, d) ==
    /\ PlacedIn(x, d) # {}
    /\ EmitSqlDatabase(x, d)
        = EmitResult(DatabaseResources(x, d), DbDerivedValues(x, d), RunnerDiagnostics(x, d))

LEMMA SqlResult ==
    ASSUME NEW x, NEW d
    PROVE  /\ OwnResult(EmitSqlDatabase(x, d), d)
           /\ SqlEmitted(x, d) \/ Refuses(EmitSqlDatabase(x, d), d)
<1> DEFINE deferred == DeferredErrors(x, d, {"engine", "authMode", "readReplicas"})
<1>1. CASE deferred # {}
  <2>1. EmitSqlDatabase(x, d) = NothingEmitted(deferred)
    BY <1>1 DEF EmitSqlDatabase
  <2>2. \A y \in deferred : \E w : y = Error(d, w)
    BY DeferredAreErrors
  <2> HIDE DEF deferred
  <2> QED
    BY <1>1, <2>1, <2>2, NothingRefuses
<1>2. CASE deferred = {} /\ PresetUnsuitableForSql(x, d)
  <2>1. EmitSqlDatabase(x, d) = NothingEmitted({Error(d, "preset")})
    BY <1>2 DEF EmitSqlDatabase, PresetUnsuitableForSql
  <2> QED
    BY <2>1, ErrorRefuses
<1>3. CASE deferred = {} /\ ~PresetUnsuitableForSql(x, d) /\ PlacedIn(x, d) = {}
  <2>1. EmitSqlDatabase(x, d) = NothingEmitted({Error(d, "no VPC")})
    BY <1>3 DEF EmitSqlDatabase
  <2> QED
    BY <2>1, ErrorRefuses
<1>4. CASE deferred = {} /\ ~PresetUnsuitableForSql(x, d) /\ PlacedIn(x, d) # {}
  <2>1. EmitSqlDatabase(x, d)
        = EmitResult(DatabaseResources(x, d), DbDerivedValues(x, d), RunnerDiagnostics(x, d))
    BY <1>4 DEF EmitSqlDatabase
  <2>2. /\ EmitSqlDatabase(x, d).resources = DatabaseResources(x, d)
        /\ EmitSqlDatabase(x, d).values = DbDerivedValues(x, d)
        /\ EmitSqlDatabase(x, d).diagnostics = RunnerDiagnostics(x, d)
    BY <2>1 DEF EmitResult
  <2>3. \A n \in DOMAIN DatabaseResources(x, d) : n[1] = d /\ IsOf(DatabaseResources(x, d)[n], d)
    BY DatabaseDomain, DatabaseOwn, DatabaseNamesOwn
  <2>4. \A k \in DOMAIN DbDerivedValues(x, d) : k[1] = d
    <3>1. HostKey(d)[1] = d /\ DatabaseNameKey(d)[1] = d /\ ReadHostKey(d)[1] = d
      BY DEF HostKey, DatabaseNameKey, ReadHostKey
    <3>2. DOMAIN DbDerivedValues(x, d)
            \subseteq {HostKey(d), DatabaseNameKey(d), ReadHostKey(d)}
      BY DatabaseValues
    <3> QED
      BY <3>1, <3>2
  <2>5. \A y \in RunnerDiagnostics(x, d) : y.about = d
    <3>1. RunnerDiagnostics(x, d) \subseteq {Warning(d, "no runner artefact")}
      BY Zenon DEF RunnerDiagnostics
    <3>2. Warning(d, "no runner artefact").about = d
      BY DEF Warning
    <3> QED
      BY <3>1, <3>2
  <2> QED
    BY <1>4, <2>1, <2>2, <2>3, <2>4, <2>5 DEF OwnResult, SqlEmitted, IsOf
<1> QED
  BY <1>1, <1>2, <1>3, <1>4

CacheWarnings(x, c) == IF PlacedIn(x, c) = {} THEN {Warning(c, "no VPC")} ELSE {}

CacheEmitted(x, c) ==
    EmitCache(x, c)
        = EmitResult(CacheResources(x, c), Entry(CacheHostKey(c), ReplicationGroupName(c)),
                     CacheWarnings(x, c))

LEMMA CacheResult ==
    ASSUME NEW x, NEW c
    PROVE  /\ OwnResult(EmitCache(x, c), c)
           /\ CacheEmitted(x, c) \/ Refuses(EmitCache(x, c), c)
<1> DEFINE deferred == DeferredErrors(x, c, {"clusterMode", "authMode"})
<1>1. CASE deferred # {}
  <2>1. EmitCache(x, c) = NothingEmitted(deferred)
    BY <1>1 DEF EmitCache
  <2>2. \A y \in deferred : \E w : y = Error(c, w)
    BY DeferredAreErrors
  <2> HIDE DEF deferred
  <2> QED
    BY <1>1, <2>1, <2>2, NothingRefuses
<1>2. CASE deferred = {} /\ PresetUnsuitableForCache(x, c)
  <2>1. EmitCache(x, c) = NothingEmitted({Error(c, "preset")})
    BY <1>2 DEF EmitCache
  <2> QED
    BY <2>1, ErrorRefuses
<1>3. CASE deferred = {} /\ ~PresetUnsuitableForCache(x, c)
  <2>1. CacheEmitted(x, c)
    BY <1>3 DEF EmitCache, CacheEmitted, CacheWarnings
  <2>2. /\ EmitCache(x, c).resources = CacheResources(x, c)
        /\ EmitCache(x, c).values = Entry(CacheHostKey(c), ReplicationGroupName(c))
        /\ EmitCache(x, c).diagnostics = CacheWarnings(x, c)
    BY <2>1, ResultFields DEF CacheEmitted
  <2>3. \A n \in DOMAIN CacheResources(x, c) : n[1] = c /\ IsOf(CacheResources(x, c)[n], c)
    BY CacheContents, CacheOwn, CacheNamesOwn
  <2>4. \A k \in DOMAIN Entry(CacheHostKey(c), ReplicationGroupName(c)) : k[1] = c
    BY DEF Entry, CacheHostKey
  <2>5. \A y \in EmitCache(x, c).diagnostics : y.about = c
    <3>1. EmitCache(x, c).diagnostics \subseteq {Warning(c, "no VPC")}
      BY <2>2 DEF CacheWarnings
    <3>2. Warning(c, "no VPC").about = c
      BY DEF Warning
    <3> QED
      BY <3>1, <3>2
  <2> QED
    BY <2>1, <2>2, <2>3, <2>4, <2>5 DEF OwnResult, IsOf
<1> QED
  BY <1>1, <1>2, <1>3

\* A queue is emitted, alone or with its forwarder.
QueueEmitted(x, q) ==
    LET rs == EmitQueue(x, q).resources
    IN  /\ DOMAIN EmitQueue(x, q).values = {}
        /\ rs[QueueName(q)] = Queue(x, q)
        /\ \/ DOMAIN rs = {QueueName(q)}
           \/ /\ DOMAIN rs = {QueueName(q), ForwarderName(q), ForwarderRoleName(q)}
              /\ rs[ForwarderName(q)] = Forwarder(x, q)
              /\ rs[ForwarderRoleName(q)] = ForwarderRole(q)

LEMMA NotificationsOwn ==
    ASSUME NEW r, NEW requested
    PROVE  \A y \in NotificationDiagnostics(r, requested) : y.about = r
<1>1. \A w : Warning(r, w).about = r
  BY DEF Warning
<1>2. \A y \in NotificationDiagnostics(r, requested) : \E w : y = Warning(r, w)
  BY DEF NotificationDiagnostics
<1> QED
  BY <1>1, <1>2

\* A forwarder is nothing, or a function and its role.
LEMMA ForwarderResult ==
    ASSUME NEW x, NEW q
    PROVE  /\ \/ DOMAIN EmitTopicForwarder(x, q).resources = {}
              \/ EmitTopicForwarder(x, q).resources
                    = Entry(ForwarderName(q), Forwarder(x, q))
                        ++ Entry(ForwarderRoleName(q), ForwarderRole(q))
           /\ \A y \in EmitTopicForwarder(x, q).diagnostics : y.about = q
<1>1. CASE TopicForwards(x, q) = {}
  BY <1>1 DEF EmitTopicForwarder, NothingEmitted, EmitResult
<1>2. CASE TopicForwards(x, q) # {} /\ q \in x.consumed
  <2>1. EmitTopicForwarder(x, q) = NothingEmitted({Error(q, "consumed and forwarded")})
    BY <1>2 DEF EmitTopicForwarder
  <2>2. Refuses(EmitTopicForwarder(x, q), q) /\ OwnResult(EmitTopicForwarder(x, q), q)
    BY <2>1, ErrorRefuses
  <2> QED
    BY <2>2 DEF Refuses, OwnResult
<1>3. CASE TopicForwards(x, q) # {} /\ q \notin x.consumed /\ ForwardLabels(x, q) = NoLabels
  <2>1. EmitTopicForwarder(x, q) = NothingEmitted({Error(q, "no selector labels")})
    BY <1>3 DEF EmitTopicForwarder
  <2>2. Refuses(EmitTopicForwarder(x, q), q) /\ OwnResult(EmitTopicForwarder(x, q), q)
    BY <2>1, ErrorRefuses
  <2> QED
    BY <2>2 DEF Refuses, OwnResult
<1>4. CASE TopicForwards(x, q) # {} /\ q \notin x.consumed /\ ForwardLabels(x, q) # NoLabels
  <2> DEFINE rs == Entry(ForwarderName(q), Forwarder(x, q))
                    ++ Entry(ForwarderRoleName(q), ForwarderRole(q))
  <2>1. EmitTopicForwarder(x, q) = EmitResult(rs, <<>>, {})
    BY <1>4 DEF EmitTopicForwarder
  <2> HIDE DEF rs
  <2>2. /\ EmitTopicForwarder(x, q).resources = rs
        /\ EmitTopicForwarder(x, q).diagnostics = {}
    BY <2>1, ResultFields
  <2> QED
    BY <2>2 DEF rs
<1> QED
  BY <1>1, <1>2, <1>3, <1>4

LEMMA QueueResult ==
    ASSUME NEW x, NEW q
    PROVE  /\ OwnResult(EmitQueue(x, q), q)
           /\ QueueEmitted(x, q) \/ Refuses(EmitQueue(x, q), q)
<1> DEFINE deferred == DeferredErrors(x, q, {"fifo"})
           forward == EmitTopicForwarder(x, q)
           ds == NotificationDiagnostics(q, x.spec[q].events) \cup forward.diagnostics
           rs == Entry(QueueName(q), Queue(x, q)) ++ forward.resources
<1>1. CASE deferred # {}
  <2>1. EmitQueue(x, q) = NothingEmitted(deferred)
    BY <1>1 DEF EmitQueue
  <2>2. \A y \in deferred : \E w : y = Error(q, w)
    BY DeferredAreErrors
  <2> HIDE DEF deferred
  <2> QED
    BY <1>1, <2>1, <2>2, NothingRefuses
<1>2. CASE deferred = {}
  <2>1. EmitQueue(x, q) = EmitResult(rs, <<>>, ds)
    BY <1>2 DEF EmitQueue
  <2>2. \A y \in ds : y.about = q
    BY NotificationsOwn, ForwarderResult
  <2>3. /\ QueueName(q) # ForwarderName(q) /\ QueueName(q) # ForwarderRoleName(q)
        /\ ForwarderName(q) # ForwarderRoleName(q)
    BY DEF QueueName, ForwarderName, ForwarderRoleName
  <2>4. /\ rs[QueueName(q)] = Queue(x, q)
        /\ \/ DOMAIN rs = {QueueName(q)}
           \/ /\ DOMAIN rs = {QueueName(q), ForwarderName(q), ForwarderRoleName(q)}
              /\ rs[ForwarderName(q)] = Forwarder(x, q)
              /\ rs[ForwarderRoleName(q)] = ForwarderRole(q)
    <3>1. rs[QueueName(q)] = Queue(x, q)
      BY DEF Entry, ++
    <3>2. CASE DOMAIN forward.resources = {}
      BY <3>1, <3>2 DEF Entry, ++
    <3>3. CASE forward.resources = Entry(ForwarderName(q), Forwarder(x, q))
                        ++ Entry(ForwarderRoleName(q), ForwarderRole(q))
      <4> HIDE DEF forward
      <4>1. /\ DOMAIN forward.resources = {ForwarderName(q), ForwarderRoleName(q)}
            /\ forward.resources[ForwarderName(q)] = Forwarder(x, q)
            /\ forward.resources[ForwarderRoleName(q)] = ForwarderRole(q)
        BY <2>3, <3>3 DEF Entry, ++
      <4> QED
        BY <2>3, <3>1, <4>1 DEF Entry, ++
    <3> QED
      BY <3>2, <3>3, ForwarderResult
  <2> HIDE DEF rs, ds
  <2>5. /\ EmitQueue(x, q).resources = rs /\ EmitQueue(x, q).diagnostics = ds
        /\ DOMAIN EmitQueue(x, q).values = {}
    BY <2>1 DEF EmitResult
  <2>6. QueueEmitted(x, q)
    BY <2>4, <2>5 DEF QueueEmitted
  <2>7. /\ IsOf(Queue(x, q), q) /\ IsOf(Forwarder(x, q), q) /\ IsOf(ForwarderRole(q), q)
        /\ QueueName(q)[1] = q /\ ForwarderName(q)[1] = q /\ ForwarderRoleName(q)[1] = q
    BY QueueParts, RelatesIsOf DEF QueueName, ForwarderName, ForwarderRoleName
  <2>8. \A n \in DOMAIN rs : n[1] = q /\ IsOf(rs[n], q)
    BY <2>4, <2>7
  <2>9. OwnResult(EmitQueue(x, q), q)
    BY <2>2, <2>5, <2>8 DEF OwnResult, IsOf
  <2> QED
    BY <2>6, <2>9
<1> QED
  BY <1>1, <1>2

\* One resource without a value.
Single(result, n, p) ==
    DOMAIN result.resources = {n} /\ result.resources[n] = p /\ DOMAIN result.values = {}

LEMMA SingleResult ==
    ASSUME NEW n, NEW p, NEW ds
    PROVE  /\ Single(EmitResult(Entry(n, p), <<>>, ds), n, p)
           /\ EmitResult(Entry(n, p), <<>>, ds).diagnostics = ds
BY DEF Single, EmitResult, Entry

LEMMA TopicResult ==
    ASSUME NEW x, NEW t
    PROVE  /\ OwnResult(EmitTopic(x, t), t)
           /\ \/ Single(EmitTopic(x, t), TopicName(t), QueueOrTopic(x, t, "sns/topic"))
              \/ Refuses(EmitTopic(x, t), t)
<1> DEFINE deferred == DeferredErrors(x, t, {"fifo"})
           p == QueueOrTopic(x, t, "sns/topic")
           ds == NotificationDiagnostics(t, x.spec[t].events)
<1>1. CASE deferred # {}
  <2>1. EmitTopic(x, t) = NothingEmitted(deferred)
    BY <1>1 DEF EmitTopic
  <2>2. \A y \in deferred : \E w : y = Error(t, w)
    BY DeferredAreErrors
  <2> HIDE DEF deferred
  <2> QED
    BY <1>1, <2>1, <2>2, NothingRefuses
<1>2. CASE deferred = {}
  <2>1. EmitTopic(x, t) = EmitResult(Entry(TopicName(t), p), <<>>, ds)
    BY <1>2 DEF EmitTopic
  <2>2. Single(EmitTopic(x, t), TopicName(t), p) /\ EmitTopic(x, t).diagnostics = ds
    BY <2>1, SingleResult
  <2>3. TopicName(t)[1] = t /\ IsOf(p, t)
    BY QueueParts, RelatesIsOf DEF TopicName
  <2>4. \A y \in ds : y.about = t
    BY NotificationsOwn
  <2> HIDE DEF p, ds
  <2>5. OwnResult(EmitTopic(x, t), t)
    BY <2>2, <2>3, <2>4 DEF OwnResult, Single, IsOf
  <2> QED
    BY <2>2, <2>5 DEF p
<1> QED
  BY <1>1, <1>2

LEMMA BucketResult ==
    ASSUME NEW x, NEW r
    PROVE  /\ OwnResult(EmitBucket(x, r), r)
           /\ Single(EmitBucket(x, r), BucketName(r), Bucket(x, r))
<1> DEFINE p == Bucket(x, r)
           ds == {Warning(r, f) : f \in x.spec[r].unmapped}
<1>1. EmitBucket(x, r) = EmitResult(Entry(BucketName(r), p), <<>>, ds)
  BY DEF EmitBucket
<1>2. Single(EmitBucket(x, r), BucketName(r), p) /\ EmitBucket(x, r).diagnostics = ds
  BY <1>1, SingleResult
<1>3. BucketName(r)[1] = r /\ IsOf(p, r)
  BY StorageParts, RelatesIsOf DEF BucketName
<1>4. \A y \in ds : y.about = r
  BY DEF Warning
<1> HIDE DEF p, ds
<1>5. OwnResult(EmitBucket(x, r), r)
  BY <1>2, <1>3, <1>4 DEF OwnResult, Single, IsOf
<1> QED
  BY <1>2, <1>5 DEF p

LEMMA DatastoreResult ==
    ASSUME NEW x, NEW d
    PROVE  /\ OwnResult(EmitDatastore(x, d), d)
           /\ \/ Single(EmitDatastore(x, d), TableName(d), Table(x, d))
              \/ Refuses(EmitDatastore(x, d), d)
<1> DEFINE deferred == DeferredErrors(x, d, {"partitionKey", "sortKey"})
           p == Table(x, d)
           skipped == {i \in DOMAIN x.spec[d].indexes : ~HasIndexKeys(x.spec[d].indexes[i])}
           ds == {Error(d, <<"index", i>>) : i \in skipped}
<1>1. CASE deferred # {}
  <2>1. EmitDatastore(x, d) = NothingEmitted(deferred)
    BY <1>1 DEF EmitDatastore
  <2>2. \A y \in deferred : \E w : y = Error(d, w)
    BY DeferredAreErrors
  <2> HIDE DEF deferred
  <2> QED
    BY <1>1, <2>1, <2>2, NothingRefuses
<1>2. CASE deferred = {}
  <2>1. EmitDatastore(x, d) = EmitResult(Entry(TableName(d), p), <<>>, ds)
    BY <1>2 DEF EmitDatastore
  <2>2. \A y \in ds : y.about = d
    <3>1. \A w : Error(d, w).about = d
      BY DEF Error
    <3> QED
      BY <3>1
  <2>3. TableName(d)[1] = d /\ IsOf(p, d)
    BY StorageParts, RelatesIsOf DEF TableName
  <2> HIDE DEF p, ds
  <2>4. Single(EmitDatastore(x, d), TableName(d), p) /\ EmitDatastore(x, d).diagnostics = ds
    BY <2>1, SingleResult
  <2>5. OwnResult(EmitDatastore(x, d), d)
    BY <2>2, <2>3, <2>4 DEF OwnResult, Single, IsOf
  <2> QED
    BY <2>4, <2>5 DEF p
<1> QED
  BY <1>1, <1>2

\* A config is one secret, or one tree of parameters.
ConfigEmitted(x, c) ==
    \/ /\ KeptAsSecret(x, c)
       /\ EmitConfig(x, c) = EmitResult(Entry(ConfigSecretName(c), ConfigSecret(x, c)),
                                        Entry(ConfigIdKey(c), ConfigSecretName(c)), {})
    \/ /\ ~KeptAsSecret(x, c)
       /\ EmitConfig(x, c) = EmitResult(Entry(ParameterTreeName(c), ParameterTree(x, c)),
                                        Entry(ConfigIdKey(c), Absent), {})

LEMMA ConfigResult ==
    ASSUME NEW x, NEW c
    PROVE  /\ OwnResult(EmitConfig(x, c), c)
           /\ ConfigEmitted(x, c) \/ Refuses(EmitConfig(x, c), c)
<1>1. /\ ConfigIdKey(c)[1] = c /\ ConfigSecretName(c)[1] = c
      /\ ParameterTreeName(c)[1] = c
  BY DEF ConfigIdKey, ConfigSecretName, ParameterTreeName
<1>2. IsOf(ConfigSecret(x, c), c) /\ IsOf(ParameterTree(x, c), c)
  BY StorageParts, RelatesIsOf
<1>3. CASE x.spec[c].replicate
  <2>1. EmitConfig(x, c) = NothingEmitted({Error(c, "replicate")})
    BY <1>3, Zenon DEF EmitConfig
  <2> QED
    BY <2>1, ErrorRefuses
<1>4. CASE ~x.spec[c].replicate /\ KeptAsSecret(x, c)
  <2>1. EmitConfig(x, c) = EmitResult(Entry(ConfigSecretName(c), ConfigSecret(x, c)),
                                      Entry(ConfigIdKey(c), ConfigSecretName(c)), {})
    BY <1>4, Zenon DEF EmitConfig
  <2>2. OwnResult(EmitConfig(x, c), c)
    BY <1>1, <1>2, <2>1 DEF OwnResult, EmitResult, Entry, IsOf
  <2> QED
    BY <1>4, <2>1, <2>2 DEF ConfigEmitted
<1>5. CASE ~x.spec[c].replicate /\ ~KeptAsSecret(x, c)
  <2>1. EmitConfig(x, c) = EmitResult(Entry(ParameterTreeName(c), ParameterTree(x, c)),
                                      Entry(ConfigIdKey(c), Absent), {})
    BY <1>5, Zenon DEF EmitConfig
  <2>2. OwnResult(EmitConfig(x, c), c)
    BY <1>1, <1>2, <2>1 DEF OwnResult, EmitResult, Entry, IsOf
  <2> QED
    BY <1>5, <2>1, <2>2 DEF ConfigEmitted
<1> QED
  BY <1>3, <1>4, <1>5

LEMMA VpcResult ==
    ASSUME NEW x, NEW v
    PROVE  /\ OwnResult(EmitVpc(x, v), v)
           /\ \/ Single(EmitVpc(x, v), VpcName(v), FlexVpc(x, v))
              \/ Refuses(EmitVpc(x, v), v)
<1> DEFINE deferred == DeferredErrors(x, v, {"mode", "preset"})
           p == FlexVpc(x, v)
<1>1. CASE deferred # {}
  <2>1. EmitVpc(x, v) = NothingEmitted(deferred)
    BY <1>1 DEF EmitVpc
  <2>2. \A y \in deferred : \E w : y = Error(v, w)
    BY DeferredAreErrors
  <2> HIDE DEF deferred
  <2> QED
    BY <1>1, <2>1, <2>2, NothingRefuses
<1>2. CASE deferred = {}
  <2>1. EmitVpc(x, v) = EmitResult(Entry(VpcName(v), p), <<>>, {})
    BY <1>2 DEF EmitVpc
  <2>2. VpcName(v)[1] = v /\ IsOf(p, v)
    BY VpcParts, RelatesIsOf DEF VpcName
  <2> HIDE DEF p
  <2>3. Single(EmitVpc(x, v), VpcName(v), p) /\ EmitVpc(x, v).diagnostics = {}
    BY <2>1, SingleResult
  <2>4. OwnResult(EmitVpc(x, v), v)
    BY <2>2, <2>3 DEF OwnResult, Single, IsOf
  <2> QED
    BY <2>3, <2>4 DEF p
<1> QED
  BY <1>1, <1>2

LEMMA ResultByKind ==
    ASSUME NEW x, NEW r
    PROVE  /\ x.kind[r] = "sqlDatabase" => ResultOf(x, r) = EmitSqlDatabase(x, r)
           /\ x.kind[r] = "cache" => ResultOf(x, r) = EmitCache(x, r)
           /\ x.kind[r] = "queue" => ResultOf(x, r) = EmitQueue(x, r)
           /\ x.kind[r] = "topic" => ResultOf(x, r) = EmitTopic(x, r)
           /\ x.kind[r] = "bucket" => ResultOf(x, r) = EmitBucket(x, r)
           /\ x.kind[r] = "datastore" => ResultOf(x, r) = EmitDatastore(x, r)
           /\ x.kind[r] = "config" => ResultOf(x, r) = EmitConfig(x, r)
           /\ x.kind[r] = "vpc" => ResultOf(x, r) = EmitVpc(x, r)
BY DEF ResultOf

Kinds == {"queue", "topic", "datastore", "bucket", "cache", "sqlDatabase", "config", "vpc"}

\* Whatever it is of, what an emitter returns is of the backing it is given.
LEMMA EmittersKeepToTheirs ==
    ASSUME NEW x, NEW r, x.kind[r] \in Kinds
    PROVE  OwnResult(ResultOf(x, r), r)
<1>1. /\ OwnResult(EmitSqlDatabase(x, r), r) /\ OwnResult(EmitCache(x, r), r)
      /\ OwnResult(EmitQueue(x, r), r) /\ OwnResult(EmitTopic(x, r), r)
  BY SqlResult, CacheResult, QueueResult, TopicResult
<1>2. /\ OwnResult(EmitBucket(x, r), r) /\ OwnResult(EmitDatastore(x, r), r)
      /\ OwnResult(EmitConfig(x, r), r) /\ OwnResult(EmitVpc(x, r), r)
  BY BucketResult, DatastoreResult, ConfigResult, VpcResult
<1>3. \/ ResultOf(x, r) = EmitSqlDatabase(x, r) \/ ResultOf(x, r) = EmitCache(x, r)
      \/ ResultOf(x, r) = EmitQueue(x, r) \/ ResultOf(x, r) = EmitTopic(x, r)
      \/ ResultOf(x, r) = EmitBucket(x, r) \/ ResultOf(x, r) = EmitDatastore(x, r)
      \/ ResultOf(x, r) = EmitConfig(x, r) \/ ResultOf(x, r) = EmitVpc(x, r)
  BY ResultByKind DEF Kinds
<1> QED
  BY <1>1, <1>2, <1>3

-----------------------------------------------------------------------------
(* The invariant of the emission.                                          *)

ResourcesOf(x, r) == ResultOf(x, r).resources
ValuesOf(x, r) == ResultOf(x, r).values
DiagnosticsOf(x, r) == ResultOf(x, r).diagnostics

EmittedBackings == DOMAIN b.kind \ unemitted

\* All that the emitters of the backings done so far returned is there.
ResultsKept ==
    \A r \in EmittedBackings :
        /\ DOMAIN ResourcesOf(b, r) \subseteq DOMAIN emitted
        /\ \A n \in DOMAIN ResourcesOf(b, r) : emitted[n] = ResourcesOf(b, r)[n]
        /\ DOMAIN ValuesOf(b, r) \subseteq DOMAIN values
        /\ \A k \in DOMAIN ValuesOf(b, r) : values[k] = ValuesOf(b, r)[k]
        /\ DiagnosticsOf(b, r) \subseteq diagnostics

\* And nothing else is: a resource, a value or a diagnostic tells whose it is.
NothingElse ==
    /\ \A n \in DOMAIN emitted :
            n[1] \in EmittedBackings /\ n \in DOMAIN ResourcesOf(b, n[1])
    /\ \A k \in DOMAIN values :
            k[1] \in EmittedBackings /\ k \in DOMAIN ValuesOf(b, k[1])
    /\ \A y \in diagnostics : y.about \in EmittedBackings

BackingInv ==
    /\ StoreInv
    /\ unemitted \subseteq DOMAIN b.kind
    /\ aborted => unemitted # {}
    /\ ResultsKept
    /\ NothingElse

LEMMA KindsKnown ==
    ASSUME StoreInv, NEW r \in DOMAIN b.kind
    PROVE  b.kind[r] \in Kinds
BY BlueprintIsBacked DEF StoreInv, IsBacked, Kinds

LEMMA OwnResults ==
    ASSUME StoreInv, NEW r \in DOMAIN b.kind
    PROVE  /\ \A n \in DOMAIN ResourcesOf(b, r) : n[1] = r /\ ResourcesOf(b, r)[n].of = r
           /\ \A k \in DOMAIN ValuesOf(b, r) : k[1] = r
           /\ \A y \in DiagnosticsOf(b, r) : y.about = r
BY KindsKnown, EmittersKeepToTheirs DEF OwnResult, ResourcesOf, ValuesOf, DiagnosticsOf

LEMMA BackingInvInit ==
    ASSUME BackingsInit
    PROVE  BackingInv
<1>1. StoreInv
  BY StoreInvInit DEF BackingsInit
<1>2. /\ unemitted = DOMAIN b.kind /\ DOMAIN emitted = {} /\ DOMAIN values = {}
      /\ diagnostics = {} /\ ~aborted
  BY DEF BackingsInit
<1> QED
  BY <1>1, <1>2 DEF BackingInv, ResultsKept, NothingElse, EmittedBackings

\* A store step, or none, leaves what is emitted alone.
LEMMA BackingsLeftAlone ==
    ASSUME BackingInv, [Next]_vars, UNCHANGED backingVars, b' = b
    PROVE  BackingInv'
<1>1. StoreInv'
  BY StoreInductive DEF BackingInv
<1>2. /\ unemitted' = unemitted /\ emitted' = emitted /\ values' = values
      /\ diagnostics' = diagnostics /\ aborted' = aborted
  BY DEF backingVars
<1>3. ResultsKept' /\ NothingElse'
  BY <1>2 DEF BackingInv, ResultsKept, NothingElse, EmittedBackings
<1> QED
  BY <1>1, <1>2, <1>3 DEF BackingInv

LEMMA BlueprintKept ==
    ASSUME [Next]_vars
    PROVE  b' = b
<1>1. CASE UNCHANGED vars
  BY <1>1 DEF vars
<1>2. ASSUME NEW p \in primaries, CollectPrimary(p) PROVE b' = b
  BY <1>2 DEF CollectPrimary
<1>3. CASE SortHandlers
  BY <1>3 DEF SortHandlers
<1>4. ASSUME NEW x \in todo, AddStoreEntries(x) PROVE b' = b
  BY <1>4 DEF AddStoreEntries
<1>5. CASE PlanStore
  BY <1>5 DEF PlanStore
<1> QED
  BY <1>1, <1>2, <1>3, <1>4, <1>5 DEF Next, Step, Finished

LEMMA EmitBackingIs ==
    ASSUME StoreInv, NEW r \in DOMAIN b.kind, EmitBacking(r)
    PROVE  Emit(r, ResultOf(b, r)) \/ Abort(r)
<1>1. b.kind[r] \in Kinds
  BY KindsKnown
<1>2. CASE b.kind[r] \notin {"config", "vpc"}
  BY <1>1, <1>2, ResultByKind DEF EmitBacking, Kinds
<1>3. CASE b.kind[r] = "config"
  BY <1>3, ResultByKind DEF EmitBacking
<1>4. CASE b.kind[r] = "vpc"
  BY <1>4, ResultByKind DEF EmitBacking
<1> QED
  BY <1>2, <1>3, <1>4

\* What an emitter returns is joined to the rest under names the rest does not have.
LEMMA EmitStep ==
    ASSUME BackingInv, NEW r \in unemitted, Emit(r, ResultOf(b, r))
    PROVE  BackingInv'
<1> DEFINE rs == ResourcesOf(b, r)
           vs == ValuesOf(b, r)
<1>1. /\ unemitted' = unemitted \ {r} /\ emitted' = emitted ++ rs
      /\ values' = values ++ vs /\ diagnostics' = diagnostics \cup DiagnosticsOf(b, r)
      /\ UNCHANGED vars /\ aborted' = aborted /\ ~aborted
  BY DEF Emit, ResourcesOf, ValuesOf, DiagnosticsOf
<1>2. b' = b /\ StoreInv'
  BY <1>1, StoreStutters DEF vars, BackingInv
<1>3. /\ StoreInv /\ r \in DOMAIN b.kind
      /\ EmittedBackings' = EmittedBackings \cup {r} /\ r \notin EmittedBackings
  BY <1>1, <1>2 DEF BackingInv, EmittedBackings
<1>4. /\ \A n \in DOMAIN rs : n[1] = r /\ n \notin DOMAIN emitted
      /\ \A k \in DOMAIN vs : k[1] = r /\ k \notin DOMAIN values
      /\ \A y \in DiagnosticsOf(b, r) : y.about = r
  BY <1>3, OwnResults DEF BackingInv, NothingElse
<1> HIDE DEF rs, vs
<1>5. /\ DOMAIN emitted' = DOMAIN emitted \cup DOMAIN rs
      /\ \A n \in DOMAIN emitted : emitted'[n] = emitted[n]
      /\ \A n \in DOMAIN rs : emitted'[n] = rs[n]
  BY <1>1, <1>4 DEF ++
<1>6. /\ DOMAIN values' = DOMAIN values \cup DOMAIN vs
      /\ \A k \in DOMAIN values : values'[k] = values[k]
      /\ \A k \in DOMAIN vs : values'[k] = vs[k]
  BY <1>1, <1>4 DEF ++
<1>7. ResultsKept'
  <2> SUFFICES ASSUME NEW s \in EmittedBackings'
               PROVE  /\ DOMAIN ResourcesOf(b, s) \subseteq DOMAIN emitted'
                      /\ \A n \in DOMAIN ResourcesOf(b, s) :
                            emitted'[n] = ResourcesOf(b, s)[n]
                      /\ DOMAIN ValuesOf(b, s) \subseteq DOMAIN values'
                      /\ \A k \in DOMAIN ValuesOf(b, s) : values'[k] = ValuesOf(b, s)[k]
                      /\ DiagnosticsOf(b, s) \subseteq diagnostics'
    BY <1>2 DEF ResultsKept
  <2>1. CASE s = r
    BY <1>1, <1>5, <1>6, <2>1 DEF rs, vs
  <2>2. CASE s \in EmittedBackings
    BY <1>1, <1>5, <1>6, <2>2 DEF BackingInv, ResultsKept
  <2> QED
    BY <1>3, <2>1, <2>2
<1>8. NothingElse'
  <2>1. ASSUME NEW n \in DOMAIN emitted'
        PROVE  n[1] \in EmittedBackings' /\ n \in DOMAIN ResourcesOf(b, n[1])
    BY <1>3, <1>4, <1>5 DEF BackingInv, NothingElse, rs
  <2>2. ASSUME NEW k \in DOMAIN values'
        PROVE  k[1] \in EmittedBackings' /\ k \in DOMAIN ValuesOf(b, k[1])
    BY <1>3, <1>4, <1>6 DEF BackingInv, NothingElse, vs
  <2>3. \A y \in diagnostics' : y.about \in EmittedBackings'
    BY <1>1, <1>3, <1>4 DEF BackingInv, NothingElse
  <2> QED
    BY <1>2, <2>1, <2>2, <2>3 DEF NothingElse
<1>9. unemitted' \subseteq DOMAIN b'.kind /\ (aborted' => unemitted' # {})
  BY <1>1, <1>2 DEF BackingInv
<1> QED
  BY <1>2, <1>7, <1>8, <1>9 DEF BackingInv

LEMMA AbortStep ==
    ASSUME BackingInv, NEW r \in unemitted, Abort(r)
    PROVE  BackingInv'
<1>1. /\ UNCHANGED vars /\ unemitted' = unemitted /\ emitted' = emitted
      /\ values' = values /\ diagnostics' = diagnostics
  BY DEF Abort
<1>2. b' = b /\ StoreInv'
  BY <1>1, StoreStutters DEF vars, BackingInv
<1>3. ResultsKept' /\ NothingElse'
  BY <1>1, <1>2 DEF BackingInv, ResultsKept, NothingElse, EmittedBackings
<1> QED
  BY <1>1, <1>2, <1>3 DEF BackingInv

LEMMA BackingInductive == BackingInv /\ [BackingsNext]_allVars => BackingInv'
<1> SUFFICES ASSUME BackingInv, [BackingsNext]_allVars
             PROVE  BackingInv'
  OBVIOUS
<1>1. CASE UNCHANGED allVars
  <2>1. UNCHANGED vars /\ UNCHANGED backingVars
    BY <1>1 DEF allVars
  <2> QED
    BY <2>1, BlueprintKept, BackingsLeftAlone
<1>2. CASE Step /\ UNCHANGED backingVars
  BY <1>2, BlueprintKept, BackingsLeftAlone DEF Next
<1>3. ASSUME NEW r \in unemitted, EmitBacking(r)
      PROVE  BackingInv'
  <2>1. r \in DOMAIN b.kind /\ StoreInv
    BY DEF BackingInv
  <2> QED
    BY <1>3, <2>1, EmitBackingIs, EmitStep, AbortStep
<1> QED
  BY <1>1, <1>2, <1>3 DEF BackingsNext, BackingsStep, BackingsFinished

\* Throughout, what is emitted is what the emitters of the backings done so far
\* returned, and no more; the store is as its own invariant says.
THEOREM BackingInvHolds == BackingsSpec => []BackingInv
BY BackingInvInit, BackingInductive, PTL DEF BackingsSpec

-----------------------------------------------------------------------------
(* The backings once all are emitted.                                      *)

LEMMA AllEmitted ==
    ASSUME BackingInv, Complete, NEW r \in DOMAIN b.kind
    PROVE  /\ r \in EmittedBackings
           /\ DOMAIN ResourcesOf(b, r) \subseteq DOMAIN emitted
           /\ \A n \in DOMAIN ResourcesOf(b, r) : emitted[n] = ResourcesOf(b, r)[n]
           /\ DOMAIN ValuesOf(b, r) \subseteq DOMAIN values
           /\ \A k \in DOMAIN ValuesOf(b, r) : values[k] = ValuesOf(b, r)[k]
<1>1. r \in EmittedBackings
  BY DEF Complete, Settled, EmittedBackings
<1> QED
  BY <1>1 DEF BackingInv, ResultsKept

LEMMA EmittedIsOwn ==
    ASSUME BackingInv, NEW n \in DOMAIN emitted
    PROVE  /\ n[1] \in DOMAIN b.kind /\ n[1] \in EmittedBackings
           /\ n \in DOMAIN ResourcesOf(b, n[1])
           /\ emitted[n] = ResourcesOf(b, n[1])[n]
           /\ emitted[n].of = n[1]
<1>1. n[1] \in EmittedBackings /\ n \in DOMAIN ResourcesOf(b, n[1])
  BY DEF BackingInv, NothingElse
<1>2. n[1] \in DOMAIN b.kind /\ StoreInv
  BY <1>1 DEF EmittedBackings, BackingInv
<1>3. emitted[n] = ResourcesOf(b, n[1])[n]
  BY <1>1 DEF BackingInv, ResultsKept
<1> QED
  BY <1>1, <1>2, <1>3, OwnResults

LEMMA RefusalReported ==
    ASSUME BackingInv, NEW r \in EmittedBackings, Refuses(ResultOf(b, r), r)
    PROVE  Reported(r)
<1>1. DiagnosticsOf(b, r) \subseteq diagnostics
  BY DEF BackingInv, ResultsKept
<1> QED
  BY <1>1 DEF Refuses, DiagnosticsOf, Reported

LEMMA EmittedNotRefused ==
    ASSUME BackingInv, NEW n \in DOMAIN emitted
    PROVE  ~Refuses(ResultOf(b, n[1]), n[1])
BY EmittedIsOwn DEF Refuses, ResourcesOf

\* A database that is not refused is there, as it should be.
LEMMA DatabaseThere ==
    ASSUME BackingInv, NEW d \in EmittedBackings, b.kind[d] = "sqlDatabase",
           ~Refuses(ResultOf(b, d), d)
    PROVE  /\ PlacedIn(b, d) # {}
           /\ ResourcesOf(b, d) = DatabaseResources(b, d)
           /\ ValuesOf(b, d) = DbDerivedValues(b, d)
           /\ DatabaseNames(b, d) \subseteq DOMAIN emitted
           /\ \A n \in DatabaseNames(b, d) : emitted[n] = DatabaseResources(b, d)[n]
           /\ {HostKey(d), DatabaseNameKey(d)} \subseteq DOMAIN values
           /\ d \in b.replicas => ReadHostKey(d) \in DOMAIN values
           /\ values[HostKey(d)] = Endpoint(b, d)
<1>1. SqlEmitted(b, d)
  BY SqlResult, ResultByKind
<1>2. /\ ResourcesOf(b, d) = DatabaseResources(b, d)
      /\ ValuesOf(b, d) = DbDerivedValues(b, d)
  BY <1>1, ResultByKind, ResultFields DEF SqlEmitted, ResourcesOf, ValuesOf
<1>3. DOMAIN DatabaseResources(b, d) = DatabaseNames(b, d)
  BY DatabaseDomain
<1>4. /\ DatabaseNames(b, d) \subseteq DOMAIN emitted
      /\ \A n \in DatabaseNames(b, d) : emitted[n] = DatabaseResources(b, d)[n]
      /\ DOMAIN DbDerivedValues(b, d) \subseteq DOMAIN values
      /\ \A k \in DOMAIN DbDerivedValues(b, d) : values[k] = DbDerivedValues(b, d)[k]
  BY <1>2, <1>3 DEF BackingInv, ResultsKept
<1>5. PlacedIn(b, d) # {}
  BY <1>1 DEF SqlEmitted
<1>6. /\ {HostKey(d), DatabaseNameKey(d)} \subseteq DOMAIN DbDerivedValues(b, d)
      /\ d \in b.replicas => ReadHostKey(d) \in DOMAIN DbDerivedValues(b, d)
  <2>1. DOMAIN DbDerivedValues(b, d)
            = {HostKey(d), DatabaseNameKey(d)} \cup {k \in {ReadHostKey(d)} : d \in b.replicas}
    BY DatabaseValues
  <2> QED
    BY <2>1
<1>7. DbDerivedValues(b, d)[HostKey(d)] = Endpoint(b, d)
  BY DatabaseValues
<1>8. values[HostKey(d)] = Endpoint(b, d)
  BY <1>4, <1>6, <1>7
<1> QED
  BY <1>2, <1>4, <1>5, <1>6, <1>8

\* So is a cache, and a VPC.
LEMMA CacheThere ==
    ASSUME BackingInv, NEW c \in EmittedBackings, b.kind[c] = "cache",
           ~Refuses(ResultOf(b, c), c)
    PROVE  /\ ResourcesOf(b, c) = CacheResources(b, c)
           /\ CacheNames(b, c) \subseteq DOMAIN emitted
           /\ \A n \in CacheNames(b, c) : emitted[n] = CacheResources(b, c)[n]
           /\ CacheHostKey(c) \in DOMAIN values
<1>1. CacheEmitted(b, c)
  BY CacheResult, ResultByKind
<1>2. /\ ResourcesOf(b, c) = CacheResources(b, c)
      /\ ValuesOf(b, c) = Entry(CacheHostKey(c), ReplicationGroupName(c))
  BY <1>1, ResultByKind, ResultFields DEF CacheEmitted, ResourcesOf, ValuesOf
<1>3. DOMAIN Entry(CacheHostKey(c), ReplicationGroupName(c)) = {CacheHostKey(c)}
  BY DEF Entry
<1>4. DOMAIN CacheResources(b, c) = CacheNames(b, c)
  BY CacheContents
<1> QED
  BY <1>2, <1>3, <1>4 DEF BackingInv, ResultsKept

LEMMA VpcThere ==
    ASSUME BackingInv, NEW v \in EmittedBackings, b.kind[v] = "vpc",
           ~Refuses(ResultOf(b, v), v)
    PROVE  /\ DOMAIN ResourcesOf(b, v) = {VpcName(v)}
           /\ VpcName(v) \in DOMAIN emitted /\ emitted[VpcName(v)] = FlexVpc(b, v)
<1>1. Single(EmitVpc(b, v), VpcName(v), FlexVpc(b, v))
  BY VpcResult, ResultByKind
<1>2. DOMAIN ResourcesOf(b, v) = {VpcName(v)} /\ ResourcesOf(b, v)[VpcName(v)] = FlexVpc(b, v)
  BY <1>1, ResultByKind DEF Single, ResourcesOf
<1> QED
  BY <1>2 DEF BackingInv, ResultsKept

\* A queue, a topic, a bucket and a datastore have theirs too.
LEMMA IdentifierThere ==
    ASSUME BackingInv, NEW r \in EmittedBackings, ~Reported(r)
    PROVE  /\ b.kind[r] = "queue" => QueueName(r) \in DOMAIN emitted
           /\ b.kind[r] = "topic" => TopicName(r) \in DOMAIN emitted
           /\ b.kind[r] = "bucket" => BucketName(r) \in DOMAIN emitted
           /\ b.kind[r] = "datastore" => TableName(r) \in DOMAIN emitted
<1>1. ASSUME b.kind[r] = "queue" PROVE QueueName(r) \in DOMAIN ResourcesOf(b, r)
  <2>1. QueueEmitted(b, r) /\ ResultOf(b, r) = EmitQueue(b, r)
    BY <1>1, QueueResult, ResultByKind, RefusalReported
  <2> QED
    BY <2>1 DEF QueueEmitted, ResourcesOf
<1>2. ASSUME b.kind[r] = "topic" PROVE TopicName(r) \in DOMAIN ResourcesOf(b, r)
  <2>1. /\ Single(EmitTopic(b, r), TopicName(r), QueueOrTopic(b, r, "sns/topic"))
        /\ ResultOf(b, r) = EmitTopic(b, r)
    BY <1>2, TopicResult, ResultByKind, RefusalReported
  <2> QED
    BY <2>1 DEF Single, ResourcesOf
<1>3. ASSUME b.kind[r] = "bucket" PROVE BucketName(r) \in DOMAIN ResourcesOf(b, r)
  <2>1. /\ Single(EmitBucket(b, r), BucketName(r), Bucket(b, r))
        /\ ResultOf(b, r) = EmitBucket(b, r)
    BY <1>3, BucketResult, ResultByKind
  <2> QED
    BY <2>1 DEF Single, ResourcesOf
<1>4. ASSUME b.kind[r] = "datastore" PROVE TableName(r) \in DOMAIN ResourcesOf(b, r)
  <2>1. /\ Single(EmitDatastore(b, r), TableName(r), Table(b, r))
        /\ ResultOf(b, r) = EmitDatastore(b, r)
    BY <1>4, DatastoreResult, ResultByKind, RefusalReported
  <2> QED
    BY <2>1 DEF Single, ResourcesOf
<1> QED
  BY <1>1, <1>2, <1>3, <1>4 DEF BackingInv, ResultsKept

-----------------------------------------------------------------------------
(* What refers to what.                                                    *)

LEMMA MasterKept ==
    ASSUME NEW x, NEW d, AppUserAuth(x, d)
    PROVE  /\ MasterSecret(x, d)[1] \in DatabaseNames(x, d)
           /\ DatabaseResources(x, d)[MasterSecret(x, d)[1]].master = TRUE
           /\ AppUserSecret(d)[1] = AppUserSecretName(d)
           /\ AppUserSecret(d)[2] = "id"
<1>1. CASE AuroraEnabled(x, d)
  <2>1. MasterSecret(x, d)[1] = ClusterName(d) /\ ClusterName(d) \in DatabaseNames(x, d)
    BY <1>1 DEF MasterSecret, DatabaseNames
  <2>2. UnmarkedResources(x, d)[ClusterName(d)] = AuroraCluster(x, d)
    BY <1>1, UnmarkedParts
  <2>3. /\ AuroraCluster(x, d).master = TRUE
        /\ MarkedCopy(AuroraCluster(x, d), d).master = TRUE
    BY DEF AuroraCluster, WithOwnLabels, Concrete, MarkedCopy
  <2>4. DatabaseResources(x, d)[ClusterName(d)].master = TRUE
    BY <2>1, <2>2, <2>3, DatabaseMarked
  <2> QED
    BY <2>1, <2>4 DEF AppUserSecret
<1>2. CASE ~AuroraEnabled(x, d)
  <2>1. MasterSecret(x, d)[1] = InstanceName(d) /\ InstanceName(d) \in DatabaseNames(x, d)
    BY <1>2 DEF MasterSecret, DatabaseNames
  <2>2. UnmarkedResources(x, d)[InstanceName(d)] = StandaloneInstance(x, d)
    BY <1>2, UnmarkedParts
  <2>3. /\ StandaloneInstance(x, d).master = TRUE
        /\ MarkedCopy(StandaloneInstance(x, d), d).master = TRUE
    BY DEF StandaloneInstance, Concrete, MarkedCopy
  <2>4. DatabaseResources(x, d)[InstanceName(d)].master = TRUE
    BY <2>1, <2>2, <2>3, DatabaseMarked
  <2> QED
    BY <2>1, <2>4 DEF AppUserSecret
<1> QED
  BY <1>1, <1>2

\* What a resource refers to, and what secrets it uses, are among these.
FitsIn(p, names, secrets) == p.refs \subseteq names /\ p.secrets \subseteq secrets

LEMMA RelatesFits ==
    ASSUME NEW p, NEW t, NEW r, NEW rs, NEW gs, NEW ss, Relates(p, t, r, rs, gs, ss),
           NEW names, NEW secrets, rs \subseteq names, ss \subseteq secrets
    PROVE  FitsIn(p, names, secrets)
BY DEF Relates, FitsIn

KnownToDatabase(x, d) ==
    DatabaseNames(x, d) \cup {HostKey(d), DatabaseNameKey(d)} \cup {VpcName(VpcOf(x, d))}
SecretsOfDatabase(x, d) ==
    {s \in {MasterSecret(x, d), AppUserSecret(d)} : AppUserAuth(x, d)}

\* A database's resources refer to each other, to its values and to its VPC; what
\* secrets they use are the two it has.
LEMMA DatabaseRefs ==
    ASSUME NEW x, NEW d, NEW n \in DatabaseNames(x, d)
    PROVE  FitsIn(DatabaseResources(x, d)[n], KnownToDatabase(x, d), SecretsOfDatabase(x, d))
<1> DEFINE known == KnownToDatabase(x, d)
           own == SecretsOfDatabase(x, d)
<1>1. /\ {RunnerRoleName(d), HostKey(d), DatabaseNameKey(d)} \subseteq known
      /\ {InstanceName(d)} \subseteq known /\ {} \subseteq known
      /\ {VpcName(VpcOf(x, d))} \subseteq known
      /\ SubnetRefs(x, d) \subseteq known
      /\ AuroraEnabled(x, d) => {ClusterName(d)} \subseteq known
      /\ ~AuroraEnabled(x, d) => {ProxyRoleName(d), VpcName(VpcOf(x, d))} \subseteq known
  BY DEF DatabaseNames, SubnetRefs, KnownToDatabase
<1>2. /\ RunnerSecrets(x, d) \subseteq own /\ RegisteredSecrets(x, d) \subseteq own
      /\ {} \subseteq own
  BY DEF RunnerSecrets, RegisteredSecrets, SecretsOfDatabase
<1> HIDE DEF known, own
<1>3. (IF AppUserAuth(x, d) THEN {} ELSE {InstanceName(d)}) \subseteq known
  BY <1>1
<1>4. (IF AuroraEnabled(x, d) THEN {ClusterName(d)} ELSE {InstanceName(d)}) \subseteq known
  BY <1>1
<1>5. FitsIn(DatabaseResources(x, d)[DbSubnetGroupName(d)], known, own)
  <2>1. Relates(DatabaseResources(x, d)[DbSubnetGroupName(d)], "rds/dbSubnetGroup", d,
                {VpcName(VpcOf(x, d))}, {}, {})
    BY DatabaseParts
  <2> QED
    BY <1>1, <1>2, <2>1, RelatesFits
<1>6. FitsIn(DatabaseResources(x, d)[RunnerName(d)], known, own)
  <2>1. Relates(DatabaseResources(x, d)[RunnerName(d)], "lambda/function", d,
                {RunnerRoleName(d), HostKey(d), DatabaseNameKey(d)}, {},
                RunnerSecrets(x, d))
    BY DatabaseParts
  <2> QED
    BY <1>1, <1>2, <2>1, RelatesFits
<1>7. FitsIn(DatabaseResources(x, d)[RunnerRoleName(d)], known, own)
  <2>1. Relates(DatabaseResources(x, d)[RunnerRoleName(d)], "iam/role", d,
                IF AppUserAuth(x, d) THEN {} ELSE {InstanceName(d)}, {},
                RunnerSecrets(x, d))
    BY DatabaseParts
  <2> QED
    BY <1>2, <1>3, <2>1, RelatesFits
<1>8. d \in x.replicas => FitsIn(DatabaseResources(x, d)[ReaderName(d)], known, own)
  <2>1. d \in x.replicas =>
            Relates(DatabaseResources(x, d)[ReaderName(d)], "rds/dbInstance", d,
                    IF AuroraEnabled(x, d) THEN {ClusterName(d)} ELSE {InstanceName(d)},
                    {}, {})
    BY DatabaseParts
  <2> QED
    BY <1>2, <1>4, <2>1, RelatesFits
<1>9. AppUserAuth(x, d) =>
        FitsIn(DatabaseResources(x, d)[AppUserSecretName(d)], known, own)
  <2>1. AppUserAuth(x, d) => Relates(DatabaseResources(x, d)[AppUserSecretName(d)],
                                     "secretsmanager/secret", d, {}, {}, {})
    BY DatabaseParts
  <2> QED
    BY <1>1, <1>2, <2>1, RelatesFits
<1>10. ASSUME AuroraEnabled(x, d)
       PROVE  /\ FitsIn(DatabaseResources(x, d)[ClusterName(d)], known, own)
              /\ FitsIn(DatabaseResources(x, d)[InstanceName(d)], known, own)
  <2>1. Relates(DatabaseResources(x, d)[ClusterName(d)], "rds/dbCluster", d,
                SubnetRefs(x, d), InDatabaseGroup(x, d), {})
    BY <1>10, AuroraParts
  <2>2. Relates(DatabaseResources(x, d)[InstanceName(d)], "rds/dbInstance", d,
                {ClusterName(d)}, {}, {})
    BY <1>10, AuroraParts
  <2> QED
    BY <1>1, <1>2, <1>10, <2>1, <2>2, RelatesFits
<1>11. ASSUME ~AuroraEnabled(x, d)
       PROVE  /\ FitsIn(DatabaseResources(x, d)[InstanceName(d)], known, own)
              /\ FitsIn(DatabaseResources(x, d)[ProxyName(d)], known, own)
              /\ FitsIn(DatabaseResources(x, d)[ProxyRoleName(d)], known, own)
  <2>1. Relates(DatabaseResources(x, d)[InstanceName(d)], "rds/dbInstance", d,
                SubnetRefs(x, d), InDatabaseGroup(x, d), {})
    BY <1>11, StandaloneParts
  <2>2. Relates(DatabaseResources(x, d)[ProxyName(d)], "rds/dbProxy", d,
                {ProxyRoleName(d), VpcName(VpcOf(x, d))},
                {<<VpcOf(x, d), SecurityGroup(d, "proxy")>>}, RegisteredSecrets(x, d))
    BY <1>11, StandaloneParts
  <2>3. Relates(DatabaseResources(x, d)[ProxyRoleName(d)], "iam/role", d,
                IF AppUserAuth(x, d) THEN {} ELSE {InstanceName(d)}, {},
                RegisteredSecrets(x, d))
    BY <1>11, StandaloneParts
  <2>4. FitsIn(DatabaseResources(x, d)[InstanceName(d)], known, own)
    BY <1>1, <1>2, <2>1, RelatesFits
  <2>5. FitsIn(DatabaseResources(x, d)[ProxyName(d)], known, own)
    BY <1>1, <1>2, <1>11, <2>2, RelatesFits
  <2>6. FitsIn(DatabaseResources(x, d)[ProxyRoleName(d)], known, own)
    BY <1>2, <1>3, <2>3, RelatesFits
  <2> QED
    BY <2>4, <2>5, <2>6
<1>12. FitsIn(DatabaseResources(x, d)[n], known, own)
  BY <1>5, <1>6, <1>7, <1>8, <1>9, <1>10, <1>11 DEF DatabaseNames
<1> QED
  BY <1>12 DEF known, own

\* A cache's refer to each other and, if it is placed, to its VPC; they use no secret.
KnownToCache(x, c) ==
    CacheNames(x, c) \cup {n \in {VpcName(VpcOf(x, c))} : PlacedIn(x, c) # {}}

LEMMA CacheRefs ==
    ASSUME NEW x, NEW c, NEW n \in CacheNames(x, c)
    PROVE  FitsIn(CacheResources(x, c)[n], KnownToCache(x, c), {})
<1> DEFINE known == KnownToCache(x, c)
<1>1. GroupRefs(x, c) \subseteq known /\ {} \subseteq known
  BY DEF GroupRefs, KnownToCache, CacheNames
<1>2. /\ PlacedIn(x, c) # {} => {VpcName(VpcOf(x, c))} \subseteq known
      /\ AuthMode(x, c) = "iam" => {IamUserName(c)} \subseteq known
  BY DEF KnownToCache, CacheNames
<1> HIDE DEF known
<1>3. FitsIn(CacheResources(x, c)[ReplicationGroupName(c)], known, {})
  <2>1. Relates(CacheResources(x, c)[ReplicationGroupName(c)],
                "elasticache/replicationGroup", c, GroupRefs(x, c), GroupGroups(x, c), {})
    BY CacheParts
  <2> QED
    BY <1>1, <2>1, RelatesFits
<1>4. PlacedIn(x, c) # {} =>
        FitsIn(CacheResources(x, c)[CacheSubnetGroupName(c)], known, {})
  <2>1. PlacedIn(x, c) # {} =>
            Relates(CacheResources(x, c)[CacheSubnetGroupName(c)],
                    "elasticache/subnetGroup", c, {VpcName(VpcOf(x, c))}, {}, {})
    BY CacheParts
  <2> QED
    BY <1>2, <2>1, RelatesFits
<1>5. AuthMode(x, c) # "iam" => FitsIn(CacheResources(x, c)[AuthSecretName(c)], known, {})
  <2>1. AuthMode(x, c) # "iam" =>
            Relates(CacheResources(x, c)[AuthSecretName(c)], "secretsmanager/secret", c,
                    {}, {}, {})
    BY CacheParts
  <2> QED
    BY <1>1, <2>1, RelatesFits
<1>6. AuthMode(x, c) = "iam" => /\ FitsIn(CacheResources(x, c)[IamUserName(c)], known, {})
                                /\ FitsIn(CacheResources(x, c)[UserGroupName(c)], known, {})
  <2>1. AuthMode(x, c) = "iam" =>
            /\ Relates(CacheResources(x, c)[IamUserName(c)], "elasticache/user", c,
                       {}, {}, {})
            /\ Relates(CacheResources(x, c)[UserGroupName(c)],
                       "elasticache/userGroup", c, {IamUserName(c)}, {}, {})
    BY CacheParts
  <2> QED
    BY <1>1, <1>2, <2>1, RelatesFits
<1>7. FitsIn(CacheResources(x, c)[n], known, {})
  BY <1>3, <1>4, <1>5, <1>6 DEF CacheNames
<1> QED
  BY <1>7 DEF known

\* A queue's forwarder refers to its role; the others refer to nothing.
LEMMA OtherRefs ==
    ASSUME NEW x, NEW r
    PROVE  /\ FitsIn(Queue(x, r), {}, {}) /\ FitsIn(QueueOrTopic(x, r, "sns/topic"), {}, {})
           /\ FitsIn(Forwarder(x, r), {ForwarderRoleName(r)}, {})
           /\ FitsIn(ForwarderRole(r), {}, {})
           /\ FitsIn(Bucket(x, r), {}, {}) /\ FitsIn(Table(x, r), {}, {})
           /\ FitsIn(ConfigSecret(x, r), {}, {}) /\ FitsIn(ParameterTree(x, r), {}, {})
           /\ FitsIn(FlexVpc(x, r), {}, {})
<1>1. /\ Relates(Queue(x, r), "sqs/queue", r, {}, {}, {})
      /\ Relates(QueueOrTopic(x, r, "sns/topic"), "sns/topic", r, {}, {}, {})
      /\ Relates(Forwarder(x, r), "lambda/function", r, {ForwarderRoleName(r)}, {}, {})
      /\ Relates(ForwarderRole(r), "iam/role", r, {}, {}, {})
  BY QueueParts
<1>2. /\ Relates(Bucket(x, r), "s3/bucket", r, {}, {}, {})
      /\ Relates(Table(x, r), "dynamodb/table", r, {}, {}, {})
      /\ Relates(ConfigSecret(x, r), "secretsmanager/secret", r, {}, {}, {})
      /\ Relates(ParameterTree(x, r), "ssm/parameterTree", r, {}, {}, {})
  BY StorageParts
<1>3. Relates(FlexVpc(x, r), "flex/vpc", r, {}, VpcGroups(x, r), {})
  BY VpcParts
<1>4. {} \subseteq {} /\ {ForwarderRoleName(r)} \subseteq {ForwarderRoleName(r)}
  OBVIOUS
<1>5. /\ FitsIn(Queue(x, r), {}, {}) /\ FitsIn(QueueOrTopic(x, r, "sns/topic"), {}, {})
      /\ FitsIn(Forwarder(x, r), {ForwarderRoleName(r)}, {})
      /\ FitsIn(ForwarderRole(r), {}, {})
  BY <1>1, <1>4, RelatesFits
<1>6. /\ FitsIn(Bucket(x, r), {}, {}) /\ FitsIn(Table(x, r), {}, {})
      /\ FitsIn(ConfigSecret(x, r), {}, {}) /\ FitsIn(ParameterTree(x, r), {}, {})
  BY <1>2, <1>4, RelatesFits
<1>7. FitsIn(FlexVpc(x, r), {}, {})
  BY <1>3, <1>4, RelatesFits
<1> QED
  BY <1>5, <1>6, <1>7

\* What a resource refers to is there.
SecretThere(s) ==
    /\ s[1] \in DOMAIN emitted
    /\ s[2] = "masterUserSecret" => emitted[s[1]].master
Resolves(p) ==
    /\ p.refs \subseteq DOMAIN emitted \cup DOMAIN values
    /\ \A s \in p.secrets : SecretThere(s)

LEMMA FittingResolves ==
    ASSUME NEW p, NEW names, NEW secrets, FitsIn(p, names, secrets),
           names \subseteq DOMAIN emitted \cup DOMAIN values,
           \A s \in secrets : SecretThere(s)
    PROVE  Resolves(p)
BY DEF FitsIn, Resolves

\* The VPC of a placed resource is there, unless it is refused.
LEMMA VpcOfThere ==
    ASSUME BackingInv, Complete, NEW r \in DOMAIN b.kind, ~Refused(r), PlacedIn(b, r) # {}
    PROVE  /\ VpcOf(b, r) \in PlacedIn(b, r) /\ b.kind[VpcOf(b, r)] = "vpc"
           /\ VpcName(VpcOf(b, r)) \in DOMAIN emitted
           /\ emitted[VpcName(VpcOf(b, r))] = FlexVpc(b, VpcOf(b, r))
<1> DEFINE v == VpcOf(b, r)
<1>1. v \in PlacedIn(b, r)
  BY DEF VpcOf
<1>2. v \in DOMAIN b.kind /\ b.kind[v] = "vpc" /\ ~Reported(v)
  BY <1>1 DEF PlacedIn, OfBacking, Refused
<1> HIDE DEF v
<1>3. v \in EmittedBackings
  BY <1>2, AllEmitted
<1>4. VpcName(v) \in DOMAIN emitted /\ emitted[VpcName(v)] = FlexVpc(b, v)
  BY <1>2, <1>3, VpcThere, RefusalReported
<1> QED
  BY <1>1, <1>2, <1>4 DEF v

LEMMA DatabaseResolves ==
    ASSUME BackingInv, Complete, NEW d \in DOMAIN b.kind, b.kind[d] = "sqlDatabase",
           ~Refused(d), NEW n \in DatabaseNames(b, d)
    PROVE  Resolves(DatabaseResources(b, d)[n])
<1>1. d \in EmittedBackings /\ ~Reported(d)
  BY AllEmitted DEF Refused
<1>2. /\ PlacedIn(b, d) # {}
      /\ DatabaseNames(b, d) \subseteq DOMAIN emitted
      /\ \A m \in DatabaseNames(b, d) : emitted[m] = DatabaseResources(b, d)[m]
      /\ {HostKey(d), DatabaseNameKey(d)} \subseteq DOMAIN values
  BY <1>1, DatabaseThere, RefusalReported
<1>3. VpcName(VpcOf(b, d)) \in DOMAIN emitted
  BY <1>2, VpcOfThere
<1>4. KnownToDatabase(b, d) \subseteq DOMAIN emitted \cup DOMAIN values
  BY <1>2, <1>3 DEF KnownToDatabase
<1>5. ASSUME AppUserAuth(b, d)
      PROVE  SecretThere(MasterSecret(b, d)) /\ SecretThere(AppUserSecret(d))
  <2>1. /\ MasterSecret(b, d)[1] \in DatabaseNames(b, d)
        /\ DatabaseResources(b, d)[MasterSecret(b, d)[1]].master = TRUE
        /\ AppUserSecret(d)[1] = AppUserSecretName(d)
        /\ AppUserSecret(d)[2] = "id"
    BY <1>5, MasterKept
  <2>2. AppUserSecretName(d) \in DatabaseNames(b, d)
    BY <1>5 DEF DatabaseNames
  <2>3. SecretThere(MasterSecret(b, d))
    BY <1>2, <2>1 DEF SecretThere
  <2>4. SecretThere(AppUserSecret(d))
    BY <1>2, <2>1, <2>2 DEF SecretThere
  <2> QED
    BY <2>3, <2>4
<1>6. \A s \in SecretsOfDatabase(b, d) : SecretThere(s)
  BY <1>5 DEF SecretsOfDatabase
<1>7. FitsIn(DatabaseResources(b, d)[n], KnownToDatabase(b, d), SecretsOfDatabase(b, d))
  BY DatabaseRefs
<1> QED
  BY <1>4, <1>6, <1>7, FittingResolves

LEMMA CacheResolves ==
    ASSUME BackingInv, Complete, NEW c \in DOMAIN b.kind, b.kind[c] = "cache",
           ~Refused(c), NEW n \in CacheNames(b, c)
    PROVE  Resolves(CacheResources(b, c)[n])
<1>1. c \in EmittedBackings /\ ~Reported(c)
  BY AllEmitted DEF Refused
<1>2. CacheNames(b, c) \subseteq DOMAIN emitted
  BY <1>1, CacheThere, RefusalReported
<1>3. PlacedIn(b, c) # {} => VpcName(VpcOf(b, c)) \in DOMAIN emitted
  BY VpcOfThere
<1>4. KnownToCache(b, c) \subseteq DOMAIN emitted \cup DOMAIN values
  BY <1>2, <1>3 DEF KnownToCache
<1>5. FitsIn(CacheResources(b, c)[n], KnownToCache(b, c), {})
  BY CacheRefs
<1> QED
  BY <1>4, <1>5, FittingResolves

\* A resource of any other kind refers to nothing, or to its forwarder's role.
LEMMA OtherResolves ==
    ASSUME BackingInv, NEW n \in DOMAIN emitted, ~Reported(n[1]),
           b.kind[n[1]] \notin {"sqlDatabase", "cache"}
    PROVE  Resolves(emitted[n])
<1> DEFINE r == n[1]
           p == emitted[n]
           sure == Resolves(p)
<1>1. /\ r \in DOMAIN b.kind /\ r \in EmittedBackings
      /\ n \in DOMAIN ResourcesOf(b, r) /\ p = ResourcesOf(b, r)[n]
  BY EmittedIsOwn
<1>2. b.kind[r] \in Kinds /\ b.kind[r] \notin {"sqlDatabase", "cache"}
  BY <1>1, KindsKnown DEF BackingInv
<1>3. ~Refuses(ResultOf(b, r), r)
  BY <1>1, RefusalReported
<1> HIDE DEF r, p, sure
<1>4. FitsIn(p, {}, {}) => sure
  BY FittingResolves DEF sure
<1>5. ASSUME b.kind[r] = "queue" PROVE sure
  <2>1. QueueEmitted(b, r) /\ ResultOf(b, r) = EmitQueue(b, r)
    BY <1>3, <1>5, QueueResult, ResultByKind
  <2>2. /\ ResourcesOf(b, r)[QueueName(r)] = Queue(b, r)
        /\ \/ DOMAIN ResourcesOf(b, r) = {QueueName(r)}
           \/ /\ DOMAIN ResourcesOf(b, r)
                    = {QueueName(r), ForwarderName(r), ForwarderRoleName(r)}
              /\ ResourcesOf(b, r)[ForwarderName(r)] = Forwarder(b, r)
              /\ ResourcesOf(b, r)[ForwarderRoleName(r)] = ForwarderRole(r)
    BY <2>1 DEF QueueEmitted, ResourcesOf
  <2>3. \/ p = Queue(b, r) \/ p = ForwarderRole(r)
        \/ p = Forwarder(b, r) /\ ForwarderRoleName(r) \in DOMAIN ResourcesOf(b, r)
    BY <1>1, <2>2
  <2>4. DOMAIN ResourcesOf(b, r) \subseteq DOMAIN emitted
    BY <1>1 DEF BackingInv, ResultsKept
  <2>5. CASE p = Queue(b, r) \/ p = ForwarderRole(r)
    BY <1>4, <2>5, OtherRefs
  <2>6. CASE p = Forwarder(b, r) /\ ForwarderRoleName(r) \in DOMAIN ResourcesOf(b, r)
    <3>1. FitsIn(p, {ForwarderRoleName(r)}, {})
      BY <2>6, OtherRefs
    <3>2. {ForwarderRoleName(r)} \subseteq DOMAIN emitted \cup DOMAIN values
      BY <2>4, <2>6
    <3> QED
      BY <3>1, <3>2, FittingResolves DEF sure
  <2> QED
    BY <2>3, <2>5, <2>6
<1>6. ASSUME b.kind[r] = "topic" PROVE sure
  <2>1. p = QueueOrTopic(b, r, "sns/topic")
    BY <1>1, <1>3, <1>6, TopicResult, ResultByKind DEF Single, ResourcesOf
  <2> QED
    BY <1>4, <2>1, OtherRefs
<1>7. ASSUME b.kind[r] = "bucket" PROVE sure
  <2>1. p = Bucket(b, r)
    BY <1>1, <1>7, BucketResult, ResultByKind DEF Single, ResourcesOf
  <2> QED
    BY <1>4, <2>1, OtherRefs
<1>8. ASSUME b.kind[r] = "datastore" PROVE sure
  <2>1. p = Table(b, r)
    BY <1>1, <1>3, <1>8, DatastoreResult, ResultByKind DEF Single, ResourcesOf
  <2> QED
    BY <1>4, <2>1, OtherRefs
<1>9. ASSUME b.kind[r] = "config" PROVE sure
  <2>1. ConfigEmitted(b, r) /\ ResultOf(b, r) = EmitConfig(b, r)
    BY <1>3, <1>9, ConfigResult, ResultByKind
  <2>2. \/ ResourcesOf(b, r) = Entry(ConfigSecretName(r), ConfigSecret(b, r))
        \/ ResourcesOf(b, r) = Entry(ParameterTreeName(r), ParameterTree(b, r))
    BY <2>1, ResultFields DEF ConfigEmitted, ResourcesOf
  <2>3. p = ConfigSecret(b, r) \/ p = ParameterTree(b, r)
    BY <1>1, <2>2 DEF Entry
  <2> QED
    BY <1>4, <2>3, OtherRefs
<1>10. ASSUME b.kind[r] = "vpc" PROVE sure
  <2>1. p = FlexVpc(b, r)
    BY <1>1, <1>3, <1>10, VpcResult, ResultByKind DEF Single, ResourcesOf
  <2> QED
    BY <1>4, <2>1, OtherRefs
<1>11. sure
  BY <1>2, <1>5, <1>6, <1>7, <1>8, <1>9, <1>10 DEF Kinds
<1> QED
  BY <1>11 DEF sure, p

LEMMA InvReferences == BackingInv => BackingReferencesResolve
<1> SUFFICES ASSUME BackingInv, Complete, NEW n \in DOMAIN emitted,
                    ~Refused(emitted[n].of)
             PROVE  Resolves(emitted[n])
  BY DEF BackingReferencesResolve, Resolves, SecretThere
<1> DEFINE r == n[1]
<1>1. /\ r \in DOMAIN b.kind /\ n \in DOMAIN ResourcesOf(b, r)
      /\ emitted[n] = ResourcesOf(b, r)[n] /\ emitted[n].of = r /\ r \in EmittedBackings
  BY EmittedIsOwn
<1>2. ~Refused(r) /\ ~Reported(r)
  BY <1>1 DEF Refused
<1> HIDE DEF r
<1>3. CASE b.kind[r] = "sqlDatabase"
  <2>1. ResourcesOf(b, r) = DatabaseResources(b, r)
    BY <1>1, <1>2, <1>3, DatabaseThere, RefusalReported
  <2>2. n \in DatabaseNames(b, r)
    BY <1>1, <2>1, DatabaseDomain
  <2> QED
    BY <1>1, <1>2, <1>3, <2>1, <2>2, DatabaseResolves
<1>4. CASE b.kind[r] = "cache"
  <2>1. ResourcesOf(b, r) = CacheResources(b, r)
    BY <1>1, <1>2, <1>4, CacheThere, RefusalReported
  <2>2. DOMAIN CacheResources(b, r) = CacheNames(b, r)
    BY CacheContents
  <2>3. n \in CacheNames(b, r)
    BY <1>1, <2>1, <2>2
  <2> QED
    BY <1>1, <1>2, <1>4, <2>1, <2>3, CacheResolves
<1>5. CASE b.kind[r] \notin {"sqlDatabase", "cache"}
  BY <1>2, <1>5, OtherResolves DEF r
<1> QED
  BY <1>3, <1>4, <1>5


\* The key of a connection ends in the part it is of.
LEMMA KeyEndsInPart ==
    ASSUME IsBacked(b), NEW r \in DOMAIN b.kind, NEW s
    PROVE  ConnectionKey(r, s)[Len(ConnectionKey(r, s))] = s
<1> DEFINE key == StoreConfigKey(r)
           S == ToSet(key) \cup {s}
<1>1. key \in Seq(ToSet(key))
  BY ConfigKeyIsSequence
<1> HIDE DEF key
<1>2. key \in Seq(S) /\ s \in S
  BY <1>1
<1> HIDE DEF S
<1>3. Append(key, s)[Len(Append(key, s))] = s
  BY <1>2
<1> QED
  BY <1>3 DEF ConnectionKey, key

LEMMA InvStoreEntries == BackingInv => StoreEntriesResolve
<1> SUFFICES ASSUME BackingInv, Complete, NEW key \in DOMAIN entries,
                    ~Reported(entries[key])
             PROVE  EntryRefs(entries[key], key) \subseteq DOMAIN emitted \cup DOMAIN values
  BY DEF StoreEntriesResolve
<1> DEFINE r == entries[key]
           suffix == key[Len(key)]
<1>1. IsBacked(b) /\ r \in Backings /\ key \in KeysOf(r)
  BY BlueprintIsBacked DEF BackingInv, StoreInv, PlanShape
<1>2. r \in DOMAIN b.kind /\ b.kind[r] \in ToSet(Groups)
  BY <1>1 DEF Backings
<1>3. b.kind[r] \in {"queue", "topic", "datastore", "bucket", "cache", "sqlDatabase"}
  BY <1>2 DEF Groups, ToSet
<1>4. r \in EmittedBackings /\ ~Reported(r)
  BY <1>2, AllEmitted
<1>5. ASSUME b.kind[r] \notin {"cache", "sqlDatabase"}
      PROVE  EntryRefs(r, key) \subseteq DOMAIN emitted \cup DOMAIN values
  <2>1. /\ b.kind[r] = "queue" => QueueName(r) \in DOMAIN emitted
        /\ b.kind[r] = "topic" => TopicName(r) \in DOMAIN emitted
        /\ b.kind[r] = "bucket" => BucketName(r) \in DOMAIN emitted
        /\ b.kind[r] = "datastore" => TableName(r) \in DOMAIN emitted
    BY <1>4, IdentifierThere
  <2> HIDE DEF r
  <2> QED
    BY <1>3, <1>5, <2>1 DEF EntryRefs
<1>6. ASSUME b.kind[r] = "sqlDatabase"
      PROVE  EntryRefs(r, key) \subseteq DOMAIN emitted \cup DOMAIN values
  <2>1. IsConnection(r) /\ SuffixesOf(r) = SqlSuffixes(r)
    BY <1>6 DEF IsConnection, SuffixesOf
  <2>2. PICK s \in SqlSuffixes(r) : key = ConnectionKey(r, s)
    BY <1>1, <2>1 DEF KeysOf
  <2>3. suffix = s
    BY <1>1, <1>2, <2>2, KeyEndsInPart
  <2>4. /\ suffix = "readHost" => r \in b.replicas
        /\ suffix = "credentialsSecretId" => AuthMode(b, r) # "iam"
    BY <2>3 DEF SqlSuffixes
  <2>5. /\ {HostKey(r), DatabaseNameKey(r)} \subseteq DOMAIN values
        /\ r \in b.replicas => ReadHostKey(r) \in DOMAIN values
        /\ DatabaseNames(b, r) \subseteq DOMAIN emitted
    BY <1>4, <1>6, DatabaseThere, RefusalReported
  <2>6. AuthMode(b, r) # "iam" => AppUserSecretName(r) \in DOMAIN emitted
    BY <2>5 DEF DatabaseNames, AppUserAuth
  <2> HIDE DEF r
  <2>7. \/ EntryRefs(r, key) = {}
        \/ EntryRefs(r, key) = {HostKey(r)} \/ EntryRefs(r, key) = {DatabaseNameKey(r)}
        \/ suffix = "readHost" /\ EntryRefs(r, key) = {ReadHostKey(r)}
        \/ suffix = "credentialsSecretId" /\ EntryRefs(r, key) = {AppUserSecretName(r)}
    BY <1>6 DEF EntryRefs
  <2> HIDE DEF suffix
  <2> QED
    BY <2>4, <2>5, <2>6, <2>7
<1>7. ASSUME b.kind[r] = "cache"
      PROVE  EntryRefs(r, key) \subseteq DOMAIN emitted \cup DOMAIN values
  <2>1. IsConnection(r) /\ SuffixesOf(r) = CacheSuffixes(r)
    BY <1>7 DEF IsConnection, SuffixesOf
  <2>2. PICK s \in CacheSuffixes(r) : key = ConnectionKey(r, s)
    BY <1>1, <2>1 DEF KeysOf
  <2>3. suffix = s
    BY <1>1, <1>2, <2>2, KeyEndsInPart
  <2>4. /\ suffix = "authTokenSecretId" => AuthMode(b, r) = "password"
        /\ suffix = "user" => AuthMode(b, r) = "iam"
    BY <2>3 DEF CacheSuffixes
  <2>5. CacheHostKey(r) \in DOMAIN values /\ CacheNames(b, r) \subseteq DOMAIN emitted
    BY <1>4, <1>7, CacheThere, RefusalReported
  <2>6. /\ AuthMode(b, r) = "password" => AuthSecretName(r) \in DOMAIN emitted
        /\ AuthMode(b, r) = "iam" => IamUserName(r) \in DOMAIN emitted
    BY <2>5 DEF CacheNames
  <2> HIDE DEF r
  <2>7. \/ EntryRefs(r, key) = {} \/ EntryRefs(r, key) = {CacheHostKey(r)}
        \/ suffix = "authTokenSecretId" /\ EntryRefs(r, key) = {AuthSecretName(r)}
        \/ suffix = "user" /\ EntryRefs(r, key) = {IamUserName(r)}
    BY <1>7 DEF EntryRefs
  <2> HIDE DEF suffix
  <2> QED
    BY <2>4, <2>5, <2>6, <2>7
<1> QED
  BY <1>5, <1>6, <1>7

LEMMA InvBackingsTyped == BackingInv => BackingsTypeOK
<1> SUFFICES ASSUME BackingInv PROVE BackingsTypeOK
  OBVIOUS
<1>1. TypeOK
  BY InvStoreTyped DEF BackingInv
<1>2. \A n \in DOMAIN emitted : emitted[n].of = n[1] /\ n[1] \in EmittedBackings
  BY EmittedIsOwn
<1> QED
  BY <1>1, <1>2 DEF BackingInv, NothingElse, EmittedBackings, BackingsTypeOK


-----------------------------------------------------------------------------
(* What links to what.                                                     *)

\* Who a function, a proxy or a runner looks for has the label it is found by.
LEMMA LabelledFound ==
    ASSUME NEW x, NEW d
    PROVE  /\ DatabaseResources(x, d)[Endpoint(x, d)].labels
                = LabelsWith(OwnLabels(x, d), MaintenanceTarget, <<d>>)
           /\ DatabaseResources(x, d)[RunnerName(d)] = MaintenanceRunner(x, d)
           /\ AppUserAuth(x, d) =>
                DatabaseResources(x, d)[AppUserSecretName(d)] = AppUserSecretResource(x, d)
<1>1. RunnerName(d) # Endpoint(x, d) /\ AppUserSecretName(d) # Endpoint(x, d)
  BY NamesApart DEF Endpoint
<1>2. DatabaseResources(x, d)[RunnerName(d)] = MaintenanceRunner(x, d)
  <2>1. UnmarkedResources(x, d)[RunnerName(d)] = MaintenanceRunner(x, d)
    BY UnmarkedParts
  <2>2. RunnerName(d) \in DatabaseNames(x, d)
    BY DEF DatabaseNames
  <2>3. MaintenanceRunner(x, d).shared = FALSE
    BY DEF MaintenanceRunner, Concrete
  <2> QED
    BY <1>1, <2>1, <2>2, <2>3, UnsharedUnmarked
<1>3. ASSUME AppUserAuth(x, d)
      PROVE  DatabaseResources(x, d)[AppUserSecretName(d)] = AppUserSecretResource(x, d)
  <2>1. UnmarkedResources(x, d)[AppUserSecretName(d)] = AppUserSecretResource(x, d)
    BY <1>3, UnmarkedParts
  <2>2. AppUserSecretName(d) \in DatabaseNames(x, d)
    BY <1>3 DEF DatabaseNames
  <2>3. AppUserSecretResource(x, d).shared = FALSE
    BY DEF AppUserSecretResource, Concrete
  <2> QED
    BY <1>1, <2>1, <2>2, <2>3, UnsharedUnmarked
<1>4. DatabaseResources(x, d)[Endpoint(x, d)].labels
        = LabelsWith(OwnLabels(x, d), MaintenanceTarget, <<d>>)
  <2>1. CASE AuroraEnabled(x, d)
    <3>1. UnmarkedResources(x, d)[Endpoint(x, d)] = AuroraCluster(x, d)
      BY <2>1, UnmarkedParts DEF Endpoint
    <3>2. DatabaseResources(x, d)[Endpoint(x, d)] = MarkedCopy(AuroraCluster(x, d), d)
      BY <3>1, EndpointMarked
    <3>3. MarkedCopy(AuroraCluster(x, d), d).labels
            = LabelsWith(OwnLabels(x, d), MaintenanceTarget, <<d>>)
      BY DEF MarkedCopy, AuroraCluster, WithOwnLabels, Concrete
    <3> QED
      BY <3>2, <3>3
  <2>2. CASE ~AuroraEnabled(x, d)
    <3>1. UnmarkedResources(x, d)[Endpoint(x, d)] = Proxy(x, d)
      BY <2>2, UnmarkedParts DEF Endpoint
    <3>2. DatabaseResources(x, d)[Endpoint(x, d)] = MarkedCopy(Proxy(x, d), d)
      BY <3>1, EndpointMarked
    <3>3. MarkedCopy(Proxy(x, d), d).labels
            = LabelsWith(OwnLabels(x, d), MaintenanceTarget, <<d>>)
      BY DEF MarkedCopy, Proxy, WithOwnLabels, Concrete
    <3> QED
      BY <3>2, <3>3
  <2> QED
    BY <2>1, <2>2
<1> QED
  BY <1>2, <1>3, <1>4

LEMMA RunnerFinds ==
    ASSUME NEW x, NEW d
    PROVE  /\ MaintenanceRunner(x, d).labels = x.selector[VpcOf(x, d)]
           /\ Selects(MaintenanceRunner(x, d).selector,
                      DatabaseResources(x, d)[Endpoint(x, d)].labels)
<1>1. /\ MaintenanceRunner(x, d).labels = x.selector[VpcOf(x, d)]
      /\ MaintenanceRunner(x, d).selector = OneLabel(MaintenanceTarget, <<d>>)
  BY DEF MaintenanceRunner, Concrete
<1>2. DatabaseResources(x, d)[Endpoint(x, d)].labels
        = LabelsWith(OwnLabels(x, d), MaintenanceTarget, <<d>>)
  BY LabelledFound
<1>3. Selects(OneLabel(MaintenanceTarget, <<d>>),
              LabelsWith(OwnLabels(x, d), MaintenanceTarget, <<d>>))
  BY DEF Selects, OneLabel, LabelsWith
<1> QED
  BY <1>1, <1>2, <1>3

LEMMA VpcFindsItsOwn ==
    ASSUME NEW x, NEW d, NEW v \in PlacedIn(x, d)
    PROVE  Selects(FlexVpc(x, v).selector, x.selector[v])
<1>1. FlexVpc(x, v).selector = x.selector[v]
  BY VpcParts
<1>2. Selects(x.selector[v], OwnLabels(x, d))
  BY DEF PlacedIn
<1> QED
  BY <1>1, <1>2 DEF Selects

LEMMA InvRunner == BackingInv => RunnerReachesItsDatabase
<1> SUFFICES ASSUME BackingInv, Complete, NEW d \in OfBacking(b, "sqlDatabase"), ~Refused(d)
             PROVE  /\ Selects(emitted[VpcName(VpcOf(b, d))].selector,
                               emitted[RunnerName(d)].labels)
                    /\ Selects(emitted[RunnerName(d)].selector,
                               emitted[values[HostKey(d)]].labels)
                    /\ emitted[RunnerName(d)].secrets
                            \subseteq emitted[RunnerRoleName(d)].secrets
  BY DEF RunnerReachesItsDatabase
<1>1. d \in DOMAIN b.kind /\ b.kind[d] = "sqlDatabase" /\ ~Reported(d)
  BY DEF OfBacking, Refused
<1>2. /\ PlacedIn(b, d) # {}
      /\ \A n \in DatabaseNames(b, d) : emitted[n] = DatabaseResources(b, d)[n]
      /\ values[HostKey(d)] = Endpoint(b, d)
  BY <1>1, AllEmitted, DatabaseThere, RefusalReported
<1>3. /\ VpcOf(b, d) \in PlacedIn(b, d)
      /\ emitted[VpcName(VpcOf(b, d))] = FlexVpc(b, VpcOf(b, d))
  BY <1>1, <1>2, VpcOfThere
<1>4. {RunnerName(d), RunnerRoleName(d), Endpoint(b, d)} \subseteq DatabaseNames(b, d)
  BY EndpointEmitted DEF DatabaseNames
<1>5. /\ emitted[RunnerName(d)] = DatabaseResources(b, d)[RunnerName(d)]
      /\ emitted[RunnerRoleName(d)] = DatabaseResources(b, d)[RunnerRoleName(d)]
      /\ emitted[Endpoint(b, d)] = DatabaseResources(b, d)[Endpoint(b, d)]
  BY <1>2, <1>4
<1>6. DatabaseResources(b, d)[RunnerName(d)] = MaintenanceRunner(b, d)
  BY LabelledFound
<1>7. /\ MaintenanceRunner(b, d).labels = b.selector[VpcOf(b, d)]
      /\ Selects(MaintenanceRunner(b, d).selector,
                 DatabaseResources(b, d)[Endpoint(b, d)].labels)
  BY RunnerFinds
<1>8. Selects(FlexVpc(b, VpcOf(b, d)).selector, b.selector[VpcOf(b, d)])
  BY <1>3, VpcFindsItsOwn
<1>9. /\ DatabaseResources(b, d)[RunnerName(d)].secrets = RunnerSecrets(b, d)
      /\ DatabaseResources(b, d)[RunnerRoleName(d)].secrets = RunnerSecrets(b, d)
  <2>1. /\ Relates(DatabaseResources(b, d)[RunnerName(d)], "lambda/function", d,
                   {RunnerRoleName(d), HostKey(d), DatabaseNameKey(d)}, {},
                   RunnerSecrets(b, d))
        /\ Relates(DatabaseResources(b, d)[RunnerRoleName(d)], "iam/role", d,
                   IF AppUserAuth(b, d) THEN {} ELSE {InstanceName(d)}, {},
                   RunnerSecrets(b, d))
    BY DatabaseParts
  <2> QED
    BY <2>1 DEF Relates
<1>10. Selects(emitted[VpcName(VpcOf(b, d))].selector, emitted[RunnerName(d)].labels)
  BY <1>3, <1>5, <1>6, <1>7, <1>8
<1>11. Selects(emitted[RunnerName(d)].selector, emitted[values[HostKey(d)]].labels)
  BY <1>2, <1>5, <1>6, <1>7
<1> QED
  BY <1>5, <1>9, <1>10, <1>11

\* The transformer adds labels of its own to what handlers select; an author who
\* selects by such a key selects what it was not meant for.
SelectedByAuthors ==
    \A h \in Handlers : {MaintenanceTarget, CacheAuthLabel} \cap DOMAIN b.selector[h] = {}

LEMMA LinkedByLabels ==
    ASSUME BackingInv, NEW h \in Handlers, NEW r, LinksOf(h, r)
    PROVE  r \in ToSet(b.links[h]) /\ Selects(b.selector[h], OwnLabels(b, r))
<1>1. IsBacked(b)
  BY BlueprintIsBacked DEF BackingInv, StoreInv
<1> QED
  BY <1>1 DEF LinksOf, IsBacked, Handlers

\* A label the handler does not select by changes nothing.
LEMMA StillSelected ==
    ASSUME NEW h \in Handlers, NEW r, NEW key, NEW value,
           Selects(b.selector[h], OwnLabels(b, r)), key \notin DOMAIN b.selector[h]
    PROVE  Selects(b.selector[h], LabelsWith(OwnLabels(b, r), key, value))
<1> DEFINE own == OwnLabels(b, r)
           sel == b.selector[h]
<1>1. PICK k \in DOMAIN sel \cap DOMAIN own : sel[k] = own[k]
  BY DEF Selects
<1> HIDE DEF own, sel
<1>2. k # key
  BY <1>1 DEF sel
<1>3. k \in DOMAIN LabelsWith(own, key, value) /\ LabelsWith(own, key, value)[k] = own[k]
  BY <1>1, <1>2 DEF LabelsWith
<1>4. Selects(sel, LabelsWith(own, key, value))
  BY <1>1, <1>3 DEF Selects
<1> QED
  BY <1>4 DEF own, sel

\* The proxy presents secrets that its role can read, the application user's too.
LEMMA ProxySecrets ==
    ASSUME NEW x, NEW d, AppUserAuth(x, d),
           DatabaseResources(x, d)[Endpoint(x, d)].type = "rds/dbProxy"
    PROVE  /\ ProxyRoleName(d) \in DatabaseNames(x, d)
           /\ AppUserSecret(d) \in DatabaseResources(x, d)[Endpoint(x, d)].secrets
           /\ DatabaseResources(x, d)[Endpoint(x, d)].secrets
                \subseteq DatabaseResources(x, d)[ProxyRoleName(d)].secrets
<1>1. ~AuroraEnabled(x, d)
  <2> SUFFICES ASSUME AuroraEnabled(x, d) PROVE FALSE
    OBVIOUS
  <2>1. Relates(DatabaseResources(x, d)[ClusterName(d)], "rds/dbCluster", d,
                SubnetRefs(x, d), InDatabaseGroup(x, d), {})
    BY AuroraParts
  <2>2. DatabaseResources(x, d)[ClusterName(d)].type = "rds/dbCluster"
    BY <2>1 DEF Relates
  <2>3. Endpoint(x, d) = ClusterName(d)
    BY DEF Endpoint
  <2> QED
    BY <2>2, <2>3
<1>2. Endpoint(x, d) = ProxyName(d) /\ ProxyRoleName(d) \in DatabaseNames(x, d)
  BY <1>1 DEF Endpoint, DatabaseNames
<1>3. /\ Relates(DatabaseResources(x, d)[ProxyName(d)], "rds/dbProxy", d,
                 {ProxyRoleName(d), VpcName(VpcOf(x, d))},
                 {<<VpcOf(x, d), SecurityGroup(d, "proxy")>>}, RegisteredSecrets(x, d))
      /\ Relates(DatabaseResources(x, d)[ProxyRoleName(d)], "iam/role", d,
                 IF AppUserAuth(x, d) THEN {} ELSE {InstanceName(d)}, {},
                 RegisteredSecrets(x, d))
  BY <1>1, StandaloneParts
<1>4. /\ DatabaseResources(x, d)[ProxyName(d)].secrets = RegisteredSecrets(x, d)
      /\ DatabaseResources(x, d)[ProxyRoleName(d)].secrets = RegisteredSecrets(x, d)
  BY <1>3 DEF Relates
<1>5. AppUserSecret(d) \in RegisteredSecrets(x, d)
  BY DEF RegisteredSecrets
<1> QED
  BY <1>2, <1>4, <1>5

LEMMA InvDatabaseLogin == BackingInv /\ SelectedByAuthors => DatabaseHandlersCanLogIn
<1> SUFFICES ASSUME BackingInv, SelectedByAuthors, Complete, NEW h \in Handlers,
                    NEW d \in OfBacking(b, "sqlDatabase"), LinksOf(h, d), ~Refused(d)
             PROVE  LET host == values[HostKey(d)]
                        secret == AppUserSecretName(d)
                    IN  /\ host \in DOMAIN emitted /\ FunctionSelects(h, host)
                        /\ IF AuthMode(b, d) = "iam"
                           THEN host \in IamTargets(h) /\ secret \notin DOMAIN emitted
                           ELSE /\ FunctionSelects(h, secret)
                                /\ emitted[host].type = "rds/dbProxy" =>
                                    /\ AppUserSecret(d) \in emitted[host].secrets
                                    /\ emitted[host].secrets
                                        \subseteq emitted[ProxyRoleName(d)].secrets
  BY DEF DatabaseHandlersCanLogIn
<1> DEFINE host == Endpoint(b, d)
           secret == AppUserSecretName(d)
<1>1. d \in DOMAIN b.kind /\ b.kind[d] = "sqlDatabase" /\ ~Reported(d)
  BY DEF OfBacking, Refused
<1>2. d \in EmittedBackings
  BY <1>1, AllEmitted
<1>3. /\ ResourcesOf(b, d) = DatabaseResources(b, d)
      /\ DatabaseNames(b, d) \subseteq DOMAIN emitted
      /\ \A n \in DatabaseNames(b, d) : emitted[n] = DatabaseResources(b, d)[n]
      /\ values[HostKey(d)] = host
  BY <1>1, <1>2, DatabaseThere, RefusalReported
<1>4. host \in DatabaseNames(b, d)
  BY EndpointEmitted
<1>5. d \in ToSet(b.links[h]) /\ Selects(b.selector[h], OwnLabels(b, d))
  BY LinkedByLabels
<1>6. host \in DOMAIN emitted /\ emitted[host] = DatabaseResources(b, d)[host]
  BY <1>3, <1>4
<1>7. FunctionSelects(h, host)
  <2>1. MaintenanceTarget \notin DOMAIN b.selector[h]
    BY DEF SelectedByAuthors
  <2>2. Selects(b.selector[h], LabelsWith(OwnLabels(b, d), MaintenanceTarget, <<d>>))
    BY <1>5, <2>1, StillSelected
  <2>3. DatabaseResources(b, d)[host].labels
            = LabelsWith(OwnLabels(b, d), MaintenanceTarget, <<d>>)
    BY LabelledFound
  <2> QED
    BY <1>6, <2>2, <2>3 DEF FunctionSelects
<1>8. ASSUME AuthMode(b, d) = "iam"
      PROVE  host \in IamTargets(h) /\ secret \notin DOMAIN emitted
  <2>1. AuthTargetForHandler(b, d) \in IamTargets(h)
    BY <1>1, <1>5, <1>8 DEF IamTargets
  <2>2. AuthTargetForHandler(b, d) = host
    BY DEF AuthTargetForHandler, Endpoint
  <2>3. secret \notin DatabaseNames(b, d)
    BY <1>8, NamesApart DEF DatabaseNames, AppUserAuth
  <2>4. secret[1] = d
    BY DEF AppUserSecretName
  <2>5. DOMAIN DatabaseResources(b, d) = DatabaseNames(b, d)
    BY DatabaseDomain
  <2>6. secret \notin DOMAIN emitted
    BY <1>3, <2>3, <2>4, <2>5, EmittedIsOwn
  <2> QED
    BY <2>1, <2>2, <2>6
<1>9. ASSUME AuthMode(b, d) # "iam"
      PROVE  /\ FunctionSelects(h, secret)
             /\ emitted[host].type = "rds/dbProxy" =>
                    /\ AppUserSecret(d) \in emitted[host].secrets
                    /\ emitted[host].secrets \subseteq emitted[ProxyRoleName(d)].secrets
  <2>1. AppUserAuth(b, d) /\ secret \in DatabaseNames(b, d)
    BY <1>9 DEF AppUserAuth, DatabaseNames
  <2>2. emitted[secret] = DatabaseResources(b, d)[secret]
    BY <1>3, <2>1
  <2>3. DatabaseResources(b, d)[secret] = AppUserSecretResource(b, d)
    BY <2>1, LabelledFound
  <2>4. AppUserSecretResource(b, d).labels = OwnLabels(b, d)
    BY DatabaseLabels
  <2>5. FunctionSelects(h, secret)
    BY <1>5, <2>2, <2>3, <2>4 DEF FunctionSelects
  <2>6. ASSUME emitted[host].type = "rds/dbProxy"
        PROVE  /\ AppUserSecret(d) \in emitted[host].secrets
               /\ emitted[host].secrets \subseteq emitted[ProxyRoleName(d)].secrets
    <3>1. DatabaseResources(b, d)[host].type = "rds/dbProxy"
      BY <1>6, <2>6
    <3>2. /\ ProxyRoleName(d) \in DatabaseNames(b, d)
          /\ AppUserSecret(d) \in DatabaseResources(b, d)[host].secrets
          /\ DatabaseResources(b, d)[host].secrets
                \subseteq DatabaseResources(b, d)[ProxyRoleName(d)].secrets
      BY <2>1, <3>1, ProxySecrets
    <3>3. emitted[ProxyRoleName(d)] = DatabaseResources(b, d)[ProxyRoleName(d)]
      BY <1>3, <3>2
    <3> QED
      BY <1>6, <3>2, <3>3
  <2> QED
    BY <2>5, <2>6
<1> HIDE DEF host, secret
<1>10. /\ host \in DOMAIN emitted /\ FunctionSelects(h, host)
       /\ IF AuthMode(b, d) = "iam"
          THEN host \in IamTargets(h) /\ secret \notin DOMAIN emitted
          ELSE /\ FunctionSelects(h, secret)
               /\ emitted[host].type = "rds/dbProxy" =>
                   /\ AppUserSecret(d) \in emitted[host].secrets
                   /\ emitted[host].secrets \subseteq emitted[ProxyRoleName(d)].secrets
  BY <1>6, <1>7, <1>8, <1>9
<1> QED
  BY <1>3, <1>10 DEF secret

\* A cache's group and its secret, as a function and each other find them.
LEMMA CacheFound ==
    ASSUME NEW x, NEW c
    PROVE  /\ CacheResources(x, c)[ReplicationGroupName(c)].labels = OwnLabels(x, c)
           /\ AuthMode(x, c) # "iam" =>
                /\ CacheResources(x, c)[AuthSecretName(c)].labels
                    = LabelsWith(OwnLabels(x, c), CacheAuthLabel, LogicalName(x, c))
                /\ CacheResources(x, c)[ReplicationGroupName(c)].selector
                    = LabelsWith(x.selector[c], CacheAuthLabel, LogicalName(x, c))
                /\ Selects(CacheResources(x, c)[ReplicationGroupName(c)].selector,
                           CacheResources(x, c)[AuthSecretName(c)].labels)
           /\ AuthMode(x, c) = "iam" =>
                /\ UserGroupName(c) \in CacheResources(x, c)[ReplicationGroupName(c)].refs
                /\ CacheResources(x, c)[UserGroupName(c)].refs = {IamUserName(c)}
<1>1. /\ CacheResources(x, c)[ReplicationGroupName(c)] = ReplicationGroup(x, c)
      /\ AuthMode(x, c) # "iam" =>
            CacheResources(x, c)[AuthSecretName(c)] = AuthSecret(x, c)
      /\ AuthMode(x, c) = "iam" =>
            CacheResources(x, c)[UserGroupName(c)] = UserGroup(c)
  BY CacheContents
<1>2. /\ ReplicationGroup(x, c).labels = OwnLabels(x, c)
      /\ ReplicationGroup(x, c).selector = CacheSelector(x, c)
      /\ AuthSecret(x, c).labels
            = LabelsWith(OwnLabels(x, c), CacheAuthLabel, LogicalName(x, c))
  BY ReplicationGroupRelates, CacheRelates
<1>3. AuthMode(x, c) # "iam" =>
        CacheSelector(x, c) = LabelsWith(x.selector[c], CacheAuthLabel, LogicalName(x, c))
  BY DEF CacheSelector
<1>4. Selects(LabelsWith(x.selector[c], CacheAuthLabel, LogicalName(x, c)),
              LabelsWith(OwnLabels(x, c), CacheAuthLabel, LogicalName(x, c)))
  BY DEF Selects, LabelsWith
<1>5. AuthMode(x, c) = "iam" => UserGroupName(c) \in ReplicationGroup(x, c).refs
  <2>1. Relates(ReplicationGroup(x, c), "elasticache/replicationGroup", c,
                GroupRefs(x, c), GroupGroups(x, c), {})
    BY ReplicationGroupRelates
  <2>2. ReplicationGroup(x, c).refs = GroupRefs(x, c)
    BY <2>1 DEF Relates
  <2> QED
    BY <2>2 DEF GroupRefs
<1>6. UserGroup(c).refs = {IamUserName(c)}
  BY DEF UserGroup, Concrete
<1>7. ASSUME AuthMode(x, c) # "iam"
      PROVE  /\ CacheResources(x, c)[AuthSecretName(c)].labels
                  = LabelsWith(OwnLabels(x, c), CacheAuthLabel, LogicalName(x, c))
             /\ CacheResources(x, c)[ReplicationGroupName(c)].selector
                  = LabelsWith(x.selector[c], CacheAuthLabel, LogicalName(x, c))
             /\ Selects(CacheResources(x, c)[ReplicationGroupName(c)].selector,
                        CacheResources(x, c)[AuthSecretName(c)].labels)
  BY <1>1, <1>2, <1>3, <1>4, <1>7
<1> QED
  BY <1>1, <1>2, <1>5, <1>6, <1>7

LEMMA InvCacheLogin == BackingInv /\ SelectedByAuthors => CacheHandlersCanLogIn
<1> SUFFICES ASSUME BackingInv, SelectedByAuthors, Complete, NEW h \in Handlers,
                    NEW c \in OfBacking(b, "cache"), LinksOf(h, c), ~Refused(c)
             PROVE  /\ FunctionSelects(h, ReplicationGroupName(c))
                    /\ IF AuthMode(b, c) = "iam"
                       THEN /\ ReplicationGroupName(c) \in IamTargets(h)
                            /\ \E u \in emitted[ReplicationGroupName(c)].refs :
                                    IamUserName(c) \in emitted[u].refs
                       ELSE /\ FunctionSelects(h, AuthSecretName(c))
                            /\ Selects(emitted[ReplicationGroupName(c)].selector,
                                       emitted[AuthSecretName(c)].labels)
  BY DEF CacheHandlersCanLogIn
<1>1. c \in DOMAIN b.kind /\ b.kind[c] = "cache" /\ ~Reported(c)
  BY DEF OfBacking, Refused
<1>2. \A n \in CacheNames(b, c) : emitted[n] = CacheResources(b, c)[n]
  BY <1>1, AllEmitted, CacheThere, RefusalReported
<1>3. emitted[ReplicationGroupName(c)] = CacheResources(b, c)[ReplicationGroupName(c)]
  BY <1>2 DEF CacheNames
<1>4. c \in ToSet(b.links[h]) /\ Selects(b.selector[h], OwnLabels(b, c))
  BY LinkedByLabels
<1>5. FunctionSelects(h, ReplicationGroupName(c))
  <2>1. CacheResources(b, c)[ReplicationGroupName(c)].labels = OwnLabels(b, c)
    BY CacheFound
  <2> QED
    BY <1>3, <1>4, <2>1 DEF FunctionSelects
<1>6. ASSUME AuthMode(b, c) = "iam"
      PROVE  /\ ReplicationGroupName(c) \in IamTargets(h)
             /\ \E u \in emitted[ReplicationGroupName(c)].refs :
                    IamUserName(c) \in emitted[u].refs
  <2>1. b.auth[c] = "iam"
    BY <1>6 DEF AuthMode
  <2>2. ReplicationGroupName(c) \in IamTargets(h)
    BY <1>1, <1>4, <2>1 DEF IamTargets
  <2>3. emitted[UserGroupName(c)] = CacheResources(b, c)[UserGroupName(c)]
    BY <1>2, <1>6 DEF CacheNames
  <2>4. /\ UserGroupName(c) \in CacheResources(b, c)[ReplicationGroupName(c)].refs
        /\ CacheResources(b, c)[UserGroupName(c)].refs = {IamUserName(c)}
    BY <1>6, CacheFound
  <2>5. UserGroupName(c) \in emitted[ReplicationGroupName(c)].refs
    BY <1>3, <2>4
  <2>6. IamUserName(c) \in emitted[UserGroupName(c)].refs
    BY <2>3, <2>4
  <2> QED
    BY <2>2, <2>5, <2>6
<1>7. ASSUME AuthMode(b, c) # "iam"
      PROVE  /\ FunctionSelects(h, AuthSecretName(c))
             /\ Selects(emitted[ReplicationGroupName(c)].selector,
                        emitted[AuthSecretName(c)].labels)
  <2>1. emitted[AuthSecretName(c)] = CacheResources(b, c)[AuthSecretName(c)]
    BY <1>2, <1>7 DEF CacheNames
  <2>2. /\ CacheResources(b, c)[AuthSecretName(c)].labels
            = LabelsWith(OwnLabels(b, c), CacheAuthLabel, LogicalName(b, c))
        /\ Selects(CacheResources(b, c)[ReplicationGroupName(c)].selector,
                   CacheResources(b, c)[AuthSecretName(c)].labels)
    BY <1>7, CacheFound
  <2>3. CacheAuthLabel \notin DOMAIN b.selector[h]
    BY DEF SelectedByAuthors
  <2>4. Selects(b.selector[h], LabelsWith(OwnLabels(b, c), CacheAuthLabel, LogicalName(b, c)))
    BY <1>4, <2>3, StillSelected
  <2> QED
    BY <1>3, <2>1, <2>2, <2>4 DEF FunctionSelects
<1> QED
  BY <1>5, <1>6, <1>7


-----------------------------------------------------------------------------
(* Security groups.                                                        *)

InGroups(p, groups) == p.groups = groups

LEMMA RelatesGroups ==
    ASSUME NEW p, NEW t, NEW r, NEW rs, NEW gs, NEW ss, Relates(p, t, r, rs, gs, ss)
    PROVE  InGroups(p, gs)
BY DEF Relates, InGroups

\* The resource in front of a database that is reached by the group of the database.
GroupHolder(x, d) == IF AuroraEnabled(x, d) THEN ClusterName(d) ELSE InstanceName(d)

\* Of a database's resources its cluster, or its instance, and its proxy are in groups.
LEMMA DatabaseGroups ==
    ASSUME NEW x, NEW d
    PROVE  /\ GroupHolder(x, d) \in DatabaseNames(x, d)
           /\ InGroups(DatabaseResources(x, d)[GroupHolder(x, d)], InDatabaseGroup(x, d))
           /\ ~AuroraEnabled(x, d) =>
                /\ ProxyName(d) \in DatabaseNames(x, d)
                /\ InGroups(DatabaseResources(x, d)[ProxyName(d)],
                            {<<VpcOf(x, d), SecurityGroup(d, "proxy")>>})
           /\ \A n \in DatabaseNames(x, d) :
                \/ n = GroupHolder(x, d)
                \/ n = ProxyName(d) /\ ~AuroraEnabled(x, d)
                \/ InGroups(DatabaseResources(x, d)[n], {})
<1>1. /\ InGroups(DatabaseResources(x, d)[DbSubnetGroupName(d)], {})
      /\ InGroups(DatabaseResources(x, d)[RunnerName(d)], {})
      /\ InGroups(DatabaseResources(x, d)[RunnerRoleName(d)], {})
  <2>1. Relates(DatabaseResources(x, d)[DbSubnetGroupName(d)], "rds/dbSubnetGroup", d,
                {VpcName(VpcOf(x, d))}, {}, {})
    BY DatabaseParts
  <2>2. Relates(DatabaseResources(x, d)[RunnerName(d)], "lambda/function", d,
                {RunnerRoleName(d), HostKey(d), DatabaseNameKey(d)}, {},
                RunnerSecrets(x, d))
    BY DatabaseParts
  <2>3. Relates(DatabaseResources(x, d)[RunnerRoleName(d)], "iam/role", d,
                IF AppUserAuth(x, d) THEN {} ELSE {InstanceName(d)}, {},
                RunnerSecrets(x, d))
    BY DatabaseParts
  <2> QED
    BY <2>1, <2>2, <2>3, RelatesGroups
<1>2. d \in x.replicas => InGroups(DatabaseResources(x, d)[ReaderName(d)], {})
  <2>1. d \in x.replicas =>
            Relates(DatabaseResources(x, d)[ReaderName(d)], "rds/dbInstance", d,
                    IF AuroraEnabled(x, d) THEN {ClusterName(d)} ELSE {InstanceName(d)},
                    {}, {})
    BY DatabaseParts
  <2> QED
    BY <2>1, RelatesGroups
<1>3. AppUserAuth(x, d) => InGroups(DatabaseResources(x, d)[AppUserSecretName(d)], {})
  <2>1. AppUserAuth(x, d) => Relates(DatabaseResources(x, d)[AppUserSecretName(d)],
                                     "secretsmanager/secret", d, {}, {}, {})
    BY DatabaseParts
  <2> QED
    BY <2>1, RelatesGroups
<1>4. CASE AuroraEnabled(x, d)
  <2>1. /\ Relates(DatabaseResources(x, d)[ClusterName(d)], "rds/dbCluster", d,
                   SubnetRefs(x, d), InDatabaseGroup(x, d), {})
        /\ Relates(DatabaseResources(x, d)[InstanceName(d)], "rds/dbInstance", d,
                   {ClusterName(d)}, {}, {})
    BY <1>4, AuroraParts
  <2>2. /\ InGroups(DatabaseResources(x, d)[ClusterName(d)], InDatabaseGroup(x, d))
        /\ InGroups(DatabaseResources(x, d)[InstanceName(d)], {})
    BY <2>1, RelatesGroups
  <2>3. GroupHolder(x, d) = ClusterName(d)
    BY <1>4 DEF GroupHolder
  <2> QED
    BY <1>1, <1>2, <1>3, <1>4, <2>2, <2>3 DEF DatabaseNames
<1>5. CASE ~AuroraEnabled(x, d)
  <2>1. /\ Relates(DatabaseResources(x, d)[InstanceName(d)], "rds/dbInstance", d,
                   SubnetRefs(x, d), InDatabaseGroup(x, d), {})
        /\ Relates(DatabaseResources(x, d)[ProxyName(d)], "rds/dbProxy", d,
                   {ProxyRoleName(d), VpcName(VpcOf(x, d))},
                   {<<VpcOf(x, d), SecurityGroup(d, "proxy")>>}, RegisteredSecrets(x, d))
        /\ Relates(DatabaseResources(x, d)[ProxyRoleName(d)], "iam/role", d,
                   IF AppUserAuth(x, d) THEN {} ELSE {InstanceName(d)}, {},
                   RegisteredSecrets(x, d))
    BY <1>5, StandaloneParts
  <2>2. InGroups(DatabaseResources(x, d)[InstanceName(d)], InDatabaseGroup(x, d))
    BY <2>1, RelatesGroups
  <2>3. InGroups(DatabaseResources(x, d)[ProxyName(d)],
                 {<<VpcOf(x, d), SecurityGroup(d, "proxy")>>})
    BY <2>1, RelatesGroups
  <2>4. InGroups(DatabaseResources(x, d)[ProxyRoleName(d)], {})
    BY <2>1, RelatesGroups
  <2>5. GroupHolder(x, d) = InstanceName(d)
    BY <1>5 DEF GroupHolder
  <2> QED
    BY <1>1, <1>2, <1>3, <1>5, <2>2, <2>3, <2>4, <2>5 DEF DatabaseNames
<1> QED
  BY <1>4, <1>5

\* Of a cache's its replication group, if it is placed.
LEMMA CacheGroups ==
    ASSUME NEW x, NEW c
    PROVE  /\ InGroups(CacheResources(x, c)[ReplicationGroupName(c)], GroupGroups(x, c))
           /\ \A n \in CacheNames(x, c) :
                n = ReplicationGroupName(c) \/ InGroups(CacheResources(x, c)[n], {})
<1>1. Relates(CacheResources(x, c)[ReplicationGroupName(c)],
              "elasticache/replicationGroup", c, GroupRefs(x, c), GroupGroups(x, c), {})
  BY CacheParts
<1>2. InGroups(CacheResources(x, c)[ReplicationGroupName(c)], GroupGroups(x, c))
  BY <1>1, RelatesGroups
<1>3. PlacedIn(x, c) # {} => InGroups(CacheResources(x, c)[CacheSubnetGroupName(c)], {})
  <2>1. PlacedIn(x, c) # {} =>
            Relates(CacheResources(x, c)[CacheSubnetGroupName(c)],
                    "elasticache/subnetGroup", c, {VpcName(VpcOf(x, c))}, {}, {})
    BY CacheParts
  <2> QED
    BY <2>1, RelatesGroups
<1>4. AuthMode(x, c) # "iam" => InGroups(CacheResources(x, c)[AuthSecretName(c)], {})
  <2>1. AuthMode(x, c) # "iam" =>
            Relates(CacheResources(x, c)[AuthSecretName(c)], "secretsmanager/secret", c,
                    {}, {}, {})
    BY CacheParts
  <2> QED
    BY <2>1, RelatesGroups
<1>5. AuthMode(x, c) = "iam" => /\ InGroups(CacheResources(x, c)[IamUserName(c)], {})
                                /\ InGroups(CacheResources(x, c)[UserGroupName(c)], {})
  <2>1. AuthMode(x, c) = "iam" =>
            /\ Relates(CacheResources(x, c)[IamUserName(c)], "elasticache/user", c,
                       {}, {}, {})
            /\ Relates(CacheResources(x, c)[UserGroupName(c)],
                       "elasticache/userGroup", c, {IamUserName(c)}, {}, {})
    BY CacheParts
  <2> QED
    BY <2>1, RelatesGroups
<1> QED
  BY <1>2, <1>3, <1>4, <1>5 DEF CacheNames


\* What a resource that is no VPC has for a group, if it has one: it is the one
\* resource of a database or a cache that the group is for, in the VPC it is placed in.
Holds(x, n, r, role) ==
    \/ role = "db" /\ x.kind[r] = "sqlDatabase" /\ n = GroupHolder(x, r)
    \/ role = "proxy" /\ x.kind[r] = "sqlDatabase" /\ n = ProxyName(r)
        /\ ~AuroraEnabled(x, r)
    \/ role = "cache" /\ x.kind[r] = "cache" /\ n = ReplicationGroupName(r)

LEMMA HeldByDatabase ==
    ASSUME BackingInv, NEW d \in EmittedBackings, b.kind[d] = "sqlDatabase",
           ~Refuses(ResultOf(b, d), d)
    PROVE  /\ \A n \in DOMAIN ResourcesOf(b, d) : \A g \in emitted[n].groups :
                /\ VpcOf(b, d) \in PlacedIn(b, d)
                /\ \E role \in {"db", "proxy"} :
                        g = <<VpcOf(b, d), SecurityGroup(d, role)>> /\ Holds(b, n, d, role)
           /\ GroupHolder(b, d) \in DOMAIN emitted
           /\ <<VpcOf(b, d), SecurityGroup(d, "db")>> \in emitted[GroupHolder(b, d)].groups
           /\ ~AuroraEnabled(b, d) =>
                /\ ProxyName(d) \in DOMAIN emitted
                /\ <<VpcOf(b, d), SecurityGroup(d, "proxy")>> \in emitted[ProxyName(d)].groups
<1>1. /\ PlacedIn(b, d) # {} /\ ResourcesOf(b, d) = DatabaseResources(b, d)
      /\ DatabaseNames(b, d) \subseteq DOMAIN emitted
      /\ \A n \in DatabaseNames(b, d) : emitted[n] = DatabaseResources(b, d)[n]
  BY DatabaseThere
<1>2. VpcOf(b, d) \in PlacedIn(b, d)
  BY <1>1 DEF VpcOf
<1>3. DOMAIN DatabaseResources(b, d) = DatabaseNames(b, d)
  BY DatabaseDomain
<1>4. /\ GroupHolder(b, d) \in DatabaseNames(b, d)
      /\ InGroups(DatabaseResources(b, d)[GroupHolder(b, d)], InDatabaseGroup(b, d))
      /\ ~AuroraEnabled(b, d) =>
            /\ ProxyName(d) \in DatabaseNames(b, d)
            /\ InGroups(DatabaseResources(b, d)[ProxyName(d)],
                        {<<VpcOf(b, d), SecurityGroup(d, "proxy")>>})
      /\ \A n \in DatabaseNames(b, d) :
            \/ n = GroupHolder(b, d)
            \/ n = ProxyName(d) /\ ~AuroraEnabled(b, d)
            \/ InGroups(DatabaseResources(b, d)[n], {})
  BY DatabaseGroups
<1>5. /\ emitted[GroupHolder(b, d)].groups = {<<VpcOf(b, d), SecurityGroup(d, "db")>>}
      /\ ~AuroraEnabled(b, d) => emitted[ProxyName(d)].groups
                                    = {<<VpcOf(b, d), SecurityGroup(d, "proxy")>>}
  BY <1>1, <1>4 DEF InGroups, InDatabaseGroup
<1>6. ASSUME NEW n \in DatabaseNames(b, d), NEW g \in emitted[n].groups
      PROVE  \E role \in {"db", "proxy"} :
                g = <<VpcOf(b, d), SecurityGroup(d, role)>> /\ Holds(b, n, d, role)
  <2>1. CASE n = GroupHolder(b, d)
    BY <1>5, <2>1 DEF Holds
  <2>2. CASE n = ProxyName(d) /\ ~AuroraEnabled(b, d)
    BY <1>5, <2>2 DEF Holds
  <2>3. CASE InGroups(DatabaseResources(b, d)[n], {})
    BY <1>1, <2>3 DEF InGroups
  <2> QED
    BY <1>4, <2>1, <2>2, <2>3
<1> QED
  BY <1>1, <1>2, <1>3, <1>4, <1>5, <1>6

LEMMA HeldByCache ==
    ASSUME BackingInv, NEW c \in EmittedBackings, b.kind[c] = "cache",
           ~Refuses(ResultOf(b, c), c)
    PROVE  /\ \A n \in DOMAIN ResourcesOf(b, c) : \A g \in emitted[n].groups :
                /\ VpcOf(b, c) \in PlacedIn(b, c)
                /\ g = <<VpcOf(b, c), SecurityGroup(c, "cache")>>
                /\ Holds(b, n, c, "cache")
           /\ ReplicationGroupName(c) \in DOMAIN emitted
           /\ PlacedIn(b, c) # {} => <<VpcOf(b, c), SecurityGroup(c, "cache")>>
                                        \in emitted[ReplicationGroupName(c)].groups
<1>1. /\ ResourcesOf(b, c) = CacheResources(b, c)
      /\ CacheNames(b, c) \subseteq DOMAIN emitted
      /\ \A n \in CacheNames(b, c) : emitted[n] = CacheResources(b, c)[n]
  BY CacheThere
<1>2. PlacedIn(b, c) # {} => VpcOf(b, c) \in PlacedIn(b, c)
  BY DEF VpcOf
<1>3. DOMAIN CacheResources(b, c) = CacheNames(b, c)
  BY CacheContents
<1>4. /\ InGroups(CacheResources(b, c)[ReplicationGroupName(c)], GroupGroups(b, c))
      /\ \A n \in CacheNames(b, c) :
            n = ReplicationGroupName(c) \/ InGroups(CacheResources(b, c)[n], {})
  BY CacheGroups
<1>5. ReplicationGroupName(c) \in CacheNames(b, c)
  BY DEF CacheNames
<1>6. emitted[ReplicationGroupName(c)].groups = GroupGroups(b, c)
  BY <1>1, <1>4, <1>5 DEF InGroups
<1>7. ASSUME NEW n \in CacheNames(b, c), NEW g \in emitted[n].groups
      PROVE  /\ VpcOf(b, c) \in PlacedIn(b, c)
             /\ g = <<VpcOf(b, c), SecurityGroup(c, "cache")>>
             /\ Holds(b, n, c, "cache")
  <2>1. CASE n = ReplicationGroupName(c)
    BY <1>2, <1>6, <2>1 DEF Holds, GroupGroups
  <2>2. CASE InGroups(CacheResources(b, c)[n], {})
    BY <1>1, <2>2 DEF InGroups
  <2> QED
    BY <1>4, <2>1, <2>2
<1> QED
  BY <1>1, <1>3, <1>5, <1>6, <1>7 DEF GroupGroups

\* No resource of another kind has a group, but for the VPCs.
LEMMA OtherGroups ==
    ASSUME BackingInv, NEW n \in DOMAIN emitted,
           b.kind[n[1]] \notin {"sqlDatabase", "cache", "vpc"}
    PROVE  emitted[n].groups = {}
<1> DEFINE r == n[1]
           p == emitted[n]
           sure == p.groups = {}
<1>1. /\ r \in DOMAIN b.kind /\ r \in EmittedBackings
      /\ n \in DOMAIN ResourcesOf(b, r) /\ p = ResourcesOf(b, r)[n]
  BY EmittedIsOwn
<1>2. b.kind[r] \in Kinds /\ b.kind[r] \notin {"sqlDatabase", "cache", "vpc"}
  BY <1>1, KindsKnown DEF BackingInv
<1>3. ~Refuses(ResultOf(b, r), r)
  BY EmittedNotRefused
<1>4. InGroups(p, {}) => sure
  BY DEF InGroups
<1> HIDE DEF r, p, sure
<1>5. /\ InGroups(Queue(b, r), {}) /\ InGroups(QueueOrTopic(b, r, "sns/topic"), {})
      /\ InGroups(Forwarder(b, r), {}) /\ InGroups(ForwarderRole(r), {})
  <2>1. /\ Relates(Queue(b, r), "sqs/queue", r, {}, {}, {})
        /\ Relates(QueueOrTopic(b, r, "sns/topic"), "sns/topic", r, {}, {}, {})
        /\ Relates(Forwarder(b, r), "lambda/function", r, {ForwarderRoleName(r)}, {}, {})
        /\ Relates(ForwarderRole(r), "iam/role", r, {}, {}, {})
    BY QueueParts
  <2> QED
    BY <2>1, RelatesGroups
<1>6. /\ InGroups(Bucket(b, r), {}) /\ InGroups(Table(b, r), {})
      /\ InGroups(ConfigSecret(b, r), {}) /\ InGroups(ParameterTree(b, r), {})
  <2>1. /\ Relates(Bucket(b, r), "s3/bucket", r, {}, {}, {})
        /\ Relates(Table(b, r), "dynamodb/table", r, {}, {}, {})
        /\ Relates(ConfigSecret(b, r), "secretsmanager/secret", r, {}, {}, {})
        /\ Relates(ParameterTree(b, r), "ssm/parameterTree", r, {}, {}, {})
    BY StorageParts
  <2> QED
    BY <2>1, RelatesGroups
<1>7. ASSUME b.kind[r] = "queue" PROVE sure
  <2>1. QueueEmitted(b, r) /\ ResultOf(b, r) = EmitQueue(b, r)
    BY <1>3, <1>7, QueueResult, ResultByKind
  <2>2. p = Queue(b, r) \/ p = Forwarder(b, r) \/ p = ForwarderRole(r)
    BY <1>1, <2>1 DEF QueueEmitted, ResourcesOf
  <2> QED
    BY <1>4, <1>5, <2>2
<1>8. ASSUME b.kind[r] = "topic" PROVE sure
  <2>1. p = QueueOrTopic(b, r, "sns/topic")
    BY <1>1, <1>3, <1>8, TopicResult, ResultByKind DEF Single, ResourcesOf
  <2> QED
    BY <1>4, <1>5, <2>1
<1>9. ASSUME b.kind[r] = "bucket" PROVE sure
  <2>1. p = Bucket(b, r)
    BY <1>1, <1>9, BucketResult, ResultByKind DEF Single, ResourcesOf
  <2> QED
    BY <1>4, <1>6, <2>1
<1>10. ASSUME b.kind[r] = "datastore" PROVE sure
  <2>1. p = Table(b, r)
    BY <1>1, <1>3, <1>10, DatastoreResult, ResultByKind DEF Single, ResourcesOf
  <2> QED
    BY <1>4, <1>6, <2>1
<1>11. ASSUME b.kind[r] = "config" PROVE sure
  <2>1. ConfigEmitted(b, r) /\ ResultOf(b, r) = EmitConfig(b, r)
    BY <1>3, <1>11, ConfigResult, ResultByKind
  <2>2. \/ ResourcesOf(b, r) = Entry(ConfigSecretName(r), ConfigSecret(b, r))
        \/ ResourcesOf(b, r) = Entry(ParameterTreeName(r), ParameterTree(b, r))
    BY <2>1, ResultFields DEF ConfigEmitted, ResourcesOf
  <2>3. p = ConfigSecret(b, r) \/ p = ParameterTree(b, r)
    BY <1>1, <2>2 DEF Entry
  <2> QED
    BY <1>4, <1>6, <2>3
<1>12. sure
  BY <1>2, <1>7, <1>8, <1>9, <1>10, <1>11 DEF Kinds
<1> QED
  BY <1>12 DEF sure, p


\* Whoever has a group of a VPC, but for a VPC, is the holder it was minted for.
LEMMA GroupsHeld ==
    ASSUME BackingInv, NEW n \in DOMAIN emitted, NEW g \in emitted[n].groups
    PROVE  \/ /\ b.kind[n[1]] = "vpc" /\ n = VpcName(n[1])
              /\ g \in VpcGroups(b, n[1])
           \/ /\ n[1] \in DOMAIN b.kind /\ VpcOf(b, n[1]) \in PlacedIn(b, n[1])
              /\ \E role \in {"db", "proxy", "cache"} :
                    /\ g = <<VpcOf(b, n[1]), SecurityGroup(n[1], role)>>
                    /\ Holds(b, n, n[1], role)
<1> DEFINE r == n[1]
           sure == \/ /\ b.kind[r] = "vpc" /\ n = VpcName(r)
                      /\ g \in VpcGroups(b, r)
                   \/ /\ r \in DOMAIN b.kind /\ VpcOf(b, r) \in PlacedIn(b, r)
                      /\ \E role \in {"db", "proxy", "cache"} :
                            /\ g = <<VpcOf(b, r), SecurityGroup(r, role)>>
                            /\ Holds(b, n, r, role)
<1>1. /\ r \in DOMAIN b.kind /\ r \in EmittedBackings /\ n \in DOMAIN ResourcesOf(b, r)
      /\ ~Refuses(ResultOf(b, r), r)
  BY EmittedIsOwn, EmittedNotRefused
<1>2. b.kind[r] \notin {"sqlDatabase", "cache", "vpc"} => emitted[n].groups = {}
  BY OtherGroups
<1> HIDE DEF r
<1>3. CASE b.kind[r] = "sqlDatabase"
  <2>1. /\ VpcOf(b, r) \in PlacedIn(b, r)
        /\ \E role \in {"db", "proxy"} :
                g = <<VpcOf(b, r), SecurityGroup(r, role)>> /\ Holds(b, n, r, role)
    BY <1>1, <1>3, HeldByDatabase
  <2>2. sure
    BY <1>1, <2>1
  <2> QED
    BY <2>2 DEF r
<1>4. CASE b.kind[r] = "cache"
  <2>1. /\ VpcOf(b, r) \in PlacedIn(b, r)
        /\ g = <<VpcOf(b, r), SecurityGroup(r, "cache")>>
        /\ Holds(b, n, r, "cache")
    BY <1>1, <1>4, HeldByCache
  <2>2. sure
    BY <1>1, <2>1
  <2> QED
    BY <2>2 DEF r
<1>5. CASE b.kind[r] = "vpc"
  <2>1. DOMAIN ResourcesOf(b, r) = {VpcName(r)} /\ emitted[VpcName(r)] = FlexVpc(b, r)
    BY <1>1, <1>5, VpcThere
  <2>2. Relates(FlexVpc(b, r), "flex/vpc", r, {}, VpcGroups(b, r), {})
    BY VpcParts
  <2>3. FlexVpc(b, r).groups = VpcGroups(b, r)
    BY <2>2 DEF Relates
  <2>4. n = VpcName(r) /\ emitted[n] = FlexVpc(b, r)
    BY <1>1, <2>1
  <2>5. sure
    BY <1>5, <2>3, <2>4
  <2> QED
    BY <2>5 DEF r
<1> QED
  BY <1>2, <1>3, <1>4, <1>5

\* The group of a placed backing is one that its VPC mints, and has one holder.
LEMMA RolesApart ==
    ASSUME NEW x, NEW r, NEW n, NEW m, NEW role, Holds(x, n, r, role), Holds(x, m, r, role)
    PROVE  n = m
BY DEF Holds

LEMMA MintedFor ==
    ASSUME NEW x, NEW v, NEW r \in DOMAIN x.kind, v \in PlacedIn(x, r),
           x.kind[r] = "sqlDatabase" => AuroraEnabled(x, r) = ~NeedsProxyGroup(x, r),
           NEW n, NEW role, Holds(x, n, r, role)
    PROVE  SecurityGroup(r, role) \in MintedGroups(x, v)
<1>1. CASE role = "cache"
  BY <1>1 DEF Holds, MintedGroups, Members, OfBacking
<1>2. CASE role = "db"
  BY <1>2 DEF Holds, MintedGroups, Members, OfBacking
<1>3. CASE role = "proxy"
  <2>1. x.kind[r] = "sqlDatabase" /\ ~AuroraEnabled(x, r)
    BY <1>3 DEF Holds
  <2>2. NeedsProxyGroup(x, r)
    BY <2>1
  <2> QED
    BY <1>3, <2>1, <2>2 DEF MintedGroups, Members, OfBacking
<1> QED
  BY <1>1, <1>2, <1>3 DEF Holds

LEMMA MintedIsFor ==
    ASSUME NEW x, NEW v, NEW s \in MintedGroups(x, v),
           \A d \in Members(x, v, "sqlDatabase") :
                AuroraEnabled(x, d) = ~NeedsProxyGroup(x, d)
    PROVE  \E r \in DOMAIN x.kind : \E role \in {"db", "proxy", "cache"} :
                /\ v \in PlacedIn(x, r) /\ s = SecurityGroup(r, role)
                /\ role = "cache" => x.kind[r] = "cache"
                /\ role # "cache" => x.kind[r] = "sqlDatabase"
                /\ role = "proxy" => ~AuroraEnabled(x, r)
<1>1. CASE \E c \in Members(x, v, "cache") : s = SecurityGroup(c, "cache")
  BY <1>1 DEF Members, OfBacking
<1>2. CASE \E d \in Members(x, v, "sqlDatabase") : s = SecurityGroup(d, "db")
  BY <1>2 DEF Members, OfBacking
<1>3. CASE \E d \in Members(x, v, "sqlDatabase") :
                NeedsProxyGroup(x, d) /\ s = SecurityGroup(d, "proxy")
  <2>1. PICK d \in Members(x, v, "sqlDatabase") :
                NeedsProxyGroup(x, d) /\ s = SecurityGroup(d, "proxy")
    BY <1>3
  <2>2. ~AuroraEnabled(x, d)
    BY <2>1
  <2> QED
    BY <2>1, <2>2 DEF Members, OfBacking
<1> QED
  BY <1>1, <1>2, <1>3 DEF MintedGroups

\* Where a VPC and its databases agree, each group of it is held by one resource.
LEMMA InvGroups == BackingInv => GroupsAreMinted
<1> SUFFICES ASSUME BackingInv, Complete, NEW v \in OfBacking(b, "vpc"),
                    ~Reported(v), b.preset[v] # "referenced",
                    \A d \in Members(b, v, "sqlDatabase") :
                        AuroraEnabled(b, d) = ~NeedsProxyGroup(b, d),
                    \A r \in DOMAIN b.kind : v \in PlacedIn(b, r) => ~Reported(r),
                    NEW members,
                    members = {n \in DOMAIN emitted \ {VpcName(v)} : Group(n, v) # {}},
                    NEW g \in (UNION {Group(n, v) : n \in members})
                                \cup emitted[VpcName(v)].groups
             PROVE  /\ g \in emitted[VpcName(v)].groups
                    /\ Cardinality({n \in members : g \in emitted[n].groups}) = 1
  BY DEF GroupsAreMinted
<1>1. v \in DOMAIN b.kind /\ b.kind[v] = "vpc" /\ v \in EmittedBackings
  BY AllEmitted DEF OfBacking
<1>2. emitted[VpcName(v)].groups = {<<v, s>> : s \in MintedGroups(b, v)}
  <2>1. VpcName(v) \in DOMAIN emitted /\ emitted[VpcName(v)] = FlexVpc(b, v)
    BY <1>1, VpcThere, RefusalReported
  <2>2. Relates(FlexVpc(b, v), "flex/vpc", v, {}, VpcGroups(b, v), {})
    BY VpcParts
  <2>3. FlexVpc(b, v).groups = VpcGroups(b, v)
    BY <2>2 DEF Relates
  <2> QED
    BY <2>1, <2>3 DEF VpcGroups
<1>3. ASSUME NEW n \in members, NEW h \in Group(n, v)
      PROVE  /\ v \in PlacedIn(b, n[1]) /\ n[1] \in DOMAIN b.kind
             /\ \E role \in {"db", "proxy", "cache"} :
                    h = <<v, SecurityGroup(n[1], role)>> /\ Holds(b, n, n[1], role)
  <2>1. n \in DOMAIN emitted /\ n # VpcName(v) /\ h \in emitted[n].groups /\ h[1] = v
    BY DEF Group
  <2>2. CASE b.kind[n[1]] = "vpc" /\ n = VpcName(n[1]) /\ h \in VpcGroups(b, n[1])
    <3>1. h[1] = n[1]
      BY <2>2 DEF VpcGroups
    <3> QED
      BY <2>1, <2>2, <3>1
  <2>3. CASE /\ n[1] \in DOMAIN b.kind /\ VpcOf(b, n[1]) \in PlacedIn(b, n[1])
             /\ \E role \in {"db", "proxy", "cache"} :
                    /\ h = <<VpcOf(b, n[1]), SecurityGroup(n[1], role)>>
                    /\ Holds(b, n, n[1], role)
    <3>1. VpcOf(b, n[1]) = v
      BY <2>1, <2>3
    <3> QED
      BY <2>3, <3>1
  <2> QED
    BY <2>1, <2>2, <2>3, GroupsHeld
<1>4. \E r \in DOMAIN b.kind : \E role \in {"db", "proxy", "cache"} :
        /\ v \in PlacedIn(b, r) /\ g = <<v, SecurityGroup(r, role)>>
        /\ g \in emitted[VpcName(v)].groups
        /\ role = "cache" => b.kind[r] = "cache"
        /\ role # "cache" => b.kind[r] = "sqlDatabase"
        /\ role = "proxy" => ~AuroraEnabled(b, r)
  <2>1. CASE g \in emitted[VpcName(v)].groups
    <3>1. PICK s \in MintedGroups(b, v) : g = <<v, s>>
      BY <1>2, <2>1
    <3> QED
      BY <2>1, <3>1, MintedIsFor
  <2>2. CASE \E n \in members : g \in Group(n, v)
    <3>1. PICK n \in members : g \in Group(n, v)
      BY <2>2
    <3> DEFINE r == n[1]
    <3>2. PICK role \in {"db", "proxy", "cache"} :
                g = <<v, SecurityGroup(r, role)>> /\ Holds(b, n, r, role)
      BY <1>3, <3>1
    <3>3. v \in PlacedIn(b, r) /\ r \in DOMAIN b.kind
      BY <1>3, <3>1
    <3> HIDE DEF r
    <3>4. b.kind[r] = "sqlDatabase" => r \in Members(b, v, "sqlDatabase")
      BY <3>3 DEF Members, OfBacking
    <3>5. SecurityGroup(r, role) \in MintedGroups(b, v)
      BY <3>2, <3>3, <3>4, MintedFor
    <3>6. g \in emitted[VpcName(v)].groups
      BY <1>2, <3>2, <3>5
    <3> QED
      BY <3>2, <3>3, <3>6 DEF Holds
  <2> QED
    BY <2>1, <2>2
<1>5. PICK r \in DOMAIN b.kind, role \in {"db", "proxy", "cache"} :
        /\ v \in PlacedIn(b, r) /\ g = <<v, SecurityGroup(r, role)>>
        /\ g \in emitted[VpcName(v)].groups
        /\ role = "cache" => b.kind[r] = "cache"
        /\ role # "cache" => b.kind[r] = "sqlDatabase"
        /\ role = "proxy" => ~AuroraEnabled(b, r)
  BY <1>4
<1>6. r \in EmittedBackings /\ ~Refuses(ResultOf(b, r), r)
  BY <1>5, AllEmitted, RefusalReported
<1>7. VpcOf(b, r) = v
  <2>1. IsBacked(b) /\ b.kind[r] \in {"cache", "sqlDatabase"}
    BY <1>5, BlueprintIsBacked DEF BackingInv, StoreInv
  <2>2. VpcOf(b, r) \in PlacedIn(b, r)
    BY <1>5 DEF VpcOf
  <2> QED
    BY <1>5, <2>1, <2>2 DEF IsBacked
<1>8. \E n \in DOMAIN emitted : g \in emitted[n].groups /\ Holds(b, n, r, role)
  <2>1. CASE role = "cache"
    BY <1>5, <1>6, <1>7, <2>1, HeldByCache DEF Holds
  <2>2. CASE role = "db"
    BY <1>5, <1>6, <1>7, <2>2, HeldByDatabase DEF Holds
  <2>3. CASE role = "proxy"
    BY <1>5, <1>6, <1>7, <2>3, HeldByDatabase DEF Holds
  <2> QED
    BY <2>1, <2>2, <2>3
<1>9. PICK n \in DOMAIN emitted : g \in emitted[n].groups /\ Holds(b, n, r, role)
  BY <1>8
<1>10. n \in members
  <2>1. n # VpcName(v)
    BY <1>9 DEF Holds, VpcName, GroupHolder, ClusterName, InstanceName, ProxyName,
                ReplicationGroupName
  <2>2. g[1] = v
    BY <1>5
  <2>3. g \in Group(n, v)
    BY <1>9, <2>2 DEF Group
  <2> QED
    BY <2>1, <2>3
<1>11. ASSUME NEW m \in members, g \in emitted[m].groups
       PROVE  m = n
  <2>1. g \in Group(m, v)
    BY <1>5, <1>11 DEF Group
  <2>2. PICK other \in {"db", "proxy", "cache"} :
            g = <<v, SecurityGroup(m[1], other)>> /\ Holds(b, m, m[1], other)
    BY <1>3, <2>1
  <2>3. m[1] = r /\ other = role
    BY <1>5, <2>2 DEF SecurityGroup
  <2> QED
    BY <1>9, <2>2, <2>3, RolesApart
<1>12. {m \in members : g \in emitted[m].groups} = {n}
  BY <1>9, <1>10, <1>11
<1> QED
  BY <1>5, <1>12, FS_Singleton



-----------------------------------------------------------------------------
(* Internal links.                                                         *)

\* The label of a proxy's target, as an author might have written it: among the
\* labels of a resource, or in the selector of the VPC its runner is placed by.
Targeted(value, labels) == Selects(OneLabel(ProxyTarget, value), labels)

ClaimedBy(x, r, value) ==
    \/ Targeted(value, OwnLabels(x, r))
    \/ PlacedIn(x, r) # {} /\ Targeted(value, x.selector[VpcOf(x, r)])

\* What is emitted of r as n is a target if its author made it one, or if it is the
\* instance of r.
TargetsOwn(x, n, r, labels) ==
    \A value : Targeted(value, labels) =>
        \/ ClaimedBy(x, r, value)
        \/ /\ x.kind[r] = "sqlDatabase" /\ n = InstanceName(r)
           /\ value = LogicalName(x, r)

LEMMA OneLabelSelects ==
    ASSUME NEW key, NEW value, NEW labels
    PROVE  Selects(OneLabel(key, value), labels)
            <=> key \in DOMAIN labels /\ labels[key] = value
BY DEF Selects, OneLabel

LEMMA OtherLabelKept ==
    ASSUME NEW labels, NEW key, NEW v, NEW value, key # ProxyTarget
    PROVE  Targeted(value, LabelsWith(labels, key, v)) => Targeted(value, labels)
<1>1. ProxyTarget \in DOMAIN LabelsWith(labels, key, v) => ProxyTarget \in DOMAIN labels
        /\ LabelsWith(labels, key, v)[ProxyTarget] = labels[ProxyTarget]
  BY DEF LabelsWith
<1> QED
  BY <1>1, OneLabelSelects DEF Targeted

LEMMA NoneTargeted ==
    ASSUME NEW value
    PROVE  ~Targeted(value, NoLabels) /\ \A v : ~Targeted(value, OneLabel(ForwardLabel, v))
<1>1. ProxyTarget \notin DOMAIN NoLabels
  BY DEF NoLabels
<1>2. \A v : ProxyTarget \notin DOMAIN OneLabel(ForwardLabel, v)
  BY DEF OneLabel, ProxyTarget, ForwardLabel
<1> QED
  BY <1>1, <1>2, OneLabelSelects DEF Targeted

LEMMA InstanceTargeted ==
    ASSUME NEW x, NEW d, NEW value
    PROVE  Targeted(value, ProxyTargetLabels(x, d)) <=> value = LogicalName(x, d)
<1>1. /\ ProxyTarget \in DOMAIN ProxyTargetLabels(x, d)
      /\ ProxyTargetLabels(x, d)[ProxyTarget] = LogicalName(x, d)
  BY DEF ProxyTargetLabels, LabelsWith
<1> QED
  BY <1>1, OneLabelSelects DEF Targeted


\* What the runner's mark is added to keeps its other labels.
LEMMA UnmarkedOwn ==
    ASSUME NEW x, NEW d, NEW n \in DatabaseNames(x, d)
    PROVE  IsOf(UnmarkedResources(x, d)[n], d)
<1>1. \A p, t, rs, gs, ss : Relates(p, t, d, rs, gs, ss) => IsOf(p, d)
  BY RelatesIsOf
<1>2. /\ IsOf(DbSubnetGroup(x, d), d) /\ IsOf(MaintenanceRunner(x, d), d)
      /\ IsOf(MaintenanceRunnerRole(x, d), d) /\ IsOf(ReaderInstance(x, d), d)
      /\ IsOf(AppUserSecretResource(x, d), d)
  BY <1>1, RunnerRelates
<1>3. /\ IsOf(AuroraCluster(x, d), d) /\ IsOf(ClusterMember(x, d), d)
      /\ IsOf(StandaloneInstance(x, d), d) /\ IsOf(Proxy(x, d), d)
      /\ IsOf(ProxyRole(x, d), d)
  BY <1>1, TopologyRelates
<1> QED
  BY <1>2, <1>3, UnmarkedParts DEF DatabaseNames

LEMMA DatabaseTargets ==
    ASSUME NEW x, NEW d, x.kind[d] = "sqlDatabase", PlacedIn(x, d) # {},
           NEW n \in DatabaseNames(x, d)
    PROVE  TargetsOwn(x, n, d, DatabaseResources(x, d)[n].labels)
<1> SUFFICES ASSUME NEW value, Targeted(value, DatabaseResources(x, d)[n].labels)
             PROVE  ClaimedBy(x, d, value)
                        \/ (n = InstanceName(d) /\ value = LogicalName(x, d))
  BY DEF TargetsOwn
<1>1. Targeted(value, UnmarkedResources(x, d)[n].labels)
  <2>1. CASE DatabaseResources(x, d)[n] = UnmarkedResources(x, d)[n]
    BY <2>1
  <2>2. CASE DatabaseResources(x, d)[n] = MarkedCopy(UnmarkedResources(x, d)[n], d)
    <3> DEFINE p == UnmarkedResources(x, d)[n]
    <3>1. DOMAIN p = Fields
      BY UnmarkedOwn DEF IsOf
    <3> HIDE DEF p
    <3>2. MarkedCopy(p, d).labels = LabelsWith(p.labels, MaintenanceTarget, <<d>>)
      BY <3>1, MarkedFields
    <3>3. MaintenanceTarget # ProxyTarget
      BY DEF MaintenanceTarget, ProxyTarget
    <3>4. Targeted(value, LabelsWith(p.labels, MaintenanceTarget, <<d>>))
      BY <2>2, <3>2 DEF p
    <3>5. Targeted(value, p.labels)
      BY <3>3, <3>4, OtherLabelKept
    <3> QED
      BY <3>5 DEF p
  <2> QED
    BY <2>1, <2>2, DatabaseMarked
<1> DEFINE ls == UnmarkedResources(x, d)[n].labels
<1>2. \/ ls = OwnLabels(x, d) \/ ls = NoLabels \/ ls = x.selector[VpcOf(x, d)]
      \/ n = InstanceName(d) /\ ls = ProxyTargetLabels(x, d)
  <2>1. /\ n \in {DbSubnetGroupName(d), RunnerRoleName(d)} => ls = NoLabels
        /\ n = ProxyRoleName(d) /\ ~AuroraEnabled(x, d) => ls = NoLabels
    BY UnmarkedParts, DatabaseLabels
  <2>2. n = RunnerName(d) => ls = x.selector[VpcOf(x, d)]
    BY UnmarkedParts, DatabaseLabels
  <2>3. /\ n = ClusterName(d) /\ AuroraEnabled(x, d) => ls = OwnLabels(x, d)
        /\ n = ProxyName(d) /\ ~AuroraEnabled(x, d) => ls = OwnLabels(x, d)
        /\ n = ReaderName(d) /\ d \in x.replicas => ls = OwnLabels(x, d)
        /\ n = AppUserSecretName(d) /\ AppUserAuth(x, d) => ls = OwnLabels(x, d)
    BY UnmarkedParts, DatabaseLabels
  <2>4. n = InstanceName(d) => ls = OwnLabels(x, d) \/ ls = ProxyTargetLabels(x, d)
    BY UnmarkedParts, DatabaseLabels
  <2> HIDE DEF ls
  <2> QED
    BY <2>1, <2>2, <2>3, <2>4 DEF DatabaseNames
<1> HIDE DEF ls
<1>3. Targeted(value, ls)
  BY <1>1 DEF ls
<1> QED
  BY <1>2, <1>3, NoneTargeted, InstanceTargeted DEF ClaimedBy


\* What is selected by a config's labels is selected by those of its author.
LEMMA ConfigLabelsOwn ==
    ASSUME NEW x, NEW c, NEW selector, Selects(selector, HandlerSelectorLabels(x, c))
    PROVE  Selects(selector, OwnLabels(x, c))
<1>1. ASSUME NEW key \in DOMAIN HandlerSelectorLabels(x, c)
      PROVE  /\ key \in DOMAIN OwnLabels(x, c)
             /\ HandlerSelectorLabels(x, c)[key] = OwnLabels(x, c)[key]
  BY DEF HandlerSelectorLabels, MatchedLabels
<1> QED
  BY <1>1 DEF Selects

\* Neither proxy, nor group, nor secret.
Plain(p) ==
    p.type \notin {"rds/dbProxy", "elasticache/replicationGroup", "secretsmanager/secret"}

LEMMA RelatesPlain ==
    ASSUME NEW p, NEW t, NEW r, NEW rs, NEW gs, NEW ss, Relates(p, t, r, rs, gs, ss),
           t \notin {"rds/dbProxy", "elasticache/replicationGroup", "secretsmanager/secret"}
    PROVE  Plain(p)
BY DEF Relates, Plain

LEMMA CacheTargets ==
    ASSUME NEW x, NEW c, NEW n \in CacheNames(x, c)
    PROVE  TargetsOwn(x, n, c, CacheResources(x, c)[n].labels)
<1> DEFINE ls == CacheResources(x, c)[n].labels
<1>1. \/ ls = OwnLabels(x, c) \/ ls = NoLabels
      \/ ls = LabelsWith(OwnLabels(x, c), CacheAuthLabel, LogicalName(x, c))
  <2>1. n = ReplicationGroupName(c) => ls = OwnLabels(x, c)
    BY CacheFound
  <2>2. n = AuthSecretName(c) /\ AuthMode(x, c) # "iam" =>
            ls = LabelsWith(OwnLabels(x, c), CacheAuthLabel, LogicalName(x, c))
    BY CacheFound
  <2>3. n = CacheSubnetGroupName(c) /\ PlacedIn(x, c) # {} => ls = NoLabels
    <3>1. PlacedIn(x, c) # {} =>
            CacheResources(x, c)[CacheSubnetGroupName(c)] = CacheSubnetGroup(x, c)
      BY CacheContents
    <3>2. CacheSubnetGroup(x, c).labels = NoLabels
      BY CacheRelates
    <3> QED
      BY <3>1, <3>2
  <2>4. n \in {IamUserName(c), UserGroupName(c)} /\ AuthMode(x, c) = "iam"
            => ls = NoLabels
    <3>1. AuthMode(x, c) = "iam" =>
            /\ CacheResources(x, c)[IamUserName(c)] = IamUser(c)
            /\ CacheResources(x, c)[UserGroupName(c)] = UserGroup(c)
      BY CacheContents
    <3>2. IamUser(c).labels = NoLabels /\ UserGroup(c).labels = NoLabels
      BY CacheRelates
    <3> QED
      BY <3>1, <3>2
  <2> HIDE DEF ls
  <2> QED
    BY <2>1, <2>2, <2>3, <2>4 DEF CacheNames
<1> HIDE DEF ls
<1>2. CacheAuthLabel # ProxyTarget
  BY DEF CacheAuthLabel, ProxyTarget
<1>3. ASSUME NEW value, Targeted(value, ls)
      PROVE  Targeted(value, OwnLabels(x, c))
  BY <1>1, <1>2, <1>3, NoneTargeted, OtherLabelKept
<1>4. TargetsOwn(x, n, c, ls)
  BY <1>3 DEF TargetsOwn, ClaimedBy
<1> QED
  BY <1>4 DEF ls

\* The proxy of a database and the secret of its application.
LEMMA DatabaseSorts ==
    ASSUME NEW x, NEW d, NEW n \in DatabaseNames(x, d)
    PROVE  \/ n = ProxyName(d) /\ ~AuroraEnabled(x, d)
           \/ /\ n = AppUserSecretName(d) /\ AppUserAuth(x, d)
              /\ DatabaseResources(x, d)[n].labels = OwnLabels(x, d)
              /\ DatabaseResources(x, d)[n].type = "secretsmanager/secret"
           \/ Plain(DatabaseResources(x, d)[n])
<1>1. /\ Plain(DatabaseResources(x, d)[DbSubnetGroupName(d)])
      /\ Plain(DatabaseResources(x, d)[RunnerName(d)])
      /\ Plain(DatabaseResources(x, d)[RunnerRoleName(d)])
  <2>1. Relates(DatabaseResources(x, d)[DbSubnetGroupName(d)], "rds/dbSubnetGroup", d,
                {VpcName(VpcOf(x, d))}, {}, {})
    BY DatabaseParts
  <2>2. Relates(DatabaseResources(x, d)[RunnerName(d)], "lambda/function", d,
                {RunnerRoleName(d), HostKey(d), DatabaseNameKey(d)}, {},
                RunnerSecrets(x, d))
    BY DatabaseParts
  <2>3. Relates(DatabaseResources(x, d)[RunnerRoleName(d)], "iam/role", d,
                IF AppUserAuth(x, d) THEN {} ELSE {InstanceName(d)}, {},
                RunnerSecrets(x, d))
    BY DatabaseParts
  <2>4. Plain(DatabaseResources(x, d)[DbSubnetGroupName(d)])
    BY <2>1, RelatesPlain
  <2>5. Plain(DatabaseResources(x, d)[RunnerName(d)])
    BY <2>2, RelatesPlain
  <2>6. Plain(DatabaseResources(x, d)[RunnerRoleName(d)])
    BY <2>3, RelatesPlain
  <2> QED
    BY <2>4, <2>5, <2>6
<1>2. d \in x.replicas => Plain(DatabaseResources(x, d)[ReaderName(d)])
  <2>1. d \in x.replicas =>
            Relates(DatabaseResources(x, d)[ReaderName(d)], "rds/dbInstance", d,
                    IF AuroraEnabled(x, d) THEN {ClusterName(d)} ELSE {InstanceName(d)},
                    {}, {})
    BY DatabaseParts
  <2> QED
    BY <2>1, RelatesPlain
<1>3. AppUserAuth(x, d) =>
        /\ DatabaseResources(x, d)[AppUserSecretName(d)].labels = OwnLabels(x, d)
        /\ DatabaseResources(x, d)[AppUserSecretName(d)].type = "secretsmanager/secret"
  <2>1. AppUserAuth(x, d) => Relates(DatabaseResources(x, d)[AppUserSecretName(d)],
                                     "secretsmanager/secret", d, {}, {}, {})
    BY DatabaseParts
  <2>2. AppUserAuth(x, d) =>
            DatabaseResources(x, d)[AppUserSecretName(d)].type = "secretsmanager/secret"
    BY <2>1 DEF Relates
  <2>3. AppUserAuth(x, d) =>
            DatabaseResources(x, d)[AppUserSecretName(d)].labels = OwnLabels(x, d)
    <3>1. AppUserAuth(x, d) =>
            DatabaseResources(x, d)[AppUserSecretName(d)] = AppUserSecretResource(x, d)
      BY LabelledFound
    <3>2. AppUserSecretResource(x, d).labels = OwnLabels(x, d)
      BY DatabaseLabels
    <3> QED
      BY <3>1, <3>2
  <2> QED
    BY <2>2, <2>3
<1>4. CASE AuroraEnabled(x, d)
  <2>1. /\ Relates(DatabaseResources(x, d)[ClusterName(d)], "rds/dbCluster", d,
                   SubnetRefs(x, d), InDatabaseGroup(x, d), {})
        /\ Relates(DatabaseResources(x, d)[InstanceName(d)], "rds/dbInstance", d,
                   {ClusterName(d)}, {}, {})
    BY <1>4, AuroraParts
  <2>2. Plain(DatabaseResources(x, d)[ClusterName(d)])
    BY <2>1, RelatesPlain
  <2>3. Plain(DatabaseResources(x, d)[InstanceName(d)])
    BY <2>1, RelatesPlain
  <2> QED
    BY <1>1, <1>2, <1>3, <1>4, <2>2, <2>3 DEF DatabaseNames
<1>5. CASE ~AuroraEnabled(x, d)
  <2>1. /\ Relates(DatabaseResources(x, d)[InstanceName(d)], "rds/dbInstance", d,
                   SubnetRefs(x, d), InDatabaseGroup(x, d), {})
        /\ Relates(DatabaseResources(x, d)[ProxyRoleName(d)], "iam/role", d,
                   IF AppUserAuth(x, d) THEN {} ELSE {InstanceName(d)}, {},
                   RegisteredSecrets(x, d))
    BY <1>5, StandaloneParts
  <2>2. Plain(DatabaseResources(x, d)[InstanceName(d)])
    BY <2>1, RelatesPlain
  <2>3. Plain(DatabaseResources(x, d)[ProxyRoleName(d)])
    BY <2>1, RelatesPlain
  <2> QED
    BY <1>1, <1>2, <1>3, <1>5, <2>2, <2>3 DEF DatabaseNames
<1> QED
  BY <1>4, <1>5

\* The proxy selects by the name of its database, and the instance has that label.
LEMMA ProxyFinds ==
    ASSUME NEW x, NEW d, ~AuroraEnabled(x, d)
    PROVE  /\ ProxyName(d) \in DatabaseNames(x, d)
           /\ DatabaseResources(x, d)[ProxyName(d)].selector
                = OneLabel(ProxyTarget, LogicalName(x, d))
           /\ DatabaseResources(x, d)[InstanceName(d)].labels = ProxyTargetLabels(x, d)
<1>1. UnmarkedResources(x, d)[ProxyName(d)] = Proxy(x, d)
        /\ UnmarkedResources(x, d)[InstanceName(d)] = StandaloneInstance(x, d)
        /\ ProxyName(d) \in DatabaseNames(x, d) /\ InstanceName(d) \in DatabaseNames(x, d)
  BY UnmarkedParts DEF DatabaseNames
<1>2. DatabaseResources(x, d)[ProxyName(d)] = MarkedCopy(Proxy(x, d), d)
  BY <1>1, EndpointMarked DEF Endpoint
<1>3. MarkedCopy(Proxy(x, d), d).selector = OneLabel(ProxyTarget, LogicalName(x, d))
  BY DEF MarkedCopy, Proxy, WithOwnLabels, Concrete
<1>4. DatabaseResources(x, d)[InstanceName(d)] = StandaloneInstance(x, d)
  <2>1. StandaloneInstance(x, d).shared = FALSE
    BY DEF StandaloneInstance, Concrete
  <2>2. InstanceName(d) # Endpoint(x, d)
    BY NamesApart DEF Endpoint
  <2> QED
    BY <1>1, <2>1, <2>2, UnsharedUnmarked
<1> QED
  BY <1>1, <1>2, <1>3, <1>4, DatabaseLabels


\* A cache's group and, unless it authenticates with IAM, its secret.
LEMMA CacheSorts ==
    ASSUME NEW x, NEW c, NEW n \in CacheNames(x, c)
    PROVE  \/ /\ n = ReplicationGroupName(c)
              /\ CacheResources(x, c)[n].type = "elasticache/replicationGroup"
              /\ CacheResources(x, c)[n].selector = CacheSelector(x, c)
           \/ /\ n = AuthSecretName(c) /\ AuthMode(x, c) # "iam"
              /\ CacheResources(x, c)[n].type = "secretsmanager/secret"
              /\ CacheResources(x, c)[n].labels
                    = LabelsWith(OwnLabels(x, c), CacheAuthLabel, LogicalName(x, c))
           \/ Plain(CacheResources(x, c)[n])
<1>1. /\ CacheResources(x, c)[ReplicationGroupName(c)].type = "elasticache/replicationGroup"
      /\ CacheResources(x, c)[ReplicationGroupName(c)].selector = CacheSelector(x, c)
  <2>1. CacheResources(x, c)[ReplicationGroupName(c)] = ReplicationGroup(x, c)
    BY CacheContents
  <2>2. /\ Relates(ReplicationGroup(x, c), "elasticache/replicationGroup", c,
                   GroupRefs(x, c), GroupGroups(x, c), {})
        /\ ReplicationGroup(x, c).selector = CacheSelector(x, c)
    BY ReplicationGroupRelates
  <2>3. ReplicationGroup(x, c).type = "elasticache/replicationGroup"
    BY <2>2 DEF Relates
  <2> QED
    BY <2>1, <2>2, <2>3
<1>2. PlacedIn(x, c) # {} => Plain(CacheResources(x, c)[CacheSubnetGroupName(c)])
  <2>1. PlacedIn(x, c) # {} =>
            Relates(CacheResources(x, c)[CacheSubnetGroupName(c)],
                    "elasticache/subnetGroup", c, {VpcName(VpcOf(x, c))}, {}, {})
    BY CacheParts
  <2> QED
    BY <2>1, RelatesPlain
<1>3. AuthMode(x, c) # "iam" =>
        /\ CacheResources(x, c)[AuthSecretName(c)].type = "secretsmanager/secret"
        /\ CacheResources(x, c)[AuthSecretName(c)].labels
                = LabelsWith(OwnLabels(x, c), CacheAuthLabel, LogicalName(x, c))
  <2>1. AuthMode(x, c) # "iam" =>
            Relates(CacheResources(x, c)[AuthSecretName(c)], "secretsmanager/secret", c,
                    {}, {}, {})
    BY CacheParts
  <2>2. AuthMode(x, c) # "iam" =>
            CacheResources(x, c)[AuthSecretName(c)].type = "secretsmanager/secret"
    BY <2>1 DEF Relates
  <2> QED
    BY <2>2, CacheFound
<1>4. AuthMode(x, c) = "iam" => Plain(CacheResources(x, c)[IamUserName(c)])
  <2>1. AuthMode(x, c) = "iam" =>
            Relates(CacheResources(x, c)[IamUserName(c)], "elasticache/user", c, {}, {}, {})
    BY CacheParts
  <2> QED
    BY <2>1, RelatesPlain
<1>5. AuthMode(x, c) = "iam" => Plain(CacheResources(x, c)[UserGroupName(c)])
  <2>1. AuthMode(x, c) = "iam" =>
            Relates(CacheResources(x, c)[UserGroupName(c)], "elasticache/userGroup", c,
                    {IamUserName(c)}, {}, {})
    BY CacheParts
  <2> QED
    BY <2>1, RelatesPlain
<1> QED
  BY <1>1, <1>2, <1>3, <1>4, <1>5 DEF CacheNames

\* Of the others only a config may have a secret, and none is made a target but by
\* its author.
Bystander(x, n, r, p) ==
    /\ TargetsOwn(x, n, r, p.labels)
    /\ p.type \notin {"rds/dbProxy", "elasticache/replicationGroup"}
    /\ p.type = "secretsmanager/secret" =>
            x.kind[r] = "config" /\ p.labels = HandlerSelectorLabels(x, r)

\* Labelled by its author, or by the emitter for the queue's own links, or not at all.
Inherited(x, r, labels) ==
    \/ labels = OwnLabels(x, r) \/ labels = NoLabels
    \/ labels = OneLabel(ForwardLabel, <<r>>) \/ labels = HandlerSelectorLabels(x, r)

LEMMA RelatesBystander ==
    ASSUME NEW x, NEW n, NEW r, NEW p, NEW t, NEW rs, NEW gs, NEW ss,
           Relates(p, t, r, rs, gs, ss), Inherited(x, r, p.labels),
           t \notin {"rds/dbProxy", "elasticache/replicationGroup", "secretsmanager/secret"}
    PROVE  Bystander(x, n, r, p)
<1>1. Plain(p)
  BY RelatesPlain
<1>2. ASSUME NEW value, Targeted(value, p.labels)
      PROVE  Targeted(value, OwnLabels(x, r))
  <2>1. CASE p.labels = HandlerSelectorLabels(x, r)
    BY <1>2, <2>1, ConfigLabelsOwn DEF Targeted
  <2> QED
    BY <1>2, <2>1, NoneTargeted DEF Inherited
<1> QED
  BY <1>1, <1>2 DEF Bystander, Plain, TargetsOwn, ClaimedBy


LEMMA OthersStandBy ==
    ASSUME BackingInv, NEW n \in DOMAIN emitted, b.kind[n[1]] \notin {"sqlDatabase", "cache"}
    PROVE  Bystander(b, n, n[1], emitted[n])
<1> DEFINE r == n[1]
           p == emitted[n]
           sure == Bystander(b, n, r, p)
<1>1. /\ r \in DOMAIN b.kind /\ r \in EmittedBackings
      /\ n \in DOMAIN ResourcesOf(b, r) /\ p = ResourcesOf(b, r)[n]
  BY EmittedIsOwn
<1>2. b.kind[r] \in Kinds /\ b.kind[r] \notin {"sqlDatabase", "cache"}
  BY <1>1, KindsKnown DEF BackingInv
<1>3. ~Refuses(ResultOf(b, r), r)
  BY EmittedNotRefused
<1> HIDE DEF r, p
<1>4. /\ Bystander(b, n, r, Queue(b, r))
      /\ Bystander(b, n, r, QueueOrTopic(b, r, "sns/topic"))
      /\ Bystander(b, n, r, Forwarder(b, r))
      /\ Bystander(b, n, r, ForwarderRole(r))
  <2>1. Bystander(b, n, r, Queue(b, r))
    <3>1. Relates(Queue(b, r), "sqs/queue", r, {}, {}, {})
      BY QueueParts
    <3>2. Queue(b, r).labels = OwnLabels(b, r)
      BY QueueParts
    <3>3. Inherited(b, r, Queue(b, r).labels)
      BY <3>2 DEF Inherited
    <3> QED
      BY <3>1, <3>3, RelatesBystander
  <2>2. Bystander(b, n, r, QueueOrTopic(b, r, "sns/topic"))
    <3>1. Relates(QueueOrTopic(b, r, "sns/topic"), "sns/topic", r, {}, {}, {})
      BY QueueParts
    <3>2. QueueOrTopic(b, r, "sns/topic").labels = OwnLabels(b, r)
      BY QueueParts
    <3>3. Inherited(b, r, QueueOrTopic(b, r, "sns/topic").labels)
      BY <3>2 DEF Inherited
    <3> QED
      BY <3>1, <3>3, RelatesBystander
  <2>3. Bystander(b, n, r, Forwarder(b, r))
    <3>1. Relates(Forwarder(b, r), "lambda/function", r, {ForwarderRoleName(r)}, {}, {})
      BY QueueParts
    <3>2. Forwarder(b, r).labels = OneLabel(ForwardLabel, <<r>>)
      BY QueueParts
    <3>3. Inherited(b, r, Forwarder(b, r).labels)
      BY <3>2 DEF Inherited
    <3> QED
      BY <3>1, <3>3, RelatesBystander
  <2>4. Bystander(b, n, r, ForwarderRole(r))
    <3>1. Relates(ForwarderRole(r), "iam/role", r, {}, {}, {})
      BY QueueParts
    <3>2. ForwarderRole(r).labels = NoLabels
      BY QueueParts
    <3>3. Inherited(b, r, ForwarderRole(r).labels)
      BY <3>2 DEF Inherited
    <3> QED
      BY <3>1, <3>3, RelatesBystander
  <2> QED
    BY <2>1, <2>2, <2>3, <2>4
<1>5. /\ Bystander(b, n, r, Bucket(b, r))
      /\ Bystander(b, n, r, Table(b, r))
      /\ Bystander(b, n, r, ParameterTree(b, r))
      /\ Bystander(b, n, r, FlexVpc(b, r))
  <2>1. Bystander(b, n, r, Bucket(b, r))
    <3>1. Relates(Bucket(b, r), "s3/bucket", r, {}, {}, {})
      BY StorageParts
    <3>2. Bucket(b, r).labels = OwnLabels(b, r)
      BY StorageParts
    <3>3. Inherited(b, r, Bucket(b, r).labels)
      BY <3>2 DEF Inherited
    <3> QED
      BY <3>1, <3>3, RelatesBystander
  <2>2. Bystander(b, n, r, Table(b, r))
    <3>1. Relates(Table(b, r), "dynamodb/table", r, {}, {}, {})
      BY StorageParts
    <3>2. Table(b, r).labels = OwnLabels(b, r)
      BY StorageParts
    <3>3. Inherited(b, r, Table(b, r).labels)
      BY <3>2 DEF Inherited
    <3> QED
      BY <3>1, <3>3, RelatesBystander
  <2>3. Bystander(b, n, r, ParameterTree(b, r))
    <3>1. Relates(ParameterTree(b, r), "ssm/parameterTree", r, {}, {}, {})
      BY StorageParts
    <3>2. ParameterTree(b, r).labels = HandlerSelectorLabels(b, r)
      BY StorageParts
    <3>3. Inherited(b, r, ParameterTree(b, r).labels)
      BY <3>2 DEF Inherited
    <3> QED
      BY <3>1, <3>3, RelatesBystander
  <2>4. Bystander(b, n, r, FlexVpc(b, r))
    <3>1. Relates(FlexVpc(b, r), "flex/vpc", r, {}, VpcGroups(b, r), {})
      BY VpcParts
    <3>2. FlexVpc(b, r).labels = OwnLabels(b, r)
      BY VpcParts
    <3>3. Inherited(b, r, FlexVpc(b, r).labels)
      BY <3>2 DEF Inherited
    <3> QED
      BY <3>1, <3>3, RelatesBystander
  <2> QED
    BY <2>1, <2>2, <2>3, <2>4
<1>6. b.kind[r] = "config" => Bystander(b, n, r, ConfigSecret(b, r))
  <2>1. /\ Relates(ConfigSecret(b, r), "secretsmanager/secret", r, {}, {}, {})
        /\ ConfigSecret(b, r).labels = HandlerSelectorLabels(b, r)
    BY StorageParts
  <2>2. ConfigSecret(b, r).type = "secretsmanager/secret"
    BY <2>1 DEF Relates
  <2>3. ASSUME NEW value, Targeted(value, HandlerSelectorLabels(b, r))
        PROVE  Targeted(value, OwnLabels(b, r))
    BY <2>3, ConfigLabelsOwn DEF Targeted
  <2>4. TargetsOwn(b, n, r, HandlerSelectorLabels(b, r))
    BY <2>3 DEF TargetsOwn, ClaimedBy
  <2> QED
    BY <2>1, <2>2, <2>4 DEF Bystander
<1>7. ASSUME b.kind[r] = "queue" PROVE sure
  <2>1. QueueEmitted(b, r) /\ ResultOf(b, r) = EmitQueue(b, r)
    BY <1>3, <1>7, QueueResult, ResultByKind
  <2>2. p = Queue(b, r) \/ p = Forwarder(b, r) \/ p = ForwarderRole(r)
    BY <1>1, <2>1 DEF QueueEmitted, ResourcesOf
  <2> QED
    BY <1>4, <2>2
<1>8. ASSUME b.kind[r] = "topic" PROVE sure
  <2>1. p = QueueOrTopic(b, r, "sns/topic")
    BY <1>1, <1>3, <1>8, TopicResult, ResultByKind DEF Single, ResourcesOf
  <2> QED
    BY <1>4, <2>1
<1>9. ASSUME b.kind[r] = "bucket" PROVE sure
  <2>1. p = Bucket(b, r)
    BY <1>1, <1>9, BucketResult, ResultByKind DEF Single, ResourcesOf
  <2> QED
    BY <1>5, <2>1
<1>10. ASSUME b.kind[r] = "datastore" PROVE sure
  <2>1. p = Table(b, r)
    BY <1>1, <1>3, <1>10, DatastoreResult, ResultByKind DEF Single, ResourcesOf
  <2> QED
    BY <1>5, <2>1
<1>11. ASSUME b.kind[r] = "config" PROVE sure
  <2>1. ConfigEmitted(b, r) /\ ResultOf(b, r) = EmitConfig(b, r)
    BY <1>3, <1>11, ConfigResult, ResultByKind
  <2>2. \/ ResourcesOf(b, r) = Entry(ConfigSecretName(r), ConfigSecret(b, r))
        \/ ResourcesOf(b, r) = Entry(ParameterTreeName(r), ParameterTree(b, r))
    BY <2>1, ResultFields DEF ConfigEmitted, ResourcesOf
  <2>3. p = ConfigSecret(b, r) \/ p = ParameterTree(b, r)
    BY <1>1, <2>2 DEF Entry
  <2> QED
    BY <1>5, <1>6, <1>11, <2>3
<1>12. ASSUME b.kind[r] = "vpc" PROVE sure
  <2>1. p = FlexVpc(b, r)
    BY <1>1, <1>3, <1>12, VpcResult, ResultByKind DEF Single, ResourcesOf
  <2> QED
    BY <1>5, <2>1
<1> HIDE DEF sure
<1>13. sure
  BY <1>2, <1>7, <1>8, <1>9, <1>10, <1>11, <1>12 DEF Kinds
<1> QED
  BY <1>13 DEF sure, p, r


\* What may select or be selected by an internal label, of what is emitted.
Classified(x, n, r, p) ==
    /\ p.type = "rds/dbProxy" =>
        /\ x.kind[r] = "sqlDatabase" /\ n = ProxyName(r) /\ ~AuroraEnabled(x, r)
        /\ p.selector = OneLabel(ProxyTarget, LogicalName(x, r))
    /\ p.type = "elasticache/replicationGroup" =>
        /\ x.kind[r] = "cache" /\ n = ReplicationGroupName(r)
        /\ p.selector = CacheSelector(x, r)
    /\ p.type = "secretsmanager/secret" =>
        \/ /\ x.kind[r] = "cache" /\ n = AuthSecretName(r) /\ AuthMode(x, r) # "iam"
           /\ p.labels = LabelsWith(OwnLabels(x, r), CacheAuthLabel, LogicalName(x, r))
        \/ /\ x.kind[r] = "sqlDatabase" /\ n = AppUserSecretName(r)
           /\ p.labels = OwnLabels(x, r)
        \/ x.kind[r] = "config" /\ p.labels = HandlerSelectorLabels(x, r)

LEMMA EmittedSorted ==
    ASSUME BackingInv, NEW n \in DOMAIN emitted
    PROVE  /\ Classified(b, n, n[1], emitted[n])
           /\ TargetsOwn(b, n, n[1], emitted[n].labels)
<1> DEFINE r == n[1]
<1>1. /\ r \in DOMAIN b.kind /\ r \in EmittedBackings
      /\ n \in DOMAIN ResourcesOf(b, r) /\ ~Refuses(ResultOf(b, r), r)
  BY EmittedIsOwn, EmittedNotRefused
<1>2. b.kind[r] \notin {"sqlDatabase", "cache"} => Bystander(b, n, r, emitted[n])
  BY OthersStandBy
<1> HIDE DEF r
<1>3. ASSUME b.kind[r] = "sqlDatabase"
      PROVE  Classified(b, n, r, emitted[n]) /\ TargetsOwn(b, n, r, emitted[n].labels)
  <2>1. /\ PlacedIn(b, r) # {} /\ ResourcesOf(b, r) = DatabaseResources(b, r)
        /\ \A m \in DatabaseNames(b, r) : emitted[m] = DatabaseResources(b, r)[m]
    BY <1>1, <1>3, DatabaseThere
  <2>2. n \in DatabaseNames(b, r)
    BY <1>1, <2>1, DatabaseDomain
  <2>3. emitted[n] = DatabaseResources(b, r)[n]
    BY <2>1, <2>2
  <2>4. TargetsOwn(b, n, r, DatabaseResources(b, r)[n].labels)
    BY <1>3, <2>1, <2>2, DatabaseTargets
  <2> DEFINE p == DatabaseResources(b, r)[n]
  <2>5. \/ n = ProxyName(r) /\ ~AuroraEnabled(b, r)
        \/ /\ n = AppUserSecretName(r) /\ p.labels = OwnLabels(b, r)
           /\ p.type = "secretsmanager/secret"
        \/ Plain(p)
    BY <2>2, DatabaseSorts
  <2>6. n = ProxyName(r) /\ ~AuroraEnabled(b, r) =>
            p.type = "rds/dbProxy" /\ p.selector = OneLabel(ProxyTarget, LogicalName(b, r))
    <3>1. ASSUME ~AuroraEnabled(b, r)
          PROVE  DatabaseResources(b, r)[ProxyName(r)].type = "rds/dbProxy"
      <4>1. Relates(DatabaseResources(b, r)[ProxyName(r)], "rds/dbProxy", r,
                    {ProxyRoleName(r), VpcName(VpcOf(b, r))},
                    {<<VpcOf(b, r), SecurityGroup(r, "proxy")>>}, RegisteredSecrets(b, r))
        BY <3>1, StandaloneParts
      <4> QED
        BY <4>1 DEF Relates
    <3>2. ~AuroraEnabled(b, r) => DatabaseResources(b, r)[ProxyName(r)].selector
                                    = OneLabel(ProxyTarget, LogicalName(b, r))
      BY ProxyFinds
    <3> QED
      BY <3>1, <3>2
  <2> HIDE DEF p
  <2>7. Classified(b, n, r, p)
    BY <1>3, <2>5, <2>6 DEF Classified, Plain
  <2> QED
    BY <2>3, <2>4, <2>7 DEF p
<1>4. ASSUME b.kind[r] = "cache"
      PROVE  Classified(b, n, r, emitted[n]) /\ TargetsOwn(b, n, r, emitted[n].labels)
  <2>1. /\ ResourcesOf(b, r) = CacheResources(b, r)
        /\ \A m \in CacheNames(b, r) : emitted[m] = CacheResources(b, r)[m]
    BY <1>1, <1>4, CacheThere
  <2>2. n \in CacheNames(b, r)
    BY <1>1, <2>1, CacheContents
  <2>3. emitted[n] = CacheResources(b, r)[n]
    BY <2>1, <2>2
  <2>4. TargetsOwn(b, n, r, CacheResources(b, r)[n].labels)
    BY <2>2, CacheTargets
  <2> DEFINE p == CacheResources(b, r)[n]
  <2>5. \/ /\ n = ReplicationGroupName(r) /\ p.type = "elasticache/replicationGroup"
           /\ p.selector = CacheSelector(b, r)
        \/ /\ n = AuthSecretName(r) /\ AuthMode(b, r) # "iam"
           /\ p.type = "secretsmanager/secret"
           /\ p.labels = LabelsWith(OwnLabels(b, r), CacheAuthLabel, LogicalName(b, r))
        \/ Plain(p)
    BY <2>2, CacheSorts
  <2> HIDE DEF p
  <2>6. Classified(b, n, r, p)
    BY <1>4, <2>5 DEF Classified, Plain
  <2> QED
    BY <2>3, <2>4, <2>6 DEF p
<1>5. Classified(b, n, r, emitted[n]) /\ TargetsOwn(b, n, r, emitted[n].labels)
  BY <1>2, <1>3, <1>4 DEF Bystander, Classified
<1> QED
  BY <1>5 DEF r

\* No author uses an internal label for what it is not: no resource, nor the selector
\* of a VPC, has the label of a proxy's target with a database's name, and no group of
\* a cache selects, by the cache's own selector or by the label of its secret, what
\* another cache, a database or a config is labelled with.
InternalLabelsUnclaimed ==
    /\ \A d \in OfBacking(b, "sqlDatabase"), r \in DOMAIN b.kind :
            /\ ~Targeted(LogicalName(b, d), OwnLabels(b, r))
            /\ b.kind[r] = "vpc" => ~Targeted(LogicalName(b, d), b.selector[r])
    /\ \A c \in OfBacking(b, "cache"), r \in DOMAIN b.kind :
            r # c /\ b.kind[r] \in {"sqlDatabase", "cache", "config"}
                => ~Selects(CacheSelector(b, c), OwnLabels(b, r))

\* A proxy selects what is targeted by the name of its database.
LEMMA ProxyApart ==
    ASSUME BackingInv, InternalLabelsUnclaimed,
           NEW d \in OfBacking(b, "sqlDatabase"), NEW m \in DOMAIN emitted,
           Targeted(LogicalName(b, d), emitted[m].labels)
    PROVE  /\ b.kind[m[1]] = "sqlDatabase" /\ m = InstanceName(m[1])
           /\ LogicalName(b, m[1]) = LogicalName(b, d)
<1> DEFINE r == m[1]
<1>1. r \in DOMAIN b.kind /\ TargetsOwn(b, m, r, emitted[m].labels)
  BY EmittedIsOwn, EmittedSorted
<1> HIDE DEF r
<1>2. \/ ClaimedBy(b, r, LogicalName(b, d))
      \/ /\ b.kind[r] = "sqlDatabase" /\ m = InstanceName(r)
         /\ LogicalName(b, d) = LogicalName(b, r)
  BY <1>1 DEF TargetsOwn
<1>3. ~ClaimedBy(b, r, LogicalName(b, d))
  <2>1. ~Targeted(LogicalName(b, d), OwnLabels(b, r))
    BY <1>1 DEF InternalLabelsUnclaimed
  <2>2. ASSUME PlacedIn(b, r) # {} PROVE ~Targeted(LogicalName(b, d), b.selector[VpcOf(b, r)])
    <3>1. VpcOf(b, r) \in PlacedIn(b, r)
      BY <2>2 DEF VpcOf
    <3>2. VpcOf(b, r) \in DOMAIN b.kind /\ b.kind[VpcOf(b, r)] = "vpc"
      BY <3>1 DEF PlacedIn, OfBacking
    <3> QED
      BY <3>2 DEF InternalLabelsUnclaimed
  <2> QED
    BY <2>1, <2>2 DEF ClaimedBy
<1> QED
  BY <1>2, <1>3 DEF r



\* What one more label adds is found by that label alone.
LEMMA SelectedByMore ==
    ASSUME NEW selector, NEW labels, NEW key, NEW value,
           Selects(selector, LabelsWith(labels, key, value))
    PROVE  \/ Selects(selector, labels)
           \/ key \in DOMAIN selector /\ selector[key] = value
<1>1. PICK k \in DOMAIN selector \cap DOMAIN LabelsWith(labels, key, value) :
            selector[k] = LabelsWith(labels, key, value)[k]
  BY DEF Selects
<1>2. CASE k = key
  BY <1>1, <1>2 DEF LabelsWith
<1>3. CASE k # key
  BY <1>1, <1>3 DEF LabelsWith, Selects
<1> QED
  BY <1>2, <1>3

\* Of the secrets a group selects the one of its cache alone.
LEMMA GroupApart ==
    ASSUME BackingInv, InternalLabelsUnclaimed,
           \A r, s \in DOMAIN b.kind :
                b.kind[r] = b.kind[s] /\ r # s => LogicalName(b, r) # LogicalName(b, s),
           NEW c \in OfBacking(b, "cache"), AuthMode(b, c) # "iam",
           NEW m \in DOMAIN emitted, emitted[m].type = "secretsmanager/secret",
           Selects(CacheSelector(b, c), emitted[m].labels)
    PROVE  m = AuthSecretName(c)
<1> DEFINE r == m[1]
           sel == CacheSelector(b, c)
<1>1. /\ r \in DOMAIN b.kind /\ c \in DOMAIN b.kind /\ b.kind[c] = "cache"
      /\ Classified(b, m, r, emitted[m])
  BY EmittedIsOwn, EmittedSorted DEF OfBacking
<1>2. CacheAuthLabel \in DOMAIN sel /\ sel[CacheAuthLabel] = LogicalName(b, c)
  BY DEF CacheSelector, LabelsWith
<1>3. r # c /\ b.kind[r] \in {"sqlDatabase", "cache", "config"}
        => ~Selects(sel, OwnLabels(b, r))
  BY <1>1 DEF InternalLabelsUnclaimed
<1> HIDE DEF r, sel
<1>4. Selects(sel, emitted[m].labels)
  BY DEF sel
<1>5. CASE /\ b.kind[r] = "cache" /\ m = AuthSecretName(r)
           /\ emitted[m].labels = LabelsWith(OwnLabels(b, r), CacheAuthLabel, LogicalName(b, r))
  <2>1. Selects(sel, OwnLabels(b, r)) \/ LogicalName(b, r) = LogicalName(b, c)
    BY <1>2, <1>4, <1>5, SelectedByMore
  <2>2. r = c
    BY <1>1, <1>3, <1>5, <2>1
  <2> QED
    BY <1>5, <2>2
<1>6. CASE b.kind[r] = "sqlDatabase" /\ emitted[m].labels = OwnLabels(b, r)
  BY <1>1, <1>3, <1>4, <1>6
<1>7. CASE b.kind[r] = "config" /\ emitted[m].labels = HandlerSelectorLabels(b, r)
  <2>1. Selects(sel, OwnLabels(b, r))
    BY <1>4, <1>7, ConfigLabelsOwn
  <2> QED
    BY <1>1, <1>3, <1>7, <2>1
<1> QED
  BY <1>1, <1>5, <1>6, <1>7 DEF Classified

LEMMA InvInternalLinks == BackingInv /\ InternalLabelsUnclaimed => InternalLinksApart
<1> SUFFICES ASSUME BackingInv, InternalLabelsUnclaimed, Complete,
                    \A r, s \in DOMAIN b.kind : b.kind[r] = b.kind[s] /\ r # s
                        => LogicalName(b, r) # LogicalName(b, s),
                    NEW n \in DOMAIN emitted, NEW m \in DOMAIN emitted
             PROVE  /\ emitted[n].type = "rds/dbProxy" =>
                        (Selects(emitted[n].selector, emitted[m].labels)
                            <=> m = InstanceName(emitted[n].of))
                    /\ emitted[n].type = "elasticache/replicationGroup"
                            /\ emitted[m].type = "secretsmanager/secret"
                            /\ AuthMode(b, emitted[n].of) # "iam"
                        => (Selects(emitted[n].selector, emitted[m].labels)
                                <=> m = AuthSecretName(emitted[n].of))
  BY DEF InternalLinksApart
<1> DEFINE r == n[1]
<1>1. /\ r \in DOMAIN b.kind /\ r \in EmittedBackings /\ emitted[n].of = r
      /\ Classified(b, n, r, emitted[n]) /\ ~Refuses(ResultOf(b, r), r)
      /\ m[1] \in DOMAIN b.kind
  BY EmittedIsOwn, EmittedSorted, EmittedNotRefused
<1> HIDE DEF r
<1>2. ASSUME emitted[n].type = "rds/dbProxy"
      PROVE  Selects(emitted[n].selector, emitted[m].labels) <=> m = InstanceName(r)
  <2>1. /\ b.kind[r] = "sqlDatabase" /\ ~AuroraEnabled(b, r)
        /\ emitted[n].selector = OneLabel(ProxyTarget, LogicalName(b, r))
    BY <1>1, <1>2 DEF Classified
  <2>2. r \in OfBacking(b, "sqlDatabase")
    BY <1>1, <2>1 DEF OfBacking
  <2>3. ASSUME Selects(emitted[n].selector, emitted[m].labels) PROVE m = InstanceName(r)
    <3>1. Targeted(LogicalName(b, r), emitted[m].labels)
      BY <2>1, <2>3 DEF Targeted
    <3>2. /\ b.kind[m[1]] = "sqlDatabase" /\ m = InstanceName(m[1])
          /\ LogicalName(b, m[1]) = LogicalName(b, r)
      BY <2>2, <3>1, ProxyApart
    <3>3. m[1] = r
      BY <1>1, <2>1, <3>2
    <3> QED
      BY <3>2, <3>3
  <2>4. ASSUME m = InstanceName(r) PROVE Selects(emitted[n].selector, emitted[m].labels)
    <3>1. emitted[InstanceName(r)] = DatabaseResources(b, r)[InstanceName(r)]
      <4>1. InstanceName(r) \in DatabaseNames(b, r)
        BY DEF DatabaseNames
      <4> QED
        BY <1>1, <2>1, <4>1, DatabaseThere
    <3>2. DatabaseResources(b, r)[InstanceName(r)].labels = ProxyTargetLabels(b, r)
      BY <2>1, ProxyFinds
    <3>3. Targeted(LogicalName(b, r), ProxyTargetLabels(b, r))
      BY InstanceTargeted
    <3>4. emitted[m].labels = ProxyTargetLabels(b, r)
      BY <2>4, <3>1, <3>2
    <3> QED
      BY <2>1, <3>3, <3>4 DEF Targeted
  <2> QED
    BY <2>3, <2>4
<1>3. ASSUME emitted[n].type = "elasticache/replicationGroup",
             emitted[m].type = "secretsmanager/secret", AuthMode(b, r) # "iam"
      PROVE  Selects(emitted[n].selector, emitted[m].labels) <=> m = AuthSecretName(r)
  <2>1. /\ b.kind[r] = "cache" /\ emitted[n].selector = CacheSelector(b, r)
        /\ n = ReplicationGroupName(r)
    BY <1>1, <1>3 DEF Classified
  <2>2. r \in OfBacking(b, "cache")
    BY <1>1, <2>1 DEF OfBacking
  <2>3. ASSUME Selects(emitted[n].selector, emitted[m].labels) PROVE m = AuthSecretName(r)
    <3>1. Selects(CacheSelector(b, r), emitted[m].labels)
      BY <2>1, <2>3
    <3> QED
      BY <1>3, <2>2, <3>1, GroupApart
  <2>4. ASSUME m = AuthSecretName(r) PROVE Selects(emitted[n].selector, emitted[m].labels)
    <3>1. {ReplicationGroupName(r), AuthSecretName(r)} \subseteq CacheNames(b, r)
      BY <1>3 DEF CacheNames
    <3>2. /\ emitted[n] = CacheResources(b, r)[ReplicationGroupName(r)]
          /\ emitted[m] = CacheResources(b, r)[AuthSecretName(r)]
      BY <1>1, <2>1, <2>4, <3>1, CacheThere
    <3>3. Selects(CacheResources(b, r)[ReplicationGroupName(r)].selector,
                  CacheResources(b, r)[AuthSecretName(r)].labels)
      BY <1>3, CacheFound
    <3> QED
      BY <3>2, <3>3
  <2> QED
    BY <2>3, <2>4
<1> QED
  BY <1>1, <1>2, <1>3


-----------------------------------------------------------------------------
(* Config stores.                                                          *)

\* Places in a sequence have a last one.
LEMMA LastPlace ==
    ASSUME NEW n \in Nat, NEW T, T \subseteq 1..n, T # {}
    PROVE  Max(T) \in T
<1> DEFINE less == {p \in Nat \X Nat : p[1] < p[2]}
           S == {n - i : i \in T}
<1>1. IsWellFoundedOn(less, Nat)
  <2>1. OpToRel(<, Nat) = less
    BY DEF OpToRel
  <2> QED
    BY <2>1, NatLessThanWellFounded
<1>2. \A i, j \in Nat : <<j, i>> \in less <=> j < i
  OBVIOUS
<1>3. S \subseteq Nat /\ S # {}
  <2>1. \A i \in 1..n : n - i \in Nat
    OBVIOUS
  <2>2. \A i \in T : i \in 1..n
    OBVIOUS
  <2> QED
    BY <2>1, <2>2
<1>4. PICK m \in S : \A k \in S : ~(<<k, m>> \in less)
  <2> HIDE DEF less, S
  <2> QED
    BY <1>1, <1>3, WFMin
<1>5. PICK i \in T : m = n - i
  OBVIOUS
<1>6. \A j \in T : i >= j
  <2> SUFFICES ASSUME NEW j \in T PROVE i >= j
    OBVIOUS
  <2>1. n - j \in S /\ n - j \in Nat /\ m \in Nat
    BY <1>3, <1>4
  <2>2. ~(n - j < m)
    BY <1>2, <1>4, <2>1
  <2> QED
    BY <1>5, <2>1, <2>2
<1> HIDE DEF less, S
<1> QED
  BY <1>5, <1>6 DEF Max

\* The variables of a segment that one config alone has speak of that config.
LEMMA WiredAlone ==
    ASSUME BackingInv, NEW h \in Handlers, NEW c \in ConfigsOf(h),
           \A d \in ConfigsOf(h) \ {c} : Segment(d) # Segment(c)
    PROVE  ConfigVariables(b, h)[Segment(c)] = StoreWiring(b, c)
<1> DEFINE links == b.links[h]
           places == ConfigLinks(b, h)
           segment(i) == b.segment[StoreName(b, links[i])]
           T == {i \in places : segment(i) = Segment(c)}
<1>1. links \in Seq(DOMAIN b.kind)
  BY BlueprintIsBacked DEF BackingInv, StoreInv, IsBacked, Handlers
<1>2. Len(links) \in Nat /\ DOMAIN links = 1..Len(links)
  BY <1>1
<1>3. places \subseteq 1..Len(links)
  BY <1>2 DEF ConfigLinks
<1>4. \A i \in places : links[i] \in ConfigsOf(h)
  BY <1>1, <1>2 DEF ConfigLinks, ConfigsOf, ToSet
<1>5. PICK i \in DOMAIN links : links[i] = c
  BY DEF ConfigsOf, ToSet
<1>6. i \in places /\ segment(i) = Segment(c)
  BY <1>5 DEF ConfigLinks, ConfigsOf, Segment
<1>7. \A j \in places : segment(j) = Segment(links[j])
  BY DEF Segment
<1> HIDE DEF places
<1>8. T # {} /\ T \subseteq 1..Len(links)
  BY <1>3, <1>6
<1>9. Max(T) \in T
  <2> HIDE DEF T
  <2> QED
    BY <1>2, <1>8, LastPlace
<1>10. links[Max(T)] = c
  BY <1>4, <1>7, <1>9
<1>11. ConfigVariables(b, h)[Segment(c)] = StoreWiring(b, links[Max(T)])
  BY <1>6 DEF ConfigVariables, places
<1> QED
  BY <1>10, <1>11


\* What is emitted for a config, as its handlers' functions are told of it.
LEMMA ConfigKept ==
    ASSUME NEW x, NEW c
    PROVE  /\ ConfigSecret(x, c).type = "secretsmanager/secret"
           /\ ConfigSecret(x, c).labels = HandlerSelectorLabels(x, c)
           /\ ConfigSecret(x, c).spec.path[2] = StoreName(x, c)
           /\ ConfigSecret(x, c).spec.values = {}
           /\ ConfigSecret(x, c).spec.secure = x.spec[c].values
           /\ ParameterTree(x, c).type = "ssm/parameterTree"
           /\ ParameterTree(x, c).labels = HandlerSelectorLabels(x, c)
           /\ ParameterTree(x, c).spec.path[2] = StoreName(x, c)
           /\ ParameterTree(x, c).spec.values = x.spec[c].values \cap x.spec[c].plaintext
           /\ ParameterTree(x, c).spec.secure = x.spec[c].values \ x.spec[c].plaintext
<1>1. /\ ConfigSecret(x, c).type = "secretsmanager/secret"
      /\ ConfigSecret(x, c).labels = HandlerSelectorLabels(x, c)
      /\ ConfigSecret(x, c).spec
            = [path |-> StorePath(x, c), values |-> {}, secure |-> x.spec[c].values,
               key |-> x.spec[c].key]
  BY DEF ConfigSecret, Concrete
<1>2. /\ ParameterTree(x, c).type = "ssm/parameterTree"
      /\ ParameterTree(x, c).labels = HandlerSelectorLabels(x, c)
      /\ ParameterTree(x, c).spec
            = [path |-> StorePath(x, c),
               values |-> x.spec[c].values \cap x.spec[c].plaintext,
               secure |-> x.spec[c].values \ x.spec[c].plaintext,
               key |-> x.spec[c].key /\ x.spec[c].values \ x.spec[c].plaintext # {}]
  BY DEF ParameterTree, Concrete
<1>3. StorePath(x, c)[2] = StoreName(x, c)
  BY DEF StorePath
<1> QED
  BY <1>1, <1>2, <1>3

\* A handler that selects a config selects what is emitted for it.
LEMMA HandlerSelectsStore ==
    ASSUME NEW h \in Handlers, NEW c, Selects(b.selector[h], OwnLabels(b, c))
    PROVE  Selects(b.selector[h], HandlerSelectorLabels(b, c))
<1> DEFINE sel == b.selector[h]
           own == OwnLabels(b, c)
<1>1. PICK key \in DOMAIN sel \cap DOMAIN own : sel[key] = own[key]
  BY DEF Selects
<1>2. h \in HandlersOfConfig(b, c)
  BY DEF HandlersOfConfig, Handlers
<1>3. key \in DOMAIN MatchedLabels(sel, own)
  BY <1>1 DEF MatchedLabels
<1>4. /\ key \in DOMAIN HandlerSelectorLabels(b, c)
      /\ HandlerSelectorLabels(b, c)[key] = own[key]
  BY <1>2, <1>3 DEF HandlerSelectorLabels
<1> HIDE DEF own
<1> QED
  BY <1>1, <1>4 DEF Selects

LEMMA InvConfigStores == BackingInv => ConfigStoresAreFound
<1> SUFFICES ASSUME BackingInv, Complete, NEW h \in Handlers, NEW c \in ConfigsOf(h),
                    ~Reported(c), \A d \in ConfigsOf(h) \ {c} : Segment(d) # Segment(c),
                    NEW wired, wired = ConfigVariables(b, h)[Segment(c)],
                    NEW kept, kept = emitted[wired.concrete]
             PROVE  /\ wired.id \in DOMAIN emitted \cup DOMAIN values
                    /\ wired.concrete \in DOMAIN emitted
                    /\ <<kept.type, wired.service>> =
                            IF wired.kind = "secrets-manager"
                            THEN <<"secretsmanager/secret", "secretsmanager">>
                            ELSE <<"ssm/parameterTree", "ssm">>
                    /\ FunctionSelects(h, wired.concrete)
                    /\ kept.spec.path[2] = wired.namespace
                    /\ kept.spec.values \cup kept.spec.secure = b.spec[c].values
                    /\ kept.spec.values \subseteq b.spec[c].plaintext
  BY DEF ConfigStoresAreFound
<1>1. wired = StoreWiring(b, c)
  BY WiredAlone
<1>2. c \in ToSet(b.links[h]) /\ b.kind[c] = "config" /\ LinksOf(h, c)
  BY DEF ConfigsOf, LinksOf
<1>3. c \in DOMAIN b.kind /\ c \in EmittedBackings
  <2>1. b.links[h] \in Seq(DOMAIN b.kind)
    BY BlueprintIsBacked DEF BackingInv, StoreInv, IsBacked, Handlers
  <2>2. c \in DOMAIN b.kind
    BY <1>2, <2>1 DEF ToSet
  <2> QED
    BY <2>2, AllEmitted
<1>4. ~Refuses(ResultOf(b, c), c) /\ ResultOf(b, c) = EmitConfig(b, c)
  BY <1>2, <1>3, RefusalReported, ResultByKind
<1>5. Selects(b.selector[h], HandlerSelectorLabels(b, c))
  BY <1>2, LinkedByLabels, HandlerSelectsStore
<1>6. /\ DOMAIN ResourcesOf(b, c) \subseteq DOMAIN emitted
      /\ \A n \in DOMAIN ResourcesOf(b, c) : emitted[n] = ResourcesOf(b, c)[n]
      /\ DOMAIN ValuesOf(b, c) \subseteq DOMAIN values
  BY <1>3, AllEmitted
<1>7. ASSUME KeptAsSecret(b, c)
      PROVE  /\ ConfigSecretName(c) \in DOMAIN emitted
             /\ emitted[ConfigSecretName(c)] = ConfigSecret(b, c)
  <2>1. EmitConfig(b, c) = EmitResult(Entry(ConfigSecretName(c), ConfigSecret(b, c)),
                                      Entry(ConfigIdKey(c), ConfigSecretName(c)), {})
    BY <1>4, <1>7, ConfigResult DEF ConfigEmitted
  <2>2. ResourcesOf(b, c) = Entry(ConfigSecretName(c), ConfigSecret(b, c))
    BY <1>4, <2>1, ResultFields DEF ResourcesOf
  <2> QED
    BY <1>6, <2>2 DEF Entry
<1>8. ASSUME ~KeptAsSecret(b, c)
      PROVE  /\ ParameterTreeName(c) \in DOMAIN emitted /\ ConfigIdKey(c) \in DOMAIN values
             /\ emitted[ParameterTreeName(c)] = ParameterTree(b, c)
  <2>1. EmitConfig(b, c) = EmitResult(Entry(ParameterTreeName(c), ParameterTree(b, c)),
                                      Entry(ConfigIdKey(c), Absent), {})
    BY <1>4, <1>8, ConfigResult DEF ConfigEmitted
  <2>2. /\ ResourcesOf(b, c) = Entry(ParameterTreeName(c), ParameterTree(b, c))
        /\ ValuesOf(b, c) = Entry(ConfigIdKey(c), Absent)
    BY <1>4, <2>1, ResultFields DEF ResourcesOf, ValuesOf
  <2> QED
    BY <1>6, <2>2 DEF Entry
<1>9. CASE KeptAsSecret(b, c)
  <2>1. /\ wired.concrete = ConfigSecretName(c) /\ wired.id = ConfigSecretName(c)
        /\ wired.kind = "secrets-manager" /\ wired.service = "secretsmanager"
        /\ wired.namespace = StoreName(b, c)
    BY <1>1, <1>9 DEF StoreWiring
  <2>2. kept = ConfigSecret(b, c)
    BY <1>7, <1>9, <2>1
  <2>3. FunctionSelects(h, wired.concrete)
    BY <1>5, <1>7, <1>9, <2>1, ConfigKept DEF FunctionSelects
  <2> QED
    BY <1>7, <1>9, <2>1, <2>2, <2>3, ConfigKept
<1>10. CASE ~KeptAsSecret(b, c)
  <2>1. /\ wired.concrete = ParameterTreeName(c) /\ wired.id = ConfigIdKey(c)
        /\ wired.kind = "parameter-store" /\ wired.service = "ssm"
        /\ wired.namespace = StoreName(b, c)
    BY <1>1, <1>10 DEF StoreWiring
  <2>2. kept = ParameterTree(b, c)
    BY <1>8, <1>10, <2>1
  <2>3. FunctionSelects(h, wired.concrete)
    BY <1>5, <1>8, <1>10, <2>1, ConfigKept DEF FunctionSelects
  <2> QED
    BY <1>8, <1>10, <2>1, <2>2, <2>3, ConfigKept
<1> QED
  BY <1>9, <1>10


-----------------------------------------------------------------------------
(* Bucket notifications.                                                   *)

\* No two events are counted to one index.
LEMMA IndexesApart ==
    ASSUME NEW requested, requested \in Seq(ToSet(requested)),
           NEW i \in Mapped(requested), NEW j \in Mapped(requested), i < j
    PROVE  MappedBefore(requested, i) # MappedBefore(requested, j)
<1> DEFINE S == {k \in Mapped(requested) : k < i}
           T == {k \in Mapped(requested) : k < j}
<1>1. Len(requested) \in Nat /\ DOMAIN requested = 1..Len(requested)
  OBVIOUS
<1>2. IsFiniteSet(1..Len(requested))
  BY <1>1, FS_Interval
<1>3. IsFiniteSet(S) /\ IsFiniteSet(T)
  BY <1>1, <1>2, FS_Subset DEF Mapped
<1>4. S \cup {i} \subseteq T /\ i \notin S
  BY <1>1 DEF Mapped
<1> HIDE DEF S, T
<1>5. Cardinality(S \cup {i}) = Cardinality(S) + 1
  BY <1>3, <1>4, FS_AddElement
<1>6. Cardinality(S \cup {i}) <= Cardinality(T)
  BY <1>3, <1>4, FS_Subset
<1>7. Cardinality(S) \in Nat /\ Cardinality(T) \in Nat
  BY <1>3, FS_CardinalityType
<1>8. Cardinality(S) # Cardinality(T)
  BY <1>5, <1>6, <1>7
<1> QED
  BY <1>8 DEF MappedBefore, S, T

\* What is stamped are the events that have an equivalent, each of them.
LEMMA StampedRange ==
    ASSUME NEW requested, requested \in Seq(ToSet(requested))
    PROVE  /\ DOMAIN StampedEvents(requested) = {} <=> Mapped(requested) = {}
           /\ Range(StampedEvents(requested))
                = {S3Event(requested[i]) : i \in Mapped(requested)}
<1> DEFINE M == Mapped(requested)
           index(i) == MappedBefore(requested, i)
           event(n) == S3Event(requested[CHOOSE i \in M : index(i) = n])
           stamped == StampedEvents(requested)
<1>1. M \subseteq Nat
  BY DEF Mapped
<1>2. \A i, j \in M : index(i) = index(j) => i = j
  <2> SUFFICES ASSUME NEW i \in M, NEW j \in M, index(i) = index(j), i # j PROVE FALSE
    OBVIOUS
  <2>1. i < j \/ j < i
    BY <1>1
  <2> QED
    BY <2>1, IndexesApart
<1>3. stamped = [n \in {index(i) : i \in M} |-> event(n)]
  BY DEF StampedEvents
<1> HIDE DEF M, index, stamped
<1>4. ASSUME NEW i \in M
      PROVE  index(i) \in DOMAIN stamped /\ stamped[index(i)] = S3Event(requested[i])
  <2>1. (CHOOSE j \in M : index(j) = index(i)) = i
    BY <1>2
  <2> QED
    BY <1>3, <2>1
<1>5. \A n \in DOMAIN stamped : \E i \in M : n = index(i)
  BY <1>3
<1>6. DOMAIN stamped = {} <=> M = {}
  BY <1>4, <1>5
<1>7. Range(stamped) = {S3Event(requested[i]) : i \in M}
  BY <1>4, <1>5 DEF Range
<1> QED
  BY <1>6, <1>7 DEF M, stamped

\* A queue or a topic that is emitted says what of its subscription it drops.
LEMMA DroppedSaid ==
    ASSUME NEW x, NEW r
    PROVE  /\ \/ Refuses(EmitQueue(x, r), r)
              \/ NotificationDiagnostics(r, x.spec[r].events)
                    \subseteq EmitQueue(x, r).diagnostics
           /\ \/ Refuses(EmitTopic(x, r), r)
              \/ NotificationDiagnostics(r, x.spec[r].events)
                    \subseteq EmitTopic(x, r).diagnostics
<1> DEFINE deferred == DeferredErrors(x, r, {"fifo"})
           said == NotificationDiagnostics(r, x.spec[r].events)
           forward == EmitTopicForwarder(x, r)
           queue == Entry(QueueName(r), Queue(x, r)) ++ forward.resources
           topic == Entry(TopicName(r), QueueOrTopic(x, r, "sns/topic"))
<1>1. ASSUME deferred # {}
      PROVE  Refuses(EmitQueue(x, r), r) /\ Refuses(EmitTopic(x, r), r)
  <2>1. EmitQueue(x, r) = NothingEmitted(deferred) /\ EmitTopic(x, r) = NothingEmitted(deferred)
    BY <1>1 DEF EmitQueue, EmitTopic
  <2>2. \A y \in deferred : \E w : y = Error(r, w)
    BY DeferredAreErrors
  <2> HIDE DEF deferred
  <2> QED
    BY <1>1, <2>1, <2>2, NothingRefuses
<1>2. ASSUME deferred = {}
      PROVE  /\ said \subseteq EmitQueue(x, r).diagnostics
             /\ said \subseteq EmitTopic(x, r).diagnostics
  <2>1. /\ EmitQueue(x, r) = EmitResult(queue, <<>>, said \cup forward.diagnostics)
        /\ EmitTopic(x, r) = EmitResult(topic, <<>>, said)
    BY <1>2 DEF EmitQueue, EmitTopic
  <2> HIDE DEF queue, topic, said, forward
  <2> QED
    BY <2>1, ResultFields
<1> QED
  BY <1>1, <1>2

\* What is stamped on it is what was asked for.
LEMMA StampedOn ==
    ASSUME NEW x, NEW r
    PROVE  /\ Queue(x, r).spec.events = StampedEvents(x.spec[r].events)
           /\ QueueOrTopic(x, r, "sns/topic").spec.events = StampedEvents(x.spec[r].events)
BY DEF Queue, QueueWith, QueueOrTopic, WithOwnLabels, Concrete

\* Only the events themselves stand for their equivalents.
LEMMA S3EventsApart ==
    ASSUME NEW e, NEW f, HasS3Event(e), HasS3Event(f), S3Event(e) = S3Event(f)
    PROVE  e = f
BY DEF HasS3Event, S3Event

LEMMA InvSubscriptions == BackingInv => SubscriptionsAreAskedFor
<1> SUFFICES ASSUME BackingInv, Complete,
                    NEW r \in OfBacking(b, "queue") \cup OfBacking(b, "topic")
             PROVE  LET asked == ToSet(b.spec[r].events)
                        stamped == emitted[IF b.kind[r] = "queue" THEN QueueName(r)
                                           ELSE TopicName(r)].spec.events
                        notified == IF DOMAIN stamped = {} THEN {S3Event("created")}
                                    ELSE Range(stamped)
                        warned(what) == Warning(r, what) \in diagnostics
                    IN  ~Reported(r) /\ asked # {} =>
                            /\ \A e \in asked : warned(<<"unsupported", e>>)
                                    \/ (HasS3Event(e) /\ S3Event(e) \in notified)
                            /\ \A e \in {"created", "deleted"} : S3Event(e) \in notified =>
                                    e \in asked \/ warned(<<"default events">>)
  BY DEF SubscriptionsAreAskedFor
<1> DEFINE requested == b.spec[r].events
           asked == ToSet(requested)
           stamped == emitted[IF b.kind[r] = "queue" THEN QueueName(r)
                              ELSE TopicName(r)].spec.events
           notified == IF DOMAIN stamped = {} THEN {S3Event("created")}
                       ELSE Range(stamped)
<1> SUFFICES ASSUME ~Reported(r), asked # {}
             PROVE  /\ \A e \in asked : Warning(r, <<"unsupported", e>>) \in diagnostics
                            \/ (HasS3Event(e) /\ S3Event(e) \in notified)
                    /\ \A e \in {"created", "deleted"} : S3Event(e) \in notified =>
                            e \in asked \/ Warning(r, <<"default events">>) \in diagnostics
  OBVIOUS
<1>1. r \in DOMAIN b.kind /\ b.kind[r] \in {"queue", "topic"} /\ r \in EmittedBackings
  BY AllEmitted DEF OfBacking
<1>2. ~Refuses(ResultOf(b, r), r)
  BY <1>1, RefusalReported
<1>3. requested \in Seq(ToSet(requested))
  BY <1>1, BlueprintIsBacked DEF BackingInv, StoreInv, IsBacked, IsList
<1>4. stamped = StampedEvents(requested)
  <2>1. CASE b.kind[r] = "queue"
    <3>1. QueueEmitted(b, r) /\ ResultOf(b, r) = EmitQueue(b, r)
      BY <1>2, <2>1, QueueResult, ResultByKind
    <3>2. QueueName(r) \in DOMAIN ResourcesOf(b, r)
            /\ ResourcesOf(b, r)[QueueName(r)] = Queue(b, r)
      BY <3>1 DEF QueueEmitted, ResourcesOf
    <3>3. emitted[QueueName(r)] = Queue(b, r)
      BY <1>1, <3>2, AllEmitted
    <3> QED
      BY <2>1, <3>3, StampedOn
  <2>2. CASE b.kind[r] = "topic"
    <3>1. Single(EmitTopic(b, r), TopicName(r), QueueOrTopic(b, r, "sns/topic"))
            /\ ResultOf(b, r) = EmitTopic(b, r)
      BY <1>2, <2>2, TopicResult, ResultByKind
    <3>2. TopicName(r) \in DOMAIN ResourcesOf(b, r)
            /\ ResourcesOf(b, r)[TopicName(r)] = QueueOrTopic(b, r, "sns/topic")
      BY <3>1 DEF Single, ResourcesOf
    <3>3. emitted[TopicName(r)] = QueueOrTopic(b, r, "sns/topic")
      BY <1>1, <3>2, AllEmitted
    <3> QED
      BY <2>2, <3>3, StampedOn
  <2> QED
    BY <1>1, <2>1, <2>2
<1>5. NotificationDiagnostics(r, requested) \subseteq diagnostics
  <2>1. NotificationDiagnostics(r, requested) \subseteq DiagnosticsOf(b, r)
    BY <1>1, <1>2, DroppedSaid, ResultByKind DEF DiagnosticsOf
  <2> QED
    BY <1>1, <2>1 DEF BackingInv, ResultsKept
<1>6. \A i \in DOMAIN requested \ Mapped(requested) :
            Warning(r, <<"unsupported", requested[i]>>) \in diagnostics
  BY <1>5 DEF NotificationDiagnostics, Mapped
<1>7. DOMAIN requested # {} /\ Mapped(requested) = {}
            => Warning(r, <<"default events">>) \in diagnostics
  BY <1>5 DEF NotificationDiagnostics, Mapped
<1>8. /\ DOMAIN stamped = {} <=> Mapped(requested) = {}
      /\ Range(stamped) = {S3Event(requested[i]) : i \in Mapped(requested)}
  BY <1>3, <1>4, StampedRange
<1>9. ASSUME NEW e \in asked
      PROVE  \/ Warning(r, <<"unsupported", e>>) \in diagnostics
             \/ HasS3Event(e) /\ S3Event(e) \in notified
  <2>1. PICK i \in DOMAIN requested : e = requested[i]
    BY DEF ToSet
  <2>2. CASE i \in Mapped(requested)
    BY <1>8, <2>1, <2>2 DEF Mapped
  <2>3. CASE i \notin Mapped(requested)
    BY <1>6, <2>1, <2>3
  <2> QED
    BY <2>2, <2>3
<1>10. ASSUME NEW e \in {"created", "deleted"}, S3Event(e) \in notified
       PROVE  e \in asked \/ Warning(r, <<"default events">>) \in diagnostics
  <2>1. CASE Mapped(requested) = {}
    <3>1. DOMAIN requested # {}
      BY DEF ToSet
    <3> QED
      BY <1>7, <2>1, <3>1
  <2>2. CASE Mapped(requested) # {}
    <3>1. PICK i \in Mapped(requested) : S3Event(e) = S3Event(requested[i])
      BY <1>8, <1>10, <2>2
    <3>2. HasS3Event(e) /\ HasS3Event(requested[i]) /\ i \in DOMAIN requested
      BY DEF HasS3Event, Mapped
    <3>3. e = requested[i]
      BY <3>1, <3>2, S3EventsApart
    <3> QED
      BY <3>2, <3>3 DEF ToSet
  <2> QED
    BY <2>1, <2>2
<1> QED
  BY <1>9, <1>10

-----------------------------------------------------------------------------
(* Specs that have to fit together.                                        *)

FittedTypes == {"lambda/function", "dynamodb/table", "s3/bucket", "sqs/queue", "sns/topic"}

\* What of another type is emitted for a queue, a database and so on.
Unfitted(p) == p.type \notin FittedTypes

LEMMA RelatesUnfitted ==
    ASSUME NEW p, NEW t, NEW r, NEW rs, NEW gs, NEW ss, Relates(p, t, r, rs, gs, ss),
           t \notin FittedTypes
    PROVE  Unfitted(p)
BY DEF Relates, Unfitted

LEMMA DatabaseUnfitted ==
    ASSUME NEW x, NEW d, NEW n \in DatabaseNames(x, d), n # RunnerName(d)
    PROVE  Unfitted(DatabaseResources(x, d)[n])
<1> DEFINE other(t) == t \notin FittedTypes
           plain(m) == Unfitted(DatabaseResources(x, d)[m])
<1>1. /\ other("rds/dbSubnetGroup") /\ other("iam/role")
      /\ other("rds/dbInstance") /\ other("secretsmanager/secret")
      /\ other("rds/dbCluster") /\ other("rds/dbProxy")
  BY DEF FittedTypes
<1> HIDE DEF other
<1>2. plain(DbSubnetGroupName(d)) /\ plain(RunnerRoleName(d))
  <2>1. Relates(DatabaseResources(x, d)[DbSubnetGroupName(d)], "rds/dbSubnetGroup", d,
                {VpcName(VpcOf(x, d))}, {}, {})
    BY DatabaseParts
  <2>2. Relates(DatabaseResources(x, d)[RunnerRoleName(d)], "iam/role", d,
                IF AppUserAuth(x, d) THEN {} ELSE {InstanceName(d)}, {},
                RunnerSecrets(x, d))
    BY DatabaseParts
  <2>3. plain(DbSubnetGroupName(d))
    BY <1>1, <2>1, RelatesUnfitted DEF other
  <2>4. plain(RunnerRoleName(d))
    BY <1>1, <2>2, RelatesUnfitted DEF other
  <2> QED
    BY <2>3, <2>4
<1>3. d \in x.replicas => plain(ReaderName(d))
  <2>1. d \in x.replicas =>
            Relates(DatabaseResources(x, d)[ReaderName(d)], "rds/dbInstance", d,
                    IF AuroraEnabled(x, d) THEN {ClusterName(d)} ELSE {InstanceName(d)},
                    {}, {})
    BY DatabaseParts
  <2> QED
    BY <1>1, <2>1, RelatesUnfitted DEF other
<1>4. AppUserAuth(x, d) => plain(AppUserSecretName(d))
  <2>1. AppUserAuth(x, d) => Relates(DatabaseResources(x, d)[AppUserSecretName(d)],
                                     "secretsmanager/secret", d, {}, {}, {})
    BY DatabaseParts
  <2> QED
    BY <1>1, <2>1, RelatesUnfitted DEF other
<1>5. AuroraEnabled(x, d) => plain(ClusterName(d)) /\ plain(InstanceName(d))
  <2> SUFFICES ASSUME AuroraEnabled(x, d)
               PROVE  plain(ClusterName(d)) /\ plain(InstanceName(d))
    OBVIOUS
  <2>1. Relates(DatabaseResources(x, d)[ClusterName(d)], "rds/dbCluster", d,
                SubnetRefs(x, d), InDatabaseGroup(x, d), {})
    BY AuroraParts
  <2>2. Relates(DatabaseResources(x, d)[InstanceName(d)], "rds/dbInstance", d,
                {ClusterName(d)}, {}, {})
    BY AuroraParts
  <2>3. plain(ClusterName(d))
    BY <1>1, <2>1, RelatesUnfitted DEF other
  <2>4. plain(InstanceName(d))
    BY <1>1, <2>2, RelatesUnfitted DEF other
  <2> QED
    BY <2>3, <2>4
<1>6. ~AuroraEnabled(x, d) =>
            plain(InstanceName(d)) /\ plain(ProxyName(d)) /\ plain(ProxyRoleName(d))
  <2> SUFFICES ASSUME ~AuroraEnabled(x, d)
               PROVE  plain(InstanceName(d)) /\ plain(ProxyName(d)) /\ plain(ProxyRoleName(d))
    OBVIOUS
  <2>1. Relates(DatabaseResources(x, d)[InstanceName(d)], "rds/dbInstance", d,
                SubnetRefs(x, d), InDatabaseGroup(x, d), {})
    BY StandaloneParts
  <2>2. Relates(DatabaseResources(x, d)[ProxyName(d)], "rds/dbProxy", d,
                {ProxyRoleName(d), VpcName(VpcOf(x, d))},
                {<<VpcOf(x, d), SecurityGroup(d, "proxy")>>}, RegisteredSecrets(x, d))
    BY StandaloneParts
  <2>3. Relates(DatabaseResources(x, d)[ProxyRoleName(d)], "iam/role", d,
                IF AppUserAuth(x, d) THEN {} ELSE {InstanceName(d)}, {},
                RegisteredSecrets(x, d))
    BY StandaloneParts
  <2>4. plain(InstanceName(d))
    BY <1>1, <2>1, RelatesUnfitted DEF other
  <2>5. plain(ProxyName(d))
    BY <1>1, <2>2, RelatesUnfitted DEF other
  <2>6. plain(ProxyRoleName(d))
    BY <1>1, <2>3, RelatesUnfitted DEF other
  <2> QED
    BY <2>4, <2>5, <2>6
<1> HIDE DEF plain
<1>7. plain(n)
  BY <1>2, <1>3, <1>4, <1>5, <1>6 DEF DatabaseNames
<1> QED
  BY <1>7 DEF plain

LEMMA CacheUnfitted ==
    ASSUME NEW x, NEW c, NEW n \in CacheNames(x, c)
    PROVE  Unfitted(CacheResources(x, c)[n])
<1>1. /\ "elasticache/replicationGroup" \notin FittedTypes
      /\ "elasticache/subnetGroup" \notin FittedTypes
      /\ "secretsmanager/secret" \notin FittedTypes
      /\ "elasticache/user" \notin FittedTypes
      /\ "elasticache/userGroup" \notin FittedTypes
  BY DEF FittedTypes
<1> DEFINE plain(m) == Unfitted(CacheResources(x, c)[m])
<1>2. plain(ReplicationGroupName(c))
  <2>1. Relates(CacheResources(x, c)[ReplicationGroupName(c)],
                "elasticache/replicationGroup", c, GroupRefs(x, c), GroupGroups(x, c), {})
    BY CacheParts
  <2> QED
    BY <1>1, <2>1, RelatesUnfitted
<1>3. PlacedIn(x, c) # {} => plain(CacheSubnetGroupName(c))
  <2>1. PlacedIn(x, c) # {} =>
            Relates(CacheResources(x, c)[CacheSubnetGroupName(c)],
                    "elasticache/subnetGroup", c, {VpcName(VpcOf(x, c))}, {}, {})
    BY CacheParts
  <2> QED
    BY <1>1, <2>1, RelatesUnfitted
<1>4. AuthMode(x, c) # "iam" => plain(AuthSecretName(c))
  <2>1. AuthMode(x, c) # "iam" =>
            Relates(CacheResources(x, c)[AuthSecretName(c)], "secretsmanager/secret", c,
                    {}, {}, {})
    BY CacheParts
  <2> QED
    BY <1>1, <2>1, RelatesUnfitted
<1>5. AuthMode(x, c) = "iam" => plain(IamUserName(c))
  <2>1. AuthMode(x, c) = "iam" =>
            Relates(CacheResources(x, c)[IamUserName(c)], "elasticache/user", c, {}, {}, {})
    BY CacheParts
  <2> QED
    BY <1>1, <2>1, RelatesUnfitted
<1>6. AuthMode(x, c) = "iam" => plain(UserGroupName(c))
  <2>1. AuthMode(x, c) = "iam" =>
            Relates(CacheResources(x, c)[UserGroupName(c)], "elasticache/userGroup", c,
                    {IamUserName(c)}, {}, {})
    BY CacheParts
  <2> QED
    BY <1>1, <2>1, RelatesUnfitted
<1> HIDE DEF plain
<1>7. plain(n)
  BY <1>2, <1>3, <1>4, <1>5, <1>6 DEF CacheNames
<1> QED
  BY <1>7 DEF plain

\* What is emitted of a type that has to fit is what its own emitter made.
MadeFor(x, r, p) ==
    /\ p.type = "dynamodb/table" => x.kind[r] = "datastore" /\ p = Table(x, r)
    /\ p.type = "s3/bucket" => p = Bucket(x, r)
    /\ p.type \in {"sqs/queue", "sns/topic"} =>
            /\ x.kind[r] \in {"queue", "topic"}
            /\ p = Queue(x, r) \/ p = QueueOrTopic(x, r, "sns/topic")
    /\ p.type = "lambda/function" =>
            \/ x.kind[r] = "queue" /\ p = Forwarder(x, r)
            \/ x.kind[r] = "sqlDatabase" /\ p.labels = x.selector[VpcOf(x, r)]

LEMMA UnfittedMadeFor ==
    ASSUME NEW x, NEW r, NEW p, Unfitted(p)
    PROVE  MadeFor(x, r, p)
BY DEF Unfitted, MadeFor, FittedTypes

LEMMA EmittedMadeFor ==
    ASSUME BackingInv, NEW n \in DOMAIN emitted
    PROVE  MadeFor(b, n[1], emitted[n])
<1> DEFINE r == n[1]
           p == emitted[n]
           sure == MadeFor(b, r, p)
<1>1. /\ r \in DOMAIN b.kind /\ r \in EmittedBackings
      /\ n \in DOMAIN ResourcesOf(b, r) /\ p = ResourcesOf(b, r)[n]
  BY EmittedIsOwn
<1>2. b.kind[r] \in Kinds
  BY <1>1, KindsKnown DEF BackingInv
<1>3. ~Refuses(ResultOf(b, r), r)
  BY EmittedNotRefused
<1> HIDE DEF r, p
<1>4. ASSUME b.kind[r] = "sqlDatabase" PROVE sure
  <2>1. ResourcesOf(b, r) = DatabaseResources(b, r)
    BY <1>1, <1>3, <1>4, DatabaseThere
  <2>2. n \in DatabaseNames(b, r)
    BY <1>1, <2>1, DatabaseDomain
  <2>3. CASE n # RunnerName(r)
    <3>1. Unfitted(DatabaseResources(b, r)[n])
      BY <2>2, <2>3, DatabaseUnfitted
    <3> QED
      BY <1>1, <2>1, <3>1, UnfittedMadeFor
  <2>4. CASE n = RunnerName(r)
    <3>1. p = MaintenanceRunner(b, r)
      BY <1>1, <2>1, <2>4, LabelledFound
    <3>2. Relates(MaintenanceRunner(b, r), "lambda/function", r,
                  {RunnerRoleName(r), HostKey(r), DatabaseNameKey(r)}, {},
                  RunnerSecrets(b, r))
      BY RunnerRelates
    <3>3. p.type = "lambda/function" /\ p.labels = b.selector[VpcOf(b, r)]
      BY <3>1, <3>2, RunnerFinds DEF Relates
    <3> QED
      BY <1>4, <3>3 DEF MadeFor
  <2> QED
    BY <2>3, <2>4
<1>5. ASSUME b.kind[r] = "cache" PROVE sure
  <2>1. ResourcesOf(b, r) = CacheResources(b, r)
    BY <1>1, <1>3, <1>5, CacheThere
  <2>2. n \in CacheNames(b, r)
    BY <1>1, <2>1, CacheContents
  <2>3. Unfitted(CacheResources(b, r)[n])
    BY <2>2, CacheUnfitted
  <2> QED
    BY <1>1, <2>1, <2>3, UnfittedMadeFor
<1>6. ASSUME b.kind[r] = "queue" PROVE sure
  <2>1. QueueEmitted(b, r) /\ ResultOf(b, r) = EmitQueue(b, r)
    BY <1>3, <1>6, QueueResult, ResultByKind
  <2>2. p = Queue(b, r) \/ p = Forwarder(b, r) \/ p = ForwarderRole(r)
    BY <1>1, <2>1 DEF QueueEmitted, ResourcesOf
  <2>3. CASE p = Queue(b, r)
    <3>1. Relates(Queue(b, r), "sqs/queue", r, {}, {}, {})
      BY QueueParts
    <3>2. p.type = "sqs/queue"
      BY <2>3, <3>1 DEF Relates
    <3> QED
      BY <1>6, <2>3, <3>2 DEF MadeFor
  <2>4. CASE p = Forwarder(b, r)
    <3>1. Relates(Forwarder(b, r), "lambda/function", r, {ForwarderRoleName(r)}, {}, {})
      BY QueueParts
    <3>2. p.type = "lambda/function"
      BY <2>4, <3>1 DEF Relates
    <3> QED
      BY <1>6, <2>4, <3>2 DEF MadeFor
  <2>5. CASE p = ForwarderRole(r)
    <3>1. Relates(ForwarderRole(r), "iam/role", r, {}, {}, {})
      BY QueueParts
    <3>2. Unfitted(p)
      BY <2>5, <3>1, RelatesUnfitted DEF FittedTypes
    <3> QED
      BY <3>2, UnfittedMadeFor
  <2> QED
    BY <2>2, <2>3, <2>4, <2>5
<1>7. ASSUME b.kind[r] = "topic" PROVE sure
  <2>1. p = QueueOrTopic(b, r, "sns/topic")
    BY <1>1, <1>3, <1>7, TopicResult, ResultByKind DEF Single, ResourcesOf
  <2>2. Relates(QueueOrTopic(b, r, "sns/topic"), "sns/topic", r, {}, {}, {})
    BY QueueParts
  <2>3. p.type = "sns/topic"
    BY <2>1, <2>2 DEF Relates
  <2> QED
    BY <1>7, <2>1, <2>3 DEF MadeFor
<1>8. ASSUME b.kind[r] = "bucket" PROVE sure
  <2>1. p = Bucket(b, r)
    BY <1>1, <1>8, BucketResult, ResultByKind DEF Single, ResourcesOf
  <2>2. Relates(Bucket(b, r), "s3/bucket", r, {}, {}, {})
    BY StorageParts
  <2>3. p.type = "s3/bucket"
    BY <2>1, <2>2 DEF Relates
  <2> QED
    BY <2>1, <2>3 DEF MadeFor
<1>9. ASSUME b.kind[r] = "datastore" PROVE sure
  <2>1. p = Table(b, r)
    BY <1>1, <1>3, <1>9, DatastoreResult, ResultByKind DEF Single, ResourcesOf
  <2>2. Relates(Table(b, r), "dynamodb/table", r, {}, {}, {})
    BY StorageParts
  <2>3. p.type = "dynamodb/table"
    BY <2>1, <2>2 DEF Relates
  <2> QED
    BY <1>9, <2>1, <2>3 DEF MadeFor
<1>10. ASSUME b.kind[r] = "config" PROVE sure
  <2>1. ConfigEmitted(b, r) /\ ResultOf(b, r) = EmitConfig(b, r)
    BY <1>3, <1>10, ConfigResult, ResultByKind
  <2>2. \/ ResourcesOf(b, r) = Entry(ConfigSecretName(r), ConfigSecret(b, r))
        \/ ResourcesOf(b, r) = Entry(ParameterTreeName(r), ParameterTree(b, r))
    BY <2>1, ResultFields DEF ConfigEmitted, ResourcesOf
  <2>3. p = ConfigSecret(b, r) \/ p = ParameterTree(b, r)
    BY <1>1, <2>2 DEF Entry
  <2>4. Relates(ConfigSecret(b, r), "secretsmanager/secret", r, {}, {}, {})
    BY StorageParts
  <2>5. Relates(ParameterTree(b, r), "ssm/parameterTree", r, {}, {}, {})
    BY StorageParts
  <2>6. Unfitted(ConfigSecret(b, r))
    BY <2>4, RelatesUnfitted DEF FittedTypes
  <2>7. Unfitted(ParameterTree(b, r))
    BY <2>5, RelatesUnfitted DEF FittedTypes
  <2> QED
    BY <2>3, <2>6, <2>7, UnfittedMadeFor
<1>11. ASSUME b.kind[r] = "vpc" PROVE sure
  <2>1. p = FlexVpc(b, r)
    BY <1>1, <1>3, <1>11, VpcResult, ResultByKind DEF Single, ResourcesOf
  <2>2. Relates(FlexVpc(b, r), "flex/vpc", r, {}, VpcGroups(b, r), {})
    BY VpcParts
  <2>3. Unfitted(p)
    BY <2>1, <2>2, RelatesUnfitted DEF FittedTypes
  <2> QED
    BY <2>3, UnfittedMadeFor
<1> HIDE DEF sure
<1>12. sure
  BY <1>2, <1>4, <1>5, <1>6, <1>7, <1>8, <1>9, <1>10, <1>11 DEF Kinds
<1> QED
  BY <1>12 DEF sure, p, r

-----------------------------------------------------------------------------
(* What a table declares.                                                  *)

\* Of the places of a table's keys some one comes first.
LEMMA FirstPlace ==
    ASSUME NEW T, T \subseteq Nat \X Nat, T # {}
    PROVE  \E p \in T : \A q \in T : ~ComesFirst(q, p)
<1> DEFINE less == {p \in Nat \X Nat : p[1] < p[2]}
           firsts == {p[1] : p \in T}
<1>1. IsWellFoundedOn(less, Nat)
  <2>1. OpToRel(<, Nat) = less
    BY DEF OpToRel
  <2> QED
    BY <2>1, NatLessThanWellFounded
<1>2. \A i, j \in Nat : <<j, i>> \in less <=> j < i
  OBVIOUS
<1>3. firsts \subseteq Nat /\ firsts # {}
  OBVIOUS
<1> HIDE DEF less
<1>4. PICK m \in firsts : \A k \in firsts : ~(<<k, m>> \in less)
  <2> HIDE DEF firsts
  <2> QED
    BY <1>1, <1>3, WFMin
<1> DEFINE seconds == {i \in Nat : <<m, i>> \in T}
<1>5. seconds \subseteq Nat /\ seconds # {}
  <2>1. PICK p \in T : p[1] = m
    OBVIOUS
  <2>2. p = <<m, p[2]>> /\ p[2] \in Nat
    BY <2>1
  <2> QED
    BY <2>2
<1>6. PICK i \in seconds : \A k \in seconds : ~(<<k, i>> \in less)
  <2> HIDE DEF seconds
  <2> QED
    BY <1>1, <1>5, WFMin
<1>7. <<m, i>> \in T /\ m \in Nat /\ i \in Nat
  BY <1>3
<1>8. ASSUME NEW q \in T PROVE ~ComesFirst(q, <<m, i>>)
  <2>1. q[1] \in Nat /\ q[2] \in Nat /\ q = <<q[1], q[2]>> /\ q[1] \in firsts
    OBVIOUS
  <2>2. ~(q[1] < m)
    BY <1>2, <1>4, <1>7, <2>1
  <2>3. q[1] = m => q[2] \in seconds
    BY <2>1
  <2>4. q[1] = m => ~(q[2] < i)
    BY <1>2, <1>6, <1>7, <2>1, <2>3
  <2> QED
    BY <1>7, <2>1, <2>2, <2>4 DEF ComesFirst
<1> QED
  BY <1>7, <1>8

\* Each name is declared once, and none but the names of keys are.
LEMMA DeclaredOnce ==
    ASSUME NEW keys, NEW indexes, KeyPlaces(keys, indexes) \subseteq Nat \X Nat
    PROVE  /\ ToSet(Declared(keys, indexes))
                = {KeyAt(keys, indexes, p) : p \in NamedPlaces(keys, indexes)}
           /\ IsInjective(Declared(keys, indexes))
<1> DEFINE N == NamedPlaces(keys, indexes)
           at(p) == KeyAt(keys, indexes, p)
           F == {p \in N : \A q \in N : ComesFirst(q, p) => at(q) # at(p)}
           declared == Declared(keys, indexes)
<1>1. declared = [p \in F |-> at(p)]
  BY DEF Declared
<1>2. N \subseteq Nat \X Nat
  BY DEF NamedPlaces
<1> HIDE DEF declared, N, at
<1>3. ASSUME NEW p \in N PROVE \E q \in F : at(q) = at(p)
  <2> DEFINE T == {q \in N : at(q) = at(p)}
  <2>1. T \subseteq Nat \X Nat /\ T # {}
    BY <1>2
  <2>2. PICK q \in T : \A s \in T : ~ComesFirst(s, q)
    <3> HIDE DEF T
    <3> QED
      BY <2>1, FirstPlace
  <2>3. q \in F
    BY <2>2
  <2> QED
    BY <2>2, <2>3
<1>4. ASSUME NEW p \in F, NEW q \in F, at(p) = at(q) PROVE p = q
  <2>1. ~ComesFirst(p, q) /\ ~ComesFirst(q, p)
    BY <1>4
  <2>2. p \in Nat \X Nat /\ q \in Nat \X Nat
    BY <1>2
  <2>3. /\ p = <<p[1], p[2]>> /\ p[1] \in Nat /\ p[2] \in Nat
        /\ q = <<q[1], q[2]>> /\ q[1] \in Nat /\ q[2] \in Nat
    BY <2>2
  <2>4. p[1] = q[1] /\ p[2] = q[2]
    BY <2>1, <2>3 DEF ComesFirst
  <2> QED
    BY <2>3, <2>4
<1>5. F \subseteq N
  OBVIOUS
<1> HIDE DEF F
<1>6. ToSet(declared) = {at(p) : p \in N}
  BY <1>1, <1>3, <1>5 DEF ToSet
<1>7. IsInjective(declared)
  BY <1>1, <1>4 DEF IsInjective
<1> QED
  BY <1>6, <1>7 DEF declared, at, N

\* What an author gives a name where one is needed: no key is the empty string, and
\* the suffix of a FIFO name ends it or is not in it.
NamesAreNames ==
    /\ \A d \in OfBacking(b, "datastore") :
            /\ "" \notin ToSet(b.spec[d].keys)
            /\ \A fields \in ToSet(b.spec[d].indexes) : "" \notin ToSet(fields)
    /\ \A r \in OfBacking(b, "queue") \cup OfBacking(b, "topic") :
            \A i \in DOMAIN b.spec[r].title :
                b.spec[r].title[i] = FifoSuffix => i = Len(b.spec[r].title)

LEMMA ListShape ==
    ASSUME NEW s, IsList(s)
    PROVE  Len(s) \in Nat /\ DOMAIN s = 1..Len(s) /\ DOMAIN s \subseteq Nat \ {0}
<1> DEFINE S == ToSet(s)
<1>1. s \in Seq(S)
  BY DEF IsList
<1> HIDE DEF S
<1>2. Len(s) \in Nat /\ DOMAIN s = 1..Len(s)
  BY <1>1
<1> QED
  BY <1>2

LEMMA SuffixIsLast ==
    ASSUME NEW S, NEW s \in Seq(S), NEW e \in S
    PROVE  /\ Len(Append(s, e)) = Len(s) + 1
           /\ Append(s, e)[Len(s) + 1] = e
           /\ \A i \in 1..Len(s) : Append(s, e)[i] = s[i]
OBVIOUS

LEMMA TableFits ==
    ASSUME NEW d, IsList(b.spec[d].keys), IsList(b.spec[d].indexes),
           \A i \in DOMAIN b.spec[d].indexes : IsList(b.spec[d].indexes[i]),
           "" \notin ToSet(b.spec[d].keys),
           \A fields \in ToSet(b.spec[d].indexes) : "" \notin ToSet(fields),
           \A i \in DOMAIN b.spec[d].indexes : ~Deferred(b.spec[d].indexes[i])
    PROVE  LET spec == Table(b, d).spec
           IN  /\ ToSet(spec.attributes) = ToSet(spec.keys) \cup
                        UNION {ToSet(fields) : fields \in ToSet(spec.indexes)}
               /\ IsInjective(spec.attributes)
               /\ \A i \in DOMAIN spec.indexes : spec.indexThroughput[i] = spec.throughput
               /\ spec.throughput # {} => spec.billingMode = "PROVISIONED"
<1> DEFINE given == b.spec[d].indexes
           keys == b.spec[d].keys
           indexes == Indexes(b.spec[d])
           spec == Table(b, d).spec
           places == KeyPlaces(keys, indexes)
<1>1. /\ spec.keys = keys /\ spec.indexes = indexes
      /\ spec.attributes = Declared(keys, indexes)
      /\ spec.billingMode = BillingMode(b, d) /\ spec.throughput = Throughput(b, d)
      /\ spec.indexThroughput = [i \in DOMAIN indexes |-> Throughput(b, d)]
  <2> HIDE DEF indexes, keys
  <2> QED
    BY DEF Table, WithOwnLabels, Concrete, indexes, keys
<1>2. DOMAIN keys \subseteq Nat /\ DOMAIN given \subseteq Nat \ {0}
  BY ListShape
<1>3. /\ DOMAIN indexes \subseteq DOMAIN given
      /\ \A n \in DOMAIN indexes : /\ DOMAIN indexes[n] = DOMAIN given[n]
                                   /\ \A j \in DOMAIN given[n] : indexes[n][j] = given[n][j]
  <2>1. \A n \in DOMAIN given : \A j \in DOMAIN given[n] : FieldName(given[n][j]) = given[n][j]
    BY DEF Deferred, FieldName
  <2> QED
    BY <2>1 DEF Indexes
<1>4. \A n \in DOMAIN given : DOMAIN given[n] \subseteq Nat
  BY ListShape
<1>5. \A i \in DOMAIN keys : keys[i] # ""
  BY DEF ToSet
<1>6. \A n \in DOMAIN given : \A j \in DOMAIN given[n] : given[n][j] # ""
  BY DEF ToSet
<1> HIDE DEF spec, indexes, keys, given
<1>7. \A i \in DOMAIN keys : <<0, i>> \in places /\ KeyAt(keys, indexes, <<0, i>>) = keys[i]
  BY DEF KeyPlaces, KeyAt
<1>8. \A n \in DOMAIN indexes : \A j \in DOMAIN indexes[n] :
            <<n, j>> \in places /\ KeyAt(keys, indexes, <<n, j>>) = indexes[n][j]
  <2> SUFFICES ASSUME NEW n \in DOMAIN indexes, NEW j \in DOMAIN indexes[n]
               PROVE  <<n, j>> \in places /\ KeyAt(keys, indexes, <<n, j>>) = indexes[n][j]
    OBVIOUS
  <2>1. <<n, j>> \in places
    <3> DEFINE I(m) == {<<m, i>> : i \in DOMAIN indexes[m]}
    <3>1. <<n, j>> \in I(n)
      OBVIOUS
    <3>2. I(n) \subseteq places
      BY DEF KeyPlaces
    <3> QED
      BY <3>1, <3>2
  <2>2. n # 0
    BY <1>2, <1>3
  <2>3. <<n, j>>[1] = n /\ <<n, j>>[2] = j
    OBVIOUS
  <2> HIDE DEF places
  <2> QED
    BY <2>1, <2>2, <2>3 DEF KeyAt
<1>9. \A p \in places :
            \/ \E i \in DOMAIN keys : p = <<0, i>>
            \/ \E n \in DOMAIN indexes : \E j \in DOMAIN indexes[n] : p = <<n, j>>
  BY DEF KeyPlaces
<1> HIDE DEF places
<1>10. places \subseteq Nat \X Nat
  <2> SUFFICES ASSUME NEW p \in places PROVE p \in Nat \X Nat
    OBVIOUS
  <2>1. ASSUME NEW i \in DOMAIN keys, p = <<0, i>> PROVE p \in Nat \X Nat
    BY <1>2, <2>1
  <2>2. ASSUME NEW n \in DOMAIN indexes, NEW j \in DOMAIN indexes[n], p = <<n, j>>
        PROVE  p \in Nat \X Nat
    <3>1. n \in Nat /\ j \in Nat
      BY <1>2, <1>3, <1>4
    <3> QED
      BY <2>2, <3>1
  <2> QED
    BY <1>9, <2>1, <2>2
<1>11. \A p \in places : KeyAt(keys, indexes, p) # ""
  <2> SUFFICES ASSUME NEW p \in places PROVE KeyAt(keys, indexes, p) # ""
    OBVIOUS
  <2>1. ASSUME NEW i \in DOMAIN keys, p = <<0, i>> PROVE KeyAt(keys, indexes, p) # ""
    BY <1>5, <1>7, <2>1
  <2>2. ASSUME NEW n \in DOMAIN indexes, NEW j \in DOMAIN indexes[n], p = <<n, j>>
        PROVE  KeyAt(keys, indexes, p) # ""
    <3>1. KeyAt(keys, indexes, p) = indexes[n][j]
      BY <1>8, <2>2
    <3>2. n \in DOMAIN given /\ j \in DOMAIN given[n] /\ indexes[n][j] = given[n][j]
      BY <1>3
    <3> QED
      BY <1>6, <3>1, <3>2
  <2> QED
    BY <1>9, <2>1, <2>2
<1>12. NamedPlaces(keys, indexes) = places
  BY <1>11 DEF NamedPlaces, places
<1>13. {KeyAt(keys, indexes, p) : p \in places}
            = ToSet(keys) \cup UNION {ToSet(fields) : fields \in ToSet(indexes)}
  <2>1. \A p \in places : \/ KeyAt(keys, indexes, p) \in ToSet(keys)
                          \/ \E fields \in ToSet(indexes) :
                                KeyAt(keys, indexes, p) \in ToSet(fields)
    <3> SUFFICES ASSUME NEW p \in places
                 PROVE  \/ KeyAt(keys, indexes, p) \in ToSet(keys)
                        \/ \E fields \in ToSet(indexes) :
                                KeyAt(keys, indexes, p) \in ToSet(fields)
      OBVIOUS
    <3>1. ASSUME NEW i \in DOMAIN keys, p = <<0, i>>
          PROVE  KeyAt(keys, indexes, p) \in ToSet(keys)
      BY <1>7, <3>1 DEF ToSet
    <3>2. ASSUME NEW n \in DOMAIN indexes, NEW j \in DOMAIN indexes[n], p = <<n, j>>
          PROVE  \E fields \in ToSet(indexes) : KeyAt(keys, indexes, p) \in ToSet(fields)
      <4>1. indexes[n] \in ToSet(indexes) /\ indexes[n][j] \in ToSet(indexes[n])
        BY DEF ToSet
      <4>2. KeyAt(keys, indexes, p) = indexes[n][j]
        BY <1>8, <3>2
      <4> QED
        BY <4>1, <4>2
    <3> QED
      BY <1>9, <3>1, <3>2
  <2>2. \A v \in ToSet(keys) : \E p \in places : v = KeyAt(keys, indexes, p)
    BY <1>7 DEF ToSet
  <2>3. \A fields \in ToSet(indexes) : \A v \in ToSet(fields) :
            \E p \in places : v = KeyAt(keys, indexes, p)
    <3> SUFFICES ASSUME NEW fields \in ToSet(indexes), NEW v \in ToSet(fields)
                 PROVE  \E p \in places : v = KeyAt(keys, indexes, p)
      OBVIOUS
    <3>1. PICK n \in DOMAIN indexes : fields = indexes[n]
      BY DEF ToSet
    <3>2. PICK j \in DOMAIN indexes[n] : v = indexes[n][j]
      BY <3>1 DEF ToSet
    <3>3. <<n, j>> \in places /\ KeyAt(keys, indexes, <<n, j>>) = v
      BY <1>8, <3>2
    <3> QED
      BY <3>3
  <2> DEFINE K == ToSet(keys)
             I == UNION {ToSet(fields) : fields \in ToSet(indexes)}
             A == {KeyAt(keys, indexes, p) : p \in places}
  <2>4. \A p \in places : KeyAt(keys, indexes, p) \in K \cup I
    BY <2>1
  <2>5. A \subseteq K \cup I
    BY <2>4
  <2>6. K \subseteq A
    BY <2>2
  <2>7. I \subseteq A
    BY <2>3
  <2> QED
    BY <2>5, <2>6, <2>7
<1>14. /\ ToSet(Declared(keys, indexes)) = {KeyAt(keys, indexes, p) : p \in places}
       /\ IsInjective(Declared(keys, indexes))
  BY <1>10, <1>12, DeclaredOnce DEF places
<1>15. Throughput(b, d) # {} => BillingMode(b, d) = "PROVISIONED"
  BY DEF Throughput
<1> QED
  BY <1>1, <1>13, <1>14, <1>15 DEF spec

LEMMA BucketFits ==
    ASSUME NEW x, NEW r
    PROVE  Bucket(x, r).spec.encryption # Absent /\ Bucket(x, r).spec.encryption.key =>
                Bucket(x, r).spec.encryption.algorithm = "aws:kms"
<1> DEFINE asked == x.spec[r].encryption
<1>1. Bucket(x, r).spec.encryption = Encryption(asked)
  BY DEF Bucket, WithOwnLabels, Concrete
<1> HIDE DEF asked
<1>2. CASE asked = Absent
  <2>1. Encryption(asked) = Absent
    BY <1>2, Zenon DEF Encryption
  <2> QED
    BY <1>1, <2>1
<1>3. CASE asked # Absent /\ asked.key
  <2>1. Encryption(asked) = [algorithm |-> "aws:kms", key |-> TRUE]
    BY <1>3, Zenon DEF Encryption
  <2> QED
    BY <1>1, <2>1
<1>4. CASE asked # Absent /\ ~asked.key
  <2>1. \/ Encryption(asked) = [algorithm |-> "AES256", key |-> FALSE]
        \/ Encryption(asked) = [algorithm |-> asked.algorithm, key |-> FALSE]
    BY <1>4, Zenon DEF Encryption
  <2> QED
    BY <1>1, <2>1
<1> QED
  BY <1>2, <1>3, <1>4

LEMMA BelowLast ==
    \A l \in Nat : /\ \A i \in 1..l - 1 : i \in 1..l /\ i # l
                  /\ \A m : m = l + 1 => \A i \in 1..m - 1 : i \in 1..l
OBVIOUS

LEMMA NameFits ==
    ASSUME NEW title, IsList(title), NEW fifo, fifo,
           \A i \in DOMAIN title : title[i] = FifoSuffix => i = Len(title),
           NEW name, name = PhysicalName(title, fifo), name # <<>>
    PROVE  /\ name[Len(name)] = FifoSuffix
           /\ \A i \in 1..Len(name) - 1 : name[i] # FifoSuffix
<1> DEFINE S == ToSet(title) \cup {FifoSuffix}
           L == Len(title)
           M == Len(name)
<1>1. title \in Seq(S) /\ FifoSuffix \in S
  BY DEF IsList
<1> HIDE DEF S
<1>2. title # <<>>
  BY DEF PhysicalName
<1>3. L \in Nat /\ DOMAIN title = 1..L /\ L # 0
  BY <1>1, <1>2
<1>4. \A i \in DOMAIN title : title[i] = FifoSuffix => i = L
  OBVIOUS
<1>5. \/ title[L] = FifoSuffix /\ name = title /\ M = L
      \/ title[L] # FifoSuffix /\ name = Append(title, FifoSuffix)
  BY <1>2 DEF PhysicalName
<1>6. /\ Len(Append(title, FifoSuffix)) = L + 1
      /\ Append(title, FifoSuffix)[L + 1] = FifoSuffix
      /\ \A i \in 1..L : Append(title, FifoSuffix)[i] = title[i]
  BY <1>1, SuffixIsLast
<1>7. \/ title[L] = FifoSuffix /\ name = title /\ M = L
      \/ /\ title[L] # FifoSuffix /\ M = L + 1 /\ name[M] = FifoSuffix
         /\ \A i \in 1..L : name[i] = title[i]
  BY <1>5, <1>6
<1> HIDE DEF L, M
<1>8. name[M] = FifoSuffix
  BY <1>7
<1>9. ASSUME NEW i \in 1..M - 1 PROVE name[i] # FifoSuffix
  <2>1. CASE title[L] = FifoSuffix
    <3>1. name = title /\ M = L
      BY <1>7, <2>1, Zenon
    <3>2. i \in 1..L /\ i # L
      BY <1>3, <3>1, BelowLast, Zenon
    <3> QED
      BY <1>3, <1>4, <3>1, <3>2
  <2>2. CASE title[L] # FifoSuffix
    <3>1. M = L + 1 /\ \A k \in 1..L : name[k] = title[k]
      BY <1>7, <2>2, Zenon
    <3>2. i \in 1..L
      BY <1>3, <3>1, BelowLast, Zenon
    <3> QED
      BY <1>3, <1>4, <2>2, <3>1, <3>2
  <2> QED
    BY <2>1, <2>2
<1> QED
  BY <1>8, <1>9 DEF M

\* What the specs of a resource of each type have to agree on, given that it is the
\* one of its emitter.
LEMMA InvSpecs == BackingInv /\ NamesAreNames => SpecsFitTogether
<1> SUFFICES ASSUME BackingInv, NamesAreNames, Complete, NEW n \in DOMAIN emitted
             PROVE  LET spec == emitted[n].spec
                        r == emitted[n].of
                    IN  CASE emitted[n].type = "dynamodb/table" ->
                                (\A i \in DOMAIN b.spec[r].indexes :
                                    ~Deferred(b.spec[r].indexes[i])) =>
                                /\ ToSet(spec.attributes)
                                        = ToSet(spec.keys) \cup
                                            UNION {ToSet(fields) : fields \in ToSet(spec.indexes)}
                                /\ IsInjective(spec.attributes)
                                /\ \A i \in DOMAIN spec.indexes :
                                        spec.indexThroughput[i] = spec.throughput
                                /\ spec.throughput # {} => spec.billingMode = "PROVISIONED"
                          [] emitted[n].type = "s3/bucket" ->
                                spec.encryption # Absent /\ spec.encryption.key =>
                                    spec.encryption.algorithm = "aws:kms"
                          [] emitted[n].type \in {"sqs/queue", "sns/topic"} ->
                                spec.fifo /\ spec.title # <<>> =>
                                    /\ spec.title[Len(spec.title)] = FifoSuffix
                                    /\ \A i \in 1..Len(spec.title) - 1 :
                                            spec.title[i] # FifoSuffix
                          [] OTHER -> TRUE
  BY DEF SpecsFitTogether
<1> DEFINE r == n[1]
           p == emitted[n]
<1>1. r \in DOMAIN b.kind /\ p.of = r
  BY EmittedIsOwn
<1>2. MadeFor(b, r, p)
  BY EmittedMadeFor
<1>3. IsBacked(b)
  BY BlueprintIsBacked DEF BackingInv, StoreInv
<1> HIDE DEF r
<1>4. ASSUME p.type = "dynamodb/table",
             \A i \in DOMAIN b.spec[r].indexes : ~Deferred(b.spec[r].indexes[i])
      PROVE  /\ ToSet(p.spec.attributes)
                    = ToSet(p.spec.keys) \cup
                        UNION {ToSet(fields) : fields \in ToSet(p.spec.indexes)}
             /\ IsInjective(p.spec.attributes)
             /\ \A i \in DOMAIN p.spec.indexes : p.spec.indexThroughput[i] = p.spec.throughput
             /\ p.spec.throughput # {} => p.spec.billingMode = "PROVISIONED"
  <2>1. b.kind[r] = "datastore" /\ p = Table(b, r)
    BY <1>2, <1>4 DEF MadeFor
  <2>2. /\ IsList(b.spec[r].keys) /\ IsList(b.spec[r].indexes)
        /\ \A i \in DOMAIN b.spec[r].indexes : IsList(b.spec[r].indexes[i])
    BY <1>1, <1>3, <2>1 DEF IsBacked
  <2>3. /\ "" \notin ToSet(b.spec[r].keys)
        /\ \A fields \in ToSet(b.spec[r].indexes) : "" \notin ToSet(fields)
    BY <1>1, <2>1 DEF NamesAreNames, OfBacking
  <2> HIDE DEF p
  <2> QED
    BY <1>4, <2>1, <2>2, <2>3, TableFits
<1>5. ASSUME p.type = "s3/bucket"
      PROVE  p.spec.encryption # Absent /\ p.spec.encryption.key =>
                p.spec.encryption.algorithm = "aws:kms"
  <2>1. p = Bucket(b, r)
    BY <1>2, <1>5 DEF MadeFor
  <2> HIDE DEF p
  <2> QED
    BY <2>1, BucketFits
<1>6. ASSUME p.type \in {"sqs/queue", "sns/topic"}, p.spec.fifo, p.spec.title # <<>>
      PROVE  /\ p.spec.title[Len(p.spec.title)] = FifoSuffix
             /\ \A i \in 1..Len(p.spec.title) - 1 : p.spec.title[i] # FifoSuffix
  <2>1. /\ b.kind[r] \in {"queue", "topic"}
        /\ p = Queue(b, r) \/ p = QueueOrTopic(b, r, "sns/topic")
    BY <1>2, <1>6 DEF MadeFor
  <2>2. /\ p.spec.fifo = b.spec[r].fifo
        /\ p.spec.title = PhysicalName(b.spec[r].title, b.spec[r].fifo)
    <3> HIDE DEF p
    <3>1. \A type : /\ QueueOrTopic(b, r, type).spec.fifo = b.spec[r].fifo
                    /\ QueueOrTopic(b, r, type).spec.title
                            = PhysicalName(b.spec[r].title, b.spec[r].fifo)
      BY DEF QueueOrTopic, WithOwnLabels, Concrete
    <3>2. /\ Queue(b, r).spec.fifo = QueueOrTopic(b, r, "sqs/queue").spec.fifo
          /\ Queue(b, r).spec.title = QueueOrTopic(b, r, "sqs/queue").spec.title
      <4> DEFINE made == QueueOrTopic(b, r, "sqs/queue")
      <4>1. "spec" \in DOMAIN made
        BY DEF QueueOrTopic, WithOwnLabels, Concrete
      <4> HIDE DEF made
      <4> QED
        BY <4>1 DEF Queue, QueueWith, made
    <3> QED
      BY <2>1, <3>1, <3>2
  <2>3. IsList(b.spec[r].title)
    BY <1>1, <1>3, <2>1 DEF IsBacked
  <2>4. \A i \in DOMAIN b.spec[r].title :
            b.spec[r].title[i] = FifoSuffix => i = Len(b.spec[r].title)
    BY <1>1, <2>1 DEF NamesAreNames, OfBacking
  <2>5. b.spec[r].fifo
    BY <1>6, <2>2
  <2> HIDE DEF p
  <2> DEFINE title == b.spec[r].title
             fifo == b.spec[r].fifo
             name == p.spec.title
  <2>6. name = PhysicalName(title, fifo) /\ name # <<>> /\ IsList(title) /\ fifo
    BY <1>6, <2>2, <2>3, <2>5
  <2>7. \A i \in DOMAIN title : title[i] = FifoSuffix => i = Len(title)
    BY <2>4
  <2> HIDE DEF title, fifo, name
  <2>8. /\ name[Len(name)] = FifoSuffix
        /\ \A i \in 1..Len(name) - 1 : name[i] # FifoSuffix
    BY <2>6, <2>7, NameFits
  <2> QED
    BY <2>8 DEF name
<1> HIDE DEF p
<1> QED
  BY <1>1, <1>4, <1>5, <1>6 DEF p

-----------------------------------------------------------------------------
(* The theorems: what BackingInv comes to in every run.                    *)

\* While the backings are emitted, the variables keep their types: what is emitted
\* bears the name of a backing that has had its turn.
THEOREM BackingsTypeCorrect == BackingsSpec => []BackingsTypeOK
BY BackingInvHolds, InvBackingsTyped, PTL

\* In a whole transform, too, the first entry of a key is the one the store keeps,
\* and the keys of a connection stay together.
THEOREM StoreIsPlannedWhole ==
    BackingsSpec => [](PartsUnclaimed => FirstEntryKept /\ ConnectionsAreWhole)
<1>1. BackingInv => (PartsUnclaimed => FirstEntryKept /\ ConnectionsAreWhole)
  BY InvFirstKept, InvWhole DEF BackingInv
<1> QED
  BY BackingInvHolds, <1>1, PTL

\* "a store entry pointing at a concrete resource or blueprint value this package
\* never produced resolves to nothing": none of the store's entries does, whatever
\* is placed, linked or authenticated how, unless an error says so.
THEOREM StoreEntriesAreBacked == BackingsSpec => []StoreEntriesResolve
BY BackingInvHolds, InvStoreEntries, PTL

\* No backing is emitted with a reference to what is not, unless an error was
\* reported about it or about the VPC it is placed in.
THEOREM ReferencesAreClosed == BackingsSpec => []BackingReferencesResolve
BY BackingInvHolds, InvReferences, PTL

\* Where no handler selects by a key the transformer keeps for itself, the function
\* of one that links to a database can log in to what it is told is its host.
THEOREM HandlersReachDatabases ==
    BackingsSpec => [](SelectedByAuthors => DatabaseHandlersCanLogIn)
<1>1. BackingInv => (SelectedByAuthors => DatabaseHandlersCanLogIn)
  BY InvDatabaseLogin
<1> QED
  BY BackingInvHolds, <1>1, PTL

\* Under the same condition it can log in to a cache.
THEOREM HandlersReachCaches ==
    BackingsSpec => [](SelectedByAuthors => CacheHandlersCanLogIn)
<1>1. BackingInv => (SelectedByAuthors => CacheHandlersCanLogIn)
  BY InvCacheLogin
<1> QED
  BY BackingInvHolds, <1>1, PTL

\* The maintenance runner of a database is in its VPC, links to its host and may
\* read every secret it is told of.
THEOREM RunnersReachDatabases == BackingsSpec => []RunnerReachesItsDatabase
BY BackingInvHolds, InvRunner, PTL

\* Where a managed VPC and its databases read one Aurora setting and nothing placed
\* in it is in error, every security group asked for is one the VPC mints, every one
\* it mints is asked for, and by one resource only.
THEOREM GroupsComeFromVpcs == BackingsSpec => []GroupsAreMinted
BY BackingInvHolds, InvGroups, PTL

\* Where no author uses an internal label for what it is not, and no two backings of
\* a kind have one logical name, a proxy selects the instance it fronts and a group
\* the secret of its cache, and neither selects another's.
THEOREM InternalLinksStayApart ==
    BackingsSpec => [](InternalLabelsUnclaimed => InternalLinksApart)
<1>1. BackingInv => (InternalLabelsUnclaimed => InternalLinksApart)
  BY InvInternalLinks
<1> QED
  BY BackingInvHolds, <1>1, PTL

\* A function finds the store of each of its configs that has a name of its own in
\* the variables, of the kind and under the service it is told, with every value in
\* it and no secret in the clear.
THEOREM ConfigsAreFound == BackingsSpec => []ConfigStoresAreFound
BY BackingInvHolds, InvConfigStores, PTL

\* A subscriber of a bucket gets the events it asked for, or is told which it does
\* not get and that the default takes their place.
THEOREM SubscribersGetTheirEvents == BackingsSpec => []SubscriptionsAreAskedFor
BY BackingInvHolds, InvSubscriptions, PTL

\* Where authors give names that are names, the parts of a spec that AWS holds against
\* each other fit: a table's attributes and keys, its capacity and billing, a bucket's
\* key and algorithm, and the name of what is FIFO.
THEOREM SpecsAreFit == BackingsSpec => [](NamesAreNames => SpecsFitTogether)
<1>1. BackingInv => (NamesAreNames => SpecsFitTogether)
  BY InvSpecs
<1> QED
  BY BackingInvHolds, <1>1, PTL

=============================================================================
