------------------------------ MODULE CacheEmit ------------------------------
(***************************************************************************)
(* What is emitted for a cache: a replication group, its subnet group when *)
(* it is placed in a VPC, and what authenticates its clients.              *)
(***************************************************************************)
EXTENDS BackingBlueprint

ReplicationGroupName(c) == <<c, "elasticache_rg">>
CacheSubnetGroupName(c) == <<c, "elasticache_subnet_group">>
AuthSecretName(c) == <<c, "cache_auth_secret">>
IamUserName(c) == <<c, "cache_iam_user">>
UserGroupName(c) == <<c, "cache_user_group">>
CacheHostKey(c) == <<c, "elasticache_rg", "host">>

CacheAuthLabel == "celerity.cache.auth"

\* A slip: an author's label of the same key is left in place.
AuthSecretKeepingLabels(b, c) ==
    [Concrete("secretsmanager/secret", c) EXCEPT
        !.labels = LabelsAnd(OneLabel(CacheAuthLabel, LogicalName(b, c)), OwnLabels(b, c))]

\* The cache's labels, for its handlers, and the one its group selects by.
AuthSecret(b, c) ==
    [Concrete("secretsmanager/secret", c) EXCEPT
        !.labels = LabelsWith(OwnLabels(b, c), CacheAuthLabel, LogicalName(b, c))]

IamUser(c) == Concrete("elasticache/user", c)
UserGroup(c) == [Concrete("elasticache/userGroup", c) EXCEPT !.refs = {IamUserName(c)}]

\* A slip: the password has to be asked for.
CacheAuthResourcesAsWritten(b, c) ==
    IF b.auth[c] = "password" THEN Entry(AuthSecretName(c), AuthSecret(b, c))
    ELSE Entry(IamUserName(c), IamUser(c)) ++ Entry(UserGroupName(c), UserGroup(c))

\* Unless it is iam there is a secret, the default too.
CacheAuthResources(b, c) ==
    IF AuthMode(b, c) # "iam" THEN Entry(AuthSecretName(c), AuthSecret(b, c))
    ELSE Entry(IamUserName(c), IamUser(c)) ++ Entry(UserGroupName(c), UserGroup(c))

CacheSelector(b, c) ==
    IF AuthMode(b, c) # "iam"
    THEN LabelsWith(b.selector[c], CacheAuthLabel, LogicalName(b, c))
    ELSE b.selector[c]

CacheSubnetGroup(b, c) ==
    [Concrete("elasticache/subnetGroup", c) EXCEPT !.refs = {VpcName(VpcOf(b, c))}]

\* Outside a VPC the group is emitted all the same, without placement.
ReplicationGroup(b, c) ==
    LET plain == Concrete("elasticache/replicationGroup", c)
        group == [WithOwnLabels(b, c, plain) EXCEPT
                    !.selector = CacheSelector(b, c),
                    !.refs = IF AuthMode(b, c) = "iam" THEN {UserGroupName(c)} ELSE {}]
    IN  IF PlacedIn(b, c) = {} THEN group
        ELSE [group EXCEPT
                !.refs = @ \cup {CacheSubnetGroupName(c)},
                !.groups = {<<VpcOf(b, c), SecurityGroup(c, "cache")>>}]

CacheResources(b, c) ==
    Entry(ReplicationGroupName(c), ReplicationGroup(b, c))
        ++ When(PlacedIn(b, c) # {},
                Entry(CacheSubnetGroupName(c), CacheSubnetGroup(b, c)))
        ++ CacheAuthResources(b, c)

PresetUnsuitableForCache(b, c) ==
    \E v \in PlacedIn(b, c) : VpcPreset(b, v) \in {"public", "light-public"}

\* What is wrong with the spec is reported before what is wrong with the VPC.
EmitCache(b, c) ==
    LET deferred == DeferredErrors(b, c, {"clusterMode", "authMode"})
    IN  CASE deferred # {} -> NothingEmitted(deferred)
          [] deferred = {} /\ PresetUnsuitableForCache(b, c) ->
                NothingEmitted({Error(c, "preset")})
          [] OTHER ->
                EmitResult(CacheResources(b, c),
                           Entry(CacheHostKey(c), ReplicationGroupName(c)),
                           IF PlacedIn(b, c) = {} THEN {Warning(c, "no VPC")} ELSE {})
=============================================================================
