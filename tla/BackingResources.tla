--------------------------- MODULE BackingResources ---------------------------
(***************************************************************************)
(* The backings of a transform, from the planned store to the resources it *)
(* speaks of: the store is planned from the handlers' links, then the      *)
(* backings and VPCs are emitted in the order of a Go map, none of them    *)
(* seeing what another emits.  Store, functions and resources agree only   *)
(* by deriving the same names; links are made later, by labels alone.      *)
(***************************************************************************)
EXTENDS ResourcesStore, SqlDatabaseEmit, CacheEmit, VpcEmit, MessagingEmit, StorageEmit

VARIABLES unemitted,    \* the backings not yet emitted
          emitted,      \* concrete name -> resource
          values,       \* derived value -> the resource it is of, if any
          diagnostics,
          aborted       \* whether an emitter ended the run

backingVars == <<unemitted, emitted, values, diagnostics, aborted>>
allVars == <<vars, backingVars>>

BackingsInit ==
    /\ Init
    /\ unemitted = DOMAIN b.kind
    /\ emitted = <<>>
    /\ values = <<>>
    /\ diagnostics = {}
    /\ aborted = FALSE

Emit(r, result) ==
    /\ phase = "done" /\ ~aborted /\ r \in unemitted
    /\ unemitted' = unemitted \ {r}
    /\ emitted' = emitted ++ result.resources
    /\ values' = values ++ result.values
    /\ diagnostics' = diagnostics \cup result.diagnostics
    /\ UNCHANGED <<vars, aborted>>

\* The emitter returns an error; the driver ends the run.
Abort(r) ==
    /\ phase = "done" /\ ~aborted /\ r \in unemitted
    /\ aborted' = TRUE
    /\ UNCHANGED <<vars, unemitted, emitted, values, diagnostics>>

EmitBacking(r) ==
    CASE b.kind[r] = "sqlDatabase" -> Emit(r, EmitSqlDatabase(b, r))
      [] b.kind[r] = "cache" -> Emit(r, EmitCache(b, r))
      [] b.kind[r] = "queue" -> Emit(r, EmitQueue(b, r))
      [] b.kind[r] = "topic" -> Emit(r, EmitTopic(b, r))
      [] b.kind[r] = "bucket" -> Emit(r, EmitBucket(b, r))
      [] b.kind[r] = "datastore" -> Emit(r, EmitDatastore(b, r))
      [] b.kind[r] = "config" ->
            IF NeedsAppName(b, r) THEN Abort(r) ELSE Emit(r, EmitConfig(b, r))
      [] b.kind[r] = "vpc" ->
            IF NeedsRegion(b, r) THEN Abort(r) ELSE Emit(r, EmitVpc(b, r))

BackingsStep ==
    \/ Step /\ UNCHANGED backingVars
    \/ \E r \in unemitted : EmitBacking(r)

Settled == phase = "done" /\ (unemitted = {} \/ aborted)
BackingsFinished == Settled /\ UNCHANGED allVars
BackingsNext == BackingsStep \/ BackingsFinished

\* One goroutine runs the transform.
BackingsSpec ==
    BackingsInit /\ [][BackingsNext]_allVars /\ WF_allVars(BackingsStep)

-----------------------------------------------------------------------------
(* What the emitted function of a handler links to and connects with.      *)

LinksOf(h, r) == r \in ToSet(b.links[h])
FunctionSelects(h, n) == Selects(b.selector[h], emitted[n].labels)

\* The resources a function is stamped to reach with IAM.
IamTargets(h) ==
    {AuthTargetForHandler(b, d) : d \in {x \in ToSet(b.links[h]) :
            b.kind[x] = "sqlDatabase" /\ AuthMode(b, x) = "iam"}}
        \cup {ReplicationGroupName(c) : c \in {x \in ToSet(b.links[h]) :
            b.kind[x] = "cache" /\ b.auth[x] = "iam"}}

\* The resource or value the store's entry under a key of r refers to; the entries
\* of a connection that are not named here are literal.
EntryRefs(r, key) ==
    LET suffix == key[Len(key)]
    IN  CASE b.kind[r] = "queue" -> {QueueName(r)}
          [] b.kind[r] = "topic" -> {TopicName(r)}
          [] b.kind[r] = "bucket" -> {BucketName(r)}
          [] b.kind[r] = "datastore" -> {TableName(r)}
          [] b.kind[r] = "sqlDatabase" /\ suffix = "host" -> {HostKey(r)}
          [] b.kind[r] = "sqlDatabase" /\ suffix = "database" -> {DatabaseNameKey(r)}
          [] b.kind[r] = "sqlDatabase" /\ suffix = "readHost" -> {ReadHostKey(r)}
          [] b.kind[r] = "sqlDatabase" /\ suffix = "credentialsSecretId" ->
                {AppUserSecretName(r)}
          [] b.kind[r] = "cache" /\ suffix = "host" -> {CacheHostKey(r)}
          [] b.kind[r] = "cache" /\ suffix = "authTokenSecretId" -> {AuthSecretName(r)}
          [] b.kind[r] = "cache" /\ suffix = "user" -> {IamUserName(r)}
          [] OTHER -> {}

-----------------------------------------------------------------------------
(* Properties.                                                             *)

\* Type invariant: what is emitted is emitted under the name of its backing, and
\* what is not yet emitted has left no trace.
BackingsTypeOK ==
    /\ TypeOK
    /\ unemitted \subseteq DOMAIN b.kind
    /\ \A n \in DOMAIN emitted :
            emitted[n].of = n[1] /\ n[1] \in DOMAIN b.kind \ unemitted
    /\ \A k \in DOMAIN values : k[1] \in DOMAIN b.kind \ unemitted
    /\ \A x \in diagnostics : x.about \in DOMAIN b.kind \ unemitted
    /\ aborted => unemitted # {}

Complete == Settled /\ ~aborted
Reported(r) == \E x \in diagnostics : x.level = "error" /\ x.about = r
Refused(r) == Reported(r) \/ \E v \in PlacedIn(b, r) : Reported(v)

\* "a store entry pointing at a concrete resource or blueprint value this package
\* never produced resolves to nothing, and the handler fails at cold start": every
\* entry of the store refers to what the emitter of its backing made, or the
\* transform has reported an error about the backing.
StoreEntriesResolve ==
    Complete =>
        \A key \in DOMAIN entries : ~Reported(entries[key]) =>
            EntryRefs(entries[key], key) \subseteq DOMAIN emitted \cup DOMAIN values

\* Every resource, value and secret an emitted resource refers to exists, unless
\* an error was reported about its backing or about the VPC that is placed in; a
\* master secret exists where RDS manages the password.
BackingReferencesResolve ==
    Complete =>
        \A n \in DOMAIN emitted : ~Refused(emitted[n].of) =>
            /\ emitted[n].refs \subseteq DOMAIN emitted \cup DOMAIN values
            /\ \A x \in emitted[n].secrets :
                    /\ x[1] \in DOMAIN emitted
                    /\ x[2] = "masterUserSecret" => emitted[x[1]].master

\* What the application is told of a database is enough to log in: its function
\* links to the resource the host is of; with a password, it links to the secret
\* the store names, with which a proxy is registered and which its role can read;
\* with IAM, it may connect to that resource and no secret is handed out.
DatabaseHandlersCanLogIn ==
    Complete =>
        \A h \in Handlers : \A d \in OfBacking(b, "sqlDatabase") :
            LinksOf(h, d) /\ ~Refused(d) =>
                LET host == values[HostKey(d)]
                    secret == AppUserSecretName(d)
                IN  /\ host \in DOMAIN emitted /\ FunctionSelects(h, host)
                    /\ IF AuthMode(b, d) = "iam"
                       THEN host \in IamTargets(h) /\ secret \notin DOMAIN emitted
                       ELSE /\ FunctionSelects(h, secret)
                            /\ emitted[host].type = "rds/dbProxy" =>
                                /\ AppUserSecret(d) \in emitted[host].secrets
                                /\ emitted[host].secrets
                                    \subseteq emitted[ProxyRoleName(d)].secrets

\* So is what it is told of a cache: with a password, function and group link to
\* one secret, whatever labels the author wrote; with IAM, the function may connect
\* and the group has the user the store names.
CacheHandlersCanLogIn ==
    Complete =>
        \A h \in Handlers : \A c \in OfBacking(b, "cache") :
            LinksOf(h, c) /\ ~Refused(c) =>
                LET group == ReplicationGroupName(c)
                    secret == AuthSecretName(c)
                IN  /\ FunctionSelects(h, group)
                    /\ IF AuthMode(b, c) = "iam"
                       THEN /\ group \in IamTargets(h)
                            /\ \E u \in emitted[group].refs :
                                    IamUserName(c) \in emitted[u].refs
                       ELSE /\ FunctionSelects(h, secret)
                            /\ Selects(emitted[group].selector, emitted[secret].labels)

\* The runner gets to the database it maintains: it is placed in the database's
\* VPC, it links to the resource its host is of, and its role reads every secret
\* its environment names.
RunnerReachesItsDatabase ==
    Complete =>
        \A d \in OfBacking(b, "sqlDatabase") : ~Refused(d) =>
            LET runner == emitted[RunnerName(d)]
            IN  /\ Selects(emitted[VpcName(VpcOf(b, d))].selector, runner.labels)
                /\ Selects(runner.selector, emitted[values[HostKey(d)]].labels)
                /\ runner.secrets \subseteq emitted[RunnerRoleName(d)].secrets

Segment(c) == b.segment[StoreName(b, c)]
ConfigsOf(h) == {c \in ToSet(b.links[h]) : b.kind[c] = "config"}

\* A function finds its config stores: where no two of a handler's have one name
\* left in variables, each variable pair speaks of an emitted store of the kind it
\* says, which the function links to under the service that annotates the link, and
\* which holds every value of the config, in the clear only what may be.
ConfigStoresAreFound ==
    Complete =>
        \A h \in Handlers : \A c \in ConfigsOf(h) :
            ~Reported(c) /\ (\A d \in ConfigsOf(h) \ {c} : Segment(d) # Segment(c)) =>
                LET wired == ConfigVariables(b, h)[Segment(c)]
                    kept == emitted[wired.concrete]
                IN  /\ wired.id \in DOMAIN emitted \cup DOMAIN values
                    /\ wired.concrete \in DOMAIN emitted
                    /\ <<kept.type, wired.service>> =
                            IF wired.kind = "secrets-manager"
                            THEN <<"secretsmanager/secret", "secretsmanager">>
                            ELSE <<"ssm/parameterTree", "ssm">>
                    /\ FunctionSelects(h, wired.concrete)
                    /\ kept.spec.path[2] = wired.namespace
                    /\ kept.spec.values \cup kept.spec.secure = b.spec[c].values
                    /\ kept.spec.values \subseteq b.spec[c].plaintext

\* A subscriber of a bucket gets the events it asked for: each is among those S3
\* notifies of or is warned about, and where S3's default takes their place, which
\* the author did not ask for, that is warned about too.
SubscriptionsAreAskedFor ==
    Complete =>
        \A r \in OfBacking(b, "queue") \cup OfBacking(b, "topic") :
            LET asked == ToSet(b.spec[r].events)
                stamped == emitted[IF b.kind[r] = "queue" THEN QueueName(r)
                                   ELSE TopicName(r)].spec.events
                notified == IF DOMAIN stamped = {} THEN {S3Event("created")}
                            ELSE Range(stamped)
                warned(what) == Warning(r, what) \in diagnostics
            IN  ~Reported(r) /\ asked # {} =>
                    /\ \A e \in asked : warned(<<"unsupported", e>>)
                            \/ (HasS3Event(e) /\ S3Event(e) \in notified)
                    /\ \A e \in {"created", "deleted"} : S3Event(e) \in notified =>
                            e \in asked \/ warned(<<"default events">>)

Deferred(fields) == \E i \in DOMAIN fields : fields[i] = Absent

\* What AWS requires of parts that are emitted apart: a table declares exactly the
\* attributes that are keys, of itself or of an index, and each once; its indexes
\* have the capacity it has, and only under PROVISIONED; a customer's key comes with
\* KMS; a FIFO queue or topic that has a name has one that ends so.
SpecsFitTogether ==
    Complete =>
        \A n \in DOMAIN emitted :
            LET spec == emitted[n].spec
                r == emitted[n].of
            IN  CASE emitted[n].type = "dynamodb/table" ->
                        (\A i \in DOMAIN b.spec[r].indexes :
                            ~Deferred(b.spec[r].indexes[i])) =>
                        /\ ToSet(spec.attributes)
                                = ToSet(spec.keys) \cup
                                    UNION {ToSet(fields) : fields \in ToSet(spec.indexes)}
                        /\ IsInjective(spec.attributes)
                        /\ \A i \in DOMAIN spec.indexes :
                                spec.indexThroughput[i] = spec.throughput
                        /\ spec.throughput # {} => spec.billingMode = "PROVISIONED"
                  [] emitted[n].type = "s3/bucket" ->
                        spec.encryption # Absent /\ spec.encryption.key =>
                            spec.encryption.algorithm = "aws:kms"
                  [] emitted[n].type \in {"sqs/queue", "sns/topic"} ->
                        spec.fifo /\ spec.title # <<>> =>
                            /\ spec.title[Len(spec.title)] = FifoSuffix
                            /\ \A i \in 1..Len(spec.title) - 1 : spec.title[i] # FifoSuffix
                  [] OTHER -> TRUE

Group(n, v) == {g \in emitted[n].groups : g[1] = v}

\* "Every name referenced has to be one the VPC actually minted": where a managed
\* VPC and its databases read one Aurora setting, no group is missing, none is left
\* over and none is shared.
GroupsAreMinted ==
    Complete =>
        \A v \in OfBacking(b, "vpc") :
            LET members == {n \in DOMAIN emitted \ {VpcName(v)} : Group(n, v) # {}}
            IN  /\ ~Reported(v) /\ b.preset[v] # "referenced"
                /\ \A d \in Members(b, v, "sqlDatabase") :
                        AuroraEnabled(b, d) = ~NeedsProxyGroup(b, d)
                /\ \A r \in DOMAIN b.kind : v \in PlacedIn(b, r) => ~Reported(r)
                => \A g \in (UNION {Group(n, v) : n \in members}) \cup
                                emitted[VpcName(v)].groups :
                        /\ g \in emitted[VpcName(v)].groups
                        /\ Cardinality({n \in members : g \in emitted[n].groups}) = 1

\* Internal labels keep to their own: where no two backings of a kind have one
\* logical name, a proxy selects the instance it fronts and a replication group
\* the secret of its cache, and neither selects another's.
InternalLinksApart ==
    Complete /\ (\A r, s \in DOMAIN b.kind : b.kind[r] = b.kind[s] /\ r # s
                        => LogicalName(b, r) # LogicalName(b, s))
    => \A n \in DOMAIN emitted, m \in DOMAIN emitted :
            LET p == emitted[n]
                q == emitted[m]
            IN  /\ p.type = "rds/dbProxy" =>
                    (Selects(p.selector, q.labels) <=> m = InstanceName(p.of))
                /\ p.type = "elasticache/replicationGroup" /\ q.type = "secretsmanager/secret"
                        /\ AuthMode(b, p.of) # "iam"
                    => (Selects(p.selector, q.labels) <=> m = AuthSecretName(p.of))

-----------------------------------------------------------------------------
(* Promises of the comments that do not hold.                              *)

\* "it selects the database's concrete resources on a dedicated internal label so
\* it links to those and nothing else": the runner links to one resource, the one
\* its host is of.
RunnerLinksOnlyItsTarget ==
    Complete =>
        \A d \in OfBacking(b, "sqlDatabase") : ~Refused(d) =>
            {n \in DOMAIN emitted :
                Selects(emitted[RunnerName(d)].selector, emitted[n].labels)}
                = {values[HostKey(d)]}

\* "Both sides derive the name from here so they cannot drift": every group an
\* emitted resource is in is one that its VPC mints.
EveryGroupIsMinted ==
    Complete =>
        \A n \in DOMAIN emitted : ~Refused(emitted[n].of) =>
            \A g \in emitted[n].groups : g \in emitted[VpcName(g[1])].groups
=============================================================================
