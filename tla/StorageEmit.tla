------------------------------ MODULE StorageEmit ------------------------------
(***************************************************************************)
(* What is emitted for a bucket, a datastore and a config, and how the     *)
(* function of a handler is wired to its config stores.                    *)
(*                                                                         *)
(* The spec of each in a blueprint is a record:                            *)
(*   bucket     encryption: its key, if it has one, and algorithm, which   *)
(*              may be Absent, or Absent itself; unmapped: the             *)
(*              configurations given that are not mapped                   *)
(*   datastore  keys: its partition and sort key; indexes: the fields of   *)
(*              each, Absent for a reference; ttl: its field or Absent     *)
(*   config     replicate; values: its keys; plaintext: those to be kept   *)
(*              in the clear; key: whether an encryption key is given      *)
(* Besides, a blueprint b has                                              *)
(*   billing    deploy configuration: name -> billing mode                 *)
(*   capacity   deploy configuration: name -> the capacity units given     *)
(*   segment    store name -> what is left of it in an environment         *)
(*              variable's name                                            *)
(***************************************************************************)
EXTENDS BackingBlueprint, SequencesExt

BucketName(r) == <<r, "s3_bucket">>
TableName(d) == <<d, "dynamodb_table">>

-----------------------------------------------------------------------------
(* Buckets.                                                                *)

\* Nothing is emitted for a bucket that says nothing.  A customer's key only applies
\* under KMS, whatever the algorithm asked for.
Encryption(asked) ==
    CASE asked = Absent -> Absent
      [] asked # Absent /\ asked.key -> [algorithm |-> "aws:kms", key |-> TRUE]
      [] asked # Absent /\ ~asked.key /\ asked.algorithm = Absent ->
            [algorithm |-> "AES256", key |-> FALSE]
      [] OTHER -> [algorithm |-> asked.algorithm, key |-> FALSE]

Bucket(b, r) ==
    [WithOwnLabels(b, r, Concrete("s3/bucket", r)) EXCEPT
        !.selector = b.selector[r],
        !.spec = [encryption |-> Encryption(b.spec[r].encryption)]]

EmitBucket(b, r) ==
    EmitResult(Entry(BucketName(r), Bucket(b, r)), <<>>,
               {Warning(r, f) : f \in b.spec[r].unmapped})

-----------------------------------------------------------------------------
(* Datastores.                                                             *)

\* A reference reads as the empty string.
FieldName(field) == IF field = Absent THEN "" ELSE field

\* An index of no field or of more than two is left out; the others keep their places.
HasIndexKeys(fields) == Len(fields) \in 1..2
Indexes(spec) ==
    [n \in {i \in DOMAIN spec.indexes : HasIndexKeys(spec.indexes[i])} |->
        [j \in DOMAIN spec.indexes[n] |-> FieldName(spec.indexes[n][j])]]

\* Where a name is a key: <<0, i>> in the table, <<n, i>> in its nth index.
KeyPlaces(keys, indexes) ==
    {<<0, i>> : i \in DOMAIN keys}
        \cup UNION {{<<n, i>> : i \in DOMAIN indexes[n]} : n \in DOMAIN indexes}
KeyAt(keys, indexes, at) == IF at[1] = 0 THEN keys[at[2]] ELSE indexes[at[1]][at[2]]
NamedPlaces(keys, indexes) ==
    {at \in KeyPlaces(keys, indexes) : KeyAt(keys, indexes, at) # ""}
ComesFirst(at, other) == at[1] < other[1] \/ (at[1] = other[1] /\ at[2] < other[2])

\* A slip: an attribute is declared each time it is a key.
DeclaredEachTime(keys, indexes) ==
    [at \in NamedPlaces(keys, indexes) |-> KeyAt(keys, indexes, at)]

\* Each name once, where it is first seen, and never the empty one.
Declared(keys, indexes) ==
    [at \in {p \in NamedPlaces(keys, indexes) : \A q \in NamedPlaces(keys, indexes) :
                ComesFirst(q, p) => KeyAt(keys, indexes, q) # KeyAt(keys, indexes, p)}
        |-> KeyAt(keys, indexes, at)]

BillingMode(b, d) == DeployConfig(b.billing, LogicalName(b, d), "PAY_PER_REQUEST")

\* Capacity applies under PROVISIONED alone; the indexes take over the table's.
Throughput(b, d) ==
    IF BillingMode(b, d) = "PROVISIONED"
    THEN DeployConfig(b.capacity, LogicalName(b, d), {}) ELSE {}

Table(b, d) ==
    LET indexes == Indexes(b.spec[d])
    IN  [WithOwnLabels(b, d, Concrete("dynamodb/table", d)) EXCEPT
            !.selector = b.selector[d],
            !.spec = [keys |-> b.spec[d].keys,
                      indexes |-> indexes,
                      attributes |-> Declared(b.spec[d].keys, indexes),
                      timeToLive |-> FieldName(b.spec[d].ttl),
                      stream |-> d \in b.consumed,
                      billingMode |-> BillingMode(b, d),
                      throughput |-> Throughput(b, d),
                      indexThroughput |-> [i \in DOMAIN indexes |-> Throughput(b, d)]]]

EmitDatastore(b, d) ==
    LET deferred == DeferredErrors(b, d, {"partitionKey", "sortKey"})
        skipped == {i \in DOMAIN b.spec[d].indexes : ~HasIndexKeys(b.spec[d].indexes[i])}
    IN  IF deferred # {} THEN NothingEmitted(deferred)
        ELSE EmitResult(Entry(TableName(d), Table(b, d)), <<>>,
                        {Error(d, <<"index", i>>) : i \in skipped})

-----------------------------------------------------------------------------
(* Configs.                                                                *)

ConfigSecretName(c) == <<c, "config_secret">>
ParameterTreeName(c) == <<c, "config_param_tree">>
ConfigIdKey(c) == <<c, "config_id">>

StoreName(b, c) == LogicalName(b, c)
StorePath(b, c) == <<"celerity", StoreName(b, c)>>

\* With nothing in the clear the store is one secret.
KeptAsSecret(b, c) == b.spec[c].plaintext = {}

HandlersOfConfig(b, c) ==
    {h \in DOMAIN b.links : Selects(b.selector[h], OwnLabels(b, c))}

\* A slip: the labels one handler's link was made on.
HandlerSelectorLabelsOfOne(b, c) ==
    IF HandlersOfConfig(b, c) = {} THEN NoLabels
    ELSE MatchedLabels(b.selector[CHOOSE h \in HandlersOfConfig(b, c) : TRUE],
                       OwnLabels(b, c))

\* The labels the handlers' links were made on, and no others.
HandlerSelectorLabels(b, c) ==
    [key \in UNION {DOMAIN MatchedLabels(b.selector[h], OwnLabels(b, c)) :
                        h \in HandlersOfConfig(b, c)} |-> OwnLabels(b, c)[key]]

ConfigSecret(b, c) ==
    [Concrete("secretsmanager/secret", c) EXCEPT
        !.labels = HandlerSelectorLabels(b, c),
        !.spec = [path |-> StorePath(b, c), values |-> {}, secure |-> b.spec[c].values,
                  key |-> b.spec[c].key]]

\* The key encrypts the secure values, of which there may be none.
ParameterTree(b, c) ==
    LET secure == b.spec[c].values \ b.spec[c].plaintext
    IN  [Concrete("ssm/parameterTree", c) EXCEPT
            !.labels = HandlerSelectorLabels(b, c),
            !.spec = [path |-> StorePath(b, c),
                      values |-> b.spec[c].values \cap b.spec[c].plaintext,
                      secure |-> secure,
                      key |-> b.spec[c].key /\ secure # {}]]

\* The path needs the application's name; without one the run ends.
NeedsAppName(b, c) == ~b.spec[c].replicate /\ ~b.appName /\ ~b.validation

\* The derived id of a secret is the secret's, that of a tree its path.
EmitConfig(b, c) ==
    CASE b.spec[c].replicate -> NothingEmitted({Error(c, "replicate")})
      [] ~b.spec[c].replicate /\ KeptAsSecret(b, c) ->
            EmitResult(Entry(ConfigSecretName(c), ConfigSecret(b, c)),
                       Entry(ConfigIdKey(c), ConfigSecretName(c)), {})
      [] OTHER ->
            EmitResult(Entry(ParameterTreeName(c), ParameterTree(b, c)),
                       Entry(ConfigIdKey(c), Absent), {})

-----------------------------------------------------------------------------
(* A handler's function and its config stores, from the config's abstract  *)
(* resource alone.                                                         *)

\* id is the resource or derived value the function's variable refers to.
StoreWiring(b, c) ==
    IF KeptAsSecret(b, c)
    THEN [kind |-> "secrets-manager", service |-> "secretsmanager",
          concrete |-> ConfigSecretName(c), id |-> ConfigSecretName(c),
          namespace |-> StoreName(b, c)]
    ELSE [kind |-> "parameter-store", service |-> "ssm",
          concrete |-> ParameterTreeName(c), id |-> ConfigIdKey(c),
          namespace |-> StoreName(b, c)]

ConfigLinks(b, h) == {i \in DOMAIN b.links[h] : b.kind[b.links[h][i]] = "config"}

\* Variables by segment: of two stores with one segment the later is left, and
\* the store of the backings is under "RESOURCES".
ConfigVariables(b, h) ==
    LET segment(i) == b.segment[StoreName(b, b.links[h][i])]
    IN  [s \in {segment(i) : i \in ConfigLinks(b, h)} |->
            LET last == Max({i \in ConfigLinks(b, h) : segment(i) = s})
            IN  StoreWiring(b, b.links[h][last])]
=============================================================================
