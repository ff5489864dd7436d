----------------------------- MODULE HandlerEmit -----------------------------
(***************************************************************************)
(* What the transformer computes from its handlers: role plans, the        *)
(* concrete resources the emitter returns, the shared parents, what each   *)
(* handler contributes to them, and the diagnostics it reports.  Every     *)
(* concrete resource is a record with its type, the concrete names its     *)
(* spec references (refs) and the abstract resource its annotations        *)
(* attribute it to (source).                                               *)
(***************************************************************************)
EXTENDS CelerityBlueprint

CONSTANTS
    Fingerprint(_),     \* the role-sharing key of a role plan
    ReferenceSafe(_)    \* a content hash in the alphabet of references

\* Concrete resource names: the fixed part, which no two of the code's helpers
\* share, and what it is joined to.
FuncName(h) == <<"lambda_func", h>>
RoleName(plan) == <<"celerityLambdaExec", Fingerprint(plan)>>
LayerName(hash) == <<"celerityLambdaLayer", ReferenceSafe(hash)>>
RuleName(s) == <<"events_rule", s>>
ESMName(c, key) == <<"esm", c \o "_" \o key>>   \* one string: parts can shift
TopicQueueName(c) == <<"topic_queue", c>>
SubscriptionName(c) == <<"sns_subscription", c>>
TopicDLQName(c) == <<"topic_dlq", c>>
StoreName == <<"celerityResourcesConfigStore">>
PrimaryName(r) == <<"primary", r>>

Error(r) == [level |-> "error", about |-> r]
Warning(r) == [level |-> "warning", about |-> r]

-----------------------------------------------------------------------------
(* The role plan and its sharing key.                                      *)

\* A slip: the cache is left out, so its handlers get no store namespace.
HasResourceLinksWithoutCaches(b, h) ==
    LinkedTo(b, h, {"queue", "topic", "datastore", "bucket", "sqlDatabase"}) # {}

\* Whether the handler reads the internal resources store at runtime.
HasResourceLinks(b, h) ==
    LinkedTo(b, h, {"queue", "topic", "datastore", "bucket", "cache",
                    "sqlDatabase"}) # {}

\* What the handler puts into that store: one group of keys per backing.
StoreEntries(b, h) ==
    LinkedTo(b, h, {"queue", "topic", "datastore", "bucket"})
        \cup LinkedTo(b, h, {"cache"})
        \cup LinkedTo(b, h, {"sqlDatabase"})

\* A slip: config links are not part of what a role is shared on.
RolePlanWithoutConfigs(b, h) ==
    [links |-> (Backings(b, h) \ Configs(b, h)) \cup Consumers(b, h)
                  \cup Schedules(b, h) \cup Apis(b, h),
     tracing |-> h \in b.tracing,
     vpc |-> b.placement[h],
     externalSources |-> ExternalSources(b, h),
     readsStore |-> HasResourceLinks(b, h)]

RolePlan(b, h) ==
    [links |-> Backings(b, h) \cup Consumers(b, h) \cup Schedules(b, h)
                  \cup Apis(b, h),
     tracing |-> h \in b.tracing,
     vpc |-> b.placement[h],
     externalSources |-> ExternalSources(b, h),
     readsStore |-> HasResourceLinks(b, h)]

RoleOf(b, h) == RoleName(RolePlan(b, h))

\* A fingerprint stands for its plan: see the README on the 32 bits it keeps.
ASSUME FingerprintInjective ==
    \A b \in Blueprint : \A g, h \in Handlers(b) :
        Fingerprint(RolePlan(b, g)) = Fingerprint(RolePlan(b, h))
            => RolePlan(b, g) = RolePlan(b, h)

\* Hashes of one form ("sha256:<hex>") are still apart when folded.
ASSUME HashesStayApart ==
    \A b \in Blueprint : \A g, h \in {f \in Handlers(b) : b.layer[f] # NoLayer} :
        LayerName(b.layer[g]) = LayerName(b.layer[h]) => b.layer[g] = b.layer[h]

-----------------------------------------------------------------------------
(* The function and the triggers around it. m is the state the run's       *)
(* manifest is in: "none", "failed", "noLambda" or "lambda".               *)

HasCode(b, m) == ~b.validation /\ m = "lambda"

\* A slip: a layer is referenced whether or not a manifest was loaded.
WiredLayersWithoutManifest(b, h, m) ==
    {l \in {b.layer[h]} : l # NoLayer /\ ~b.validation}

WiredLayers(b, h, m) ==
    {l \in {b.layer[h]} : l # NoLayer /\ HasCode(b, m)}

LambdaFunction(b, h, m) ==
    [type |-> "function",
     source |-> h,
     refs |-> {RoleOf(b, h)}
                 \cup {PrimaryName(x) : x \in Configs(b, h)}
                 \cup {LayerName(l) : l \in WiredLayers(b, h, m)},
     runtime |-> b.runtime[h],
     code |-> IF HasCode(b, m) THEN "built" ELSE "placeholder",
     \* links the provider resolves on the function, by selector or label
     links |-> Backings(b, h) \cup Consumers(b, h) \cup Apis(b, h),
     pollLabels |-> TopicConsumers(b, h),
     tracing |-> h \in b.tracing,
     vpc |-> b.placement[h],
     storeEnv |-> HasResourceLinks(b, h)]

ScheduleRule(h, s) ==
    [type |-> "rule", source |-> s, refs |-> {FuncName(h)}]

EventSourceMapping(h, c) ==
    [type |-> "esm", source |-> c, refs |-> {FuncName(h)}]

ScheduleRules(b, h) ==
    [n \in {RuleName(s) : s \in Schedules(b, h) \ b.noExpression}
        |-> ScheduleRule(h, n[2])]

\* The bindings write their mappings into one map in the order of the edges:
\* of two mappings with one name, either can be the one that is left.
ExternalMappings(b, h) ==
    LET sources == ExternalSources(b, h)
        names == {ESMName(x[1], x[2]) : x \in sources}
    IN  {f \in [names -> {EventSourceMapping(h, x[1]) : x \in sources}] :
            \A n \in names : \E x \in sources :
                n = ESMName(x[1], x[2]) /\ f[n] = EventSourceMapping(h, x[1])}

\* g's entries over f's, as maps.Copy(f, g) leaves them.
Overlay(f, g) ==
    [x \in DOMAIN f \cup DOMAIN g |-> IF x \in DOMAIN g THEN g[x] ELSE f[x]]

EmitsFunction(b, h) == b.runtime[h] \in SupportedRuntime

\* A slip: the handler emits its consumers' fan-out queues itself.
HandlerResourcesWithFanout(b, h, m) ==
    IF EmitsFunction(b, h)
    THEN {Overlay([n \in {TopicQueueName(c) : c \in TopicConsumers(b, h)} |->
                     [type |-> "queue", source |-> h, refs |-> {}]],
                  [n \in {FuncName(h)} |-> LambdaFunction(b, h, m)])}
    ELSE {[n \in {} |-> n]}

\* Every map the handler's emitter may return.
HandlerResources(b, h, m) ==
    IF EmitsFunction(b, h)
    THEN {Overlay(Overlay([n \in {FuncName(h)} |-> LambdaFunction(b, h, m)],
                          ScheduleRules(b, h)),
                  mappings) : mappings \in ExternalMappings(b, h)}
    ELSE {[n \in {} |-> n]}

\* The concrete topic ARN, a reference when the topic is in the blueprint.
TopicArn(b, c) ==
    IF b.topic[c] = Outside THEN {} ELSE {PrimaryName(b.topic[c])}

\* A slip: the topic of a subscription is contributed by nobody.
NoHandlerContributions(b, h) == [n \in {} |-> {}]

\* One topicArn for the subscription of each topic consumer it absorbs.
HandlerContributions(b, h) ==
    IF EmitsFunction(b, h)
    THEN [n \in {SubscriptionName(c) : c \in TopicConsumers(b, h)}
            |-> TopicArn(b, n[2])]
    ELSE [n \in {} |-> n]

\* A slip: a runtime without a counterpart is passed over in silence.
HandlerDiagnosticsOfEmitted(b, h, m) ==
    IF ~EmitsFunction(b, h)
    THEN {}
    ELSE {Error(s) : s \in Schedules(b, h) \cap b.noExpression}

HandlerDiagnostics(b, h, m) ==
    IF ~EmitsFunction(b, h)
    THEN {Error(h)}
    ELSE {Error(s) : s \in Schedules(b, h) \cap b.noExpression}
           \cup {Warning(c) : c \in {d \in Consumers(b, h) :
                    \/ SourceKind(b, d) = "unknown"
                    \/ SourceKind(b, d) = "external" /\ d \in b.objectStores}}
           \cup {d \in {Warning(h)} : ~b.validation /\ m # "lambda"}

-----------------------------------------------------------------------------
(* The other primaries: one concrete resource stands for what each emits.  *)

PrimaryResources(b, r) ==
    IF r \in b.refused
    THEN [n \in {} |-> n]
    ELSE [n \in {PrimaryName(r)} |->
            [type |-> b.kind[r], source |-> r, refs |-> {}]]

PrimaryDiagnostics(b, r) == {Error(x) : x \in {r} \cap b.refused}

-----------------------------------------------------------------------------
(* The shared parents of the primaries, in the order the loops meet them.  *)

HandlersIn(b, order) == {h \in Handlers(b) : \E i \in DOMAIN order : order[i] = h}

\* The member of hs that comes first in order.
First(order, hs) ==
    order[CHOOSE i \in DOMAIN order :
            order[i] \in hs /\ \A j \in 1..(i - 1) : order[j] \notin hs]

\* A slip: only the handler that made the role is recorded as using it.
FirstSharerOnly(b, hs, role) ==
    {CHOOSE h \in hs : RoleOf(b, h) = role}

\* One role per fingerprint, with the plan of the first handler that has it.
SharersOf(b, hs, role) == {h \in hs : RoleOf(b, h) = role}

Role(b, sharers, first) ==
    LET plan == RolePlan(b, first)
    IN  [type |-> "role",
         source |-> first,
         refs |-> {},
         sharedBy |-> sharers,
         tracing |-> plan.tracing,
         readsStore |-> plan.readsStore,
         externalSources |-> plan.externalSources]

RoleParents(b, order) ==
    LET hs == HandlersIn(b, order)
    IN  [n \in {RoleOf(b, h) : h \in hs} |->
            Role(b, SharersOf(b, hs, n), First(order, SharersOf(b, hs, n)))]

\* One layer per content hash, compatible with the runtimes of its handlers;
\* the name tells the hash (HashesStayApart).
UsersOf(b, hs, name) == {h \in hs : LayerName(b.layer[h]) = name}

\* A slip: only the first handler's runtime is recorded.
LayerOfFirst(b, users, first) ==
    [type |-> "layer", source |-> first, refs |-> {},
     runtimes |-> {b.runtime[first]} \cap SupportedRuntime]

Layer(b, users, first) ==
    [type |-> "layer",
     source |-> first,
     refs |-> {},
     runtimes |-> {b.runtime[h] : h \in users} \cap SupportedRuntime]

LayerParents(b, order, m) ==
    LET hs == {h \in HandlersIn(b, order) :
                    b.layer[h] # NoLayer /\ m \in {"noLambda", "lambda"}}
    IN  [n \in {LayerName(b.layer[h]) : h \in hs} |->
            Layer(b, UsersOf(b, hs, n), First(order, UsersOf(b, hs, n)))]

\* Only the first binding of a consumer is used: they all describe the same
\* consumer, so which handler it came through does not show in the fan-out.
FanoutQueue(c) == [type |-> "queue", source |-> c, refs |-> {}]
Subscription(c) ==
    [type |-> "subscription", source |-> c, refs |-> {TopicQueueName(c)},
     topicArn |-> FALSE]

FanoutParents(b, order) ==
    LET absorbed == UNION {TopicConsumers(b, h) : h \in HandlersIn(b, order)}
    IN  Overlay(Overlay(
            [n \in {TopicQueueName(c) : c \in absorbed} |-> FanoutQueue(n[2])],
            [n \in {SubscriptionName(c) : c \in absorbed} |-> Subscription(n[2])]),
            [n \in {TopicDLQName(c) : c \in absorbed \ b.noDeadLetter} |->
                FanoutQueue(n[2])])

Store(entries) ==
    [type |-> "store", source |-> "celerityResourcesConfigStore",
     refs |-> {PrimaryName(e) : e \in entries}]

StoreParent(b, order) ==
    LET entries == UNION {StoreEntries(b, h) : h \in HandlersIn(b, order)}
    IN  [n \in {x \in {StoreName} : entries # {}} |-> Store(entries)]

SharedParents(b, order, m) ==
    Overlay(Overlay(Overlay(RoleParents(b, order), LayerParents(b, order, m)),
                    FanoutParents(b, order)),
            StoreParent(b, order))

\* MergeMappingNodes: the seed with every handler's contribution laid on it.
Conflicting(values) == Cardinality(values) > 1
Merged(seed, values) ==
    IF values = {}
    THEN seed
    ELSE [seed EXCEPT !.refs = @ \cup UNION values, !.topicArn = TRUE]
=============================================================================
