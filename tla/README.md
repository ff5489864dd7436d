# The Celerity transformer in TLA+

`bluelink-transformer-celerity` is a plugin that compiles a blueprint of abstract
`celerity/*` resources into concrete AWS resources for the `aws-serverless` target. It
is one sequential program without storage or network protocol of its own, but it writes
one: the function that forwards a queue to its topics is source code in its output. What
makes the transform hard is not concurrency but *order and agreement*: its resources
arrive in the order of a Go map, several emitters compute the same name, plan or
decision independently, the result of one emitter is only correct if another emits what
it references, and one handler's failure must not corrupt what it shares with others.

## 1. Inventory

| component (source) | state it keeps | operations | what must hold |
|---|---|---|---|
| run hook (`transformer/run.go`, `shared/build/loader.go`) | the build manifest, or the error of loading it | load at the start of a run | a missing manifest never stops a run, and nothing later relies on it |
| resolvers (`resources/*/..._resolve.go`) | one resolved record per resource: links by kind, inherited settings, VPC, trigger bindings | one resolve per resource, in map order | the record does not depend on edge order; what cannot be resolved is reported |
| aggregator (`transformer/aggregate_aws_serverless.go`) | the plan: primaries, shared parents | drop the absorbed resources, collect roles, layers, topic fan-outs, the store | shared parents serve all their users, whatever the order of primaries |
| role planning (`handler_resolve.go`, `shared/awslambda/*_plan*.go`) | role plan and fingerprint per handler | build a plan, share a role between equal plans | a shared role is exactly what each function needs |
| handler emitter (`handler_aws_serverless_emit.go`) | the function, its triggers, contributions, diagnostics | emit one handler | every handler is emitted or reported; references resolve |
| triggers (`handler_aws_triggers.go`, `handler_consumer_binding.go`) | bindings, labels and annotations of a function | classify a consumer's source, stamp settings, emit rules, mappings, fan-outs | each trigger reaches the function, with its settings, or is reported |
| resources store (`transformer/resources_store.go`) | config key -> reference | add the entries of every handler in name order | one deterministic winner per key; present iff a function reads it |
| VPC placement (`handler_vpc_inherit.go`, `handler_vpc_validate.go`, `handler_aws_vpc_validate.go`, `vpc_*`) | a handler's VPC, tier and reach | inherit from API, consumers and schedules; validate against the preset | no placement the network cannot honour goes unreported |
| API emitter (`resources/api/*`, `handler_api_annotations.go`) | protocol APIs, stages, authorizers, domain mappings | emit one API | a guarded route references an authorizer that exists; a handler attaches to its own protocol |
| queue emitter (`resources/queue/*`) | queue, forwarder function and role | emit one queue; tie its forwarder to it and to the topics by labels and variables | the forwarder is the queue's only poller and knows every topic |
| forwarder (inline code in `queue_forwarder_aws_serverless.go`) | the batch of an invocation, its failed records | publish a record to every topic, report the failed ones | no message is lost between queue and topics, through retries and crashes |
| topic emitter (`resources/topic/*`), bucket notifications (`shared/aws/s3_notifications.go`) | the topic, its subscription to bucket events | emit one topic | a subscriber gets the events it asked for, or a warning |
| SQL database emitter (`resources/sqldatabase/*`) | cluster or instance and proxy, reader, secrets, roles, runner | emit one database | applications and the runner can log in, and nobody else is let in |
| cache emitter (`resources/cache/*`) | group, subnet group, secret or user | emit one cache | function and group meet at one secret or user |
| VPC emitter (`resources/vpc/*`) | one resource naming the security groups of what is placed in it | emit one VPC | it mints exactly the groups that are used |
| config emitter and wiring (`resources/config/*`) | a secret or a parameter tree; variables and annotations of functions | emit one store; wire a function to it | both choose the same store, and the function may read it |
| datastore, bucket emitters | their concrete resource | emit one resource | the parts AWS checks against each other fit |
| links (`links/*`) | link definitions, cardinalities, validation functions | validate | a handler has at most one event source per protocol |
| framework (external) | resolved records, emitted resources, contributions | drive the phases, merge contributions into shared parents | - |

Interactions: the framework calls the components in phases (run hook, resolve all,
aggregate once, emit each primary, merge). Components share no memory; they agree
through **names** (an emitter references what another emits under a name both
compute), through **labels** (a concrete link selects a function by a label the
handler emitter stamps) and through **contributions** that the framework merges into
shared parents. The hazards in `PROJECT.json` are listed along these three channels.

## 2. Plan

1. `CelerityBlueprint`, `HandlerEmit`, `TransformPipeline`: the pipeline and what it
   computes from handlers. *Done.*
2. `TransformSpec`, `TransformRefinement`: the one-step promise, and the pipeline as
   an implementation of it. *Done.*
3. `TransformPipeline_proofs`, `PipelineOutput_proofs`, `TransformRefinement_proofs`:
   every safety property of the pipeline and the safety part of its refinement. *Done.*
4. `VpcPlacement`, `HandlerWiring`: one handler from its inbound edges to the labels
   and annotations of its function. *Done*, with `HandlerWiring_proofs`.
5. `ApiRouting`: routes against APIs and authorizers, mapping keys across protocols.
   *Done*, with `ApiRouting_proofs`.
6. `ResourcesStore`: keys and collisions of the internal store. *Done*, with
   `ResourcesStore_proofs`.
7. `SqlDatabaseEmit`, `CacheEmit`, `VpcEmit`, `MessagingEmit`, `StorageEmit`, over
   `BackingBlueprint`, composed with the store by `BackingResources`: all backings, as
   their emitters, the store and the handlers' functions agree on them. *Done*, with
   `BackingResources_proofs`.
8. `FanOut`, `Forwarding`: the forwarder at work, as deployed from what was emitted.
   *Done*, with `Forwarding_proofs`.
9. The lengths of names (`AppScopedPhysicalName`), the loader of the build manifest,
   the validation functions of the links: the remaining parts with control flow.

## 3. Modules

**`CelerityBlueprint`** - the input as one record: kinds, the declared link graph and
the few settings the pipeline branches on. `IsBlueprint` is the shape the schemas and
link cardinalities guarantee; `BlueprintShape` assumes it of every blueprint
considered. VPC placement is given by its outcome. `HasEventSource` is the check of
`deriveEventSource`: a handler whose annotations announce an API, a consumer or a
schedule is linked to one.

**`HandlerEmit`** - pure functions: the role plan (`buildAWSRolePlan`), the function
and its triggers (`emit`, `emitScheduleRules`, `emitExternalSources`), the shared
parents (`collectIAMRoles`, `collectLambdaLayers`, `topicFanoutParents`,
`collectResourcesStore`), contributions and diagnostics. A concrete name is a tuple of
the fixed part, which no two of the code's helpers share, and what that is joined to:
one resource's name for most, a fingerprint or a folded hash for roles and layers, and
for an event source mapping the string `<consumer>_<key>`, so that consumer `e` with key
`a_b` and consumer `e_a` with key `b` have one name here as they have in the code. The
bindings of a handler write their mappings into one map in the order of its edges, so
`HandlerResources` is the set of the maps it may return. `HashesStayApart` assumes that
folding, the constant `ReferenceSafe`, keeps two hashes of one blueprint apart, as it
does for hashes of the form `sha256:<hex>`. No
fixed part ends in another (`_sqs_queue`, `_topic_queue`, `_events_rule`, ...), so names
of two helpers differ whatever they join. A concrete resource is a record of its type,
the names it references and the attributes a property needs. The SHA-256 fingerprint
of a role plan is the constant `Fingerprint`, of which only `FingerprintInjective` is
assumed. The source keeps 32 bits of the hash: two plans of one application that
collide would share a role, which no model of a hash can exclude.

**`TransformPipeline`** - the run. `OnRun` is the run hook; `Resolve(r)` and
`ResolveFails(r)` resolve any resource not yet resolved, which gives every order a Go
map can be walked in; `Absorb` and `Keep` are the aggregator's loop and
`PlanSharedParents` its end; `EmitHandler`, `EmitPrimary` and `EmitFails` emit the
primaries in the order they were resolved; `MergeSharedParents` applies the
contributions. The loops themselves belong to the framework and are modelled from how
this repository uses and documents it
(`docs/design/transformer-framework-architecture.md`,
`docs/design/resolve-emit-pipeline-design.md`): the last of two resources with one
name wins, contributions to a parent must agree, an error ends the run.

**`TransformSpec`** - what a transform promises: in one step a blueprint is refused or
compiled, and which of them, and to what, is a function of the blueprint. Its
constants `Compile` and `MustRefuse` are any such functions. **`CompiledOutput`** gives
the two for this transform, a set of named resources and diagnostics or a refusal,
without order, loop or plan. **`TransformRefinement`** maps the pipeline's state to it.
Which of its handlers a shared role or layer is attributed to (`source`) is left open:
the code takes the first in map order, and the contract documents only `sharedBy`.

The pipeline takes what a single handler's wiring comes to as given. Two further
models open it up, at the level of labels and selectors that the pipeline abstracts:

**`VpcPlacement`** - pure functions: inheritance of a placement from the components a
handler is bound to (`resolveInheritedVPCPlacement` and its helpers), the subnet tier
and the reach in effect, and the two validators, of the VPC's topology
(`vpcPlacementDiagnostics`) and of what Lambda can do
(`awsServerlessEgressDiagnostics`). A CIDR list is abstracted to its address families,
a VPC to its preset.

**`HandlerWiring`** - one handler: `AddInboundLink` collects its inbound edges in any
order, `ClassifyConsumer` binds each consumer to a source, `InheritPlacement` is the
last step of the resolver, which collects the placements in any order (`OrdersOf`);
`ApplyLambdaLabels`, `StampConsumerBinding` and `FinishFunction` are the emitter's.
Labels are functions from key to value and a selector selects on any one of its labels,
as the framework's do. Of two sources that a consumer names, edge order decides: a
choice in `SourceBindings`. `WiringShape` assumes that the inputs have the shape the
schemas give them, and `AbsentIsNoEgress` that no setting is not one of the settings.

**`ApiRouting`** - one API and its handlers. The API's emitter (`EmitProtocolApis`,
`EmitAuthorizer` for each guard of a Go map, `EmitDomain`) and the handlers'
(`EmitHandler`) are interleaved in any order: neither calls the other, and each names
and labels what the other emits. A route is a function with the labels, the
authorizer and the authorization type that `stampAPIRouteAnnotations` gives it.
`ApiShape` assumes that an API is one the schema and the links admit.

**`LinkSelectors`** - labels and selectors, which the models from here on and
`VpcPlacement` share; `LabelsAnd` and `OneLabel` are Go's copying of one label map over
another and its single assignment.

**`BackingBlueprint`** - the backings and VPCs of a blueprint, the helpers their
emitters share (`ResolveDeployConfig`, `DeferredValueErrors`, logical names, placement)
and `Concrete`, the record an emitted resource is: its labels and selector, whether
its label map is the abstract resource's own object, and what it refers to.

**`ResourcesStore`** - the entries of the internal store (`collectResourcesStore`):
`CollectPrimary` picks the handlers out of primaries in any order, `SortHandlers` sorts
them by name, `AddStoreEntries` adds the backing of one link, always the one the loops
over handlers, groups and links come to next (`Before`), `PlanStore` ends. A key is the
sequence of its parts, so that the name of one backing can be another's key with a
suffix. `BackingShape` assumes that each blueprint has the shape the framework gives it:
handlers have names of their own and link to what they select by labels, names, titles,
subscriptions, keys and indexes are lists, and a cache or a database is placed in at most one VPC
(`links/vpc_cache_link.go:23`, `links/vpc_sqldatabase_link.go:25`).

**`SqlDatabaseEmit`, `CacheEmit`, `VpcEmit`, `MessagingEmit`, `StorageEmit`** - pure
functions, one `Emit...` for each emitter, from a blueprint to resources, derived
values and diagnostics, with the early returns in the order of the code. They keep
what another part of the system depends on: names, labels and selectors, references,
security groups, secrets, and the few spec fields that must fit each other.
`MarkTarget` models the write through a shared label map: all resources that hold the
database's own map are marked, those with a copy are not.

**`BackingResources`** - the composition: the store is planned, then each backing and
VPC is emitted (`EmitBacking`), in any order; an emitter that returns an error ends the
run (`Abort`). What a handler's function links to (`FunctionSelects`), may connect to
(`IamTargets`) and is told of its config stores (`ConfigVariables`) comes from the
abstract resources alone, as in the code, so that agreement is a property.

**`FanOut`** - what linking a queue to topics promises: a message sent is delivered to
every topic before the queue is rid of it, unless it is a dead letter. **`Forwarding`**
extends `BackingResources`: `Deploy` builds queue, poller and topics from the labels,
annotations and variables that were emitted, and no later step looks at the blueprint.
`PublishRecord` and `Answer` are the inline code, one record and one return; a batch is
a set, gone through in the order its messages were sent; `Invoke`, `GiveUp`, `Consume`,
`Send` and `Crash` are SQS, its poller and its other users, modelled from how the
emitter uses them. `Promise` is the refinement mapping.

**`MCTransformPipeline`, `MCTransformRefinement`, `MCHandlerWiring`, `MCApiRouting`,
`MCBackingResources`, `MCForwarding`** - the inputs of the runs.
Definitions headed "A slip" in the modules are plausible bugs, used to show that each
property can fail.

## 4. Runs

| run | blueprints | shows |
|---|---|---|
| `MCPipeline` | two handlers with any of a queue, a cache, a config, tracing and VPC; three handlers with five runtimes, shared and own layers, three manifest outcomes, deploy and validation, failing resolvers and emitters; a schedule and a consumer of each source kind with one or two absorbers, triggers that contest one name, undeployable handlers and refused targets | `TypeOK`, `LeastPrivilege`, `SharedByIsComplete`, `StoreInStep`, `LayersCoverRuntimes`, `TriggersReachHandlers`, `ReferencesResolve`, `NothingReplaced` |
| `MCDeterminism` | blueprints with everything shared that order could show in | `OutputDependsOnBlueprintOnly` (the refinement), `EveryHandlerSettled` (liveness) |
| `MCWiring` | two consumers, two queues and a VPC whose labels and selectors overlap; an API with a guard or a route; two components and two VPCs with every preset, tier and reach; three consumers of every source kind with equal, different and unset settings | `TypeOK`, `SourcesReachFunction`, `PlacementReachesFunction`, `OrderDoesNotShow`, `SilenceMeansDelivered`, `BucketEventsStamped`, `SettingsApplyOrReported` |
| `MCApi` | every set of protocols, guards of every kind, defaults as a string and as a list, public routes, implementers, with and without a region; domains with up to two base paths, with and without slashes | `TypeOK`, `RoutesOnOwnProtocol`, `AuthorizersFitRoutes`, `GuardedRoutesStayGuarded`, `GuardsAreInvocable`, `DanglingIsReported`, `MappingKeysApart` |
| `MCBackings` | for the store, three handlers linked to up to two of three backings each, with shared, own and absent names; for the emitters, one handler and a database or cache of every way to authenticate, topology, preset and Aurora setting, two of each in one VPC, every refusal, and labels of the author under internal keys; queues, topics, buckets, datastores and configs with what their emitters tell apart | `BackingsTypeOK`, `FirstEntryKept`, `ConnectionsAreWhole`, `StoreEntriesResolve`, `BackingReferencesResolve`, `DatabaseHandlersCanLogIn`, `CacheHandlersCanLogIn`, `RunnerReachesItsDatabase`, `GroupsAreMinted`, `InternalLinksApart`, `ConfigStoresAreFound`, `SubscriptionsAreAskedFor`, `SpecsFitTogether` |
| `MCForwarding` | a queue with two topics, another queue with the same topics and a topic it has no link to; standard and FIFO, with and without a dead-letter queue, consumed as well or instead, a FIFO topic after a standard queue and a standard one after a FIFO queue, a topic that is refused | `ForwardingTypeOK`, `DeliversToEveryTopic` (the refinement of `FanOut`), `EveryMessageSettles` (liveness) |
| `MCSharedTrigger`, `MCTwoVpcs`, `MCDocumentedGuards`, `MCRunnerLinks`, `MCUnmintedGroups`, `MCForwardOrder` | the smallest inputs of each | violated: findings 1 to 6 |

In `MCPipeline` two triggers of deployed handlers may ask for one name (`Contested`):
a schedule or an external source absorbed twice, or two sources whose parts join to one
name. `TriggersReachHandlers` and `NothingReplaced` except those names and no others, and
`EveryAbsorberTriggered`, without that exception, is what `MCSharedTrigger` violates.
`StoreInStep` speaks of the store's variables, its entries and the roles that may read
it. `GuardedRoutesStayGuarded` takes what is to protect a route from what the author
wrote (`Protectors`), not from what the emitter makes of it, and excepts a default given
as a list, finding 3. `SettingsApplyOrReported` excepts an unset batch size beside a set
one, as the code does (section 6), and `MappingKeysApart` compares the mappings of the
two protocols only. `FirstEntryKept`, `GroupsAreMinted`,
`InternalLinksApart` and `ConfigStoresAreFound` say in their premises which inputs they
except: a key that two kinds of backing claim, an Aurora setting the two sides read
differently, equal logical names, and equal variable names. `ConfigStoresAreFound` and
`DatabaseHandlersCanLogIn` speak of backings no error was reported for, since after an
error nothing is deployed.

**Bounds.** The transform has no counters to cap: a run ends after one pass over a finite
blueprint. The bound is the size of the blueprints. Sharing and replacement are
between pairs of handlers, so two handlers show them; layers have three, so that a
layer's first user, a later one and a bystander can differ. Every order of resolution
is explored, and with two or three handlers every handler is first in some order.
Labels range over two keys and two values, which is what it takes for two labels to
agree, to clash and to be unrelated; two consumers give a first and a later one, a third
adds one of another family. Two guards give one that is referenced and
one that is not; two base paths are enough to collide. Backings are emitted
independently, so one of a kind meets each of its own cases and two show what they could
take from each other.

Forwarding has counters, bounded in their guards: `MaxMessages` = 2 messages, of one
group or of two, with `BatchSize` = 2, so that a batch may hold one that fails and one
that does not; two `Invocations`, so that two batches are out at once; `MaxCrashes` = 1
invocation that ends without an answer, at any point of its batch. Rejections and
redeliveries are not bounded.

**Fairness.** `WF_vars(Step)` in each model: the program is one goroutine running finite loops, so
while a step is enabled one is eventually taken. Nothing is assumed of which one. In
`Forwarding` the poller keeps polling (`WF` of `Poll`) and an invocation goes on until it
answers or crashes (`WF` of `Run`), which is Lambda's to guarantee; and a topic that
accepts messages does not reject every attempt for ever (`SF` of `PublishRecord` to all
topics), which is what retrying relies on. Nothing is assumed of producers, consumers
and crashes.

**Deadlock** is checked in every run; a finished run stutters (`Finished`,
`BackingsFinished`, and `Quiet` once the queue is empty).

## 5. Proofs

Each theorem holds for every value of the constants that satisfies the named
assumptions: any number of handlers, backings, edges and labels, in any order.

**The pipeline** is proved about in three modules, each resting on the one before.

`TransformPipeline_proofs` proves `TypeCorrect`, from `BlueprintShape` alone. Its
content is the naming: everything emitted, planned or contributed to lies in
`ConcreteNames(bp)`. The lemmas bound the names of each map by it
(`HandlerNames`, `PrimaryNames`, `ParentNames`) and `OverlayWithin` carries the bound
through the maps the code copies onto each other.

The same module proves `SharedRolesAreExact`. `LeastPrivilege` speaks of the end of a
run only, so it is not inductive. `EmissionInv` adds what it rests on: every emitted
function is the one its handler computes (`FunctionsGenuine`), every emitted role is the
planned one with nothing merged into it (`RolesGenuine`), and the parents are those of
the finished plan, before which nothing is emitted (`PlanFirst`). Then two functions
reference one role only if their names agree, so their fingerprints and, by
`FingerprintInjective`, their plans agree (`SameRoleSamePlan`), and equal plans have
equal links by kind (`LinksOfPlan`). That the plan belongs to *some* user of the role is
`FirstIsMember`, by the least index.

`PipelineOutput_proofs` proves the rest. What a reference needs at the end of a run was
emitted at another time, or comes from the plan, so its invariant `OutputInv` says at
every moment what there is: what has been emitted is exactly what the emitters of the
primaries gone through make, the contributions are exactly theirs, the diagnostics are
exactly those they report, and after the merge the parents are the planned ones with
the contributions of all. To that belongs that each
resource is resolved once (`ResolvedOnce`), is kept once (`KeptOnce`) and is emitted
under the manifest of the run's start (`ManifestLoaded`). At the end, when all primaries
have been gone through, this is a description of the whole output, and the properties
follow from the helpers' definitions: `RolesNameTheirUsers`, `StoreStaysInStep`,
`LayersSuitTheirUsers`, `OutputIsClosed`, `TriggersAreKept`. `TriggersAreKept` assumes
that the external events of a consumer name something (`ExternalEventsUsable`, section
6) and excepts, with the property, a trigger whose name is contested (finding 1).
Since a handler's emitter may return one of several maps, the invariant bounds them by
what the handler owns (`OwnedBy`, `Renders`): one owner of an uncontested name has one
resource for it (`OwnedOnce`). `EmittedForGood` is the action property `NothingReplaced`,
by the same invariant: two emitters share a name only if it is contested, so emitting
one primary leaves the uncontested resources of all others alone.

`TransformRefinement_proofs` proves `OutputDependsOnBlueprint`, that a run of a blueprint
in which no name is contested (`Uncontested`) satisfies `Promise!Safety`; of a contested
name the survivor does depend on the order. `PromiseInit` maps the
initial state and `PromiseStep` each step: only the two that end a run change `Outcome`.
That the one ending it well yields `Compile(bp)` is `FinishedIsCompiled`, where the
output described by `OutputInv`, in the order of one run, is compared with the one
`CompiledOutput` describes without any; that a run ends badly exactly when `MustRefuse`
says so needs that all resources are gone through before the run ends well.

**One API**: `ApiRouting_proofs` proves all seven invariants of `ApiRouting` from
`ApiShape`. A route and its authorizer are made by two emitters that
only share names and labels, so none of the properties is inductive: the emitter that comes
second would have to know what the first one did. `RoutingInv` says it without the
order: each function, authorizer, API and domain mapping that is there is the one its own emitter
computes from the API alone (`EmittedIsGenuine`), and each guard the API's emitter has
gone through is emitted or reported. `EmitAdds` and the lemmas on names keep a step from
touching what the others emitted.

**One handler**: `HandlerWiring_proofs` proves all seven invariants of `HandlerWiring`
from `WiringShape`. Labels and settings are copied in three stages, from sources to
consumers, to the handler and to the function, and a property compares the ends.
`WiringInv` has a part for each stage: what the resolver recorded is what the edges say
(`Resolved`); each label a stage was given is on the function, or the label laid over
it is (`LabelsCarried`); the settings stamped are those of the consumers gone through,
or a conflict among them is known (`SettingsFollow`) and is reported
(`ConflictsReported`). `SourcesFindTheirFunction` and `PlacementsFindTheirFunction` hold
under `ReservedKeysUnused`: no source and no VPC selects by a key under which the
transformer puts labels of its own (`celerity.internal.api.target`,
`celerity.internal.api.guard.target`, `celerity.consumer.topicPoll.<consumer>`). Nothing
in the code stops an author from doing so; the labels of the runs do not.
`PlacementIsTheWirings` rests on the sort in `collectInheritedPlacements`: placements in
one VPC that come first by component are equal, in whichever order they were collected.

**The store**: `ResourcesStore_proofs` proves all three invariants of `ResourcesStore`
from `BackingShape`. What is asked of the finished store is that it is the same in every
order of the primaries; what is known while it is planned is only that the links still
to be added come after all those added (`Before`), which equals the order by names once
the handlers are sorted (`Sorted`). `StoreInv` says that a link served has its key or
its host among the entries (`LinksServed`), that the link which is first by names to
claim a key has it as soon as it is served (`FirstKept`), and that the keys under a
connection's name belong to one backing and are all of its keys (`EntriesWhole`).
`FirstEntryIsKept` and `ConnectionsStayWhole` hold under `PartsUnclaimed`: no queue, topic,
datastore or bucket has a key that is a connection's for one of its parts. The code does
not look, and such an entry is overwritten (section 6).

**The backings**: `BackingResources_proofs` proves every invariant of `BackingResources`
from `BackingShape`. The emitters run in any order and each refers to what others
emit, so again no property is inductive. `BackingInv` describes what there is without
the order: what the emitters that have had their turn return is emitted, recorded and
reported (`ResultsKept`), and nothing else is (`NothingElse`). It is kept since an
emitter uses names that bear its resource's own (`OwnResult`), so that no step disturbs
what is there. Once all have had their turn, a property is one of the emitters'
results, and the lemmas say of each emitter either that it refuses, with an error
(`Refuses`), or what exactly it returns. What is left is where two emitters have to
agree:

- `ReferencesAreClosed`, `StoreEntriesAreBacked`: each name one emitter refers to is
  matched with the name another returns, case by case of topology and authentication;
- `RunnersReachDatabases`, `HandlersReachDatabases`, `HandlersReachCaches`: labels that one
  emitter puts on a resource against selectors that another computes, after `MarkTarget`
  has written into a label map that several resources share. The last two hold under
  `SelectedByAuthors`: no handler's selector has a key that the transformer keeps for the
  runner or the cache's secret. Nothing in the code stops an author from it; what a
  function links to would then depend on the author's value;
- `InternalLinksStayApart` speaks of any two resources in the output. Each is classified by
  what it may carry under an internal key: nothing (`Plain`), or what its emitter puts
  there for itself. It holds under `InternalLabelsUnclaimed`, that authors do not use those
  keys with another backing's name, and that no cache is selected by labels that another
  backing has;
- `GroupsComeFromVpcs` counts: that each security group a VPC mints has one user follows
  from the group's being named after a backing and a role in it, and the VPC's emitter
  going through the same backings as those that were emitted;
- `ConfigsAreFound`: of the configs a handler links to, the last with a variable's name
  wins, and a config whose name is its own is therefore the last (`ConfigLinks`);
- `SubscribersGetTheirEvents`: the stamped events are numbered by counting, which leaves
  none out and gives no two one number (`IndexesApart`);
- `SpecsAreFit`: the attributes a table declares are the names at its key places, each at
  the first place that has it. For any number of indexes there is such a place since what
  has a name is not empty and places are ordered as pairs of numbers, which have a least
  one (`FirstPlace`, `DeclaredOnce`). It holds under `NamesAreNames`: no key is the empty
  string, which the code drops from the attributes and keeps in the key schema, and
  `.fifo` is only ever the end of a title.

The four conditions on authors hold of every blueprint of `MCBackings`, which checks the
properties without them.

**The forwarder**: `Forwarding_proofs` proves of `Forwarding`, from `ForwardingShape` (the
queue looked at is one, and the topics are finitely many with names of their own),
`ForwardingBounds` (the bounds are numbers) and what `BackingResources` assumes, that
each message is in one place (`ForwardingTypeCorrect`) and that it implements the safety
of `FanOut` (`ForwarderKeepsPromise`), for any number of messages, invocations, crashes and
topics. It joins the two halves of the system. The first is what is deployed:
`StackAsPromised` says that a polled queue's function publishes to exactly the topics the
author linked and reports its failures, and that a queue with a consumer links to none. It follows
at the step `Deploy` from `BackingInv`, through the labels, the annotated variables and the
poller's link of what three emitters made (`ForwarderFound`, `PollersAre`, `ArnsAre`). The
second is what runs: `QueueInv` says where a message may be, and `Handled` that a record which is
behind an invocation and not among its failed ones is at every topic. `Handled` is what
makes `Answer` a step of the promise, since the queue is then rid of those records. A crash and a
reception change nothing the promise speaks of (`MovesUnseen`).
`ForwarderKeepsPromise` holds under `TriggersItsForwarderOnly`: the queue's selector finds
neither another queue's forwarder nor what a VPC selects, and with it a maintenance
runner. A queue triggers every function it selects, and nothing in the code stops an
author from such a selector (section 6). Every blueprint of `MCForwarding` satisfies it;
that run checks the refinement without it.

**Model-checked only.** Liveness, which no prover here can treat: `EveryHandlerSettled`,
`EveryMessageSettles`, and that `OutputDependsOnBlueprintOnly` has an outcome at all
(its fairness conjunct).

## 6. Findings

1. A schedule, or a consumer of an external source, linked to two handlers: both emit
   one resource name, the last replaces the first, and one function is never invoked
   (`MCSharedTrigger`).
2. The labels of an absorbed consumer that lies in another VPC make that VPC select the
   function too (`MCTwoVpcs`).
3. Default guards given as an array do not apply to any route: routes without a guard
   of their own are emitted open (`MCDocumentedGuards`).
4. The maintenance runner's mark is written into a label map that the reader, and on
   Aurora the instances, share with the resource it is meant for: the runner links to
   them as well (`MCRunnerLinks`).
5. A VPC reads a database's Aurora setting under the resource's name, the database
   under its `spec.name`: a security group is used that was not minted, or minted and
   not used (`MCUnmintedGroups`).
6. The forwarder goes on with its batch when a record is rejected, so a FIFO topic may
   get a later message of a group before an earlier one (`MCForwardOrder`).

The models also contain, without a run of their own:

- two event source mappings of one name by another way than finding 1: the parts of the
  name are joined by an underscore that may be in either of them, and the one that is
  left depends on the order of edges or of handlers (`Contested`);
- two base paths of one protocol that are one when their slashes are trimmed (`v1` and
  `/v1/`) are mapped by one key, and nothing is reported (`MappingKeysApart` speaks of
  the two protocols);
- of the guards a handler lists only the first is wired, as the emitter's comment says
  (`effectiveGuard`), without a diagnostic;
- a handler's labels override its consumers' without a warning, and the source of such
  a consumer no longer selects the function (`SourcesReachFunction` excepts it);
- a consumer that names one of two queues is still served by both, since all its labels
  are carried over;
- an author's label under a key the transformer reserves is replaced by the
  transformer's own, and a source or VPC selecting by it no longer finds the function
  (`ReservedKeysUnused`);
- a consumer whose `externalEvents` is empty, or has only entries of an unknown source
  type or without the stream's ARN, is absorbed and triggers nothing, and nothing is
  reported (`classifyExternalEvents`, excepted by `ExternalEventsUsable`);
- an unset batch size next to a set one is no divergence to
  `batchOrFailuresConflict`, and the function's size applies to both;
- a handler whose tag names one consumer drops the routing key of another silently;
- a handler of a protocol its API does not declare is attached to nothing, and nothing
  is reported;
- a handler whose runtime is a `${...}` reference ends the run in its resolver, and the
  diagnostic the emitter has for it is never reached (`ResolveFails`);
- components in one VPC that ask for different subnet tiers are no conflict: the first
  by name wins (`PlacementsConflict`);
- a custom guard without an implementer, or a run without a region, leaves the routes it
  guards with a reference to an authorizer that is not emitted, with a warning only
  (`DanglingIsReported`);
- a queue named like a cache's key for one of its parts loses its entry in the store
  (`Written`);
- the function of a handler that selects by the label a VPC selects by links to the
  maintenance runner (`MaintenanceRunner`);
- two databases with one logical name: each proxy fronts both instances
  (`InternalLinksApart` excepts it);
- two config stores of a handler whose names differ only in what a variable's name cannot
  hold: the later is found under both (`ConfigVariables`);
- a queue that is consumed and forwarded keeps the forward label in its selector although
  no forwarder is emitted, with an error (`QueueSelector`);
- a queue whose selector finds another queue's forwarder, or the labels its VPC selects
  by, triggers that forwarder or the maintenance runner as well, which take its messages
  (`TriggersItsForwarderOnly`);
- a FIFO topic linked from a standard queue, or a standard topic linked from a FIFO
  queue, is not refused: the first gets no group, the second a deduplication id it does
  not take, and each message ends as a dead letter or is tried for ever (`Compatible`
  excepts both; `docs/contract/resource-mapping-aws-serverless.md:371` lists the
  mismatch);
- a table's index on a field that is a reference declares no such attribute
  (`SpecsFitTogether` excepts it).

## 7. Not modelled

- The AWS client configuration (`shared/aws/config_*.go`), schemas, property maps, tags
  and the end-to-end harness: plumbing and tables.
- Field-by-field mappings of the emitters: capacities, engines, retention, lifecycle,
  website and logging configuration, the encoding of a secret's values, the text of
  policies. A field is modelled where another part of the output depends on it.
- In `TransformPipeline` one resource stands for what each backing emits, and `refused`
  and `aborts` for its ways to fail; `BackingResources` opens that up without the
  handlers' roles and triggers. The two are separate models because their product adds
  states and no new interaction: the handlers' emitter reads the abstract backings only.
- Time: a visibility timeout below the forwarder's own, and the windows in which SQS
  and SNS drop duplicates. A topic that gets a message twice counts it once.
- The lengths of names, the loader of the build manifest and the links' validation
  functions, which the plan has left.
