---------------------- MODULE TransformRefinement_proofs ----------------------
(***************************************************************************)
(* The pipeline implements the safety part of TransformSpec: for every     *)
(* blueprint in which no two triggers ask for one resource name, every run *)
(* that ends produces the output CompiledOutput computes from it, or       *)
(* refuses it when and only when that says so, in every resolution order.  *)
(***************************************************************************)
EXTENDS TransformRefinement, PipelineOutput_proofs

-----------------------------------------------------------------------------
(* The parts of the promised output, as the pipeline computes them.        *)

LEMMA ManifestAgrees ==
    ASSUME NEW b, IsBlueprint(b)
    PROVE  /\ Loaded(b) = ManifestOf(b)
           /\ ManifestOf(b) \in {"noLambda", "lambda"}
                <=> b.manifest \in {"noLambda", "lambda"}
<1>1. b.manifest \in {"noPath", "unreadable", "noLambda", "lambda"}
  BY DEF IsBlueprint
<1> QED
  BY <1>1 DEF Loaded, ManifestOf

\* The emitters' own resources.
LEMMA OwnedAsPromised ==
    ASSUME NEW b, NEW n, NEW v
    PROVE  (\E r \in OfKind(b, EmitterKind) : OwnedBy(b, r, ManifestOf(b), n, v))
             <=> <<n, v>> \in Computed(b) \cup Triggered(b)
<1> DEFINE m == ManifestOf(b)
<1>1. \A h : h \in Handlers(b) /\ EmitsFunction(b, h) <=> h \in Deployed(b)
  BY DEF EmitsFunction, Deployed
<1>2. \A r : r \in Emitters(b) <=> r \in OfKind(b, EmitterKind) /\ r \notin Handlers(b)
  BY DEF Emitters, Handlers, OfKind
<1>3. Handlers(b) \subseteq OfKind(b, EmitterKind)
  BY DEF Handlers, OfKind, EmitterKind, Kind, ContributorKind
<1>4. <<n, v>> \in Computed(b) <=>
        \/ \E h \in Deployed(b) : n = FuncName(h) /\ v = LambdaFunction(b, h, m)
        \/ \E r \in Emitters(b) \ b.refused :
             n = PrimaryName(r) /\ v = [type |-> b.kind[r], source |-> r, refs |-> {}]
  BY DEF Computed
<1>5. <<n, v>> \in Triggered(b) <=>
        \/ \E h \in Deployed(b) : \E s \in Schedules(b, h) \ b.noExpression :
             n = RuleName(s) /\ v = ScheduleRule(h, s)
        \/ \E h \in Deployed(b) : \E x \in ExternalSources(b, h) :
             n = ESMName(x[1], x[2]) /\ v = EventSourceMapping(h, x[1])
  <2>1. <<n, v>> \in Triggered(b) <=>
          \E h \in Deployed(b) : <<n, v>> \in Rules(b, h) \/ <<n, v>> \in Mappings(b, h)
    BY DEF Triggered
  <2>2. \A h : <<n, v>> \in Rules(b, h) <=>
          \E s \in Schedules(b, h) \ b.noExpression :
             n = RuleName(s) /\ v = ScheduleRule(h, s)
    BY DEF Rules
  <2>3. \A h : <<n, v>> \in Mappings(b, h) <=>
          \E x \in ExternalSources(b, h) :
             n = ESMName(x[1], x[2]) /\ v = EventSourceMapping(h, x[1])
    BY DEF Mappings
  <2> QED
    BY <2>1, <2>2, <2>3
<1>6. (\E r \in OfKind(b, EmitterKind) : OwnedBy(b, r, m, n, v)) <=>
        \/ \E h \in Deployed(b) : OwnOf(b, h, m, n, v)
        \/ \E r \in Emitters(b) \ b.refused :
             n = PrimaryName(r) /\ v = [type |-> b.kind[r], source |-> r, refs |-> {}]
  BY <1>1, <1>2, <1>3 DEF OwnedBy
<1>7. (\E h \in Deployed(b) : OwnOf(b, h, m, n, v)) <=>
        \/ \E h \in Deployed(b) : n = FuncName(h) /\ v = LambdaFunction(b, h, m)
        \/ \E h \in Deployed(b) : \E s \in Schedules(b, h) \ b.noExpression :
             n = RuleName(s) /\ v = ScheduleRule(h, s)
        \/ \E h \in Deployed(b) : \E x \in ExternalSources(b, h) :
             n = ESMName(x[1], x[2]) /\ v = EventSourceMapping(h, x[1])
  BY DEF OwnOf
<1> HIDE DEF m
<1> QED
  BY <1>4, <1>5, <1>6, <1>7 DEF m

\* A handler reads the store when one of its backings is in it.
LEMMA StoreAsPromised ==
    ASSUME NEW b, NEW h \in Handlers(b)
    PROVE  HasResourceLinks(b, h) <=> Backings(b, h) \cap InStore(b) # {}
<1> DEFINE stored == BackingKind \ {"config"}
<1>1. stored = {"queue", "topic", "datastore", "bucket", "cache", "sqlDatabase"}
  BY DEF BackingKind
<1>2. HasResourceLinks(b, h) <=> LinkedTo(b, h, stored) # {}
  BY <1>1 DEF HasResourceLinks
<1>3. \A x \in LinkedTo(b, h, stored) : x \in Backings(b, h) /\ x \in InStore(b)
  BY DEF LinkedTo, LinkedFrom, OfKind, Backings, InStore, Handlers
<1>4. \A x \in Backings(b, h) \cap InStore(b) : x \in LinkedTo(b, h, stored)
  BY DEF LinkedTo, OfKind, Backings, InStore
<1> QED
  BY <1>2, <1>3, <1>4

LEMMA EntriesAsPromised ==
    ASSUME NEW b, NEW order, HandlersIn(b, order) = Handlers(b)
    PROVE  EntriesIn(b, order) = InStore(b)
<1> DEFINE stored == BackingKind \ {"config"}
<1>1. \A h : StoreEntries(b, h) = LinkedTo(b, h, stored)
  BY DEF StoreEntries, LinkedTo, OfKind, BackingKind
<1>2. \A x : (\E h \in Handlers(b) : x \in LinkedTo(b, h, stored)) <=> x \in InStore(b)
  BY DEF LinkedTo, LinkedFrom, InStore, OfKind, Handlers
<1> QED
  BY <1>1, <1>2 DEF EntriesIn

LEMMA TopicsAsPromised ==
    ASSUME NEW b, NEW order, HandlersIn(b, order) = Handlers(b)
    PROVE  /\ AbsorbedIn(b, order) = AbsorbedTopics(b)
           /\ \A c : (\E h \in Deployed(b) : c \in TopicConsumers(b, h)) <=>
                        /\ c \in AbsorbedTopics(b)
                        /\ LinkedTo(b, c, {"handler"}) \cap Deployed(b) # {}
<1>1. \A h, c : h \in Handlers(b) =>
        (c \in TopicConsumers(b, h) <=>
            /\ c \in OfKind(b, {"consumer"}) /\ SourceKind(b, c) = "topic"
            /\ h \in LinkedTo(b, c, {"handler"}))
  BY DEF TopicConsumers, Consumers, LinkedFrom, LinkedTo, Handlers, OfKind
<1>2. \A c : LinkedTo(b, c, {"handler"}) \subseteq Handlers(b)
  BY DEF LinkedTo, Handlers
<1>3. Deployed(b) \subseteq Handlers(b)
  BY DEF Deployed
<1>4. \A c : c \in AbsorbedIn(b, order) <=> c \in AbsorbedTopics(b)
  BY <1>1, <1>2 DEF AbsorbedIn, AbsorbedTopics
<1> QED
  BY <1>1, <1>2, <1>3, <1>4 DEF AbsorbedTopics

\* The records of roles and layers, by their source and by what they share.
RoleRecord(source, sharers, plan) ==
    [type |-> "role", source |-> source, refs |-> {}, sharedBy |-> sharers,
     tracing |-> plan.tracing, readsStore |-> plan.readsStore,
     externalSources |-> plan.externalSources]
LayerRecord(source, runtimes) ==
    [type |-> "layer", source |-> source, refs |-> {}, runtimes |-> runtimes]

LEMMA WithoutSource ==
    ASSUME NEW s, NEW u, NEW p
    PROVE  /\ [RoleRecord(s, u, p) EXCEPT !.source = "anyone"]
                = RoleRecord("anyone", u, p)
           /\ [LayerRecord(s, u) EXCEPT !.source = "anyone"] = LayerRecord("anyone", u)
           /\ RoleRecord(s, u, p).type = "role"
           /\ LayerRecord(s, u).type = "layer"
BY DEF RoleRecord, LayerRecord

\* A planned role is the promised one but for its source.
LEMMA RoleAsPromised ==
    ASSUME NEW b \in Blueprint, NEW order \in Seq(Resources(b)),
           HandlersIn(b, order) = Handlers(b), NEW h \in Handlers(b)
    PROVE  LET sharers == SharersOf(b, Handlers(b), RoleOf(b, h))
               role == Role(b, sharers, First(order, sharers))
           IN  /\ role.type = "role"
               /\ Unattributed(role) =
                    [type |-> "role", source |-> "anyone", refs |-> {},
                     sharedBy |-> {g \in Handlers(b) : RolePlan(b, g) = RolePlan(b, h)},
                     tracing |-> h \in b.tracing,
                     readsStore |-> Backings(b, h) \cap InStore(b) # {},
                     externalSources |-> ExternalSources(b, h)]
<1> DEFINE sharers == SharersOf(b, Handlers(b), RoleOf(b, h))
           first == First(order, sharers)
           role == Role(b, sharers, first)
<1>1. \A g \in Handlers(b) : RoleOf(b, g) = RoleOf(b, h) <=> RolePlan(b, g) = RolePlan(b, h)
  BY SameRoleSamePlan DEF RoleOf
<1>2. sharers = {g \in Handlers(b) : RolePlan(b, g) = RolePlan(b, h)}
  BY <1>1 DEF SharersOf
<1>3. first \in sharers
  <2>1. h \in sharers
    BY <1>2
  <2>2. \E i \in DOMAIN order : order[i] \in sharers
    BY <2>1 DEF HandlersIn
  <2> HIDE DEF sharers
  <2> QED
    BY <2>2, FirstIsMember
<1>4. RolePlan(b, first) = RolePlan(b, h)
  BY <1>2, <1>3
<1> HIDE DEF first, sharers
<1>5. role = RoleRecord(first, sharers, RolePlan(b, h))
  BY <1>4 DEF Role, RoleRecord
<1>6. /\ RolePlan(b, h).tracing = (h \in b.tracing)
      /\ RolePlan(b, h).readsStore = HasResourceLinks(b, h)
      /\ RolePlan(b, h).externalSources = ExternalSources(b, h)
  BY DEF RolePlan
<1>7. HasResourceLinks(b, h) = (Backings(b, h) \cap InStore(b) # {})
  <2>1. HasResourceLinks(b, h) \in BOOLEAN
    BY DEF HasResourceLinks
  <2> QED
    BY <2>1, StoreAsPromised
<1> HIDE DEF role
<1>8. /\ [role EXCEPT !.source = "anyone"] =
            RoleRecord("anyone", sharers, RolePlan(b, h))
      /\ role.type = "role"
  BY <1>5, WithoutSource
<1>9. [role EXCEPT !.source = "anyone"] =
        [type |-> "role", source |-> "anyone", refs |-> {}, sharedBy |-> sharers,
         tracing |-> h \in b.tracing,
         readsStore |-> Backings(b, h) \cap InStore(b) # {},
         externalSources |-> ExternalSources(b, h)]
  BY <1>6, <1>7, <1>8 DEF RoleRecord
<1> QED
  BY <1>2, <1>8, <1>9 DEF Unattributed, role, first, sharers

\* So is a planned layer.
LEMMA LayerAsPromised ==
    ASSUME NEW b \in Blueprint, NEW order, HandlersIn(b, order) = Handlers(b),
           NEW h \in Layered(b)
    PROVE  LET users == UsersOf(b, LayersIn(b, order, ManifestOf(b)),
                                LayerName(b.layer[h]))
               layer == Layer(b, users, First(order, users))
           IN  /\ layer.type = "layer"
               /\ Unattributed(layer) =
                    [type |-> "layer", source |-> "anyone", refs |-> {},
                     runtimes |-> {b.runtime[g] : g \in {f \in Deployed(b) :
                                                     b.layer[f] = b.layer[h]}}]
<1> DEFINE users == UsersOf(b, LayersIn(b, order, ManifestOf(b)),
                            LayerName(b.layer[h]))
           first == First(order, users)
           layer == Layer(b, users, first)
           runtimes == {b.runtime[g] : g \in users} \cap SupportedRuntime
<1>1. LayersIn(b, order, ManifestOf(b)) = Layered(b)
  BY BlueprintShape, ManifestAgrees DEF LayersIn, Layered
<1>2. users = {g \in Handlers(b) : b.layer[g] = b.layer[h]}
  <2>1. \A g \in Layered(b) :
          LayerName(b.layer[g]) = LayerName(b.layer[h]) <=> b.layer[g] = b.layer[h]
    BY HashesStayApart DEF Layered
  <2>2. users = {g \in Layered(b) : LayerName(b.layer[g]) = LayerName(b.layer[h])}
    BY <1>1 DEF UsersOf
  <2>3. \A g \in Handlers(b) : b.layer[g] = b.layer[h] => g \in Layered(b)
    BY DEF Layered
  <2>4. Layered(b) \subseteq Handlers(b)
    BY DEF Layered
  <2> HIDE DEF users
  <2> QED
    BY <2>1, <2>2, <2>3, <2>4
<1>3. runtimes = {b.runtime[g] : g \in {f \in Deployed(b) : b.layer[f] = b.layer[h]}}
  BY <1>2 DEF Deployed
<1>4. layer = LayerRecord(first, runtimes)
  BY DEF Layer, LayerRecord
<1> HIDE DEF first, users, runtimes, layer
<1>5. /\ [layer EXCEPT !.source = "anyone"] = LayerRecord("anyone", runtimes)
      /\ layer.type = "layer"
  BY <1>4, WithoutSource
<1>6. [layer EXCEPT !.source = "anyone"] =
        [type |-> "layer", source |-> "anyone", refs |-> {}, runtimes |-> runtimes]
  BY <1>5 DEF LayerRecord
<1> QED
  BY <1>3, <1>5, <1>6 DEF Unattributed, layer, first, users

-----------------------------------------------------------------------------
(* The parts of the finished output.                                       *)

\* What the run settings and the plan of a finished run come down to.
LEMMA FinishedPlan ==
    ASSUME OutputInv, phase = "done"
    PROVE  /\ bp \in Blueprint /\ IsBlueprint(bp)
           /\ manifest = ManifestOf(bp)
           /\ primaries \in Seq(Resources(bp))
           /\ HandlersIn(bp, primaries) = Handlers(bp)
           /\ Past = OfKind(bp, EmitterKind)
<1>1. bp \in Blueprint /\ IsBlueprint(bp) /\ primaries \in Seq(Resources(bp))
  BY BlueprintShape DEF OutputInv, EmissionInv, TypeOK
<1>2. manifest = Loaded(bp)
  BY DEF OutputInv, ManifestLoaded
<1> QED
  BY <1>1, <1>2, ManifestAgrees, FinishedOutput DEF Finishes

LEMMA RolesAreCompiled ==
    ASSUME OutputInv, phase = "done", NEW n, NEW w
    PROVE  <<n, w>> \in Roles(bp) <=>
             /\ n \in {RoleOf(bp, h) : h \in Handlers(bp)}
             /\ w = Unattributed(Merged(
                      LET sharers == SharersOf(bp, Handlers(bp), n)
                      IN  Role(bp, sharers, First(primaries, sharers)),
                      ContributedTo(n)))
<1> DEFINE sharers == SharersOf(bp, Handlers(bp), n)
           role == Role(bp, sharers, First(primaries, sharers))
           promised(h) ==
             [type |-> "role", source |-> "anyone", refs |-> {},
              sharedBy |-> {g \in Handlers(bp) : RolePlan(bp, g) = RolePlan(bp, h)},
              tracing |-> h \in bp.tracing,
              readsStore |-> Backings(bp, h) \cap InStore(bp) # {},
              externalSources |-> ExternalSources(bp, h)]
<1>1. <<n, w>> \in Roles(bp) <=>
        \E h \in Handlers(bp) : n = RoleOf(bp, h) /\ w = promised(h)
  <2>1. Roles(bp) = {<<RoleOf(bp, h), promised(h)>> : h \in Handlers(bp)}
    BY DEF Roles
  <2> HIDE DEF promised
  <2> QED
    BY <2>1
<1>2. ASSUME NEW h \in Handlers(bp), n = RoleOf(bp, h)
      PROVE  Unattributed(Merged(role, ContributedTo(n))) = promised(h)
  <2>1. n[1] # "sns_subscription"
    BY <1>2, NamesApart DEF RoleOf
  <2>2. Merged(role, ContributedTo(n)) = role
    BY <2>1, ContributedNames
  <2>3. Unattributed(role) = promised(h)
    BY <1>2, FinishedPlan, RoleAsPromised
  <2> HIDE DEF role, promised
  <2> QED
    BY <2>2, <2>3
<1> HIDE DEF role, promised
<1>3. <<n, w>> \in Roles(bp) <=>
        /\ n \in {RoleOf(bp, h) : h \in Handlers(bp)}
        /\ w = Unattributed(Merged(role, ContributedTo(n)))
  BY <1>1, <1>2
<1> QED
  BY <1>3 DEF role

LEMMA LayersAreCompiled ==
    ASSUME OutputInv, phase = "done", NEW n, NEW w
    PROVE  <<n, w>> \in Layers(bp) <=>
             \E h \in LayersIn(bp, primaries, manifest) :
                /\ n = LayerName(bp.layer[h])
                /\ w = Unattributed(Merged(
                         LET users == UsersOf(bp, LayersIn(bp, primaries, manifest), n)
                         IN  Layer(bp, users, First(primaries, users)),
                         ContributedTo(n)))
<1> DEFINE users == UsersOf(bp, LayersIn(bp, primaries, manifest), n)
           layer == Layer(bp, users, First(primaries, users))
           promised(h) ==
             [type |-> "layer", source |-> "anyone", refs |-> {},
              runtimes |-> {bp.runtime[g] : g \in {f \in Deployed(bp) :
                                              bp.layer[f] = bp.layer[h]}}]
<1>1. <<n, w>> \in Layers(bp) <=>
        \E h \in Layered(bp) : n = LayerName(bp.layer[h]) /\ w = promised(h)
  <2>1. Layers(bp) = {<<LayerName(bp.layer[h]), promised(h)>> : h \in Layered(bp)}
    BY DEF Layers
  <2> HIDE DEF promised
  <2> QED
    BY <2>1
<1>2. LayersIn(bp, primaries, manifest) = Layered(bp)
  BY FinishedPlan, ManifestAgrees DEF LayersIn, Layered
<1>3. ASSUME NEW h \in Layered(bp), n = LayerName(bp.layer[h])
      PROVE  Unattributed(Merged(layer, ContributedTo(n))) = promised(h)
  <2>1. n[1] # "sns_subscription"
    BY <1>3, NamesApart
  <2>2. Merged(layer, ContributedTo(n)) = layer
    BY <2>1, ContributedNames
  <2>3. Unattributed(layer) = promised(h)
    BY <1>3, FinishedPlan, LayerAsPromised
  <2> HIDE DEF layer, promised
  <2> QED
    BY <2>2, <2>3
<1> HIDE DEF layer, promised
<1>4. <<n, w>> \in Layers(bp) <=>
        \E h \in LayersIn(bp, primaries, manifest) :
            /\ n = LayerName(bp.layer[h])
            /\ w = Unattributed(Merged(layer, ContributedTo(n)))
  BY <1>1, <1>2, <1>3
<1> QED
  BY <1>4 DEF layer

\* A record that is neither a role nor a layer is left as it is.
LEMMA Attributed ==
    ASSUME NEW v, v.type \notin {"role", "layer"}
    PROVE  Unattributed(v) = v
BY DEF Unattributed

LEMMA StoreIsCompiled ==
    ASSUME OutputInv, phase = "done", NEW n, NEW w
    PROVE  <<n, w>> \in ResourcesStore(bp) <=>
             /\ n = StoreName /\ EntriesIn(bp, primaries) # {}
             /\ w = Unattributed(Merged(Store(EntriesIn(bp, primaries)),
                                        ContributedTo(n)))
<1>1. EntriesIn(bp, primaries) = InStore(bp)
  BY FinishedPlan, EntriesAsPromised
<1>2. <<n, w>> \in ResourcesStore(bp) <=>
        n = StoreName /\ InStore(bp) # {} /\ w = Store(InStore(bp))
  BY DEF ResourcesStore
<1>3. ASSUME n = StoreName
      PROVE  Unattributed(Merged(Store(InStore(bp)), ContributedTo(n)))
               = Store(InStore(bp))
  <2>1. n[1] # "sns_subscription"
    BY <1>3, NamesApart
  <2>2. Store(InStore(bp)).type = "store"
    BY DEF Store
  <2> QED
    BY <2>1, <2>2, ContributedNames, Attributed
<1> QED
  BY <1>1, <1>2, <1>3

LEMMA FanoutIsCompiled ==
    ASSUME OutputInv, phase = "done", NEW n, NEW w
    PROVE  <<n, w>> \in Fanout(bp) <=>
             \E c \in AbsorbedIn(bp, primaries) : \E v :
                /\ \/ n = TopicQueueName(c) /\ v = FanoutQueue(c)
                   \/ n = SubscriptionName(c) /\ v = Subscription(c)
                   \/ /\ c \notin bp.noDeadLetter
                      /\ n = TopicDLQName(c) /\ v = FanoutQueue(c)
                /\ w = Unattributed(Merged(v, ContributedTo(n)))
<1> DEFINE subscription(c) ==
             IF LinkedTo(bp, c, {"handler"}) \cap Deployed(bp) = {}
             THEN Subscription(c)
             ELSE [Subscription(c) EXCEPT !.topicArn = TRUE,
                                          !.refs = @ \cup TopicArn(bp, c)]
<1>1. <<n, w>> \in Fanout(bp) <=>
        \/ \E c \in AbsorbedTopics(bp) : n = TopicQueueName(c) /\ w = FanoutQueue(c)
        \/ \E c \in AbsorbedTopics(bp) \ bp.noDeadLetter :
                n = TopicDLQName(c) /\ w = FanoutQueue(c)
        \/ \E c \in AbsorbedTopics(bp) : n = SubscriptionName(c) /\ w = subscription(c)
  <2>1. Fanout(bp) =
          {<<TopicQueueName(c), FanoutQueue(c)>> : c \in AbsorbedTopics(bp)}
            \cup {<<TopicDLQName(c), FanoutQueue(c)>> :
                    c \in AbsorbedTopics(bp) \ bp.noDeadLetter}
            \cup {<<SubscriptionName(c), subscription(c)>> : c \in AbsorbedTopics(bp)}
    BY DEF Fanout
  <2> HIDE DEF subscription
  <2> QED
    BY <2>1
<1>2. AbsorbedIn(bp, primaries) = AbsorbedTopics(bp)
  BY FinishedPlan, TopicsAsPromised
<1>3. ASSUME NEW c, n = TopicQueueName(c) \/ n = TopicDLQName(c)
      PROVE  Unattributed(Merged(FanoutQueue(c), ContributedTo(n))) = FanoutQueue(c)
  <2>1. n[1] # "sns_subscription"
    BY <1>3, NamesApart
  <2>2. FanoutQueue(c).type = "queue"
    BY DEF FanoutQueue
  <2> QED
    BY <2>1, <2>2, ContributedNames, Attributed
<1>4. ASSUME NEW c \in AbsorbedTopics(bp), n = SubscriptionName(c)
      PROVE  Unattributed(Merged(Subscription(c), ContributedTo(n))) = subscription(c)
  <2>1. n[2] = c
    BY <1>4, NamesApart
  <2>2. n \in DOMAIN contributions <=>
          LinkedTo(bp, c, {"handler"}) \cap Deployed(bp) # {}
    <3>1. n \in DOMAIN contributions <=> \E r \in Past : Feeds(bp, r, n)
      BY DEF OutputInv, OutputPart, ContributedExactly
    <3>2. \A r : Feeds(bp, r, n) <=> r \in Deployed(bp) /\ c \in TopicConsumers(bp, r)
      BY <1>4, NamesApart DEF Feeds, Deployed, EmitsFunction
    <3>3. Deployed(bp) \subseteq Past
      BY FinishedPlan DEF Deployed, Handlers, OfKind, EmitterKind, Kind,
                          ContributorKind
    <3>4. (\E r \in Deployed(bp) : c \in TopicConsumers(bp, r)) <=>
             LinkedTo(bp, c, {"handler"}) \cap Deployed(bp) # {}
      BY FinishedPlan, TopicsAsPromised
    <3> QED
      BY <3>1, <3>2, <3>3, <3>4
  <2>3. Subscription(c).type = "subscription"
    BY DEF Subscription
  <2>4. CASE n \notin DOMAIN contributions
    <3>1. Merged(Subscription(c), ContributedTo(n)) = Subscription(c)
      BY <2>4 DEF ContributedTo, Merged
    <3> QED
      BY <2>2, <2>3, <2>4, <3>1, Attributed
  <2>5. CASE n \in DOMAIN contributions
    <3>1. ContributedTo(n) = {TopicArn(bp, c)}
      BY <2>1, <2>5 DEF OutputInv, OutputPart, ContributedExactly, ContributedTo
    <3>2. UNION {TopicArn(bp, c)} = TopicArn(bp, c)
      OBVIOUS
    <3>3. Merged(Subscription(c), ContributedTo(n)) =
            [Subscription(c) EXCEPT !.refs = @ \cup TopicArn(bp, c),
                                    !.topicArn = TRUE]
      BY <3>1, <3>2 DEF Merged
    <3>4. [Subscription(c) EXCEPT !.refs = @ \cup TopicArn(bp, c), !.topicArn = TRUE]
            = [Subscription(c) EXCEPT !.topicArn = TRUE,
                                      !.refs = @ \cup TopicArn(bp, c)]
      BY DEF Subscription
    <3>5. Merged(Subscription(c), ContributedTo(n)) = subscription(c)
      BY <2>2, <2>5, <3>3, <3>4
    <3>6. Merged(Subscription(c), ContributedTo(n)).type = "subscription"
      BY <2>3, MergedType
    <3> HIDE DEF subscription
    <3> QED
      BY <3>5, <3>6, Attributed
  <2> QED
    BY <2>4, <2>5
<1> HIDE DEF subscription
<1> QED
  BY <1>1, <1>2, <1>3, <1>4

\* Every shared parent of the finished output is a promised one, and back.
LEMMA ParentsAreCompiled ==
    ASSUME OutputInv, phase = "done", NEW n, NEW w
    PROVE  (\E v : /\ SeedOf(bp, primaries, manifest, n, v)
                  /\ w = Unattributed(Merged(v, ContributedTo(n))))
             <=> <<n, w>> \in Roles(bp) \cup Layers(bp) \cup Fanout(bp)
                                \cup ResourcesStore(bp)
<1> DEFINE sharers == SharersOf(bp, Handlers(bp), n)
           role == Role(bp, sharers, First(primaries, sharers))
           users == UsersOf(bp, LayersIn(bp, primaries, manifest), n)
           layer == Layer(bp, users, First(primaries, users))
           final(v) == Unattributed(Merged(v, ContributedTo(n)))
<1>1. HandlersIn(bp, primaries) = Handlers(bp)
  BY FinishedPlan
<1>2. \A v : SeedOf(bp, primaries, manifest, n, v) <=>
          \/ n \in {RoleOf(bp, h) : h \in Handlers(bp)} /\ v = role
          \/ \E h \in LayersIn(bp, primaries, manifest) :
                n = LayerName(bp.layer[h]) /\ v = layer
          \/ \E c \in AbsorbedIn(bp, primaries) :
                \/ n = TopicQueueName(c) /\ v = FanoutQueue(c)
                \/ n = SubscriptionName(c) /\ v = Subscription(c)
                \/ /\ c \notin bp.noDeadLetter
                   /\ n = TopicDLQName(c) /\ v = FanoutQueue(c)
          \/ /\ n = StoreName /\ EntriesIn(bp, primaries) # {}
             /\ v = Store(EntriesIn(bp, primaries))
  BY <1>1 DEF SeedOf
<1>3. <<n, w>> \in Roles(bp) <=>
        n \in {RoleOf(bp, h) : h \in Handlers(bp)} /\ w = final(role)
  BY RolesAreCompiled
<1>4. <<n, w>> \in Layers(bp) <=>
        \E h \in LayersIn(bp, primaries, manifest) :
            n = LayerName(bp.layer[h]) /\ w = final(layer)
  BY LayersAreCompiled
<1>5. <<n, w>> \in Fanout(bp) <=>
        \E c \in AbsorbedIn(bp, primaries) : \E v :
            /\ \/ n = TopicQueueName(c) /\ v = FanoutQueue(c)
               \/ n = SubscriptionName(c) /\ v = Subscription(c)
               \/ /\ c \notin bp.noDeadLetter
                  /\ n = TopicDLQName(c) /\ v = FanoutQueue(c)
            /\ w = final(v)
  BY FanoutIsCompiled
<1>6. <<n, w>> \in ResourcesStore(bp) <=>
        /\ n = StoreName /\ EntriesIn(bp, primaries) # {}
        /\ w = final(Store(EntriesIn(bp, primaries)))
  BY StoreIsCompiled
<1> HIDE DEF role, layer, final
<1>7. (\E v : SeedOf(bp, primaries, manifest, n, v) /\ w = final(v)) <=>
        \/ <<n, w>> \in Roles(bp) \/ <<n, w>> \in Layers(bp)
        \/ <<n, w>> \in Fanout(bp) \/ <<n, w>> \in ResourcesStore(bp)
  BY <1>2, <1>3, <1>4, <1>5, <1>6
<1> QED
  BY <1>7 DEF final

\* What an emitter returns is neither a role nor a layer.
LEMMA OwnedIsAttributed ==
    ASSUME NEW b, IsBlueprint(b), NEW r \in OfKind(b, EmitterKind), NEW m,
           NEW n, NEW v, OwnedBy(b, r, m, n, v)
    PROVE  Unattributed(v) = v
<1>1. CASE OwnOf(b, r, m, n, v)
  <2>1. v.type \in {"function", "rule", "esm"}
    BY <1>1 DEF OwnOf, LambdaFunction, ScheduleRule, EventSourceMapping
  <2> QED
    BY <2>1, Attributed
<1>2. CASE v = [type |-> b.kind[r], source |-> r, refs |-> {}]
  <2>1. v.type \in EmitterKind
    BY <1>2 DEF OfKind
  <2>2. v.type \notin {"role", "layer"}
    BY <2>1 DEF EmitterKind, Kind
  <2> QED
    BY <2>2, Attributed
<1> QED
  BY <1>1, <1>2 DEF OwnedBy

\* The finished output is the promised one, name by name.
LEMMA OutputIsCompiled ==
    ASSUME OutputInv, phase = "done", NEW n, ~Contested(n), NEW w
    PROVE  n \in DOMAIN emitted /\ w = Unattributed(emitted[n])
             <=> <<n, w>> \in CompiledResources(bp)
<1> DEFINE own == <<n, w>> \in Computed(bp) \cup Triggered(bp)
           parent == <<n, w>> \in Roles(bp) \cup Layers(bp) \cup Fanout(bp)
                                    \cup ResourcesStore(bp)
<1>1. <<n, w>> \in CompiledResources(bp) <=> own \/ parent
  BY DEF CompiledResources
<1>2. /\ IsBlueprint(bp) /\ Past = OfKind(bp, EmitterKind)
      /\ manifest = ManifestOf(bp) /\ Finishes
  BY FinishedPlan, FinishedOutput
<1>3. \A v : (\E r \in Past : OwnedBy(bp, r, manifest, n, v))
               <=> <<n, v>> \in Computed(bp) \cup Triggered(bp)
  BY <1>2, OwnedAsPromised
<1>4. \A r \in Past : \A v : OwnedBy(bp, r, manifest, n, v) => Unattributed(v) = v
  BY <1>2, OwnedIsAttributed
<1>5. parent <=> \E v : /\ SeedOf(bp, primaries, manifest, n, v)
                        /\ w = Unattributed(Merged(v, ContributedTo(n)))
  BY ParentsAreCompiled
<1>6. ASSUME n \in DOMAIN emitted, w = Unattributed(emitted[n])
      PROVE  own \/ parent
  <2>1. CASE \E r \in Past : OwnedBy(bp, r, manifest, n, emitted[n])
    BY <1>3, <1>4, <1>6, <2>1
  <2>2. CASE \E v : /\ SeedOf(bp, primaries, manifest, n, v)
                    /\ emitted[n] = Merged(v, ContributedTo(n))
    <3> HIDE DEF parent
    <3> QED
      BY <1>5, <1>6, <2>2
  <2> QED
    BY <1>2, <1>6, <2>1, <2>2 DEF Finishes
<1>7. ASSUME own
      PROVE  n \in DOMAIN emitted /\ w = Unattributed(emitted[n])
  <2>1. PICK r \in Past : OwnedBy(bp, r, manifest, n, w)
    BY <1>3, <1>7
  <2>2. n \in DOMAIN emitted /\ emitted[n] = w
    BY <2>1, OwnedOutput
  <2> QED
    BY <1>4, <2>1, <2>2
<1>8. ASSUME parent
      PROVE  n \in DOMAIN emitted /\ w = Unattributed(emitted[n])
  <2>1. PICK v : /\ SeedOf(bp, primaries, manifest, n, v)
                 /\ w = Unattributed(Merged(v, ContributedTo(n)))
    BY <1>5, <1>8
  <2>2. n \in DOMAIN emitted /\ emitted[n] = Merged(v, ContributedTo(n))
    BY <1>2, <2>1 DEF Finishes
  <2> QED
    BY <2>1, <2>2
<1> HIDE DEF own, parent
<1> QED
  BY <1>1, <1>6, <1>7, <1>8

\* So is what it reports.
LEMMA ReportIsCompiled ==
    ASSUME OutputInv, phase = "done"
    PROVE  diagnostics = CompiledDiagnostics(bp)
<1>1. /\ IsBlueprint(bp) /\ Past = OfKind(bp, EmitterKind)
      /\ manifest = ManifestOf(bp) /\ ReportedExactly
  BY FinishedPlan DEF OutputInv, OutputPart
<1>2. Handlers(bp) \subseteq Past
  BY <1>1 DEF Handlers, OfKind, EmitterKind, Kind, ContributorKind
<1>3. bp.refused \subseteq Past \ Handlers(bp)
  BY <1>1 DEF IsBlueprint, Handlers, OfKind
<1>4. \A r \in Past \ Handlers(bp) : \A d :
         d \in Reports(bp, r, manifest) <=> r \in bp.refused /\ d = Error(r)
  BY DEF Reports, PrimaryDiagnostics
<1>5. \A h \in Handlers(bp) :
         Reports(bp, h, manifest) = HandlerDiagnostics(bp, h, ManifestOf(bp))
  BY <1>1 DEF Reports
<1>6. \A d : d \in diagnostics <=> d \in CompiledDiagnostics(bp)
  <2> TAKE d
  <2>1. d \in CompiledDiagnostics(bp) <=>
          \/ \E h \in Handlers(bp) : d \in HandlerDiagnostics(bp, h, ManifestOf(bp))
          \/ \E r \in bp.refused : d = Error(r)
    <3>1. d \in ReportedOfHandlers(bp) <=>
            \E h \in Handlers(bp) : d \in HandlerDiagnostics(bp, h, ManifestOf(bp))
      BY DEF ReportedOfHandlers
    <3>2. d \in ReportedOfRefused(bp) <=> \E r \in bp.refused : d = Error(r)
      BY DEF ReportedOfRefused
    <3> QED
      BY <3>1, <3>2 DEF CompiledDiagnostics
  <2>2. d \in diagnostics <=> \E r \in Past : d \in Reports(bp, r, manifest)
    BY <1>1 DEF ReportedExactly
  <2> QED
    BY <1>2, <1>3, <1>4, <1>5, <2>1, <2>2
<1> QED
  BY <1>6

\* A run that gets to its end has met nothing it must refuse.
LEMMA NothingWasRefused ==
    ASSUME OutputInv, phase = "done"
    PROVE  ~MustRefuse(bp)
<1>1. /\ IsBlueprint(bp) /\ Past = OfKind(bp, EmitterKind)
      /\ ReportedExactly /\ ResolvedOnce
  BY FinishedPlan DEF OutputInv, OutputPart
<1>2. bp.aborts = {}
  BY <1>1 DEF ReportedExactly, IsBlueprint
<1>3. \A r \in Resources(bp) : ~Unresolvable(bp, r)
  BY <1>1 DEF ResolvedOnce, RangeOf
<1>4. Handlers(bp) \subseteq Resources(bp)
  BY DEF Handlers, OfKind
<1> QED
  BY <1>2, <1>3, <1>4 DEF MustRefuse, Unresolvable

-----------------------------------------------------------------------------
(* The refinement.                                                         *)

\* No two triggers of the blueprint ask for one resource name.
Uncontested == \A n : ~Contested(n)

\* What the abstract step needs: a finished run's outcome is the promised one.
Compiled == phase = "done" => Outcome = Compile(bp) /\ ~MustRefuse(bp)

LEMMA FinishedIsCompiled == OutputInv /\ Uncontested => Compiled
<1> SUFFICES ASSUME OutputInv, Uncontested, phase = "done"
             PROVE  Outcome = Compile(bp) /\ ~MustRefuse(bp)
  BY DEF Compiled
<1> DEFINE pairs == {<<n, Unattributed(emitted[n])>> : n \in DOMAIN emitted}
<1>1. \A n, w : <<n, w>> \in pairs <=> n \in DOMAIN emitted /\ w = Unattributed(emitted[n])
  OBVIOUS
<1>2. \A p \in pairs : p = <<p[1], p[2]>>
  OBVIOUS
<1>3. \A p \in CompiledResources(bp) : p = <<p[1], p[2]>>
  <2>1. \A p \in Computed(bp) : p = <<p[1], p[2]>>
    BY DEF Computed
  <2>2. \A p \in Triggered(bp) : p = <<p[1], p[2]>>
    BY DEF Triggered, Rules, Mappings
  <2>3. \A p \in Roles(bp) : p = <<p[1], p[2]>>
    BY DEF Roles
  <2>4. \A p \in Layers(bp) : p = <<p[1], p[2]>>
    BY DEF Layers
  <2>5. \A p \in Fanout(bp) : p = <<p[1], p[2]>>
    <3> DEFINE subscription(c) ==
                 IF LinkedTo(bp, c, {"handler"}) \cap Deployed(bp) = {}
                 THEN Subscription(c)
                 ELSE [Subscription(c) EXCEPT !.topicArn = TRUE,
                                              !.refs = @ \cup TopicArn(bp, c)]
    <3>1. \A p \in Fanout(bp) :
            \/ \E c : p = <<TopicQueueName(c), FanoutQueue(c)>>
            \/ \E c : p = <<TopicDLQName(c), FanoutQueue(c)>>
            \/ \E c : p = <<SubscriptionName(c), subscription(c)>>
      BY DEF Fanout
    <3> HIDE DEF subscription
    <3> QED
      BY <3>1
  <2>6. \A p \in ResourcesStore(bp) : p = <<p[1], p[2]>>
    BY DEF ResourcesStore
  <2> QED
    BY <2>1, <2>2, <2>3, <2>4, <2>5, <2>6 DEF CompiledResources
<1>4. \A n, w : <<n, w>> \in pairs <=> <<n, w>> \in CompiledResources(bp)
  BY <1>1, OutputIsCompiled DEF Uncontested
<1>5. pairs = CompiledResources(bp)
  <2> HIDE DEF pairs
  <2> QED
    BY <1>2, <1>3, <1>4
<1>6. Outcome = [outcome |-> "compiled", resources |-> pairs,
                 diagnostics |-> diagnostics]
  BY DEF Outcome
<1> HIDE DEF pairs
<1> QED
  BY <1>5, <1>6, ReportIsCompiled, NothingWasRefused DEF Compile

\* The initial states are initial states of the promise.
LEMMA PromiseInit == Init => Promise!Init
BY DEF Init, Promise!Init, Promise!Pending, Outcome

\* The blueprint stays what it was.
LEMMA BlueprintIsFixed == [Next]_vars => bp' = bp
BY DEF Next, Step, Finished, vars, OnRun, Resolve, ResolveFails, AllResolved, Absorb,
       Keep, PlanSharedParents, EmitFails, EmitHandler, EmitPrimary, Emit,
       MergeSharedParents

\* Every step is the promised step or leaves the outcome as it is.
LEMMA PromiseStep ==
    TypeOK /\ Compiled' /\ [Next]_vars => [Promise!Transform]_<<bp, Outcome>>
<1> SUFFICES ASSUME TypeOK, Compiled', [Next]_vars
             PROVE  Promise!Transform \/ UNCHANGED <<bp, Outcome>>
  OBVIOUS
<1>1. bp' = bp
  BY BlueprintIsFixed
<1>2. CASE phase' \notin {"done", "failed"} /\ phase \notin {"done", "failed"}
  BY <1>1, <1>2 DEF Outcome
<1>3. CASE UNCHANGED vars
  BY <1>3 DEF vars, Outcome
<1>4. CASE \E r \in Resources(bp) : ResolveFails(r)
  <2>1. PICK r \in Resources(bp) : ResolveFails(r)
    BY <1>4
  <2>2. MustRefuse(bp)
    BY <2>1 DEF ResolveFails, Unresolvable, MustRefuse
  <2>3. Outcome = [outcome |-> "pending"] /\ Outcome' = [outcome |-> "refused"]
    BY <2>1 DEF ResolveFails, Outcome
  <2> QED
    BY <1>1, <2>2, <2>3 DEF Promise!Transform, Promise!Pending, Promise!Refused
<1>5. CASE EmitFails
  <2>1. MustRefuse(bp)
    BY <1>5 DEF EmitFails, MustRefuse
  <2>2. Outcome = [outcome |-> "pending"] /\ Outcome' = [outcome |-> "refused"]
    BY <1>5 DEF EmitFails, Outcome
  <2> QED
    BY <1>1, <2>1, <2>2 DEF Promise!Transform, Promise!Pending, Promise!Refused
<1>6. CASE MergeSharedParents
  <2>1. Outcome = [outcome |-> "pending"] /\ phase' = "done"
    BY <1>6 DEF MergeSharedParents, Outcome
  <2>2. Outcome' = Compile(bp) /\ ~MustRefuse(bp)
    BY <1>1, <2>1 DEF Compiled
  <2> QED
    BY <1>1, <2>1, <2>2 DEF Promise!Transform, Promise!Pending
<1> QED
  BY <1>2, <1>3, <1>4, <1>5, <1>6
     DEF Next, Step, Finished, OnRun, Resolve, AllResolved, Absorb, Keep,
         PlanSharedParents, EmitHandler, EmitPrimary, Emit

\* In a blueprint where no two triggers ask for one resource name, the output of
\* a run is the promised one or none, whatever order its resources were resolved
\* in (TransformSpec's liveness, that there is an output, stays with TLC).
THEOREM OutputDependsOnBlueprint == Spec /\ Uncontested => Promise!Safety
<1>1. Uncontested /\ [Next]_vars => Uncontested'
  BY BlueprintIsFixed DEF Uncontested, Contested
<1>2. OutputInv /\ Uncontested => Compiled
  BY FinishedIsCompiled
<1>3. OutputInv => TypeOK
  BY DEF OutputInv, EmissionInv
<1> QED
  BY <1>1, <1>2, <1>3, OutputAlways, PromiseInit, PromiseStep, PTL
     DEF Spec, Promise!Safety
=============================================================================
