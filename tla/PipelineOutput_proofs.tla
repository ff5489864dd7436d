------------------------ MODULE PipelineOutput_proofs ------------------------
(***************************************************************************)
(* What a run has emitted, reported and contributed at every moment, as a  *)
(* function of the primaries it has emitted so far; from it, the           *)
(* completeness of the output: sharing annotations, store, layers,         *)
(* references and triggers.                                                *)
(***************************************************************************)
EXTENDS TransformPipeline_proofs, FiniteSetTheorems

-----------------------------------------------------------------------------
(* The emitters' maps as relations between names and resources.            *)

\* v is what handler h emits under the name n.
OwnOf(b, h, m, n, v) ==
    \/ n = FuncName(h) /\ v = LambdaFunction(b, h, m)
    \/ \E s \in Schedules(b, h) \ b.noExpression :
            n = RuleName(s) /\ v = ScheduleRule(h, s)
    \/ \E x \in ExternalSources(b, h) :
            n = ESMName(x[1], x[2]) /\ v = EventSourceMapping(h, x[1])

\* v is what the primary r emits under the name n.
OwnedBy(b, r, m, n, v) ==
    \/ r \in Handlers(b) /\ EmitsFunction(b, r) /\ OwnOf(b, r, m, n, v)
    \/ /\ r \notin Handlers(b) /\ r \notin b.refused
       /\ n = PrimaryName(r)
       /\ v = [type |-> b.kind[r], source |-> r, refs |-> {}]

\* v is what the map f holds under the name n.
Maps(f, n, v) == n \in DOMAIN f /\ v = f[n]

AbsorbedIn(b, order) == UNION {TopicConsumers(b, h) : h \in HandlersIn(b, order)}
LayersIn(b, order, m) ==
    {h \in HandlersIn(b, order) :
        b.layer[h] # NoLayer /\ m \in {"noLambda", "lambda"}}
EntriesIn(b, order) == UNION {StoreEntries(b, h) : h \in HandlersIn(b, order)}

\* v is the seed of the shared parent n.
SeedOf(b, order, m, n, v) ==
    \/ /\ n \in {RoleOf(b, h) : h \in HandlersIn(b, order)}
       /\ v = LET sharers == SharersOf(b, HandlersIn(b, order), n)
              IN  Role(b, sharers, First(order, sharers))
    \/ \E h \in LayersIn(b, order, m) :
            /\ n = LayerName(b.layer[h])
            /\ v = LET users == UsersOf(b, LayersIn(b, order, m), n)
                   IN  Layer(b, users, First(order, users))
    \/ \E c \in AbsorbedIn(b, order) :
            \/ n = TopicQueueName(c) /\ v = FanoutQueue(c)
            \/ n = SubscriptionName(c) /\ v = Subscription(c)
            \/ c \notin b.noDeadLetter /\ n = TopicDLQName(c) /\ v = FanoutQueue(c)
    \/ n = StoreName /\ EntriesIn(b, order) # {} /\ v = Store(EntriesIn(b, order))

\* The members of an overlay of two maps without a common name.
LEMMA OverlayApart ==
    ASSUME NEW f, NEW g, DOMAIN f \cap DOMAIN g = {}
    PROVE  \A n, v : Maps(Overlay(f, g), n, v) <=>
                \/ Maps(f, n, v)
                \/ Maps(g, n, v)
BY DEF Overlay, Maps

\* Names of different families differ, and those with one part tell it.
LEMMA NamesApart ==
    /\ \A x : FuncName(x)[1] = "lambda_func" /\ FuncName(x)[2] = x
    /\ \A x : RoleName(x)[1] = "celerityLambdaExec"
    /\ \A x : LayerName(x)[1] = "celerityLambdaLayer"
    /\ \A x : RuleName(x)[1] = "events_rule" /\ RuleName(x)[2] = x
    /\ \A x, y : ESMName(x, y)[1] = "esm"
    /\ \A x : TopicQueueName(x)[1] = "topic_queue" /\ TopicQueueName(x)[2] = x
    /\ \A x : /\ SubscriptionName(x)[1] = "sns_subscription"
              /\ SubscriptionName(x)[2] = x
    /\ \A x : TopicDLQName(x)[1] = "topic_dlq" /\ TopicDLQName(x)[2] = x
    /\ StoreName[1] = "celerityResourcesConfigStore"
    /\ \A x : PrimaryName(x)[1] = "primary" /\ PrimaryName(x)[2] = x
BY DEF FuncName, RoleName, LayerName, RuleName, ESMName, TopicQueueName,
       SubscriptionName, TopicDLQName, StoreName, PrimaryName

\* resources is a map the emitter of r may return: it holds nothing r does not
\* own, and something under every name r owns.
Renders(b, r, m, resources) ==
    /\ \A n \in DOMAIN resources : OwnedBy(b, r, m, n, resources[n])
    /\ \A n, v : OwnedBy(b, r, m, n, v) => n \in DOMAIN resources

LEMMA HandlerMap ==
    ASSUME NEW b, NEW h \in Handlers(b), NEW m,
           NEW resources \in HandlerResources(b, h, m)
    PROVE  Renders(b, h, m, resources)
<1> DEFINE function == [x \in {FuncName(h)} |-> LambdaFunction(b, h, m)]
           rules == ScheduleRules(b, h)
<1>1. \A n, v : Maps(function, n, v)
                    <=> n = FuncName(h) /\ v = LambdaFunction(b, h, m)
  BY DEF Maps
<1>2. \A n, v : Maps(rules, n, v)
                    <=> \E s \in Schedules(b, h) \ b.noExpression :
                            n = RuleName(s) /\ v = ScheduleRule(h, s)
  <2>1. \A s : RuleName(s)[2] = s
    BY NamesApart
  <2>2. \A n \in DOMAIN rules : rules[n] = ScheduleRule(h, n[2])
    BY DEF ScheduleRules
  <2>3. DOMAIN rules = {RuleName(s) : s \in Schedules(b, h) \ b.noExpression}
    BY DEF ScheduleRules
  <2> HIDE DEF rules
  <2> QED
    BY <2>1, <2>2, <2>3 DEF Maps
<1>3. CASE EmitsFunction(b, h)
  <2>1. PICK mappings \in ExternalMappings(b, h) :
          resources = Overlay(Overlay(function, rules), mappings)
    BY <1>3 DEF HandlerResources
  <2>2. /\ DOMAIN mappings = {ESMName(x[1], x[2]) : x \in ExternalSources(b, h)}
        /\ \A n \in DOMAIN mappings : \E x \in ExternalSources(b, h) :
              n = ESMName(x[1], x[2]) /\ mappings[n] = EventSourceMapping(h, x[1])
    BY DEF ExternalMappings
  <2>3. /\ \A n \in DOMAIN function : n[1] = "lambda_func"
        /\ \A n \in DOMAIN rules : n[1] = "events_rule"
    BY NamesApart DEF ScheduleRules
  <2>4. \A n \in DOMAIN mappings : n[1] = "esm"
    BY <2>2, NamesApart
  <2> HIDE DEF function, rules
  <2> DEFINE inner == Overlay(function, rules)
  <2>5. DOMAIN inner = DOMAIN function \cup DOMAIN rules
    BY OverlayDomain
  <2>6. DOMAIN function \cap DOMAIN rules = {} /\ DOMAIN inner \cap DOMAIN mappings = {}
    BY <2>3, <2>4, <2>5
  <2>7. \A n, v : Maps(inner, n, v) <=> Maps(function, n, v) \/ Maps(rules, n, v)
    BY <2>6, OverlayApart
  <2> HIDE DEF inner
  <2>8. \A n, v : Maps(resources, n, v) <=> Maps(inner, n, v) \/ Maps(mappings, n, v)
    BY <2>1, <2>6, OverlayApart DEF inner
  <2>9. \A n, v : Maps(resources, n, v) => OwnOf(b, h, m, n, v)
    <3>1. \A n, v : Maps(mappings, n, v) => OwnOf(b, h, m, n, v)
      BY <2>2 DEF Maps, OwnOf
    <3> QED
      BY <1>1, <1>2, <2>7, <2>8, <3>1 DEF OwnOf
  <2>10. \A n, v : OwnOf(b, h, m, n, v) => n \in DOMAIN resources
    <3>1. ASSUME NEW n, NEW x \in ExternalSources(b, h), n = ESMName(x[1], x[2])
          PROVE  n \in DOMAIN resources
      <4>1. n \in DOMAIN mappings
        BY <2>2, <3>1
      <4> QED
        BY <2>8, <4>1 DEF Maps
    <3>2. \A n, v : Maps(function, n, v) \/ Maps(rules, n, v) => n \in DOMAIN resources
      BY <2>7, <2>8 DEF Maps
    <3> QED
      BY <1>1, <1>2, <3>1, <3>2 DEF OwnOf
  <2> QED
    BY <1>3, <2>9, <2>10 DEF Renders, OwnedBy, Maps
<1>4. CASE ~EmitsFunction(b, h)
  BY <1>4 DEF HandlerResources, Renders, OwnedBy
<1> QED
  BY <1>3, <1>4

LEMMA PrimaryMap ==
    ASSUME NEW b, NEW r, r \notin Handlers(b), NEW m
    PROVE  Renders(b, r, m, PrimaryResources(b, r))
BY DEF PrimaryResources, OwnedBy, Renders

\* The seeds the aggregator plans.
LEMMA ParentMap ==
    ASSUME NEW b, NEW order, NEW m
    PROVE  \A n, v : Maps(SharedParents(b, order, m), n, v)
                     <=> SeedOf(b, order, m, n, v)
<1> DEFINE roles == RoleParents(b, order)
           layers == LayerParents(b, order, m)
           fanouts == FanoutParents(b, order)
           stores == StoreParent(b, order)
           absorbed == AbsorbedIn(b, order)
           queues == [n \in {TopicQueueName(c) : c \in absorbed} |-> FanoutQueue(n[2])]
           subscriptions ==
             [n \in {SubscriptionName(c) : c \in absorbed} |-> Subscription(n[2])]
           letters ==
             [n \in {TopicDLQName(c) : c \in absorbed \ b.noDeadLetter} |->
                FanoutQueue(n[2])]
<1>1. \A n, v : Maps(roles, n, v) <=>
                  /\ n \in {RoleOf(b, h) : h \in HandlersIn(b, order)}
                  /\ v = LET sharers == SharersOf(b, HandlersIn(b, order), n)
                         IN  Role(b, sharers, First(order, sharers))
  BY DEF RoleParents, Maps
<1>2. \A n, v : Maps(layers, n, v) <=>
                  \E h \in LayersIn(b, order, m) :
                    /\ n = LayerName(b.layer[h])
                    /\ v = LET users == UsersOf(b, LayersIn(b, order, m), n)
                           IN  Layer(b, users, First(order, users))
  <2>1. \A n \in DOMAIN layers :
          layers[n] = Layer(b, UsersOf(b, LayersIn(b, order, m), n),
                            First(order, UsersOf(b, LayersIn(b, order, m), n)))
    BY DEF LayerParents, LayersIn
  <2>2. DOMAIN layers = {LayerName(b.layer[h]) : h \in LayersIn(b, order, m)}
    BY DEF LayerParents, LayersIn
  <2> HIDE DEF layers
  <2> QED
    BY <2>1, <2>2 DEF Maps
<1>3. \A n, v : Maps(stores, n, v) <=>
                  /\ n = StoreName /\ EntriesIn(b, order) # {}
                  /\ v = Store(EntriesIn(b, order))
  BY DEF StoreParent, EntriesIn, Maps
<1>4. \A n, v :
        /\ Maps(queues, n, v) <=>
                \E c \in absorbed : n = TopicQueueName(c) /\ v = FanoutQueue(c)
        /\ Maps(subscriptions, n, v) <=>
                \E c \in absorbed : n = SubscriptionName(c) /\ v = Subscription(c)
        /\ Maps(letters, n, v) <=>
                \E c \in absorbed \ b.noDeadLetter :
                    n = TopicDLQName(c) /\ v = FanoutQueue(c)
  <2>1. \A c : /\ TopicQueueName(c)[2] = c /\ SubscriptionName(c)[2] = c
               /\ TopicDLQName(c)[2] = c
    BY NamesApart
  <2> HIDE DEF absorbed
  <2> QED
    BY <2>1 DEF Maps
<1>5. /\ \A n \in DOMAIN queues : n[1] = "topic_queue"
      /\ \A n \in DOMAIN subscriptions : n[1] = "sns_subscription"
      /\ \A n \in DOMAIN letters : n[1] = "topic_dlq"
  BY NamesApart
<1>6. fanouts = Overlay(Overlay(queues, subscriptions), letters)
  BY DEF FanoutParents, AbsorbedIn
<1>7. /\ \A n \in DOMAIN roles : n[1] = "celerityLambdaExec"
      /\ \A n \in DOMAIN layers : n[1] = "celerityLambdaLayer"
      /\ \A n \in DOMAIN stores : n[1] = "celerityResourcesConfigStore"
  <2>1. \A n \in DOMAIN roles : \E h : n = RoleOf(b, h)
    BY DEF RoleParents
  <2>2. \A n \in DOMAIN layers : \E x : n = LayerName(x)
    BY DEF LayerParents
  <2>3. \A n \in DOMAIN stores : n = StoreName
    BY DEF StoreParent
  <2> HIDE DEF roles, layers, stores
  <2> QED
    BY <2>1, <2>2, <2>3, NamesApart DEF RoleOf
<1>8. SharedParents(b, order, m)
        = Overlay(Overlay(Overlay(roles, layers), fanouts), stores)
  BY DEF SharedParents
<1> HIDE DEF roles, layers, fanouts, stores, queues, subscriptions, letters, absorbed
<1>9. \A n, v : Maps(Overlay(queues, subscriptions), n, v) <=>
                   \/ Maps(queues, n, v)
                   \/ Maps(subscriptions, n, v)
  <2>1. DOMAIN queues \cap DOMAIN subscriptions = {}
    BY <1>5
  <2> QED
    BY <2>1, OverlayApart
<1>10. \A n, v : Maps(fanouts, n, v) <=>
                   \/ Maps(queues, n, v)
                   \/ Maps(subscriptions, n, v)
                   \/ Maps(letters, n, v)
  <2>1. DOMAIN Overlay(queues, subscriptions) = DOMAIN queues \cup DOMAIN subscriptions
    BY OverlayDomain
  <2>2. DOMAIN Overlay(queues, subscriptions) \cap DOMAIN letters = {}
    BY <1>5, <2>1
  <2> DEFINE both == Overlay(queues, subscriptions)
             all == Overlay(both, letters)
  <2>3. \A n, v : Maps(all, n, v) <=>
                    \/ Maps(both, n, v)
                    \/ Maps(letters, n, v)
    <3> HIDE DEF both
    <3> QED
      BY <2>2, OverlayApart DEF both
  <2>4. fanouts = all
    BY <1>6
  <2> HIDE DEF all
  <2> QED
    BY <1>9, <2>3, <2>4
<1>11. \A n \in DOMAIN fanouts :
         n[1] \in {"topic_queue", "sns_subscription", "topic_dlq"}
  <2>1. \A n \in DOMAIN fanouts : n \in DOMAIN queues \/ n \in DOMAIN subscriptions
                                    \/ n \in DOMAIN letters
    BY <1>10 DEF Maps
  <2> QED
    BY <2>1, <1>5
<1>12. \A n, v : Maps(Overlay(roles, layers), n, v) <=>
                   \/ Maps(roles, n, v)
                   \/ Maps(layers, n, v)
  <2>1. DOMAIN roles \cap DOMAIN layers = {}
    BY <1>7
  <2> QED
    BY <2>1, OverlayApart
<1> DEFINE upper == Overlay(roles, layers)
           lower == Overlay(upper, fanouts)
<1>13. \A n \in DOMAIN upper : n[1] \in {"celerityLambdaExec", "celerityLambdaLayer"}
  <2>1. DOMAIN upper = DOMAIN roles \cup DOMAIN layers
    BY OverlayDomain
  <2>2. ASSUME NEW n \in DOMAIN upper
        PROVE  n \in DOMAIN roles \/ n \in DOMAIN layers
    <3> HIDE DEF upper
    <3> QED
      BY <2>1, <2>2
  <2> HIDE DEF upper
  <2> QED
    BY <2>2, <1>7
<1>14. \A n, v : Maps(lower, n, v) <=>
                   \/ Maps(upper, n, v)
                   \/ Maps(fanouts, n, v)
  <2> HIDE DEF upper
  <2>1. DOMAIN upper \cap DOMAIN fanouts = {}
    BY <1>11, <1>13
  <2> QED
    BY <2>1, OverlayApart
<1>15. \A n \in DOMAIN lower : n \in DOMAIN upper \/ n \in DOMAIN fanouts
  <2> HIDE DEF upper
  <2> QED
    BY OverlayDomain
<1> DEFINE planned == Overlay(lower, stores)
<1> HIDE DEF upper, lower
<1>16. DOMAIN lower \cap DOMAIN stores = {}
  BY <1>7, <1>11, <1>13, <1>15
<1>17. \A n, v : Maps(planned, n, v) <=>
                     \/ Maps(lower, n, v)
                     \/ Maps(stores, n, v)
  BY <1>16, OverlayApart
<1>18. SharedParents(b, order, m) = planned
  BY <1>8 DEF lower, upper
<1>19. \A n, v : Maps(upper, n, v) <=>
                   \/ Maps(roles, n, v)
                   \/ Maps(layers, n, v)
  BY <1>12 DEF upper
<1> HIDE DEF planned
<1>20. \A n, v : Maps(planned, n, v) <=>
                   \/ Maps(roles, n, v)
                   \/ Maps(layers, n, v)
                   \/ Maps(queues, n, v)
                   \/ Maps(subscriptions, n, v)
                   \/ Maps(letters, n, v)
                   \/ Maps(stores, n, v)
  BY <1>10, <1>14, <1>17, <1>19
<1>21. \A n, v : Maps(planned, n, v) <=>
                   SeedOf(b, order, m, n, v)
  <2> TAKE n, v
  <2>1. /\ Maps(queues, n, v) <=>
                \E c \in AbsorbedIn(b, order) :
                    n = TopicQueueName(c) /\ v = FanoutQueue(c)
        /\ Maps(subscriptions, n, v) <=>
                \E c \in AbsorbedIn(b, order) :
                    n = SubscriptionName(c) /\ v = Subscription(c)
        /\ Maps(letters, n, v) <=>
                \E c \in AbsorbedIn(b, order) : /\ c \notin b.noDeadLetter
                    /\ n = TopicDLQName(c) /\ v = FanoutQueue(c)
    BY <1>4 DEF absorbed
  <2> QED
    BY <1>1, <1>2, <1>3, <1>20, <2>1 DEF SeedOf
<1> QED
  BY <1>18, <1>21

\* An emitter's name is never a shared parent's.
LEMMA OwnedIsNoParent ==
    ASSUME NEW b, NEW r, NEW order, NEW m, NEW n, NEW v, NEW p,
           OwnedBy(b, r, m, n, v), SeedOf(b, order, m, n, p)
    PROVE  FALSE
<1>1. n[1] \in {"lambda_func", "events_rule", "esm", "primary"}
  BY NamesApart DEF OwnedBy, OwnOf
<1>2. CASE n \in {RoleOf(b, h) : h \in HandlersIn(b, order)}
  BY <1>1, <1>2, NamesApart DEF RoleOf
<1>3. CASE n \notin {RoleOf(b, h) : h \in HandlersIn(b, order)}
  <2>1. n[1] \in {"celerityLambdaLayer", "topic_queue", "sns_subscription",
                  "topic_dlq", "celerityResourcesConfigStore"}
    BY <1>3, NamesApart DEF SeedOf
  <2> QED
    BY <1>1, <2>1
<1> QED
  BY <1>2, <1>3

-----------------------------------------------------------------------------
(* The inductive invariant.                                                *)

\* The primaries emitted so far.
Past ==
    IF phase \in {"emit", "done"}
    THEN {primaries[i] : i \in {j \in DOMAIN primaries : j < next}}
    ELSE {}

\* What the emitter of r reports, and whether it contributes to n.
Reports(b, r, m) ==
    IF r \in Handlers(b) THEN HandlerDiagnostics(b, r, m)
                         ELSE PrimaryDiagnostics(b, r)
Feeds(b, r, n) ==
    /\ r \in Handlers(b) /\ EmitsFunction(b, r)
    /\ \E c \in TopicConsumers(b, r) : n = SubscriptionName(c)

\* The manifest the run hook leaves behind.
Loaded(b) == IF b.manifest = "noPath" THEN "none"
             ELSE IF b.manifest = "unreadable" THEN "failed"
             ELSE b.manifest

\* Every resource is resolved once, and all of them before the aggregation.
ResolvedOnce ==
    /\ \A i, j \in DOMAIN resolved : resolved[i] = resolved[j] => i = j
    /\ \A i \in DOMAIN resolved : ~Unresolvable(bp, resolved[i])
    /\ phase \in {"aggregate", "emit", "done"} => RangeOf(resolved) = Resources(bp)

\* The aggregation keeps, once each, what no handler absorbs.
KeptOnce ==
    /\ \A i, j \in DOMAIN primaries : primaries[i] = primaries[j] => i = j
    /\ phase \in {"start", "resolve"} => primaries = << >> /\ next = 1
    /\ phase = "aggregate" =>
          RangeOf(primaries) =
            {resolved[i] : i \in {j \in DOMAIN resolved :
                                    j < next /\ ~IsContributor(resolved[j])}}
    /\ phase \in {"emit", "done"} => RangeOf(primaries) = OfKind(bp, EmitterKind)

ManifestLoaded ==
    phase \in {"resolve", "aggregate", "emit", "done"} => manifest = Loaded(bp)

\* The output is the emitters' over the past primaries, then the merge's.
EmittedExactly ==
    /\ \A n \in DOMAIN emitted :
          \/ \E r \in Past : OwnedBy(bp, r, manifest, n, emitted[n])
          \/ /\ phase = "done" /\ n \in DOMAIN parents
             /\ emitted[n] = Merged(parents[n], ContributedTo(n))
    /\ \A r \in Past : \A n, v :
          OwnedBy(bp, r, manifest, n, v) => n \in DOMAIN emitted
    /\ phase = "done" => /\ DOMAIN parents \subseteq DOMAIN emitted
                         /\ next > Len(primaries)

ContributedExactly ==
    /\ \A n : n \in DOMAIN contributions <=> \E r \in Past : Feeds(bp, r, n)
    /\ \A n \in DOMAIN contributions : contributions[n] = {TopicArn(bp, n[2])}

ReportedExactly ==
    /\ \A d : d \in diagnostics <=> \E r \in Past : d \in Reports(bp, r, manifest)
    /\ \A r \in Past : r \notin bp.aborts

OutputPart == EmittedExactly /\ ContributedExactly /\ ReportedExactly

OutputInv ==
    /\ EmissionInv
    /\ ResolvedOnce
    /\ KeptOnce
    /\ ManifestLoaded
    /\ phase # "failed" => OutputPart

LEMMA OutputInit == Init => OutputInv
<1> SUFFICES ASSUME Init PROVE OutputInv
  OBVIOUS
<1>1. EmissionInv
  BY EmissionInit
<1>2. Past = {} /\ DOMAIN emitted = {} /\ DOMAIN contributions = {}
      /\ diagnostics = {} /\ phase = "start"
  BY DEF Init, Nothing, Past
<1>3. ResolvedOnce /\ KeptOnce /\ ManifestLoaded
  BY DEF Init, ResolvedOnce, KeptOnce, ManifestLoaded
<1>4. EmittedExactly /\ ContributedExactly /\ ReportedExactly
  BY <1>2 DEF EmittedExactly, ContributedExactly, ReportedExactly
<1> QED
  BY <1>1, <1>3, <1>4 DEF OutputInv, OutputPart

\* Before the emission nothing is emitted, contributed or reported: the steps
\* of the first three phases have only the orders to keep.
LEMMA EarlySteps ==
    ASSUME OutputInv, phase \in {"start", "resolve", "aggregate"},
           phase' \in {"resolve", "aggregate", "emit"}, next' = 1 \/ phase' # "emit",
           UNCHANGED <<bp, emitted, contributions, diagnostics>>, TypeOK'
    PROVE  OutputPart'
<1>1. Past = {}
  BY DEF Past
<1>2. Past' = {}
  <2>1. CASE phase' = "emit"
    <3>1. \A j \in DOMAIN primaries' : next' = 1 => ~(j < next')
      BY DEF TypeOK
    <3> QED
      BY <2>1, <3>1 DEF Past
  <2> QED
    BY <2>1 DEF Past
<1>3. EmittedExactly /\ ContributedExactly /\ ReportedExactly
  BY DEF OutputInv, OutputPart
<1> QED
  BY <1>1, <1>2, <1>3
     DEF OutputPart, EmittedExactly, ContributedExactly, ReportedExactly

LEMMA OutputOfResolve ==
    ASSUME OutputInv, NEW r, Resolve(r), TypeOK'
    PROVE  (ResolvedOnce /\ KeptOnce /\ ManifestLoaded /\ OutputPart)'
<1>1. resolved \in Seq(Resources(bp))
  BY DEF OutputInv, EmissionInv, TypeOK
<1>2. /\ phase = "resolve" /\ phase' = "resolve" /\ r \notin RangeOf(resolved)
      /\ ~Unresolvable(bp, r) /\ resolved' = Append(resolved, r)
      /\ UNCHANGED <<bp, phase, manifest, primaries, next, parents, emitted,
                     contributions, diagnostics>>
  BY DEF Resolve
<1>3. /\ DOMAIN resolved' = 1..(Len(resolved) + 1)
      /\ \A i \in 1..Len(resolved) : resolved'[i] = resolved[i]
      /\ resolved'[Len(resolved) + 1] = r
  BY <1>1, <1>2
<1>4. DOMAIN resolved = 1..Len(resolved) /\ Len(resolved) \in Nat
  BY <1>1
<1>5. ResolvedOnce'
  <2>1. \A i \in 1..Len(resolved) : resolved[i] # r
    BY <1>2, <1>4 DEF RangeOf
  <2>2. \A i \in 1..(Len(resolved) + 1) : i \in 1..Len(resolved) \/ i = Len(resolved) + 1
    BY <1>4
  <2>3. \A i, j \in DOMAIN resolved' : resolved'[i] = resolved'[j] => i = j
    BY <1>3, <1>4, <2>1, <2>2 DEF OutputInv, ResolvedOnce
  <2>4. \A i \in DOMAIN resolved' : ~Unresolvable(bp, resolved'[i])
    BY <1>2, <1>3, <1>4, <2>2 DEF OutputInv, ResolvedOnce
  <2> QED
    BY <1>2, <2>3, <2>4 DEF ResolvedOnce
<1>6. KeptOnce' /\ ManifestLoaded'
  BY <1>2 DEF OutputInv, KeptOnce, ManifestLoaded
<1> QED
  BY <1>2, <1>5, <1>6, EarlySteps

LEMMA OutputOfKeep ==
    ASSUME OutputInv, Absorb \/ Keep, TypeOK'
    PROVE  (ResolvedOnce /\ KeptOnce /\ ManifestLoaded /\ OutputPart)'
<1> DEFINE kept(k) == {resolved[i] : i \in {j \in DOMAIN resolved :
                                    j < k /\ ~IsContributor(resolved[j])}}
<1>1. /\ resolved \in Seq(Resources(bp)) /\ primaries \in Seq(Resources(bp))
      /\ next \in Nat \ {0}
  BY DEF OutputInv, EmissionInv, TypeOK
<1>2. /\ phase = "aggregate" /\ phase' = "aggregate" /\ next \in DOMAIN resolved
      /\ next' = next + 1
      /\ UNCHANGED <<bp, manifest, resolved, parents, emitted,
                     contributions, diagnostics>>
  BY <1>1 DEF Absorb, Keep
<1>3. RangeOf(primaries) = kept(next)
  BY <1>2 DEF OutputInv, KeptOnce
<1>4. \A j \in DOMAIN resolved : j < next + 1 <=> j < next \/ j = next
  BY <1>1
<1>5. ResolvedOnce' /\ ManifestLoaded'
  BY <1>2 DEF OutputInv, ResolvedOnce, ManifestLoaded, RangeOf, Unresolvable
<1>6. CASE Absorb
  <2>1. IsContributor(resolved[next]) /\ primaries' = primaries
    BY <1>6 DEF Absorb
  <2>2. kept(next + 1) = kept(next)
    BY <1>2, <1>4, <2>1
  <2>3. KeptOnce'
    BY <1>2, <1>3, <2>1, <2>2 DEF KeptOnce, OutputInv, RangeOf, IsContributor
  <2> QED
    BY <1>2, <1>5, <2>3, EarlySteps
<1>7. CASE Keep
  <2> DEFINE r == resolved[next]
  <2>1. ~IsContributor(r) /\ primaries' = Append(primaries, r)
    BY <1>7 DEF Keep
  <2>2. kept(next + 1) = kept(next) \cup {r}
    BY <1>2, <1>4, <2>1
  <2>3. r \notin kept(next)
    <3>1. \A i \in DOMAIN resolved : i < next => resolved[i] # r
      BY <1>1, <1>2 DEF OutputInv, ResolvedOnce
    <3> QED
      BY <3>1
  <2> HIDE DEF r
  <2>4. /\ DOMAIN primaries' = 1..(Len(primaries) + 1)
        /\ \A i \in 1..Len(primaries) : primaries'[i] = primaries[i]
        /\ primaries'[Len(primaries) + 1] = r
        /\ DOMAIN primaries = 1..Len(primaries) /\ Len(primaries) \in Nat
    BY <1>1, <2>1
  <2>5. \A i \in 1..(Len(primaries) + 1) :
          i \in 1..Len(primaries) \/ i = Len(primaries) + 1
    BY <2>4
  <2>6. RangeOf(primaries') = RangeOf(primaries) \cup {r}
    BY <2>4, <2>5 DEF RangeOf
  <2>7. \A i \in 1..Len(primaries) : primaries[i] # r
    BY <1>3, <2>3, <2>4 DEF RangeOf
  <2>8. \A i, j \in DOMAIN primaries' : primaries'[i] = primaries'[j] => i = j
    BY <2>4, <2>5, <2>7 DEF OutputInv, KeptOnce
  <2>9. KeptOnce'
    BY <1>2, <1>3, <2>2, <2>6, <2>8 DEF KeptOnce, RangeOf, IsContributor
  <2> QED
    BY <1>2, <1>5, <2>9, EarlySteps
<1> QED
  BY <1>6, <1>7

LEMMA OutputOfPlan ==
    ASSUME OutputInv, PlanSharedParents, TypeOK'
    PROVE  (ResolvedOnce /\ KeptOnce /\ ManifestLoaded /\ OutputPart)'
<1>1. /\ resolved \in Seq(Resources(bp)) /\ next \in Nat \ {0}
      /\ IsBlueprint(bp)
  BY BlueprintShape DEF OutputInv, EmissionInv, TypeOK
<1>2. /\ phase = "aggregate" /\ phase' = "emit" /\ next' = 1 /\ next > Len(resolved)
      /\ UNCHANGED <<bp, manifest, resolved, primaries, emitted, contributions,
                     diagnostics>>
  BY DEF PlanSharedParents
<1>3. \A j \in DOMAIN resolved : j < next
  BY <1>1, <1>2
<1>4. RangeOf(primaries) = {r \in Resources(bp) : ~IsContributor(r)}
  <2>1. RangeOf(primaries) = {resolved[i] : i \in {j \in DOMAIN resolved :
                                              ~IsContributor(resolved[j])}}
    BY <1>2, <1>3 DEF OutputInv, KeptOnce
  <2>2. {resolved[i] : i \in DOMAIN resolved} = Resources(bp)
    BY <1>2 DEF OutputInv, ResolvedOnce, RangeOf
  <2> QED
    BY <2>1, <2>2
<1>5. {r \in Resources(bp) : ~IsContributor(r)} = OfKind(bp, EmitterKind)
  BY <1>1 DEF IsContributor, OfKind, EmitterKind, IsBlueprint
<1>6. KeptOnce'
  BY <1>2, <1>4, <1>5 DEF OutputInv, KeptOnce, RangeOf
<1>7. ResolvedOnce' /\ ManifestLoaded'
  BY <1>2 DEF OutputInv, ResolvedOnce, ManifestLoaded, RangeOf, Unresolvable
<1> QED
  BY <1>2, <1>6, <1>7, EarlySteps

\* Emitting the next primary adds it to the past, and its map to the output.
LEMMA EmissionAdds ==
    ASSUME OutputInv, phase = "emit", next <= Len(primaries), NEW resources,
           Renders(bp, primaries[next], manifest, resources),
           emitted' = Overlay(emitted, resources), next' = next + 1,
           UNCHANGED <<bp, phase, manifest, resolved, primaries, parents>>
    PROVE  /\ Past' = Past \cup {primaries[next]}
           /\ EmittedExactly'
           /\ (ResolvedOnce /\ KeptOnce /\ ManifestLoaded)'
<1> DEFINE r == primaries[next]
<1>1. primaries \in Seq(Resources(bp)) /\ next \in Nat \ {0}
  BY DEF OutputInv, EmissionInv, TypeOK
<1>2. Past' = Past \cup {r}
  <2>1. \A j \in DOMAIN primaries : j < next + 1 <=> j < next \/ j = next
    BY <1>1
  <2>2. next \in DOMAIN primaries
    BY <1>1
  <2>3. Past = {primaries[i] : i \in {j \in DOMAIN primaries : j < next}}
    BY DEF Past
  <2>4. Past' = {primaries[i] : i \in {j \in DOMAIN primaries : j < next + 1}}
    BY DEF Past
  <2> QED
    BY <2>1, <2>2, <2>3, <2>4
<1>3. EmittedExactly
  BY DEF OutputInv, OutputPart
<1>4. \A n \in DOMAIN emitted' :
        \/ n \in DOMAIN resources /\ emitted'[n] = resources[n]
        \/ n \in DOMAIN emitted /\ emitted'[n] = emitted[n]
  BY DEF Overlay
<1>5. DOMAIN emitted' = DOMAIN emitted \cup DOMAIN resources
  BY OverlayDomain
<1> HIDE DEF r
<1>6. \A n \in DOMAIN resources : OwnedBy(bp, r, manifest, n, resources[n])
  BY DEF Renders, r
<1>7. \A n, v : OwnedBy(bp, r, manifest, n, v) => n \in DOMAIN resources
  BY DEF Renders, r
<1>8. EmittedExactly'
  <2>1. ASSUME NEW n \in DOMAIN emitted'
        PROVE  \E x \in Past' : OwnedBy(bp, x, manifest, n, emitted'[n])
    BY <1>2, <1>3, <1>4, <1>6, <2>1 DEF EmittedExactly
  <2>2. ASSUME NEW x \in Past', NEW n, NEW v, OwnedBy(bp, x, manifest, n, v)
        PROVE  n \in DOMAIN emitted'
    BY <1>2, <1>3, <1>5, <1>7, <2>2 DEF EmittedExactly
  <2> QED
    BY <2>1, <2>2 DEF EmittedExactly
<1>9. (ResolvedOnce /\ KeptOnce /\ ManifestLoaded)'
  BY DEF OutputInv, ResolvedOnce, KeptOnce, ManifestLoaded, RangeOf, Unresolvable
<1> QED
  BY <1>2, <1>8, <1>9 DEF r

LEMMA OutputOfHandler ==
    ASSUME OutputInv, EmitHandler
    PROVE  (ResolvedOnce /\ KeptOnce /\ ManifestLoaded /\ OutputPart)'
<1> DEFINE h == primaries[next]
           values == HandlerContributions(bp, h)
<1>1. PICK resources \in HandlerResources(bp, h, manifest) :
        /\ phase = "emit" /\ next <= Len(primaries)
        /\ h \in Handlers(bp) /\ h \notin bp.aborts
        /\ emitted' = Overlay(emitted, resources)
        /\ diagnostics' = diagnostics \cup HandlerDiagnostics(bp, h, manifest)
        /\ contributions' = Contribute(contributions, values)
        /\ next' = next + 1
        /\ UNCHANGED <<bp, phase, manifest, resolved, primaries, parents>>
  BY DEF EmitHandler, Emit
<1>2. Renders(bp, h, manifest, resources)
  BY <1>1, HandlerMap
<1>3. /\ Past' = Past \cup {h} /\ EmittedExactly'
      /\ (ResolvedOnce /\ KeptOnce /\ ManifestLoaded)'
  BY <1>1, <1>2, EmissionAdds
<1>4. ContributedExactly /\ ReportedExactly
  BY <1>1 DEF OutputInv, OutputPart
<1> HIDE DEF h
<1>5. /\ \A n : n \in DOMAIN values <=> Feeds(bp, h, n)
      /\ \A n \in DOMAIN values : values[n] = TopicArn(bp, n[2])
  <2>1. CASE EmitsFunction(bp, h)
    BY <1>1, <2>1 DEF HandlerContributions, Feeds
  <2>2. CASE ~EmitsFunction(bp, h)
    BY <2>2 DEF HandlerContributions, Feeds
  <2> QED
    BY <2>1, <2>2
<1> HIDE DEF values
<1>6. DOMAIN contributions' = DOMAIN contributions \cup DOMAIN values
  BY <1>1 DEF Contribute
<1>7. \A n \in DOMAIN contributions' : contributions'[n] = {TopicArn(bp, n[2])}
  <2> TAKE n \in DOMAIN contributions'
  <2>1. contributions'[n] =
          (IF n \in DOMAIN contributions THEN contributions[n] ELSE {})
             \cup (IF n \in DOMAIN values THEN {values[n]} ELSE {})
    BY <1>1 DEF Contribute
  <2> QED
    BY <1>4, <1>5, <1>6, <2>1 DEF ContributedExactly
<1>8. ContributedExactly'
  BY <1>1, <1>3, <1>4, <1>5, <1>6, <1>7 DEF ContributedExactly
<1>9. ReportedExactly'
  BY <1>1, <1>3, <1>4 DEF ReportedExactly, Reports
<1> QED
  BY <1>3, <1>8, <1>9 DEF OutputPart

LEMMA OutputOfPrimary ==
    ASSUME OutputInv, EmitPrimary
    PROVE  (ResolvedOnce /\ KeptOnce /\ ManifestLoaded /\ OutputPart)'
<1> DEFINE r == primaries[next]
<1>1. /\ phase = "emit" /\ next <= Len(primaries)
      /\ r \notin Handlers(bp) /\ r \notin bp.aborts
      /\ emitted' = Overlay(emitted, PrimaryResources(bp, r))
      /\ diagnostics' = diagnostics \cup PrimaryDiagnostics(bp, r)
      /\ contributions' = contributions
      /\ next' = next + 1
      /\ UNCHANGED <<bp, phase, manifest, resolved, primaries, parents>>
  BY DEF EmitPrimary, Emit
<1>2. Renders(bp, r, manifest, PrimaryResources(bp, r))
  BY <1>1, PrimaryMap
<1>3. /\ Past' = Past \cup {r} /\ EmittedExactly'
      /\ (ResolvedOnce /\ KeptOnce /\ ManifestLoaded)'
  BY <1>1, <1>2, EmissionAdds
<1>4. ContributedExactly /\ ReportedExactly
  BY <1>1 DEF OutputInv, OutputPart
<1> HIDE DEF r
<1>5. \A n : ~Feeds(bp, r, n)
  BY <1>1 DEF Feeds
<1>6. ContributedExactly'
  BY <1>1, <1>3, <1>4, <1>5 DEF ContributedExactly
<1>7. ReportedExactly'
  BY <1>1, <1>3, <1>4 DEF ReportedExactly, Reports
<1> QED
  BY <1>3, <1>6, <1>7 DEF OutputPart

\* Everything contributed to one parent agrees, so the merge keeps them all.
LEMMA NothingConflicts ==
    ASSUME OutputInv, phase # "failed"
    PROVE  ConflictingParents = {}
<1>1. ASSUME NEW n
      PROVE  ContributedTo(n) = {} \/ ContributedTo(n) = {TopicArn(bp, n[2])}
  BY DEF OutputInv, OutputPart, ContributedExactly, ContributedTo
<1>2. Cardinality({}) = 0 /\ \A x : Cardinality({x}) = 1
  BY FS_EmptySet, FS_Singleton
<1>3. ASSUME NEW n
      PROVE  ~Conflicting(ContributedTo(n))
  <2>1. Cardinality(ContributedTo(n)) \in {0, 1}
    BY <1>1, <1>2
  <2> QED
    BY <2>1 DEF Conflicting
<1> QED
  BY <1>3 DEF ConflictingParents

LEMMA OutputOfMerge ==
    ASSUME OutputInv, MergeSharedParents
    PROVE  (ResolvedOnce /\ KeptOnce /\ ManifestLoaded /\ OutputPart)'
<1> DEFINE merged == [n \in DOMAIN parents |-> Merged(parents[n], ContributedTo(n))]
<1>1. /\ phase = "emit" /\ phase' = "done" /\ next > Len(primaries)
      /\ UNCHANGED <<bp, manifest, resolved, primaries, next, parents, contributions>>
  BY DEF MergeSharedParents
<1>2. ConflictingParents = {}
  BY <1>1, NothingConflicts
<1>3. emitted' = Overlay(emitted, merged) /\ diagnostics' = diagnostics
  <2>1. DOMAIN parents \ ConflictingParents = DOMAIN parents
    BY <1>2
  <2>2. {Error(parents[n].source) : n \in ConflictingParents} = {}
    BY <1>2
  <2> QED
    BY <2>1, <2>2 DEF MergeSharedParents
<1>4. Past' = Past
  BY <1>1 DEF Past
<1>5. DOMAIN emitted' = DOMAIN emitted \cup DOMAIN parents
  <2>1. DOMAIN merged = DOMAIN parents
    OBVIOUS
  <2> HIDE DEF merged
  <2> QED
    BY <1>3, <2>1, OverlayDomain
<1>6. EmittedExactly'
  <2>1. EmittedExactly
    BY <1>1 DEF OutputInv, OutputPart
  <2>2. \A n \in DOMAIN emitted' :
          \/ n \in DOMAIN parents /\ emitted'[n] = Merged(parents[n], ContributedTo(n))
          \/ n \in DOMAIN emitted /\ emitted'[n] = emitted[n]
    BY <1>3 DEF Overlay
  <2>3. \A n : ContributedTo(n)' = ContributedTo(n)
    BY <1>1 DEF ContributedTo
  <2>4. \A n \in DOMAIN emitted' :
          \/ n \in DOMAIN parents /\ emitted'[n] = Merged(parents[n], ContributedTo(n))
          \/ \E r \in Past : OwnedBy(bp, r, manifest, n, emitted'[n])
    BY <1>1, <2>1, <2>2 DEF EmittedExactly
  <2>5. \A r \in Past' : \A n, v :
          OwnedBy(bp, r, manifest, n, v) => n \in DOMAIN emitted'
    BY <1>4, <1>5, <2>1 DEF EmittedExactly
  <2> QED
    BY <1>1, <1>4, <1>5, <2>3, <2>4, <2>5 DEF EmittedExactly
<1>7. ContributedExactly' /\ ReportedExactly'
  BY <1>1, <1>3, <1>4 DEF OutputInv, OutputPart, ContributedExactly, ReportedExactly
<1>8. (ResolvedOnce /\ KeptOnce /\ ManifestLoaded)'
  BY <1>1 DEF OutputInv, ResolvedOnce, KeptOnce, ManifestLoaded, RangeOf, Unresolvable
<1> QED
  BY <1>6, <1>7, <1>8 DEF OutputPart

LEMMA OutputNext == OutputInv /\ [Next]_vars => OutputInv'
<1> SUFFICES ASSUME OutputInv, [Next]_vars
             PROVE  OutputInv'
  OBVIOUS
<1>1. EmissionInv' /\ TypeOK'
  BY EmissionNext DEF OutputInv, EmissionInv
<1> DEFINE Kept == ResolvedOnce /\ KeptOnce /\ ManifestLoaded
<1> SUFFICES Kept' /\ (phase' # "failed" => OutputPart')
  BY <1>1 DEF OutputInv
<1>2. CASE OnRun
  <2>1. phase = "start" /\ phase' = "resolve" /\ manifest' = Loaded(bp)
        /\ UNCHANGED <<bp, resolved, primaries, next, parents, emitted,
                       contributions, diagnostics>>
    BY <1>2 DEF OnRun, Loaded
  <2>2. Kept'
    BY <2>1 DEF OutputInv, ResolvedOnce, KeptOnce, ManifestLoaded, RangeOf,
                Unresolvable, Loaded
  <2> QED
    BY <1>1, <2>1, <2>2, EarlySteps
<1>3. ASSUME NEW r, Resolve(r)
      PROVE  Kept' /\ OutputPart'
  BY <1>1, <1>3, OutputOfResolve
<1>4. ASSUME NEW r, ResolveFails(r)
      PROVE  Kept' /\ phase' = "failed"
  BY <1>4 DEF ResolveFails, OutputInv, ResolvedOnce, KeptOnce, ManifestLoaded,
              RangeOf, Unresolvable
<1>5. CASE AllResolved
  <2>1. phase = "resolve" /\ phase' = "aggregate"
        /\ RangeOf(resolved) = Resources(bp)
        /\ UNCHANGED <<bp, manifest, resolved, primaries, next, parents, emitted,
                       contributions, diagnostics>>
    BY <1>5 DEF AllResolved
  <2>2. ResolvedOnce' /\ ManifestLoaded'
    BY <2>1 DEF OutputInv, ResolvedOnce, ManifestLoaded, RangeOf, Unresolvable
  <2>3. KeptOnce'
    <3>1. primaries = << >> /\ next = 1 /\ resolved \in Seq(Resources(bp))
      BY <2>1 DEF OutputInv, KeptOnce, EmissionInv, TypeOK
    <3>2. {j \in DOMAIN resolved : j < 1 /\ ~IsContributor(resolved[j])} = {}
      BY <3>1
    <3>3. RangeOf(<< >>) = {}
      BY DEF RangeOf
    <3> QED
      BY <2>1, <3>1, <3>2, <3>3 DEF KeptOnce, RangeOf, IsContributor
  <2> QED
    BY <1>1, <2>1, <2>2, <2>3, EarlySteps
<1>6. CASE Absorb \/ Keep
  BY <1>1, <1>6, OutputOfKeep
<1>7. CASE PlanSharedParents
  BY <1>1, <1>7, OutputOfPlan
<1>8. CASE EmitFails
  BY <1>8 DEF EmitFails, OutputInv, ResolvedOnce, KeptOnce, ManifestLoaded,
              RangeOf, Unresolvable
<1>9. CASE EmitHandler
  BY <1>9, OutputOfHandler
<1>10. CASE EmitPrimary
  BY <1>10, OutputOfPrimary
<1>11. CASE MergeSharedParents
  BY <1>11, OutputOfMerge
<1>12. CASE UNCHANGED vars
  <2>1. Kept'
    <3>1. ResolvedOnce'
      BY <1>12 DEF vars, OutputInv, ResolvedOnce, RangeOf, Unresolvable
    <3>2. KeptOnce'
      BY <1>12 DEF vars, OutputInv, KeptOnce, RangeOf, IsContributor
    <3>3. ManifestLoaded'
      BY <1>12 DEF vars, OutputInv, ManifestLoaded
    <3> QED
      BY <3>1, <3>2, <3>3
  <2>2. Past' = Past /\ \A n : ContributedTo(n)' = ContributedTo(n)
    BY <1>12 DEF vars, Past, ContributedTo
  <2> QED
    BY <1>12, <2>1, <2>2 DEF vars, OutputInv, OutputPart, EmittedExactly,
                             ContributedExactly, ReportedExactly
<1> QED
  BY <1>2, <1>3, <1>4, <1>5, <1>6, <1>7, <1>8, <1>9, <1>10, <1>11, <1>12
     DEF Next, Step, Finished

\* In every run, what is emitted, contributed and reported is decided by the
\* primaries emitted so far.
LEMMA OutputAlways == Spec => []OutputInv
BY OutputInit, OutputNext, PTL DEF Spec

-----------------------------------------------------------------------------
(* The finished output.                                                    *)

\* Only subscriptions are contributed to.
LEMMA ContributedNames ==
    ASSUME OutputInv, NEW n, n[1] # "sns_subscription"
    PROVE  ContributedTo(n) = {} /\ \A v : Merged(v, ContributedTo(n)) = v
<1>1. \A c : SubscriptionName(c)[1] = "sns_subscription"
  BY NamesApart
<1>2. n \notin DOMAIN contributions
  BY <1>1 DEF OutputInv, EmissionInv, TypeOK
<1> QED
  BY <1>2 DEF ContributedTo, Merged

\* A finished run has emitted every primary's map and every planned parent.
Finishes ==
    /\ HandlersIn(bp, primaries) = Handlers(bp)
    /\ Past = OfKind(bp, EmitterKind)
    /\ \A r \in Past : \A n, v : OwnedBy(bp, r, manifest, n, v) =>
          n \in DOMAIN emitted
    /\ \A n, v : SeedOf(bp, primaries, manifest, n, v) =>
          n \in DOMAIN emitted /\ emitted[n] = Merged(v, ContributedTo(n))
    /\ \A n \in DOMAIN emitted :
          \/ \E r \in Past : OwnedBy(bp, r, manifest, n, emitted[n])
          \/ \E v : /\ SeedOf(bp, primaries, manifest, n, v)
                    /\ emitted[n] = Merged(v, ContributedTo(n))
    /\ \A h \in Handlers(bp) : EmitsFunction(bp, h) =>
          /\ FuncName(h) \in DOMAIN emitted
          /\ emitted[FuncName(h)] = LambdaFunction(bp, h, manifest)
    /\ \A n \in Functions : \E h \in Handlers(bp) :
          /\ EmitsFunction(bp, h) /\ n = FuncName(h)
          /\ emitted[n] = LambdaFunction(bp, h, manifest)

\* A merge keeps the type of its seed.
LEMMA MergedType ==
    ASSUME NEW seed, NEW values
    PROVE  Merged(seed, values).type = seed.type
BY DEF Merged

\* The names and types of the handlers' functions, and of everything else.
LEMMA OwnedFunction ==
    ASSUME NEW b, IsBlueprint(b), NEW r \in Resources(b), NEW m, NEW n, NEW v,
           OwnedBy(b, r, m, n, v)
    PROVE  v.type = "function" \/ n[1] = "lambda_func" =>
                /\ r \in Handlers(b) /\ EmitsFunction(b, r)
                /\ n = FuncName(r) /\ v = LambdaFunction(b, r, m)
<1>1. CASE r \in Handlers(b) /\ EmitsFunction(b, r) /\ OwnOf(b, r, m, n, v)
  <2>1. CASE n = FuncName(r) /\ v = LambdaFunction(b, r, m)
    BY <1>1, <2>1
  <2>2. ASSUME NEW s, n = RuleName(s), v = ScheduleRule(r, s)
        PROVE  v.type # "function" /\ n[1] # "lambda_func"
    BY <2>2, NamesApart DEF ScheduleRule
  <2>3. ASSUME NEW x, n = ESMName(x[1], x[2]), v = EventSourceMapping(r, x[1])
        PROVE  v.type # "function" /\ n[1] # "lambda_func"
    BY <2>3, NamesApart DEF EventSourceMapping
  <2> QED
    BY <1>1, <2>1, <2>2, <2>3 DEF OwnOf
<1>2. CASE /\ r \notin Handlers(b) /\ n = PrimaryName(r)
           /\ v = [type |-> b.kind[r], source |-> r, refs |-> {}]
  <2>1. v.type \in Kind
    BY <1>2 DEF IsBlueprint
  <2>2. v.type # "function"
    BY <2>1 DEF Kind
  <2> QED
    BY <1>2, <2>2, NamesApart
<1> QED
  BY <1>1, <1>2 DEF OwnedBy

LEMMA SeedIsNoFunction ==
    ASSUME NEW b, NEW order, NEW m, NEW n, NEW v, SeedOf(b, order, m, n, v)
    PROVE  v.type # "function" /\ n[1] # "lambda_func"
<1>1. CASE n \in {RoleOf(b, h) : h \in HandlersIn(b, order)}
           /\ v = LET sharers == SharersOf(b, HandlersIn(b, order), n)
                  IN  Role(b, sharers, First(order, sharers))
  BY <1>1, NamesApart DEF RoleOf, Role
<1>2. ASSUME NEW h \in LayersIn(b, order, m), n = LayerName(b.layer[h]),
             v = LET users == UsersOf(b, LayersIn(b, order, m), n)
                 IN  Layer(b, users, First(order, users))
      PROVE  v.type # "function" /\ n[1] # "lambda_func"
  BY <1>2, NamesApart DEF Layer
<1>3. ASSUME NEW c, \/ n = TopicQueueName(c) /\ v = FanoutQueue(c)
                    \/ n = SubscriptionName(c) /\ v = Subscription(c)
                    \/ n = TopicDLQName(c) /\ v = FanoutQueue(c)
      PROVE  v.type # "function" /\ n[1] # "lambda_func"
  BY <1>3, NamesApart DEF FanoutQueue, Subscription
<1>4. CASE n = StoreName /\ v = Store(EntriesIn(b, order))
  BY <1>4, NamesApart DEF Store
<1> QED
  BY <1>1, <1>2, <1>3, <1>4 DEF SeedOf

LEMMA FinishedOutput == OutputInv /\ phase = "done" => Finishes
<1> SUFFICES ASSUME OutputInv, phase = "done" PROVE Finishes
  OBVIOUS
<1>1. /\ EmittedExactly /\ ContributedExactly /\ ReportedExactly
      /\ TypeOK /\ parents = SharedParents(bp, primaries, manifest)
      /\ RangeOf(primaries) = OfKind(bp, EmitterKind)
  BY DEF OutputInv, OutputPart, EmissionInv, PlanFirst, KeptOnce
<1>2. bp \in Blueprint /\ IsBlueprint(bp) /\ primaries \in Seq(Resources(bp))
      /\ next \in Nat
  BY <1>1, BlueprintShape DEF TypeOK
<1>3. Past = OfKind(bp, EmitterKind)
  <2>1. \A j \in DOMAIN primaries : j < next
    BY <1>1, <1>2 DEF EmittedExactly
  <2> QED
    BY <1>1, <2>1 DEF Past, RangeOf
<1>4. HandlersIn(bp, primaries) = Handlers(bp)
  <2>1. Handlers(bp) \subseteq RangeOf(primaries)
    BY <1>1 DEF Handlers, OfKind, EmitterKind, Kind, ContributorKind
  <2> QED
    BY <2>1 DEF HandlersIn, RangeOf
<1>5. \A r \in Past : \A n, v : OwnedBy(bp, r, manifest, n, v) => n \in DOMAIN emitted
  BY <1>1 DEF EmittedExactly
<1>6. \A n, v : n \in DOMAIN parents /\ v = parents[n] <=>
                    SeedOf(bp, primaries, manifest, n, v)
  BY <1>1, ParentMap DEF Maps
<1>7. \A n \in DOMAIN emitted :
          \/ \E r \in Past : OwnedBy(bp, r, manifest, n, emitted[n])
          \/ \E v : /\ SeedOf(bp, primaries, manifest, n, v)
                    /\ emitted[n] = Merged(v, ContributedTo(n))
  BY <1>1, <1>6 DEF EmittedExactly
<1>8. ASSUME NEW n, NEW v, SeedOf(bp, primaries, manifest, n, v)
      PROVE  n \in DOMAIN emitted /\ emitted[n] = Merged(v, ContributedTo(n))
  <2>1. n \in DOMAIN parents /\ v = parents[n]
    BY <1>6, <1>8
  <2>2. n \in DOMAIN emitted
    BY <1>1, <2>1 DEF EmittedExactly
  <2>3. \A r \in Past : ~OwnedBy(bp, r, manifest, n, emitted[n])
    BY <1>8, OwnedIsNoParent
  <2> QED
    BY <1>1, <2>1, <2>2, <2>3 DEF EmittedExactly
<1>9. Past \subseteq Resources(bp)
  BY <1>3 DEF OfKind
<1>10. ASSUME NEW n \in DOMAIN emitted,
              emitted[n].type = "function" \/ n[1] = "lambda_func"
       PROVE  \E h \in Handlers(bp) :
                /\ EmitsFunction(bp, h) /\ n = FuncName(h)
                /\ emitted[n] = LambdaFunction(bp, h, manifest)
  <2>1. ASSUME NEW v, SeedOf(bp, primaries, manifest, n, v),
               emitted[n] = Merged(v, ContributedTo(n))
        PROVE  FALSE
    BY <1>10, <2>1, SeedIsNoFunction, MergedType
  <2>2. PICK r \in Past : OwnedBy(bp, r, manifest, n, emitted[n])
    BY <1>7, <2>1
  <2> QED
    BY <1>2, <1>9, <1>10, <2>2, OwnedFunction
<1>11. ASSUME NEW h \in Handlers(bp), EmitsFunction(bp, h)
       PROVE  /\ FuncName(h) \in DOMAIN emitted
              /\ emitted[FuncName(h)] = LambdaFunction(bp, h, manifest)
  <2>1. OwnedBy(bp, h, manifest, FuncName(h), LambdaFunction(bp, h, manifest))
    BY <1>11 DEF OwnedBy, OwnOf
  <2>2. h \in Past
    BY <1>3 DEF Handlers, OfKind, EmitterKind, Kind, ContributorKind
  <2>3. FuncName(h) \in DOMAIN emitted
    BY <1>5, <2>1, <2>2
  <2>4. PICK g \in Handlers(bp) :
              /\ FuncName(h) = FuncName(g)
              /\ emitted[FuncName(h)] = LambdaFunction(bp, g, manifest)
    <3>1. FuncName(h)[1] = "lambda_func"
      BY NamesApart
    <3> DEFINE n == FuncName(h)
    <3> HIDE DEF n
    <3> QED
      BY <1>10, <2>3, <3>1 DEF n
  <2>5. g = h
    BY <2>4, NamesApart
  <2> QED
    BY <2>3, <2>4, <2>5
<1>12. \A n \in Functions : \E h \in Handlers(bp) :
          /\ EmitsFunction(bp, h) /\ n = FuncName(h)
          /\ emitted[n] = LambdaFunction(bp, h, manifest)
  BY <1>10 DEF Functions
<1> QED
  BY <1>3, <1>4, <1>5, <1>7, <1>8, <1>11, <1>12 DEF Finishes

\* Without an error every handler is deployed and every primary emitted.
LEMMA NoErrors ==
    ASSUME OutputInv, phase = "done", Errors = {}
    PROVE  /\ \A h \in Handlers(bp) : EmitsFunction(bp, h)
           /\ bp.refused = {}
<1>1. /\ Finishes /\ IsBlueprint(bp)
      /\ \A r \in Past : \A d \in Reports(bp, r, manifest) : d.level # "error"
  BY FinishedOutput, BlueprintShape
     DEF OutputInv, OutputPart, ReportedExactly, Errors, EmissionInv, TypeOK
<1>2. \A x : Error(x).level = "error"
  BY DEF Error
<1>3. ASSUME NEW h \in Handlers(bp)
      PROVE  EmitsFunction(bp, h)
  <2>1. h \in Past
    BY <1>1 DEF Finishes, Handlers, OfKind, EmitterKind, Kind, ContributorKind
  <2>2. ~EmitsFunction(bp, h) => Error(h) \in Reports(bp, h, manifest)
    BY DEF Reports, HandlerDiagnostics
  <2> QED
    BY <1>1, <1>2, <2>1, <2>2
<1>4. ASSUME NEW r \in bp.refused
      PROVE  FALSE
  <2>1. r \in Past /\ r \notin Handlers(bp)
    BY <1>1 DEF Finishes, IsBlueprint, Handlers, OfKind
  <2>2. Error(r) \in Reports(bp, r, manifest)
    BY <2>1 DEF Reports, PrimaryDiagnostics
  <2> QED
    BY <1>1, <1>2, <2>1, <2>2
<1> QED
  BY <1>3, <1>4

-----------------------------------------------------------------------------
(* The properties of the finished output.                                  *)

LEMMA SharingIsListed == OutputInv => SharedByIsComplete
<1> SUFFICES ASSUME OutputInv, phase = "done", Errors = {},
                    NEW role \in DOMAIN emitted, emitted[role].type = "role"
             PROVE  /\ emitted[role].sharedBy =
                        {emitted[n].source : n \in {f \in Functions :
                                                      role \in emitted[f].refs}}
                    /\ emitted[role].source \in emitted[role].sharedBy
  BY DEF SharedByIsComplete
<1>1. /\ Finishes /\ \A h \in Handlers(bp) : EmitsFunction(bp, h)
      /\ primaries \in Seq(Resources(bp))
  BY FinishedOutput, NoErrors DEF OutputInv, EmissionInv, TypeOK
<1> DEFINE sharers == SharersOf(bp, Handlers(bp), role)
           users == {f \in Functions : role \in emitted[f].refs}
<1>2. /\ role \in DOMAIN RoleParents(bp, primaries)
      /\ emitted[role] = RoleParents(bp, primaries)[role]
  BY DEF OutputInv, EmissionInv, RolesGenuine
<1>3. /\ role \in {RoleOf(bp, h) : h \in Handlers(bp)}
      /\ emitted[role] = Role(bp, sharers, First(primaries, sharers))
  BY <1>1, <1>2 DEF Finishes, RoleParents
<1>4. PICK f \in Handlers(bp) : role = RoleOf(bp, f)
  BY <1>3
<1>5. emitted[role].sharedBy = sharers
      /\ emitted[role].source = First(primaries, sharers)
  BY <1>3 DEF Role
<1>6. First(primaries, sharers) \in sharers
  <2>1. f \in sharers /\ f \in HandlersIn(bp, primaries)
    BY <1>1, <1>4 DEF SharersOf, Finishes
  <2>2. \E i \in DOMAIN primaries : primaries[i] \in sharers
    BY <2>1 DEF HandlersIn
  <2> HIDE DEF sharers
  <2> QED
    BY <1>1, <2>2, FirstIsMember
<1>7. ASSUME NEW h \in Handlers(bp)
      PROVE  role \in LambdaFunction(bp, h, manifest).refs <=> RoleOf(bp, h) = role
  <2>1. RoleOf(bp, h) \in LambdaFunction(bp, h, manifest).refs
    BY DEF LambdaFunction
  <2>2. role = RoleName(RolePlan(bp, f))
    BY <1>4 DEF RoleOf
  <2> QED
    BY <2>1, <2>2, OneRoleReferenced
<1>8. \A n \in users : emitted[n].source \in sharers
  <2> TAKE n \in users
  <2>1. PICK h \in Handlers(bp) : emitted[n] = LambdaFunction(bp, h, manifest)
    BY <1>1 DEF Finishes
  <2>2. RoleOf(bp, h) = role
    BY <1>7, <2>1
  <2>3. emitted[n].source = h
    BY <2>1 DEF LambdaFunction
  <2> QED
    BY <2>2, <2>3 DEF SharersOf
<1>9. \A h \in sharers : \E n \in users : emitted[n].source = h
  <2> TAKE h \in sharers
  <2>1. h \in Handlers(bp) /\ RoleOf(bp, h) = role
    BY DEF SharersOf
  <2>2. /\ FuncName(h) \in DOMAIN emitted
        /\ emitted[FuncName(h)] = LambdaFunction(bp, h, manifest)
    BY <1>1, <2>1 DEF Finishes
  <2>3. /\ LambdaFunction(bp, h, manifest).source = h
        /\ LambdaFunction(bp, h, manifest).type = "function"
    BY DEF LambdaFunction
  <2>4. FuncName(h) \in users
    BY <1>7, <2>1, <2>2, <2>3 DEF Functions
  <2> QED
    BY <2>2, <2>3, <2>4
<1> HIDE DEF sharers, users
<1>10. sharers = {emitted[n].source : n \in users}
  BY <1>8, <1>9
<1> QED
  BY <1>5, <1>6, <1>10 DEF users

\* No finished run attributes a role to a handler that does not use it, or
\* leaves a user out of its sharedBy annotation (collectIAMRoles).
THEOREM RolesNameTheirUsers == Spec => []SharedByIsComplete
BY OutputAlways, SharingIsListed, PTL

\* What one handler's own kinds of links say of its use of the store.
LEMMA StoredLinks ==
    ASSUME NEW b, NEW h, NEW m
    PROVE  LET needed == {x \in LambdaFunction(b, h, m).links :
                            b.kind[x] \in BackingKind \ {"config"}}
           IN  /\ needed = StoreEntries(b, h)
               /\ HasResourceLinks(b, h) <=> needed # {}
               /\ LambdaFunction(b, h, m).storeEnv <=> needed # {}
<1> DEFINE links == LambdaFunction(b, h, m).links
           stored == BackingKind \ {"config"}
<1>1. /\ {x \in links : b.kind[x] \in BackingKind} = Backings(b, h)
      /\ LambdaFunction(b, h, m).storeEnv = HasResourceLinks(b, h)
  BY LinksOfPlan DEF LambdaFunction
<1>2. {x \in links : b.kind[x] \in stored}
        = {x \in Backings(b, h) : b.kind[x] \in stored}
  <2> HIDE DEF links
  <2> QED
    BY <1>1
<1>3. {x \in Backings(b, h) : b.kind[x] \in stored} = LinkedTo(b, h, stored)
  BY DEF Backings, LinkedTo, OfKind
<1>4. stored = {"queue", "topic", "datastore", "bucket", "cache", "sqlDatabase"}
  BY DEF BackingKind
<1>5. StoreEntries(b, h) = LinkedTo(b, h, stored)
  BY <1>4 DEF StoreEntries, LinkedTo, OfKind
<1>6. HasResourceLinks(b, h) <=> LinkedTo(b, h, stored) # {}
  BY <1>4 DEF HasResourceLinks
<1> QED
  BY <1>1, <1>2, <1>3, <1>5, <1>6

\* The store a finished output holds, when a handler has something in it.
LEMMA PlannedStore ==
    ASSUME OutputInv, phase = "done"
    PROVE  /\ StoreName \in DOMAIN emitted
                <=> \E h \in Handlers(bp) : StoreEntries(bp, h) # {}
           /\ \A h \in Handlers(bp) : StoreEntries(bp, h) # {} =>
                {PrimaryName(x) : x \in StoreEntries(bp, h)}
                    \subseteq emitted[StoreName].refs
<1> DEFINE entries == EntriesIn(bp, primaries)
           name == StoreName
<1>1. /\ Finishes
      /\ entries = UNION {StoreEntries(bp, h) : h \in Handlers(bp)}
  BY FinishedOutput DEF EntriesIn, Finishes
<1>2. name[1] = "celerityResourcesConfigStore"
  BY NamesApart
<1> HIDE DEF name
<1>3. ASSUME NEW h \in Handlers(bp), StoreEntries(bp, h) # {}
      PROVE  /\ name \in DOMAIN emitted
             /\ {PrimaryName(x) : x \in StoreEntries(bp, h)} \subseteq emitted[name].refs
  <2>1. SeedOf(bp, primaries, manifest, name, Store(entries))
    BY <1>1, <1>3 DEF SeedOf, name
  <2>2. name \in DOMAIN emitted /\ emitted[name] = Store(entries)
    BY <1>1, <1>2, <2>1, ContributedNames DEF Finishes
  <2>3. {PrimaryName(x) : x \in StoreEntries(bp, h)} \subseteq {PrimaryName(x) : x \in entries}
    BY <1>1, <1>3
  <2> QED
    BY <2>2, <2>3 DEF Store
<1>4. ASSUME name \in DOMAIN emitted
      PROVE  entries # {}
  <2>1. \A r \in Past : \A v : ~OwnedBy(bp, r, manifest, name, v)
    BY <1>2, NamesApart DEF OwnedBy, OwnOf
  <2>2. PICK v : SeedOf(bp, primaries, manifest, name, v)
    BY <1>1, <1>4, <2>1 DEF Finishes
  <2>3. name \notin {RoleOf(bp, h) : h \in HandlersIn(bp, primaries)}
    BY <1>2, NamesApart DEF RoleOf
  <2> QED
    BY <1>2, <2>2, <2>3, NamesApart DEF SeedOf
<1> HIDE DEF entries
<1> QED
  BY <1>1, <1>3, <1>4 DEF name

\* It is there exactly when a role may read it.
LEMMA StoreIsRead ==
    ASSUME OutputInv, phase = "done"
    PROVE  StoreName \in DOMAIN emitted <=>
             \E role \in DOMAIN emitted :
                emitted[role].type = "role" /\ emitted[role].readsStore
<1> DEFINE sharers(role) == SharersOf(bp, Handlers(bp), role)
           first(role) == First(primaries, sharers(role))
<1>1. Finishes /\ bp \in Blueprint /\ primaries \in Seq(Resources(bp))
  BY FinishedOutput DEF OutputInv, EmissionInv, TypeOK
<1>2. ASSUME NEW h \in Handlers(bp)
      PROVE  first(RoleOf(bp, h)) \in sharers(RoleOf(bp, h))
  <2>1. h \in sharers(RoleOf(bp, h)) /\ h \in HandlersIn(bp, primaries)
    BY <1>1 DEF SharersOf, Finishes
  <2>2. \E i \in DOMAIN primaries : primaries[i] \in sharers(RoleOf(bp, h))
    BY <2>1 DEF HandlersIn
  <2> HIDE DEF sharers
  <2> QED
    BY <1>1, <2>2, FirstIsMember
<1>3. \A h \in Handlers(bp) : HasResourceLinks(bp, h) <=> StoreEntries(bp, h) # {}
  BY StoredLinks
<1>4. ASSUME NEW role \in DOMAIN emitted, emitted[role].type = "role",
             emitted[role].readsStore
      PROVE  \E h \in Handlers(bp) : StoreEntries(bp, h) # {}
  <2>1. /\ role \in DOMAIN RoleParents(bp, primaries)
        /\ emitted[role] = RoleParents(bp, primaries)[role]
    BY <1>4 DEF OutputInv, EmissionInv, RolesGenuine
  <2>2. /\ role \in {RoleOf(bp, h) : h \in Handlers(bp)}
        /\ emitted[role] = Role(bp, sharers(role), first(role))
    BY <1>1, <2>1 DEF Finishes, RoleParents
  <2>3. first(role) \in sharers(role)
    BY <1>2, <2>2
  <2>4. first(role) \in Handlers(bp)
    BY <2>3 DEF SharersOf
  <2> HIDE DEF first, sharers
  <2>5. HasResourceLinks(bp, first(role))
    BY <1>4, <2>2 DEF Role, RolePlan
  <2> QED
    BY <1>3, <2>4, <2>5
<1>5. ASSUME NEW h \in Handlers(bp), StoreEntries(bp, h) # {}
      PROVE  \E role \in DOMAIN emitted :
                emitted[role].type = "role" /\ emitted[role].readsStore
  <2> DEFINE name == RoleOf(bp, h)
             role == Role(bp, sharers(name), first(name))
  <2>1. first(name) \in Handlers(bp) /\ RoleOf(bp, first(name)) = name
    BY <1>2 DEF SharersOf
  <2>2. RolePlan(bp, first(name)) = RolePlan(bp, h)
    <3> HIDE DEF first
    <3> QED
      BY <1>1, <2>1, SameRoleSamePlan DEF RoleOf
  <2>3. role.type = "role" /\ role.readsStore = HasResourceLinks(bp, h)
    <3> HIDE DEF first, sharers
    <3> QED
      BY <2>2 DEF Role, RolePlan
  <2>4. SeedOf(bp, primaries, manifest, name, role)
    BY <1>1 DEF Finishes, SeedOf
  <2>5. name[1] # "sns_subscription"
    BY NamesApart DEF RoleOf
  <2> HIDE DEF name, role
  <2>6. name \in DOMAIN emitted /\ emitted[name] = role
    BY <1>1, <2>4, <2>5, ContributedNames DEF Finishes
  <2> QED
    BY <1>3, <1>5, <2>3, <2>6
<1> QED
  BY <1>4, <1>5, PlannedStore

LEMMA StoreKeepsStep == OutputInv => StoreInStep
<1> SUFFICES ASSUME OutputInv, phase = "done", NEW n \in Functions
             PROVE  LET needed == {x \in emitted[n].links :
                                     bp.kind[x] \in BackingKind \ {"config"}}
                    IN  /\ emitted[n].storeEnv <=> needed # {}
                        /\ needed # {} =>
                             /\ StoreName \in DOMAIN emitted
                             /\ {PrimaryName(x) : x \in needed}
                                    \subseteq emitted[StoreName].refs
  BY StoreIsRead DEF StoreInStep
<1>1. Finishes
  BY FinishedOutput
<1>2. PICK h \in Handlers(bp) : emitted[n] = LambdaFunction(bp, h, manifest)
  BY <1>1 DEF Finishes
<1> DEFINE needed == {x \in LambdaFunction(bp, h, manifest).links :
                        bp.kind[x] \in BackingKind \ {"config"}}
<1>3. /\ needed = StoreEntries(bp, h)
      /\ LambdaFunction(bp, h, manifest).storeEnv <=> needed # {}
  BY StoredLinks
<1> HIDE DEF needed
<1>4. needed # {} =>
        /\ StoreName \in DOMAIN emitted
        /\ {PrimaryName(x) : x \in needed} \subseteq emitted[StoreName].refs
  BY <1>3, PlannedStore
<1> QED
  BY <1>2, <1>3, <1>4 DEF needed

\* No finished run gives a function the store's variables without the store's
\* entries for its backings, a role the right to read a store that is not
\* there, or anyone a store that no role may read (hasResourceLinks and
\* collectResourcesStore decide it separately).
THEOREM StoreStaysInStep == Spec => []StoreInStep
BY OutputAlways, StoreKeepsStep, PTL

\* What a function references: its role, its configs, its layer.
LEMMA FunctionReferences ==
    ASSUME NEW b, NEW h, NEW m, NEW x \in LambdaFunction(b, h, m).refs
    PROVE  \/ x = RoleOf(b, h)
           \/ \E c \in Configs(b, h) : x = PrimaryName(c)
           \/ HasCode(b, m) /\ b.layer[h] # NoLayer /\ x = LayerName(b.layer[h])
BY DEF LambdaFunction, WiredLayers

\* The layer a finished output holds for a handler that uses one.
LEMMA PlannedLayer ==
    ASSUME OutputInv, phase = "done", NEW h \in Handlers(bp),
           HasCode(bp, manifest), bp.layer[h] # NoLayer
    PROVE  /\ LayerName(bp.layer[h]) \in DOMAIN emitted
           /\ EmitsFunction(bp, h) =>
                bp.runtime[h] \in emitted[LayerName(bp.layer[h])].runtimes
<1> DEFINE layered == LayersIn(bp, primaries, manifest)
           users == UsersOf(bp, layered, LayerName(bp.layer[h]))
           layer == Layer(bp, users, First(primaries, users))
           name == LayerName(bp.layer[h])
<1>1. Finishes
  BY FinishedOutput
<1>2. h \in layered
  BY <1>1 DEF Finishes, LayersIn, HasCode
<1>3. SeedOf(bp, primaries, manifest, name, layer)
  BY <1>2 DEF SeedOf
<1>4. name[1] # "sns_subscription"
  BY NamesApart
<1>5. h \in users
  BY <1>2 DEF UsersOf
<1>6. EmitsFunction(bp, h) => bp.runtime[h] \in layer.runtimes
  <2> HIDE DEF users
  <2> QED
    BY <1>5 DEF Layer, EmitsFunction
<1> HIDE DEF name, layer
<1>7. name \in DOMAIN emitted /\ emitted[name] = layer
  BY <1>1, <1>3, <1>4, ContributedNames DEF Finishes
<1> QED
  BY <1>6, <1>7 DEF name

\* The role a finished output holds for a handler.
LEMMA PlannedRoleOutput ==
    ASSUME OutputInv, phase = "done", NEW h \in Handlers(bp)
    PROVE  /\ RoleOf(bp, h) \in DOMAIN emitted
           /\ emitted[RoleOf(bp, h)].type = "role"
<1> DEFINE name == RoleOf(bp, h)
           sharers == SharersOf(bp, HandlersIn(bp, primaries), name)
           role == Role(bp, sharers, First(primaries, sharers))
<1>1. Finishes
  BY FinishedOutput
<1>2. SeedOf(bp, primaries, manifest, name, role)
  BY <1>1 DEF Finishes, SeedOf
<1>3. name[1] # "sns_subscription"
  BY NamesApart DEF RoleOf
<1>4. role.type = "role"
  BY DEF Role
<1> HIDE DEF name, role
<1>5. name \in DOMAIN emitted /\ emitted[name] = role
  BY <1>1, <1>2, <1>3, ContributedNames DEF Finishes
<1> QED
  BY <1>4, <1>5 DEF name

\* What a finished output holds under a primary's name.
LEMMA PrimaryOutput ==
    ASSUME OutputInv, phase = "done", NEW r, PrimaryName(r) \in DOMAIN emitted
    PROVE  emitted[PrimaryName(r)].type \in Kind
<1> DEFINE name == PrimaryName(r)
<1>1. Finishes /\ IsBlueprint(bp)
  BY FinishedOutput, BlueprintShape DEF OutputInv, EmissionInv, TypeOK
<1>2. name[1] = "primary"
  BY NamesApart
<1> HIDE DEF name
<1>3. ASSUME NEW v, SeedOf(bp, primaries, manifest, name, v)
      PROVE  FALSE
  <2>1. CASE name \in {RoleOf(bp, h) : h \in HandlersIn(bp, primaries)}
    BY <1>2, <2>1, NamesApart DEF RoleOf
  <2>2. CASE name \notin {RoleOf(bp, h) : h \in HandlersIn(bp, primaries)}
    BY <1>2, <1>3, <2>2, NamesApart DEF SeedOf
  <2> QED
    BY <2>1, <2>2
<1>4. PICK x \in Past : OwnedBy(bp, x, manifest, name, emitted[name])
  BY <1>1, <1>3 DEF Finishes, name
<1>5. /\ x \notin Handlers(bp)
      /\ emitted[name] = [type |-> bp.kind[x], source |-> x, refs |-> {}]
  BY <1>2, <1>4, NamesApart DEF OwnedBy, OwnOf
<1>6. x \in Resources(bp)
  BY <1>1 DEF Finishes, OfKind
<1> QED
  BY <1>1, <1>5, <1>6 DEF IsBlueprint, name

LEMMA LayersCover == OutputInv => LayersCoverRuntimes
<1> SUFFICES ASSUME OutputInv, phase = "done", NEW n \in Functions,
                    NEW l \in emitted[n].refs \cap DOMAIN emitted,
                    emitted[l].type = "layer"
             PROVE  emitted[n].runtime \in emitted[l].runtimes
  BY DEF LayersCoverRuntimes
<1>1. PICK h \in Handlers(bp) :
         EmitsFunction(bp, h) /\ emitted[n] = LambdaFunction(bp, h, manifest)
  BY FinishedOutput DEF Finishes
<1>2. emitted[n].runtime = bp.runtime[h]
  BY <1>1 DEF LambdaFunction
<1>3. CASE l = RoleOf(bp, h)
  BY <1>3, PlannedRoleOutput
<1>4. ASSUME NEW c, l = PrimaryName(c)
      PROVE  FALSE
  BY <1>4, PrimaryOutput DEF Kind
<1>5. CASE /\ HasCode(bp, manifest) /\ bp.layer[h] # NoLayer
           /\ l = LayerName(bp.layer[h])
  BY <1>1, <1>2, <1>5, PlannedLayer
<1> QED
  BY <1>1, <1>3, <1>4, <1>5, FunctionReferences

\* No finished run has a function on a layer that is not built for its runtime
\* (collectLayers unions the runtimes of the handlers of one content hash).
THEOREM LayersSuitTheirUsers == Spec => []LayersCoverRuntimes
BY OutputAlways, LayersCover, PTL

LEMMA NothingDangles == OutputInv => ReferencesResolve
<1> SUFFICES ASSUME OutputInv, phase = "done", Errors = {},
                    NEW n \in DOMAIN emitted, NEW x \in emitted[n].refs
             PROVE  x \in DOMAIN emitted
  BY DEF ReferencesResolve
<1>1. /\ Finishes /\ IsBlueprint(bp)
      /\ \A h \in Handlers(bp) : EmitsFunction(bp, h)
      /\ bp.refused = {}
  BY FinishedOutput, NoErrors, BlueprintShape DEF OutputInv, EmissionInv, TypeOK
<1>2. ASSUME NEW r \in OfKind(bp, EmitterKind \ {"handler"})
      PROVE  PrimaryName(r) \in DOMAIN emitted
  <2>1. r \in Past /\ r \notin Handlers(bp)
    BY <1>1 DEF Finishes, OfKind, Handlers
  <2>2. OwnedBy(bp, r, manifest, PrimaryName(r),
                [type |-> bp.kind[r], source |-> r, refs |-> {}])
    BY <1>1, <2>1 DEF OwnedBy
  <2> QED
    BY <1>1, <2>1, <2>2 DEF Finishes
<1>3. \A h \in Handlers(bp) : FuncName(h) \in DOMAIN emitted
  BY <1>1 DEF Finishes
<1>4. ASSUME NEW r \in Past, OwnedBy(bp, r, manifest, n, emitted[n])
      PROVE  x \in DOMAIN emitted
  <2>1. CASE r \notin Handlers(bp)
    BY <1>4, <2>1 DEF OwnedBy
  <2>2. CASE r \in Handlers(bp) /\ emitted[n] = LambdaFunction(bp, r, manifest)
    <3>1. ASSUME NEW c \in Configs(bp, r)
          PROVE  PrimaryName(c) \in DOMAIN emitted
      <4>1. c \in OfKind(bp, EmitterKind \ {"handler"})
        BY DEF Configs, LinkedTo, OfKind, EmitterKind, Kind, ContributorKind
      <4> QED
        BY <1>2, <4>1
    <3> QED
      BY <2>2, <3>1, FunctionReferences, PlannedRoleOutput, PlannedLayer
  <2>3. CASE /\ r \in Handlers(bp)
             /\ \/ \E s : emitted[n] = ScheduleRule(r, s)
                \/ \E c : emitted[n] = EventSourceMapping(r, c)
    BY <1>3, <2>3 DEF ScheduleRule, EventSourceMapping
  <2> QED
    BY <1>4, <2>1, <2>2, <2>3 DEF OwnedBy, OwnOf
<1>5. ASSUME NEW v, SeedOf(bp, primaries, manifest, n, v),
             emitted[n] = Merged(v, ContributedTo(n))
      PROVE  x \in DOMAIN emitted
  <2>1. CASE /\ n \in {RoleOf(bp, h) : h \in HandlersIn(bp, primaries)}
             /\ v = LET sharers == SharersOf(bp, HandlersIn(bp, primaries), n)
                    IN  Role(bp, sharers, First(primaries, sharers))
    <3>1. n[1] # "sns_subscription"
      BY <2>1, NamesApart DEF RoleOf
    <3>2. v.refs = {}
      BY <2>1 DEF Role
    <3> QED
      BY <1>5, <3>1, <3>2, ContributedNames
  <2>2. ASSUME NEW h \in LayersIn(bp, primaries, manifest),
               n = LayerName(bp.layer[h]),
               v = LET users == UsersOf(bp, LayersIn(bp, primaries, manifest), n)
                   IN  Layer(bp, users, First(primaries, users))
        PROVE  x \in DOMAIN emitted
    <3>1. n[1] # "sns_subscription"
      BY <2>2, NamesApart
    <3>2. v.refs = {}
      BY <2>2 DEF Layer
    <3> QED
      BY <1>5, <3>1, <3>2, ContributedNames
  <2>3. ASSUME NEW c, n = TopicQueueName(c) \/ n = TopicDLQName(c),
               v = FanoutQueue(c)
        PROVE  x \in DOMAIN emitted
    <3>1. n[1] # "sns_subscription"
      BY <2>3, NamesApart
    <3>2. v.refs = {}
      BY <2>3 DEF FanoutQueue
    <3> QED
      BY <1>5, <3>1, <3>2, ContributedNames
  <2>4. ASSUME NEW c \in AbsorbedIn(bp, primaries),
               n = SubscriptionName(c), v = Subscription(c)
        PROVE  x \in DOMAIN emitted
    <3>1. n[2] = c
      BY <2>4, NamesApart
    <3>2. ContributedTo(n) = {} \/ ContributedTo(n) = {TopicArn(bp, c)}
      BY <3>1 DEF OutputInv, OutputPart, ContributedExactly, ContributedTo
    <3>3. v.refs = {TopicQueueName(c)}
      BY <2>4 DEF Subscription
    <3>4. emitted[n].refs \subseteq {TopicQueueName(c)} \cup TopicArn(bp, c)
      <4>1. CASE ContributedTo(n) = {}
        BY <1>5, <3>3, <4>1 DEF Merged
      <4>2. CASE ContributedTo(n) = {TopicArn(bp, c)}
        <5>1. emitted[n] = [v EXCEPT !.refs = @ \cup UNION {TopicArn(bp, c)},
                                     !.topicArn = TRUE]
          BY <1>5, <4>2 DEF Merged
        <5>2. emitted[n].refs = v.refs \cup UNION {TopicArn(bp, c)}
          BY <2>4, <5>1 DEF Subscription
        <5> QED
          BY <3>3, <5>2
      <4> QED
        BY <3>2, <4>1, <4>2
    <3>5. TopicQueueName(c) \in DOMAIN emitted
      <4>1. SeedOf(bp, primaries, manifest, TopicQueueName(c), FanoutQueue(c))
        BY DEF SeedOf
      <4> QED
        BY <1>1, <4>1 DEF Finishes
    <3>6. TopicArn(bp, c) \subseteq DOMAIN emitted
      <4>1. c \in OfKind(bp, {"consumer"})
        BY AbsorbedKinds DEF AbsorbedIn
      <4>2. bp.topic[c] # Outside => bp.topic[c] \in OfKind(bp, {"topic"})
        BY <1>1, <4>1 DEF IsBlueprint
      <4>3. OfKind(bp, {"topic"}) \subseteq OfKind(bp, EmitterKind \ {"handler"})
        BY DEF OfKind, EmitterKind, Kind, ContributorKind
      <4> QED
        BY <1>2, <4>2, <4>3 DEF TopicArn
    <3> QED
      BY <3>4, <3>5, <3>6
  <2>5. CASE n = StoreName /\ v = Store(EntriesIn(bp, primaries))
    <3>1. n[1] # "sns_subscription"
      BY <2>5, NamesApart
    <3>2. emitted[n] = Store(EntriesIn(bp, primaries))
      BY <1>5, <2>5, <3>1, ContributedNames
    <3>3. PICK e \in EntriesIn(bp, primaries) : x = PrimaryName(e)
      BY <3>2 DEF Store
    <3>4. e \in OfKind(bp, EmitterKind \ {"handler"})
      BY DEF EntriesIn, StoreEntries, LinkedTo, OfKind, EmitterKind, Kind,
             ContributorKind
    <3> QED
      BY <1>2, <3>3, <3>4
  <2> QED
    BY <1>5, <2>1, <2>2, <2>3, <2>4, <2>5 DEF SeedOf
<1> QED
  BY <1>1, <1>4, <1>5 DEF Finishes

\* No run that ends without an error leaves a ${resources...} reference to
\* something it did not emit, whichever part was to emit it.
THEOREM OutputIsClosed == Spec => []ReferencesResolve
BY OutputAlways, NothingDangles, PTL

-----------------------------------------------------------------------------
(* Triggers, and the names they contest.                                   *)

\* A name no two triggers ask for is one primary's, for one resource.
LEMMA OwnedOnce ==
    ASSUME NEW n, ~Contested(n), NEW q, NEW r, NEW v, NEW w,
           OwnedBy(bp, q, manifest, n, v), OwnedBy(bp, r, manifest, n, w)
    PROVE  q = r /\ v = w
<1>1. CASE n[1] = "lambda_func"
  BY <1>1, NamesApart DEF OwnedBy, OwnOf
<1>2. CASE n[1] = "events_rule"
  <2>1. ASSUME NEW x, NEW u, OwnedBy(bp, x, manifest, n, u)
        PROVE  /\ x \in Handlers(bp) /\ EmitsFunction(bp, x)
               /\ n[2] \in Schedules(bp, x) \ bp.noExpression
               /\ n = RuleName(n[2]) /\ u = ScheduleRule(x, n[2])
    BY <1>2, <2>1, NamesApart DEF OwnedBy, OwnOf
  <2>2. /\ q \in Handlers(bp) /\ EmitsFunction(bp, q)
        /\ n[2] \in Schedules(bp, q) \ bp.noExpression
        /\ n = RuleName(n[2]) /\ v = ScheduleRule(q, n[2])
    BY <2>1
  <2>3. /\ r \in Handlers(bp) /\ EmitsFunction(bp, r)
        /\ n[2] \in Schedules(bp, r) /\ w = ScheduleRule(r, n[2])
    BY <2>1
  <2> QED
    BY <2>2, <2>3 DEF Contested
<1>3. CASE n[1] = "esm"
  <2>1. ASSUME NEW x, NEW u, OwnedBy(bp, x, manifest, n, u)
        PROVE  /\ x \in Handlers(bp) /\ EmitsFunction(bp, x)
               /\ \E y \in ExternalSources(bp, x) :
                    n = ESMName(y[1], y[2]) /\ u = EventSourceMapping(x, y[1])
    BY <1>3, <2>1, NamesApart DEF OwnedBy, OwnOf
  <2>2. PICK y \in ExternalSources(bp, q) :
          n = ESMName(y[1], y[2]) /\ v = EventSourceMapping(q, y[1])
    BY <2>1
  <2>3. PICK z \in ExternalSources(bp, r) :
          n = ESMName(z[1], z[2]) /\ w = EventSourceMapping(r, z[1])
    BY <2>1
  <2>4. /\ q \in Handlers(bp) /\ EmitsFunction(bp, q)
        /\ r \in Handlers(bp) /\ EmitsFunction(bp, r)
    BY <2>1
  <2>5. q = r /\ y = z
    BY <2>2, <2>3, <2>4 DEF Contested
  <2> QED
    BY <2>2, <2>3, <2>5
<1>4. CASE n[1] = "primary"
  <2>1. ASSUME NEW x, NEW u, OwnedBy(bp, x, manifest, n, u)
        PROVE  x = n[2] /\ u = [type |-> bp.kind[x], source |-> x, refs |-> {}]
    <3>1. ~OwnOf(bp, x, manifest, n, u)
      BY <1>4, NamesApart DEF OwnOf
    <3> QED
      BY <2>1, <3>1, NamesApart DEF OwnedBy
  <2> QED
    BY <2>1
<1>5. n[1] \in {"lambda_func", "events_rule", "esm", "primary"}
  BY NamesApart DEF OwnedBy, OwnOf
<1> QED
  BY <1>1, <1>2, <1>3, <1>4, <1>5

\* Under such a name the output holds what its only emitter made.
LEMMA OwnedOutput ==
    ASSUME OutputInv, phase = "done", NEW r \in Past,
           NEW n, ~Contested(n), NEW v, OwnedBy(bp, r, manifest, n, v)
    PROVE  n \in DOMAIN emitted /\ emitted[n] = v
<1>1. Finishes
  BY FinishedOutput
<1>2. n \in DOMAIN emitted
  BY <1>1 DEF Finishes
<1>3. \A u : ~SeedOf(bp, primaries, manifest, n, u)
  BY OwnedIsNoParent
<1>4. PICK q \in Past : OwnedBy(bp, q, manifest, n, emitted[n])
  BY <1>1, <1>2, <1>3 DEF Finishes
<1> QED
  BY <1>2, <1>4, OwnedOnce

\* A consumer with external events has one that can be polled, or an object
\* store to be warned of: classifyExternalEvents drops an entry without a
\* source type it knows, or a stream without its id, and says nothing.
ExternalEventsUsable ==
    \A c \in OfKind(bp, {"consumer"}) :
        SourceKind(bp, c) = "external" /\ ExternalKeys(bp, c) = {} =>
            c \in bp.objectStores

LEMMA TriggersArrive ==
    OutputInv /\ ExternalEventsUsable => TriggersReachHandlers
<1> SUFFICES ASSUME OutputInv, ExternalEventsUsable, phase = "done",
                    NEW h \in Handlers(bp), FuncName(h) \in DOMAIN emitted
             PROVE
        /\ \A s \in Schedules(bp, h) :
            ScheduleArrives(s, h) \/ Contested(RuleName(s))
        /\ \A x \in ExternalSources(bp, h) :
            SourceArrives(x, h) \/ Contested(ESMName(x[1], x[2]))
        /\ \A c \in Consumers(bp, h) :
            \/ SourceKind(bp, c) = "linked"
            \/ SourceKind(bp, c) = "external" /\ ExternalKeys(bp, c) # {}
            \/ Reported(c)
            \/ /\ TopicQueueName(c) \in DOMAIN emitted
               /\ c \in emitted[FuncName(h)].pollLabels
               /\ emitted[SubscriptionName(c)].topicArn
  BY DEF TriggersReachHandlers
<1>1. /\ Finishes /\ h \in Past
      /\ \A d : d \in diagnostics <=>
                    \E r \in Past : d \in Reports(bp, r, manifest)
  <2>1. OfKind(bp, {"handler"}) \subseteq OfKind(bp, EmitterKind)
    BY DEF OfKind, EmitterKind, Kind, ContributorKind
  <2> QED
    BY <2>1, FinishedOutput
       DEF Finishes, Handlers, OutputInv, OutputPart, ReportedExactly
<1>2. /\ EmitsFunction(bp, h)
      /\ emitted[FuncName(h)] = LambdaFunction(bp, h, manifest)
  <2> DEFINE n == FuncName(h)
  <2>1. n[1] = "lambda_func"
    BY NamesApart
  <2>2. \A v : ~SeedOf(bp, primaries, manifest, n, v)
    BY <2>1, SeedIsNoFunction
  <2>3. PICK r \in Past : OwnedBy(bp, r, manifest, n, emitted[n])
    BY <1>1, <2>2 DEF Finishes
  <2>4. r \in Handlers(bp) /\ EmitsFunction(bp, r) /\ n = FuncName(r)
    BY <2>1, <2>3, NamesApart DEF OwnedBy, OwnOf
  <2>5. r = h
    BY <2>4, NamesApart
  <2> QED
    BY <1>1, <2>4, <2>5 DEF Finishes
<1>3. ASSUME NEW s \in Schedules(bp, h), ~Contested(RuleName(s))
      PROVE  ScheduleArrives(s, h)
  <2>1. CASE s \in bp.noExpression
    <3>1. Error(s) \in Reports(bp, h, manifest)
      BY <1>2, <2>1 DEF Reports, HandlerDiagnostics
    <3>2. Error(s).about = s
      BY DEF Error
    <3> QED
      BY <1>1, <3>1, <3>2 DEF Reported, ScheduleArrives
  <2>2. CASE s \notin bp.noExpression
    <3>1. OwnedBy(bp, h, manifest, RuleName(s), ScheduleRule(h, s))
      BY <1>2, <2>2 DEF OwnedBy, OwnOf
    <3>2. RuleName(s) \in DOMAIN emitted /\ emitted[RuleName(s)] = ScheduleRule(h, s)
      BY <1>1, <1>3, <3>1, OwnedOutput
    <3> QED
      BY <3>2 DEF ScheduleArrives, Triggers, ScheduleRule
  <2> QED
    BY <2>1, <2>2
<1>4. ASSUME NEW x \in ExternalSources(bp, h), ~Contested(ESMName(x[1], x[2]))
      PROVE  SourceArrives(x, h)
  <2>1. OwnedBy(bp, h, manifest, ESMName(x[1], x[2]), EventSourceMapping(h, x[1]))
    BY <1>2 DEF OwnedBy, OwnOf
  <2>2. /\ ESMName(x[1], x[2]) \in DOMAIN emitted
        /\ emitted[ESMName(x[1], x[2])] = EventSourceMapping(h, x[1])
    BY <1>1, <1>4, <2>1, OwnedOutput
  <2> QED
    BY <2>2 DEF SourceArrives, Triggers, EventSourceMapping
<1>5. ASSUME NEW c \in Consumers(bp, h)
      PROVE  \/ SourceKind(bp, c) = "linked"
             \/ SourceKind(bp, c) = "external" /\ ExternalKeys(bp, c) # {}
             \/ Reported(c)
             \/ /\ TopicQueueName(c) \in DOMAIN emitted
                /\ c \in emitted[FuncName(h)].pollLabels
                /\ emitted[SubscriptionName(c)].topicArn
  <2>1. CASE \/ SourceKind(bp, c) = "unknown"
             \/ SourceKind(bp, c) = "external" /\ c \in bp.objectStores
    <3>1. Warning(c) \in Reports(bp, h, manifest)
      BY <1>2, <2>1 DEF Reports, HandlerDiagnostics
    <3>2. Warning(c).about = c
      BY DEF Warning
    <3> QED
      BY <1>1, <3>1, <3>2 DEF Reported
  <2>2. CASE SourceKind(bp, c) = "external" /\ c \notin bp.objectStores
    BY <2>2, AbsorbedKinds DEF ExternalEventsUsable
  <2>3. CASE SourceKind(bp, c) = "topic"
    <3> DEFINE n == SubscriptionName(c)
    <3>1. c \in TopicConsumers(bp, h)
      BY <2>3 DEF TopicConsumers
    <3>2. c \in AbsorbedIn(bp, primaries)
      BY <1>1, <3>1 DEF AbsorbedIn, Finishes
    <3>3. TopicQueueName(c) \in DOMAIN emitted
      <4>1. SeedOf(bp, primaries, manifest, TopicQueueName(c), FanoutQueue(c))
        BY <3>2 DEF SeedOf
      <4> QED
        BY <1>1, <4>1 DEF Finishes
    <3>4. c \in emitted[FuncName(h)].pollLabels
      BY <1>2, <3>1 DEF LambdaFunction
    <3>5. SeedOf(bp, primaries, manifest, n, Subscription(c))
      BY <3>2 DEF SeedOf
    <3>6. ContributedTo(n) # {}
      <4>1. Feeds(bp, h, n)
        BY <1>2, <3>1 DEF Feeds
      <4> QED
        BY <1>1, <4>1 DEF OutputInv, OutputPart, ContributedExactly, ContributedTo
    <3>7. Merged(Subscription(c), ContributedTo(n)).topicArn = TRUE
      BY <3>6 DEF Merged, Subscription
    <3>8. emitted[n] = Merged(Subscription(c), ContributedTo(n))
      BY <1>1, <3>5 DEF Finishes
    <3> QED
      BY <3>3, <3>4, <3>7, <3>8
  <2>4. SourceKind(bp, c) \in {"linked", "topic", "external", "unknown"}
    BY DEF SourceKind
  <2> QED
    BY <2>1, <2>2, <2>3, <2>4
<1> QED
  BY <1>3, <1>4, <1>5

\* No finished run drops a trigger in silence: each schedule, external source
\* and topic of a deployed handler reaches its function or is reported, unless
\* its name is contested, as long as external events are usable (the code
\* reports neither a contested name nor unusable external events).
THEOREM TriggersAreKept ==
    Spec => [](ExternalEventsUsable => TriggersReachHandlers)
BY OutputAlways, TriggersArrive, PTL

-----------------------------------------------------------------------------
(* Nothing is emitted twice.                                               *)

\* A name that is emitted again is contested.
LEMMA EmissionIsNew ==
    ASSUME OutputInv, phase = "emit", next <= Len(primaries), NEW resources,
           Renders(bp, primaries[next], manifest, resources),
           NEW n \in DOMAIN emitted, n \in DOMAIN resources
    PROVE  Contested(n)
<1> SUFFICES ASSUME ~Contested(n) PROVE FALSE
  OBVIOUS
<1>1. /\ EmittedExactly /\ KeptOnce
      /\ primaries \in Seq(Resources(bp)) /\ next \in Nat \ {0}
  BY DEF OutputInv, OutputPart, EmissionInv, TypeOK
<1>2. PICK r \in Past : OwnedBy(bp, r, manifest, n, emitted[n])
  BY <1>1 DEF EmittedExactly
<1>3. OwnedBy(bp, primaries[next], manifest, n, resources[n])
  BY DEF Renders
<1>4. r = primaries[next]
  BY <1>2, <1>3, OwnedOnce
<1>5. PICK i \in DOMAIN primaries : i < next /\ r = primaries[i]
  BY DEF Past
<1>6. next \in DOMAIN primaries
  BY <1>1
<1>7. i = next
  BY <1>1, <1>4, <1>5, <1>6 DEF KeptOnce
<1> QED
  BY <1>1, <1>5, <1>7

\* An overlay withdraws nothing, and changes nothing but under its own names.
LEMMA OverlayKeeps ==
    ASSUME NEW f, NEW g, NEW n \in DOMAIN f
    PROVE  /\ n \in DOMAIN Overlay(f, g)
           /\ n \notin DOMAIN g => Overlay(f, g)[n] = f[n]
BY DEF Overlay

LEMMA KeepsEmitted ==
    ASSUME OutputInv, [Next]_vars, NEW n \in DOMAIN emitted
    PROVE  n \in DOMAIN emitted' /\ (emitted'[n] = emitted[n] \/ Contested(n))
<1>1. CASE EmitHandler
  <2> DEFINE h == primaries[next]
  <2>1. PICK resources \in HandlerResources(bp, h, manifest) :
          /\ phase = "emit" /\ next <= Len(primaries) /\ h \in Handlers(bp)
          /\ emitted' = Overlay(emitted, resources)
    BY <1>1 DEF EmitHandler, Emit
  <2>2. Renders(bp, h, manifest, resources)
    BY <2>1, HandlerMap
  <2>3. n \in DOMAIN resources => Contested(n)
    BY <2>1, <2>2, EmissionIsNew
  <2> QED
    BY <2>1, <2>3, OverlayKeeps
<1>2. CASE EmitPrimary
  <2> DEFINE r == primaries[next]
             resources == PrimaryResources(bp, r)
  <2>1. /\ phase = "emit" /\ next <= Len(primaries) /\ r \notin Handlers(bp)
        /\ emitted' = Overlay(emitted, resources)
    BY <1>2 DEF EmitPrimary, Emit
  <2>2. Renders(bp, r, manifest, resources)
    BY <2>1, PrimaryMap
  <2> HIDE DEF resources
  <2>3. n \in DOMAIN resources => Contested(n)
    BY <2>1, <2>2, EmissionIsNew
  <2> QED
    BY <2>1, <2>3, OverlayKeeps
<1>3. CASE MergeSharedParents
  <2> DEFINE merged == [x \in DOMAIN parents \ ConflictingParents |->
                          Merged(parents[x], ContributedTo(x))]
  <2>1. phase = "emit" /\ emitted' = Overlay(emitted, merged)
    BY <1>3 DEF MergeSharedParents
  <2>2. DOMAIN merged \subseteq DOMAIN parents
    OBVIOUS
  <2> HIDE DEF merged
  <2>3. \E r : OwnedBy(bp, r, manifest, n, emitted[n])
    BY <2>1 DEF OutputInv, OutputPart, EmittedExactly
  <2>4. \A x \in DOMAIN parents : SeedOf(bp, primaries, manifest, x, parents[x])
    <3>1. parents = SharedParents(bp, primaries, manifest)
      BY <2>1 DEF OutputInv, EmissionInv, PlanFirst
    <3> QED
      BY <3>1, ParentMap DEF Maps
  <2>5. n \notin DOMAIN merged
    BY <2>2, <2>3, <2>4, OwnedIsNoParent
  <2> QED
    BY <2>1, <2>5, OverlayKeeps
<1>4. CASE UNCHANGED emitted
  BY <1>4
<1> QED
  BY <1>1, <1>2, <1>3, <1>4
     DEF Next, Step, Finished, vars, OnRun, Resolve, ResolveFails, AllResolved,
         Absorb, Keep, PlanSharedParents, EmitFails

\* No step of any run withdraws a resource that is emitted, or replaces one but
\* the rule or mapping of a trigger whose name another trigger asks for too: an
\* emitter and the merge, two emitters of different kinds, or two passes over
\* one primary never use one name.
THEOREM EmittedForGood == Spec => NothingReplaced
<1>1. OutputInv /\ [Next]_vars =>
        [\A n \in DOMAIN emitted :
            /\ n \in DOMAIN emitted'
            /\ emitted'[n] = emitted[n] \/ Contested(n)]_vars
  BY KeepsEmitted
<1> QED
  BY <1>1, OutputAlways, PTL DEF Spec, NothingReplaced
=============================================================================
