---------------------------- MODULE CompiledOutput ----------------------------
(***************************************************************************)
(* What the output of a transform is to be, as a function of the blueprint *)
(* and the run settings alone: no order, no loop and no plan.  Which of    *)
(* the handlers sharing a role or a layer it is attributed to is left      *)
(* open: its source is "anyone".                                           *)
(***************************************************************************)
EXTENDS HandlerEmit

\* The manifest as the emitters see it.
ManifestOf(b) == CASE b.manifest = "noPath" -> "none"
                   [] b.manifest = "unreadable" -> "failed"
                   [] OTHER -> b.manifest

Deployed(b) == {h \in Handlers(b) : b.runtime[h] \in SupportedRuntime}
Layered(b) == {h \in Handlers(b) :
                 b.layer[h] # NoLayer /\ b.manifest \in {"noLambda", "lambda"}}
AbsorbedTopics(b) == {c \in OfKind(b, {"consumer"}) :
                        /\ SourceKind(b, c) = "topic"
                        /\ LinkedTo(b, c, {"handler"}) # {}}
InStore(b) == {x \in OfKind(b, BackingKind \ {"config"}) :
                 LinkedFrom(b, x, {"handler"}) # {}}
Emitters(b) == OfKind(b, EmitterKind \ {"handler"})

\* The promised resource of each concrete name, as sets of <<name, resource>>.
Computed(b) ==
    {<<FuncName(h), LambdaFunction(b, h, ManifestOf(b))>> : h \in Deployed(b)}
      \cup {<<PrimaryName(r), [type |-> b.kind[r], source |-> r, refs |-> {}]>> :
              r \in Emitters(b) \ b.refused}

Rules(b, h) == {<<RuleName(s), ScheduleRule(h, s)>> :
                  s \in Schedules(b, h) \ b.noExpression}
Mappings(b, h) == {<<ESMName(x[1], x[2]), EventSourceMapping(h, x[1])>> :
                     x \in ExternalSources(b, h)}
Triggered(b) == UNION {Rules(b, h) \cup Mappings(b, h) : h \in Deployed(b)}

Roles(b) ==
    {<<RoleOf(b, h),
       [type |-> "role", source |-> "anyone", refs |-> {},
        sharedBy |-> {g \in Handlers(b) : RolePlan(b, g) = RolePlan(b, h)},
        tracing |-> h \in b.tracing,
        readsStore |-> Backings(b, h) \cap InStore(b) # {},
        externalSources |-> ExternalSources(b, h)]>> : h \in Handlers(b)}

Layers(b) ==
    {<<LayerName(b.layer[h]),
       [type |-> "layer", source |-> "anyone", refs |-> {},
        runtimes |-> {b.runtime[g] : g \in {f \in Deployed(b) :
                                        b.layer[f] = b.layer[h]}}]>> :
            h \in Layered(b)}

ResourcesStore(b) == {<<StoreName, Store(x)>> : x \in {InStore(b)} \ {{}}}

\* The subscription names its topic as soon as one absorber is deployed.
Fanout(b) ==
    {<<TopicQueueName(c), FanoutQueue(c)>> : c \in AbsorbedTopics(b)}
      \cup {<<TopicDLQName(c), FanoutQueue(c)>> :
              c \in AbsorbedTopics(b) \ b.noDeadLetter}
      \cup {<<SubscriptionName(c),
              IF LinkedTo(b, c, {"handler"}) \cap Deployed(b) = {}
              THEN Subscription(c)
              ELSE [Subscription(c) EXCEPT !.topicArn = TRUE,
                                           !.refs = @ \cup TopicArn(b, c)]>> :
              c \in AbsorbedTopics(b)}

CompiledResources(b) ==
    Computed(b) \cup Triggered(b) \cup Roles(b) \cup Layers(b)
        \cup Fanout(b) \cup ResourcesStore(b)

ReportedOfHandlers(b) ==
    UNION {HandlerDiagnostics(b, h, ManifestOf(b)) : h \in Handlers(b)}
ReportedOfRefused(b) == {Error(r) : r \in b.refused}
CompiledDiagnostics(b) == ReportedOfHandlers(b) \cup ReportedOfRefused(b)

Compile(b) == [outcome |-> "compiled",
               resources |-> CompiledResources(b),
               diagnostics |-> CompiledDiagnostics(b)]

MustRefuse(b) ==
    \/ b.aborts # {}
    \/ \E h \in Handlers(b) : \/ b.runtime[h] \in {"absent", "deferred"}
                              \/ b.placement[h] = "conflict"
                              \/ ~HasEventSource(b, h)
=============================================================================
