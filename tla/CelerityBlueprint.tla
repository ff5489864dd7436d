-------------------------- MODULE CelerityBlueprint --------------------------
(***************************************************************************)
(* The input of the transformer: an abstract Celerity blueprint with its   *)
(* declared link graph, and the settings of the run that transforms it.    *)
(*                                                                         *)
(* A blueprint is a record:                                                *)
(*   kind         resource name -> abstract resource type                  *)
(*   links        the declared link graph, a set of <<source, target>>     *)
(*   runtime      handler -> its runtime after inheritance; "deferred" is  *)
(*                a ${...} reference, "absent" no runtime anywhere         *)
(*   invokedBy    handler -> the kind of source its annotations say invokes*)
(*                it ("api", "consumer", "schedule"), "none" without one   *)
(*   tracing      the handlers with tracing enabled                        *)
(*   placement    handler -> subnet tier in its VPC, "none" without a VPC, *)
(*                "conflict" when it would inherit two VPCs                *)
(*   source       consumer -> what its spec names as its event source      *)
(*   topic        consumer -> the topic a "celerityTopic" source names     *)
(*   streams      consumer -> keys of its externalEvents streams           *)
(*   objectStores the consumers with an externalEvents bucket outside the  *)
(*                blueprint, which no event source mapping can poll        *)
(*   noDeadLetter the consumers that turned their dead-letter queue off    *)
(*   noExpression the schedules without a schedule expression              *)
(*   refused      the primaries, handlers apart, whose emitter reports an  *)
(*                error and emits nothing (a database without a VPC, ...)  *)
(*   aborts       the primaries whose emitter returns an error: a store    *)
(*                without an app name, a route with an undefined guard     *)
(*   manifest     what the run finds at the build manifest's path          *)
(*   validation   whether the run validates rather than deploys            *)
(*   layer        handler -> content hash of the layer the manifest gives  *)
(*                it, NoLayer when there is none                           *)
(***************************************************************************)
EXTENDS Naturals, FiniteSets, Sequences

CONSTANTS
    Blueprint,          \* the blueprints and runs considered
    SupportedRuntime,   \* the runtimes with an aws-serverless counterpart
    NoLayer,            \* "this handler uses no layer"
    Outside             \* the topic of a consumer when it is in no blueprint

Kind == {"handler", "handlerConfig", "schedule", "consumer", "api", "vpc",
         "queue", "topic", "datastore", "bucket", "cache", "sqlDatabase",
         "config"}

\* The kinds an emitter turns into resources; the others are absorbed.
ContributorKind == {"handlerConfig", "schedule", "consumer"}
EmitterKind == Kind \ ContributorKind

Resources(b) == DOMAIN b.kind
OfKind(b, kinds) == {r \in Resources(b) : b.kind[r] \in kinds}
Handlers(b) == OfKind(b, {"handler"})

\* The resources of the given kinds that r links to, and that link to r.
LinkedTo(b, r, kinds) == {t \in OfKind(b, kinds) : <<r, t>> \in b.links}
LinkedFrom(b, r, kinds) == {s \in OfKind(b, kinds) : <<s, r>> \in b.links}

Schedules(b, h) == LinkedFrom(b, h, {"schedule"})
Consumers(b, h) == LinkedFrom(b, h, {"consumer"})
Apis(b, h) == LinkedFrom(b, h, {"api"})
Configs(b, h) == LinkedTo(b, h, {"config"})

\* Whether the source a handler's annotations announce is linked to it.
HasEventSource(b, h) ==
    b.invokedBy[h] = "none" \/ LinkedFrom(b, h, {b.invokedBy[h]}) # {}

\* Every kind of backing resource a handler can use.
BackingKind == {"queue", "topic", "datastore", "bucket", "cache",
                "sqlDatabase", "config"}
Backings(b, h) == LinkedTo(b, h, BackingKind)

\* A linked queue, datastore or bucket wins over what the consumer's spec says.
SourceKind(b, c) ==
    CASE LinkedFrom(b, c, {"queue", "datastore", "bucket"}) # {} -> "linked"
      [] b.source[c] = "celerityTopic" -> "topic"
      [] b.source[c] \in {"sqs", "externalEvents"} -> "external"
      [] OTHER -> "unknown"

\* The keys under which a consumer's out-of-blueprint sources are polled.
ExternalKeys(b, c) ==
    CASE SourceKind(b, c) # "external" -> {}
      [] b.source[c] = "sqs" -> {"sqs"}
      [] OTHER -> b.streams[c]

TopicConsumers(b, h) == {c \in Consumers(b, h) : SourceKind(b, c) = "topic"}
ExternalSources(b, h) ==
    UNION {{c} \X ExternalKeys(b, c) : c \in Consumers(b, h)}

\* The shape the source's schema, links and cardinalities give a blueprint.
IsBlueprint(b) ==
    /\ \A r \in Resources(b) : b.kind[r] \in Kind
    /\ b.links \subseteq Resources(b) \X Resources(b)
    /\ b.tracing \subseteq Handlers(b)
    /\ \A h \in Handlers(b) :
        /\ h \in DOMAIN b.runtime /\ h \in DOMAIN b.placement
        /\ h \in DOMAIN b.layer /\ h \in DOMAIN b.invokedBy
        /\ b.invokedBy[h] \in {"api", "consumer", "schedule", "none"}
        /\ Cardinality(Apis(b, h)) <= 1
    /\ \A c \in OfKind(b, {"consumer"}) :
        /\ c \in DOMAIN b.source /\ c \in DOMAIN b.streams
        /\ c \in DOMAIN b.topic
        /\ b.topic[c] # Outside => b.topic[c] \in OfKind(b, {"topic"})
    /\ b.manifest \in {"noPath", "unreadable", "noLambda", "lambda"}
    /\ b.validation \in BOOLEAN
    /\ b.refused \subseteq OfKind(b, EmitterKind \ {"handler"})
    /\ b.aborts \subseteq OfKind(b, EmitterKind)
    /\ IsFiniteSet(Resources(b))

ASSUME BlueprintShape == \A b \in Blueprint : IsBlueprint(b)
=============================================================================
