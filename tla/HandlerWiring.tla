---------------------------- MODULE HandlerWiring ----------------------------
(***************************************************************************)
(* One handler from its inbound links to the function it emits: the links  *)
(* are collected in the order the graph gives them, each consumer's event  *)
(* source is classified, a placement is inherited, and the function gets   *)
(* the labels and annotations by which the provider's links find it.       *)
(*                                                                         *)
(* A wiring w has, besides the fields VpcPlacement reads,                  *)
(*   kind       queue, datastore or bucket -> which of the three it is     *)
(*   named      consumer -> the sources its annotations name               *)
(*   spec       consumer -> what its own spec gives as its source          *)
(*   batch      consumer -> its batch size, Absent when it sets none       *)
(*   failures   the consumers with partial failure reporting               *)
(*   fromStart  the consumers that read a stream from its beginning        *)
(*   events     consumer -> the S3 events it asks for, in its order        *)
(*   unmapped   the consumers that ask for an event S3 does not have       *)
(*   routingKey consumer -> the field it routes on, Absent for none        *)
(*   tag        the handler's routing tag, Absent for none                 *)
(*   guard      the custom guard the handler implements, Absent for none   *)
(*   protocol   "http" or "websocket" for a route of its API, else Absent  *)
(***************************************************************************)
EXTENDS VpcPlacement

CONSTANT Wiring         \* the wirings considered

VARIABLES w,            \* the wiring, fixed for the run
          phase,        \* what the resolver or the emitter is at
          pending,      \* the inbound edges not yet collected
          consumers,    \* the consumers collected, in edge order
          bindings,     \* one classified source per consumer
          placement,    \* the VPC, and what came with it
          labels,       \* the labels of the function
          settings,     \* its trigger annotations
          diagnostics

vars == <<w, phase, pending, consumers, bindings, placement, labels,
          settings, diagnostics>>

Warning(what, about) == [level |-> "warning", what |-> what, about |-> about]
Sources == DOMAIN w.kind
IsParent(kind) == {p \in Parents(w) : w.parents[p] = kind}

\* A wiring of a blueprint: a name belongs to one resource, names sort, a handler is
\* linked to one VPC at most, and the events a consumer asks for are a list.
IsWiring(x) ==
    /\ IsFiniteSet(Parents(x)) /\ IsFiniteSet(Vpcs(x))
    /\ Parents(x) \cap Vpcs(x) = {} /\ Absent \notin Parents(x) \cup Vpcs(x)
    /\ \A r \in Parents(x) \cup DOMAIN x.kind : x.rank[r] \in Nat
    /\ \A r, s \in Parents(x) : x.rank[r] = x.rank[s] => r = s
    /\ \A u, v \in VpcsOf(x, Handler) : u = v
    /\ \A c \in Parents(x) : x.events[c] \in Seq({"created", "deleted"})

ASSUME WiringShape == \A x \in Wiring : IsWiring(x)

Init ==
    /\ w \in Wiring
    /\ phase = "link"
    /\ pending = Parents(w) \cup VpcsOf(w, Handler)
    /\ consumers = <<>>
    /\ bindings = <<>>
    /\ placement = Unplaced
    /\ labels = NoLabels
    /\ settings = [sqsBatch |-> Absent, sqsFailures |-> FALSE,
                   streamBatch |-> Absent, streamFailures |-> FALSE,
                   position |-> Absent, events |-> <<>>, stamped |-> 0]
    /\ diagnostics = {}

-----------------------------------------------------------------------------
(* Resolving.                                                              *)

\* The edges into a handler come in any order.
AddInboundLink(x) ==
    /\ phase = "link" /\ x \in pending
    /\ pending' = pending \ {x}
    /\ consumers' = IF x \in IsParent("consumer") THEN Append(consumers, x)
                    ELSE consumers
    /\ placement' = IF x \in Vpcs(w) THEN DirectPlacement(x) ELSE placement
    /\ UNCHANGED <<w, phase, bindings, labels, settings, diagnostics>>

AllLinked ==
    /\ phase = "link" /\ pending = {}
    /\ phase' = "classify"
    /\ UNCHANGED <<w, pending, consumers, bindings, placement, labels,
                   settings, diagnostics>>

LinkedSources(c) == {s \in Sources : Selects(w.selector[s], w.labels[c])}
NamedSources(c) == LinkedSources(c) \cap w.named[c]

Binding(c, kind, source, ambiguous) ==
    [consumer |-> c, kind |-> kind, source |-> source, ambiguous |-> ambiguous]

\* A slip: an edge's target is taken for its source.
BindingsToConsumer(c) == {Binding(c, w.spec[c], c, FALSE)}

\* What c may be bound to: of two named sources the order of the edges decides.
SourceBindings(c) ==
    IF LinkedSources(c) = {} THEN {Binding(c, w.spec[c], Absent, FALSE)}
    ELSE IF Cardinality(LinkedSources(c)) = 1
    THEN {Binding(c, w.kind[s], s, FALSE) : s \in LinkedSources(c)}
    ELSE IF NamedSources(c) # {}
    THEN {Binding(c, w.kind[s], s, FALSE) : s \in NamedSources(c)}
    ELSE LET s == Least(w, LinkedSources(c))
         IN  {Binding(c, w.kind[s], s, TRUE)}

ClassifyConsumer ==
    /\ phase = "classify" /\ Len(bindings) < Len(consumers)
    /\ \E b \in SourceBindings(consumers[Len(bindings) + 1]) :
            bindings' = Append(bindings, b)
    /\ UNCHANGED <<w, phase, pending, consumers, placement, labels, settings,
                   diagnostics>>

\* A direct link wins; components in different VPCs end the run.
InheritPlacement ==
    /\ phase = "classify" /\ Len(bindings) = Len(consumers)
    /\ LET inheritable == InheritablePlacements(w, Parents(w))
       IN  CASE placement.vpc # Absent \/ inheritable = {} ->
                    phase' = "label" /\ UNCHANGED placement
             [] placement.vpc = Absent /\ PlacementsConflict(inheritable) ->
                    phase' = "failed" /\ UNCHANGED placement
             [] OTHER ->
                    /\ phase' = "label"
                    /\ \E order \in OrdersOf(inheritable) :
                            placement' = FirstPlacement(w, order)
    /\ UNCHANGED <<w, pending, consumers, bindings, labels, settings, diagnostics>>

-----------------------------------------------------------------------------
(* Labels.                                                                 *)

Bearers(key) == {i \in DOMAIN consumers : key \in DOMAIN w.labels[consumers[i]]}
FirstBearer(key) ==
    consumers[CHOOSE i \in Bearers(key) : \A j \in Bearers(key) : i <= j]

\* A slip: only the first consumer's labels are carried over.
LabelsOfFirstConsumer ==
    IF consumers = <<>> THEN NoLabels ELSE w.labels[consumers[1]]

\* Of two consumers with one key, the first keeps its value.
ConsumerLabelUnion ==
    [key \in UNION {DOMAIN w.labels[consumers[i]] : i \in DOMAIN consumers} |->
        w.labels[FirstBearer(key)][key]]

KeepsLabel(i, key) == w.labels[consumers[i]][key] = ConsumerLabelUnion[key]

\* The consumer a warning names beside the ith: the last before it that agreed.
Origin(i, key) ==
    LET before == {j \in Bearers(key) : j < i /\ KeepsLabel(j, key)}
    IN  consumers[CHOOSE j \in before : \A k \in before : k <= j]

LabelConflicts ==
    {Warning("labels", {Origin(x[1], x[2]), consumers[x[1]]}) :
        x \in {y \in (DOMAIN consumers) \X (DOMAIN ConsumerLabelUnion) :
                 y[1] \in Bearers(y[2]) /\ ~KeepsLabel(y[1], y[2])}}

GuardTargetLabel ==
    IF w.guard # Absent /\ IsParent("api") # {}
    THEN OneLabel(<<"guardTarget">>, <<CHOOSE a \in IsParent("api") : TRUE, w.guard>>)
    ELSE NoLabels

\* A slip: the inherited labels are laid under the handler's.
LabelsOverInherited ==
    LabelsAnd(LabelsAnd(LabelsAnd(ConsumerLabelUnion, placement.labels),
                        w.labels[Handler]),
              GuardTargetLabel)

\* Each map is copied over the ones before it.
FunctionLabels ==
    LabelsAnd(LabelsAnd(LabelsAnd(ConsumerLabelUnion, w.labels[Handler]),
                        placement.labels),
              GuardTargetLabel)

ApplyLambdaLabels ==
    /\ phase = "label"
    /\ labels' = FunctionLabels
    /\ diagnostics' = diagnostics \cup LabelConflicts
    /\ phase' = "stamp"
    /\ UNCHANGED <<w, pending, consumers, bindings, placement, settings>>

-----------------------------------------------------------------------------
(* Trigger annotations: one value per function, the last binding's wins.   *)

Batch(c, old) == IF w.batch[c] # Absent THEN w.batch[c] ELSE old

\* A slip: every bucket's events start at index zero.
EventsFromZero(c) ==
    LabelsAnd(settings.events, w.events[c])

\* The events of a bucket follow those of the buckets before it.
EventsAppended(c) == settings.events \o w.events[c]

Stamped(b) ==
    LET c == b.consumer
    IN  CASE b.kind \in {"queue", "topic"} ->
               [settings EXCEPT !.sqsBatch = Batch(c, @),
                                !.sqsFailures = @ \/ c \in w.failures,
                                !.stamped = @ + 1]
          [] b.kind = "datastore" ->
               [settings EXCEPT !.streamBatch = Batch(c, @),
                                !.streamFailures = @ \/ c \in w.failures,
                                !.position = IF c \in w.fromStart THEN "start"
                                             ELSE "latest",
                                !.stamped = @ + 1]
          [] b.kind = "bucket" ->
               [settings EXCEPT !.events = EventsAppended(c), !.stamped = @ + 1]
          [] OTHER ->
               [settings EXCEPT !.stamped = @ + 1]

PollLabel(b) ==
    IF b.kind = "topic" THEN OneLabel(<<"topicPoll", b.consumer>>, "true") ELSE NoLabels

\* The key in effect: that of the consumer the handler's tag names.
RoutingKey ==
    IF \A i \in DOMAIN bindings : bindings[i].consumer # w.tag THEN Absent
    ELSE IF w.routingKey[w.tag] # Absent THEN w.routingKey[w.tag] ELSE "event"

RoutingKeyDeferred(c) ==
    w.tag # Absent /\ RoutingKey = Absent /\ w.routingKey[c] # Absent

BindingDiagnostics(b) ==
    {d \in {Warning("ambiguous", {b.consumer})} : b.ambiguous}
      \cup {d \in {Warning("event", {b.consumer})} :
                b.kind = "bucket" /\ b.consumer \in w.unmapped}
      \cup {d \in {Warning("source", {b.consumer})} :
                b.kind \in {"unknown", "objectStorage"}}
      \cup {d \in {Warning("routing", {b.consumer})} :
                RoutingKeyDeferred(b.consumer)}

StampConsumerBinding ==
    /\ phase = "stamp" /\ settings.stamped < Len(bindings)
    /\ LET b == bindings[settings.stamped + 1]
       IN  /\ settings' = Stamped(b)
           /\ labels' = LabelsAnd(labels, PollLabel(b))
           /\ diagnostics' = diagnostics \cup BindingDiagnostics(b)
    /\ UNCHANGED <<w, phase, pending, consumers, bindings, placement>>

-----------------------------------------------------------------------------
(* What the function cannot honour, and its route.                         *)

Bound == {bindings[i] : i \in DOMAIN bindings}
Family(kinds) == {b.consumer : b \in {x \in Bound : x.kind \in kinds}}

\* A slip: a topic's fan-out queue is not counted as a queue.
QueueConsumersWithoutTopics == Family({"queue"})

QueueConsumers == Family({"queue", "topic"})
StreamConsumers == Family({"datastore"})
BucketConsumers == Family({"bucket"})

BatchOrFailuresConflict(cs) ==
    \/ Cardinality({w.batch[c] : c \in cs} \ {Absent}) > 1
    \/ cs \cap w.failures # {} /\ cs \ w.failures # {}

StartingPositionConflict(cs) ==
    cs \cap w.fromStart # {} /\ cs \ w.fromStart # {}

EventCount(c) ==
    [e \in {"created", "deleted"} |->
        Cardinality({i \in DOMAIN w.events[c] : w.events[c][i] = e})]

BucketEventSetsDiverge(cs) == Cardinality({EventCount(c) : c \in cs}) > 1

PerFunctionTriggerConflicts ==
    {d \in {Warning("settings", QueueConsumers)} :
            BatchOrFailuresConflict(QueueConsumers)}
      \cup {d \in {Warning("settings", StreamConsumers)} :
            BatchOrFailuresConflict(StreamConsumers)
               \/ StartingPositionConflict(StreamConsumers)}
      \cup {d \in {Warning("events", BucketConsumers)} :
            BucketEventSetsDiverge(BucketConsumers)}

\* The route label pairs the function with its own protocol's API alone.
RouteLabel ==
    IF w.protocol # Absent /\ IsParent("api") # {}
    THEN OneLabel(<<"apiTarget">>, <<CHOOSE a \in IsParent("api") : TRUE, w.protocol>>)
    ELSE NoLabels

FinishFunction ==
    /\ phase = "stamp" /\ settings.stamped = Len(bindings)
    /\ labels' = LabelsAnd(labels, RouteLabel)
    /\ diagnostics' = diagnostics \cup PerFunctionTriggerConflicts
                        \cup VpcPlacementDiagnostics(w, placement)
                        \cup AwsServerlessEgressDiagnostics(w, placement)
    /\ phase' = "done"
    /\ UNCHANGED <<w, pending, consumers, bindings, placement, settings>>

Step ==
    \/ \E x \in pending : AddInboundLink(x)
    \/ AllLinked
    \/ ClassifyConsumer
    \/ InheritPlacement
    \/ ApplyLambdaLabels
    \/ StampConsumerBinding
    \/ FinishFunction

Finished == phase \in {"done", "failed"} /\ UNCHANGED vars
Next == Step \/ Finished

\* Resolving and emitting a handler are sequential code.
Spec == Init /\ [][Next]_vars /\ WF_vars(Step)

-----------------------------------------------------------------------------
(* Properties.                                                             *)

\* Type invariant: the values each variable takes.
TypeOK ==
    /\ phase \in {"link", "classify", "label", "stamp", "done", "failed"}
    /\ pending \subseteq Parents(w) \cup Vpcs(w)
    /\ consumers \in Seq(IsParent("consumer"))
    /\ Len(bindings) <= Len(consumers)
    /\ \A b \in Bound : b.consumer \in IsParent("consumer")
                          /\ b.source \in Sources \cup {Absent}
    /\ placement.vpc \in Vpcs(w) \cup {Absent}
    /\ settings.stamped \in 0..Len(bindings)

Reported(what, c) == \E d \in diagnostics : d.what = what /\ c \in d.about

\* The handler's own labels, or those its VPC was selected by, give a label of
\* the consumer another value.
Overridden(c) ==
    LET over == LabelsAnd(w.labels[Handler], placement.labels)
    IN  \E key \in DOMAIN over \cap DOMAIN w.labels[c] :
            over[key] # w.labels[c][key]

\* A bound source selects the function that took its consumer's place, unless a
\* warning names the consumer or a label laid over the consumers' says otherwise.
SourcesReachFunction ==
    phase = "done" =>
        \A b \in Bound : b.source # Absent =>
            \/ Selects(w.selector[b.source], labels)
            \/ Reported("labels", b.consumer)
            \/ Overridden(b.consumer)

\* The VPC a handler is placed in, directly or through a component, selects its
\* function: whatever else is laid over the labels, the placement survives.
PlacementReachesFunction ==
    phase = "done" /\ placement.vpc # Absent =>
        Selects(w.selector[placement.vpc], labels)

\* "A handler belongs to at most one celerity/vpc": no VPC but that of its
\* placement selects the function (the concrete VPCs keep their selectors).
PlacedInOneVpc ==
    phase = "done" =>
        {v \in Vpcs(w) : Selects(w.selector[v], labels)} \subseteq {placement.vpc}

\* The VPCs a placement can come from: the handler's own, else its components'.
Candidates ==
    IF VpcsOf(w, Handler) # {} THEN VpcsOf(w, Handler)
    ELSE UNION {VpcsOf(w, p) : p \in Parents(w)}

\* The placement in v that the wiring alone gives: the handler's own, else that of
\* the first component by name that is placed.
PlacementByName(v) ==
    IF VpcsOf(w, Handler) # {} THEN DirectPlacement(v)
    ELSE Inherited(w, Least(w, {p \in Parents(w) : VpcsOf(w, p) # {}}), v)

\* "Edge order from the link graph is not guaranteed, so the winning placement and
\* any conflict message must not depend on it": whether a handler is placed, in which
\* VPC, by which labels, in which tier and with which reach is the wiring's alone, in
\* whatever order its edges come and those of its components are collected.
OrderDoesNotShow ==
    /\ phase = "failed" => \E u, v \in Candidates : u # v
    /\ phase = "done" =>
        /\ Candidates = {} => placement = Unplaced
        /\ \A v \in Candidates : placement = PlacementByName(v)

\* What a function of this tier reaches. An unknown topology may provide
\* anything, but no public IPv4 address to a function.
Reachable(preset, tier) ==
    LET outbound == ~KnownTopology(preset) \/ OutboundPathExists(preset, tier)
    IN  IF ~outbound THEN {}
        ELSE IF tier = "public" THEN {"ipv6"} ELSE {"ipv4", "ipv6"}

Requested(egress) ==
    CASE egress \in {"internet", "ipv4 and ipv6"} -> {"ipv4", "ipv6"}
      [] egress \in {"ipv4", "ipv6"} -> {egress}
      [] OTHER -> {}

\* A placed handler about which nothing is reported gets what it asked for: its
\* tier exists and everything it wants to reach can be reached. Two validators
\* share this, one for the topology and one for Lambda.
SilenceMeansDelivered ==
    phase = "done" /\ placement.vpc # Absent =>
        LET tier == SubnetType(w, placement)
            preset == w.preset[placement.vpc]
        IN  \/ Reported("placement", Handler) \/ Reported("egress", Handler)
            \/ /\ ~(KnownTopology(preset) /\ TierMissing(preset, tier))
               /\ Requested(Egress(w, placement)) \subseteq Reachable(preset, tier)

\* Every S3 event a bucket consumer asks for is in the function's list, which
\* has nothing else in it.
BucketEventsStamped ==
    phase = "done" =>
        {settings.events[i] : i \in DOMAIN settings.events} =
            UNION {{w.events[c][i] : i \in DOMAIN w.events[c]} : c \in BucketConsumers}

\* A setting a consumer makes takes effect for it or a warning names it: the
\* function has one value per setting, whatever order its consumers come in.
SettingsApplyOrReported ==
    phase = "done" =>
        /\ \A c \in QueueConsumers :
            \/ Reported("settings", c)
            \/ /\ w.batch[c] \in {Absent, settings.sqsBatch}
               /\ c \in w.failures <=> settings.sqsFailures
        /\ \A c \in StreamConsumers :
            \/ Reported("settings", c)
            \/ /\ w.batch[c] \in {Absent, settings.streamBatch}
               /\ c \in w.failures <=> settings.streamFailures
               /\ c \in w.fromStart <=> settings.position = "start"

=============================================================================
