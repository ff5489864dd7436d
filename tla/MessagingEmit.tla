----------------------------- MODULE MessagingEmit -----------------------------
(***************************************************************************)
(* What is emitted for a queue and a topic.  SQS cannot feed SNS, so a     *)
(* queue that links to topics gets a function of its own, its forwarder,   *)
(* which the queue triggers and which publishes to the topics; it is tied  *)
(* to both by labels and to the topics' ARNs by environment variables.     *)
(*                                                                         *)
(* The spec of a queue or a topic in a blueprint is a record:              *)
(*   fifo       whether it is FIFO                                         *)
(*   title      the parts of its spec.name, <<>> for none; ".fifo" is one  *)
(*   events     the bucket events its annotation asks for, in order        *)
(*   attempts   queue: the attempts before a dead letter, Absent for none  *)
(***************************************************************************)
EXTENDS BackingBlueprint

QueueName(q) == <<q, "sqs_queue">>
TopicName(t) == <<t, "sns_topic">>
ForwarderName(q) == <<q, "topic_forwarder">>
ForwarderRoleName(q) == <<q, "topic_forwarder_role">>

\* The key of the label names the queue; here its value does.
ForwardLabel == "celerity.queue.forward"

\* A variable the inline code finds by its prefix.
ForwardVariable(index) == <<"CELERITY_FORWARD_TOPIC_ARN", index>>

FifoSuffix == ".fifo"

\* A name that a reference ends in, or a literal without the suffix, gets it.
PhysicalName(title, fifo) ==
    IF title = <<>> \/ ~fifo \/ title[Len(title)] = FifoSuffix THEN title
    ELSE Append(title, FifoSuffix)

-----------------------------------------------------------------------------
(* Bucket notifications.                                                   *)

S3Event(event) == CASE event = "created" -> "s3:ObjectCreated:*"
                    [] event = "deleted" -> "s3:ObjectRemoved:*"
HasS3Event(event) == event \in {"created", "deleted"}

Mapped(requested) == {i \in DOMAIN requested : HasS3Event(requested[i])}
MappedBefore(requested, i) == Cardinality({j \in Mapped(requested) : j < i})

\* index -> event, counting only those that have an equivalent.
StampedEvents(requested) ==
    [n \in {MappedBefore(requested, i) : i \in Mapped(requested)} |->
        S3Event(requested[CHOOSE i \in Mapped(requested) :
                            MappedBefore(requested, i) = n])]

\* A slip: a warning for each event and none that the default applies.
NotificationDiagnosticsOfEvents(r, requested) ==
    {Warning(r, <<"unsupported", requested[i]>>) :
        i \in {j \in DOMAIN requested : ~HasS3Event(requested[j])}}

\* One for each event that is dropped, and one if that leaves the default.
NotificationDiagnostics(r, requested) ==
    LET unsupported == {i \in DOMAIN requested : ~HasS3Event(requested[i])}
        dropped == {Warning(r, <<"unsupported", requested[i]>>) : i \in unsupported}
    IN  IF unsupported # {} /\ unsupported = DOMAIN requested
        THEN dropped \cup {Warning(r, <<"default events">>)}
        ELSE dropped

-----------------------------------------------------------------------------
(* The forwarder.                                                          *)

TopicForwards(b, q) ==
    {t \in OfBacking(b, "topic") : Selects(b.selector[q], OwnLabels(b, t))}

\* The labels the queue's links to its topics were made on.
ForwardLabels(b, q) ==
    LET matched == {MatchedLabels(b.selector[q], OwnLabels(b, t)) :
                        t \in TopicForwards(b, q)}
    IN  [key \in UNION {DOMAIN m : m \in matched} |-> b.selector[q][key]]

\* The place of a topic among the queue's topics, by name.
ForwardIndex(b, q, t) ==
    Cardinality({s \in TopicForwards(b, q) : b.place[s] < b.place[t]})

\* A slip: the poller is not told that the function reports failed records.
ForwarderUnreporting(b, q) ==
    [Concrete("lambda/function", q) EXCEPT
        !.labels = OneLabel(ForwardLabel, <<q>>),
        !.selector = ForwardLabels(b, q),
        !.refs = {ForwarderRoleName(q)},
        !.spec = [variables |->
                    [n \in {TopicName(t) : t \in TopicForwards(b, q)} |->
                        ForwardVariable(ForwardIndex(b, q, n[1]))],
                  reportsItemFailures |-> FALSE]]

\* Variables by the topic whose link injects them, and whether the poller is
\* told of the single records that failed.
Forwarder(b, q) ==
    [Concrete("lambda/function", q) EXCEPT
        !.labels = OneLabel(ForwardLabel, <<q>>),
        !.selector = ForwardLabels(b, q),
        !.refs = {ForwarderRoleName(q)},
        !.spec = [variables |->
                    [n \in {TopicName(t) : t \in TopicForwards(b, q)} |->
                        ForwardVariable(ForwardIndex(b, q, n[1]))],
                  reportsItemFailures |-> TRUE]]

ForwarderRole(q) == Concrete("iam/role", q)

\* Two pollers would compete for the messages of a queue.
EmitTopicForwarder(b, q) ==
    CASE TopicForwards(b, q) = {} -> NothingEmitted({})
      [] TopicForwards(b, q) # {} /\ q \in b.consumed ->
            NothingEmitted({Error(q, "consumed and forwarded")})
      [] TopicForwards(b, q) # {} /\ q \notin b.consumed /\ ForwardLabels(b, q) = NoLabels ->
            NothingEmitted({Error(q, "no selector labels")})
      [] OTHER ->
            EmitResult(Entry(ForwarderName(q), Forwarder(b, q))
                        ++ Entry(ForwarderRoleName(q), ForwarderRole(q)), <<>>, {})

-----------------------------------------------------------------------------
(* The queue and the topic.                                                *)

\* The author's selector and, if there is something to forward, the label of the
\* forwarder, be it emitted or not.
QueueSelector(b, q) ==
    IF TopicForwards(b, q) = {} THEN b.selector[q]
    ELSE LabelsWith(b.selector[q], ForwardLabel, <<q>>)

QueueOrTopic(b, r, type) ==
    [WithOwnLabels(b, r, Concrete(type, r)) EXCEPT
        !.selector = IF b.kind[r] = "queue" THEN QueueSelector(b, r) ELSE b.selector[r],
        !.spec = [fifo |-> b.spec[r].fifo,
                  title |-> PhysicalName(b.spec[r].title, b.spec[r].fifo),
                  events |-> StampedEvents(b.spec[r].events)]]

QueueWith(b, q, attempts) ==
    [QueueOrTopic(b, q, "sqs/queue") EXCEPT
        !.spec = [fifo |-> @.fifo, title |-> @.title, events |-> @.events,
                  maxReceiveCount |-> attempts]]

\* A slip: the dead-letter annotation keeps the key only Celerity knows.
QueueWithoutRedrive(b, q) == QueueWith(b, q, Absent)

Queue(b, q) == QueueWith(b, q, b.spec[q].attempts)

EmitQueue(b, q) ==
    LET deferred == DeferredErrors(b, q, {"fifo"})
        forward == EmitTopicForwarder(b, q)
    IN  IF deferred # {} THEN NothingEmitted(deferred)
        ELSE EmitResult(Entry(QueueName(q), Queue(b, q)) ++ forward.resources, <<>>,
                        NotificationDiagnostics(q, b.spec[q].events)
                            \cup forward.diagnostics)

EmitTopic(b, t) ==
    LET deferred == DeferredErrors(b, t, {"fifo"})
    IN  IF deferred # {} THEN NothingEmitted(deferred)
        ELSE EmitResult(Entry(TopicName(t), QueueOrTopic(b, t, "sns/topic")), <<>>,
                        NotificationDiagnostics(t, b.spec[t].events))
=============================================================================
