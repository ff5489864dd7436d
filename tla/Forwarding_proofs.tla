--------------------------- MODULE Forwarding_proofs ---------------------------
(***************************************************************************)
(* The forwarder at work: each message is in one place, and what the       *)
(* transform deploys keeps the promise of FanOut.                          *)
(***************************************************************************)
EXTENDS Forwarding, BackingResources_proofs

\* The topics the author's queue links to, by the names of what is emitted.
PromisedTopics == {TopicName(t) : t \in TopicForwards(b, b.source)}

\* A queue triggers every function it selects: nothing in the code stops an author
\* from a selector that finds another queue's forwarder, or a maintenance runner,
\* which bears the labels its VPC selects by.
TriggersItsForwarderOnly ==
    /\ \A q \in OfBacking(b, "queue") \ {b.source} :
            ~Selects(QueueSelector(b, b.source), OneLabel(ForwardLabel, <<q>>))
    /\ \A v \in OfBacking(b, "vpc") :
            ~Selects(QueueSelector(b, b.source), b.selector[v])

NoErrors == ~\E x \in diagnostics : x.level = "error"

-----------------------------------------------------------------------------
(* What is emitted for the queue looked at.                                *)

LEMMA SourceIsQueue ==
    ASSUME StoreInv
    PROVE  /\ HasSource(b)
           /\ b.source \in DOMAIN b.kind /\ b.kind[b.source] = "queue"
<1>1. HasSource(b)
  BY ForwardingShape DEF StoreInv, PlanShape
<1> QED
  BY <1>1 DEF HasSource, OfBacking

\* A queue is emitted without an error only with all it is to forward.
LEMMA ForwardedWhole ==
    ASSUME NEW x, NEW q, ~\E y \in EmitQueue(x, q).diagnostics : y.level = "error"
    PROVE  /\ EmitQueue(x, q).resources
                = Entry(QueueName(q), Queue(x, q)) ++ EmitTopicForwarder(x, q).resources
           /\ TopicForwards(x, q) = {} => DOMAIN EmitTopicForwarder(x, q).resources = {}
           /\ TopicForwards(x, q) # {} =>
                /\ q \notin x.consumed
                /\ EmitTopicForwarder(x, q).resources
                    = Entry(ForwarderName(q), Forwarder(x, q))
                        ++ Entry(ForwarderRoleName(q), ForwarderRole(q))
<1> DEFINE deferred == DeferredErrors(x, q, {"fifo"})
           forward == EmitTopicForwarder(x, q)
           ds == NotificationDiagnostics(q, x.spec[q].events) \cup forward.diagnostics
           rs == Entry(QueueName(q), Queue(x, q)) ++ forward.resources
<1>1. deferred = {}
  <2> SUFFICES ASSUME deferred # {} PROVE FALSE
    OBVIOUS
  <2>1. EmitQueue(x, q) = NothingEmitted(deferred)
    BY DEF EmitQueue
  <2>2. \A y \in deferred : \E w : y = Error(q, w)
    BY DeferredAreErrors
  <2> HIDE DEF deferred
  <2>3. Refuses(NothingEmitted(deferred), q)
    BY <2>2, NothingRefuses
  <2> QED
    BY <2>1, <2>3 DEF Refuses
<1>2. EmitQueue(x, q) = EmitResult(rs, <<>>, ds)
  BY <1>1 DEF EmitQueue
<1> HIDE DEF rs, ds, deferred
<1>3. EmitQueue(x, q).resources = rs /\ EmitQueue(x, q).diagnostics = ds
  BY <1>2, ResultFields
<1>4. ~\E y \in forward.diagnostics : y.level = "error"
  BY <1>3 DEF ds
<1>5. ~Refuses(forward, q)
  BY <1>4 DEF Refuses
<1>6. CASE TopicForwards(x, q) = {}
  <2>1. DOMAIN forward.resources = {}
    BY <1>6 DEF EmitTopicForwarder, NothingEmitted, EmitResult
  <2> QED
    BY <1>3, <1>6, <2>1 DEF rs
<1>7. CASE TopicForwards(x, q) # {}
  <2>1. q \notin x.consumed
    <3> SUFFICES ASSUME q \in x.consumed PROVE FALSE
      OBVIOUS
    <3>1. forward = NothingEmitted({Error(q, "consumed and forwarded")})
      BY <1>7 DEF EmitTopicForwarder
    <3> HIDE DEF forward
    <3> QED
      BY <1>5, <3>1, ErrorRefuses
  <2>2. ForwardLabels(x, q) # NoLabels
    <3> SUFFICES ASSUME ForwardLabels(x, q) = NoLabels PROVE FALSE
      OBVIOUS
    <3>1. forward = NothingEmitted({Error(q, "no selector labels")})
      BY <1>7, <2>1 DEF EmitTopicForwarder
    <3> HIDE DEF forward
    <3> QED
      BY <1>5, <3>1, ErrorRefuses
  <2> DEFINE both == Entry(ForwarderName(q), Forwarder(x, q))
                        ++ Entry(ForwarderRoleName(q), ForwarderRole(q))
  <2>3. forward = EmitResult(both, <<>>, {})
    BY <1>7, <2>1, <2>2 DEF EmitTopicForwarder
  <2> HIDE DEF both, forward
  <2>4. forward.resources = both
    BY <2>3, ResultFields
  <2> QED
    BY <1>3, <1>7, <2>1, <2>4 DEF rs, both, forward
<1> QED
  BY <1>6, <1>7

LEMMA SourceThere ==
    ASSUME BackingInv, Complete, NoErrors
    PROVE  /\ Source \in DOMAIN emitted /\ emitted[Source] = Queue(b, b.source)
           /\ PromisedTopics = {} => ForwarderName(b.source) \notin DOMAIN emitted
           /\ PromisedTopics # {} =>
                /\ b.source \notin b.consumed
                /\ ForwarderName(b.source) \in DOMAIN emitted
                /\ emitted[ForwarderName(b.source)] = Forwarder(b, b.source)
<1> DEFINE q == b.source
           rs == ResourcesOf(b, q)
           forward == EmitTopicForwarder(b, q).resources
<1>1. q \in DOMAIN b.kind /\ b.kind[q] = "queue"
  BY SourceIsQueue DEF BackingInv
<1>2. ResultOf(b, q) = EmitQueue(b, q)
  BY <1>1, ResultByKind
<1>3. q \in EmittedBackings
  BY <1>1, AllEmitted
<1>4. EmitQueue(b, q).diagnostics \subseteq diagnostics
  BY <1>2, <1>3 DEF BackingInv, ResultsKept, DiagnosticsOf
<1>5. ~\E y \in EmitQueue(b, q).diagnostics : y.level = "error"
  BY <1>4 DEF NoErrors
<1>6. /\ rs = Entry(QueueName(q), Queue(b, q)) ++ forward
      /\ TopicForwards(b, q) = {} => DOMAIN forward = {}
      /\ TopicForwards(b, q) # {} =>
            /\ q \notin b.consumed
            /\ forward = Entry(ForwarderName(q), Forwarder(b, q))
                            ++ Entry(ForwarderRoleName(q), ForwarderRole(q))
  BY <1>2, <1>5, ForwardedWhole DEF ResourcesOf
<1>7. /\ QueueName(q) # ForwarderName(q) /\ QueueName(q) # ForwarderRoleName(q)
      /\ ForwarderName(q) # ForwarderRoleName(q) /\ ForwarderName(q)[1] = q
  BY DEF QueueName, ForwarderName, ForwarderRoleName
<1>8. PromisedTopics = {} <=> TopicForwards(b, q) = {}
  BY DEF PromisedTopics
<1> HIDE DEF rs, forward
<1>9. QueueName(q) \in DOMAIN rs /\ rs[QueueName(q)] = Queue(b, q)
  BY <1>6 DEF Entry, ++
<1>10. DOMAIN rs = {QueueName(q)} \cup DOMAIN forward
  BY <1>6 DEF Entry, ++
<1>11. ASSUME TopicForwards(b, q) # {}
       PROVE  /\ ForwarderName(q) \in DOMAIN rs
              /\ rs[ForwarderName(q)] = Forwarder(b, q)
  <2>1. ForwarderName(q) \in DOMAIN forward /\ forward[ForwarderName(q)] = Forwarder(b, q)
    BY <1>6, <1>11 DEF Entry, ++
  <2> QED
    BY <1>6, <1>7, <2>1 DEF Entry, ++
<1>12. \A n \in DOMAIN rs : n \in DOMAIN emitted /\ emitted[n] = rs[n]
  BY <1>1, AllEmitted DEF rs
<1>13. ForwarderName(q) \in DOMAIN emitted => ForwarderName(q) \in DOMAIN rs
  BY <1>7, EmittedIsOwn DEF rs
<1> QED
  BY <1>6, <1>7, <1>8, <1>9, <1>10, <1>11, <1>12, <1>13 DEF Source

-----------------------------------------------------------------------------
(* What is deployed.                                                       *)

LEMMA QueueSelects ==
    ASSUME NEW x, NEW q, x.kind[q] = "queue"
    PROVE  /\ Queue(x, q).selector = QueueSelector(x, q)
           /\ Queue(x, q).type = "sqs/queue"
<1>1. QueueOrTopic(x, q, "sqs/queue").selector = QueueSelector(x, q)
  BY DEF QueueOrTopic, WithOwnLabels, Concrete
<1>2. DOMAIN QueueOrTopic(x, q, "sqs/queue") = Fields
  BY DEF QueueOrTopic, WithOwnLabels, Concrete, Fields
<1> DEFINE made == QueueOrTopic(x, q, "sqs/queue")
<1> HIDE DEF made
<1>3. Queue(x, q).selector = made.selector
  BY <1>2 DEF Queue, QueueWith, made, Fields
<1>4. Queue(x, q).type = "sqs/queue"
  <2>1. Relates(Queue(x, q), "sqs/queue", q, {}, {}, {})
    BY QueueParts
  <2> QED
    BY <2>1 DEF Relates
<1> QED
  BY <1>1, <1>3, <1>4 DEF made

\* The queue finds its forwarder by the label that names the queue.
LEMMA ForwarderFound ==
    ASSUME NEW x, NEW q, TopicForwards(x, q) # {}
    PROVE  Selects(QueueSelector(x, q), OneLabel(ForwardLabel, <<q>>))
<1>1. QueueSelector(x, q) = LabelsWith(x.selector[q], ForwardLabel, <<q>>)
  BY DEF QueueSelector
<1> QED
  BY <1>1 DEF LabelsWith, Selects, OneLabel

\* A function is a queue's forwarder or a database's runner.
LEMMA FunctionIs ==
    ASSUME BackingInv, NEW n \in DOMAIN emitted, emitted[n].type = "lambda/function"
    PROVE  \/ /\ n[1] \in OfBacking(b, "queue") /\ n = ForwarderName(n[1])
              /\ emitted[n].labels = OneLabel(ForwardLabel, <<n[1]>>)
           \/ \E v \in OfBacking(b, "vpc") : emitted[n].labels = b.selector[v]
<1> DEFINE r == n[1]
           p == emitted[n]
<1>1. /\ r \in DOMAIN b.kind /\ r \in EmittedBackings
      /\ n \in DOMAIN ResourcesOf(b, r) /\ p = ResourcesOf(b, r)[n]
  BY EmittedIsOwn
<1>2. MadeFor(b, r, p)
  BY EmittedMadeFor
<1>3. ~Refuses(ResultOf(b, r), r)
  BY EmittedNotRefused
<1> HIDE DEF r, p
<1>4. ASSUME b.kind[r] = "queue", p = Forwarder(b, r)
      PROVE  /\ r \in OfBacking(b, "queue") /\ n = ForwarderName(r)
             /\ p.labels = OneLabel(ForwardLabel, <<r>>)
  <2>1. QueueEmitted(b, r) /\ ResultOf(b, r) = EmitQueue(b, r)
    BY <1>3, <1>4, QueueResult, ResultByKind
  <2>2. /\ Relates(Queue(b, r), "sqs/queue", r, {}, {}, {})
        /\ Relates(ForwarderRole(r), "iam/role", r, {}, {}, {})
        /\ Relates(Forwarder(b, r), "lambda/function", r, {ForwarderRoleName(r)}, {}, {})
        /\ Forwarder(b, r).labels = OneLabel(ForwardLabel, <<r>>)
    BY QueueParts
  <2>3. p # Queue(b, r) /\ p # ForwarderRole(r)
    BY <1>4, <2>2 DEF Relates
  <2>4. n = ForwarderName(r)
    BY <1>1, <2>1, <2>3 DEF QueueEmitted, ResourcesOf
  <2> QED
    BY <1>1, <1>4, <2>2, <2>4 DEF OfBacking
<1>5. ASSUME b.kind[r] = "sqlDatabase", p.labels = b.selector[VpcOf(b, r)]
      PROVE  \E v \in OfBacking(b, "vpc") : p.labels = b.selector[v]
  <2>1. PlacedIn(b, r) # {}
    BY <1>1, <1>3, <1>5, DatabaseThere
  <2>2. VpcOf(b, r) \in PlacedIn(b, r)
    BY <2>1 DEF VpcOf
  <2>3. VpcOf(b, r) \in OfBacking(b, "vpc")
    BY <2>2 DEF PlacedIn
  <2> QED
    BY <1>5, <2>3
<1>6. p.type = "lambda/function"
  BY DEF p
<1>7. \/ b.kind[r] = "queue" /\ p = Forwarder(b, r)
      \/ b.kind[r] = "sqlDatabase" /\ p.labels = b.selector[VpcOf(b, r)]
  BY <1>2, <1>6 DEF MadeFor
<1> QED
  BY <1>4, <1>5, <1>7 DEF p, r

LEMMA PollersAre ==
    ASSUME BackingInv, Complete, NoErrors, TriggersItsForwarderOnly
    PROVE  Pollers = {n \in {ForwarderName(b.source)} : PromisedTopics # {}}
<1> DEFINE q == b.source
<1>1. q \in DOMAIN b.kind /\ b.kind[q] = "queue"
  BY SourceIsQueue DEF BackingInv
<1>2. /\ Source \in DOMAIN emitted
      /\ emitted[Source].selector = QueueSelector(b, q)
      /\ emitted[Source].type = "sqs/queue"
  BY <1>1, SourceThere, QueueSelects
<1>3. ASSUME NEW n \in Pollers
      PROVE  n = ForwarderName(q) /\ n \in DOMAIN emitted
  <2>1. /\ n \in DOMAIN emitted /\ emitted[n].type = "lambda/function"
        /\ Selects(QueueSelector(b, q), emitted[n].labels)
    BY <1>2 DEF Pollers, LinksTo, EmittedOf
  <2>2. ~\E v \in OfBacking(b, "vpc") : emitted[n].labels = b.selector[v]
    BY <2>1 DEF TriggersItsForwarderOnly
  <2>3. /\ n[1] \in OfBacking(b, "queue") /\ n = ForwarderName(n[1])
        /\ emitted[n].labels = OneLabel(ForwardLabel, <<n[1]>>)
    BY <2>1, <2>2, FunctionIs
  <2>4. n[1] = q
    BY <2>1, <2>3 DEF TriggersItsForwarderOnly
  <2> QED
    BY <2>1, <2>3, <2>4
<1>4. ASSUME PromisedTopics # {} PROVE ForwarderName(q) \in Pollers
  <2>1. /\ ForwarderName(q) \in DOMAIN emitted
        /\ emitted[ForwarderName(q)] = Forwarder(b, q)
    BY <1>4, SourceThere
  <2>2. /\ emitted[ForwarderName(q)].type = "lambda/function"
        /\ emitted[ForwarderName(q)].labels = OneLabel(ForwardLabel, <<q>>)
    BY <2>1, QueueParts DEF Relates
  <2>3. TopicForwards(b, q) # {}
    BY <1>4 DEF PromisedTopics
  <2>4. Selects(QueueSelector(b, q), emitted[ForwarderName(q)].labels)
    BY <2>2, <2>3, ForwarderFound
  <2>5. ForwarderName(q) # Source
    BY <1>2, <2>2
  <2> QED
    BY <1>2, <2>1, <2>2, <2>4, <2>5 DEF Pollers, LinksTo, EmittedOf
<1>5. PromisedTopics = {} => ForwarderName(q) \notin DOMAIN emitted
  BY SourceThere
<1> QED
  BY <1>3, <1>4, <1>5

\* No two topics of a queue are in one place of its list.
LEMMA ForwardIndexesApart ==
    ASSUME NEW x, HasSource(x), NEW q,
           NEW s \in TopicForwards(x, q), NEW t \in TopicForwards(x, q),
           x.place[s] < x.place[t]
    PROVE  ForwardIndex(x, q, s) # ForwardIndex(x, q, t)
<1> DEFINE S == {k \in TopicForwards(x, q) : x.place[k] < x.place[s]}
           T == {k \in TopicForwards(x, q) : x.place[k] < x.place[t]}
<1>1. /\ TopicForwards(x, q) \subseteq OfBacking(x, "topic")
      /\ IsFiniteSet(OfBacking(x, "topic"))
      /\ \A k \in OfBacking(x, "topic") : x.place[k] \in Nat
  BY DEF TopicForwards, HasSource
<1>2. IsFiniteSet(S) /\ IsFiniteSet(T)
  BY <1>1, FS_Subset
<1>3. S \cup {s} \subseteq T /\ s \notin S
  <2>1. \A k \in TopicForwards(x, q) : x.place[k] \in Nat
    BY <1>1
  <2> QED
    BY <2>1
<1> HIDE DEF S, T
<1>4. Cardinality(S \cup {s}) = Cardinality(S) + 1
  BY <1>2, <1>3, FS_AddElement
<1>5. Cardinality(S \cup {s}) <= Cardinality(T)
  BY <1>2, <1>3, FS_Subset
<1>6. Cardinality(S) \in Nat /\ Cardinality(T) \in Nat
  BY <1>2, FS_CardinalityType
<1>7. Cardinality(S) # Cardinality(T)
  BY <1>4, <1>5, <1>6
<1> QED
  BY <1>7 DEF ForwardIndex, S, T

LEMMA ForwardVariablesApart ==
    ASSUME NEW x, HasSource(x), NEW q,
           NEW s \in TopicForwards(x, q), NEW t \in TopicForwards(x, q), s # t
    PROVE  ForwardVariable(ForwardIndex(x, q, s)) # ForwardVariable(ForwardIndex(x, q, t))
<1>1. s \in OfBacking(x, "topic") /\ t \in OfBacking(x, "topic")
  BY DEF TopicForwards
<1>2. x.place[s] \in Nat /\ x.place[t] \in Nat /\ x.place[s] # x.place[t]
  BY <1>1 DEF HasSource
<1>3. x.place[s] < x.place[t] \/ x.place[t] < x.place[s]
  BY <1>2
<1>4. ForwardIndex(x, q, s) # ForwardIndex(x, q, t)
  BY <1>3, ForwardIndexesApart
<1> QED
  BY <1>4 DEF ForwardVariable


LEMMA ForwarderFields ==
    ASSUME NEW x, NEW q
    PROVE  /\ Forwarder(x, q).selector = ForwardLabels(x, q)
           /\ Forwarder(x, q).spec.reportsItemFailures = TRUE
           /\ DOMAIN Forwarder(x, q).spec.variables
                = {TopicName(t) : t \in TopicForwards(x, q)}
           /\ \A t \in TopicForwards(x, q) :
                Forwarder(x, q).spec.variables[TopicName(t)]
                    = ForwardVariable(ForwardIndex(x, q, t))
<1> DEFINE variables == [n \in {TopicName(t) : t \in TopicForwards(x, q)} |->
                            ForwardVariable(ForwardIndex(x, q, n[1]))]
<1>1. /\ Forwarder(x, q).selector = ForwardLabels(x, q)
      /\ Forwarder(x, q).spec = [variables |-> variables, reportsItemFailures |-> TRUE]
  <2> HIDE DEF variables
  <2> QED
    BY DEF Forwarder, Concrete, variables
<1>2. \A t : TopicName(t)[1] = t
  BY DEF TopicName
<1>3. \A t \in TopicForwards(x, q) :
            variables[TopicName(t)] = ForwardVariable(ForwardIndex(x, q, t))
  BY <1>2
<1> QED
  BY <1>1, <1>3

\* What the queue links to, its forwarder links to, by the labels that matched.
LEMMA ForwarderLinks ==
    ASSUME NEW x, NEW q, NEW t \in TopicForwards(x, q)
    PROVE  Selects(ForwardLabels(x, q), OwnLabels(x, t))
<1> DEFINE matched == {MatchedLabels(x.selector[q], OwnLabels(x, s)) :
                            s \in TopicForwards(x, q)}
<1>1. Selects(x.selector[q], OwnLabels(x, t))
  BY DEF TopicForwards
<1>2. PICK key \in DOMAIN x.selector[q] \cap DOMAIN OwnLabels(x, t) :
            x.selector[q][key] = OwnLabels(x, t)[key]
  BY <1>1 DEF Selects
<1>3. key \in DOMAIN MatchedLabels(x.selector[q], OwnLabels(x, t))
  BY <1>2 DEF MatchedLabels
<1>4. MatchedLabels(x.selector[q], OwnLabels(x, t)) \in matched
  OBVIOUS
<1> HIDE DEF matched
<1>5. key \in UNION {DOMAIN m : m \in matched}
  BY <1>3, <1>4
<1>6. key \in DOMAIN ForwardLabels(x, q) /\ ForwardLabels(x, q)[key] = x.selector[q][key]
  BY <1>5 DEF ForwardLabels, matched
<1> QED
  BY <1>2, <1>6 DEF Selects

LEMMA TopicThere ==
    ASSUME BackingInv, Complete, NoErrors, NEW t \in OfBacking(b, "topic")
    PROVE  /\ TopicName(t) \in DOMAIN emitted
           /\ emitted[TopicName(t)].type = "sns/topic"
           /\ emitted[TopicName(t)].labels = OwnLabels(b, t)
<1>1. t \in DOMAIN b.kind /\ b.kind[t] = "topic"
  BY DEF OfBacking
<1>2. t \in EmittedBackings /\ ResultOf(b, t) = EmitTopic(b, t)
  BY <1>1, AllEmitted, ResultByKind
<1>3. ~Reported(t)
  BY DEF NoErrors, Reported
<1>4. Single(EmitTopic(b, t), TopicName(t), QueueOrTopic(b, t, "sns/topic"))
  BY <1>2, <1>3, TopicResult, RefusalReported
<1>5. /\ TopicName(t) \in DOMAIN ResourcesOf(b, t)
      /\ ResourcesOf(b, t)[TopicName(t)] = QueueOrTopic(b, t, "sns/topic")
  BY <1>2, <1>4 DEF Single, ResourcesOf
<1>6. /\ TopicName(t) \in DOMAIN emitted
      /\ emitted[TopicName(t)] = QueueOrTopic(b, t, "sns/topic")
  BY <1>1, <1>5, AllEmitted
<1>7. /\ Relates(QueueOrTopic(b, t, "sns/topic"), "sns/topic", t, {}, {}, {})
      /\ QueueOrTopic(b, t, "sns/topic").labels = OwnLabels(b, t)
  BY QueueParts
<1> QED
  BY <1>6, <1>7 DEF Relates

LEMMA ArnsAre ==
    ASSUME BackingInv, Complete, NoErrors, PromisedTopics # {}
    PROVE  /\ TopicArns(ForwarderName(b.source)) = PromisedTopics
           /\ emitted[ForwarderName(b.source)].spec.reportsItemFailures
<1> DEFINE q == b.source
           f == ForwarderName(q)
           variables == emitted[f].spec.variables
           named == LinksTo(f, "sns/topic") \cap DOMAIN variables
<1>1. f \in DOMAIN emitted /\ emitted[f] = Forwarder(b, q)
  BY SourceThere
<1>2. /\ emitted[f].selector = ForwardLabels(b, q)
      /\ emitted[f].spec.reportsItemFailures = TRUE
      /\ DOMAIN variables = PromisedTopics
      /\ \A t \in TopicForwards(b, q) :
            variables[TopicName(t)] = ForwardVariable(ForwardIndex(b, q, t))
  <2> DEFINE p == Forwarder(b, q)
  <2>1. /\ p.selector = ForwardLabels(b, q)
        /\ p.spec.reportsItemFailures = TRUE
        /\ DOMAIN p.spec.variables = {TopicName(t) : t \in TopicForwards(b, q)}
        /\ \A t \in TopicForwards(b, q) :
                p.spec.variables[TopicName(t)] = ForwardVariable(ForwardIndex(b, q, t))
    BY ForwarderFields
  <2> HIDE DEF p
  <2>2. emitted[f] = p
    BY <1>1 DEF p
  <2> QED
    BY <2>1, <2>2 DEF PromisedTopics
<1>3. emitted[f].type = "lambda/function"
  <2>1. Relates(Forwarder(b, q), "lambda/function", q, {ForwarderRoleName(q)}, {}, {})
    BY QueueParts
  <2> QED
    BY <1>1, <2>1 DEF Relates
<1> HIDE DEF f, variables
<1>4. ASSUME NEW t \in TopicForwards(b, q) PROVE TopicName(t) \in LinksTo(f, "sns/topic")
  <2>1. t \in OfBacking(b, "topic")
    BY DEF TopicForwards
  <2>2. /\ TopicName(t) \in DOMAIN emitted
        /\ emitted[TopicName(t)].type = "sns/topic"
        /\ emitted[TopicName(t)].labels = OwnLabels(b, t)
    BY <2>1, TopicThere
  <2>3. Selects(emitted[f].selector, emitted[TopicName(t)].labels)
    BY <1>2, <2>2, ForwarderLinks
  <2>4. TopicName(t) # f
    BY <1>3, <2>2
  <2> QED
    BY <2>2, <2>3, <2>4 DEF LinksTo, EmittedOf
<1>5. named = PromisedTopics
  BY <1>2, <1>4 DEF PromisedTopics
<1>6. ASSUME NEW m \in PromisedTopics, NEW n \in PromisedTopics, variables[m] = variables[n]
      PROVE  m = n
  <2>1. PICK s \in TopicForwards(b, q) : m = TopicName(s)
    BY DEF PromisedTopics
  <2>2. PICK t \in TopicForwards(b, q) : n = TopicName(t)
    BY DEF PromisedTopics
  <2>3. HasSource(b)
    BY SourceIsQueue DEF BackingInv
  <2> QED
    BY <1>2, <1>6, <2>1, <2>2, <2>3, ForwardVariablesApart
<1> HIDE DEF named
<1>7. TopicArns(f) = {CHOOSE t \in named : variables[t] = v : v \in {variables[t] : t \in named}}
  BY DEF TopicArns, named, variables
<1>8. \A m \in named : (CHOOSE t \in named : variables[t] = variables[m]) = m
  BY <1>5, <1>6
<1>9. TopicArns(f) \subseteq named
  BY <1>7, <1>8
<1>10. named \subseteq TopicArns(f)
  BY <1>7, <1>8
<1> QED
  BY <1>2, <1>5, <1>9, <1>10 DEF f

\* What is known of what is deployed: it is known from the blueprint alone.
StackAsPromised ==
    Deployed => /\ stack.polled => stack.arns = PromisedTopics /\ stack.reports
                /\ stack.consumer => PromisedTopics = {}

LEMMA DeployStep ==
    ASSUME BackingInv, TriggersItsForwarderOnly, Deploy
    PROVE  StackAsPromised'
<1>1. Complete /\ NoErrors
  BY DEF Deploy, NoErrors
<1>2. /\ stack'.polled = (Pollers # {})
      /\ stack'.consumer = (b.source \in b.consumed)
      /\ stack'.arns = UNION {TopicArns(f) : f \in Pollers}
      /\ stack'.reports = \A f \in Pollers : emitted[f].spec.reportsItemFailures
  BY DEF Deploy
<1>3. PromisedTopics' = PromisedTopics
  BY DEF Deploy, allVars, vars, PromisedTopics
<1>4. Pollers = {n \in {ForwarderName(b.source)} : PromisedTopics # {}}
  BY <1>1, PollersAre
<1>5. b.source \in b.consumed => PromisedTopics = {}
  BY <1>1, SourceThere
<1>6. ASSUME Pollers # {}
      PROVE  /\ UNION {TopicArns(f) : f \in Pollers} = PromisedTopics
             /\ \A f \in Pollers : emitted[f].spec.reportsItemFailures
  <2>1. PromisedTopics # {} /\ Pollers = {ForwarderName(b.source)}
    BY <1>4, <1>6
  <2>2. /\ TopicArns(ForwarderName(b.source)) = PromisedTopics
        /\ emitted[ForwarderName(b.source)].spec.reportsItemFailures
    BY <1>1, <2>1, ArnsAre
  <2> QED
    BY <2>1, <2>2
<1> QED
  BY <1>2, <1>3, <1>5, <1>6 DEF StackAsPromised


-----------------------------------------------------------------------------
(* The queue at work: where a message is.                                  *)

RunningTyped ==
    /\ running \in [Invocations -> [batch : SUBSET (1..MaxMessages),
                                    left : SUBSET (1..MaxMessages),
                                    failed : SUBSET (1..MaxMessages)]]
    /\ \A i \in Invocations : /\ running[i].left \subseteq running[i].batch
                              /\ running[i].failed \subseteq running[i].batch \ running[i].left

\* A message that is somewhere has been sent, and is in one place.
MessagesSent ==
    /\ visible \subseteq 1..sent /\ deadLetters \subseteq 1..sent /\ consumed \subseteq 1..sent
    /\ \A i \in Invocations : running[i].batch \subseteq 1..sent

MessagesApart ==
    /\ visible \cap deadLetters = {} /\ visible \cap consumed = {}
    /\ deadLetters \cap consumed = {}
    /\ \A i \in Invocations : /\ running[i].batch \cap visible = {}
                              /\ running[i].batch \cap deadLetters = {}
                              /\ running[i].batch \cap consumed = {}
    /\ \A i, j \in Invocations : i # j => running[i].batch \cap running[j].batch = {}

PublishedTyped ==
    /\ published \in [{TopicName(r) : r \in OfBacking(b, "topic")} -> Seq(Nat)]
    /\ \A t \in DOMAIN published : \A k : Contains(published[t], k) => k \in 1..sent

QueueInv ==
    /\ sent \in 0..MaxMessages /\ crashes \in 0..MaxCrashes
    /\ stack = Absent => sent = 0
    /\ RunningTyped
    /\ MessagesSent
    /\ MessagesApart
    /\ PublishedTyped

LEMMA LeastIsThere ==
    ASSUME NEW S, S \subseteq Nat, S # {}
    PROVE  Min(S) \in S
<1> DEFINE less == {p \in Nat \X Nat : p[1] < p[2]}
<1>1. IsWellFoundedOn(less, Nat)
  <2>1. OpToRel(<, Nat) = less
    BY DEF OpToRel
  <2> QED
    BY <2>1, NatLessThanWellFounded
<1>2. \A i, j \in Nat : <<j, i>> \in less <=> j < i
  OBVIOUS
<1> HIDE DEF less
<1>3. PICK m \in S : \A k \in S : ~(<<k, m>> \in less)
  BY <1>1, WFMin
<1>4. ASSUME NEW k \in S PROVE m <= k
  <2>1. m \in Nat /\ k \in Nat
    OBVIOUS
  <2>2. ~(k < m)
    BY <1>2, <1>3, <2>1
  <2> QED
    BY <2>1, <2>2
<1> QED
  BY <1>3, <1>4 DEF Min

LEMMA AppendedContains ==
    ASSUME NEW s \in Seq(Nat), NEW m \in Nat
    PROVE  /\ Append(s, m) \in Seq(Nat)
           /\ \A k : Contains(Append(s, m), k) <=> Contains(s, k) \/ k = m
<1>1. /\ Append(s, m) \in Seq(Nat) /\ Len(s) \in Nat
      /\ Len(Append(s, m)) = Len(s) + 1
      /\ Append(s, m)[Len(s) + 1] = m
      /\ \A i \in 1..Len(s) : Append(s, m)[i] = s[i]
  BY SuffixIsLast
<1> DEFINE L == Len(s)
           u == Append(s, m)
<1>2. \A k : Contains(u, k) <=> \E i \in 1..L + 1 : u[i] = k
  BY <1>1 DEF Contains
<1>3. \A k : Contains(s, k) <=> \E i \in 1..L : s[i] = k
  BY DEF Contains
<1> HIDE DEF L, u
<1>4. L \in Nat /\ u[L + 1] = m /\ \A i \in 1..L : u[i] = s[i]
  BY <1>1 DEF L, u
<1>5. 1..L + 1 = 1..L \cup {L + 1}
  BY <1>4
<1>6. \A k : Contains(u, k) <=> Contains(s, k) \/ k = m
  BY <1>2, <1>3, <1>4, <1>5
<1> QED
  BY <1>1, <1>6 DEF u

LEMMA NobodyContains == \A k : ~Contains(<<>>, k)
BY DEF Contains

\* What a record adds to what is published.
LEMMA PublishedThen ==
    ASSUME QueueInv, NEW i \in Invocations, Active(i), NEW accepted, PublishRecord(i, accepted)
    PROVE  /\ Min(running[i].left) \in running[i].left
           /\ published' \in [DOMAIN published -> Seq(Nat)]
           /\ DOMAIN published' = DOMAIN published
           /\ \A t \in DOMAIN published : \A k :
                Contains(published'[t], k)
                    <=> \/ Contains(published[t], k)
                        \/ t \in accepted /\ k = Min(running[i].left)
<1> DEFINE m == Min(running[i].left)
<1>1. running[i].left \subseteq Nat /\ running[i].left # {}
  BY DEF QueueInv, RunningTyped, Active
<1>2. m \in running[i].left /\ m \in Nat
  BY <1>1, LeastIsThere
<1> HIDE DEF m
<1>3. published' = [t \in DOMAIN published |->
                        IF t \in accepted /\ ~Contains(published[t], m)
                        THEN Append(published[t], m) ELSE published[t]]
  BY DEF PublishRecord, m
<1>4. \A t \in DOMAIN published : published[t] \in Seq(Nat)
  BY DEF QueueInv, PublishedTyped
<1>5. ASSUME NEW t \in DOMAIN published
      PROVE  /\ published'[t] \in Seq(Nat)
             /\ \A k : Contains(published'[t], k)
                        <=> Contains(published[t], k) \/ (t \in accepted /\ k = m)
  <2>1. CASE t \in accepted /\ ~Contains(published[t], m)
    <3>1. published'[t] = Append(published[t], m)
      BY <1>3, <2>1
    <3> QED
      BY <1>2, <1>4, <2>1, <3>1, AppendedContains
  <2>2. CASE ~(t \in accepted /\ ~Contains(published[t], m))
    <3>1. published'[t] = published[t]
      BY <1>3, <2>2
    <3> QED
      BY <1>4, <2>2, <3>1
  <2> QED
    BY <2>1, <2>2
<1>6. DOMAIN published' = DOMAIN published
  BY <1>3
<1>7. published' \in [DOMAIN published -> Seq(Nat)]
  BY <1>3, <1>5
<1> QED
  BY <1>2, <1>5, <1>6, <1>7 DEF m

-----------------------------------------------------------------------------
(* The transform, as the deployed system goes on from it.                  *)

\* What the transform did stays, and the blueprint is what it was.
LEMMA TransformKept ==
    ASSUME BackingInv, [ForwardingNext]_everything
    PROVE  BackingInv' /\ b' = b
<1>1. (BackingsStep \/ UNCHANGED allVars) => BackingInv' /\ b' = b
  <2>1. CASE UNCHANGED allVars
    BY <2>1, BackingInductive DEF allVars, vars
  <2>2. CASE Step /\ UNCHANGED backingVars
    BY <2>2, BackingInductive, BlueprintKept DEF BackingsNext, BackingsStep, Next
  <2>3. ASSUME NEW r \in unemitted, EmitBacking(r) PROVE BackingInv' /\ b' = b
    <3>1. r \in DOMAIN b.kind /\ StoreInv
      BY DEF BackingInv
    <3>2. Emit(r, ResultOf(b, r)) \/ Abort(r)
      BY <2>3, <3>1, EmitBackingIs
    <3>3. b' = b
      BY <3>2 DEF Emit, Abort, vars
    <3>4. BackingsNext
      BY <2>3 DEF BackingsNext, BackingsStep
    <3> QED
      BY <3>3, <3>4, BackingInductive
  <2> QED
    BY <2>1, <2>2, <2>3 DEF BackingsStep
<1>2. BackingsStep \/ UNCHANGED allVars
  BY DEF ForwardingNext, everything, Transform, Deploy, Send, Poll, Invoke, GiveUp,
         Consume, Run, Answer, PublishRecord, Crash, Quiet
<1> QED
  BY <1>1, <1>2

\* A step of the poller or the function is one of these.
QueueStep ==
    \/ Send
    \/ \E i \in Invocations, ms \in SUBSET visible : Invoke(i, ms)
    \/ \E m \in visible : GiveUp(m) \/ Consume(m)
    \/ \E i \in Invocations : Answer(i) \/ Crash(i)
    \/ \E i \in Invocations, accepted \in SUBSET stack.arns :
            Active(i) /\ PublishRecord(i, accepted)

LEMMA StepsAre ==
    ASSUME [ForwardingNext]_everything
    PROVE  \/ QueueStep
           \/ UNCHANGED queueVars /\ (Deploy \/ UNCHANGED stack)
BY DEF QueueStep, ForwardingNext, everything, Transform, Poll, Run, Quiet, Deploy

-----------------------------------------------------------------------------
(* Where a message is, step by step.                                       *)

LEMMA QueueInvInit ==
    ASSUME ForwardingInit
    PROVE  QueueInv
<1>1. sent \in 0..MaxMessages /\ crashes \in 0..MaxCrashes
  BY ForwardingBounds DEF ForwardingInit
<1>2. \A i \in Invocations : running[i] = Idle
  BY DEF ForwardingInit
<1>3. RunningTyped
  BY <1>2 DEF RunningTyped, ForwardingInit, Idle
<1>4. MessagesSent
  BY <1>2 DEF MessagesSent, ForwardingInit, Idle
<1>5. MessagesApart
  BY <1>2 DEF MessagesApart, ForwardingInit, Idle
<1>6. PublishedTyped
  BY NobodyContains DEF PublishedTyped, ForwardingInit
<1> QED
  BY <1>1, <1>3, <1>4, <1>5, <1>6 DEF QueueInv, ForwardingInit

LEMMA SendKeeps ==
    ASSUME QueueInv, b' = b, Send
    PROVE  QueueInv'
<1>1. /\ sent \in 0..MaxMessages /\ sent < MaxMessages /\ sent' = sent + 1
      /\ MaxMessages \in Nat
  BY ForwardingBounds DEF QueueInv, Send
<1>2. /\ sent' \in 0..MaxMessages /\ 1..sent \subseteq 1..sent'
      /\ sent + 1 \in 1..sent' /\ sent + 1 \notin 1..sent
  BY <1>1
<1>3. visible' = visible \cup {sent + 1}
  BY DEF Send
<1>4. /\ running' = running /\ deadLetters' = deadLetters /\ consumed' = consumed
      /\ published' = published /\ crashes' = crashes /\ stack' = stack
      /\ stack # Absent
  BY DEF Send, Deployed
<1>5. RunningTyped'
  BY <1>4 DEF QueueInv, RunningTyped
<1>6. MessagesSent'
  BY <1>2, <1>3, <1>4 DEF QueueInv, MessagesSent
<1>7. MessagesApart'
  <2>1. /\ sent + 1 \notin deadLetters /\ sent + 1 \notin consumed
        /\ \A i \in Invocations : sent + 1 \notin running[i].batch
    BY <1>2 DEF QueueInv, MessagesSent
  <2> QED
    BY <1>3, <1>4, <2>1 DEF QueueInv, MessagesApart
<1>8. PublishedTyped'
  BY <1>2, <1>4 DEF QueueInv, PublishedTyped
<1> QED
  BY <1>2, <1>4, <1>5, <1>6, <1>7, <1>8 DEF QueueInv

\* Where the messages move to, with none in two places, when only they move.
LEMMA MovedKeeps ==
    ASSUME QueueInv, b' = b, stack' = stack, sent' = sent, published' = published,
           crashes' \in 0..MaxCrashes, RunningTyped', MessagesSent', MessagesApart'
    PROVE  QueueInv'
<1>1. PublishedTyped'
  BY DEF QueueInv, PublishedTyped
<1> QED
  BY <1>1 DEF QueueInv

LEMMA InvokeKeeps ==
    ASSUME QueueInv, b' = b, NEW i \in Invocations, NEW ms \in SUBSET visible, Invoke(i, ms)
    PROVE  QueueInv'
<1>1. /\ visible' = visible \ ms
      /\ running' = [running EXCEPT ![i] = [batch |-> ms, left |-> ms, failed |-> {}]]
      /\ stack' = stack /\ sent' = sent /\ published' = published
      /\ deadLetters' = deadLetters /\ consumed' = consumed /\ crashes' = crashes
  BY DEF Invoke
<1>2. ms \subseteq 1..sent /\ 1..sent \subseteq 1..MaxMessages
  BY ForwardingBounds DEF QueueInv, MessagesSent
<1>3. /\ running'[i] = [batch |-> ms, left |-> ms, failed |-> {}]
      /\ \A j \in Invocations \ {i} : running'[j] = running[j]
  BY <1>1 DEF QueueInv, RunningTyped
<1>4. RunningTyped'
  BY <1>1, <1>2, <1>3 DEF QueueInv, RunningTyped
<1>5. /\ running'[i].batch = ms
      /\ \A j \in Invocations \ {i} : running'[j].batch = running[j].batch
  BY <1>3
<1>6. MessagesSent'
  BY <1>1, <1>2, <1>5 DEF QueueInv, MessagesSent
<1>7. MessagesApart'
  BY <1>1, <1>5 DEF QueueInv, MessagesApart
<1> QED
  BY <1>1, <1>4, <1>6, <1>7, MovedKeeps DEF QueueInv

LEMMA GiveUpKeeps ==
    ASSUME QueueInv, b' = b, NEW m \in visible, GiveUp(m) \/ Consume(m)
    PROVE  QueueInv'
<1>1. /\ visible' = visible \ {m} /\ running' = running
      /\ stack' = stack /\ sent' = sent /\ published' = published /\ crashes' = crashes
      /\ \/ deadLetters' = deadLetters \cup {m} /\ consumed' = consumed
         \/ deadLetters' = deadLetters /\ consumed' = consumed \cup {m}
  BY DEF GiveUp, Consume
<1>2. RunningTyped'
  BY <1>1 DEF QueueInv, RunningTyped
<1>3. MessagesSent'
  BY <1>1 DEF QueueInv, MessagesSent
<1>4. MessagesApart'
  BY <1>1 DEF QueueInv, MessagesApart
<1> QED
  BY <1>1, <1>2, <1>3, <1>4, MovedKeeps DEF QueueInv

\* What becomes visible again of an invocation that ended is of its batch.
LEMMA EndKeeps ==
    ASSUME QueueInv, b' = b, NEW i \in Invocations, Answer(i) \/ Crash(i)
    PROVE  QueueInv'
<1>1. PICK again \in SUBSET running[i].batch : visible' = visible \cup again
  <2>1. running[i].failed \subseteq running[i].batch
    BY DEF QueueInv, RunningTyped
  <2>2. \/ visible' = visible \cup {}
        \/ visible' = visible \cup running[i].failed
        \/ visible' = visible \cup running[i].batch
    BY DEF Answer, Crash
  <2> QED
    BY <2>1, <2>2
<1>2. /\ running' = [running EXCEPT ![i] = Idle]
      /\ stack' = stack /\ sent' = sent /\ published' = published
      /\ deadLetters' = deadLetters /\ consumed' = consumed
  BY DEF Answer, Crash
<1>3. crashes' \in 0..MaxCrashes
  <2>1. crashes \in 0..MaxCrashes /\ MaxCrashes \in Nat
    BY ForwardingBounds DEF QueueInv
  <2>2. crashes' = crashes \/ (crashes' = crashes + 1 /\ crashes < MaxCrashes)
    BY DEF Answer, Crash
  <2> QED
    BY <2>1, <2>2
<1>4. /\ running'[i] = Idle
      /\ \A j \in Invocations \ {i} : running'[j] = running[j]
  BY <1>2 DEF QueueInv, RunningTyped
<1>5. RunningTyped'
  BY <1>2, <1>4 DEF QueueInv, RunningTyped, Idle
<1>6. /\ running'[i].batch = {}
      /\ \A j \in Invocations \ {i} : running'[j].batch = running[j].batch
  BY <1>4 DEF Idle
<1>7. MessagesSent'
  BY <1>1, <1>2, <1>6 DEF QueueInv, MessagesSent
<1>8. MessagesApart'
  BY <1>1, <1>2, <1>6 DEF QueueInv, MessagesApart
<1> QED
  BY <1>2, <1>3, <1>5, <1>7, <1>8, MovedKeeps DEF QueueInv

LEMMA PublishKeeps ==
    ASSUME QueueInv, b' = b, NEW i \in Invocations, NEW accepted, Active(i),
           PublishRecord(i, accepted)
    PROVE  QueueInv'
<1> DEFINE m == Min(running[i].left)
<1>1. /\ m \in running[i].left
      /\ published' \in [DOMAIN published -> Seq(Nat)]
      /\ DOMAIN published' = DOMAIN published
      /\ \A t \in DOMAIN published : \A k :
            Contains(published'[t], k)
                <=> Contains(published[t], k) \/ (t \in accepted /\ k = m)
  BY PublishedThen
<1>2. PICK more \in SUBSET {m} :
        running' = [running EXCEPT ![i].left = @ \ {m}, ![i].failed = @ \cup more]
  <2>1. \/ running' = [running EXCEPT ![i].left = @ \ {m}, ![i].failed = @]
        \/ running' = [running EXCEPT ![i].left = @ \ {m}, ![i].failed = @ \cup {m}]
    BY DEF PublishRecord
  <2>2. running[i].failed = running[i].failed \cup {}
    OBVIOUS
  <2> HIDE DEF m
  <2> QED
    BY <2>1, <2>2
<1>3. /\ stack' = stack /\ sent' = sent /\ visible' = visible
      /\ deadLetters' = deadLetters /\ consumed' = consumed /\ crashes' = crashes
  BY DEF PublishRecord
<1> HIDE DEF m
<1>4. /\ running[i].left \subseteq running[i].batch
      /\ running[i].batch \subseteq 1..sent /\ m \in running[i].batch
  BY <1>1 DEF QueueInv, RunningTyped, MessagesSent
<1>5. /\ running'[i].batch = running[i].batch
      /\ running'[i].left = running[i].left \ {m}
      /\ running'[i].failed = running[i].failed \cup more
      /\ \A j \in Invocations \ {i} : running'[j] = running[j]
  BY <1>2 DEF QueueInv, RunningTyped
<1>6. RunningTyped'
  <2>1. running[i].left \ {m} \in SUBSET (1..MaxMessages)
    BY DEF QueueInv, RunningTyped
  <2>2. running[i].failed \cup more \in SUBSET (1..MaxMessages)
    BY <1>1 DEF QueueInv, RunningTyped
  <2>3. running' \in [Invocations -> [batch : SUBSET (1..MaxMessages),
                                      left : SUBSET (1..MaxMessages),
                                      failed : SUBSET (1..MaxMessages)]]
    <3>1. running[i] \in [batch : SUBSET (1..MaxMessages), left : SUBSET (1..MaxMessages),
                          failed : SUBSET (1..MaxMessages)]
      BY DEF QueueInv, RunningTyped
    <3>2. [running[i] EXCEPT !.left = @ \ {m}, !.failed = @ \cup more]
             \in [batch : SUBSET (1..MaxMessages), left : SUBSET (1..MaxMessages),
                  failed : SUBSET (1..MaxMessages)]
      BY <2>1, <2>2, <3>1
    <3>3. running' = [running EXCEPT ![i] = [running[i] EXCEPT !.left = @ \ {m},
                                                               !.failed = @ \cup more]]
      BY <1>2
    <3> QED
      BY <3>2, <3>3 DEF QueueInv, RunningTyped
  <2>4. \A j \in Invocations : /\ running'[j].left \subseteq running'[j].batch
                               /\ running'[j].failed \subseteq running'[j].batch \ running'[j].left
    BY <1>4, <1>5 DEF QueueInv, RunningTyped
  <2> QED
    BY <2>3, <2>4 DEF RunningTyped
<1>7. \A j \in Invocations : running'[j].batch = running[j].batch
  BY <1>5
<1>8. MessagesSent'
  BY <1>3, <1>7 DEF QueueInv, MessagesSent
<1>9. MessagesApart'
  BY <1>3, <1>7 DEF QueueInv, MessagesApart
<1>10. PublishedTyped'
  <2>1. published' \in [{TopicName(r) : r \in OfBacking(b', "topic")} -> Seq(Nat)]
    BY <1>1 DEF QueueInv, PublishedTyped
  <2>2. \A t \in DOMAIN published' : \A k : Contains(published'[t], k) => k \in 1..sent'
    <3> SUFFICES ASSUME NEW t \in DOMAIN published, NEW k, Contains(published'[t], k)
                 PROVE  k \in 1..sent
      BY <1>1, <1>3
    <3>1. Contains(published[t], k) \/ k = m
      BY <1>1
    <3>2. Contains(published[t], k) => k \in 1..sent
      BY DEF QueueInv, PublishedTyped
    <3> QED
      BY <1>4, <3>1, <3>2
  <2> QED
    BY <2>1, <2>2 DEF PublishedTyped
<1> QED
  BY <1>3, <1>6, <1>8, <1>9, <1>10 DEF QueueInv

LEMMA QueueInductive == BackingInv /\ QueueInv /\ [ForwardingNext]_everything => QueueInv'
<1> SUFFICES ASSUME BackingInv, QueueInv, [ForwardingNext]_everything
             PROVE  QueueInv'
  OBVIOUS
<1>1. b' = b
  BY TransformKept
<1>2. CASE QueueStep
  BY <1>1, <1>2, SendKeeps, InvokeKeeps, GiveUpKeeps, EndKeeps, PublishKeeps DEF QueueStep
<1>3. ASSUME UNCHANGED queueVars, Deploy \/ UNCHANGED stack PROVE QueueInv'
  <2>1. stack' = Absent => stack = Absent
    BY <1>3 DEF Deploy
  <2> QED
    BY <1>1, <1>3, <2>1 DEF queueVars, QueueInv, RunningTyped, MessagesSent,
                            MessagesApart, PublishedTyped
<1> QED
  BY <1>2, <1>3, StepsAre

LEMMA QueueTyped == QueueInv => ForwardingTypeOK
<1> SUFFICES ASSUME QueueInv PROVE ForwardingTypeOK
  OBVIOUS
<1>1. visible \cup Out \cup deadLetters \cup consumed \subseteq 1..sent
  BY DEF QueueInv, MessagesSent, Out
<1>2. /\ Out \cap visible = {} /\ Out \cap deadLetters = {} /\ Out \cap consumed = {}
      /\ visible \cap deadLetters = {} /\ visible \cap consumed = {}
      /\ deadLetters \cap consumed = {}
  BY DEF QueueInv, MessagesApart, Out
<1>3. \A s, t \in {visible, Out, deadLetters, consumed} : s # t => s \cap t = {}
  BY <1>2
<1>4. \A t \in DOMAIN published : ToSet(published[t]) \subseteq 1..sent
  <2> SUFFICES ASSUME NEW t \in DOMAIN published, NEW k \in ToSet(published[t])
               PROVE  k \in 1..sent
    OBVIOUS
  <2>1. published[t] \in Seq(Nat)
    BY DEF QueueInv, PublishedTyped
  <2>2. Contains(published[t], k)
    BY <2>1 DEF ToSet, Contains
  <2> QED
    BY <2>2 DEF QueueInv, PublishedTyped
<1> QED
  BY <1>1, <1>3, <1>4 DEF ForwardingTypeOK, QueueInv, RunningTyped, MessagesApart, Deployed


-----------------------------------------------------------------------------
(* What is deployed keeps the promise.                                     *)

\* A record that is behind an invocation, and that it does not report as failed, is at
\* every topic the queue links to; and only a deployed queue that is polled has one.
Handled ==
    \A i \in Invocations :
        /\ running[i].batch # {} => Deployed /\ stack.polled
        /\ \A m \in running[i].batch \ (running[i].left \cup running[i].failed) :
                \A t \in PromisedTopics : Contains(published[t], m)

PromiseInv == BackingInv /\ QueueInv /\ StackAsPromised /\ Handled

LEMMA PromisedPublished ==
    ASSUME QueueInv
    PROVE  PromisedTopics \subseteq DOMAIN published
<1>1. DOMAIN published = {TopicName(r) : r \in OfBacking(b, "topic")}
  BY DEF QueueInv, PublishedTyped
<1>2. TopicForwards(b, b.source) \subseteq OfBacking(b, "topic")
  BY DEF TopicForwards
<1> QED
  BY <1>1, <1>2 DEF PromisedTopics

LEMMA PromiseInvInit ==
    ASSUME ForwardingInit
    PROVE  PromiseInv
<1>1. BackingInv /\ QueueInv
  BY BackingInvInit, QueueInvInit DEF ForwardingInit
<1>2. StackAsPromised
  BY DEF ForwardingInit, StackAsPromised, Deployed
<1>3. Handled
  BY DEF ForwardingInit, Handled, Idle
<1> QED
  BY <1>1, <1>2, <1>3 DEF PromiseInv

\* Of an invocation another one ends or begins, nothing changes.
LEMMA HandledElsewhere ==
    ASSUME PromiseInv, b' = b, stack' = stack, NEW i \in Invocations,
           \A j \in Invocations \ {i} : running'[j] = running[j],
           \A t \in PromisedTopics : \A k :
                Contains(published[t], k) => Contains(published'[t], k),
           running'[i].batch # {} => Deployed /\ stack.polled,
           \A m \in running'[i].batch \ (running'[i].left \cup running'[i].failed) :
                \A t \in PromisedTopics : Contains(published'[t], m)
    PROVE  Handled'
<1>1. PromisedTopics' = PromisedTopics /\ Deployed' = Deployed
  BY DEF PromisedTopics, Deployed
<1>2. ASSUME NEW j \in Invocations
      PROVE  /\ running'[j].batch # {} => Deployed /\ stack.polled
             /\ \A m \in running'[j].batch \ (running'[j].left \cup running'[j].failed) :
                    \A t \in PromisedTopics : Contains(published'[t], m)
  <2>1. CASE j = i
    BY <2>1
  <2>2. CASE j # i
    <3>1. running'[j] = running[j]
      BY <2>2
    <3>2. /\ running[j].batch # {} => Deployed /\ stack.polled
          /\ \A m \in running[j].batch \ (running[j].left \cup running[j].failed) :
                \A t \in PromisedTopics : Contains(published[t], m)
      BY DEF PromiseInv, Handled
    <3> QED
      BY <3>1, <3>2
  <2> QED
    BY <2>1, <2>2
<1> QED
  BY <1>1, <1>2 DEF Handled

\* What a record that is behind becomes when one more is.
LEMMA HandledPublish ==
    ASSUME PromiseInv, b' = b, NEW i \in Invocations, NEW accepted, Active(i),
           PublishRecord(i, accepted)
    PROVE  Handled'
<1> DEFINE m == Min(running[i].left)
<1>1. /\ QueueInv /\ m \in running[i].left
      /\ \A t \in DOMAIN published : \A k :
            Contains(published'[t], k)
                <=> Contains(published[t], k) \/ (t \in accepted /\ k = m)
  BY PublishedThen DEF PromiseInv
<1>2. /\ running' = [running EXCEPT
                        ![i].left = @ \ {m},
                        ![i].failed = IF accepted = stack.arns THEN @ ELSE @ \cup {m}]
      /\ stack' = stack
  BY DEF PublishRecord
<1> HIDE DEF m
<1>3. /\ running'[i].batch = running[i].batch
      /\ running'[i].left = running[i].left \ {m}
      /\ accepted = stack.arns => running'[i].failed = running[i].failed
      /\ accepted # stack.arns => running'[i].failed = running[i].failed \cup {m}
      /\ \A j \in Invocations \ {i} : running'[j] = running[j]
  BY <1>1, <1>2 DEF QueueInv, RunningTyped
<1>4. PromisedTopics \subseteq DOMAIN published
  BY <1>1, PromisedPublished
<1>5. running[i].batch # {} /\ Deployed /\ stack.polled
  BY <1>1 DEF PromiseInv, Handled, QueueInv, RunningTyped
<1>6. stack.arns = PromisedTopics
  BY <1>5 DEF PromiseInv, StackAsPromised
<1>7. ASSUME NEW k \in running'[i].batch \ (running'[i].left \cup running'[i].failed),
             NEW t \in PromisedTopics
      PROVE  Contains(published'[t], k)
  <2>1. CASE k = m
    <3>1. accepted = stack.arns
      BY <1>3, <1>7, <2>1
    <3> QED
      BY <1>1, <1>4, <1>6, <2>1, <3>1
  <2>2. CASE k # m
    <3>1. k \in running[i].batch \ (running[i].left \cup running[i].failed)
      BY <1>3, <1>7, <2>2
    <3>2. Contains(published[t], k)
      BY <3>1 DEF PromiseInv, Handled
    <3> QED
      BY <1>1, <1>4, <3>2
  <2> QED
    BY <2>1, <2>2
<1>8. \A t \in PromisedTopics : \A k : Contains(published[t], k) => Contains(published'[t], k)
  BY <1>1, <1>4
<1> QED
  BY <1>2, <1>3, <1>5, <1>7, <1>8, HandledElsewhere

LEMMA PromiseInductive ==
    PromiseInv /\ TriggersItsForwarderOnly /\ [ForwardingNext]_everything => PromiseInv'
<1> SUFFICES ASSUME PromiseInv, TriggersItsForwarderOnly, [ForwardingNext]_everything
             PROVE  PromiseInv'
  OBVIOUS
<1>1. BackingInv' /\ QueueInv' /\ b' = b
  BY TransformKept, QueueInductive DEF PromiseInv
<1>2. PromisedTopics' = PromisedTopics
  BY <1>1 DEF PromisedTopics
<1>3. StackAsPromised'
  <2>1. CASE Deploy
    BY <2>1, DeployStep DEF PromiseInv
  <2>2. CASE UNCHANGED stack
    BY <1>2, <2>2 DEF PromiseInv, StackAsPromised, Deployed
  <2>3. QueueStep => UNCHANGED stack
    BY DEF QueueStep, Send, Invoke, GiveUp, Consume, Answer, Crash, PublishRecord
  <2> QED
    BY <2>1, <2>2, <2>3, StepsAre
<1>4. ASSUME UNCHANGED <<running, published>>, Deploy \/ UNCHANGED stack PROVE Handled'
  <2>1. CASE UNCHANGED stack
    BY <1>2, <1>4, <2>1 DEF PromiseInv, Handled, Deployed
  <2>2. CASE Deploy
    <3>1. \A i \in Invocations : running[i].batch = {}
      BY <2>2 DEF Deploy, PromiseInv, Handled, Deployed
    <3> QED
      BY <1>4, <3>1 DEF Handled
  <2> QED
    BY <1>4, <2>1, <2>2
<1>5. ASSUME Send \/ \E m \in visible : GiveUp(m) \/ Consume(m) PROVE Handled'
  BY <1>4, <1>5 DEF Send, GiveUp, Consume
<1>6. ASSUME NEW i \in Invocations, NEW ms \in SUBSET visible, Invoke(i, ms) PROVE Handled'
  <2>1. /\ running' = [running EXCEPT ![i] = [batch |-> ms, left |-> ms, failed |-> {}]]
        /\ stack' = stack /\ published' = published /\ Deployed /\ stack.polled
    BY <1>6 DEF Invoke
  <2>2. /\ running'[i] = [batch |-> ms, left |-> ms, failed |-> {}]
        /\ \A j \in Invocations \ {i} : running'[j] = running[j]
    BY <2>1 DEF PromiseInv, QueueInv, RunningTyped
  <2> QED
    BY <1>1, <2>1, <2>2, HandledElsewhere
<1>7. ASSUME NEW i \in Invocations, Answer(i) \/ Crash(i) PROVE Handled'
  <2>1. running' = [running EXCEPT ![i] = Idle] /\ stack' = stack /\ published' = published
    BY <1>7 DEF Answer, Crash
  <2>2. /\ running'[i].batch = {}
        /\ \A j \in Invocations \ {i} : running'[j] = running[j]
    BY <2>1 DEF PromiseInv, QueueInv, RunningTyped, Idle
  <2> QED
    BY <1>1, <2>1, <2>2, HandledElsewhere
<1>8. ASSUME QueueStep PROVE Handled'
  BY <1>1, <1>5, <1>6, <1>7, <1>8, HandledPublish DEF QueueStep
<1>9. Handled'
  BY <1>4, <1>8, StepsAre DEF queueVars
<1> QED
  BY <1>1, <1>3, <1>9 DEF PromiseInv

-----------------------------------------------------------------------------
(* Each step is a step of the promise, or leaves what it speaks of alone.  *)

Delivered == {x \in (1..sent) \X DOMAIN published : Contains(published[x[2]], x[1])}
RidOf == (1..sent) \ (visible \cup Out)
promised == <<PromisedTopics, sent, Delivered, RidOf, deadLetters>>

LEMMA SendPromised ==
    ASSUME PromiseInv, b' = b, Send
    PROVE  Promise!Send
<1>1. sent \in Nat /\ sent' = sent + 1 /\ visible' = visible \cup {sent + 1}
  BY ForwardingBounds DEF PromiseInv, QueueInv, Send
<1>2. published' = published /\ running' = running /\ deadLetters' = deadLetters
  BY DEF Send
<1>3. 1..sent + 1 = 1..sent \cup {sent + 1}
  BY <1>1
<1>4. \A t \in DOMAIN published : ~Contains(published[t], sent + 1)
  BY <1>1 DEF PromiseInv, QueueInv, PublishedTyped
<1>5. Delivered' = Delivered
  BY <1>1, <1>2, <1>3, <1>4 DEF Delivered
<1>6. RidOf' = RidOf
  <2>1. Out' = Out
    BY <1>2 DEF Out
  <2>2. sent + 1 \notin 1..sent
    BY <1>1
  <2> QED
    BY <1>1, <1>3, <2>1, <2>2 DEF RidOf
<1>7. PromisedTopics' = PromisedTopics
  BY DEF PromisedTopics
<1> QED
  BY <1>1, <1>2, <1>5, <1>6, <1>7 DEF Promise!Send, Delivered, RidOf, PromisedTopics


LEMMA DeliverPromised ==
    ASSUME PromiseInv, b' = b, NEW i \in Invocations,
           NEW accepted \in SUBSET stack.arns, Active(i), PublishRecord(i, accepted)
    PROVE  Promise!Deliver
<1> DEFINE m == Min(running[i].left)
<1>1. /\ QueueInv /\ m \in running[i].left
      /\ DOMAIN published' = DOMAIN published
      /\ \A t \in DOMAIN published : \A k :
            Contains(published'[t], k)
                <=> Contains(published[t], k) \/ (t \in accepted /\ k = m)
  BY PublishedThen DEF PromiseInv
<1>2. /\ running' = [running EXCEPT
                        ![i].left = @ \ {m},
                        ![i].failed = IF accepted = stack.arns THEN @ ELSE @ \cup {m}]
      /\ visible' = visible /\ sent' = sent /\ deadLetters' = deadLetters
  BY DEF PublishRecord
<1> HIDE DEF m
<1>3. m \in running[i].batch /\ running[i].batch \subseteq 1..sent
  BY <1>1 DEF QueueInv, RunningTyped, MessagesSent
<1>4. m \in (1..sent) \ RidOf
  BY <1>3 DEF RidOf, Out
<1>5. RidOf' = RidOf
  <2>1. \A j \in Invocations : running'[j].batch = running[j].batch
    BY <1>1, <1>2 DEF QueueInv, RunningTyped
  <2> QED
    BY <1>2, <2>1 DEF RidOf, Out
<1>6. accepted \subseteq PromisedTopics
  <2>1. running[i].batch # {}
    BY <1>3
  <2>2. Deployed /\ stack.polled
    BY <2>1 DEF PromiseInv, Handled
  <2> QED
    BY <2>2 DEF PromiseInv, StackAsPromised
<1>7. accepted \subseteq DOMAIN published
  BY <1>1, <1>6, PromisedPublished
<1>8. Delivered' = Delivered \cup {m} \X accepted
  <2>1. \A x : x \in Delivered' <=>
            x \in (1..sent) \X DOMAIN published /\ Contains(published'[x[2]], x[1])
    BY <1>1, <1>2 DEF Delivered
  <2>2. \A x \in (1..sent) \X DOMAIN published :
            Contains(published'[x[2]], x[1])
                <=> Contains(published[x[2]], x[1]) \/ (x[2] \in accepted /\ x[1] = m)
    BY <1>1
  <2>3. \A x \in (1..sent) \X DOMAIN published :
            (x[2] \in accepted /\ x[1] = m) <=> x \in {m} \X accepted
    OBVIOUS
  <2>4. {m} \X accepted \subseteq (1..sent) \X DOMAIN published
    BY <1>3, <1>7
  <2> QED
    BY <2>1, <2>2, <2>3, <2>4 DEF Delivered
<1>9. PromisedTopics' = PromisedTopics
  BY DEF PromisedTopics
<1> QED
  BY <1>2, <1>4, <1>5, <1>6, <1>8, <1>9 DEF Promise!Deliver, Delivered, RidOf, PromisedTopics

\* The queue is rid of what an answer does not report.
LEMMA AnswerPromised ==
    ASSUME PromiseInv, b' = b, NEW i \in Invocations, Answer(i)
    PROVE  Promise!Settle
<1> DEFINE behind == running[i].batch \ running[i].failed
<1>1. /\ running' = [running EXCEPT ![i] = Idle] /\ running[i].left = {}
      /\ visible' = IF stack.reports THEN visible \cup running[i].failed ELSE visible
      /\ sent' = sent /\ published' = published /\ deadLetters' = deadLetters
  BY DEF Answer, Active
<1>2. running[i].failed \subseteq running[i].batch /\ running[i].batch \subseteq 1..sent
  BY DEF PromiseInv, QueueInv, RunningTyped, MessagesSent
<1>3. /\ running'[i].batch = {}
      /\ \A j \in Invocations \ {i} : running'[j].batch = running[j].batch
  BY <1>1 DEF PromiseInv, QueueInv, RunningTyped, Idle
<1>4. /\ running[i].batch \cap visible = {}
      /\ \A j \in Invocations \ {i} : running[i].batch \cap running[j].batch = {}
  BY DEF PromiseInv, QueueInv, MessagesApart
<1>5. visible' = visible \cup running[i].failed
  <2>1. CASE running[i].batch = {}
    BY <1>1, <1>2, <2>1
  <2>2. CASE running[i].batch # {}
    <3>1. stack.reports
      BY <2>2 DEF PromiseInv, Handled, StackAsPromised
    <3> QED
      BY <1>1, <3>1
  <2> QED
    BY <2>1, <2>2
<1>6. Out = Out' \cup running[i].batch
  BY <1>3 DEF Out
<1>7. Out' \cap running[i].batch = {}
  BY <1>3, <1>4 DEF Out
<1>8. RidOf' = RidOf \cup behind
  BY <1>1, <1>2, <1>4, <1>5, <1>6, <1>7 DEF RidOf
<1>9. behind \subseteq (1..sent) \ RidOf
  BY <1>2, <1>6 DEF RidOf
<1>10. behind \X PromisedTopics \subseteq Delivered
  <2>1. PromisedTopics \subseteq DOMAIN published
    BY PromisedPublished DEF PromiseInv
  <2>2. \A m \in behind : \A t \in PromisedTopics : Contains(published[t], m)
    BY <1>1 DEF PromiseInv, Handled
  <2> QED
    BY <1>2, <2>1, <2>2 DEF Delivered
<1>11. PromisedTopics' = PromisedTopics /\ Delivered' = Delivered
  BY <1>1 DEF PromisedTopics, Delivered
<1> HIDE DEF behind
<1> QED
  BY <1>1, <1>8, <1>9, <1>10, <1>11 DEF Promise!Settle, Delivered, RidOf, PromisedTopics

\* Only a queue that forwards to no topic has a consumer.
LEMMA ConsumePromised ==
    ASSUME PromiseInv, b' = b, NEW m \in visible, Consume(m)
    PROVE  Promise!Settle
<1>1. /\ visible' = visible \ {m} /\ running' = running /\ sent' = sent
      /\ published' = published /\ deadLetters' = deadLetters
      /\ Deployed /\ stack.consumer
  BY DEF Consume
<1>2. m \in 1..sent /\ m \notin Out
  BY DEF PromiseInv, QueueInv, MessagesSent, MessagesApart, Out
<1>3. PromisedTopics = {}
  BY <1>1 DEF PromiseInv, StackAsPromised
<1>4. RidOf' = RidOf \cup {m} /\ m \in (1..sent) \ RidOf
  BY <1>1, <1>2 DEF RidOf, Out
<1>5. PromisedTopics' = PromisedTopics /\ Delivered' = Delivered
  BY <1>1 DEF PromisedTopics, Delivered
<1>6. {m} \X PromisedTopics \subseteq Delivered
  BY <1>3
<1> QED
  BY <1>1, <1>4, <1>5, <1>6 DEF Promise!Settle, Delivered, RidOf, PromisedTopics

LEMMA GiveUpPromised ==
    ASSUME PromiseInv, b' = b, NEW m \in visible, GiveUp(m)
    PROVE  Promise!GiveUp
<1>1. /\ visible' = visible \ {m} /\ running' = running /\ sent' = sent
      /\ published' = published /\ deadLetters' = deadLetters \cup {m}
  BY DEF GiveUp
<1>2. m \in 1..sent /\ m \notin Out
  BY DEF PromiseInv, QueueInv, MessagesSent, MessagesApart, Out
<1>3. RidOf' = RidOf \cup {m} /\ m \in (1..sent) \ RidOf
  BY <1>1, <1>2 DEF RidOf, Out
<1>4. PromisedTopics' = PromisedTopics /\ Delivered' = Delivered
  BY <1>1 DEF PromisedTopics, Delivered
<1> QED
  BY <1>1, <1>3, <1>4 DEF Promise!GiveUp, Delivered, RidOf, PromisedTopics

\* What is received, or comes back after a crash, is still the queue's.
LEMMA MovesUnseen ==
    ASSUME PromiseInv, b' = b, NEW i \in Invocations,
           (\E ms \in SUBSET visible : Invoke(i, ms)) \/ Crash(i)
    PROVE  UNCHANGED promised
<1>1. sent' = sent /\ published' = published /\ deadLetters' = deadLetters
  BY DEF Invoke, Crash
<1>2. visible' \cup Out' = visible \cup Out
  <2>1. CASE Crash(i)
    <3>1. /\ running' = [running EXCEPT ![i] = Idle]
          /\ visible' = visible \cup running[i].batch
      BY <2>1 DEF Crash
    <3>2. /\ running'[i].batch = {}
          /\ \A j \in Invocations \ {i} : running'[j].batch = running[j].batch
      BY <3>1 DEF PromiseInv, QueueInv, RunningTyped, Idle
    <3> QED
      BY <3>1, <3>2 DEF Out
  <2>2. ASSUME NEW ms \in SUBSET visible, Invoke(i, ms)
        PROVE  visible' \cup Out' = visible \cup Out
    <3>1. /\ running' = [running EXCEPT ![i] = [batch |-> ms, left |-> ms, failed |-> {}]]
          /\ visible' = visible \ ms /\ running[i].batch = {}
      BY <2>2 DEF Invoke, Idle
    <3>2. /\ running'[i].batch = ms
          /\ \A j \in Invocations \ {i} : running'[j].batch = running[j].batch
      BY <3>1 DEF PromiseInv, QueueInv, RunningTyped
    <3> QED
      BY <3>1, <3>2 DEF Out
  <2> QED
    BY <2>1, <2>2
<1> QED
  BY <1>1, <1>2 DEF promised, PromisedTopics, Delivered, RidOf

LEMMA ForwardingPromised ==
    PromiseInv /\ [ForwardingNext]_everything => [Promise!Next]_promised
<1> SUFFICES ASSUME PromiseInv, [ForwardingNext]_everything
             PROVE  Promise!Next \/ UNCHANGED promised
  OBVIOUS
<1>1. b' = b
  BY TransformKept DEF PromiseInv
<1>2. CASE UNCHANGED queueVars
  BY <1>1, <1>2 DEF queueVars, promised, PromisedTopics, Delivered, RidOf, Out
<1>3. CASE Send
  BY <1>1, <1>3, SendPromised DEF Promise!Next
<1>4. ASSUME NEW i \in Invocations, (\E ms \in SUBSET visible : Invoke(i, ms)) \/ Crash(i)
      PROVE  UNCHANGED promised
  BY <1>1, <1>4, MovesUnseen
<1>5. ASSUME NEW m \in visible, GiveUp(m) PROVE Promise!Next
  BY <1>1, <1>5, GiveUpPromised DEF Promise!Next
<1>6. ASSUME NEW m \in visible, Consume(m) PROVE Promise!Next
  BY <1>1, <1>6, ConsumePromised DEF Promise!Next
<1>7. ASSUME NEW i \in Invocations, Answer(i) PROVE Promise!Next
  BY <1>1, <1>7, AnswerPromised DEF Promise!Next
<1>8. ASSUME NEW i \in Invocations, NEW accepted \in SUBSET stack.arns, Active(i),
             PublishRecord(i, accepted)
      PROVE  Promise!Next
  BY <1>1, <1>8, DeliverPromised DEF Promise!Next
<1>9. CASE QueueStep
  BY <1>3, <1>4, <1>5, <1>6, <1>7, <1>8, <1>9 DEF QueueStep
<1> QED
  BY <1>2, <1>9, StepsAre

LEMMA PromiseBegins == ForwardingInit => Promise!Init
<1> SUFFICES ASSUME ForwardingInit PROVE Promise!Init
  OBVIOUS
<1>1. sent = 0 /\ deadLetters = {}
  BY DEF ForwardingInit
<1>2. 1..sent = {}
  BY <1>1
<1> QED
  BY <1>1, <1>2 DEF Promise!Init

-----------------------------------------------------------------------------
(* The theorems.                                                           *)

\* Each message sent to the queue is in one place: it can be received, or is with one
\* invocation, or is a dead letter, or was taken by a consumer; what an invocation has
\* failed is behind it, and no topic got what was never sent.
THEOREM ForwardingTypeCorrect == ForwardingSpec => []ForwardingTypeOK
<1>1. ForwardingInit => BackingInv /\ QueueInv
  BY BackingInvInit, QueueInvInit DEF ForwardingInit
<1>2. BackingInv /\ QueueInv /\ [ForwardingNext]_everything => (BackingInv /\ QueueInv)'
  BY TransformKept, QueueInductive
<1> QED
  BY <1>1, <1>2, QueueTyped, PTL DEF ForwardingSpec

\* Where the queue's selector finds neither another queue's forwarder nor what a VPC
\* selects, what the transform deploys delivers every message to every topic the
\* author linked the queue to before the queue is rid of it, through rejections,
\* redeliveries and crashes, and to no other topic (that no message stays for ever
\* remains with TLC).
THEOREM ForwarderKeepsPromise ==
    ForwardingSpec /\ TriggersItsForwarderOnly => DeliversToEveryTopic
<1>1. BackingInv /\ TriggersItsForwarderOnly /\ [ForwardingNext]_everything
        => TriggersItsForwarderOnly'
  BY TransformKept DEF TriggersItsForwarderOnly
<1>2. ForwardingInit => PromiseInv
  BY PromiseInvInit
<1>3. PromiseInv => BackingInv
  BY DEF PromiseInv
<1>4. [Promise!Next]_promised => [Promise!Next]_(Promise!vars)
  BY DEF promised, Promise!vars, PromisedTopics, Delivered, RidOf
<1>5. PromiseInv /\ [ForwardingNext]_everything => [Promise!Next]_(Promise!vars)
  BY <1>4, ForwardingPromised
<1> QED
  BY <1>1, <1>2, <1>3, <1>5, PromiseInductive, PromiseBegins, PTL
     DEF ForwardingSpec, DeliversToEveryTopic, Promise!Spec

=============================================================================
