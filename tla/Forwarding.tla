------------------------------ MODULE Forwarding ------------------------------
(***************************************************************************)
(* The forwarder of a queue at work.  What the emitters made is deployed   *)
(* once the transform ends without an error, and from then on the queue,   *)
(* its poller and the topics are what the emitted labels, annotations and  *)
(* variables made of them: no step looks at the blueprint again.           *)
(*                                                                         *)
(* SQS and the poller that invokes the function are modelled from how the  *)
(* emitter uses them: a batch the function does not answer for becomes     *)
(* visible again; of one it answers for, the records it reports do, if the *)
(* poller was told that it reports them, and the others are deleted; a     *)
(* message received too often becomes a dead letter.  Messages are         *)
(* numbered in the order they are sent; in a FIFO queue, those of a group  *)
(* are received in that order, and none while one of its group is out.     *)
(*                                                                         *)
(* Besides the fields of BackingBlueprint a blueprint b has                *)
(*   source     the queue looked at                                        *)
(*   group      message -> its group                                       *)
(***************************************************************************)
EXTENDS BackingResources

CONSTANTS Invocations,      \* the invocations that may run at one time
          MaxMessages,      \* bound: messages sent
          BatchSize,        \* records in one invocation
          MaxCrashes        \* bound: invocations that end without an answer

\* The queue looked at is one, and the topics have names of their own.
HasSource(x) ==
    /\ x.source \in OfBacking(x, "queue")
    /\ IsFiniteSet(OfBacking(x, "topic"))
    /\ \A r \in OfBacking(x, "topic") : x.place[r] \in Nat
    /\ \A r, s \in OfBacking(x, "topic") : x.place[r] = x.place[s] => r = s

ASSUME ForwardingShape == \A x \in Blueprint : HasSource(x)
ASSUME ForwardingBounds == MaxMessages \in Nat /\ MaxCrashes \in Nat

VARIABLES stack,        \* what is deployed, Absent before
          sent,         \* how many messages have been sent
          visible,      \* the messages that can be received
          received,     \* message -> how often it was received
          running,      \* invocation -> its batch, the records left of it, the failed ones
          published,    \* topic -> messages in the order first published to it
          deadLetters,  \* the messages moved to the dead-letter queue
          consumed,     \* the messages a consumer of the queue took
          crashes       \* how many invocations have ended without an answer

queueVars == <<sent, visible, received, running, published, deadLetters,
               consumed, crashes>>
everything == <<allVars, stack, queueVars>>

Idle == [batch |-> {}, left |-> {}, failed |-> {}]

ForwardingInit ==
    /\ BackingsInit
    /\ stack = Absent
    /\ sent = 0
    /\ visible = {}
    /\ received = [m \in 1..MaxMessages |-> 0]
    /\ running = [i \in Invocations |-> Idle]
    /\ published = [t \in {TopicName(r) : r \in OfBacking(b, "topic")} |-> <<>>]
    /\ deadLetters = {}
    /\ consumed = {}
    /\ crashes = 0

-----------------------------------------------------------------------------
(* What is deployed.                                                       *)

Source == QueueName(b.source)
EmittedOf(type) == {n \in DOMAIN emitted : emitted[n].type = type}
LinksTo(n, type) ==
    {m \in EmittedOf(type) \ {n} : Selects(emitted[n].selector, emitted[m].labels)}

\* The functions the queue invokes; a forwarder is the only one there is.
Pollers == LinksTo(Source, "lambda/function")

\* The poller counts where there is somewhere to put what it gives up.
ReceiveLimit ==
    IF LinksTo(Source, "sqs/queue") = {} THEN Absent
    ELSE emitted[Source].spec.maxReceiveCount

\* The ARNs the inline code of function f finds under its prefix.  A link puts the
\* ARN into the annotated variable or one of its own; a variable holds one.
TopicArns(f) ==
    LET variables == emitted[f].spec.variables
        named == LinksTo(f, "sns/topic") \cap DOMAIN variables
    IN  {CHOOSE t \in named : variables[t] = v : v \in {variables[t] : t \in named}}

\* The code passes on the group a message has, and names it for deduplication if it
\* has one: a FIFO topic rejects a message without, which a standard queue's is, and
\* a standard topic one with, which a FIFO queue's is.
Rejects(t) == emitted[t].spec.fifo # emitted[Source].spec.fifo

Deploy ==
    /\ Complete /\ stack = Absent
    /\ ~\E x \in diagnostics : x.level = "error"
    /\ stack' = [fifo |-> emitted[Source].spec.fifo,
                 limit |-> ReceiveLimit,
                 polled |-> Pollers # {},
                 consumer |-> b.source \in b.consumed,
                 arns |-> UNION {TopicArns(f) : f \in Pollers},
                 refusing |-> {t \in EmittedOf("sns/topic") : Rejects(t)},
                 reports |-> \A f \in Pollers : emitted[f].spec.reportsItemFailures]
    /\ UNCHANGED <<allVars, queueVars>>

Deployed == stack # Absent
Exhausted(m) == stack.limit # Absent /\ received[m] >= stack.limit

-----------------------------------------------------------------------------
(* The queue.                                                              *)

Send ==
    /\ Deployed /\ sent < MaxMessages
    /\ sent' = sent + 1
    /\ visible' = visible \cup {sent + 1}
    /\ UNCHANGED <<allVars, stack, received, running, published, deadLetters,
                   consumed, crashes>>

Out == UNION {running[i].batch : i \in Invocations}
SameGroup(m) == {k \in 1..sent : b.group[k] = b.group[m]}

\* The messages of a group in order, and none while one is out.
InGroupOrder(ms) ==
    \A m \in ms :
        /\ SameGroup(m) \cap Out = {}
        /\ \A k \in SameGroup(m) \cap visible : k < m => k \in ms

Invoke(i, ms) ==
    /\ Deployed /\ running[i] = Idle
    /\ stack.polled /\ ms # {} /\ Cardinality(ms) <= BatchSize
    /\ \A m \in ms : ~Exhausted(m)
    /\ stack.fifo => InGroupOrder(ms)
    /\ visible' = visible \ ms
    /\ received' = [m \in DOMAIN received |->
                        IF m \in ms /\ stack.limit # Absent THEN received[m] + 1
                        ELSE received[m]]
    /\ running' = [running EXCEPT ![i] = [batch |-> ms, left |-> ms, failed |-> {}]]
    /\ UNCHANGED <<allVars, stack, sent, published, deadLetters, consumed, crashes>>

GiveUp(m) ==
    /\ Deployed /\ m \in visible /\ Exhausted(m)
    /\ visible' = visible \ {m}
    /\ deadLetters' = deadLetters \cup {m}
    /\ UNCHANGED <<allVars, stack, sent, received, running, published,
                   consumed, crashes>>

\* A consumer takes and deletes what it receives.
Consume(m) ==
    /\ Deployed /\ stack.consumer /\ m \in visible
    /\ visible' = visible \ {m}
    /\ consumed' = consumed \cup {m}
    /\ UNCHANGED <<allVars, stack, sent, received, running, published,
                   deadLetters, crashes>>

-----------------------------------------------------------------------------
(* The inline code.                                                        *)

Active(i) == running[i].left # {}

\* One record, the first left in the order they were sent, is published to all
\* topics at once, any of which may reject it; the loop goes on whatever became of it.
PublishRecord(i, accepted) ==
    /\ Active(i)
    /\ accepted \subseteq stack.arns \ stack.refusing
    /\ LET m == Min(running[i].left)
       IN  /\ published' = [t \in DOMAIN published |->
                                IF t \in accepted /\ ~Contains(published[t], m)
                                THEN Append(published[t], m) ELSE published[t]]
           /\ running' = [running EXCEPT
                            ![i].left = @ \ {m},
                            ![i].failed = IF accepted = stack.arns THEN @ ELSE @ \cup {m}]
    /\ UNCHANGED <<allVars, stack, sent, visible, received, deadLetters,
                   consumed, crashes>>

\* A slip: the list of failed records outlives the invocation.
AnswerKeepingFailed(i) ==
    /\ running[i] # Idle /\ ~Active(i)
    /\ visible' = IF stack.reports THEN visible \cup running[i].failed ELSE visible
    /\ running' = [running EXCEPT ![i] = [Idle EXCEPT !.failed = running[i].failed]]
    /\ UNCHANGED <<allVars, stack, sent, received, published, deadLetters,
                   consumed, crashes>>

\* The failed records are reported; the poller keeps them if it listens.
Answer(i) ==
    /\ running[i] # Idle /\ ~Active(i)
    /\ visible' = IF stack.reports THEN visible \cup running[i].failed ELSE visible
    /\ running' = [running EXCEPT ![i] = Idle]
    /\ UNCHANGED <<allVars, stack, sent, received, published, deadLetters,
                   consumed, crashes>>

\* A crash or a timeout at any point of the batch.
Crash(i) ==
    /\ running[i] # Idle /\ crashes < MaxCrashes
    /\ crashes' = crashes + 1
    /\ visible' = visible \cup running[i].batch
    /\ running' = [running EXCEPT ![i] = Idle]
    /\ UNCHANGED <<allVars, stack, sent, received, published, deadLetters, consumed>>

-----------------------------------------------------------------------------

Transform ==
    \/ BackingsStep /\ UNCHANGED <<stack, queueVars>>
    \/ Deploy

Poll ==
    \/ \E i \in Invocations, ms \in SUBSET visible : Invoke(i, ms)
    \/ \E m \in visible : GiveUp(m)
    \/ \E m \in visible : Consume(m)

Run(i) ==
    \/ Answer(i)
    \/ Active(i) /\ \E accepted \in SUBSET stack.arns : PublishRecord(i, accepted)

Quiet ==
    /\ Settled
    /\ IF Deployed THEN sent = MaxMessages /\ visible \cup Out = {}
       ELSE aborted \/ \E x \in diagnostics : x.level = "error"
    /\ UNCHANGED everything

ForwardingNext ==
    \/ Transform
    \/ Send
    \/ Poll
    \/ \E i \in Invocations : Run(i) \/ Crash(i)
    \/ Quiet

\* One goroutine transforms; the poller never stops polling and what it invokes
\* ends; a topic that accepts messages does not reject every attempt for ever.
ForwardingFairness ==
    /\ WF_everything(Transform)
    /\ WF_everything(Poll)
    /\ \A i \in Invocations :
            /\ WF_everything(Run(i))
            /\ SF_everything(PublishRecord(i, stack.arns))

ForwardingSpec == ForwardingInit /\ [][ForwardingNext]_everything /\ ForwardingFairness

-----------------------------------------------------------------------------
(* Properties.                                                             *)

\* Type invariant: each message sent is in one place.
ForwardingTypeOK ==
    /\ sent \in 0..MaxMessages
    /\ visible \cup Out \cup deadLetters \cup consumed \subseteq 1..sent
    /\ \A s, t \in {visible, Out, deadLetters, consumed} : s # t => s \cap t = {}
    /\ \A i \in Invocations : running[i].failed \subseteq running[i].batch \ running[i].left
    /\ \A i, j \in Invocations : i # j =>
            running[i].batch \cap running[j].batch = {}
    /\ \A t \in DOMAIN published : ToSet(published[t]) \subseteq 1..sent
    /\ crashes \in 0..MaxCrashes
    /\ ~Deployed => sent = 0

\* The transform and what it deploys keep the promise of the author's links.
Promise == INSTANCE FanOut WITH
    topics <- {TopicName(t) : t \in TopicForwards(b, b.source)},
    delivered <- {x \in (1..sent) \X DOMAIN published : Contains(published[x[2]], x[1])},
    settled <- (1..sent) \ (visible \cup Out),
    dead <- deadLetters

\* "it republishes each SQS record's body to every target SNS topic": a message is
\* delivered to every topic its queue links to before the queue is rid of it, through
\* rejections, redelivery and crashes, unless it is a dead letter; other topics get
\* nothing.
DeliversToEveryTopic == Promise!Spec

\* The author's redrive: a queue that has a dead-letter queue and attempts.
HasRedrive ==
    /\ b.spec[b.source].attempts # Absent
    /\ \E q \in OfBacking(b, "queue") \ {b.source} :
            Selects(b.selector[b.source], OwnLabels(b, q))
Compatible ==
    \A t \in TopicForwards(b, b.source) : b.spec[t].fifo = b.spec[b.source].fifo

\* No message stays for ever: where the author has a dead-letter queue, or topics
\* that accept the queue's messages, FIFO or standard as it is, the queue gets rid of
\* every message sent.
EveryMessageSettles ==
    HasRedrive \/ Compatible =>
        \A m \in 1..MaxMessages : (sent >= m) ~> (sent >= m /\ m \notin visible \cup Out)

-----------------------------------------------------------------------------
(* A promise of the comments that does not hold.                           *)

\* "FIFO group ordering is preserved by passing MessageGroupId through": a topic
\* gets the messages of a group in the order they were sent in.
GroupOrderIsPreserved ==
    Deployed =>
        \A t \in DOMAIN published : \A i, j \in DOMAIN published[t] :
            /\ emitted[t].spec.fifo /\ i < j
            /\ b.group[published[t][i]] = b.group[published[t][j]]
            => published[t][i] < published[t][j]
=============================================================================
