----------------------- MODULE TransformPipeline_proofs -----------------------
(***************************************************************************)
(* Theorems about every run of TransformPipeline, for every set of         *)
(* blueprints of the assumed shape: its types; and, for every fingerprint  *)
(* function that tells their role plans apart, that a shared role gives    *)
(* each function exactly what it needs.                                    *)
(***************************************************************************)
EXTENDS TransformPipeline, WellFoundedInduction, TLAPS

-----------------------------------------------------------------------------
(* The names the emitters and the aggregator use.                          *)

\* An overlay holds the names of both maps.
LEMMA OverlayDomain ==
    ASSUME NEW f, NEW g
    PROVE  DOMAIN Overlay(f, g) = DOMAIN f \cup DOMAIN g
BY DEF Overlay

\* It stays within every set of names that holds both.
LEMMA OverlayWithin ==
    ASSUME NEW S, NEW f, NEW g, DOMAIN f \subseteq S, DOMAIN g \subseteq S
    PROVE  DOMAIN Overlay(f, g) \subseteq S
<1>1. DOMAIN Overlay(f, g) = DOMAIN f \cup DOMAIN g
  BY OverlayDomain
<1> QED
  BY <1>1

\* The schedules and consumers a handler absorbs are of those kinds.
LEMMA AbsorbedKinds ==
    ASSUME NEW b, NEW h
    PROVE  /\ Schedules(b, h) \subseteq OfKind(b, {"schedule"})
           /\ Consumers(b, h) \subseteq OfKind(b, {"consumer"})
           /\ TopicConsumers(b, h) \subseteq OfKind(b, {"consumer"})
BY DEF Schedules, Consumers, TopicConsumers, LinkedFrom

\* A handler's emitter only uses the names of a transform of its blueprint.
LEMMA HandlerNames ==
    ASSUME NEW b, NEW h \in Handlers(b), NEW m,
           NEW resources \in HandlerResources(b, h, m)
    PROVE  DOMAIN resources \subseteq ConcreteNames(b)
<1>1. DOMAIN [n \in {FuncName(h)} |-> LambdaFunction(b, h, m)]
        \subseteq ConcreteNames(b)
  BY DEF ConcreteNames
<1>2. DOMAIN ScheduleRules(b, h) \subseteq ConcreteNames(b)
  BY AbsorbedKinds DEF ScheduleRules, ConcreteNames
<1>3. \A mappings \in ExternalMappings(b, h) :
        DOMAIN mappings \subseteq ConcreteNames(b)
  <2>1. SUFFICES ASSUME NEW x \in ExternalSources(b, h)
                 PROVE  ESMName(x[1], x[2]) \in ConcreteNames(b)
    BY DEF ExternalMappings
  <2>2. PICK c \in Consumers(b, h) : x \in {c} \X ExternalKeys(b, c)
    BY DEF ExternalSources
  <2>3. x[1] = c /\ x[2] \in ExternalKeys(b, c)
    BY <2>2
  <2>4. c \in OfKind(b, {"consumer"})
    BY AbsorbedKinds
  <2>5. ESMName(x[1], x[2]) \in {ESMName(c, k) : k \in ExternalKeys(b, c)}
    BY <2>3
  <2>6. ESMName(x[1], x[2]) \in MappingNames(b)
    BY <2>4, <2>5 DEF MappingNames
  <2> QED
    BY <2>6 DEF ConcreteNames
<1>4. DOMAIN [n \in {} |-> n] = {}
  OBVIOUS
<1>5. CASE EmitsFunction(b, h)
  <2> DEFINE function == [n \in {FuncName(h)} |-> LambdaFunction(b, h, m)]
  <2>1. PICK mappings \in ExternalMappings(b, h) :
          resources = Overlay(Overlay(function, ScheduleRules(b, h)), mappings)
    BY <1>5 DEF HandlerResources
  <2> HIDE DEF function
  <2>2. DOMAIN function \subseteq ConcreteNames(b)
    BY <1>1 DEF function
  <2>3. DOMAIN Overlay(function, ScheduleRules(b, h)) \subseteq ConcreteNames(b)
    BY <2>2, <1>2, OverlayWithin
  <2>4. DOMAIN Overlay(Overlay(function, ScheduleRules(b, h)), mappings)
          \subseteq ConcreteNames(b)
    BY <2>3, <1>3, OverlayWithin
  <2> QED
    BY <2>1, <2>4
<1>6. CASE ~EmitsFunction(b, h)
  BY <1>4, <1>6 DEF HandlerResources
<1> QED
  BY <1>5, <1>6

LEMMA PrimaryNames ==
    ASSUME NEW b, NEW r \in Resources(b)
    PROVE  DOMAIN PrimaryResources(b, r) \subseteq ConcreteNames(b)
BY DEF PrimaryResources, ConcreteNames

\* The shared parents only use the names of a transform of their blueprint.
LEMMA ParentNames ==
    ASSUME NEW b, NEW order, NEW m
    PROVE  DOMAIN SharedParents(b, order, m) \subseteq ConcreteNames(b)
<1>1. HandlersIn(b, order) \subseteq Handlers(b)
  BY DEF HandlersIn
<1>2. DOMAIN RoleParents(b, order) \subseteq ConcreteNames(b)
  BY <1>1 DEF RoleParents, ConcreteNames
<1>3. DOMAIN LayerParents(b, order, m) \subseteq ConcreteNames(b)
  BY <1>1 DEF LayerParents, ConcreteNames
<1>4. DOMAIN FanoutParents(b, order) \subseteq ConcreteNames(b)
  <2> DEFINE absorbed == UNION {TopicConsumers(b, h) : h \in HandlersIn(b, order)}
  <2>1. absorbed \subseteq OfKind(b, {"consumer"})
    BY AbsorbedKinds
  <2>2. \A c \in absorbed : /\ TopicQueueName(c) \in FanoutNames(b)
                            /\ SubscriptionName(c) \in FanoutNames(b)
                            /\ TopicDLQName(c) \in FanoutNames(b)
    BY <2>1 DEF FanoutNames
  <2> DEFINE queues ==
               [n \in {TopicQueueName(c) : c \in absorbed} |-> FanoutQueue(n[2])]
             subscriptions ==
               [n \in {SubscriptionName(c) : c \in absorbed} |-> Subscription(n[2])]
             letters ==
               [n \in {TopicDLQName(c) : c \in absorbed \ b.noDeadLetter} |->
                  FanoutQueue(n[2])]
  <2>3. FanoutParents(b, order) = Overlay(Overlay(queues, subscriptions), letters)
    BY DEF FanoutParents
  <2>4. /\ DOMAIN queues \subseteq FanoutNames(b)
        /\ DOMAIN subscriptions \subseteq FanoutNames(b)
        /\ DOMAIN letters \subseteq FanoutNames(b)
    BY <2>2
  <2>5. DOMAIN FanoutParents(b, order) \subseteq FanoutNames(b)
    <3> HIDE DEF queues, subscriptions, letters
    <3>1. DOMAIN Overlay(queues, subscriptions) \subseteq FanoutNames(b)
      BY <2>4, OverlayWithin
    <3>2. DOMAIN Overlay(Overlay(queues, subscriptions), letters)
            \subseteq FanoutNames(b)
      BY <3>1, <2>4, OverlayWithin
    <3> QED
      BY <2>3, <3>2
  <2>6. FanoutNames(b) \subseteq ConcreteNames(b)
    BY DEF ConcreteNames
  <2> QED
    BY <2>5, <2>6
<1>5. DOMAIN StoreParent(b, order) \subseteq ConcreteNames(b)
  <2>1. DOMAIN StoreParent(b, order) \subseteq {StoreName}
    BY DEF StoreParent
  <2> QED
    BY <2>1 DEF ConcreteNames
<1>6. SharedParents(b, order, m)
        = Overlay(Overlay(Overlay(RoleParents(b, order),
                                  LayerParents(b, order, m)),
                          FanoutParents(b, order)),
                  StoreParent(b, order))
  BY DEF SharedParents
<1>7. DOMAIN Overlay(RoleParents(b, order), LayerParents(b, order, m))
        \subseteq ConcreteNames(b)
  BY <1>2, <1>3, OverlayWithin
<1>8. DOMAIN Overlay(Overlay(RoleParents(b, order), LayerParents(b, order, m)),
                     FanoutParents(b, order)) \subseteq ConcreteNames(b)
  BY <1>7, <1>4, OverlayWithin
<1>9. DOMAIN Overlay(Overlay(Overlay(RoleParents(b, order),
                                     LayerParents(b, order, m)),
                             FanoutParents(b, order)),
                     StoreParent(b, order)) \subseteq ConcreteNames(b)
  BY <1>8, <1>5, OverlayWithin
<1> QED
  BY <1>6, <1>9

\* What handlers contribute to, and how severe what they report is.
LEMMA HandlerReports ==
    ASSUME NEW b, NEW h \in Handlers(b), NEW m
    PROVE  /\ DOMAIN HandlerContributions(b, h)
                \subseteq {SubscriptionName(c) : c \in OfKind(b, {"consumer"})}
           /\ \A d \in HandlerDiagnostics(b, h, m) :
                d.level \in {"error", "warning"}
<1>1. DOMAIN HandlerContributions(b, h)
        \subseteq {SubscriptionName(c) : c \in OfKind(b, {"consumer"})}
  BY AbsorbedKinds DEF HandlerContributions
<1>2. \A x : Error(x).level = "error" /\ Warning(x).level = "warning"
  BY DEF Error, Warning
<1>3. \A d \in HandlerDiagnostics(b, h, m) : \E x : d = Error(x) \/ d = Warning(x)
  BY DEF HandlerDiagnostics
<1> QED
  BY <1>1, <1>2, <1>3

-----------------------------------------------------------------------------
(* Type correctness.                                                       *)

\* A run starts well-typed: nothing is resolved, planned or emitted.
LEMMA InitTyped == Init => TypeOK
<1>1. SUFFICES ASSUME Init PROVE TypeOK
  OBVIOUS
<1>2. DOMAIN Nothing = {}
  BY DEF Nothing
<1>3. << >> \in Seq(Resources(bp))
  OBVIOUS
<1> QED
  BY <1>1, <1>2, <1>3 DEF Init, TypeOK

\* Every step of the pipeline keeps the types.
LEMMA NextTyped == TypeOK /\ [Next]_vars => TypeOK'
<1> SUFFICES ASSUME TypeOK, [Next]_vars
             PROVE  TypeOK'
  OBVIOUS
<1> USE DEF TypeOK
<1>1. CASE OnRun
  <2>1. IsBlueprint(bp)
    BY BlueprintShape
  <2>2. bp.manifest \in {"noPath", "unreadable", "noLambda", "lambda"}
    BY <2>1 DEF IsBlueprint
  <2>3. manifest' \in {"none", "failed", "noLambda", "lambda"}
    BY <1>1, <2>2 DEF OnRun
  <2> QED
    BY <1>1, <2>3 DEF OnRun
<1>2. ASSUME NEW r \in Resources(bp), Resolve(r)
      PROVE  TypeOK'
  BY <1>2 DEF Resolve
<1>3. ASSUME NEW r \in Resources(bp), ResolveFails(r)
      PROVE  TypeOK'
  BY <1>3 DEF ResolveFails
<1>4. CASE AllResolved
  BY <1>4 DEF AllResolved
<1>5. CASE Absorb
  BY <1>5 DEF Absorb
<1>6. CASE Keep
  <2>1. resolved[next] \in Resources(bp)
    BY <1>6 DEF Keep
  <2> QED
    BY <1>6, <2>1 DEF Keep
<1>7. CASE PlanSharedParents
  <2>1. DOMAIN parents' \subseteq ConcreteNames(bp)
    BY <1>7, ParentNames DEF PlanSharedParents
  <2> QED
    BY <1>7, <2>1 DEF PlanSharedParents
<1>8. CASE EmitFails
  BY <1>8 DEF EmitFails
<1>9. CASE EmitHandler
  <2> DEFINE h == primaries[next]
             values == HandlerContributions(bp, h)
  <2>1. h \in Handlers(bp)
    BY <1>9 DEF EmitHandler
  <2>2. DOMAIN emitted' \subseteq ConcreteNames(bp)
    <3>1. PICK resources \in HandlerResources(bp, h, manifest) :
            emitted' = Overlay(emitted, resources)
      BY <1>9 DEF EmitHandler, Emit
    <3> QED
      BY <2>1, <3>1, HandlerNames, OverlayWithin
  <2>3. \A d \in diagnostics' : d.level \in {"error", "warning"}
    <3>1. diagnostics' = diagnostics \cup HandlerDiagnostics(bp, h, manifest)
      BY <1>9 DEF EmitHandler, Emit
    <3> QED
      BY <2>1, <3>1, HandlerReports
  <2>4. DOMAIN contributions'
          \subseteq {SubscriptionName(c) : c \in OfKind(bp, {"consumer"})}
    <3>1. DOMAIN contributions' = DOMAIN contributions \cup DOMAIN values
      BY <1>9 DEF EmitHandler, Contribute
    <3>2. DOMAIN values
            \subseteq {SubscriptionName(c) : c \in OfKind(bp, {"consumer"})}
      BY <2>1, HandlerReports
    <3> QED
      BY <3>1, <3>2
  <2> QED
    BY <1>9, <2>2, <2>3, <2>4 DEF EmitHandler, Emit
<1>10. CASE EmitPrimary
  <2> DEFINE r == primaries[next]
  <2>1. r \in Resources(bp)
    BY <1>10 DEF EmitPrimary
  <2>2. DOMAIN emitted' \subseteq ConcreteNames(bp)
    BY <1>10, <2>1, PrimaryNames, OverlayWithin DEF EmitPrimary, Emit
  <2>3. \A d \in diagnostics' : d.level \in {"error", "warning"}
    <3>1. diagnostics' = diagnostics \cup PrimaryDiagnostics(bp, r)
      BY <1>10 DEF EmitPrimary, Emit
    <3>2. \A d \in PrimaryDiagnostics(bp, r) : d.level = "error"
      BY DEF PrimaryDiagnostics, Error
    <3> QED
      BY <3>1, <3>2
  <2> QED
    BY <1>10, <2>2, <2>3 DEF EmitPrimary, Emit
<1>11. CASE MergeSharedParents
  <2> DEFINE merged == [n \in DOMAIN parents \ ConflictingParents |->
                          Merged(parents[n], ContributedTo(n))]
  <2>1. DOMAIN merged \subseteq ConcreteNames(bp)
    OBVIOUS
  <2>2. emitted' = Overlay(emitted, merged)
    BY <1>11 DEF MergeSharedParents
  <2>3. DOMAIN emitted' \subseteq ConcreteNames(bp)
    <3> HIDE DEF merged
    <3> QED
      BY <2>1, <2>2, OverlayWithin
  <2>4. \A d \in diagnostics' : d.level \in {"error", "warning"}
    BY <1>11 DEF MergeSharedParents, Error
  <2> QED
    BY <1>11, <2>3, <2>4 DEF MergeSharedParents
<1>12. CASE UNCHANGED vars
  BY <1>12 DEF vars
<1> QED
  BY <1>1, <1>2, <1>3, <1>4, <1>5, <1>6, <1>7, <1>8, <1>9, <1>10, <1>11,
     <1>12 DEF Next, Step, Finished

\* In every run the variables keep their types: in particular no emitter, no
\* shared parent and no contribution uses a name outside the ones the naming
\* helpers derive from the blueprint.
THEOREM TypeCorrect == Spec => []TypeOK
BY InitTyped, NextTyped, PTL DEF Spec

-----------------------------------------------------------------------------
(* First returns a member of the set it looks for.                         *)

LEMMA LeastIndex ==
    ASSUME NEW T, T \subseteq Nat, T # {}
    PROVE  \E i \in T : \A j \in T : ~(j < i)
<1> DEFINE less == {p \in Nat \X Nat : p[1] < p[2]}
<1>1. OpToRel(<, Nat) = less
  BY DEF OpToRel
<1>2. IsWellFoundedOn(less, Nat)
  BY <1>1, NatLessThanWellFounded
<1>3. \E i \in T : \A j \in T : ~(<<j, i>> \in less)
  <2> HIDE DEF less
  <2> QED
    BY <1>2, WFMin
<1> QED
  BY <1>3

LEMMA FirstIsMember ==
    ASSUME NEW A, NEW order \in Seq(A), NEW hs,
           \E i \in DOMAIN order : order[i] \in hs
    PROVE  First(order, hs) \in hs
<1> DEFINE T == {i \in DOMAIN order : order[i] \in hs}
<1>1. T \subseteq Nat /\ T # {}
  OBVIOUS
<1>2. PICK i \in T : \A j \in T : ~(j < i)
  <2> HIDE DEF T
  <2> QED
    BY <1>1, LeastIndex
<1>3. \A j \in 1..(i - 1) : order[j] \notin hs
  <2> TAKE j \in 1..(i - 1)
  <2>1. j \in DOMAIN order /\ j < i
    BY <1>2
  <2> QED
    BY <1>2, <2>1
<1>4. \E k \in DOMAIN order :
        order[k] \in hs /\ \A j \in 1..(k - 1) : order[j] \notin hs
  BY <1>2, <1>3
<1> QED
  BY <1>4 DEF First

-----------------------------------------------------------------------------
(* Where functions and roles come from.                                    *)

\* Only a handler's own function is a function among what it emits.
LEMMA HandlerFunction ==
    ASSUME NEW b, NEW h, NEW m, NEW resources \in HandlerResources(b, h, m),
           NEW n \in DOMAIN resources
    PROVE  LET c == resources[n]
           IN  /\ c.type # "role"
               /\ c.type = "function" =>
                    n = FuncName(h) /\ c = LambdaFunction(b, h, m)
<1> DEFINE function == [x \in {FuncName(h)} |-> LambdaFunction(b, h, m)]
           rules == ScheduleRules(b, h)
<1>1. \A x \in DOMAIN function :
        /\ function[x].type = "function"
        /\ x = FuncName(h) /\ function[x] = LambdaFunction(b, h, m)
  BY DEF LambdaFunction
<1>2. \A x \in DOMAIN rules : rules[x].type = "rule"
  BY DEF ScheduleRules, ScheduleRule
<1>3. \A mappings \in ExternalMappings(b, h) :
        \A x \in DOMAIN mappings : mappings[x].type = "esm"
  BY DEF ExternalMappings, EventSourceMapping
<1>4. PICK mappings \in ExternalMappings(b, h) :
        resources = Overlay(Overlay(function, rules), mappings)
  BY DEF HandlerResources
<1> HIDE DEF function, rules
<1>5. \A x \in DOMAIN Overlay(function, rules) :
        \/ x \in DOMAIN rules /\ Overlay(function, rules)[x] = rules[x]
        \/ x \in DOMAIN function /\ Overlay(function, rules)[x] = function[x]
  BY DEF Overlay
<1>6. \/ n \in DOMAIN mappings /\ resources[n] = mappings[n]
      \/ /\ n \in DOMAIN Overlay(function, rules)
         /\ resources[n] = Overlay(function, rules)[n]
  BY <1>4 DEF Overlay
<1> QED
  BY <1>1, <1>2, <1>3, <1>5, <1>6

\* The other emitters emit neither functions nor roles.
LEMMA PrimaryIsNeither ==
    ASSUME NEW b, IsBlueprint(b), NEW r \in Resources(b),
           NEW n \in DOMAIN PrimaryResources(b, r)
    PROVE  PrimaryResources(b, r)[n].type \notin {"role", "function"}
<1>1. b.kind[r] \in Kind
  BY DEF IsBlueprint
<1>2. PrimaryResources(b, r)[n].type = b.kind[r]
  BY DEF PrimaryResources
<1> QED
  BY <1>1, <1>2 DEF Kind

\* The only roles among the shared parents are the role parents.
LEMMA ParentIsRole ==
    ASSUME NEW b, NEW order, NEW m, NEW n \in DOMAIN SharedParents(b, order, m)
    PROVE  LET p == SharedParents(b, order, m)[n]
           IN  /\ p.type # "function"
               /\ p.type = "role" => /\ n \in DOMAIN RoleParents(b, order)
                                     /\ p = RoleParents(b, order)[n]
<1> DEFINE roles == RoleParents(b, order)
           layers == LayerParents(b, order, m)
           fanouts == FanoutParents(b, order)
           stores == StoreParent(b, order)
<1>1. \A x \in DOMAIN roles : roles[x].type = "role"
  BY DEF RoleParents, Role
<1>2. \A x \in DOMAIN layers : layers[x].type = "layer"
  BY DEF LayerParents, Layer
<1>3. \A x \in DOMAIN fanouts : fanouts[x].type \in {"queue", "subscription"}
  BY DEF FanoutParents, FanoutQueue, Subscription, Overlay
<1>4. \A x \in DOMAIN stores : stores[x].type = "store"
  BY DEF StoreParent, Store
<1>5. SharedParents(b, order, m)
        = Overlay(Overlay(Overlay(roles, layers), fanouts), stores)
  BY DEF SharedParents
<1> HIDE DEF roles, layers, fanouts, stores
<1>6. \A f, g : \A x \in DOMAIN Overlay(f, g) :
        \/ x \in DOMAIN g /\ Overlay(f, g)[x] = g[x]
        \/ x \in DOMAIN f /\ Overlay(f, g)[x] = f[x]
  BY DEF Overlay
<1>7. \A x \in DOMAIN Overlay(roles, layers) :
        LET p == Overlay(roles, layers)[x]
        IN  \/ p.type = "layer"
            \/ x \in DOMAIN roles /\ p = roles[x]
  BY <1>2, <1>6
<1>8. \A x \in DOMAIN Overlay(Overlay(roles, layers), fanouts) :
        LET p == Overlay(Overlay(roles, layers), fanouts)[x]
        IN  \/ p.type \in {"layer", "queue", "subscription"}
            \/ x \in DOMAIN roles /\ p = roles[x]
  BY <1>3, <1>6, <1>7
<1>9. LET p == SharedParents(b, order, m)[n]
      IN  \/ p.type \in {"layer", "queue", "subscription", "store"}
          \/ n \in DOMAIN roles /\ p = roles[n]
  BY <1>4, <1>5, <1>6, <1>8
<1>10. CASE SharedParents(b, order, m)[n].type
              \in {"layer", "queue", "subscription", "store"}
  BY <1>10
<1>11. CASE /\ n \in DOMAIN roles
            /\ SharedParents(b, order, m)[n] = roles[n]
  BY <1>1, <1>11 DEF roles
<1> QED
  BY <1>9, <1>10, <1>11

-----------------------------------------------------------------------------
(* The inductive invariant.                                                *)

\* Every emitted function is that of a planned handler.
FunctionsGenuine ==
    \A n \in DOMAIN emitted : emitted[n].type = "function" =>
        \E h \in HandlersIn(bp, primaries) :
            n = FuncName(h) /\ emitted[n] = LambdaFunction(bp, h, manifest)

\* Every emitted role is the planned one, with nothing merged into it.
RolesGenuine ==
    \A n \in DOMAIN emitted : emitted[n].type = "role" =>
        /\ n \in DOMAIN RoleParents(bp, primaries)
        /\ emitted[n] = RoleParents(bp, primaries)[n]

\* The parents are those of the finished plan, and until there is one nothing
\* is emitted: this is what the two above need of the earlier phases.
PlanFirst ==
    /\ phase \in {"start", "resolve", "aggregate"} => DOMAIN emitted = {}
    /\ phase \in {"emit", "done"} =>
            parents = SharedParents(bp, primaries, manifest)

EmissionInv == TypeOK /\ PlanFirst /\ FunctionsGenuine /\ RolesGenuine

LEMMA EmissionInit == Init => EmissionInv
<1>1. SUFFICES ASSUME Init PROVE PlanFirst /\ FunctionsGenuine /\ RolesGenuine
  BY InitTyped DEF EmissionInv
<1>2. DOMAIN emitted = {}
  BY <1>1 DEF Init, Nothing
<1>3. phase = "start"
  BY <1>1 DEF Init
<1> QED
  BY <1>2, <1>3 DEF PlanFirst, FunctionsGenuine, RolesGenuine

\* Emitting one primary keeps functions and roles genuine.
LEMMA EmissionOfHandler ==
    ASSUME EmissionInv, EmitHandler
    PROVE  FunctionsGenuine' /\ RolesGenuine'
<1> DEFINE h == primaries[next]
<1>1. PICK new \in HandlerResources(bp, h, manifest) :
        /\ emitted' = Overlay(emitted, new)
        /\ UNCHANGED <<bp, primaries, manifest>>
  BY DEF EmitHandler, Emit
<1>2. h \in HandlersIn(bp, primaries)
  <2>1. next \in DOMAIN primaries /\ h \in Handlers(bp)
    BY DEF EmissionInv, TypeOK, EmitHandler
  <2> QED
    BY <2>1 DEF HandlersIn
<1>3. \A n \in DOMAIN new :
        /\ new[n].type # "role"
        /\ new[n].type = "function" =>
             n = FuncName(h) /\ new[n] = LambdaFunction(bp, h, manifest)
  BY HandlerFunction
<1> HIDE DEF h
<1>4. \A n \in DOMAIN emitted' :
        \/ n \in DOMAIN new /\ emitted'[n] = new[n]
        \/ n \in DOMAIN emitted /\ emitted'[n] = emitted[n]
  BY <1>1 DEF Overlay
<1>5. FunctionsGenuine'
  BY <1>1, <1>2, <1>3, <1>4 DEF EmissionInv, FunctionsGenuine
<1>6. RolesGenuine'
  BY <1>1, <1>3, <1>4 DEF EmissionInv, RolesGenuine
<1> QED
  BY <1>5, <1>6

LEMMA EmissionOfPrimary ==
    ASSUME EmissionInv, EmitPrimary
    PROVE  FunctionsGenuine' /\ RolesGenuine'
<1> DEFINE r == primaries[next]
           new == PrimaryResources(bp, r)
<1>1. /\ emitted' = Overlay(emitted, new)
      /\ UNCHANGED <<bp, primaries, manifest>>
  BY DEF EmitPrimary, Emit
<1>2. r \in Resources(bp)
  BY DEF EmissionInv, TypeOK, EmitPrimary
<1>3. IsBlueprint(bp)
  BY BlueprintShape DEF EmissionInv, TypeOK
<1>4. \A n \in DOMAIN new : new[n].type \notin {"role", "function"}
  BY <1>2, <1>3, PrimaryIsNeither
<1> HIDE DEF new
<1>5. \A n \in DOMAIN emitted' :
        \/ n \in DOMAIN new /\ emitted'[n] = new[n]
        \/ n \in DOMAIN emitted /\ emitted'[n] = emitted[n]
  BY <1>1 DEF Overlay
<1>6. FunctionsGenuine'
  BY <1>1, <1>4, <1>5 DEF EmissionInv, FunctionsGenuine
<1>7. RolesGenuine'
  BY <1>1, <1>4, <1>5 DEF EmissionInv, RolesGenuine
<1> QED
  BY <1>6, <1>7

\* A role is a parent nothing is contributed to, so the merge keeps it as is.
LEMMA RolesAreNotContributedTo ==
    ASSUME EmissionInv, NEW n \in DOMAIN RoleParents(bp, primaries)
    PROVE  ContributedTo(n) = {}
<1>1. PICK h : n = RoleOf(bp, h)
  BY DEF RoleParents
<1>2. n[1] = "celerityLambdaExec"
  BY <1>1 DEF RoleOf, RoleName
<1>3. \A c : SubscriptionName(c)[1] = "sns_subscription"
  BY DEF SubscriptionName
<1>4. n \notin DOMAIN contributions
  BY <1>2, <1>3 DEF EmissionInv, TypeOK
<1> QED
  BY <1>4 DEF ContributedTo

LEMMA EmissionOfParents ==
    ASSUME EmissionInv, MergeSharedParents
    PROVE  FunctionsGenuine' /\ RolesGenuine'
<1> DEFINE new == [n \in DOMAIN parents \ ConflictingParents |->
                     Merged(parents[n], ContributedTo(n))]
<1>1. /\ emitted' = Overlay(emitted, new)
      /\ UNCHANGED <<bp, primaries, manifest>>
  BY DEF MergeSharedParents
<1>2. parents = SharedParents(bp, primaries, manifest)
  BY DEF MergeSharedParents, EmissionInv, PlanFirst
<1>3. ASSUME NEW n \in DOMAIN new
      PROVE  /\ new[n].type # "function"
             /\ new[n].type = "role" =>
                  /\ n \in DOMAIN RoleParents(bp, primaries)
                  /\ new[n] = RoleParents(bp, primaries)[n]
  <2>1. n \in DOMAIN SharedParents(bp, primaries, manifest)
    BY <1>2, <1>3
  <2>2. /\ parents[n].type # "function"
        /\ parents[n].type = "role" =>
             /\ n \in DOMAIN RoleParents(bp, primaries)
             /\ parents[n] = RoleParents(bp, primaries)[n]
    BY <1>2, <2>1, ParentIsRole
  <2>3. new[n] = Merged(parents[n], ContributedTo(n))
    BY <1>3
  <2>4. new[n].type = parents[n].type
    BY <2>3 DEF Merged
  <2>5. ASSUME parents[n].type = "role"
        PROVE  new[n] = parents[n]
    <3>1. ContributedTo(n) = {}
      BY <2>2, <2>5, RolesAreNotContributedTo
    <3> QED
      BY <2>3, <3>1 DEF Merged
  <2> QED
    BY <2>2, <2>4, <2>5
<1> HIDE DEF new
<1>4. \A n \in DOMAIN emitted' :
        \/ n \in DOMAIN new /\ emitted'[n] = new[n]
        \/ n \in DOMAIN emitted /\ emitted'[n] = emitted[n]
  BY <1>1 DEF Overlay
<1>5. FunctionsGenuine'
  BY <1>1, <1>3, <1>4 DEF EmissionInv, FunctionsGenuine
<1>6. RolesGenuine'
  BY <1>1, <1>3, <1>4 DEF EmissionInv, RolesGenuine
<1> QED
  BY <1>5, <1>6

LEMMA EmissionNext == EmissionInv /\ [Next]_vars => EmissionInv'
<1> SUFFICES ASSUME EmissionInv, [Next]_vars
             PROVE  EmissionInv'
  OBVIOUS
<1>1. TypeOK'
  BY NextTyped DEF EmissionInv
<1> SUFFICES PlanFirst' /\ FunctionsGenuine' /\ RolesGenuine'
  BY <1>1 DEF EmissionInv
<1> USE DEF PlanFirst
<1>2. CASE phase \in {"start", "resolve", "aggregate"} /\ ~PlanSharedParents
  <2>1. DOMAIN emitted = {}
    BY <1>2 DEF EmissionInv
  <2>2. CASE OnRun
    BY <2>1, <2>2 DEF OnRun, FunctionsGenuine, RolesGenuine
  <2>3. ASSUME NEW r, Resolve(r) \/ ResolveFails(r)
        PROVE  PlanFirst' /\ FunctionsGenuine' /\ RolesGenuine'
    BY <2>1, <2>3 DEF Resolve, ResolveFails, FunctionsGenuine, RolesGenuine
  <2>4. CASE AllResolved
    BY <2>1, <2>4 DEF AllResolved, FunctionsGenuine, RolesGenuine
  <2>5. CASE Absorb
    BY <2>1, <2>5 DEF Absorb, FunctionsGenuine, RolesGenuine
  <2>6. CASE Keep
    BY <2>1, <2>6 DEF Keep, FunctionsGenuine, RolesGenuine
  <2>7. CASE UNCHANGED vars
    BY <1>2, <2>1, <2>7 DEF vars, FunctionsGenuine, RolesGenuine
  <2> QED
    BY <1>2, <2>2, <2>3, <2>4, <2>5, <2>6, <2>7
       DEF Next, Step, Finished, EmitFails, EmitHandler, EmitPrimary,
           MergeSharedParents
<1>3. CASE PlanSharedParents
  <2>1. DOMAIN emitted = {}
    BY <1>3 DEF EmissionInv, PlanSharedParents
  <2> QED
    BY <1>3, <2>1 DEF PlanSharedParents, FunctionsGenuine, RolesGenuine
<1>4. CASE EmitHandler
  <2>1. PlanFirst'
    BY <1>4 DEF EmissionInv, EmitHandler, Emit
  <2> QED
    BY <1>4, <2>1, EmissionOfHandler
<1>5. CASE EmitPrimary
  <2>1. PlanFirst'
    BY <1>5 DEF EmissionInv, EmitPrimary, Emit
  <2> QED
    BY <1>5, <2>1, EmissionOfPrimary
<1>6. CASE MergeSharedParents
  <2>1. PlanFirst'
    BY <1>6 DEF EmissionInv, MergeSharedParents
  <2> QED
    BY <1>6, <2>1, EmissionOfParents
<1>7. CASE EmitFails \/ UNCHANGED vars
  BY <1>7 DEF EmitFails, vars, EmissionInv, FunctionsGenuine, RolesGenuine
<1>8. phase \in {"start", "resolve", "aggregate", "emit", "done", "failed"}
  BY DEF EmissionInv, TypeOK
<1>9. CASE phase \in {"emit", "done", "failed"}
  BY <1>4, <1>5, <1>6, <1>7, <1>9
     DEF Next, Step, Finished, OnRun, Resolve, ResolveFails, AllResolved, Absorb,
         Keep, PlanSharedParents
<1> QED
  BY <1>2, <1>3, <1>8, <1>9

-----------------------------------------------------------------------------
(* Equal plans grant equally.                                              *)

\* What a handler uses and what triggers it can be read off its role plan, and
\* they are the links its function carries.
LEMMA LinksOfPlan ==
    ASSUME NEW b, NEW h, NEW m
    PROVE  LET planned == RolePlan(b, h).links
               carried == LambdaFunction(b, h, m).links
               triggers == {"consumer", "api"}
           IN  /\ Backings(b, h) = {x \in planned : b.kind[x] \in BackingKind}
               /\ Backings(b, h) = {x \in carried : b.kind[x] \in BackingKind}
               /\ Consumers(b, h) \cup Apis(b, h)
                    = {x \in planned : b.kind[x] \in triggers}
               /\ Consumers(b, h) \cup Apis(b, h)
                    = {x \in carried : b.kind[x] \in triggers}
<1>1. /\ \A x \in Backings(b, h) : b.kind[x] \in BackingKind
      /\ \A x \in Consumers(b, h) : b.kind[x] = "consumer"
      /\ \A x \in Apis(b, h) : b.kind[x] = "api"
      /\ \A x \in Schedules(b, h) : b.kind[x] = "schedule"
  BY DEF Backings, Consumers, Apis, Schedules, LinkedTo, LinkedFrom, OfKind
<1>2. RolePlan(b, h).links
        = Backings(b, h) \cup Consumers(b, h) \cup Schedules(b, h) \cup Apis(b, h)
  BY DEF RolePlan
<1>3. LambdaFunction(b, h, m).links
        = Backings(b, h) \cup Consumers(b, h) \cup Apis(b, h)
  BY DEF LambdaFunction
<1>4. {"consumer", "api", "schedule"} \cap BackingKind = {}
  BY DEF BackingKind
<1> QED
  BY <1>1, <1>2, <1>3, <1>4

\* A role's name tells its plan.
LEMMA SameRoleSamePlan ==
    ASSUME NEW b \in Blueprint, NEW g \in Handlers(b), NEW h \in Handlers(b),
           RoleOf(b, g) = RoleOf(b, h)
    PROVE  RolePlan(b, g) = RolePlan(b, h)
BY FingerprintInjective DEF RoleOf, RoleName

\* Among the names a function references only its own role's is a role's.
LEMMA OneRoleReferenced ==
    ASSUME NEW b, NEW h, NEW m, NEW plan,
           RoleName(plan) \in LambdaFunction(b, h, m).refs
    PROVE  RoleName(plan) = RoleOf(b, h)
<1>1. LambdaFunction(b, h, m).refs
        = {RoleOf(b, h)} \cup {PrimaryName(x) : x \in Configs(b, h)}
            \cup {LayerName(l) : l \in WiredLayers(b, h, m)}
  BY DEF LambdaFunction
<1>2. \A x : RoleName(plan) # PrimaryName(x) /\ RoleName(plan) # LayerName(x)
  BY DEF RoleName, PrimaryName, LayerName
<1> QED
  BY <1>1, <1>2

\* A planned role is that of the first handler which shares it.
LEMMA PlannedRole ==
    ASSUME NEW b, NEW order \in Seq(Resources(b)),
           NEW role \in DOMAIN RoleParents(b, order)
    PROVE  \E f \in HandlersIn(b, order) :
             /\ role = RoleOf(b, f)
             /\ RoleParents(b, order)[role].tracing = RolePlan(b, f).tracing
             /\ RoleParents(b, order)[role].readsStore = RolePlan(b, f).readsStore
             /\ RoleParents(b, order)[role].externalSources
                    = RolePlan(b, f).externalSources
<1> DEFINE hs == HandlersIn(b, order)
           sharers == SharersOf(b, hs, role)
           f == First(order, sharers)
<1>1. PICK h \in hs : role = RoleOf(b, h)
  BY DEF RoleParents
<1>2. h \in sharers
  BY <1>1 DEF SharersOf
<1>3. \E i \in DOMAIN order : order[i] \in sharers
  BY <1>1, <1>2 DEF HandlersIn
<1>4. f \in sharers
  <2> HIDE DEF sharers
  <2> QED
    BY <1>3, FirstIsMember
<1>5. f \in hs /\ role = RoleOf(b, f)
  BY <1>4 DEF SharersOf
<1>6. RoleParents(b, order)[role] = Role(b, sharers, f)
  BY DEF RoleParents
<1> HIDE DEF f, sharers
<1> QED
  BY <1>5, <1>6 DEF Role

LEMMA EmissionGrants == EmissionInv => LeastPrivilege
<1> SUFFICES ASSUME EmissionInv, phase = "done",
                    NEW n \in Functions,
                    NEW role \in emitted[n].refs \cap DOMAIN emitted,
                    emitted[role].type = "role"
             PROVE  Granted(role) = Needs(emitted[n].source)
  BY DEF LeastPrivilege
<1> DEFINE users == {f \in Functions : role \in emitted[f].refs}
           links == UNION {emitted[f].links : f \in users}
<1>1. /\ bp \in Blueprint
      /\ primaries \in Seq(Resources(bp))
      /\ HandlersIn(bp, primaries) \subseteq Handlers(bp)
  BY DEF EmissionInv, TypeOK, HandlersIn
<1>2. PICK h \in HandlersIn(bp, primaries) :
         n = FuncName(h) /\ emitted[n] = LambdaFunction(bp, h, manifest)
  BY DEF EmissionInv, FunctionsGenuine, Functions
<1>3. /\ role \in DOMAIN RoleParents(bp, primaries)
      /\ emitted[role] = RoleParents(bp, primaries)[role]
  BY DEF EmissionInv, RolesGenuine
<1>4. PICK f \in HandlersIn(bp, primaries) :
         /\ role = RoleOf(bp, f)
         /\ emitted[role].tracing = RolePlan(bp, f).tracing
         /\ emitted[role].readsStore = RolePlan(bp, f).readsStore
         /\ emitted[role].externalSources = RolePlan(bp, f).externalSources
  BY <1>1, <1>3, PlannedRole
<1> DEFINE plan == RolePlan(bp, f)
<1>5. ASSUME NEW u \in users
      PROVE  \E g \in HandlersIn(bp, primaries) :
                /\ emitted[u] = LambdaFunction(bp, g, manifest)
                /\ RolePlan(bp, g) = plan
  <2>1. PICK g \in HandlersIn(bp, primaries) :
           emitted[u] = LambdaFunction(bp, g, manifest)
    BY <1>5 DEF EmissionInv, FunctionsGenuine, Functions
  <2>2. RoleOf(bp, f) \in LambdaFunction(bp, g, manifest).refs
    BY <1>4, <1>5, <2>1
  <2>3. RoleOf(bp, f) = RoleOf(bp, g)
    BY <2>2, OneRoleReferenced DEF RoleOf
  <2> QED
    BY <1>1, <2>1, <2>3, SameRoleSamePlan
<1>6. n \in users
  OBVIOUS
<1>7. RolePlan(bp, h) = plan
  <2>1. RoleOf(bp, f) \in LambdaFunction(bp, h, manifest).refs
    BY <1>2, <1>4
  <2>2. RoleOf(bp, f) = RoleOf(bp, h)
    BY <2>1, OneRoleReferenced DEF RoleOf
  <2> QED
    BY <1>1, <2>2, SameRoleSamePlan
<1>8. ASSUME NEW u \in users
      PROVE  /\ {x \in emitted[u].links : bp.kind[x] \in BackingKind}
                   = Backings(bp, h)
             /\ {x \in emitted[u].links : bp.kind[x] \in {"consumer", "api"}}
                   = Consumers(bp, h) \cup Apis(bp, h)
             /\ emitted[u].vpc = bp.placement[h]
  <2>1. PICK g \in HandlersIn(bp, primaries) :
           /\ emitted[u] = LambdaFunction(bp, g, manifest)
           /\ RolePlan(bp, g) = RolePlan(bp, h)
    BY <1>5, <1>7, <1>8
  <2>2. emitted[u].vpc = bp.placement[g]
    BY <2>1 DEF LambdaFunction
  <2>3. RolePlan(bp, g).vpc = bp.placement[g] /\ RolePlan(bp, h).vpc = bp.placement[h]
    BY DEF RolePlan
  <2>4. /\ {x \in emitted[u].links : bp.kind[x] \in BackingKind} = Backings(bp, g)
        /\ {x \in emitted[u].links : bp.kind[x] \in {"consumer", "api"}}
              = Consumers(bp, g) \cup Apis(bp, g)
    BY <2>1, LinksOfPlan
  <2>5. /\ Backings(bp, g)
             = {x \in RolePlan(bp, g).links : bp.kind[x] \in BackingKind}
        /\ Backings(bp, h)
             = {x \in RolePlan(bp, h).links : bp.kind[x] \in BackingKind}
        /\ Consumers(bp, g) \cup Apis(bp, g)
             = {x \in RolePlan(bp, g).links : bp.kind[x] \in {"consumer", "api"}}
        /\ Consumers(bp, h) \cup Apis(bp, h)
             = {x \in RolePlan(bp, h).links : bp.kind[x] \in {"consumer", "api"}}
    BY LinksOfPlan
  <2> QED
    BY <2>1, <2>2, <2>3, <2>4, <2>5
<1> HIDE DEF users, plan
<1>9. {x \in links : bp.kind[x] \in BackingKind} = Backings(bp, h)
  BY <1>6, <1>8
<1>10. {x \in links : bp.kind[x] \in {"consumer", "api"}}
          = Consumers(bp, h) \cup Apis(bp, h)
  BY <1>6, <1>8
<1>11. {emitted[u].vpc : u \in users} = {bp.placement[h]}
  BY <1>6, <1>8
<1>12. /\ emitted[role].externalSources = ExternalSources(bp, h)
       /\ emitted[role].tracing = (h \in bp.tracing)
       /\ emitted[role].readsStore = HasResourceLinks(bp, h)
  <2>1. /\ RolePlan(bp, h).externalSources = ExternalSources(bp, h)
        /\ RolePlan(bp, h).tracing = (h \in bp.tracing)
        /\ RolePlan(bp, h).readsStore = HasResourceLinks(bp, h)
    BY DEF RolePlan
  <2> QED
    BY <1>4, <1>7, <2>1 DEF plan
<1>13. emitted[n].source = h
  BY <1>2 DEF LambdaFunction
<1>14. Granted(role) = [uses |-> {x \in links : bp.kind[x] \in BackingKind},
                        triggers |-> {x \in links :
                                        bp.kind[x] \in {"consumer", "api"}},
                        reads |-> emitted[role].externalSources,
                        tracing |-> emitted[role].tracing,
                        vpc |-> {emitted[u].vpc : u \in users} \ {"none"},
                        store |-> emitted[role].readsStore]
  BY DEF Granted, users
<1> QED
  BY <1>9, <1>10, <1>11, <1>12, <1>13, <1>14 DEF Needs

\* No run ends with a shared role that gives a function more, or less, than
\* the links, triggers, sources, tracing, network and store its handler has
\* (buildAWSRolePlan and what collectIAMRoles and the emitter make of it).
THEOREM SharedRolesAreExact == Spec => []LeastPrivilege
BY EmissionInit, EmissionNext, EmissionGrants, PTL DEF Spec
=============================================================================
