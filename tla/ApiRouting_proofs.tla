-------------------------- MODULE ApiRouting_proofs --------------------------
(***************************************************************************)
(* Routes, authorizers, APIs and domain mappings agree, for every set of   *)
(* APIs: what one emitter names and labels is what the other makes, in any *)
(* order of the two.                                                       *)
(***************************************************************************)
EXTENDS ApiRouting, TLAPS

-----------------------------------------------------------------------------
(* The inductive invariant.                                                *)

\* The guard a route of h ends up with.
RouteGuard(h) == IF StampsRouteAuth(h) THEN EffectiveGuard(h) ELSE Absent

\* The resources each emitter makes, from the API alone.
MadeFunction(n, r, h) ==
    /\ n = FunctionName(h) /\ r = Function(h, RouteGuard(h))
    /\ StampsRouteAuth(h) => GuardAuthorizationType(EffectiveGuard(h)) # Absent
MadeApi(n, r, p) ==
    \/ n = ApiName(p) /\ r = ProtocolApi(p)
    \/ n = StageName(p) /\ r = Stage(p)
MadeAuthorizer(n, r, g) ==
    /\ n = AuthorizerName(g) /\ "http" \in a.protocols
    /\ \/ a.guards[g].type = "jwt" /\ r = JwtAuthorizer
       \/ a.guards[g].type = "custom"
            /\ \E h \in Implementers(g) : r = CustomAuthorizer(g, h)
MadeForDomain(n, r) ==
    \/ n = DomainName /\ r = Domain
    \/ /\ ~KeysCollide
       /\ \E p \in a.protocols : \E i \in DOMAIN MappingKeys(p) :
            n = MappingName(p, i) /\ r = ApiMapping(p, i)
Made(n, r) ==
    \/ \E h \in Handlers : MadeFunction(n, r, h)
    \/ \E p \in a.protocols : MadeApi(n, r, p)
    \/ \E g \in Guards : MadeAuthorizer(n, r, g)
    \/ MadeForDomain(n, r)

\* Whatever has been emitted is what its own emitter computes.
ResourcesGenuine == \A n \in DOMAIN resources : Made(n, resources[n])

\* How far the API's emitter is: its APIs come first, its guards are all looked at
\* before its domain, and a guard looked at has an authorizer or is reported.
Progress ==
    /\ phase \in {"protocols", "authorizers", "done", "failed"}
    /\ guards \subseteq Guards
    /\ phase \in {"authorizers", "done"} =>
            \A p \in a.protocols : ApiName(p) \in DOMAIN resources
    /\ phase = "done" =>
            guards = {} \/ (a.protocols = {} /\ Warning("api") \in diagnostics)
    /\ \A g \in Guards \ guards :
            a.guards[g].type \in {"jwt", "custom", "deferred"} =>
                AuthorizerName(g) \in DOMAIN resources \/ Reported(g)
    /\ \A d \in diagnostics : d.level \in {"error", "warning"}

RoutingInv == a \in Api /\ ResourcesGenuine /\ Progress

-----------------------------------------------------------------------------
(* What emitting does to the resources.                                    *)

\* What is emitted replaces what was under its name; the rest stays as it is.
LEMMA EmitAdds ==
    ASSUME NEW new, Emit(new)
    PROVE  /\ DOMAIN resources' = DOMAIN resources \cup DOMAIN new
           /\ \A n \in DOMAIN new : resources'[n] = new[n]
           /\ \A n \in DOMAIN resources \ DOMAIN new : resources'[n] = resources[n]
BY DEF Emit

\* Names of different kinds differ, and within a kind by what they are made of.
LEMMA NamesApart ==
    /\ \A h, p : FunctionName(h) # ApiName(p)
    /\ \A h, p : FunctionName(h) # StageName(p)
    /\ \A h, g : FunctionName(h) # AuthorizerName(g)
    /\ \A h : FunctionName(h) # DomainName
    /\ \A h, p, i : FunctionName(h) # MappingName(p, i)
    /\ \A g, p : AuthorizerName(g) # ApiName(p)
    /\ \A g, p : AuthorizerName(g) # StageName(p)
    /\ \A g : AuthorizerName(g) # DomainName
    /\ \A g, p, i : AuthorizerName(g) # MappingName(p, i)
    /\ \A p : ApiName(p) # DomainName
    /\ \A p, q : ApiName(p) # StageName(q)
    /\ \A p, q, i : ApiName(p) # MappingName(q, i)
    /\ \A g, h : FunctionName(g) = FunctionName(h) => g = h
    /\ \A g, h : AuthorizerName(g) = AuthorizerName(h) => g = h
    /\ \A p, q : ApiName(p) = ApiName(q) => p = q
BY DEF FunctionName, ApiName, StageName, AuthorizerName, DomainName, MappingName

\* What each emitter computes depends on the API alone, which does not change.
LEMMA ApiFixed ==
    ASSUME a' = a
    PROVE  /\ Guards' = Guards /\ Handlers' = Handlers
           /\ \A n, r : Made(n, r) => Made(n, r)'
<1>1. /\ Guards' = Guards /\ Handlers' = Handlers /\ DefaultGuards' = DefaultGuards
      /\ AuthorizerTarget' = AuthorizerTarget
  BY DEF Guards, Handlers, DefaultGuards, AuthorizerTarget
<1>2. \A h : /\ EffectiveGuard(h)' = EffectiveGuard(h)
             /\ StampsRouteAuth(h)' <=> StampsRouteAuth(h)
             /\ RouteGuard(h)' = RouteGuard(h)
  BY <1>1 DEF EffectiveGuard, StampsRouteAuth, RouteGuard
<1>3. \A g : /\ GuardAuthorizationType(g)' = GuardAuthorizationType(g)
             /\ Implementers(g)' = Implementers(g)
  BY <1>1 DEF GuardAuthorizationType, Implementers
<1>4. \A h, g : Function(h, g)' = Function(h, g)
  BY <1>3 DEF Function, FunctionLabels
<1>5. /\ JwtAuthorizer' = JwtAuthorizer
      /\ \A g, h : CustomAuthorizer(g, h)' = CustomAuthorizer(g, h)
      /\ \A p : ProtocolApi(p)' = ProtocolApi(p) /\ Stage(p)' = Stage(p)
  BY <1>1 DEF JwtAuthorizer, CustomAuthorizer, ProtocolApi, Stage
<1>6. \A p : MappingKeys(p)' = MappingKeys(p)
  BY DEF MappingKeys, MappingKey
<1>7. /\ KeysCollide' <=> KeysCollide
      /\ \A p, i : ApiMapping(p, i)' = ApiMapping(p, i)
  BY <1>6 DEF KeysCollide, ApiMapping
<1>8. ASSUME NEW n, NEW r, NEW h, MadeFunction(n, r, h)
      PROVE  MadeFunction(n, r, h)'
  BY <1>2, <1>3, <1>4, <1>8 DEF MadeFunction
<1>9. ASSUME NEW n, NEW r, NEW g, MadeAuthorizer(n, r, g)
      PROVE  MadeAuthorizer(n, r, g)'
  BY <1>3, <1>5, <1>9 DEF MadeAuthorizer
<1>10. ASSUME NEW n, NEW r, MadeForDomain(n, r)
       PROVE  MadeForDomain(n, r)'
  BY <1>6, <1>7, <1>10 DEF MadeForDomain, Domain
<1>11. ASSUME NEW n, NEW r, NEW p, MadeApi(n, r, p)
       PROVE  MadeApi(n, r, p)'
  BY <1>5, <1>11 DEF MadeApi
<1> QED BY <1>1, <1>8, <1>9, <1>10, <1>11 DEF Made

\* The resources stay genuine under a step that emits what its emitter computes.
LEMMA EmitGenuine ==
    ASSUME ResourcesGenuine, a' = a, NEW new, Emit(new),
           \A n \in DOMAIN new : Made(n, new[n])
    PROVE  ResourcesGenuine'
<1>1. \A n \in DOMAIN resources' : Made(n, resources'[n])
  BY EmitAdds DEF ResourcesGenuine
<1> QED BY <1>1, ApiFixed DEF ResourcesGenuine

LEMMA SkipGenuine ==
    ASSUME ResourcesGenuine, a' = a, resources' = resources
    PROVE  ResourcesGenuine'
BY ApiFixed DEF ResourcesGenuine

-----------------------------------------------------------------------------
(* The steps.                                                              *)

LEMMA EmitProtocolApisStep ==
    ASSUME RoutingInv, EmitProtocolApis
    PROVE  RoutingInv'
<1> DEFINE names == {ApiName(p) : p \in a.protocols} \cup {StageName(p) : p \in a.protocols}
           new == [n \in names |-> IF n[1] = "api" THEN ProtocolApi(n[2]) ELSE Stage(n[2])]
<1>1. a' = a /\ guards' = guards /\ Emit(new)
  BY DEF EmitProtocolApis
<1>2. ASSUME NEW n \in DOMAIN new
      PROVE  Made(n, new[n])
  <2>1. PICK p \in a.protocols : n = ApiName(p) \/ n = StageName(p)
    OBVIOUS
  <2>2. MadeApi(n, new[n], p)
    BY <2>1 DEF MadeApi, ApiName, StageName
  <2> QED BY <2>2 DEF Made
<1>3. \A p \in a.protocols : ApiName(p) \in DOMAIN new
  OBVIOUS
<1> HIDE DEF new
<1>4. ResourcesGenuine'
  BY <1>1, <1>2, EmitGenuine DEF RoutingInv
<1>5. \A p \in a.protocols : ApiName(p) \in DOMAIN resources'
  BY <1>1, <1>3, EmitAdds
<1>6. DOMAIN resources \subseteq DOMAIN resources'
  BY <1>1, EmitAdds
<1>7. Progress'
  <2>1. /\ phase' \in {"authorizers", "done"}
        /\ phase' = "done" => a.protocols = {} /\ Warning("api") \in diagnostics'
        /\ diagnostics \subseteq diagnostics'
        /\ \A d \in diagnostics' \ diagnostics : d = Warning("api")
    BY DEF EmitProtocolApis
  <2>2. \A d \in diagnostics' : d.level \in {"error", "warning"}
    BY <2>1 DEF RoutingInv, Progress, Warning
  <2>3. \A g \in Guards \ guards : a.guards[g].type \in {"jwt", "custom", "deferred"} =>
            AuthorizerName(g) \in DOMAIN resources' \/ \E d \in diagnostics' : d.about = g
    BY <1>6, <2>1 DEF RoutingInv, Progress, Reported
  <2> QED BY <1>1, <1>5, <2>1, <2>2, <2>3, ApiFixed DEF RoutingInv, Progress, Reported
<1> QED BY <1>1, <1>4, <1>7 DEF RoutingInv

\* A guard that is looked at gets an authorizer of its own type, or a report.
LEMMA GuardSettled ==
    ASSUME RoutingInv, NEW guard \in Guards, EmitAuthorizer(guard)
    PROVE  /\ ResourcesGenuine'
           /\ DOMAIN resources \subseteq DOMAIN resources'
           /\ diagnostics \subseteq diagnostics'
           /\ \A d \in diagnostics' : d.level \in {"error", "warning"}
           /\ a.guards[guard].type \in {"jwt", "custom", "deferred"} =>
                AuthorizerName(guard) \in DOMAIN resources'
                    \/ \E d \in diagnostics' : d.about = guard
<1>1. a' = a
  BY DEF EmitAuthorizer
<1>2. ASSUME NEW x \in {Warning(guard), Error(guard)}, Skip(x)
      PROVE  /\ resources' = resources
             /\ diagnostics \subseteq diagnostics'
             /\ \A d \in diagnostics' : d.level \in {"error", "warning"}
             /\ \E d \in diagnostics' : d.about = guard
  <2>1. x.level \in {"error", "warning"} /\ x.about = guard
    BY <1>2 DEF Warning, Error
  <2>2. diagnostics' = diagnostics \cup {x} /\ resources' = resources
    BY <1>2 DEF Skip
  <2> QED BY <2>1, <2>2 DEF RoutingInv, Progress
<1>3. CASE Skip(Warning(guard)) \/ Skip(Error(guard))
  BY <1>1, <1>2, <1>3, SkipGenuine DEF RoutingInv
<1>4. CASE /\ UNCHANGED <<resources, diagnostics>>
           /\ a.guards[guard].type \notin {"jwt", "custom", "deferred"}
  BY <1>1, <1>4, SkipGenuine DEF RoutingInv, Progress
<1>5. ASSUME NEW resource, EmitOne(AuthorizerName(guard), resource),
             diagnostics' = diagnostics,
             MadeAuthorizer(AuthorizerName(guard), resource, guard)
      PROVE  /\ ResourcesGenuine'
             /\ DOMAIN resources \subseteq DOMAIN resources'
             /\ AuthorizerName(guard) \in DOMAIN resources'
             /\ diagnostics \subseteq diagnostics'
             /\ \A d \in diagnostics' : d.level \in {"error", "warning"}
  <2> DEFINE new == [n \in {AuthorizerName(guard)} |-> resource]
  <2>1. Emit(new)
    BY <1>5 DEF EmitOne
  <2>2. \A n \in DOMAIN new : Made(n, new[n])
    BY <1>5 DEF Made
  <2>3. AuthorizerName(guard) \in DOMAIN new
    OBVIOUS
  <2> HIDE DEF new
  <2> QED BY <1>1, <1>5, <2>1, <2>2, <2>3, EmitGenuine, EmitAdds DEF RoutingInv, Progress
<1>6. CASE /\ "http" \in a.protocols /\ a.guards[guard].type = "jwt"
           /\ EmitOne(AuthorizerName(guard), JwtAuthorizer) /\ UNCHANGED diagnostics
  BY <1>5, <1>6 DEF MadeAuthorizer
<1>7. ASSUME "http" \in a.protocols, a.guards[guard].type = "custom",
             NEW h \in Implementers(guard),
             EmitOne(AuthorizerName(guard), CustomAuthorizer(guard, h)),
             UNCHANGED diagnostics
      PROVE  /\ ResourcesGenuine'
             /\ DOMAIN resources \subseteq DOMAIN resources'
             /\ AuthorizerName(guard) \in DOMAIN resources'
             /\ diagnostics \subseteq diagnostics'
             /\ \A d \in diagnostics' : d.level \in {"error", "warning"}
  BY <1>5, <1>7 DEF MadeAuthorizer
<1> QED BY <1>3, <1>4, <1>6, <1>7
       DEF EmitAuthorizer, EmitJwtAuthorizer, EmitCustomAuthorizer

LEMMA EmitAuthorizerStep ==
    ASSUME RoutingInv, NEW guard \in Guards, EmitAuthorizer(guard)
    PROVE  RoutingInv'
<1>1. a' = a /\ phase' = phase /\ phase = "authorizers" /\ guards' = guards \ {guard}
  BY DEF EmitAuthorizer
<1>2. \A g \in Guards \ guards' : a.guards[g].type \in {"jwt", "custom", "deferred"} =>
            AuthorizerName(g) \in DOMAIN resources' \/ \E d \in diagnostics' : d.about = g
  BY <1>1, GuardSettled DEF RoutingInv, Progress, Reported
<1>3. Progress'
  BY <1>1, <1>2, GuardSettled, ApiFixed DEF RoutingInv, Progress, Reported
<1> QED BY <1>1, <1>3, GuardSettled DEF RoutingInv

LEMMA EmitDomainStep ==
    ASSUME RoutingInv, EmitDomain
    PROVE  RoutingInv'
<1> DEFINE new == [n \in {DomainName} \cup ApiMappings |->
                     IF n = DomainName THEN Domain ELSE ApiMapping(n[2], n[3])]
<1>1. /\ a' = a /\ phase = "authorizers" /\ phase' = "done" /\ guards = {} /\ guards' = {}
      /\ resources' = resources \/ Emit(new)
      /\ diagnostics \subseteq diagnostics'
      /\ \A d \in diagnostics' : d \in diagnostics \/ d = Error("domain")
  BY DEF EmitDomain
<1>2. ASSUME NEW n \in DOMAIN new
      PROVE  Made(n, new[n])
  <2>1. CASE n = DomainName
    BY <2>1 DEF Made, MadeForDomain
  <2>2. CASE n # DomainName
    <3>1. n \in ApiMappings /\ new[n] = ApiMapping(n[2], n[3]) /\ ~KeysCollide
      BY <2>2 DEF ApiMappings
    <3>2. PICK p \in a.protocols :
             \E i \in DOMAIN MappingKeys(p) : n = MappingName(p, i)
      BY <3>1 DEF ApiMappings
    <3>3. \A i : n = MappingName(p, i) => n[2] = p /\ n[3] = i
      BY DEF MappingName
    <3> HIDE DEF new
    <3> QED BY <3>1, <3>2, <3>3 DEF Made, MadeForDomain
  <2> QED BY <2>1, <2>2
<1> HIDE DEF new
<1>3. ResourcesGenuine' /\ DOMAIN resources \subseteq DOMAIN resources'
  BY <1>1, <1>2, EmitGenuine, SkipGenuine, EmitAdds DEF RoutingInv
<1>4. Progress'
  <2>1. \A d \in diagnostics' : d.level \in {"error", "warning"}
    BY <1>1 DEF RoutingInv, Progress, Error
  <2>2. \A g \in Guards \ guards' : a.guards[g].type \in {"jwt", "custom", "deferred"} =>
            AuthorizerName(g) \in DOMAIN resources' \/ \E d \in diagnostics' : d.about = g
    BY <1>1, <1>3 DEF RoutingInv, Progress, Reported
  <2> QED BY <1>1, <1>3, <2>1, <2>2, ApiFixed DEF RoutingInv, Progress, Reported
<1> QED BY <1>1, <1>3, <1>4 DEF RoutingInv

LEMMA EmitHandlerStep ==
    ASSUME RoutingInv, NEW h \in Handlers, EmitHandler(h)
    PROVE  RoutingInv'
<1> DEFINE new == [n \in {FunctionName(h)} |-> Function(h, RouteGuard(h))]
<1>1. a' = a /\ guards' = guards /\ diagnostics' = diagnostics /\ phase # "failed"
  BY DEF EmitHandler
<1>2. \/ phase' = "failed" /\ resources' = resources
      \/ /\ phase' = phase /\ Emit(new)
         /\ StampsRouteAuth(h) => GuardAuthorizationType(EffectiveGuard(h)) # Absent
  BY DEF EmitHandler, EmitGuarded, EmitFunction, EmitOne, RouteGuard
<1>3. Emit(new) /\ (StampsRouteAuth(h) => GuardAuthorizationType(EffectiveGuard(h)) # Absent)
        => \A n \in DOMAIN new : Made(n, new[n])
  BY DEF Made, MadeFunction
<1> HIDE DEF new
<1>4. ResourcesGenuine' /\ DOMAIN resources \subseteq DOMAIN resources'
  BY <1>1, <1>2, <1>3, EmitGenuine, SkipGenuine, EmitAdds DEF RoutingInv
<1>5. Progress'
  BY <1>1, <1>2, <1>4, ApiFixed DEF RoutingInv, Progress, Reported
<1> QED BY <1>1, <1>4, <1>5 DEF RoutingInv
-----------------------------------------------------------------------------
(* What the invariant says of a finished run.                              *)

LEMMA RoutingInductive == RoutingInv /\ [Next]_vars => RoutingInv'
<1> SUFFICES ASSUME RoutingInv, [Next]_vars
             PROVE  RoutingInv'
  OBVIOUS
<1>1. CASE EmitProtocolApis
  BY <1>1, EmitProtocolApisStep
<1>2. ASSUME NEW guard \in Guards, EmitAuthorizer(guard)
      PROVE  RoutingInv'
  BY <1>2, EmitAuthorizerStep
<1>3. CASE EmitDomain
  BY <1>3, EmitDomainStep
<1>4. ASSUME NEW h \in Handlers, EmitHandler(h)
      PROVE  RoutingInv'
  BY <1>4, EmitHandlerStep
<1>5. CASE UNCHANGED vars
  <2>1. ResourcesGenuine'
    BY <1>5, SkipGenuine DEF vars, RoutingInv
  <2>2. Progress'
    BY <1>5, ApiFixed DEF vars, RoutingInv, Progress, Reported
  <2> QED BY <1>5, <2>1, <2>2 DEF vars, RoutingInv
<1> QED BY <1>1, <1>2, <1>3, <1>4, <1>5 DEF Next, Step, Finished

\* A resource is the one its name is of.
LEMMA FunctionMade ==
    ASSUME RoutingInv, NEW h \in Handlers, FunctionName(h) \in DOMAIN resources
    PROVE  MadeFunction(FunctionName(h), resources[FunctionName(h)], h)
BY NamesApart DEF RoutingInv, ResourcesGenuine, Made, MadeFunction, MadeApi,
       MadeAuthorizer, MadeForDomain

LEMMA AuthorizerMade ==
    ASSUME RoutingInv, NEW g, AuthorizerName(g) \in DOMAIN resources
    PROVE  g \in Guards /\ MadeAuthorizer(AuthorizerName(g), resources[AuthorizerName(g)], g)
BY NamesApart DEF RoutingInv, ResourcesGenuine, Made, MadeFunction, MadeApi,
       MadeAuthorizer, MadeForDomain

\* It is of its guard's kind, and on the HTTP API.
LEMMA AuthorizerKind ==
    ASSUME NEW n, NEW r, NEW g \in Guards, MadeAuthorizer(n, r, g)
    PROVE  r.kind = GuardAuthorizationType(g) /\ r.api = ApiName("http")
<1>1. AuthorizerTarget = ApiName("http")
  BY DEF MadeAuthorizer, AuthorizerTarget
<1>2. CASE a.guards[g].type = "jwt" /\ r = JwtAuthorizer
  <2>1. r.kind = "JWT" /\ r.api = AuthorizerTarget
    BY <1>2 DEF JwtAuthorizer
  <2> QED BY <1>1, <1>2, <2>1 DEF GuardAuthorizationType
<1>3. ASSUME a.guards[g].type = "custom", NEW h, r = CustomAuthorizer(g, h)
      PROVE  r.kind = GuardAuthorizationType(g) /\ r.api = ApiName("http")
  <2>1. r.kind = "CUSTOM" /\ r.api = AuthorizerTarget
    BY <1>3 DEF CustomAuthorizer
  <2> QED BY <1>1, <1>3, <2>1 DEF GuardAuthorizationType
<1> QED BY <1>2, <1>3 DEF MadeAuthorizer

LEMMA ApiMade ==
    ASSUME RoutingInv, NEW p, ApiName(p) \in DOMAIN resources
    PROVE  p \in a.protocols /\ resources[ApiName(p)] = ProtocolApi(p)
BY NamesApart DEF RoutingInv, ResourcesGenuine, Made, MadeFunction, MadeApi,
       MadeAuthorizer, MadeForDomain

\* Of the resources only functions, authorizers and mappings have their types.
LEMMA TypesMade ==
    ASSUME NEW n, NEW r, Made(n, r)
    PROVE  /\ r.type \in {"api", "stage", "authorizer", "domainName", "apiMapping",
                          "function"}
           /\ r.type = "function" => \E h \in Handlers : MadeFunction(n, r, h)
           /\ r.type = "authorizer" => \E g \in Guards : MadeAuthorizer(n, r, g)
           /\ r.type = "apiMapping" => n # DomainName /\ MadeForDomain(n, r)
<1>1. \A h : MadeFunction(n, r, h) => r.type = "function"
  BY DEF MadeFunction, Function
<1>2. \A p : MadeApi(n, r, p) => r.type \in {"api", "stage"}
  BY DEF MadeApi, ProtocolApi, Stage
<1>3. \A g : MadeAuthorizer(n, r, g) => r.type = "authorizer"
  BY DEF MadeAuthorizer, JwtAuthorizer, CustomAuthorizer
<1>4. MadeForDomain(n, r) =>
        \/ n = DomainName /\ r.type = "domainName"
        \/ n # DomainName /\ r.type = "apiMapping"
  BY DEF MadeForDomain, Domain, ApiMapping, DomainName, MappingName
<1> QED BY <1>1, <1>2, <1>3, <1>4 DEF Made

-----------------------------------------------------------------------------
(* The theorems.                                                           *)

\* At every moment each resource that has been emitted is the one its own emitter
\* computes from the API alone, and the API's emitter has settled each guard it
\* has looked at (EmitResult of the API, emitHandler of the handlers).
THEOREM EmittedIsGenuine == Spec => []RoutingInv
<1>1. ASSUME Init PROVE RoutingInv
  BY <1>1 DEF Init, RoutingInv, ResourcesGenuine, Progress
<1> QED BY <1>1, RoutingInductive, PTL DEF Spec

\* In every run the variables keep their types.
THEOREM ApiTypeCorrect == Spec => []TypeOK
<1>1. ASSUME RoutingInv PROVE TypeOK
  <2>1. ASSUME NEW n \in DOMAIN resources, resources[n].type = "function"
        PROVE  resources[n].authorization \in {"JWT", "CUSTOM", Absent}
    BY <1>1, <2>1, TypesMade DEF RoutingInv, ResourcesGenuine, MadeFunction, Function,
       GuardAuthorizationType
  <2> QED BY <1>1, <2>1, TypesMade DEF RoutingInv, ResourcesGenuine, Progress, TypeOK
<1> QED BY <1>1, EmittedIsGenuine, PTL

\* For every set of APIs, a concrete API selects exactly the handlers that serve its
\* protocol: of a hybrid API neither half builds a route from the other's handler.
THEOREM RoutesKeepToTheirProtocol == Spec => []RoutesOnOwnProtocol
<1>1. ASSUME RoutingInv PROVE RoutesOnOwnProtocol
  <2> SUFFICES ASSUME Done, NEW p \in a.protocols, NEW h \in Handlers
               PROVE  Selects(ApiName(p), FunctionName(h)) <=> a.handlers[h].serves = p
    BY DEF RoutesOnOwnProtocol
  <2>1. p \in Protocol
    BY <1>1, ApiShape DEF RoutingInv
  <2>2. resources[ApiName(p)].selector = {ApiTarget(p)}
    BY <1>1, ApiMade DEF Done, RoutingInv, Progress, ProtocolApi,
       ProtocolScopedLinkSelector
  <2>3. resources[FunctionName(h)].labels = FunctionLabels(h)
    BY <1>1, FunctionMade DEF Done, MadeFunction, Function
  <2>4. ApiTarget(p) \in FunctionLabels(h) <=> a.handlers[h].serves = p
    BY <2>1 DEF FunctionLabels, ApiTarget, GuardTarget, AuthorLabel
  <2> QED BY <2>2, <2>3, <2>4 DEF Selects
<1> QED BY <1>1, EmittedIsGenuine, PTL

\* A chain of guards that is not empty begins with one of them.
LEMMA FirstOfChain ==
    ASSUME NEW chain, IsChain(chain)
    PROVE  /\ chain # <<>> => chain[1] \in ToSet(chain) /\ chain[1] # Absent
           /\ chain = <<>> <=> ToSet(chain) = {}
<1>1. chain \in Seq(ToSet(chain)) /\ Absent \notin ToSet(chain)
  BY DEF IsChain
<1>2. ASSUME chain # <<>> PROVE chain[1] \in ToSet(chain)
  <2>1. 1 \in DOMAIN chain
    BY <1>1, <1>2
  <2> QED BY <2>1 DEF ToSet
<1>3. ASSUME chain = <<>> PROVE ToSet(chain) = {}
  BY <1>3 DEF ToSet
<1> QED BY <1>1, <1>2, <1>3

\* The emitter's guard is one of the documents', and there is none where they have
\* none; but for a listed default there is one where they have one.
LEMMA GuardIsDocumented ==
    ASSUME RoutingInv, NEW h \in Handlers
    PROVE  /\ StampsRouteAuth(h) => EffectiveGuard(h) \in Protectors(h)
           /\ Protectors(h) # {} => StampsRouteAuth(h) \/ ByListedDefault(h)
<1> DEFINE own == a.handlers[h].protectedBy
           open == a.handlers[h].serves # "http" \/ a.handlers[h].public
<1>1. IsChain(own) /\ IsChain(a.defaultGuard)
  BY ApiShape DEF RoutingInv, Handlers
<1>2. CASE open
  <2>1. ~StampsRouteAuth(h)
    BY <1>2 DEF StampsRouteAuth
  <2>2. Protectors(h) = {}
    BY <1>2, Zenon DEF Protectors
  <2> QED BY <2>1, <2>2
<1>3. CASE ~open /\ own # <<>>
  <2>1. Protectors(h) = ToSet(own)
    BY <1>3, Zenon DEF Protectors
  <2>2. EffectiveGuard(h) = own[1]
    BY <1>3 DEF EffectiveGuard
  <2>3. own[1] \in ToSet(own) /\ own[1] # Absent
    BY <1>1, <1>3, FirstOfChain
  <2>4. StampsRouteAuth(h)
    BY <1>3, <2>2, <2>3 DEF StampsRouteAuth
  <2> QED BY <2>1, <2>2, <2>3, <2>4
<1>4. CASE ~open /\ own = <<>>
  <2>1. Protectors(h) = ToSet(a.defaultGuard)
    BY <1>4, Zenon DEF Protectors
  <2>2. CASE a.listed
    <3>1. EffectiveGuard(h) = Absent
      BY <1>4, <2>2 DEF EffectiveGuard, DefaultGuards
    <3> QED BY <1>4, <2>2, <3>1 DEF StampsRouteAuth, ByListedDefault
  <2>3. CASE ~a.listed /\ a.defaultGuard = <<>>
    <3>1. EffectiveGuard(h) = Absent
      BY <1>4, <2>3 DEF EffectiveGuard, DefaultGuards
    <3>2. ToSet(a.defaultGuard) = {}
      BY <1>1, <2>3, FirstOfChain
    <3> QED BY <2>1, <3>1, <3>2 DEF StampsRouteAuth
  <2>4. CASE ~a.listed /\ a.defaultGuard # <<>>
    <3>1. EffectiveGuard(h) = a.defaultGuard[1]
      BY <1>4, <2>4 DEF EffectiveGuard, DefaultGuards
    <3>2. a.defaultGuard[1] \in ToSet(a.defaultGuard) /\ a.defaultGuard[1] # Absent
      BY <1>1, <2>4, FirstOfChain
    <3>3. StampsRouteAuth(h)
      BY <1>4, <3>1, <3>2 DEF StampsRouteAuth
    <3> QED BY <2>1, <3>1, <3>2, <3>3
  <2> QED BY <2>2, <2>3, <2>4
<1> QED BY <1>2, <1>3, <1>4

\* For every set of APIs, a route that has a guard by the documents, its handler's or
\* the API's default, but for a default given as a list, is wired to the authorizer of
\* such a guard; one that has none is open (stampRouteAuth, effectiveGuard).
THEOREM RoutesStayGuarded == Spec => []GuardedRoutesStayGuarded
<1>1. ASSUME RoutingInv PROVE GuardedRoutesStayGuarded
  <2> SUFFICES ASSUME Done, NEW h \in Handlers
               PROVE  IF Protectors(h) = {}
                      THEN Route(h).guard = Absent /\ Route(h).refs = {}
                      ELSE \/ ByListedDefault(h)
                           \/ /\ Route(h).guard \in Protectors(h) \cap Guards
                              /\ Route(h).refs = {AuthorizerName(Route(h).guard)}
                              /\ Route(h).authorization \in {"JWT", "CUSTOM"}
    BY DEF GuardedRoutesStayGuarded
  <2> DEFINE g == EffectiveGuard(h)
  <2>1. MadeFunction(FunctionName(h), Route(h), h)
    BY <1>1, FunctionMade DEF Route, Done
  <2>2. /\ StampsRouteAuth(h) => g \in Protectors(h)
        /\ Protectors(h) # {} => StampsRouteAuth(h) \/ ByListedDefault(h)
    BY <1>1, GuardIsDocumented
  <2>3. CASE ~StampsRouteAuth(h)
    <3>1. Route(h) = Function(h, Absent)
      BY <2>1, <2>3 DEF MadeFunction, RouteGuard
    <3>2. Route(h).guard = Absent /\ Route(h).refs = {}
      BY <3>1 DEF Function
    <3> QED BY <2>2, <2>3, <3>2
  <2>4. CASE StampsRouteAuth(h)
    <3>1. Route(h) = Function(h, g) /\ GuardAuthorizationType(g) # Absent
      BY <2>1, <2>4 DEF MadeFunction, RouteGuard
    <3>2. g # Absent
      BY <2>4 DEF StampsRouteAuth
    <3> HIDE DEF g
    <3>3. /\ Route(h).guard = g /\ Route(h).refs = {AuthorizerName(g)}
          /\ Route(h).authorization = GuardAuthorizationType(g)
      BY <3>1, <3>2 DEF Function
    <3>4. g \in Guards /\ GuardAuthorizationType(g) \in {"JWT", "CUSTOM"}
      BY <3>1 DEF GuardAuthorizationType
    <3> QED BY <2>2, <2>4, <3>3, <3>4
  <2> QED BY <2>3, <2>4
<1> QED BY <1>1, EmittedIsGenuine, PTL

\* For every set of APIs and in every order of the emitters, a route's authorization
\* type is its authorizer's kind, and the route is on the API the authorizer is on.
THEOREM RoutesFitAuthorizers == Spec => []AuthorizersFitRoutes
<1>1. ASSUME RoutingInv PROVE AuthorizersFitRoutes
  <2> SUFFICES ASSUME NEW h \in Handlers,
                      FunctionName(h) \in DOMAIN resources, Route(h).guard # Absent,
                      AuthorizerName(Route(h).guard) \in DOMAIN resources
               PROVE  LET authorizer == resources[AuthorizerName(Route(h).guard)]
                      IN  /\ authorizer.kind = Route(h).authorization
                          /\ authorizer.api \in DOMAIN resources
                                 => Selects(authorizer.api, FunctionName(h))
    BY DEF AuthorizersFitRoutes
  <2> DEFINE g == EffectiveGuard(h)
             authorizer == resources[AuthorizerName(g)]
  <2>1. MadeFunction(FunctionName(h), Route(h), h)
    BY <1>1, FunctionMade DEF Route
  <2>2. /\ StampsRouteAuth(h) /\ Route(h) = Function(h, g) /\ Route(h).guard = g
        /\ Route(h).authorization = GuardAuthorizationType(g) /\ g # Absent
    BY <2>1 DEF MadeFunction, RouteGuard, Function
  <2> HIDE DEF g
  <2>3. g \in Guards /\ MadeAuthorizer(AuthorizerName(g), authorizer, g)
    BY <1>1, <2>2, AuthorizerMade
  <2>4. authorizer.kind = GuardAuthorizationType(g) /\ authorizer.api = ApiName("http")
    BY <2>3, AuthorizerKind
  <2>5. ASSUME ApiName("http") \in DOMAIN resources
        PROVE  Selects(ApiName("http"), FunctionName(h))
    <3>1. resources[ApiName("http")].selector = {ApiTarget("http")}
      BY <1>1, <2>5, ApiMade DEF ProtocolApi, ProtocolScopedLinkSelector
    <3>2. ApiTarget("http") \in Route(h).labels
      BY <2>2 DEF StampsRouteAuth, Function, FunctionLabels, Protocol
    <3> QED BY <3>1, <3>2 DEF Selects, Route
  <2> QED BY <2>2, <2>4, <2>5
<1> QED BY <1>1, EmittedIsGenuine, PTL

\* For every set of APIs, whichever of two implementers of a guard is taken, the link
\* selector of the authorizer selects the very function its URI invokes.
THEOREM GuardsCanBeInvoked == Spec => []GuardsAreInvocable
<1>1. ASSUME RoutingInv PROVE GuardsAreInvocable
  <2> SUFFICES ASSUME Done, NEW n \in OfType("authorizer"), resources[n].kind = "CUSTOM"
               PROVE  Selects(n, resources[n].function)
    BY DEF GuardsAreInvocable
  <2>1. PICK g \in Guards : MadeAuthorizer(n, resources[n], g)
    BY <1>1, TypesMade DEF OfType, RoutingInv, ResourcesGenuine
  <2>2. PICK h \in Implementers(g) : resources[n] = CustomAuthorizer(g, h)
    BY <2>1 DEF MadeAuthorizer, JwtAuthorizer
  <2>3. g # Absent
    BY <1>1, ApiShape DEF RoutingInv, Guards
  <2>4. h \in Handlers /\ GuardTarget(g) \in FunctionLabels(h)
    BY <2>3 DEF Implementers, FunctionLabels
  <2>5. GuardTarget(g) \in resources[FunctionName(h)].labels
    BY <1>1, <2>4, FunctionMade DEF Done, MadeFunction, Function
  <2> QED BY <2>2, <2>5 DEF Selects, CustomAuthorizer
<1> QED BY <1>1, EmittedIsGenuine, PTL

\* For every set of APIs, a route whose authorizer was not emitted (an incomplete or
\* deferred guard, no implementer, no HTTP API) leaves a diagnostic about the guard
\* or the API.
THEOREM DanglingGuardsAreReported == Spec => []DanglingIsReported
<1>1. ASSUME RoutingInv PROVE DanglingIsReported
  <2> SUFFICES ASSUME Done, NEW h \in Handlers, NEW n \in Route(h).refs
               PROVE  \/ n \in DOMAIN resources
                      \/ Reported(Route(h).guard) \/ Reported("api")
    BY DEF DanglingIsReported
  <2> DEFINE g == EffectiveGuard(h)
  <2>1. MadeFunction(FunctionName(h), Route(h), h)
    BY <1>1, FunctionMade DEF Route, Done
  <2>2. /\ StampsRouteAuth(h) /\ Route(h).guard = g /\ n = AuthorizerName(g)
        /\ GuardAuthorizationType(g) # Absent
    BY <2>1 DEF MadeFunction, RouteGuard, Function
  <2> HIDE DEF g
  <2>3. g \in Guards /\ a.guards[g].type \in {"jwt", "custom"}
    BY <2>2 DEF GuardAuthorizationType
  <2>4. CASE guards = {}
    BY <1>1, <2>2, <2>3, <2>4 DEF RoutingInv, Progress
  <2>5. CASE Warning("api") \in diagnostics
    BY <2>5 DEF Reported, Warning
  <2> QED BY <1>1, <2>4, <2>5 DEF Done, RoutingInv, Progress
<1> QED BY <1>1, EmittedIsGenuine, PTL

\* For every set of APIs, a custom domain never maps both protocols at one base path.
THEOREM MappingsStayApart == Spec => []MappingKeysApart
<1>1. ASSUME RoutingInv PROVE MappingKeysApart
  <2> SUFFICES ASSUME NEW m \in OfType("apiMapping"), NEW n \in OfType("apiMapping"),
                      resources[m].api # resources[n].api
               PROVE  resources[m].key # resources[n].key
    BY DEF MappingKeysApart
  <2>1. ASSUME NEW x \in OfType("apiMapping")
        PROVE  /\ ~KeysCollide
               /\ \E p \in a.protocols : /\ resources[x].api = ApiName(p)
                                        /\ resources[x].key \in ToSet(MappingKeys(p))
    <3>1. x # DomainName /\ MadeForDomain(x, resources[x])
      BY <1>1, TypesMade DEF OfType, RoutingInv, ResourcesGenuine
    <3>2. ~KeysCollide
      BY <3>1 DEF MadeForDomain
    <3>3. PICK p \in a.protocols :
             \E i \in DOMAIN MappingKeys(p) : resources[x] = ApiMapping(p, i)
      BY <3>1 DEF MadeForDomain
    <3> QED BY <3>2, <3>3 DEF ApiMapping, ToSet
  <2>2. PICK p \in a.protocols : /\ resources[m].api = ApiName(p)
                                 /\ resources[m].key \in ToSet(MappingKeys(p))
    BY <2>1
  <2>3. PICK q \in a.protocols : /\ resources[n].api = ApiName(q)
                                 /\ resources[n].key \in ToSet(MappingKeys(q))
    BY <2>1
  <2>4. a.protocols = Protocol /\ {p, q} = {"http", "websocket"}
    BY <1>1, <2>2, <2>3, ApiShape DEF RoutingInv, Protocol
  <2> QED BY <2>1, <2>2, <2>3, <2>4 DEF KeysCollide
<1> QED BY <1>1, EmittedIsGenuine, PTL
=============================================================================
