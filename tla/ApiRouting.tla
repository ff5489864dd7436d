----------------------------- MODULE ApiRouting -----------------------------
(***************************************************************************)
(* An API and the handlers linked to it. The API's emitter makes a         *)
(* concrete API and stage per protocol, an authorizer per guard and the    *)
(* mappings of its domain; each handler's emitter makes a function and     *)
(* pairs it, by label and by name, with an API and an authorizer that it   *)
(* does not emit itself. The emitters run in any order.                    *)
(*                                                                         *)
(* An api a is a record:                                                   *)
(*   protocols    the protocols it declares                                *)
(*   guards       guard -> [type, complete]; "deferred" is a reference,    *)
(*                complete says a jwt guard has all its required fields    *)
(*   defaultGuard the sequence of its default guards, of one if a string   *)
(*   listed       whether that is given as a list rather than one string   *)
(*   region       whether the run has a deployment region                  *)
(*   basePaths    Absent without a domain, else a sequence of              *)
(*                [protocol, path, slashes]: slashes around the path       *)
(*   handlers     handler -> [serves, implements, protectedBy, public]     *)
(***************************************************************************)
EXTENDS Naturals, Sequences, FiniteSets, SequencesExt

CONSTANTS Api,          \* the APIs considered
          Absent        \* a guard, a reference or a domain that is not there

VARIABLES a,            \* the API, fixed for the run
          phase,        \* what the API's emitter is at
          guards,       \* the guards it has not yet looked at
          resources,    \* concrete name -> resource
          diagnostics

vars == <<a, phase, guards, resources, diagnostics>>

Protocol == {"http", "websocket"}

\* What the schema of an API leaves: two protocols, and guards that have names.
IsChain(chain) == chain \in Seq(ToSet(chain)) /\ Absent \notin ToSet(chain)
ASSUME ApiShape ==
    \A x \in Api :
        /\ x.protocols \subseteq Protocol /\ Absent \notin DOMAIN x.guards
        /\ IsChain(x.defaultGuard)
        /\ \A h \in DOMAIN x.handlers : IsChain(x.handlers[h].protectedBy)

ApiName(protocol) == <<"api", protocol>>
StageName(protocol) == <<"stage", protocol>>
AuthorizerName(guard) == <<"authorizer", guard>>
DomainName == <<"domain">>
MappingName(protocol, i) == <<"api_mapping", protocol, i>>
FunctionName(h) == <<"lambda_func", h>>

\* The label every handler the author's selector found has.
AuthorLabel == <<"author">>
ApiTarget(protocol) == <<"apiTarget", protocol>>
GuardTarget(guard) == <<"guardTarget", guard>>

Error(x) == [level |-> "error", about |-> x]
Warning(x) == [level |-> "warning", about |-> x]

Handlers == DOMAIN a.handlers
Guards == DOMAIN a.guards

Emit(new) ==
    resources' = [n \in DOMAIN resources \cup DOMAIN new |->
                    IF n \in DOMAIN new THEN new[n] ELSE resources[n]]
EmitOne(name, resource) == Emit([n \in {name} |-> resource])

Init ==
    /\ a \in Api
    /\ phase = "protocols"
    /\ guards = Guards
    /\ resources = <<>>
    /\ diagnostics = {}

-----------------------------------------------------------------------------
(* The API's emitter.                                                      *)

\* A slip: the author's labels are kept beside the target label.
SelectorWithAuthorLabels(protocol) == {AuthorLabel, ApiTarget(protocol)}

ProtocolScopedLinkSelector(protocol) == {ApiTarget(protocol)}

ProtocolApi(protocol) ==
    [type |-> "api", refs |-> {}, selector |-> ProtocolScopedLinkSelector(protocol)]
Stage(protocol) ==
    [type |-> "stage", refs |-> {ApiName(protocol)}, selector |-> {}]

EmitProtocolApis ==
    /\ phase = "protocols"
    /\ Emit([n \in {ApiName(p) : p \in a.protocols}
                     \cup {StageName(p) : p \in a.protocols} |->
                IF n[1] = "api" THEN ProtocolApi(n[2]) ELSE Stage(n[2])])
    /\ phase' = IF a.protocols = {} THEN "done" ELSE "authorizers"
    /\ diagnostics' = diagnostics
            \cup {d \in {Warning("api")} : a.protocols = {}}
    /\ UNCHANGED <<a, guards>>

\* A slip: the authorizers of a hybrid API hang off its WebSocket API.
AuthorizerTargetWebSocketFirst ==
    ApiName(IF "websocket" \in a.protocols THEN "websocket" ELSE "http")

AuthorizerTarget ==
    ApiName(IF "http" \in a.protocols THEN "http" ELSE "websocket")

JwtAuthorizer ==
    [type |-> "authorizer", kind |-> "JWT", api |-> AuthorizerTarget,
     refs |-> {AuthorizerTarget}, selector |-> {}]

CustomAuthorizer(guard, h) ==
    [type |-> "authorizer", kind |-> "CUSTOM", api |-> AuthorizerTarget,
     refs |-> {AuthorizerTarget, FunctionName(h)}, function |-> FunctionName(h),
     selector |-> {GuardTarget(guard)}]

Implementers(guard) == {h \in Handlers : a.handlers[h].implements = guard}

Skip(diagnostic) ==
    diagnostics' = diagnostics \cup {diagnostic} /\ UNCHANGED resources

\* A slip: a guard nobody implements is passed over in silence.
EmitCustomAuthorizerSilently(guard) ==
    IF Implementers(guard) = {} \/ ~a.region
    THEN UNCHANGED <<resources, diagnostics>>
    ELSE /\ \E h \in Implementers(guard) :
                EmitOne(AuthorizerName(guard), CustomAuthorizer(guard, h))
         /\ UNCHANGED diagnostics

\* Of two implementers the first edge from the API wins.
EmitCustomAuthorizer(guard) ==
    IF Implementers(guard) = {} \/ ~a.region
    THEN Skip(Warning(guard))
    ELSE /\ \E h \in Implementers(guard) :
                EmitOne(AuthorizerName(guard), CustomAuthorizer(guard, h))
         /\ UNCHANGED diagnostics

EmitJwtAuthorizer(guard) ==
    IF ~a.guards[guard].complete
    THEN Skip(Error(guard))
    ELSE /\ EmitOne(AuthorizerName(guard), JwtAuthorizer)
         /\ UNCHANGED diagnostics

\* The guards are a Go map, looked at in any order.
EmitAuthorizer(guard) ==
    /\ phase = "authorizers" /\ guard \in guards
    /\ guards' = guards \ {guard}
    /\ CASE "http" \notin a.protocols -> Skip(Warning(guard))
         [] "http" \in a.protocols /\ a.guards[guard].type = "deferred" ->
                Skip(Error(guard))
         [] "http" \in a.protocols /\ a.guards[guard].type = "jwt" ->
                EmitJwtAuthorizer(guard)
         [] "http" \in a.protocols /\ a.guards[guard].type = "custom" ->
                EmitCustomAuthorizer(guard)
         [] OTHER -> UNCHANGED <<resources, diagnostics>>
    /\ UNCHANGED <<a, phase>>

\* Slashes around a base path are trimmed.
MappingKey(basePath) == basePath.path

BasePathsFor(x, protocol) ==
    SelectSeq(x.basePaths, LAMBDA b : b.protocol \in {"any", protocol})

\* A protocol no base path is for is mapped at the root.
MappingKeys(protocol) ==
    LET own == BasePathsFor(a, protocol)
    IN  IF own = <<>> THEN <<"">>
        ELSE [i \in DOMAIN own |-> MappingKey(own[i])]

\* A slip: base paths are compared as they are spelled.
KeysCollideAsSpelled ==
    /\ a.protocols = Protocol
    /\ \E i, j \in DOMAIN a.basePaths :
            /\ a.basePaths[i].protocol # "websocket"
            /\ a.basePaths[j].protocol # "http"
            /\ a.basePaths[i].path = a.basePaths[j].path
            /\ a.basePaths[i].slashes = a.basePaths[j].slashes

KeysCollide ==
    /\ a.protocols = Protocol
    /\ ToSet(MappingKeys("http")) \cap ToSet(MappingKeys("websocket")) # {}

ApiMapping(protocol, i) ==
    [type |-> "apiMapping", key |-> MappingKeys(protocol)[i], api |-> ApiName(protocol),
     refs |-> {ApiName(protocol), StageName(protocol), DomainName},
     selector |-> {}]

ApiMappings ==
    IF KeysCollide THEN {}
    ELSE UNION {{MappingName(p, i) : i \in DOMAIN MappingKeys(p)} : p \in a.protocols}

Domain == [type |-> "domainName", refs |-> {}, selector |-> {}]

EmitDomain ==
    /\ phase = "authorizers" /\ guards = {}
    /\ phase' = "done"
    /\ IF a.basePaths = Absent
       THEN UNCHANGED <<resources, diagnostics>>
       ELSE /\ Emit([n \in {DomainName} \cup ApiMappings |->
                        IF n = DomainName THEN Domain ELSE ApiMapping(n[2], n[3])])
            /\ diagnostics' = diagnostics
                    \cup {d \in {Error("domain")} : KeysCollide}
    /\ UNCHANGED <<a, guards>>

-----------------------------------------------------------------------------
(* The handlers' emitter, as far as their API is concerned.                *)

\* An array of default guards does not read as a string.
DefaultGuards == IF a.listed THEN <<>> ELSE a.defaultGuard

\* The first guard of the handler's chain, else of the API's; Absent for none.
EffectiveGuard(h) ==
    LET chain == IF a.handlers[h].protectedBy # <<>>
                 THEN a.handlers[h].protectedBy ELSE DefaultGuards
    IN  IF chain = <<>> THEN Absent ELSE chain[1]

\* A slip: the guard's own type stands for its authorization type.
TypeOfGuard(guard) == IF guard \in Guards THEN a.guards[guard].type ELSE Absent

GuardAuthorizationType(guard) ==
    CASE guard \in Guards /\ a.guards[guard].type = "jwt" -> "JWT"
      [] guard \in Guards /\ a.guards[guard].type = "custom" -> "CUSTOM"
      [] OTHER -> Absent

\* A slip: only routes are labelled, and a guard's handler need not be one.
LabelsOfRoute(h) ==
    {AuthorLabel} \cup
        {ApiTarget(p) : p \in {a.handlers[h].serves} \cap Protocol}
        \cup {GuardTarget(g) : g \in {a.handlers[h].implements : s \in
                {a.handlers[h].serves} \cap Protocol} \ {Absent}}

FunctionLabels(h) ==
    {AuthorLabel}
        \cup {ApiTarget(p) : p \in {a.handlers[h].serves} \cap Protocol}
        \cup {GuardTarget(g) : g \in {a.handlers[h].implements} \ {Absent}}

Function(h, guard) ==
    [type |-> "function", labels |-> FunctionLabels(h), selector |-> {},
     guard |-> guard,
     authorization |-> IF guard = Absent THEN Absent ELSE GuardAuthorizationType(guard),
     refs |-> {AuthorizerName(g) : g \in {guard} \ {Absent}}]

\* Whether the emitter stamps the route with an authorizer.
StampsRouteAuth(h) ==
    /\ a.handlers[h].serves = "http"
    /\ ~a.handlers[h].public
    /\ EffectiveGuard(h) # Absent

EmitFunction(h, guard) ==
    /\ EmitOne(FunctionName(h), Function(h, guard))
    /\ UNCHANGED phase

\* A slip: a guard the API does not define leaves the route open.
EmitGuardedOrOpen(h) ==
    EmitFunction(h, IF GuardAuthorizationType(EffectiveGuard(h)) = Absent
                    THEN Absent ELSE EffectiveGuard(h))

\* A guard the API does not define fails the run rather than open the route.
EmitGuarded(h) ==
    IF GuardAuthorizationType(EffectiveGuard(h)) = Absent
    THEN phase' = "failed" /\ UNCHANGED resources
    ELSE EmitFunction(h, EffectiveGuard(h))

EmitHandler(h) ==
    /\ phase # "failed" /\ FunctionName(h) \notin DOMAIN resources
    /\ IF StampsRouteAuth(h) THEN EmitGuarded(h) ELSE EmitFunction(h, Absent)
    /\ UNCHANGED <<a, guards, diagnostics>>

Step ==
    \/ EmitProtocolApis
    \/ \E guard \in Guards : EmitAuthorizer(guard)
    \/ EmitDomain
    \/ \E h \in Handlers : EmitHandler(h)

Done == phase = "done" /\ \A h \in Handlers : FunctionName(h) \in DOMAIN resources
Finished == (Done \/ phase = "failed") /\ UNCHANGED vars
Next == Step \/ Finished

\* One goroutine emits the primaries.
Spec == Init /\ [][Next]_vars /\ WF_vars(Step)

-----------------------------------------------------------------------------
(* Properties.                                                             *)

\* Type invariant: what each variable holds.
TypeOK ==
    /\ phase \in {"protocols", "authorizers", "done", "failed"}
    /\ guards \subseteq Guards
    /\ \A n \in DOMAIN resources :
            resources[n].type \in {"api", "stage", "authorizer", "domainName",
                                   "apiMapping", "function"}
    /\ \A n \in DOMAIN resources : resources[n].type = "function" =>
            resources[n].authorization \in {"JWT", "CUSTOM", Absent}
    /\ \A d \in diagnostics : d.level \in {"error", "warning"}

OfType(type) == {n \in DOMAIN resources : resources[n].type = type}
Selects(n, f) == resources[n].selector \cap resources[f].labels # {}
Route(h) == resources[FunctionName(h)]
Reported(x) == \E d \in diagnostics : d.about = x

\* Each concrete API attaches exactly the handlers of its own protocol: a hybrid
\* API never builds a route from the other protocol's handler.
RoutesOnOwnProtocol ==
    Done => \A p \in a.protocols, h \in Handlers :
        Selects(ApiName(p), FunctionName(h)) <=> a.handlers[h].serves = p

\* A route and the authorizer it names, which two emitters make and name on their
\* own, agree: on the authorization type, and on the API both belong to.
AuthorizersFitRoutes ==
    \A h \in Handlers :
        FunctionName(h) \in DOMAIN resources /\ Route(h).guard # Absent
        /\ AuthorizerName(Route(h).guard) \in DOMAIN resources =>
            LET authorizer == resources[AuthorizerName(Route(h).guard)]
            IN  /\ authorizer.kind = Route(h).authorization
                /\ authorizer.api \in DOMAIN resources
                        => Selects(authorizer.api, FunctionName(h))

\* The guards the documents say protect a route: those its handler names, else the
\* API's default, a string or a list; none for what is public or no HTTP route.
Protectors(h) ==
    LET handler == a.handlers[h]
    IN  CASE handler.serves # "http" \/ handler.public -> {}
          [] handler.serves = "http" /\ ~handler.public /\ handler.protectedBy # <<>> ->
                ToSet(handler.protectedBy)
          [] OTHER -> ToSet(a.defaultGuard)

\* Whether the guards of a handler are a default given as a list, which the emitter
\* does not see: see DocumentedGuardsApply.
ByListedDefault(h) == a.listed /\ a.handlers[h].protectedBy = <<>>

\* In a finished run no route the author had guarded is open, but for a listed
\* default, and none is closed that the author left open: the route is wired to the
\* authorizer of a guard declared for it that the API defines, with a type.
GuardedRoutesStayGuarded ==
    Done => \A h \in Handlers :
        IF Protectors(h) = {} THEN Route(h).guard = Absent /\ Route(h).refs = {}
        ELSE \/ ByListedDefault(h)
             \/ /\ Route(h).guard \in Protectors(h) \cap Guards
                /\ Route(h).refs = {AuthorizerName(Route(h).guard)}
                /\ Route(h).authorization \in {"JWT", "CUSTOM"}

\* The function behind a custom guard's authorizer is one its link grants the
\* right to be invoked: the selector selects what the invoke URI names.
GuardsAreInvocable ==
    Done => \A n \in OfType("authorizer") :
        resources[n].kind = "CUSTOM" => Selects(n, resources[n].function)

\* A reference to an authorizer that was not emitted never goes unreported.
DanglingIsReported ==
    Done => \A h \in Handlers : \A n \in Route(h).refs :
        n \in DOMAIN resources \/ Reported(Route(h).guard) \/ Reported("api")

\* A custom domain never maps the HTTP and the WebSocket API at one base path;
\* base paths that would collide are reported.
MappingKeysApart ==
    Done => \A m, n \in OfType("apiMapping") :
        resources[m].api # resources[n].api =>
            resources[m].key # resources[n].key \/ Reported("domain")

\* "When an array is given the guards execute in order and all must pass": every
\* default guard of the API is wired to a route it protects, or that it is not is
\* reported.
DocumentedGuardsApply ==
    Done => \A h \in Handlers : a.handlers[h].protectedBy = <<>> =>
        \A g \in Protectors(h) :
            AuthorizerName(g) \in Route(h).refs \/ Reported(h) \/ Reported(g)
=============================================================================
