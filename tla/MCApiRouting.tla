---------------------------- MODULE MCApiRouting ----------------------------
(***************************************************************************)
(* Small APIs for TLC: two guards of every kind, a route, a handler that   *)
(* implements a guard or is a route itself, up to two base paths.          *)
(***************************************************************************)
EXTENDS ApiRouting

Protocols == SUBSET Protocol
Jwt == [type |-> "jwt", complete |-> TRUE]
BadJwt == [type |-> "jwt", complete |-> FALSE]
Custom == [type |-> "custom", complete |-> TRUE]
Deferred == [type |-> "deferred", complete |-> TRUE]
Unknown == [type |-> "unknown", complete |-> TRUE]

Handler(serves, implements, protectedBy, public) ==
    [serves |-> serves, implements |-> implements,
     protectedBy |-> protectedBy, public |-> public]

AnApi(protocols, defined, default, listed, region, handlers) ==
    [protocols |-> protocols, guards |-> defined, defaultGuard |-> default,
     listed |-> listed, region |-> region, basePaths |-> Absent,
     handlers |-> handlers]

-----------------------------------------------------------------------------
\* Guards: g1 of every kind or undefined, g2 a jwt or a custom guard; the default is
\* a string or a list.
GuardSets ==
    {("g1" :> g) @@ ("g2" :> h) : g \in {Jwt, BadJwt, Custom, Deferred, Unknown},
                                  h \in {Jwt, Custom}}
        \cup {"g2" :> h : h \in {Jwt, Custom}}

RouteHandlers ==
    {Handler(s, Absent, p, public) :
        s \in Protocol, p \in {<<>>, <<"g1">>, <<"g2">>}, public \in BOOLEAN}
GuardHandlers ==
    {Handler("guard", g, <<>>, FALSE) : g \in {"g1", "g2"}}
        \cup {Handler("http", Absent, <<"g1">>, FALSE)}

GuardedApis ==
    {AnApi(ps, gs, d, FALSE, region, ("h1" :> h1) @@ ("h2" :> h2)) :
        ps \in Protocols, gs \in GuardSets, d \in {<<>>, <<"g1">>, <<"g2">>},
        region \in BOOLEAN, h1 \in RouteHandlers, h2 \in GuardHandlers}
    \cup
    {AnApi(ps, gs, d, TRUE, TRUE, ("h1" :> h1) @@ ("h2" :> h2)) :
        ps \in Protocols, gs \in GuardSets, d \in {<<>>, <<"g1">>, <<"g1", "g2">>},
        h1 \in RouteHandlers \cup {Handler("http", Absent, <<"g1", "g2">>, FALSE)},
        h2 \in GuardHandlers}

\* Two handlers implement one guard, and a third is guarded by it.
ContestedApis ==
    {AnApi(ps, "g1" :> Custom, <<>>, FALSE, TRUE,
           ("h1" :> Handler(s, "g1", <<>>, FALSE))
               @@ ("h2" :> Handler("guard", "g1", <<>>, FALSE))
               @@ ("h3" :> Handler("http", Absent, <<"g1">>, FALSE))) :
        ps \in Protocols, s \in Protocol}

AuthorizedApis == GuardedApis \cup ContestedApis

\* Domains: up to two base paths, for either protocol or both.
BasePaths ==
    [protocol : {"any", "http", "websocket"}, path : {"", "v1"},
     slashes : BOOLEAN]

DomainApis ==
    {[AnApi(ps, <<>>, <<>>, FALSE, TRUE, <<>>) EXCEPT !.basePaths = bs] :
        ps \in Protocols, bs \in SeqOf(BasePaths, 2) \cup {Absent}}

RoutedApis == AuthorizedApis \cup DomainApis

\* Default guards as the schema has them: one as a string, or a list.
ChainedApis ==
    {AnApi({"http"}, ("g1" :> Jwt) @@ ("g2" :> Jwt), <<g>>, FALSE, TRUE,
           "h1" :> Handler("http", Absent, <<>>, public)) :
        g \in {"g1", "g2"}, public \in BOOLEAN}
    \cup
    {AnApi({"http"}, ("g1" :> Jwt) @@ ("g2" :> Jwt), d, TRUE, TRUE,
           "h1" :> Handler("http", Absent, p, public)) :
        d \in {<<"g1">>, <<"g1", "g2">>}, p \in {<<>>, <<"g1">>}, public \in BOOLEAN}
=============================================================================
