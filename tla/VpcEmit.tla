------------------------------- MODULE VpcEmit -------------------------------
(***************************************************************************)
(* What is emitted for a VPC: one resource, which names the security       *)
(* groups it mints for the databases and caches placed in it.              *)
(***************************************************************************)
EXTENDS BackingBlueprint

Members(b, v, kind) == {r \in OfBacking(b, kind) : v \in PlacedIn(b, r)}

\* Read here by the name of the resource.
NeedsProxyGroup(b, d) == ~DeployConfig(b.aurora, <<d>>, FALSE)

\* A slip: no database has a proxy in front of it.
MintedWithoutProxies(b, v) ==
    {SecurityGroup(c, "cache") : c \in Members(b, v, "cache")}
        \cup {SecurityGroup(d, "db") : d \in Members(b, v, "sqlDatabase")}

\* One group for each placed resource that workloads reach over the network.
MintedGroups(b, v) ==
    {SecurityGroup(c, "cache") : c \in Members(b, v, "cache")}
        \cup {SecurityGroup(d, "db") : d \in Members(b, v, "sqlDatabase")}
        \cup {SecurityGroup(d, "proxy") :
                d \in {x \in Members(b, v, "sqlDatabase") : NeedsProxyGroup(b, x)}}

FlexVpc(b, v) ==
    [WithOwnLabels(b, v, Concrete("flex/vpc", v)) EXCEPT
        !.selector = b.selector[v],
        !.groups = IF b.preset[v] = "referenced" THEN {}
                   ELSE {<<v, g>> : g \in MintedGroups(b, v)}]

\* A VPC of this blueprint is made in a region; without one the run ends.
NeedsRegion(b, v) ==
    /\ b.preset[v] # "referenced" /\ b.deferred[v] \cap {"mode", "preset"} = {}
    /\ ~b.region /\ ~b.validation

EmitVpc(b, v) ==
    LET deferred == DeferredErrors(b, v, {"mode", "preset"})
    IN  IF deferred # {} THEN NothingEmitted(deferred)
        ELSE EmitResult(Entry(VpcName(v), FlexVpc(b, v)), <<>>, {})
=============================================================================
