---------------------------- MODULE VpcPlacement ----------------------------
(***************************************************************************)
(* Where a handler's function is placed: in the VPC linked to the handler, *)
(* or in the one the components it is bound to are placed in, in which     *)
(* subnet tier and with which outbound reach, and what is reported of a    *)
(* placement that the VPC or Lambda cannot honour.                         *)
(*                                                                         *)
(* A wiring w is one handler and what is linked into it, a record with,    *)
(* here,                                                                   *)
(*   parents    component bound to the handler -> "consumer", "schedule"   *)
(*              or "api"                                                   *)
(*   labels     handler and component -> its labels, key -> value          *)
(*   selector   source or VPC -> the label selector it links by            *)
(*   preset     VPC -> its preset, "referenced" if another blueprint owns  *)
(*              it, "unrecognised" if this build does not know it          *)
(*   subnetType handler and component -> its subnet-type annotation        *)
(*   egress     handler and component -> its egress annotation: "none",    *)
(*              "internet", the address families of a CIDR list, or        *)
(*              nothing but blanks, ""                                     *)
(*   rank       name -> its place in the lexical order of names            *)
(***************************************************************************)
EXTENDS LinkSelectors, Naturals, FiniteSets, Sequences

CONSTANTS Handler,      \* the name of the handler
          Absent        \* an annotation, label or setting that is not there

\* An annotation that is not there asks for nothing.
ASSUME AbsentIsNoEgress ==
    Absent \notin {"", "none", "internet", "ipv4", "ipv6", "ipv4 and ipv6"}

Vpcs(w) == DOMAIN w.preset
VpcsOf(w, x) == {v \in Vpcs(w) : Selects(w.selector[v], w.labels[x])}
Parents(w) == DOMAIN w.parents

\* The member of names that sorts first.
Least(w, names) ==
    CHOOSE x \in names : \A y \in names : w.rank[x] <= w.rank[y]

Unplaced == [vpc |-> Absent, from |-> Absent, labels |-> NoLabels,
             subnetType |-> Absent, egress |-> Absent]

\* Linked directly: nothing is inherited.
DirectPlacement(v) == [Unplaced EXCEPT !.vpc = v]

Inherited(w, p, v) ==
    [vpc |-> v, from |-> p,
     labels |-> MatchedLabels(w.selector[v], w.labels[p]),
     subnetType |-> w.subnetType[p],
     egress |-> w.egress[p]]

\* The placements of the components ps, one per edge from a VPC into one.
InheritablePlacements(w, ps) ==
    {Inherited(w, x[1], x[2]) : x \in {y \in ps \X Vpcs(w) : y[2] \in VpcsOf(w, y[1])}}

\* The orders the edges may leave them in.
OrdersOf(placements) ==
    {order \in [1..Cardinality(placements) -> placements] :
        {order[i] : i \in DOMAIN order} = placements}

PlacementsConflict(placements) == Cardinality({p.vpc : p \in placements}) > 1

\* A slip: they are taken as they were collected.
FirstAsCollected(w, order) == order[1]

\* They are sorted by component before the first is taken.
FirstPlacement(w, order) ==
    order[CHOOSE i \in DOMAIN order :
            order[i].from = Least(w, {order[j].from : j \in DOMAIN order})]

-----------------------------------------------------------------------------
(* Subnet tier and outbound reach.                                         *)

\* The handler's own annotation, else the one that came with the placement.
SubnetType(w, placement) ==
    IF w.subnetType[Handler] # Absent THEN w.subnetType[Handler]
    ELSE IF placement.subnetType # Absent THEN placement.subnetType
    ELSE "private"

\* An annotation of the handler's that says nothing still keeps out the other.
Egress(w, placement) ==
    IF w.egress[Handler] # Absent THEN w.egress[Handler] ELSE placement.egress

PrivateSubnets(preset) == preset \in {"standard", "light", "isolated"}
PublicSubnets(preset) == preset \in {"standard", "light", "public", "light-public"}
NatGateway(preset) == preset \in {"standard", "light"}
KnownTopology(preset) == PrivateSubnets(preset) \/ PublicSubnets(preset)

OutboundPathExists(preset, tier) ==
    IF tier = "public" THEN PublicSubnets(preset) ELSE NatGateway(preset)

TierMissing(preset, tier) ==
    \/ tier = "private" /\ ~PrivateSubnets(preset)
    \/ tier = "public" /\ ~PublicSubnets(preset)

\* A slip: the annotation of a component is not looked at, only the handler's.
AsksForEgressItself(w, placement) ==
    w.egress[Handler] \notin {Absent, "", "none"}

AsksForEgress(w, placement) == Egress(w, placement) \notin {Absent, "", "none"}

PlacementError == [level |-> "error", what |-> "placement", about |-> {Handler}]
EgressError == [level |-> "error", what |-> "egress", about |-> {Handler}]
EgressWarning == [level |-> "warning", what |-> "egress", about |-> {Handler}]

\* A missing tier is reported alone: the rest would only follow from it.
TopologyDiagnostics(w, placement, preset) ==
    LET tier == SubnetType(w, placement)
    IN  IF TierMissing(preset, tier) THEN {PlacementError}
        ELSE {d \in {EgressError} : AsksForEgress(w, placement)
                                     /\ ~OutboundPathExists(preset, tier)}

\* Silent where the topology cannot be known.
VpcPlacementDiagnostics(w, placement) ==
    UNION {TopologyDiagnostics(w, placement, w.preset[v]) :
              v \in {u \in Vpcs(w) : u = placement.vpc /\ KnownTopology(w.preset[u])}}

\* What a function in a public subnet cannot reach: it has no IPv4 address.
AwsServerlessEgressDiagnostics(w, placement) ==
    IF placement.vpc # Absent /\ AsksForEgress(w, placement)
        /\ SubnetType(w, placement) = "public"
    THEN CASE Egress(w, placement) \in {"internet", "ipv4 and ipv6"} -> {EgressWarning}
           [] Egress(w, placement) = "ipv4" -> {EgressError}
           [] OTHER -> {}
    ELSE {}
=============================================================================
