--------------------------- MODULE MCHandlerWiring ---------------------------
(***************************************************************************)
(* Small wirings for TLC: a handler with up to three components, the       *)
(* sources and VPCs that select them, and the labels over two keys.        *)
(***************************************************************************)
EXTENDS HandlerWiring, TLC

App(value) == <<"app">> :> value
Tier(value) == <<"tier">> :> value

Components == {"c1", "c2", "c3", "s1", "a1"}
Rank == [x \in Components |-> CASE x = "a1" -> 1 [] x = "c1" -> 2 [] x = "c2" -> 3
                                [] x = "c3" -> 4 [] OTHER -> 5]
              @@ [x \in {"q1", "q2", "d1", "o1", "o2"} |->
                    CASE x = "d1" -> 1 [] x = "o1" -> 2 [] x = "o2" -> 3
                      [] x = "q1" -> 4 [] OTHER -> 5]

KindOfComponent(x) == CASE x = "s1" -> "schedule" [] x = "a1" -> "api"
                        [] OTHER -> "consumer"
KindOfSource(x) == CASE x = "d1" -> "datastore" [] x \in {"o1", "o2"} -> "bucket"
                     [] OTHER -> "queue"

\* A handler with these components, sources and VPCs, and nothing set on them.
Base(parents, selector, preset, labelling) ==
    [parents |-> [p \in parents |-> KindOfComponent(p)],
     labels |-> labelling,
     selector |-> selector,
     preset |-> preset,
     subnetType |-> [x \in parents \cup {Handler} |-> Absent],
     egress |-> [x \in parents \cup {Handler} |-> Absent],
     rank |-> Rank,
     kind |-> [s \in DOMAIN selector \ DOMAIN preset |-> KindOfSource(s)],
     named |-> [c \in parents |-> {}],
     spec |-> [c \in parents |-> "unknown"],
     batch |-> [c \in parents |-> Absent],
     failures |-> {}, fromStart |-> {},
     events |-> [c \in parents |-> <<>>], unmapped |-> {},
     routingKey |-> [c \in parents |-> Absent],
     tag |-> Absent, guard |-> Absent, protocol |-> Absent]

-----------------------------------------------------------------------------
\* Labels: consumers and sources that may share keys, a VPC that selects one of
\* them or the handler, every labelling of consumers and handler.
Labellings == {NoLabels, App("x"), App("y"), Tier("x"), App("x") @@ Tier("y")}

LabelWiring(l1, l2, lh, sel1, selv) ==
    Base({"c1", "c2"}, ("q1" :> sel1) @@ ("q2" :> App("y")) @@ ("v1" :> selv),
         "v1" :> "standard", ("c1" :> l1) @@ ("c2" :> l2) @@ (Handler :> lh))

LabelWirings ==
    {LabelWiring(l1, l2, lh, sel1, selv) :
        l1 \in Labellings, l2 \in Labellings, lh \in Labellings,
        sel1 \in {App("x"), Tier("y")}, selv \in {Tier("x"), App("y")}}

-----------------------------------------------------------------------------
\* Placement: a schedule, a consumer and an API, two VPCs, every preset, tier
\* and egress on the handler or a component.
Presets == {"standard", "light", "public", "light-public", "isolated",
            "referenced", "unrecognised"}

PlacementWiring(ls, lc, lh, preset) ==
    Base({"s1", "c1"}, ("v1" :> App("x")) @@ ("v2" :> App("y")),
         ("v1" :> preset) @@ ("v2" :> "standard"),
         ("s1" :> ls) @@ ("c1" :> lc) @@ (Handler :> lh))

Egresses == {Absent, "", "none", "internet", "ipv4", "ipv6", "ipv4 and ipv6"}

TopologyWirings ==
    {[PlacementWiring(App("x"), lc, NoLabels, preset)
        EXCEPT !.subnetType["s1"] = ts, !.subnetType[Handler] = th,
               !.egress["s1"] = es, !.egress[Handler] = eh] :
        lc \in {App("x"), NoLabels}, preset \in Presets,
        ts \in {Absent, "public", "private"}, th \in {Absent, "public"},
        es \in Egresses, eh \in Egresses}

VpcWirings ==
    {PlacementWiring(ls, lc, lh, "standard") :
        ls \in {NoLabels, App("x"), App("y")}, lc \in {NoLabels, App("x"), App("y")},
        lh \in {NoLabels, App("x"), Tier("x")}}

PlacementWirings == TopologyWirings \cup VpcWirings

\* A handler linked to one VPC and its consumer to another, or to the same one.
TwoVpcWirings ==
    {Base({"c1"}, ("q1" :> App("q")) @@ ("v1" :> Tier("x")) @@ ("v2" :> selv),
          ("v1" :> "standard") @@ ("v2" :> "light"),
          ("c1" :> App("q")) @@ (Handler :> Tier("x"))) :
        selv \in {App("q"), App("y"), Tier("z")}}

-----------------------------------------------------------------------------
\* Settings: three consumers of queues, a topic, streams or buckets.
SourceLabels == [d1 |-> App("d"), o1 |-> App("o"), o2 |-> Tier("o"),
                 q1 |-> App("q"), q2 |-> Tier("q")]

SettingWiring(bound, spec) ==
    [Base({"c1", "c2", "c3"}, [s \in {"d1", "o1", "o2", "q1", "q2"} |-> SourceLabels[s]],
          NoLabels,
          [c \in {"c1", "c2", "c3"} |->
            IF c \in DOMAIN bound THEN SourceLabels[bound[c]] ELSE NoLabels]
            @@ (Handler :> NoLabels))
        EXCEPT !.spec = [c \in {"c1", "c2", "c3"} |-> spec]]

BatchWirings ==
    {[SettingWiring(bound, "topic")
        EXCEPT !.batch = [c1 |-> b1, c2 |-> b2, c3 |-> 10],
               !.failures = failures, !.fromStart = {"c1"}] :
        bound \in {[c1 |-> "q1", c2 |-> "q2"], [c1 |-> "q1", c2 |-> "d1"],
                   [c1 |-> "d1", c2 |-> "d1", c3 |-> "q1"]},
        b1 \in {Absent, 1, 10}, b2 \in {Absent, 10},
        failures \in {{}, {"c1"}, {"c1", "c2"}, {"c1", "c2", "c3"}}}

EventWirings ==
    {[SettingWiring([c1 |-> "o1", c2 |-> "o2"], "objectStorage")
        EXCEPT !.events = [c1 |-> e1, c2 |-> e2, c3 |-> <<>>],
               !.unmapped = {"c2"}] :
        e1 \in {<<>>, <<"created">>, <<"deleted", "created">>},
        e2 \in {<<"created">>, <<"deleted">>, <<"created", "deleted">>}}

SettingWirings == BatchWirings \cup EventWirings

-----------------------------------------------------------------------------
\* A consumer two queues select, one of which its annotation names.
NamedWirings ==
    {[Base({"c1"}, ("q1" :> App("x")) @@ ("q2" :> App("x")), NoLabels,
           ("c1" :> App("x")) @@ (Handler :> NoLabels))
        EXCEPT !.named["c1"] = named] : named \in {{}, {"q1"}, {"q2"}}}

\* A handler that serves all of one consumer and a part of another.
RoutedWirings ==
    {[Base({"c1", "c2"}, ("q1" :> App("x")) @@ ("q2" :> Tier("y")), NoLabels,
           ("c1" :> App("x")) @@ ("c2" :> Tier("y")) @@ (Handler :> NoLabels))
        EXCEPT !.tag = tag, !.routingKey = [c1 |-> k1, c2 |-> k2]] :
        tag \in {"c1", "orderPlaced"}, k1 \in {Absent, "kind"},
        k2 \in {Absent, "kind", "type"}}

\* A handler of an API that implements a guard or serves a route of it.
ApiWirings ==
    {[Base({"a1", "c1"}, ("q1" :> App("x")) @@ ("v1" :> Tier("x")), "v1" :> "light",
           ("a1" :> Tier("x")) @@ ("c1" :> App("x")) @@ (Handler :> Tier("y")))
        EXCEPT !.guard = guard, !.protocol = protocol] :
        guard \in {Absent, "g"}, protocol \in {Absent, "http"}}

AllWirings ==
    LabelWirings \cup ApiWirings \cup RoutedWirings \cup NamedWirings
        \cup PlacementWirings \cup SettingWirings
=============================================================================
