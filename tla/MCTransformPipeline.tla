------------------------- MODULE MCTransformPipeline -------------------------
(***************************************************************************)
(* Small blueprints for TLC: two or three handlers around the resource     *)
(* each family is about, every order of resolution, every run setting the  *)
(* family is sensitive to.                                                 *)
(***************************************************************************)
EXTENDS TransformPipeline

\* An injective stand-in for the truncated SHA-256 of a plan.
MCFingerprint(plan) == <<"sha256", plan>>

\* The two hashes of the blueprints, their colon folded.
MCReferenceSafe(hash) == CASE hash = "sha256:own" -> "sha256_own"
                           [] hash = "sha256:shared" -> "sha256_shared"

\* A deployable blueprint of these kinds and links; the families override it.
Base(kind, links) ==
    LET hs == {r \in DOMAIN kind : kind[r] = "handler"}
        cs == {r \in DOMAIN kind : kind[r] = "consumer"}
    IN  [kind |-> kind, links |-> links,
         runtime |-> [h \in hs |-> "nodejs"],
         invokedBy |-> [h \in hs |-> "none"],
         tracing |-> {},
         placement |-> [h \in hs |-> "none"],
         source |-> [c \in cs |-> "none"],
         topic |-> [c \in cs |-> Outside],
         streams |-> [c \in cs |-> {}],
         objectStores |-> {}, noDeadLetter |-> {}, noExpression |-> {},
         refused |-> {}, aborts |-> {},
         manifest |-> "lambda", validation |-> FALSE,
         layer |-> [h \in hs |-> NoLayer]]

KindOf(hs, others) == [r \in hs \cup DOMAIN others |->
                        IF r \in hs THEN "handler" ELSE others[r]]

-----------------------------------------------------------------------------
\* Roles and the store: two handlers using any of a queue, a cache and a
\* config, one of them traced, one of them in a VPC.
RoleKinds == KindOf({"h1", "h2"},
                    [q |-> "queue", k |-> "cache", c |-> "config"])
RoleBlueprint(uses1, uses2) ==
    Base(RoleKinds, ({"h1"} \X uses1) \cup ({"h2"} \X uses2))
RoleBlueprints ==
    LET used == {RoleBlueprint(uses1, uses2) :
                    uses1 \in {{"q"}, {"k", "c"}, {"c"}},
                    uses2 \in SUBSET {"q", "k", "c"}}
        alike == RoleBlueprint({"q", "c"}, {"q", "c"})
    IN  used \cup {alike, [alike EXCEPT !.tracing = {"h2"}],
                   [alike EXCEPT !.placement["h1"] = "private"]}

\* Three handlers, two of which share a role, and layers between them.
LayerKinds == KindOf({"h1", "h2", "h3"}, [d |-> "datastore"])
PlainLayerBlueprints ==
    {[Base(LayerKinds, {<<"h1", "d">>, <<"h3", "d">>})
        EXCEPT !.runtime = [h \in {"h1", "h2", "h3"} |->
                                IF h = "h2" THEN runtime ELSE "nodejs"],
               !.layer = [h \in {"h1", "h2", "h3"} |->
                                IF h \in layered THEN "sha256:shared"
                                                   ELSE "sha256:own"],
               !.manifest = found, !.validation = validation] :
        runtime \in {"nodejs", "python", "ruby", "deferred", "absent"},
        layered \in {{"h1", "h2"}, {"h2"}},
        found \in {"unreadable", "noLambda", "lambda"},
        validation \in BOOLEAN}

LayerBlueprints ==
    PlainLayerBlueprints
        \cup {[b EXCEPT !.aborts = {"d"}] : b \in
                {x \in PlainLayerBlueprints : x.manifest = "noLambda"}}
        \cup {[b EXCEPT !.placement["h3"] = "conflict"] : b \in
                {x \in PlainLayerBlueprints : x.manifest = "unreadable"}}
        \cup {[b EXCEPT !.invokedBy["h3"] = "schedule"] : b \in
                {x \in PlainLayerBlueprints : x.manifest = "unreadable"}}

\* Triggers: a schedule and a consumer e of each source kind, e routing to both
\* handlers when its source is a topic.
TriggerKinds == KindOf({"h1", "h2"},
                       [s |-> "schedule", e |-> "consumer", t |-> "topic"])
TriggerBlueprint(source, routed, streams, runtime) ==
    [Base(TriggerKinds, {<<"s", "h1">>, <<"e", "h2">>} \cup routed)
        EXCEPT !.invokedBy = [h1 |-> "schedule", h2 |-> "consumer"],
               !.source = [x \in {"e"} |-> source],
               !.topic = [x \in {"e"} |-> "t"],
               !.streams = [x \in {"e"} |-> streams],
               !.objectStores = {x \in {"e"} : streams = {}},
               !.runtime = [h \in {"h1", "h2"} |->
                                IF h = "h1" THEN runtime ELSE "nodejs"]]

TriggerBlueprints ==
    LET topics == {TriggerBlueprint("celerityTopic", routed, {}, runtime) :
                     routed \in {{}, {<<"e", "h1">>}}, runtime \in {"nodejs", "ruby"}}
    IN  topics
        \cup {[b EXCEPT !.noDeadLetter = {"e"}, !.topic["e"] = Outside] : b \in topics}
        \cup {[b EXCEPT !.refused = {"t"}] : b \in topics}
        \cup {TriggerBlueprint(source, {}, streams, "nodejs") :
                source \in {"sqs", "externalEvents", "none"},
                streams \in {{}, {"a", "b"}}}
        \cup {[b EXCEPT !.noExpression = {"s"}] : b \in topics}

\* One trigger absorbed by two handlers: a schedule, or a routed consumer whose
\* source is polled from outside the blueprint.
SharedTriggerBlueprints ==
    {Base(KindOf({"h1", "h2"}, [s |-> "schedule"]),
          {<<"s", "h1">>, <<"s", "h2">>}),
     [Base(KindOf({"h1", "h2"}, [e |-> "consumer"]),
           {<<"e", "h1">>, <<"e", "h2">>}) EXCEPT !.source["e"] = "sqs"]}

\* Two consumers whose streams' names join to one, in one handler and in two;
\* the second handler deployable or not.
JoinedNameBlueprints ==
    {[Base(KindOf({"h1", "h2"}, [e |-> "consumer", e_a |-> "consumer"]),
           {<<"e", "h1">>, <<"e_a", second>>})
        EXCEPT !.source = [c \in {"e", "e_a"} |-> "externalEvents"],
               !.streams = [e |-> {"a_b", "b"}, e_a |-> {"b"}],
               !.runtime["h2"] = runtime] :
        second \in {"h1", "h2"}, runtime \in {"nodejs", "ruby"}}

\* Every family, and a store with and without the emit of its cache.
PipelineBlueprints ==
    LET stored == RoleBlueprint({"k", "c"}, {"q"})
    IN  RoleBlueprints \cup LayerBlueprints \cup TriggerBlueprints
            \cup SharedTriggerBlueprints \cup JoinedNameBlueprints
            \cup {stored, [stored EXCEPT !.refused = {"k"}]}

\* What could let an order of resolution show: shared roles and layers with a
\* different runtime per handler, a shared store, a shared fan-out.
OrderBlueprints ==
    {b \in LayerBlueprints : ~b.validation /\ b.manifest = "lambda"}
        \cup {b \in LayerBlueprints : /\ b.aborts # {} \/ b.manifest = "unreadable"
                                     /\ b.runtime["h2"] = "ruby"}
        \cup {b \in TriggerBlueprints : /\ b.source["e"] = "celerityTopic"
                                       /\ b.runtime["h1"] = "ruby"}
        \cup {RoleBlueprint({"q"}, {"q"}), RoleBlueprint({"k", "c"}, {"q", "k"}),
              RoleBlueprint({"q", "c"}, {"q", "c"})}
=============================================================================
