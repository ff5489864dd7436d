-------------------------- MODULE TransformPipeline --------------------------
(***************************************************************************)
(* One run of the aws-serverless transformer. The framework drives it:     *)
(* the run hook loads the build manifest, every resource of the blueprint  *)
(* is resolved in the arbitrary order of a Go map, the aggregator drops    *)
(* the absorbed resources and collects the shared parents, every primary   *)
(* is emitted in the order it was resolved, and the contributions are      *)
(* merged into the shared parents.                                         *)
(***************************************************************************)
EXTENDS HandlerEmit

VARIABLES
    bp,             \* the blueprint and run settings being transformed
    phase,
    manifest,       \* what the run hook provided
    resolved,       \* the resources resolved so far, in that order
    primaries,      \* the resources the plan emits, in that order
    next,           \* the loop index of the aggregate and emit phases
    parents,        \* concrete name -> seed of a planned shared parent
    emitted,        \* concrete name -> concrete resource
    contributions,  \* shared parent's name -> the values contributed to it
    diagnostics

vars == <<bp, phase, manifest, resolved, primaries, next, parents, emitted,
          contributions, diagnostics>>

Nothing == [n \in {} |-> n]
RangeOf(s) == {s[i] : i \in DOMAIN s}

Init ==
    /\ bp \in Blueprint
    /\ phase = "start"
    /\ manifest = "none"
    /\ resolved = << >>
    /\ primaries = << >>
    /\ next = 1
    /\ parents = Nothing
    /\ emitted = Nothing
    /\ contributions = Nothing
    /\ diagnostics = {}

\* A slip: the path's state is taken over as it stands.
OnRunUnconverted ==
    /\ phase = "start"
    /\ phase' = "resolve"
    /\ manifest' = bp.manifest
    /\ UNCHANGED <<bp, resolved, primaries, next, parents, emitted,
                   contributions, diagnostics>>

\* The run hook: a manifest that cannot be loaded does not stop the run.
OnRun ==
    /\ phase = "start"
    /\ phase' = "resolve"
    /\ manifest' = CASE bp.manifest = "noPath" -> "none"
                     [] bp.manifest = "unreadable" -> "failed"
                     [] OTHER -> bp.manifest
    /\ UNCHANGED <<bp, resolved, primaries, next, parents, emitted,
                   contributions, diagnostics>>

\* A handler that would inherit two VPCs, that is not linked to the source its
\* annotations announce, or whose runtime is not a literal after inheritance.
Unresolvable(b, r) ==
    /\ r \in Handlers(b)
    /\ \/ b.placement[r] = "conflict"
       \/ ~HasEventSource(b, r)
       \/ b.runtime[r] \in {"absent", "deferred"}

Resolve(r) ==
    /\ phase = "resolve"
    /\ r \in Resources(bp) \ RangeOf(resolved)
    /\ ~Unresolvable(bp, r)
    /\ resolved' = Append(resolved, r)
    /\ UNCHANGED <<bp, phase, manifest, primaries, next, parents, emitted,
                   contributions, diagnostics>>

\* The resolver's error stops the run: nothing is emitted for any resource.
ResolveFails(r) ==
    /\ phase = "resolve"
    /\ r \in Resources(bp) \ RangeOf(resolved)
    /\ Unresolvable(bp, r)
    /\ phase' = "failed"
    /\ UNCHANGED <<bp, manifest, resolved, primaries, next, parents, emitted,
                   contributions, diagnostics>>

AllResolved ==
    /\ phase = "resolve"
    /\ RangeOf(resolved) = Resources(bp)
    /\ phase' = "aggregate"
    /\ UNCHANGED <<bp, manifest, resolved, primaries, next, parents, emitted,
                   contributions, diagnostics>>

\* Handler configs, schedules and consumers only contribute to handlers.
IsContributor(r) == bp.kind[r] \in ContributorKind

Absorb ==
    /\ phase = "aggregate" /\ next <= Len(resolved)
    /\ IsContributor(resolved[next])
    /\ next' = next + 1
    /\ UNCHANGED <<bp, phase, manifest, resolved, primaries, parents, emitted,
                   contributions, diagnostics>>

Keep ==
    /\ phase = "aggregate" /\ next <= Len(resolved)
    /\ ~IsContributor(resolved[next])
    /\ primaries' = Append(primaries, resolved[next])
    /\ next' = next + 1
    /\ UNCHANGED <<bp, phase, manifest, resolved, parents, emitted,
                   contributions, diagnostics>>

PlanSharedParents ==
    /\ phase = "aggregate" /\ next > Len(resolved)
    /\ parents' = SharedParents(bp, primaries, manifest)
    /\ next' = 1
    /\ phase' = "emit"
    /\ UNCHANGED <<bp, manifest, resolved, primaries, emitted, contributions,
                   diagnostics>>

\* An emitter's error stops the run too, whatever was emitted before it.
EmitFails ==
    /\ phase = "emit" /\ next <= Len(primaries)
    /\ primaries[next] \in bp.aborts
    /\ phase' = "failed"
    /\ UNCHANGED <<bp, manifest, resolved, primaries, next, parents, emitted,
                   contributions, diagnostics>>

\* A later resource of the same name replaces the earlier one.
Emit(resources, reports) ==
    /\ emitted' = Overlay(emitted, resources)
    /\ diagnostics' = diagnostics \cup reports
    /\ next' = next + 1
    /\ UNCHANGED <<bp, phase, manifest, resolved, primaries, parents>>

\* What was contributed to n so far, with what one handler adds.
Contribute(given, values) ==
    [n \in DOMAIN given \cup DOMAIN values |->
        (IF n \in DOMAIN given THEN given[n] ELSE {})
            \cup (IF n \in DOMAIN values THEN {values[n]} ELSE {})]

EmitHandler ==
    /\ phase = "emit" /\ next <= Len(primaries)
    /\ LET h == primaries[next]
       IN  /\ h \in Handlers(bp) \ bp.aborts
           /\ \E resources \in HandlerResources(bp, h, manifest) :
                Emit(resources, HandlerDiagnostics(bp, h, manifest))
           /\ contributions' =
                Contribute(contributions, HandlerContributions(bp, h))

EmitPrimary ==
    /\ phase = "emit" /\ next <= Len(primaries)
    /\ LET r == primaries[next]
       IN  /\ r \notin Handlers(bp) \cup bp.aborts
           /\ Emit(PrimaryResources(bp, r), PrimaryDiagnostics(bp, r))
    /\ UNCHANGED contributions

\* A parent whose contributions disagree is reported and left out.
ContributedTo(n) == IF n \in DOMAIN contributions THEN contributions[n] ELSE {}
ConflictingParents == {n \in DOMAIN parents : Conflicting(ContributedTo(n))}

MergeSharedParents ==
    /\ phase = "emit" /\ next > Len(primaries)
    /\ emitted' = Overlay(emitted,
                          [n \in DOMAIN parents \ ConflictingParents |->
                              Merged(parents[n], ContributedTo(n))])
    /\ diagnostics' = diagnostics
                        \cup {Error(parents[n].source) : n \in ConflictingParents}
    /\ phase' = "done"
    /\ UNCHANGED <<bp, manifest, resolved, primaries, next, parents,
                   contributions>>

Step ==
    \/ OnRun
    \/ \E r \in Resources(bp) : Resolve(r) \/ ResolveFails(r)
    \/ AllResolved
    \/ Absorb
    \/ Keep
    \/ PlanSharedParents
    \/ EmitFails
    \/ EmitHandler
    \/ EmitPrimary
    \/ MergeSharedParents

Finished == phase \in {"done", "failed"} /\ UNCHANGED vars

Next == Step \/ Finished

\* One goroutine runs the pipeline's loops, so an enabled step is taken.
Spec == Init /\ [][Next]_vars /\ WF_vars(Step)

-----------------------------------------------------------------------------
(* Properties.                                                             *)

\* Every concrete name a transform of b can emit.
MappingNames(b) ==
    UNION {{ESMName(c, k) : k \in ExternalKeys(b, c)} :
              c \in OfKind(b, {"consumer"})}
FanoutNames(b) ==
    UNION {{TopicQueueName(c), SubscriptionName(c), TopicDLQName(c)} :
              c \in OfKind(b, {"consumer"})}
ConcreteNames(b) ==
    UNION {{FuncName(h) : h \in Handlers(b)},
           {RoleOf(b, h) : h \in Handlers(b)},
           {LayerName(b.layer[h]) : h \in {g \in Handlers(b) :
                                              b.layer[g] # NoLayer}},
           {RuleName(s) : s \in OfKind(b, {"schedule"})},
           MappingNames(b), FanoutNames(b), {StoreName},
           {PrimaryName(r) : r \in Resources(b)}}

\* Type invariant: the values each variable takes during a run.
TypeOK ==
    /\ bp \in Blueprint
    /\ phase \in {"start", "resolve", "aggregate", "emit", "done", "failed"}
    /\ manifest \in {"none", "failed", "noLambda", "lambda"}
    /\ resolved \in Seq(Resources(bp))
    /\ primaries \in Seq(Resources(bp))
    /\ next \in Nat \ {0}
    /\ DOMAIN parents \subseteq ConcreteNames(bp)
    /\ DOMAIN emitted \subseteq ConcreteNames(bp)
    /\ DOMAIN contributions \subseteq
            {SubscriptionName(c) : c \in OfKind(bp, {"consumer"})}
    /\ \A d \in diagnostics : d.level \in {"error", "warning"}

Errors == {d \in diagnostics : d.level = "error"}
Functions == {n \in DOMAIN emitted : emitted[n].type = "function"}

\* Every reference in the output names a resource of the output: a run that
\* reports no error leaves no ${resources.<name>...} dangling, whatever part of
\* the pipeline was to emit the target (primary, role, layer, fan-out, store).
ReferencesResolve ==
    phase = "done" /\ Errors = {} =>
        \A n \in DOMAIN emitted : emitted[n].refs \subseteq DOMAIN emitted

\* What a function may need from its role, read off the abstract blueprint.
Needs(h) ==
    [uses |-> Backings(bp, h),
     triggers |-> Consumers(bp, h) \cup Apis(bp, h),
     reads |-> ExternalSources(bp, h),
     tracing |-> h \in bp.tracing,
     vpc |-> {bp.placement[h]} \ {"none"},
     store |-> HasResourceLinks(bp, h)]

\* What a role can do once deployed: its seeded statements, and what the links
\* of every function that references it inject into it.
Granted(role) ==
    LET users == {n \in Functions : role \in emitted[n].refs}
        links == UNION {emitted[n].links : n \in users}
    IN  [uses |-> {x \in links : bp.kind[x] \in BackingKind},
         triggers |-> {x \in links : bp.kind[x] \in {"consumer", "api"}},
         reads |-> emitted[role].externalSources,
         tracing |-> emitted[role].tracing,
         vpc |-> {emitted[n].vpc : n \in users} \ {"none"},
         store |-> emitted[role].readsStore]

\* A shared role gives a function exactly what the function itself needs: no
\* handler inherits another's grants and none is left without its own
\* (buildAWSRolePlan: "a role may only be shared between handlers with
\* identical link sets").
LeastPrivilege ==
    phase = "done" =>
        \A n \in Functions : \A role \in emitted[n].refs \cap DOMAIN emitted :
            emitted[role].type = "role" =>
                Granted(role) = Needs(emitted[n].source)

\* The sharedBy annotation of a role lists its users, and the role is
\* attributed to one of them, whatever order the handlers were resolved in.
SharedByIsComplete ==
    phase = "done" /\ Errors = {} =>
        \A role \in {n \in DOMAIN emitted : emitted[n].type = "role"} :
            /\ emitted[role].sharedBy =
                {emitted[n].source : n \in {f \in Functions :
                                              role \in emitted[f].refs}}
            /\ emitted[role].source \in emitted[role].sharedBy

\* The two computations of "does this handler use the resources store" agree:
\* a function gets the store's env vars exactly when it uses a backing that is
\* no config, and then the store holds an entry for each of those; and there is
\* a store exactly when some role may read it (the drift that broke every
\* cache-backed handler).
StoreInStep ==
    phase = "done" =>
        /\ \A n \in Functions :
            LET needed == {x \in emitted[n].links :
                            bp.kind[x] \in BackingKind \ {"config"}}
            IN  /\ emitted[n].storeEnv <=> needed # {}
                /\ needed # {} =>
                    /\ StoreName \in DOMAIN emitted
                    /\ {PrimaryName(x) : x \in needed}
                            \subseteq emitted[StoreName].refs
        /\ StoreName \in DOMAIN emitted <=>
            \E role \in DOMAIN emitted :
                emitted[role].type = "role" /\ emitted[role].readsStore

\* A layer's compatibleRuntimes covers the runtime of every function using it.
LayersCoverRuntimes ==
    phase = "done" =>
        \A n \in Functions :
            \A l \in emitted[n].refs \cap DOMAIN emitted :
                emitted[l].type = "layer" =>
                    emitted[n].runtime \in emitted[l].runtimes

Reported(x) == \E d \in diagnostics : d.about = x
Triggers(name, h) ==
    name \in DOMAIN emitted /\ FuncName(h) \in emitted[name].refs

ScheduleArrives(s, h) == Triggers(RuleName(s), h) \/ Reported(s)
SourceArrives(x, h) ==
    LET n == ESMName(x[1], x[2])
    IN  Triggers(n, h) /\ emitted[n].source = x[1]

\* Two triggers of deployed handlers ask for the one name n: a schedule or an
\* external source absorbed twice, or two sources whose names join to n.
Contested(n) ==
    \E g, h \in {f \in Handlers(bp) : EmitsFunction(bp, f)} :
        \/ /\ g # h
           /\ \E s \in (Schedules(bp, g) \cap Schedules(bp, h)) \ bp.noExpression :
                n = RuleName(s)
        \/ \E x \in ExternalSources(bp, g), y \in ExternalSources(bp, h) :
            /\ g # h \/ x # y
            /\ n = ESMName(x[1], x[2]) /\ n = ESMName(y[1], y[2])

\* Every trigger a deployed handler absorbs reaches its function or is
\* reported: a schedule's rule targets it, an external source is polled for it,
\* a topic's fan-out queue is subscribed to the topic and selects it.  Only a
\* trigger whose resource name another one asks for too can fail to.
TriggersReachHandlers ==
    phase = "done" =>
        \A h \in {g \in Handlers(bp) : FuncName(g) \in DOMAIN emitted} :
            /\ \A s \in Schedules(bp, h) :
                ScheduleArrives(s, h) \/ Contested(RuleName(s))
            /\ \A x \in ExternalSources(bp, h) :
                SourceArrives(x, h) \/ Contested(ESMName(x[1], x[2]))
            /\ \A c \in Consumers(bp, h) :
                \/ SourceKind(bp, c) = "linked"
                \/ SourceKind(bp, c) = "external" /\ ExternalKeys(bp, c) # {}
                \/ Reported(c)
                \/ /\ TopicQueueName(c) \in DOMAIN emitted
                   /\ c \in emitted[FuncName(h)].pollLabels
                   /\ emitted[SubscriptionName(c)].topicArn

\* The absorbing handler emits one rule per absorbed schedule and one mapping
\* per external source, as the contract says, for its own function.
EveryAbsorberTriggered ==
    phase = "done" =>
        \A h \in {g \in Handlers(bp) : FuncName(g) \in DOMAIN emitted} :
            /\ \A s \in Schedules(bp, h) : ScheduleArrives(s, h)
            /\ \A x \in ExternalSources(bp, h) : SourceArrives(x, h)

\* Nothing emitted is ever withdrawn, and nothing is replaced (the driver keeps
\* the last of two resources of one name without reporting it) but the rule or
\* the mapping of a trigger that contests its name with another.
NothingReplaced ==
    [][\A n \in DOMAIN emitted :
        /\ n \in DOMAIN emitted'
        /\ emitted'[n] = emitted[n] \/ Contested(n)]_vars

\* A run ends, and then each handler has its function or an error names it,
\* unless the whole run was refused.
EveryHandlerSettled ==
    <>(\/ phase = "failed"
       \/ /\ phase = "done"
          /\ \A h \in Handlers(bp) : FuncName(h) \in DOMAIN emitted
                                       \/ Error(h) \in diagnostics)
=============================================================================
