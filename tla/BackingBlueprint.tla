--------------------------- MODULE BackingBlueprint ---------------------------
(***************************************************************************)
(* The backings and VPCs of a blueprint, and the resources their emitters  *)
(* make.                                                                   *)
(*                                                                         *)
(* A blueprint b is a record:                                              *)
(*   kind       resource -> "sqlDatabase", "cache", "vpc", "queue", ...    *)
(*   name       resource -> its spec.name, Absent when it has none or a    *)
(*              reference                                                  *)
(*   labels     handler or resource -> its labels, Absent when it has none *)
(*   selector   handler or resource -> the label selector it links by      *)
(*   auth       cache or database -> "iam", "password" or Absent           *)
(*   replicas   the databases with read replicas                           *)
(*   deferred   resource -> the fields of its spec that are references     *)
(*   preset     VPC -> its preset, Absent for none, "referenced" if        *)
(*              another blueprint owns the VPC                             *)
(*   aurora     deploy configuration: name -> whether Aurora is enabled    *)
(*   region     whether the deploy configuration has a region              *)
(*   validation whether the run only validates                             *)
(*   appName    whether the deploy configuration names the application     *)
(*   spec       queue, topic, bucket, datastore or config -> the fields    *)
(*              its emitter reads, as a record                             *)
(*   consumed   the queues and datastores a consumer reads                 *)
(*   place      topic -> its place in the lexical order of names           *)
(*   artefact   whether the manifest has a maintenance runner              *)
(* Labels values and names are sequences of the parts they are put         *)
(* together from; a name of the blueprint r reads as <<r>>.                *)
(***************************************************************************)
EXTENDS LinkSelectors, Naturals, Sequences, FiniteSets

CONSTANTS Blueprint,    \* the blueprints considered
          Absent        \* a field that is not there

When(condition, f) == IF condition THEN f ELSE <<>>

OwnLabels(b, r) == IF b.labels[r] = Absent THEN NoLabels ELSE b.labels[r]
OfBacking(b, kind) == {r \in DOMAIN b.kind : b.kind[r] = kind}

\* What keys the deploy configuration and names the internal labels.
LogicalName(b, r) == IF b.name[r] # Absent THEN b.name[r] ELSE <<r>>

\* Anything but iam is a password, the default.
AuthMode(b, r) == IF b.auth[r] = "iam" THEN "iam" ELSE "password"

\* The key of a resource wins over the global key, which names none.
DeployConfig(config, name, fallback) ==
    CASE name \in DOMAIN config -> config[name]
      [] name \notin DOMAIN config /\ <<>> \in DOMAIN config -> config[<<>>]
      [] OTHER -> fallback

Error(r, what) == [level |-> "error", about |-> r, what |-> what]
Warning(r, what) == [level |-> "warning", about |-> r, what |-> what]

\* A field that decides what is emitted cannot wait for the deploy engine.
DeferredErrors(b, r, fields) == {Error(r, f) : f \in fields \cap b.deferred[r]}

\* The VPC a resource is placed in; there is at most one.
PlacedIn(b, r) ==
    {v \in OfBacking(b, "vpc") : Selects(b.selector[v], OwnLabels(b, r))}
VpcOf(b, r) == CHOOSE v \in PlacedIn(b, r) : TRUE
VpcPreset(b, v) == IF b.preset[v] = Absent THEN "standard" ELSE b.preset[v]

VpcName(v) == <<v, "flex_vpc">>

\* A security group by the name a VPC mints it under.
SecurityGroup(r, role) == <<r, role>>

(***************************************************************************)
(* An emitted resource: the labels and the selector its links are made by, *)
(* whether its label map is the abstract resource's own, the resources and *)
(* values it refers to, its groups as <<VPC, group>>, the secrets it uses  *)
(* as <<resource, field>>, whether RDS keeps a master secret for it, and   *)
(* what else of its spec and annotations something depends on.             *)
(***************************************************************************)
NoSpec == <<>>

Concrete(type, r) ==
    [type |-> type, of |-> r, labels |-> NoLabels, selector |-> NoLabels,
     shared |-> FALSE, refs |-> {}, groups |-> {}, secrets |-> {}, master |-> FALSE,
     spec |-> NoSpec]

\* The label map is handed on by reference, not copied.
WithOwnLabels(b, r, resource) ==
    [resource EXCEPT !.labels = OwnLabels(b, r), !.shared = b.labels[r] # Absent]

\* What is emitted is put together from single entries; of two under one name the
\* first is taken.
Entry(name, resource) == [n \in {name} |-> resource]
f ++ g ==
    [n \in DOMAIN f \cup DOMAIN g |-> IF n \in DOMAIN f THEN f[n] ELSE g[n]]

EmitResult(resources, values, diagnostics) ==
    [resources |-> resources, values |-> values, diagnostics |-> diagnostics]
NothingEmitted(diagnostics) == EmitResult(<<>>, <<>>, diagnostics)
=============================================================================
