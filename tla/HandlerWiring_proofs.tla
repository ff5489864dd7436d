------------------------- MODULE HandlerWiring_proofs -------------------------
(***************************************************************************)
(* What the function of a handler ends up with, for every wiring of the    *)
(* assumed shape and every order of its edges: the labels and settings by  *)
(* which its sources and its VPC find it, or a report that names what was  *)
(* left out.                                                               *)
(***************************************************************************)
EXTENDS HandlerWiring, WellFoundedInduction, FiniteSetTheorems, TLAPS

-----------------------------------------------------------------------------
(* Sets and least members.                                                 *)

\* A set of numbers has a least member.
LEMMA LeastNumber ==
    ASSUME NEW T, T \subseteq Nat, T # {}
    PROVE  \E i \in T : \A j \in T : i <= j
<1> DEFINE less == {p \in Nat \X Nat : p[1] < p[2]}
<1>1. OpToRel(<, Nat) = less
  BY DEF OpToRel
<1>2. IsWellFoundedOn(less, Nat)
  BY <1>1, NatLessThanWellFounded
<1>3. \E i \in T : \A j \in T : ~(<<j, i>> \in less)
  <2> HIDE DEF less
  <2> QED
    BY <1>2, WFMin
<1>4. \A i, j \in T : <<j, i>> \in less <=> j < i
  OBVIOUS
<1>5. \A i, j \in T : ~(j < i) => i <= j
  OBVIOUS
<1> HIDE DEF less
<1> QED
  BY <1>3, <1>4, <1>5

\* Least returns a member of the names it is given.
LEMMA LeastIsMember ==
    ASSUME NEW x, NEW names, names # {}, \A n \in names : x.rank[n] \in Nat
    PROVE  Least(x, names) \in names
<1> DEFINE T == {x.rank[n] : n \in names}
<1>1. T \subseteq Nat /\ T # {}
  OBVIOUS
<1>2. \E i \in T : \A j \in T : i <= j
  <2> HIDE DEF T
  <2> QED
    BY <1>1, LeastNumber
<1>3. \E n \in names : \A m \in names : x.rank[n] <= x.rank[m]
  BY <1>2
<1> QED
  BY <1>3 DEF Least

\* A finite set of at most one member has no two.
LEMMA AtMostOne ==
    ASSUME NEW S, IsFiniteSet(S), ~(Cardinality(S) > 1), NEW x \in S, NEW y \in S
    PROVE  x = y
<1> SUFFICES ASSUME x # y PROVE FALSE
  OBVIOUS
<1>1. IsFiniteSet({x}) /\ Cardinality({x}) = 1
  BY FS_Singleton
<1>2. IsFiniteSet({x} \cup {y}) /\ Cardinality({x} \cup {y}) = 2
  <2> DEFINE one == {x}
  <2>1. y \notin one /\ IsFiniteSet(one) /\ Cardinality(one) = 1
    BY <1>1
  <2> HIDE DEF one
  <2>2. IsFiniteSet(one \cup {y}) /\ Cardinality(one \cup {y}) = Cardinality(one) + 1
    BY <2>1, FS_AddElement
  <2>3. Cardinality(one \cup {y}) = 2
    BY <2>1, <2>2
  <2> QED
    BY <2>2, <2>3 DEF one
<1>3. {x} \cup {y} \in SUBSET S
  OBVIOUS
<1>4. Cardinality({x} \cup {y}) <= Cardinality(S)
  BY <1>3, FS_Subset
<1>5. Cardinality(S) \in Nat
  BY FS_CardinalityType
<1> QED
  BY <1>2, <1>4, <1>5

\* A set of more than one member has two.
LEMMA MoreThanOne ==
    ASSUME NEW S, Cardinality(S) > 1
    PROVE  \E x, y \in S : x # y
<1> SUFFICES ASSUME \A x, y \in S : x = y PROVE FALSE
  OBVIOUS
<1>1. CASE S = {}
  BY <1>1, FS_EmptySet
<1>2. CASE S # {}
  <2> PICK x \in S : TRUE
    BY <1>2
  <2>1. S = {x}
    OBVIOUS
  <2> QED
    BY <2>1, FS_Singleton
<1> QED
  BY <1>1, <1>2

\* What a finite set is mapped to is finite.
LEMMA FiniteImage ==
    ASSUME NEW S, IsFiniteSet(S), NEW f
    PROVE  IsFiniteSet({f[x] : x \in S})
<1> DEFINE T == {f[x] : x \in S}
           g == [x \in S |-> f[x]]
<1>1. g \in Surjection(S, T)
  BY DEF Surjection
<1> QED
  BY <1>1, FS_Surjection

-----------------------------------------------------------------------------
(* Labels.                                                                 *)

\* The keys that only the transformer writes.
Reserved(key) ==
    \/ key = <<"guardTarget">>
    \/ key = <<"apiTarget">>
    \/ \E c : key = <<"topicPoll", c>>

\* No source or VPC of the wiring x selects by one of them.
ReservedKeysUnused ==
    \A s \in DOMAIN w.kind \cup Vpcs(w) : \A key \in DOMAIN w.selector[s] :
        ~Reserved(key)

\* A key of both maps has the value of the second.
LEMMA LaidOver ==
    ASSUME NEW f, NEW g
    PROVE  /\ DOMAIN LabelsAnd(f, g) = DOMAIN f \cup DOMAIN g
           /\ \A k \in DOMAIN g : LabelsAnd(f, g)[k] = g[k]
           /\ \A k \in DOMAIN f \ DOMAIN g : LabelsAnd(f, g)[k] = f[k]
BY DEF LabelsAnd

LEMMA LabelDomains ==
    /\ DOMAIN NoLabels = {}
    /\ \A k, v : DOMAIN OneLabel(k, v) = {k}
BY DEF NoLabels, OneLabel

\* What a map of reserved keys is laid over keeps its other labels.
LEMMA ReservedLaidOver ==
    ASSUME NEW f, NEW g, \A k \in DOMAIN g : Reserved(k)
    PROVE  \A k : ~Reserved(k) =>
                /\ k \in DOMAIN LabelsAnd(f, g) <=> k \in DOMAIN f
                /\ k \in DOMAIN f => LabelsAnd(f, g)[k] = f[k]
<1> DEFINE all == LabelsAnd(f, g)
<1>1. /\ DOMAIN all = DOMAIN f \cup DOMAIN g
      /\ \A k \in DOMAIN f \ DOMAIN g : all[k] = f[k]
  BY LaidOver
<1> HIDE DEF all
<1>2. \A k : ~Reserved(k) =>
             /\ k \in DOMAIN all <=> k \in DOMAIN f
             /\ k \in DOMAIN f => all[k] = f[k]
  BY <1>1
<1> QED
  BY <1>2 DEF all

\* The labels the transformer itself adds are under keys it reserves.
LEMMA TransformerLabels ==
    /\ \A k \in DOMAIN GuardTargetLabel : Reserved(k)
    /\ \A k \in DOMAIN RouteLabel : Reserved(k)
    /\ \A b : \A k \in DOMAIN PollLabel(b) : Reserved(k)
<1>1. ASSUME NEW k, NEW v, NEW l, Reserved(k), l = OneLabel(k, v) \/ l = NoLabels
      PROVE  \A x \in DOMAIN l : Reserved(x)
  <2>1. DOMAIN l = {k} \/ DOMAIN l = {}
    BY <1>1, LabelDomains
  <2> QED
    BY <2>1, <1>1
<1>2. \A k \in DOMAIN GuardTargetLabel : Reserved(k)
  <2> DEFINE key == <<"guardTarget">>
             target == <<CHOOSE a \in IsParent("api") : TRUE, w.guard>>
  <2>1. Reserved(key)
    BY DEF Reserved
  <2>2. GuardTargetLabel = OneLabel(key, target) \/ GuardTargetLabel = NoLabels
    BY Zenon DEF GuardTargetLabel
  <2> HIDE DEF key, target
  <2> QED
    BY <2>1, <2>2, <1>1
<1>3. \A k \in DOMAIN RouteLabel : Reserved(k)
  <2> DEFINE key == <<"apiTarget">>
             target == <<CHOOSE a \in IsParent("api") : TRUE, w.protocol>>
  <2>1. Reserved(key)
    BY DEF Reserved
  <2>2. RouteLabel = OneLabel(key, target) \/ RouteLabel = NoLabels
    BY Zenon DEF RouteLabel
  <2> HIDE DEF key, target
  <2> QED
    BY <2>1, <2>2, <1>1
<1>4. ASSUME NEW b
      PROVE  \A k \in DOMAIN PollLabel(b) : Reserved(k)
  <2> DEFINE key == <<"topicPoll", b.consumer>>
             polled == "true"
  <2>1. Reserved(key)
    BY DEF Reserved
  <2>2. PollLabel(b) = OneLabel(key, polled) \/ PollLabel(b) = NoLabels
    BY Zenon DEF PollLabel
  <2> HIDE DEF key, polled
  <2> QED
    BY <2>1, <2>2, <1>1
<1> QED
  BY <1>2, <1>3, <1>4

-----------------------------------------------------------------------------
(* What a wiring allows.  These name the sets of a wiring x, so that a step *)
(* that keeps the wiring visibly keeps them.                                *)

ConsumersOf(x) == {p \in Parents(x) : x.parents[p] = "consumer"}
LinkedOf(x, c) == {s \in DOMAIN x.kind : Selects(x.selector[s], x.labels[c])}
KindsOf(x) == {x.kind[s] : s \in DOMAIN x.kind} \cup {x.spec[c] : c \in Parents(x)}

BindingSpace(x) ==
    [consumer : ConsumersOf(x), kind : KindsOf(x),
     source : DOMAIN x.kind \cup {Absent}, ambiguous : BOOLEAN]

\* A source that is bound selects the consumer.
SourceFits(x, b) == b.source # Absent => b.source \in LinkedOf(x, b.consumer)

\* A placement is none, a link of the handler, or what all components agree on.
PlacementFits(x, pl) ==
    \/ pl = Unplaced
    \/ \E v \in VpcsOf(x, Handler) : pl = DirectPlacement(v)
    \/ \E p \in Parents(x) : \E v \in VpcsOf(x, p) :
            /\ pl = Inherited(x, p, v)
            /\ \A q \in Parents(x) : VpcsOf(x, q) \subseteq {v}

\* Whatever a consumer is bound to fits.
LEMMA BindingsFit ==
    ASSUME IsWiring(w), NEW c \in ConsumersOf(w), NEW b \in SourceBindings(c)
    PROVE  b \in BindingSpace(w) /\ b.consumer = c /\ SourceFits(w, b)
<1>1. LinkedSources(c) = LinkedOf(w, c) /\ LinkedOf(w, c) \subseteq DOMAIN w.kind
  BY DEF LinkedSources, LinkedOf, Sources
<1>2. ASSUME NEW s \in LinkedOf(w, c), NEW a \in BOOLEAN, b = Binding(c, w.kind[s], s, a)
      PROVE  b \in BindingSpace(w) /\ b.consumer = c /\ SourceFits(w, b)
  <2>1. w.kind[s] \in KindsOf(w)
    BY <1>1 DEF KindsOf
  <2>2. b.consumer = c /\ b.source = s
    BY <1>2 DEF Binding
  <2> QED
    BY <1>1, <1>2, <2>1, <2>2 DEF BindingSpace, SourceFits, Binding
<1>3. CASE LinkedSources(c) = {}
  <2>1. b = Binding(c, w.spec[c], Absent, FALSE)
    BY <1>3 DEF SourceBindings
  <2>2. w.spec[c] \in KindsOf(w)
    BY DEF KindsOf, ConsumersOf
  <2> QED
    BY <2>1, <2>2 DEF Binding, BindingSpace, SourceFits
<1>4. CASE LinkedSources(c) # {} /\ Cardinality(LinkedSources(c)) = 1
  <2>1. \E s \in LinkedSources(c) : b = Binding(c, w.kind[s], s, FALSE)
    BY <1>4 DEF SourceBindings
  <2> QED
    BY <2>1, <1>1, <1>2
<1>5. CASE /\ LinkedSources(c) # {} /\ Cardinality(LinkedSources(c)) # 1
           /\ NamedSources(c) # {}
  <2>1. \E s \in NamedSources(c) : b = Binding(c, w.kind[s], s, FALSE)
    BY <1>5 DEF SourceBindings
  <2> QED
    BY <2>1, <1>1, <1>2 DEF NamedSources
<1>6. CASE /\ LinkedSources(c) # {} /\ Cardinality(LinkedSources(c)) # 1
           /\ NamedSources(c) = {}
  <2> DEFINE s == Least(w, LinkedSources(c))
  <2>1. b = Binding(c, w.kind[s], s, TRUE)
    BY <1>6 DEF SourceBindings
  <2>2. \A n \in LinkedSources(c) : w.rank[n] \in Nat
    BY <1>1 DEF IsWiring
  <2>3. s \in LinkedSources(c)
    BY <1>6, <2>2, LeastIsMember
  <2> HIDE DEF s
  <2> QED
    BY <2>1, <2>3, <1>1, <1>2
<1> QED
  BY <1>3, <1>4, <1>5, <1>6

\* The placements that can be inherited are one per VPC of a component.
LEMMA Inheritable ==
    ASSUME NEW x, NEW ps
    PROVE  /\ \A pl \in InheritablePlacements(x, ps) :
                 \E p \in ps : \E v \in VpcsOf(x, p) : pl = Inherited(x, p, v)
           /\ \A p \in ps : \A v \in VpcsOf(x, p) :
                 Inherited(x, p, v) \in InheritablePlacements(x, ps)
<1> DEFINE edges == {y \in ps \X Vpcs(x) : y[2] \in VpcsOf(x, y[1])}
<1>1. \A e \in edges : e[1] \in ps /\ e[2] \in VpcsOf(x, e[1])
  OBVIOUS
<1>2. \A p \in ps : \A v \in VpcsOf(x, p) :
        <<p, v>> \in edges /\ <<p, v>>[1] = p /\ <<p, v>>[2] = v
  BY DEF VpcsOf
<1>3. InheritablePlacements(x, ps) = {Inherited(x, e[1], e[2]) : e \in edges}
  BY DEF InheritablePlacements
<1> HIDE DEF edges
<1>4. ASSUME NEW pl \in InheritablePlacements(x, ps)
      PROVE  \E p \in ps : \E v \in VpcsOf(x, p) : pl = Inherited(x, p, v)
  BY <1>1, <1>3, <1>4
<1>5. ASSUME NEW p \in ps, NEW v \in VpcsOf(x, p)
      PROVE  Inherited(x, p, v) \in InheritablePlacements(x, ps)
  <2> PICK e \in edges : e[1] = p /\ e[2] = v
    BY <1>2
  <2> QED
    BY <1>3
<1> QED
  BY <1>4, <1>5

\* The VPCs of the placements that can be inherited are those of the components.
LEMMA InheritableVpcs ==
    ASSUME NEW x
    PROVE  {q.vpc : q \in InheritablePlacements(x, Parents(x))} =
              UNION {VpcsOf(x, p) : p \in Parents(x)}
<1> DEFINE S == InheritablePlacements(x, Parents(x))
           vpcs == {q.vpc : q \in S}
           all == UNION {VpcsOf(x, p) : p \in Parents(x)}
<1>1. \A pl \in S : \E p \in Parents(x) : \E v \in VpcsOf(x, p) : pl = Inherited(x, p, v)
  BY Inheritable
<1>2. \A p \in Parents(x) : \A v \in VpcsOf(x, p) : Inherited(x, p, v) \in S
  BY Inheritable
<1>3. \A p, v : Inherited(x, p, v).vpc = v
  BY DEF Inherited
<1> HIDE DEF S
<1>4. ASSUME NEW v \in vpcs PROVE v \in all
  BY <1>1, <1>3
<1>5. ASSUME NEW v \in all PROVE v \in vpcs
  BY <1>2, <1>3
<1> HIDE DEF vpcs, all
<1>6. vpcs = all
  BY <1>4, <1>5
<1> QED
  BY <1>6 DEF vpcs, all, S

\* In every order, the placement taken is that of the first component by name that
\* has one, and without a conflict it is in the VPC of every component.
LEMMA TakenPlacement ==
    ASSUME NEW x, IsWiring(x), InheritablePlacements(x, Parents(x)) # {},
           ~PlacementsConflict(InheritablePlacements(x, Parents(x))),
           NEW order \in OrdersOf(InheritablePlacements(x, Parents(x)))
    PROVE  LET first == Least(x, {q \in Parents(x) : VpcsOf(x, q) # {}})
           IN  /\ first \in Parents(x)
               /\ \E v \in VpcsOf(x, first) :
                    /\ FirstPlacement(x, order) = Inherited(x, first, v)
                    /\ \A q \in Parents(x) : VpcsOf(x, q) \subseteq {v}
<1> DEFINE S == InheritablePlacements(x, Parents(x))
           placed == {q \in Parents(x) : VpcsOf(x, q) # {}}
           froms == {order[j].from : j \in DOMAIN order}
           vpcs == {q.vpc : q \in S}
           all == UNION {VpcsOf(x, p) : p \in Parents(x)}
           taken == FirstPlacement(x, order)
           at == CHOOSE i \in DOMAIN order : order[i].from = Least(x, froms)
<1>1. \A pl \in S : \E p \in Parents(x) : \E v \in VpcsOf(x, p) : pl = Inherited(x, p, v)
  BY Inheritable
<1>2. \A p \in Parents(x) : \A v \in VpcsOf(x, p) : Inherited(x, p, v) \in S
  BY Inheritable
<1>3. \A p, v : Inherited(x, p, v).from = p /\ Inherited(x, p, v).vpc = v
  BY DEF Inherited
<1>4. {order[i] : i \in DOMAIN order} = S
  BY DEF OrdersOf
<1>5. taken = order[at]
  BY DEF FirstPlacement
<1>6. ~(Cardinality(vpcs) > 1) /\ S # {}
  BY DEF PlacementsConflict
<1>7. vpcs = all
  BY InheritableVpcs
<1> HIDE DEF S, taken, vpcs
<1>8. froms = placed
  <2>1. ASSUME NEW p \in froms PROVE p \in placed
    <3> PICK j \in DOMAIN order : p = order[j].from
      OBVIOUS
    <3>1. order[j] \in S
      BY <1>4
    <3> QED
      BY <3>1, <1>1, <1>3
  <2>2. ASSUME NEW p \in placed PROVE p \in froms
    <3> PICK v \in VpcsOf(x, p) : TRUE
      OBVIOUS
    <3>1. Inherited(x, p, v) \in S
      BY <1>2
    <3>2. \E j \in DOMAIN order : order[j] = Inherited(x, p, v)
      BY <3>1, <1>4
    <3> QED
      BY <3>2, <1>3
  <2> HIDE DEF froms, placed
  <2> QED
    BY <2>1, <2>2
<1>9. Least(x, placed) \in placed
  <2>1. placed # {}
    BY <1>1, <1>6
  <2>2. \A n \in placed : x.rank[n] \in Nat
    BY DEF IsWiring
  <2> HIDE DEF placed
  <2> QED
    BY <2>1, <2>2, LeastIsMember
<1>10. at \in DOMAIN order /\ order[at].from = Least(x, placed)
  <2>1. \E i \in DOMAIN order : order[i].from = Least(x, froms)
    BY <1>8, <1>9
  <2>2. at \in DOMAIN order /\ order[at].from = Least(x, froms)
    <3> HIDE DEF froms
    <3> QED
      BY <2>1
  <2> QED
    BY <2>2, <1>8
<1> HIDE DEF at, froms
<1>11. taken \in S /\ taken.from = Least(x, placed)
  BY <1>4, <1>5, <1>10
<1>12. PICK p \in Parents(x) : \E v \in VpcsOf(x, p) : taken = Inherited(x, p, v)
  BY <1>1, <1>11
<1>. PICK v \in VpcsOf(x, p) : taken = Inherited(x, p, v)
  BY <1>12
<1>13. p = Least(x, placed)
  BY <1>3, <1>11
<1>14. IsFiniteSet(vpcs)
  <2>1. all \subseteq Vpcs(x)
    BY DEF VpcsOf
  <2> QED
    BY <2>1, <1>7, FS_Subset DEF IsWiring
<1>15. \A q \in Parents(x) : \A u \in VpcsOf(x, q) : u = v
  <2>1. \A q \in Parents(x) : \A u \in VpcsOf(x, q) : u \in vpcs
    BY <1>7
  <2> QED
    BY <1>6, <1>14, <2>1, AtMostOne
<1> QED
  BY <1>13, <1>15 DEF taken

-----------------------------------------------------------------------------
(* What one binding stamps.                                                *)

SettingFields == {"sqsBatch", "sqsFailures", "streamBatch", "streamFailures",
                  "position", "events", "stamped"}

\* A binding stamps the fields of its own kind and leaves the others alone.
LEMMA StampedFields ==
    ASSUME DOMAIN settings = SettingFields, NEW b
    PROVE  /\ DOMAIN Stamped(b) = SettingFields
           /\ Stamped(b).stamped = settings.stamped + 1
           /\ b.kind \in {"queue", "topic"} =>
                /\ Stamped(b).sqsBatch = Batch(b.consumer, settings.sqsBatch)
                /\ Stamped(b).sqsFailures =
                     (settings.sqsFailures \/ b.consumer \in w.failures)
           /\ b.kind \notin {"queue", "topic"} =>
                /\ Stamped(b).sqsBatch = settings.sqsBatch
                /\ Stamped(b).sqsFailures = settings.sqsFailures
           /\ b.kind = "datastore" =>
                /\ Stamped(b).streamBatch = Batch(b.consumer, settings.streamBatch)
                /\ Stamped(b).streamFailures =
                     (settings.streamFailures \/ b.consumer \in w.failures)
                /\ Stamped(b).position =
                     IF b.consumer \in w.fromStart THEN "start" ELSE "latest"
           /\ b.kind # "datastore" =>
                /\ Stamped(b).streamBatch = settings.streamBatch
                /\ Stamped(b).streamFailures = settings.streamFailures
                /\ Stamped(b).position = settings.position
           /\ b.kind = "bucket" => Stamped(b).events = EventsAppended(b.consumer)
           /\ b.kind # "bucket" => Stamped(b).events = settings.events
<1>1. CASE b.kind \in {"queue", "topic"}
  BY <1>1 DEF Stamped, SettingFields
<1>2. CASE b.kind = "datastore"
  BY <1>2 DEF Stamped, SettingFields
<1>3. CASE b.kind = "bucket"
  BY <1>3 DEF Stamped, SettingFields
<1>4. CASE b.kind \notin {"queue", "topic", "datastore", "bucket"}
  BY <1>4 DEF Stamped, SettingFields
<1> QED
  BY <1>1, <1>2, <1>3, <1>4

-----------------------------------------------------------------------------
(* The resolver: its state fits the wiring in every phase.                 *)

Phases == {"link", "classify", "label", "stamp", "done", "failed"}

Resolved ==
    /\ w \in Wiring
    /\ phase \in Phases
    /\ pending \subseteq Parents(w) \cup VpcsOf(w, Handler)
    /\ consumers \in Seq(ConsumersOf(w))
    /\ bindings \in Seq(BindingSpace(w))
    /\ Len(bindings) <= Len(consumers)
    /\ \A i \in 1..Len(bindings) : bindings[i].consumer = consumers[i]
    /\ \A i \in 1..Len(bindings) : SourceFits(w, bindings[i])
    /\ PlacementFits(w, placement)
    /\ DOMAIN settings = SettingFields
    /\ settings.stamped \in 0..Len(bindings)
    /\ phase \notin {"stamp", "done"} => settings.stamped = 0

LEMMA ResolvedInit == Init => Resolved
BY DEF Init, Resolved, Phases, PlacementFits, SettingFields

\* The resolver's part of the state is left alone by the steps of the emitter.
LEMMA ResolvedKept ==
    ASSUME Resolved, UNCHANGED <<w, pending, consumers, bindings, placement>>,
           phase' \in Phases, DOMAIN settings' = SettingFields,
           settings'.stamped \in 0..Len(bindings),
           phase' \notin {"stamp", "done"} => settings'.stamped = 0
    PROVE  Resolved'
BY DEF Resolved

LEMMA ResolvedLink ==
    ASSUME Resolved, NEW x \in pending, AddInboundLink(x)
    PROVE  Resolved'
<1>1. /\ w' = w /\ phase' = phase /\ bindings' = bindings /\ settings' = settings
      /\ pending' = pending \ {x} /\ phase = "link" /\ IsWiring(w)
  BY WiringShape DEF AddInboundLink, Resolved
<1>2. consumers' \in Seq(ConsumersOf(w)) /\ Len(consumers') \in Nat
      /\ Len(bindings) <= Len(consumers')
      /\ \A i \in 1..Len(bindings) : consumers'[i] = consumers[i]
  <2>1. CASE x \in ConsumersOf(w)
    <3>1. consumers' = Append(consumers, x)
      BY <2>1 DEF AddInboundLink, ConsumersOf, IsParent
    <3> QED
      BY <2>1, <3>1 DEF Resolved
  <2>2. CASE x \notin ConsumersOf(w)
    <3>1. consumers' = consumers
      BY <2>2 DEF AddInboundLink, ConsumersOf, IsParent
    <3> QED
      BY <3>1 DEF Resolved
  <2> QED
    BY <2>1, <2>2
<1>3. PlacementFits(w, placement')
  <2>1. CASE x \in Vpcs(w)
    <3>1. x \in VpcsOf(w, Handler)
      BY <2>1, <1>1 DEF Resolved, IsWiring
    <3>2. placement' = DirectPlacement(x)
      BY <2>1 DEF AddInboundLink
    <3> QED
      BY <3>1, <3>2 DEF PlacementFits
  <2>2. CASE x \notin Vpcs(w)
    BY <2>2 DEF AddInboundLink, Resolved
  <2> QED
    BY <2>1, <2>2
<1> QED
  BY <1>1, <1>2, <1>3 DEF Resolved

LEMMA ResolvedClassify ==
    ASSUME Resolved, ClassifyConsumer
    PROVE  Resolved'
<1> DEFINE c == consumers[Len(bindings) + 1]
<1>1. /\ UNCHANGED <<w, phase, pending, consumers, placement, settings>>
      /\ Len(bindings) < Len(consumers) /\ phase = "classify" /\ IsWiring(w)
  BY WiringShape DEF ClassifyConsumer, Resolved
<1>2. c \in ConsumersOf(w)
  BY <1>1 DEF Resolved
<1>3. PICK b \in SourceBindings(c) : bindings' = Append(bindings, b)
  BY DEF ClassifyConsumer
<1>4. b \in BindingSpace(w) /\ b.consumer = c /\ SourceFits(w, b)
  BY <1>1, <1>2, <1>3, BindingsFit
<1>5. /\ bindings' \in Seq(BindingSpace(w)) /\ Len(bindings') = Len(bindings) + 1
      /\ \A i \in 1..Len(bindings) : bindings'[i] = bindings[i]
      /\ bindings'[Len(bindings) + 1] = b
  BY <1>3, <1>4 DEF Resolved
<1>6. \A i \in 1..Len(bindings') : i \in 1..Len(bindings) \/ i = Len(bindings) + 1
  BY <1>5 DEF Resolved
<1>7. \A i \in 1..Len(bindings') : bindings'[i].consumer = consumers[i]
  BY <1>4, <1>5, <1>6 DEF Resolved
<1>8. \A i \in 1..Len(bindings') : SourceFits(w, bindings'[i])
  BY <1>4, <1>5, <1>6 DEF Resolved
<1>9. Len(bindings') <= Len(consumers) /\ settings.stamped \in 0..Len(bindings')
  BY <1>1, <1>5 DEF Resolved
<1> QED
  BY <1>1, <1>5, <1>7, <1>8, <1>9 DEF Resolved

LEMMA ResolvedInherit ==
    ASSUME Resolved, InheritPlacement
    PROVE  Resolved'
<1> DEFINE inheritable == InheritablePlacements(w, Parents(w))
<1>1. /\ UNCHANGED <<w, pending, consumers, bindings, settings>>
      /\ phase = "classify" /\ IsWiring(w)
  BY WiringShape DEF InheritPlacement, Resolved
<1>2. /\ phase' \in {"label", "failed"}
      /\ \/ placement' = placement
         \/ /\ inheritable # {} /\ ~PlacementsConflict(inheritable)
            /\ \E order \in OrdersOf(inheritable) :
                    placement' = FirstPlacement(w, order)
  <2>1. CASE placement.vpc # Absent \/ inheritable = {}
    BY <2>1 DEF InheritPlacement
  <2>2. CASE placement.vpc = Absent /\ inheritable # {} /\ PlacementsConflict(inheritable)
    BY <2>2 DEF InheritPlacement
  <2>3. CASE placement.vpc = Absent /\ inheritable # {} /\ ~PlacementsConflict(inheritable)
    BY <2>3 DEF InheritPlacement
  <2> QED
    BY <2>1, <2>2, <2>3
<1> HIDE DEF inheritable
<1>3. CASE placement' = placement
  BY <1>1, <1>2, <1>3 DEF Resolved, Phases
<1>4. CASE /\ inheritable # {} /\ ~PlacementsConflict(inheritable)
           /\ \E order \in OrdersOf(inheritable) : placement' = FirstPlacement(w, order)
  <2> PICK order \in OrdersOf(inheritable) : placement' = FirstPlacement(w, order)
    BY <1>4
  <2> DEFINE first == Least(w, {q \in Parents(w) : VpcsOf(w, q) # {}})
  <2>1. /\ first \in Parents(w)
        /\ \E v \in VpcsOf(w, first) :
             /\ placement' = Inherited(w, first, v)
             /\ \A q \in Parents(w) : VpcsOf(w, q) \subseteq {v}
    BY <1>1, <1>4, TakenPlacement DEF inheritable
  <2> HIDE DEF first
  <2>2. PlacementFits(w, placement')
    BY <2>1 DEF PlacementFits
  <2> QED
    BY <1>1, <1>2, <2>2 DEF Resolved, Phases
<1> QED
  BY <1>2, <1>3, <1>4

\* No step of the resolver or the emitter leaves what the wiring allows.
LEMMA ResolvedStep ==
    ASSUME Resolved, [Next]_vars
    PROVE  Resolved'
<1>1. ASSUME NEW x \in pending, AddInboundLink(x) PROVE Resolved'
  BY <1>1, ResolvedLink
<1>2. CASE AllLinked
  <2>1. settings' = settings /\ DOMAIN settings = SettingFields
        /\ settings.stamped = 0 /\ settings.stamped \in 0..Len(bindings)
    BY <1>2 DEF AllLinked, Resolved
  <2> QED
    BY <1>2, <2>1, ResolvedKept DEF AllLinked, Phases
<1>3. CASE ClassifyConsumer
  BY <1>3, ResolvedClassify
<1>4. CASE InheritPlacement
  BY <1>4, ResolvedInherit
<1>5. CASE ApplyLambdaLabels
  <2>1. settings' = settings /\ DOMAIN settings = SettingFields
        /\ settings.stamped = 0 /\ settings.stamped \in 0..Len(bindings)
    BY <1>5 DEF ApplyLambdaLabels, Resolved
  <2> QED
    BY <1>5, <2>1, ResolvedKept DEF ApplyLambdaLabels, Phases
<1>6. CASE StampConsumerBinding
  <2>1. settings'.stamped = settings.stamped + 1 /\ DOMAIN settings' = SettingFields
    BY <1>6, StampedFields DEF StampConsumerBinding, Resolved
  <2>2. settings'.stamped \in 0..Len(bindings)
    BY <1>6, <2>1 DEF StampConsumerBinding, Resolved
  <2> QED
    BY <1>6, <2>1, <2>2, ResolvedKept DEF StampConsumerBinding, Phases
<1>7. CASE FinishFunction
  <2>1. settings' = settings /\ DOMAIN settings = SettingFields
        /\ settings.stamped \in 0..Len(bindings)
    BY <1>7 DEF FinishFunction, Resolved
  <2> QED
    BY <1>7, <2>1, ResolvedKept DEF FinishFunction, Phases
<1>8. CASE UNCHANGED vars
  BY <1>8 DEF vars, Resolved
<1> QED
  BY <1>1, <1>2, <1>3, <1>4, <1>5, <1>6, <1>7, <1>8 DEF Next, Step, Finished

-----------------------------------------------------------------------------
(* The placement is the wiring's alone.                                    *)

\* The handler's own link is still to come or has placed it, until the placements
\* of the components are looked at; from then on the wiring decides.
PlacementFollows ==
    /\ phase # "link" => pending = {}
    /\ phase \in {"link", "classify"} =>
        \/ placement = Unplaced /\ VpcsOf(w, Handler) \subseteq pending
        \/ \E v \in VpcsOf(w, Handler) : placement = DirectPlacement(v)
    /\ phase = "failed" => \E u, v \in Candidates : u # v
    /\ phase \in {"label", "stamp", "done"} =>
        /\ Candidates = {} => placement = Unplaced
        /\ \A v \in Candidates : placement = PlacementByName(v)

LEMMA PlacementInit == Init => PlacementFollows
BY DEF Init, PlacementFollows

\* Steps that leave the wiring, the edges and the placement alone.
LEMMA PlacementKept ==
    ASSUME PlacementFollows, UNCHANGED <<w, pending, placement>>,
           \/ phase' = phase
           \/ phase = "link" /\ phase' = "classify" /\ pending = {}
           \/ phase \in {"label", "stamp"} /\ phase' \in {"stamp", "done"}
    PROVE  PlacementFollows'
<1>1. Candidates' = Candidates /\ \A v : PlacementByName(v)' = PlacementByName(v)
  BY DEF Candidates, PlacementByName
<1>2. VpcsOf(w, Handler)' = VpcsOf(w, Handler)
  OBVIOUS
<1>3. \A v : DirectPlacement(v)' = DirectPlacement(v)
  OBVIOUS
<1> QED
  BY <1>1, <1>2, <1>3 DEF PlacementFollows

LEMMA PlacementLink ==
    ASSUME Resolved, PlacementFollows, NEW x \in pending, AddInboundLink(x)
    PROVE  PlacementFollows'
<1>1. /\ w' = w /\ phase' = "link" /\ phase = "link" /\ IsWiring(w)
      /\ pending' = pending \ {x}
  BY WiringShape DEF AddInboundLink, Resolved
<1>2. CASE x \in Vpcs(w)
  <2>1. x \in VpcsOf(w, Handler)
    BY <1>1, <1>2 DEF Resolved, IsWiring
  <2>2. placement' = DirectPlacement(x)
    BY <1>2 DEF AddInboundLink
  <2> QED
    BY <1>1, <2>1, <2>2 DEF PlacementFollows
<1>3. CASE x \notin Vpcs(w)
  <2>1. placement' = placement
    BY <1>3 DEF AddInboundLink
  <2>2. x \notin VpcsOf(w, Handler)
    BY <1>3 DEF VpcsOf
  <2> QED
    BY <1>1, <2>1, <2>2 DEF PlacementFollows
<1> QED
  BY <1>2, <1>3

LEMMA PlacementTaken ==
    ASSUME Resolved, PlacementFollows, InheritPlacement
    PROVE  PlacementFollows'
<1> DEFINE inheritable == InheritablePlacements(w, Parents(w))
           vpcs == {q.vpc : q \in inheritable}
           all == UNION {VpcsOf(w, p) : p \in Parents(w)}
<1>1. /\ w' = w /\ pending' = pending /\ pending = {} /\ IsWiring(w)
      /\ phase = "classify"
  BY WiringShape DEF InheritPlacement, Resolved, PlacementFollows
<1>2. \/ placement = Unplaced /\ VpcsOf(w, Handler) = {}
      \/ \E v \in VpcsOf(w, Handler) : placement = DirectPlacement(v)
  BY <1>1 DEF PlacementFollows
<1>3. /\ Unplaced.vpc = Absent
      /\ \A v \in VpcsOf(w, Handler) : DirectPlacement(v).vpc = v /\ v # Absent
  BY <1>1 DEF Unplaced, DirectPlacement, IsWiring, VpcsOf
<1>4. Candidates' = Candidates /\ \A v : PlacementByName(v)' = PlacementByName(v)
  BY <1>1 DEF Candidates, PlacementByName
<1>5. vpcs = all
  BY InheritableVpcs
<1> HIDE DEF inheritable
<1>6. CASE placement.vpc # Absent
  <2>1. PICK v \in VpcsOf(w, Handler) : placement = DirectPlacement(v)
    BY <1>2, <1>3, <1>6
  <2>2. phase' = "label" /\ placement' = placement
    BY <1>6 DEF InheritPlacement
  <2>3. \A u \in Candidates : placement = PlacementByName(u)
    BY <1>1, <2>1 DEF Candidates, PlacementByName, IsWiring
  <2>4. Candidates # {}
    BY <2>1 DEF Candidates
  <2> QED
    BY <1>1, <1>4, <2>2, <2>3, <2>4 DEF PlacementFollows
<1>7. CASE placement.vpc = Absent
  <2>1. placement = Unplaced /\ VpcsOf(w, Handler) = {}
    BY <1>2, <1>3, <1>7
  <2>2. Candidates = all
    BY <2>1 DEF Candidates
  <2> HIDE DEF all, vpcs
  <2>3. CASE inheritable = {}
    <3>1. phase' = "label" /\ placement' = placement
      <4>1. {q.vpc : q \in inheritable} = {}
        BY <2>3
      <4>2. ~PlacementsConflict(inheritable)
        BY <4>1, FS_EmptySet DEF PlacementsConflict
      <4> QED
        BY <2>3, <4>2 DEF InheritPlacement, inheritable
    <3>2. Candidates = {}
      BY <1>5, <2>2, <2>3 DEF vpcs
    <3> QED
      BY <1>1, <1>4, <2>1, <3>1, <3>2 DEF PlacementFollows
  <2>4. CASE inheritable # {} /\ PlacementsConflict(inheritable)
    <3>1. phase' = "failed" /\ placement' = placement
      BY <1>7, <2>4 DEF InheritPlacement, inheritable
    <3>2. Cardinality(vpcs) > 1
      BY <2>4 DEF PlacementsConflict, vpcs
    <3>3. \E u, v \in Candidates : u # v
      BY <1>5, <2>2, <3>2, MoreThanOne
    <3> QED
      BY <1>1, <1>4, <3>1, <3>3 DEF PlacementFollows
  <2>5. CASE inheritable # {} /\ ~PlacementsConflict(inheritable)
    <3>1. /\ phase' = "label"
          /\ \E order \in OrdersOf(inheritable) : placement' = FirstPlacement(w, order)
      BY <1>7, <2>5 DEF InheritPlacement, inheritable
    <3> PICK order \in OrdersOf(inheritable) : placement' = FirstPlacement(w, order)
      BY <3>1
    <3> DEFINE first == Least(w, {q \in Parents(w) : VpcsOf(w, q) # {}})
    <3>2. /\ first \in Parents(w)
          /\ \E v \in VpcsOf(w, first) :
               /\ placement' = Inherited(w, first, v)
               /\ \A q \in Parents(w) : VpcsOf(w, q) \subseteq {v}
      BY <1>1, <2>5, TakenPlacement DEF inheritable
    <3>3. \A u : PlacementByName(u) = Inherited(w, first, u)
      BY <2>1 DEF PlacementByName
    <3> HIDE DEF first
    <3> PICK v \in VpcsOf(w, first) :
               /\ placement' = Inherited(w, first, v)
               /\ \A q \in Parents(w) : VpcsOf(w, q) \subseteq {v}
      BY <3>2
    <3>4. v \in Candidates /\ \A u \in Candidates : u = v
      BY <2>2, <3>2 DEF all
    <3>5. \A u \in Candidates : placement' = PlacementByName(u)
      BY <3>3, <3>4
    <3> QED
      BY <1>1, <1>4, <3>1, <3>4, <3>5 DEF PlacementFollows
  <2> QED
    BY <2>3, <2>4, <2>5
<1> QED
  BY <1>6, <1>7

LEMMA PlacementStep ==
    ASSUME Resolved, PlacementFollows, [Next]_vars
    PROVE  PlacementFollows'
<1>1. ASSUME NEW x \in pending, AddInboundLink(x) PROVE PlacementFollows'
  BY <1>1, PlacementLink
<1>2. CASE AllLinked
  BY <1>2, PlacementKept DEF AllLinked
<1>3. CASE ClassifyConsumer
  BY <1>3, PlacementKept DEF ClassifyConsumer
<1>4. CASE InheritPlacement
  BY <1>4, PlacementTaken
<1>5. CASE ApplyLambdaLabels
  BY <1>5, PlacementKept DEF ApplyLambdaLabels
<1>6. CASE StampConsumerBinding
  BY <1>6, PlacementKept DEF StampConsumerBinding
<1>7. CASE FinishFunction
  BY <1>7, PlacementKept DEF FinishFunction
<1>8. CASE UNCHANGED vars
  BY <1>8, PlacementKept DEF vars
<1> QED
  BY <1>1, <1>2, <1>3, <1>4, <1>5, <1>6, <1>7, <1>8 DEF Next, Step, Finished

-----------------------------------------------------------------------------
(* Labels: what the function carries of what its resources carried.        *)

\* l has the labels of f, but for keys the transformer reserves.
Carries(l, f) ==
    \A key \in DOMAIN f : ~Reserved(key) => key \in DOMAIN l /\ l[key] = f[key]

\* l has the labels of f under the keys that over leaves alone.
CarriesUnder(l, f, over) ==
    \A key \in DOMAIN f \ DOMAIN over :
        ~Reserved(key) => key \in DOMAIN l /\ l[key] = f[key]

\* A label of the consumer c is on the function, or was lost with a report or
\* to a label that the handler or its VPC lays over it.
LabelAccounted(c, key) ==
    \/ key \in DOMAIN labels /\ labels[key] = w.labels[c][key]
    \/ Reported("labels", c)
    \/ Overridden(c)

LabelsCarried ==
    phase \in {"stamp", "done"} =>
        /\ Carries(labels, placement.labels)
        /\ CarriesUnder(labels, w.labels[Handler], placement.labels)
        /\ \A i \in 1..Len(bindings) :
             \A key \in DOMAIN w.labels[bindings[i].consumer] :
                ~Reserved(key) => LabelAccounted(bindings[i].consumer, key)

\* What reserved keys are laid over is carried.
LEMMA CarriedOn ==
    ASSUME NEW l, NEW g, \A k \in DOMAIN g : Reserved(k)
    PROVE  Carries(LabelsAnd(l, g), l)
BY ReservedLaidOver DEF Carries

LEMMA CarriedThrough ==
    ASSUME NEW f, NEW l, NEW m, NEW over, Carries(m, l)
    PROVE  /\ Carries(l, f) => Carries(m, f)
           /\ CarriesUnder(l, f, over) => CarriesUnder(m, f, over)
BY DEF Carries, CarriesUnder

\* A step that keeps the labels and the reports keeps what was accounted for.
LEMMA LabelsKept ==
    ASSUME LabelsCarried, phase \in {"stamp", "done"},
           UNCHANGED <<w, bindings, placement>>, Carries(labels', labels),
           diagnostics \subseteq diagnostics'
    PROVE  LabelsCarried'
<1>1. Carries(labels', placement.labels)
  BY CarriedThrough DEF LabelsCarried
<1>2. CarriesUnder(labels', w.labels[Handler], placement.labels)
  BY CarriedThrough DEF LabelsCarried
<1>3. ASSUME NEW c, NEW key, ~Reserved(key), LabelAccounted(c, key)
      PROVE  LabelAccounted(c, key)'
  <2>1. CASE key \in DOMAIN labels /\ labels[key] = w.labels[c][key]
    BY <1>3, <2>1 DEF Carries, LabelAccounted
  <2>2. CASE Reported("labels", c)
    BY <2>2 DEF Reported, LabelAccounted
  <2>3. CASE Overridden(c)
    BY <2>3 DEF Overridden, LabelAccounted
  <2> QED
    BY <1>3, <2>1, <2>2, <2>3 DEF LabelAccounted
<1>4. ASSUME NEW i \in 1..Len(bindings),
             NEW key \in DOMAIN w.labels[bindings[i].consumer], ~Reserved(key)
      PROVE  LabelAccounted(bindings[i].consumer, key)'
  BY <1>3, <1>4 DEF LabelsCarried
<1> QED
  BY <1>1, <1>2, <1>4 DEF LabelsCarried

\* What the function starts with: the four maps, the later over the earlier.
LEMMA FunctionLabelsCarry ==
    /\ Carries(FunctionLabels, placement.labels)
    /\ CarriesUnder(FunctionLabels, w.labels[Handler], placement.labels)
    /\ \A key \in DOMAIN ConsumerLabelUnion :
          /\ ~Reserved(key)
          /\ key \notin DOMAIN w.labels[Handler]
          /\ key \notin DOMAIN placement.labels
          => key \in DOMAIN FunctionLabels
             /\ FunctionLabels[key] = ConsumerLabelUnion[key]
<1> DEFINE own == w.labels[Handler]
           one == LabelsAnd(ConsumerLabelUnion, own)
           two == LabelsAnd(one, placement.labels)
<1>1. Carries(FunctionLabels, two)
  BY CarriedOn, TransformerLabels DEF FunctionLabels
<1>2. /\ DOMAIN two = DOMAIN one \cup DOMAIN placement.labels
      /\ \A k \in DOMAIN placement.labels : two[k] = placement.labels[k]
      /\ \A k \in DOMAIN one \ DOMAIN placement.labels : two[k] = one[k]
  BY LaidOver
<1>3. /\ DOMAIN one = DOMAIN ConsumerLabelUnion \cup DOMAIN own
      /\ \A k \in DOMAIN own : one[k] = own[k]
      /\ \A k \in DOMAIN ConsumerLabelUnion \ DOMAIN own : one[k] = ConsumerLabelUnion[k]
  BY LaidOver
<1> HIDE DEF one, two
<1>4. Carries(two, placement.labels)
  BY <1>2 DEF Carries
<1>5. CarriesUnder(two, own, placement.labels)
  BY <1>2, <1>3 DEF CarriesUnder
<1>6. \A key \in DOMAIN ConsumerLabelUnion :
          /\ ~Reserved(key)
          /\ key \notin DOMAIN own
          /\ key \notin DOMAIN placement.labels
          => key \in DOMAIN FunctionLabels
             /\ FunctionLabels[key] = ConsumerLabelUnion[key]
  BY <1>1, <1>2, <1>3 DEF Carries
<1> QED
  BY <1>1, <1>4, <1>5, <1>6, CarriedThrough

\* Every label of a consumer is in the union, with its value or with a report.
LEMMA UnionReports ==
    ASSUME Resolved, NEW i \in DOMAIN consumers, NEW key \in DOMAIN w.labels[consumers[i]]
    PROVE  /\ key \in DOMAIN ConsumerLabelUnion
           /\ \/ ConsumerLabelUnion[key] = w.labels[consumers[i]][key]
              \/ \E d \in LabelConflicts : d.what = "labels" /\ consumers[i] \in d.about
<1>1. key \in DOMAIN ConsumerLabelUnion
  BY DEF ConsumerLabelUnion
<1>2. consumers[i] \in IsParent("consumer")
  BY DEF Resolved, ConsumersOf, IsParent
<1>3. ASSUME ConsumerLabelUnion[key] # w.labels[consumers[i]][key]
      PROVE  \E d \in LabelConflicts : d.what = "labels" /\ consumers[i] \in d.about
  <2> DEFINE y == <<i, key>>
             clashes == {e \in (DOMAIN consumers) \X (DOMAIN ConsumerLabelUnion) :
                           e[1] \in Bearers(e[2]) /\ ~KeepsLabel(e[1], e[2])}
             report(e) == Warning("labels", {Origin(e[1], e[2]), consumers[e[1]]})
  <2>1. y \in clashes /\ y[1] = i
    BY <1>1, <1>3 DEF Bearers, KeepsLabel
  <2>2. report(y).what = "labels" /\ consumers[i] \in report(y).about
    BY <2>1 DEF Warning
  <2>3. LabelConflicts = {report(e) : e \in clashes}
    BY DEF LabelConflicts
  <2> HIDE DEF y, clashes, report
  <2> QED
    BY <2>1, <2>2, <2>3
<1> QED
  BY <1>1, <1>3

\* The labels a function starts with account for those of its consumers.
LEMMA LabelsApplied ==
    ASSUME Resolved, ApplyLambdaLabels
    PROVE  LabelsCarried'
<1>1. /\ UNCHANGED <<w, consumers, bindings, placement>>
      /\ labels' = FunctionLabels /\ diagnostics' = diagnostics \cup LabelConflicts
  BY DEF ApplyLambdaLabels
<1>2. Carries(labels', placement.labels)
      /\ CarriesUnder(labels', w.labels[Handler], placement.labels)
  BY <1>1, FunctionLabelsCarry
<1>3. ASSUME NEW i \in 1..Len(bindings),
             NEW key \in DOMAIN w.labels[bindings[i].consumer], ~Reserved(key)
      PROVE  LabelAccounted(bindings[i].consumer, key)'
  <2> DEFINE c == bindings[i].consumer
             over == LabelsAnd(w.labels[Handler], placement.labels)
  <2>1. i \in DOMAIN consumers /\ c = consumers[i]
    BY DEF Resolved
  <2>2. key \in DOMAIN ConsumerLabelUnion
    BY <2>1, UnionReports
  <2>3. CASE ConsumerLabelUnion[key] # w.labels[c][key]
    <3>1. \E d \in LabelConflicts : d.what = "labels" /\ c \in d.about
      BY <2>1, <2>3, UnionReports
    <3>2. Reported("labels", c)'
      BY <3>1, <1>1 DEF Reported
    <3> QED
      BY <3>2 DEF LabelAccounted
  <2>4. CASE key \in DOMAIN over
    <3>1. /\ DOMAIN over = DOMAIN w.labels[Handler] \cup DOMAIN placement.labels
          /\ \A k \in DOMAIN placement.labels : over[k] = placement.labels[k]
          /\ \A k \in DOMAIN w.labels[Handler] \ DOMAIN placement.labels :
                over[k] = w.labels[Handler][k]
      BY LaidOver
    <3>2. key \in DOMAIN labels' /\ labels'[key] = over[key]
      <4> HIDE DEF over
      <4> QED
        BY <1>2, <1>3, <2>4, <3>1 DEF Carries, CarriesUnder
    <3>3. CASE over[key] # w.labels[c][key]
      <4>1. Overridden(c)
        BY <2>4, <3>3 DEF Overridden
      <4>2. Overridden(c)'
        BY <4>1, <1>1 DEF Overridden
      <4> QED
        BY <4>2 DEF LabelAccounted
    <3> QED
      BY <3>2, <3>3, <1>1 DEF LabelAccounted
  <2>5. CASE key \notin DOMAIN over /\ ConsumerLabelUnion[key] = w.labels[c][key]
    <3>1. DOMAIN over = DOMAIN w.labels[Handler] \cup DOMAIN placement.labels
      BY LaidOver
    <3>2. key \notin DOMAIN w.labels[Handler] /\ key \notin DOMAIN placement.labels
      BY <2>5, <3>1
    <3>3. key \in DOMAIN labels' /\ labels'[key] = w.labels[c][key]
      BY <1>1, <1>3, <2>2, <2>5, <3>2, FunctionLabelsCarry
    <3> QED
      BY <3>3, <1>1 DEF LabelAccounted
  <2> QED
    BY <2>3, <2>4, <2>5
<1> QED
  BY <1>1, <1>2, <1>3 DEF LabelsCarried

LEMMA LabelsStep ==
    ASSUME Resolved, LabelsCarried, [Next]_vars
    PROVE  LabelsCarried'
<1>1. ASSUME NEW x \in pending, AddInboundLink(x) PROVE LabelsCarried'
  BY <1>1 DEF AddInboundLink, LabelsCarried
<1>2. CASE AllLinked
  BY <1>2 DEF AllLinked, LabelsCarried
<1>3. CASE ClassifyConsumer
  BY <1>3 DEF ClassifyConsumer, LabelsCarried
<1>4. CASE InheritPlacement
  <2>1. phase' \in {"label", "failed"}
    BY <1>4 DEF InheritPlacement
  <2> QED
    BY <2>1 DEF LabelsCarried
<1>5. CASE ApplyLambdaLabels
  BY <1>5, LabelsApplied
<1>6. CASE StampConsumerBinding
  <2>1. PICK b : labels' = LabelsAnd(labels, PollLabel(b))
    BY <1>6 DEF StampConsumerBinding
  <2>2. Carries(labels', labels)
    BY <2>1, CarriedOn, TransformerLabels
  <2>3. phase = "stamp" /\ UNCHANGED <<w, bindings, placement>>
        /\ diagnostics \subseteq diagnostics'
    BY <1>6 DEF StampConsumerBinding
  <2> QED
    BY <2>2, <2>3, LabelsKept
<1>7. CASE FinishFunction
  <2>1. Carries(labels', labels)
    BY <1>7, CarriedOn, TransformerLabels DEF FinishFunction
  <2>2. phase = "stamp" /\ UNCHANGED <<w, bindings, placement>>
        /\ diagnostics \subseteq diagnostics'
    BY <1>7 DEF FinishFunction
  <2> QED
    BY <2>1, <2>2, LabelsKept
<1>8. CASE UNCHANGED vars
  <2>1. UNCHANGED <<w, bindings, placement>> /\ phase' = phase
        /\ diagnostics \subseteq diagnostics' /\ labels' = labels
    BY <1>8 DEF vars
  <2>2. Carries(labels', labels)
    BY <2>1 DEF Carries
  <2>3. CASE phase \in {"stamp", "done"}
    BY <2>1, <2>2, <2>3, LabelsKept
  <2> QED
    BY <2>1, <2>3 DEF LabelsCarried
<1> QED
  BY <1>1, <1>2, <1>3, <1>4, <1>5, <1>6, <1>7, <1>8 DEF Next, Step, Finished

-----------------------------------------------------------------------------
(* Settings: what the bindings stamped so far add up to.                   *)

\* The consumers of the first n bindings with one of these kinds of source.
PastOf(bs, n, kinds) == {bs[i].consumer : i \in {j \in 1..n : bs[j].kind \in kinds}}

\* The batch size is Absent if none of cs sets one, else one that they set.
BatchFollows(x, batch, cs) ==
    /\ batch # Absent => \E c \in cs : x.batch[c] = batch
    /\ \A c \in cs : x.batch[c] # Absent => batch # Absent

\* Partial failures are reported if any of cs asks for it.
FailuresFollow(x, flag, cs) ==
    /\ flag \in BOOLEAN
    /\ flag = TRUE <=> \E c \in cs : c \in x.failures

\* The position is one that a consumer of cs asks for.
PositionFollows(x, position, cs) ==
    /\ cs # {} /\ position = "start" => \E c \in cs : c \in x.fromStart
    /\ cs # {} /\ position # "start" => \E c \in cs : c \notin x.fromStart

\* The events are those of cs.
EventsFollow(x, events, cs) ==
    /\ events \in Seq({"created", "deleted"})
    /\ \A e : (\E i \in DOMAIN events : events[i] = e) <=>
              (\E c \in cs : \E i \in DOMAIN x.events[c] : x.events[c][i] = e)

Queues == {"queue", "topic"}
Streams == {"datastore"}
Buckets == {"bucket"}
Past(kinds) == PastOf(bindings, settings.stamped, kinds)

SettingsFollow ==
    /\ BatchFollows(w, settings.sqsBatch, Past(Queues))
    /\ FailuresFollow(w, settings.sqsFailures, Past(Queues))
    /\ BatchFollows(w, settings.streamBatch, Past(Streams))
    /\ FailuresFollow(w, settings.streamFailures, Past(Streams))
    /\ PositionFollows(w, settings.position, Past(Streams))
    /\ EventsFollow(w, settings.events, Past(Buckets))

\* One more binding adds its consumer, or nothing if it is of another kind.
LEMMA PastGrows ==
    ASSUME NEW bs, NEW n \in Nat, NEW kinds
    PROVE  /\ bs[n+1].kind \in kinds =>
                PastOf(bs, n + 1, kinds) = PastOf(bs, n, kinds) \cup {bs[n+1].consumer}
           /\ bs[n+1].kind \notin kinds => PastOf(bs, n + 1, kinds) = PastOf(bs, n, kinds)
<1> DEFINE sofar == {j \in 1..n : bs[j].kind \in kinds}
           next == {j \in 1..(n + 1) : bs[j].kind \in kinds}
<1>1. CASE bs[n+1].kind \in kinds
  <2>1. next = sofar \cup {n + 1}
    BY <1>1
  <2>2. PastOf(bs, n, kinds) = {bs[i].consumer : i \in sofar}
        /\ PastOf(bs, n + 1, kinds) = {bs[i].consumer : i \in next}
    BY DEF PastOf
  <2> HIDE DEF sofar, next
  <2> QED
    BY <1>1, <2>1, <2>2
<1>2. CASE bs[n+1].kind \notin kinds
  <2>1. next = sofar
    BY <1>2
  <2> QED
    BY <1>2, <2>1 DEF PastOf
<1> QED
  BY <1>1, <1>2

\* Nothing is past before the first binding.
LEMMA PastEmpty == \A bs, kinds : PastOf(bs, 0, kinds) = {}
BY DEF PastOf

\* When all bindings are stamped their consumers are the families.
LEMMA PastIsFamily ==
    ASSUME Resolved, NEW kinds
    PROVE  PastOf(bindings, Len(bindings), kinds) = Family(kinds)
<1>1. DOMAIN bindings = 1..Len(bindings)
  BY DEF Resolved
<1>2. ASSUME NEW c
      PROVE  c \in PastOf(bindings, Len(bindings), kinds) <=> c \in Family(kinds)
  <2>1. c \in PastOf(bindings, Len(bindings), kinds) <=>
            \E i \in 1..Len(bindings) : bindings[i].kind \in kinds /\ bindings[i].consumer = c
    BY DEF PastOf
  <2>2. c \in Family(kinds) <=>
            \E b \in Bound : b.kind \in kinds /\ b.consumer = c
    BY DEF Family
  <2>3. \A b : b \in Bound <=> \E i \in 1..Len(bindings) : bindings[i] = b
    BY <1>1 DEF Bound
  <2> QED
    BY <2>1, <2>2, <2>3
<1> QED
  BY <1>2

LEMMA BatchGrows ==
    ASSUME NEW cs, NEW c, NEW old, BatchFollows(w, old, cs)
    PROVE  BatchFollows(w, Batch(c, old), cs \cup {c})
BY DEF BatchFollows, Batch

LEMMA FailuresGrow ==
    ASSUME NEW cs, NEW c, NEW old, NEW flag, FailuresFollow(w, old, cs),
           c \in w.failures => flag = TRUE,
           c \notin w.failures => flag = old
    PROVE  FailuresFollow(w, flag, cs \cup {c})
BY DEF FailuresFollow

LEMMA PositionGrows ==
    ASSUME NEW cs, NEW c
    PROVE  PositionFollows(w, IF c \in w.fromStart THEN "start" ELSE "latest", cs \cup {c})
BY DEF PositionFollows

LEMMA EventsGrow ==
    ASSUME NEW cs, NEW c, EventsFollow(w, settings.events, cs),
           w.events[c] \in Seq({"created", "deleted"})
    PROVE  EventsFollow(w, EventsAppended(c), cs \cup {c})
<1> DEFINE old == settings.events
           more == w.events[c]
           all == old \o more
<1>1. old \in Seq({"created", "deleted"}) /\ more \in Seq({"created", "deleted"})
  BY DEF EventsFollow
<1> HIDE DEF old, more
<1>2. /\ all \in Seq({"created", "deleted"})
      /\ Len(all) = Len(old) + Len(more)
      /\ \A i \in 1..Len(old) : all[i] = old[i]
      /\ \A i \in 1..Len(more) : all[Len(old) + i] = more[i]
      /\ \A i \in 1..Len(all) : i \in 1..Len(old) \/ (i - Len(old)) \in 1..Len(more)
  BY <1>1
<1>3. DOMAIN old = 1..Len(old) /\ DOMAIN more = 1..Len(more) /\ DOMAIN all = 1..Len(all)
      /\ Len(old) \in Nat /\ Len(more) \in Nat
  BY <1>1, <1>2
<1> HIDE DEF all
<1>4. ASSUME NEW e
      PROVE  (\E i \in DOMAIN all : all[i] = e) <=>
             \/ \E i \in DOMAIN old : old[i] = e
             \/ \E i \in DOMAIN more : more[i] = e
  <2>1. ASSUME NEW i \in DOMAIN all, all[i] = e
        PROVE  (\E j \in DOMAIN old : old[j] = e) \/ \E j \in DOMAIN more : more[j] = e
    <3>1. CASE i \in 1..Len(old)
      BY <3>1, <2>1, <1>2, <1>3
    <3>2. CASE (i - Len(old)) \in 1..Len(more)
      <4>1. all[Len(old) + (i - Len(old))] = more[i - Len(old)]
            /\ Len(old) + (i - Len(old)) = i
        BY <3>2, <2>1, <1>2, <1>3
      <4> QED
        BY <4>1, <3>2, <2>1, <1>3
    <3> QED
      BY <3>1, <3>2, <2>1, <1>2, <1>3
  <2>2. ASSUME NEW i \in DOMAIN old, old[i] = e
        PROVE  \E j \in DOMAIN all : all[j] = e
    BY <2>2, <1>2, <1>3
  <2>3. ASSUME NEW i \in DOMAIN more, more[i] = e
        PROVE  \E j \in DOMAIN all : all[j] = e
    <3>1. (Len(old) + i) \in DOMAIN all /\ all[Len(old) + i] = e
      BY <2>3, <1>2, <1>3
    <3> QED
      BY <3>1
  <2> QED
    BY <2>1, <2>2, <2>3
<1>5. \A e : (\E i \in DOMAIN old : old[i] = e) <=>
             (\E d \in cs : \E i \in DOMAIN w.events[d] : w.events[d][i] = e)
  BY DEF EventsFollow, old
<1>6. \A e : (\E i \in DOMAIN all : all[i] = e) <=>
             (\E d \in cs \cup {c} : \E i \in DOMAIN w.events[d] : w.events[d][i] = e)
  <2> DEFINE asks(d, e) == \E i \in DOMAIN w.events[d] : w.events[d][i] = e
  <2>1. \A e : asks(c, e) <=> \E i \in DOMAIN more : more[i] = e
    BY DEF more
  <2>2. \A e : (\E i \in DOMAIN old : old[i] = e) <=> \E d \in cs : asks(d, e)
    BY <1>5
  <2> HIDE DEF asks
  <2>3. ASSUME NEW e
        PROVE  (\E i \in DOMAIN all : all[i] = e) <=> \E d \in cs \cup {c} : asks(d, e)
    BY <1>4, <2>1, <2>2
  <2> QED
    BY <2>3 DEF asks
<1>7. EventsAppended(c) = all
  BY DEF EventsAppended, all, old, more
<1> QED
  BY <1>2, <1>6, <1>7 DEF EventsFollow

LEMMA SettingsInit == Init => SettingsFollow
<1> SUFFICES ASSUME Init PROVE SettingsFollow
  OBVIOUS
<1> DEFINE none == {}
<1>1. \A kinds : Past(kinds) = none
  BY PastEmpty DEF Init, Past
<1>2. /\ BatchFollows(w, settings.sqsBatch, none)
      /\ FailuresFollow(w, settings.sqsFailures, none)
      /\ BatchFollows(w, settings.streamBatch, none)
      /\ FailuresFollow(w, settings.streamFailures, none)
      /\ PositionFollows(w, settings.position, none)
      /\ EventsFollow(w, settings.events, none)
  <2>1. settings.events = <<>> /\ settings.position = Absent
        /\ settings.sqsBatch = Absent /\ settings.streamBatch = Absent
    BY DEF Init
  <2>2. settings.sqsFailures = FALSE /\ settings.streamFailures = FALSE
    BY DEF Init
  <2>3. BatchFollows(w, Absent, none)
    BY DEF BatchFollows
  <2>4. FailuresFollow(w, FALSE, none)
    BY DEF FailuresFollow
  <2>5. EventsFollow(w, <<>>, none)
    BY DEF EventsFollow
  <2>6. PositionFollows(w, Absent, none)
    BY DEF PositionFollows
  <2> QED
    BY <2>1, <2>2, <2>3, <2>4, <2>5, <2>6
<1> HIDE DEF none
<1> QED
  BY <1>1, <1>2 DEF SettingsFollow

\* Settings stay what they are while no binding is stamped.
LEMMA SettingsKept ==
    ASSUME SettingsFollow, w' = w, settings' = settings,
           bindings' = bindings \/ settings.stamped = 0
    PROVE  SettingsFollow'
<1>1. ASSUME NEW kinds PROVE PastOf(bindings', settings.stamped, kinds) = Past(kinds)
  BY PastEmpty DEF Past
<1>2. /\ PastOf(bindings', settings.stamped, Queues) = Past(Queues)
      /\ PastOf(bindings', settings.stamped, Streams) = Past(Streams)
      /\ PastOf(bindings', settings.stamped, Buckets) = Past(Buckets)
  BY <1>1
<1>3. Queues' = Queues /\ Streams' = Streams /\ Buckets' = Buckets
  BY DEF Queues, Streams, Buckets
<1>4. /\ Past(Queues)' = Past(Queues)
      /\ Past(Streams)' = Past(Streams)
      /\ Past(Buckets)' = Past(Buckets)
  BY <1>2, <1>3 DEF Past
<1> QED
  BY <1>4 DEF SettingsFollow

\* Stamping a binding adds what its consumer sets, for its kind alone.
LEMMA SettingsStamp ==
    ASSUME Resolved, SettingsFollow, StampConsumerBinding
    PROVE  SettingsFollow'
<1> DEFINE n == settings.stamped
           b == bindings[n + 1]
           c == b.consumer
<1>1. UNCHANGED <<w, bindings>> /\ settings' = Stamped(b)
  BY DEF StampConsumerBinding
<1>2. n \in Nat /\ n + 1 \in 1..Len(bindings) /\ DOMAIN settings = SettingFields
  BY DEF Resolved, StampConsumerBinding
<1>3. settings'.stamped = n + 1
  BY <1>1, <1>2, StampedFields
<1>4. c \in ConsumersOf(w) /\ w.events[c] \in Seq({"created", "deleted"})
  BY <1>2, WiringShape DEF Resolved, BindingSpace, ConsumersOf, IsWiring
<1>5. /\ Past(Queues)' = PastOf(bindings, n + 1, Queues)
      /\ Past(Streams)' = PastOf(bindings, n + 1, Streams)
      /\ Past(Buckets)' = PastOf(bindings, n + 1, Buckets)
  BY <1>1, <1>3 DEF Past, Queues, Streams, Buckets
<1>6. /\ b.kind \in Queues => Past(Queues)' = Past(Queues) \cup {c}
      /\ b.kind \notin Queues => Past(Queues)' = Past(Queues)
  BY <1>2, <1>5, PastGrows DEF Past
<1>7. /\ b.kind \in Streams => Past(Streams)' = Past(Streams) \cup {c}
      /\ b.kind \notin Streams => Past(Streams)' = Past(Streams)
  BY <1>2, <1>5, PastGrows DEF Past
<1>8. /\ b.kind \in Buckets => Past(Buckets)' = Past(Buckets) \cup {c}
      /\ b.kind \notin Buckets => Past(Buckets)' = Past(Buckets)
  BY <1>2, <1>5, PastGrows DEF Past
<1>9. BatchFollows(w, settings'.sqsBatch, Past(Queues)')
      /\ FailuresFollow(w, settings'.sqsFailures, Past(Queues)')
  <2>1. CASE b.kind \in Queues
    <3> DEFINE flag == settings.sqsFailures \/ c \in w.failures
    <3>1. settings'.sqsBatch = Batch(c, settings.sqsBatch) /\ settings'.sqsFailures = flag
      BY <1>1, <1>2, <2>1, StampedFields DEF Queues
    <3>2. BatchFollows(w, Batch(c, settings.sqsBatch), Past(Queues) \cup {c})
      BY BatchGrows DEF SettingsFollow
    <3>3. FailuresFollow(w, flag, Past(Queues) \cup {c})
      <4>1. FailuresFollow(w, settings.sqsFailures, Past(Queues))
        BY DEF SettingsFollow
      <4>2. settings.sqsFailures \in BOOLEAN
        BY <4>1 DEF FailuresFollow
      <4>3. c \in w.failures => flag = TRUE
        OBVIOUS
      <4>4. c \notin w.failures => flag = settings.sqsFailures
        BY <4>2
      <4> HIDE DEF flag
      <4> QED
        BY <4>1, <4>3, <4>4, FailuresGrow
    <3> HIDE DEF flag
    <3> QED
      BY <3>1, <3>2, <3>3, <1>6, <2>1
  <2>2. CASE b.kind \notin Queues
    <3>1. settings'.sqsBatch = settings.sqsBatch
          /\ settings'.sqsFailures = settings.sqsFailures
      BY <1>1, <1>2, <2>2, StampedFields DEF Queues
    <3> QED
      BY <3>1, <1>6, <2>2 DEF SettingsFollow
  <2> QED
    BY <2>1, <2>2
<1>10. /\ BatchFollows(w, settings'.streamBatch, Past(Streams)')
       /\ FailuresFollow(w, settings'.streamFailures, Past(Streams)')
       /\ PositionFollows(w, settings'.position, Past(Streams)')
  <2>1. CASE b.kind \in Streams
    <3> DEFINE flag == settings.streamFailures \/ c \in w.failures
    <3>1. /\ settings'.streamBatch = Batch(c, settings.streamBatch)
          /\ settings'.streamFailures = flag
          /\ settings'.position = IF c \in w.fromStart THEN "start" ELSE "latest"
      BY <1>1, <1>2, <2>1, StampedFields DEF Streams
    <3>2. PositionFollows(w, settings'.position, Past(Streams) \cup {c})
      BY <3>1, PositionGrows
    <3>3. BatchFollows(w, Batch(c, settings.streamBatch), Past(Streams) \cup {c})
      BY BatchGrows DEF SettingsFollow
    <3>4. FailuresFollow(w, flag, Past(Streams) \cup {c})
      <4>1. FailuresFollow(w, settings.streamFailures, Past(Streams))
        BY DEF SettingsFollow
      <4>2. settings.streamFailures \in BOOLEAN
        BY <4>1 DEF FailuresFollow
      <4>3. c \in w.failures => flag = TRUE
        OBVIOUS
      <4>4. c \notin w.failures => flag = settings.streamFailures
        BY <4>2
      <4> HIDE DEF flag
      <4> QED
        BY <4>1, <4>3, <4>4, FailuresGrow
    <3> HIDE DEF flag
    <3> QED
      BY <3>1, <3>2, <3>3, <3>4, <1>7, <2>1
  <2>2. CASE b.kind \notin Streams
    <3>1. /\ settings'.streamBatch = settings.streamBatch
          /\ settings'.streamFailures = settings.streamFailures
          /\ settings'.position = settings.position
      BY <1>1, <1>2, <2>2, StampedFields DEF Streams
    <3> QED
      BY <3>1, <1>7, <2>2 DEF SettingsFollow
  <2> QED
    BY <2>1, <2>2
<1>11. EventsFollow(w, settings'.events, Past(Buckets)')
  <2>1. CASE b.kind \in Buckets
    <3>1. settings'.events = EventsAppended(c)
      BY <1>1, <1>2, <2>1, StampedFields DEF Buckets
    <3> QED
      BY <3>1, <1>4, <1>8, <2>1, EventsGrow DEF SettingsFollow
  <2>2. CASE b.kind \notin Buckets
    <3>1. settings'.events = settings.events
      BY <1>1, <1>2, <2>2, StampedFields DEF Buckets
    <3> QED
      BY <3>1, <1>8, <2>2 DEF SettingsFollow
  <2> QED
    BY <2>1, <2>2
<1> HIDE DEF n, b, c
<1> QED
  BY <1>1, <1>9, <1>10, <1>11 DEF SettingsFollow

LEMMA SettingsStep ==
    ASSUME Resolved, SettingsFollow, [Next]_vars
    PROVE  SettingsFollow'
<1>1. ASSUME NEW x \in pending, AddInboundLink(x) PROVE SettingsFollow'
  BY <1>1, SettingsKept DEF AddInboundLink
<1>2. CASE AllLinked
  BY <1>2, SettingsKept DEF AllLinked
<1>3. CASE ClassifyConsumer
  <2>1. settings.stamped = 0
    BY <1>3 DEF ClassifyConsumer, Resolved
  <2> QED
    BY <1>3, <2>1, SettingsKept DEF ClassifyConsumer
<1>4. CASE InheritPlacement
  BY <1>4, SettingsKept DEF InheritPlacement
<1>5. CASE ApplyLambdaLabels
  BY <1>5, SettingsKept DEF ApplyLambdaLabels
<1>6. CASE StampConsumerBinding
  BY <1>6, SettingsStamp
<1>7. CASE FinishFunction
  BY <1>7, SettingsKept DEF FinishFunction
<1>8. CASE UNCHANGED vars
  BY <1>8, SettingsKept DEF vars
<1> QED
  BY <1>1, <1>2, <1>3, <1>4, <1>5, <1>6, <1>7, <1>8 DEF Next, Step, Finished

-----------------------------------------------------------------------------
(* What is reported when the function is finished.                         *)

\* The consumers cs agree on the settings a queue or a stream has.
AgreeOnSettings(x, cs) ==
    \A c, d \in cs :
        /\ x.batch[c] = Absent \/ x.batch[d] = Absent \/ x.batch[c] = x.batch[d]
        /\ c \in x.failures <=> d \in x.failures

AgreeOnStart(x, cs) == \A c, d \in cs : c \in x.fromStart <=> d \in x.fromStart

AllOf(kinds) == PastOf(bindings, Len(bindings), kinds)

ConflictsReported ==
    phase = "done" =>
        /\ settings.stamped = Len(bindings)
        /\ \A c \in AllOf(Queues) :
              Reported("settings", c) \/ AgreeOnSettings(w, AllOf(Queues))
        /\ \A c \in AllOf(Streams) :
              Reported("settings", c) \/ /\ AgreeOnSettings(w, AllOf(Streams))
                                         /\ AgreeOnStart(w, AllOf(Streams))

\* Consumers about which there is no conflict agree.
LEMMA NoConflictNoQuarrel ==
    ASSUME NEW cs, IsFiniteSet(cs), ~BatchOrFailuresConflict(cs)
    PROVE  AgreeOnSettings(w, cs)
<1> DEFINE f == w.batch
           values == {f[c] : c \in cs}
           set == values \ {Absent}
<1>1. ~(Cardinality(set) > 1) /\ (cs \cap w.failures = {} \/ cs \ w.failures = {})
  BY DEF BatchOrFailuresConflict
<1>2. IsFiniteSet(values)
  BY FiniteImage
<1>3. set \subseteq values
  OBVIOUS
<1>4. \A c \in cs : w.batch[c] # Absent => w.batch[c] \in set
  OBVIOUS
<1> HIDE DEF values, set
<1>5. IsFiniteSet(set)
  BY <1>2, <1>3, FS_Subset
<1>6. \A x, y \in set : x = y
  BY <1>1, <1>5, AtMostOne
<1> QED
  BY <1>1, <1>4, <1>6 DEF AgreeOnSettings

\* Only finishing the function ends a run well.
LEMMA DoneByFinishing ==
    ASSUME [Next]_vars, phase' = "done"
    PROVE  FinishFunction \/ UNCHANGED vars
<1>1. ASSUME NEW x \in pending, AddInboundLink(x) PROVE phase' # "done"
  BY <1>1 DEF AddInboundLink
<1>2. AllLinked => phase' # "done"
  BY DEF AllLinked
<1>3. ClassifyConsumer => phase' # "done"
  BY DEF ClassifyConsumer
<1>4. InheritPlacement => phase' # "done"
  BY DEF InheritPlacement
<1>5. ApplyLambdaLabels => phase' # "done"
  BY DEF ApplyLambdaLabels
<1>6. StampConsumerBinding => phase' # "done"
  BY DEF StampConsumerBinding
<1> QED
  BY <1>1, <1>2, <1>3, <1>4, <1>5, <1>6 DEF Next, Step, Finished

LEMMA ConflictsStep ==
    ASSUME Resolved, ConflictsReported, [Next]_vars
    PROVE  ConflictsReported'
<1>1. CASE phase' # "done"
  BY <1>1 DEF ConflictsReported
<1>2. CASE phase' = "done" /\ FinishFunction
  <2>1. /\ UNCHANGED <<w, bindings, settings>> /\ settings.stamped = Len(bindings)
        /\ PerFunctionTriggerConflicts \subseteq diagnostics'
    BY <1>2 DEF FinishFunction
  <2>2. AllOf(Queues) = QueueConsumers /\ AllOf(Streams) = StreamConsumers
    BY PastIsFamily DEF AllOf, QueueConsumers, StreamConsumers, Queues, Streams
  <2>3. ASSUME NEW kinds PROVE IsFiniteSet(AllOf(kinds))
    <3>1. AllOf(kinds) \subseteq Parents(w)
      BY DEF Resolved, AllOf, PastOf, BindingSpace, ConsumersOf
    <3> QED
      BY <3>1, WiringShape, FS_Subset DEF Resolved, IsWiring
  <2>4. Queues' = Queues /\ Streams' = Streams
    BY DEF Queues, Streams
  <2>5. AllOf(Queues)' = AllOf(Queues) /\ AllOf(Streams)' = AllOf(Streams)
    BY <2>1, <2>4 DEF AllOf
  <2>6. ASSUME NEW c \in AllOf(Queues), ~AgreeOnSettings(w, AllOf(Queues))
        PROVE  Reported("settings", c)'
    <3>1. BatchOrFailuresConflict(QueueConsumers)
      BY <2>2, <2>3, <2>6, NoConflictNoQuarrel
    <3>2. Warning("settings", QueueConsumers) \in PerFunctionTriggerConflicts
      BY <3>1 DEF PerFunctionTriggerConflicts
    <3>3. Warning("settings", QueueConsumers).what = "settings"
          /\ c \in Warning("settings", QueueConsumers).about
      BY <2>2, <2>6 DEF Warning
    <3> QED
      BY <2>1, <3>2, <3>3 DEF Reported
  <2>7. ASSUME NEW c \in AllOf(Streams),
               ~AgreeOnSettings(w, AllOf(Streams)) \/ ~AgreeOnStart(w, AllOf(Streams))
        PROVE  Reported("settings", c)'
    <3>1. BatchOrFailuresConflict(StreamConsumers)
          \/ StartingPositionConflict(StreamConsumers)
      <4>1. CASE ~AgreeOnSettings(w, AllOf(Streams))
        BY <4>1, <2>2, <2>3, NoConflictNoQuarrel
      <4>2. CASE ~AgreeOnStart(w, AllOf(Streams))
        BY <4>2, <2>2 DEF AgreeOnStart, StartingPositionConflict
      <4> QED
        BY <4>1, <4>2, <2>7
    <3>2. Warning("settings", StreamConsumers) \in PerFunctionTriggerConflicts
      BY <3>1 DEF PerFunctionTriggerConflicts
    <3>3. Warning("settings", StreamConsumers).what = "settings"
          /\ c \in Warning("settings", StreamConsumers).about
      BY <2>2, <2>7 DEF Warning
    <3> QED
      BY <2>1, <3>2, <3>3 DEF Reported
  <2> QED
    BY <2>1, <2>5, <2>6, <2>7 DEF ConflictsReported
<1>3. CASE UNCHANGED vars
  <2>1. Queues' = Queues /\ Streams' = Streams
    BY DEF Queues, Streams
  <2>2. AllOf(Queues)' = AllOf(Queues) /\ AllOf(Streams)' = AllOf(Streams)
    BY <1>3, <2>1 DEF AllOf, vars
  <2>3. /\ phase' = phase /\ w' = w /\ settings' = settings /\ bindings' = bindings
        /\ \A c : Reported("settings", c)' <=> Reported("settings", c)
    BY <1>3 DEF vars, Reported
  <2> QED
    BY <2>2, <2>3 DEF ConflictsReported
<1> QED
  BY <1>1, <1>2, <1>3, DoneByFinishing

\* A placement that neither validator reports delivers what is asked of it.
LEMMA SilentPlacement ==
    ASSUME NEW x, NEW pl, NEW ds, pl.vpc # Absent, pl.vpc \in Vpcs(x),
           VpcPlacementDiagnostics(x, pl) \subseteq ds,
           AwsServerlessEgressDiagnostics(x, pl) \subseteq ds,
           ~\E d \in ds : d.what = "placement" /\ Handler \in d.about,
           ~\E d \in ds : d.what = "egress" /\ Handler \in d.about
    PROVE  LET tier == SubnetType(x, pl)
               preset == x.preset[pl.vpc]
           IN  /\ ~(KnownTopology(preset) /\ TierMissing(preset, tier))
               /\ Requested(Egress(x, pl)) \subseteq Reachable(preset, tier)
<1> DEFINE tier == SubnetType(x, pl)
           preset == x.preset[pl.vpc]
           egress == Egress(x, pl)
<1>1. /\ PlacementError.what = "placement" /\ Handler \in PlacementError.about
      /\ EgressError.what = "egress" /\ Handler \in EgressError.about
      /\ EgressWarning.what = "egress" /\ Handler \in EgressWarning.about
  BY DEF PlacementError, EgressError, EgressWarning
<1>2. PlacementError \notin ds /\ EgressError \notin ds /\ EgressWarning \notin ds
  <2> HIDE DEF PlacementError
  <2> QED
    BY <1>1
<1>3. KnownTopology(preset) => TopologyDiagnostics(x, pl, preset) \subseteq ds
  <2> DEFINE known == {u \in Vpcs(x) : u = pl.vpc /\ KnownTopology(x.preset[u])}
             found == {TopologyDiagnostics(x, pl, x.preset[v]) : v \in known}
  <2>1. UNION found \subseteq ds
    BY DEF VpcPlacementDiagnostics
  <2>2. KnownTopology(preset) => pl.vpc \in known
    OBVIOUS
  <2> HIDE DEF known
  <2>3. KnownTopology(preset) => TopologyDiagnostics(x, pl, preset) \in found
    BY <2>2
  <2> HIDE DEF found
  <2> QED
    BY <2>1, <2>3
<1>4. KnownTopology(preset) => ~TierMissing(preset, tier)
  BY <1>2, <1>3 DEF TopologyDiagnostics
<1>5. KnownTopology(preset) /\ AsksForEgress(x, pl) => OutboundPathExists(preset, tier)
  BY <1>2, <1>3, <1>4 DEF TopologyDiagnostics
<1>6. AsksForEgress(x, pl) /\ tier = "public" =>
        egress \notin {"internet", "ipv4 and ipv6", "ipv4"}
  BY <1>2 DEF AwsServerlessEgressDiagnostics
<1>7. ~AsksForEgress(x, pl) => Requested(egress) = {}
  BY AbsentIsNoEgress DEF AsksForEgress, Requested
<1> HIDE DEF tier, preset, egress
<1>8. Requested(egress) \subseteq Reachable(preset, tier)
  <2>1. CASE ~AsksForEgress(x, pl)
    BY <2>1, <1>7
  <2>2. CASE AsksForEgress(x, pl) /\ tier = "public"
    <3>1. Reachable(preset, tier) = {"ipv6"}
      BY <2>2, <1>5 DEF Reachable
    <3>2. Requested(egress) \subseteq {"ipv6"}
      BY <2>2, <1>6 DEF Requested
    <3> QED
      BY <3>1, <3>2
  <2>3. CASE AsksForEgress(x, pl) /\ tier # "public"
    <3>1. Reachable(preset, tier) = {"ipv4", "ipv6"}
      BY <2>3, <1>5 DEF Reachable
    <3>2. Requested(egress) \subseteq {"ipv4", "ipv6"}
      BY DEF Requested
    <3> QED
      BY <3>1, <3>2
  <2> QED
    BY <2>1, <2>2, <2>3
<1> QED
  BY <1>4, <1>8 DEF tier, preset, egress

\* A placement is in a VPC of the wiring.
LEMMA PlacedInVpc ==
    ASSUME NEW x, NEW pl, PlacementFits(x, pl), pl.vpc # Absent
    PROVE  pl.vpc \in Vpcs(x)
BY DEF PlacementFits, Unplaced, DirectPlacement, Inherited, VpcsOf

LEMMA SilenceStep ==
    ASSUME Resolved, SilenceMeansDelivered, [Next]_vars
    PROVE  SilenceMeansDelivered'
<1>1. CASE phase' # "done"
  BY <1>1 DEF SilenceMeansDelivered
<1>2. CASE FinishFunction
  <2>1. /\ w' = w /\ placement' = placement
        /\ VpcPlacementDiagnostics(w, placement) \subseteq diagnostics'
        /\ AwsServerlessEgressDiagnostics(w, placement) \subseteq diagnostics'
    BY <1>2 DEF FinishFunction
  <2>2. placement.vpc # Absent => placement.vpc \in Vpcs(w)
    BY PlacedInVpc DEF Resolved
  <2>3. /\ placement.vpc # Absent
        /\ ~Reported("placement", Handler)'
        /\ ~Reported("egress", Handler)'
        => LET tier == SubnetType(w, placement)
               preset == w.preset[placement.vpc]
           IN  /\ ~(KnownTopology(preset) /\ TierMissing(preset, tier))
               /\ Requested(Egress(w, placement)) \subseteq Reachable(preset, tier)
    BY <2>1, <2>2, SilentPlacement DEF Reported
  <2> QED
    BY <2>1, <2>3 DEF SilenceMeansDelivered
<1>3. CASE UNCHANGED vars
  <2>1. /\ phase' = phase /\ w' = w /\ placement' = placement
        /\ Reported("placement", Handler)' <=> Reported("placement", Handler)
        /\ Reported("egress", Handler)' <=> Reported("egress", Handler)
    BY <1>3 DEF vars, Reported
  <2> QED
    BY <2>1 DEF SilenceMeansDelivered
<1> QED
  BY <1>1, <1>2, <1>3, DoneByFinishing

-----------------------------------------------------------------------------
(* The invariant and what follows from it.                                 *)

WiringInv ==
    /\ Resolved
    /\ PlacementFollows
    /\ LabelsCarried
    /\ SettingsFollow
    /\ ConflictsReported
    /\ SilenceMeansDelivered

LEMMA WiringInvHolds == Spec => []WiringInv
<1>1. Init => WiringInv
  <2>1. Init => phase = "link"
    BY DEF Init
  <2> QED
    BY <2>1, ResolvedInit, PlacementInit, SettingsInit
       DEF WiringInv, LabelsCarried, ConflictsReported, SilenceMeansDelivered
<1>2. WiringInv /\ [Next]_vars => WiringInv'
  BY ResolvedStep, PlacementStep, LabelsStep, SettingsStep, ConflictsStep, SilenceStep DEF WiringInv
<1> QED
  BY <1>1, <1>2, PTL DEF Spec

LEMMA InvTyped == WiringInv => TypeOK
<1> SUFFICES ASSUME WiringInv PROVE TypeOK
  OBVIOUS
<1>1. Resolved
  BY DEF WiringInv
<1>2. consumers \in Seq(IsParent("consumer")) /\ ConsumersOf(w) = IsParent("consumer")
  BY <1>1 DEF Resolved, ConsumersOf, IsParent
<1>3. \A b \in Bound : b.consumer \in IsParent("consumer")
                        /\ b.source \in Sources \cup {Absent}
  <2>1. \A b \in Bound : b \in BindingSpace(w)
    BY <1>1 DEF Bound, Resolved
  <2> QED
    BY <1>2, <2>1 DEF BindingSpace, Sources
<1>4. placement.vpc \in Vpcs(w) \cup {Absent}
  BY <1>1, PlacedInVpc DEF Resolved
<1>5. pending \subseteq Parents(w) \cup Vpcs(w)
  BY <1>1 DEF Resolved, VpcsOf
<1> QED
  BY <1>1, <1>2, <1>3, <1>4, <1>5 DEF TypeOK, Resolved, Phases

LEMMA InvOrder == WiringInv => OrderDoesNotShow
BY DEF WiringInv, PlacementFollows, OrderDoesNotShow

LEMMA InvReaches == WiringInv /\ ReservedKeysUnused => SourcesReachFunction
<1> SUFFICES ASSUME WiringInv, ReservedKeysUnused, phase = "done",
                    NEW b \in Bound, b.source # Absent
             PROVE  \/ Selects(w.selector[b.source], labels)
                    \/ Reported("labels", b.consumer)
                    \/ Overridden(b.consumer)
  BY DEF SourcesReachFunction
<1> DEFINE c == b.consumer
<1>1. PICK i \in 1..Len(bindings) : bindings[i] = b
  BY DEF Bound, WiringInv, Resolved
<1>2. b.source \in DOMAIN w.kind /\ Selects(w.selector[b.source], w.labels[c])
  BY <1>1 DEF WiringInv, Resolved, SourceFits, LinkedOf
<1>3. PICK key \in DOMAIN w.selector[b.source] \cap DOMAIN w.labels[c] :
            w.selector[b.source][key] = w.labels[c][key]
  BY <1>2 DEF Selects
<1>4. ~Reserved(key)
  BY <1>2, <1>3 DEF ReservedKeysUnused
<1>5. LabelAccounted(c, key)
  BY <1>1, <1>3, <1>4 DEF WiringInv, LabelsCarried
<1> QED
  BY <1>3, <1>5 DEF LabelAccounted, Selects

LEMMA InvPlaces == WiringInv /\ ReservedKeysUnused => PlacementReachesFunction
<1> SUFFICES ASSUME WiringInv, ReservedKeysUnused, phase = "done",
                    placement.vpc # Absent
             PROVE  Selects(w.selector[placement.vpc], labels)
  BY DEF PlacementReachesFunction
<1> DEFINE selector == w.selector[placement.vpc]
<1>1. /\ PlacementFits(w, placement)
      /\ Carries(labels, placement.labels)
      /\ CarriesUnder(labels, w.labels[Handler], placement.labels)
  BY DEF WiringInv, Resolved, LabelsCarried
<1>2. \A key \in DOMAIN selector : ~Reserved(key)
  BY <1>1, PlacedInVpc DEF ReservedKeysUnused
<1>3. CASE placement = Unplaced
  BY <1>3 DEF Unplaced
<1>4. CASE \E v \in VpcsOf(w, Handler) : placement = DirectPlacement(v)
  <2> PICK v \in VpcsOf(w, Handler) : placement = DirectPlacement(v)
    BY <1>4
  <2>1. placement.vpc = v /\ placement.labels = NoLabels
    BY DEF DirectPlacement, Unplaced
  <2>2. Selects(selector, w.labels[Handler])
    BY <2>1 DEF VpcsOf
  <2>3. PICK key \in DOMAIN selector \cap DOMAIN w.labels[Handler] :
                selector[key] = w.labels[Handler][key]
    BY <2>2 DEF Selects
  <2>4. key \notin DOMAIN placement.labels
    BY <2>1, LabelDomains
  <2>5. key \in DOMAIN labels /\ labels[key] = w.labels[Handler][key]
    BY <1>1, <1>2, <2>3, <2>4 DEF CarriesUnder
  <2> QED
    BY <2>3, <2>5 DEF Selects
<1>5. CASE \E p \in Parents(w) : \E v \in VpcsOf(w, p) : placement = Inherited(w, p, v)
  <2> PICK p \in Parents(w) : \E v \in VpcsOf(w, p) : placement = Inherited(w, p, v)
    BY <1>5
  <2> PICK v \in VpcsOf(w, p) : placement = Inherited(w, p, v)
    OBVIOUS
  <2>1. placement.vpc = v /\ placement.labels = MatchedLabels(w.selector[v], w.labels[p])
    BY DEF Inherited
  <2>2. Selects(selector, w.labels[p])
    BY <2>1 DEF VpcsOf
  <2>3. PICK key \in DOMAIN selector \cap DOMAIN w.labels[p] :
                selector[key] = w.labels[p][key]
    BY <2>2 DEF Selects
  <2>4. key \in DOMAIN placement.labels /\ placement.labels[key] = selector[key]
    BY <2>1, <2>3 DEF MatchedLabels
  <2>5. key \in DOMAIN labels /\ labels[key] = placement.labels[key]
    BY <1>1, <1>2, <2>3, <2>4 DEF Carries
  <2> QED
    BY <2>3, <2>4, <2>5 DEF Selects
<1> QED
  BY <1>1, <1>3, <1>4, <1>5 DEF PlacementFits

\* When the function is finished every binding has been stamped.
LEMMA AllStamped ==
    ASSUME WiringInv, phase = "done"
    PROVE  /\ Past(Queues) = QueueConsumers /\ AllOf(Queues) = QueueConsumers
           /\ Past(Streams) = StreamConsumers /\ AllOf(Streams) = StreamConsumers
           /\ Past(Buckets) = BucketConsumers
<1>1. settings.stamped = Len(bindings)
  BY DEF WiringInv, ConflictsReported
<1>2. ASSUME NEW kinds
      PROVE  Past(kinds) = Family(kinds) /\ AllOf(kinds) = Family(kinds)
  BY <1>1, PastIsFamily DEF WiringInv, Past, AllOf
<1> QED
  BY <1>2 DEF Queues, Streams, Buckets, QueueConsumers, StreamConsumers, BucketConsumers

LEMMA InvEvents == WiringInv => BucketEventsStamped
<1> SUFFICES ASSUME WiringInv, phase = "done"
             PROVE  {settings.events[i] : i \in DOMAIN settings.events} =
                      UNION {{w.events[c][i] : i \in DOMAIN w.events[c]} :
                                c \in BucketConsumers}
  BY DEF BucketEventsStamped
<1> DEFINE asked(c) == {w.events[c][i] : i \in DOMAIN w.events[c]}
<1>1. EventsFollow(w, settings.events, BucketConsumers)
  BY AllStamped DEF WiringInv, SettingsFollow
<1>2. ASSUME NEW e
      PROVE  (\E i \in DOMAIN settings.events : settings.events[i] = e) <=>
             (\E c \in BucketConsumers : e \in asked(c))
  <2> DEFINE wants(c) == \E i \in DOMAIN w.events[c] : w.events[c][i] = e
  <2>1. \A c : e \in asked(c) <=> wants(c)
    OBVIOUS
  <2>2. (\E i \in DOMAIN settings.events : settings.events[i] = e) <=>
        (\E c \in BucketConsumers : wants(c))
    BY <1>1 DEF EventsFollow
  <2> HIDE DEF asked, wants
  <2> QED
    BY <2>1, <2>2
<1> HIDE DEF asked
<1>3. {settings.events[i] : i \in DOMAIN settings.events} =
        UNION {asked(c) : c \in BucketConsumers}
  BY <1>2
<1> QED
  BY <1>3 DEF asked

LEMMA InvSettings == WiringInv => SettingsApplyOrReported
<1> SUFFICES ASSUME WiringInv, phase = "done" PROVE SettingsApplyOrReported
  BY DEF SettingsApplyOrReported
<1>1. ASSUME NEW cs, NEW batch, NEW flag, NEW c \in cs, AgreeOnSettings(w, cs),
             BatchFollows(w, batch, cs), FailuresFollow(w, flag, cs)
      PROVE  /\ w.batch[c] \in {Absent, batch}
             /\ c \in w.failures <=> flag
  BY <1>1 DEF AgreeOnSettings, BatchFollows, FailuresFollow
<1>2. ASSUME NEW c \in QueueConsumers, ~Reported("settings", c)
      PROVE  /\ w.batch[c] \in {Absent, settings.sqsBatch}
             /\ c \in w.failures <=> settings.sqsFailures
  <2>1. AgreeOnSettings(w, QueueConsumers)
    BY <1>2, AllStamped DEF WiringInv, ConflictsReported
  <2>2. BatchFollows(w, settings.sqsBatch, QueueConsumers)
        /\ FailuresFollow(w, settings.sqsFailures, QueueConsumers)
    BY AllStamped DEF WiringInv, SettingsFollow
  <2> QED
    BY <1>1, <1>2, <2>1, <2>2
<1>3. ASSUME NEW c \in StreamConsumers, ~Reported("settings", c)
      PROVE  /\ w.batch[c] \in {Absent, settings.streamBatch}
             /\ c \in w.failures <=> settings.streamFailures
             /\ c \in w.fromStart <=> settings.position = "start"
  <2>1. AgreeOnSettings(w, StreamConsumers) /\ AgreeOnStart(w, StreamConsumers)
    BY <1>3, AllStamped DEF WiringInv, ConflictsReported
  <2>2. BatchFollows(w, settings.streamBatch, StreamConsumers)
        /\ FailuresFollow(w, settings.streamFailures, StreamConsumers)
    BY AllStamped DEF WiringInv, SettingsFollow
  <2>3. PositionFollows(w, settings.position, StreamConsumers)
    BY AllStamped DEF WiringInv, SettingsFollow
  <2>4. c \in w.fromStart <=> settings.position = "start"
    BY <1>3, <2>1, <2>3 DEF AgreeOnStart, PositionFollows
  <2> QED
    BY <1>1, <1>3, <2>1, <2>2, <2>4
<1> QED
  BY <1>2, <1>3 DEF SettingsApplyOrReported

\* Every variable keeps the values it is meant to take, in every phase.
THEOREM WiringTypeCorrect == Spec => []TypeOK
BY WiringInvHolds, InvTyped, PTL

\* Whatever order the edges come in and the placements of the components are
\* collected in, the handler is placed as the wiring says, or two VPCs claim it.
THEOREM PlacementIsTheWirings == Spec => []OrderDoesNotShow
BY WiringInvHolds, InvOrder, PTL

\* A source bound to the handler selects its function, or a report or a label
\* laid over says why not, unless it selects by a key the transformer reserves.
THEOREM SourcesFindTheirFunction ==
    Spec => [](ReservedKeysUnused => SourcesReachFunction)
BY WiringInvHolds, InvReaches, PTL

\* The VPC of the placement selects the function, whatever labels are laid over.
THEOREM PlacementsFindTheirFunction ==
    Spec => [](ReservedKeysUnused => PlacementReachesFunction)
BY WiringInvHolds, InvPlaces, PTL

\* A placed handler about which nothing is reported gets the tier and the reach
\* it asked for, whatever its VPC's preset.
THEOREM SilentPlacementsDeliver == Spec => []SilenceMeansDelivered
<1>1. WiringInv => SilenceMeansDelivered
  BY DEF WiringInv
<1> QED
  BY WiringInvHolds, <1>1, PTL

\* The function lists the S3 events its bucket consumers ask for and no others.
THEOREM BucketEventsAreStamped == Spec => []BucketEventsStamped
BY WiringInvHolds, InvEvents, PTL

\* A setting of a consumer is the function's, or a report names the consumer.
THEOREM SettingsTakeEffect == Spec => []SettingsApplyOrReported
BY WiringInvHolds, InvSettings, PTL

=============================================================================
