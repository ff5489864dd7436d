--------------------------- MODULE ResourcesStore ---------------------------
(***************************************************************************)
(* The entries of the internal resources store: for every backing a        *)
(* handler links to, the configuration keys under which the SDK finds it.  *)
(* Handlers arrive in the order of a Go map and are sorted by name; keys   *)
(* already present are skipped, and for a connection, which takes several  *)
(* keys, presence is judged by its host.                                   *)
(*                                                                         *)
(* Besides the fields of BackingBlueprint, a blueprint b has              *)
(*   primaries  the handlers of the plan and others that are none          *)
(*   links      handler -> its linked backings, in edge order              *)
(*   rank       handler -> its place in the lexical order of names         *)
(* A key is the sequence of the parts it is put together from.             *)
(***************************************************************************)
EXTENDS BackingBlueprint, SequencesExt

VARIABLES b,            \* the blueprint, fixed for the run
          phase,        \* "collect", "add" or "done"
          primaries,    \* the primaries not yet looked at
          handlers,     \* the handlers found among them
          todo,         \* the links whose backings are still to be added
          entries,      \* key -> the backing it describes
          store         \* the planned store's values, Absent without one

vars == <<b, phase, primaries, handlers, todo, entries, store>>

IsList(s) == s \in Seq(ToSet(s))

\* The handlers are among the primaries, link to what they select by labels and have
\* names of their own; a name is a list of parts, as what a spec lists is a list.
IsBacked(x) ==
    /\ DOMAIN x.links \subseteq x.primaries
    /\ \A h \in DOMAIN x.links :
            /\ x.links[h] \in Seq(DOMAIN x.kind)
            /\ \A r \in ToSet(x.links[h]) : Selects(x.selector[h], OwnLabels(x, r))
            /\ x.rank[h] \in Nat
            /\ \A g \in DOMAIN x.links \ {h} : x.rank[g] # x.rank[h]
    /\ \A r \in DOMAIN x.kind :
            /\ x.kind[r] \in {"queue", "topic", "datastore", "bucket", "cache",
                               "sqlDatabase", "config", "vpc"}
            /\ x.name[r] # Absent => IsList(x.name[r])
            /\ x.kind[r] \in {"queue", "topic"} =>
                    IsList(x.spec[r].title) /\ IsList(x.spec[r].events)
            /\ x.kind[r] = "datastore" =>
                    /\ IsList(x.spec[r].keys) /\ IsList(x.spec[r].indexes)
                    /\ \A i \in DOMAIN x.spec[r].indexes : IsList(x.spec[r].indexes[i])
            /\ x.kind[r] \in {"cache", "sqlDatabase"} =>
                    \A v, w \in PlacedIn(x, r) : v = w

ASSUME BackingShape == \A x \in Blueprint : IsBacked(x)

Groups == <<"queue", "topic", "datastore", "bucket", "cache", "sqlDatabase">>
Handlers == DOMAIN b.links
Backings == {r \in DOMAIN b.kind : b.kind[r] \in ToSet(Groups)}

Init ==
    /\ b \in Blueprint
    /\ phase = "collect"
    /\ primaries = b.primaries
    /\ handlers = <<>>
    /\ todo = {}
    /\ entries = <<>>
    /\ store = Absent

\* A slip: a primary is not asked whether it is a handler.
CollectAnyPrimary(p) ==
    /\ phase = "collect" /\ p \in primaries
    /\ primaries' = primaries \ {p}
    /\ handlers' = Append(handlers, p)
    /\ UNCHANGED <<b, phase, todo, entries, store>>

CollectPrimary(p) ==
    /\ phase = "collect" /\ p \in primaries
    /\ primaries' = primaries \ {p}
    /\ handlers' = IF p \in Handlers THEN Append(handlers, p) ELSE handlers
    /\ UNCHANGED <<b, phase, todo, entries, store>>

\* A slip: the handlers stay in the order they were found in.
HandlersAsFound == {handlers}

\* There is one such sequence, since no two handlers have one name.
SortedHandlers ==
    {s \in [DOMAIN handlers -> ToSet(handlers)] :
        /\ ToSet(s) = ToSet(handlers)
        /\ \A i, j \in DOMAIN s : i < j => b.rank[s[i]] < b.rank[s[j]]}

\* The links of the handlers to backings, as <<handler, backing>>.
LinkPairs == {x \in Handlers \X Backings : x[2] \in ToSet(b.links[x[1]])}

SortHandlers ==
    /\ phase = "collect" /\ primaries = {}
    /\ phase' = "add"
    /\ handlers' \in SortedHandlers
    /\ todo' = {x \in LinkPairs : x[1] \in ToSet(handlers)}
    /\ UNCHANGED <<b, primaries, entries, store>>

PlaceIn(s, v) == CHOOSE i \in DOMAIN s : s[i] = v

\* A handler's backings are added group by group, in edge order within a group.
AddedBefore(h, r, s) ==
    LET group(x) == PlaceIn(Groups, b.kind[x])
    IN  \/ group(r) < group(s)
        \/ group(r) = group(s) /\ PlaceIn(b.links[h], r) < PlaceIn(b.links[h], s)

\* The order in which the loops over handlers, groups and links come to two links.
Before(x, y) ==
    \/ PlaceIn(handlers, x[1]) < PlaceIn(handlers, y[1])
    \/ x[1] = y[1] /\ AddedBefore(x[1], x[2], y[2])

-----------------------------------------------------------------------------
(* Entries.                                                                *)

StoreConfigKey(r) == IF b.name[r] # Absent THEN b.name[r] ELSE <<r>>

CacheSuffixes(r) ==
    {"host", "port", "tls", "clusterMode", "authMode"}
        \cup {s \in {"authTokenSecretId"} : AuthMode(b, r) = "password"}
        \cup {s \in {"user"} : AuthMode(b, r) = "iam"}

SqlSuffixes(r) ==
    {"host", "database", "port", "engine", "user", "ssl", "authMode"}
        \cup {s \in {"readHost"} : r \in b.replicas}
        \cup {s \in {"credentialsSecretId"} : AuthMode(b, r) # "iam"}

SuffixesOf(r) == IF b.kind[r] = "cache" THEN CacheSuffixes(r) ELSE SqlSuffixes(r)
IsConnection(r) == b.kind[r] \in {"cache", "sqlDatabase"}

ConnectionKey(r, suffix) == Append(StoreConfigKey(r), suffix)

\* The keys r is written under.
KeysOf(r) ==
    IF IsConnection(r) THEN {ConnectionKey(r, s) : s \in SuffixesOf(r)}
    ELSE {StoreConfigKey(r)}

\* A slip: a database is judged by a key only databases have.
SeenByOwnKey(r) ==
    CASE b.kind[r] = "cache" -> ConnectionKey(r, "tls") \in DOMAIN entries
      [] b.kind[r] = "sqlDatabase" -> ConnectionKey(r, "database") \in DOMAIN entries
      [] OTHER -> StoreConfigKey(r) \in DOMAIN entries

Seen(r) ==
    IF IsConnection(r) THEN ConnectionKey(r, "host") \in DOMAIN entries
    ELSE StoreConfigKey(r) \in DOMAIN entries

\* A backing that is not seen writes all its keys, over what may be there.
Written(r) ==
    [k \in DOMAIN entries \cup KeysOf(r) |->
        IF k \in KeysOf(r) THEN r ELSE entries[k]]

AddStoreEntries(x) ==
    /\ phase = "add" /\ x \in todo
    /\ \A y \in todo \ {x} : Before(x, y)
    /\ todo' = todo \ {x}
    /\ entries' = IF Seen(x[2]) THEN entries ELSE Written(x[2])
    /\ UNCHANGED <<b, phase, primaries, handlers, store>>

PlanStore ==
    /\ phase = "add" /\ todo = {}
    /\ phase' = "done"
    /\ store' = IF DOMAIN entries = {} THEN Absent ELSE entries
    /\ UNCHANGED <<b, primaries, handlers, todo, entries>>

Step ==
    \/ \E p \in primaries : CollectPrimary(p)
    \/ SortHandlers
    \/ \E x \in todo : AddStoreEntries(x)
    \/ PlanStore

Finished == phase = "done" /\ UNCHANGED vars
Next == Step \/ Finished

\* One goroutine plans the store.
Spec == Init /\ [][Next]_vars /\ WF_vars(Step)

-----------------------------------------------------------------------------
(* Properties.                                                             *)

\* Type invariant: what each variable holds.
TypeOK ==
    /\ phase \in {"collect", "add", "done"}
    /\ primaries \subseteq b.primaries
    /\ ToSet(handlers) \subseteq Handlers
    /\ todo \subseteq LinkPairs
    /\ \A k \in DOMAIN entries : entries[k] \in Backings
    /\ phase = "done" => store = Absent \/ store = entries

ConnectionSuffixes ==
    {"host", "port", "tls", "clusterMode", "authMode", "authTokenSecretId", "user",
     "database", "engine", "ssl", "readHost", "credentialsSecretId"}

\* The links of all handlers in the one order that depends on names alone.
Precedes(x, y) ==
    \/ x = y
    \/ b.rank[x[1]] < b.rank[y[1]]
    \/ x[1] = y[1] /\ AddedBefore(x[1], x[2], y[2])

\* "The first entry is kept, which is deterministic because the caller iterates
\* handlers in sorted order": a queue, topic, datastore or bucket keeps its key if
\* it comes, by handler name and group, before all others that have the key.
FirstEntryKept ==
    phase = "done" =>
        \A x \in LinkPairs : ~IsConnection(x[2]) =>
            LET key == StoreConfigKey(x[2])
            IN  (\A y \in LinkPairs : key \in KeysOf(y[2]) => Precedes(x, y))
                => store = entries /\ key \in DOMAIN store /\ store[key] = x[2]

\* A connection is never put together from two backings: all that the store has
\* under one configuration key is of one cache or database, and is all of it.
ConnectionsAreWhole ==
    phase = "done" =>
        \A x \in LinkPairs : IsConnection(x[2]) =>
            \E r \in Backings :
                /\ IsConnection(r)
                /\ {k \in DOMAIN store : \E s \in ConnectionSuffixes :
                        k = ConnectionKey(x[2], s)} = KeysOf(r)
                /\ \A k \in KeysOf(r) : store[k] = r
=============================================================================
