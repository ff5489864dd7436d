------------------------ MODULE ResourcesStore_proofs ------------------------
(***************************************************************************)
(* The store that is planned, for every set of handlers and backings: the  *)
(* winner of a key is decided by names alone, and the keys of a connection *)
(* are all of one backing.                                                 *)
(***************************************************************************)
EXTENDS ResourcesStore, TLAPS

-----------------------------------------------------------------------------
(* Keys.                                                                   *)

LEMMA AppendInjective ==
    ASSUME NEW s, NEW t, NEW x, NEW y,
           s \in Seq(ToSet(s)), t \in Seq(ToSet(t)), Append(s, x) = Append(t, y)
    PROVE  s = t /\ x = y
<1> DEFINE S == ToSet(s) \cup ToSet(t) \cup {x, y}
<1>1. s \in Seq(S) /\ t \in Seq(S) /\ x \in S /\ y \in S
  OBVIOUS
<1> HIDE DEF S
<1>2. Len(s) = Len(t)
  BY <1>1
<1>3. \A i \in 1..Len(s) : s[i] = t[i]
  BY <1>1, <1>2
<1>4. x = y
  BY <1>1, <1>2
<1> QED
  BY <1>1, <1>2, <1>3, <1>4

LEMMA AppendedMembers ==
    ASSUME NEW S, NEW s \in Seq(S), NEW x \in S
    PROVE  ToSet(Append(s, x)) = ToSet(s) \cup {x}
<1>1. /\ DOMAIN Append(s, x) = DOMAIN s \cup {Len(s) + 1}
      /\ \A i \in DOMAIN s : Append(s, x)[i] = s[i]
      /\ Append(s, x)[Len(s) + 1] = x
  OBVIOUS
<1> DEFINE t == Append(s, x)
           n == Len(s) + 1
<1>2. DOMAIN t = DOMAIN s \cup {n} /\ t[n] = x /\ \A i \in DOMAIN s : t[i] = s[i]
  BY <1>1
<1> HIDE DEF t, n
<1>3. {t[i] : i \in DOMAIN t} = {s[i] : i \in DOMAIN s} \cup {x}
  BY <1>2
<1> QED
  BY <1>3 DEF t, ToSet

\* The configuration key of a backing is a sequence of parts.
LEMMA ConfigKeyIsSequence ==
    ASSUME IsBacked(b), NEW r \in DOMAIN b.kind
    PROVE  StoreConfigKey(r) \in Seq(ToSet(StoreConfigKey(r)))
<1>1. CASE b.name[r] # Absent
  BY <1>1 DEF IsBacked, IsList, StoreConfigKey
<1>2. CASE b.name[r] = Absent
  <2>1. ToSet(<<r>>) = {r}
    BY DEF ToSet
  <2> QED
    BY <1>2, <2>1 DEF StoreConfigKey
<1> QED
  BY <1>1, <1>2

\* A key of a connection tells its backing's configuration key and its part.
LEMMA ConnectionKeysApart ==
    ASSUME IsBacked(b), NEW r \in DOMAIN b.kind, NEW s \in DOMAIN b.kind,
           NEW x, NEW y, ConnectionKey(r, x) = ConnectionKey(s, y)
    PROVE  StoreConfigKey(r) = StoreConfigKey(s) /\ x = y
BY ConfigKeyIsSequence, AppendInjective DEF ConnectionKey

\* All the keys that a connection of c's name could have.
PartKeys(c) == {ConnectionKey(c, s) : s \in ConnectionSuffixes}

LEMMA ConnectionKeys ==
    ASSUME NEW r, IsConnection(r)
    PROVE  /\ KeysOf(r) \subseteq PartKeys(r)
           /\ ConnectionKey(r, "host") \in KeysOf(r)
<1>1. SuffixesOf(r) \subseteq ConnectionSuffixes /\ "host" \in SuffixesOf(r)
  BY DEF SuffixesOf, CacheSuffixes, SqlSuffixes, ConnectionSuffixes
<1> QED
  BY <1>1 DEF KeysOf, PartKeys

LEMMA IdentifierKeys ==
    ASSUME NEW r, ~IsConnection(r)
    PROVE  KeysOf(r) = {StoreConfigKey(r)}
BY DEF KeysOf

\* Two connections with one key have one configuration key, and all keys of the
\* one are among those the other could have.
LEMMA PartKeysMeet ==
    ASSUME IsBacked(b), NEW r \in DOMAIN b.kind, NEW s \in DOMAIN b.kind,
           NEW k, k \in PartKeys(r), k \in PartKeys(s)
    PROVE  PartKeys(r) = PartKeys(s) /\ \A x : ConnectionKey(r, x) = ConnectionKey(s, x)
<1>1. PICK x \in ConnectionSuffixes, y \in ConnectionSuffixes :
        k = ConnectionKey(r, x) /\ k = ConnectionKey(s, y)
  BY DEF PartKeys
<1>2. StoreConfigKey(r) = StoreConfigKey(s)
  BY <1>1, ConnectionKeysApart
<1>3. \A z : ConnectionKey(r, z) = ConnectionKey(s, z)
  BY <1>2 DEF ConnectionKey
<1> QED
  BY <1>3 DEF PartKeys

\* No backing with a single key has one that is a part of a connection's. The
\* code does not look: of two such backings the connection overwrites the other.
PartsUnclaimed ==
    \A c, r \in Backings : IsConnection(c) /\ ~IsConnection(r) =>
        StoreConfigKey(r) \notin PartKeys(c)

-----------------------------------------------------------------------------
(* Order.                                                                  *)

LEMMA PlaceFound ==
    ASSUME NEW S, NEW s \in Seq(S), NEW v \in ToSet(s)
    PROVE  PlaceIn(s, v) \in Nat /\ PlaceIn(s, v) \in DOMAIN s /\ s[PlaceIn(s, v)] = v
<1>1. \E i \in DOMAIN s : s[i] = v
  BY DEF ToSet
<1>2. DOMAIN s \subseteq Nat
  OBVIOUS
<1> QED
  BY <1>1, <1>2 DEF PlaceIn

Sorted ==
    \A i, j \in DOMAIN handlers : i < j => b.rank[handlers[i]] < b.rank[handlers[j]]

LEMMA AddedInOrder ==
    ASSUME IsBacked(b), NEW h \in Handlers, NEW r \in Backings, NEW s \in Backings,
           r \in ToSet(b.links[h]), s \in ToSet(b.links[h])
    PROVE  ~(AddedBefore(h, r, s) /\ AddedBefore(h, s, r))
<1>1. Groups \in Seq(ToSet(Groups))
  BY DEF Groups, ToSet
<1>2. b.kind[r] \in ToSet(Groups) /\ b.kind[s] \in ToSet(Groups)
  BY DEF Backings
<1>3. PlaceIn(Groups, b.kind[r]) \in Nat /\ PlaceIn(Groups, b.kind[s]) \in Nat
  BY <1>1, <1>2, PlaceFound
<1>4. b.links[h] \in Seq(DOMAIN b.kind)
  BY DEF IsBacked, Handlers
<1>5. PlaceIn(b.links[h], r) \in Nat /\ PlaceIn(b.links[h], s) \in Nat
  BY <1>4, PlaceFound
<1> QED
  BY <1>3, <1>5 DEF AddedBefore

\* The loops come to the links in the order that names give them.
LEMMA LoopsFollowNames ==
    ASSUME IsBacked(b), handlers \in Seq(Handlers), ToSet(handlers) = Handlers, Sorted,
           NEW x \in LinkPairs, NEW y \in LinkPairs, Before(y, x)
    PROVE  ~Precedes(x, y)
<1>1. /\ x[1] \in Handlers /\ x[2] \in Backings /\ x[2] \in ToSet(b.links[x[1]])
      /\ y[1] \in Handlers /\ y[2] \in Backings /\ y[2] \in ToSet(b.links[y[1]])
  BY DEF LinkPairs
<1>2. b.rank[x[1]] \in Nat /\ b.rank[y[1]] \in Nat
  BY <1>1 DEF IsBacked, Handlers
<1>3. CASE PlaceIn(handlers, y[1]) < PlaceIn(handlers, x[1])
  <2>1. /\ PlaceIn(handlers, y[1]) \in DOMAIN handlers
        /\ PlaceIn(handlers, x[1]) \in DOMAIN handlers
        /\ handlers[PlaceIn(handlers, y[1])] = y[1]
        /\ handlers[PlaceIn(handlers, x[1])] = x[1]
    BY <1>1, PlaceFound
  <2>2. b.rank[y[1]] < b.rank[x[1]]
    BY <1>3, <2>1 DEF Sorted
  <2> QED
    BY <1>2, <2>2 DEF Precedes
<1>4. CASE y[1] = x[1] /\ AddedBefore(y[1], y[2], x[2])
  <2>1. ~AddedBefore(x[1], x[2], y[2])
    BY <1>1, <1>4, AddedInOrder
  <2>2. x # y
    BY <1>4, <2>1
  <2> QED
    BY <1>2, <1>4, <2>1, <2>2 DEF Precedes
<1> QED
  BY <1>3, <1>4 DEF Before

-----------------------------------------------------------------------------
(* The invariant.                                                          *)

\* How far the plan is.
PlanShape ==
    /\ b \in Blueprint
    /\ phase \in {"collect", "add", "done"}
    /\ primaries \subseteq b.primaries
    /\ handlers \in Seq(Handlers)
    /\ phase = "collect" => /\ ToSet(handlers) = Handlers \ primaries
                            /\ todo = {} /\ DOMAIN entries = {}
    /\ phase # "collect" => ToSet(handlers) = Handlers /\ Sorted
    /\ todo \subseteq LinkPairs
    /\ phase = "done" => /\ todo = {}
                         /\ store = IF DOMAIN entries = {} THEN Absent ELSE entries
    /\ \A k \in DOMAIN entries : entries[k] \in Backings /\ k \in KeysOf(entries[k])

\* Each link gone through has its backing's key in the entries, its host's if it is
\* of a connection.
LinksServed == phase # "collect" => \A x \in LinkPairs \ todo : Seen(x[2])

\* All that is there of a connection's name is of one connection, and all of it.
WholeIn(e, c) ==
    \/ DOMAIN e \cap PartKeys(c) = {}
    \/ \E r \in Backings :
            /\ IsConnection(r)
            /\ DOMAIN e \cap PartKeys(c) = KeysOf(r)
            /\ \A k \in KeysOf(r) : e[k] = r

EntriesWhole == \A c \in Backings : IsConnection(c) => WholeIn(entries, c)

\* x has its key before all others that have it.
FirstToClaim(x) ==
    /\ ~IsConnection(x[2])
    /\ \A y \in LinkPairs : StoreConfigKey(x[2]) \in KeysOf(y[2]) => Precedes(x, y)

\* Its key is free until it takes it, and then stays with it.
KeyKept(x) ==
    LET key == StoreConfigKey(x[2])
    IN  /\ x \in todo => key \notin DOMAIN entries
        /\ x \notin todo => key \in DOMAIN entries /\ entries[key] = x[2]

FirstKept == phase # "collect" => \A x \in LinkPairs : FirstToClaim(x) => KeyKept(x)

StoreInv ==
    /\ PlanShape
    /\ LinksServed
    /\ PartsUnclaimed => EntriesWhole /\ FirstKept

LEMMA BlueprintIsBacked == PlanShape => IsBacked(b)
BY BackingShape DEF PlanShape

\* What is read of the blueprint alone does not change.
LEMMA StoreFixed ==
    ASSUME b' = b
    PROVE  /\ Handlers' = Handlers /\ Backings' = Backings /\ LinkPairs' = LinkPairs
           /\ \A r : StoreConfigKey(r)' = StoreConfigKey(r)
           /\ \A r : (IsConnection(r)' <=> IsConnection(r))
           /\ \A r : KeysOf(r)' = KeysOf(r)
           /\ \A r : PartKeys(r)' = PartKeys(r)
           /\ \A r, s : ConnectionKey(r, s)' = ConnectionKey(r, s)
           /\ \A x, y : (Precedes(x, y)' <=> Precedes(x, y))
<1>1. Handlers' = Handlers /\ Backings' = Backings /\ LinkPairs' = LinkPairs
  BY DEF Handlers, Backings, LinkPairs
<1>2. /\ \A r : StoreConfigKey(r)' = StoreConfigKey(r)
      /\ \A r : (IsConnection(r)' <=> IsConnection(r))
      /\ \A r : SuffixesOf(r)' = SuffixesOf(r)
  BY DEF StoreConfigKey, IsConnection, SuffixesOf, CacheSuffixes, SqlSuffixes
<1>3. \A r, s : ConnectionKey(r, s)' = ConnectionKey(r, s)
  BY <1>2 DEF ConnectionKey
<1>4. \A r : KeysOf(r)' = KeysOf(r)
  BY <1>2, <1>3 DEF KeysOf
<1>5. \A r : PartKeys(r)' = PartKeys(r)
  BY <1>3 DEF PartKeys
<1>6. \A x, y : (Precedes(x, y)' <=> Precedes(x, y))
  BY DEF Precedes, AddedBefore
<1> QED
  BY <1>1, <1>2, <1>3, <1>4, <1>5, <1>6

\* With it, the conditions that speak of the blueprint alone.
LEMMA ClaimsFixed ==
    ASSUME b' = b
    PROVE  /\ PartsUnclaimed' <=> PartsUnclaimed
           /\ \A x : (FirstToClaim(x)' <=> FirstToClaim(x))
           /\ \A e, c : (WholeIn(e, c)' <=> WholeIn(e, c))
<1>1. PartsUnclaimed' <=> PartsUnclaimed
  BY StoreFixed DEF PartsUnclaimed
<1>2. ASSUME NEW x PROVE FirstToClaim(x)' <=> FirstToClaim(x)
  BY StoreFixed DEF FirstToClaim
<1>3. ASSUME NEW e, NEW c PROVE WholeIn(e, c)' <=> WholeIn(e, c)
  BY StoreFixed DEF WholeIn
<1> QED
  BY <1>1, <1>2, <1>3

-----------------------------------------------------------------------------
(* The steps.                                                              *)

LEMMA StoreInvInit ==
    ASSUME Init
    PROVE  StoreInv
<1>1. /\ b \in Blueprint /\ phase = "collect" /\ primaries = b.primaries
      /\ handlers = <<>> /\ todo = {} /\ DOMAIN entries = {}
  BY DEF Init
<1>2. IsBacked(b)
  BY <1>1, BackingShape
<1>3. Handlers \ primaries = {} /\ ToSet(handlers) = {}
  BY <1>1, <1>2 DEF IsBacked, Handlers, ToSet
<1>4. PlanShape
  BY <1>1, <1>3 DEF PlanShape
<1>5. EntriesWhole
  BY <1>1 DEF EntriesWhole, WholeIn
<1> QED
  BY <1>1, <1>4, <1>5 DEF StoreInv, LinksServed, FirstKept

LEMMA CollectPrimaryStep ==
    ASSUME StoreInv, NEW p \in primaries, CollectPrimary(p)
    PROVE  StoreInv'
<1>1. /\ b' = b /\ phase = "collect" /\ phase' = "collect" /\ todo' = todo
      /\ entries' = entries /\ store' = store /\ primaries' = primaries \ {p}
  BY DEF CollectPrimary
<1>2. PlanShape
  BY DEF StoreInv
<1>3. /\ handlers \in Seq(Handlers) /\ primaries \subseteq b.primaries
      /\ ToSet(handlers) = Handlers \ primaries
  BY <1>1, <1>2 DEF PlanShape
<1>4. handlers' \in Seq(Handlers) /\ ToSet(handlers') = Handlers \ primaries'
  <2>1. CASE p \in Handlers
    <3>1. handlers' = Append(handlers, p)
      BY <2>1 DEF CollectPrimary
    <3>2. ToSet(Append(handlers, p)) = ToSet(handlers) \cup {p}
      BY <1>3, <2>1, AppendedMembers
    <3> QED
      BY <1>1, <1>3, <2>1, <3>1, <3>2
  <2>2. CASE p \notin Handlers
    BY <1>1, <1>3, <2>2 DEF CollectPrimary
  <2> QED
    BY <2>1, <2>2
<1>5. PlanShape'
  BY <1>1, <1>2, <1>3, <1>4, StoreFixed DEF PlanShape
<1>6. EntriesWhole' <=> EntriesWhole
  BY <1>1, StoreFixed, ClaimsFixed DEF EntriesWhole
<1> QED
  BY <1>1, <1>5, <1>6, ClaimsFixed DEF StoreInv, LinksServed, FirstKept

LEMMA SortHandlersStep ==
    ASSUME StoreInv, SortHandlers
    PROVE  StoreInv'
<1>1. /\ b' = b /\ phase = "collect" /\ phase' = "add" /\ primaries = {}
      /\ entries' = entries /\ store' = store /\ primaries' = primaries
      /\ handlers' \in SortedHandlers
      /\ todo' = {x \in LinkPairs : x[1] \in ToSet(handlers)}
  BY DEF SortHandlers
<1>2. PlanShape
  BY DEF StoreInv
<1>3. /\ handlers \in Seq(Handlers) /\ ToSet(handlers) = Handlers
      /\ DOMAIN entries = {}
  BY <1>1, <1>2 DEF PlanShape
<1>4. handlers' \in Seq(Handlers) /\ ToSet(handlers') = Handlers
  BY <1>1, <1>3 DEF SortedHandlers
<1>5. \A i, j \in DOMAIN handlers' : i < j => b.rank[handlers'[i]] < b.rank[handlers'[j]]
  BY <1>1, <1>3 DEF SortedHandlers
<1>6. todo' = LinkPairs
  BY <1>1, <1>3 DEF LinkPairs
<1>7. PlanShape'
  BY <1>1, <1>2, <1>3, <1>4, <1>5, <1>6, StoreFixed DEF PlanShape, Sorted
<1>8. LinksServed'
  BY <1>1, <1>6, StoreFixed DEF LinksServed
<1>9. EntriesWhole'
  BY <1>1, <1>3 DEF EntriesWhole, WholeIn
<1>10. FirstKept'
  BY <1>1, <1>3, <1>6, StoreFixed DEF FirstKept, KeyKept
<1> QED
  BY <1>7, <1>8, <1>9, <1>10 DEF StoreInv

\* Adding the backing r leaves the entries as they are, or gives it all its keys.
LEMMA EntriesAdded ==
    ASSUME NEW r, entries' = IF Seen(r) THEN entries ELSE Written(r)
    PROVE  /\ DOMAIN entries \subseteq DOMAIN entries'
           /\ Seen(r) => entries' = entries
           /\ ~Seen(r) =>
                /\ DOMAIN entries' = DOMAIN entries \cup KeysOf(r)
                /\ \A k \in KeysOf(r) : entries'[k] = r
                /\ \A k \in DOMAIN entries \ KeysOf(r) : entries'[k] = entries[k]
BY DEF Written

\* After it has been gone through its key, or its host's, is there.
LEMMA SeenAfterwards ==
    ASSUME b' = b, DOMAIN entries \subseteq DOMAIN entries', NEW r,
           Seen(r) \/ KeysOf(r) \subseteq DOMAIN entries'
    PROVE  Seen(r)'
<1>1. ConnectionKey(r, "host") \in KeysOf(r) \/ ~IsConnection(r)
  BY ConnectionKeys
<1>2. KeysOf(r) = {StoreConfigKey(r)} \/ IsConnection(r)
  BY IdentifierKeys
<1> QED
  BY <1>1, <1>2, StoreFixed DEF Seen

\* A connection that is not seen finds nothing of its name, and fills it; to
\* connections of other names, and if r is none, to all, nothing happens.
LEMMA WholeAfterwards ==
    ASSUME PlanShape, EntriesWhole, PartsUnclaimed, NEW r \in Backings,
           entries' = IF Seen(r) THEN entries ELSE Written(r),
           NEW c \in Backings, IsConnection(c)
    PROVE  WholeIn(entries', c)
<1>1. WholeIn(entries, c)
  BY DEF EntriesWhole
<1>2. IsBacked(b) /\ r \in DOMAIN b.kind /\ c \in DOMAIN b.kind
  BY BlueprintIsBacked DEF Backings
<1>3. CASE Seen(r)
  BY <1>1, <1>3
<1>4. CASE ~Seen(r) /\ KeysOf(r) \cap PartKeys(c) = {}
  <2>1. DOMAIN entries' \cap PartKeys(c) = DOMAIN entries \cap PartKeys(c)
    BY <1>4, EntriesAdded
  <2>2. \A k \in DOMAIN entries \cap PartKeys(c) : entries'[k] = entries[k]
    BY <1>4, EntriesAdded
  <2> QED
    BY <1>1, <2>1, <2>2 DEF WholeIn
<1>5. CASE ~Seen(r) /\ KeysOf(r) \cap PartKeys(c) # {}
  <2>1. IsConnection(r)
    BY <1>5, IdentifierKeys DEF PartsUnclaimed
  <2>2. PartKeys(r) = PartKeys(c)
    BY <1>2, <1>5, <2>1, ConnectionKeys, PartKeysMeet
  <2>3. DOMAIN entries \cap PartKeys(c) = {}
    <3> SUFFICES ASSUME NEW s \in Backings, IsConnection(s),
                        DOMAIN entries \cap PartKeys(c) = KeysOf(s)
                 PROVE  FALSE
      BY <1>1 DEF WholeIn
    <3>1. ConnectionKey(s, "host") \in KeysOf(s) /\ KeysOf(s) \subseteq PartKeys(s)
      BY ConnectionKeys
    <3>2. s \in DOMAIN b.kind
      BY DEF Backings
    <3>3. ConnectionKey(s, "host") = ConnectionKey(r, "host")
      BY <1>2, <2>2, <3>1, <3>2, PartKeysMeet
    <3>4. ConnectionKey(r, "host") \in DOMAIN entries
      BY <3>1, <3>3
    <3> QED
      BY <1>5, <2>1, <3>4 DEF Seen
  <2>4. DOMAIN entries' \cap PartKeys(c) = KeysOf(r)
    BY <1>5, <2>1, <2>2, <2>3, ConnectionKeys, EntriesAdded
  <2>5. \A k \in KeysOf(r) : entries'[k] = r
    BY <1>5, EntriesAdded
  <2> QED
    BY <2>1, <2>4, <2>5 DEF WholeIn
<1> QED
  BY <1>3, <1>4, <1>5

\* A link that comes before all others with its key finds the key free; after it,
\* nothing takes the key from it.
LEMMA KeptAfterwards ==
    ASSUME StoreInv, PartsUnclaimed, NEW x \in todo, AddStoreEntries(x),
           NEW f \in LinkPairs, FirstToClaim(f)
    PROVE  LET key == StoreConfigKey(f[2])
           IN  /\ f \in todo' => key \notin DOMAIN entries'
               /\ f \notin todo' => key \in DOMAIN entries' /\ entries'[key] = f[2]
<1> DEFINE key == StoreConfigKey(f[2])
<1>1. /\ phase = "add" /\ todo' = todo \ {x}
      /\ \A y \in todo \ {x} : Before(x, y)
      /\ entries' = IF Seen(x[2]) THEN entries ELSE Written(x[2])
  BY DEF AddStoreEntries
<1>2. PlanShape /\ KeyKept(f) /\ x \in LinkPairs
  BY <1>1 DEF StoreInv, FirstKept, PlanShape
<1>3. ~IsConnection(f[2])
  BY DEF FirstToClaim
<1>4. x[2] \in Backings /\ f[2] \in Backings
  BY <1>2 DEF LinkPairs
<1>5. KeysOf(f[2]) = {key}
  BY <1>3, IdentifierKeys
<1>6. CASE x = f
  <2>1. key \notin DOMAIN entries
    BY <1>2, <1>6 DEF KeyKept
  <2>2. ~Seen(f[2])
    BY <1>3, <2>1 DEF Seen
  <2>3. /\ DOMAIN entries' = DOMAIN entries \cup KeysOf(f[2])
        /\ \A k \in KeysOf(f[2]) : entries'[k] = f[2]
    BY <1>1, <1>6, <2>2, EntriesAdded
  <2> HIDE DEF key
  <2> QED
    BY <1>1, <1>5, <1>6, <2>3 DEF key
<1>7. CASE x # f /\ f \in todo
  <2>1. key \notin DOMAIN entries
    BY <1>2, <1>7 DEF KeyKept
  <2>2. ~Precedes(f, x)
    BY <1>1, <1>2, <1>7, BlueprintIsBacked, LoopsFollowNames DEF PlanShape
  <2>3. key \notin KeysOf(x[2])
    BY <1>2, <2>2 DEF FirstToClaim
  <2>4. f \in todo'
    BY <1>1, <1>7
  <2> HIDE DEF key
  <2>5. key \notin DOMAIN entries'
    BY <1>1, <2>1, <2>3, EntriesAdded
  <2> QED
    BY <2>4, <2>5 DEF key
<1>8. CASE f \notin todo
  <2>1. key \in DOMAIN entries /\ entries[key] = f[2]
    BY <1>2, <1>8 DEF KeyKept
  <2>2. Seen(x[2]) \/ key \notin KeysOf(x[2])
    <3>1. CASE IsConnection(x[2])
      BY <1>3, <1>4, <3>1, ConnectionKeys DEF PartsUnclaimed
    <3>2. CASE ~IsConnection(x[2])
      BY <2>1, <3>2, IdentifierKeys DEF Seen
    <3> QED
      BY <3>1, <3>2
  <2> HIDE DEF key
  <2>3. key \in DOMAIN entries' /\ entries'[key] = entries[key]
    BY <1>1, <2>1, <2>2, EntriesAdded
  <2> QED
    BY <1>1, <1>8, <2>1, <2>3 DEF key
<1> QED
  BY <1>6, <1>7, <1>8

LEMMA AddStoreEntriesStep ==
    ASSUME StoreInv, NEW x \in todo, AddStoreEntries(x)
    PROVE  StoreInv'
<1>1. /\ b' = b /\ phase = "add" /\ phase' = "add" /\ primaries' = primaries
      /\ handlers' = handlers /\ store' = store /\ todo' = todo \ {x}
      /\ entries' = IF Seen(x[2]) THEN entries ELSE Written(x[2])
  BY DEF AddStoreEntries
<1>2. PlanShape
  BY DEF StoreInv
<1>3. x \in LinkPairs /\ x[2] \in Backings
  BY <1>2 DEF PlanShape, LinkPairs
<1>4. \A k \in DOMAIN entries' : entries'[k] \in Backings /\ k \in KeysOf(entries'[k])
  BY <1>1, <1>2, <1>3, EntriesAdded DEF PlanShape
<1>5. Sorted' <=> Sorted
  BY <1>1 DEF Sorted
<1>6. PlanShape'
  BY <1>1, <1>2, <1>4, <1>5, StoreFixed DEF PlanShape
<1>7. LinksServed'
  <2> SUFFICES ASSUME NEW y \in LinkPairs \ todo'
               PROVE  Seen(y[2])'
    BY <1>1, StoreFixed DEF LinksServed
  <2>1. DOMAIN entries \subseteq DOMAIN entries'
    BY <1>1, EntriesAdded
  <2>2. CASE y = x
    BY <1>1, <2>1, <2>2, EntriesAdded, SeenAfterwards
  <2>3. CASE y # x
    <3>1. Seen(y[2])
      BY <1>1, <2>3 DEF StoreInv, LinksServed
    <3> QED
      BY <1>1, <2>1, <3>1, SeenAfterwards
  <2> QED
    BY <2>2, <2>3
<1>8. ASSUME PartsUnclaimed
      PROVE  EntriesWhole'
  <2>1. EntriesWhole
    BY <1>8 DEF StoreInv
  <2>2. \A c \in Backings : IsConnection(c) => WholeIn(entries', c)
    BY <1>1, <1>2, <1>3, <1>8, <2>1, WholeAfterwards
  <2> QED
    BY <1>1, <2>2, StoreFixed, ClaimsFixed DEF EntriesWhole
<1>9. ASSUME PartsUnclaimed
      PROVE  FirstKept'
  <2> SUFFICES ASSUME NEW f \in LinkPairs, FirstToClaim(f)
               PROVE  KeyKept(f)'
    BY <1>1, StoreFixed, ClaimsFixed DEF FirstKept
  <2> QED
    BY <1>1, <1>9, KeptAfterwards, StoreFixed DEF KeyKept
<1> QED
  BY <1>1, <1>6, <1>7, <1>8, <1>9, ClaimsFixed DEF StoreInv

LEMMA PlanStoreStep ==
    ASSUME StoreInv, PlanStore
    PROVE  StoreInv'
<1>1. /\ b' = b /\ phase = "add" /\ phase' = "done" /\ primaries' = primaries
      /\ handlers' = handlers /\ todo' = todo /\ entries' = entries /\ todo = {}
      /\ store' = IF DOMAIN entries = {} THEN Absent ELSE entries
  BY DEF PlanStore
<1>2. Sorted' <=> Sorted
  BY <1>1 DEF Sorted
<1>3. PlanShape'
  BY <1>1, <1>2, StoreFixed DEF StoreInv, PlanShape
<1>4. LinksServed'
  BY <1>1, StoreFixed DEF StoreInv, LinksServed, Seen
<1>5. EntriesWhole => EntriesWhole'
  BY <1>1, StoreFixed, ClaimsFixed DEF EntriesWhole
<1>6. FirstKept => FirstKept'
  BY <1>1, StoreFixed, ClaimsFixed DEF FirstKept, KeyKept
<1> QED
  BY <1>1, <1>3, <1>4, <1>5, <1>6, ClaimsFixed DEF StoreInv

LEMMA StoreStutters ==
    ASSUME StoreInv, UNCHANGED vars
    PROVE  StoreInv'
<1>1. /\ b' = b /\ phase' = phase /\ primaries' = primaries /\ store' = store
      /\ handlers' = handlers /\ todo' = todo /\ entries' = entries
  BY DEF vars
<1>2. Sorted' <=> Sorted
  BY <1>1 DEF Sorted
<1>3. PlanShape'
  BY <1>1, <1>2, StoreFixed DEF StoreInv, PlanShape
<1>4. LinksServed'
  BY <1>1, StoreFixed DEF StoreInv, LinksServed, Seen
<1>5. EntriesWhole => EntriesWhole'
  BY <1>1, StoreFixed, ClaimsFixed DEF EntriesWhole
<1>6. FirstKept => FirstKept'
  BY <1>1, StoreFixed, ClaimsFixed DEF FirstKept, KeyKept
<1> QED
  BY <1>3, <1>4, <1>5, <1>6, <1>1, ClaimsFixed DEF StoreInv

LEMMA StoreInductive == StoreInv /\ [Next]_vars => StoreInv'
BY CollectPrimaryStep, SortHandlersStep, AddStoreEntriesStep, PlanStoreStep,
   StoreStutters
   DEF Next, Step, Finished

-----------------------------------------------------------------------------
(* The theorems.                                                           *)

LEMMA InvStoreTyped == StoreInv => TypeOK
<1> SUFFICES ASSUME StoreInv PROVE TypeOK
  OBVIOUS
<1>1. PlanShape
  BY DEF StoreInv
<1>2. ToSet(handlers) \subseteq Handlers
  BY <1>1 DEF PlanShape
<1> QED
  BY <1>1, <1>2 DEF PlanShape, TypeOK

LEMMA InvFirstKept == StoreInv /\ PartsUnclaimed => FirstEntryKept
<1> SUFFICES ASSUME StoreInv, PartsUnclaimed, phase = "done",
                    NEW x \in LinkPairs, ~IsConnection(x[2]),
                    \A y \in LinkPairs : StoreConfigKey(x[2]) \in KeysOf(y[2])
                                            => Precedes(x, y)
             PROVE  /\ store = entries
                    /\ StoreConfigKey(x[2]) \in DOMAIN store
                    /\ store[StoreConfigKey(x[2])] = x[2]
  BY DEF FirstEntryKept
<1>1. FirstToClaim(x)
  BY DEF FirstToClaim
<1>2. todo = {} /\ store = IF DOMAIN entries = {} THEN Absent ELSE entries
  BY DEF StoreInv, PlanShape
<1>3. KeyKept(x)
  BY <1>1 DEF StoreInv, FirstKept
<1> QED
  BY <1>2, <1>3 DEF KeyKept

LEMMA InvWhole == StoreInv /\ PartsUnclaimed => ConnectionsAreWhole
<1> SUFFICES ASSUME StoreInv, PartsUnclaimed, phase = "done",
                    NEW x \in LinkPairs, IsConnection(x[2])
             PROVE  \E r \in Backings :
                        /\ IsConnection(r)
                        /\ {k \in DOMAIN store : \E s \in ConnectionSuffixes :
                                k = ConnectionKey(x[2], s)} = KeysOf(r)
                        /\ \A k \in KeysOf(r) : store[k] = r
  BY DEF ConnectionsAreWhole
<1>1. todo = {} /\ store = IF DOMAIN entries = {} THEN Absent ELSE entries
  BY DEF StoreInv, PlanShape
<1>2. Seen(x[2]) /\ x[2] \in Backings
  BY <1>1 DEF StoreInv, LinksServed, LinkPairs
<1>3. ConnectionKey(x[2], "host") \in DOMAIN entries
  BY <1>2 DEF Seen
<1>4. ConnectionKey(x[2], "host") \in PartKeys(x[2])
  BY DEF PartKeys, ConnectionSuffixes
<1>5. PICK r \in Backings :
        /\ IsConnection(r)
        /\ DOMAIN entries \cap PartKeys(x[2]) = KeysOf(r)
        /\ \A k \in KeysOf(r) : entries[k] = r
  BY <1>2, <1>3, <1>4 DEF StoreInv, EntriesWhole, WholeIn
<1>6. store = entries
  BY <1>1, <1>3
<1>7. {k \in DOMAIN store : \E s \in ConnectionSuffixes : k = ConnectionKey(x[2], s)}
        = DOMAIN entries \cap PartKeys(x[2])
  BY <1>6 DEF PartKeys
<1> QED
  BY <1>5, <1>6, <1>7

\* Every step of the plan keeps the store's invariant.
THEOREM StoreInvHolds == Spec => []StoreInv
BY StoreInvInit, StoreInductive, PTL DEF Spec

\* While the store is planned, its variables keep their types: only handlers are
\* collected, only their links are gone through.
THEOREM StoreTypeCorrect == Spec => []TypeOK
BY StoreInvHolds, InvStoreTyped, PTL

\* The first entry of a key is kept, and which one is first depends on the names of
\* the handlers and on their links alone, whatever order the primaries came in, as
\* long as no single key is a part of a connection's (see PartsUnclaimed).
THEOREM FirstEntryIsKept == Spec => [](PartsUnclaimed => FirstEntryKept)
<1>1. StoreInv => (PartsUnclaimed => FirstEntryKept)
  BY InvFirstKept
<1> QED
  BY StoreInvHolds, <1>1, PTL

\* The keys under a connection's name are those of one cache or database, and all
\* of them: a function never gets the host of one and the secret of another.
THEOREM ConnectionsStayWhole == Spec => [](PartsUnclaimed => ConnectionsAreWhole)
<1>1. StoreInv => (PartsUnclaimed => ConnectionsAreWhole)
  BY InvWhole
<1> QED
  BY StoreInvHolds, <1>1, PTL

=============================================================================
