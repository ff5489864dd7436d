-------------------------- MODULE MCBackingResources --------------------------
(***************************************************************************)
(* Small blueprints for TLC: three handlers and an API before the store of *)
(* two backings of each kind of key; then one or two databases and caches, *)
(* in a VPC or not, of every way to authenticate and every topology; then  *)
(* the other kinds of backing with what their emitters tell apart.         *)
(***************************************************************************)
EXTENDS BackingResources

Rank == [h1 |-> 1, h2 |-> 2, h3 |-> 3]

PlainSpec(kind) ==
    CASE kind \in {"queue", "topic"} ->
            [fifo |-> FALSE, title |-> <<>>, events |-> <<>>, attempts |-> Absent]
      [] kind = "bucket" -> [encryption |-> Absent, unmapped |-> {}]
      [] kind = "datastore" -> [keys |-> <<"id">>, indexes |-> <<>>, ttl |-> Absent]
      [] kind = "config" ->
            [replicate |-> FALSE, values |-> {"url", "token"}, plaintext |-> {"url"},
             key |-> FALSE]
      [] OTHER -> <<>>

\* A handler selects each of its backings by the label generated for it; a VPC
\* selects its members by the network they are in.
Base(links, kind, name, auth) ==
    [primaries |-> DOMAIN links \cup {"api"}, links |-> links, rank |-> Rank,
     kind |-> kind, name |-> name, auth |-> auth, replicas |-> {"d1"},
     labels |-> [r \in DOMAIN kind |->
                    IF kind[r] = "vpc" THEN Absent ELSE (r :> <<r>>)],
     selector |-> [x \in DOMAIN links \cup DOMAIN kind |->
                    CASE x \in DOMAIN links ->
                            [r \in ToSet(links[x]) |-> <<r>>]
                      [] x \in DOMAIN kind /\ kind[x] = "vpc" -> ("network" :> <<x>>)
                      [] OTHER -> NoLabels],
     deferred |-> [r \in DOMAIN kind |-> {}],
     preset |-> [v \in {x \in DOMAIN kind : kind[x] = "vpc"} |-> "standard"],
     aurora |-> <<>>, region |-> TRUE, validation |-> FALSE, artefact |-> TRUE,
     appName |-> TRUE, consumed |-> {}, billing |-> <<>>, capacity |-> <<>>,
     spec |-> [r \in DOMAIN kind |-> PlainSpec(kind[r])],
     segment |-> [n \in {<<r>> : r \in DOMAIN kind} |-> n],
     place |-> [t1 |-> 1, t2 |-> 2]]

-----------------------------------------------------------------------------
(* Stores: links of up to two backings each, in either order.              *)

LinkSeqs(rs) == {<<>>} \cup {<<r>> : r \in rs} \cup {s \in rs \X rs : s[1] # s[2]}
LinksTo(rs) ==
    {[h1 |-> l1, h2 |-> l2, h3 |-> l3] : l1 \in LinkSeqs(rs),
        l2 \in LinkSeqs(rs), l3 \in {<<>>} \cup {<<r>> : r \in rs}}

\* Identifiers: two queues and a topic, with one name, two names or none.
IdentifierBlueprints ==
    {Base(links, [q1 |-> "queue", q2 |-> "queue", t1 |-> "topic"],
          [q1 |-> n1, q2 |-> n2, t1 |-> <<"k">>], <<>>) :
        links \in LinksTo({"q1", "q2", "t1"}),
        n1 \in {Absent, <<"k">>}, n2 \in {Absent, <<"k">>}}

\* Connections: two caches and a database, of every way to authenticate.
ConnectionBlueprints ==
    {Base(links, [c1 |-> "cache", c2 |-> "cache", d1 |-> "sqlDatabase"],
          [c1 |-> <<"k">>, c2 |-> n2, d1 |-> nd],
          [c1 |-> a1, c2 |-> Absent, d1 |-> ad]) :
        links \in LinksTo({"c1", "c2", "d1"}),
        n2 \in {Absent, <<"k">>}, nd \in {Absent, <<"k">>},
        a1 \in {"iam", "password"}, ad \in {"iam", "password"}}

-----------------------------------------------------------------------------
(* Placed backings: the members ms are in the network of v1.               *)

In(bp, ms) == [bp EXCEPT !.labels =
                  [r \in DOMAIN @ |-> IF r \in ms THEN @[r] @@ "network" :> <<"v1">>
                                      ELSE @[r]]]

OneHandler(backings) == [h1 |-> backings]
Auths == {"iam", "password", Absent}
Presets == {"standard", "light", "isolated", "public", "light-public",
            "referenced", Absent}
AuroraSettings == {<<>>, <<"d1">> :> TRUE, <<>> :> TRUE, <<"k">> :> TRUE,
                   <<>> :> TRUE @@ <<"d1">> :> FALSE}

Database(auth, name) ==
    In(Base(OneHandler(<<"d1">>), [d1 |-> "sqlDatabase", v1 |-> "vpc"],
            [d1 |-> name, v1 |-> Absent], [d1 |-> auth]), {"d1"})

DatabaseBlueprints ==
    {[Database(auth, name) EXCEPT !.replicas = replicas, !.aurora = aurora,
                                  !.preset["v1"] = preset] :
        auth \in Auths, name \in {Absent, <<"k">>}, replicas \in SUBSET {"d1"},
        aurora \in AuroraSettings, preset \in Presets}

Cache(auth, name, ms) ==
    In(Base(OneHandler(<<"c1">>), [c1 |-> "cache", v1 |-> "vpc"],
            [c1 |-> name, v1 |-> Absent], [c1 |-> auth]), ms)

CacheBlueprints ==
    {[Cache(auth, name, ms) EXCEPT !.preset["v1"] = preset] :
        auth \in Auths, name \in {Absent, <<"k">>}, ms \in SUBSET {"c1"},
        preset \in Presets}

\* What may go wrong around them: references, no region, no artefact, and an
\* author's label under the key of an internal one.
RefusedBlueprints ==
    LET d == Database(Absent, <<"k">>)
        c == Cache(Absent, <<"k">>, {"c1"})
    IN  {[d EXCEPT !.deferred["d1"] = {f}, !.replicas = {}] :
            f \in {"engine", "authMode", "readReplicas"}}
        \cup {[c EXCEPT !.deferred["c1"] = {f}] : f \in {"clusterMode", "authMode"}}
        \cup {[x EXCEPT !.deferred["v1"] = {f}, !.preset["v1"] = Absent] :
                x \in {c, d}, f \in {"mode", "preset"}}
        \cup {[x EXCEPT !.region = FALSE, !.validation = validation,
                        !.artefact = FALSE] :
                x \in {c, d}, validation \in BOOLEAN}
        \cup {[d EXCEPT !.labels["d1"] = @ @@ ProxyTarget :> <<"mine">>],
              [d EXCEPT !.labels["d1"] = @ @@ MaintenanceTarget :> <<"mine">>],
              [c EXCEPT !.labels["c1"] = @ @@ CacheAuthLabel :> <<"mine">>],
              [c EXCEPT !.selector["c1"] = (CacheAuthLabel :> <<"mine">>)]}

\* Two databases and two caches in one VPC.
PairBlueprints ==
    {In(Base([h1 |-> <<"d1", "c1">>, h2 |-> <<"d2", "c2">>],
             [d1 |-> "sqlDatabase", d2 |-> "sqlDatabase", c1 |-> "cache",
              c2 |-> "cache", v1 |-> "vpc"],
             [d1 |-> <<"k">>, d2 |-> Absent, c1 |-> Absent, c2 |-> n2, v1 |-> Absent],
             [d1 |-> auth, d2 |-> Absent, c1 |-> Absent, c2 |-> auth]),
        {"d1", "d2", "c1", "c2"}) :
        n2 \in {<<"k">>, <<"c1">>}, auth \in Auths}

-----------------------------------------------------------------------------
(* Messaging and storage.                                                  *)

\* A queue and a topic that may be FIFO, named, and subscribe to buckets.
MessagingBlueprints ==
    LET base == Base(OneHandler(<<"q1", "t1">>), [q1 |-> "queue", t1 |-> "topic"],
                     [q1 |-> Absent, t1 |-> Absent], <<>>)
        spec(fifo, title, events) ==
            [fifo |-> fifo, title |-> title, events |-> events, attempts |-> Absent]
    IN  {[base EXCEPT !.spec = [q1 |-> spec(fifo, title, e1), t1 |-> spec(FALSE, title, e2)],
                      !.deferred["t1"] = deferred] :
            fifo \in BOOLEAN, title \in {<<>>, <<"jobs">>, <<"jobs", ".fifo">>},
            e1 \in {<<>>, <<"deleted">>, <<"metadataUpdated">>,
                    <<"metadataUpdated", "created", "deleted">>},
            e2 \in {<<>>, <<"metadataUpdated", "metadataUpdated">>},
            deferred \in SUBSET {"fifo"}}

\* A bucket, and a datastore with indexes that share fields with its keys.
StorageBlueprints ==
    LET base == Base(OneHandler(<<"b1", "s1">>), [b1 |-> "bucket", s1 |-> "datastore"],
                     [b1 |-> Absent, s1 |-> Absent], <<>>)
    IN  {[base EXCEPT
            !.spec = [b1 |-> [encryption |-> encryption, unmapped |-> unmapped],
                      s1 |-> [keys |-> keys, indexes |-> indexes, ttl |-> Absent]],
            !.billing = billing, !.capacity = (<<"s1">> :> {"read", "write"}),
            !.consumed = {"s1"}, !.deferred["s1"] = deferred] :
            encryption \in {Absent} \cup [key : BOOLEAN, algorithm : {Absent, "AES256"}],
            unmapped \in {{}, {"lifecycle"}},
            keys \in {<<"id">>, <<"id", "at">>},
            indexes \in {<<>>, <<<<"at", "id">>, <<"at">>>>, <<<<"at", Absent>>>>,
                         <<<<>>, <<"a", "b", "c">>, <<"owner", "at">>>>},
            billing \in {<<>>, <<"s1">> :> "PROVISIONED"},
            deferred \in SUBSET {"partitionKey"}}

\* Two configs and two handlers that link by different labels.
ConfigBlueprints ==
    LET base == Base([h1 |-> <<"c1", "c2">>, h2 |-> <<"c1">>],
                     [c1 |-> "config", c2 |-> "config"],
                     [c1 |-> Absent, c2 |-> Absent], <<>>)
        shared == [base EXCEPT !.labels["c1"] = @ @@ "app" :> <<"shop">>,
                               !.selector["h2"] = ("app" :> <<"shop">>)]
    IN  {[shared EXCEPT !.spec["c1"].plaintext = p1, !.spec["c2"].plaintext = p2,
                        !.spec["c1"].key = key, !.spec["c2"].replicate = replicate,
                        !.appName = appName, !.validation = validation,
                        !.segment[<<"c2">>] = <<segment>>] :
            p1 \in SUBSET {"url", "token"}, p2 \in SUBSET {"url"}, key \in BOOLEAN,
            replicate \in BOOLEAN, appName \in BOOLEAN, validation \in BOOLEAN,
            segment \in {"c1", "c2"}}

BackingBlueprints ==
    IdentifierBlueprints \cup ConnectionBlueprints \cup DatabaseBlueprints
        \cup CacheBlueprints \cup RefusedBlueprints \cup PairBlueprints
        \cup MessagingBlueprints \cup StorageBlueprints \cup ConfigBlueprints

-----------------------------------------------------------------------------
(* Blueprints that break a promise.                                        *)

\* A password database with a read replica, as an author writes it.
RunnerLinkBlueprints ==
    {[Database("password", Absent) EXCEPT !.replicas = {"d1"}, !.aurora = aurora] :
        aurora \in {<<>>, <<>> :> TRUE}}

\* Aurora is configured under the resource's name, which is not the database's.
DriftBlueprints ==
    {[Database("password", <<"k">>) EXCEPT !.aurora = aurora] :
        aurora \in {<<"d1">> :> TRUE, <<>> :> TRUE @@ <<"k">> :> FALSE}}
=============================================================================
