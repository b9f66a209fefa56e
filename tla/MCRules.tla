-------------------------------- MODULE MCRules --------------------------------
(* Small inputs of every kind, and beside them a process that takes none: a   *)
(* behaviour is either one of Files or one of Lifecycle.                      *)
EXTENDS Files, Lifecycle

Rule(label, when, final, ignore, cfg, from, nested) ==
    [label |-> label, when |-> when, final |-> final, ignore |-> ignore,
     cfg |-> cfg, from |-> from, nested |-> nested]

Source(key, text, default, override) ==
    [key |-> key, text |-> text, default |-> default, hasDefault |-> default # <<>>,
     override |-> override, namespaced |-> TRUE, wired |-> TRUE,
     scopes |-> {"namespaceAnnotation"}]

List(values, override) == [values |-> values, override |-> override]

NoConfig == [k \in {} |-> 0]

Baseline ==
    [path |-> "/", httpMethod |-> "GET", acceptedStatusCodes |-> <<"200">>, interval |-> 60,
     timeout |-> 10, retries |-> 1, retryBackoff |-> 1, followRedirects |-> TRUE,
     reminderInterval |-> Hour, sslAlertThreshold |-> 20, sslEscalationThreshold |-> 10,
     sslReminderInterval |-> Hour, slack |-> "ops"]

Without(key) == [k \in DOMAIN Baseline \ {key} |-> Baseline[k]]

(* The root: whole, with a source for a missing key, and not a baseline.      *)
Roots ==
    {<<Baseline @@ [notify |-> List(<<"h1">>, FALSE)], <<>>>>,
     <<Without("path"), <<Source("path", <<>>, <<"/health">>, FALSE)>>>>,
     <<Without("path"), <<Source("path", <<"health">>, <<>>, FALSE)>>>>,
     <<Without("slack"), <<Source("slack", <<"nowhere">>, <<"ops">>, FALSE)>>>>}

Configs ==
    {NoConfig, [timeout |-> 60], [sslAlertThreshold |-> 5], [retries |-> -1], [slack |-> ""],
     [notify |-> List(<<"h2", "h1", "h2">>, FALSE)],
     [notify |-> List(<<"h2", "h2">>, TRUE)], [notify |-> List(<<>>, TRUE)]}

Froms ==
    {<<>>, <<Source("path", <<"nowhere">>, <<>>, FALSE)>>,
     <<Source("slack", <<"nowhere">>, <<>>, FALSE)>>,
     <<Source("tags", <<"t", "", "t">>, <<>>, FALSE)>>,
     <<Source("acceptedStatusCodes", <<"999">>, <<"200">>, FALSE)>>}

Inner == {<<>>, <<Rule(3, "selects", TRUE, "no", [interval |-> 10], <<>>, <<>>)>>,
          <<Rule(3, "selects", FALSE, "unset", [notify |-> List(<<"h1">>, FALSE)], <<>>, <<>>)>>}

Later == Rule(4, "selects", FALSE, "yes", [tags |-> List(<<"t">>, FALSE)], <<>>, <<>>)

MCKubeTrees ==
    {<<Rule(1, "empty", FALSE, "unset", root[1], root[2], <<>>),
       Rule(2, "selects", final, ignore, cfg, from, inner), Later>> :
        root \in Roots, final \in BOOLEAN, ignore \in {"unset", "yes"}, cfg \in Configs,
        from \in Froms, inner \in Inner}

\* The rules of both trees, and the levels below each.
RECURSIVE MCNested(_), MCDepthOf(_)
MCNested(rules) == ToSet(rules) \cup UNION {MCNested(r.nested) : r \in ToSet(rules)}
MCDepthOf(r) == IF r.nested = <<>> THEN 0
                ELSE 1 + Max({MCDepthOf(n) : n \in ToSet(r.nested)})

\* The root selects everything; the others a namespace, an annotation and a host.
KubeWhen(namespace, host, annotations) ==
    [namespace |-> namespace, host |-> host, labels |-> {}, annotations |-> annotations,
     nsAnnotations |-> {}]
MCKubeWhens ==
    <<KubeWhen(AnyText, AnyText, {}), KubeWhen({"n"}, AnyText, {}),
      KubeWhen(AnyText, AnyText, {<<"a", "x">>}), KubeWhen(AnyText, {"h"}, {})>>
MCHosts ==
    [namespace : {"n", "m"}, host : {"h", "g"}, labels : {{}}, nsAnnotations : {{}},
     annotations : SUBSET {<<"a", "x">>}]

\* The second rule matches an alert from one Alertmanager that has no team or the team "ops".
AMWhen(labels, externalURL) ==
    [alertname |-> AnyText, labels |-> labels, receiver |-> AnyText, externalURL |-> externalURL]
MCAlertWhens == <<AMWhen({}, AnyText), AMWhen({[key |-> "team", accepts |-> {"", "ops"}]}, "am1")>>
MCAlerts ==
    [alert : {[alertname |-> "A", labels |-> l] : l \in {[s \in {} |-> ""], [team |-> "ops"], [team |-> "web"]}},
     envelope : {[receiver |-> "r", externalURL |-> u] : u \in {"am1", "am2"}}]

AlertConfig(slack, notify) == [slack |-> slack, notify |-> notify]

AlertSource(key, text, default, wired) ==
    [Source(key, text, default, FALSE) EXCEPT !.wired = wired]

AlertRoots ==
    {<<AlertConfig("ops", List(<<"h1">>, FALSE)), <<>>>>}
    \cup {<<AlertConfig("", List(<<>>, FALSE)), <<AlertSource("slack", text, default, wired)>>>> :
             text \in {<<>>, <<"dev">>, <<"nowhere">>}, default \in {<<>>, <<"ops">>, <<"nowhere">>},
             wired \in BOOLEAN}

MCAlertTrees ==
    {<<Rule(1, "empty", FALSE, "unset", root[1], root[2], <<>>),
       Rule(2, "selects", final, ignore, AlertConfig(slack, notify), from, <<>>)>> :
        root \in AlertRoots, final \in BOOLEAN, ignore \in {"unset", "yes"},
        slack \in {"", "dev"},
        notify \in {List(<<>>, FALSE), List(<<>>, TRUE), List(<<"h2">>, FALSE)},
        from \in {<<>>} \cup {<<AlertSource("notify", text, <<"h1">>, TRUE)>> :
                                 text \in {<<"h2", "nobody">>, <<"nobody">>}}}

\* Each by way of a name TLC evaluates once.
RulesOfTrees == {r : r \in UNION {MCNested(t) : t \in MCKubeTrees \cup MCAlertTrees}}
DepthOfRules == [r \in RulesOfTrees |-> MCDepthOf(r)]
MCAllRules == RulesOfTrees
MCDepth == DepthOfRules

MCDeclared ==
    [slug : {"m1"}, protocol : {"http", "https", "smtp"}, tlsMode : {"", "none"},
     insecureSkipVerify : BOOLEAN, host : {"h"}, port : {25}, slack : {"ops", "nowhere"},
     proxy : {""}, notify : {<<>>, <<"h1">>}, interval : {30, 60}, timeout : {10, 29, 60},
     retries : 0 .. 2, retryBackoff : {0, 1}, sslAlert : {0, 10, 20}, sslEscalation : {0, 10},
     sslReminder : {0, Hour}]

Parents == {<<>>} \cup {<<p>> : p \in {"a", "b", "c", "x"}}
           \cup {<<p, q>> : p \in {"a", "b", "c"}, q \in {"b", "c", "x"}}
MCGraphs == [{"a", "b", "c"} -> Parents]
MCOrder == <<"a", "b", "c">>

MCCoalesces ==
    [pendingWait : {0, 20, 600}, groupWait : {0, 20, 600}, burstThreshold : -1 .. 2,
     burstWindow : {0, 10, 30, 700}, groupInterval : {0, 60}, repeatInterval : {0, 60}]
MCSelfHealths == [window : {0, 30}, minMonitors : 0 .. 3, channel : {"", "ops", "nowhere"}]
MCRateLimits == [perChannel : -1 .. 1, window : 0 .. 1, noticeEvery : 0 .. 1]

MCEnv == [X |-> <<"v">>, Y |-> <<>>]
MCTexts == UNION {[1 .. n -> {"$", "{", "}", "X", "Z", ":-", "nl"}] : n \in 0 .. 4}

Scalar == [kind |-> "scalar"]
Map(entries) == [kind |-> "map", entries |-> entries]
Alias(node) == [kind |-> "alias", to |-> node]
Seq2(items) == [kind |-> "seq", items |-> items]
Entry(key, value) == [key |-> key, value |-> value]

Flat == {Map(<<Entry(k, Scalar)>>) : k \in {"a", "z"}} \cup {Map(<<>>)}
Merged == {Map(<<Entry("<<", v)>>) : v \in Flat \cup {Alias(f) : f \in Flat}}
          \cup {Map(<<Entry("<<", Seq2(<<v, w>>))>>) : v, w \in {Alias(f) : f \in Flat}}
MCMappings ==
    Flat \cup Merged
    \cup {Map(<<Entry("a", Scalar), Entry("<<", v)>>) : v \in Merged \cup {Alias(m) : m \in Merged}}
    \cup {Alias(m) : m \in Merged}

ProxyEntries(slugs, protocols, servers, ports) ==
    [slug : slugs, protocol : protocols, server : servers, port : ports,
     username : {"", "u"}, passwordEnv : {"", "PX"}]
MCProxyFiles ==
    {<<p>> : p \in ProxyEntries({"px", "malformed"}, {"socks5", "http"}, {"", "s1"}, {-1, 0, 70000})}
    \cup {<<p, q>> : p, q \in ProxyEntries({"px", "py"}, {"socks5"}, {"s1", "s2"}, {0})}
MCChannelFiles ==
    LET entries == [slug : {"ops", "dev"}, id : {"C1", "D"}, tokenEnv : {"PX", "TK", "malformed"}]
    IN {<<>>} \cup {<<c>> : c \in entries} \cup {<<c, d>> : c, d \in entries}
MCEnvirons == {e \in [{"PX", "TK", "malformed"} -> {"", "v"}] : e["malformed"] = ""}
Ids == {<<"U", "U1">>, <<"S", "S1">>, <<"X", "X1">>}
MCUserMappings == UNION {[hs -> Ids] : hs \in SUBSET {"h1", "h2"}}
MCNotifies == SUBSET {<<"slug", "h1">>, <<"slug", "h2">>, <<"user", "U1">>, <<"other", "here">>}
MCSlackPeople ==
    [users : SUBSET {"U1"}, silent : SUBSET {"U1"}, groups : SUBSET {"S1"}, groupsFail : BOOLEAN]
MCWorkspaces == UNION {[1 .. n -> {"A", "B"}] : n \in 0 .. 3}

Leaf(tags, hosts) == [tags |-> tags, hosts |-> hosts]
MCStatusPages ==
    [one |-> <<Leaf({"t"}, AnyText), Leaf({}, {<<"h", "">>})>>,
     two |-> <<[any |-> <<Leaf({"t"}, AnyText), Leaf({}, {<<"h", "">>})>>],
               [all |-> <<Leaf({"t"}, AnyText), Leaf({}, {<<"h", "">>})>>]>>,
     gone |-> <<Leaf({"u"}, AnyText)>>]

MCSections == UNION {ToSet(MCStatusPages[p]) : p \in DOMAIN MCStatusPages}
PredicatesOfPages ==
    MCSections \cup UNION {ToSet(m[k]) : <<m, k>> \in {x \in MCSections \X {"any", "all"} :
                                                               x[2] \in DOMAIN x[1]}}
MCPredicates == PredicatesOfPages

RowsOf(slug, hosts, ports) ==
    {r \in [slug : {slug}, name : {slug}, archived : BOOLEAN,
            status : {"up", "down", "temporary-paused"},
            ssl : {"ok", "ssl-expiring"}, expired : BOOLEAN, tags : {{}, {"t"}},
            host : hosts, port : ports] : r.expired => r.ssl = "ssl-expiring"}

MCTables == {{r, s} : r \in RowsOf("m1", {"g", "h"}, {"", "8443"}), s \in RowsOf("m2", {"h"}, {""})}

MCQueries ==
    {NoConfig, [status_page |-> "one", section |-> 1, sort |-> "name", dir |-> "desc", status |-> "up"],
     [status_page |-> "none", tag |-> {"t", ""}], [status_page |-> "gone"],
     [section |-> 0, archived |-> "any", ssl |-> "expired", sort |-> "host"],
     [archived |-> "archived", tag |-> {"t"}, dir |-> "desc"]}

\* Keys that are unique, shared by up to three rows, or by all; a page whose query gives
\* rows that share them the other way round, or none, or any of the first four.
Backwards(keys) ==
    [i \in DOMAIN keys |-> LET tied == {j \in DOMAIN keys : keys[j] = keys[i]}
                          IN Min(tied) + Max(tied) - i]
MCListings ==
    {[keys |-> keys, orders |-> [k \in 1 .. Len(keys) + 1 |->
                                    IF k \in other THEN Backwards(keys) ELSE [i \in DOMAIN keys |-> i]]] :
        keys \in UNION {{[i \in 1 .. n |-> i], [i \in 1 .. n |-> i \div 3], [i \in 1 .. n |-> 0]} :
                          n \in 0 .. 7},
        other \in SUBSET (1 .. 4)}

Incident(i, ended, started, alertname) ==
    [id |-> i, ended |-> ended, started |-> started, alertname |-> alertname,
     severity |-> "low", channel |-> "ops", receiver |-> "r"]

MCAMTables ==
    UNION {{[i \in 1 .. n |-> Incident(n - i, e[i], IF i <= newer THEN 2 ELSE 1, a[i])] :
               e \in [1 .. n -> BOOLEAN], a \in [1 .. n -> {"A", "B"}], newer \in 0 .. n} :
           n \in 0 .. 3}

MCAMQueries ==
    {[k \in keys |-> CASE k = "status" -> status [] k = "alertname" -> "A" [] k = "from" -> from
                       [] k = "to" -> "morning" [] k = "page" -> page [] k = "per_page" -> per] :
        keys \in {{}, {"status", "page"}, {"alertname", "per_page"}, {"from", "to", "per_page"},
                  {"status", "from", "page", "per_page"}},
        status \in {"firing", "unknown"}, from \in {"evening", "soon"}, page \in {0, 2}, per \in {1, 9}}
MCClock == [morning |-> 1, evening |-> 2]

MCSources ==
    {[mapping |-> m, discovery |-> d, missing |-> p, annotations |-> a] :
        m \in SUBSET [slug : {"h1", "h2"}, ok : BOOLEAN],
        d \in SUBSET [key : {"k1", "k2"}, ns : {"n"}, status : {"kube-invalid", "kube-ignored"}],
        p \in SUBSET {"parent"}, a \in SUBSET {"m1", "m2"}}

-----------------------------------------------------------------------------

MCInit == NothingTaken /\ Init

MCNext ==
    \/ lives = MaxLives /\ Step /\ UNCHANGED vars
    \/ subject = None /\ Next /\ UNCHANGED subject

MCSpec == MCInit /\ [][MCNext]_<<subject, vars>> /\ Fairness
=============================================================================
