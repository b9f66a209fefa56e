------------------------------- MODULE Cascade -------------------------------
(* The two match trees, as pure functions: kube.match[] (internal/merger) and *)
(* alertmanager.match[] (internal/alertmanager). A rule is                     *)
(*   [label, final, ignore, cfg, from, nested]                                *)
(* with ignore "unset", "yes" or "no", cfg a partial function from config     *)
(* keys to values and from a sequence of value sources. An overridable        *)
(* list is [values, override]. Selectors are reduced to the patterns' sets of *)
(* strings, and text that only describes a result is left out.                *)
EXTENDS Integers, Sequences, SequencesExt, FiniteSetsExt

NoText == ""

(* A loop over a sequence, as a recursive function of the index. *)
Loop(step(_, _), start, s) ==
    LET upTo[n \in 0 .. Len(s)] == IF n = 0 THEN start ELSE step(upTo[n - 1], s[n])
    IN upTo[Len(s)]

(* The entries of s that are in keep, in their order. *)
Filter(s, keep) == Loop(LAMBDA acc, v : IF v \in keep THEN Append(acc, v) ELSE acc, <<>>, s)

-----------------------------------------------------------------------------
(* Selectors. A pattern is AnyText or the set of strings its glob or its anchored *)
(* regular expression accepts; a map is a set of pairs.                       *)

CONSTANT AnyText

Accepts(pattern, value) == pattern = AnyText \/ value \in pattern

KubeWhenMatches(w, obj) ==
    /\ \A d \in {"namespace", "host"} : Accepts(w[d], obj[d])
    /\ \A d \in {"labels", "annotations", "nsAnnotations"} : w[d] \subseteq obj[d]

(* A label selector is a set of [key, accepts] pairs; an alert without the    *)
(* label has the empty string there.                                          *)
AMWhenMatches(w, alert, envelope) ==
    /\ Accepts(w.alertname, alert.alertname)
    /\ \A l \in w.labels :
          Accepts(l.accepts, IF l.key \in DOMAIN alert.labels THEN alert.labels[l.key]
                                                              ELSE NoText)
    /\ w.receiver \in {AnyText, envelope.receiver}
    /\ w.externalURL \in {AnyText, envelope.externalURL}

-----------------------------------------------------------------------------
(* The walk: depth first in document order; a final rule ends the whole of it *)
(* once its own subtree has been visited. hits names the rules whose selector *)
(* matches.                                                                   *)

CONSTANTS AllRules, \* the rules that occur in a tree, the nested ones included
          Depth,    \* from rules to how many levels are below them at the most
          MaxDepth  \* of a tree

ASSUME TreesAssumption ==
    /\ MaxDepth \in Nat /\ Depth \in [AllRules -> 0 .. MaxDepth]
    /\ \A r \in AllRules :
          /\ r.nested \in Seq(AllRules)
          /\ \A i \in DOMAIN r.nested : Depth[r.nested[i]] < Depth[r]

(* A rule and those nested below it; the rules of a tree.                     *)
Subtree[r \in AllRules] == {r} \cup UNION {Subtree[n] : n \in ToSet(r.nested)}

RulesOf(rules) == UNION {Subtree[r] : r \in ToSet(rules)}

NoVisit == [stack |-> <<>>, halt |-> FALSE]

(* visit is what a visit of a rule gives; the first that halts is the last.   *)
VisitAll(visit, rules) ==
    LET halting == {i \in DOMAIN rules : visit[rules[i]].halt}
        visited == IF halting = {} THEN Len(rules) ELSE Min(halting)
    IN [stack |-> FlattenSeq([i \in 1 .. visited |-> visit[rules[i]].stack]),
        halt |-> halting # {}]

(* Mutant: final halts before the nested rules.                               *)
VisitFinalFirst(visit, r, hits) ==
    IF r.label \notin hits THEN NoVisit
    ELSE LET below == IF r.final THEN NoVisit ELSE VisitAll(visit, r.nested)
         IN [stack |-> <<r>> \o below.stack, halt |-> below.halt \/ r.final]

Visit(visit, r, hits) ==
    IF r.label \notin hits THEN NoVisit
    ELSE LET below == VisitAll(visit, r.nested)
         IN [stack |-> <<r>> \o below.stack, halt |-> below.halt \/ r.final]

Visits(hits) == LET visit[r \in AllRules] == Visit(visit, r, hits) IN visit

WalkRules(rules, hits) == VisitAll(Visits(hits), rules).stack

(* Evaluate of the Alertmanager tree also reports whether a final rule fired. *)
AMWalkRules(rules, hits) == VisitAll(Visits(hits), rules)

(* The deepest rule that says anything about ignore decides.                  *)
Ignored(stack) ==
    \E i \in DOMAIN stack : /\ stack[i].ignore = "yes"
                            /\ \A j \in DOMAIN stack : j > i => stack[j].ignore = "unset"

-----------------------------------------------------------------------------
(* Merging.                                                                  *)

AppendNew(acc, v) == IF v \in ToSet(acc) THEN acc ELSE Append(acc, v)

Dedup(s) == Loop(AppendNew, <<>>, s)

MergeStrings(accum, incoming, override) ==
    Dedup(IF override THEN incoming ELSE accum \o incoming)

Lists == {"notify", "tags", "dependsOn"}

Durations == {"interval", "timeout", "retryBackoff", "reminderInterval",
              "sslAlertThreshold", "sslEscalationThreshold", "sslReminderInterval"}

Words == {"scheme", "path", "httpMethod", "proxy", "slack"}

Flags == {"followRedirects", "tlsInsecureSkipVerify"}

ConfigKeys == Durations \cup Lists \cup Words \cup Flags \cup {"acceptedStatusCodes", "retries"}

(* What a key no layer set is worth.                                          *)
Zero == [k \in ConfigKeys |->
            IF k \in Durations \cup {"retries"} THEN 0
            ELSE IF k \in Lists \cup {"acceptedStatusCodes"} THEN <<>>
            ELSE IF k \in Flags THEN FALSE ELSE NoText]

MergeLayer(out, c) ==
    [k \in DOMAIN out |->
        IF k \notin DOMAIN c THEN out[k]
        ELSE IF k \in Lists THEN MergeStrings(out[k], c[k].values, c[k].override)
        ELSE c[k]]

ResolveStack(layers) == Loop(MergeLayer, Zero, layers)

(* The Alertmanager tree has no notion of a set key: an empty slack does not  *)
(* override, and an empty list counts only if it carries !override.           *)
AMMergeLayer(out, c) ==
    [slack  |-> IF c.slack # NoText THEN c.slack ELSE out.slack,
     notify |-> IF c.notify.values # <<>> \/ c.notify.override
                THEN MergeStrings(out.notify, c.notify.values, c.notify.override)
                ELSE out.notify]

AMResolveStack(layers) == Loop(AMMergeLayer, [slack |-> NoText, notify |-> <<>>], layers)

-----------------------------------------------------------------------------
(* The trace the operator's page and explain show is computed by a second     *)
(* accumulator.                                                               *)

DiffStrings(a, b) == Filter(a, ToSet(a) \ ToSet(b))

(* Mutant: the trace keeps duplicates.                                        *)
ApplyListRaw(old, incoming, override) ==
    LET out == IF override THEN incoming ELSE old \o incoming
    IN [new |-> out, added |-> DiffStrings(out, old), removed |-> DiffStrings(old, out)]

ApplyList(old, incoming, override) ==
    LET out == IF override THEN Dedup(incoming) ELSE Dedup(old \o incoming)
    IN [new |-> out, added |-> DiffStrings(out, old), removed |-> DiffStrings(old, out)]

(* The value and the event of one key at one layer.                           *)
ApplyKey(acc, c, k) ==
    IF k \in Lists
    THEN LET old == IF k \in DOMAIN acc THEN acc[k] ELSE <<>>
             e == ApplyList(old, c[k].values, c[k].override)
         IN [key |-> k, action |-> IF c[k].override THEN "override" ELSE "add",
             old |-> old, new |-> e.new, added |-> e.added, removed |-> e.removed]
    ELSE [key |-> k, action |-> IF k \in DOMAIN acc THEN "replace" ELSE "set",
          old |-> IF k \in DOMAIN acc THEN acc[k] ELSE Zero[k], new |-> c[k],
          added |-> <<>>, removed |-> <<>>]

(* The accumulator holds the keys some layer has set.                         *)
ApplyConfig(acc, c) ==
    [k \in DOMAIN acc \cup DOMAIN c |->
        IF k \in DOMAIN c THEN ApplyKey(acc, c, k).new ELSE acc[k]]

NoKeys == [k \in {} |-> 0]

TraceAcc(layers) == Loop(ApplyConfig, NoKeys, layers)

(* The events of layer i.                                                     *)
TraceEvents(layers, i) ==
    {ApplyKey(TraceAcc(SubSeq(layers, 1, i - 1)), layers[i], k) : k \in DOMAIN layers[i]}

-----------------------------------------------------------------------------
(* Value sources: what an annotation contributes at its rule. A source is     *)
(*   [key, text, default, hasDefault, override, namespaced, wired]            *)
(* where text is the annotation split at its separators, <<>> when it is      *)
(* blank and <<"">> when it is separators alone.                              *)

CONSTANTS Channels,    \* slugs of slack.channels
          Handles,     \* slugs of slack.userMapping
          TagNames,    \* well-formed tags
          Codes        \* HTTP status codes, 100 to 599

Absolute == {"/", "/health"}        \* the paths that start with a slash

(* The entries a field accepts from an annotation.                            *)
Good == [path |-> Absolute, slack |-> Channels, notify |-> Handles, tags |-> TagNames,
         acceptedStatusCodes |-> Codes]

SplitAnnotationList(text) == Filter(text, ToSet(text) \ {NoText})

Nothing == [set |-> FALSE, value |-> <<>>, cause |-> "none", warned |-> 0]

Gives(value, cause, warned) ==
    [set |-> TRUE, value |-> value, cause |-> cause, warned |-> warned]

Silent(warned) == [Nothing EXCEPT !.warned = warned]

Cause(rejected) == IF rejected > 0 THEN "rejected" ELSE "absent"

(* An empty default list contributes nothing; a scalar default is one value.  *)
WriteDefault(src, cause, warned) ==
    IF src.hasDefault /\ src.default # <<>> THEN Gives(src.default, cause, warned)
    ELSE Silent(warned)

(* Mutant: a rejected annotation is written anyway.                           *)
LowerScalarUnchecked(src) == Gives(<<src.text[1]>>, "annotation", 0)

LowerScalar(src) ==
    IF src.text[1] \in Good[src.key] THEN Gives(<<src.text[1]>>, "annotation", 0)
    ELSE WriteDefault(src, "rejected", 1)

Kept(src) == Filter(SplitAnnotationList(src.text), Good[src.key])

Rejected(src) == Len(SplitAnnotationList(src.text)) - Len(Kept(src))

(* A list whose entries were all rejected contributes nothing, not even the   *)
(* default that a blank annotation would fall back to.                        *)
LowerList(src) ==
    IF Kept(src) = <<>> THEN Silent(Rejected(src))
    ELSE Gives(Kept(src), "annotation", Rejected(src))

LowerStatusCodes(src) ==
    IF Kept(src) = <<>> THEN WriteDefault(src, Cause(Rejected(src)), Rejected(src))
    ELSE Gives(Kept(src), "annotation", Rejected(src))

KindOf(k) == IF k \in Lists THEN "list"
             ELSE IF k = "acceptedStatusCodes" THEN "codes" ELSE "scalar"

Lower(src) ==
    IF src.text = <<>> THEN WriteDefault(src, "absent", 0)
    ELSE IF KindOf(src.key) = "scalar" THEN LowerScalar(src)
    ELSE IF KindOf(src.key) = "list" THEN LowerList(src) ELSE LowerStatusCodes(src)

(* The Alertmanager twin: the annotation is the namespace's, an alert without *)
(* a namespace has none, a missing informer is its own cause, and a rejected  *)
(* list does fall back.                                                       *)
AMLowerList(src) ==
    IF Kept(src) = <<>> THEN WriteDefault(src, Cause(Rejected(src)), Rejected(src))
    ELSE Gives(Kept(src), "annotation", Rejected(src))

AMLower(src) ==
    IF src.namespaced /\ ~src.wired THEN WriteDefault(src, "unreadable", 1)
    ELSE IF ~src.namespaced \/ src.text = <<>> THEN WriteDefault(src, "absent", 0)
    ELSE IF KindOf(src.key) = "scalar" THEN LowerScalar(src) ELSE AMLowerList(src)

(* A rule's config with one source lowered into it.                           *)
Write(c, src, low) ==
    IF ~low.set THEN c
    ELSE LET k == src.key
             v == IF KindOf(k) = "list" THEN [values |-> low.value, override |-> src.override]
                  ELSE IF KindOf(k) = "codes" THEN low.value ELSE low.value[1]
         IN [j \in DOMAIN c \cup {k} |-> IF j = k THEN v ELSE c[j]]

(* The layer a matched rule contributes; sources are lowered in their order.  *)
Contribute(c, src) == Write(c, src, Lower(src))

Apply(r) == Loop(Contribute, r.cfg, r.from)

AMContribute(c, src) == Write(c, src, AMLower(src))

AMApply(r) == Loop(AMContribute, r.cfg, r.from)

-----------------------------------------------------------------------------
(* Outcomes.                                                                 *)

Methods == {"GET", "HEAD", "POST", "PUT", "DELETE"}

(* The resolved values a monitor can be probed with.                          *)
CheckResolved(r) ==
    /\ r.path \in Absolute /\ r.httpMethod \in Methods /\ r.acceptedStatusCodes # <<>>
    /\ r.retries >= 0 /\ r.slack # NoText
    /\ \A k \in Durations : r[k] > 0
    /\ r.timeout < r.interval
    /\ r.scheme \in {NoText, "https"} => r.sslAlertThreshold > r.sslEscalationThreshold

(* ignore outranks a wildcard host, which outranks the resolved values.       *)
Classify(ignored, wildcard, resolved) ==
    IF ignored THEN "ignored"
    ELSE IF wildcard \/ ~CheckResolved(resolved) THEN "invalid"
    ELSE "added"

(* What the rules that were visited make of a host.                           *)
Outcome(stack, wildcard) ==
    IF stack = <<>> THEN [status |-> "invalid", config |-> Zero]
    ELSE LET config == ResolveStack([i \in DOMAIN stack |-> Apply(stack[i])])
         IN [status |-> Classify(Ignored(stack), wildcard, config), config |-> config]

(* Resolve: the outcome of one host. ResolveWithTrace computes the same.      *)
Resolve(rules, hits, wildcard) == Outcome(WalkRules(rules, hits), wildcard)

(* The row of the snapshot; nameable says whether the host has a slug.        *)
MaterializeIngress(rules, hits, wildcard, nameable) ==
    LET status == Resolve(rules, hits, wildcard).status
    IN [status |-> IF status = "added" /\ ~nameable THEN "invalid" ELSE status,
        monitor |-> status = "added" /\ nameable]

(* explain prints its own verdict on one host, from the same resolution.      *)
WriteExplainReport(rules, hits, wildcard, nameable) ==
    LET verdict == Resolve(rules, hits, wildcard).status
    IN IF WalkRules(rules, hits) = <<>> THEN "no-match"
       ELSE IF verdict # "added" THEN verdict
       ELSE IF nameable THEN "materialized" ELSE "invalid"

(* The page of a row decides the host anew, of the ingress the informer has.  *)
PopulateCascadeView(rules, hits, wildcard, nameable) ==
    LET stack == WalkRules(rules, hits)
        layers == [i \in DOMAIN stack |-> Apply(stack[i])]
    IN IF stack = <<>> THEN [outcome |-> "no-match", slug |-> FALSE]
       ELSE IF Ignored(stack) THEN [outcome |-> "ignored", slug |-> FALSE]
       ELSE IF wildcard \/ ~CheckResolved(ResolveStack(layers))
            THEN [outcome |-> "invalid", slug |-> FALSE]
       ELSE [outcome |-> "materialized", slug |-> nameable]

(* source is "off" without kube, "gone" for an ingress the informer lacks.    *)
HandleDiscoveryDetail(source, rules, hits, wildcard, nameable) ==
    IF source = "off" THEN [outcome |-> "disabled", slug |-> FALSE]
    ELSE IF source = "gone" THEN [outcome |-> "stale", slug |-> FALSE]
    ELSE PopulateCascadeView(rules, hits, wildcard, nameable)

(* Evaluate: the route of one alert; an ignored one has no channel.           *)
Evaluate(rules, hits) ==
    LET stack == AMWalkRules(rules, hits).stack
        route == AMResolveStack([i \in DOMAIN stack |-> AMApply(stack[i])])
    IN IF Ignored(stack) THEN [ignored |-> TRUE, slack |-> NoText, notify |-> <<>>]
       ELSE [ignored |-> FALSE, slack |-> route.slack, notify |-> route.notify]

(* The plan of an accepted host, as far as the state machines read it.        *)
KubePlan(r) ==
    [channel |-> r.slack, interval |-> r.interval, timeout |-> r.timeout,
     retries |-> r.retries, backoff |-> r.retryBackoff,
     tls |-> r.scheme # "http", skipVerify |-> r.tlsInsecureSkipVerify,
     alert |-> r.sslAlertThreshold, escalation |-> r.sslEscalationThreshold,
     sslReminder |-> r.sslReminderInterval]
=============================================================================
