--------------------------------- MODULE Rules ---------------------------------
(* The parts of the program that are functions of their input, put side by    *)
(* side: what is accepted at load against what is made of it later, and the   *)
(* several functions that answer the same question against each other.        *)
(* A step takes up one input, or is one of Outside.                           *)
EXTENDS Config, Outside

CONSTANTS KubeTrees,     \* kube.match trees, with the annotations of a host
          KubeWhens,     \* the selectors of their rules, by label
          Hosts,         \* hosts of the cluster, as the selectors see them
          AlertTrees,    \* alertmanager.match trees, with those of a namespace
          AlertWhens,    \* the selectors of their rules, by label
          Alerts,        \* alerts with the envelope they come in: [alert, envelope]
          Declared,      \* entries of monitors and smtpMonitors
          Monitored,     \* the monitors kube rules may depend on
          Coalesces, SelfHealths, RateLimits,
          Predicates,    \* of the sections of status pages, see Views
          StatusPages,   \* statusPages, from slugs to sequences of sections
          Tables,        \* the monitors table: sets of rows
          Queries,       \* of /monitors
          Listings,      \* of monitors: [keys, orders], the sort keys and each page's order
          MaxPer,        \* bound on a page's length
          AMTables,      \* the am_alerts table: sequences of incidents, the newest first
          AMQueries,     \* of /alerts
          AMPerPage, MaxPerPage, AMListMaxLimit, Clock, \* see Views
          Sources        \* of the issues: [mapping, discovery, missing, annotations]

V == INSTANCE Views

ASSUME RulesAssumption == V!StatusPagesOK(StatusPages)

(* The forms of what is stored. A slug is the key of the table, and the       *)
(* database knows three statuses.                                             *)
Table(rows) ==
    /\ IsFiniteSet(rows)
    /\ \A r \in rows : r.status \in {"up", "down", "temporary-paused"}
    /\ \A r, s \in rows : r.slug = s.slug => r = s

ASSUME StoreAssumption ==
    /\ \A t \in Tables : Table(t)
    /\ \A s \in Sources : /\ IsFiniteSet(s.mapping) /\ IsFiniteSet(s.discovery)
                           /\ IsFiniteSet(s.missing) /\ IsFiniteSet(s.annotations)
    /\ NoText \notin DOMAIN StatusPages
    /\ \A p \in DOMAIN StatusPages : /\ Len(StatusPages[p]) \in Nat
                                     /\ DOMAIN StatusPages[p] = 1 .. Len(StatusPages[p])

(* The forms of what was read into a rule, before it is validated. A scalar   *)
(* default is one value; an empty selector matches everything.                *)
IsList(s) == s \in Seq(ToSet(s))

SourceForm(s) ==
    /\ {"key", "text", "default", "hasDefault", "override"} \subseteq DOMAIN s
    /\ s.key \in DOMAIN Good /\ IsList(s.text) /\ IsList(s.default)
    /\ s.hasDefault /\ KindOf(s.key) = "scalar" => Len(s.default) = 1

KubeForm(r) ==
    /\ {"label", "when", "final", "ignore", "cfg", "from", "nested"} \subseteq DOMAIN r
    /\ DOMAIN r.cfg \subseteq ConfigKeys
    /\ \A k \in DOMAIN r.cfg : /\ k \in Durations \cup {"retries"} => r.cfg[k] \in Int
                               /\ k \in Lists => IsList(r.cfg[k].values)
    /\ IsList(r.from) /\ \A s \in ToSet(r.from) : SourceForm(s)
    /\ r.when = "empty" => /\ r.label \in DOMAIN KubeWhens
                           /\ \A obj \in Hosts : KubeWhenMatches(KubeWhens[r.label], obj)

AlertForm(r) ==
    /\ DOMAIN r.cfg = {"slack", "notify"} /\ IsList(r.cfg.notify.values)
    /\ IsList(r.from) /\ \A s \in ToSet(r.from) : SourceForm(s) /\ s.key \in DOMAIN r.cfg
    /\ r.when = "empty" =>
          /\ r.label \in DOMAIN AlertWhens
          /\ \A a \in Alerts : AMWhenMatches(AlertWhens[r.label], a.alert, a.envelope)

(* The lengths of pages, and what an address of /alerts can say of them.      *)
ASSUME ListingAssumption ==
    /\ AMPerPage \in Nat \ {0} /\ MaxPerPage \in Int /\ AMListMaxLimit \in Nat \ {0}
    /\ MaxPer \in Nat /\ NoText \notin DOMAIN Clock
    /\ \A l \in Listings : /\ IsList(l.keys)
                           /\ \A k \in 1 .. Len(l.keys) + 1 : V!OrderedBy(l.keys, l.orders[k])
    /\ \A rows \in AMTables : IsList(rows)
    /\ \A q \in AMQueries : \A k \in DOMAIN q \cap {"page", "per_page"} : q[k] \in Int

Integral(x, keys) == \A k \in keys : x[k] \in Int

ASSUME IntegralAssumption ==
    /\ \A m \in Declared :
          Integral(m, {"interval", "timeout", "retries", "retryBackoff", "sslAlert",
                      "sslEscalation", "sslReminder"})
    /\ \A c \in Coalesces :
          Integral(c, {"pendingWait", "groupWait", "burstThreshold", "burstWindow",
                      "groupInterval", "repeatInterval"})
    /\ \A s \in SelfHealths : Integral(s, {"window", "minMonitors"})
    /\ \A l \in RateLimits : Integral(l, {"perChannel", "window", "noticeEvery"})

ASSUME FormAssumption ==
    /\ \A t \in KubeTrees : t \in Seq(AllRules) /\ \A r \in RulesOf(t) : KubeForm(r)
    /\ \A t \in AlertTrees : t \in Seq(AllRules) /\ \A r \in RulesOf(t) : AlertForm(r)
    /\ NoText \notin Channels \cup Absolute

-----------------------------------------------------------------------------
(* Taking up an input *)

TakeKubeTree ==
    \E t \in KubeTrees, obj \in Hosts, wildcard \in BOOLEAN :
        LET hits == {l \in DOMAIN KubeWhens : KubeWhenMatches(KubeWhens[l], obj)}
        IN subject' = [kind |-> "host", tree |-> t, hits |-> hits, wildcard |-> wildcard]

TakeAlertTree ==
    \E t \in AlertTrees, a \in Alerts, kube \in BOOLEAN :
        LET hits == {l \in DOMAIN AlertWhens : AMWhenMatches(AlertWhens[l], a.alert, a.envelope)}
        IN subject' = [kind |-> "alert", tree |-> t, hits |-> hits, kube |-> kube]

TakeMonitor == \E m \in Declared : subject' = [kind |-> "monitor", monitor |-> m]

TakeCoalesce == \E c \in Coalesces : subject' = [kind |-> "coalesce", coalesce |-> c]

TakeSelfHealth == \E s \in SelfHealths : subject' = [kind |-> "selfHealth", selfHealth |-> s]

TakeRateLimit == \E r \in RateLimits : subject' = [kind |-> "rateLimit", rateLimit |-> r]

ShowMonitors == \E t \in Tables, q \in Queries :
                    subject' = [kind |-> "table", rows |-> t, query |-> q]

TurnPages == \E l \in Listings, per \in 0 .. MaxPer :
                 subject' = [kind |-> "pages", total |-> Len(l.keys), keys |-> l.keys,
                             orders |-> l.orders, per |-> per]

ShowAlerts == \E t \in AMTables, q \in AMQueries :
                  subject' = [kind |-> "incidents", rows |-> t, query |-> q]

ShowIssues == \E s \in Sources : subject' = [kind |-> "issues", sources |-> s]

-----------------------------------------------------------------------------

RulesStep ==
    \/ /\ Is("none")
       /\ \/ TakeKubeTree \/ TakeAlertTree \/ TakeMonitor \/ TakeCoalesce \/ TakeSelfHealth
          \/ TakeRateLimit \/ ShowMonitors \/ TurnPages \/ ShowAlerts \/ ShowIssues
    \/ OutsideStep

RulesSpec == NothingTaken /\ [][RulesStep]_subject

-----------------------------------------------------------------------------
(* Properties of the match trees *)

Layers(stack) == [i \in DOMAIN stack |-> Apply(stack[i])]

\* What the trace of explain and of the discovery page ends with is what the
\* materializer resolves (two accumulators, merger.go and trace.go), and the entries
\* it shows as added and removed account for every list.
TraceInLockstep ==
    Is("host") =>
        LET layers == Layers(WalkRules(subject.tree, subject.hits))
            final == ResolveStack(layers)
            acc == TraceAcc(layers)
        IN /\ \A k \in DOMAIN final : final[k] = IF k \in DOMAIN acc THEN acc[k] ELSE Zero[k]
           /\ \A i \in DOMAIN layers : \A e \in TraceEvents(layers, i) :
                 e.key \in Lists =>
                    /\ ToSet(e.new) = (ToSet(e.old) \ ToSet(e.removed)) \cup ToSet(e.added)
                    /\ IsInjective(e.new)

\* The page of a discovered host and explain, which both decide it anew, say of it what
\* the row of the last pass says, and show a monitor exactly if there is one. (A host
\* without a slug is invalid in its row and to explain; its page calls it materialized
\* without naming a monitor.)
PageTellsTheRow ==
    Is("host") =>
        \A nameable \in BOOLEAN :
            LET row == MaterializeIngress(subject.tree, subject.hits, subject.wildcard, nameable)
                page == HandleDiscoveryDetail("live", subject.tree, subject.hits, subject.wildcard,
                                              nameable)
                explain == WriteExplainReport(subject.tree, subject.hits, subject.wildcard, nameable)
            IN /\ page.slug <=> row.monitor
               /\ explain = "materialized" <=> row.monitor
               /\ explain \in {"invalid", "no-match"} <=> row.status = "invalid"
               /\ nameable => explain = page.outcome
               /\ page.outcome = "ignored" <=> row.status = "ignored"
               /\ nameable => (page.outcome = "materialized" <=> row.status = "added")

\* How a host was decided is what explain and its page say it was: the outcome is the
\* same, and the trace ends with the values the materializer used.
CascadeIsExplained == TraceInLockstep /\ PageTellsTheRow

(* The ways an accepted tree can still resolve to something invalid.          *)
StillInvalid(r, layers) ==
    \/ r.timeout >= r.interval \/ r.retries < 0
    \/ r.scheme # "http" /\ r.sslAlertThreshold <= r.sslEscalationThreshold
    \/ r.slack = NoText \/ r.acceptedStatusCodes = <<>>
    \/ \E i \in DOMAIN layers : \E k \in DOMAIN layers[i] \cap Durations : layers[i][k] <= 0

\* A root that passes validation is a baseline: it is visited for every host, and a host
\* is invalid only through values that some rule gives and validation does not compare,
\* never for want of one, and whatever the annotations say.
RootIsABaseline ==
    Is("host") /\ ValidateKube(subject.tree, Monitored) =>
        LET stack == WalkRules(subject.tree, subject.hits)
            out == Resolve(subject.tree, subject.hits, subject.wildcard)
        IN /\ stack # <<>> /\ stack[1] = subject.tree[1]
           /\ out.status = "invalid" =>
                 subject.wildcard \/ StillInvalid(out.config, Layers(stack))

(* A rule as it is where nobody has written an annotation.                    *)
Blank(r) == [r EXCEPT !.from = [j \in DOMAIN @ |-> [@[j] EXCEPT !.text = <<>>]]]

\* What an application team writes in its annotations cannot cost a host its monitor:
\* if it is monitored without them, it is with any.
AnnotationNeverCostsTheMonitor ==
    Is("host") /\ ValidateKube(subject.tree, Monitored) =>
        LET stack == WalkRules(subject.tree, subject.hits)
            blank == [i \in DOMAIN stack |-> Blank(stack[i])]
        IN Outcome(blank, subject.wildcard).status = "added"
              => Outcome(stack, subject.wildcard).status = "added"

\* An alert that is not ignored goes to a configured channel and mentions only whom
\* the configuration knows, whatever the annotations of its namespace say and whether
\* or not they can be read.
EveryAlertHasAChannel ==
    Is("alert") /\ ValidateAlertmanager(subject.tree, subject.kube) =>
        LET route == Evaluate(subject.tree, subject.hits)
        IN ~route.ignored => /\ route.slack \in Channels
                             /\ ToSet(route.notify) \subseteq NotifyEntries

\* A configuration that was accepted leaves no host and no alert without a decision, and
\* the annotations of an application team can narrow it but not take it away.
BaselineHolds == RootIsABaseline /\ AnnotationNeverCostsTheMonitor /\ EveryAlertHasAChannel

-----------------------------------------------------------------------------
(* Properties of the loader *)

(* The plan the subject becomes, if it becomes one.                           *)
Plans ==
    IF Is("monitor") /\ ValidateMonitor(subject.monitor) THEN {StaticPlan(subject.monitor)}
    ELSE IF Is("host") /\ ValidateKube(subject.tree, Monitored)
    THEN {KubePlan(out.config) : out \in {o \in {Resolve(subject.tree, subject.hits, subject.wildcard)} :
                                            o.status = "added"}}
    ELSE {}

\* Whatever way a plan came about, it can be announced and its certificate, if the
\* scheduler tracks it, is reported before it is escalated: declared monitors are
\* checked at load, hosts once they are resolved, and the scheduler leaves out the
\* plans neither has checked.
PlanIsSound ==
    \A p \in Plans : /\ p.channel \in Channels /\ p.timeout < p.interval
                     /\ SSLTracked(p) => /\ p.alert > p.escalation /\ p.escalation > 0
                                         /\ p.sslReminder > 0

\* A check of a declared monitor that times out throughout costs it one tick at the
\* most. That is less than the documents promise (it does not exceed the interval), and
\* nothing bounds the check of a discovered host.
CheckCostsOneTick ==
    Is("monitor") => \A p \in Plans : LongestCheck(p) < 2 * p.interval

\* The settings that pass validation, with what stands in for absent ones, are those
\* the dispatcher, the detector and the limiter are written for: DispatcherAssumption,
\* ConfigAssumption of Group, SelfHealthAssumption and Limiter's Configured.
AcceptedSettingsFit ==
    /\ Is("coalesce") /\ ValidateCoalesce(subject.coalesce) =>
          LET co == subject.coalesce
          IN /\ EffectivePendingWait(co) > 0
             /\ EffectiveBurstWindow(co) >= EffectivePendingWait(co)
             /\ EffectiveBurstThreshold(co) >= 0 /\ EffectiveBurstThreshold(co) # 1
             /\ EffectiveGroupInterval(co) > 0 /\ EffectiveRepeatInterval(co) > 0
    /\ Is("selfHealth") /\ ValidateSelfHealth(subject.selfHealth) =>
          /\ EffectiveWindow(subject.selfHealth) > 0
          /\ EffectiveMinMonitors(subject.selfHealth) >= 2
    /\ Is("rateLimit") /\ RateLimitOK(RateLimitDefaults(subject.rateLimit)) =>
          LET rl == RateLimitDefaults(subject.rateLimit)
          IN rl.perChannel > 0 => rl.window > 0 /\ rl.noticeEvery > 0

\* What the loader lets through can be run: every plan, declared or discovered, is sound,
\* a declared one never falls behind by more than a tick, and the settings are in range.
PlansAreSound == PlanIsSound /\ CheckCostsOneTick /\ AcceptedSettingsFit

-----------------------------------------------------------------------------
(* Properties of the pages *)

Listing(q) == V!HandleMonitorsListing(StatusPages, subject.rows, q)

StatusPage(p) == V!HandleStatusBySlug(StatusPages, p, subject.rows)

FirstPage == [page |-> 1, per |-> AMPerPage]

\* The number on a tile of the front page or of a status page is the number of rows
\* behind its link: the one is counted by the store or over the sections, the other
\* selected by the listing.
TilesAgree ==
    Is("table") =>
        /\ \A t \in V!HandleHomepage(subject.rows, {}, FirstPage, {}).tiles :
              Cardinality(Listing(t[2])) = t[1]
        /\ V!CountOpenIncidents(subject.rows) = V!HomepageStats(subject.rows).down
        /\ \A p \in DOMAIN StatusPages : \A page \in StatusPage(p) : \A t \in page.tiles :
              Cardinality(Listing(t[2])) = t[1]

\* Whether a monitor is on a page is one answer, given by the blocks the page renders,
\* the listing behind each block's head, the listing of the page, and the monitor's own
\* page. It holds for a monitor without a port: the blocks match the host with it.
PagesAgreeOnMonitors ==
    Is("table") =>
        \A p \in DOMAIN StatusPages : \A r \in {x \in subject.rows : x.port = NoText} :
            LET blocks == (CHOOSE page \in StatusPage(p) : TRUE).blocks
            IN /\ \A i \in DOMAIN blocks :
                     r \in blocks[i] <=> r \in Listing(V!SectionListingURL(p, i - 1))
               /\ r \in UNION {blocks[i] : i \in DOMAIN blocks}
                     <=> r \in Listing(V!StatusListingURL(p, NoText))
               /\ p \in V!AppearsOn(StatusPages, r) <=> r \in Listing(V!StatusListingURL(p, NoText))

\* The badge of a status page, judged from its blocks, is the badge of its tile in the
\* directory, judged from counts, and a tile that says "all up" gives the number of
\* monitors on the page. The head of a block counts the rows it leads to.
BadgesAgree ==
    Is("table") /\ (\A r \in subject.rows : r.port = NoText) =>
        \A p \in DOMAIN StatusPages : \A page \in StatusPage(p) :
            LET tile == V!HandleStatusIndex(StatusPages, subject.rows)[p]
                shown == UNION {page.blocks[i] : i \in DOMAIN page.blocks}
            IN /\ page.badge = tile.badge
               /\ tile.allUp \subseteq {Cardinality(shown)}
               /\ \A h \in page.heads : Cardinality(Listing(h[2])) = h[1]

Reads(q) == V!MonitorsFilter(q)

\* Turning a page or sorting keeps the listing: the address built from a filter selects
\* the rows of the address it was read from, in the same order, and a click on a column
\* head changes the order alone. Where nothing is offered to clear, nothing is hidden.
LinksKeepTheListing ==
    Is("table") =>
        LET q == subject.query
            again == V!ParamsFromFilter(Reads(q))
        IN /\ Listing(again) = Listing(q) /\ Reads(again).sort = Reads(q).sort
           /\ Reads(q).sort # NoText => Reads(again).desc = Reads(q).desc
           /\ \A key \in V!SortKeys :
                 LET head == V!SortHref(key, Reads(q))
                 IN Listing(head) = Listing(q) /\ Reads(head).sort = key
           /\ ~V!FilterIsActive(Reads(q)) => Listing(q) = V!ListActiveMonitors(subject.rows)

\* The tags the filter offers are the ones that find something, in the archive if not
\* among the active: whoever sees a row under a tag can take the tag back and set it again.
TagsOffered ==
    Is("table") =>
        /\ Listing(subject.query) # {} => Reads(subject.query).tags \subseteq V!DistinctTags(subject.rows)
        /\ \A t \in V!DistinctTags(subject.rows) : Listing([tag |-> {t}, archived |-> "any"]) # {}

Rows(n) == [i \in 1 .. n |-> i]

(* An alert log of which two entries each have the same time.                 *)
Log(n) == {[id |-> i, at |-> i \div 2] : i \in 1 .. n}

(* Following the links from q on, as long as a next page is offered, for so   *)
(* many pages at the most.                                                    *)
ReadOn(Page(_), q, most) ==
    LET read[n \in 0 .. most] ==
          IF n = 0 THEN [items |-> <<>>, next |-> {q}]
          ELSE LET before == read[n - 1]
                   page == Page(CHOOSE address \in before.next : TRUE)
               IN IF before.next = {} THEN before
                  ELSE [items |-> before.items \o page.items, next |-> page.pager.next]
    IN read[most]

All(rows) == [items |-> rows, next |-> {}]

MonitorsAt(q) ==
    LET p == V!Pagination(IF "page" \in DOMAIN q THEN q.page ELSE 0, 0, subject.per, MaxPer)
        listing == [items |-> V!MonitorsOnPage(subject.orders, p), total |-> subject.total]
    IN V!MonitorsPage(listing, Reads(q), {}, p)

LogAt(q) ==
    LET p == V!Pagination(IF "page" \in DOMAIN q THEN q.page ELSE 0, 0, subject.per, MaxPer)
        home == V!HandleHomepage({}, Log(subject.total), p, {})
    IN [items |-> home.feed, pager |-> home.pager]

IncidentsAt(q) ==
    LET view == V!HandleAMAlertsListing(subject.rows, q)
    IN [items |-> view.shown, pager |-> V!AMListingPaginator(view)]

(* As many rows were read as there are, and their sort keys are those of the  *)
(* listing: a row that shares its keys with no other has been read once.      *)
ReadByKey(read, keys) ==
    /\ read.next = {} /\ Len(read.items) = Len(keys)
    /\ \A i \in DOMAIN keys : keys[read.items[i]] = keys[i]

\* Leafing through a listing from its first page on shows every row once and none twice:
\* the alert log, the incidents, whose links carry the filter and the length of the page,
\* and of the monitors every one whose sort keys are its own; of monitors that share status
\* and name one may come twice and another not at all. The links of the log and the
\* monitors drop a length that was asked for, so it holds for the configured one, and that
\* of the incidents only while it is less than the most the store returns. "No alert has
\* ever fired" is said when that is so, not when a filter or a page number leaves nothing;
\* the front page says it of any empty page.
PagesCover ==
    /\ Is("pages") /\ subject.per > 0 =>
          LET log == ReadOn(LogAt, V!NoQuery, subject.total + 1)
          IN /\ ReadByKey(ReadOn(MonitorsAt, V!NoQuery, subject.total + 1), subject.keys)
             /\ log.next = {}
             /\ Reverse([i \in DOMAIN log.items |-> log.items[i].id]) = Rows(subject.total)
    /\ Is("incidents") =>
          LET q == subject.query
              p == V!AMPage(q)
              listed == Filter(subject.rows,
                               {inc \in ToSet(subject.rows) : V!AMSelects(V!AMFilter(q), inc)})
          IN /\ p.per < AMListMaxLimit =>
                   ReadOn(IncidentsAt, q, Len(listed) + 1)
                      = All(SubSeq(listed, p.per * (p.page - 1) + 1, Len(listed)))
             /\ V!HandleAMAlertsListing(subject.rows, q).empty <=> subject.rows = <<>>

\* The number in the navigation bar is the one at the head of the page behind it, less what
\* an unreachable database does not tell; each section leads to a listing of its length;
\* the gauge adds up to it, and what it said of the discovered hosts stands until the
\* database says otherwise.
IssueBadgeAgrees ==
    Is("issues") =>
        LET s == subject.sources
            Badge(readable) == V!IssueCount(s.mapping, s.discovery, s.missing, s.annotations, readable)
            zero == [kube_invalid |-> 0, slack_mapping |-> 0, missing_parent |-> 0, annotation |-> 0]
            gauge == V!Refresh(zero, s.mapping, s.discovery, s.missing, s.annotations, TRUE)
            after == V!Refresh(gauge, {}, {}, {}, {}, FALSE)
            page == V!IssuesPage(s.mapping, s.discovery, s.missing, s.annotations)
            Behind(status) == V!DiscoveryListing(s.discovery, status, AnyText).rows
            invalid == Behind("kube-invalid")
        IN /\ Badge(TRUE) = page.total
           /\ "invalid" \in DOMAIN page.sections => page.sections.invalid = Cardinality(invalid)
           /\ "skipped" \in DOMAIN page.sections
                 => page.sections.skipped = Cardinality(Behind("kube-ignored"))
           /\ page.allWell => invalid = {} /\ s.missing = {} /\ s.annotations = {}
           /\ Badge(TRUE) - Badge(FALSE) = Cardinality(invalid)
           /\ gauge.kube_invalid + gauge.slack_mapping + gauge.missing_parent + gauge.annotation
                  = Badge(TRUE)
           /\ after.kube_invalid = Cardinality(invalid)

\* The pages tell one story: a count, the list behind it, the blocks of a page and the
\* badges on it are computed by different code from the same rows.
PagesAgree == TilesAgree /\ PagesAgreeOnMonitors /\ BadgesAgree /\ IssueBadgeAgrees

\* Whoever follows the links of a listing, to another order or page by page, sees the
\* rows of that listing, each of them once unless others share its sort keys.
ListingsAreComplete == LinksKeepTheListing /\ TagsOffered /\ PagesCover

=============================================================================
