-------------------------------- MODULE Views --------------------------------
(* The operator's pages as functions of what is stored (internal/web, its     *)
(* templates, and the listing queries of internal/store). A monitor row is    *)
(*   [slug, name, archived, status, ssl, expired, tags, host, port]           *)
(* with port "" when the URL has none. A page is a sequence of sections, each *)
(* a predicate: [any |-> s], [all |-> s] or [tags |-> t, hosts |-> h].        *)
(* The order of a listing matters only where the paging reads it.             *)
EXTENDS Integers, Sequences, SequencesExt, FiniteSets

CONSTANTS AnyText,       \* no condition
          Predicates,    \* those of sections, the ones they are made of included
          AMPerPage,     \* rows of an incident page unless the address says so (50)
          MaxPerPage,    \* the longest page an address may ask for (200)
          AMListMaxLimit, \* the most incidents the store returns at once (500)
          Clock          \* the texts that are times, and the times they are

-----------------------------------------------------------------------------
NoText == ""

-----------------------------------------------------------------------------
(* Status pages.                                                             *)

(* The predicate config validates and the one the pages evaluate agree; the   *)
(* latter holds its expressions compiled.                                     *)
SectionMatchOK[m \in Predicates] ==
    IF "any" \in DOMAIN m THEN DOMAIN m = {"any"} /\ m.any # <<>>
                               /\ \A c \in ToSet(m.any) : SectionMatchOK[c]
    ELSE IF "all" \in DOMAIN m THEN DOMAIN m = {"all"} /\ m.all # <<>>
                               /\ \A c \in ToSet(m.all) : SectionMatchOK[c]
    ELSE m.tags # {} \/ m.hosts # AnyText

(* A page has a section, and every section selects by something.              *)
StatusPagesOK(pages) ==
    \A p \in DOMAIN pages : /\ pages[p] # <<>>
                            /\ \A i \in DOMAIN pages[p] : SectionMatchOK[pages[p][i]]

Matches(m, tags, host) ==
    LET match[c \in Predicates] ==
          IF "any" \in DOMAIN c THEN \E d \in ToSet(c.any) : match[d]
          ELSE IF "all" \in DOMAIN c THEN \A d \in ToSet(c.all) : match[d]
          ELSE /\ c.tags # {} \/ c.hosts # AnyText
               /\ c.tags \subseteq tags
               /\ c.hosts = AnyText \/ host \in c.hosts
    IN match[m]

(* The handlers' host: the port is cut off.                                   *)
MonitorHost(r) == <<r.host, NoText>>

(* The templates' host: url.Parse keeps the port.                             *)
HostFromURL(r) == <<r.host, r.port>>

PageMatches(page, r) == \E i \in DOMAIN page : Matches(page[i], r.tags, MonitorHost(r))

ListActiveMonitors(rows) == {r \in rows : ~r.archived}

(* The blocks the page renders; a monitor can be in several.                  *)
BuildStatusSections(page, active) ==
    [i \in DOMAIN page |-> {r \in active : Matches(page[i], r.tags, HostFromURL(r))}]

(* Mutant: a monitor is counted once per section.                             *)
StatsPerSection(page, active) ==
    LET Count(P(_)) == Cardinality({x \in (DOMAIN page) \X active :
                           P(x[2]) /\ Matches(page[x[1]], x[2].tags, MonitorHost(x[2]))})
        Up(r) == r.status = "up"
        Down(r) == r.status = "down"
        Paused(r) == r.status = "temporary-paused"
        Expiring(r) == r.ssl = "ssl-expiring"
        Expired(r) == r.ssl = "ssl-expiring" /\ r.expired
        Every(r) == TRUE
    IN [total |-> Count(Every), up |-> Count(Up), down |-> Count(Down),
        paused |-> Count(Paused), expiring |-> Count(Expiring), expired |-> Count(Expired)]

StatsForPage(page, active) ==
    LET here == {r \in active : PageMatches(page, r)}
    IN [total    |-> Cardinality(here),
        up       |-> Cardinality({r \in here : r.status = "up"}),
        down     |-> Cardinality({r \in here : r.status = "down"}),
        paused   |-> Cardinality({r \in here : r.status = "temporary-paused"}),
        expiring |-> Cardinality({r \in here : r.ssl = "ssl-expiring"}),
        expired  |-> Cardinality({r \in here : r.ssl = "ssl-expiring" /\ r.expired})]

(* The badge of the page, from its sections, and that of its tile in the      *)
(* directory, from the counts.                                                *)
StatusBadgeKind(sections) ==
    LET shown == UNION {sections[i] : i \in DOMAIN sections}
    IN IF shown = {} THEN "none"
       ELSE IF \E r \in shown : r.status = "down" THEN "down"
       ELSE IF \E r \in shown : r.status = "temporary-paused" \/ r.ssl = "ssl-expiring"
            THEN "warn" ELSE "up"

PageBadgeKind(s) ==
    IF s.total = 0 THEN "none" ELSE IF s.down > 0 THEN "down"
    ELSE IF s.paused > 0 \/ s.expiring > 0 THEN "warn" ELSE "up"

(* The tile of a page in the directory.                                       *)
StatusPageTile(s) ==
    [badge |-> PageBadgeKind(s),
     chips |-> {c \in {<<"down", s.down>>, <<"paused", s.paused>>, <<"ssl exp", s.expiring>>} :
                   c[2] > 0},
     allUp |-> IF s.total > 0 /\ s.down = 0 /\ s.paused = 0 /\ s.expiring = 0 THEN {s.up} ELSE {}]

-----------------------------------------------------------------------------
(* /monitors. A query is what the address carries: a partial function from    *)
(* parameter names to values. A filter is what the handler makes of it.       *)

SortKeys == {"name", "status", "url", "code", "checked", "ssl_expires"}

NoQuery == [k \in {} |-> NoText]

Param(q, name) == IF name \in DOMAIN q THEN q[name] ELSE NoText

NoSection == -1

MonitorsFilter(q) ==
    [status |-> Param(q, "status"), ssl |-> Param(q, "ssl"), page |-> Param(q, "status_page"),
     section |-> IF Param(q, "status_page") # NoText /\ "section" \in DOMAIN q
                 THEN q.section ELSE NoSection,
     sort |-> IF Param(q, "sort") \in SortKeys THEN q.sort ELSE NoText,
     desc |-> Param(q, "dir") = "desc",
     archived |-> IF Param(q, "archived") \in {"active", "archived", "any"}
                  THEN q.archived ELSE NoText,
     tags |-> IF "tag" \in DOMAIN q THEN q.tag \ {NoText} ELSE {}]

(* Mutant: the section is left out of the links of the page.                  *)
ParamsNoSection(f) ==
    LET value == [status |-> f.status, ssl |-> f.ssl, status_page |-> f.page, sort |-> f.sort,
                  dir |-> "desc", archived |-> f.archived, tag |-> f.tags]
        given == {k \in {"status", "ssl", "status_page", "sort"} : value[k] # NoText}
                 \cup (IF f.sort # NoText /\ f.desc THEN {"dir"} ELSE {})
                 \cup (IF f.archived \notin {NoText, "active"} THEN {"archived"} ELSE {})
                 \cup (IF f.tags # {} THEN {"tag"} ELSE {})
    IN [k \in given |-> value[k]]

(* The address of a filter. A direction without a column is dropped.          *)
ParamsFromFilter(f) ==
    LET value == [status |-> f.status, ssl |-> f.ssl, status_page |-> f.page,
                  section |-> f.section, sort |-> f.sort, dir |-> "desc",
                  archived |-> f.archived, tag |-> f.tags]
        given == {k \in {"status", "ssl", "status_page", "sort"} : value[k] # NoText}
                 \cup (IF f.page # NoText /\ f.section # NoSection THEN {"section"} ELSE {})
                 \cup (IF f.sort # NoText /\ f.desc THEN {"dir"} ELSE {})
                 \cup (IF f.archived \notin {NoText, "active"} THEN {"archived"} ELSE {})
                 \cup (IF f.tags # {} THEN {"tag"} ELSE {})
    IN [k \in given |-> value[k]]

(* A column head: ascending first, descending if it is ascending already.     *)
SortHref(key, f) ==
    ParamsFromFilter([f EXCEPT !.sort = key, !.desc = f.sort = key /\ ~f.desc])

(* The slugs a page, or one section of it, selects; a section the page does   *)
(* not have selects like the page.                                            *)
CollectMonitorSlugsForPage(page, active, section) ==
    IF section \in 0 .. Len(page) - 1
    THEN {r.slug : r \in {a \in active :
                            Matches(page[section + 1], a.tags, MonitorHost(a))}}
    ELSE {r.slug : r \in {a \in active : PageMatches(page, a)}}

(* The rows the query keeps; no slugs means no condition on them.             *)
ListMonitors(rows, f, slugs) ==
    {r \in rows :
        /\ f.archived = "archived" => r.archived
        /\ f.archived \notin {"archived", "any"} => ~r.archived
        /\ f.status \in {NoText, r.status}
        /\ f.ssl = "expired" => r.ssl = "ssl-expiring" /\ r.expired
        /\ f.ssl \in {NoText, "expired", r.ssl}
        /\ slugs = {} \/ r.slug \in slugs
        /\ f.tags \subseteq r.tags}

HandleMonitorsListing(pages, rows, q) ==
    LET f == MonitorsFilter(q)
    IN IF f.page = NoText THEN ListMonitors(rows, f, {})
       ELSE IF f.page \notin DOMAIN pages THEN {}
       ELSE LET slugs == CollectMonitorSlugsForPage(pages[f.page],
                             ListActiveMonitors(rows), f.section)
            IN IF slugs = {} THEN {} ELSE ListMonitors(rows, f, slugs)

(* The tags the filter offers, those of archived monitors included.           *)
DistinctTags(rows) == UNION {r.tags : r \in rows}

(* The addresses the tiles and section heads of a status page link to.        *)
StatusListingURL(page, kind) ==
    IF kind = NoText THEN [status_page |-> page]
    ELSE IF kind \in {"ssl-expiring", "ssl-skipped", "ok", "expired"}
         THEN [status_page |-> page, ssl |-> kind]
    ELSE [status_page |-> page, status |-> kind]

SectionListingURL(page, index) == [status_page |-> page, section |-> index]

StatusPageTiles(page, s) ==
    {<<s.total, StatusListingURL(page, NoText)>>, <<s.up, StatusListingURL(page, "up")>>,
     <<s.down, StatusListingURL(page, "down")>>,
     <<s.paused, StatusListingURL(page, "temporary-paused")>>,
     <<s.expiring, StatusListingURL(page, "ssl-expiring")>>,
     <<s.expired, StatusListingURL(page, "expired")>>}

(* A status page: its badge, its tiles, and its blocks with the count and the *)
(* address in the head of each.                                               *)
StatusPage(slug, sections, stats) ==
    [badge |-> StatusBadgeKind(sections), tiles |-> StatusPageTiles(slug, stats),
     blocks |-> sections,
     heads |-> {<<Cardinality(sections[i]), SectionListingURL(slug, i - 1)>> : i \in DOMAIN sections}]

(* /status and /status/{slug}; a slug that is no page is not found.           *)
HandleStatusIndex(pages, rows) ==
    [p \in DOMAIN pages |-> StatusPageTile(StatsForPage(pages[p], ListActiveMonitors(rows)))]

HandleStatusBySlug(pages, slug, rows) ==
    IF slug \notin DOMAIN pages THEN {}
    ELSE {StatusPage(slug, BuildStatusSections(pages[slug], ListActiveMonitors(rows)),
                     StatsForPage(pages[slug], ListActiveMonitors(rows)))}

(* The front page: counts of the store and where each tile leads.             *)
HomepageStats(rows) ==
    LET Is(s) == Cardinality({r \in ListActiveMonitors(rows) : r.status = s})
        Cert(s) == Cardinality({r \in ListActiveMonitors(rows) : r.ssl = s})
    IN [up |-> Is("up"), down |-> Is("down"), paused |-> Is("temporary-paused"),
        expiring |-> Cert("ssl-expiring"), skipped |-> Cert("ssl-skipped")]

TrackedMonitors(s) == s.up + s.down + s.paused

HomepageTiles(s) ==
    {<<s.up, [status |-> "up"]>>, <<s.down, [status |-> "down"]>>,
     <<s.paused, [status |-> "temporary-paused"]>>,
     <<s.expiring, [ssl |-> "ssl-expiring"]>>, <<s.skipped, [ssl |-> "ssl-skipped"]>>,
     <<TrackedMonitors(s), NoQuery>>}

(* The number in the body of a heartbeat.                                     *)
CountOpenIncidents(rows) == Cardinality({r \in rows : r.status = "down" /\ ~r.archived})

(* The pages a monitor's own page says it appears on.                         *)
AppearsOn(pages, r) ==
    IF r.archived THEN {} ELSE {p \in DOMAIN pages : PageMatches(pages[p], r)}

-----------------------------------------------------------------------------
(* Paging.                                                                   *)

PageCount(total, per) ==
    IF per <= 0 THEN 1
    ELSE LET n == total \div per + (IF total % per # 0 THEN 1 ELSE 0)
         IN IF n = 0 THEN 1 ELSE n

(* What an address asks for, 0 for nothing usable, within the configured most. *)
Pagination(page, per, default, most) ==
    LET asked == IF per > 0 THEN per ELSE default
    IN [page |-> IF page > 0 THEN page ELSE 1,
        per |-> IF most > 0 /\ asked > most THEN most ELSE asked]

Slice(s, limit, offset) ==
    SubSeq(s, offset + 1, IF offset + limit < Len(s) THEN offset + limit ELSE Len(s))

(* ORDER BY puts the rows in the order of their sort keys, the last of which   *)
(* is a name that need not be unique; in what order it gives rows that share  *)
(* them is left to each query.                                                *)
OrderedBy(keys, order) ==
    /\ order \in Seq(DOMAIN keys) /\ Len(order) = Len(keys)
    /\ \A i, j \in DOMAIN keys : order[i] = order[j] => i = j
    /\ \A i \in DOMAIN keys : keys[order[i]] = keys[i]

(* Every page is a query of its own.                                          *)
MonitorsOnPage(orders, p) == Slice(orders[p.page], p.per, (p.page - 1) * p.per)

(* The links of a page keep the filter, not the length that was asked for.    *)
PaginatorLink(params, page) ==
    [k \in {"page"} \cup DOMAIN params |-> IF k = "page" THEN page ELSE params[k]]

Paginator(params, p, total) ==
    [pages |-> PageCount(total, p.per),
     prev |-> IF p.page > 1 THEN {PaginatorLink(params, p.page - 1)} ELSE {},
     next |-> IF p.page * p.per < total THEN {PaginatorLink(params, p.page + 1)} ELSE {}]

FilterIsActive(f) ==
    \/ f.status # NoText \/ f.ssl # NoText \/ f.page # NoText \/ f.tags # {}
    \/ f.archived \notin {NoText, "active"}

(* /monitors as it is rendered from a listing [items, total].                 *)
MonitorsPage(listing, f, tags, p) ==
    [items |-> listing.items, offered |-> tags, clear |-> FilterIsActive(f),
     heads |-> {SortHref(key, f) : key \in SortKeys},
     pager |-> Paginator(ParamsFromFilter(f), p, listing.total)]

(* The alert log of the front page: the newest first, by id within a second.  *)
NewestFirst(events) ==
    LET Newer(e, f) == e.at > f.at \/ (e.at = f.at /\ e.id > f.id)
        Rank(e) == Cardinality({f \in events : Newer(f, e)}) + 1
    IN [i \in 1 .. Cardinality(events) |-> CHOOSE e \in events : Rank(e) = i]

ListLatestAlerts(events, limit, offset) ==
    [items |-> Slice(NewestFirst(events), limit, offset), total |-> Cardinality(events)]

(* The front page; an empty page of the log says that nothing ever failed.    *)
Homepage(stats, alerts, p, mapping) ==
    [tiles |-> HomepageTiles(stats), broken |-> Cardinality({e \in mapping : ~e.ok}),
     feed |-> alerts.items, noAlerts |-> alerts.items = <<>>,
     pager |-> Paginator(NoQuery, p, alerts.total)]

HandleHomepage(rows, events, p, mapping) ==
    Homepage(HomepageStats(rows), ListLatestAlerts(events, p.per, (p.page - 1) * p.per), p, mapping)

-----------------------------------------------------------------------------
(* /alerts. An incident is [id, ended, started, severity, alertname, channel, *)
(* receiver]; the table is a sequence, the newest first.                      *)

AMFields == {"severity", "alertname", "channel", "receiver"}

AMFilter(q) ==
    [k \in AMFields \cup {"status", "from", "to"} |->
        IF k = "status" /\ Param(q, k) \notin {"firing", "resolved"} THEN NoText ELSE Param(q, k)]

AMFilterIsEmpty(f) == \A k \in DOMAIN f : f[k] = NoText

(* A text that is no time is no bound.                                        *)
AMSelects(f, inc) ==
    /\ f.status # NoText => inc.ended = (f.status = "resolved")
    /\ \A k \in AMFields : f[k] \in {NoText, inc[k]}
    /\ f.from \in DOMAIN Clock => inc.started >= Clock[f.from]
    /\ f.to \in DOMAIN Clock => inc.started <= Clock[f.to]

(* The rows of the table a filter keeps, in their order.                      *)
Listed(rows, f) ==
    LET kept[n \in 0 .. Len(rows)] ==
          IF n = 0 THEN <<>>
          ELSE IF AMSelects(f, rows[n]) THEN Append(kept[n - 1], rows[n]) ELSE kept[n - 1]
    IN kept[Len(rows)]

ListAMIncidents(rows, f, limit, offset) ==
    Slice(Listed(rows, f), IF limit > AMListMaxLimit THEN AMListMaxLimit ELSE limit, offset)

AMPage(q) == Pagination(IF "page" \in DOMAIN q THEN q.page ELSE 0,
                        IF "per_page" \in DOMAIN q THEN q.per_page ELSE 0, AMPerPage, MaxPerPage)

(* One row more than is shown is asked for, to know whether to offer a next   *)
(* page; empty says that there never was an alert.                            *)
HandleAMAlertsListing(rows, q) ==
    LET f == AMFilter(q)
        p == AMPage(q)
        got == ListAMIncidents(rows, f, p.per + 1, (p.page - 1) * p.per)
        shown == IF Len(got) > p.per THEN SubSeq(got, 1, p.per) ELSE got
    IN [filter |-> f, page |-> p.page, per |-> p.per, shown |-> shown, hasNext |-> Len(got) > p.per,
        empty |-> /\ shown = <<>>
                  /\ \/ AMFilterIsEmpty(f) /\ p.page = 1
                     \/ ListAMIncidents(rows, AMFilter(NoQuery), 1, 0) = <<>>]

(* The address of a page of the listing.                                      *)
AMListingURL(f, page, per) ==
    LET given == {k \in DOMAIN f : f[k] # NoText} \cup (IF per > 0 THEN {"per_page"} ELSE {})
                                                 \cup (IF page > 1 THEN {"page"} ELSE {})
    IN [k \in given |-> IF k = "page" THEN page ELSE IF k = "per_page" THEN per ELSE f[k]]

(* The links under the table; an empty table has none.                        *)
AMListingPaginator(view) ==
    [prev |-> IF view.shown # <<>> /\ view.page > 1
              THEN {AMListingURL(view.filter, view.page - 1, view.per)} ELSE {},
     next |-> IF view.shown # <<>> /\ view.hasNext
              THEN {AMListingURL(view.filter, view.page + 1, view.per)} ELSE {}]

-----------------------------------------------------------------------------
(* Issues. A discovery row is [key, ns, status].                                *)

(* The page: a section for every kind there is one of, and what an ignore     *)
(* rule skipped, which is no issue.                                           *)
IssuesPage(mapping, discovery, missing, annotations) ==
    LET Rows(status) == Cardinality({r \in discovery : r.status = status})
        count == [mapping |-> Cardinality({e \in mapping : ~e.ok}), invalid |-> Rows("kube-invalid"),
                  annotations |-> Cardinality(annotations), parents |-> Cardinality(missing),
                  skipped |-> Rows("kube-ignored")]
        total == count.mapping + count.invalid + count.annotations + count.parents
    IN [total |-> total, allWell |-> total = 0,
        sections |-> [k \in {c \in DOMAIN count : count[c] > 0} |-> count[k]]]

CountKubeInvalid(discovery) == Cardinality({r \in discovery : r.status = "kube-invalid"})

(* The number in the navigation bar; without the database it counts the rest. *)
IssueCount(mapping, discovery, missing, annotations, readable) ==
    Cardinality({e \in mapping : ~e.ok})
    + (IF readable THEN CountKubeInvalid(discovery) ELSE 0)
    + Cardinality(missing) + Cardinality(annotations)

(* The gauge Prometheus scrapes: a source that cannot be read keeps its value. *)
Refresh(gauge, mapping, discovery, missing, annotations, readable) ==
    [kube_invalid |-> IF readable THEN CountKubeInvalid(discovery) ELSE gauge.kube_invalid,
     slack_mapping |-> Cardinality({e \in mapping : ~e.ok}),
     missing_parent |-> Cardinality(missing), annotation |-> Cardinality(annotations)]

(* /discovery, by the status and the namespaces a glob stands for.            *)
FilterDiscoveryRows(discovery, status, namespaces) ==
    {r \in discovery : /\ status \in {NoText, r.status}
                       /\ namespaces = AnyText \/ r.ns \in namespaces}

(* The message of an empty table tells a filter from an empty snapshot.       *)
DiscoveryListing(discovery, status, namespaces) ==
    LET rows == FilterDiscoveryRows(discovery, status, namespaces)
    IN [rows |-> rows, message |-> IF rows # {} THEN "none"
                                   ELSE IF status # NoText \/ namespaces # AnyText THEN "no match"
                                   ELSE "nothing observed"]
=============================================================================
