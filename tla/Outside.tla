------------------------------- MODULE Outside --------------------------------
(* Where a process meets what is outside it: the file and the environment it  *)
(* is started with, the schema and the workspace it finds, one Slack call and *)
(* one flooded channel. A behaviour takes up one of these, the subject; some  *)
(* of them go on, step by step.                                               *)
EXTENDS Blocks, FiniteSets

CONSTANTS ProxyFiles, ChannelFiles, \* sequences of proxies, of channels
          Environs,      \* environments, total on the names those use
          UserMappings, Notifies, \* slack.userMapping, notify lists
          Workspaces,    \* the teams the tokens belong to, in the order of the tokens
          SlackPeople,   \* whom Slack knows, and which calls fail
          Latest,        \* version of the newest migration
          Budget, HTTPTimeout, Takes, RetryAfters, MaxAttempts, \* of a Slack call
          PerChannel, Window, NoticeEvery, MaxDrops \* of a flooded channel

VARIABLE subject

C == INSTANCE Client
F == INSTANCE Limiter
S == INSTANCE Startup

ASSUME OutsideAssumption ==
    /\ F!Configured /\ Latest \in Nat
    /\ Budget \in Nat /\ HTTPTimeout \in Nat /\ Takes \subseteq 0 .. HTTPTimeout
    /\ RetryAfters \subseteq Int
    /\ \A blocks \in ProxyFiles \cup ChannelFiles :
          Len(blocks) \in Nat /\ DOMAIN blocks = 1 .. Len(blocks)

(* The ids a mapping and a notify list name as users (U...) and as subteams   *)
(* (S...).                                                                    *)
IdsNamed(mapping, notify, letter, mention) ==
    {mapping[s][2] : s \in {x \in DOMAIN mapping : mapping[x][1] = letter}}
    \cup {n[2] : n \in {x \in notify : x[1] = mention}}

(* The forms of a notify list and of a mapping; an id tells whether it is a   *)
(* user's.                                                                    *)
Named(mapping, notify) ==
    LET users == IdsNamed(mapping, notify, "U", "user")
        subteams == IdsNamed(mapping, notify, "S", "subteam")
    IN /\ IsFiniteSet(notify)
       /\ \A n \in notify : n = <<n[1], n[2]>> /\ n[1] \in {"slug", "user", "subteam", "other"}
       /\ \A s \in DOMAIN mapping : mapping[s] = <<mapping[s][1], mapping[s][2]>>
       /\ users \cap subteams = {} /\ "" \notin users \cup subteams

ASSUME PeopleAssumption ==
    \A mapping \in UserMappings, notify \in Notifies : Named(mapping, notify)

None == [kind |-> "none"]

Is(kind) == subject.kind = kind

NothingTaken == subject = None

-----------------------------------------------------------------------------
(* Files *)

TakeProxies == \E ps \in ProxyFiles, e \in Environs :
                   subject' = [kind |-> "proxies", proxies |-> ps, environ |-> e]

TakeChannels == \E cs \in ChannelFiles, e \in Environs :
                    subject' = [kind |-> "channels", channels |-> cs, environ |-> e]

TakePeople == \E m \in UserMappings, n \in Notifies, p \in SlackPeople :
                  subject' = [kind |-> "people", mapping |-> m, notify |-> n, slack |-> p]

-----------------------------------------------------------------------------
(* A Slack call *)

PlaceCall == subject' = [kind |-> "call", call |-> C!NewCall]

CallGoesOn ==
    /\ Is("call") /\ subject.call.ended = "no" /\ subject.call.attempt <= MaxAttempts
    /\ \/ \E w \in C!World, took \in Takes, after \in RetryAfters :
            /\ w.met = "transport" => after = 0
            /\ \E c \in C!RetryingDo(subject.call, w, took, after) :
                  subject' = [subject EXCEPT !.call = c]
       \/ subject' = [subject EXCEPT !.call = C!Cancel(@)]

-----------------------------------------------------------------------------
(* A flooded channel. Each alert is a goroutine of its own: it asks Allow     *)
(* and, if it is dropped, NoticeDue, and others come in between. callers are  *)
(* the dropped alerts between the two, by what Allow told them.               *)

OpenChannel ==
    subject' = [kind |-> "flood", bucket |-> F!NewBucket, callers |-> [told \in BOOLEAN |-> 0],
                drops |-> 0, reported |-> 0, announced |-> FALSE]

AlertArrives ==
    LET a == F!Allow(subject.bucket)
    IN /\ Is("flood")
       /\ IF a.allowed THEN subject' = [subject EXCEPT !.bucket = a.bucket, !.announced = FALSE]
          ELSE /\ subject.drops < MaxDrops
               /\ subject' = [subject EXCEPT !.bucket = a.bucket, !.drops = @ + 1,
                                             !.callers[a.justEngaged] = @ + 1]

DropReports(justEngaged) ==
    LET due == F!NoticeDue(subject.bucket)
        n == F!ThrottleNotice(justEngaged, due.n)
    IN /\ Is("flood") /\ subject.callers[justEngaged] > 0
       /\ subject' = [subject EXCEPT !.bucket = due.bucket, !.callers[justEngaged] = @ - 1,
                                     !.reported = @ + n, !.announced = @ \/ n > 0]

TimePasses == Is("flood") /\ subject' = [subject EXCEPT !.bucket = F!Older(@)]

-----------------------------------------------------------------------------
(* toggle-monitor migrate, on a schema that earlier runs and other binaries   *)
(* may have left. It runs, can fail or be killed at any migration, and runs   *)
(* again. from is the schema the run found.                                   *)

FindSchema ==
    \E v \in 0 .. Latest + 1, dirty \in BOOLEAN :
        subject' = [kind |-> "schema", schema |-> [version |-> v, dirty |-> dirty],
                    from |-> [version |-> v, dirty |-> dirty], said |-> "running"]

Says(word, schema) == subject' = [subject EXCEPT !.said = word, !.schema = schema]

Migrate ==
    /\ Is("schema") /\ subject.said = "running"
    /\ LET now == subject.schema IN
          IF S!NothingPending(now) THEN Says("done", now)
          ELSE IF ~S!MayApply(now) THEN Says("failed", now)
          ELSE LET next == S!Applying(now, now.version + 1)
               IN Says("failed", next) \/ Says("running", S!Applied(next))

MigrateAgain ==
    /\ Is("schema") /\ subject.said # "running"
    /\ subject' = [subject EXCEPT !.said = "running", !.from = subject.schema]

-----------------------------------------------------------------------------
(* The watcher of the Slack workspace. The first pass may refuse the start,   *)
(* a later one may not; any call of auth.test may fail.                       *)

Answers(teams) == {a \in [DOMAIN teams -> ToSet(teams) \cup {S!Silent}] :
                      \A i \in DOMAIN a : a[i] \in {teams[i], S!Silent}}

TakeWorkspace ==
    \E w \in Workspaces : \E a \in Answers(w) :
        LET v == S!VerifyOnce(a)
        IN subject' = [kind |-> "workspace", teams |-> w, started |-> ~v.multi, state |-> v,
                       asked |-> \A i \in DOMAIN a : a[i] # S!Silent]

VerifyAgain ==
    /\ Is("workspace") /\ subject.started
    /\ \E a \in Answers(subject.teams) : subject' = [subject EXCEPT !.state = S!VerifyOnce(a)]

-----------------------------------------------------------------------------

OutsideStep ==
    \/ /\ Is("none")
       /\ \/ TakeProxies \/ TakeChannels \/ TakePeople \/ FindSchema \/ TakeWorkspace
          \/ PlaceCall \/ OpenChannel
    \/ Migrate \/ MigrateAgain \/ VerifyAgain
    \/ CallGoesOn \/ AlertArrives \/ TimePasses
    \/ \E justEngaged \in BOOLEAN : DropReports(justEngaged)

OutsideSpec == NothingTaken /\ [][OutsideStep]_subject

-----------------------------------------------------------------------------
(* Properties of the start *)

\* Proxies that were accepted fail the start only for a password that is not there, and
\* once it succeeds no monitor that names a proxy is checked without it, through another,
\* or without its password: an unknown slug would silently be dialled directly.
ProxiesAreUsed ==
    Is("proxies") /\ ProxiesOK(subject.proxies) =>
        LET pool == S!Build(subject.proxies, subject.environ)
            Secret(p) == p.passwordEnv # ""
        IN IF \E p \in ToSet(subject.proxies) : Secret(p) /\ subject.environ[p.passwordEnv] = ""
           THEN ~pool.ok
           ELSE /\ pool.ok
                /\ \A p \in ToSet(subject.proxies) :
                      LET d == S!Get(pool, p.slug)
                      IN /\ d.via = p.server /\ d.port \in 1 .. MaxPort
                         /\ Secret(p) => d.auth = <<p.username, subject.environ[p.passwordEnv]>>

\* Whatever is routed to a channel of the file is posted there, with that channel's own
\* token, once the process has started.
ChannelsCanPost ==
    Is("channels") /\ ChannelsOK(subject.channels) =>
        LET r == S!ResolveSlackTokens(subject.channels, subject.environ)
        IN r.ok => \A c \in ToSet(subject.channels) :
                      /\ r.channels[c.slug] = [id |-> c.id, token |-> subject.environ[c.tokenEnv]]
                      /\ r.channels[c.slug].token # ""

\* A list that was accepted mentions someone, and whoever the validator finds in order is
\* mentioned by the id the config dialog shows, whichever of two slugs of one id the
\* dialog's reverse lookup happens to pick.
MentionsReachSomeone ==
    Is("people") /\ UserMappingOK(subject.mapping)
                 /\ (\A n \in subject.notify : IsValidNotifyEntry(n, subject.mapping)) =>
        LET mapping == subject.mapping
            mentions == S!ResolveMentions(subject.notify, mapping)
            entries == S!VerifyMapping({}, mapping, "token", subject.slack)
        IN /\ subject.notify # {} => mentions # {}
           /\ \A f \in S!IdToSlugs(mapping) :
                 LET shown == {S!DisplayMention(m, f) : m \in mentions}
                 IN /\ Cardinality(shown) = Cardinality(mentions)
                    /\ \A e \in entries : e.ok /\ <<"slug", e.slug>> \in subject.notify =>
                          \E d \in shown : d.id = mapping[e.slug][2] /\ mapping[d.slug] = mapping[e.slug]

\* After migrate has said that it is done, serve accepts the schema, however many runs
\* failed before, but for two schemas migrate takes for up to date: one a newer binary
\* left and the newest one while it is dirty.
MigrateThenServe ==
    Is("schema") /\ subject.said = "done" =>
        S!Check(subject.schema) \/ (subject.schema = subject.from /\ S!NothingPending(subject.from))

\* The workspace is shown healthy only if all tokens belong to the team that is shown.
\* A process with tokens of two runs only because one was silent when it started, and is
\* never shown healthy, although its later passes are not obeyed.
WorkspaceIsOne ==
    Is("workspace") =>
        /\ subject.state.healthy => \A t \in ToSet(subject.teams) : t = subject.state.team
        /\ subject.started /\ subject.asked => Cardinality(ToSet(subject.teams)) <= 1

\* A start that is not refused has what the file promises: its proxies, its tokens and
\* one workspace of them, people to mention, and the schema it was built for.
StartsAsConfigured ==
    ProxiesAreUsed /\ ChannelsCanPost /\ MentionsReachSomeone /\ MigrateThenServe /\ WorkspaceIsOne

-----------------------------------------------------------------------------
(* Properties of the outbound side *)

\* A message reported as delivered is there, and it is there once unless Slack answered
\* with an error that left that open: a 5xx and the codes of Slack's own failures are
\* retried, and each such retry can repeat the message once. Without an answer the retries
\* stop at the first attempt that may have reached Slack, so silence never repeats it.
DeliveredOnce ==
    Is("call") => /\ subject.call.carried <= 1 + subject.call.doubts
                  /\ subject.call.ended = "delivered" => subject.call.carried >= 1

\* A call holds its goroutine for no longer than the retry budget and one more attempt,
\* however long Slack asks it to wait.
CallIsBounded == Is("call") => subject.call.now <= Budget + HTTPTimeout

\* A Slack call is retried at no one's expense: neither the channel, which sees a message
\* again only for an answer of Slack's that left it open, nor the goroutine, which gets its
\* answer in time.
CallIsSafe == DeliveredOnce /\ CallIsBounded

\* No dropped alert goes uncounted: whichever goroutine asks for the count first, the
\* drops are in a notice or still to come.
DropsAreReported == Is("flood") => subject.reported + subject.bucket.dropped >= subject.drops

\* While a channel is flooded it has been told so since it last let an alert through,
\* except between the drop and its notice, also when the notice of an earlier flood is
\* younger than noticeEvery.
FloodIsAnnounced ==
    Is("flood") /\ subject.bucket.engaged =>
        subject.announced \/ \E told \in BOOLEAN : subject.callers[told] > 0

\* Alerts that the limiter drops are dropped in the open: the channel is told of the
\* flood and of every one of them.
FloodIsTold == DropsAreReported /\ FloodIsAnnounced
=============================================================================
