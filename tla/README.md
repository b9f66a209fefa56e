# toggle-monitor: TLA+ models and proofs

toggle-monitor is a single-replica uptime monitor written in Go. It probes
HTTP, SMTP and TLS targets, keeps one row per monitor in Postgres, and tells
Slack about incidents: one message per monitor, or one digest per channel when
many monitors fail together. It finds monitors in Kubernetes ingresses and
takes in the alerts of an Alertmanager. This directory holds TLA+
specifications of it, TLC configurations that check them on small instances,
and TLAPS proofs of the main results for every instance.

## 1. Inventory

| Component | State it keeps | Operations | Hard part |
|---|---|---|---|
| `internal/alert` | none (pure) | `Apply`, `ApplySSL` | resume from a pause, reminder cadence, escalation |
| `internal/group` | one `Group`: members, posted, closed, last flush, last reminder | `Open`, `MarkDown/Up/Paused`, `Evaluate` | flaps inside the debounce, late evaluations |
| `internal/coalesce` | per channel: mode, pending pool, deadline, burst count, individual claims; live groups | `Route`, `Pause`, `evaluateAll`, `Reattach` | one mutex, released around Slack calls and parent probes; everything but the groups is lost in a restart |
| `internal/scheduler` | one goroutine per monitor | `Tick`, `RunDynamic` | the row is read, decided on and written in separate statements |
| `internal/lifecycle/coalesce_wiring.go` | none | on-demand parent probe, self-health commit, push-propagation | writes rows other goroutines are working on |
| `internal/store` | Postgres: monitors, incidents, incident groups, Alertmanager incidents, discovery snapshots | `ApplyCheck`, `ApplySSLCheck`, `SetUptimeThread`, `SoftDeleteMonitor`, ... and the listings | several writers of one row |
| `internal/slack` | Slack messages; the workspace state | `Notify*`, retrying client, tokens, mentions | uncertain delivery; message references stored after the post |
| `internal/selfhealth`, its notifier in `internal/lifecycle` | recent DNS failures and successes, degraded flag, the notice | `Report`, `Decide`, commit, open and close notice | the monitor judging its own blindness |
| `internal/alertmanager` | rate limiter; rows of `store/am_alerts.go` | webhook batch, firing, resolved, sweeper, rule walk | retried and overlapping batches, a resolve racing its firing, drops |
| `internal/kube` | informer caches, discovery snapshots | `reconcile`, nudge, ticker, removal sink | telling a removal from an error |
| `internal/merger` | plans | match cascade, value sources, trace | two accumulators; annotations nobody validates |
| `internal/config` | none | interpolation, unknown keys, validation | what slips through to the running program |
| `internal/lifecycle/lifecycle.go`, `heartbeat` | the loops, the pool | `RunServe`: start, reconcile, stop | order of a stop; starts that fail half way |
| `internal/migrate`, `internal/proxypool` | schema version; dialers | check, migrate; build, get | a dirty schema; a silent direct dial |
| `internal/web` | none | listings, status pages, badges | the same rows counted by different code; paging |
| `internal/httpcheck`, `internal/smtpcheck`, `internal/probe` | none | one probe | what an error of the transport counts as |

How they interact: the scheduler's `Tick` probes, reports to the self-health
detector, reads the row, calls `alert.Apply`, commits with `ApplyCheck` and
hands the event either to the Slack notifier (critical monitors) or to
`Manager.Route`. The Manager delivers an event to its pool, to a group or, with
its mutex released, to the notifier, which stores the message reference in the
row. A central evaluator goroutine expires the pool and drives the groups; it
may probe a parent, and then writes the parent's row itself. A second one
decides about self-health once per window and writes the rows of the failures
it releases. A failed parent pauses its children's rows. Kubernetes discovery
adds and archives monitors and hands plans to `RunDynamic`. The Alertmanager
receiver shares only Postgres, Slack and the pool with the rest. `RunServe`
starts all of them and must stop them before the connection pool.

What makes each part correct:

* group: no flap is shown as a recovery; what a reply says is what changes on
  the digest; the digest is never stale for longer than its heartbeat; a closed
  incident leaves nothing red;
* dispatcher: every incident has exactly one owner (pool, notifier or digest);
  fewer than `burstThreshold` monitors are announced one by one within
  `burstWindow`, and a digest is opened only for a real burst; a parent message
  gets its resolve edit; pools drain and digests close;
* self-health: blindness is believed only when it is real, is told in one
  message, ends when the resolver is back, and nothing suppressed is replayed;
* scheduler: the event log of a monitor alternates whoever writes the row; a
  child is paused as long as its parent is down; an outage that lasts is told;
* receiver: one open incident per alert, no acknowledgement before the
  announcement, messages that tell what the row tells, resolves that close;
* discovery: no removal on an error, none forgotten, tables and scheduler that
  follow the cluster;
* rules, files and pages: what is accepted can be run; what is explained is
  what was decided; the pages agree with each other;
* process: nothing uses the pool after it is closed; what is monitored is what
  the file declares.

The complete list of hazards, with the line each one bites at and the property
that would catch it, is in `PROJECT.json`.

## 2. Modules

| Module | Models | Extends |
|---|---|---|
| `Group` | `internal/group`: pure operators on a group record | |
| `GroupMachine` | one group driven by any caller, with history of what the operator sees | `Group` |
| `Alert`, `SSL` | the uptime and certificate state machines, and the statements that write their columns | |
| `Dispatcher` | `internal/coalesce` for one channel, composed with `Group`, `Alert`, the notifier's per-monitor messages, pauses and crashes | `Group`, instance of `Alert` |
| `SelfHealth` | the detector, the ticks that report to it and the notifier loop | |
| `Probe` | the result of an HTTP or SMTP check | |
| `Scheduler` | every writer of a monitor's row | `Probe`, instances of `Alert` and `SSL` |
| `Incidents` | the abstract promise of the Alertmanager receiver | |
| `AMReceiver` | deliveries, jobs, statements, Slack calls, the sweeper | instance of `Incidents` |
| `Limiter` | the per-channel flood detector | |
| `Discovery` | reconcile passes over the cluster, the snapshot and the monitors | |
| `Cascade` | both match trees, value sources, verdicts, traces | |
| `Blocks` | validation of proxies, channels, user mapping and notify lists | |
| `Config` | the rest of validation | `Cascade`, `Blocks` |
| `Loader` | interpolation, unknown keys, the search for a cycle of `dependsOn` | |
| `Views` | listings, status pages, badges, gauges | |
| `Client` | one Slack call with its retries | |
| `Startup` | schema, proxies, tokens, workspace, mentions | |
| `Outside` | a process and what is outside it: the files and the environment it starts with, a schema, a workspace, a Slack call, a flooded channel | `Blocks`, instances of `Client`, `Limiter`, `Startup` |
| `Rules` | one input of any kind at a time, with the properties that compare the functions above | `Config`, `Outside`, instance of `Views` |
| `Files` | the same for what only recursion over trees and graphs explains | `Rules`, instance of `Loader` |
| `Lifecycle` | a process from start to stop, and the next one | |
| `MC*` | values and symmetry sets for TLC | |
| `GroupTheorems` | lemmas about the operators of `Group` | `Group` |
| `GroupProofs`, `DispatcherProofs`, `SelfHealthProofs`, `SchedulerProofs`, `DiscoveryProofs`, `AMReceiverProofs` | theorems | the machine each is named after |
| `ProcessProofs` | theorems | `Lifecycle`, `Rules` |

An operator marked `mutant` in a comment is a plausible bug of the definition
below it; `PROJECT.json` says which property notices it.

### Group

A group is a record of `OpenedAt`, `Posted`, `Closed`, `LastFlushAt`,
`LastReminderAt` and the members, each with its state, `UpSince` and the class
it was last rendered with. `Open` and `Evaluate` return the next group, the
kinds of the Slack actions and the delta, as the Go methods return actions.
Fields that are only displayed are left out. In `GroupMachine` the three
staging calls happen at any time, `Eval` as late as it likes, and a closed
group is replaced, as the dispatcher does.

### Dispatcher

One action is one critical section of `Manager.mu`, one store statement, or one
Slack call, so every place where the code releases the mutex is a place where
the other processes can step in:

* a tick: `Probe` (read the row, resume, `Apply`), `Commit` (`ApplyCheck`),
  `Route*` (the critical section), `Notify*` and `StoreFreshParent` (the
  notifier). The event carries the row as it was read, as in the code;
* the evaluator: `StartPass` reads the clock once, then the pool is skipped,
  put off for a parent probe (`StartParentProbe`, mutex released), abandoned,
  promoted (`PromotePool`, `OpenDigest`, `SavePromoted`, mutex held) or flushed
  (`FlushPool`, then `FlushOpen` and `StoreOpenThread` per entry, mutex
  released); then the group is evaluated, saved and retired;
* push-propagation: `PauseRow` and `Pause`, in any order and at any time, for
  the monitors in `Children`;
* `CrashRestart`: rows, saved group and Slack messages survive.

"claimed" is history: in which life of the process an open incident was handed
to the notifier. The code forgets that in a crash; `BurstCap` does not.

The messages of a monitor are a sequence of colours; the reference stored in the
row is an index in it, 0 for none. "orphan" is history: a message that its
incident's resolve does not know of (the known race of section 5), which
`ResolveEdited` leaves out.

### SelfHealth

The detector compares times only with one window, so the model keeps ages that
stop at `Window`; no clock bound is needed and liveness is checked on infinite
behaviours. Whether the resolver works and which monitors have a broken DNS
record are part of the model, because the properties are about them. With
`Punctual` the clock waits until every monitor was probed in the time unit and
the pass that was due is over (probe interval and pass much shorter than the
window, as in the default configuration); without it nothing is assumed about
speed. A Slack call succeeds, fails, or is carried out while its answer is lost;
"lost" is history and counts such open notices. Of the commit callback the model
keeps the re-probe and the status it leaves in the row; how it races with other
writers is the matter of `Scheduler`.

### Scheduler

Four kinds of work write a row: the tick of the present plan, a cancelled tick
that is still inside a statement (`Replan`: `RunDynamic` does not wait), the
on-demand probe of a parent and the self-health commit. `op` holds the work in
flight per kind and monitor. A tick reads its parents one by one, pauses itself
or probes with retries, may be held back by the detector, then goes through the
steps every writer shares (`Work`): read and decide, `ApplyCheck`, announce,
store the thread, push-propagate, and the certificate side, which decides from
the row read before all that. Mishaps (a failed statement or Slack call, a plan
change, a crash) come out of one budget. A plan change is also one of `tls`:
among the plans a monitor may get (`TLSPlans`) some bear TLS and some do not; its
parents and its channel stay. `logged` and `sslLogged` are history of
`alert_events`. A write over a row another writer has decided from is
remembered in `raced`: the code does not guard against it, and `odd` collects
only what goes wrong without such a race. Critical monitors are announced here;
events of the others leave for `Dispatcher`.

### AMReceiver and Incidents

A delivery occupies a slot and holds one job per alert; each job is a goroutine
whose every statement and Slack call is an action. `Insert` and `FindOpen` are
the two halves of the partial unique index (`ON CONFLICT DO NOTHING`, then a
read that may find nothing), `PostParent` may be carried out while its answer
is lost, `Sweep` takes old rows out of the way, `CrashRestart` drops what is in
flight. The limiter and the rule walk are a choice here (they are `Limiter` and
`Cascade`). Alertmanager is external: it delivers present states until it is
answered 200. `Incidents` promises one open incident per alert, closed ones
that stay closed, and acknowledgement only after the announcement, which may
come twice. The refinement maps the open id of an alert to its open row, the
incidents used to the ids of the table and those announced to the incidents of
the messages in Slack.

### Discovery

A tuple is one (namespace, ingress, host), and what the cascade makes of it is
part of the cluster. A pass is one action per database call, so a crash falls
between any two: `Materialize` and `UpsertSnapshot` for each host, then
`PruneSnapshot`, `DropPlans`, and for each slug handed to the removal sink
`Lookup`, `SoftDelete`, `NotifyRemoved`. A statement that fails does so before
it or after its commit, with its answer lost. `ref` says whether the row holds
the reference of its message, `homeless` whose channel is no longer configured:
the removal edits neither. Hosts may share a slug. Passes are started at
start-up, by the ticker and by debounced nudges through the channel of capacity
one. `stray` and `unclosed` are history: what a failure or a late tick has cut
off for good, by the code's own choice (section 5), so that the properties speak
of the rest.

### Cascade, Config, Loader, Views, Rules, Files

These are functions of their input. A rule is a record of a label, its own
settings, value sources and nested rules; selectors, hosts, values and texts
are members of small sets. `Rules` takes up one input per behaviour (a tree, a
setting, a table and a query) and compares functions that answer the same
question in different code: the materializer with the trace, the snapshot row
with explain and with the page, validation with what the other modules assume
of their constants, tiles with lists, links with pages. Every loop of the code
is a recursive function here (`Loop` of `Cascade`), which the prover can take
apart. `Files` adds the graphs of `dependsOn`, the text of the file and its
mappings, and asks whether the program's walks find what a definition without a
walk says (`WalksAreExact`): those definitions are RECURSIVE operators, so they
are kept out of the modules that are proved about.

### Outside, with Blocks, Startup, Client and Limiter

The same for what a process meets: a behaviour takes up accepted or refused
proxies, channels or people with an environment, or goes on step by step:
`Migrate` until it is done, fails or is killed, and again (`MigrateAgain`); the
passes of the workspace watcher; the attempts of a Slack call with the waits
between them and `Cancel`, where any answer but a refusal leaves open whether
Slack has acted ("doubts" is history and counts the retries after one); the
alerts of a flooded channel, each a goroutine that asks `Allow` and, if it was
dropped, later `NoticeDue`. `Rules` extends `Outside`, and the run `rules`
checks both.

### Lifecycle

`RunServe` step by step with its fatal and best-effort statements, the loops
(idle or in a pass), the HTTP handlers and the connections they hold, the pool,
the signal and the ten seconds of the shutdown context. A process may be killed
at any moment, and the next one may have another configuration.

## 3. Runs

All twelve runs pass.

| Run | Question | Bounds |
|---|---|---|
| `group` | Does a group damp flaps, tell the truth, stay fresh and close clean, however late it is evaluated? | 2 members, clock 0..4, debounce and heartbeat 2: a flap, a debounce and a heartbeat fit with room for one late evaluation |
| `dispatcher_burst` | Is there exactly one owner per incident, and does every down monitor stay accounted for? | 3 monitors, one of them a child that is paused, threshold 2, window 2: a flushed monitor, a recovered one and a pooled one around the threshold |
| `dispatcher_fail` | Does each life of the process keep the burst cap, and has every promotion its burst, through failures of Slack and the store, and a crash? | 2 monitors, threshold 2, one crash, reminders on: what was announced before the crash is still counted after it, within one burst window |
| `dispatcher_live` | Do pools drain and digests close? | 2 children of one parent, so that the parent is probed on demand; Slack fails; probes stop at time 1 and everything under way finishes |
| `selfhealth_late` | Is a blind episode one message (one more per lost answer), and is nothing replayed, at any speed? | 2 monitors, window 2, at most 2 lost answers counted |
| `selfhealth_live` | Is blindness believed only when it is real, does it end, and does a broken record page? | 3 monitors: one broken record, two services that fail, threshold 2 |
| `scheduler_pair` | Does the event log alternate whoever writes the row? | a critical parent and a child, one retry, one mishap of any kind beside every interleaving of the four writers |
| `scheduler_ssl` | Do the certificate columns agree with the certificate events? | one monitor without retries whose plans bear TLS or not; two mishaps of any kind but a failed lookup: a lost statement and a plan change or crash after it, or a plan that ceases to bear TLS and begins again |
| `scheduler_live` | Does a child follow its parent, and is an outage that lasts told again and again? | the pair without retries, reminders on, one failed statement, failed Slack call or crash |
| `am` | Does the receiver implement `Incidents`, and does a resolve close? | one alert (alerts share nothing but the answer of their batch), two overlapping deliveries, three changes of status (fire, resolve, fire again), one failure, lost answer or crash; repeats need no bound of their own because a delivery that failed or overlapped is a repeat |
| `discovery` | Is no blip taken for a removal, is none forgotten, do tables and scheduler follow? | 2 hosts with a slug each (the theorems admit any), 2 changes of the cluster, one failure or lost answer, one outage |
| `rules` | Do the functions that answer one question agree? Is a Slack call safe, a flood told, a stop orderly? | small inputs of every kind (`MCRules`); page lengths scaled down (2, 3 and 4 for 50, 200 and 500); listings of up to 7 rows with sort keys that are unique, shared by three or by all, and two orders of the ties, changing from page to page; a call with a budget of 3000 ms and a timeout of 5000 ms, so that an attempt can outlast the budget; a limiter of 2 per window; three lives of a process with two monitors, three loops and one request |

The `rules` run is the disjoint union of the behaviours of `Files` (with `Rules`
and `Outside` in it) and `Lifecycle`: the first never take a step of a process,
the second never an input.

Symmetry is used for monitors that no operator tells apart, never in a run with
a liveness property. Deadlock is off in `am` and `rules`, where the bounds let
the system stop.

Fairness.

* `dispatcher_live`: the clock advances (`Tick`), the evaluator's ticker keeps
  firing (`EvaluateAll`), a tick goroutine with an outcome goes on (`Commit`,
  `Notify`), and `Route` is strongly fair, because the evaluator takes the
  mutex again and again and a Go mutex hands itself to a waiter that starves.
  No monitor has to be probed.
* `selfhealth_live`: the clock, the notifier loop and every tick goroutine keep
  running; all are weakly fair.
* `scheduler_live`: a writer that has started goes on, every monitor is ticked
  again and again, and among its ticks there is always another one for which
  time has passed (strong fairness of `CheckRow` after 0).
* `am`: the jobs of a slot go on and the answer is given (goroutines run), and
  Alertmanager delivers what was not acknowledged.
* `discovery`: the goroutine of `Run` is never blocked for good (weak fairness
  of the pass), and of several ready arms of its `select` each is taken again
  and again (strong fairness of `Ticker`, `TakeNudge`, `Debounced`), as Go's
  random choice does.
* `Lifecycle`: `RunServe` goes on, time passes, a pass and a statement come to
  an end, and `select` does not prefer the ticker for ever to a done context
  (strong fairness of `Quit`). Nothing says that a request ends.

## 4. Proofs

All theorems hold for every set of monitors, alerts, hosts or loops and every
value of the intervals, thresholds and bounds the named assumptions admit.

* `GroupProofs`: `TypeCorrect`, `ClosedIsClear`, `FlapsDamped`, `DeltasHonest`,
  `DigestFresh`: each property of run `group`. The inductive invariant relates
  `UpSince` to the last failure, the stored classes to the ones on the message
  (they differ only between "none", "paused" and "recovered", never about
  "active"; on a heartbeat with an empty delta the code stores classes nobody
  was shown), and the time of the last class change to the last flush.
* `DispatcherProofs`: `DispatcherTypes`, `BurstsAreCapped`, and `OneOwner`,
  which assumes that the store does not fail. The invariant `IInv` says, besides
  the types: a row is down exactly when it has an opening time; an open on its
  way to the dispatcher belongs to an incident it does not hold; what it holds
  is open or its resolve is on its way; the pool is non-empty exactly in mode
  pending; every held, recent incident is in the burst count (`CountedOK`); and
  the cap itself in terms of the burst count (`CapOK`). `BurstCap` alone is not
  inductive: it speaks of rows and claims, while promotion is decided from the
  count, so the proof has to carry that the count never misses one. Claims are
  counted per life of the process: a claim of the present life is held
  (`ClaimOK`), so `CapOK` bounds it, and those of the lives before can only
  dwindle (`PastCapOK`). `OneOwner` needs in addition that an unposted open is
  in neither place (`OwnerOK`).

  `BurstsAreReal` (an action property) follows from the same invariant: whoever
  is in the count is in an incident or its resolve has not been routed yet.

  `NothingForgotten` adds a second layer, `RecordOK`: every open incident whose
  open has been routed is on the dispatcher's record, a group that has closed
  has no member that is down, and it is retired before anyone else takes the
  mutex, so nothing is recorded in it too late. It assumes that the store
  answers and speaks of the time before the first crash: a crash empties the
  pool, and a failed `ApplyCheck` leaves the row and the dispatcher apart.

  `RedMessagesAreEdited` adds a third, `MessageOK`: which message is red, and who
  holds its reference. A red message belongs to a claimed incident or is in the
  hand of a goroutine between its post and the store of its thread. The layer
  also bounds times, so that an entry the flush took long ago is not mistaken
  for the next incident of the same monitor. Its hypotheses are those under
  which the property holds: with reminders on, a reminder may post for an
  incident the dispatcher does not hold (section 5), which takes a pause or a
  failed statement.
* `SelfHealthProofs`: `SelfHealthTypes`, `OneMessage`, `NothingReplayed`, and
  `BlindForAReason` for punctual probes. The invariant says that records kept
  outside degraded mode were reported outside it, that the notifier's copy of
  the mode agrees with the detector's between passes, and what has been posted,
  beyond the notices whose answer was lost, as a function of whether the
  reference is known; for the last theorem, that a
  failure of a monitor with a sound record is no older than the last moment the
  resolver was down, after which a counting argument finds such a monitor among
  the `MinMonitors` failing ones.
* `DiscoveryProofs`: `DiscoveryTypes`, `TablesDoAgree`, `RemovedAreClosed`,
  `NothingLostToBlips`, for any derivation of slugs (`SlugsTyped`), shared ones
  included: what is said of a monitor that two hosts share is weaker.
  `TablesAgree` speaks of the moments between passes only; the invariant says
  what a pass in the middle of its work owes: every listed host was visited or
  will be (`Visited`), no slug on its way to the removal sink is one the pass
  listed as added (`SlugsOfListed`), an active monitor has its snapshot row or
  is in hand (`RowsKept`), and a red message is one the row refers to and the
  sink has seen it refer to (`ThreadsKnown`), or one of those nobody will close.
* `SchedulerProofs`: `SchedulerTypes`, `EventsDoAlternate`,
  `CertificateFollowsLog`. The properties speak of the history of one monitor,
  the code decides from one reading of its row; the invariant ties them. The
  opening time of a row that was not raced tells whether its history has an
  incident open (`RowsFollowLog`; the time, not the status, because a pause
  hides the status and keeps the time). What a writer has decided still fits the
  history when it writes, unless `raced` says that another one wrote in between
  (`UptimeOK`); and a decision about the certificate is only ever in the hands
  of a tick, which carries it through the whole uptime side, whatever the
  monitor's plan has become since (`OnlyTicks`, `CertOK`).
* `ProcessProofs`, about `Lifecycle`: `LifecycleTypes`, `AlwaysStopsInOrder`,
  `AlwaysStartsByConfig`. The invariant goes along `RunServe`: the state of the
  pool, the loops, the handlers and the farewell at each phase, and what of the
  table has been achieved on the way to the first tick.
* `ProcessProofs`, about `Outside`: `CallsAreSafe`, `FloodsAreTold`,
  `StartsAreAsConfigured`. An unfinished call has been carried out at most once
  per answer that left it open and is within its budget (`CallOK`), because what
  is retried was refused, never sent or answered with such an error
  (`OnlyUnsentRetried`) and a wait that would pass the deadline is not begun. In
  a flood, drops are counted or reported, and whoever started it either still is
  on its way to `NoticeDue` or has announced it (`FloodOK`). A run of `migrate`
  that has got past what it found has left a clean version the binary knows
  (`SchemaOK`). The rest is about functions: in a list without duplicate slugs
  the entry a slug leads to is the only one of it (`LastIsOnly`), so an accepted
  proxy or channel is found; mentions keep apart what the file keeps apart.
  `PeopleAssumption` says that an id tells whether it is a user's, as Slack's
  first letters do.
* `AMReceiverProofs`: `AMTypes`, `MessagesDoMatch`, and `PromiseIsKept`, the
  refinement `Spec => Promise!Spec`. A job carries the id of a row and of a
  message from call to call while the row may be resolved, swept or re-opened;
  `JobOK` says what these ids still mean when they are used, and with it a
  firing is acknowledged only if its row has a message. Each action then maps
  to an `Open`, `Close`, `Announce` or `Acknowledge` of `Incidents` or to a
  stutter.
* `ProcessProofs`, about `Rules`: `CascadeIsAlwaysExplained`,
  `BaselineAlwaysHolds`, `PlansAreAlwaysSound`, `PagesAlwaysAgree` and
  `ListingsAreAlwaysComplete`, for rule trees of any depth, hosts, alerts,
  status pages, tables, queries and page lengths. The subject never changes once
  it is taken up, so the inductive invariant is only that it is one of those
  given (`TakenAsGiven`); the argument is about the functions.

  They are loops over lists of any length and walks over trees of any depth, and
  the library's induction theorems have an operator as a parameter. `Induct` and
  `InductTo` state induction for a set instead, and `Turns` gives any of the
  loops a history (what it has accumulated after each turn), to which they are
  applied once; the lemmas on layers, lists, values and walks are instances.
  `Descends` does the same for trees: what a rule is worth is a function of what
  the rules nested in it are worth, and these have a lesser depth.

  For `CascadeIsExplained` the two accumulators are run side by side: after every
  layer the trace's, with zero for what is absent, is the merged configuration
  (`StaysInStep`, `Lockstep`). `BaselineHolds` rests on where a value can come
  from: a key of the resolved configuration is what some layer says of it
  (`ResolvedFrom`), a layer of an accepted tree says only what validation admits
  (`LayerFits`, `AMLayerFits`), the root is visited and says something of every
  required key (`WalkIs`, `RootSets`); and putting annotations in place of blanks
  changes a layer by proper values only (`LayerBetters`), which survives the merge
  (`StackBetters`) and keeps the checks satisfied (`StaysResolved`).
  `PlansAreSound` takes from there that a resolved channel is a configured one or
  none, and the rest from `checkResolved` and the validation of declared
  monitors. `ListingsAreComplete` needs that the query a link carries is read back
  as the filter it was made from, and that the links of a listing, followed from
  any page to the one without a next (`ReadWhole`), read slices that leave no gap
  and do not overlap; for incidents, as in the property, with pages shorter than
  the most the store returns. The pages of the monitors are queries with an order
  each; since all of these sort by the same keys, what is read has, place by
  place, the keys of the listing (`MonitorsCovered`).

  The assumptions say what the database and the decoder guarantee:
  `StoreAssumption` (a slug is a key; three statuses; finite tables),
  `FormAssumption` (what a decoded rule looks like before it is validated),
  `IntegralAssumption` (numbers are integers), `ListingAssumption` (the default
  length of a page and the store's limit are positive, an address carries integers
  where numbers are read, each query sorts the rows by their keys) and
  `RulesAssumption` (the status pages passed validation). TLC evaluates each of
  them in the run `rules`.

Only model-checked: all liveness (out of the prover's reach), and
`WalksAreExact`, whose reference definitions (the nodes of a tree in document
order, reachability in a graph) are RECURSIVE operators.

## 5. What the code does that one might not expect

Found while modelling. None is a property of a run; each is described where the
model has the step.

Dispatcher and self-health

* The burst cap is one of each life of the process, since all it counts is in
  memory: restarts within one `burstWindow` let `burstThreshold - 1` monitors each
  be announced one by one. A fresh parent a reminder posts is not counted at all.
* A pool that is lost in a restart is not refilled: its rows are down already,
  so there is no new open. A `MarkUp` between two evaluations is not saved and a
  crash loses it.
* A recovery that overtakes the flush of its own open leaves a red message
  (`dispatch.go:443`). A pool armed while a parent is probed may be decided
  before its own deadline (`dispatch.go:364`).
* A recovery the dispatcher has no record of is "silently dropped" in mode
  pending (`dispatch.go:255-281`), on the ground that nobody was notified. After
  a restart, or when a child resumes from a pause and its reminder posts, there
  is a message, and it stays red.
* A success from before the outage vetoes the first self-health decision, which
  then commits the burst (`selfhealth.go:178`). The survivors of the window are
  counted twice at the exit; the number is only displayed. A failed edit of the
  close notice is only logged (`selfhealth_wiring.go:164`). An open notice that
  landed while its answer was lost is posted again by the next pass or by the
  summary, because an error stores no reference (`selfhealth_wiring.go:137-146`);
  nobody edits the first.

Scheduler and notifier

* Two writers of one row that decide from the same reading write two opens
  (tick, on-demand probe, self-health commit; no lock). The commit does not look
  at `dependsOn`.
* With reminders off, an open whose announcement was lost to Slack, to a restart
  or to a plan change is never announced, nor one the on-demand probe has
  opened.
* `ApplySSLCheck` clears `ssl_expires_at` when there is no certificate to read. A
  plan that ceases to bear TLS (another URL, skip-verify) while the certificate is
  expiring drops the incident without an event (`ssl.go:62-64`): the last
  certificate event is an open or a reminder, and its message stays red.
* `ApplyCheck` writes archived rows, so a late tick can open an incident of a
  removed monitor.
* `retries x (timeout + backoff) < interval` bounds a check by less than two
  intervals, not by one as `design-decisions.md` says. For hosts `checkResolved`
  does not test it at all, although `config-schema.md` says it does, and several
  minimums of that table are not tested for declared monitors either.
* A rule below the root of the match tree may carry a negative `retries`: loading
  tests the root, and `checkResolved` each host, which is then invalid.

Alertmanager

* The limiter drops resolves as well, and answers 200: their rows stay open.
* A failed resolve edit is not repeated: the retry finds no open row. An edit
  may be attempted as the bot of another channel when a row was re-posted.
* A failed throttle notice loses its count. A label condition that accepts the
  empty string matches an alert without the label, against its comment.

Discovery and lifecycle

* Archiving a monitor after its snapshot row is gone is tried once. A crash or a
  failed statement in between leaves it active for ever; so does an upsert whose
  commit's answer, which names the vacated slug, was lost, and removing the
  `kube` block from the file.
* The message of a removed monitor stays red when the soft-delete was carried out
  and its answer lost (`lifecycle.go:1012`: the pass returns before the close-out,
  and the next finds the monitor archived), when the row's channel is no longer
  configured (`removal.go:98`) and when the message's reference was never stored
  (`removal.go:105`).
* A failed materialization or upsert drops the plan until the next good pass. If
  the statement was carried out, the monitor is active without a plan meanwhile.
* Two hosts that sanitize to one slug share a monitor (`SanitizeKubeDiscovered`:
  `a.b` and `a-b` of one ingress), although the comment at `slug.go:65` has the
  separator avoid collisions and `design-decisions.md:43` calls slugs
  collision-free. When one of the two is removed, the other's monitor is archived
  with it, until a later pass revives it.
* When the kube watcher cannot be built the loops already run, and returning
  closes the pool under them. The farewell shares the ten seconds of the
  shutdown, so a slow stop sends none. A handler inside a statement delays the
  closing of the pool.

Files, migrations, Slack and pages

* `migrate` reports success on a dirty schema at the newest version and on one
  newer than the binary; `serve` refuses both.
* A second workspace is found only if both tokens answered at the start; a later
  finding is shown and not obeyed.
* A `*From` block reads an alias node by its name and refuses merges that the
  key check follows. Environment: an explicit Sentry sample rate of 0 becomes 1.
* One Slack call can take its budget and one more attempt. HTTP 5xx and the codes
  `internal_error`, `fatal_error`, `request_timeout` and `service_unavailable` are
  retried on the understanding that Slack has not acted (`client.go:323-327`;
  `:435`, "Slack didn't process"). Where it has, the message is repeated, once for
  each such retry.
* Links between pages drop `per_page`. A page past the last says that there is
  nothing at all. The last sort key of the monitors is the friendly name "so equal
  sort-key rows have a stable order" (`store.go:242`), but names are not unique:
  of monitors that share status and name one may come on two pages and another
  on none.

## 6. Not modelled

* Text: message wording, blocks, the layout of templates, log lines, metrics.
* `cmd/.../cli/slack.go`, `validate` and `config` beyond the loader, option
  plumbing, `internal/observability`, `internal/sentry`, `internal/secret`,
  `internal/sslinspect` (wrappers of libraries), `internal/slug` (text), the
  Helm chart. `internal/depindex` has no module of its own: the reverse index
  it builds once at startup is the operator `Children` of `Scheduler`.
* The network: a probe and a Slack attempt have the outcomes of `Probe` and
  `Client`. The informer caches and Alertmanager are external.
* In `Dispatcher`, SSL events and critical monitors (both bypass the Manager);
  they are in `Scheduler`. Several channels at once: they share only the mutex.
* Clock values: time is discrete, or an age that stops at a bound.

## 7. Plan

1. `WalksAreExact` with recursive functions over a finite set of nodes in place
   of the RECURSIVE operators, so that the walk and the search for a cycle can be
   proved exact.
2. `Scheduler` composed with `Discovery`, so that late ticks of archived
   monitors are the scheduler's own.
