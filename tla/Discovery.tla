------------------------------ MODULE Discovery ------------------------------
(* Kubernetes auto-discovery: the watcher of internal/kube, the materializer  *)
(* of internal/merger, the snapshot and monitor tables of internal/store and  *)
(* the removal sink of internal/lifecycle.                                    *)
(*                                                                            *)
(* A tuple is one (namespace, ingress, host). What the match cascade makes of *)
(* it ("added", or "ignored" for every other verdict) is part of the cluster  *)
(* here; module Cascade computes it. A reconcile pass runs on one goroutine   *)
(* and is one step per database call, so a crash can fall between any two.    *)
EXTENDS Naturals, FiniteSets

CONSTANTS
    Tuples,       \* the ingress hosts
    Slugs,        \* the slugs of their monitors
    SlugOf,       \* SanitizeKubeDiscovered: [Tuples -> Slugs]
    NoTuple,      \* no tuple is being written
    NoSlug,       \* no monitor is being closed out
    MaxChanges,   \* bound: changes of the cluster
    MaxFailures,  \* bound: crashes, failed listings, database calls and Slack edits
    MaxOutages    \* bound: incidents a monitor opens

\* Two hosts that differ in '.' against '-' sanitize to one slug and share a monitor.
ASSUME SlugsTyped == SlugOf \in [Tuples -> Slugs]

ASSUME Placeholders == NoTuple \notin Tuples /\ NoSlug \notin Slugs

VARIABLES
    cluster,   \* what the cascade would make of each tuple now, or "absent"
    snapshot,  \* discovery_snapshot: "none", "bare" (no slug) or "added"
    monitor,   \* monitors: "none", "active" or "archived"
    down,      \* the monitor's row has an open incident
    thread,    \* its latest Slack parent: "none", "red" or "green"
    ref,       \* the row holds the reference of that parent
    homeless,  \* monitors whose row names a channel the configuration does not have
    plans,     \* Materializer.kubePlans
    ticking,   \* the goroutines RunDynamic has running
    pass,      \* the reconcile pass
    nudged,    \* the capacity-1 nudge channel holds a request
    armed,     \* the debounce timer is pending
    stray,     \* history: monitors a failure cut from their snapshot row
    unclosed,  \* history: messages a failure or a late tick left red
    changes, failures, outages

tables == <<snapshot, monitor>>
incident == <<down, thread, ref, homeless, outages>>
triggers == <<nudged, armed>>
bounds == <<changes, failures>>
vars == <<cluster, tables, incident, plans, ticking, pass, triggers,
          stray, unclosed, bounds>>

Outcomes == {"absent", "added", "ignored"}

Present(c) == {t \in Tuples : c[t] # "absent"}

Idle == [at     |-> "idle",
         listed |-> [t \in Tuples |-> "absent"],
         todo   |-> {},        \* tuples the loop has still to visit
         keys   |-> {},        \* observedKeys
         slugs  |-> {},        \* observedSlugs
         row    |-> NoTuple,   \* materialized, not yet upserted
         gone   |-> {},        \* slugs to hand to the removal sink
         told   |-> NoSlug,    \* the slug in the removal sink
         view   |-> FALSE]     \* the row held a reference when looked up

Starting == [Idle EXCEPT !.at = "startup"]

CanFail == failures < MaxFailures

Init ==
    /\ cluster \in [Tuples -> Outcomes]
    /\ snapshot = [t \in Tuples |-> "none"]
    /\ monitor = [s \in Slugs |-> "none"]
    /\ down = [s \in Slugs |-> FALSE]
    /\ thread = [s \in Slugs |-> "none"]
    /\ ref = [s \in Slugs |-> FALSE]
    /\ homeless = {}
    /\ plans = {}
    /\ ticking = {}
    /\ pass = Starting
    /\ nudged = FALSE
    /\ armed = FALSE
    /\ stray = {}
    /\ unclosed = {}
    /\ changes = 0
    /\ failures = 0
    /\ outages = 0

-----------------------------------------------------------------------------
(* The cluster. Add and delete events nudge; an update does not.             *)

Nudge(c) == nudged' = (nudged \/ (Present(c) # Present(cluster)))

ClusterChanges(t, o) ==
    /\ changes < MaxChanges
    /\ cluster[t] # o
    /\ cluster' = [cluster EXCEPT ![t] = o]
    /\ Nudge(cluster')
    /\ changes' = changes + 1
    /\ UNCHANGED <<tables, incident, plans, ticking, pass, armed, stray,
                   unclosed, failures>>

-----------------------------------------------------------------------------
(* Run: what starts a pass.                                                  *)

(* List fails, answers with a cache in the middle of a relist, or answers.    *)
(* An error and an empty list both end the pass there.                        *)
Begin ==
    \/ /\ Present(cluster) # {}
       /\ pass' = [Idle EXCEPT !.at = "hosts", !.listed = cluster,
                               !.todo = Present(cluster)]
       /\ UNCHANGED failures
    \/ /\ Present(cluster) = {}
       /\ pass' = Idle
       /\ UNCHANGED failures
    \/ /\ CanFail
       /\ pass' = Idle
       /\ failures' = failures + 1

PassKeeps == UNCHANGED <<cluster, tables, incident, plans, ticking, stray,
                         unclosed, changes>>

Startup ==
    /\ pass.at = "startup"
    /\ Begin
    /\ PassKeeps /\ UNCHANGED triggers

Ticker ==
    /\ pass.at = "idle"
    /\ Begin
    /\ PassKeeps /\ UNCHANGED triggers

TakeNudge ==
    /\ pass.at = "idle"
    /\ nudged
    /\ nudged' = FALSE
    /\ armed' = TRUE
    /\ UNCHANGED <<pass, failures>> /\ PassKeeps

Debounced ==
    /\ pass.at = "idle"
    /\ armed
    /\ armed' = FALSE
    /\ Begin
    /\ PassKeeps /\ UNCHANGED nudged

-----------------------------------------------------------------------------
(* The body of a pass.                                                       *)

Visiting == pass.at = "hosts" /\ pass.gone = {} /\ pass.told = NoSlug

(* Mutant: the tuple is recorded once its row could be refreshed.             *)
ObserveRefreshed(t, ok) == IF ok THEN pass.keys \cup {t} ELSE pass.keys

(* The keys a pass ends up with once it has visited t.                        *)
Observe(t, ok) == pass.keys \cup {t}

(* ReconcileMonitor: a new row, or the old one brought back from the archive, *)
(* with the channel of the present configuration.                             *)
ReconcileMonitor(s) ==
    /\ monitor' = [monitor EXCEPT ![s] = "active"]
    /\ homeless' = homeless \ {s}

(* A monitor without a snapshot row is one no prune will ever name.           *)
Unrecorded(t) ==
    IF pass.listed[t] = "added" /\ snapshot[t] # "added" THEN {SlugOf[t]} ELSE {}

(* Materialize: an "added" host un-archives its monitor and gets a plan. Only *)
(* ReconcileMonitor can fail, so only an "added" host can: before the         *)
(* statement, or after its commit, when the answer is lost.                   *)
Materialize(t) ==
    /\ Visiting /\ pass.row = NoTuple /\ t \in pass.todo
    /\ LET s == SlugOf[t]
           added == pass.listed[t] = "added"
           visited(ok) == [pass EXCEPT !.todo = @ \ {t}, !.keys = Observe(t, ok)]
       IN \/ /\ pass' = [visited(TRUE) EXCEPT !.row = t]
             /\ IF added THEN ReconcileMonitor(s) /\ plans' = plans \cup {s}
                         ELSE UNCHANGED <<monitor, homeless, plans>>
             /\ UNCHANGED <<stray, failures>>
          \/ /\ added /\ CanFail
             /\ pass' = visited(FALSE)
             /\ \/ UNCHANGED <<monitor, homeless, stray>>
                \/ ReconcileMonitor(s) /\ stray' = stray \cup Unrecorded(t)
             /\ failures' = failures + 1
             /\ UNCHANGED plans
    /\ UNCHANGED <<cluster, snapshot, down, thread, ref, outages, ticking, triggers,
                   unclosed, changes>>

(* Mutant: only the prune hands slugs to the removal sink.                    *)
VacatedIgnored(t) == {}

(* The slug the upsert of t takes away from its row.                          *)
Vacated(t) ==
    IF snapshot[t] = "added" /\ pass.listed[t] # "added" THEN {SlugOf[t]} ELSE {}

(* Mutant: a row that did not change is not reported as observed.             *)
ConfirmsNew(t) ==
    IF pass.listed[t] = "added" /\ snapshot[t] # "added" THEN {SlugOf[t]} ELSE {}

(* What the upsert of t adds to observedSlugs.                                *)
Confirms(t) == IF pass.listed[t] = "added" THEN {SlugOf[t]} ELSE {}

(* The row as the upsert of t leaves it.                                      *)
Upserted(t) ==
    [snapshot EXCEPT ![t] = IF pass.listed[t] = "added" THEN "added" ELSE "bare"]

(* An error comes before the statement, or after its commit: then the answer, *)
(* which names the vacated slug, is lost.                                     *)
UpsertSnapshot ==
    /\ Visiting /\ pass.row # NoTuple
    /\ LET t == pass.row
       IN \/ /\ snapshot' = Upserted(t)
             /\ pass' = [pass EXCEPT !.row = NoTuple, !.gone = Vacated(t),
                                     !.slugs = @ \cup Confirms(t)]
             /\ stray' = stray \ Confirms(t)
             /\ UNCHANGED failures
          \/ /\ CanFail
             /\ pass' = [pass EXCEPT !.row = NoTuple]
             /\ \/ stray' = stray \cup Unrecorded(t) /\ UNCHANGED snapshot
                \/ /\ snapshot' = Upserted(t)
                   /\ stray' = (stray \ Confirms(t)) \cup Vacated(t)
             /\ failures' = failures + 1
    /\ UNCHANGED <<cluster, monitor, incident, plans, ticking, triggers,
                   unclosed, changes>>

(* The slugs the pruned rows pointed at.                                      *)
Named(lost) == {SlugOf[t] : t \in {u \in lost : snapshot[u] = "added"}}

(* Every row whose tuple the pass did not observe goes; its slug, if it had   *)
(* one, is handed on. No tuple observed prunes nothing. An error may come     *)
(* before the statement, or while its answer is read.                         *)
PruneSnapshot ==
    /\ Visiting /\ pass.row = NoTuple /\ pass.todo = {}
    /\ LET lost == IF pass.keys = {} THEN {} ELSE Tuples \ pass.keys
           pruned == [t \in Tuples |-> IF t \in lost THEN "none" ELSE snapshot[t]]
       IN \/ /\ snapshot' = pruned
             /\ pass' = [pass EXCEPT !.at = "plans", !.gone = Named(lost)]
             /\ UNCHANGED <<stray, failures>>
          \/ /\ CanFail
             /\ pass' = [pass EXCEPT !.at = "plans"]
             /\ \/ UNCHANGED <<snapshot, stray>>
                \/ snapshot' = pruned /\ stray' = stray \cup Named(lost)
             /\ failures' = failures + 1
    /\ UNCHANGED <<cluster, monitor, incident, plans, ticking, triggers,
                   unclosed, changes>>

(* Prune of the materializer: a plan the pass did not confirm is dropped.     *)
DropPlans ==
    /\ pass.at = "plans" /\ pass.gone = {} /\ pass.told = NoSlug
    /\ plans' = plans \cap pass.slugs
    /\ pass' = Idle
    /\ UNCHANGED <<cluster, tables, incident, ticking, triggers, stray,
                   unclosed, bounds>>

-----------------------------------------------------------------------------
(* OnKubeMonitorRemoved.                                                     *)

Removed(s) == pass' = [pass EXCEPT !.told = NoSlug, !.view = FALSE]

(* An archived or unknown monitor is left alone; a failed lookup is logged    *)
(* and forgotten.                                                             *)
Lookup(s) ==
    /\ s \in pass.gone /\ pass.told = NoSlug
    /\ \/ /\ monitor[s] = "active"
          /\ pass' = [pass EXCEPT !.gone = @ \ {s}, !.told = s, !.view = ref[s]]
          /\ UNCHANGED <<stray, failures>>
       \/ /\ monitor[s] # "active"
          /\ pass' = [pass EXCEPT !.gone = @ \ {s}]
          /\ UNCHANGED <<stray, failures>>
       \/ /\ CanFail
          /\ pass' = [pass EXCEPT !.gone = @ \ {s}]
          /\ stray' = stray \cup {s}
          /\ failures' = failures + 1
    /\ UNCHANGED <<cluster, tables, incident, plans, ticking, triggers,
                   unclosed, changes>>

(* A failed soft-delete too, whether its statement was carried out or not: in *)
(* the first case the monitor is archived and its message is never edited. It *)
(* touches nothing but the archive columns: the row of a monitor that was     *)
(* down keeps its incident.                                                   *)
SoftDelete(s) ==
    LET archive == monitor' = [monitor EXCEPT ![s] = "archived"]
    IN  /\ pass.told = s /\ monitor[s] = "active"
        /\ \/ archive /\ UNCHANGED <<pass, stray, unclosed, failures>>
           \/ /\ CanFail
              /\ Removed(s)
              /\ \/ stray' = stray \cup {s} /\ UNCHANGED <<monitor, unclosed>>
                 \/ /\ archive /\ UNCHANGED stray
                    /\ unclosed' = IF pass.view THEN unclosed \cup {s} ELSE unclosed
              /\ failures' = failures + 1
        /\ UNCHANGED <<cluster, snapshot, incident, plans, ticking, triggers, changes>>

(* Mutant: the removal only posts its warning.                                *)
NotifyWarningOnly(s) ==
    /\ pass.told = s /\ monitor[s] = "archived"
    /\ Removed(s)
    /\ UNCHANGED <<cluster, tables, incident, plans, ticking, triggers,
                   stray, unclosed, bounds>>

(* If the row held the reference of its parent when it was looked up, the     *)
(* parent turns green, unless Slack refuses the edit, which is only logged. A *)
(* row whose channel is not registered is told to nobody.                     *)
NotifyRemoved(s) ==
    /\ pass.told = s /\ monitor[s] = "archived"
    /\ Removed(s)
    /\ \/ /\ s \notin homeless
          /\ thread' = IF pass.view THEN [thread EXCEPT ![s] = "green"] ELSE thread
          /\ UNCHANGED <<unclosed, failures>>
       \/ /\ s \in homeless
          /\ unclosed' = IF pass.view THEN unclosed \cup {s} ELSE unclosed
          /\ UNCHANGED <<thread, failures>>
       \/ /\ s \notin homeless /\ pass.view /\ CanFail
          /\ unclosed' = unclosed \cup {s}
          /\ failures' = failures + 1
          /\ UNCHANGED thread
    /\ UNCHANGED <<cluster, tables, down, ref, homeless, outages, plans, ticking,
                   triggers, stray, changes>>

-----------------------------------------------------------------------------
(* The scheduler, as far as it matters here: it follows the plans with a      *)
(* delay, and a tick neither asks nor learns whether its monitor is archived. *)

Refresh ==
    /\ ticking # plans
    /\ ticking' = plans
    /\ UNCHANGED <<cluster, tables, incident, plans, pass, triggers, stray,
                   unclosed, bounds>>

(* A monitor archived under its goroutine, or between the lookup of the       *)
(* removal and its edit, opens an incident that nothing will close. So does   *)
(* one whose parent is posted and its reference not stored.                   *)
Opens(s) ==
    /\ s \in ticking /\ ~down[s] /\ outages < MaxOutages
    /\ down' = [down EXCEPT ![s] = TRUE]
    /\ thread' = [thread EXCEPT ![s] = "red"]
    /\ outages' = outages + 1
    /\ \/ /\ ref' = [ref EXCEPT ![s] = TRUE]
          /\ unclosed' = IF monitor[s] = "archived" \/ pass.told = s THEN unclosed \cup {s}
                         ELSE unclosed \ {s}
          /\ UNCHANGED failures
       \/ /\ CanFail
          /\ ref' = [ref EXCEPT ![s] = FALSE]
          /\ unclosed' = unclosed \cup {s}
          /\ failures' = failures + 1
    /\ UNCHANGED <<cluster, tables, homeless, plans, ticking, pass, triggers, stray, changes>>

(* The recovery edits the parent the row knows of.                            *)
Recovers(s) ==
    /\ s \in ticking /\ down[s]
    /\ down' = [down EXCEPT ![s] = FALSE]
    /\ ref' = [ref EXCEPT ![s] = FALSE]
    /\ IF ref[s] THEN thread' = [thread EXCEPT ![s] = "green"] /\ unclosed' = unclosed \ {s}
                 ELSE UNCHANGED <<thread, unclosed>>
    /\ UNCHANGED <<cluster, tables, homeless, outages, plans, ticking, pass, triggers,
                   stray, bounds>>

-----------------------------------------------------------------------------
(* A crash loses plans, timers and the pass. Slugs already pruned but not yet *)
(* archived have lost the row that named them. The next life may have another *)
(* configuration: the channel a row names need not be in it. That matters only *)
(* to a row with a message, until the next ReconcileMonitor.                  *)
Crash ==
    /\ CanFail
    /\ failures' = failures + 1
    /\ pass' = Starting
    /\ plans' = {} /\ ticking' = {}
    /\ nudged' = FALSE /\ armed' = FALSE
    /\ homeless' \in SUBSET {s \in Slugs : ref[s]}
    /\ stray' = stray \cup {s \in pass.gone \cup {pass.told} : s # NoSlug /\ monitor[s] = "active"}
                      \cup (IF pass.row = NoTuple THEN {} ELSE Unrecorded(pass.row))
    /\ unclosed' = IF pass.view THEN unclosed \cup {pass.told} ELSE unclosed
    /\ UNCHANGED <<cluster, tables, down, thread, ref, outages, changes>>

Pass ==
    \/ \E t \in Tuples : Materialize(t)
    \/ UpsertSnapshot \/ PruneSnapshot \/ DropPlans
    \/ \E s \in Slugs : Lookup(s) \/ SoftDelete(s) \/ NotifyRemoved(s)

Next ==
    \/ \E t \in Tuples, o \in Outcomes : ClusterChanges(t, o)
    \/ Startup \/ Ticker \/ TakeNudge \/ Debounced
    \/ Pass
    \/ Refresh
    \/ \E s \in Slugs : Opens(s) \/ Recovers(s)
    \/ Crash

Spec == Init /\ [][Next]_vars

(* The goroutine of Run is never blocked for good, its ticker keeps firing,   *)
(* and a select with several ready arms picks each of them again and again.   *)
FairSpec ==
    /\ Spec
    /\ WF_vars(Startup) /\ SF_vars(Ticker) /\ SF_vars(TakeNudge)
    /\ SF_vars(Debounced) /\ WF_vars(Pass) /\ WF_vars(Refresh)

-----------------------------------------------------------------------------
(* Properties.                                                               *)

TypeOK ==
    /\ cluster \in [Tuples -> Outcomes]
    /\ snapshot \in [Tuples -> {"none", "bare", "added"}]
    /\ monitor \in [Slugs -> {"none", "active", "archived"}]
    /\ down \in [Slugs -> BOOLEAN]
    /\ thread \in [Slugs -> {"none", "red", "green"}]
    /\ ref \in [Slugs -> BOOLEAN] /\ homeless \subseteq Slugs
    /\ plans \subseteq Slugs /\ ticking \subseteq Slugs
    /\ stray \subseteq Slugs /\ unclosed \subseteq Slugs
    /\ pass.at \in {"idle", "startup", "hosts", "plans"}
    /\ pass.listed \in [Tuples -> Outcomes]
    /\ pass.todo \subseteq Tuples /\ pass.keys \subseteq Tuples
    /\ pass.slugs \subseteq Slugs /\ pass.gone \subseteq Slugs
    /\ pass.row \in Tuples \cup {NoTuple} /\ pass.told \in Slugs \cup {NoSlug}
    /\ pass.view \in BOOLEAN
    /\ nudged \in BOOLEAN /\ armed \in BOOLEAN

\* Only one host has the slug.
Own(s) == \A t, u \in Tuples : SlugOf[t] = s /\ SlugOf[u] = s => t = u

\* Nothing is lost to a blip. A pass archives a monitor only if the cluster it listed
\* has lost one of the hosts that materialize it: no failed listing, materialize or
\* upsert may look like a removal (kube.reconcile, observedKeys). Where two hosts
\* share a slug, the removal of one takes the monitor of both. And a plan goes only in a
\* crash or at the end of a pass that listed something: an error or an empty list leaves
\* every monitor scheduled (the empty-list guard, in front of Pruner.Prune).
StillThereSurvives ==
    [][/\ \A s \in Slugs :
            (monitor[s] = "active" /\ monitor'[s] = "archived")
              => \E t \in Tuples : SlugOf[t] = s /\ pass.listed[t] # "added"
       /\ \/ plans \subseteq plans' \/ Present(pass.listed) # {} \/ pass'.at = "startup"]_vars

\* Between passes a scheduled monitor is not archived, if its slug is that of one host
\* only; and an active one has a snapshot row whose prune would archive it, unless a
\* failure or a crash cut it off from its row (UpsertDiscoverySnapshot, the vacated slug,
\* the prune).
TablesAgree ==
    pass.at = "idle" =>
        /\ \A s \in plans : Own(s) => monitor[s] = "active"
        /\ \A s \in Slugs : monitor[s] = "active" /\ s \notin stray =>
               \E t \in Tuples : SlugOf[t] = s /\ snapshot[t] = "added"

\* Once the removal of a monitor is through, its message does not say that it is still
\* down. The exceptions are named: Slack refused the edit, the answer of the soft-delete
\* was lost, the process died before the edit, the reference of the message was never
\* stored, the row's channel is no longer configured, or a tick already under way opened
\* the incident afterwards (OnKubeMonitorRemoved, NotifyRemoved).
RemovedIsClosed ==
    \A s \in Slugs :
        monitor[s] = "archived" /\ pass.told # s /\ thread[s] = "red" => s \in unclosed

\* The table and the scheduler follow the cluster. An ingress host that stays gone, or
\* stays unmonitored, has its monitor archived in the end if anything at all is left in
\* the cluster, or was cut off from its row by a failure (the observed-set prune and the
\* vacated slug), unless another host has its slug. One that stays is scheduled from some
\* time on, whatever failed before (the resync ticker, RunDynamic's refresh).
ClusterIsFollowed ==
    \A t \in Tuples :
        /\ Own(SlugOf[t]) /\ <>[](cluster[t] # "added" /\ Present(cluster) # {})
              => <>[](monitor[SlugOf[t]] # "active" \/ SlugOf[t] \in stray)
        /\ <>[](cluster[t] = "added") => <>[](SlugOf[t] \in ticking)
=============================================================================
