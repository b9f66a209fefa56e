----------------------------- MODULE Dispatcher ------------------------------
(***************************************************************************)
(* internal/coalesce.Manager for one Slack channel, driven by the monitors *)
(* of that channel.  Three kinds of process interleave:                    *)
(*   - one tick goroutine per monitor, which probes, commits the outcome   *)
(*     to the monitor row, then routes the event through the Manager and,  *)
(*     outside the Manager's mutex, through the per-monitor notifier;      *)
(*   - the central evaluator, which expires the pending pool, flushes it   *)
(*     (outside the mutex) or promotes it to a group, and drives the group;*)
(*   - push-propagation, which pauses monitors whose parent went down.     *)
(* The process can crash between any two steps: the rows and the last      *)
(* saved group survive, everything else is lost.                           *)
(*                                                                         *)
(* Each action is one critical section of the mutex, one statement or      *)
(* transaction of the store, or one call of Slack.                         *)
(***************************************************************************)
EXTENDS Group, FiniteSets, Sequences

A == INSTANCE Alert

CONSTANTS
    PendingWait,       \* wait window of the pending pool
    BurstThreshold,    \* promote at or above this many monitors; 0 disables groups
    BurstWindow,       \* rolling window the burst count spans
    ReminderInterval,  \* per-monitor reminder cadence; 0 disables reminders
    Children,          \* the monitors that depend on a parent outside the channel
    SlackFails,        \* whether a Slack call may fail
    StoreFails,        \* whether a store call for groups or threads may fail
    MaxCrashes,        \* bound: the number of crashes
    LastProbe          \* bound: no probe starts after this time

\* New() floors the burst window at the pending wait.
ASSUME DispatcherAssumption ==
    /\ PendingWait \in Nat \ {0}
    /\ BurstWindow \in Nat /\ BurstWindow >= PendingWait
    /\ BurstThreshold \in Nat
    /\ ReminderInterval \in Nat
    /\ Children \subseteq Slugs
    /\ SlackFails \in BOOLEAN /\ StoreFails \in BOOLEAN
    /\ MaxCrashes \in Nat /\ LastProbe \in Time
    /\ IsFiniteSet(Slugs)

VARIABLES
    now,         \* the wall clock
    due,         \* monitors whose ticker has not fired in this time unit
    row,         \* the monitors table
    tick,        \* per monitor, its tick goroutine
    mode,        \* channelState.mode
    pool,        \* channelState.pending: slug -> enteredAt, NoTime if not a key
    pendingDue,  \* channelState.pendingDue
    downAt,      \* channelState.down: slug -> time, NoTime if not a key
    indiv,       \* channelState.individual
    ev,          \* the evaluator goroutine
    live,        \* Manager.groups[channel]
    saved,       \* the open row of incident_groups, with its members
    msgs,        \* Slack: per monitor, the colours of its parent messages
    claimed,     \* history: the life of the process in which the notifier claimed
                 \* the open incident of a monitor, NoTime if it did not
    crashes      \* number of crashes so far, which numbers the process's lives

chan == <<mode, pool, pendingDue, downAt, indiv>>
vars == <<now, due, row, tick, chan, ev, live, saved, msgs, claimed, crashes>>

NoTime == A!NoTime

-----------------------------------------------------------------------------
(* State. *)

\* event, at and ts are the event being dispatched, its time and the message
\* reference of the row as it was read; next is the state to be committed.
TickIdle == [pc |-> "idle", event |-> "none", at |-> 0, ts |-> 0, next |-> A!State(A!NewRow)]

\* A live group; ts says whether DigestTS is set.
NoLive == [open |-> FALSE, ts |-> FALSE, g |-> NewGroup(0)]

NoPool == [s \in Slugs |-> NoTime]

\* todo holds the pool entries still to be flushed; cur the one whose message
\* ts has been posted and is about to be stored.
EvIdle == [pc |-> "idle", at |-> 0, todo |-> NoPool, cur |-> {}, ts |-> 0]

Members(f) == {s \in Slugs : f[s] # NoTime}

\* The evaluator holds m.mu while it posts the digest and saves the group.
Locked == ev.pc \in {"open", "savePromoted", "saveEvaluated"}

Init ==
    /\ now = 0
    /\ due = Slugs
    /\ row = [s \in Slugs |-> A!NewRow]
    /\ tick = [s \in Slugs |-> TickIdle]
    /\ mode = "individual" /\ pool = NoPool /\ pendingDue = 0
    /\ downAt = NoPool /\ indiv = {}
    /\ ev = EvIdle
    /\ live = NoLive /\ saved = NoLive
    /\ msgs = [s \in Slugs |-> <<>>]
    /\ claimed = [s \in Slugs |-> NoTime]
    /\ crashes = 0

\* A clock unit passes; every monitor's ticker fires once more.
Tick ==
    /\ now < MaxTime
    /\ now' = now + 1
    /\ due' = Slugs
    /\ UNCHANGED <<row, tick, chan, ev, live, saved, msgs, claimed, crashes>>

-----------------------------------------------------------------------------
(* Slack and the monitor rows. *)

SlackOK == IF SlackFails THEN BOOLEAN ELSE {TRUE}

StoreOK == IF StoreFails THEN BOOLEAN ELSE {TRUE}

\* A parent message is red until its resolve edit turns it green.  "orphan" is
\* history: a red message that the resolve of its incident does not address,
\* because the row was read before the reference was stored.
Colour == {"red", "orphan", "green"}

\* The red messages of s that the resolving tick does not know of.
Orphan(s) ==
    [i \in DOMAIN msgs[s] |->
        IF msgs[s][i] = "red" /\ i # tick[s].ts THEN "orphan" ELSE msgs[s][i]]

PostParent(s, colour) == msgs' = [msgs EXCEPT ![s] = Append(@, colour)]

\* Repo.SetUptimeThread; its error is only logged.
SetUptimeThread(s, ts) ==
    \E ok \in StoreOK : row' = IF ok THEN [row EXCEPT ![s].thread = ts] ELSE row

-----------------------------------------------------------------------------
(* The tick goroutine of a monitor. *)

\* scheduler.Tick: the probe has an outcome; read the row, resume it, Apply.
Probe(s, ok) ==
    /\ s \in due /\ now <= LastProbe /\ tick[s].pc = "idle"
    /\ LET r == A!Resume(row[s])
           a == A!Apply(A!State(r), ok, now, ReminderInterval)
       IN  tick' = [tick EXCEPT ![s] = [pc |-> "commit", event |-> a.event, at |-> now,
                                        ts |-> r.thread, next |-> a.next]]
    /\ due' = due \ {s}
    /\ UNCHANGED <<now, row, chan, ev, live, saved, msgs, claimed, crashes>>

\* An event is routed with the row as it was read.
ToRoute(t) ==
    IF t.event = "none" THEN TickIdle
    ELSE [t EXCEPT !.pc = "route", !.next = TickIdle.next]

\* Repo.ApplyCheck.  What was written to the row since it was read is
\* overwritten.
Commit(s) ==
    /\ tick[s].pc = "commit"
    /\ row' = [row EXCEPT ![s] = A!ApplyCheck(@, tick[s].next, tick[s].event)]
    /\ tick' = [tick EXCEPT ![s] = ToRoute(@)]
    /\ IF tick[s].event = "resolve"
       THEN /\ msgs' = [msgs EXCEPT ![s] = Orphan(s)]
            /\ claimed' = [claimed EXCEPT ![s] = NoTime]
       ELSE UNCHANGED <<msgs, claimed>>
    /\ UNCHANGED <<now, due, chan, ev, live, saved, crashes>>

\* channelStateFor: a channel with a live group is in group mode.
Mode == IF live.open THEN "group" ELSE mode

PostedDigestOwns(s) ==                    \* mutant: an unposted digest owns nothing
    live.open /\ live.ts /\ live.g.members[s].state # "absent"

DigestOwns(s) == live.open /\ live.g.members[s].state # "absent"

ForgetDownReleases(s) ==                  \* mutant: clearDown instead
    /\ downAt' = [downAt EXCEPT ![s] = NoTime]
    /\ indiv' = indiv \ {s}

\* forgetDown: s leaves the burst count; the notifier keeps its claim.
ForgetDown(s) ==
    /\ downAt' = [downAt EXCEPT ![s] = NoTime]
    /\ UNCHANGED indiv

\* clearDown: the incident of s ended.
ClearDown(s) ==
    /\ downAt' = [downAt EXCEPT ![s] = NoTime]
    /\ indiv' = indiv \ {s}

\* takeIndividual for every slug of S.
TakeIndividual(S) == indiv \cup S

Deadline(t) == t + PendingWait

Routing(s, event) ==
    /\ ~Locked
    /\ tick[s].pc = "route" /\ tick[s].event = event

Return(s) == tick' = [tick EXCEPT ![s] = TickIdle]

FlushSink(s) == tick' = [tick EXCEPT ![s].pc = "notify"]

DropPool(s) ==                            \* mutant: the others are dropped too
    /\ pool' = NoPool
    /\ mode' = "individual" /\ pendingDue' = 0

\* The pool without s; an emptied pool retires the pending state.
DropFromPool(s) ==
    /\ pool' = [pool EXCEPT ![s] = NoTime]
    /\ IF Members(pool) \subseteq {s}
       THEN mode' = "individual" /\ pendingDue' = 0
       ELSE mode' = mode /\ pendingDue' = pendingDue

Born(t) == [open |-> TRUE, ts |-> FALSE, g |-> NewGroup(t)]

\* ensureGroupLocked: the live group, else the persisted open one, else a new
\* one; no group at all when the store fails (creating a second open group for
\* the channel is refused by the partial unique index).
EnsureGroup(t) ==
    IF live.open THEN {[live |-> live, saved |-> saved]}
    ELSE {IF saved.open THEN [live |-> saved, saved |-> saved]
                        ELSE [live |-> Born(t), saved |-> Born(t)]}
         \cup (IF StoreFails THEN {[live |-> NoLive, saved |-> saved]} ELSE {})

\* lg.g.MarkDown for every slug of S, if there is a group.
MarkAllDown(l, S) ==
    IF ~l.open THEN l
    ELSE [l EXCEPT !.g.members =
            [s \in Slugs |-> IF s \in S THEN MarkDown(l.g, s, 0).members[s]
                                        ELSE l.g.members[s]]]

RouteOpen(s) ==
    /\ Routing(s, "open")
    /\ downAt' = [downAt EXCEPT ![s] = tick[s].at]
    /\ \/ /\ Mode = "group"
          /\ \E e \in EnsureGroup(tick[s].at) :
                /\ live' = MarkAllDown(e.live, {s})
                /\ saved' = e.saved
          /\ mode' = "group" /\ UNCHANGED <<pool, pendingDue>>
       \/ /\ Mode = "individual"
          /\ mode' = "pending"
          /\ pool' = [NoPool EXCEPT ![s] = tick[s].at]
          /\ pendingDue' = Deadline(tick[s].at)
          /\ UNCHANGED <<live, saved>>
       \/ /\ Mode = "pending"
          /\ pool' = [pool EXCEPT ![s] = tick[s].at]
          /\ UNCHANGED <<mode, pendingDue, live, saved>>
    /\ Return(s)
    /\ UNCHANGED <<now, due, row, indiv, ev, msgs, claimed, crashes>>

RouteResolve(s) ==
    /\ Routing(s, "resolve")
    /\ ClearDown(s)
    /\ \/ /\ s \in indiv \/ Mode = "individual" \/ (Mode = "group" /\ ~DigestOwns(s))
          /\ FlushSink(s)
          /\ mode' = Mode /\ UNCHANGED <<pool, pendingDue, live>>
       \/ /\ s \notin indiv /\ Mode = "group" /\ DigestOwns(s)
          /\ live' = [live EXCEPT !.g = MarkUp(live.g, s, tick[s].at)]
          /\ Return(s)
          /\ mode' = Mode /\ UNCHANGED <<pool, pendingDue>>
       \/ /\ s \notin indiv /\ Mode = "pending"
          /\ DropFromPool(s)
          /\ Return(s)
          /\ UNCHANGED live
    /\ UNCHANGED <<now, due, row, ev, saved, msgs, claimed, crashes>>

RouteReminder(s) ==
    /\ Routing(s, "reminder")
    /\ IF s \in indiv \/ Mode = "individual" \/ (Mode = "group" /\ ~DigestOwns(s))
       THEN FlushSink(s) ELSE Return(s)
    /\ mode' = Mode
    /\ UNCHANGED <<now, due, row, pool, pendingDue, downAt, indiv, ev, live, saved,
                   msgs, claimed, crashes>>

\* Notifier.notifyResolve.  Without a reference a standalone message goes out,
\* which no later step looks at.
NotifyResolve(s) ==
    /\ tick[s].pc = "notify" /\ tick[s].event = "resolve"
    /\ \E ok \in SlackOK :
          msgs' = IF ok /\ tick[s].ts # 0
                  THEN [msgs EXCEPT ![s][tick[s].ts] = "green"] ELSE msgs
    /\ Return(s)
    /\ UNCHANGED <<now, due, row, chan, ev, live, saved, claimed, crashes>>

\* Notifier.notifyReminder: a thread reply, or a fresh parent when the row has
\* no reference.
NotifyReminder(s) ==
    /\ tick[s].pc = "notify" /\ tick[s].event = "reminder"
    /\ \/ /\ tick[s].ts = 0
          /\ PostParent(s, "red")
          /\ tick' = [tick EXCEPT ![s].pc = "thread", ![s].ts = Len(msgs[s]) + 1]
       \/ /\ tick[s].ts # 0 \/ SlackFails
          /\ Return(s)
          /\ UNCHANGED msgs
    /\ UNCHANGED <<now, due, row, chan, ev, live, saved, claimed, crashes>>

StoreFreshParent(s) ==
    /\ tick[s].pc = "thread"
    /\ SetUptimeThread(s, tick[s].ts)
    /\ Return(s)
    /\ UNCHANGED <<now, due, chan, ev, live, saved, msgs, claimed, crashes>>

-----------------------------------------------------------------------------
(* Push-propagation: the parent of s is down.  The two steps come from the  *)
(* parent's goroutine or the evaluator's on-demand probe (row first), or    *)
(* from the child's own tick (channel first); either may be missing, when   *)
(* the store fails.                                                         *)

PauseRow(s) ==
    /\ s \in Children /\ now <= LastProbe
    /\ row' = [row EXCEPT ![s] = A!MarkTemporaryPaused(@)]
    /\ UNCHANGED <<now, due, tick, chan, ev, live, saved, msgs, claimed, crashes>>

\* Manager.Pause.  indiv keeps s: its message still has to be edited.
Pause(s) ==
    /\ ~Locked
    /\ s \in Children /\ now <= LastProbe
    /\ ForgetDown(s)
    /\ \/ /\ Mode = "group"
          /\ live' = IF live.open THEN [live EXCEPT !.g = MarkPaused(live.g, s, now)]
                                  ELSE live
          /\ mode' = "group" /\ UNCHANGED <<pool, pendingDue>>
       \/ /\ Mode = "pending"
          /\ DropFromPool(s)
          /\ UNCHANGED live
       \/ /\ Mode = "individual"
          /\ UNCHANGED <<mode, pool, pendingDue, live>>
    /\ UNCHANGED <<now, due, row, tick, ev, saved, msgs, claimed, crashes>>

-----------------------------------------------------------------------------
(* The evaluator: evaluateAll reads the clock once, expires the pool, then  *)
(* evaluates the group.                                                      *)

StartPass ==
    /\ ev.pc = "idle"
    /\ ev' = [EvIdle EXCEPT !.pc = "pending", !.at = now]
    /\ UNCHANGED <<now, due, row, tick, chan, live, saved, msgs, claimed, crashes>>

\* hotParents: the parent of the Children is outside the pool, so it is worth a
\* probe when two of them are in it.
HotParent == Cardinality(Members(pool) \cap Children) >= 2

Expired == mode = "pending" /\ ev.at >= pendingDue

SkipPending ==
    /\ ev.pc = "pending" /\ ~Expired
    /\ ev' = [ev EXCEPT !.pc = "groups"]
    /\ UNCHANGED <<now, due, row, tick, chan, live, saved, msgs, claimed, crashes>>

\* The mutex is released while the parent is probed; Pause is what the probe
\* does when the parent is down.
StartParentProbe ==
    /\ ev.pc = "pending" /\ Expired /\ HotParent
    /\ ev' = [ev EXCEPT !.pc = "probing"]
    /\ UNCHANGED <<now, due, row, tick, chan, live, saved, msgs, claimed, crashes>>

\* The pool was drained or promoted meanwhile.
AbandonPool ==
    /\ ev.pc = "probing" /\ mode # "pending"
    /\ ev' = [ev EXCEPT !.pc = "groups"]
    /\ UNCHANGED <<now, due, row, tick, chan, live, saved, msgs, claimed, crashes>>

\* The pool is decided now, either at once or when the parent has been probed.
Deciding ==
    \/ ev.pc = "pending" /\ Expired /\ ~HotParent
    \/ ev.pc = "probing" /\ mode = "pending"

PruneDownEarly(t) ==                      \* mutant: off by one
    [s \in Slugs |-> IF downAt[s] # NoTime /\ t - downAt[s] >= BurstWindow - 1
                     THEN NoTime ELSE downAt[s]]

PruneDown(t) ==
    [s \in Slugs |-> IF downAt[s] # NoTime /\ t - downAt[s] >= BurstWindow
                     THEN NoTime ELSE downAt[s]]

Burst(down) == Cardinality(Members(down) \cup Members(pool))

IsNearlyBurst(down) ==                    \* mutant: off by one
    BurstThreshold > 0 /\ Burst(down) + 1 >= BurstThreshold

IsBurst(down) == BurstThreshold > 0 /\ Burst(down) >= BurstThreshold

\* The earliest entry of the pool, or now: the birth of the group.
Earliest(t) ==
    /\ t = ev.at \/ \E s \in Members(pool) : t = pool[s]
    /\ t <= ev.at
    /\ \A s \in Members(pool) : t <= pool[s]

LeaveKeepingPool(m) ==                    \* mutant: the pool is not cleared
    /\ mode' = m
    /\ pendingDue' = 0
    /\ UNCHANGED pool

LeaveKeepingMode(m) ==                    \* mutant: the mode is not reset
    /\ pool' = NoPool
    /\ pendingDue' = 0
    /\ UNCHANGED mode

LeavePending(m) ==
    /\ mode' = m
    /\ pool' = NoPool
    /\ pendingDue' = 0

\* Promotion: every pool member goes down in the group.
PromotePool ==
    /\ Deciding
    /\ downAt' = PruneDown(ev.at)
    /\ IsBurst(downAt')
    /\ \E t \in Time : Earliest(t) /\ \E e \in EnsureGroup(t) :
          /\ live' = MarkAllDown(e.live, Members(pool))
          /\ saved' = e.saved
          /\ ev' = [ev EXCEPT !.pc = IF e.live.open THEN "open" ELSE "groups"]
    /\ LeavePending("group")
    /\ UNCHANGED <<now, due, row, tick, indiv, msgs, claimed, crashes>>

\* What dispatch does to DigestTS: every action except a discard posts the
\* digest if it has not been posted yet.
Posted(l, kinds, ok) ==
    l.ts \/ (ok /\ kinds \cap {"post_digest", "update", "remind", "close"} # {})

\* Group.Open and the post of the digest.
OpenDigest ==
    /\ ev.pc = "open"
    /\ \E ok \in SlackOK :
          LET r == Open(live.g, ev.at)
          IN  /\ live' = [live EXCEPT !.g = r.group, !.ts = Posted(live, r.kinds, ok)]
              /\ ev' = [ev EXCEPT !.pc = IF r.kinds = {} THEN "groups" ELSE "savePromoted"]
    /\ UNCHANGED <<now, due, row, tick, chan, saved, msgs, claimed, crashes>>

\* SaveIncidentGroup: a closed group is no longer found by the open-group
\* queries.  A failed save is only logged.
Save ==
    \E ok \in StoreOK :
        saved' = IF ~ok THEN saved ELSE IF live.g.closed THEN NoLive ELSE live

SavePromoted ==
    /\ ev.pc = "savePromoted"
    /\ Save
    /\ ev' = [ev EXCEPT !.pc = "groups"]
    /\ UNCHANGED <<now, due, row, tick, chan, live, msgs, claimed, crashes>>

\* Below the threshold: the per-monitor notifier takes every entry, and the
\* entries are flushed with the mutex released.
FlushPool ==
    /\ Deciding
    /\ downAt' = PruneDown(ev.at)
    /\ ~IsBurst(downAt')
    /\ indiv' = TakeIndividual(Members(pool))
    /\ ev' = [ev EXCEPT !.pc = "flush", !.todo = pool]
    /\ claimed' = [s \in Slugs |-> IF pool[s] # NoTime /\ row[s].openedAt = pool[s]
                                   THEN crashes ELSE claimed[s]]
    /\ LeavePending("individual")
    /\ UNCHANGED <<now, due, row, tick, live, saved, msgs, crashes>>

\* Notifier.notifyOpen for one entry, in any order (a Go map is ranged over).
\* The message is an orphan when its incident is already over.
FlushOpen(s) ==
    /\ ev.pc = "flush" /\ ev.todo[s] # NoTime
    /\ \/ /\ PostParent(s, IF row[s].openedAt = ev.todo[s] THEN "red" ELSE "orphan")
          /\ ev' = [ev EXCEPT !.pc = "thread", !.todo[s] = NoTime,
                              !.cur = {s}, !.ts = Len(msgs[s]) + 1]
       \/ /\ SlackFails
          /\ ev' = [ev EXCEPT !.todo[s] = NoTime]
          /\ UNCHANGED msgs
    /\ UNCHANGED <<now, due, row, tick, chan, live, saved, claimed, crashes>>

StoreOpenThread(s) ==
    /\ ev.pc = "thread" /\ s \in ev.cur
    /\ SetUptimeThread(s, ev.ts)
    /\ ev' = [ev EXCEPT !.pc = "flush", !.cur = {}, !.ts = 0]
    /\ UNCHANGED <<now, due, tick, chan, live, saved, msgs, claimed, crashes>>

FlushDone ==
    /\ ev.pc = "flush" /\ Members(ev.todo) = {}
    /\ ev' = [ev EXCEPT !.pc = "groups"]
    /\ UNCHANGED <<now, due, row, tick, chan, live, saved, msgs, claimed, crashes>>

NoGroup ==
    /\ ev.pc = "groups" /\ ~live.open
    /\ ev' = EvIdle
    /\ UNCHANGED <<now, due, row, tick, chan, live, saved, msgs, claimed, crashes>>

\* Group.Evaluate and the Slack calls of dispatch.
EvaluateGroup ==
    /\ ev.pc = "groups" /\ live.open
    /\ \E ok \in SlackOK :
          LET r == Evaluate(live.g, ev.at)
          IN  live' = [live EXCEPT !.g = r.group, !.ts = Posted(live, r.kinds, ok)]
    /\ ev' = [ev EXCEPT !.pc = "saveEvaluated"]
    /\ UNCHANGED <<now, due, row, tick, chan, saved, msgs, claimed, crashes>>

\* retireGroupChannel: the digest accounted for its members; what the notifier
\* owns keeps its place in the burst count.
RetireGroup ==
    /\ live' = NoLive
    /\ LeavePending("individual")
    /\ downAt' = [s \in Slugs |-> IF s \in indiv THEN downAt[s] ELSE NoTime]

\* The save after Evaluate; dispatch asked for the group's retirement exactly
\* when Evaluate closed it.
SaveEvaluated ==
    /\ ev.pc = "saveEvaluated"
    /\ Save
    /\ IF live.g.closed THEN RetireGroup ELSE UNCHANGED <<live, mode, pool, pendingDue, downAt>>
    /\ ev' = EvIdle
    /\ UNCHANGED <<now, due, row, tick, indiv, msgs, claimed, crashes>>

-----------------------------------------------------------------------------
(* A crash and the restart after it.  Reattach reloads the open group; if    *)
(* the store fails it is found later, by ensureGroupLocked.                  *)

CrashRestart ==
    /\ crashes < MaxCrashes
    /\ crashes' = crashes + 1
    /\ tick' = [s \in Slugs |-> TickIdle]
    /\ mode' = "individual" /\ pool' = NoPool /\ pendingDue' = 0
    /\ downAt' = NoPool /\ indiv' = {}
    /\ ev' = EvIdle
    /\ live' \in {saved} \cup (IF StoreFails THEN {NoLive} ELSE {})
    /\ UNCHANGED <<now, due, row, saved, msgs, claimed>>

-----------------------------------------------------------------------------

Route(s) == RouteOpen(s) \/ RouteResolve(s) \/ RouteReminder(s)

Notify(s) == NotifyResolve(s) \/ NotifyReminder(s) \/ StoreFreshParent(s)

EvaluateAll ==
    \/ StartPass \/ SkipPending \/ StartParentProbe \/ AbandonPool
    \/ PromotePool \/ OpenDigest \/ SavePromoted
    \/ FlushPool \/ FlushDone
    \/ \E s \in Slugs : FlushOpen(s) \/ StoreOpenThread(s)
    \/ NoGroup \/ EvaluateGroup \/ SaveEvaluated

Next ==
    \/ Tick
    \/ \E s \in Slugs : (\E ok \in BOOLEAN : Probe(s, ok)) \/ Commit(s)
    \/ \E s \in Slugs : Route(s) \/ Notify(s) \/ PauseRow(s) \/ Pause(s)
    \/ EvaluateAll
    \/ CrashRestart

Spec == Init /\ [][Next]_vars

\* The clock advances, the evaluator's ticker keeps firing, and a tick
\* goroutine that has an event keeps running: strong fairness for Route,
\* because the evaluator takes the mutex again and again and a Go mutex does
\* not starve a waiter.  No monitor has to be probed.
FairSpec ==
    /\ Spec
    /\ WF_vars(Tick)
    /\ WF_vars(EvaluateAll)
    /\ \A s \in Slugs : WF_vars(Commit(s)) /\ SF_vars(Route(s)) /\ WF_vars(Notify(s))

-----------------------------------------------------------------------------
(* Properties. *)

TimeOrNone == Time \cup {NoTime}

Live == [open : BOOLEAN, ts : BOOLEAN, g : GroupRec]

StateType == [status : A!Status, openedAt : TimeOrNone, remindedAt : TimeOrNone]

RowType == [status : A!Status, openedAt : TimeOrNone, remindedAt : TimeOrNone, thread : Nat]

TickType == [pc : {"idle", "commit", "route", "notify", "thread"},
             event : A!EventType, at : Time, ts : Nat, next : StateType]

EvType == [pc : {"idle", "pending", "probing", "open", "savePromoted", "flush",
                 "thread", "groups", "saveEvaluated"},
           at : Time, todo : [Slugs -> TimeOrNone], cur : SUBSET Slugs, ts : Nat]

\* The types; pendingDue may lie past the clock's bound.
TypeOK ==
    /\ now \in Time /\ due \subseteq Slugs
    /\ row \in [Slugs -> RowType]
    /\ tick \in [Slugs -> TickType]
    /\ mode \in {"individual", "pending", "group"}
    /\ pool \in [Slugs -> TimeOrNone]
    /\ pendingDue \in Nat
    /\ downAt \in [Slugs -> TimeOrNone]
    /\ indiv \subseteq Slugs
    /\ ev \in EvType
    /\ live \in Live /\ saved \in Live
    /\ msgs \in [Slugs -> Seq(Colour)]
    /\ claimed \in [Slugs -> Nat \cup {NoTime}]
    /\ crashes \in Nat

\* Two owners never share an incident: a monitor whose incident the notifier
\* owns is neither waiting in the pool nor active in the digest.  (Were it
\* active in the digest, its recovery would go to the notifier and the digest
\* would never close.)
ExclusiveOwner ==
    \A s \in indiv :
        /\ pool[s] = NoTime
        /\ live.open => live.g.members[s].state \notin {"down", "recovering"}

\* The dispatcher has a record of every open incident it has been told of.
Accounted(s) ==
    \/ pool[s] # NoTime
    \/ s \in indiv
    \/ live.open /\ live.g.members[s].state = "down"

\* No incident falls between the modes: a monitor whose row is down, and whose
\* open has been routed, is in the pool, with the notifier or down in the
\* digest.  Children are excepted: a pause drops them by design.
EveryDownAccounted ==
    \A s \in Slugs \ Children :
        row[s].status = "down" /\ tick[s].pc # "route" => Accounted(s)

\* The monitors of incidents that are still open and began within BurstWindow,
\* which life n of the process handed to the per-monitor notifier.
ClaimedRecently(n) ==
    {s \in Slugs \ Children : claimed[s] = n /\ now - row[s].openedAt < BurstWindow}

\* The burst cap of the package comment, life by life: the dispatch state is
\* in memory only, so a restart begins a new count.  No life of the process,
\* the present one or an earlier one, has claimed as many as BurstThreshold of
\* the incidents that began within BurstWindow and are still open; across k
\* restarts within one window that is at most k + 1 times BurstThreshold - 1.
BurstCap ==
    BurstThreshold > 0 =>
        \A n \in 0..crashes : Cardinality(ClaimedRecently(n)) < BurstThreshold

\* The converse: the channel is promoted only when at least BurstThreshold
\* monitors are down, counting those whose recovery is still on its way to the
\* dispatcher.
PromotionWarranted ==
    [][PromotePool =>
        Cardinality({s \in Slugs : row[s].openedAt # NoTime \/ tick[s].event = "resolve"})
            >= BurstThreshold]_vars

\* A parent message that the row refers to when the recovering tick reads it
\* gets its resolve edit, whatever mode the channel is in.
ResolveEdited ==
    \A s \in Slugs :
        row[s].status = "up" /\ tick[s].pc = "idle"
            => \A i \in DOMAIN msgs[s] : msgs[s][i] # "red"

\* A pool never waits forever.
PoolDrains == mode = "pending" ~> mode # "pending"

\* Once every monitor is up for good the digest closes.
DigestCloses ==
    <>[](\A s \in Slugs : row[s].status = "up") => <>[]~live.open
=============================================================================
