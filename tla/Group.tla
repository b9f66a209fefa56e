-------------------------------- MODULE Group --------------------------------
(***************************************************************************)
(* The alert-coalescing state machine of internal/group: one Group is the  *)
(* living incident of one Slack channel.  Everything here is a pure        *)
(* operator on a group record, so the module that drives a single group    *)
(* (GroupMachine) and the one that embeds it (Dispatcher) share it.        *)
(*                                                                         *)
(* Times are integers read from the injected clock.  Of a Member the model *)
(* keeps what decides behaviour: State, UpSince and Rendered.  JoinedAt,   *)
(* DownSince and ChangedAt are only displayed.                             *)
(***************************************************************************)
EXTENDS Integers

CONSTANTS
    Slugs,             \* the monitors that can become members
    GroupWait,         \* collect window before the first digest
    GroupInterval,     \* delta heartbeat
    RepeatInterval,    \* still-down reminder cadence
    ResolveDebounce,   \* time a member stays up before it renders recovered
    MaxTime            \* bound: the last value of the clock

\* withDefaults replaces every interval that is not positive, so the
\* intervals a Group runs with are positive.
ASSUME ConfigAssumption ==
    /\ GroupWait \in Nat \ {0}
    /\ GroupInterval \in Nat \ {0}
    /\ RepeatInterval \in Nat \ {0}
    /\ ResolveDebounce \in Nat \ {0}
    /\ MaxTime \in Nat

Time == 0..MaxTime

-----------------------------------------------------------------------------
(* State.  "absent" is a slug that is no key of Group.Members. *)

MemberState == {"absent", "down", "recovering", "recovered", "paused"}

Render == {"none", "active", "recovered", "paused"}

Member == [state : MemberState, upSince : Time, rendered : Render]

GroupRec == [openedAt : Time, posted : BOOLEAN, closed : BOOLEAN,
             lastFlushAt : Time, lastReminderAt : Time,
             members : [Slugs -> Member]]

\* How a member appears in the digest: a recovering member is still shown
\* as down until resolveDebounce confirms it.
RenderClass(st) ==
    CASE st \in {"down", "recovering"} -> "active"
      [] st = "recovered" -> "recovered"
      [] st = "paused" -> "paused"
      [] st = "absent" -> "none"

InState(g, st) == {s \in Slugs : g.members[s].state = st}

Classes(g) == [s \in Slugs |-> RenderClass(g.members[s].state)]

NewGroup(t) ==
    [openedAt |-> t, posted |-> FALSE, closed |-> FALSE,
     lastFlushAt |-> 0, lastReminderAt |-> 0,
     members |-> [s \in Slugs |->
                    [state |-> "absent", upSince |-> 0, rendered |-> "none"]]]

-----------------------------------------------------------------------------
(* The three staging calls. *)

MarkDownKeepsRecovering(g, s, t) ==      \* mutant: a flap is ignored
    IF g.members[s].state \in {"down", "recovering"} THEN g
    ELSE [g EXCEPT !.members[s] = [@ EXCEPT !.state = "down", !.upSince = 0]]

\* A new slug joins; a recovering, recovered or paused member goes back to
\* down.  UpSince is cleared.
MarkDown(g, s, t) ==
    IF g.members[s].state = "down" THEN g
    ELSE [g EXCEPT !.members[s] = [@ EXCEPT !.state = "down", !.upSince = 0]]

\* Only a member that is down starts to recover.
MarkUp(g, s, t) ==
    IF g.members[s].state # "down" THEN g
    ELSE [g EXCEPT !.members[s] = [@ EXCEPT !.state = "recovering", !.upSince = t]]

MarkPaused(g, s, t) ==
    IF g.members[s].state \in {"absent", "paused"} THEN g
    ELSE [g EXCEPT !.members[s].state = "paused"]

-----------------------------------------------------------------------------
(* Rendering. *)

CommitRender(g) ==
    [g EXCEPT !.members =
        [s \in Slugs |->
            [g.members[s] EXCEPT !.rendered = RenderClass(g.members[s].state)]]]

\* The members whose class changed since the last flush, by bucket.  A member
\* that joined (or left a pause) and recovered between two flushes falls in
\* no bucket.
DeltaFlapsAsNew(g) ==                     \* mutant: previous class not looked at
    LET cur(s)  == RenderClass(g.members[s].state)
        prev(s) == g.members[s].rendered
    IN  [newlyDown |-> {s \in Slugs : cur(s) = "active"},
         recovered |-> {s \in Slugs : cur(s) = "recovered" /\ prev(s) = "active"},
         flapped   |-> {s \in Slugs : cur(s) = "active" /\ prev(s) = "recovered"},
         paused    |-> {s \in Slugs : cur(s) = "paused" /\ prev(s) # "paused"}]

Delta(g) ==
    LET cur(s)  == RenderClass(g.members[s].state)
        prev(s) == g.members[s].rendered
    IN  [newlyDown |-> {s \in Slugs : cur(s) = "active" /\ prev(s) \in {"none", "paused"}},
         recovered |-> {s \in Slugs : cur(s) = "recovered" /\ prev(s) = "active"},
         flapped   |-> {s \in Slugs : cur(s) = "active" /\ prev(s) = "recovered"},
         paused    |-> {s \in Slugs : cur(s) = "paused" /\ prev(s) # "paused"}]

NoDelta == [newlyDown |-> {}, recovered |-> {}, flapped |-> {}, paused |-> {}]

-----------------------------------------------------------------------------
(* Open and Evaluate return the next group, the kinds of the Slack actions *)
(* to perform ("post_digest", "update", "remind", "close", "discard") and   *)
(* their delta.  At most two come together, "update" and then "remind", so  *)
(* a set of kinds keeps their order.                                        *)

Result(g, kinds, d) == [group |-> g, kinds |-> kinds, delta |-> d]

Posting(g, t) ==
    CommitRender([g EXCEPT !.posted = TRUE, !.lastFlushAt = t, !.lastReminderAt = t])

\* The dispatcher already waited in its pending pool, so Open skips groupWait.
Open(g, t) ==
    IF g.posted \/ g.closed THEN Result(g, {}, NoDelta)
    ELSE Result(Posting(g, t), {"post_digest"}, NoDelta)

\* Resolve-debounce: a member up for ResolveDebounce becomes recovered.
Promote(g, t) ==
    [g EXCEPT !.members =
        [s \in Slugs |->
            IF /\ g.members[s].state = "recovering"
               /\ t >= g.members[s].upSince + ResolveDebounce
            THEN [g.members[s] EXCEPT !.state = "recovered"]
            ELSE g.members[s]]]

EvaluateUnposted(g, t) ==
    IF t < g.openedAt + GroupWait THEN Result(g, {}, NoDelta)
    ELSE IF InState(g, "down") = {}
         THEN Result([g EXCEPT !.closed = TRUE], {"discard"}, NoDelta)
         ELSE Result(Posting(g, t), {"post_digest"}, NoDelta)

HeartbeatOverdue(g, t) ==                 \* mutant: off by one
    t > g.lastFlushAt + GroupInterval

HeartbeatDue(g, t) == t >= g.lastFlushAt + GroupInterval

ReminderDue(g, t) ==
    InState(g, "down") # {} /\ t >= g.lastReminderAt + RepeatInterval

Flush(g, t) == [CommitRender(g) EXCEPT !.lastFlushAt = t]

FlushAll(g, t, kinds) ==
    LET flushed  == IF HeartbeatDue(g, t) THEN Flush(g, t) ELSE g
    IN  IF "remind" \in kinds THEN [flushed EXCEPT !.lastReminderAt = t] ELSE flushed

CloseOnNoneDown(g) ==                     \* mutant: recovering members ignored
    InState(g, "down") = {}

\* Nothing is down and nothing is waiting out its debounce.
NothingActive(g) == InState(g, "down") = {} /\ InState(g, "recovering") = {}

EvaluatePosted(g, t) ==
    IF NothingActive(g)
    THEN Result(CommitRender([g EXCEPT !.closed = TRUE]), {"close"}, Delta(g))
    ELSE LET d     == IF HeartbeatDue(g, t) THEN Delta(g) ELSE NoDelta
             kinds == (IF d # NoDelta THEN {"update"} ELSE {})
                      \cup (IF ReminderDue(g, t) THEN {"remind"} ELSE {})
         IN  Result(FlushAll(g, t, kinds), kinds, d)

Evaluate(g, t) ==
    IF g.closed THEN Result(g, {}, NoDelta)
    ELSE LET p == Promote(g, t)
         IN  IF p.posted THEN EvaluatePosted(p, t) ELSE EvaluateUnposted(p, t)

\* The kinds of action that show the current state of every member on the
\* digest message: the post and the edits.  A reminder is only a reply.
Redraws(kinds) == kinds \cap {"post_digest", "update", "close"} # {}
=============================================================================
