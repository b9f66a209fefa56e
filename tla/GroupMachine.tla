---------------------------- MODULE GroupMachine -----------------------------
(***************************************************************************)
(* One group driven by its caller: transitions are staged in any order at  *)
(* any time, the evaluator runs whenever it runs (late ticks included),    *)
(* and a closed group is replaced by a fresh one, as the dispatcher does.  *)
(* Slack is assumed to accept every post and edit here; Dispatcher models  *)
(* its failures.                                                           *)
(*                                                                         *)
(* The last three variables are history: what the operator sees on the      *)
(* digest and what the monitors really did, against which the group's      *)
(* bookkeeping is checked.                                                 *)
(***************************************************************************)
EXTENDS Group

VARIABLES
    now,          \* the injected clock
    grp,          \* the group
    seen,         \* per slug, its class on the digest the operator looks at
    lastDownAt,   \* per slug, when it last failed
    classSince    \* per slug, when its render class last changed

vars == <<now, grp, seen, lastDownAt, classSince>>

Fresh(t) ==
    /\ grp' = NewGroup(t)
    /\ seen' = [s \in Slugs |-> "none"]
    /\ lastDownAt' = [s \in Slugs |-> 0]
    /\ classSince' = [s \in Slugs |-> t]

Init ==
    /\ now = 0
    /\ grp = NewGroup(0)
    /\ seen = [s \in Slugs |-> "none"]
    /\ lastDownAt = [s \in Slugs |-> 0]
    /\ classSince = [s \in Slugs |-> 0]

Tick ==
    /\ now < MaxTime
    /\ now' = now + 1
    /\ UNCHANGED <<grp, seen, lastDownAt, classSince>>

Stage(g) ==
    /\ ~grp.closed
    /\ grp' = g
    /\ classSince' = [s \in Slugs |-> IF Classes(g)[s] = Classes(grp)[s]
                                      THEN classSince[s] ELSE now]
    /\ UNCHANGED <<now, seen>>

Down(s) ==
    /\ Stage(MarkDown(grp, s, now))
    /\ lastDownAt' = [lastDownAt EXCEPT ![s] = now]

Up(s) ==
    /\ Stage(MarkUp(grp, s, now))
    /\ UNCHANGED lastDownAt

Pause(s) ==
    /\ Stage(MarkPaused(grp, s, now))
    /\ UNCHANGED lastDownAt

\* What the caller does with a result: it keeps the group, and a post or an
\* edit renders every member's current state.
Perform(r) ==
    /\ grp' = r.group
    /\ seen' = IF Redraws(r.kinds) THEN Classes(r.group) ELSE seen
    /\ classSince' = [s \in Slugs |-> IF Classes(r.group)[s] = Classes(grp)[s]
                                      THEN classSince[s] ELSE now]
    /\ UNCHANGED <<now, lastDownAt>>

OpenNow ==
    /\ ~grp.posted /\ ~grp.closed
    /\ InState(grp, "down") # {}
    /\ Perform(Open(grp, now))

Eval ==
    /\ ~grp.closed
    /\ Perform(Evaluate(grp, now))

\* The dispatcher drops a closed group; the next burst makes a new one.
Retire ==
    /\ grp.closed
    /\ Fresh(now)
    /\ UNCHANGED now

Next ==
    \/ Tick
    \/ \E s \in Slugs : Down(s) \/ Up(s) \/ Pause(s)
    \/ OpenNow
    \/ Eval
    \/ Retire

Spec == Init /\ [][Next]_vars

-----------------------------------------------------------------------------
(* Properties. *)

\* The clock, the group record and the history have their types; UpSince never
\* holds a time outside the clock's range.
TypeOK ==
    /\ now \in Time
    /\ grp \in GroupRec
    /\ seen \in [Slugs -> Render]
    /\ lastDownAt \in [Slugs -> Time]
    /\ classSince \in [Slugs -> Time]

\* Flap damping: Evaluate never turns a member to "recovered" on the digest
\* within ResolveDebounce of that member's last failure, however the failures
\* and recoveries before it were interleaved with evaluations.
FlapDamping ==
    [][\A s \in Slugs : seen'[s] = "recovered" /\ seen[s] # "recovered"
                           => now >= lastDownAt[s] + ResolveDebounce]_vars

\* A delta reply only says what changes on the digest: a member announced as
\* down was not shown as down, a member announced as recovered was.
HonestDelta ==
    [][Eval => LET d == Evaluate(grp, now).delta
               IN  /\ \A s \in d.newlyDown \cup d.flapped :
                         seen[s] # "active" /\ seen'[s] = "active"
                   /\ \A s \in d.recovered :
                         seen[s] = "active" /\ seen'[s] = "recovered"]_vars

\* The heartbeat keeps the digest fresh: after an Evaluate, a member that has
\* been active for GroupInterval is shown as down, and one that has not been
\* active for GroupInterval is not.
ScoreboardFresh ==
    [][Eval /\ grp.posted =>
        \A s \in Slugs :
            now >= classSince'[s] + GroupInterval =>
                (seen'[s] = "active" <=> Classes(grp')[s] = "active")]_vars

\* A closed incident leaves no member shown as down on its digest.
CloseLeavesNothingRed ==
    grp.closed => \A s \in Slugs : seen[s] # "active"
=============================================================================
