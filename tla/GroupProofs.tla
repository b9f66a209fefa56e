----------------------------- MODULE GroupProofs -----------------------------
(***************************************************************************)
(* Proofs about GroupMachine, for every set of slugs and all intervals.    *)
(***************************************************************************)
EXTENDS GroupMachine, GroupTheorems, TLAPS

-----------------------------------------------------------------------------
(* The inductive invariant. *)

\* The clock never runs behind a stamp the group has taken.
ClocksOK ==
    /\ grp.lastFlushAt <= now
    /\ \A s \in Slugs :
        /\ grp.members[s].upSince <= now
        /\ lastDownAt[s] <= now
        /\ classSince[s] <= now

\* A member that recovers has been up since its last failure.
UpSinceOK ==
    \A s \in Slugs :
        /\ grp.members[s].state = "recovering" => lastDownAt[s] <= grp.members[s].upSince
        /\ grp.members[s].state = "recovered"  => lastDownAt[s] + ResolveDebounce <= now

\* The class stored at the last flush is "active" for exactly the members the
\* digest shows as down.
RenderedOK ==
    \A s \in Slugs :
        /\ grp.members[s].rendered = "active" <=> seen[s] = "active"
        /\ grp.members[s].state = "absent" => grp.members[s].rendered = "none"
        /\ ~grp.posted => grp.members[s].rendered = "none"

\* A class older than the last flush is the class stored at that flush.
FlushedOK ==
    grp.posted =>
        \A s \in Slugs :
            classSince[s] < grp.lastFlushAt =>
                grp.members[s].rendered = RenderClass(grp.members[s].state)

IInv == TypeOK /\ ClocksOK /\ UpSinceOK /\ RenderedOK /\ FlushedOK /\ CloseLeavesNothingRed

-----------------------------------------------------------------------------
(* The invariant is inductive: one lemma per kind of step. *)

LEMMA ClassesIs ==
    ASSUME NEW g, NEW s \in Slugs
    PROVE  Classes(g)[s] = RenderClass(g.members[s].state)
  BY DEF Classes

\* A staging call that changes one member keeps every part of the invariant
\* that is not about that member.
LEMMA StagedInv ==
    ASSUME IInv, NEW s \in Slugs, NEW st \in MemberState \ {"absent"}, NEW up \in Time,
           Stage(grp'), Staged(grp, grp', s, st, up),
           lastDownAt' \in [Slugs -> Time],
           \A x \in Slugs : x # s => lastDownAt'[x] = lastDownAt[x],
           up <= now, lastDownAt'[s] <= now,
           st = "recovering" => lastDownAt'[s] <= up,
           st # "recovered"
    PROVE  IInv'
  <1>1. /\ now' = now /\ seen' = seen /\ ~grp.closed
        /\ classSince' = [x \in Slugs |-> IF Classes(grp')[x] = Classes(grp)[x]
                                          THEN classSince[x] ELSE now]
    BY DEF Stage
  <1>2. TypeOK'
    BY <1>1 DEF IInv, TypeOK, Staged
  <1>3. ClocksOK'
    <2>1. now \in Nat /\ \A x \in Slugs : classSince'[x] <= now
      BY <1>1, ConfigAssumption DEF IInv, TypeOK, ClocksOK, Time
    <2>2. \A x \in Slugs : grp'.members[x].upSince <= now /\ lastDownAt'[x] <= now
      BY DEF Staged, IInv, ClocksOK
    <2> QED BY <1>1, <2>1, <2>2 DEF Staged, IInv, ClocksOK
  <1>4. UpSinceOK'
    BY <1>1 DEF IInv, UpSinceOK, Staged
  <1>5. RenderedOK'
    BY <1>1 DEF IInv, RenderedOK, Staged
  <1>6. FlushedOK'
    <2> SUFFICES ASSUME grp'.posted, NEW x \in Slugs, classSince'[x] < grp'.lastFlushAt
                 PROVE  grp'.members[x].rendered = RenderClass(grp'.members[x].state)
      BY DEF FlushedOK
    <2>1. grp.posted /\ grp'.lastFlushAt = grp.lastFlushAt
      BY DEF Staged
    <2>2. grp.lastFlushAt <= now /\ now \in Int /\ grp.lastFlushAt \in Int
      BY ConfigAssumption DEF IInv, ClocksOK, TypeOK, GroupRec, Time
    <2>3. classSince'[x] # now
      BY <2>1, <2>2
    <2>4. Classes(grp')[x] = Classes(grp)[x] /\ classSince'[x] = classSince[x]
      BY <1>1, <2>3
    <2>5. RenderClass(grp'.members[x].state) = RenderClass(grp.members[x].state)
      BY <2>4, ClassesIs
    <2>6. grp.members[x].rendered = RenderClass(grp.members[x].state)
      BY <2>1, <2>4 DEF IInv, FlushedOK
    <2> QED BY <2>5, <2>6 DEF Staged
  <1>7. CloseLeavesNothingRed'
    BY <1>1 DEF CloseLeavesNothingRed, Staged
  <1> QED BY <1>2, <1>3, <1>4, <1>5, <1>6, <1>7 DEF IInv

\* A staging call that changes nothing, with a failure time that still fits.
LEMMA UnstagedInv ==
    ASSUME IInv, Stage(grp'), grp' = grp,
           lastDownAt' \in [Slugs -> Time],
           \A x \in Slugs : \/ lastDownAt'[x] = lastDownAt[x]
                            \/ lastDownAt'[x] = now /\ grp.members[x].state = "down"
    PROVE  IInv'
  <1>1. now' = now /\ seen' = seen
    BY DEF Stage
  <1>2. classSince' = classSince
    BY DEF Stage, IInv, TypeOK
  <1>3. now \in Int
    BY ConfigAssumption DEF IInv, TypeOK, Time
  <1>4. ClocksOK' /\ UpSinceOK'
    BY <1>1, <1>2, <1>3 DEF IInv, ClocksOK, UpSinceOK
  <1> QED BY <1>1, <1>2, <1>4 DEF IInv, TypeOK, RenderedOK, FlushedOK, CloseLeavesNothingRed

LEMMA DownInv ==
    ASSUME IInv, NEW s \in Slugs, Down(s)
    PROVE  IInv'
  <1>1. /\ grp \in GroupRec /\ now \in Time /\ now \in Nat
        /\ lastDownAt' = [lastDownAt EXCEPT ![s] = now]
        /\ lastDownAt' \in [Slugs -> Time]
        /\ grp' = MarkDown(grp, s, now)
        /\ Stage(grp') /\ 0 \in Time
    BY ConfigAssumption DEF IInv, TypeOK, Down, Stage, Time
  <1>2. \A x \in Slugs : x # s => lastDownAt'[x] = lastDownAt[x]
    BY <1>1 DEF IInv, TypeOK
  <1>3. lastDownAt'[s] = now
    BY <1>1 DEF IInv, TypeOK
  <1>4. CASE grp' = grp /\ grp.members[s].state = "down"
    BY <1>1, <1>2, <1>3, <1>4, UnstagedInv
  <1>5. CASE Staged(grp, grp', s, "down", 0)
    <2>1. 0 <= now /\ lastDownAt'[s] <= now
      BY <1>1, <1>3
    <2> QED BY <1>1, <1>2, <1>5, <2>1, StagedInv DEF MemberState
  <1> QED BY <1>1, <1>4, <1>5, MarkDownStaged

LEMMA UpInv ==
    ASSUME IInv, NEW s \in Slugs, Up(s)
    PROVE  IInv'
  <1>1. /\ grp \in GroupRec /\ now \in Time /\ now \in Nat
        /\ lastDownAt' = lastDownAt /\ lastDownAt' \in [Slugs -> Time]
        /\ grp' = MarkUp(grp, s, now) /\ Stage(grp') /\ lastDownAt'[s] <= now
    BY ConfigAssumption DEF IInv, TypeOK, ClocksOK, Up, Stage, Time
  <1>2. CASE grp' = grp
    BY <1>1, <1>2, UnstagedInv
  <1>3. CASE Staged(grp, grp', s, "recovering", now)
    BY <1>1, <1>3, StagedInv DEF MemberState
  <1> QED BY <1>1, <1>2, <1>3, MarkUpStaged

LEMMA PauseInv ==
    ASSUME IInv, NEW s \in Slugs, Pause(s)
    PROVE  IInv'
  <1>1. /\ grp \in GroupRec /\ now \in Time
        /\ lastDownAt' = lastDownAt /\ lastDownAt' \in [Slugs -> Time]
        /\ grp' = MarkPaused(grp, s, now) /\ Stage(grp') /\ lastDownAt'[s] <= now
        /\ grp.members[s].upSince <= now /\ grp.members[s].upSince \in Time
    BY DEF IInv, TypeOK, ClocksOK, Pause, Stage, GroupRec, Member
  <1>2. CASE grp' = grp
    BY <1>1, <1>2, UnstagedInv
  <1>3. CASE Staged(grp, grp', s, "paused", grp.members[s].upSince)
    BY <1>1, <1>3, StagedInv DEF MemberState
  <1> QED BY <1>1, <1>2, <1>3, MarkPausedStaged

\* The step that shows the members' classes on the digest and stores them.
LEMMA RedrawInv ==
    ASSUME IInv, NEW g \in GroupRec, grp' = g, now' = now, lastDownAt' = lastDownAt,
           classSince' = [x \in Slugs |-> IF Classes(g)[x] = Classes(grp)[x]
                                          THEN classSince[x] ELSE now],
           seen' = Classes(g),
           g.lastFlushAt <= now, g.posted,
           \A x \in Slugs :
              /\ g.members[x].upSince <= now
              /\ g.members[x].rendered = RenderClass(g.members[x].state)
              /\ g.members[x].state = "recovering" => lastDownAt[x] <= g.members[x].upSince
              /\ g.members[x].state = "recovered" => lastDownAt[x] + ResolveDebounce <= now
              /\ g.closed => g.members[x].state \notin {"down", "recovering"}
    PROVE  IInv'
  <1>1. now \in Time /\ now \in Int
    BY ConfigAssumption DEF IInv, TypeOK, Time
  <1>2. \A x \in Slugs : /\ g.members[x].state \in MemberState
                         /\ seen'[x] = RenderClass(g.members[x].state)
                         /\ seen'[x] \in Render
    BY RenderClassType, ClassesIs DEF GroupRec, Member
  <1>3. seen' \in [Slugs -> Render]
    BY <1>2 DEF Classes
  <1>4. TypeOK'
    BY <1>1, <1>3 DEF IInv, TypeOK
  <1>5. ClocksOK'
    BY <1>1 DEF IInv, ClocksOK
  <1>6. UpSinceOK'
    BY DEF IInv, UpSinceOK
  <1>7. RenderedOK'
    BY <1>2, RenderClassType DEF RenderedOK
  <1>8. FlushedOK'
    BY DEF FlushedOK
  <1>9. CloseLeavesNothingRed'
    BY <1>2, RenderClassType DEF CloseLeavesNothingRed
  <1> QED BY <1>4, <1>5, <1>6, <1>7, <1>8, <1>9 DEF IInv

LEMMA OpenInv ==
    ASSUME IInv, OpenNow
    PROVE  IInv'
  <1>1. grp \in GroupRec /\ now \in Time /\ ~grp.closed /\ now <= now
    BY ConfigAssumption DEF IInv, TypeOK, OpenNow, Time
  <1> DEFINE g == Posting(grp, now)
             r == Open(grp, now)
  <1>2. r.group = g /\ r.kinds = {"post_digest"}
    BY DEF OpenNow, Open, Result
  <1>3. Redraws(r.kinds)
    BY <1>2 DEF Redraws
  <1>4. /\ g \in GroupRec /\ g.posted /\ ~g.closed /\ g.lastFlushAt = now
        /\ \A x \in Slugs :
             /\ g.members[x].state = grp.members[x].state
             /\ g.members[x].upSince = grp.members[x].upSince
             /\ g.members[x].rendered = RenderClass(grp.members[x].state)
    BY <1>1, PostingType
  <1>5. /\ grp' = g /\ now' = now /\ lastDownAt' = lastDownAt /\ seen' = Classes(g)
        /\ classSince' = [x \in Slugs |-> IF Classes(g)[x] = Classes(grp)[x]
                                          THEN classSince[x] ELSE now]
    BY <1>2, <1>3 DEF OpenNow, Perform
  <1> HIDE DEF g, r
  <1>6. \A x \in Slugs :
          /\ g.members[x].upSince <= now
          /\ g.members[x].rendered = RenderClass(g.members[x].state)
          /\ g.members[x].state = "recovering" => lastDownAt[x] <= g.members[x].upSince
          /\ g.members[x].state = "recovered" => lastDownAt[x] + ResolveDebounce <= now
    BY <1>4 DEF IInv, ClocksOK, UpSinceOK
  <1> QED BY <1>1, <1>4, <1>5, <1>6, RedrawInv

\* The members after a promotion: their stamps, and that only members up for
\* ResolveDebounce are recovered.
LEMMA PromotedOK ==
    ASSUME IInv, NEW x \in Slugs
    PROVE  LET p == Promote(grp, now).members[x]
           IN  /\ p.upSince = grp.members[x].upSince /\ p.upSince <= now
               /\ p.rendered = grp.members[x].rendered
               /\ p.state \in MemberState
               /\ p.state = "recovering" => lastDownAt[x] <= p.upSince
               /\ p.state = "recovered" => lastDownAt[x] + ResolveDebounce <= now
               /\ p.state = "absent" => grp.members[x].state = "absent"
               /\ RenderClass(p.state) # RenderClass(grp.members[x].state) =>
                     p.state = "recovered" /\ grp.members[x].state = "recovering"
  <1> DEFINE p == Promote(grp, now).members[x]
  <1>1. /\ grp \in GroupRec /\ now \in Time /\ now \in Int
        /\ lastDownAt[x] \in Int /\ grp.members[x].upSince \in Int
        /\ ResolveDebounce \in Int /\ grp.members[x].state \in MemberState
    BY ConfigAssumption DEF IInv, TypeOK, GroupRec, Member, Time
  <1>2. /\ p.upSince = grp.members[x].upSince
        /\ p.rendered = grp.members[x].rendered
        /\ p.state = IF /\ grp.members[x].state = "recovering"
                        /\ now >= grp.members[x].upSince + ResolveDebounce
                     THEN "recovered" ELSE grp.members[x].state
    BY <1>1, PromoteType
  <1> HIDE DEF p
  <1>3. CASE /\ grp.members[x].state = "recovering"
             /\ now >= grp.members[x].upSince + ResolveDebounce
    <2>1. p.state = "recovered"
      BY <1>2, <1>3
    <2>2. lastDownAt[x] <= grp.members[x].upSince /\ grp.members[x].upSince <= now
      BY <1>3 DEF IInv, UpSinceOK, ClocksOK
    <2>3. lastDownAt[x] + ResolveDebounce <= now
      BY <2>2, <1>3, <1>1
    <2> QED BY <1>2, <1>3, <2>1, <2>2, <2>3 DEF MemberState, p
  <1>4. CASE ~(/\ grp.members[x].state = "recovering"
               /\ now >= grp.members[x].upSince + ResolveDebounce)
    <2>1. p.state = grp.members[x].state
      BY <1>2, <1>4
    <2> QED BY <1>1, <1>2, <2>1 DEF IInv, UpSinceOK, ClocksOK, p
  <1> QED BY <1>3, <1>4

\* No bucket of an empty delta has a member: a member whose class changed
\* without being told is one that recovered before it was ever shown down.
LEMMA EmptyDelta ==
    ASSUME NEW g \in GroupRec, Delta(g) = NoDelta, NEW x \in Slugs,
           g.members[x].state = "absent" => g.members[x].rendered = "none"
    PROVE  g.members[x].rendered = "active" <=> RenderClass(g.members[x].state) = "active"
  <1> DEFINE cur == RenderClass(g.members[x].state)
             prev == g.members[x].rendered
  <1>1. /\ ~(cur = "active" /\ prev \in {"none", "paused"})
        /\ ~(cur = "recovered" /\ prev = "active")
        /\ ~(cur = "active" /\ prev = "recovered")
        /\ ~(cur = "paused" /\ prev # "paused")
    BY DEF Delta, NoDelta
  <1>2. /\ cur \in Render /\ prev \in Render
        /\ cur = "none" => prev = "none"
    BY RenderClassType DEF GroupRec, Member
  <1> HIDE DEF cur, prev
  <1>3. prev = "active" <=> cur = "active"
    BY <1>1, <1>2 DEF Render
  <1> QED BY <1>3 DEF cur, prev

LEMMA EvalInv ==
    ASSUME IInv, Eval
    PROVE  IInv'
  <1> DEFINE r == Evaluate(grp, now)
             p == Promote(grp, now)
             g == r.group
  <1>1. /\ grp \in GroupRec /\ now \in Time /\ now \in Int /\ ~grp.closed
        /\ grp.lastFlushAt \in Int /\ GroupInterval \in Nat /\ grp.lastFlushAt <= now
    BY ConfigAssumption DEF IInv, TypeOK, Eval, Time, GroupRec, ClocksOK
  <1>2. /\ g \in GroupRec
        /\ \/ Idle(grp, now, r) \/ Discarded(grp, now, r) \/ FirstPost(grp, now, r)
           \/ Flushed(grp, now, r) \/ Closed(grp, now, r)
    BY <1>1, EvaluateOutcome
  <1>3. /\ grp' = g /\ now' = now /\ lastDownAt' = lastDownAt
        /\ seen' = IF Redraws(r.kinds) THEN Classes(g) ELSE seen
        /\ classSince' = [x \in Slugs |-> IF Classes(g)[x] = Classes(grp)[x]
                                          THEN classSince[x] ELSE now]
    BY DEF Eval, Perform
  <1>4. \A x \in Slugs :
          /\ p.members[x].upSince = grp.members[x].upSince /\ p.members[x].upSince <= now
          /\ p.members[x].rendered = grp.members[x].rendered
          /\ p.members[x].state \in MemberState
          /\ p.members[x].state = "recovering" => lastDownAt[x] <= p.members[x].upSince
          /\ p.members[x].state = "recovered" => lastDownAt[x] + ResolveDebounce <= now
          /\ p.members[x].state = "absent" => grp.members[x].state = "absent"
    BY PromotedOK
  <1> HIDE DEF r, p, g
  <1>5. CASE Rendered(grp, now, g) /\ g.posted /\ g.lastFlushAt <= now /\ Redraws(r.kinds)
             /\ (g.closed => NothingActive(p))
    <2>1. \A x \in Slugs :
            /\ g.members[x].upSince <= now
            /\ g.members[x].rendered = RenderClass(g.members[x].state)
            /\ g.members[x].state = "recovering" => lastDownAt[x] <= g.members[x].upSince
            /\ g.members[x].state = "recovered" => lastDownAt[x] + ResolveDebounce <= now
            /\ g.members[x].state = p.members[x].state
      BY <1>4, <1>5 DEF Rendered, p
    <2>2. \A x \in Slugs : g.closed => g.members[x].state \notin {"down", "recovering"}
      BY <1>5, <2>1 DEF NothingActive, InState
    <2> QED BY <1>2, <1>3, <1>5, <2>1, <2>2, RedrawInv
  <1>6. CASE (Idle(grp, now, r) \/ Discarded(grp, now, r))
    <2>1. /\ g.members = p.members /\ g.lastFlushAt = grp.lastFlushAt
          /\ g.posted <=> grp.posted
          /\ g.closed => ~grp.posted
          /\ ~Redraws(r.kinds)
      BY <1>6, <1>2 DEF Idle, Discarded, SameMembers, g, p
    <2>2. seen' = seen
      BY <1>3, <2>1
    <2>3. TypeOK' /\ ClocksOK'
      BY <1>1, <1>2, <1>3, <1>4, <2>1, <2>2 DEF IInv, TypeOK, ClocksOK
    <2>4. UpSinceOK' /\ RenderedOK'
      BY <1>3, <1>4, <2>1, <2>2 DEF IInv, UpSinceOK, RenderedOK
    <2>5. CloseLeavesNothingRed'
      BY <1>3, <2>1, <2>2 DEF IInv, RenderedOK, CloseLeavesNothingRed
    <2>6. FlushedOK'
      <3> SUFFICES ASSUME grp'.posted, NEW x \in Slugs, classSince'[x] < grp'.lastFlushAt
                   PROVE  grp'.members[x].rendered = RenderClass(grp'.members[x].state)
        BY DEF FlushedOK
      <3>1. classSince'[x] < grp.lastFlushAt /\ grp.posted
        BY <1>3, <2>1
      <3>2. classSince'[x] # now
        BY <3>1, <1>1
      <3>3. Classes(g)[x] = Classes(grp)[x] /\ classSince'[x] = classSince[x]
        BY <1>3, <3>2
      <3>4. grp.members[x].rendered = RenderClass(grp.members[x].state)
        BY <3>1, <3>3 DEF IInv, FlushedOK
      <3> QED BY <3>3, <3>4, <1>3, <1>4, <2>1, ClassesIs
    <2> QED BY <2>3, <2>4, <2>5, <2>6 DEF IInv
  <1>7. CASE FirstPost(grp, now, r) \/ Closed(grp, now, r)
    BY <1>1, <1>5, <1>7 DEF FirstPost, Closed, g, p
  <1>8. CASE Flushed(grp, now, r) /\ r.delta # NoDelta
    BY <1>1, <1>5, <1>8 DEF Flushed, g, p
  <1>9. CASE Flushed(grp, now, r) /\ r.delta = NoDelta
    <2>1. /\ g.posted /\ ~g.closed /\ g.lastFlushAt = now /\ Delta(p) = NoDelta
          /\ ~Redraws(r.kinds)
          /\ \A x \in Slugs :
               /\ g.members[x].state = p.members[x].state
               /\ g.members[x].upSince = grp.members[x].upSince
               /\ g.members[x].rendered = RenderClass(p.members[x].state)
      BY <1>9 DEF Flushed, Rendered, g, p
    <2>2. seen' = seen
      BY <1>3, <2>1
    <2>3. p \in GroupRec
      BY <1>1, PromoteType DEF p
    <2>4. \A x \in Slugs : p.members[x].rendered = "active"
                              <=> RenderClass(p.members[x].state) = "active"
      BY <1>4, <2>1, <2>3, EmptyDelta DEF IInv, RenderedOK
    <2>5. TypeOK' /\ ClocksOK'
      BY <1>1, <1>2, <1>3, <1>4, <2>1, <2>2 DEF IInv, TypeOK, ClocksOK
    <2>6. UpSinceOK'
      BY <1>3, <1>4, <2>1 DEF UpSinceOK
    <2>7. RenderedOK'
      BY <1>3, <1>4, <2>1, <2>2, <2>4, RenderClassType DEF IInv, RenderedOK
    <2>8. FlushedOK' /\ CloseLeavesNothingRed'
      BY <1>3, <2>1 DEF FlushedOK, CloseLeavesNothingRed
    <2> QED BY <2>5, <2>6, <2>7, <2>8 DEF IInv
  <1> QED BY <1>2, <1>6, <1>7, <1>8, <1>9

LEMMA RetireInv ==
    ASSUME IInv, Retire
    PROVE  IInv'
  <1>1. now \in Time /\ now \in Nat /\ 0 \in Time
    BY ConfigAssumption DEF IInv, TypeOK, Time
  <1>2. now' = now /\ grp' = NewGroup(now)
        /\ seen' = [s \in Slugs |-> "none"]
        /\ lastDownAt' = [s \in Slugs |-> 0]
        /\ classSince' = [s \in Slugs |-> now]
    BY DEF Retire, Fresh
  <1>3. TypeOK'
    BY <1>1, <1>2, NewGroupType DEF TypeOK, Render
  <1> QED BY <1>1, <1>2, <1>3, NewGroupType
          DEF IInv, ClocksOK, UpSinceOK, RenderedOK, FlushedOK, CloseLeavesNothingRed

LEMMA TickInv ==
    ASSUME IInv, Tick
    PROVE  IInv'
  <1>1. /\ now \in Nat /\ now + 1 \in Time /\ now' = now + 1
        /\ \A s \in Slugs : lastDownAt[s] \in Int /\ classSince[s] \in Int
                            /\ grp.members[s].upSince \in Int
        /\ grp.lastFlushAt \in Int /\ ResolveDebounce \in Int
    BY ConfigAssumption DEF IInv, TypeOK, Tick, Time, GroupRec, Member
  <1>2. ClocksOK' /\ UpSinceOK'
    BY <1>1 DEF IInv, ClocksOK, UpSinceOK, Tick
  <1> QED BY <1>1, <1>2 DEF IInv, TypeOK, RenderedOK, FlushedOK, CloseLeavesNothingRed, Tick

LEMMA InitInv == Init => IInv
  <1> SUFFICES ASSUME Init PROVE IInv
    OBVIOUS
  <1>1. 0 \in Time /\ now = 0 /\ grp = NewGroup(0)
    BY ConfigAssumption DEF Time, Init
  <1> QED BY <1>1, NewGroupType
          DEF Init, IInv, TypeOK, Render, ClocksOK, UpSinceOK, RenderedOK, FlushedOK,
              CloseLeavesNothingRed

LEMMA StepInv == IInv /\ [Next]_vars => IInv'
  <1> SUFFICES ASSUME IInv, [Next]_vars PROVE IInv'
    OBVIOUS
  <1>1. CASE UNCHANGED vars
    BY <1>1 DEF vars, IInv, TypeOK, ClocksOK, UpSinceOK, RenderedOK, FlushedOK,
                CloseLeavesNothingRed
  <1>2. CASE Next
    BY <1>2, TickInv, DownInv, UpInv, PauseInv, OpenInv, EvalInv, RetireInv DEF Next
  <1> QED BY <1>1, <1>2

-----------------------------------------------------------------------------
(* Theorems of the specification. *)

\* The invariant holds in every state of every group.
THEOREM GroupInvariant == Spec => []IInv
  BY InitInv, StepInv, PTL DEF Spec

\* Every variable keeps its type: in particular no stamp of the group leaves
\* the range of the clock.
THEOREM TypeCorrect == Spec => []TypeOK
  <1>1. IInv => TypeOK
    BY DEF IInv
  <1> QED BY <1>1, GroupInvariant, PTL

\* When Evaluate closes or discards a group, the digest shows no member as down.
THEOREM ClosedIsClear == Spec => []CloseLeavesNothingRed
  <1>1. IInv => CloseLeavesNothingRed
    BY DEF IInv
  <1> QED BY <1>1, GroupInvariant, PTL

\* Only Open and Evaluate, or the birth of the next group, change the digest.
LEMMA SeenChanges ==
    ASSUME IInv, Next, NEW s \in Slugs, seen'[s] # seen[s]
    PROVE  \/ /\ OpenNow \/ Eval
              /\ seen' = Classes(grp')
              /\ now' = now /\ lastDownAt' = lastDownAt
           \/ seen'[s] = "none"
  BY DEF Next, Tick, Down, Up, Pause, Stage, OpenNow, Eval, Perform, Retire, Fresh

\* No recovery is rendered within ResolveDebounce of a failure of its monitor.
THEOREM FlapsDamped == Spec => FlapDamping
  <1> DEFINE A == \A s \in Slugs : seen'[s] = "recovered" /\ seen[s] # "recovered"
                                     => now >= lastDownAt[s] + ResolveDebounce
  <1>1. IInv /\ IInv' /\ [Next]_vars => [A]_vars
    <2> SUFFICES ASSUME IInv, IInv', Next, NEW s \in Slugs,
                        seen'[s] = "recovered", seen[s] # "recovered"
                 PROVE  now >= lastDownAt[s] + ResolveDebounce
      BY DEF vars
    <2>1. seen' = Classes(grp') /\ now' = now /\ lastDownAt' = lastDownAt
      BY SeenChanges
    <2>2. grp'.members[s].state \in MemberState
      BY DEF IInv, TypeOK, GroupRec, Member
    <2>3. RenderClass(grp'.members[s].state) = "recovered"
      BY <2>1, ClassesIs
    <2>4. grp'.members[s].state = "recovered"
      BY <2>2, <2>3, RenderClassType
    <2>5. lastDownAt'[s] + ResolveDebounce <= now'
      BY <2>4 DEF IInv, UpSinceOK
    <2>6. now \in Int /\ lastDownAt[s] + ResolveDebounce \in Int
      BY ConfigAssumption DEF IInv, TypeOK, Time
    <2> QED BY <2>1, <2>5, <2>6
  <1> QED BY <1>1, GroupInvariant, PTL DEF Spec, FlapDamping

\* A delta reply announces exactly what changes on the digest it is threaded under.
THEOREM DeltasHonest == Spec => HonestDelta
  <1> DEFINE d == Evaluate(grp, now).delta
             A == Eval => /\ \A s \in d.newlyDown \cup d.flapped :
                               seen[s] # "active" /\ seen'[s] = "active"
                          /\ \A s \in d.recovered :
                               seen[s] = "active" /\ seen'[s] = "recovered"
  <1>1. IInv => A
    <2> SUFFICES ASSUME IInv, Eval PROVE A
      OBVIOUS
    <2> DEFINE r == Evaluate(grp, now)
               p == Promote(grp, now)
    <2>1. grp \in GroupRec /\ now \in Time /\ ~grp.closed
      BY DEF IInv, TypeOK, Eval
    <2>2. \/ Idle(grp, now, r) \/ Discarded(grp, now, r) \/ FirstPost(grp, now, r)
          \/ Flushed(grp, now, r) \/ Closed(grp, now, r)
      BY <2>1, EvaluateOutcome
    <2>3. CASE r.delta = NoDelta
      BY <2>3 DEF NoDelta
    <2>4. CASE r.delta # NoDelta
      <3>1. Rendered(grp, now, r.group) /\ Redraws(r.kinds) /\ d = Delta(p)
        BY <2>2, <2>4 DEF Idle, Discarded, FirstPost, Flushed, Closed
      <3>2. seen' = Classes(r.group)
        BY <3>1 DEF Eval, Perform
      <3>3. \A s \in Slugs : seen'[s] = RenderClass(p.members[s].state)
        BY <3>1, <3>2, ClassesIs DEF Rendered
      <3>4. \A s \in Slugs : p.members[s].rendered = grp.members[s].rendered
        BY <2>1, PromoteType
      <3>5. \A s \in Slugs : p.members[s].rendered = "active" <=> seen[s] = "active"
        BY <3>4 DEF IInv, RenderedOK
      <3> HIDE DEF p
      <3>6. /\ \A s \in d.newlyDown \cup d.flapped :
                 /\ s \in Slugs
                 /\ RenderClass(p.members[s].state) = "active"
                 /\ p.members[s].rendered # "active"
            /\ \A s \in d.recovered :
                 /\ s \in Slugs
                 /\ RenderClass(p.members[s].state) = "recovered"
                 /\ p.members[s].rendered = "active"
        BY <3>1 DEF Delta
      <3> QED BY <3>3, <3>5, <3>6
    <2> QED BY <2>3, <2>4
  <1>2. IInv /\ [Next]_vars => [A]_vars
    BY <1>1
  <1> QED BY <1>2, GroupInvariant, PTL DEF Spec, HonestDelta

\* The digest is never more than one heartbeat behind the monitors.
THEOREM DigestFresh == Spec => ScoreboardFresh
  <1> DEFINE A == Eval /\ grp.posted =>
                    \A s \in Slugs :
                      now >= classSince'[s] + GroupInterval =>
                        (seen'[s] = "active" <=> Classes(grp')[s] = "active")
  <1>1. IInv /\ IInv' => A
    <2> SUFFICES ASSUME IInv, IInv', Eval, grp.posted, NEW s \in Slugs,
                        now >= classSince'[s] + GroupInterval
                 PROVE  seen'[s] = "active" <=> Classes(grp')[s] = "active"
      OBVIOUS
    <2> DEFINE r == Evaluate(grp, now)
    <2>1. /\ grp \in GroupRec /\ now \in Time /\ ~grp.closed
          /\ now \in Int /\ classSince'[s] \in Int /\ grp.lastFlushAt \in Int
          /\ GroupInterval \in Nat \ {0}
      BY ConfigAssumption DEF IInv, TypeOK, Eval, Time, GroupRec
    <2>2. \/ Idle(grp, now, r) \/ Discarded(grp, now, r) \/ FirstPost(grp, now, r)
          \/ Flushed(grp, now, r) \/ Closed(grp, now, r)
      BY <2>1, EvaluateOutcome
    <2>3. grp' = r.group /\ (Redraws(r.kinds) => seen' = Classes(grp'))
      BY DEF Eval, Perform
    <2>4. CASE Redraws(r.kinds)
      BY <2>3, <2>4
    <2>5. seen'[s] = "active" <=> grp'.members[s].rendered = "active"
      BY DEF IInv, RenderedOK
    <2>6. CASE Flushed(grp, now, r) \/ Closed(grp, now, r)
      <3>1. grp'.members[s].rendered = RenderClass(grp'.members[s].state)
        BY <2>3, <2>6 DEF Flushed, Closed, Rendered
      <3> QED BY <3>1, <2>5, ClassesIs
    <2>7. CASE Idle(grp, now, r)
      <3>1. grp'.lastFlushAt = grp.lastFlushAt /\ grp'.posted /\ ~HeartbeatDue(grp, now)
        BY <2>3, <2>7 DEF Idle, SameMembers
      <3>2. classSince'[s] < grp'.lastFlushAt
        BY <2>1, <3>1 DEF HeartbeatDue
      <3>3. grp'.members[s].rendered = RenderClass(grp'.members[s].state)
        BY <3>1, <3>2 DEF IInv, FlushedOK
      <3> QED BY <3>3, <2>5, ClassesIs
    <2> QED BY <2>2, <2>6, <2>7 DEF Discarded, FirstPost
  <1>2. IInv /\ IInv' /\ [Next]_vars => [A]_vars
    BY <1>1
  <1> QED BY <1>2, GroupInvariant, PTL DEF Spec, ScoreboardFresh
=============================================================================
