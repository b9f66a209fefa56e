---------------------------- MODULE GroupTheorems ----------------------------
(***************************************************************************)
(* What the operators of Group return, for every group record: the lemmas  *)
(* that the proofs about a single group (GroupProofs) and about the        *)
(* dispatcher that embeds it (DispatcherProofs) rest on.                   *)
(***************************************************************************)
EXTENDS Group, TLAPS


LEMMA RenderClassType ==
    ASSUME NEW st \in MemberState
    PROVE  /\ RenderClass(st) \in Render
           /\ RenderClass(st) = "active" <=> st \in {"down", "recovering"}
           /\ RenderClass(st) = "none" <=> st = "absent"
           /\ RenderClass(st) = "recovered" <=> st = "recovered"
           /\ RenderClass(st) = "paused" <=> st = "paused"
  BY DEF MemberState, RenderClass, Render

LEMMA NewGroupType ==
    ASSUME NEW t \in Time
    PROVE  /\ NewGroup(t) \in GroupRec
           /\ NewGroup(t).lastFlushAt = 0
           /\ ~NewGroup(t).posted
           /\ ~NewGroup(t).closed
           /\ \A s \in Slugs : NewGroup(t).members[s] =
                  [state |-> "absent", upSince |-> 0, rendered |-> "none"]
  BY ConfigAssumption DEF NewGroup, GroupRec, Member, MemberState, Render, Time

\* The staging calls change one member's state and UpSince and nothing else.
Staged(g, h, s, st, up) ==
    /\ h \in GroupRec
    /\ h.openedAt = g.openedAt /\ h.posted = g.posted /\ h.closed = g.closed
    /\ h.lastFlushAt = g.lastFlushAt /\ h.lastReminderAt = g.lastReminderAt
    /\ h.members[s].state = st
    /\ h.members[s].upSince = up
    /\ h.members[s].rendered = g.members[s].rendered
    /\ \A x \in Slugs : x # s => h.members[x] = g.members[x]

LEMMA StagedExcept ==
    ASSUME NEW g \in GroupRec, NEW s \in Slugs, NEW st \in MemberState, NEW up \in Time
    PROVE  Staged(g, [g EXCEPT !.members[s] =
                        [g.members[s] EXCEPT !.state = st, !.upSince = up]], s, st, up)
  BY DEF Staged, GroupRec, Member

LEMMA MarkDownStaged ==
    ASSUME NEW g \in GroupRec, NEW s \in Slugs, NEW t \in Time
    PROVE  \/ MarkDown(g, s, t) = g /\ g.members[s].state = "down"
           \/ Staged(g, MarkDown(g, s, t), s, "down", 0)
  <1>1. 0 \in Time /\ "down" \in MemberState
    BY ConfigAssumption DEF Time, MemberState
  <1>2. g.members[s].state = "down" => MarkDown(g, s, t) = g
    BY DEF MarkDown
  <1>3. g.members[s].state # "down" =>
          MarkDown(g, s, t) = [g EXCEPT !.members[s] =
                                 [g.members[s] EXCEPT !.state = "down", !.upSince = 0]]
    BY DEF MarkDown
  <1> QED BY <1>1, <1>2, <1>3, StagedExcept

LEMMA MarkUpStaged ==
    ASSUME NEW g \in GroupRec, NEW s \in Slugs, NEW t \in Time
    PROVE  \/ MarkUp(g, s, t) = g
           \/ /\ g.members[s].state = "down"
              /\ Staged(g, MarkUp(g, s, t), s, "recovering", t)
  BY DEF MarkUp, Staged, GroupRec, Member, MemberState

LEMMA MarkPausedStaged ==
    ASSUME NEW g \in GroupRec, NEW s \in Slugs, NEW t \in Time
    PROVE  \/ MarkPaused(g, s, t) = g
           \/ /\ g.members[s].state # "absent"
              /\ Staged(g, MarkPaused(g, s, t), s, "paused", g.members[s].upSince)
  BY DEF MarkPaused, Staged, GroupRec, Member, MemberState

LEMMA CommitRenderType ==
    ASSUME NEW g \in GroupRec
    PROVE  /\ CommitRender(g) \in GroupRec
           /\ CommitRender(g).openedAt = g.openedAt
           /\ CommitRender(g).posted = g.posted
           /\ CommitRender(g).closed = g.closed
           /\ CommitRender(g).lastFlushAt = g.lastFlushAt
           /\ CommitRender(g).lastReminderAt = g.lastReminderAt
           /\ \A s \in Slugs :
                /\ CommitRender(g).members[s].state = g.members[s].state
                /\ CommitRender(g).members[s].upSince = g.members[s].upSince
                /\ CommitRender(g).members[s].rendered = RenderClass(g.members[s].state)
  <1>1. \A s \in Slugs : g.members[s] \in Member /\ RenderClass(g.members[s].state) \in Render
    BY RenderClassType DEF GroupRec, Member
  <1> DEFINE M == [s \in Slugs |->
                     [g.members[s] EXCEPT !.rendered = RenderClass(g.members[s].state)]]
  <1>2. \A s \in Slugs :
            /\ M[s] \in Member
            /\ M[s].state = g.members[s].state
            /\ M[s].upSince = g.members[s].upSince
            /\ M[s].rendered = RenderClass(g.members[s].state)
    BY <1>1 DEF Member
  <1>3. CommitRender(g) = [g EXCEPT !.members = M]
    BY DEF CommitRender
  <1>4. M \in [Slugs -> Member]
    BY <1>2
  <1> HIDE DEF M
  <1> QED BY <1>2, <1>3, <1>4 DEF GroupRec

LEMMA PromoteType ==
    ASSUME NEW g \in GroupRec, NEW t \in Time
    PROVE  /\ Promote(g, t) \in GroupRec
           /\ Promote(g, t).openedAt = g.openedAt
           /\ Promote(g, t).posted = g.posted
           /\ Promote(g, t).closed = g.closed
           /\ Promote(g, t).lastFlushAt = g.lastFlushAt
           /\ Promote(g, t).lastReminderAt = g.lastReminderAt
           /\ \A s \in Slugs :
                /\ Promote(g, t).members[s].upSince = g.members[s].upSince
                /\ Promote(g, t).members[s].rendered = g.members[s].rendered
                /\ Promote(g, t).members[s].state =
                      IF /\ g.members[s].state = "recovering"
                         /\ t >= g.members[s].upSince + ResolveDebounce
                      THEN "recovered" ELSE g.members[s].state
  BY DEF Promote, GroupRec, Member, MemberState

-----------------------------------------------------------------------------
(* The five outcomes of Evaluate on an open group.  In each of them the    *)
(* states are those of Promote; h is the group returned.                   *)

SameMembers(g, t, h) ==
    h.members = Promote(g, t).members /\ h.lastFlushAt = g.lastFlushAt

Rendered(g, t, h) ==
    \A s \in Slugs :
        /\ h.members[s].state = Promote(g, t).members[s].state
        /\ h.members[s].upSince = g.members[s].upSince
        /\ h.members[s].rendered = RenderClass(Promote(g, t).members[s].state)

Idle(g, t, r) ==
    /\ SameMembers(g, t, r.group) /\ r.group.posted = g.posted /\ ~r.group.closed
    /\ g.posted => ~HeartbeatDue(g, t)
    /\ r.delta = NoDelta /\ ~Redraws(r.kinds)

Discarded(g, t, r) ==
    /\ ~g.posted /\ SameMembers(g, t, r.group) /\ ~r.group.posted /\ r.group.closed
    /\ InState(Promote(g, t), "down") = {}
    /\ r.delta = NoDelta /\ ~Redraws(r.kinds)

FirstPost(g, t, r) ==
    /\ ~g.posted /\ Rendered(g, t, r.group) /\ r.group.lastFlushAt = t
    /\ r.group.posted /\ ~r.group.closed
    /\ r.delta = NoDelta /\ Redraws(r.kinds)

Flushed(g, t, r) ==
    /\ g.posted /\ Rendered(g, t, r.group) /\ r.group.lastFlushAt = t
    /\ r.group.posted /\ ~r.group.closed
    /\ r.delta = Delta(Promote(g, t))
    /\ Redraws(r.kinds) <=> r.delta # NoDelta

Closed(g, t, r) ==
    /\ g.posted /\ Rendered(g, t, r.group) /\ r.group.lastFlushAt = g.lastFlushAt
    /\ r.group.posted /\ r.group.closed /\ NothingActive(Promote(g, t))
    /\ r.delta = Delta(Promote(g, t)) /\ Redraws(r.kinds)

LEMMA PostingType ==
    ASSUME NEW g \in GroupRec, NEW t \in Time, ~g.closed
    PROVE  /\ Posting(g, t) \in GroupRec
           /\ Posting(g, t).posted /\ ~Posting(g, t).closed
           /\ Posting(g, t).lastFlushAt = t
           /\ \A s \in Slugs :
                /\ Posting(g, t).members[s].state = g.members[s].state
                /\ Posting(g, t).members[s].upSince = g.members[s].upSince
                /\ Posting(g, t).members[s].rendered = RenderClass(g.members[s].state)
  <1> DEFINE h == [g EXCEPT !.posted = TRUE, !.lastFlushAt = t, !.lastReminderAt = t]
  <1>1. /\ h \in GroupRec /\ h.posted /\ ~h.closed /\ h.lastFlushAt = t
        /\ h.members = g.members
    BY DEF GroupRec
  <1>2. Posting(g, t) = CommitRender(h)
    BY DEF Posting
  <1> HIDE DEF h
  <1> QED BY <1>1, <1>2, CommitRenderType

LEMMA FlushAllType ==
    ASSUME NEW g \in GroupRec, NEW t \in Time, NEW kinds
    PROVE  /\ FlushAll(g, t, kinds) \in GroupRec
           /\ FlushAll(g, t, kinds).posted = g.posted
           /\ FlushAll(g, t, kinds).closed = g.closed
           /\ ~HeartbeatDue(g, t) => /\ FlushAll(g, t, kinds).members = g.members
                                     /\ FlushAll(g, t, kinds).lastFlushAt = g.lastFlushAt
           /\ HeartbeatDue(g, t) =>
                /\ FlushAll(g, t, kinds).lastFlushAt = t
                /\ FlushAll(g, t, kinds).members = CommitRender(g).members
  <1> DEFINE c == CommitRender(g)
  <1>1. c \in GroupRec /\ c.posted = g.posted /\ c.closed = g.closed
    BY CommitRenderType
  <1>2. Flush(g, t) = [c EXCEPT !.lastFlushAt = t]
    BY DEF Flush
  <1> HIDE DEF c
  <1>3. /\ Flush(g, t) \in GroupRec /\ Flush(g, t).posted = g.posted
        /\ Flush(g, t).closed = g.closed /\ Flush(g, t).lastFlushAt = t
        /\ Flush(g, t).members = c.members
    BY <1>1, <1>2 DEF GroupRec
  <1> DEFINE f == IF HeartbeatDue(g, t) THEN Flush(g, t) ELSE g
  <1>4. /\ f \in GroupRec /\ f.posted = g.posted /\ f.closed = g.closed
        /\ HeartbeatDue(g, t) => f.lastFlushAt = t /\ f.members = c.members
        /\ ~HeartbeatDue(g, t) => f = g
    BY <1>3
  <1>5. FlushAll(g, t, kinds) = IF "remind" \in kinds THEN [f EXCEPT !.lastReminderAt = t] ELSE f
    BY DEF FlushAll
  <1> HIDE DEF f
  <1>6. /\ FlushAll(g, t, kinds) \in GroupRec
        /\ FlushAll(g, t, kinds).posted = f.posted
        /\ FlushAll(g, t, kinds).closed = f.closed
        /\ FlushAll(g, t, kinds).members = f.members
        /\ FlushAll(g, t, kinds).lastFlushAt = f.lastFlushAt
    BY <1>4, <1>5 DEF GroupRec
  <1> QED BY <1>4, <1>6 DEF c

LEMMA EvaluateOutcome ==
    ASSUME NEW g \in GroupRec, NEW t \in Time, ~g.closed
    PROVE  LET r == Evaluate(g, t)
           IN  /\ r.group \in GroupRec
               /\ \/ Idle(g, t, r) \/ Discarded(g, t, r) \/ FirstPost(g, t, r)
                  \/ Flushed(g, t, r) \/ Closed(g, t, r)
  <1> DEFINE p == Promote(g, t)
             r == Evaluate(g, t)
  <1>1. /\ p \in GroupRec /\ p.posted = g.posted /\ p.closed = g.closed
        /\ p.lastFlushAt = g.lastFlushAt
        /\ \A s \in Slugs : p.members[s].upSince = g.members[s].upSince
    BY PromoteType
  <1>2. r = IF g.posted THEN EvaluatePosted(p, t) ELSE EvaluateUnposted(p, t)
    BY <1>1 DEF Evaluate
  <1>3. HeartbeatDue(p, t) <=> HeartbeatDue(g, t)
    BY <1>1 DEF HeartbeatDue
  <1>4. CASE ~g.posted
    <2>1. r = EvaluateUnposted(p, t)
      BY <1>2, <1>4
    <2>2. CASE t < p.openedAt + GroupWait
      <3>1. r = Result(p, {}, NoDelta)
        BY <2>1, <2>2 DEF EvaluateUnposted
      <3>2. Idle(g, t, r)
        BY <3>1, <1>1, <1>4 DEF Idle, SameMembers, Result, Redraws
      <3> QED BY <3>1, <3>2, <1>1 DEF Result
    <2>3. CASE ~(t < p.openedAt + GroupWait) /\ InState(p, "down") = {}
      <3>1. r = Result([p EXCEPT !.closed = TRUE], {"discard"}, NoDelta)
        BY <2>1, <2>3 DEF EvaluateUnposted
      <3> DEFINE h == [p EXCEPT !.closed = TRUE]
      <3>2. /\ h \in GroupRec /\ h.posted = p.posted /\ h.closed
            /\ h.members = p.members /\ h.lastFlushAt = p.lastFlushAt
        BY <1>1 DEF GroupRec
      <3>3. r.group = h /\ r.kinds = {"discard"} /\ r.delta = NoDelta
        BY <3>1 DEF Result
      <3> HIDE DEF h
      <3>4. Discarded(g, t, r)
        BY <2>3, <3>2, <3>3, <1>1, <1>4 DEF Discarded, SameMembers, Redraws
      <3> QED BY <3>2, <3>3, <3>4
    <2>4. CASE ~(t < p.openedAt + GroupWait) /\ InState(p, "down") # {}
      <3>1. r = Result(Posting(p, t), {"post_digest"}, NoDelta)
        BY <2>1, <2>4 DEF EvaluateUnposted
      <3>2. FirstPost(g, t, r) /\ r.group \in GroupRec
        BY <3>1, <1>1, <1>4, PostingType DEF FirstPost, Rendered, Result, Redraws
      <3> QED BY <3>2
    <2> QED BY <2>2, <2>3, <2>4
  <1>5. CASE g.posted
    <2>1. r = EvaluatePosted(p, t)
      BY <1>2, <1>5
    <2>2. CASE NothingActive(p)
      <3> DEFINE h == [p EXCEPT !.closed = TRUE]
      <3>1. r = Result(CommitRender(h), {"close"}, Delta(p))
        BY <2>1, <2>2 DEF EvaluatePosted
      <3>2. /\ h \in GroupRec /\ h.posted = p.posted /\ h.closed
            /\ h.members = p.members /\ h.lastFlushAt = p.lastFlushAt
        BY <1>1 DEF GroupRec
      <3> DEFINE c == CommitRender(h)
      <3>3. r.group = c /\ r.kinds = {"close"} /\ r.delta = Delta(p)
        BY <3>1 DEF Result
      <3> HIDE DEF h
      <3>9. /\ c \in GroupRec /\ c.posted = h.posted /\ c.closed = h.closed
            /\ c.lastFlushAt = h.lastFlushAt
            /\ \A s \in Slugs :
                /\ c.members[s].state = h.members[s].state
                /\ c.members[s].upSince = h.members[s].upSince
                /\ c.members[s].rendered = RenderClass(h.members[s].state)
        BY <3>2, CommitRenderType
      <3>4. /\ c \in GroupRec /\ c.posted = g.posted /\ c.closed = h.closed
            /\ c.lastFlushAt = g.lastFlushAt
            /\ \A s \in Slugs :
                /\ c.members[s].state = p.members[s].state
                /\ c.members[s].upSince = g.members[s].upSince
                /\ c.members[s].rendered = RenderClass(p.members[s].state)
        BY <3>9, <3>2, <1>1
      <3> HIDE DEF c
      <3>5. Closed(g, t, r)
        BY <3>2, <3>3, <3>4, <2>2, <1>5 DEF Closed, Rendered, Redraws
      <3> QED BY <3>3, <3>4, <3>5
    <2>3. CASE ~NothingActive(p)
      <3> DEFINE d     == IF HeartbeatDue(p, t) THEN Delta(p) ELSE NoDelta
                 kinds == (IF d # NoDelta THEN {"update"} ELSE {})
                          \cup (IF ReminderDue(p, t) THEN {"remind"} ELSE {})
      <3>1. r = Result(FlushAll(p, t, kinds), kinds, d)
        BY <2>1, <2>3 DEF EvaluatePosted
      <3>2. Redraws(kinds) <=> d # NoDelta
        BY DEF Redraws
      <3> DEFINE f == FlushAll(p, t, kinds)
      <3>3. r.group = f /\ r.kinds = kinds /\ r.delta = d
        BY <3>1 DEF Result
      <3> HIDE DEF kinds
      <3>4. /\ f \in GroupRec /\ f.posted = p.posted /\ f.closed = p.closed
            /\ ~HeartbeatDue(p, t) => /\ f.members = p.members
                                      /\ f.lastFlushAt = p.lastFlushAt
            /\ HeartbeatDue(p, t) => /\ f.lastFlushAt = t
                                     /\ f.members = CommitRender(p).members
        BY <1>1, FlushAllType
      <3> HIDE DEF f
      <3>5. CASE HeartbeatDue(p, t)
        <4>0. \A s \in Slugs :
                /\ CommitRender(p).members[s].state = p.members[s].state
                /\ CommitRender(p).members[s].upSince = p.members[s].upSince
                /\ CommitRender(p).members[s].rendered = RenderClass(p.members[s].state)
          BY <1>1, CommitRenderType
        <4>1. Rendered(g, t, f)
          BY <4>0, <3>4, <3>5, <1>1 DEF Rendered
        <4>2. Flushed(g, t, r)
          BY <4>1, <3>2, <3>3, <3>4, <3>5, <1>1, <1>5 DEF Flushed
        <4> QED BY <4>2, <3>3, <3>4
      <3>6. CASE ~HeartbeatDue(p, t)
        <4>1. Idle(g, t, r)
          BY <3>2, <3>3, <3>4, <3>6, <1>1, <1>3, <1>5 DEF Idle, SameMembers
        <4> QED BY <4>1, <3>3, <3>4
      <3> QED BY <3>5, <3>6
    <2> QED BY <2>2, <2>3
  <1> QED BY <1>4, <1>5
=============================================================================
