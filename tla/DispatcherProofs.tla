-------------------------- MODULE DispatcherProofs ---------------------------
(***************************************************************************)
(* Proofs about Dispatcher: for every set of monitors, every threshold and *)
(* window, with any number of crashes and failures of Slack and the store. *)
(***************************************************************************)
EXTENDS Dispatcher, GroupTheorems, FiniteSetTheorems, TLAPS

-----------------------------------------------------------------------------
(* The inductive invariant. *)

\* An up monitor is in no incident and a down one is in one.
RowOK ==
    \A s \in Slugs :
        /\ row[s].status = "up" => row[s].openedAt = NoTime
        /\ row[s].status = "down" => row[s].openedAt # NoTime

\* The dispatcher holds the incident of s.
Held(s) == s \in indiv \/ pool[s] # NoTime

Routed(s, event) == tick[s].pc = "route" /\ tick[s].event = event

\* An open on its way to the dispatcher announces the row's incident, which
\* the dispatcher does not hold yet.
OpensAreNew ==
    \A s \in Slugs :
        Routed(s, "open") => row[s].openedAt = tick[s].at /\ ~Held(s)

\* The dispatcher holds only incidents that are open, or whose resolve is on
\* its way.
HeldIsOpen ==
    \A s \in Slugs : Held(s) => row[s].openedAt # NoTime \/ Routed(s, "resolve")

\* The pool is only filled in pending mode, when there is no group; the
\* notifier's monitors are not in it.
PoolOK ==
    /\ mode # "pending" => \A s \in Slugs : pool[s] = NoTime
    /\ mode = "pending" => ~live.open
    /\ \A s \in indiv : pool[s] = NoTime

\* The evaluator's clock reading is in the past, and it saves a group it has.
EvaluatorOK ==
    /\ ev.at <= now
    /\ ev.pc \in {"open", "savePromoted", "saveEvaluated"} => live.open /\ mode # "pending"

\* An incident the dispatcher holds is in the burst count or has left the
\* window.
CountedOK ==
    \A s \in Slugs \ Children :
        Held(s) /\ row[s].openedAt # NoTime =>
            \/ downAt[s] = row[s].openedAt
            \/ now - row[s].openedAt >= BurstWindow

Counted == {s \in indiv : downAt[s] # NoTime}

\* Fewer than BurstThreshold monitors of the burst count were announced
\* individually.
CapOK == BurstThreshold > 0 => Cardinality(Counted) < BurstThreshold

\* Unless the store fails, the persisted open group is the live one's, and the
\* notifier's monitors are not active in it.
OwnerOK ==
    ~StoreFails =>
        /\ saved.open => live.open
        /\ live.open => \A s \in indiv :
                            live.g.members[s].state \notin {"down", "recovering"}

Core == RowOK /\ OpensAreNew /\ HeldIsOpen /\ PoolOK /\ EvaluatorOK /\ CountedOK /\ CapOK

\* A decision that is about to be committed still fits the row: only the tick
\* goroutine of the monitor itself moves the row in and out of an incident.
ReadOK ==
    \A s \in Slugs :
        LET t == tick[s]
        IN  t.pc = "commit" =>
                /\ t.next.status \in {"up", "down"}
                /\ t.next.status = "up" <=> t.next.openedAt = NoTime
                /\ t.event = "open" => /\ row[s].openedAt = NoTime
                                       /\ t.next.openedAt = t.at
                /\ t.event = "resolve" => /\ row[s].openedAt # NoTime
                                          /\ t.next.openedAt = NoTime
                /\ t.event \in {"reminder", "none"} => t.next.openedAt = row[s].openedAt

IInv == TypeOK /\ Core /\ ReadOK /\ OwnerOK

-----------------------------------------------------------------------------
(* Lemmas about the operators. *)

LEMMA Times ==
    /\ Time \subseteq Nat /\ 0 \in Time /\ NoTime = -1 /\ NoTime \notin Time
    /\ NoTime \in TimeOrNone /\ 0 \in TimeOrNone
    /\ TimeOrNone \subseteq Int /\ Time \subseteq TimeOrNone
  BY ConfigAssumption DEF Time, NoTime, A!NoTime, TimeOrNone

\* Resume only changes the status, and gives "up" exactly when there is no
\* incident.
LEMMA ResumeIs ==
    ASSUME NEW r \in RowType,
           r.status = "up" => r.openedAt = NoTime,
           r.status = "down" => r.openedAt # NoTime
    PROVE  /\ A!Resume(r) \in RowType
           /\ A!Resume(r).openedAt = r.openedAt
           /\ A!Resume(r).thread = r.thread
           /\ A!Resume(r).status \in {"up", "down"}
           /\ A!Resume(r).status = "up" <=> r.openedAt = NoTime
  BY DEF RowType, A!Resume, A!Status, NoTime

LEMMA StateIs ==
    ASSUME NEW r \in RowType
    PROVE  /\ A!State(r) \in StateType
           /\ A!State(r).status = r.status /\ A!State(r).openedAt = r.openedAt
  BY DEF RowType, StateType, A!State

LEMMA ApplyIs ==
    ASSUME NEW st \in StateType, NEW ok \in BOOLEAN, NEW t \in Time, NEW i
    PROVE  LET a == A!Apply(st, ok, t, i)
           IN  /\ a.event \in A!EventType /\ a.next \in StateType
               /\ a.event = "open" => /\ st.status = "up" /\ a.next.openedAt = t
                                      /\ a.next.status = "down"
               /\ a.event = "resolve" => /\ st.status = "down" /\ a.next.openedAt = NoTime
                                         /\ a.next.status = "up"
               /\ a.event \in {"reminder", "none"} => /\ a.next.openedAt = st.openedAt
                                                      /\ a.next.status = st.status
               /\ a.event = "reminder" => st.status = "down" /\ i > 0
  <1> DEFINE a == A!Apply(st, ok, t, i)
  <1>1. \/ /\ a = [event |-> "open", next |-> [status |-> "down", openedAt |-> t, remindedAt |-> t]]
           /\ st.status = "up"
        \/ /\ a = [event |-> "resolve",
                   next |-> [status |-> "up", openedAt |-> NoTime, remindedAt |-> NoTime]]
           /\ st.status = "down"
        \/ /\ a = [event |-> "reminder", next |-> [st EXCEPT !.remindedAt = t]]
           /\ st.status = "down" /\ i > 0
        \/ a = [event |-> "none", next |-> st]
    BY DEF A!Apply, A!ReminderDue, NoTime
  <1>2. /\ [st EXCEPT !.remindedAt = t] \in StateType
        /\ [st EXCEPT !.remindedAt = t].openedAt = st.openedAt
        /\ [st EXCEPT !.remindedAt = t].status = st.status
    BY Times DEF StateType
  <1>3. /\ [status |-> "down", openedAt |-> t, remindedAt |-> t] \in StateType
        /\ [status |-> "up", openedAt |-> NoTime, remindedAt |-> NoTime] \in StateType
    BY Times DEF StateType, A!Status
  <1> HIDE DEF a
  <1>4. a.event \in A!EventType /\ a.next \in StateType
    BY <1>1, <1>2, <1>3 DEF A!EventType
  <1>5. a.event = "open" => st.status = "up" /\ a.next.openedAt = t /\ a.next.status = "down"
    BY <1>1
  <1>6. a.event = "resolve" =>
            st.status = "down" /\ a.next.openedAt = NoTime /\ a.next.status = "up"
    BY <1>1
  <1>7. a.event \in {"reminder", "none"} =>
            a.next.openedAt = st.openedAt /\ a.next.status = st.status
    <2> DEFINE x == [st EXCEPT !.remindedAt = t]
    <2>1. x.openedAt = st.openedAt /\ x.status = st.status
      BY <1>2
    <2>2. \/ a.event \in {"open", "resolve"}
          \/ a = [event |-> "reminder", next |-> x]
          \/ a = [event |-> "none", next |-> st]
      BY <1>1
    <2> HIDE DEF x
    <2> QED BY <2>1, <2>2
  <1>8. a.event = "reminder" => st.status = "down" /\ i > 0
    BY <1>1
  <1> QED BY <1>4, <1>5, <1>6, <1>7, <1>8 DEF a

LEMMA ApplyCheckIs ==
    ASSUME NEW r \in RowType, NEW n \in StateType, NEW e \in A!EventType
    PROVE  /\ A!ApplyCheck(r, n, e) \in RowType
           /\ A!ApplyCheck(r, n, e).openedAt = n.openedAt
           /\ A!ApplyCheck(r, n, e).status = n.status
  BY DEF RowType, StateType, A!ApplyCheck

LEMMA PauseIs ==
    ASSUME NEW r \in RowType
    PROVE  /\ A!MarkTemporaryPaused(r) \in RowType
           /\ A!MarkTemporaryPaused(r).openedAt = r.openedAt
           /\ A!MarkTemporaryPaused(r).status = "temporary-paused"
  BY DEF RowType, A!MarkTemporaryPaused, A!Status

LEMMA NoLiveType ==
    /\ NoLive \in Live /\ ~NoLive.open
    /\ NoPool \in [Slugs -> TimeOrNone]
    /\ \A s \in Slugs : NoPool[s] = NoTime
    /\ EvIdle \in EvType /\ EvIdle.pc = "idle" /\ EvIdle.at = 0
    /\ TickIdle \in TickType /\ TickIdle.pc = "idle"
  <1>1. NewGroup(0) \in GroupRec
    BY NewGroupType, Times
  <1>2. NoLive \in Live /\ ~NoLive.open
    BY <1>1 DEF NoLive, Live
  <1>3. NoPool \in [Slugs -> TimeOrNone] /\ \A s \in Slugs : NoPool[s] = NoTime
    BY Times DEF NoPool
  <1> HIDE DEF NoPool
  <1>4. EvIdle \in EvType /\ EvIdle.pc = "idle" /\ EvIdle.at = 0
    BY <1>3, Times DEF EvIdle, EvType
  <1>5. TickIdle \in TickType /\ TickIdle.pc = "idle"
    <2>1. A!State(A!NewRow) \in StateType
      BY Times DEF A!State, A!NewRow, StateType, A!Status, NoTime
    <2> QED BY <2>1, Times DEF TickIdle, TickType, A!EventType
  <1> QED BY <1>2, <1>3, <1>4, <1>5

LEMMA BornType ==
    ASSUME NEW t \in Time
    PROVE  /\ Born(t) \in Live /\ Born(t).open
           /\ \A s \in Slugs : Born(t).g.members[s].state = "absent"
  BY NewGroupType DEF Born, Live

\* MarkAllDown turns exactly the members of S down.
LEMMA MarkAllDownIs ==
    ASSUME NEW l \in Live, NEW S \in SUBSET Slugs
    PROVE  /\ MarkAllDown(l, S) \in Live
           /\ MarkAllDown(l, S).open = l.open
           /\ \A s \in Slugs \ S : MarkAllDown(l, S).g.members[s] = l.g.members[s]
  <1> DEFINE m(s) == MarkDown(l.g, s, 0).members[s]
  <1>1. ASSUME NEW s \in Slugs PROVE m(s) \in Member
    BY MarkDownStaged, Times DEF Live, Staged, GroupRec
  <1> HIDE DEF m
  <1>2. CASE ~l.open
    BY <1>2 DEF MarkAllDown
  <1>3. CASE l.open
    <2> DEFINE ms == [s \in Slugs |-> IF s \in S THEN m(s) ELSE l.g.members[s]]
    <2>1. MarkAllDown(l, S) = [l EXCEPT !.g.members = ms]
      BY <1>3 DEF MarkAllDown, m
    <2>2. ms \in [Slugs -> Member] /\ \A s \in Slugs \ S : ms[s] = l.g.members[s]
      BY <1>1 DEF Live, GroupRec
    <2> HIDE DEF ms
    <2>3. l.g \in GroupRec
      BY DEF Live
    <2>4. [l.g EXCEPT !.members = ms] \in GroupRec
          /\ [l.g EXCEPT !.members = ms].members = ms
      BY <2>2, <2>3 DEF GroupRec
    <2>5. [l EXCEPT !.g.members = ms] = [l EXCEPT !.g = [l.g EXCEPT !.members = ms]]
      BY DEF Live
    <2> DEFINE h == [l.g EXCEPT !.members = ms]
    <2>6. h \in GroupRec /\ h.members = ms
      BY <2>4
    <2> HIDE DEF h
    <2>7. [l EXCEPT !.g = h] \in Live /\ [l EXCEPT !.g = h].open = l.open
          /\ [l EXCEPT !.g = h].g = h
      BY <2>6 DEF Live
    <2> QED BY <2>1, <2>2, <2>5, <2>6, <2>7 DEF h
  <1> QED BY <1>2, <1>3

LEMMA EnsureGroupIs ==
    ASSUME live \in Live, saved \in Live, NEW t \in Time, NEW e \in EnsureGroup(t)
    PROVE  /\ e.live \in Live /\ e.saved \in Live
           /\ live.open => e.live = live /\ e.saved = saved
           /\ ~StoreFails => e.live.open
           /\ ~live.open /\ saved.open /\ e.live.open => e.live = saved /\ e.saved = saved
           /\ ~live.open /\ ~saved.open /\ e.live.open => e.live = Born(t)
  <1>1. CASE live.open
    BY <1>1 DEF EnsureGroup
  <1>2. CASE ~live.open
    <2>1. \/ e = [live |-> saved, saved |-> saved] /\ saved.open
          \/ e = [live |-> Born(t), saved |-> Born(t)] /\ ~saved.open
          \/ e = [live |-> NoLive, saved |-> saved] /\ StoreFails
      BY <1>2 DEF EnsureGroup
    <2> QED BY <2>1, <1>2, NoLiveType, BornType
  <1> QED BY <1>1, <1>2

\* MarkAllDown turns every monitor of S down, and changes nothing else.
LEMMA MarkAllDownDowns ==
    ASSUME NEW l \in Live, NEW S \in SUBSET Slugs
    PROVE  /\ MarkAllDown(l, S).g.closed = l.g.closed
           /\ l.open => \A s \in S : MarkAllDown(l, S).g.members[s].state = "down"
  <1> DEFINE m(s) == MarkDown(l.g, s, 0).members[s]
  <1>1. ASSUME NEW s \in Slugs PROVE m(s) \in Member /\ m(s).state = "down"
    BY MarkDownStaged, Times DEF Live, Staged, GroupRec
  <1> HIDE DEF m
  <1>2. CASE ~l.open
    BY <1>2 DEF MarkAllDown
  <1>3. CASE l.open
    <2> DEFINE ms == [s \in Slugs |-> IF s \in S THEN m(s) ELSE l.g.members[s]]
    <2>1. MarkAllDown(l, S) = [l EXCEPT !.g.members = ms]
      BY <1>3 DEF MarkAllDown, m
    <2>2. \A s \in S : ms[s].state = "down"
      BY <1>1
    <2> HIDE DEF ms
    <2>3. [l EXCEPT !.g.members = ms].g.members = ms
          /\ [l EXCEPT !.g.members = ms].g.closed = l.g.closed
      BY DEF Live, GroupRec
    <2> QED BY <2>1, <2>2, <2>3
  <1> QED BY <1>2, <1>3

\* A group that EnsureGroup returns is not closed.
LEMMA EnsureOpen ==
    ASSUME live \in Live, saved \in Live, NEW t \in Time, NEW e \in EnsureGroup(t),
           live.open => ~live.g.closed, saved.open => ~saved.g.closed
    PROVE  /\ e.live.open => ~e.live.g.closed
           /\ e.saved.open => ~e.saved.g.closed
  <1>1. ~Born(t).g.closed
    BY NewGroupType DEF Born
  <1>2. \/ e = [live |-> live, saved |-> saved] /\ live.open
        \/ e = [live |-> saved, saved |-> saved] /\ saved.open
        \/ e = [live |-> Born(t), saved |-> Born(t)]
        \/ e = [live |-> NoLive, saved |-> saved]
    BY DEF EnsureGroup
  <1> QED BY <1>1, <1>2, NoLiveType

\* Evaluate only takes members out of the active states.
LEMMA EvaluateKeeps ==
    ASSUME NEW g \in GroupRec, NEW t \in Time
    PROVE  /\ Evaluate(g, t).group \in GroupRec
           /\ \A s \in Slugs :
                Evaluate(g, t).group.members[s].state \in {"down", "recovering"} =>
                    g.members[s].state \in {"down", "recovering"}
  <1>1. CASE g.closed
    BY <1>1 DEF Evaluate, Result
  <1>2. CASE ~g.closed
    <2> DEFINE r == Evaluate(g, t)
               p == Promote(g, t)
    <2>1. r.group \in GroupRec /\ \A s \in Slugs : r.group.members[s].state = p.members[s].state
      BY <1>2, EvaluateOutcome
      DEF Idle, Discarded, FirstPost, Flushed, Closed, SameMembers, Rendered
    <2>2. \A s \in Slugs : p.members[s].state \in {"down", "recovering"} =>
                             g.members[s].state \in {"down", "recovering"}
      BY PromoteType
    <2> QED BY <2>1, <2>2
  <1> QED BY <1>1, <1>2

LEMMA OpenKeeps ==
    ASSUME NEW g \in GroupRec, NEW t \in Time
    PROVE  /\ Open(g, t).group \in GroupRec
           /\ \A s \in Slugs : Open(g, t).group.members[s].state = g.members[s].state
  <1>1. CASE g.posted \/ g.closed
    BY <1>1 DEF Open, Result
  <1>2. CASE ~(g.posted \/ g.closed)
    <2>1. Open(g, t).group = Posting(g, t)
      BY <1>2 DEF Open, Result
    <2> QED BY <2>1, <1>2, PostingType
  <1> QED BY <1>1, <1>2

\* The first post does not close the group.
LEMMA OpenStaysOpen ==
    ASSUME NEW g \in GroupRec, NEW t \in Time, ~g.closed
    PROVE  ~Open(g, t).group.closed
  BY PostingType DEF Open, Result

LEMMA LiveGroupExcept ==
    ASSUME NEW l \in Live, NEW h \in GroupRec
    PROVE  /\ [l EXCEPT !.g = h] \in Live /\ [l EXCEPT !.g = h].g = h
           /\ [l EXCEPT !.g = h].open = l.open
  BY DEF Live

LEMMA LiveExcept ==
    ASSUME NEW l \in Live, NEW h \in GroupRec, NEW b \in BOOLEAN
    PROVE  /\ [l EXCEPT !.g = h, !.ts = b] \in Live /\ [l EXCEPT !.g = h, !.ts = b].g = h
           /\ [l EXCEPT !.g = h, !.ts = b].open = l.open
  BY DEF Live

LEMMA MarkUpKeeps ==
    ASSUME NEW g \in GroupRec, NEW s \in Slugs, NEW t \in Time
    PROVE  /\ MarkUp(g, s, t) \in GroupRec
           /\ \A x \in Slugs : x # s => MarkUp(g, s, t).members[x] = g.members[x]
  BY MarkUpStaged DEF Staged

LEMMA MarkPausedKeeps ==
    ASSUME NEW g \in GroupRec, NEW s \in Slugs, NEW t \in Time
    PROVE  /\ MarkPaused(g, s, t) \in GroupRec
           /\ MarkPaused(g, s, t).members[s].state \notin {"down", "recovering"}
           /\ \A x \in Slugs : x # s => MarkPaused(g, s, t).members[x] = g.members[x]
  <1>1. CASE g.members[s].state \in {"absent", "paused"}
    BY <1>1 DEF MarkPaused
  <1>2. CASE g.members[s].state \notin {"absent", "paused"}
    <2>1. [g EXCEPT !.members[s].state = "paused"].members[s].state = "paused"
      BY DEF GroupRec, Member
    <2>2. MarkPaused(g, s, t).members[s].state = "paused"
      BY <1>2, <2>1 DEF MarkPaused
    <2> QED BY <2>2, MarkPausedStaged DEF Staged
  <1> QED BY <1>1, <1>2

LEMMA SaveType ==
    ASSUME Save, live \in Live, saved \in Live
    PROVE  /\ saved' \in {saved, NoLive, live}
           /\ saved' \in Live
           /\ ~StoreFails => saved' = IF live.g.closed THEN NoLive ELSE live
  BY NoLiveType DEF Save, StoreOK

LEMMA PruneDownIs ==
    ASSUME downAt \in [Slugs -> TimeOrNone], NEW t \in Time
    PROVE  /\ PruneDown(t) \in [Slugs -> TimeOrNone]
           /\ \A s \in Slugs : \/ PruneDown(t)[s] = downAt[s]
                               \/ /\ PruneDown(t)[s] = NoTime
                                  /\ t - downAt[s] >= BurstWindow
  BY Times DEF PruneDown

-----------------------------------------------------------------------------
(* Type correctness. *)

\* What a probe decides: the record it leaves with the tick goroutine.
LEMMA ProbeIs ==
    ASSUME TypeOK, RowOK, NEW s \in Slugs, NEW ok \in BOOLEAN, Probe(s, ok)
    PROVE  \E t \in TickType :
              /\ tick' = [tick EXCEPT ![s] = t]
              /\ t.pc = "commit"
              /\ t.next.status \in {"up", "down"}
              /\ t.next.status = "up" <=> t.next.openedAt = NoTime
              /\ t.event = "open" => row[s].openedAt = NoTime /\ t.next.openedAt = t.at
              /\ t.event = "resolve" => row[s].openedAt # NoTime /\ t.next.openedAt = NoTime
              /\ t.event \in {"reminder", "none"} => t.next.openedAt = row[s].openedAt
              /\ t.event = "reminder" => row[s].openedAt # NoTime /\ ReminderInterval > 0
              /\ t.at = now
  <1> DEFINE r == A!Resume(row[s])
             st == A!State(r)
             a == A!Apply(st, ok, now, ReminderInterval)
             t == [pc |-> "commit", event |-> a.event, at |-> now, ts |-> r.thread,
                   next |-> a.next]
  <1>1. /\ r \in RowType /\ r.openedAt = row[s].openedAt
        /\ r.status \in {"up", "down"} /\ (r.status = "up" <=> r.openedAt = NoTime)
    BY ResumeIs DEF TypeOK, RowOK
  <1>2. now \in Time /\ NoTime \notin Time
    BY Times DEF TypeOK
  <1>3. tick' = [tick EXCEPT ![s] = t]
    BY DEF Probe
  <1> HIDE DEF r
  <1>4. st \in StateType /\ st.status = r.status /\ st.openedAt = r.openedAt
    BY <1>1, StateIs
  <1> HIDE DEF st
  <1>5. /\ a.event \in A!EventType /\ a.next \in StateType
        /\ a.event = "open" => st.status = "up" /\ a.next.openedAt = now /\ a.next.status = "down"
        /\ a.event = "resolve" => /\ st.status = "down" /\ a.next.openedAt = NoTime
                                  /\ a.next.status = "up"
        /\ a.event \in {"reminder", "none"} => /\ a.next.openedAt = st.openedAt
                                               /\ a.next.status = st.status
        /\ a.event = "reminder" => st.status = "down" /\ ReminderInterval > 0
    BY <1>2, <1>4, ApplyIs
  <1> HIDE DEF a
  <1>6. /\ t \in TickType /\ t.pc = "commit" /\ t.event = a.event /\ t.at = now
        /\ t.next = a.next
    BY <1>1, <1>2, <1>5 DEF TickType, RowType
  <1> HIDE DEF t
  <1>7. a.event \in {"open", "resolve", "reminder", "none"}
    BY <1>5 DEF A!EventType
  <1> QED BY <1>1, <1>2, <1>3, <1>4, <1>5, <1>6, <1>7

LEMMA ProbeType ==
    ASSUME TypeOK, RowOK, NEW s \in Slugs, NEW ok \in BOOLEAN, Probe(s, ok)
    PROVE  TypeOK'
  <1>1. tick' \in [Slugs -> TickType]
    BY ProbeIs DEF TypeOK
  <1> QED BY <1>1 DEF Probe, TypeOK, chan

LEMMA ToRouteIs ==
    ASSUME NEW t \in TickType
    PROVE  /\ ToRoute(t) \in TickType
           /\ IF t.event = "none" THEN ToRoute(t).pc = "idle"
              ELSE /\ ToRoute(t).pc = "route" /\ ToRoute(t).event = t.event
                   /\ ToRoute(t).at = t.at /\ ToRoute(t).ts = t.ts
  <1>1. TickIdle.next \in StateType /\ TickIdle \in TickType /\ TickIdle.pc = "idle"
    BY NoLiveType DEF TickType
  <1> HIDE DEF TickIdle
  <1> QED BY <1>1 DEF ToRoute, TickType

LEMMA CommitType ==
    ASSUME TypeOK, NEW s \in Slugs, Commit(s)
    PROVE  TypeOK'
  <1>1. tick[s] \in TickType /\ row[s] \in RowType /\ tick[s].event \in A!EventType
        /\ tick[s].next \in StateType
    BY DEF TypeOK, TickType
  <1>2. /\ row' = [row EXCEPT ![s] = A!ApplyCheck(row[s], tick[s].next, tick[s].event)]
        /\ tick' = [tick EXCEPT ![s] = ToRoute(tick[s])]
        /\ msgs' = IF tick[s].event = "resolve" THEN [msgs EXCEPT ![s] = Orphan(s)] ELSE msgs
        /\ UNCHANGED <<now, due, mode, pool, pendingDue, downAt, indiv, ev, live, saved,
                       crashes>>
    BY DEF Commit, chan
  <1>3. row' \in [Slugs -> RowType]
    BY <1>1, <1>2, ApplyCheckIs DEF TypeOK
  <1>4. tick' \in [Slugs -> TickType]
    BY <1>1, <1>2, ToRouteIs DEF TypeOK
  <1>5. Orphan(s) \in Seq(Colour)
    <2>1. msgs[s] \in Seq(Colour)
      BY DEF TypeOK
    <2>2. /\ DOMAIN msgs[s] = 1..Len(msgs[s]) /\ Len(msgs[s]) \in Nat
          /\ \A i \in 1..Len(msgs[s]) : msgs[s][i] \in Colour
      BY <2>1
    <2> DEFINE f == [i \in 1..Len(msgs[s]) |-> IF msgs[s][i] = "red" /\ i # tick[s].ts
                                              THEN "orphan" ELSE msgs[s][i]]
    <2>3. f \in [1..Len(msgs[s]) -> Colour]
      BY <2>2 DEF Colour
    <2>4. Orphan(s) = f
      BY <2>2 DEF Orphan
    <2> HIDE DEF f
    <2> QED BY <2>2, <2>3, <2>4
  <1>6. msgs' \in [Slugs -> Seq(Colour)]
    BY <1>2, <1>5 DEF TypeOK
  <1>7. claimed' \in [Slugs -> Nat \cup {NoTime}]
    <2>1. claimed' = claimed \/ claimed' = [claimed EXCEPT ![s] = NoTime]
      BY DEF Commit
    <2> QED BY <2>1 DEF TypeOK
  <1> QED BY <1>2, <1>3, <1>4, <1>6, <1>7 DEF TypeOK

LEMMA PoolTypes ==
    ASSUME TypeOK, NEW s \in Slugs, NEW t \in Time
    PROVE  /\ [pool EXCEPT ![s] = t] \in [Slugs -> TimeOrNone]
           /\ [pool EXCEPT ![s] = NoTime] \in [Slugs -> TimeOrNone]
           /\ [NoPool EXCEPT ![s] = t] \in [Slugs -> TimeOrNone]
           /\ [downAt EXCEPT ![s] = t] \in [Slugs -> TimeOrNone]
           /\ [downAt EXCEPT ![s] = NoTime] \in [Slugs -> TimeOrNone]
           /\ Deadline(t) \in Nat
  BY Times, NoLiveType, DispatcherAssumption DEF TypeOK, Deadline

LEMMA DropFromPoolType ==
    ASSUME TypeOK, NEW s \in Slugs, DropFromPool(s)
    PROVE  /\ pool' \in [Slugs -> TimeOrNone]
           /\ mode' \in {"individual", "pending", "group"}
           /\ pendingDue' \in Nat
  BY PoolTypes, Times DEF TypeOK, DropFromPool

LEMMA TickTypes ==
    ASSUME TypeOK, NEW s \in Slugs
    PROVE  /\ [tick EXCEPT ![s] = TickIdle] \in [Slugs -> TickType]
           /\ \A pc \in {"route", "notify", "thread"} :
                [tick EXCEPT ![s].pc = pc] \in [Slugs -> TickType]
  BY NoLiveType DEF TypeOK, TickType

LEMMA TickThreadType ==
    ASSUME TypeOK, NEW s \in Slugs, NEW n \in Nat
    PROVE  [tick EXCEPT ![s].pc = "thread", ![s].ts = n] \in [Slugs -> TickType]
  <1>1. tick \in [Slugs -> TickType]
    BY DEF TypeOK
  <1>2. [tick[s] EXCEPT !.pc = "thread", !.ts = n] \in TickType
    BY <1>1 DEF TickType
  <1> DEFINE r == [tick[s] EXCEPT !.pc = "thread", !.ts = n]
  <1>3. [tick EXCEPT ![s].pc = "thread", ![s].ts = n] = [tick EXCEPT ![s] = r]
    BY <1>1 DEF TickType
  <1> HIDE DEF r
  <1>4. r \in TickType
    BY <1>2 DEF r
  <1> QED BY <1>1, <1>3, <1>4

LEMMA RouteOpenType ==
    ASSUME TypeOK, NEW s \in Slugs, RouteOpen(s)
    PROVE  TypeOK'
  <1> DEFINE t == tick[s].at
  <1>1. t \in Time /\ live \in Live /\ saved \in Live
    BY DEF TypeOK, TickType
  <1>2. live' \in Live /\ saved' \in Live
    <2>1. CASE Mode = "group"
      <3>1. PICK e \in EnsureGroup(t) : live' = MarkAllDown(e.live, {s}) /\ saved' = e.saved
        BY <2>1 DEF RouteOpen
      <3>2. e.live \in Live /\ e.saved \in Live
        BY <1>1, EnsureGroupIs
      <3> QED BY <3>1, <3>2, MarkAllDownIs
    <2>2. CASE Mode # "group"
      BY <2>2, <1>1 DEF RouteOpen
    <2> QED BY <2>1, <2>2
  <1>3. /\ downAt' = [downAt EXCEPT ![s] = t]
        /\ tick' = [tick EXCEPT ![s] = TickIdle]
        /\ pool' \in {pool, [pool EXCEPT ![s] = t], [NoPool EXCEPT ![s] = t]}
        /\ mode' \in {"group", "pending", mode}
        /\ pendingDue' \in {pendingDue, Deadline(t)}
        /\ UNCHANGED <<now, due, row, indiv, ev, msgs, claimed, crashes>>
    BY DEF RouteOpen, Return
  <1> HIDE DEF t
  <1>p. /\ [pool EXCEPT ![s] = t] \in [Slugs -> TimeOrNone]
        /\ [NoPool EXCEPT ![s] = t] \in [Slugs -> TimeOrNone]
        /\ [downAt EXCEPT ![s] = t] \in [Slugs -> TimeOrNone]
        /\ Deadline(t) \in Nat
    BY <1>1, PoolTypes
  <1>4. pool' \in [Slugs -> TimeOrNone] /\ downAt' \in [Slugs -> TimeOrNone]
        /\ mode' \in {"individual", "pending", "group"} /\ pendingDue' \in Nat
    <2>1. pool' \in [Slugs -> TimeOrNone]
      BY <1>3, <1>p, Zenon DEF TypeOK
    <2>2. downAt' \in [Slugs -> TimeOrNone]
      BY <1>3, <1>p
    <2>3. mode' \in {"individual", "pending", "group"} /\ pendingDue' \in Nat
      BY <1>3, <1>p DEF TypeOK
    <2> QED BY <2>1, <2>2, <2>3
  <1>5. tick' \in [Slugs -> TickType]
    BY <1>3, TickTypes
  <1> QED BY <1>2, <1>3, <1>4, <1>5 DEF TypeOK

LEMMA RouteResolveType ==
    ASSUME TypeOK, NEW s \in Slugs, RouteResolve(s)
    PROVE  TypeOK'
  <1> DEFINE t == tick[s].at
             h == MarkUp(live.g, s, t)
  <1>1. t \in Time /\ live \in Live
    BY DEF TypeOK, TickType
  <1>2. h \in GroupRec
    BY <1>1, MarkUpKeeps DEF Live
  <1>3. /\ downAt' = [downAt EXCEPT ![s] = NoTime]
        /\ indiv' = indiv \ {s}
        /\ live' \in {live, [live EXCEPT !.g = h]}
        /\ tick' \in {[tick EXCEPT ![s] = TickIdle], [tick EXCEPT ![s].pc = "notify"]}
        /\ \/ UNCHANGED <<pool, pendingDue>> /\ mode' = Mode
           \/ DropFromPool(s)
        /\ UNCHANGED <<now, due, row, ev, saved, msgs, claimed, crashes>>
    BY DEF RouteResolve, ClearDown, Return, FlushSink
  <1> HIDE DEF t, h
  <1>4. live' \in Live
    BY <1>1, <1>2, <1>3, LiveGroupExcept
  <1>5. pool' \in [Slugs -> TimeOrNone] /\ pendingDue' \in Nat
        /\ mode' \in {"individual", "pending", "group"}
    BY <1>3, DropFromPoolType DEF TypeOK, Mode
  <1>6. tick' \in [Slugs -> TickType]
    BY <1>3, TickTypes
  <1>7. downAt' \in [Slugs -> TimeOrNone] /\ indiv' \subseteq Slugs
    BY <1>1, <1>3, PoolTypes DEF TypeOK
  <1> QED BY <1>3, <1>4, <1>5, <1>6, <1>7 DEF TypeOK

LEMMA PauseType ==
    ASSUME TypeOK, NEW s \in Slugs, Pause(s)
    PROVE  TypeOK'
  <1> DEFINE h == MarkPaused(live.g, s, now)
  <1>1. now \in Time /\ live \in Live
    BY DEF TypeOK
  <1>2. h \in GroupRec
    BY <1>1, MarkPausedKeeps DEF Live
  <1>3. /\ downAt' = [downAt EXCEPT ![s] = NoTime]
        /\ live' \in {live, [live EXCEPT !.g = h]}
        /\ \/ UNCHANGED <<pool, pendingDue>> /\ mode' \in {"group", mode}
           \/ DropFromPool(s)
        /\ UNCHANGED <<now, due, row, tick, indiv, ev, saved, msgs, claimed, crashes>>
    BY DEF Pause, ForgetDown
  <1> HIDE DEF h
  <1>4. live' \in Live
    BY <1>1, <1>2, <1>3, LiveGroupExcept
  <1>5. pool' \in [Slugs -> TimeOrNone] /\ pendingDue' \in Nat
        /\ mode' \in {"individual", "pending", "group"}
    BY <1>3, DropFromPoolType DEF TypeOK
  <1>6. downAt' \in [Slugs -> TimeOrNone]
    BY <1>1, <1>3, PoolTypes DEF TypeOK
  <1> QED BY <1>3, <1>4, <1>5, <1>6 DEF TypeOK

LEMMA PauseRowIs ==
    ASSUME TypeOK, RowOK, NEW s \in Slugs, PauseRow(s)
    PROVE  /\ TypeOK' /\ RowOK'
           /\ \A x \in Slugs : row'[x].openedAt = row[x].openedAt
           /\ UNCHANGED <<now, tick, mode, pool, downAt, indiv, ev, live, saved>>
  <1> DEFINE r == A!MarkTemporaryPaused(row[s])
  <1>1. r \in RowType /\ r.openedAt = row[s].openedAt /\ r.status = "temporary-paused"
    BY PauseIs DEF TypeOK
  <1>2. /\ row' = [row EXCEPT ![s] = r]
        /\ UNCHANGED <<now, due, tick, mode, pool, pendingDue, downAt, indiv, ev, live, saved,
                       msgs, claimed, crashes>>
    BY DEF PauseRow, chan
  <1> HIDE DEF r
  <1>3. row'[s] = r /\ (\A x \in Slugs : x # s => row'[x] = row[x])
        /\ row' \in [Slugs -> RowType]
    BY <1>1, <1>2 DEF TypeOK
  <1>4. TypeOK'
    BY <1>2, <1>3 DEF TypeOK
  <1>5. \A x \in Slugs : row'[x].openedAt = row[x].openedAt
    BY <1>1, <1>3
  <1>6. RowOK'
    BY <1>1, <1>3 DEF RowOK, NoTime
  <1> QED BY <1>2, <1>4, <1>5, <1>6

LEMMA EvTypes ==
    ASSUME TypeOK
    PROVE  /\ \A pc \in {"pending", "probing", "open", "savePromoted", "flush", "thread",
                         "groups", "saveEvaluated"} :
                /\ [ev EXCEPT !.pc = pc] \in EvType
                /\ [ev EXCEPT !.pc = pc].pc = pc /\ [ev EXCEPT !.pc = pc].at = ev.at
                /\ [ev EXCEPT !.pc = pc, !.todo = pool] \in EvType
                /\ [EvIdle EXCEPT !.pc = pc, !.at = now] \in EvType
           /\ \A s \in Slugs :
                /\ [ev EXCEPT !.todo[s] = NoTime] \in EvType
                /\ \A n \in Nat : [ev EXCEPT !.pc = "thread", !.todo[s] = NoTime,
                                             !.cur = {s}, !.ts = n] \in EvType
           /\ [ev EXCEPT !.pc = "flush", !.cur = {}, !.ts = 0] \in EvType
           /\ ev.at \in Time
  BY NoLiveType, Times DEF TypeOK, EvType

LEMMA RowThreadType ==
    ASSUME TypeOK, NEW s \in Slugs, NEW n \in Nat, SetUptimeThread(s, n)
    PROVE  /\ row' \in [Slugs -> RowType]
           /\ \A x \in Slugs : /\ row'[x].openedAt = row[x].openedAt
                               /\ row'[x].status = row[x].status
  <1>1. row \in [Slugs -> RowType]
    BY DEF TypeOK
  <1>2. row' = row \/ row' = [row EXCEPT ![s].thread = n]
    BY DEF SetUptimeThread
  <1>3. /\ [row EXCEPT ![s].thread = n] \in [Slugs -> RowType]
        /\ \A x \in Slugs : /\ [row EXCEPT ![s].thread = n][x].openedAt = row[x].openedAt
                            /\ [row EXCEPT ![s].thread = n][x].status = row[x].status
    BY <1>1 DEF RowType
  <1> QED BY <1>1, <1>2, <1>3

LEMMA PostParentType ==
    ASSUME TypeOK, NEW s \in Slugs, NEW c \in Colour, PostParent(s, c)
    PROVE  /\ msgs' \in [Slugs -> Seq(Colour)]
           /\ Len(msgs[s]) + 1 \in Nat
  <1>1. msgs[s] \in Seq(Colour)
    BY DEF TypeOK
  <1>2. Append(msgs[s], c) \in Seq(Colour) /\ Len(msgs[s]) \in Nat
    BY <1>1
  <1> QED BY <1>2 DEF TypeOK, PostParent

LEMMA NotifyType ==
    ASSUME TypeOK, NEW s \in Slugs, Notify(s)
    PROVE  TypeOK'
  <1>1. CASE NotifyResolve(s)
    <2>1. tick' \in [Slugs -> TickType]
      BY <1>1, TickTypes DEF NotifyResolve, Return
    <2>2. msgs' \in [Slugs -> Seq(Colour)]
      <3>1. msgs[s] \in Seq(Colour)
        BY DEF TypeOK
      <3>2. \A i : [msgs[s] EXCEPT ![i] = "green"] \in Seq(Colour)
        <4> DEFINE n == Len(msgs[s])
        <4>1. n \in Nat /\ msgs[s] \in [1..n -> Colour]
          BY <3>1
        <4> HIDE DEF n
        <4>2. \A i : [msgs[s] EXCEPT ![i] = "green"] \in [1..n -> Colour]
          BY <4>1 DEF Colour
        <4>3. \A f \in [1..n -> Colour] : f \in Seq(Colour)
          BY <4>1
        <4> QED BY <4>2, <4>3
      <3> QED BY <1>1, <3>2 DEF NotifyResolve, TypeOK
    <2> QED BY <1>1, <2>1, <2>2 DEF NotifyResolve, TypeOK, chan
  <1>2. CASE NotifyReminder(s)
    <2>1. CASE PostParent(s, "red")
               /\ tick' = [tick EXCEPT ![s].pc = "thread", ![s].ts = Len(msgs[s]) + 1]
      <3>1. msgs' \in [Slugs -> Seq(Colour)] /\ Len(msgs[s]) + 1 \in Nat
        BY <2>1, PostParentType DEF Colour
      <3>2. tick' \in [Slugs -> TickType]
        BY <2>1, <3>1, TickThreadType
      <3>3. UNCHANGED <<now, due, row, chan, ev, live, saved, claimed, crashes>>
        BY <1>2 DEF NotifyReminder
      <3> QED BY <3>1, <3>2, <3>3 DEF TypeOK, chan
    <2>2. CASE Return(s) /\ UNCHANGED msgs
      <3>1. tick' \in [Slugs -> TickType]
        BY <2>2, TickTypes DEF Return
      <3> QED BY <1>2, <2>2, <3>1 DEF NotifyReminder, TypeOK, chan
    <2> QED BY <1>2, <2>1, <2>2 DEF NotifyReminder
  <1>3. CASE StoreFreshParent(s)
    <2>1. tick' \in [Slugs -> TickType]
      BY <1>3, TickTypes DEF StoreFreshParent, Return
    <2>2. row' \in [Slugs -> RowType]
      BY <1>3, RowThreadType DEF StoreFreshParent, TypeOK, TickType
    <2> QED BY <1>3, <2>1, <2>2 DEF StoreFreshParent, TypeOK, chan
  <1> QED BY <1>1, <1>2, <1>3 DEF Notify

LEMMA FlushType ==
    ASSUME TypeOK, NEW s \in Slugs, FlushOpen(s) \/ StoreOpenThread(s)
    PROVE  TypeOK'
  <1>1. CASE FlushOpen(s)
    <2> DEFINE c == IF row[s].openedAt = ev.todo[s] THEN "red" ELSE "orphan"
    <2>1. CASE PostParent(s, c)
               /\ ev' = [ev EXCEPT !.pc = "thread", !.todo[s] = NoTime,
                                   !.cur = {s}, !.ts = Len(msgs[s]) + 1]
      <3>1. c \in Colour
        BY DEF Colour
      <3> HIDE DEF c
      <3>2. msgs' \in [Slugs -> Seq(Colour)] /\ Len(msgs[s]) + 1 \in Nat
        BY <2>1, <3>1, PostParentType
      <3>3. ev' \in EvType
        BY <2>1, <3>2, EvTypes
      <3> QED BY <1>1, <3>2, <3>3 DEF FlushOpen, TypeOK, chan
    <2>2. CASE ev' = [ev EXCEPT !.todo[s] = NoTime] /\ UNCHANGED msgs
      BY <1>1, <2>2, EvTypes DEF FlushOpen, TypeOK, chan
    <2> QED BY <1>1, <2>1, <2>2 DEF FlushOpen
  <1>2. CASE StoreOpenThread(s)
    <2>1. row' \in [Slugs -> RowType]
      BY <1>2, RowThreadType DEF StoreOpenThread, TypeOK, EvType
    <2>2. ev' \in EvType
      BY <1>2, EvTypes DEF StoreOpenThread
    <2> QED BY <1>2, <2>1, <2>2 DEF StoreOpenThread, TypeOK, chan
  <1> QED BY <1>1, <1>2

LEMMA DecideType ==
    ASSUME TypeOK, PromotePool \/ FlushPool
    PROVE  TypeOK'
  <1>0. ev.at \in Time /\ live \in Live /\ saved \in Live /\ Members(pool) \subseteq Slugs
    BY EvTypes DEF TypeOK, Members
  <1>1. downAt' \in [Slugs -> TimeOrNone]
    BY <1>0, PruneDownIs DEF PromotePool, FlushPool, TypeOK
  <1>2. CASE PromotePool
    <2>0. PICK t \in Time : \E e \in EnsureGroup(t) :
            /\ live' = MarkAllDown(e.live, Members(pool))
            /\ saved' = e.saved
            /\ ev' = [ev EXCEPT !.pc = IF e.live.open THEN "open" ELSE "groups"]
      BY <1>2 DEF PromotePool
    <2>1. PICK e \in EnsureGroup(t) :
            /\ live' = MarkAllDown(e.live, Members(pool))
            /\ saved' = e.saved
            /\ ev' = [ev EXCEPT !.pc = IF e.live.open THEN "open" ELSE "groups"]
      BY <2>0
    <2>2. e.live \in Live /\ e.saved \in Live
      BY <1>0, EnsureGroupIs
    <2>3. live' \in Live /\ saved' \in Live
      BY <1>0, <2>1, <2>2, MarkAllDownIs
    <2>4. ev' \in EvType
      BY <2>1, EvTypes
    <2>5. /\ mode' = "group" /\ pool' = NoPool /\ pendingDue' = 0
          /\ UNCHANGED <<now, due, row, tick, indiv, msgs, claimed, crashes>>
      BY <1>2 DEF PromotePool, LeavePending
    <2> QED BY <1>1, <2>3, <2>4, <2>5, NoLiveType DEF TypeOK
  <1>3. CASE FlushPool
    <2>1. /\ mode' = "individual" /\ pool' = NoPool /\ pendingDue' = 0
          /\ indiv' = indiv \cup Members(pool)
          /\ ev' = [ev EXCEPT !.pc = "flush", !.todo = pool]
          /\ UNCHANGED <<now, due, row, tick, live, saved, msgs, crashes>>
      BY <1>3 DEF FlushPool, LeavePending, TakeIndividual
    <2>2. ev' \in EvType
      BY <2>1, EvTypes
    <2>3. claimed' \in [Slugs -> Nat \cup {NoTime}]
      BY <1>3 DEF FlushPool, TypeOK
    <2> QED BY <1>0, <1>1, <2>1, <2>2, <2>3, NoLiveType DEF TypeOK
  <1> QED BY <1>2, <1>3

LEMMA GroupPassType ==
    ASSUME TypeOK, OpenDigest \/ SavePromoted \/ EvaluateGroup \/ SaveEvaluated
    PROVE  TypeOK'
  <1>0. ev.at \in Time /\ live \in Live /\ saved \in Live /\ live.g \in GroupRec
    BY EvTypes DEF TypeOK, Live
  <1>1. CASE OpenDigest
    <2>1. PICK ok \in SlackOK :
            LET r == Open(live.g, ev.at)
            IN  /\ live' = [live EXCEPT !.g = r.group, !.ts = Posted(live, r.kinds, ok)]
                /\ ev' = [ev EXCEPT !.pc = IF r.kinds = {} THEN "groups" ELSE "savePromoted"]
      BY <1>1 DEF OpenDigest
    <2>2. \A k : Posted(live, k, ok) \in BOOLEAN
      BY <1>0 DEF Posted, Live, SlackOK
    <2>3. live' \in Live
      BY <1>0, <2>1, <2>2, OpenKeeps, LiveExcept
    <2>4. ev' \in EvType
      BY <2>1, EvTypes
    <2> QED BY <1>1, <2>3, <2>4 DEF OpenDigest, TypeOK, chan
  <1>2. CASE SavePromoted
    <2>1. saved' \in Live
      BY <1>0, <1>2, SaveType DEF SavePromoted
    <2>2. ev' \in EvType
      BY <1>2, EvTypes DEF SavePromoted
    <2> QED BY <1>2, <2>1, <2>2 DEF SavePromoted, TypeOK, chan
  <1>3. CASE EvaluateGroup
    <2>1. PICK ok \in SlackOK :
            LET r == Evaluate(live.g, ev.at)
            IN  live' = [live EXCEPT !.g = r.group, !.ts = Posted(live, r.kinds, ok)]
      BY <1>3 DEF EvaluateGroup
    <2>2. \A k : Posted(live, k, ok) \in BOOLEAN
      BY <1>0 DEF Posted, Live, SlackOK
    <2>3. live' \in Live
      BY <1>0, <2>1, <2>2, EvaluateKeeps, LiveExcept
    <2>4. ev' \in EvType
      BY <1>3, EvTypes DEF EvaluateGroup
    <2> QED BY <1>3, <2>3, <2>4 DEF EvaluateGroup, TypeOK, chan
  <1>4. CASE SaveEvaluated
    <2>1. saved' \in Live
      BY <1>0, <1>4, SaveType DEF SaveEvaluated
    <2>2. CASE live.g.closed
      <3>1. /\ live' = NoLive /\ mode' = "individual" /\ pool' = NoPool /\ pendingDue' = 0
            /\ downAt' = [s \in Slugs |-> IF s \in indiv THEN downAt[s] ELSE NoTime]
            /\ ev' = EvIdle
            /\ UNCHANGED <<now, due, row, tick, indiv, msgs, claimed, crashes>>
        BY <1>4, <2>2 DEF SaveEvaluated, RetireGroup, LeavePending
      <3>2. downAt' \in [Slugs -> TimeOrNone]
        BY <3>1, Times DEF TypeOK
      <3> QED BY <2>1, <3>1, <3>2, NoLiveType DEF TypeOK
    <2>3. CASE ~live.g.closed
      <3>1. /\ UNCHANGED <<live, mode, pool, pendingDue, downAt>>
            /\ ev' = EvIdle
            /\ UNCHANGED <<now, due, row, tick, indiv, msgs, claimed, crashes>>
        BY <1>4, <2>3 DEF SaveEvaluated
      <3> QED BY <2>1, <3>1, NoLiveType DEF TypeOK
    <2> QED BY <2>2, <2>3
  <1> QED BY <1>1, <1>2, <1>3, <1>4

-----------------------------------------------------------------------------
(* Ownership and the burst count. *)

OnlyOpenAndResolve == {"open", "resolve"}

\* A step that leaves the incidents, the routed events and the channel state
\* alone; the mode may be normalised.
LEMMA CoreFrame ==
    ASSUME TypeOK, Core, now' \in Nat, now' >= now,
           \A s \in Slugs : /\ row'[s].openedAt = row[s].openedAt
                            /\ row'[s].status = row[s].status,
           \A s \in Slugs : \A e \in OnlyOpenAndResolve :
                /\ Routed(s, e)' <=> Routed(s, e)
                /\ Routed(s, e) => tick'[s].at = tick[s].at,
           UNCHANGED <<pool, downAt, indiv>>,
           live'.open = live.open,
           mode' = mode \/ (live.open /\ mode' = "group"),
           ev'.at <= now',
           ev'.pc \in {"open", "savePromoted", "saveEvaluated"} => live.open
    PROVE  Core'
  <1>1. RowOK'
    BY DEF Core, RowOK, NoTime
  <1>2. \A s \in Slugs : Held(s)' <=> Held(s)
    BY DEF Held, NoTime
  <1>3. OpensAreNew'
    BY <1>2 DEF Core, OpensAreNew, OnlyOpenAndResolve
  <1>4. HeldIsOpen'
    BY <1>2 DEF Core, HeldIsOpen, OnlyOpenAndResolve, NoTime
  <1>5. PoolOK'
    BY DEF Core, PoolOK, NoTime
  <1>6. EvaluatorOK'
    BY <1>5 DEF Core, EvaluatorOK, PoolOK
  <1>7. CountedOK'
    <2> SUFFICES ASSUME NEW s \in Slugs \ Children, Held(s), row[s].openedAt # NoTime
                 PROVE  \/ downAt'[s] = row'[s].openedAt
                        \/ now' - row'[s].openedAt >= BurstWindow
      BY <1>2 DEF CountedOK, NoTime
    <2>1. row[s].openedAt \in Int /\ now \in Int /\ BurstWindow \in Int
      <3>1. row[s].openedAt \in TimeOrNone /\ now \in Time
        BY DEF TypeOK, RowType
      <3>2. BurstWindow \in Int
        BY DispatcherAssumption
      <3>3. now \in Int
        BY <3>1, Times
      <3> QED BY <3>1, <3>2, <3>3, Times
    <2>2. \/ downAt[s] = row[s].openedAt
          \/ now - row[s].openedAt >= BurstWindow
      BY DEF Core, CountedOK
    <2> QED BY <2>1, <2>2
  <1>8. CapOK'
    BY DEF Core, CapOK, Counted, NoTime
  <1> QED BY <1>1, <1>3, <1>4, <1>5, <1>6, <1>7, <1>8 DEF Core

LEMMA ProbeCore ==
    ASSUME TypeOK, Core, NEW s \in Slugs, NEW ok \in BOOLEAN, Probe(s, ok)
    PROVE  Core'
  <1>1. PICK t \in TickType : tick' = [tick EXCEPT ![s] = t] /\ t.pc = "commit"
    BY ProbeIs DEF Core
  <1>2. tick'[s] = t /\ \A x \in Slugs : x # s => tick'[x] = tick[x]
    BY <1>1 DEF TypeOK
  <1>3. /\ tick[s].pc = "idle"
        /\ UNCHANGED <<now, row, mode, pool, downAt, indiv, ev, live>>
    BY DEF Probe, chan
  <1>4. \A x \in Slugs, e \in OnlyOpenAndResolve :
            /\ Routed(x, e)' <=> Routed(x, e)
            /\ Routed(x, e) => tick'[x].at = tick[x].at
    BY <1>1, <1>2, <1>3 DEF Routed
  <1>5. now' \in Nat /\ now' >= now /\ ev'.at <= now'
        /\ (ev'.pc \in {"open", "savePromoted", "saveEvaluated"} => live.open)
    BY <1>3, Times DEF TypeOK, Core, EvaluatorOK
  <1> QED BY <1>3, <1>4, <1>5, CoreFrame

LEMMA CommitCore ==
    ASSUME TypeOK, Core, ReadOK, NEW s \in Slugs, Commit(s)
    PROVE  Core'
  <1> DEFINE e == tick[s].event
             n == tick[s].next
             r == A!ApplyCheck(row[s], n, e)
             u == ToRoute(tick[s])
  <1>1. tick[s] \in TickType /\ row[s] \in RowType /\ e \in A!EventType /\ n \in StateType
        /\ tick[s].at \in Time
    BY DEF TypeOK, TickType
  <1>2. /\ row' = [row EXCEPT ![s] = r]
        /\ tick' = [tick EXCEPT ![s] = u]
        /\ tick[s].pc = "commit"
        /\ UNCHANGED <<now, mode, pool, downAt, indiv, ev, live>>
    BY DEF Commit, chan
  <1>3. r.openedAt = n.openedAt /\ r.status = n.status
    BY <1>1, ApplyCheckIs
  <1>4. IF e = "none" THEN u.pc = "idle"
        ELSE u.pc = "route" /\ u.event = e /\ u.at = tick[s].at
    BY <1>1, ToRouteIs
  <1>5. /\ n.status \in {"up", "down"} /\ (n.status = "up" <=> n.openedAt = NoTime)
        /\ e = "open" => row[s].openedAt = NoTime /\ n.openedAt = tick[s].at
        /\ e = "resolve" => row[s].openedAt # NoTime /\ n.openedAt = NoTime
        /\ e \in {"reminder", "none"} => n.openedAt = row[s].openedAt
    BY <1>2 DEF ReadOK
  <1> HIDE DEF r, u
  <1>6. /\ row'[s] = r /\ tick'[s] = u
        /\ \A x \in Slugs : x # s => row'[x] = row[x] /\ tick'[x] = tick[x]
    BY <1>2 DEF TypeOK
  <1>7. e \in {"open", "resolve", "reminder", "none"}
    BY <1>1 DEF A!EventType
  <1> HIDE DEF e, n
  <1>8. /\ \A x \in Slugs : Held(x)' <=> Held(x)
        /\ \A x \in Slugs : x # s => \A f : Routed(x, f)' <=> Routed(x, f)
    BY <1>2, <1>6 DEF Held, Routed, NoTime
  <1>9. Held(s) => row[s].openedAt # NoTime
    BY <1>2 DEF Core, HeldIsOpen, Routed
  <1>10. NoTime \notin Time
    BY Times
  <1>11. RowOK'
    BY <1>3, <1>5, <1>6 DEF Core, RowOK, NoTime
  <1>12. OpensAreNew'
    BY <1>3, <1>4, <1>5, <1>6, <1>7, <1>8, <1>9 DEF Core, OpensAreNew, Routed
  <1>13. HeldIsOpen'
    <2> SUFFICES ASSUME NEW x \in Slugs, Held(x)
                 PROVE  row'[x].openedAt # NoTime \/ Routed(x, "resolve")'
      BY <1>8 DEF HeldIsOpen, NoTime
    <2>1. CASE x = s
      BY <2>1, <1>1, <1>3, <1>4, <1>5, <1>6, <1>7, <1>9, <1>10 DEF Routed
    <2>2. CASE x # s
      BY <2>2, <1>6, <1>8 DEF Core, HeldIsOpen
    <2> QED BY <2>1, <2>2
  <1>14. CountedOK'
    <2> SUFFICES ASSUME NEW x \in Slugs \ Children, Held(x), row'[x].openedAt # NoTime
                 PROVE  \/ downAt[x] = row'[x].openedAt
                        \/ now - row'[x].openedAt >= BurstWindow
      BY <1>2, <1>8 DEF CountedOK, NoTime
    <2>1. row'[x].openedAt = row[x].openedAt
      BY <1>3, <1>5, <1>6, <1>7, <1>9
    <2> QED BY <2>1 DEF Core, CountedOK
  <1>15. PoolOK' /\ EvaluatorOK' /\ CapOK'
    BY <1>2 DEF Core, PoolOK, EvaluatorOK, CapOK, Counted, NoTime
  <1> QED BY <1>11, <1>12, <1>13, <1>14, <1>15 DEF Core

LEMMA PauseRowCore ==
    ASSUME TypeOK, Core, NEW s \in Slugs, PauseRow(s)
    PROVE  Core'
  <1>1. /\ RowOK' /\ (\A x \in Slugs : row'[x].openedAt = row[x].openedAt)
        /\ UNCHANGED <<now, tick, mode, pool, downAt, indiv, ev, live, saved>>
    BY PauseRowIs DEF Core
  <1>2. \A x \in Slugs : (Held(x)' <=> Held(x)) /\ \A e : Routed(x, e)' <=> Routed(x, e)
    BY <1>1 DEF Held, Routed, NoTime
  <1>3. OpensAreNew' /\ HeldIsOpen' /\ CountedOK'
    BY <1>1, <1>2 DEF Core, OpensAreNew, HeldIsOpen, CountedOK, NoTime
  <1>4. PoolOK' /\ EvaluatorOK' /\ CapOK'
    BY <1>1 DEF Core, PoolOK, EvaluatorOK, CapOK, Counted, NoTime
  <1> QED BY <1>1, <1>3, <1>4 DEF Core

\* Removing monitors from the count keeps the cap.
LEMMA CapShrinks ==
    ASSUME TypeOK, CapOK, Counted' \subseteq Counted
    PROVE  CapOK'
  <1>1. IsFiniteSet(Counted)
    <2>1. Counted \subseteq Slugs
      BY DEF Counted, TypeOK
    <2> QED BY <2>1, DispatcherAssumption, FS_Subset
  <1>2. IsFiniteSet(Counted') /\ Cardinality(Counted') <= Cardinality(Counted)
    BY <1>1, FS_Subset
  <1>3. Cardinality(Counted) \in Nat /\ Cardinality(Counted') \in Nat /\ BurstThreshold \in Nat
    BY <1>1, <1>2, FS_CardinalityType, DispatcherAssumption
  <1> QED BY <1>2, <1>3 DEF CapOK

LEMMA DropFromPoolIs ==
    ASSUME TypeOK, Core, NEW s \in Slugs, DropFromPool(s), mode = "pending"
    PROVE  /\ pool'[s] = NoTime
           /\ \A x \in Slugs : x # s => pool'[x] = pool[x]
           /\ mode' \in {"individual", "pending"}
           /\ mode' # "pending" => \A x \in Slugs : pool'[x] = NoTime
  <1>1. pool' = [pool EXCEPT ![s] = NoTime]
    BY DEF DropFromPool
  <1>2. pool'[s] = NoTime /\ \A x \in Slugs : x # s => pool'[x] = pool[x]
    BY <1>1 DEF TypeOK
  <1>3. IF Members(pool) \subseteq {s} THEN mode' = "individual" ELSE mode' = mode
    BY DEF DropFromPool
  <1>4. Members(pool) \subseteq {s} => \A x \in Slugs : pool'[x] = NoTime
    BY <1>2 DEF Members
  <1> QED BY <1>2, <1>3, <1>4

LEMMA RouteOpenCore ==
    ASSUME TypeOK, Core, NEW s \in Slugs, RouteOpen(s)
    PROVE  Core'
  <1> DEFINE t == tick[s].at
  <1>1. /\ t \in Time /\ Routed(s, "open") /\ live \in Live /\ saved \in Live
        /\ ev.pc \notin {"open", "savePromoted", "saveEvaluated"}
    BY DEF TypeOK, TickType, RouteOpen, Routing, Routed, Locked
  <1>2. row[s].openedAt = t /\ ~Held(s) /\ t # NoTime
    BY <1>1, Times DEF Core, OpensAreNew
  <1>3. /\ downAt' = [downAt EXCEPT ![s] = t]
        /\ tick' = [tick EXCEPT ![s] = TickIdle]
        /\ UNCHANGED <<now, row, indiv, ev>>
    BY DEF RouteOpen, Return
  <1> HIDE DEF t
  <1>4. /\ downAt'[s] = t /\ \A x \in Slugs : x # s => downAt'[x] = downAt[x]
        /\ tick'[s].pc = "idle" /\ \A x \in Slugs : x # s => tick'[x] = tick[x]
    BY <1>3, NoLiveType DEF TypeOK
  <1>5. /\ \A x \in Slugs : x # s => pool'[x] = pool[x]
        /\ mode' # "pending" => \A x \in Slugs : pool'[x] = NoTime
        /\ mode' = "pending" => ~live'.open
    <2>1. CASE Mode = "group"
      <3>1. UNCHANGED pool /\ mode' = "group"
        BY <2>1 DEF RouteOpen
      <3>2. mode # "pending"
        BY <2>1 DEF Mode, Core, PoolOK
      <3> QED BY <3>1, <3>2 DEF Core, PoolOK
    <2>2. CASE Mode = "individual"
      <3>1. /\ mode' = "pending" /\ pool' = [NoPool EXCEPT ![s] = t] /\ live' = live
        BY <2>2 DEF RouteOpen, t
      <3>2. mode = "individual" /\ ~live.open
        BY <2>2 DEF Mode
      <3>3. \A x \in Slugs : x # s => pool'[x] = NoTime
        BY <3>1, NoLiveType
      <3> QED BY <3>1, <3>2, <3>3 DEF Core, PoolOK
    <2>3. CASE Mode = "pending"
      <3>1. /\ mode' = mode /\ pool' = [pool EXCEPT ![s] = t] /\ live' = live
        BY <2>3 DEF RouteOpen, t
      <3>2. mode = "pending" /\ ~live.open
        BY <2>3 DEF Mode
      <3> QED BY <3>1, <3>2 DEF TypeOK
    <2> QED BY <2>1, <2>2, <2>3 DEF Mode, TypeOK
  <1>6. /\ \A x \in Slugs : x # s => (Held(x)' <=> Held(x))
        /\ \A x \in Slugs : \A f : Routed(x, f)' => Routed(x, f) /\ x # s
        /\ \A x \in Slugs : x # s => \A f : Routed(x, f) => Routed(x, f)'
    BY <1>3, <1>4, <1>5 DEF Held, Routed, NoTime
  <1>7. RowOK'
    BY <1>3 DEF Core, RowOK, NoTime
  <1>8. OpensAreNew'
    BY <1>3, <1>4, <1>6 DEF Core, OpensAreNew
  <1>9. HeldIsOpen'
    BY <1>2, <1>3, <1>6 DEF Core, HeldIsOpen, NoTime
  <1>10. PoolOK'
    <2>1. \A x \in indiv' : pool'[x] = NoTime
      BY <1>2, <1>3, <1>5 DEF Core, PoolOK, Held, TypeOK
    <2> QED BY <2>1, <1>5 DEF PoolOK, NoTime
  <1>11. EvaluatorOK'
    BY <1>1, <1>3 DEF Core, EvaluatorOK
  <1>12. CountedOK'
    <2> SUFFICES ASSUME NEW x \in Slugs \ Children, Held(x)', row[x].openedAt # NoTime
                 PROVE  \/ downAt'[x] = row[x].openedAt
                        \/ now - row[x].openedAt >= BurstWindow
      BY <1>3 DEF CountedOK, NoTime
    <2> QED BY <1>2, <1>4, <1>6 DEF Core, CountedOK
  <1>13. CapOK'
    <2>1. Counted' \subseteq Counted
      BY <1>2, <1>3, <1>4 DEF Counted, Held, NoTime, TypeOK
    <2> QED BY <2>1, CapShrinks DEF Core
  <1> QED BY <1>7, <1>8, <1>9, <1>10, <1>11, <1>12, <1>13 DEF Core

\* A step that takes s out of the count, and maybe out of the pool and of the
\* notifier's monitors, while no event of another monitor moves.
LEMMA ReleaseCore ==
    ASSUME TypeOK, Core, NEW s \in Slugs,
           UNCHANGED <<now, ev>>,
           ev.pc \notin {"open", "savePromoted", "saveEvaluated"},
           \A x \in Slugs : row'[x].openedAt = row[x].openedAt,
           RowOK',
           \A x \in Slugs : x # s => downAt'[x] = downAt[x] /\ tick'[x] = tick[x],
           downAt'[s] = NoTime,
           indiv' \subseteq indiv, \A x \in Slugs : x # s /\ x \in indiv => x \in indiv',
           \A x \in Slugs : x # s => pool'[x] = pool[x],
           pool'[s] \in {pool[s], NoTime},
           mode' # "pending" => \A x \in Slugs : pool'[x] = NoTime,
           mode' = "pending" => ~live'.open,
           Held(s)' => row[s].openedAt # NoTime \/ Routed(s, "resolve")',
           Held(s)' => s \in Children,
           Routed(s, "open")' => Routed(s, "open") /\ tick'[s].at = tick[s].at
    PROVE  Core'
  <1>1. /\ \A x \in Slugs : x # s => (Held(x)' <=> Held(x))
        /\ Held(s)' => Held(s)
        /\ \A x \in Slugs : x # s => \A f : Routed(x, f)' <=> Routed(x, f)
    BY DEF Held, Routed, NoTime
  <1>2. OpensAreNew'
    BY <1>1 DEF Core, OpensAreNew, Routed
  <1>3. HeldIsOpen'
    BY <1>1 DEF Core, HeldIsOpen, NoTime
  <1>4. PoolOK'
    <2>1. \A x \in indiv' : pool'[x] = NoTime
      BY DEF Core, PoolOK, TypeOK
    <2> QED BY <2>1 DEF PoolOK, NoTime
  <1>5. EvaluatorOK'
    BY DEF Core, EvaluatorOK
  <1>6. CountedOK'
    BY <1>1 DEF Core, CountedOK, NoTime
  <1>7. CapOK'
    <2>1. Counted' \subseteq Counted
      BY DEF Counted, NoTime, TypeOK
    <2> QED BY <2>1, CapShrinks DEF Core
  <1> QED BY <1>2, <1>3, <1>4, <1>5, <1>6, <1>7 DEF Core

LEMMA RouteResolveCore ==
    ASSUME TypeOK, Core, NEW s \in Slugs, RouteResolve(s)
    PROVE  Core'
  <1>1. /\ downAt' = [downAt EXCEPT ![s] = NoTime]
        /\ indiv' = indiv \ {s}
        /\ tick' \in {[tick EXCEPT ![s] = TickIdle], [tick EXCEPT ![s].pc = "notify"]}
        /\ UNCHANGED <<now, row, ev>>
        /\ ev.pc \notin {"open", "savePromoted", "saveEvaluated"}
    BY DEF RouteResolve, ClearDown, Return, FlushSink, Routing, Locked
  <1>2. /\ downAt'[s] = NoTime /\ \A x \in Slugs : x # s => downAt'[x] = downAt[x]
        /\ tick'[s].pc # "route" /\ \A x \in Slugs : x # s => tick'[x] = tick[x]
    <2>1. downAt'[s] = NoTime /\ \A x \in Slugs : x # s => downAt'[x] = downAt[x]
      BY <1>1 DEF TypeOK
    <2>2. tick'[s].pc # "route" /\ \A x \in Slugs : x # s => tick'[x] = tick[x]
      BY <1>1, NoLiveType DEF TypeOK, TickType
    <2> QED BY <2>1, <2>2
  <1>3. /\ pool'[s] = NoTime
        /\ \A x \in Slugs : x # s => pool'[x] = pool[x]
        /\ mode' # "pending" => \A x \in Slugs : pool'[x] = NoTime
        /\ mode' = "pending" => ~live'.open
    <2>1. CASE s \notin indiv /\ Mode = "pending"
      <3>1. DropFromPool(s) /\ live' = live /\ mode = "pending" /\ ~live.open
        BY <2>1 DEF RouteResolve, Mode
      <3> QED BY <3>1, DropFromPoolIs
    <2>2. CASE s \in indiv \/ Mode # "pending"
      <3>1. UNCHANGED pool /\ mode' = Mode
        BY <2>2 DEF RouteResolve
      <3>2. live'.open = live.open
        <4>1. live' = live \/ live' = [live EXCEPT !.g = MarkUp(live.g, s, tick[s].at)]
          BY <2>2 DEF RouteResolve
        <4>2. live \in Live
          BY DEF TypeOK
        <4> QED BY <4>1, <4>2 DEF Live
      <3>3. pool[s] = NoTime
        BY <2>2 DEF Core, PoolOK, Mode
      <3> QED BY <3>1, <3>2, <3>3 DEF Core, PoolOK, Mode
    <2> QED BY <2>1, <2>2
  <1>4. ~Held(s)' /\ ~Routed(s, "open")'
    BY <1>1, <1>2, <1>3 DEF Held, Routed, NoTime
  <1>5. RowOK'
    BY <1>1 DEF Core, RowOK, NoTime
  <1> QED BY <1>1, <1>2, <1>3, <1>4, <1>5, ReleaseCore

LEMMA PauseCore ==
    ASSUME TypeOK, Core, NEW s \in Slugs, Pause(s)
    PROVE  Core'
  <1>2. /\ downAt' = [downAt EXCEPT ![s] = NoTime]
        /\ s \in Children
        /\ UNCHANGED <<now, row, tick, indiv, ev>>
        /\ ev.pc \notin {"open", "savePromoted", "saveEvaluated"}
    BY DEF Pause, ForgetDown, Locked
  <1>3. downAt'[s] = NoTime /\ \A x \in Slugs : x # s => downAt'[x] = downAt[x]
    BY <1>2 DEF TypeOK
  <1>4. RowOK' /\ \A x \in Slugs : row'[x].openedAt = row[x].openedAt
    BY <1>2 DEF Core, RowOK, NoTime
  <1>5. /\ pool'[s] \in {pool[s], NoTime}
        /\ \A x \in Slugs : x # s => pool'[x] = pool[x]
        /\ mode' # "pending" => \A x \in Slugs : pool'[x] = NoTime
        /\ mode' = "pending" => ~live'.open
    <2>1. CASE Mode = "pending"
      <3>1. DropFromPool(s) /\ live' = live /\ mode = "pending" /\ ~live.open
        BY <2>1 DEF Pause, Mode
      <3> QED BY <3>1, DropFromPoolIs
    <2>2. CASE Mode # "pending"
      <3>1. UNCHANGED pool /\ mode' \in {"group", mode} /\ mode # "pending"
        BY <2>2 DEF Pause, Mode, Core, PoolOK
      <3> QED BY <3>1 DEF Core, PoolOK
    <2> QED BY <2>1, <2>2
  <1>6. /\ \A x \in Slugs : Held(x)' => Held(x)
        /\ \A x \in Slugs, f \in OnlyOpenAndResolve : Routed(x, f)' <=> Routed(x, f)
    BY <1>2, <1>5 DEF Held, Routed, NoTime
  <1>7. Held(s)' => row[s].openedAt # NoTime \/ Routed(s, "resolve")'
    BY <1>6 DEF Core, HeldIsOpen, OnlyOpenAndResolve
  <1>8. Routed(s, "open")' => Routed(s, "open") /\ tick'[s].at = tick[s].at
    BY <1>2, <1>6 DEF OnlyOpenAndResolve
  <1> QED BY <1>2, <1>3, <1>4, <1>5, <1>7, <1>8, ReleaseCore

LEMMA PruneCounted ==
    ASSUME TypeOK, Core, NEW s \in Slugs \ Children, Held(s), row[s].openedAt # NoTime
    PROVE  \/ PruneDown(ev.at)[s] = row[s].openedAt
           \/ now - row[s].openedAt >= BurstWindow
  <1>1. ev.at \in Time /\ now \in Time /\ row[s].openedAt \in TimeOrNone
        /\ downAt \in [Slugs -> TimeOrNone]
    BY DEF TypeOK, EvType, RowType
  <1>w. BurstWindow \in Int
    BY DispatcherAssumption
  <1>2. ev.at \in Int /\ now \in Int /\ row[s].openedAt \in Int /\ BurstWindow \in Int
    BY <1>1, <1>w, Times
  <1>3. \/ PruneDown(ev.at)[s] = downAt[s]
        \/ ev.at - downAt[s] >= BurstWindow
    BY <1>1, PruneDownIs
  <1>4. \/ downAt[s] = row[s].openedAt
        \/ now - row[s].openedAt >= BurstWindow
    BY DEF Core, CountedOK
  <1>5. ev.at <= now
    BY DEF Core, EvaluatorOK
  <1> QED BY <1>2, <1>3, <1>4, <1>5

LEMMA PromoteCore ==
    ASSUME TypeOK, Core, PromotePool
    PROVE  Core'
  <1>1. PICK t \in Time : \E e \in EnsureGroup(t) :
            /\ live' = MarkAllDown(e.live, Members(pool))
            /\ ev' = [ev EXCEPT !.pc = IF e.live.open THEN "open" ELSE "groups"]
    BY DEF PromotePool
  <1>2. PICK e \in EnsureGroup(t) :
            /\ live' = MarkAllDown(e.live, Members(pool))
            /\ ev' = [ev EXCEPT !.pc = IF e.live.open THEN "open" ELSE "groups"]
    BY <1>1
  <1>3. e.live \in Live /\ Members(pool) \subseteq Slugs
    BY EnsureGroupIs DEF TypeOK, Members
  <1>4. live'.open = e.live.open
    BY <1>2, <1>3, MarkAllDownIs
  <1>5. ev'.at = ev.at /\ ev'.pc = IF e.live.open THEN "open" ELSE "groups"
    BY <1>2, EvTypes
  <1>6. /\ mode' = "group" /\ pool' = NoPool /\ downAt' = PruneDown(ev.at)
        /\ UNCHANGED <<now, row, tick, indiv>>
    BY DEF PromotePool, LeavePending
  <1>7. \A x \in Slugs : pool'[x] = NoTime /\ (Held(x)' => Held(x))
    BY <1>6, NoLiveType DEF Held, NoTime
  <1>8. RowOK' /\ PoolOK' /\ EvaluatorOK'
    BY <1>4, <1>5, <1>6, <1>7 DEF Core, RowOK, PoolOK, EvaluatorOK, NoTime, TypeOK
  <1>9. OpensAreNew' /\ HeldIsOpen'
    BY <1>6, <1>7 DEF Core, OpensAreNew, HeldIsOpen, Routed, NoTime
  <1>10. CountedOK'
    BY <1>6, <1>7, PruneCounted DEF CountedOK, NoTime
  <1>11. CapOK'
    <2>1. Counted' \subseteq Counted
      BY <1>6, PruneDownIs, EvTypes DEF Counted, NoTime, TypeOK
    <2> QED BY <2>1, CapShrinks DEF Core
  <1> QED BY <1>8, <1>9, <1>10, <1>11 DEF Core

LEMMA FlushCore ==
    ASSUME TypeOK, Core, FlushPool
    PROVE  Core'
  <1>1. /\ mode' = "individual" /\ pool' = NoPool /\ downAt' = PruneDown(ev.at)
        /\ indiv' = indiv \cup Members(pool)
        /\ ev' = [ev EXCEPT !.pc = "flush", !.todo = pool]
        /\ UNCHANGED <<now, row, tick, live>>
        /\ mode = "pending"
        /\ ~IsBurst(downAt')
    BY DEF FlushPool, LeavePending, TakeIndividual, Deciding, Expired
  <1>2. \A x \in Slugs : pool'[x] = NoTime /\ (Held(x)' <=> Held(x))
    BY <1>1, NoLiveType DEF Held, Members, NoTime
  <1>3. ev'.at = ev.at /\ ev'.pc = "flush"
    BY <1>1 DEF TypeOK, EvType
  <1>4. RowOK' /\ EvaluatorOK'
    BY <1>1, <1>3 DEF Core, RowOK, EvaluatorOK, NoTime
  <1>5. PoolOK'
    BY <1>1, <1>2 DEF PoolOK, NoTime, Members, TypeOK
  <1>6. OpensAreNew' /\ HeldIsOpen'
    BY <1>1, <1>2 DEF Core, OpensAreNew, HeldIsOpen, Routed, NoTime
  <1>7. CountedOK'
    BY <1>1, <1>2, PruneCounted DEF CountedOK, NoTime
  <1>8. CapOK'
    <2> DEFINE S == Members(downAt') \cup Members(pool)
    <2>1. IsFiniteSet(S)
      BY DispatcherAssumption, FS_Subset DEF Members
    <2>2. Counted' \subseteq S
      BY <1>1 DEF Counted, Members, NoTime, TypeOK
    <2>3. Cardinality(Counted') <= Cardinality(S) /\ IsFiniteSet(Counted')
      BY <2>1, <2>2, FS_Subset
    <2>4. Cardinality(S) \in Nat /\ Cardinality(Counted') \in Nat /\ BurstThreshold \in Nat
      BY <2>1, <2>3, FS_CardinalityType, DispatcherAssumption
    <2>5. BurstThreshold > 0 => ~(Cardinality(S) >= BurstThreshold)
      BY <1>1 DEF IsBurst, Burst
    <2> HIDE DEF S
    <2> QED BY <2>3, <2>4, <2>5 DEF CapOK
  <1> QED BY <1>4, <1>5, <1>6, <1>7, <1>8 DEF Core

LEMMA SaveEvaluatedCore ==
    ASSUME TypeOK, Core, SaveEvaluated
    PROVE  Core'
  <1>0. /\ ev' = EvIdle /\ UNCHANGED <<now, row, tick, indiv>>
        /\ ev.pc = "saveEvaluated" /\ live.open /\ mode # "pending"
    BY DEF SaveEvaluated, Core, EvaluatorOK
  <1>1. ev'.at = 0 /\ ev'.pc = "idle" /\ now \in Nat
    BY <1>0, NoLiveType, Times DEF TypeOK
  <1>2. CASE ~live.g.closed
    <2>1. UNCHANGED <<live, mode, pool, downAt>>
      BY <1>2 DEF SaveEvaluated
    <2>2. now' \in Nat /\ now' >= now /\ ev'.at <= now'
      BY <1>0, <1>1
    <2>3. \A s \in Slugs, e \in OnlyOpenAndResolve : Routed(s, e)' <=> Routed(s, e)
      BY <1>0 DEF Routed
    <2>4. UNCHANGED <<row, tick, pool, downAt, indiv, live, mode>>
      BY <1>0, <2>1
    <2> QED BY <1>0, <1>1, <2>2, <2>3, <2>4, CoreFrame
  <1>3. CASE live.g.closed
    <2>1. /\ live' = NoLive /\ mode' = "individual" /\ pool' = NoPool
          /\ downAt' = [s \in Slugs |-> IF s \in indiv THEN downAt[s] ELSE NoTime]
      BY <1>3 DEF SaveEvaluated, RetireGroup, LeavePending
    <2>2. /\ \A x \in Slugs : pool'[x] = NoTime /\ pool[x] = NoTime
          /\ \A x \in Slugs : Held(x)' <=> Held(x)
          /\ \A x \in Slugs : Held(x) => x \in indiv
      BY <1>0, <2>1, NoLiveType DEF Held, Core, PoolOK, NoTime
    <2>3. \A x \in Slugs : downAt'[x] = IF x \in indiv THEN downAt[x] ELSE NoTime
      BY <2>1
    <2>4. RowOK' /\ PoolOK' /\ EvaluatorOK'
      BY <1>0, <1>1, <2>1, <2>2 DEF Core, RowOK, PoolOK, EvaluatorOK, NoTime, TypeOK
    <2>5. OpensAreNew' /\ HeldIsOpen'
      BY <1>0, <2>2 DEF Core, OpensAreNew, HeldIsOpen, Routed, NoTime
    <2>6. CountedOK'
      BY <1>0, <2>2, <2>3 DEF Core, CountedOK, NoTime
    <2>7. CapOK'
      <3>1. Counted' \subseteq Counted
        BY <1>0, <2>3 DEF Counted, NoTime, TypeOK
      <3> QED BY <3>1, CapShrinks DEF Core
    <2> QED BY <2>4, <2>5, <2>6, <2>7 DEF Core
  <1> QED BY <1>2, <1>3

LEMMA EmptyCap ==
    ASSUME indiv = {}
    PROVE  CapOK
  <1>1. Counted = {}
    BY DEF Counted
  <1>2. Cardinality(Counted) = 0
    BY <1>1, FS_EmptySet
  <1> QED BY <1>2, DispatcherAssumption DEF CapOK

LEMMA CrashCore ==
    ASSUME TypeOK, Core, CrashRestart
    PROVE  Core' /\ TypeOK' /\ ReadOK' /\ OwnerOK'
  <1>1. /\ crashes' = crashes + 1
        /\ tick' = [s \in Slugs |-> TickIdle]
        /\ mode' = "individual" /\ pool' = NoPool /\ pendingDue' = 0
        /\ downAt' = NoPool /\ indiv' = {} /\ ev' = EvIdle
        /\ UNCHANGED <<now, due, row, saved, msgs, claimed>>
        /\ live' = saved \/ (StoreFails /\ live' = NoLive)
    BY DEF CrashRestart
  <1>2. TypeOK'
    BY <1>1, NoLiveType DEF TypeOK
  <1>3. \A x \in Slugs : tick'[x].pc = "idle" /\ pool'[x] = NoTime
    BY <1>1, NoLiveType
  <1>4. RowOK' /\ PoolOK'
    BY <1>1, <1>3 DEF Core, RowOK, PoolOK, NoTime
  <1>5. EvaluatorOK'
    <2>1. now \in Nat /\ ev'.at = 0 /\ ev'.pc = "idle"
      BY <1>1, NoLiveType, Times DEF TypeOK
    <2> QED BY <1>1, <2>1 DEF EvaluatorOK
  <1>6. \A x \in Slugs : ~Held(x)' /\ ~Routed(x, "open")'
    BY <1>1, <1>3 DEF Held, Routed, NoTime
  <1>7. OpensAreNew' /\ HeldIsOpen' /\ CountedOK'
    BY <1>6 DEF OpensAreNew, HeldIsOpen, CountedOK
  <1>8. CapOK'
    <2>1. Counted' = {}
      BY <1>1 DEF Counted
    <2>2. Cardinality(Counted') = 0
      BY <2>1, FS_EmptySet
    <2> QED BY <2>2, DispatcherAssumption DEF CapOK
  <1>9. OwnerOK'
    BY <1>1 DEF OwnerOK
  <1>10. ReadOK'
    BY <1>3 DEF ReadOK
  <1> QED BY <1>2, <1>4, <1>5, <1>7, <1>8, <1>9, <1>10 DEF Core

-----------------------------------------------------------------------------
(* Decisions about to be committed. *)

LEMMA ReadFrame ==
    ASSUME ReadOK,
           \A s \in Slugs : row'[s].openedAt = row[s].openedAt,
           \A s \in Slugs : tick'[s].pc = "commit" => tick'[s] = tick[s]
    PROVE  ReadOK'
  BY DEF ReadOK, NoTime

LEMMA ProbeRead ==
    ASSUME TypeOK, Core, ReadOK, NEW s \in Slugs, NEW ok \in BOOLEAN, Probe(s, ok)
    PROVE  ReadOK'
  <1>1. PICK t \in TickType :
              /\ tick' = [tick EXCEPT ![s] = t]
              /\ t.next.status \in {"up", "down"}
              /\ t.next.status = "up" <=> t.next.openedAt = NoTime
              /\ t.event = "open" => row[s].openedAt = NoTime /\ t.next.openedAt = t.at
              /\ t.event = "resolve" => row[s].openedAt # NoTime /\ t.next.openedAt = NoTime
              /\ t.event \in {"reminder", "none"} => t.next.openedAt = row[s].openedAt
    BY ProbeIs DEF Core
  <1>2. tick'[s] = t /\ (\A x \in Slugs : x # s => tick'[x] = tick[x]) /\ row' = row
    BY <1>1 DEF TypeOK, Probe
  <1> QED BY <1>1, <1>2 DEF ReadOK, NoTime

LEMMA CommitRead ==
    ASSUME TypeOK, ReadOK, NEW s \in Slugs, Commit(s)
    PROVE  ReadOK'
  <1>1. tick' = [tick EXCEPT ![s] = ToRoute(tick[s])]
    BY DEF Commit
  <1>2. ToRoute(tick[s]).pc # "commit"
    BY ToRouteIs DEF TypeOK
  <1>3. tick'[s].pc # "commit" /\ \A x \in Slugs : x # s => tick'[x] = tick[x]
    BY <1>1, <1>2 DEF TypeOK
  <1>4. \A x \in Slugs : x # s => row'[x] = row[x]
    BY DEF Commit, TypeOK
  <1> QED BY <1>3, <1>4 DEF ReadOK, NoTime

LEMMA TickStepRead ==
    ASSUME TypeOK, ReadOK, NEW s \in Slugs, Route(s) \/ Notify(s)
    PROVE  ReadOK'
  <1>1. /\ \A x \in Slugs : x # s => tick'[x] = tick[x]
        /\ tick'[s].pc # "commit"
    <2>1. \/ tick' \in {[tick EXCEPT ![s] = TickIdle], [tick EXCEPT ![s].pc = "notify"]}
          \/ tick' = [tick EXCEPT ![s].pc = "thread", ![s].ts = Len(msgs[s]) + 1]
      BY DEF Route, RouteOpen, RouteResolve, RouteReminder, Notify, NotifyResolve,
             NotifyReminder, StoreFreshParent, Return, FlushSink
    <2>2. tick \in [Slugs -> TickType]
      BY DEF TypeOK
    <2> QED BY <2>1, <2>2, NoLiveType DEF TickType
  <1>2. \A x \in Slugs : row'[x].openedAt = row[x].openedAt
    <2>1. CASE StoreFreshParent(s)
      BY <2>1, RowThreadType DEF StoreFreshParent, TypeOK, TickType
    <2>2. CASE ~StoreFreshParent(s)
      BY <2>2 DEF Route, RouteOpen, RouteResolve, RouteReminder, Notify, NotifyResolve,
                  NotifyReminder
    <2> QED BY <2>1, <2>2
  <1> QED BY <1>1, <1>2, ReadFrame

LEMMA EvaluateAllRead ==
    ASSUME TypeOK, ReadOK, EvaluateAll
    PROVE  ReadOK'
  <1>1. tick' = tick
    <2>1. CASE StartPass \/ SkipPending \/ StartParentProbe \/ AbandonPool \/ PromotePool
      BY <2>1 DEF StartPass, SkipPending, StartParentProbe, AbandonPool, PromotePool
    <2>2. CASE OpenDigest \/ SavePromoted \/ NoGroup \/ EvaluateGroup \/ SaveEvaluated
      BY <2>2 DEF OpenDigest, SavePromoted, NoGroup, EvaluateGroup, SaveEvaluated
    <2>3. CASE FlushPool \/ FlushDone \/ \E s \in Slugs : FlushOpen(s) \/ StoreOpenThread(s)
      BY <2>3 DEF FlushPool, FlushDone, FlushOpen, StoreOpenThread
    <2> QED BY <2>1, <2>2, <2>3 DEF EvaluateAll
  <1>2. \A x \in Slugs : row'[x].openedAt = row[x].openedAt
    <2>1. CASE \E s \in Slugs : StoreOpenThread(s)
      BY <2>1, RowThreadType DEF StoreOpenThread, TypeOK, EvType
    <2>2. CASE row' = row
      BY <2>2
    <2> QED BY <2>1, <2>2
        DEF EvaluateAll, StartPass, SkipPending, StartParentProbe, AbandonPool, PromotePool,
            OpenDigest, SavePromoted, FlushPool, FlushDone, FlushOpen,
            NoGroup, EvaluateGroup, SaveEvaluated
  <1> QED BY <1>1, <1>2, ReadFrame

-----------------------------------------------------------------------------
(* One owner per incident, when the store does not fail. *)

Active == {"down", "recovering"}

LEMMA OwnerFrame ==
    ASSUME OwnerOK, indiv' \subseteq indiv,
           live'.open = live.open,
           ~StoreFails /\ saved'.open => saved.open \/ live.open,
           \A s \in indiv' : live'.g.members[s].state \in Active
                                => live.g.members[s].state \in Active
    PROVE  OwnerOK'
  BY DEF OwnerOK, Active

LEMMA RouteOpenOwner ==
    ASSUME TypeOK, Core, OwnerOK, NEW s \in Slugs, RouteOpen(s)
    PROVE  OwnerOK'
  <1>1. s \notin indiv /\ UNCHANGED indiv /\ indiv \subseteq Slugs
    BY DEF RouteOpen, Routing, Core, OpensAreNew, Routed, Held, TypeOK
  <1>2. CASE Mode = "group"
    <2>1. PICK e \in EnsureGroup(tick[s].at) :
            live' = MarkAllDown(e.live, {s}) /\ saved' = e.saved
      BY <1>2 DEF RouteOpen
    <2>2. tick[s].at \in Time /\ live \in Live /\ saved \in Live
      BY DEF TypeOK, TickType
    <2>3. /\ e.live \in Live
          /\ live.open => e.live = live /\ e.saved = saved
          /\ ~StoreFails => e.live.open
          /\ ~live.open /\ ~saved.open /\ e.live.open => e.live = Born(tick[s].at)
      BY <2>2, EnsureGroupIs
    <2>4. /\ live'.open = e.live.open
          /\ \A x \in indiv : live'.g.members[x] = e.live.g.members[x]
      BY <1>1, <2>1, <2>3, MarkAllDownIs
    <2>5. SUFFICES ASSUME ~StoreFails
                   PROVE  \A x \in indiv : live'.g.members[x].state \notin Active
      BY <1>1, <2>3, <2>4 DEF OwnerOK, Active
    <2>6. CASE live.open
      BY <2>3, <2>4, <2>5, <2>6 DEF OwnerOK, Active
    <2>7. CASE ~live.open
      <3>1. e.live = Born(tick[s].at)
        BY <2>3, <2>5, <2>7 DEF OwnerOK
      <3> QED BY <1>1, <2>2, <2>4, <3>1, BornType DEF Active
    <2> QED BY <2>6, <2>7
  <1>3. CASE Mode # "group"
    BY <1>1, <1>3 DEF RouteOpen, OwnerOK
  <1> QED BY <1>2, <1>3

LEMMA DecideOwner ==
    ASSUME TypeOK, Core, OwnerOK, PromotePool \/ FlushPool
    PROVE  OwnerOK'
  <1>0. mode = "pending" /\ ~live.open
    BY DEF PromotePool, FlushPool, Deciding, Expired, Core, PoolOK
  <1>1. CASE PromotePool
    <2>1. PICK t \in Time : \E e \in EnsureGroup(t) :
            live' = MarkAllDown(e.live, Members(pool)) /\ saved' = e.saved
      BY <1>1 DEF PromotePool
    <2>2. PICK e \in EnsureGroup(t) :
            live' = MarkAllDown(e.live, Members(pool)) /\ saved' = e.saved
      BY <2>1
    <2>3. /\ e.live \in Live /\ Members(pool) \subseteq Slugs
          /\ ~StoreFails => e.live.open
          /\ ~live.open /\ ~saved.open /\ e.live.open => e.live = Born(t)
      BY EnsureGroupIs DEF TypeOK, Members
    <2>4. UNCHANGED indiv /\ indiv \subseteq Slugs /\ indiv \cap Members(pool) = {}
      BY <1>1 DEF PromotePool, TypeOK, Core, PoolOK, Members
    <2>5. /\ live'.open = e.live.open
          /\ \A x \in indiv : live'.g.members[x] = e.live.g.members[x]
      BY <2>2, <2>3, <2>4, MarkAllDownIs
    <2>6. ~StoreFails => e.live = Born(t)
      BY <1>0, <2>3 DEF OwnerOK
    <2> QED BY <2>3, <2>4, <2>5, <2>6, BornType DEF OwnerOK
  <1>2. CASE FlushPool
    BY <1>0, <1>2 DEF FlushPool, OwnerOK
  <1> QED BY <1>1, <1>2

LEMMA RouteResolveOwner ==
    ASSUME TypeOK, OwnerOK, NEW s \in Slugs, RouteResolve(s)
    PROVE  OwnerOK'
  <1>1. indiv' = indiv \ {s} /\ indiv \subseteq Slugs /\ UNCHANGED saved
    BY DEF RouteResolve, ClearDown, TypeOK
  <1>2. live \in Live /\ live.g \in GroupRec /\ tick[s].at \in Time
    BY DEF TypeOK, Live, TickType
  <1>3. live' = live \/ live' = [live EXCEPT !.g = MarkUp(live.g, s, tick[s].at)]
    BY DEF RouteResolve
  <1>4. /\ live'.open = live.open
        /\ \A x \in Slugs : x # s => live'.g.members[x] = live.g.members[x]
    <2> DEFINE h == MarkUp(live.g, s, tick[s].at)
    <2>1. h \in GroupRec /\ \A x \in Slugs : x # s => h.members[x] = live.g.members[x]
      BY <1>2, MarkUpKeeps
    <2> HIDE DEF h
    <2>2. [live EXCEPT !.g = h].g = h /\ [live EXCEPT !.g = h].open = live.open
      BY <1>2, <2>1, LiveGroupExcept
    <2>3. live' = live \/ live' = [live EXCEPT !.g = h]
      BY <1>3 DEF h
    <2> QED BY <2>1, <2>2, <2>3
  <1> QED BY <1>1, <1>4, OwnerFrame

LEMMA PauseOwner ==
    ASSUME TypeOK, OwnerOK, NEW s \in Slugs, Pause(s)
    PROVE  OwnerOK'
  <1>1. UNCHANGED <<indiv, saved>> /\ indiv \subseteq Slugs
    BY DEF Pause, ForgetDown, TypeOK
  <1>2. live \in Live /\ live.g \in GroupRec /\ now \in Time
    BY DEF TypeOK, Live
  <1>3. live' = live \/ live' = [live EXCEPT !.g = MarkPaused(live.g, s, now)]
    BY DEF Pause
  <1>4. /\ live'.open = live.open
        /\ \A x \in Slugs : live'.g.members[x].state \in Active
                                => live.g.members[x].state \in Active
    <2> DEFINE h == MarkPaused(live.g, s, now)
    <2>1. h \in GroupRec /\ \A x \in Slugs : h.members[x].state \in Active
                                                => live.g.members[x].state \in Active
      BY <1>2, MarkPausedKeeps DEF Active
    <2> HIDE DEF h
    <2>2. [live EXCEPT !.g = h].g = h /\ [live EXCEPT !.g = h].open = live.open
      BY <1>2, <2>1, LiveGroupExcept
    <2>3. live' = live \/ live' = [live EXCEPT !.g = h]
      BY <1>3 DEF h
    <2> QED BY <2>1, <2>2, <2>3
  <1> QED BY <1>1, <1>4, OwnerFrame

-----------------------------------------------------------------------------
(* Every step preserves the invariant. *)

\* A step of the notifier, or a reminder that is routed.
LEMMA TickStep ==
    ASSUME IInv, NEW s \in Slugs, Notify(s) \/ RouteReminder(s)
    PROVE  IInv'
  <1>1. TypeOK'
    <2>1. CASE Notify(s)
      BY <2>1, NotifyType DEF IInv
    <2>2. CASE RouteReminder(s)
      <3>1. tick' \in [Slugs -> TickType]
        BY <2>2, TickTypes DEF RouteReminder, Return, FlushSink, IInv
      <3>2. mode' \in {"individual", "pending", "group"}
        BY <2>2 DEF RouteReminder, Mode, IInv, TypeOK
      <3> QED BY <2>2, <3>1, <3>2 DEF RouteReminder, IInv, TypeOK
    <2> QED BY <2>1, <2>2
  <1>2. /\ UNCHANGED <<now, pool, downAt, indiv, ev, live, saved>>
        /\ mode' = mode \/ (live.open /\ mode' = "group")
    BY DEF Notify, NotifyResolve, NotifyReminder, StoreFreshParent, RouteReminder, Mode, chan
  <1>3. \A x \in Slugs : /\ row'[x].openedAt = row[x].openedAt
                         /\ row'[x].status = row[x].status
    <2>1. CASE StoreFreshParent(s)
      BY <2>1, RowThreadType DEF StoreFreshParent, IInv, TypeOK, TickType
    <2>2. CASE ~StoreFreshParent(s)
      BY <2>2 DEF Notify, NotifyResolve, NotifyReminder, RouteReminder
    <2> QED BY <2>1, <2>2
  <1>4. \A x \in Slugs, e \in OnlyOpenAndResolve :
            /\ Routed(x, e)' <=> Routed(x, e)
            /\ Routed(x, e) => tick'[x].at = tick[x].at
    <2>1. tick \in [Slugs -> TickType]
      BY DEF IInv, TypeOK
    <2>2. /\ \A x \in Slugs : x # s => tick'[x] = tick[x]
          /\ tick'[s].pc # "route"
      BY <2>1, NoLiveType
      DEF Notify, NotifyResolve, NotifyReminder, StoreFreshParent, RouteReminder,
          Return, FlushSink, TickType
    <2>3. \A e \in OnlyOpenAndResolve : ~Routed(s, e)
      BY DEF Notify, NotifyResolve, NotifyReminder, StoreFreshParent, RouteReminder,
             Routing, Routed, OnlyOpenAndResolve
    <2> QED BY <2>2, <2>3 DEF Routed
  <1>5. now' \in Nat /\ now' >= now /\ ev'.at <= now'
        /\ (ev'.pc \in {"open", "savePromoted", "saveEvaluated"} => live.open)
    BY <1>2, Times DEF IInv, TypeOK, Core, EvaluatorOK
  <1>6. TypeOK /\ Core /\ live'.open = live.open /\ UNCHANGED <<pool, downAt, indiv>>
    BY <1>2 DEF IInv
  <1>7. Core'
    BY <1>2, <1>3, <1>4, <1>5, <1>6, CoreFrame
  <1>8. OwnerOK'
    BY <1>2 DEF IInv, OwnerOK
  <1>9. ReadOK'
    BY TickStepRead DEF Route, IInv
  <1> QED BY <1>1, <1>7, <1>8, <1>9 DEF IInv

\* A step of the evaluator that neither decides the pool nor retires the group.
EvaluatorStep ==
    \/ StartPass \/ SkipPending \/ StartParentProbe \/ AbandonPool \/ FlushDone \/ NoGroup
    \/ OpenDigest \/ SavePromoted \/ EvaluateGroup
    \/ \E s \in Slugs : FlushOpen(s) \/ StoreOpenThread(s)

LEMMA EvaluatorStepType ==
    ASSUME IInv, EvaluatorStep
    PROVE  TypeOK'
  <1>1. CASE \E s \in Slugs : FlushOpen(s) \/ StoreOpenThread(s)
    BY <1>1, FlushType DEF IInv
  <1>2. CASE OpenDigest \/ SavePromoted \/ EvaluateGroup
    BY <1>2, GroupPassType DEF IInv
  <1>3. CASE StartPass \/ SkipPending \/ StartParentProbe \/ AbandonPool \/ FlushDone \/ NoGroup
    <2>1. ev' \in EvType
      BY <1>3, EvTypes, NoLiveType
      DEF StartPass, SkipPending, StartParentProbe, AbandonPool, FlushDone, NoGroup, IInv
    <2>2. UNCHANGED <<now, due, row, tick, mode, pool, pendingDue, downAt, indiv, live, saved,
                      msgs, claimed, crashes>>
      BY <1>3
      DEF StartPass, SkipPending, StartParentProbe, AbandonPool, FlushDone, NoGroup, chan
    <2> QED BY <2>1, <2>2 DEF IInv, TypeOK
  <1> QED BY <1>1, <1>2, <1>3 DEF EvaluatorStep

\* What such a step does to the evaluator and to the group.
LEMMA EvaluatorStepIs ==
    ASSUME IInv, EvaluatorStep
    PROVE  /\ UNCHANGED <<now, tick, mode, pool, downAt, indiv>>
           /\ ev'.at <= now
           /\ ev'.pc \in {"open", "savePromoted", "saveEvaluated"} => live.open
           /\ live'.open = live.open
           /\ ~StoreFails /\ saved'.open => saved.open \/ live.open
           /\ \A s \in Slugs : live'.g.members[s].state \in Active
                                    => live.g.members[s].state \in Active
           /\ \A s \in Slugs : /\ row'[s].openedAt = row[s].openedAt
                               /\ row'[s].status = row[s].status
  <1>0. /\ TypeOK /\ ev \in EvType /\ ev.at \in Time /\ ev.at <= now
        /\ live \in Live /\ live.g \in GroupRec /\ saved \in Live /\ now \in Nat
        /\ (ev.pc \in {"open", "savePromoted", "saveEvaluated"} => live.open)
    BY Times DEF IInv, TypeOK, EvType, Live, Core, EvaluatorOK
  <1>1. CASE \E s \in Slugs : FlushOpen(s) \/ StoreOpenThread(s)
    <2>1. PICK s \in Slugs : FlushOpen(s) \/ StoreOpenThread(s)
      BY <1>1
    <2>2. UNCHANGED <<now, tick, mode, pool, downAt, indiv, live, saved>>
      BY <2>1 DEF FlushOpen, StoreOpenThread, chan
    <2>3. ev'.at = ev.at /\ ev'.pc \in {"flush", "thread"}
      BY <1>0, <2>1 DEF FlushOpen, StoreOpenThread, EvType
    <2>4. \A x \in Slugs : /\ row'[x].openedAt = row[x].openedAt
                           /\ row'[x].status = row[x].status
      BY <1>0, <2>1, RowThreadType DEF FlushOpen, StoreOpenThread, EvType
    <2> QED BY <1>0, <2>2, <2>3, <2>4
  <1>2. CASE OpenDigest \/ EvaluateGroup
    <2>1. /\ UNCHANGED <<now, row, tick, mode, pool, downAt, indiv, saved>>
          /\ live.open
      BY <1>0, <1>2 DEF OpenDigest, EvaluateGroup, chan
    <2>2. ev'.at = ev.at
      <3>1. PICK pc \in {"groups", "savePromoted", "saveEvaluated"} : ev' = [ev EXCEPT !.pc = pc]
        BY <1>2 DEF OpenDigest, EvaluateGroup
      <3> QED BY <1>0, <3>1 DEF TypeOK, EvType
    <2>3. PICK ok \in SlackOK, h \in {Open(live.g, ev.at), Evaluate(live.g, ev.at)} :
            live' = [live EXCEPT !.g = h.group, !.ts = Posted(live, h.kinds, ok)]
      BY <1>2 DEF OpenDigest, EvaluateGroup
    <2>4. Posted(live, h.kinds, ok) \in BOOLEAN
      BY <1>0 DEF Posted, Live, SlackOK
    <2>5. /\ h.group \in GroupRec
          /\ \A s \in Slugs : h.group.members[s].state \in Active
                                    => live.g.members[s].state \in Active
      BY <1>0, OpenKeeps, EvaluateKeeps DEF Active
    <2>6. live'.open = live.open /\ live'.g = h.group
      <3> DEFINE gr == h.group
                 b == Posted(live, h.kinds, ok)
      <3>1. gr \in GroupRec /\ b \in BOOLEAN /\ live' = [live EXCEPT !.g = gr, !.ts = b]
        BY <2>3, <2>4, <2>5
      <3> HIDE DEF gr, b
      <3>2. live'.open = live.open /\ live'.g = gr
        BY <1>0, <3>1 DEF Live
      <3> QED BY <3>2 DEF gr
    <2> QED BY <1>0, <2>1, <2>2, <2>5, <2>6
  <1>3. CASE SavePromoted
    <2>1. UNCHANGED <<now, row, tick, mode, pool, downAt, indiv, live>> /\ Save /\ live.open
      BY <1>0, <1>3 DEF SavePromoted, chan
    <2>2. ev'.at = ev.at
      BY <1>0, <1>3, EvTypes DEF SavePromoted
    <2> QED BY <1>0, <2>1, <2>2
  <1>4. CASE StartPass \/ SkipPending \/ StartParentProbe \/ AbandonPool \/ FlushDone \/ NoGroup
    <2>1. UNCHANGED <<now, row, tick, mode, pool, downAt, indiv, live, saved>>
      BY <1>4
      DEF StartPass, SkipPending, StartParentProbe, AbandonPool, FlushDone, NoGroup, chan
    <2>2. ev'.at \in {ev.at, now, 0}
          /\ ev'.pc \notin {"open", "savePromoted", "saveEvaluated"}
      <3>1. ev' \in {[EvIdle EXCEPT !.pc = "pending", !.at = now], EvIdle}
                        \cup {[ev EXCEPT !.pc = pc] : pc \in {"groups", "probing"}}
        BY <1>4
        DEF StartPass, SkipPending, StartParentProbe, AbandonPool, FlushDone, NoGroup
      <3>2. /\ [EvIdle EXCEPT !.pc = "pending", !.at = now].at = now
            /\ [EvIdle EXCEPT !.pc = "pending", !.at = now].pc = "pending"
            /\ EvIdle.at = 0 /\ EvIdle.pc = "idle"
        BY NoLiveType DEF EvIdle
      <3>3. \A pc \in {"groups", "probing"} :
                [ev EXCEPT !.pc = pc].pc = pc /\ [ev EXCEPT !.pc = pc].at = ev.at
        BY <1>0 DEF EvType
      <3> QED BY <3>1, <3>2, <3>3
    <2> QED BY <1>0, <2>1, <2>2
  <1> QED BY <1>1, <1>2, <1>3, <1>4 DEF EvaluatorStep

LEMMA EvaluatorStepKeeps ==
    ASSUME IInv, EvaluatorStep
    PROVE  IInv'
  <1>1. TypeOK'
    BY EvaluatorStepType
  <1>2. \A s \in Slugs, e \in OnlyOpenAndResolve : Routed(s, e)' <=> Routed(s, e)
    BY EvaluatorStepIs DEF Routed
  <1>3. /\ UNCHANGED <<pool, downAt, indiv>> /\ mode' = mode /\ tick' = tick
        /\ now' \in Nat /\ now' >= now /\ ev'.at <= now' /\ TypeOK /\ Core
        /\ indiv \subseteq Slugs /\ OwnerOK
    BY EvaluatorStepIs, Times DEF IInv, TypeOK
  <1>4. Core'
    BY <1>2, <1>3, EvaluatorStepIs, CoreFrame
  <1>5. OwnerOK'
    BY <1>3, EvaluatorStepIs, OwnerFrame
  <1>6. ReadOK'
    BY <1>3, EvaluateAllRead DEF IInv, EvaluatorStep, EvaluateAll
  <1> QED BY <1>1, <1>4, <1>5, <1>6 DEF IInv

LEMMA InitKeeps == Init => IInv
  <1> SUFFICES ASSUME Init PROVE IInv
    OBVIOUS
  <1>1. /\ now = 0 /\ due = Slugs /\ mode = "individual" /\ pool = NoPool /\ pendingDue = 0
        /\ downAt = NoPool /\ indiv = {} /\ ev = EvIdle /\ live = NoLive /\ saved = NoLive
        /\ crashes = 0
        /\ row = [s \in Slugs |-> A!NewRow]
        /\ tick = [s \in Slugs |-> TickIdle]
        /\ msgs = [s \in Slugs |-> <<>>] /\ claimed = [s \in Slugs |-> NoTime]
    BY DEF Init
  <1>2. A!NewRow \in RowType /\ A!NewRow.openedAt = NoTime /\ A!NewRow.status = "up"
    BY Times DEF A!NewRow, RowType, A!Status, NoTime
  <1>3. row \in [Slugs -> RowType] /\ tick \in [Slugs -> TickType]
        /\ msgs \in [Slugs -> Seq(Colour)]
    BY <1>1, <1>2, NoLiveType
  <1>4. TypeOK
    BY <1>1, <1>3, NoLiveType, Times DEF TypeOK
  <1>5. \A s \in Slugs : /\ row[s].openedAt = NoTime /\ row[s].status = "up"
                         /\ tick[s].pc = "idle" /\ pool[s] = NoTime /\ ~Held(s)
    BY <1>1, <1>2, NoLiveType DEF Held
  <1>6. RowOK /\ OpensAreNew /\ HeldIsOpen /\ PoolOK /\ CountedOK
    BY <1>1, <1>5 DEF RowOK, OpensAreNew, HeldIsOpen, PoolOK, CountedOK, Routed
  <1>7. EvaluatorOK
    BY <1>1, NoLiveType DEF EvaluatorOK
  <1>8. CapOK
    BY <1>1, EmptyCap
  <1>9. OwnerOK
    BY <1>1, NoLiveType DEF OwnerOK
  <1>10. ReadOK
    BY <1>5 DEF ReadOK
  <1> QED BY <1>4, <1>6, <1>7, <1>8, <1>9, <1>10 DEF IInv, Core

LEMMA TickKeeps ==
    ASSUME IInv, Tick
    PROVE  IInv'
  <1>1. /\ now \in Nat /\ now' = now + 1 /\ now' \in Time /\ now' \in Nat /\ due' = Slugs
        /\ UNCHANGED <<row, tick, mode, pool, pendingDue, downAt, indiv, ev, live, saved,
                       msgs, claimed, crashes>>
    BY ConfigAssumption DEF Tick, IInv, TypeOK, Time, chan
  <1>2. TypeOK'
    BY <1>1 DEF IInv, TypeOK
  <1>3. \A s \in Slugs, e \in OnlyOpenAndResolve : Routed(s, e)' <=> Routed(s, e)
    BY <1>1 DEF Routed
  <1>4. /\ TypeOK /\ Core /\ now' >= now /\ ev'.at <= now' /\ ev.at \in Nat
        /\ (ev'.pc \in {"open", "savePromoted", "saveEvaluated"} => live.open)
    <2>1. ev.at \in Nat /\ ev.at <= now /\ TypeOK /\ Core
          /\ (ev.pc \in {"open", "savePromoted", "saveEvaluated"} => live.open)
      BY Times DEF IInv, TypeOK, EvType, Core, EvaluatorOK
    <2> QED BY <1>1, <2>1
  <1>5. Core'
    BY <1>1, <1>3, <1>4, CoreFrame
  <1>6. OwnerOK'
    BY <1>1 DEF IInv, OwnerOK
  <1>7. ReadOK'
    BY <1>1, ReadFrame DEF IInv
  <1> QED BY <1>2, <1>5, <1>6, <1>7 DEF IInv

LEMMA NextKeeps ==
    ASSUME IInv, [Next]_vars
    PROVE  IInv'
  <1> USE DEF IInv
  <1>1. CASE Tick
    BY <1>1, TickKeeps
  <1>2. ASSUME NEW s \in Slugs, NEW ok \in BOOLEAN, Probe(s, ok)
        PROVE  IInv'
    <2>1. OwnerOK'
      BY <1>2 DEF Probe, OwnerOK, chan
    <2>2. TypeOK' /\ Core' /\ ReadOK'
      BY <1>2, ProbeType, ProbeCore, ProbeRead DEF Core
    <2> QED BY <2>1, <2>2
  <1>3. ASSUME NEW s \in Slugs, Commit(s)
        PROVE  IInv'
    <2>1. OwnerOK'
      BY <1>3 DEF Commit, OwnerOK, chan
    <2> QED BY <1>3, <2>1, CommitType, CommitCore, CommitRead
  <1>4. ASSUME NEW s \in Slugs, Route(s) \/ Notify(s)
        PROVE  IInv'
    <2>0. ReadOK'
      BY <1>4, TickStepRead
    <2>1. CASE RouteOpen(s)
      BY <2>0, <2>1, RouteOpenType, RouteOpenCore, RouteOpenOwner
    <2>2. CASE RouteResolve(s)
      BY <2>0, <2>2, RouteResolveType, RouteResolveCore, RouteResolveOwner
    <2>3. CASE RouteReminder(s) \/ Notify(s)
      BY <2>3, TickStep
    <2> QED BY <1>4, <2>1, <2>2, <2>3 DEF Route
  <1>5. ASSUME NEW s \in Slugs, PauseRow(s) \/ Pause(s)
        PROVE  IInv'
    <2>1. CASE PauseRow(s)
      <3>1. TypeOK' /\ (\A x \in Slugs : row'[x].openedAt = row[x].openedAt)
            /\ UNCHANGED <<tick, indiv, live, saved>>
        BY <2>1, PauseRowIs DEF Core
      <3>2. ReadOK' /\ OwnerOK'
        BY <3>1, ReadFrame DEF OwnerOK
      <3> QED BY <2>1, <3>1, <3>2, PauseRowCore
    <2>2. CASE Pause(s)
      <3>1. ReadOK'
        BY <2>2, ReadFrame DEF Pause
      <3> QED BY <2>2, <3>1, PauseType, PauseCore, PauseOwner
    <2> QED BY <1>5, <2>1, <2>2
  <1>6. CASE EvaluateAll
    <2>0. ReadOK'
      BY <1>6, EvaluateAllRead
    <2>1. CASE PromotePool
      BY <2>0, <2>1, DecideType, PromoteCore, DecideOwner
    <2>2. CASE FlushPool
      BY <2>0, <2>2, DecideType, FlushCore, DecideOwner
    <2>3. CASE SaveEvaluated
      <3>1. OwnerOK'
        <4>1. live.open /\ Save /\ UNCHANGED indiv
          BY <2>3 DEF SaveEvaluated, Core, EvaluatorOK
        <4>2. ~StoreFails => saved' = IF live.g.closed THEN NoLive ELSE live
          BY <4>1, SaveType DEF TypeOK
        <4>3. live' = IF live.g.closed THEN NoLive ELSE live
          BY <2>3 DEF SaveEvaluated, RetireGroup
        <4> QED BY <4>1, <4>2, <4>3, NoLiveType DEF OwnerOK
      <3> QED BY <2>0, <2>3, <3>1, GroupPassType, SaveEvaluatedCore
    <2>4. CASE EvaluatorStep
      BY <2>4, EvaluatorStepKeeps
    <2> QED BY <1>6, <2>1, <2>2, <2>3, <2>4 DEF EvaluateAll, EvaluatorStep
  <1>7. CASE CrashRestart
    BY <1>7, CrashCore
  <1>8. CASE UNCHANGED vars
    <2>1. UNCHANGED <<now, due, row, tick, mode, pool, pendingDue, downAt, indiv, ev, live,
                      saved, msgs, claimed, crashes>>
      BY <1>8 DEF vars, chan
    <2> QED BY <2>1 DEF TypeOK, Core, ReadOK, OwnerOK, RowOK, OpensAreNew, HeldIsOpen, PoolOK,
               EvaluatorOK, CountedOK, CapOK, Counted, Held, Routed, NoTime
  <1> QED BY <1>1, <1>2, <1>3, <1>4, <1>5, <1>6, <1>7, <1>8 DEF Next

-----------------------------------------------------------------------------
(* What the dispatcher has been told of, and what it has a record of. *)

\* The burst count only holds incidents that are open, or whose resolve is on
\* its way.
CountIsOpen ==
    \A s \in Slugs : downAt[s] # NoTime => row[s].openedAt # NoTime \/ Routed(s, "resolve")

ResolvesAreOver == \A s \in Slugs : Routed(s, "resolve") => row[s].openedAt = NoTime

IsDown(l, s) == l.open /\ l.g.members[s].state = "down"

\* A group that Evaluate closed is retired before anyone else takes the mutex,
\* and no member of it is down; it is never reloaded.
ClosedOK ==
    /\ live.open /\ live.g.closed =>
            ev.pc = "saveEvaluated" /\ \A s \in Slugs : ~IsDown(live, s)
    /\ saved.open => ~saved.g.closed

\* Until the first crash, and while the store answers: an incident that is open
\* and whose open is not still on its way is on record.
KnownOK ==
    ~StoreFails /\ crashes = 0 =>
        \A s \in Slugs \ Children :
            row[s].openedAt # NoTime /\ ~Routed(s, "open") => Accounted(s)

RecordOK == CountIsOpen /\ ResolvesAreOver /\ ClosedOK /\ KnownOK

LEMMA CommitIs ==
    ASSUME TypeOK, ReadOK, NEW s \in Slugs, Commit(s)
    PROVE  /\ \A x \in Slugs : x # s => row'[x] = row[x] /\ tick'[x] = tick[x]
           /\ tick[s].event \in {"open", "resolve", "reminder", "none"}
           /\ tick[s].event = "none" => tick'[s].pc = "idle"
           /\ tick[s].event # "none" =>
                /\ tick'[s].pc = "route" /\ tick'[s].event = tick[s].event
                /\ tick'[s].at = tick[s].at /\ tick'[s].ts = tick[s].ts
           /\ tick[s].event = "open" =>
                row[s].openedAt = NoTime /\ row'[s].openedAt = tick[s].at
           /\ tick[s].event = "resolve" =>
                row[s].openedAt # NoTime /\ row'[s].openedAt = NoTime
           /\ tick[s].event \in {"reminder", "none"} => row'[s].openedAt = row[s].openedAt
           /\ tick[s].pc = "commit"
           /\ UNCHANGED <<now, due, mode, pool, pendingDue, downAt, indiv, ev, live, saved,
                          crashes>>
  <1> DEFINE e == tick[s].event
             n == tick[s].next
             r == A!ApplyCheck(row[s], n, e)
             u == ToRoute(tick[s])
  <1>1. tick[s] \in TickType /\ row[s] \in RowType /\ e \in A!EventType /\ n \in StateType
    BY DEF TypeOK, TickType
  <1>2. /\ row' = [row EXCEPT ![s] = r]
        /\ tick' = [tick EXCEPT ![s] = u]
        /\ tick[s].pc = "commit"
        /\ UNCHANGED <<now, due, mode, pool, pendingDue, downAt, indiv, ev, live, saved,
                       crashes>>
    BY DEF Commit, chan
  <1>3. r.openedAt = n.openedAt
    BY <1>1, ApplyCheckIs
  <1>4. IF e = "none" THEN u.pc = "idle"
        ELSE u.pc = "route" /\ u.event = e /\ u.at = tick[s].at /\ u.ts = tick[s].ts
    BY <1>1, ToRouteIs
  <1>5. /\ e = "open" => row[s].openedAt = NoTime /\ n.openedAt = tick[s].at
        /\ e = "resolve" => row[s].openedAt # NoTime /\ n.openedAt = NoTime
        /\ e \in {"reminder", "none"} => n.openedAt = row[s].openedAt
    BY <1>2 DEF ReadOK
  <1> HIDE DEF r, u
  <1>6. /\ row'[s] = r /\ tick'[s] = u
        /\ \A x \in Slugs : x # s => row'[x] = row[x] /\ tick'[x] = tick[x]
    BY <1>2 DEF TypeOK
  <1>7. e \in {"open", "resolve", "reminder", "none"}
    BY <1>1 DEF A!EventType
  <1> QED BY <1>2, <1>3, <1>4, <1>5, <1>6, <1>7

\* A member that is down stays down, and a group that is closed has none.
LEMMA EvaluateDowns ==
    ASSUME NEW g \in GroupRec, NEW t \in Time, ~g.closed
    PROVE  LET h == Evaluate(g, t).group
           IN  /\ \A s \in Slugs : g.members[s].state = "down" => h.members[s].state = "down"
               /\ h.closed => \A s \in Slugs : h.members[s].state # "down"
  <1> DEFINE r == Evaluate(g, t)
             p == Promote(g, t)
             h == r.group
  <1>1. /\ \A s \in Slugs : h.members[s].state = p.members[s].state
        /\ h.closed => InState(p, "down") = {}
    BY EvaluateOutcome
    DEF Idle, Discarded, FirstPost, Flushed, Closed, SameMembers, Rendered, NothingActive
  <1>2. \A s \in Slugs : g.members[s].state = "down" => p.members[s].state = "down"
    BY PromoteType
  <1>3. h.closed => \A s \in Slugs : p.members[s].state # "down"
    BY <1>1 DEF InState
  <1> QED BY <1>1, <1>2, <1>3

\* A step that leaves the incidents, the routed events and the claims alone,
\* and takes no member out of "down".
LEMMA RecordFrame ==
    ASSUME RecordOK,
           \A s \in Slugs : row'[s].openedAt = row[s].openedAt,
           \A s \in Slugs : \A e \in OnlyOpenAndResolve : Routed(s, e)' <=> Routed(s, e),
           \A s \in Slugs : downAt'[s] \in {downAt[s], NoTime},
           UNCHANGED <<pool, indiv, crashes>>,
           \A s \in Slugs : IsDown(live, s) => IsDown(live', s),
           live'.open /\ live'.g.closed =>
                ev'.pc = "saveEvaluated" /\ \A s \in Slugs : ~IsDown(live', s),
           saved'.open => ~saved'.g.closed
    PROVE  RecordOK'
  <1>1. CountIsOpen' /\ ResolvesAreOver'
    BY DEF RecordOK, CountIsOpen, ResolvesAreOver, OnlyOpenAndResolve, NoTime
  <1>2. ClosedOK'
    BY DEF ClosedOK, IsDown
  <1>3. KnownOK'
    <2>1. \A s \in Slugs : Accounted(s) => Accounted(s)'
      BY DEF Accounted, IsDown, NoTime
    <2> QED BY <2>1 DEF RecordOK, KnownOK, OnlyOpenAndResolve, NoTime
  <1> QED BY <1>1, <1>2, <1>3 DEF RecordOK

LEMMA CommitRecord ==
    ASSUME IInv, RecordOK, NEW s \in Slugs, Commit(s)
    PROVE  RecordOK'
  <1>1. TypeOK /\ ReadOK
    BY DEF IInv
  <1>2. /\ \A x \in Slugs : x # s => row'[x] = row[x] /\ tick'[x] = tick[x]
        /\ \A x \in Slugs, e \in OnlyOpenAndResolve : x # s => (Routed(x, e)' <=> Routed(x, e))
        /\ ~Routed(s, "open") /\ ~Routed(s, "resolve")
        /\ UNCHANGED <<mode, pool, downAt, indiv, ev, live, saved, crashes>>
    BY <1>1, CommitIs DEF Routed
  <1>3. \/ Routed(s, "open")' /\ row[s].openedAt = NoTime /\ row'[s].openedAt \in Time
        \/ Routed(s, "resolve")' /\ row[s].openedAt # NoTime /\ row'[s].openedAt = NoTime
        \/ ~Routed(s, "resolve")' /\ row'[s].openedAt = row[s].openedAt
    <2>1. tick[s].at \in Time
      BY <1>1 DEF TypeOK, TickType
    <2> QED BY <1>1, <2>1, CommitIs DEF Routed
  <1>4. Routed(s, "open")' => ~Routed(s, "resolve")'
    BY DEF Routed
  <1>5. NoTime \notin Time
    BY Times
  <1>6. CountIsOpen'
    <2> SUFFICES ASSUME NEW x \in Slugs, downAt[x] # NoTime
                 PROVE  row'[x].openedAt # NoTime \/ Routed(x, "resolve")'
      BY <1>2 DEF CountIsOpen, NoTime
    <2>1. row[x].openedAt # NoTime \/ Routed(x, "resolve")
      BY DEF RecordOK, CountIsOpen
    <2>2. CASE x = s
      BY <1>2, <1>3, <1>5, <2>1, <2>2
    <2>3. CASE x # s
      BY <1>2, <2>1, <2>3 DEF OnlyOpenAndResolve
    <2> QED BY <2>2, <2>3
  <1>7. ResolvesAreOver'
    <2> SUFFICES ASSUME NEW x \in Slugs, Routed(x, "resolve")'
                 PROVE  row'[x].openedAt = NoTime
      BY DEF ResolvesAreOver, NoTime
    <2>1. CASE x = s
      BY <1>3, <1>4, <2>1
    <2>2. CASE x # s
      BY <1>2, <2>2 DEF RecordOK, ResolvesAreOver, OnlyOpenAndResolve
    <2> QED BY <2>1, <2>2
  <1>8. ClosedOK'
    BY <1>2 DEF RecordOK, ClosedOK, IsDown
  <1>9. KnownOK'
    <2> SUFFICES ASSUME ~StoreFails, crashes = 0, NEW x \in Slugs \ Children,
                        row'[x].openedAt # NoTime, ~Routed(x, "open")'
                 PROVE  Accounted(x)'
      BY <1>2 DEF KnownOK, NoTime
    <2>1. Accounted(x)' <=> Accounted(x)
      BY <1>2 DEF Accounted, NoTime
    <2>2. row[x].openedAt # NoTime /\ ~Routed(x, "open")
      <3>1. CASE x = s
        BY <1>2, <1>3, <1>4, <3>1
      <3>2. CASE x # s
        BY <1>2, <3>2 DEF OnlyOpenAndResolve
      <3> QED BY <3>1, <3>2
    <2> QED BY <2>1, <2>2 DEF RecordOK, KnownOK
  <1> QED BY <1>6, <1>7, <1>8, <1>9 DEF RecordOK

\* An open that is routed is recorded: in the pool, or in the digest.
LEMMA RouteOpenRecord ==
    ASSUME IInv, RecordOK, NEW s \in Slugs, RouteOpen(s)
    PROVE  RecordOK'
  <1>1. TypeOK /\ Core /\ OwnerOK /\ tick[s].at \in Time /\ live \in Live /\ saved \in Live
    BY DEF IInv, TypeOK, TickType
  <1>2. /\ downAt' = [downAt EXCEPT ![s] = tick[s].at]
        /\ tick' = [tick EXCEPT ![s] = TickIdle]
        /\ UNCHANGED <<row, indiv, ev, crashes>>
        /\ Routed(s, "open") /\ ev.pc \notin {"open", "savePromoted", "saveEvaluated"}
    BY DEF RouteOpen, Routing, Routed, Locked, Return
  <1>3. /\ \A x \in Slugs : x # s => downAt'[x] = downAt[x]
        /\ tick'[s].pc = "idle" /\ \A x \in Slugs : x # s => tick'[x] = tick[x]
    BY <1>1, <1>2, NoLiveType DEF TypeOK
  <1>4. /\ \A x \in Slugs, e \in OnlyOpenAndResolve : x # s => (Routed(x, e)' <=> Routed(x, e))
        /\ ~Routed(s, "open")' /\ ~Routed(s, "resolve")' /\ ~Routed(s, "resolve")
    BY <1>2, <1>3 DEF Routed
  <1>5. row[s].openedAt = tick[s].at /\ NoTime \notin Time
    BY <1>1, <1>2, Times DEF Core, OpensAreNew
  <1>6. CountIsOpen' /\ ResolvesAreOver'
    BY <1>1, <1>2, <1>3, <1>4, <1>5
    DEF RecordOK, CountIsOpen, ResolvesAreOver, OnlyOpenAndResolve, NoTime
  <1>7. CASE Mode = "group"
    <2>1. PICK e \in EnsureGroup(tick[s].at) :
            live' = MarkAllDown(e.live, {s}) /\ saved' = e.saved
      BY <1>7 DEF RouteOpen
    <2>2. UNCHANGED pool
      BY <1>7 DEF RouteOpen
    <2>3. /\ e.live \in Live /\ e.saved \in Live
          /\ live.open => e.live = live
          /\ ~StoreFails => e.live.open
      BY <1>1, EnsureGroupIs
    <2>4. /\ e.live.open => ~e.live.g.closed
          /\ e.saved.open => ~e.saved.g.closed
      BY <1>1, <1>2, EnsureOpen DEF RecordOK, ClosedOK
    <2>5. /\ live'.open = e.live.open /\ live'.g.closed = e.live.g.closed
          /\ \A x \in Slugs : IsDown(live', x) <=> e.live.open /\ (x = s \/ IsDown(e.live, x))
      <3>1. /\ live'.open = e.live.open /\ live'.g.closed = e.live.g.closed
            /\ e.live.open => live'.g.members[s].state = "down"
            /\ \A x \in Slugs \ {s} : live'.g.members[x] = e.live.g.members[x]
        BY <2>1, <2>3, MarkAllDownIs, MarkAllDownDowns
      <3> QED BY <3>1 DEF IsDown
    <2>6. ClosedOK'
      BY <2>1, <2>4, <2>5 DEF ClosedOK
    <2>7. KnownOK'
      <3> SUFFICES ASSUME ~StoreFails, crashes = 0, NEW x \in Slugs \ Children,
                          row[x].openedAt # NoTime, ~Routed(x, "open")'
                   PROVE  Accounted(x)'
        BY <1>2 DEF KnownOK, NoTime
      <3>1. CASE x = s
        BY <2>3, <2>5, <3>1 DEF Accounted, IsDown
      <3>2. CASE x # s
        <4>1. Accounted(x)
          BY <1>4, <3>2 DEF RecordOK, KnownOK, OnlyOpenAndResolve
        <4> QED BY <1>2, <2>2, <2>3, <2>5, <4>1 DEF Accounted, IsDown, NoTime
      <3> QED BY <3>1, <3>2
    <2> QED BY <1>6, <2>6, <2>7 DEF RecordOK
  <1>8. CASE Mode # "group"
    <2>1. /\ UNCHANGED <<live, saved>>
          /\ pool' \in {[NoPool EXCEPT ![s] = tick[s].at], [pool EXCEPT ![s] = tick[s].at]}
          /\ mode = "pending" => pool' = [pool EXCEPT ![s] = tick[s].at]
      BY <1>8 DEF RouteOpen, Mode
    <2>2. \A x \in Slugs : pool[x] # NoTime => pool'[x] # NoTime
      BY <1>1, <1>5, <2>1 DEF Core, PoolOK, TypeOK
    <2>3. pool'[s] # NoTime
      BY <1>1, <1>5, <2>1, NoLiveType DEF TypeOK
    <2>4. ClosedOK'
      BY <1>2, <2>1 DEF RecordOK, ClosedOK, IsDown
    <2>5. KnownOK'
      BY <1>2, <1>4, <2>1, <2>2, <2>3
      DEF RecordOK, KnownOK, Accounted, OnlyOpenAndResolve, NoTime
    <2> QED BY <1>6, <2>4, <2>5 DEF RecordOK
  <1> QED BY <1>7, <1>8

\* A step that releases s, which nothing is owed: its incident is over, or it is
\* a child that was paused.
LEMMA ReleaseRecord ==
    ASSUME RecordOK, NEW s \in Slugs,
           s \in Children \/ row[s].openedAt = NoTime,
           downAt'[s] = NoTime, ~Routed(s, "resolve")' \/ Routed(s, "resolve"),
           \A x \in Slugs : x # s =>
                /\ downAt'[x] = downAt[x] /\ pool'[x] = pool[x] /\ (x \in indiv' <=> x \in indiv)
                /\ \A e \in OnlyOpenAndResolve : Routed(x, e)' <=> Routed(x, e)
                /\ IsDown(live', x) <=> IsDown(live, x),
           live'.open = live.open, live'.g.closed = live.g.closed,
           ev.pc # "saveEvaluated",
           UNCHANGED <<row, ev, saved, crashes>>
    PROVE  RecordOK'
  <1>1. CountIsOpen' /\ ResolvesAreOver'
    BY DEF RecordOK, CountIsOpen, ResolvesAreOver, OnlyOpenAndResolve, NoTime
  <1>2. ClosedOK'
    BY DEF RecordOK, ClosedOK
  <1>3. KnownOK'
    <2> SUFFICES ASSUME ~StoreFails, crashes = 0, NEW x \in Slugs \ Children,
                        row[x].openedAt # NoTime, ~Routed(x, "open")'
                 PROVE  Accounted(x)'
      BY DEF KnownOK, NoTime
    <2>1. x # s
      OBVIOUS
    <2>2. Accounted(x)
      BY <2>1 DEF RecordOK, KnownOK, OnlyOpenAndResolve
    <2> QED BY <2>1, <2>2 DEF Accounted, IsDown, NoTime
  <1> QED BY <1>1, <1>2, <1>3 DEF RecordOK

LEMMA RouteResolveRecord ==
    ASSUME IInv, RecordOK, NEW s \in Slugs, RouteResolve(s)
    PROVE  RecordOK'
  <1>1. /\ TypeOK /\ Core /\ live \in Live /\ live.g \in GroupRec /\ tick[s].at \in Time
        /\ tick \in [Slugs -> TickType]
    BY DEF IInv, TypeOK, TickType, Live
  <1>2. /\ downAt' = [downAt EXCEPT ![s] = NoTime]
        /\ indiv' = indiv \ {s}
        /\ tick' \in {[tick EXCEPT ![s] = TickIdle], [tick EXCEPT ![s].pc = "notify"]}
        /\ live' \in {live, [live EXCEPT !.g = MarkUp(live.g, s, tick[s].at)]}
        /\ UNCHANGED <<row, ev, saved, crashes>>
        /\ Routed(s, "resolve") /\ ev.pc \notin {"open", "savePromoted", "saveEvaluated"}
    BY DEF RouteResolve, ClearDown, Return, FlushSink, Routing, Routed, Locked
  <1>3. downAt'[s] = NoTime /\ \A x \in Slugs : x # s => downAt'[x] = downAt[x]
    BY <1>1, <1>2 DEF TypeOK
  <1>4. \A x \in Slugs, e \in OnlyOpenAndResolve : x # s => (Routed(x, e)' <=> Routed(x, e))
    BY <1>1, <1>2 DEF Routed
  <1>5. \A x \in Slugs : x # s => pool'[x] = pool[x]
    <2>1. CASE s \notin indiv /\ Mode = "pending"
      <3>1. DropFromPool(s) /\ mode = "pending"
        BY <2>1 DEF RouteResolve, Mode
      <3> QED BY <1>1, <3>1, DropFromPoolIs
    <2>2. CASE s \in indiv \/ Mode # "pending"
      BY <2>2 DEF RouteResolve
    <2> QED BY <2>1, <2>2
  <1>6. /\ live'.open = live.open /\ live'.g.closed = live.g.closed
        /\ \A x \in Slugs : x # s => live'.g.members[x] = live.g.members[x]
    <2> DEFINE h == MarkUp(live.g, s, tick[s].at)
    <2>1. /\ h \in GroupRec /\ h.closed = live.g.closed
          /\ \A x \in Slugs : x # s => h.members[x] = live.g.members[x]
      BY <1>1, MarkUpStaged DEF Staged
    <2>2. live' \in {live, [live EXCEPT !.g = h]}
      BY <1>2
    <2> HIDE DEF h
    <2>3. [live EXCEPT !.g = h].g = h /\ [live EXCEPT !.g = h].open = live.open
      BY <1>1, <2>1, LiveGroupExcept
    <2> QED BY <2>1, <2>2, <2>3
  <1>7. row[s].openedAt = NoTime
    BY <1>2 DEF RecordOK, ResolvesAreOver
  <1>8. \A x \in Slugs : x # s => (IsDown(live', x) <=> IsDown(live, x))
    BY <1>6 DEF IsDown
  <1>9. \A x \in Slugs : x # s => (x \in indiv' <=> x \in indiv)
    BY <1>2
  <1> QED BY <1>2, <1>3, <1>4, <1>5, <1>6, <1>7, <1>8, <1>9, ReleaseRecord

LEMMA PauseRecord ==
    ASSUME IInv, RecordOK, NEW s \in Slugs, Pause(s)
    PROVE  RecordOK'
  <1>1. TypeOK /\ Core /\ live \in Live /\ live.g \in GroupRec /\ now \in Time
    BY DEF IInv, TypeOK, Live
  <1>2. /\ downAt' = [downAt EXCEPT ![s] = NoTime]
        /\ live' \in {live, [live EXCEPT !.g = MarkPaused(live.g, s, now)]}
        /\ s \in Children /\ ev.pc \notin {"open", "savePromoted", "saveEvaluated"}
        /\ UNCHANGED <<row, tick, indiv, ev, saved, crashes>>
    BY DEF Pause, ForgetDown, Locked
  <1>3. downAt'[s] = NoTime /\ \A x \in Slugs : x # s => downAt'[x] = downAt[x]
    BY <1>1, <1>2 DEF TypeOK
  <1>4. \A x \in Slugs, e \in OnlyOpenAndResolve : Routed(x, e)' <=> Routed(x, e)
    BY <1>2 DEF Routed
  <1>5. \A x \in Slugs : x # s => pool'[x] = pool[x]
    <2>1. CASE Mode = "pending"
      <3>1. DropFromPool(s) /\ mode = "pending"
        BY <2>1 DEF Pause, Mode
      <3> QED BY <1>1, <3>1, DropFromPoolIs
    <2>2. CASE Mode # "pending"
      BY <2>2 DEF Pause
    <2> QED BY <2>1, <2>2
  <1>6. /\ live'.open = live.open /\ live'.g.closed = live.g.closed
        /\ \A x \in Slugs : x # s => live'.g.members[x] = live.g.members[x]
    <2> DEFINE h == MarkPaused(live.g, s, now)
    <2>1. /\ h \in GroupRec /\ h.closed = live.g.closed
          /\ \A x \in Slugs : x # s => h.members[x] = live.g.members[x]
      BY <1>1, MarkPausedStaged DEF Staged
    <2>2. live' \in {live, [live EXCEPT !.g = h]}
      BY <1>2
    <2> HIDE DEF h
    <2>3. [live EXCEPT !.g = h].g = h /\ [live EXCEPT !.g = h].open = live.open
      BY <1>1, <2>1, LiveGroupExcept
    <2> QED BY <2>1, <2>2, <2>3
  <1>7. \A x \in Slugs : x # s => (IsDown(live', x) <=> IsDown(live, x))
    BY <1>6 DEF IsDown
  <1>8. Routed(s, "resolve")' => Routed(s, "resolve")
    BY <1>2 DEF Routed
  <1> QED BY <1>2, <1>3, <1>4, <1>5, <1>6, <1>7, <1>8, ReleaseRecord

\* The pool is decided: its monitors go down in the digest or to the notifier.
LEMMA PromoteRecord ==
    ASSUME IInv, RecordOK, PromotePool
    PROVE  RecordOK'
  <1>1. /\ TypeOK /\ Core /\ OwnerOK /\ live \in Live /\ saved \in Live
        /\ Members(pool) \subseteq Slugs /\ ev.at \in Time
    BY EvTypes DEF IInv, TypeOK, Members
  <1>2. /\ downAt' = PruneDown(ev.at)
        /\ UNCHANGED <<row, tick, indiv, crashes>>
        /\ mode = "pending" /\ ~live.open
    BY <1>1 DEF PromotePool, Deciding, Expired, Core, PoolOK
  <1>3. PICK t \in Time : \E e \in EnsureGroup(t) :
            live' = MarkAllDown(e.live, Members(pool)) /\ saved' = e.saved
    BY DEF PromotePool
  <1>4. PICK e \in EnsureGroup(t) :
            live' = MarkAllDown(e.live, Members(pool)) /\ saved' = e.saved
    BY <1>3
  <1>5. /\ e.live \in Live /\ e.saved \in Live
        /\ ~StoreFails => e.live.open
    BY <1>1, EnsureGroupIs
  <1>6. /\ e.live.open => ~e.live.g.closed
        /\ e.saved.open => ~e.saved.g.closed
    BY <1>1, <1>2, EnsureOpen DEF RecordOK, ClosedOK
  <1>7. /\ live'.open = e.live.open /\ live'.g.closed = e.live.g.closed
        /\ e.live.open => \A x \in Members(pool) : live'.g.members[x].state = "down"
    BY <1>1, <1>4, <1>5, MarkAllDownIs, MarkAllDownDowns
  <1>8. \A x \in Slugs, e2 \in OnlyOpenAndResolve : Routed(x, e2)' <=> Routed(x, e2)
    BY <1>2 DEF Routed
  <1>9. \A x \in Slugs : downAt'[x] \in {downAt[x], NoTime}
    BY <1>1, <1>2, PruneDownIs DEF TypeOK
  <1>10. CountIsOpen' /\ ResolvesAreOver'
    BY <1>2, <1>8, <1>9 DEF RecordOK, CountIsOpen, ResolvesAreOver, OnlyOpenAndResolve, NoTime
  <1>11. ClosedOK'
    BY <1>4, <1>6, <1>7 DEF ClosedOK
  <1>12. KnownOK'
    <2> SUFFICES ASSUME ~StoreFails, crashes = 0, NEW x \in Slugs \ Children,
                        row[x].openedAt # NoTime, ~Routed(x, "open")
                 PROVE  Accounted(x)'
      BY <1>2, <1>8 DEF KnownOK, OnlyOpenAndResolve, NoTime
    <2>1. x \in Members(pool) \/ x \in indiv
      BY <1>2 DEF RecordOK, KnownOK, Accounted, Members
    <2> QED BY <1>2, <1>5, <1>7, <2>1 DEF Accounted
  <1> QED BY <1>10, <1>11, <1>12 DEF RecordOK

LEMMA FlushRecord ==
    ASSUME IInv, RecordOK, FlushPool
    PROVE  RecordOK'
  <1>1. TypeOK /\ Core /\ ev.at \in Time
    BY EvTypes DEF IInv
  <1>2. /\ downAt' = PruneDown(ev.at) /\ indiv' = indiv \cup Members(pool)
        /\ UNCHANGED <<row, tick, live, saved, crashes>>
        /\ mode = "pending" /\ ~live.open
    BY <1>1 DEF FlushPool, TakeIndividual, Deciding, Expired, Core, PoolOK
  <1>3. \A x \in Slugs, e \in OnlyOpenAndResolve : Routed(x, e)' <=> Routed(x, e)
    BY <1>2 DEF Routed
  <1>4. \A x \in Slugs : downAt'[x] \in {downAt[x], NoTime}
    BY <1>1, <1>2, PruneDownIs DEF TypeOK
  <1>5. CountIsOpen' /\ ResolvesAreOver'
    BY <1>2, <1>3, <1>4 DEF RecordOK, CountIsOpen, ResolvesAreOver, OnlyOpenAndResolve, NoTime
  <1>6. ClosedOK'
    BY <1>2 DEF RecordOK, ClosedOK
  <1>7. KnownOK'
    <2>1. \A x \in Slugs : Accounted(x) => Accounted(x)'
      BY <1>2 DEF Accounted, Members
    <2> QED BY <1>2, <1>3, <2>1 DEF RecordOK, KnownOK, OnlyOpenAndResolve, NoTime
  <1> QED BY <1>5, <1>6, <1>7 DEF RecordOK

\* A digest that is retired accounts for nobody any more: no member is down.
LEMMA SaveEvaluatedRecord ==
    ASSUME IInv, RecordOK, SaveEvaluated
    PROVE  RecordOK'
  <1>1. /\ TypeOK /\ live \in Live /\ saved \in Live /\ live.open /\ mode # "pending"
        /\ \A x \in Slugs : pool[x] = NoTime
    BY DEF IInv, TypeOK, SaveEvaluated, Core, EvaluatorOK, PoolOK
  <1>2. Save /\ UNCHANGED <<row, tick, indiv, crashes>>
    BY DEF SaveEvaluated
  <1>3. saved'.open => ~saved'.g.closed
    BY <1>1, <1>2, NoLiveType DEF Save, RecordOK, ClosedOK
  <1>4. \A x \in Slugs, e \in OnlyOpenAndResolve : Routed(x, e)' <=> Routed(x, e)
    BY <1>2 DEF Routed
  <1>5. CASE ~live.g.closed
    <2>1. UNCHANGED <<live, pool, downAt>>
      BY <1>5 DEF SaveEvaluated
    <2> QED BY <1>2, <1>3, <1>4, <1>5, <2>1, RecordFrame
  <1>6. CASE live.g.closed
    <2>1. /\ live' = NoLive /\ pool' = NoPool
          /\ \A x \in Slugs : downAt'[x] \in {downAt[x], NoTime}
      BY <1>6 DEF SaveEvaluated, RetireGroup, LeavePending
    <2>2. \A x \in Slugs : ~IsDown(live, x) /\ ~live'.open
      BY <1>1, <1>6, <2>1, NoLiveType DEF RecordOK, ClosedOK
    <2>3. CountIsOpen' /\ ResolvesAreOver'
      BY <1>2, <1>4, <2>1 DEF RecordOK, CountIsOpen, ResolvesAreOver, OnlyOpenAndResolve, NoTime
    <2>4. ClosedOK'
      BY <1>3, <2>1, NoLiveType DEF ClosedOK
    <2>5. \A x \in Slugs : Accounted(x) => Accounted(x)'
      BY <1>1, <1>2, <2>2 DEF Accounted, IsDown
    <2>6. KnownOK'
      BY <1>2, <1>4, <2>5 DEF RecordOK, KnownOK, OnlyOpenAndResolve, NoTime
    <2> QED BY <2>3, <2>4, <2>6 DEF RecordOK
  <1> QED BY <1>5, <1>6

\* Every other step of the evaluator leaves the records alone.
LEMMA EvaluatorStepRecord ==
    ASSUME IInv, RecordOK, EvaluatorStep
    PROVE  RecordOK'
  <1>1. /\ UNCHANGED <<tick, pool, downAt, indiv>> /\ live'.open = live.open
        /\ \A s \in Slugs : row'[s].openedAt = row[s].openedAt
    BY EvaluatorStepIs
  <1>2. \A s \in Slugs, e \in OnlyOpenAndResolve : Routed(s, e)' <=> Routed(s, e)
    BY <1>1 DEF Routed
  <1>3. /\ ev \in EvType /\ ev.at \in Time /\ live \in Live /\ live.g \in GroupRec
        /\ saved \in Live /\ TypeOK
        /\ live.open /\ live.g.closed => ev.pc = "saveEvaluated"
        /\ saved.open => ~saved.g.closed
    BY DEF IInv, TypeOK, EvType, Live, RecordOK, ClosedOK
  <1>4. CASE OpenDigest \/ EvaluateGroup
    <2>1. /\ UNCHANGED <<saved, crashes>> /\ ev.pc \in {"open", "groups"}
          /\ live.open
          /\ EvaluateGroup => ev'.pc = "saveEvaluated"
      <3>1. UNCHANGED <<saved, crashes>> /\ ev.pc \in {"open", "groups"}
        BY <1>4 DEF OpenDigest, EvaluateGroup
      <3>2. live.open
        BY <1>3, <1>4 DEF OpenDigest, EvaluateGroup, IInv, Core, EvaluatorOK
      <3>3. EvaluateGroup => ev'.pc = "saveEvaluated"
        <4>1. EvaluateGroup => ev' = [ev EXCEPT !.pc = "saveEvaluated"]
          BY DEF EvaluateGroup
        <4> QED BY <1>3, <4>1 DEF TypeOK, EvType
      <3> QED BY <3>1, <3>2, <3>3
    <2>2. ~live.g.closed
      BY <1>3, <2>1
    <2>3. PICK ok \in SlackOK, h \in {Open(live.g, ev.at), Evaluate(live.g, ev.at)} :
            /\ live' = [live EXCEPT !.g = h.group, !.ts = Posted(live, h.kinds, ok)]
            /\ h = Open(live.g, ev.at) \/ (EvaluateGroup /\ h = Evaluate(live.g, ev.at))
      <3>1. CASE OpenDigest
        BY <3>1 DEF OpenDigest
      <3>2. CASE EvaluateGroup
        <4>1. PICK ok \in SlackOK :
                LET r == Evaluate(live.g, ev.at)
                IN  live' = [live EXCEPT !.g = r.group, !.ts = Posted(live, r.kinds, ok)]
          BY <3>2 DEF EvaluateGroup
        <4> QED BY <3>2, <4>1
      <3> QED BY <1>4, <3>1, <3>2
    <2> DEFINE gr == h.group
               b == Posted(live, h.kinds, ok)
    <2>4. /\ gr \in GroupRec
          /\ \A s \in Slugs : live.g.members[s].state = "down" => gr.members[s].state = "down"
          /\ gr.closed => /\ EvaluateGroup
                          /\ \A s \in Slugs : gr.members[s].state # "down"
      <3>1. CASE h = Open(live.g, ev.at)
        BY <1>3, <2>2, <3>1, OpenStaysOpen, OpenKeeps
      <3>2. CASE EvaluateGroup /\ h = Evaluate(live.g, ev.at)
        BY <1>3, <2>2, <3>2, EvaluateDowns, EvaluateKeeps
      <3> QED BY <2>3, <3>1, <3>2
    <2>5. b \in BOOLEAN
      BY <1>3 DEF Posted, Live, SlackOK
    <2>6. live' = [live EXCEPT !.g = gr, !.ts = b]
      BY <2>3
    <2> HIDE DEF gr, b
    <2>7. live'.open = live.open /\ live'.g = gr
      <3>1. /\ [live EXCEPT !.g = gr, !.ts = b].open = live.open
            /\ [live EXCEPT !.g = gr, !.ts = b].g = gr
        <4>1. live \in Live /\ gr \in GroupRec
          BY <1>3, <2>4
        <4> QED BY <2>5, <4>1, LiveExcept
      <3> QED BY <2>6, <3>1
    <2> QED BY <1>1, <1>2, <1>3, <2>1, <2>4, <2>7, RecordFrame DEF IsDown
  <1>5. CASE SavePromoted
    <2>1. Save /\ UNCHANGED <<live, crashes>> /\ ev.pc = "savePromoted" /\ live.open
      BY <1>5 DEF SavePromoted, chan, IInv, Core, EvaluatorOK
    <2>2. ~live.g.closed
      BY <1>3, <2>1
    <2>3. saved'.open => ~saved'.g.closed
      BY <1>3, <2>1, <2>2, NoLiveType, SaveType
    <2> QED BY <1>1, <1>2, <2>1, <2>2, <2>3, RecordFrame
  <1>6. CASE \/ StartPass \/ SkipPending \/ StartParentProbe \/ AbandonPool \/ FlushDone
             \/ NoGroup \/ \E s \in Slugs : FlushOpen(s) \/ StoreOpenThread(s)
    <2>1. UNCHANGED <<live, saved, crashes>> /\ ev.pc # "saveEvaluated"
      BY <1>6 DEF StartPass, SkipPending, StartParentProbe, AbandonPool, FlushDone, NoGroup,
                  FlushOpen, StoreOpenThread
    <2> QED BY <1>1, <1>2, <1>3, <2>1, RecordFrame
  <1> QED BY <1>4, <1>5, <1>6 DEF EvaluatorStep

LEMMA CrashRecord ==
    ASSUME IInv, RecordOK, CrashRestart
    PROVE  RecordOK'
  <1>1. /\ crashes' = crashes + 1 /\ crashes \in Nat
        /\ tick' = [s \in Slugs |-> TickIdle] /\ downAt' = NoPool
        /\ live' \in {saved, NoLive} /\ UNCHANGED saved
    BY DEF CrashRestart, IInv, TypeOK
  <1>2. \A s \in Slugs : downAt'[s] = NoTime /\ ~Routed(s, "resolve")'
    BY <1>1, NoLiveType DEF Routed
  <1>3. CountIsOpen' /\ ResolvesAreOver'
    BY <1>2 DEF CountIsOpen, ResolvesAreOver, NoTime
  <1>4. ClosedOK'
    BY <1>1, NoLiveType DEF RecordOK, ClosedOK
  <1>5. crashes' # 0
    BY <1>1
  <1>6. KnownOK'
    BY <1>5 DEF KnownOK
  <1> QED BY <1>3, <1>4, <1>6 DEF RecordOK

\* A tick goroutine that does not commit or route an open or a resolve.
QuietStep(s) ==
    (\E ok \in BOOLEAN : Probe(s, ok)) \/ RouteReminder(s) \/ Notify(s) \/ PauseRow(s)

LEMMA QuietStepIs ==
    ASSUME IInv, NEW s \in Slugs, QuietStep(s)
    PROVE  /\ UNCHANGED <<now, pool, downAt, indiv, ev, live, saved, crashes>>
           /\ \A x \in Slugs : row'[x].openedAt = row[x].openedAt
           /\ \A x \in Slugs, e \in OnlyOpenAndResolve : Routed(x, e)' <=> Routed(x, e)
  <1>1. /\ TypeOK /\ RowOK /\ tick \in [Slugs -> TickType] /\ tick[s].ts \in Nat
    BY DEF IInv, Core, TypeOK, TickType
  <1>2. UNCHANGED <<now, pool, downAt, indiv, ev, live, saved, crashes>>
    BY DEF QuietStep, Probe, RouteReminder, Notify, NotifyResolve, NotifyReminder,
           StoreFreshParent, PauseRow, chan
  <1>3. \A x \in Slugs : row'[x].openedAt = row[x].openedAt
    <2>1. CASE StoreFreshParent(s)
      BY <1>1, <2>1, RowThreadType DEF StoreFreshParent
    <2>2. CASE PauseRow(s)
      BY <1>1, <2>2, PauseRowIs
    <2>3. CASE row' = row
      BY <2>3
    <2> QED BY <2>1, <2>2, <2>3
        DEF QuietStep, Probe, RouteReminder, Notify, NotifyResolve, NotifyReminder
  <1>4. CASE tick' = tick
    BY <1>2, <1>3, <1>4 DEF Routed
  <1>5. CASE /\ \A x \in Slugs : x # s => tick'[x] = tick[x]
             /\ tick[s].pc = "route" => tick[s].event = "reminder"
             /\ tick'[s].pc # "route"
    BY <1>2, <1>3, <1>5 DEF Routed, OnlyOpenAndResolve
  <1>6. CASE \E ok \in BOOLEAN : Probe(s, ok)
    <2>1. PICK ok \in BOOLEAN : Probe(s, ok)
      BY <1>6
    <2>2. PICK t \in TickType : tick' = [tick EXCEPT ![s] = t] /\ t.pc = "commit"
      BY <1>1, <2>1, ProbeIs
    <2> QED BY <1>1, <1>5, <2>1, <2>2 DEF Probe
  <1>7. CASE RouteReminder(s) \/ Notify(s)
    BY <1>1, <1>5, <1>7, NoLiveType
    DEF Notify, NotifyResolve, NotifyReminder, StoreFreshParent, RouteReminder, Routing,
        Return, FlushSink, TickType
  <1>8. CASE PauseRow(s)
    BY <1>4, <1>8 DEF PauseRow
  <1> QED BY <1>6, <1>7, <1>8 DEF QuietStep

LEMMA InitRecord == Init => RecordOK
  <1> SUFFICES ASSUME Init PROVE RecordOK
    OBVIOUS
  <1>1. \A s \in Slugs : /\ row[s].openedAt = NoTime /\ downAt[s] = NoTime
                         /\ tick[s].pc = "idle"
    BY NoLiveType DEF Init, A!NewRow, NoTime
  <1>2. ~live.open /\ ~saved.open
    BY NoLiveType DEF Init
  <1> QED BY <1>1, <1>2 DEF RecordOK, CountIsOpen, ResolvesAreOver, ClosedOK, KnownOK, Routed

LEMMA NextRecord ==
    ASSUME IInv, RecordOK, [Next]_vars
    PROVE  RecordOK'
  <1>1. ASSUME UNCHANGED <<pool, downAt, indiv, ev, live, saved, crashes>>,
               \A x \in Slugs : row'[x].openedAt = row[x].openedAt,
               \A x \in Slugs, e \in OnlyOpenAndResolve : Routed(x, e)' <=> Routed(x, e)
        PROVE  RecordOK'
    BY <1>1, RecordFrame DEF RecordOK, ClosedOK
  <1>2. CASE Tick \/ UNCHANGED vars
    <2>1. UNCHANGED <<row, tick, pool, downAt, indiv, ev, live, saved, crashes>>
      BY <1>2 DEF Tick, vars, chan
    <2> QED BY <1>1, <2>1 DEF Routed
  <1>3. ASSUME NEW s \in Slugs, QuietStep(s)
        PROVE  RecordOK'
    BY <1>1, <1>3, QuietStepIs
  <1>4. ASSUME NEW s \in Slugs, Commit(s) \/ RouteOpen(s) \/ RouteResolve(s) \/ Pause(s)
        PROVE  RecordOK'
    BY <1>4, CommitRecord, RouteOpenRecord, RouteResolveRecord, PauseRecord
  <1>5. CASE EvaluateAll
    BY <1>5, PromoteRecord, FlushRecord, SaveEvaluatedRecord, EvaluatorStepRecord
    DEF EvaluateAll, EvaluatorStep
  <1>6. CASE CrashRestart
    BY <1>6, CrashRecord
  <1> QED BY <1>2, <1>3, <1>4, <1>5, <1>6 DEF Next, Route, QuietStep

-----------------------------------------------------------------------------
(* Red messages: each belongs to an incident the notifier will resolve. *)

\* A monitor probes once per clock unit, so a time of the current unit says that
\* its ticker has fired.
Past(t, s) == t <= now /\ (t = now => s \notin due)

PastOK(s) ==
    /\ tick[s].pc # "idle" => Past(tick[s].at, s)
    /\ Past(pool[s], s) /\ Past(ev.todo[s], s)

\* An entry that is still to be flushed announces an incident the notifier owns,
\* or one that is over and is not mistaken for the next.
FlushOK(s) ==
    ev.todo[s] # NoTime =>
        /\ tick[s].pc = "commit" /\ tick[s].event = "open" => tick[s].at # ev.todo[s]
        /\ row[s].openedAt = ev.todo[s] => s \in indiv

\* A reminder belongs to an open incident; that it reaches the notifier of a
\* monitor without a parent says that the notifier owns the incident, as long as
\* nothing was forgotten.
RemindOK(s) ==
    tick[s].event = "reminder" =>
        /\ ReminderInterval > 0 /\ row[s].openedAt # NoTime
        /\ ~StoreFails /\ crashes = 0 /\ s \notin Children /\ tick[s].pc = "notify" =>
                s \in indiv

Claimed(s) == row[s].openedAt # NoTime /\ s \in indiv

\* The recovering tick has read the reference to message i, and will edit it.
InHand(s, i) ==
    /\ row[s].openedAt = NoTime
    /\ tick[s].event = "resolve" /\ tick[s].ts = i
    /\ tick[s].pc = "notify" \/ (tick[s].pc = "route" /\ s \in indiv)

\* The monitors whose messages are all posted on a claim of the notifier: a
\* reminder of a monitor that a pause or a failed store call took off the records
\* posts a parent message without one.
Fit(s) == ReminderInterval = 0 \/ (s \notin Children /\ ~StoreFails)

RedOK(s) ==
    ~SlackFails /\ crashes = 0 /\ Fit(s) =>
        \A i \in DOMAIN msgs[s] : msgs[s][i] = "red" => Claimed(s) \/ InHand(s, i)

MessageOK(s) == PastOK(s) /\ FlushOK(s) /\ RemindOK(s) /\ RedOK(s)

ClockStep == (now' = now /\ due' \subseteq due) \/ now' = now + 1

LEMMA PastKeeps ==
    ASSUME now \in Nat, ClockStep, NEW s, NEW t \in Int, Past(t, s)
    PROVE  Past(t, s)'
  BY DEF Past, ClockStep

LEMMA TimesAre ==
    ASSUME TypeOK, NEW s \in Slugs
    PROVE  /\ now \in Nat /\ tick[s].at \in Int /\ pool[s] \in Int /\ ev.todo[s] \in Int
           /\ ev.todo \in [Slugs -> TimeOrNone] /\ tick[s].at # NoTime
           /\ NoTime \in Int /\ Past(NoTime, s)
  <1>1. /\ now \in Time /\ tick[s].at \in Time /\ pool[s] \in TimeOrNone
        /\ ev.todo \in [Slugs -> TimeOrNone]
    BY DEF TypeOK, TickType, EvType
  <1>2. now \in Nat /\ now # NoTime /\ NoTime <= now /\ NoTime \in Int
    BY <1>1, Times
  <1> QED BY <1>1, <1>2, Times DEF Past

\* A step that concerns another monitor.
LEMMA MessageFrame ==
    ASSUME TypeOK, NEW s \in Slugs, MessageOK(s), ClockStep,
           row'[s].openedAt = row[s].openedAt, tick'[s] = tick[s], msgs'[s] = msgs[s],
           s \in indiv => s \in indiv',
           pool'[s] \in {pool[s], NoTime}, ev'.todo[s] \in {ev.todo[s], NoTime},
           crashes' = crashes
    PROVE  MessageOK(s)'
  <1>1. PastOK(s)'
    BY TimesAre, PastKeeps DEF MessageOK, PastOK
  <1>2. FlushOK(s)' /\ RemindOK(s)'
    BY DEF MessageOK, FlushOK, RemindOK, NoTime
  <1>3. RedOK(s)'
    BY DEF MessageOK, RedOK, Claimed, InHand, NoTime
  <1> QED BY <1>1, <1>2, <1>3 DEF MessageOK

LEMMA ProbeMessage ==
    ASSUME IInv, NEW s \in Slugs, MessageOK(s), NEW ok \in BOOLEAN, Probe(s, ok)
    PROVE  MessageOK(s)'
  <1>1. TypeOK /\ RowOK
    BY DEF IInv, Core
  <1>2. PICK t \in TickType :
            /\ tick' = [tick EXCEPT ![s] = t]
            /\ t.pc = "commit" /\ t.at = now
            /\ t.event = "reminder" => row[s].openedAt # NoTime /\ ReminderInterval > 0
    BY <1>1, ProbeIs
  <1>3. /\ tick'[s] = t /\ s \in due /\ tick[s].pc = "idle" /\ due' = due \ {s}
        /\ UNCHANGED <<now, row, pool, indiv, ev, msgs, crashes>>
    BY <1>1, <1>2 DEF Probe, TypeOK, chan
  <1>4. PastOK(s)'
    <2>1. Past(now, s)'
      BY <1>1, <1>3, TimesAre DEF Past
    <2>2. Past(pool[s], s)' /\ Past(ev.todo[s], s)'
      BY <1>1, <1>3, TimesAre, PastKeeps DEF MessageOK, PastOK, ClockStep
    <2> QED BY <1>2, <1>3, <2>1, <2>2 DEF PastOK
  <1>5. FlushOK(s)'
    BY <1>2, <1>3 DEF MessageOK, FlushOK, PastOK, Past, NoTime
  <1>6. RemindOK(s)'
    BY <1>2, <1>3 DEF RemindOK, NoTime
  <1>7. RedOK(s)'
    BY <1>3 DEF MessageOK, RedOK, Claimed, InHand, NoTime
  <1> QED BY <1>4, <1>5, <1>6, <1>7 DEF MessageOK

\* When the incident ends, the messages it does not refer to become orphans.
LEMMA CommitMessage ==
    ASSUME IInv, NEW s \in Slugs, MessageOK(s), Commit(s)
    PROVE  MessageOK(s)'
  <1>1. TypeOK /\ ReadOK
    BY DEF IInv
  <1>2. /\ tick[s].event \in {"open", "resolve", "reminder", "none"}
        /\ tick[s].event = "none" => tick'[s] = TickIdle
        /\ tick[s].event # "none" =>
             /\ tick'[s].pc = "route" /\ tick'[s].event = tick[s].event
             /\ tick'[s].at = tick[s].at /\ tick'[s].ts = tick[s].ts
        /\ tick[s].event = "open" => row[s].openedAt = NoTime /\ row'[s].openedAt = tick[s].at
        /\ tick[s].event = "resolve" => row[s].openedAt # NoTime /\ row'[s].openedAt = NoTime
        /\ tick[s].event \in {"reminder", "none"} => row'[s].openedAt = row[s].openedAt
        /\ tick[s].pc = "commit"
        /\ UNCHANGED <<now, due, pool, indiv, ev, crashes>>
    <2>1. tick[s].event = "none" => tick'[s] = TickIdle
      BY <1>1 DEF Commit, ToRoute, TypeOK
    <2> QED BY <1>1, <2>1, CommitIs
  <1>3. TickIdle.pc = "idle" /\ TickIdle.event = "none"
    BY DEF TickIdle
  <1> HIDE DEF TickIdle
  <1>4. PastOK(s)'
    BY <1>1, <1>2, <1>3, TimesAre, PastKeeps DEF MessageOK, PastOK, ClockStep
  <1>5. FlushOK(s)'
    BY <1>2, <1>3 DEF MessageOK, FlushOK, NoTime
  <1>6. RemindOK(s)'
    BY <1>2, <1>3 DEF MessageOK, RemindOK, NoTime
  <1>7. RedOK(s)'
    <2> SUFFICES ASSUME ~SlackFails, crashes = 0, Fit(s),
                        NEW i \in DOMAIN msgs'[s], msgs'[s][i] = "red"
                 PROVE  Claimed(s)' \/ InHand(s, i)'
      BY <1>2 DEF RedOK
    <2>1. /\ i \in DOMAIN msgs[s] /\ msgs[s][i] = "red"
          /\ tick[s].event = "resolve" => i = tick[s].ts
      <3>1. CASE tick[s].event = "resolve"
        <4>1. msgs'[s] = Orphan(s)
          BY <1>1, <3>1 DEF Commit, TypeOK
        <4> QED BY <4>1 DEF Orphan
      <3>2. CASE tick[s].event # "resolve"
        BY <3>2 DEF Commit
      <3> QED BY <3>1, <3>2
    <2>2. Claimed(s)
      BY <1>2, <2>1 DEF MessageOK, RedOK, InHand
    <2> QED BY <1>2, <2>1, <2>2 DEF Claimed, InHand, NoTime
  <1> QED BY <1>4, <1>5, <1>6, <1>7 DEF MessageOK

LEMMA RouteOpenMessage ==
    ASSUME IInv, NEW s \in Slugs, MessageOK(s), RouteOpen(s)
    PROVE  MessageOK(s)'
  <1>1. TypeOK /\ tick[s].at \in Time /\ tick[s].at \in TimeOrNone
    BY Times DEF IInv, TypeOK, TickType
  <1>2. /\ tick[s].pc = "route" /\ tick[s].event = "open"
        /\ tick' = [tick EXCEPT ![s] = TickIdle]
        /\ pool' \in {pool, [NoPool EXCEPT ![s] = tick[s].at], [pool EXCEPT ![s] = tick[s].at]}
        /\ UNCHANGED <<now, due, row, indiv, ev, msgs, crashes>>
    BY DEF RouteOpen, Routing, Return
  <1>3. /\ tick'[s].pc = "idle" /\ tick'[s].event = "none"
        /\ pool'[s] \in {pool[s], tick[s].at}
    BY <1>1, <1>2, NoLiveType DEF TypeOK, TickIdle
  <1>4. PastOK(s)'
    BY <1>1, <1>2, <1>3, TimesAre, PastKeeps DEF MessageOK, PastOK, ClockStep
  <1>5. FlushOK(s)' /\ RemindOK(s)'
    BY <1>2, <1>3 DEF MessageOK, FlushOK, RemindOK, NoTime
  <1>6. RedOK(s)'
    BY <1>2 DEF MessageOK, RedOK, Claimed, InHand, NoTime
  <1> QED BY <1>4, <1>5, <1>6 DEF MessageOK

\* The recovery of a monitor with a red message goes to the notifier.
LEMMA RouteResolveMessage ==
    ASSUME IInv, RecordOK, NEW s \in Slugs, MessageOK(s), RouteResolve(s)
    PROVE  MessageOK(s)'
  <1>1. TypeOK /\ Core /\ tick \in [Slugs -> TickType]
    BY DEF IInv, TypeOK
  <1>2. /\ tick[s].pc = "route" /\ tick[s].event = "resolve"
        /\ indiv' = indiv \ {s}
        /\ tick' \in {[tick EXCEPT ![s] = TickIdle], [tick EXCEPT ![s].pc = "notify"]}
        /\ s \in indiv => tick' = [tick EXCEPT ![s].pc = "notify"]
        /\ UNCHANGED <<now, due, row, ev, msgs, crashes>>
    BY DEF RouteResolve, ClearDown, Return, FlushSink, Routing
  <1>3. row[s].openedAt = NoTime
    BY <1>2 DEF RecordOK, ResolvesAreOver, Routed
  <1>4. /\ tick'[s].pc \in {"idle", "notify"} /\ tick'[s].event \in {"none", "resolve"}
        /\ tick'[s].pc # "idle" => tick'[s].at = tick[s].at
        /\ s \in indiv => /\ tick'[s].pc = "notify" /\ tick'[s].event = "resolve"
                          /\ tick'[s].ts = tick[s].ts
    BY <1>1, <1>2 DEF TickType, TickIdle
  <1>5. pool'[s] \in {pool[s], NoTime}
    <2>1. CASE s \notin indiv /\ Mode = "pending"
      <3>1. DropFromPool(s) /\ mode = "pending"
        BY <2>1 DEF RouteResolve, Mode
      <3> QED BY <1>1, <3>1, DropFromPoolIs
    <2>2. CASE s \in indiv \/ Mode # "pending"
      BY <2>2 DEF RouteResolve
    <2> QED BY <2>1, <2>2
  <1>6. PastOK(s)'
    BY <1>1, <1>2, <1>4, <1>5, TimesAre, PastKeeps DEF MessageOK, PastOK, ClockStep
  <1>7. FlushOK(s)' /\ RemindOK(s)'
    BY <1>2, <1>3, <1>4 DEF FlushOK, RemindOK, NoTime
  <1>8. RedOK(s)'
    <2> SUFFICES ASSUME ~SlackFails, crashes = 0, Fit(s),
                        NEW i \in DOMAIN msgs[s], msgs[s][i] = "red"
                 PROVE  InHand(s, i)'
      BY <1>2 DEF RedOK
    <2>1. InHand(s, i) /\ s \in indiv
      BY <1>2, <1>3 DEF MessageOK, RedOK, Claimed, InHand
    <2> QED BY <1>2, <1>4, <2>1 DEF InHand, NoTime
  <1> QED BY <1>6, <1>7, <1>8 DEF MessageOK

\* A reminder that is forwarded comes from a monitor the notifier owns: what is
\* on record and is neither in the pool nor in the digest is claimed.
LEMMA RouteReminderMessage ==
    ASSUME IInv, RecordOK, NEW s \in Slugs, MessageOK(s), RouteReminder(s)
    PROVE  MessageOK(s)'
  <1>1. TypeOK /\ Core /\ tick \in [Slugs -> TickType]
    BY DEF IInv, TypeOK
  <1>2. /\ tick[s].pc = "route" /\ tick[s].event = "reminder"
        /\ \/ tick' = [tick EXCEPT ![s] = TickIdle]
           \/ /\ tick' = [tick EXCEPT ![s].pc = "notify"]
              /\ s \in indiv \/ Mode = "individual" \/ (Mode = "group" /\ ~DigestOwns(s))
        /\ UNCHANGED <<now, due, row, pool, indiv, ev, msgs, crashes>>
    BY DEF RouteReminder, Return, FlushSink, Routing
  <1>3. \/ tick'[s].pc = "idle" /\ tick'[s].event = "none"
        \/ /\ tick'[s].pc = "notify" /\ tick'[s].event = "reminder"
           /\ tick'[s].at = tick[s].at
           /\ s \in indiv \/ Mode = "individual" \/ (Mode = "group" /\ ~DigestOwns(s))
    BY <1>1, <1>2 DEF TickType, TickIdle
  <1>4. PastOK(s)'
    BY <1>1, <1>2, <1>3, TimesAre, PastKeeps DEF MessageOK, PastOK, ClockStep
  <1>5. FlushOK(s)'
    BY <1>2, <1>3 DEF MessageOK, FlushOK, NoTime
  <1>6. RemindOK(s)'
    <2> SUFFICES ASSUME tick'[s].event = "reminder"
                 PROVE  /\ ReminderInterval > 0 /\ row[s].openedAt # NoTime
                        /\ ~StoreFails /\ crashes = 0 /\ s \notin Children => s \in indiv
      BY <1>2 DEF RemindOK, NoTime
    <2>1. ReminderInterval > 0 /\ row[s].openedAt # NoTime
      BY <1>2 DEF MessageOK, RemindOK
    <2>2. ASSUME ~StoreFails, crashes = 0, s \notin Children
          PROVE  s \in indiv
      <3>1. Accounted(s)
        BY <1>2, <2>1, <2>2 DEF RecordOK, KnownOK, Routed
      <3>2. Mode \in {"individual", "group"} => pool[s] = NoTime
        BY <1>1 DEF Core, PoolOK, Mode
      <3>3. Mode = "individual" => ~live.open
        BY DEF Mode
      <3>4. live.open /\ ~DigestOwns(s) => live.g.members[s].state # "down"
        BY DEF DigestOwns
      <3>5. s \in indiv \/ Mode = "individual" \/ (Mode = "group" /\ ~DigestOwns(s))
        BY <1>3
      <3> QED BY <3>1, <3>2, <3>3, <3>4, <3>5 DEF Accounted
    <2> QED BY <2>1, <2>2
  <1>7. RedOK(s)'
    BY <1>2 DEF MessageOK, RedOK, Claimed, InHand, NoTime
  <1> QED BY <1>4, <1>5, <1>6, <1>7 DEF MessageOK

LEMMA NotifyResolveMessage ==
    ASSUME IInv, NEW s \in Slugs, MessageOK(s), NotifyResolve(s)
    PROVE  MessageOK(s)'
  <1>1. TypeOK /\ msgs[s] \in Seq(Colour)
    BY DEF IInv, TypeOK
  <1>2. /\ tick[s].pc = "notify" /\ tick[s].event = "resolve"
        /\ tick' = [tick EXCEPT ![s] = TickIdle]
        /\ UNCHANGED <<now, due, row, pool, indiv, ev, crashes>>
    BY DEF NotifyResolve, Return, chan
  <1>3. tick'[s].pc = "idle" /\ tick'[s].event = "none"
    BY <1>1, <1>2 DEF TypeOK, TickIdle
  <1>4. PastOK(s)'
    BY <1>1, <1>2, <1>3, TimesAre, PastKeeps DEF MessageOK, PastOK, ClockStep
  <1>5. FlushOK(s)' /\ RemindOK(s)'
    BY <1>2, <1>3 DEF MessageOK, FlushOK, RemindOK, NoTime
  <1>6. RedOK(s)'
    <2> SUFFICES ASSUME ~SlackFails, crashes = 0, Fit(s),
                        NEW i \in DOMAIN msgs'[s], msgs'[s][i] = "red"
                 PROVE  Claimed(s)'
      BY <1>2 DEF RedOK
    <2>1. i \in DOMAIN msgs[s] /\ msgs[s][i] = "red" /\ i # tick[s].ts
      <3>1. DOMAIN msgs[s] = 1..Len(msgs[s])
        BY <1>1
      <3>2. CASE tick[s].ts # 0
        <4>1. msgs'[s] = [msgs[s] EXCEPT ![tick[s].ts] = "green"]
          BY <1>1, <3>2 DEF NotifyResolve, SlackOK, TypeOK
        <4> DEFINE f == msgs[s]
                   j == tick[s].ts
        <4>2. i \in DOMAIN [f EXCEPT ![j] = "green"] /\ [f EXCEPT ![j] = "green"][i] = "red"
          BY <4>1
        <4> HIDE DEF f, j
        <4>3. i \in DOMAIN f /\ f[i] = "red" /\ i # j
          BY <4>2
        <4> QED BY <4>3 DEF f, j
      <3>3. CASE tick[s].ts = 0
        BY <3>1, <3>3 DEF NotifyResolve
      <3> QED BY <3>2, <3>3
    <2>2. Claimed(s)
      BY <1>2, <2>1 DEF MessageOK, RedOK, InHand
    <2> QED BY <1>2, <2>2 DEF Claimed, NoTime
  <1> QED BY <1>4, <1>5, <1>6 DEF MessageOK

\* A parent posted by a reminder belongs to an incident the notifier owns.
LEMMA NotifyReminderMessage ==
    ASSUME IInv, NEW s \in Slugs, MessageOK(s), NotifyReminder(s)
    PROVE  MessageOK(s)'
  <1>1. TypeOK /\ tick \in [Slugs -> TickType]
    BY DEF IInv, TypeOK
  <1>2. /\ tick[s].pc = "notify" /\ tick[s].event = "reminder"
        /\ \/ tick' = [tick EXCEPT ![s] = TickIdle]
           \/ tick' = [tick EXCEPT ![s].pc = "thread", ![s].ts = Len(msgs[s]) + 1]
        /\ UNCHANGED <<now, due, row, pool, indiv, ev, crashes>>
    BY DEF NotifyReminder, Return, chan
  <1>3. \/ tick'[s].pc = "idle" /\ tick'[s].event = "none"
        \/ /\ tick'[s].pc = "thread" /\ tick'[s].event = "reminder"
           /\ tick'[s].at = tick[s].at
    BY <1>1, <1>2 DEF TickType, TickIdle
  <1>4. PastOK(s)'
    BY <1>1, <1>2, <1>3, TimesAre, PastKeeps DEF MessageOK, PastOK, ClockStep
  <1>5. FlushOK(s)' /\ RemindOK(s)'
    BY <1>2, <1>3 DEF MessageOK, FlushOK, RemindOK, NoTime
  <1>6. RedOK(s)'
    <2> SUFFICES ASSUME ~SlackFails, crashes = 0, Fit(s),
                        NEW i \in DOMAIN msgs'[s], msgs'[s][i] = "red"
                 PROVE  Claimed(s)'
      BY <1>2 DEF RedOK
    <2>1. ReminderInterval > 0 /\ row[s].openedAt # NoTime
      BY <1>2 DEF MessageOK, RemindOK
    <2>2. s \notin Children /\ ~StoreFails
      <3>1. ReminderInterval # 0
        BY <2>1, DispatcherAssumption
      <3> QED BY <3>1 DEF Fit
    <2>3. s \in indiv
      BY <1>2, <2>2 DEF MessageOK, RemindOK
    <2> QED BY <1>2, <2>1, <2>3 DEF Claimed, NoTime
  <1> QED BY <1>4, <1>5, <1>6 DEF MessageOK

LEMMA StoreFreshParentMessage ==
    ASSUME IInv, NEW s \in Slugs, MessageOK(s), StoreFreshParent(s)
    PROVE  MessageOK(s)'
  <1>1. TypeOK /\ tick[s].ts \in Nat
    BY DEF IInv, TypeOK, TickType
  <1>2. /\ tick[s].pc = "thread" /\ tick' = [tick EXCEPT ![s] = TickIdle]
        /\ UNCHANGED <<now, due, pool, indiv, ev, msgs, crashes>>
    BY DEF StoreFreshParent, Return, chan
  <1>3. tick'[s].pc = "idle" /\ tick'[s].event = "none"
    BY <1>1, <1>2 DEF TypeOK, TickIdle
  <1>4. row'[s].openedAt = row[s].openedAt
    BY <1>1, RowThreadType DEF StoreFreshParent
  <1>5. PastOK(s)'
    BY <1>1, <1>2, <1>3, TimesAre, PastKeeps DEF MessageOK, PastOK, ClockStep
  <1>6. FlushOK(s)' /\ RemindOK(s)'
    BY <1>2, <1>3, <1>4 DEF MessageOK, FlushOK, RemindOK, NoTime
  <1>7. RedOK(s)'
    BY <1>2, <1>4 DEF MessageOK, RedOK, Claimed, InHand, NoTime
  <1> QED BY <1>5, <1>6, <1>7 DEF MessageOK

\* What is to be flushed is claimed in the same critical section.
LEMMA FlushPoolMessage ==
    ASSUME IInv, NEW s \in Slugs, MessageOK(s), FlushPool
    PROVE  MessageOK(s)'
  <1>1. TypeOK /\ Core /\ ReadOK /\ ev \in EvType
    BY DEF IInv, TypeOK
  <1>2. /\ indiv' = indiv \cup Members(pool) /\ pool' = NoPool
        /\ ev' = [ev EXCEPT !.pc = "flush", !.todo = pool]
        /\ UNCHANGED <<now, due, row, tick, msgs, crashes>>
    BY DEF FlushPool, TakeIndividual, LeavePending
  <1>3. ev'.todo = pool /\ pool'[s] = NoTime
    BY <1>1, <1>2, NoLiveType DEF EvType
  <1>4. PastOK(s)'
    BY <1>1, <1>2, <1>3, TimesAre, PastKeeps DEF MessageOK, PastOK, ClockStep
  <1>5. FlushOK(s)'
    <2> SUFFICES ASSUME pool[s] # NoTime
                 PROVE  /\ ~(tick[s].pc = "commit" /\ tick[s].event = "open")
                        /\ s \in indiv'
      BY <1>2, <1>3 DEF FlushOK, NoTime
    <2>1. s \in indiv'
      BY <1>2 DEF Members
    <2>2. row[s].openedAt # NoTime \/ tick[s].pc = "route"
      BY <1>1 DEF Core, HeldIsOpen, Held, Routed
    <2>3. tick[s].pc = "commit" /\ tick[s].event = "open" => row[s].openedAt = NoTime
      BY <1>1 DEF ReadOK
    <2> QED BY <2>1, <2>2, <2>3
  <1>6. RemindOK(s)' /\ RedOK(s)'
    BY <1>2 DEF MessageOK, RemindOK, RedOK, Claimed, InHand, NoTime
  <1> QED BY <1>4, <1>5, <1>6 DEF MessageOK

\* The open is posted red only if it is the current incident, which is claimed.
LEMMA FlushOpenMessage ==
    ASSUME IInv, NEW s \in Slugs, MessageOK(s), FlushOpen(s)
    PROVE  MessageOK(s)'
  <1>1. TypeOK /\ ev \in EvType /\ msgs[s] \in Seq(Colour)
    BY DEF IInv, TypeOK
  <1>2. /\ ev.todo[s] # NoTime
        /\ \/ PostParent(s, IF row[s].openedAt = ev.todo[s] THEN "red" ELSE "orphan")
           \/ UNCHANGED msgs
        /\ \/ ev' = [ev EXCEPT !.pc = "thread", !.todo[s] = NoTime,
                               !.cur = {s}, !.ts = Len(msgs[s]) + 1]
           \/ ev' = [ev EXCEPT !.todo[s] = NoTime]
        /\ UNCHANGED <<now, due, row, tick, pool, indiv, crashes>>
    BY DEF FlushOpen, chan
  <1>3. ev'.todo[s] = NoTime
    BY <1>1, <1>2 DEF EvType
  <1>4. PastOK(s)'
    BY <1>1, <1>2, <1>3, TimesAre, PastKeeps DEF MessageOK, PastOK, ClockStep
  <1>5. FlushOK(s)' /\ RemindOK(s)'
    BY <1>2, <1>3 DEF MessageOK, FlushOK, RemindOK, NoTime
  <1>6. RedOK(s)'
    <2> SUFFICES ASSUME ~SlackFails, crashes = 0, Fit(s),
                        NEW i \in DOMAIN msgs'[s], msgs'[s][i] = "red"
                 PROVE  Claimed(s) \/ InHand(s, i)
      BY <1>2 DEF RedOK, Claimed, InHand, NoTime
    <2>1. CASE i \in DOMAIN msgs[s] /\ msgs[s][i] = "red"
      BY <1>2, <2>1 DEF MessageOK, RedOK
    <2>2. CASE row[s].openedAt = ev.todo[s]
      BY <1>2, <2>2 DEF MessageOK, FlushOK, Claimed
    <2>3. CASE row[s].openedAt # ev.todo[s]
      <3>1. msgs'[s] = Append(msgs[s], "orphan") \/ msgs'[s] = msgs[s]
        BY <1>1, <1>2, <2>3 DEF PostParent, TypeOK
      <3>2. i \in DOMAIN msgs[s] /\ msgs[s][i] = "red"
        BY <1>1, <3>1
      <3> QED BY <2>1, <3>2
    <2> QED BY <2>2, <2>3
  <1> QED BY <1>4, <1>5, <1>6 DEF MessageOK

TickGoroutine(s) ==
    (\E ok \in BOOLEAN : Probe(s, ok)) \/ Commit(s) \/ Route(s) \/ Notify(s)

\* A tick goroutine touches nothing of the other monitors; a first open finds the
\* pool empty.
LEMMA TickStepOthers ==
    ASSUME IInv, NEW s \in Slugs, TickGoroutine(s), NEW x \in Slugs, x # s
    PROVE  /\ ClockStep
           /\ row'[x].openedAt = row[x].openedAt /\ tick'[x] = tick[x] /\ msgs'[x] = msgs[x]
           /\ x \in indiv => x \in indiv'
           /\ pool'[x] \in {pool[x], NoTime}
           /\ ev' = ev /\ crashes' = crashes
  <1>1. /\ TypeOK /\ Core /\ ReadOK /\ row \in [Slugs -> RowType] /\ tick \in [Slugs -> TickType]
        /\ msgs \in [Slugs -> Seq(Colour)] /\ pool \in [Slugs -> TimeOrNone]
        /\ tick[s].ts \in Nat
    BY DEF IInv, TypeOK, TickType
  <1>2. CASE \E ok \in BOOLEAN : Probe(s, ok)
    BY <1>1, <1>2 DEF Probe, ClockStep, chan
  <1>3. CASE Commit(s)
    BY <1>1, <1>3 DEF Commit, ClockStep, chan
  <1>4. CASE RouteOpen(s)
    <2>1. /\ tick'[x] = tick[x] /\ UNCHANGED <<now, due, row, indiv, ev, msgs, crashes>>
      BY <1>1, <1>4 DEF RouteOpen, Return
    <2>2. pool'[x] \in {pool[x], NoTime}
      BY <1>1, <1>4, NoLiveType DEF RouteOpen
    <2> QED BY <2>1, <2>2 DEF ClockStep
  <1>5. CASE RouteResolve(s)
    <2>1. tick'[x] = tick[x] /\ (x \in indiv => x \in indiv')
      BY <1>1, <1>5 DEF RouteResolve, ClearDown, Return, FlushSink
    <2>2. UNCHANGED <<now, due, row, ev, msgs, crashes>>
      BY <1>5 DEF RouteResolve
    <2>3. pool'[x] = pool[x]
      BY <1>1, <1>5 DEF RouteResolve, DropFromPool
    <2> QED BY <2>1, <2>2, <2>3 DEF ClockStep
  <1>6. CASE RouteReminder(s)
    BY <1>1, <1>6 DEF RouteReminder, Return, FlushSink, ClockStep
  <1>7. CASE NotifyResolve(s) \/ NotifyReminder(s)
    BY <1>1, <1>7 DEF NotifyResolve, NotifyReminder, PostParent, Return, ClockStep, chan
  <1>8. CASE StoreFreshParent(s)
    <2>1. row'[x].openedAt = row[x].openedAt
      BY <1>1, <1>8, RowThreadType DEF StoreFreshParent
    <2> QED BY <1>1, <1>8, <2>1 DEF StoreFreshParent, Return, ClockStep, chan
  <1> QED BY <1>2, <1>3, <1>4, <1>5, <1>6, <1>7, <1>8 DEF TickGoroutine, Route, Notify

LEMMA TickStepMessage ==
    ASSUME IInv, RecordOK, \A x \in Slugs : MessageOK(x), NEW s \in Slugs, TickGoroutine(s)
    PROVE  \A x \in Slugs : MessageOK(x)'
  <1>1. TypeOK
    BY DEF IInv
  <1>2. MessageOK(s)'
    BY ProbeMessage, CommitMessage, RouteOpenMessage, RouteResolveMessage,
       RouteReminderMessage, NotifyResolveMessage, NotifyReminderMessage,
       StoreFreshParentMessage
    DEF TickGoroutine, Route, Notify
  <1>3. ASSUME NEW x \in Slugs, x # s
        PROVE  MessageOK(x)'
    BY <1>1, <1>3, TickStepOthers, MessageFrame
  <1> QED BY <1>2, <1>3

LEMMA PauseMessage ==
    ASSUME IInv, \A x \in Slugs : MessageOK(x), NEW s \in Slugs, PauseRow(s) \/ Pause(s)
    PROVE  \A x \in Slugs : MessageOK(x)'
  <1>1. TypeOK /\ Core /\ pool \in [Slugs -> TimeOrNone]
    BY DEF IInv, TypeOK
  <1> SUFFICES ASSUME NEW x \in Slugs PROVE MessageOK(x)'
    OBVIOUS
  <1>2. /\ UNCHANGED <<now, due, tick, indiv, ev, msgs, crashes>>
        /\ row'[x].openedAt = row[x].openedAt
    BY <1>1, PauseRowIs DEF PauseRow, Pause, ForgetDown, Core, chan
  <1>3. pool'[x] \in {pool[x], NoTime}
    BY <1>1 DEF PauseRow, Pause, DropFromPool, chan
  <1> QED BY <1>1, <1>2, <1>3, MessageFrame DEF ClockStep

LEMMA EvaluateAllMessage ==
    ASSUME IInv, \A x \in Slugs : MessageOK(x), EvaluateAll
    PROVE  \A x \in Slugs : MessageOK(x)'
  <1>1. /\ TypeOK /\ ev \in EvType /\ msgs \in [Slugs -> Seq(Colour)]
        /\ row \in [Slugs -> RowType] /\ ev.ts \in Nat
    BY DEF IInv, TypeOK, EvType
  <1> SUFFICES ASSUME NEW x \in Slugs PROVE MessageOK(x)'
    OBVIOUS
  <1>2. CASE FlushPool
    BY <1>2, FlushPoolMessage
  <1>3. ASSUME NEW s \in Slugs, FlushOpen(s)
        PROVE  MessageOK(x)'
    <2>1. CASE x = s
      BY <1>3, <2>1, FlushOpenMessage
    <2>2. CASE x # s
      <3>1. /\ ev'.todo[x] = ev.todo[x] /\ msgs'[x] = msgs[x]
            /\ UNCHANGED <<now, due, row, tick, pool, indiv, crashes>>
        BY <1>1, <1>3, <2>2 DEF FlushOpen, PostParent, EvType, chan
      <3> QED BY <1>1, <3>1, MessageFrame DEF ClockStep
    <2> QED BY <2>1, <2>2
  <1>4. ASSUME NEW s \in Slugs, StoreOpenThread(s)
        PROVE  MessageOK(x)'
    <2>1. /\ ev'.todo = ev.todo /\ row'[x].openedAt = row[x].openedAt
          /\ UNCHANGED <<now, due, tick, pool, indiv, msgs, crashes>>
      BY <1>1, <1>4, RowThreadType DEF StoreOpenThread, EvType, chan
    <2> QED BY <1>1, <2>1, MessageFrame DEF ClockStep
  <1>5. CASE PromotePool
    <2>1. /\ ev'.todo = ev.todo /\ pool'[x] = NoTime
          /\ UNCHANGED <<now, due, row, tick, indiv, msgs, crashes>>
      <3>1. \E pc \in {"open", "groups"} : ev' = [ev EXCEPT !.pc = pc]
        BY <1>5 DEF PromotePool
      <3> QED BY <1>1, <1>5, <3>1, NoLiveType DEF PromotePool, LeavePending, EvType
    <2> QED BY <1>1, <2>1, MessageFrame DEF ClockStep
  <1>6. CASE \/ StartPass \/ SkipPending \/ StartParentProbe \/ AbandonPool \/ FlushDone
             \/ NoGroup \/ OpenDigest \/ SavePromoted \/ EvaluateGroup \/ SaveEvaluated
    <2>1. UNCHANGED <<now, due, row, tick, indiv, msgs, crashes>>
      BY <1>6 DEF StartPass, SkipPending, StartParentProbe, AbandonPool, FlushDone, NoGroup,
                  OpenDigest, SavePromoted, EvaluateGroup, SaveEvaluated, chan
    <2>2. pool'[x] \in {pool[x], NoTime}
      BY <1>6, NoLiveType
      DEF StartPass, SkipPending, StartParentProbe, AbandonPool, FlushDone, NoGroup,
          OpenDigest, SavePromoted, EvaluateGroup, SaveEvaluated, RetireGroup, LeavePending,
          chan
    <2>3. ev'.todo[x] \in {ev.todo[x], NoTime}
      <3>1. \/ \E pc \in {"groups", "probing", "open", "savePromoted", "saveEvaluated"} :
                    ev' = [ev EXCEPT !.pc = pc]
            \/ ev' \in {EvIdle, [EvIdle EXCEPT !.pc = "pending", !.at = now]}
        BY <1>6 DEF StartPass, SkipPending, StartParentProbe, AbandonPool, FlushDone, NoGroup,
                    OpenDigest, SavePromoted, EvaluateGroup, SaveEvaluated
      <3>2. ev'.todo \in {ev.todo, NoPool}
        <4>1. EvIdle.todo = NoPool /\ [EvIdle EXCEPT !.pc = "pending", !.at = now].todo = NoPool
          BY DEF EvIdle
        <4>2. \A pc : [ev EXCEPT !.pc = pc].todo = ev.todo
          BY <1>1 DEF EvType
        <4> HIDE DEF EvIdle
        <4> QED BY <3>1, <4>1, <4>2
      <3> QED BY <3>2, NoLiveType
    <2> QED BY <1>1, <2>1, <2>2, <2>3, MessageFrame DEF ClockStep
  <1> QED BY <1>2, <1>3, <1>4, <1>5, <1>6 DEF EvaluateAll

LEMMA CrashMessage ==
    ASSUME IInv, CrashRestart
    PROVE  \A x \in Slugs : MessageOK(x)'
  <1> SUFFICES ASSUME NEW x \in Slugs PROVE MessageOK(x)'
    OBVIOUS
  <1>1. /\ crashes' = crashes + 1 /\ crashes \in Nat /\ TypeOK
        /\ tick' = [s \in Slugs |-> TickIdle] /\ pool' = NoPool /\ ev' = EvIdle
        /\ UNCHANGED <<now, due>>
    BY DEF CrashRestart, IInv, TypeOK
  <1>2. /\ tick'[x].pc = "idle" /\ tick'[x].event = "none"
        /\ pool'[x] = NoTime /\ ev'.todo[x] = NoTime /\ crashes' # 0
    BY <1>1, NoLiveType DEF TickIdle, EvIdle
  <1>3. Past(NoTime, x)'
    BY <1>1, TimesAre, PastKeeps DEF ClockStep
  <1> QED BY <1>2, <1>3 DEF MessageOK, PastOK, FlushOK, RemindOK, RedOK, NoTime

LEMMA InitMessage == Init => \A s \in Slugs : MessageOK(s)
  <1> SUFFICES ASSUME Init, NEW s \in Slugs PROVE MessageOK(s)
    OBVIOUS
  <1>1. TypeOK
    BY InitKeeps DEF IInv
  <1>2. /\ tick[s].pc = "idle" /\ tick[s].event = "none" /\ pool[s] = NoTime
        /\ ev.todo[s] = NoTime /\ msgs[s] = <<>>
    BY NoLiveType DEF Init, TickIdle, EvIdle
  <1>3. Past(NoTime, s)
    BY <1>1, TimesAre
  <1> QED BY <1>2, <1>3 DEF MessageOK, PastOK, FlushOK, RemindOK, RedOK

LEMMA NextMessage ==
    ASSUME IInv, RecordOK, \A s \in Slugs : MessageOK(s), [Next]_vars
    PROVE  \A s \in Slugs : MessageOK(s)'
  <1>1. CASE Tick \/ UNCHANGED vars
    <2>1. /\ UNCHANGED <<row, tick, pool, indiv, ev, msgs, crashes>> /\ ClockStep /\ TypeOK
      BY <1>1 DEF Tick, vars, chan, ClockStep, IInv
    <2> QED BY <2>1, MessageFrame
  <1>2. ASSUME NEW s \in Slugs, TickGoroutine(s)
        PROVE  \A x \in Slugs : MessageOK(x)'
    BY <1>2, TickStepMessage
  <1>3. ASSUME NEW s \in Slugs, PauseRow(s) \/ Pause(s)
        PROVE  \A x \in Slugs : MessageOK(x)'
    BY <1>3, PauseMessage
  <1>4. CASE EvaluateAll \/ CrashRestart
    BY <1>4, EvaluateAllMessage, CrashMessage
  <1> QED BY <1>1, <1>2, <1>3, <1>4 DEF Next, TickGoroutine

-----------------------------------------------------------------------------------------------------------------------------------------------------
(* The claims of the notifier, in this life of the process and in earlier    *)
(* ones.                                                                     *)

\* A claim is on an open incident, was made in a life the process has had, and
\* in the present life it is the notifier's still.
ClaimOK ==
    \A s \in Slugs :
        claimed[s] # NoTime =>
            /\ row[s].openedAt # NoTime
            /\ claimed[s] \in 0..crashes
            /\ claimed[s] = crashes => s \in indiv

\* The claims of a life that is over can only dwindle.
PastCapOK ==
    BurstThreshold > 0 =>
        \A n \in 0..crashes :
            n < crashes => Cardinality(ClaimedRecently(n)) < BurstThreshold

ClaimsOK == ClaimOK /\ PastCapOK

\* In the present life every recent claim is in the burst count.
LEMMA PresentCap ==
    ASSUME IInv, ClaimOK, BurstThreshold > 0
    PROVE  Cardinality(ClaimedRecently(crashes)) < BurstThreshold
  <1> DEFINE R == ClaimedRecently(crashes)
  <1>1. R \subseteq Counted
    <2> SUFFICES ASSUME NEW s \in R PROVE s \in Counted
      OBVIOUS
    <2>0. crashes \in Nat /\ NoTime \notin Nat
      BY Times DEF IInv, TypeOK
    <2>1. /\ s \in Slugs \ Children /\ claimed[s] = crashes
          /\ now - row[s].openedAt < BurstWindow
      BY DEF ClaimedRecently
    <2>2. s \in indiv /\ Held(s) /\ row[s].openedAt # NoTime
      BY <2>0, <2>1 DEF Held, ClaimOK
    <2>3. \/ downAt[s] = row[s].openedAt
          \/ now - row[s].openedAt >= BurstWindow
      BY <2>1, <2>2 DEF IInv, Core, CountedOK
    <2>4. row[s].openedAt \in Int /\ now \in Int
      <3>1. row[s].openedAt \in TimeOrNone /\ now \in Time
        BY <2>1 DEF IInv, TypeOK, RowType
      <3> QED BY <3>1, Times
    <2>5. BurstWindow \in Int
      BY DispatcherAssumption
    <2>6. downAt[s] = row[s].openedAt
      BY <2>1, <2>3, <2>4, <2>5
    <2> QED BY <2>2, <2>6 DEF Counted
  <1>2. IsFiniteSet(Counted)
    <2>1. Counted \subseteq Slugs
      BY DEF Counted, IInv, TypeOK
    <2> QED BY <2>1, FS_Subset, DispatcherAssumption
  <1>3. IsFiniteSet(R) /\ Cardinality(R) <= Cardinality(Counted)
    BY <1>1, <1>2, FS_Subset
  <1>4. Cardinality(R) \in Nat /\ Cardinality(Counted) \in Nat /\ BurstThreshold \in Nat
    BY <1>2, <1>3, FS_CardinalityType, DispatcherAssumption
  <1>5. Cardinality(Counted) < BurstThreshold
    BY DEF IInv, Core, CapOK
  <1> HIDE DEF R
  <1>6. Cardinality(R) < BurstThreshold
    BY <1>3, <1>4, <1>5
  <1> QED BY <1>6 DEF R

LEMMA FewerClaims ==
    ASSUME NEW n, ClaimedRecently(n)' \subseteq ClaimedRecently(n),
           BurstThreshold > 0, Cardinality(ClaimedRecently(n)) < BurstThreshold
    PROVE  Cardinality(ClaimedRecently(n)') < BurstThreshold
  <1>1. IsFiniteSet(ClaimedRecently(n))
    <2>1. ClaimedRecently(n) \subseteq Slugs
      BY DEF ClaimedRecently
    <2> QED BY <2>1, FS_Subset, DispatcherAssumption
  <1>2. /\ IsFiniteSet(ClaimedRecently(n)')
        /\ Cardinality(ClaimedRecently(n)') <= Cardinality(ClaimedRecently(n))
    BY <1>1, FS_Subset
  <1>3. /\ Cardinality(ClaimedRecently(n)) \in Nat /\ Cardinality(ClaimedRecently(n)') \in Nat
        /\ BurstThreshold \in Nat
    BY <1>1, <1>2, FS_CardinalityType, DispatcherAssumption
  <1> QED BY <1>2, <1>3

\* A step that makes no claim, and ends none but with its incident.
LEMMA ClaimsFrame ==
    ASSUME IInv, ClaimsOK, crashes' = crashes, now' \in Nat, now' >= now,
           \A s \in Slugs : claimed'[s] \in {claimed[s], NoTime},
           \A s \in Slugs : claimed'[s] # NoTime =>
                row'[s].openedAt = row[s].openedAt /\ (s \in indiv => s \in indiv')
    PROVE  ClaimsOK'
  <1>1. ClaimOK'
    BY DEF ClaimsOK, ClaimOK, NoTime
  <1>2. \A n \in 0..crashes : ClaimedRecently(n)' \subseteq ClaimedRecently(n)
    <2> SUFFICES ASSUME NEW n \in 0..crashes, NEW s \in ClaimedRecently(n)'
                 PROVE  s \in ClaimedRecently(n)
      OBVIOUS
    <2>0. n # NoTime
      BY Times
    <2>1. s \in Slugs \ Children /\ claimed'[s] = n /\ now' - row'[s].openedAt < BurstWindow
      BY DEF ClaimedRecently
    <2>2. claimed[s] = n /\ row'[s].openedAt = row[s].openedAt
      BY <2>0, <2>1
    <2>3. row[s].openedAt \in Int /\ now \in Int /\ BurstWindow \in Int
      <3>1. row[s].openedAt \in TimeOrNone /\ now \in Time
        BY <2>1 DEF IInv, TypeOK, RowType
      <3>2. row[s].openedAt \in Int /\ now \in Int
        BY <3>1, Times
      <3>3. BurstWindow \in Int
        BY DispatcherAssumption
      <3> QED BY <3>2, <3>3
    <2>4. now - row[s].openedAt < BurstWindow
      BY <2>1, <2>2, <2>3
    <2> QED BY <2>1, <2>2, <2>4 DEF ClaimedRecently
  <1>3. PastCapOK'
    <2> SUFFICES ASSUME BurstThreshold > 0, NEW n \in 0..crashes, n < crashes
                 PROVE  Cardinality(ClaimedRecently(n)') < BurstThreshold
      BY DEF PastCapOK
    <2>1. Cardinality(ClaimedRecently(n)) < BurstThreshold
      BY DEF ClaimsOK, PastCapOK
    <2> QED BY <1>2, <2>1, FewerClaims
  <1> QED BY <1>1, <1>3 DEF ClaimsOK

LEMMA CommitClaims ==
    ASSUME IInv, ClaimsOK, NEW s \in Slugs, Commit(s)
    PROVE  ClaimsOK'
  <1>1. /\ TypeOK /\ ReadOK /\ now \in Nat
        /\ claimed \in [Slugs -> Nat \cup {NoTime}]
    BY Times DEF IInv, TypeOK
  <1>2. /\ tick[s].event = "resolve" => claimed' = [claimed EXCEPT ![s] = NoTime]
        /\ tick[s].event # "resolve" => claimed' = claimed
    BY DEF Commit
  <1>3. /\ \A x \in Slugs : x # s => row'[x] = row[x]
        /\ UNCHANGED <<now, indiv, crashes>>
        /\ tick[s].event \in {"open", "resolve", "reminder", "none"}
        /\ tick[s].event = "open" => row[s].openedAt = NoTime
        /\ tick[s].event \in {"reminder", "none"} => row'[s].openedAt = row[s].openedAt
    BY <1>1, CommitIs
  <1>4. row[s].openedAt = NoTime => claimed[s] = NoTime
    BY DEF ClaimsOK, ClaimOK
  <1>5. \A x \in Slugs : claimed'[x] \in {claimed[x], NoTime}
    BY <1>1, <1>2
  <1>6. \A x \in Slugs : claimed'[x] # NoTime => row'[x].openedAt = row[x].openedAt
    <2> SUFFICES ASSUME NEW x \in Slugs, claimed'[x] # NoTime, x = s
                 PROVE  row'[x].openedAt = row[x].openedAt
      BY <1>3
    <2> QED BY <1>1, <1>2, <1>3, <1>4
  <1>7. now' \in Nat /\ now' >= now
    BY <1>1, <1>3
  <1> QED BY <1>3, <1>5, <1>6, <1>7, ClaimsFrame

LEMMA RouteResolveClaims ==
    ASSUME IInv, RecordOK, ClaimsOK, NEW s \in Slugs, RouteResolve(s)
    PROVE  ClaimsOK'
  <1>1. now \in Nat
    BY Times DEF IInv, TypeOK
  <1>2. /\ UNCHANGED <<now, row, claimed, crashes>> /\ indiv' = indiv \ {s}
        /\ Routed(s, "resolve")
    BY DEF RouteResolve, ClearDown, Routing, Routed
  <1>3. claimed[s] = NoTime
    BY <1>2 DEF RecordOK, ResolvesAreOver, ClaimsOK, ClaimOK
  <1>4. now' \in Nat /\ now' >= now
    BY <1>1, <1>2
  <1> QED BY <1>2, <1>3, <1>4, ClaimsFrame

\* The flush is where claims are made.
LEMMA FlushClaims ==
    ASSUME IInv, ClaimsOK, FlushPool
    PROVE  ClaimsOK'
  <1>1. /\ TypeOK /\ crashes \in Nat /\ NoTime \notin Nat
        /\ UNCHANGED <<now, row, crashes>> /\ indiv' = indiv \cup Members(pool)
        /\ \A x \in Slugs : claimed'[x] = IF pool[x] # NoTime /\ row[x].openedAt = pool[x]
                                          THEN crashes ELSE claimed[x]
    BY Times DEF FlushPool, TakeIndividual, IInv, TypeOK
  <1>2. ClaimOK'
    <2> SUFFICES ASSUME NEW x \in Slugs, claimed'[x] # NoTime
                 PROVE  /\ row[x].openedAt # NoTime
                        /\ claimed'[x] \in 0..crashes
                        /\ claimed'[x] = crashes => x \in indiv'
      BY <1>1 DEF ClaimOK, NoTime
    <2>1. CASE pool[x] # NoTime /\ row[x].openedAt = pool[x]
      BY <1>1, <2>1 DEF Members
    <2>2. CASE ~(pool[x] # NoTime /\ row[x].openedAt = pool[x])
      BY <1>1, <2>2 DEF ClaimsOK, ClaimOK
    <2> QED BY <2>1, <2>2
  <1>3. \A n \in 0..crashes : n < crashes => ClaimedRecently(n)' \subseteq ClaimedRecently(n)
    BY <1>1 DEF ClaimedRecently
  <1>4. PastCapOK'
    <2> SUFFICES ASSUME BurstThreshold > 0, NEW n \in 0..crashes, n < crashes
                 PROVE  Cardinality(ClaimedRecently(n)') < BurstThreshold
      BY <1>1 DEF PastCapOK
    <2>1. Cardinality(ClaimedRecently(n)) < BurstThreshold
      BY DEF ClaimsOK, PastCapOK
    <2> QED BY <1>3, <2>1, FewerClaims
  <1> QED BY <1>2, <1>4 DEF ClaimsOK

\* A crash turns the claims of the present life into those of an earlier one.
LEMMA CrashClaims ==
    ASSUME IInv, ClaimsOK, CrashRestart
    PROVE  ClaimsOK'
  <1>1. /\ crashes \in Nat /\ crashes' = crashes + 1
        /\ UNCHANGED <<now, row, claimed>>
    BY DEF CrashRestart, IInv, TypeOK
  <1>2. ClaimOK'
    BY <1>1 DEF ClaimsOK, ClaimOK, NoTime
  <1>3. \A n : ClaimedRecently(n)' = ClaimedRecently(n)
    BY <1>1 DEF ClaimedRecently
  <1>4. PastCapOK'
    <2> SUFFICES ASSUME BurstThreshold > 0, NEW n \in 0..crashes', n < crashes'
                 PROVE  Cardinality(ClaimedRecently(n)) < BurstThreshold
      BY <1>3 DEF PastCapOK
    <2>1. n \in 0..crashes /\ (n < crashes \/ n = crashes)
      BY <1>1
    <2> QED BY <2>1, PresentCap DEF ClaimsOK, PastCapOK
  <1> QED BY <1>2, <1>4 DEF ClaimsOK

LEMMA NextClaims ==
    ASSUME IInv, RecordOK, ClaimsOK, [Next]_vars
    PROVE  ClaimsOK'
  <1>0. now \in Nat
    BY Times DEF IInv, TypeOK
  <1>1. ASSUME UNCHANGED <<indiv, claimed, crashes>>, now' = now \/ now' = now + 1,
               \A x \in Slugs : row'[x].openedAt = row[x].openedAt
        PROVE  ClaimsOK'
    <2>1. now' \in Nat /\ now' >= now
      BY <1>0, <1>1
    <2> QED BY <1>1, <2>1, ClaimsFrame
  <1>2. CASE Tick \/ UNCHANGED vars
    BY <1>1, <1>2 DEF Tick, vars, chan
  <1>3. ASSUME NEW s \in Slugs, QuietStep(s)
        PROVE  ClaimsOK'
    <2>1. UNCHANGED claimed
      BY <1>3 DEF QuietStep, Probe, RouteReminder, Notify, NotifyResolve, NotifyReminder,
                  StoreFreshParent, PauseRow
    <2> QED BY <1>1, <1>3, <2>1, QuietStepIs
  <1>4. ASSUME NEW s \in Slugs, RouteOpen(s) \/ Pause(s)
        PROVE  ClaimsOK'
    <2>1. UNCHANGED <<now, row, indiv, claimed, crashes>>
      BY <1>4 DEF RouteOpen, Pause, ForgetDown
    <2> QED BY <1>1, <2>1
  <1>5. CASE PromotePool \/ SaveEvaluated
    <2>1. UNCHANGED <<now, row, indiv, claimed, crashes>>
      BY <1>5 DEF PromotePool, SaveEvaluated
    <2> QED BY <1>1, <2>1
  <1>6. CASE EvaluatorStep
    <2>1. UNCHANGED <<claimed, crashes>>
      BY <1>6 DEF EvaluatorStep, StartPass, SkipPending, StartParentProbe, AbandonPool,
                  FlushDone, NoGroup, OpenDigest, SavePromoted, EvaluateGroup, FlushOpen,
                  StoreOpenThread
    <2> QED BY <1>1, <1>6, <2>1, EvaluatorStepIs
  <1>7. CASE EvaluateAll
    BY <1>5, <1>6, <1>7, FlushClaims DEF EvaluateAll, EvaluatorStep
  <1> QED BY <1>2, <1>3, <1>4, <1>7, CommitClaims, RouteResolveClaims, CrashClaims
      DEF Next, Route, QuietStep

LEMMA InitClaims == Init => ClaimsOK
  <1> SUFFICES ASSUME Init PROVE ClaimsOK
    OBVIOUS
  <1>1. crashes = 0 /\ \A s \in Slugs : claimed[s] = NoTime
    BY DEF Init
  <1> QED BY <1>1 DEF ClaimsOK, ClaimOK, PastCapOK

-----
(* The theorems. *)

\* The inductive invariant of the dispatcher: whatever the order in which tick
\* goroutines, push-propagation and the evaluator enter the Manager, and
\* wherever the process crashes, the channel state, the rows and the events
\* still to be routed stay consistent with each other.
THEOREM DispatcherInvariant == Spec => []IInv
  <1>1. IInv /\ [Next]_vars => IInv'
    BY NextKeeps
  <1> QED BY <1>1, InitKeeps, PTL DEF Spec

\* Type correctness of the Manager's state, the rows and the goroutines.
THEOREM DispatcherTypes == Spec => []TypeOK
  <1>1. IInv => TypeOK
    BY DEF IInv
  <1> QED BY <1>1, DispatcherInvariant, PTL

\* One incident, one owner: as long as the store answers, a monitor the
\* per-monitor notifier owns is neither in the pool nor active in the digest,
\* across promotions, retirements, pauses and restarts.
THEOREM OneOwner == ~StoreFails => (Spec => []ExclusiveOwner)
  <1> SUFFICES ASSUME ~StoreFails PROVE Spec => []ExclusiveOwner
    OBVIOUS
  <1>1. IInv => ExclusiveOwner
    BY DEF IInv, Core, PoolOK, OwnerOK, ExclusiveOwner
  <1> QED BY <1>1, DispatcherInvariant, PTL

\* The records are right in every reachable state.
LEMMA RecordInvariant == Spec => [](IInv /\ RecordOK)
  <1>1. Init => IInv /\ RecordOK
    BY InitKeeps, InitRecord
  <1>2. IInv /\ RecordOK /\ [Next]_vars => (IInv /\ RecordOK)'
    BY NextKeeps, NextRecord
  <1> QED BY <1>1, <1>2, PTL DEF Spec

\* The claims are right in every reachable state.
LEMMA ClaimInvariant == Spec => [](IInv /\ RecordOK /\ ClaimsOK)
  <1>1. Init => IInv /\ RecordOK /\ ClaimsOK
    BY InitKeeps, InitRecord, InitClaims
  <1>2. IInv /\ RecordOK /\ ClaimsOK /\ [Next]_vars => (IInv /\ RecordOK /\ ClaimsOK)'
    BY NextKeeps, NextRecord, NextClaims
  <1> QED BY <1>1, <1>2, PTL DEF Spec

\* The cap of the package comment of dispatch.go, life by life, for any number
\* of monitors, threshold and window, with any number of crashes and with Slack
\* and the store failing: of the incidents that began within BurstWindow and are
\* still open, no life of the process, the present one or an earlier one, handed
\* as many as BurstThreshold to the per-monitor notifier, however the outage
\* trickles in.  A restart empties the dispatcher's memory, so the cap is one for
\* every life and not one for all of them.
THEOREM BurstsAreCapped == Spec => []BurstCap
  <1>1. IInv /\ ClaimsOK => BurstCap
    <2> SUFFICES ASSUME IInv, ClaimsOK, BurstThreshold > 0, NEW n \in 0..crashes
                 PROVE  Cardinality(ClaimedRecently(n)) < BurstThreshold
      BY DEF BurstCap
    <2>1. crashes \in Nat
      BY DEF IInv, TypeOK
    <2>2. CASE n = crashes
      BY <2>2, PresentCap DEF ClaimsOK
    <2>3. CASE n < crashes
      BY <2>3 DEF ClaimsOK, PastCapOK
    <2> QED BY <2>1, <2>2, <2>3
  <1> QED BY <1>1, ClaimInvariant, PTL

\* Nothing falls between the modes: while the store answers and until the first
\* crash, a monitor whose row is down and whose open has been routed is in the
\* pool, with the notifier, or down in the digest (ensureGroupLocked,
\* expirePending, retireGroupChannel).
THEOREM NothingForgotten ==
    ~StoreFails => (Spec => [](crashes = 0 => EveryDownAccounted))
  <1> SUFFICES ASSUME ~StoreFails PROVE Spec => [](crashes = 0 => EveryDownAccounted)
    OBVIOUS
  <1>1. IInv /\ RecordOK => (crashes = 0 => EveryDownAccounted)
    <2> SUFFICES ASSUME IInv, RecordOK, crashes = 0, NEW s \in Slugs \ Children,
                        row[s].status = "down", tick[s].pc # "route"
                 PROVE  Accounted(s)
      BY DEF EveryDownAccounted
    <2>1. row[s].openedAt # NoTime /\ ~Routed(s, "open")
      BY DEF IInv, Core, RowOK, Routed
    <2> QED BY <2>1 DEF RecordOK, KnownOK
  <1> QED BY <1>1, RecordInvariant, PTL

\* A promotion has its burst: whatever fails and whenever the process crashes,
\* the channel goes to group mode only when at least BurstThreshold monitors are
\* in an incident, or have just left one (expirePending).
THEOREM BurstsAreReal == Spec => PromotionWarranted
  <1>1. ASSUME IInv, RecordOK, PromotePool
        PROVE  Cardinality({s \in Slugs : row[s].openedAt # NoTime \/ tick[s].event = "resolve"})
                 >= BurstThreshold
    <2> DEFINE B == Members(downAt') \cup Members(pool)
               I == {s \in Slugs : row[s].openedAt # NoTime \/ tick[s].event = "resolve"}
    <2>1. downAt' = PruneDown(ev.at) /\ BurstThreshold > 0 /\ Cardinality(B) >= BurstThreshold
      BY <1>1 DEF PromotePool, IsBurst, Burst
    <2>2. \A s \in Slugs : downAt'[s] \in {downAt[s], NoTime}
      BY <1>1, <2>1, PruneDownIs, EvTypes DEF IInv, TypeOK
    <2>3. B \subseteq I
      BY <1>1, <2>2
      DEF Members, RecordOK, CountIsOpen, IInv, Core, HeldIsOpen, Held, Routed
    <2>4. IsFiniteSet(I)
      BY DispatcherAssumption, FS_Subset
    <2>5. Cardinality(B) <= Cardinality(I) /\ IsFiniteSet(B)
      BY <2>3, <2>4, FS_Subset
    <2>6. Cardinality(B) \in Nat /\ Cardinality(I) \in Nat /\ BurstThreshold \in Nat
      BY <2>4, <2>5, FS_CardinalityType, DispatcherAssumption
    <2> HIDE DEF B, I
    <2>7. Cardinality(I) >= BurstThreshold
      BY <2>1, <2>5, <2>6
    <2> QED BY <2>7 DEF I
  <1>2. IInv /\ RecordOK /\ [Next]_vars =>
          [PromotePool =>
            Cardinality({s \in Slugs : row[s].openedAt # NoTime \/ tick[s].event = "resolve"})
                >= BurstThreshold]_vars
    BY <1>1
  <1> QED BY <1>2, RecordInvariant, PTL DEF Spec, PromotionWarranted

LEMMA MessageInvariant == Spec => [](IInv /\ RecordOK /\ \A s \in Slugs : MessageOK(s))
  <1>1. Init => IInv /\ RecordOK /\ \A s \in Slugs : MessageOK(s)
    BY InitKeeps, InitRecord, InitMessage
  <1>2. IInv /\ RecordOK /\ (\A s \in Slugs : MessageOK(s)) /\ [Next]_vars
            => (IInv /\ RecordOK /\ \A s \in Slugs : MessageOK(s))'
    BY NextKeeps, NextRecord, NextMessage
  <1> QED BY <1>1, <1>2, PTL DEF Spec

\* Every message that the recovering tick could know of is edited: as long as
\* Slack answers and the process has not crashed, no monitor that is up and idle
\* has a red message (routeResolve, Notifier.notifyResolve).  With reminders on it
\* needs in addition that the store answers and that no monitor has a parent: a
\* reminder can otherwise post a message for an incident the dispatcher has no
\* record of, and routeResolve drops the recovery of such an incident while the
\* channel is in pending mode.
THEOREM RedMessagesAreEdited ==
    ~SlackFails /\ (ReminderInterval = 0 \/ (Children = {} /\ ~StoreFails))
        => (Spec => [](crashes = 0 => ResolveEdited))
  <1> SUFFICES ASSUME ~SlackFails, ReminderInterval = 0 \/ (Children = {} /\ ~StoreFails)
               PROVE  Spec => [](crashes = 0 => ResolveEdited)
    OBVIOUS
  <1>1. IInv /\ RecordOK /\ (\A s \in Slugs : MessageOK(s)) => (crashes = 0 => ResolveEdited)
    <2> SUFFICES ASSUME IInv, \A s \in Slugs : MessageOK(s), crashes = 0, NEW s \in Slugs,
                        row[s].status = "up", tick[s].pc = "idle",
                        NEW i \in DOMAIN msgs[s]
                 PROVE  msgs[s][i] # "red"
      BY DEF ResolveEdited
    <2>1. Fit(s)
      BY DEF Fit
    <2>2. row[s].openedAt = NoTime
      BY DEF IInv, Core, RowOK
    <2> QED BY <2>1, <2>2 DEF MessageOK, RedOK, Claimed, InHand
  <1> QED BY <1>1, MessageInvariant, PTL
=============================================================================
