-------------------------- MODULE SelfHealthProofs ---------------------------
(***************************************************************************)
(* Proofs about SelfHealth for any monitors, window and threshold.         *)
(***************************************************************************)
EXTENDS SelfHealth, FiniteSetTheorems, TLAPS

\* Outside degraded mode every record is a failure that was reported outside
\* degraded mode.
RecordsAreHeld == ~degraded => \A s \in Slugs : dnsLast[s] # None => held[s]

\* The notifier's copy of the mode, and what it has posted in this episode.
NoticeOK ==
    /\ ev.pc = "close" => ~degraded /\ ev.degraded
    /\ ev.pc # "close" => ev.degraded = degraded
    /\ ev.pc = "commit" => ~degraded
    /\ ev.pc = "notice" => degraded
    /\ ev.degraded /\ ~ev.openTS => posts <= lost
    /\ posts <= 1 + lost

\* The failure of a monitor with a sound record was caused by the resolver.
CausedByResolver ==
    /\ ~resolver => outAge = 0
    /\ \A s \in Slugs \ Unresolvable :
          /\ tick[s] = "dns" => outAge = 0
          /\ dnsLast[s] # None => outAge <= dnsLast[s]

IInv == TypeOK /\ RecordsAreHeld /\ NoticeOK

USE SelfHealthAssumption

LEMMA CountBound ==
    ASSUME NEW n \in Nat, NEW k \in Nat
    PROVE  Count(n, k) \in 0..MaxCount /\ Count(n, k) <= n + k
  BY DEF Count

\* Two counters that grow together keep their order.
LEMMA CountOrder ==
    ASSUME NEW n \in 0..MaxCount, NEW k \in 0..MaxCount
    PROVE  /\ n <= k => Count(n, 1) <= 1 + k
           /\ n <= k => Count(n, 1) <= Count(k, 1)
           /\ n <= k => Count(n, 1) <= 1 + Count(k, 1)
  BY DEF Count

LEMMA AgeEnds == 0 \in Age /\ Window \in Age
  BY DEF Age

LEMMA OlderAge ==
    ASSUME NEW a \in Age \cup {None}
    PROVE  /\ Older(a) \in Age \cup {None}
           /\ (Older(a) = None) <=> (a = None)
           /\ a \in Age => Older(a) \in Age
  BY DEF Older, Age, None

LEMMA FailingFinite ==
    /\ IsFiniteSet(Failing)
    /\ Failing \subseteq Slugs
    /\ Cardinality(Failing) \in Nat
  <1>1. Failing \subseteq Slugs
    BY DEF Failing
  <1>2. IsFiniteSet(Failing)
    BY <1>1, FS_Subset
  <1> QED  BY <1>1, <1>2, FS_CardinalityType

LEMMA InitOK == Init => IInv
  <1> SUFFICES ASSUME Init PROVE IInv
    OBVIOUS
  <1>1. TypeOK
    <2>1. ev \in EvType
      BY DEF Init, EvIdle, EvType
    <2>2. dnsLast \in [Slugs -> Age \cup {None}]
      BY DEF Init
    <2>3. held \in [Slugs -> BOOLEAN] /\ tick \in [Slugs -> {"idle", "ok", "dns", "other"}]
      BY DEF Init
    <2>4. phase \in 0..(Window - 1) /\ suppressed \in 0..MaxCount /\ discarded \in 0..MaxCount
      BY DEF Init
    <2> QED  BY <2>1, <2>2, <2>3, <2>4, AgeEnds DEF Init, TypeOK
  <1>2. RecordsAreHeld
    BY DEF Init, RecordsAreHeld
  <1>3. NoticeOK
    <2>1. ev.pc = "idle" /\ ev.degraded = FALSE
      BY DEF Init, EvIdle
    <2>2. posts <= lost /\ posts <= 1 + lost
      BY DEF Init
    <2> QED  BY <2>1, <2>2, Zenon DEF Init, NoticeOK
  <1> QED  BY <1>1, <1>2, <1>3 DEF IInv

-----------------------------------------------------------------------------
(* Every step preserves the types. *)

LEMMA TypesPreserved ==
    ASSUME TypeOK, [Next]_vars
    PROVE  TypeOK'
  <1> USE DEF TypeOK
  <1>1. CASE Tick
    <2>1. dnsLast' \in [Slugs -> Age \cup {None}]
      BY <1>1, OlderAge DEF Tick
    <2>2. outAge' \in Age /\ dwell' \in Age /\ lastSuccess' \in Age
      <3>1. 0 \in Age
        BY DEF Age
      <3> QED  BY <1>1, <3>1, OlderAge DEF Tick
    <2>3. phase' \in 0..(Window - 1)
      BY <1>1 DEF Tick
    <2>4. fired' \in BOOLEAN
      BY <1>1 DEF Tick
    <2> QED  BY <1>1, <2>1, <2>2, <2>3, <2>4 DEF Tick
  <1>2. CASE ResolverFails
    BY <1>2, AgeEnds DEF ResolverFails, clock, det
  <1>3. CASE ResolverReturns
    BY <1>3 DEF ResolverReturns, clock, det
  <1>4. ASSUME NEW s \in Slugs, Probe(s) PROVE TypeOK'
    <2>1. tick' \in [Slugs -> {"idle", "ok", "dns", "other"}]
      BY <1>4 DEF Probe, Outcome
    <2> QED  BY <1>4, <2>1 DEF Probe, clock, det
  <1>5. ASSUME NEW s \in Slugs, ReportSignal(s) PROVE TypeOK'
    BY <1>5 DEF ReportSignal, clock, Age
  <1>6. ASSUME NEW s \in Slugs, ReportDNS(s) PROVE TypeOK'
    <2>1. suppressed' \in 0..MaxCount /\ discarded' \in 0..MaxCount
      BY <1>6, CountBound DEF ReportDNS
    <2>2. dnsLast' \in [Slugs -> Age \cup {None}]
      BY <1>6 DEF ReportDNS, Age
    <2>3. held' \in [Slugs -> BOOLEAN]
      BY <1>6 DEF ReportDNS
    <2> QED  BY <1>6, <2>1, <2>2, <2>3 DEF ReportDNS, clock
  <1>7. CASE Enter
    <2>1. suppressed' \in 0..MaxCount /\ discarded' \in 0..MaxCount
      BY <1>7, CountBound, FailingFinite DEF Enter
    <2>2. dnsLast' \in [Slugs -> Age \cup {None}] /\ dwell' \in Age
      BY <1>7 DEF Enter, NoFailing, Age
    <2>3. ev' \in EvType
      BY <1>7 DEF Enter, EvIdle, EvType
    <2>4. posts' \in 0..MaxCount /\ lost' \in 0..MaxCount
      BY <1>7 DEF Enter
    <2> QED  BY <1>7, <2>1, <2>2, <2>3, <2>4 DEF Enter, Pass
  <1>8. CASE CommitHeld
    <2>1. dnsLast' \in [Slugs -> Age \cup {None}]
      BY <1>8 DEF CommitHeld, NoFailing
    <2>2. ev' \in EvType
      BY <1>8, FailingFinite DEF CommitHeld, EvType
    <2> QED  BY <1>8, <2>1, <2>2 DEF CommitHeld, Pass
  <1>9. CASE StayBlind
    <2>1. dnsLast' \in [Slugs -> Age \cup {None}]
      BY <1>9 DEF StayBlind, Pruned
    <2>2. ev' \in EvType
      BY <1>9 DEF StayBlind, EvType
    <2> QED  BY <1>9, <2>1, <2>2 DEF StayBlind, Pass
  <1>10. CASE Exit
    <2>1. dnsLast' \in [Slugs -> Age \cup {None}] /\ dwell' \in Age
      BY <1>10 DEF Exit, ClearedAtExit, NoFailing, Age
    <2>2. Count(suppressed, Cardinality(Failing)) \in Nat
      <3>1. suppressed \in Nat
        OBVIOUS
      <3>2. Cardinality(Failing) \in Nat
        BY FailingFinite
      <3> HIDE DEF TypeOK
      <3>3. Count(suppressed, Cardinality(Failing)) \in 0..MaxCount
        BY <3>1, <3>2, CountBound
      <3> QED  BY <3>3
    <2>3. ev' \in EvType
      BY <1>10, <2>2 DEF Exit, EvType
    <2>4. suppressed' \in 0..MaxCount /\ held' \in [Slugs -> BOOLEAN]
      BY <1>10 DEF Exit
    <2> QED  BY <1>10, <2>1, <2>3, <2>4 DEF Exit, Pass
  <1>11. CASE PostClose
    <2>1. posts' \in 0..MaxCount
      BY <1>11, CountBound DEF PostClose
    <2>2. ev' \in EvType
      BY <1>11 DEF PostClose, EvIdle, EvType
    <2> QED  BY <1>11, <2>1, <2>2 DEF PostClose, clock, det
  <1>12. ASSUME NEW s \in Slugs, CommitOne(s) PROVE TypeOK'
    <2>1. ev' \in EvType
      BY <1>12 DEF CommitOne, EvType
    <2> QED  BY <1>12, <2>1 DEF CommitOne, clock, det
  <1>13. CASE CommitDone
    <2>1. ev' \in EvType
      BY <1>13 DEF CommitDone, EvType
    <2> QED  BY <1>13, <2>1 DEF CommitDone, clock, det
  <1>14. CASE PostOpen
    <2>1. posts' \in 0..MaxCount /\ lost' \in 0..MaxCount
      <3>0. posts \in Nat /\ lost \in Nat /\ 1 \in Nat
        OBVIOUS
      <3>1. Count(posts, 1) \in 0..MaxCount /\ Count(lost, 1) \in 0..MaxCount
        <4> HIDE DEF TypeOK
        <4> QED BY <3>0, CountBound
      <3> QED  BY <1>14, <3>1 DEF PostOpen
    <2>2. ev' \in EvType
      <3>1. CASE OwesNotice
        <4>1. PICK a \in SlackAnswer :
                ev' = [ev EXCEPT !.pc = "idle", !.openTS = @ \/ a = "ok"]
          BY <1>14, <3>1 DEF PostOpen
        <4>2. (ev.openTS \/ a = "ok") \in BOOLEAN
          OBVIOUS
        <4> QED  BY <4>1, <4>2 DEF EvType
      <3>2. CASE ~OwesNotice
        BY <1>14, <3>2 DEF PostOpen, EvType
      <3> QED  BY <3>1, <3>2
    <2> QED  BY <1>14, <2>1, <2>2 DEF PostOpen, clock, det
  <1>15. CASE UNCHANGED vars
    BY <1>15 DEF vars, clock, det
  <1> QED
    BY <1>1, <1>2, <1>3, <1>4, <1>5, <1>6, <1>7, <1>8, <1>9, <1>10, <1>11, <1>12, <1>13,
       <1>14, <1>15 DEF Next, MonitorTick, Evaluator, Decide

-----------------------------------------------------------------------------
(* Every step preserves the two other parts. *)

LEMMA RecordsPreserved ==
    ASSUME IInv, [Next]_vars
    PROVE  RecordsAreHeld'
  <1> USE DEF IInv, RecordsAreHeld
  <1>1. CASE Tick
    <2>1. \A s \in Slugs : dnsLast'[s] = None => dnsLast[s] = None
      BY <1>1, OlderAge DEF Tick, TypeOK
    <2>2. \A s \in Slugs : dnsLast[s] = None => dnsLast'[s] = None
      BY <1>1 DEF Tick, Older
    <2> QED  BY <1>1, <2>1, <2>2 DEF Tick
  <1>2. ASSUME NEW s \in Slugs, ReportDNS(s) PROVE RecordsAreHeld'
    BY <1>2 DEF ReportDNS, TypeOK
  <1>3. CASE Enter \/ StayBlind
    BY <1>3 DEF Enter, StayBlind
  <1>4. CASE CommitHeld \/ Exit
    BY <1>4 DEF CommitHeld, Exit, ClearedAtExit, NoFailing
  <1>5. CASE UNCHANGED <<degraded, dnsLast, held>>
    BY <1>5
  <1> QED
    BY <1>1, <1>2, <1>3, <1>4, <1>5
    DEF Next, MonitorTick, Evaluator, Decide, ResolverFails, ResolverReturns, Probe,
        ReportSignal, PostClose, CommitOne, CommitDone, PostOpen, vars, det

LEMMA NoticePreserved ==
    ASSUME IInv, [Next]_vars
    PROVE  NoticeOK'
  <1> USE DEF IInv, NoticeOK
  <1>t. ev \in EvType /\ degraded \in BOOLEAN
    BY DEF TypeOK
  <1>1. CASE Enter
    <2>1. /\ ev'.pc = "notice" /\ ev'.degraded = TRUE
          /\ degraded' = TRUE /\ posts' = 0 /\ lost' = 0
      BY <1>1 DEF Enter, EvIdle
    <2>2. posts' <= lost' /\ posts' <= 1 + lost'
      BY <2>1
    <2> QED  BY <2>1, <2>2, Zenon
  <1>2. CASE CommitHeld
    <2>1. /\ ev'.pc = "commit" /\ ev'.degraded = ev.degraded /\ ev'.openTS = ev.openTS
          /\ ev.pc = "idle" /\ ~degraded /\ degraded' = degraded
          /\ posts' = posts /\ lost' = lost
      BY <1>2, <1>t DEF CommitHeld, Pass, EvType
    <2> QED  BY <2>1, Zenon
  <1>3. CASE StayBlind
    <2>1. /\ ev'.pc = "notice" /\ ev'.degraded = ev.degraded /\ ev'.openTS = ev.openTS
          /\ ev.pc = "idle" /\ degraded /\ degraded' = degraded
          /\ posts' = posts /\ lost' = lost
      BY <1>3, <1>t DEF StayBlind, Pass, EvType
    <2> QED  BY <2>1, Zenon
  <1>4. CASE Exit
    <2>1. /\ ev'.pc = "close" /\ ev'.degraded = ev.degraded /\ ev'.openTS = ev.openTS
          /\ ev.pc = "idle" /\ degraded /\ degraded' = FALSE
          /\ posts' = posts /\ lost' = lost
      BY <1>4, <1>t DEF Exit, Pass, EvType
    <2> QED  BY <2>1, <1>t, Zenon
  <1>5. CASE PostClose
    <2>1. /\ ev'.pc = "idle" /\ ev'.degraded = FALSE
          /\ ev.pc = "close" /\ degraded' = degraded
      BY <1>5 DEF PostClose, EvIdle, det
    <2>2. posts' <= 1 + lost'
      <3>0. lost' = lost /\ posts \in 0..MaxCount /\ lost \in 0..MaxCount
        BY <1>5 DEF PostClose, TypeOK
      <3>1. CASE posts' = posts
        BY <3>0, <3>1
      <3>2. CASE posts' # posts
        <4>1. ~ev.openTS /\ posts' = Count(posts, 1)
          BY <1>5, <3>2 DEF PostClose
        <4>2. posts <= lost
          BY <2>1, <4>1
        <4> QED  BY <3>0, <4>1, <4>2, CountOrder
      <3> QED  BY <3>1, <3>2
    <2>3. degraded = FALSE
      BY <2>1, <1>t
    <2> QED  BY <2>1, <2>2, <2>3, Zenon
  <1>6. ASSUME NEW s \in Slugs, CommitOne(s) PROVE NoticeOK'
    <2>1. /\ ev'.pc = ev.pc /\ ev'.degraded = ev.degraded /\ ev'.openTS = ev.openTS
          /\ degraded' = degraded /\ posts' = posts /\ lost' = lost
      BY <1>6, <1>t DEF CommitOne, EvType, det
    <2> QED  BY <2>1, Zenon
  <1>7. CASE CommitDone
    <2>1. /\ ev'.pc = "idle" /\ ev'.degraded = ev.degraded /\ ev'.openTS = ev.openTS
          /\ ev.pc = "commit" /\ degraded' = degraded /\ posts' = posts /\ lost' = lost
      BY <1>7, <1>t DEF CommitDone, EvType, det
    <2> QED  BY <2>1, Zenon
  <1>8. CASE PostOpen
    <2>1. /\ ev'.pc = "idle" /\ ev'.degraded = ev.degraded
          /\ ev.pc = "notice" /\ degraded' = degraded
      BY <1>8, <1>t DEF PostOpen, EvType, det
    <2>2. posts' <= 1 + lost' /\ (ev'.degraded /\ ~ev'.openTS => posts' <= lost')
      <3>0. posts \in 0..MaxCount /\ lost \in 0..MaxCount
        BY DEF TypeOK
      <3>1. CASE ~OwesNotice
        <4>1. ev'.openTS = ev.openTS /\ posts' = posts /\ lost' = lost
          BY <1>8, <1>t, <3>1 DEF PostOpen, EvType
        <4> QED  BY <2>1, <4>1
      <3>2. CASE OwesNotice
        <4>1. posts <= lost
          BY <2>1, <3>2 DEF OwesNotice
        <4>2. PICK a \in SlackAnswer :
                 /\ ev' = [ev EXCEPT !.pc = "idle", !.openTS = @ \/ a = "ok"]
                 /\ posts' = IF a = "failed" THEN posts ELSE Count(posts, 1)
                 /\ lost' = IF a = "lost" THEN Count(lost, 1) ELSE lost
          BY <1>8, <3>2 DEF PostOpen
        <4>3. CASE a = "ok"
          <5>1. ev'.openTS
            BY <4>2, <4>3, <1>t DEF EvType
          <5>2. posts' = Count(posts, 1) /\ lost' = lost
            BY <4>2, <4>3
          <5> QED  BY <3>0, <4>1, <5>1, <5>2, CountOrder
        <4>4. CASE a = "lost"
          <5>1. posts' = Count(posts, 1) /\ lost' = Count(lost, 1)
            BY <4>2, <4>4
          <5> QED  BY <3>0, <4>1, <5>1, CountOrder
        <4>5. CASE a = "failed"
          BY <3>0, <4>1, <4>2, <4>5
        <4> QED  BY <4>3, <4>4, <4>5 DEF SlackAnswer
      <3> QED  BY <3>1, <3>2
    <2> QED  BY <2>1, <2>2, Zenon
  <1>9. CASE UNCHANGED <<ev, degraded, posts, lost>>
    BY <1>9, Zenon
  <1> QED
    BY <1>1, <1>2, <1>3, <1>4, <1>5, <1>6, <1>7, <1>8, <1>9
    DEF Next, MonitorTick, Evaluator, Decide, Tick, ResolverFails, ResolverReturns, Probe,
        ReportSignal, ReportDNS, vars, det

-----------------------------------------------------------------------------
(* The theorems. *)

\* The strengthened invariant of the detector and its notifier.
THEOREM SelfHealthInvariant == Spec => []IInv
  <1>1. Init => IInv
    BY InitOK
  <1>2. IInv /\ [Next]_vars => IInv'
    BY TypesPreserved, RecordsPreserved, NoticePreserved DEF IInv
  <1> QED  BY <1>1, <1>2, PTL DEF Spec

\* The detector and the notifier keep their types, for any monitors, window
\* and threshold.
THEOREM SelfHealthTypes == Spec => []TypeOK
  BY SelfHealthInvariant, PTL DEF IInv

\* A blind episode is one message, however often Slack fails, and one more for
\* every open notice that landed while its answer was lost.
THEOREM OneMessage == Spec => []OneNotice
  <1>1. IInv => OneNotice
    BY DEF IInv, NoticeOK, OneNotice
  <1> QED  BY <1>1, SelfHealthInvariant, PTL

\* A failure reported while blind is never committed.
THEOREM NothingReplayed == Spec => NeverReplayed
  <1>1. IInv /\ [Next]_vars => [\A s \in ev'.todo \ ev.todo : held[s]]_vars
    <2> SUFFICES ASSUME IInv, [Next]_vars, NEW s \in ev'.todo \ ev.todo
                 PROVE  held[s]
      OBVIOUS
    <2>t. ev \in EvType
      BY DEF IInv, TypeOK
    <2>1. CASE CommitHeld
      <3>1. s \in Failing /\ ~degraded
        BY <2>1, <2>t DEF CommitHeld, EvType
      <3>2. s \in Slugs /\ dnsLast[s] # None
        BY <3>1 DEF Failing
      <3> QED  BY <3>1, <3>2 DEF IInv, RecordsAreHeld
    <2>2. CASE Enter \/ PostClose
      <3>1. CASE Enter
        <4>1. ev'.todo = {}
          BY <3>1 DEF Enter, EvIdle
        <4> QED  BY <4>1
      <3>2. CASE PostClose
        <4>1. ev'.todo = {}
          BY <3>2 DEF PostClose, EvIdle
        <4> QED  BY <4>1
      <3> QED  BY <2>2, <3>1, <3>2
    <2>3. CASE StayBlind \/ Exit \/ CommitDone
      <3>1. ev'.todo = ev.todo
        BY <2>3, <2>t DEF StayBlind, Exit, CommitDone, EvType
      <3> QED  BY <3>1
    <2>6. CASE PostOpen
      <3>1. \/ \E a \in SlackAnswer :
                  ev' = [ev EXCEPT !.pc = "idle", !.openTS = @ \/ a = "ok"]
            \/ ev' = [ev EXCEPT !.pc = "idle"]
        BY <2>6 DEF PostOpen
      <3>2. ev'.todo = ev.todo
        BY <3>1, <2>t DEF EvType
      <3> QED  BY <3>2
    <2>4. ASSUME NEW x \in Slugs, CommitOne(x) PROVE held[s]
      BY <2>4, <2>t DEF CommitOne, EvType
    <2>5. CASE ev' = ev
      BY <2>5
    <2> QED
      BY <2>1, <2>2, <2>3, <2>4, <2>5, <2>6
      DEF Next, MonitorTick, Evaluator, Decide, Tick, ResolverFails, ResolverReturns, Probe,
          ReportSignal, ReportDNS, vars
  <1> QED  BY <1>1, SelfHealthInvariant, PTL DEF Spec, NeverReplayed

-----------------------------------------------------------------------------
(* Punctual ticks: degraded mode means that the resolver was down. *)

LEMMA CausePreserved ==
    ASSUME Punctual, TypeOK, CausedByResolver, [Next]_vars
    PROVE  CausedByResolver'
  <1> USE DEF CausedByResolver
  <1>1. CASE Tick
    <2>1. ~resolver' => outAge' = 0
      BY <1>1 DEF Tick
    <2>2. ASSUME NEW s \in Slugs \ Unresolvable
          PROVE  /\ tick'[s] = "dns" => outAge' = 0
                 /\ dnsLast'[s] # None => outAge' <= dnsLast'[s]
      <3>1. tick'[s] = "idle"
        BY <1>1 DEF Tick
      <3>2. ASSUME dnsLast'[s] # None PROVE outAge' <= dnsLast'[s]
        <4>1. dnsLast'[s] = Older(dnsLast[s])
          BY <1>1 DEF Tick
        <4>2. dnsLast[s] # None
          BY <3>2, <4>1 DEF Older
        <4>3. dnsLast[s] \in Age /\ outAge \in Age /\ outAge <= dnsLast[s]
          BY <4>2 DEF TypeOK
        <4>4. outAge' = 0 \/ outAge' = Older(outAge)
          BY <1>1 DEF Tick
        <4> QED  BY <4>1, <4>3, <4>4 DEF Older, Age, None
      <3> QED  BY <3>1, <3>2
    <2> QED  BY <2>1, <2>2, <1>1 DEF Tick
  <1>2. CASE ResolverFails
    BY <1>2 DEF ResolverFails, det, TypeOK, Age, None
  <1>3. CASE ResolverReturns
    BY <1>3 DEF ResolverReturns, det
  <1>4. ASSUME NEW x \in Slugs, Probe(x) PROVE CausedByResolver'
    BY <1>4 DEF Probe, Outcome, det, TypeOK
  <1>5. ASSUME NEW x \in Slugs, ReportSignal(x) PROVE CausedByResolver'
    BY <1>5 DEF ReportSignal, TypeOK
  <1>6. ASSUME NEW x \in Slugs, ReportDNS(x) PROVE CausedByResolver'
    BY <1>6 DEF ReportDNS, TypeOK
  <1>7. CASE Enter \/ CommitHeld \/ Exit
    BY <1>7 DEF Enter, CommitHeld, Exit, Pass, ClearedAtExit, NoFailing
  <1>8. CASE StayBlind
    BY <1>8 DEF StayBlind, Pass, Pruned
  <1>9. CASE UNCHANGED <<resolver, outAge, tick, dnsLast>>
    BY <1>9
  <1> QED
    BY <1>1, <1>2, <1>3, <1>4, <1>5, <1>6, <1>7, <1>8, <1>9
    DEF Next, MonitorTick, Evaluator, Decide, PostClose, CommitOne, CommitDone, PostOpen,
        vars, det

\* Degraded mode is entered only if the resolver was down within the window,
\* when probes keep up with the clock.
THEOREM BlindForAReason == Punctual => (Spec => BlindnessIsReal)
  <1> SUFFICES ASSUME Punctual PROVE Spec => BlindnessIsReal
    OBVIOUS
  <1>1. Init => CausedByResolver
    BY DEF Init, CausedByResolver
  <1>2. TypeOK /\ CausedByResolver /\ [Next]_vars => CausedByResolver'
    BY CausePreserved
  <1>3. ASSUME TypeOK, CausedByResolver, [Next]_vars,
               Cardinality(Unresolvable) < MinMonitors, ~degraded, degraded'
        PROVE  outAge < Window
    <2>1. Enter
      BY <1>3
      DEF Next, MonitorTick, Evaluator, Decide, Tick, ResolverFails, ResolverReturns, Probe,
          ReportSignal, ReportDNS, CommitHeld, StayBlind, Exit, PostClose, CommitOne,
          CommitDone, PostOpen, vars, det
    <2>2. Cardinality(Failing) >= MinMonitors
      BY <2>1 DEF Enter, Trips
    <2>3. PICK s \in Failing : s \notin Unresolvable
      <3>1. SUFFICES ASSUME Failing \subseteq Unresolvable PROVE FALSE
        OBVIOUS
      <3>2. IsFiniteSet(Unresolvable)
        BY FS_Subset
      <3>3. Cardinality(Failing) <= Cardinality(Unresolvable)
        BY <3>1, <3>2, FS_Subset
      <3>4. Cardinality(Unresolvable) \in Nat /\ Cardinality(Failing) \in Nat
        BY <3>2, FailingFinite, FS_CardinalityType
      <3> QED  BY <1>3, <2>2, <3>3, <3>4
    <2>4. s \in Slugs /\ dnsLast[s] \notin {None, Window}
      BY DEF Failing
    <2>5. dnsLast[s] \in Age /\ outAge \in Age /\ outAge <= dnsLast[s]
      BY <1>3, <2>3, <2>4 DEF TypeOK, CausedByResolver
    <2> QED  BY <2>4, <2>5 DEF Age
  <1>4. TypeOK /\ CausedByResolver /\ [Next]_vars
           => [Cardinality(Unresolvable) < MinMonitors /\ ~degraded /\ degraded'
                  => outAge < Window]_vars
    BY <1>3
  <1> QED  BY <1>1, <1>2, <1>4, SelfHealthTypes, PTL DEF Spec, BlindnessIsReal
=============================================================================
