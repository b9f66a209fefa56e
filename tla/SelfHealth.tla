------------------------------ MODULE SelfHealth -----------------------------
(***************************************************************************)
(* Self-health degraded mode: the Detector of internal/selfhealth, the     *)
(* tick goroutines that report to it, and the notifier loop of             *)
(* internal/lifecycle that decides once per window, commits the isolated   *)
(* failures and keeps the one self-health notice.                          *)
(*                                                                         *)
(* The code only ever asks whether a time lies a whole Window back, so a   *)
(* time is kept as its age, which stops growing at Window.                 *)
(*                                                                         *)
(* What the code cannot see is modelled too, to judge it by: whether the   *)
(* monitor's own resolver works, and which monitors have a broken DNS      *)
(* record of their own.  The self-health channel is configured; without    *)
(* one the notices are dropped and nothing else changes.                   *)
(***************************************************************************)
EXTENDS Integers, FiniteSets

CONSTANTS
    Slugs,          \* the monitors
    Window,         \* W, the detection and decision window
    MinMonitors,    \* N_min
    Unresolvable,   \* the monitors whose own DNS record is broken
    Flaky,          \* the monitors that may fail after their name is resolved
    SlackFails,     \* whether Slack may fail, or its answer be lost, by itself
    Punctual,       \* whether probes and passes keep up with the clock
    MaxCount        \* bound: counters stop here

ASSUME SelfHealthAssumption ==
    /\ IsFiniteSet(Slugs)
    /\ Window \in Nat \ {0}
    /\ MinMonitors \in Nat /\ MinMonitors >= 2
    /\ Unresolvable \subseteq Slugs /\ Flaky \subseteq Slugs
    /\ SlackFails \in BOOLEAN /\ Punctual \in BOOLEAN
    /\ MaxCount \in Nat

VARIABLES
    resolver,     \* whether the monitor's resolver works
    outAge,       \* history: time since the resolver last was down
    phase, fired, \* the notifier's ticker: its phase and its one-slot channel
    due,          \* the monitors not probed in this time unit
    tick,         \* per monitor, the outcome its tick is about to report
    degraded, dwell, dnsLast, lastSuccess, suppressed,    \* the Detector
    ev,           \* the notifier goroutine and its fields
    down,         \* the monitors whose row is down
    posts,        \* history: notices posted in this blind episode
    lost,         \* history: open notices among them whose answer was lost
    held,         \* history: per monitor, whether its failure is provisional
    discarded     \* history: failures discarded in this blind episode

det == <<degraded, dwell, dnsLast, lastSuccess, suppressed>>
clock == <<phase, fired>>
vars == <<resolver, outAge, clock, due, tick, det, ev, down, posts, lost, held, discarded>>

-----------------------------------------------------------------------------
(* Time. *)

None == -1

Age == 0..Window

Older(a) == IF a = None \/ a = Window THEN a ELSE a + 1

\* Saturating addition of a counter.
Count(n, k) == IF n + k > MaxCount THEN MaxCount ELSE n + k

EvIdle == [pc |-> "idle", todo |-> {}, degraded |-> FALSE, openTS |-> FALSE, suppressed |-> 0]

Init ==
    /\ resolver = TRUE /\ outAge = Window
    /\ phase = 0 /\ fired = FALSE
    /\ due = Slugs
    /\ tick = [s \in Slugs |-> "idle"]
    /\ degraded = FALSE /\ dwell = 0
    /\ dnsLast = [s \in Slugs |-> None]
    /\ lastSuccess = Window
    /\ suppressed = 0
    /\ ev = EvIdle
    /\ down = {}
    /\ posts = 0 /\ lost = 0 /\ held = [s \in Slugs |-> FALSE] /\ discarded = 0

\* A unit of time passes.  Punctual: every monitor was probed and reported in
\* the unit, and the pass that was due is over.
Tick ==
    /\ Punctual => /\ due = {} /\ ~fired /\ ev.pc = "idle"
                   /\ \A s \in Slugs : tick[s] = "idle"
    /\ phase' = (phase + 1) % Window
    /\ fired' = (fired \/ phase' = 0)
    /\ due' = Slugs
    /\ outAge' = IF resolver THEN Older(outAge) ELSE 0
    /\ dwell' = Older(dwell)
    /\ dnsLast' = [s \in Slugs |-> Older(dnsLast[s])]
    /\ lastSuccess' = Older(lastSuccess)
    /\ UNCHANGED <<resolver, tick, degraded, suppressed, ev, down, posts, lost, held,
                   discarded>>

-----------------------------------------------------------------------------
(* The world. *)

ResolverFails ==
    /\ resolver
    /\ resolver' = FALSE /\ outAge' = 0
    /\ UNCHANGED <<clock, due, tick, det, ev, down, posts, lost, held, discarded>>

ResolverReturns ==
    /\ ~resolver
    /\ resolver' = TRUE
    /\ UNCHANGED <<outAge, clock, due, tick, det, ev, down, posts, lost, held, discarded>>

\* What a probe of s can bring now.
Outcome(s) ==
    IF ~resolver \/ s \in Unresolvable THEN {"dns"}
    ELSE {"ok"} \cup (IF s \in Flaky THEN {"other"} ELSE {})

\* Slack needs the resolver, unless a connection to it is still open.  A call
\* that fails may have been carried out, with its answer lost.
SlackAnswer ==
    IF SlackFails THEN {"ok", "failed", "lost"} ELSE IF resolver THEN {"ok"} ELSE {"failed"}


-----------------------------------------------------------------------------
(* The tick of a monitor. *)

Probe(s) ==
    /\ s \in due /\ tick[s] = "idle"
    /\ \E o \in Outcome(s) : tick' = [tick EXCEPT ![s] = o]
    /\ due' = due \ {s}
    /\ UNCHANGED <<resolver, outAge, clock, det, ev, down, posts, lost, held, discarded>>

\* Detector.Report of a success or of a failure that is no DNS failure; the
\* tick goes on to alert.Apply.
ReportSignal(s) ==
    /\ tick[s] \in {"ok", "other"}
    /\ lastSuccess' = IF tick[s] = "ok" THEN 0 ELSE lastSuccess
    /\ down' = IF tick[s] = "ok" THEN down \ {s} ELSE down \cup {s}
    /\ tick' = [tick EXCEPT ![s] = "idle"]
    /\ UNCHANGED <<resolver, outAge, clock, due, degraded, dwell, dnsLast, suppressed, ev,
                   posts, lost, held, discarded>>

\* Detector.Report of a DNS failure; the tick ends there.
ReportDNS(s) ==
    /\ tick[s] = "dns"
    /\ dnsLast' = [dnsLast EXCEPT ![s] = 0]
    /\ suppressed' = IF degraded THEN Count(suppressed, 1) ELSE suppressed
    /\ discarded' = IF degraded THEN Count(discarded, 1) ELSE discarded
    /\ held' = [held EXCEPT ![s] = ~degraded]
    /\ tick' = [tick EXCEPT ![s] = "idle"]
    /\ UNCHANGED <<resolver, outAge, clock, due, degraded, dwell, lastSuccess, ev, down,
                   posts, lost>>

-----------------------------------------------------------------------------
(* Decide. *)

FailingLately ==                          \* mutant: pruned too early
    {s \in Slugs : dnsLast[s] \notin {None, Window, Window - 1}}

\* pruneLocked and the keys it leaves.
Failing == {s \in Slugs : dnsLast[s] \notin {None, Window}}

NoFailing == [s \in Slugs |-> None]

SuccessInWindow == lastSuccess < Window

TripsEarly ==                             \* mutant: off by one
    ~SuccessInWindow /\ Cardinality(Failing) + 1 >= MinMonitors

Trips == ~SuccessInWindow /\ Cardinality(Failing) >= MinMonitors

MayExitClean ==                           \* mutant: any failing monitor keeps it blind
    dwell = Window /\ SuccessInWindow /\ Failing = {}

MayExit ==
    /\ dwell = Window
    /\ SuccessInWindow
    /\ Cardinality(Failing) < MinMonitors

\* The notifier's pass begins when its ticker has fired.
Pass ==
    /\ ev.pc = "idle" /\ fired
    /\ fired' = FALSE
    /\ UNCHANGED <<resolver, outAge, phase, due, tick, lastSuccess, down>>

Enter ==
    /\ Pass /\ ~degraded /\ Trips
    /\ degraded' = TRUE /\ dwell' = 0
    /\ suppressed' = Count(0, Cardinality(Failing))
    /\ dnsLast' = NoFailing
    /\ ev' = [EvIdle EXCEPT !.pc = "notice", !.degraded = TRUE]
    /\ posts' = 0 /\ lost' = 0
    /\ held' = [s \in Slugs |-> FALSE]
    /\ discarded' = Count(0, Cardinality(Failing))

\* What a pass that stays in the same mode leaves of the records.
Pruned == [s \in Slugs |-> IF s \in Failing THEN dnsLast[s] ELSE None]

CommitHeld ==
    /\ Pass /\ ~degraded /\ ~Trips
    /\ dnsLast' = NoFailing
    /\ held' = [s \in Slugs |-> FALSE]
    /\ ev' = [ev EXCEPT !.pc = "commit", !.todo = Failing]
    /\ UNCHANGED <<degraded, dwell, suppressed, posts, lost, discarded>>

StayBlind ==
    /\ Pass /\ degraded /\ ~MayExit
    /\ dnsLast' = Pruned
    /\ ev' = [ev EXCEPT !.pc = "notice"]
    /\ UNCHANGED <<degraded, dwell, suppressed, posts, lost, held, discarded>>

ClearedKeepingRecords == Pruned           \* mutant: the records survive the exit

\* The records that an exit leaves.
ClearedAtExit == NoFailing

Exit ==
    /\ Pass /\ degraded /\ MayExit
    /\ degraded' = FALSE /\ dwell' = 0
    /\ dnsLast' = ClearedAtExit
    /\ suppressed' = 0
    /\ ev' = [ev EXCEPT !.pc = "close",
                        !.suppressed = Count(suppressed, Cardinality(Failing))]
    /\ held' = [s \in Slugs |-> FALSE]
    /\ UNCHANGED <<posts, lost, discarded>>

-----------------------------------------------------------------------------
(* The rest of the pass: the close notice, the commits, the open notice. *)

\* postClose: edit the open notice, or post the summary if it never landed.
PostClose ==
    /\ ev.pc = "close"
    /\ \E a \in SlackAnswer :
          posts' = IF ~ev.openTS /\ a # "failed" THEN Count(posts, 1) ELSE posts
    /\ ev' = [EvIdle EXCEPT !.suppressed = ev.suppressed]
    /\ UNCHANGED <<resolver, outAge, clock, due, tick, det, down, lost, held, discarded>>

\* makeSelfHealthCommit: probe once more; what still fails, for whatever
\* reason, goes through alert.Apply.
CommitOne(s) ==
    /\ ev.pc = "commit" /\ s \in ev.todo
    /\ \E o \in Outcome(s) : down' = IF o = "ok" THEN down ELSE down \cup {s}
    /\ ev' = [ev EXCEPT !.todo = @ \ {s}]
    /\ UNCHANGED <<resolver, outAge, clock, due, tick, det, posts, lost, held, discarded>>

CommitDone ==
    /\ ev.pc = "commit" /\ ev.todo = {}
    /\ ev' = [ev EXCEPT !.pc = "idle"]
    /\ UNCHANGED <<resolver, outAge, clock, due, tick, det, down, posts, lost, held, discarded>>

OwesAlways == TRUE                        \* mutant: posted again on every pass

\* postOpen does nothing once it holds the reference of a notice.
OwesNotice == ~ev.openTS

PostOpen ==
    /\ ev.pc = "notice"
    /\ \/ /\ OwesNotice
          /\ \E a \in SlackAnswer :
                /\ ev' = [ev EXCEPT !.pc = "idle", !.openTS = @ \/ a = "ok"]
                /\ posts' = IF a = "failed" THEN posts ELSE Count(posts, 1)
                /\ lost' = IF a = "lost" THEN Count(lost, 1) ELSE lost
       \/ /\ ~OwesNotice
          /\ ev' = [ev EXCEPT !.pc = "idle"]
          /\ UNCHANGED <<posts, lost>>
    /\ UNCHANGED <<resolver, outAge, clock, due, tick, det, down, held, discarded>>

-----------------------------------------------------------------------------

Decide == Enter \/ CommitHeld \/ StayBlind \/ Exit

Evaluator ==
    Decide \/ PostClose \/ (\E s \in Slugs : CommitOne(s)) \/ CommitDone \/ PostOpen

MonitorTick(s) == Probe(s) \/ ReportSignal(s) \/ ReportDNS(s)

Next ==
    \/ Tick
    \/ ResolverFails \/ ResolverReturns
    \/ \E s \in Slugs : MonitorTick(s)
    \/ Evaluator

Spec == Init /\ [][Next]_vars

\* Every goroutine keeps running and the clock goes on.
FairSpec ==
    /\ Spec
    /\ WF_vars(Tick) /\ WF_vars(Evaluator)
    /\ \A s \in Slugs : WF_vars(MonitorTick(s))

-----------------------------------------------------------------------------
(* Properties. *)

EvType == [pc : {"idle", "close", "commit", "notice"}, todo : SUBSET Slugs,
           degraded : BOOLEAN, openTS : BOOLEAN, suppressed : Nat]

\* The types; no age grows past the window and no count past its bound.
TypeOK ==
    /\ resolver \in BOOLEAN /\ outAge \in Age
    /\ phase \in 0..(Window - 1) /\ fired \in BOOLEAN
    /\ due \subseteq Slugs
    /\ tick \in [Slugs -> {"idle", "ok", "dns", "other"}]
    /\ degraded \in BOOLEAN /\ dwell \in Age
    /\ dnsLast \in [Slugs -> Age \cup {None}]
    /\ lastSuccess \in Age
    /\ suppressed \in 0..MaxCount
    /\ ev \in EvType
    /\ down \subseteq Slugs
    /\ posts \in 0..MaxCount /\ lost \in 0..MaxCount
    /\ held \in [Slugs -> BOOLEAN]
    /\ discarded \in 0..MaxCount

\* Discard, don't replay: a failure reported while the monitor was blind is
\* never committed, on the exit or on any pass after it, however the reports
\* interleave with the passes.
NeverReplayed ==
    [][\A s \in ev'.todo \ ev.todo : held[s]]_vars

\* One blind episode is one message: the retries of the open notice, the close
\* edit and the post-hoc summary add up to one post, and to one more for every
\* open notice that landed while its answer was lost.  (postOpen keeps no
\* reference then, and the next pass or the summary posts again.)
OneNotice == posts <= 1 + lost

\* No false blindness: when fewer than MinMonitors monitors have a broken
\* record of their own, degraded mode is entered only if the monitor's own
\* resolver was down within the window.
BlindnessIsReal ==
    [][Cardinality(Unresolvable) < MinMonitors /\ ~degraded /\ degraded'
          => outAge < Window]_vars

\* The resolver works and no service fails any more.
AllWell == resolver /\ \A s \in Slugs : tick[s] # "other"

\* Degraded mode ends for good once all is well, although the monitors with a
\* broken record go on failing.
BlindnessEnds == <>[]AllWell => <>[]~degraded

\* A genuinely broken record still pages: its monitor goes down although every
\* one of its failures is held back first.
BrokenRecordPages == <>[]AllWell => \A s \in Unresolvable : <>(s \in down)

=============================================================================
