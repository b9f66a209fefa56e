------------------------------ MODULE Scheduler ------------------------------
(***************************************************************************)
(* Everything that writes a monitor's row: the tick goroutines of          *)
(* internal/scheduler, a tick that was cancelled by a plan change and is   *)
(* still inside a statement, the on-demand probe of a parent and the       *)
(* self-health commit (internal/lifecycle/coalesce_wiring.go), and         *)
(* push-propagation.  Each reads the row, decides and writes it back in    *)
(* separate statements, so one action is one statement, one Slack call or  *)
(* one probe.  Critical monitors are announced by the notifier itself; the *)
(* events of the others are handed to the dispatcher (module Dispatcher)   *)
(* and leave this module.                                                  *)
(*                                                                         *)
(* Times are relative to the last reminder: a row holds 0 for any time,    *)
(* and a check happens 0, 1 or 2 units later.                              *)
(***************************************************************************)
EXTENDS Probe, FiniteSets

CONSTANTS Monitors,      \* the monitors of the current plan
          DependsOn,     \* Plan.DependsOn, a function on Monitors
          Critical,      \* the monitors that bypass coalescing
          TLSPlans,      \* whether the plans of a monitor, one after the other, bear TLS
          ReminderInterval, \* Plan.ReminderInterval, 0 for no reminders
          Faults,        \* the kinds of mishap that may happen
          Retries,       \* Plan.Retries
          MaxMishaps     \* bound on the mishaps of a behaviour

ASSUME SchedulerAssumption ==
    /\ DependsOn \in [Monitors -> SUBSET Monitors]
    /\ Critical \subseteq Monitors
    /\ TLSPlans \in [Monitors -> SUBSET BOOLEAN] /\ \A m \in Monitors : TLSPlans[m] # {}
    /\ Faults \subseteq {"lookup", "statement", "slack", "plan", "crash"}
    /\ Retries \in Nat /\ MaxMishaps \in Nat /\ ReminderInterval \in Nat

A == INSTANCE Alert
S == INSTANCE SSL

VARIABLES row,      \* uptime columns of each monitor's row
          ssl,      \* certificate columns of each monitor's row
          op,       \* the work in flight, by kind of writer and monitor
          held,     \* monitors with a lookup failure the detector holds back
          tls,      \* the plan of each monitor bears TLS (TLSBearing, not skip-verify)
          logged,    \* history: by alert_events, an uptime incident is open
          sslLogged, \* history: by alert_events, a certificate incident is open, and no
                     \* check under a plan without TLS has dropped it since
          odd,      \* history: monitors with an event out of order and no race
          raced,    \* history: a write went over a row another writer had read
          left      \* how many mishaps are left

vars == <<row, ssl, op, held, logged, sslLogged, tls, odd, raced, left>>

Kinds == {"tick", "cancelled", "probe", "commit"}

Elapsed == 0 .. 2
Day == 1
SSLReminderInterval == 2
SSLAlertThreshold == 2
SSLEscalationThreshold == 1

\* Times to live of a certificate: escalated, expiring, sound.
TTL == 1 .. 3

Children(m) == {c \in Monitors : m \in DependsOn[c]}

\* The result of a tick as far as it is used after the probe.
Seen(r) == [ok |-> r.ok, dns |-> r.kind = "dns", ttl |-> r.cert]

\* The monitor is an HTTP or an SMTP one; only a certificate that is tracked matters.
Results ==
    [bearing \in BOOLEAN |->
        LET certs == IF bearing THEN TTL ELSE {}
            modes == IF bearing THEN {"implicit", "starttls"} ELSE {"none"}
        IN {Seen(x) : x \in HTTPResults(certs) \cup UNION {SMTPResults(t, certs) : t \in modes}}]

Outcomes(m) ==
    {r \in Results[tls[m]] : /\ r.dns => "lookup" \in Faults /\ left > 0
                            /\ r.ok /\ tls[m] => r.ttl # NoCert}

Idle == [pc |-> "idle"]

Init ==
    /\ row = [m \in Monitors |-> A!NewRow]
    /\ ssl = [m \in Monitors |-> S!NewSSL]
    /\ op = [k \in Kinds |-> [m \in Monitors |-> Idle]]
    /\ held = {}
    /\ logged = [m \in Monitors |-> FALSE]
    /\ sslLogged = [m \in Monitors |-> FALSE]
    /\ tls \in [Monitors -> BOOLEAN] /\ \A m \in Monitors : tls[m] \in TLSPlans[m]
    /\ odd = {}
    /\ raced = [m \in Monitors |-> FALSE]
    /\ left = MaxMishaps

Goto(k, m, o) == op' = [op EXCEPT ![k][m] = o]

\* A failed lookup, statement or Slack call, a plan change, a restart.
Mishap(kind) == kind \in Faults /\ left > 0 /\ left' = left - 1

\* A cancelled tick only finishes the statement it is in: every later one gets
\* the context's error.
After(k, o) == IF k = "cancelled" THEN Idle ELSE o

-----------------------------------------------------------------------------
(* Tick: the dependsOn gate and the probe *)

\* The parents are read one after the other (anyParentDown); one that cannot be
\* read is skipped.  A monitor without parents goes straight to its probe.
Gate(todo) == IF todo = {} THEN [pc |-> "probing", tries |-> 0] ELSE [pc |-> "gate", todo |-> todo]

ReadParent(m) ==
    LET o == op["tick"][m]
        todo == IF o = Idle THEN DependsOn[m] ELSE o.todo
    IN  /\ o.pc \in {"idle", "gate"}
        /\ \E p \in todo :
            \/ /\ Goto("tick", m, IF row[p].status = "down" THEN [pc |-> "gated"]
                                  ELSE Gate(todo \ {p}))
               /\ UNCHANGED left
            \/ Goto("tick", m, Gate(todo \ {p})) /\ Mishap("statement")
        /\ UNCHANGED <<row, ssl, held, logged, sslLogged, tls, odd, raced>>

PauseUnwritten(k, m) ==                      \* mutant: only the digest is told
    /\ op[k][m].pc = "gated"
    /\ Goto(k, m, Idle)
    /\ UNCHANGED <<row, ssl, held, logged, sslLogged, tls, odd, raced, left>>

\* A parent is down: the child is pulled out of its digest and marked.
PauseSelf(k, m) ==
    /\ op[k][m].pc = "gated"
    /\ Goto(k, m, Idle)
    /\ \/ row' = [row EXCEPT ![m] = A!MarkTemporaryPaused(@)] /\ UNCHANGED left
       \/ Mishap("statement") /\ UNCHANGED row
    /\ UNCHANGED <<ssl, held, logged, sslLogged, tls, odd, raced>>

\* The monitor is probed next.
AtProbe(m) == op["tick"][m].pc = "probing" \/ (op["tick"][m] = Idle /\ DependsOn[m] = {})

Tries(m) == IF op["tick"][m] = Idle THEN 0 ELSE op["tick"][m].tries

\* A failed attempt is repeated Retries times.
Retry(m) ==
    /\ AtProbe(m) /\ Tries(m) < Retries
    /\ \E r \in Outcomes(m) : ~r.ok
    /\ Goto("tick", m, [pc |-> "probing", tries |-> Tries(m) + 1])
    /\ UNCHANGED <<row, ssl, held, logged, sslLogged, tls, odd, raced, left>>

Final(m, r) == AtProbe(m) /\ (r.ok \/ Tries(m) = Retries)

\* A lookup failure is reported to the self-health detector and goes no further.
HoldBack(m) ==
    /\ \E r \in Outcomes(m) : r.dns /\ Final(m, r)
    /\ Goto("tick", m, Idle)
    /\ held' = held \cup {m}
    /\ Mishap("lookup")
    /\ UNCHANGED <<row, ssl, logged, sslLogged, tls, odd, raced>>

-----------------------------------------------------------------------------
(* Read the row, decide, write it *)

\* What is stored of a time is that there is one.
Norm(st) == [st EXCEPT !.openedAt = IF @ = A!NoTime THEN A!NoTime ELSE 0,
                       !.remindedAt = IF @ = A!NoTime THEN A!NoTime ELSE 0]

\* Tick: resume from a pause and apply the result of the check.
Decide(r, ok, at) == A!Apply(A!State(A!Resume(r)), ok, at, ReminderInterval)

SSLCheck(m, res, at) ==
    [at |-> at, expiresAt |-> IF res.ttl = NoCert THEN S!NoTime ELSE at + res.ttl,
     tlsBearing |-> tls[m], alert |-> SSLAlertThreshold,
     escalation |-> SSLEscalationThreshold, interval |-> SSLReminderInterval, day |-> Day]

Decided(m, res, at) ==
    LET d == Decide(row[m], res.ok, at)
        c == SSLCheck(m, res, at)
        s == S!ApplySSL(S!SSLOf(ssl[m]), c)
    IN  [pc |-> "decided", event |-> d.event, next |-> Norm(d.next), ref |-> row[m].thread,
         ssl |-> [event |-> s.event, next |-> Norm(s.next),
                  expiresAt |-> IF c.expiresAt = S!NoTime THEN S!NoTime ELSE 0],
         sslRef |-> ssl[m].thread]

\* The last attempt and GetMonitor right after it: the decision is taken from the
\* row as it is now.
CheckRow(m, at) ==
    /\ \E r \in Outcomes(m) :
        /\ ~r.dns /\ Final(m, r)
        /\ \/ Goto("tick", m, Decided(m, r, at)) /\ UNCHANGED left
           \/ Goto("tick", m, Idle) /\ Mishap("statement")
    /\ UNCHANGED <<row, ssl, held, logged, sslLogged, tls, odd, raced>>

Failed == [ok |-> FALSE, dns |-> FALSE, ttl |-> NoCert]

\* makeOnDemandParentProbe: the dispatcher's evaluator probes a parent, one at a
\* time, and the probe fails (otherwise nothing happens).  It writes only when it
\* opens an incident; a parent known to be down goes straight to push-propagation.
ProbeParent(m, at) ==
    /\ Children(m) # {}
    /\ \A n \in Monitors : op["probe"][n] = Idle
    /\ LET d == Decided(m, Failed, at)
       IN  Goto("probe", m, IF d.event = "open" THEN d
                            ELSE [pc |-> "push", todo |-> Children(m), then |-> Idle])
    /\ UNCHANGED <<row, ssl, held, logged, sslLogged, tls, odd, raced, left>>

\* The detector discards a held failure, or the re-probe of makeSelfHealthCommit
\* finds the monitor recovered.
DropHeld(m) ==
    /\ m \in held
    /\ held' = held \ {m}
    /\ UNCHANGED <<row, ssl, op, logged, sslLogged, tls, odd, raced, left>>

\* makeSelfHealthCommit: the monitor still fails.  Its parents are not looked at.
CommitHeld(m, at) ==
    /\ m \in held
    /\ \A n \in Monitors : op["commit"][n] = Idle
    /\ held' = held \ {m}
    /\ Goto("commit", m, Decided(m, Failed, at))
    /\ UNCHANGED <<row, ssl, logged, sslLogged, tls, odd, raced, left>>

\* A write is a race when another writer has decided from the row it replaces.
Raced(k, m) == \E k2 \in Kinds \ {k} : op[k2][m].pc = "decided"

\* What follows the announcement: push-propagation after an open, and for a tick
\* the certificate.
Rest(k, m, o) ==
    LET end == IF k = "tick" THEN [pc |-> "ssl", ssl |-> o.ssl, sslRef |-> o.sslRef] ELSE Idle
    IN  IF o.event = "open" /\ Children(m) # {}
        THEN [pc |-> "push", todo |-> Children(m), then |-> end] ELSE end

\* The event of a critical monitor is announced by the notifier, except that the
\* on-demand probe announces none; that of any other goes to the dispatcher.
Announce(k, m, o) ==
    IF o.event # "none" /\ m \in Critical /\ k # "probe"
    THEN [o EXCEPT !.pc = "dispatch"] ELSE Rest(k, m, o)

\* Whether an incident is open by the history, once the event is in it.
Entry(open, event, opening) == IF event = "none" THEN open ELSE event \in opening

\* An open belongs to a closed incident, a reminder and a resolve to an open one.
InOrder(open, event) == event \in (IF open THEN {"none", "reminder", "resolve"}
                                   ELSE {"none", "open"})

\* ApplyCheck: one transaction writes the uptime columns and the event.
ApplyCheck(k, m) ==
    LET o == op[k][m]
    IN  /\ o.pc = "decided"
        /\ row' = [row EXCEPT ![m] = A!ApplyCheck(@, o.next, o.event)]
        /\ logged' = [logged EXCEPT ![m] = Entry(@, o.event, {"open", "reminder"})]
        /\ raced' = [raced EXCEPT ![m] = @ \/ Raced(k, m)]
        /\ odd' = IF InOrder(logged[m], o.event) \/ raced'[m] THEN odd ELSE odd \cup {m}
        /\ Goto(k, m, After(k, Announce(k, m, o)))
        /\ UNCHANGED <<ssl, held, tls, sslLogged, left>>

CheckFails(k, m) ==
    /\ op[k][m].pc = "decided"
    /\ Goto(k, m, Idle)
    /\ Mishap("statement")
    /\ UNCHANGED <<row, ssl, held, logged, sslLogged, tls, odd, raced>>

-----------------------------------------------------------------------------
(* Announce the event, pause the children, then the certificate *)

\* Slack needs a new parent message: an open, or a reminder whose incident has
\* none on file (postFreshUptimeParent).
NeedsParent(o) == o.event = "open" \/ (o.event = "reminder" /\ o.ref = 0)

\* Slack takes the message.
Posted(k, m) ==
    LET o == op[k][m]
    IN  /\ o.pc = "dispatch"
        /\ Goto(k, m, After(k, IF NeedsParent(o) THEN [o EXCEPT !.pc = "posted"]
                               ELSE Rest(k, m, o)))
        /\ UNCHANGED left

\* Notifier.Notify.
Notify(k, m) ==
    /\ \/ Posted(k, m)
       \/ /\ op[k][m].pc = "dispatch"
          /\ Goto(k, m, After(k, Rest(k, m, op[k][m])))
          /\ Mishap("slack")
    /\ UNCHANGED <<row, ssl, held, tls, logged, sslLogged, odd, raced>>

\* SetUptimeThread after a parent was posted; a failure is only logged.
StoreThread(k, m) ==
    /\ op[k][m].pc = "posted"
    /\ Goto(k, m, After(k, Rest(k, m, op[k][m])))
    /\ \/ row' = [row EXCEPT ![m].thread = 1] /\ UNCHANGED left
       \/ Mishap("statement") /\ UNCHANGED row
    /\ UNCHANGED <<ssl, held, logged, sslLogged, tls, odd, raced>>

\* makePushPropagation: MarkTemporaryPaused child by child, a failure skips one.
Push(k, m) ==
    LET o == op[k][m]
    IN  /\ o.pc = "push"
        /\ \E c \in o.todo :
            /\ Goto(k, m, After(k, IF o.todo = {c} THEN o.then
                                   ELSE [o EXCEPT !.todo = @ \ {c}]))
            /\ \/ row' = [row EXCEPT ![c] = A!MarkTemporaryPaused(@)] /\ UNCHANGED left
               \/ Mishap("statement") /\ UNCHANGED row
        /\ UNCHANGED <<ssl, held, logged, sslLogged, tls, odd, raced>>

\* Another tick of the monitor has decided from the certificate columns.
SSLRaced(k, m) == \E k2 \in {"tick", "cancelled"} \ {k} :
                      op[k2][m].pc \in {"decided", "dispatch", "posted", "push", "ssl"}

\* Whether a certificate incident is open by the history: a check under a plan without
\* TLS skips the certificate, and an incident that was open ends without an event.
CertEntry(open, d) ==
    /\ Entry(open, d.event, {"ssl_open", "ssl_reminder"})
    /\ d.next.status # "ssl-skipped"

\* ApplySSLCheck, decided from the row read before the uptime side was written.
ApplySSLCheck(k, m) ==
    LET o == op[k][m]
    IN  /\ o.pc = "ssl"
        /\ \/ /\ ssl' = [ssl EXCEPT ![m] =
                            S!ApplySSLCheck(@, o.ssl.next, o.ssl.expiresAt, o.ssl.event)]
              /\ sslLogged' = [sslLogged EXCEPT ![m] = CertEntry(@, o.ssl)]
              /\ raced' = [raced EXCEPT ![m] = @ \/ SSLRaced(k, m)]
              /\ Goto(k, m, After(k, IF o.ssl.event = "none" THEN Idle
                                     ELSE [pc |-> "sslDispatch", event |-> o.ssl.event,
                                           ref |-> o.sslRef]))
              /\ UNCHANGED left
           \/ Goto(k, m, Idle) /\ Mishap("statement") /\ UNCHANGED <<ssl, sslLogged, raced>>
        /\ UNCHANGED <<row, held, logged, tls, odd>>

\* NotifySSL: the parent and its reference, for an open or a reminder without one.
NotifySSL(k, m) ==
    LET o == op[k][m]
        parent == o.event = "ssl_open" \/ (o.event = "ssl_reminder" /\ o.ref = 0)
    IN  /\ o.pc = "sslDispatch"
        /\ Goto(k, m, Idle)
        /\ \/ ssl' = [ssl EXCEPT ![m].thread = IF parent THEN 1 ELSE @] /\ UNCHANGED left
           \/ Mishap("slack") /\ UNCHANGED ssl
        /\ UNCHANGED <<row, held, logged, sslLogged, tls, odd, raced>>

-----------------------------------------------------------------------------
(* Plan changes and restarts *)

\* RunDynamic cancels the goroutine of a changed plan and starts another without
\* waiting. The statement the old tick is in may still complete. The new plan may
\* bear TLS or not.
Replan(m) ==
    /\ op["cancelled"][m] = Idle
    /\ \/ op' = [op EXCEPT !["tick"][m] = Idle]
       \/ /\ op["tick"][m].pc \in {"gated", "decided", "dispatch", "posted", "push", "ssl",
                                    "sslDispatch"}
          /\ op' = [op EXCEPT !["tick"][m] = Idle, !["cancelled"][m] = op["tick"][m]]
    /\ \E bears \in TLSPlans[m] : tls' = [tls EXCEPT ![m] = bears]
    /\ Mishap("plan")
    /\ UNCHANGED <<row, ssl, held, logged, sslLogged, odd, raced>>

\* The process dies and starts again, with the plans of the file it now finds: only
\* what Postgres holds survives.
CrashRestart ==
    /\ op' = [k \in Kinds |-> [m \in Monitors |-> Idle]]
    /\ held' = {}
    /\ tls' \in [Monitors -> BOOLEAN] /\ \A m \in Monitors : tls'[m] \in TLSPlans[m]
    /\ Mishap("crash")
    /\ UNCHANGED <<row, ssl, logged, sslLogged, odd, raced>>

-----------------------------------------------------------------------------

Tick(m) == \/ ReadParent(m) \/ Retry(m) \/ HoldBack(m)
           \/ \E at \in Elapsed : CheckRow(m, at)

\* The steps a writer takes once it is gated or has decided.
Work(k, m) ==
    \/ PauseSelf(k, m)
    \/ ApplyCheck(k, m) \/ CheckFails(k, m)
    \/ Notify(k, m) \/ StoreThread(k, m) \/ Push(k, m)
    \/ ApplySSLCheck(k, m) \/ NotifySSL(k, m)

Next ==
    \/ \E m \in Monitors :
        \/ Tick(m)
        \/ \E at \in Elapsed : ProbeParent(m, at) \/ CommitHeld(m, at)
        \/ DropHeld(m) \/ Replan(m)
        \/ \E k \in Kinds : Work(k, m)
    \/ CrashRestart

\* Goroutines keep running: a monitor is ticked again and again, a writer that
\* has started goes on, and between ticks time passes, so that some tick reads the
\* row once a reminder is due.
Fairness ==
    /\ \A k \in Kinds \ {"tick"} : WF_vars(\E m \in Monitors : Work(k, m))
    /\ \A m \in Monitors : /\ WF_vars(Tick(m) \/ Work("tick", m))
                           /\ SF_vars(\E at \in Elapsed \ {0} : CheckRow(m, at))

Spec == Init /\ [][Next]_vars /\ Fairness

-----------------------------------------------------------------------------
(* Properties *)

TypeOK ==
    /\ \A m \in Monitors : /\ row[m].status \in A!Status /\ row[m].thread \in {0, 1}
                           /\ row[m].openedAt \in {A!NoTime, 0}
                           /\ ssl[m].status \in S!SSLStatus /\ ssl[m].thread \in {0, 1}
    /\ held \subseteq Monitors
    /\ logged \in [Monitors -> BOOLEAN] /\ sslLogged \in [Monitors -> BOOLEAN]
    /\ tls \in [Monitors -> BOOLEAN] /\ raced \in [Monitors -> BOOLEAN]

\* Whatever pauses, restarts, plan changes and failed statements come in between,
\* the history of a monitor alternates: no second open of an incident that is open,
\* no reminder or resolve without one.  The only exception are two writers that
\* decided from the same row, which neither Tick nor the two probes of
\* coalesce_wiring.go guard against.
EventsAlternate == odd = {}

\* The same for the certificate: what the columns say is what the history says,
\* although a tick decides about the certificate from a row read before the uptime side
\* was written and announced, and although the monitor's plan may stop bearing TLS with
\* an incident open: the columns leave it without an event (ssl.go), and nothing else
\* makes the two differ.
SSLMatchesLog ==
    \A m \in Monitors : ~raced[m] =>
        (ssl[m].status = "ssl-expiring" <=> sslLogged[m])

\* A child follows its parents. A pause that a tick in flight overwrites is repeated:
\* while a parent stays down its children end up paused and stay so. And a child is not
\* left paused once all its parents are up again.
PauseFollowsParents ==
    \A m \in Monitors :
        /\ \A p \in DependsOn[m] :
              <>[](row[p].status = "down") => <>[](row[m].status = "temporary-paused")
        /\ <>[](\A p \in DependsOn[m] : row[p].status # "down")
              => <>[](row[m].status # "temporary-paused")

\* Slack takes an announcement that the monitor is down.
SaysDown(m) ==
    \E k \in Kinds : Posted(k, m) /\ op[k][m].event \in {"open", "reminder"}

\* With reminders on, a critical monitor that stays down is announced again and again,
\* so the outage that lasts is: whether the announcement of its open was lost to Slack,
\* to a restart, to a plan change or was never made because the on-demand probe opened
\* the incident, a reminder posts a new parent. With reminders off such an open is never
\* announced, and nothing is claimed.
DownIsTold ==
    \A m \in Critical :
        ReminderInterval > 0 /\ <>[](row[m].status = "down") => []<><<SaysDown(m)>>_vars
=============================================================================
