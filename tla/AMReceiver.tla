----------------------------- MODULE AMReceiver -----------------------------
(***************************************************************************)
(* The Alertmanager webhook receiver (internal/alertmanager/handler.go)    *)
(* over the am_alerts table (internal/store/am_alerts.go).  Each alert of  *)
(* a delivery is processed by a goroutine of its own, and one action is    *)
(* one call it makes, to Postgres or to Slack.  A Slack call may succeed,  *)
(* be refused, or be carried out while its answer is                       *)
(* lost to the three-second timeout.                                       *)
(*                                                                         *)
(* Alertmanager itself is external: it delivers the present status of its  *)
(* alerts, again and again until it is answered 200, and may repeat a      *)
(* delivery that was answered (a repeat interval, a second replica).       *)
(***************************************************************************)
EXTENDS Integers, Sequences, FiniteSets

CONSTANTS Fingerprints,
          Slots,          \* deliveries that can be in progress at once
          Channels,       \* the channels of the configuration
          Routes,         \* what Evaluate can make of each alert
          Limited,        \* whether a rate limit is configured
          MaxFlips,       \* bound on changes of an alert's status
          MaxRepeats,     \* bound on deliveries nobody needed
          MaxFailures     \* bound on failed calls and crashes

ASSUME AMAssumption ==
    /\ Routes \in [Fingerprints -> SUBSET (Channels \cup {"ignored"})]
    /\ Slots \subseteq Nat
    /\ Limited \in BOOLEAN
    /\ MaxFlips \in Nat /\ MaxRepeats \in Nat /\ MaxFailures \in Nat

VARIABLES alert,    \* Alertmanager's status of each alert
          need,     \* alerts whose status was not acknowledged yet
          batch,    \* the deliveries in progress: a job for each of their alerts
          rows,     \* am_alerts, by id
          parents,  \* the parent messages in Slack, in the order they came
          acked,    \* history: incidents whose firing was acknowledged
          unheard,  \* history: alerts whose resolve was dropped, or came before their firing
          budget    \* what is left of the bounds

vars == <<alert, need, batch, rows, parents, acked, unheard, budget>>

Init ==
    /\ alert = [f \in Fingerprints |-> "resolved"]
    /\ need = {}
    /\ batch = [s \in Slots |-> <<>>]
    /\ rows = <<>>
    /\ parents = <<>>
    /\ acked = {} /\ unheard = {}
    /\ budget = [flips |-> MaxFlips, repeats |-> MaxRepeats, failures |-> MaxFailures]

Spend(what) == budget[what] > 0 /\ budget' = [budget EXCEPT ![what] = @ - 1]

InBatch(s, f) == f \in DOMAIN batch[s]

Goto(s, f, job) == batch' = [batch EXCEPT ![s][f] = job]

\* The outcome of a job: processed, dropped or failed.
Done(job, out) == [job EXCEPT !.pc = out]

Outcomes == {"processed", "dropped", "failed"}

\* The open row of a fingerprint; the partial unique index allows one.
OpenRow(f) == {i \in DOMAIN rows : rows[i].fp = f /\ rows[i].life = "open"}

-----------------------------------------------------------------------------
(* Alertmanager (external) *)

\* The deliveries in progress no longer tell the present status.
Flip(f) ==
    /\ alert' = [alert EXCEPT ![f] = IF @ = "firing" THEN "resolved" ELSE "firing"]
    /\ need' = need \cup {f}
    /\ batch' = [s \in Slots |-> IF InBatch(s, f) THEN [batch[s] EXCEPT ![f].fresh = FALSE]
                                 ELSE batch[s]]
    /\ Spend("flips")
    /\ UNCHANGED <<rows, parents, acked, unheard>>

\* A delivery of some of the alerts, in the first slot that is free: slots are
\* alike.
Deliver(s, F) ==
    /\ batch[s] = <<>> /\ F # {}
    /\ \A t \in Slots : t < s => batch[t] # <<>>
    /\ batch' = [batch EXCEPT ![s] = [f \in F |->
                    [pc |-> "evaluate", st |-> alert[f], ch |-> "", id |-> 0, msg |-> 0, fresh |-> TRUE]]]
    /\ IF F \cap need # {} THEN UNCHANGED budget ELSE Spend("repeats")
    /\ UNCHANGED <<alert, need, rows, parents, acked, unheard>>

\* ServeHTTP once every job is done: 503 if one failed, else 200.
Answer(s) ==
    /\ batch[s] # <<>>
    /\ \A f \in DOMAIN batch[s] : batch[s][f].pc \in Outcomes
    /\ batch' = [batch EXCEPT ![s] = <<>>]
    /\ IF \E f \in DOMAIN batch[s] : batch[s][f].pc = "failed"
       THEN UNCHANGED <<need, acked>>
       ELSE /\ need' = need \ {f \in DOMAIN batch[s] : batch[s][f].fresh}
            /\ acked' = acked \cup {batch[s][f].id : f \in
                    {g \in DOMAIN batch[s] : batch[s][g].st = "firing" /\ batch[s][g].id # 0}}
    /\ UNCHANGED <<alert, rows, parents, unheard, budget>>

-----------------------------------------------------------------------------
(* processAlert *)

Unheard(f, job) == IF job.st = "resolved" THEN unheard \cup {f} ELSE unheard

\* Evaluate, the channel lookup and Limiter.Allow.  The configuration and the check
\* of annotation values leave only channels that are known.  Which alerts the
\* limiter refuses is the business of module Limiter: here it may refuse any, and
\* the notice it posts then is left out.
Admit(s, f) ==
    LET job == batch[s][f]
        Drop == Goto(s, f, Done(job, "dropped")) /\ unheard' = Unheard(f, job)
    IN  /\ InBatch(s, f) /\ job.pc = "evaluate"
        /\ \E r \in Routes[f] :
            \/ r = "ignored" /\ Drop
            \/ r \in Channels /\ Limited /\ Drop
            \/ r \in Channels /\ Goto(s, f, [job EXCEPT !.ch = r, !.pc = job.st]) /\ UNCHANGED unheard
        /\ UNCHANGED <<alert, need, rows, parents, acked, budget>>

FailsSilently(s, f) ==                       \* mutant: answered 200
    /\ InBatch(s, f)
    /\ batch[s][f].pc \in {"firing", "conflict", "post", "resolved", "banner", "edit", "reply"}
    /\ Goto(s, f, Done(batch[s][f], "dropped"))
    /\ Spend("failures")
    /\ UNCHANGED <<alert, need, rows, parents, acked, unheard>>

\* A statement or a Slack call fails and the alert with it.
Fails(s, f) ==
    /\ InBatch(s, f)
    /\ batch[s][f].pc \in {"firing", "conflict", "post", "resolved", "banner", "edit", "reply"}
    /\ Goto(s, f, Done(batch[s][f], "failed"))
    /\ Spend("failures")
    /\ UNCHANGED <<alert, need, rows, parents, acked, unheard>>

-----------------------------------------------------------------------------
(* handleFiring *)

\* A resolve of the alert was handled, and Alertmanager need not come back with it.
Overtaken(f) ==
    /\ alert[f] = "resolved"
    /\ f \in need => \E s \in Slots :
        /\ InBatch(s, f) /\ batch[s][f].st = "resolved" /\ batch[s][f].fresh
        /\ batch[s][f].pc \notin {"evaluate", "resolved"}

\* AppendAMEvent with one event, or none: a failure is only logged.
AppendAMEvent(T) == IF T = {} THEN Spend("failures") ELSE UNCHANGED budget

InsertAlways(s, f) ==                        \* mutant: no partial unique index
    LET job == batch[s][f]
    IN  /\ InBatch(s, f) /\ job.pc = "firing"
        /\ rows' = Append(rows, [fp |-> f, life |-> "open", slug |-> job.ch, ref |-> 0,
                                trail |-> {"firing"}])
        /\ Goto(s, f, [job EXCEPT !.pc = "post", !.id = Len(rows) + 1])
        /\ UNCHANGED <<alert, need, parents, acked, unheard, budget>>

InsertReturnsNoId(s, f) ==                   \* mutant: the id is read before the insert
    LET job == batch[s][f]
    IN  /\ InBatch(s, f) /\ job.pc = "firing" /\ OpenRow(f) = {}
        /\ rows' = Append(rows, [fp |-> f, life |-> "open", slug |-> job.ch, ref |-> 0,
                                trail |-> {"firing"}])
        /\ Goto(s, f, [job EXCEPT !.pc = "post", !.id = Len(rows)])
        /\ UNCHANGED <<alert, need, parents, acked, unheard, budget>>

\* INSERT ... ON CONFLICT DO NOTHING.
Insert(s, f) ==
    LET job == batch[s][f]
    IN  /\ InBatch(s, f) /\ job.pc = "firing"
        /\ \/ /\ OpenRow(f) = {}
              /\ \E T \in SUBSET {"firing"} :
                    /\ rows' = Append(rows, [fp |-> f, life |-> "open", slug |-> job.ch,
                                            ref |-> 0, trail |-> T])
                    /\ AppendAMEvent(T)
              /\ unheard' = IF Overtaken(f) THEN unheard \cup {f} ELSE unheard
              /\ Goto(s, f, [job EXCEPT !.pc = "post", !.id = Len(rows) + 1])
           \/ /\ OpenRow(f) # {}
              /\ Goto(s, f, [job EXCEPT !.pc = "conflict"])
              /\ UNCHANGED <<rows, unheard, budget>>
        /\ UNCHANGED <<alert, need, parents, acked>>

\* The read after a conflict: the row may have been resolved in between, and is
\* left alone if its parent is on file.
FindOpen(s, f) ==
    LET job == batch[s][f]
    IN  /\ InBatch(s, f) /\ job.pc = "conflict"
        /\ \/ /\ OpenRow(f) = {}
              /\ Goto(s, f, Done(job, "failed"))
              /\ UNCHANGED <<rows, budget>>
           \/ \E i \in OpenRow(f), T \in SUBSET {"repeat-firing"} :
              /\ rows' = [rows EXCEPT ![i].trail = @ \cup T]
              /\ AppendAMEvent(T)
              /\ Goto(s, f, [job EXCEPT !.id = i,
                                        !.pc = IF rows[i].ref # 0 THEN "dropped" ELSE "post"])
        /\ UNCHANGED <<alert, need, parents, acked, unheard>>

\* The parent is posted; the answer may be lost.
PostParent(s, f) ==
    LET job == batch[s][f]
    IN  /\ InBatch(s, f) /\ job.pc = "post"
        /\ parents' = Append(parents, [inc |-> job.id, ch |-> job.ch, red |-> TRUE])
        /\ \/ /\ Goto(s, f, [job EXCEPT !.pc = "store", !.msg = Len(parents) + 1])
              /\ UNCHANGED budget
           \/ /\ Goto(s, f, Done(job, "failed"))
              /\ Spend("failures")
        /\ UNCHANGED <<alert, need, rows, acked, unheard>>

StoreRefByFingerprint(s, f) ==               \* mutant: the open row instead of the id
    LET job == batch[s][f]
    IN  /\ InBatch(s, f) /\ job.pc = "store"
        /\ Goto(s, f, Done(job, "processed"))
        /\ rows' = [i \in DOMAIN rows |-> IF i \in OpenRow(f) THEN [rows[i] EXCEPT !.ref = job.msg]
                                         ELSE rows[i]]
        /\ UNCHANGED <<alert, need, parents, acked, unheard, budget>>

\* UpdateAMSlackRef: a failure is only logged and the alert counts as processed.
StoreRef(s, f) ==
    LET job == batch[s][f]
    IN  /\ InBatch(s, f) /\ job.pc = "store"
        /\ Goto(s, f, Done(job, "processed"))
        /\ \/ /\ rows' = [rows EXCEPT ![job.id].ref = IF rows[job.id].life = "swept" THEN @ ELSE job.msg]
              /\ UNCHANGED budget
           \/ Spend("failures") /\ UNCHANGED rows
        /\ UNCHANGED <<alert, need, parents, acked, unheard>>

-----------------------------------------------------------------------------
(* handleResolved *)

\* MarkAMResolved.  The thread is edited as the bot of the recorded channel.
MarkResolved(s, f) ==
    LET job == batch[s][f]
    IN  /\ InBatch(s, f) /\ job.pc = "resolved"
        /\ \/ /\ OpenRow(f) = {}
              /\ Goto(s, f, [job EXCEPT !.pc = "banner"])
              /\ UNCHANGED <<rows, budget>>
           \/ \E i \in OpenRow(f), T \in SUBSET {"resolved"} :
              /\ rows' = [rows EXCEPT ![i].life = "closed", ![i].trail = @ \cup T]
              /\ AppendAMEvent(T)
              /\ Goto(s, f, [job EXCEPT !.id = i, !.ch = rows[i].slug, !.msg = rows[i].ref,
                            !.pc = IF rows[i].ref = 0 THEN "banner" ELSE "edit"])
        /\ UNCHANGED <<alert, need, parents, acked, unheard>>

\* A message of its own for a resolve that has no thread.
PostBanner(s, f) ==
    /\ InBatch(s, f) /\ batch[s][f].pc = "banner"
    /\ Goto(s, f, Done(batch[s][f], "processed"))
    /\ UNCHANGED <<alert, need, rows, parents, acked, unheard, budget>>

\* The parent turns green; the answer may be lost.
EditParent(s, f) ==
    LET job == batch[s][f]
    IN  /\ InBatch(s, f) /\ job.pc = "edit"
        /\ parents' = [parents EXCEPT ![job.msg].red = FALSE]
        /\ \/ Goto(s, f, [job EXCEPT !.pc = "reply"]) /\ UNCHANGED budget
           \/ Goto(s, f, Done(job, "failed")) /\ Spend("failures")
        /\ UNCHANGED <<alert, need, rows, acked, unheard>>

PostReply(s, f) ==
    /\ InBatch(s, f) /\ batch[s][f].pc = "reply"
    /\ Goto(s, f, Done(batch[s][f], "processed"))
    /\ UNCHANGED <<alert, need, rows, parents, acked, unheard, budget>>

-----------------------------------------------------------------------------

\* Sweeper.tickOnce: resolved rows past their retention are deleted.
Sweep ==
    /\ \E S \in SUBSET {i \in DOMAIN rows : rows[i].life = "closed"} :
        /\ S # {}
        /\ rows' = [i \in DOMAIN rows |->
                      IF i \in S THEN [rows[i] EXCEPT !.life = "swept", !.trail = {}] ELSE rows[i]]
    /\ UNCHANGED <<alert, need, batch, parents, acked, unheard, budget>>

\* The process dies: what its goroutines had not written is gone.
CrashRestart ==
    /\ batch' = [s \in Slots |-> <<>>]
    /\ Spend("failures")
    /\ UNCHANGED <<alert, need, rows, parents, acked, unheard>>

Process(s, f) ==
    \/ Admit(s, f) \/ Fails(s, f)
    \/ Insert(s, f) \/ FindOpen(s, f) \/ PostParent(s, f) \/ StoreRef(s, f)
    \/ MarkResolved(s, f) \/ PostBanner(s, f) \/ EditParent(s, f) \/ PostReply(s, f)

Next ==
    \/ \E f \in Fingerprints : Flip(f)
    \/ \E s \in Slots : \/ \E F \in SUBSET Fingerprints : Deliver(s, F)
                        \/ Answer(s)
                        \/ \E f \in Fingerprints : Process(s, f)
    \/ Sweep \/ CrashRestart

\* Goroutines run, and Alertmanager delivers what was not acknowledged.
Fairness ==
    /\ \A s \in Slots : WF_vars(Answer(s) \/ \E f \in Fingerprints : Process(s, f))
    /\ \A f \in Fingerprints :
        WF_vars(f \in need /\ \E s \in Slots, F \in SUBSET Fingerprints : f \in F /\ Deliver(s, F))

Spec == Init /\ [][Next]_vars /\ Fairness

-----------------------------------------------------------------------------
(* Properties *)

Job == [pc : Outcomes \cup {"evaluate", "firing", "conflict", "post",
                            "store", "resolved", "banner", "edit", "reply"},
        st : {"firing", "resolved"}, ch : Channels \cup {""}, id : {0} \cup DOMAIN rows, msg : {0} \cup DOMAIN parents,
        fresh : BOOLEAN]

TypeOK ==
    /\ alert \in [Fingerprints -> {"firing", "resolved"}]
    /\ need \subseteq Fingerprints /\ unheard \subseteq Fingerprints
    /\ \A s \in Slots : \A f \in DOMAIN batch[s] : f \in Fingerprints /\ batch[s][f] \in Job
    /\ \A i \in DOMAIN rows : /\ rows[i].fp \in Fingerprints /\ rows[i].life \in {"open", "closed", "swept"}
                              /\ rows[i].slug \in Channels
                              /\ rows[i].trail \subseteq {"firing", "repeat-firing", "resolved"}
                              /\ rows[i].ref \in {0} \cup DOMAIN parents
    /\ \A p \in DOMAIN parents : parents[p].inc \in DOMAIN rows

\* The reference on file is to a parent of that very incident, however deliveries,
\* retries and crashes interleave, so that a resolve edits its own thread.
RefIsOwn ==
    \A i \in DOMAIN rows : rows[i].ref # 0 => parents[rows[i].ref].inc = i

\* No parent is shown resolved while its incident is open.
GreenMeansClosed ==
    \A p \in DOMAIN parents : ~parents[p].red => rows[parents[p].inc].life # "open"

\* What Slack shows of an incident is that incident, and not past its end.
MessagesMatchRows == RefIsOwn /\ GreenMeansClosed

\* The refinement mapping.
IdIn(S) == IF S = {} THEN 0 ELSE CHOOSE i \in S : TRUE

OpenId(f) == IdIn(OpenRow(f))

Announced == {parents[p].inc : p \in DOMAIN parents}

Promise == INSTANCE Incidents WITH
    open <- [f \in Fingerprints |-> OpenId(f)], used <- DOMAIN rows, announced <- Announced

\* The receiver keeps the promise of module Incidents: one open incident for each
\* alert, closed ones stay closed, and 200 only after the announcement.
KeepsPromise == Promise!Spec

\* An alert that stays resolved ends with its incident closed, whatever failed and
\* was repeated, unless its resolve was dropped (throttled or ignored) or its resolve overtook a
\* delivery of its firing.
ResolveCloses ==
    \A f \in Fingerprints :
        <>[](alert[f] = "resolved") => <>(f \in unheard) \/ <>[](OpenRow(f) = {})
=============================================================================
