-------------------------- MODULE SchedulerProofs ---------------------------
(***************************************************************************)
(* Proofs about Scheduler for any monitors and any dependencies between    *)
(* them, any faults, any number of retries and of mishaps.                 *)
(*                                                                         *)
(* A writer decides from the row it reads and writes later. As long as no  *)
(* write went over a row somebody else had decided from, what a writer     *)
(* carries still agrees with the history when it writes.                   *)
(***************************************************************************)
EXTENDS Scheduler, TLAPS

-----------------------------------------------------------------------------
(* Types *)

Stored == {A!NoTime, 0}

StateType == [status : A!Status, openedAt : Stored, remindedAt : Stored]

RowType == [status : A!Status, openedAt : Stored, remindedAt : Stored, thread : {0, 1}]

SSLEvent == {"none", "ssl_open", "ssl_reminder", "ssl_resolve"}

SSLState == [status : S!SSLStatus, openedAt : Stored, remindedAt : Stored]

SSLRow == [status : S!SSLStatus, openedAt : Stored, remindedAt : Stored, expiresAt : Stored,
           thread : {0, 1}]

SSLDecision == [event : SSLEvent, next : SSLState, expiresAt : Stored]

\* What a writer is doing, by the fields it carries.
Waiting == [pc : {"idle", "gated"}]
Gating == [pc : {"gate"}, todo : SUBSET Monitors]
Probing == [pc : {"probing"}, tries : Nat]
Deciding == [pc : {"decided", "dispatch", "posted"}, event : A!EventType, next : StateType,
             ref : {0, 1}, ssl : SSLDecision, sslRef : {0, 1}]
CertLeft == [pc : {"ssl"}, ssl : SSLDecision, sslRef : {0, 1}]
Pushing == [pc : {"push"}, todo : SUBSET Monitors, then : {Idle} \cup CertLeft]
SSLTelling == [pc : {"sslDispatch"}, event : SSLEvent, ref : {0, 1}]

OpType == Waiting \cup Gating \cup Probing \cup Deciding \cup CertLeft \cup Pushing \cup SSLTelling

Types ==
    /\ row \in [Monitors -> RowType]
    /\ ssl \in [Monitors -> SSLRow]
    /\ op \in [Kinds -> [Monitors -> OpType]]
    /\ held \subseteq Monitors
    /\ logged \in [Monitors -> BOOLEAN] /\ sslLogged \in [Monitors -> BOOLEAN]
    /\ tls \in [Monitors -> BOOLEAN] /\ raced \in [Monitors -> BOOLEAN]

-----------------------------------------------------------------------------
(* The inductive invariant *)

\* A state is down exactly when it has an opening time; a pause hides the status and
\* keeps the time.
Coherent(st) ==
    /\ st.status = "up" => st.openedAt = A!NoTime
    /\ st.status = "down" => st.openedAt # A!NoTime

\* Without a race the columns say what the history says, on either side.
RowsFollowLog ==
    \A m \in Monitors :
        /\ Coherent(row[m])
        /\ ~raced[m] => /\ logged[m] <=> row[m].openedAt # A!NoTime
                        /\ sslLogged[m] <=> ssl[m].status = "ssl-expiring"

\* The event is one the history allows, and what will be written says what the history
\* will say.
Fits(open, event, openedAt) ==
    /\ InOrder(open, event)
    /\ Entry(open, event, {"open", "reminder"}) <=> openedAt # A!NoTime

CertFits(open, d) == CertEntry(open, d) <=> d.next.status = "ssl-expiring"

\* A writer about to write the uptime side.
UptimeOK(m, o) ==
    o.pc = "decided" => /\ Coherent(o.next)
                        /\ ~raced[m] => Fits(logged[m], o.event, o.next.openedAt)

\* Only a tick sees the certificate.
Ticks == {"tick", "cancelled"}

OnlyTicks(k, o) ==
    k \notin Ticks => /\ o.pc \notin {"ssl", "sslDispatch"}
                      /\ o.pc = "push" => o.then = Idle

\* A writer that still has the certificate before it, and what it will write: it
\* carries that through the whole uptime side.
CertAhead(o) == o.pc \in {"decided", "dispatch", "posted", "ssl"} \/ (o.pc = "push" /\ o.then # Idle)

Cert(o) == IF o.pc = "push" THEN o.then.ssl ELSE o.ssl

CertOK(k, m, o) ==
    k \in Ticks /\ CertAhead(o) /\ ~raced[m] => CertFits(sslLogged[m], Cert(o))

WriterOK(k, m, o) == UptimeOK(m, o) /\ OnlyTicks(k, o) /\ CertOK(k, m, o)

WritersOK == \A k \in Kinds, m \in Monitors : WriterOK(k, m, op[k][m])

IInv == Types /\ RowsFollowLog /\ WritersOK /\ EventsAlternate

-----------------------------------------------------------------------------
(* The state machines, as a writer uses them *)

RawState == [status : A!Status, openedAt : Int, remindedAt : Int]

RawSSL == [status : S!SSLStatus, openedAt : Int, remindedAt : Int]

LEMMA ResumeIs ==
    ASSUME NEW r \in RowType, Coherent(r)
    PROVE  /\ A!Resume(r) \in RowType /\ Coherent(A!Resume(r))
           /\ A!Resume(r).openedAt = r.openedAt
           /\ A!Resume(r).status \in {"up", "down"}
  BY DEF RowType, Coherent, A!Resume, A!Status, A!NoTime

LEMMA StateIs ==
    ASSUME NEW r \in RowType
    PROVE  /\ A!State(r) \in RawState
           /\ A!State(r).status = r.status /\ A!State(r).openedAt = r.openedAt
  BY DEF RowType, RawState, A!State, Stored, A!NoTime

LEMMA NormIs ==
    ASSUME NEW st \in RawState
    PROVE  /\ Norm(st) \in StateType
           /\ Norm(st).status = st.status
           /\ Norm(st).openedAt = A!NoTime <=> st.openedAt = A!NoTime
  <1> DEFINE o == IF st.openedAt = A!NoTime THEN A!NoTime ELSE 0
             mid == [st EXCEPT !.openedAt = o]
             e == IF mid.remindedAt = A!NoTime THEN A!NoTime ELSE 0
  <1>1. o \in Stored /\ e \in Stored /\ (o = A!NoTime <=> st.openedAt = A!NoTime)
    BY DEF Stored, A!NoTime
  <1>2. Norm(st) = [mid EXCEPT !.remindedAt = e]
    BY DEF Norm
  <1> HIDE DEF o, e
  <1>3. /\ mid \in [status : A!Status, openedAt : Stored, remindedAt : Int]
        /\ mid.status = st.status /\ mid.openedAt = o
    BY <1>1 DEF RawState
  <1> HIDE DEF mid
  <1> QED  BY <1>1, <1>2, <1>3 DEF StateType

LEMMA NormSSLIs ==
    ASSUME NEW st \in RawSSL
    PROVE  Norm(st) \in SSLState /\ Norm(st).status = st.status
  <1> DEFINE o == IF st.openedAt = A!NoTime THEN A!NoTime ELSE 0
             mid == [st EXCEPT !.openedAt = o]
             e == IF mid.remindedAt = A!NoTime THEN A!NoTime ELSE 0
  <1>1. o \in Stored /\ e \in Stored
    BY DEF Stored, A!NoTime
  <1>2. Norm(st) = [mid EXCEPT !.remindedAt = e]
    BY DEF Norm
  <1> HIDE DEF o, e
  <1>3. /\ mid \in [status : S!SSLStatus, openedAt : Stored, remindedAt : Int]
        /\ mid.status = st.status
    BY <1>1 DEF RawSSL
  <1> HIDE DEF mid
  <1> QED  BY <1>1, <1>2, <1>3 DEF SSLState

(* What Apply makes of a state that is up or down. *)
LEMMA ApplyIs ==
    ASSUME NEW st \in RawState, Coherent(st), st.status \in {"up", "down"},
           NEW ok \in BOOLEAN, NEW at \in Elapsed, NEW i
    PROVE  LET a == A!Apply(st, ok, at, i)
           IN  /\ a.event \in A!EventType /\ a.next \in RawState /\ Coherent(a.next)
               /\ a.event = "open" => st.openedAt = A!NoTime /\ a.next.openedAt # A!NoTime
               /\ a.event = "resolve" => st.openedAt # A!NoTime /\ a.next.openedAt = A!NoTime
               /\ a.event = "reminder" => st.openedAt # A!NoTime /\ a.next.openedAt # A!NoTime
               /\ a.event = "none" => a.next.openedAt = st.openedAt
  <1> DEFINE a == A!Apply(st, ok, at, i)
             opened == [status |-> "down", openedAt |-> at, remindedAt |-> at]
             closed == [status |-> "up", openedAt |-> A!NoTime, remindedAt |-> A!NoTime]
             reminded == [st EXCEPT !.remindedAt = at]
  <1>1. \/ a = [event |-> "open", next |-> opened] /\ st.status = "up"
        \/ a = [event |-> "resolve", next |-> closed] /\ st.status = "down"
        \/ a = [event |-> "reminder", next |-> reminded] /\ st.status = "down"
        \/ a = [event |-> "none", next |-> st]
    BY DEF A!Apply
  <1>2. /\ opened \in RawState /\ Coherent(opened) /\ opened.openedAt # A!NoTime
        /\ closed \in RawState /\ Coherent(closed) /\ closed.openedAt = A!NoTime
    BY DEF RawState, Coherent, Elapsed, A!NoTime, A!Status
  <1>3. /\ reminded \in RawState /\ reminded.openedAt = st.openedAt
        /\ reminded.status = st.status
    BY DEF RawState, Elapsed
  <1>4. /\ st.status = "up" => st.openedAt = A!NoTime
        /\ st.status = "down" => st.openedAt # A!NoTime
    BY DEF Coherent
  <1>5. Coherent(reminded)
    BY <1>3, <1>4 DEF Coherent
  <1> HIDE DEF a, opened, closed, reminded
  <1> SUFFICES /\ a.event \in A!EventType /\ a.next \in RawState /\ Coherent(a.next)
               /\ a.event = "open" => st.openedAt = A!NoTime /\ a.next.openedAt # A!NoTime
               /\ a.event = "resolve" => st.openedAt # A!NoTime /\ a.next.openedAt = A!NoTime
               /\ a.event = "reminder" => st.openedAt # A!NoTime /\ a.next.openedAt # A!NoTime
               /\ a.event = "none" => a.next.openedAt = st.openedAt
    BY DEF a
  <1> USE DEF A!EventType
  <1>6. CASE a = [event |-> "open", next |-> opened] /\ st.status = "up"
    BY <1>2, <1>4, <1>6
  <1>7. CASE a = [event |-> "resolve", next |-> closed] /\ st.status = "down"
    BY <1>2, <1>4, <1>7
  <1>8. CASE a = [event |-> "reminder", next |-> reminded] /\ st.status = "down"
    BY <1>3, <1>4, <1>5, <1>8
  <1>9. CASE a = [event |-> "none", next |-> st]
    BY <1>9
  <1> QED  BY <1>1, <1>6, <1>7, <1>8, <1>9

(* The decision of a writer about the uptime: the event fits the incident the row is in. *)
LEMMA DecideFits ==
    ASSUME NEW r \in RowType, Coherent(r), NEW ok \in BOOLEAN, NEW at \in Elapsed
    PROVE  LET d == Decide(r, ok, at)
           IN /\ d.event \in A!EventType
              /\ Norm(d.next) \in StateType
              /\ Coherent(Norm(d.next))
              /\ \A open \in BOOLEAN :
                    (open <=> r.openedAt # A!NoTime) => Fits(open, d.event, Norm(d.next).openedAt)
  <1> DEFINE st == A!State(A!Resume(r))
             a == A!Apply(st, ok, at, ReminderInterval)
  <1>1. /\ st \in RawState /\ Coherent(st) /\ st.status \in {"up", "down"}
        /\ st.openedAt = r.openedAt
    BY ResumeIs, StateIs DEF Coherent
  <1> HIDE DEF st
  <1>2. /\ a.event \in A!EventType /\ a.next \in RawState /\ Coherent(a.next)
        /\ a.event = "open" => st.openedAt = A!NoTime /\ a.next.openedAt # A!NoTime
        /\ a.event = "resolve" => st.openedAt # A!NoTime /\ a.next.openedAt = A!NoTime
        /\ a.event = "reminder" => st.openedAt # A!NoTime /\ a.next.openedAt # A!NoTime
        /\ a.event = "none" => a.next.openedAt = st.openedAt
    BY <1>1, ApplyIs
  <1>3. Decide(r, ok, at) = a
    BY DEF Decide, st
  <1> HIDE DEF a
  <1>4. /\ Norm(a.next) \in StateType /\ Norm(a.next).status = a.next.status
        /\ Norm(a.next).openedAt = A!NoTime <=> a.next.openedAt = A!NoTime
    BY <1>2, NormIs
  <1>5. Coherent(Norm(a.next))
    BY <1>2, <1>4 DEF Coherent
  <1>6. ASSUME NEW open \in BOOLEAN, open <=> r.openedAt # A!NoTime
        PROVE  Fits(open, a.event, Norm(a.next).openedAt)
    BY <1>1, <1>2, <1>4, <1>6 DEF Fits, InOrder, Entry, A!EventType
  <1> QED  BY <1>2, <1>3, <1>4, <1>5, <1>6

(* What ApplySSL makes of the certificate columns. *)
LEMMA ApplySSLIs ==
    ASSUME NEW prev \in RawSSL, NEW c, NEW at \in Elapsed, c.at = at
    PROVE  LET s == S!ApplySSL(prev, c)
           IN  /\ s.event \in SSLEvent /\ s.next \in RawSSL
               /\ ~c.tlsBearing => s.event = "none" /\ s.next.status = "ssl-skipped"
               /\ c.tlsBearing =>
                     (Entry(prev.status = "ssl-expiring", s.event, {"ssl_open", "ssl_reminder"})
                        <=> s.next.status = "ssl-expiring")
  <1> DEFINE s == S!ApplySSL(prev, c)
             opened == [status |-> "ssl-expiring", openedAt |-> at, remindedAt |-> at]
             reminded == [prev EXCEPT !.remindedAt = at]
  <1>1. \/ s = [next |-> S!Plain("ssl-skipped"), event |-> "none"] /\ ~c.tlsBearing
        \/ s = [next |-> prev, event |-> "none"] /\ c.tlsBearing
        \/ s = [next |-> opened, event |-> "ssl_open"] /\ c.tlsBearing
        \/ s = [next |-> S!Plain("ok"), event |-> "none"] /\ c.tlsBearing
              /\ prev.status # "ssl-expiring"
        \/ s = [next |-> S!Plain("ok"), event |-> "ssl_resolve"] /\ c.tlsBearing
        \/ s = [next |-> reminded, event |-> "ssl_reminder"] /\ c.tlsBearing
              /\ prev.status = "ssl-expiring"
    BY DEF S!ApplySSL
  <1>2. ASSUME NEW status \in S!SSLStatus
        PROVE  S!Plain(status) \in RawSSL /\ S!Plain(status).status = status
    BY DEF S!Plain, RawSSL, S!NoTime
  <1>3. {"ok", "ssl-skipped", "ssl-expiring"} \subseteq S!SSLStatus
    BY DEF S!SSLStatus
  <1>4. opened \in RawSSL /\ opened.status = "ssl-expiring"
    BY <1>3 DEF RawSSL, Elapsed
  <1>5. reminded \in RawSSL /\ reminded.status = prev.status
    BY DEF RawSSL, Elapsed
  <1>6. /\ S!Plain("ok") \in RawSSL /\ S!Plain("ok").status = "ok"
        /\ S!Plain("ssl-skipped") \in RawSSL /\ S!Plain("ssl-skipped").status = "ssl-skipped"
    BY <1>2, <1>3
  <1> HIDE DEF s, opened, reminded
  <1> SUFFICES /\ s.event \in SSLEvent /\ s.next \in RawSSL
               /\ ~c.tlsBearing => s.event = "none" /\ s.next.status = "ssl-skipped"
               /\ c.tlsBearing =>
                     (Entry(prev.status = "ssl-expiring", s.event, {"ssl_open", "ssl_reminder"})
                        <=> s.next.status = "ssl-expiring")
    BY DEF s
  <1> USE DEF SSLEvent, Entry
  <1>7. CASE s = [next |-> S!Plain("ssl-skipped"), event |-> "none"] /\ ~c.tlsBearing
    BY <1>6, <1>7
  <1>8. CASE s = [next |-> prev, event |-> "none"] /\ c.tlsBearing
    BY <1>8
  <1>9. CASE s = [next |-> opened, event |-> "ssl_open"] /\ c.tlsBearing
    BY <1>4, <1>9
  <1>10. CASE s = [next |-> S!Plain("ok"), event |-> "none"] /\ c.tlsBearing
              /\ prev.status # "ssl-expiring"
    BY <1>6, <1>10
  <1>11. CASE s = [next |-> S!Plain("ok"), event |-> "ssl_resolve"] /\ c.tlsBearing
    BY <1>6, <1>11
  <1>12. CASE s = [next |-> reminded, event |-> "ssl_reminder"] /\ c.tlsBearing
              /\ prev.status = "ssl-expiring"
    BY <1>5, <1>12
  <1> QED  BY <1>1, <1>7, <1>8, <1>9, <1>10, <1>11, <1>12

(* The decision of a writer about the certificate. *)
LEMMA SSLFits ==
    ASSUME Types, NEW m \in Monitors, NEW r \in SSLRow, NEW res, NEW at \in Elapsed
    PROVE  LET s == S!ApplySSL(S!SSLOf(r), SSLCheck(m, res, at))
           IN /\ s.event \in SSLEvent
              /\ Norm(s.next) \in SSLState
              /\ \A open \in BOOLEAN : \A d :
                    /\ open <=> r.status = "ssl-expiring"
                    /\ d.event = s.event /\ d.next = Norm(s.next)
                    => CertFits(open, d)
  <1> DEFINE prev == S!SSLOf(r)
             c == SSLCheck(m, res, at)
             s == S!ApplySSL(prev, c)
  <1>1. prev \in RawSSL /\ prev.status = r.status
    BY DEF SSLRow, RawSSL, S!SSLOf, Stored, A!NoTime
  <1>2. c.at = at /\ (c.tlsBearing <=> tls[m])
    BY DEF SSLCheck
  <1> HIDE DEF prev, c
  <1>3. /\ s.event \in SSLEvent /\ s.next \in RawSSL
        /\ ~c.tlsBearing => s.event = "none" /\ s.next.status = "ssl-skipped"
        /\ c.tlsBearing =>
              (Entry(prev.status = "ssl-expiring", s.event, {"ssl_open", "ssl_reminder"})
                 <=> s.next.status = "ssl-expiring")
    BY <1>1, <1>2, ApplySSLIs
  <1> HIDE DEF s
  <1>4. Norm(s.next) \in SSLState /\ Norm(s.next).status = s.next.status
    BY <1>3, NormSSLIs
  <1>5. ASSUME NEW open \in BOOLEAN, NEW d, open <=> r.status = "ssl-expiring",
               d.event = s.event, d.next = Norm(s.next)
        PROVE  CertFits(open, d)
    BY <1>1, <1>2, <1>3, <1>4, <1>5 DEF Entry, CertEntry, CertFits
  <1> QED  BY <1>3, <1>4, <1>5 DEF s, prev, c

-----------------------------------------------------------------------------
(* Writers *)

LEMMA DecidedIs ==
    ASSUME Types, RowsFollowLog, NEW k \in Kinds, NEW m \in Monitors,
           NEW res, res.ok \in BOOLEAN, NEW at \in Elapsed
    PROVE  Decided(m, res, at) \in Deciding /\ WriterOK(k, m, Decided(m, res, at))
  <1> DEFINE d == Decide(row[m], res.ok, at)
             c == SSLCheck(m, res, at)
             s == S!ApplySSL(S!SSLOf(ssl[m]), c)
             cert == [event |-> s.event, next |-> Norm(s.next),
                      expiresAt |-> IF c.expiresAt = S!NoTime THEN S!NoTime ELSE 0]
             o == [pc |-> "decided", event |-> d.event, next |-> Norm(d.next),
                   ref |-> row[m].thread, ssl |-> cert, sslRef |-> ssl[m].thread]
  <1>1. Decided(m, res, at) = o
    BY DEF Decided
  <1>2. row[m] \in RowType /\ ssl[m] \in SSLRow /\ logged[m] \in BOOLEAN /\ sslLogged[m] \in BOOLEAN
    BY DEF Types
  <1>3. row[m].thread \in {0, 1} /\ ssl[m].thread \in {0, 1}
    BY <1>2 DEF RowType, SSLRow
  <1>4. /\ d.event \in A!EventType /\ Norm(d.next) \in StateType /\ Coherent(Norm(d.next))
        /\ ~raced[m] => Fits(logged[m], d.event, Norm(d.next).openedAt)
    BY <1>2, DecideFits DEF RowsFollowLog
  <1>5. /\ s.event \in SSLEvent /\ Norm(s.next) \in SSLState
        /\ ~raced[m] => \A d2 : d2.event = s.event /\ d2.next = Norm(s.next)
                                   => CertFits(sslLogged[m], d2)
    BY <1>2, SSLFits DEF RowsFollowLog
  <1>6. (IF c.expiresAt = S!NoTime THEN S!NoTime ELSE 0) \in Stored
    BY DEF Stored, S!NoTime, A!NoTime
  <1> HIDE DEF d, c, s
  <1>7. cert \in SSLDecision /\ cert.event = s.event /\ cert.next = Norm(s.next)
    BY <1>5, <1>6 DEF SSLDecision
  <1> HIDE DEF cert
  <1>8. /\ o \in Deciding /\ o.pc = "decided" /\ o.event = d.event /\ o.next = Norm(d.next)
        /\ o.ssl = cert
    BY <1>3, <1>4, <1>7 DEF Deciding
  <1> HIDE DEF o
  <1>9. UptimeOK(m, o)
    BY <1>4, <1>8 DEF UptimeOK
  <1>10. OnlyTicks(k, o)
    BY <1>8 DEF OnlyTicks
  <1>11. CertOK(k, m, o)
    BY <1>5, <1>7, <1>8 DEF CertOK, Cert
  <1> QED  BY <1>1, <1>8, <1>9, <1>10, <1>11 DEF WriterOK

(* A writer that has not read its row, or has nothing more to write. *)
LEMMA HarmlessIs ==
    ASSUME NEW k \in Kinds, NEW m \in Monitors, NEW o, NEW pc,
           o.pc = pc, pc \in {"idle", "gated", "gate", "probing"}
    PROVE  WriterOK(k, m, o)
  BY DEF WriterOK, UptimeOK, OnlyTicks, CertOK, CertAhead

LEMMA IdleIs == Idle \in OpType /\ Idle \in Waiting /\ Idle.pc = "idle"
  BY DEF Idle, OpType, Waiting

LEMMA GateIs ==
    ASSUME NEW todo \in SUBSET Monitors
    PROVE  Gate(todo) \in OpType /\ Gate(todo).pc \in {"gate", "probing"}
  <1>1. [pc |-> "probing", tries |-> 0] \in Probing /\ [pc |-> "gate", todo |-> todo] \in Gating
    BY DEF Probing, Gating
  <1> QED  BY <1>1 DEF Gate, OpType

(* What is left of a writer once the uptime side is written: nothing of it, and the *)
(* certificate as it was decided.                                                   *)
LEMMA RestIs ==
    ASSUME NEW k \in Kinds, NEW m \in Monitors, NEW o \in Deciding, CertOK(k, m, o)
    PROVE  Rest(k, m, o) \in OpType /\ WriterOK(k, m, Rest(k, m, o))
           /\ Rest(k, m, o).pc # "decided"
  <1> DEFINE left_ == [pc |-> "ssl", ssl |-> o.ssl, sslRef |-> o.sslRef]
             end == IF k = "tick" THEN left_ ELSE Idle
             push == [pc |-> "push", todo |-> Children(m), then |-> end]
  <1>1. left_ \in CertLeft /\ left_.pc = "ssl" /\ left_.ssl = o.ssl
    BY DEF CertLeft, Deciding
  <1>2. CertAhead(o) /\ Cert(o) = o.ssl
    BY DEF CertAhead, Cert, Deciding
  <1>3. Rest(k, m, o) = IF o.event = "open" /\ Children(m) # {} THEN push ELSE end
    BY DEF Rest
  <1>4. left_ # Idle /\ left_.pc # Idle.pc
    BY <1>1, IdleIs
  <1> HIDE DEF left_
  <1>5. end \in {Idle} \cup CertLeft /\ end \in OpType /\ end.pc # "decided"
    BY <1>1, IdleIs DEF OpType
  <1>6. WriterOK(k, m, end)
    <2>1. CASE k = "tick"
      BY <1>1, <1>2, <2>1 DEF WriterOK, UptimeOK, OnlyTicks, Ticks, CertOK, Cert
    <2>2. CASE k # "tick"
      BY <2>2, IdleIs, HarmlessIs
    <2> QED  BY <2>1, <2>2
  <1>7. /\ push \in Pushing /\ push.pc = "push" /\ push.then = end
    BY <1>5 DEF Pushing, Children
  <1>8. end # Idle => k = "tick" /\ end.ssl = o.ssl
    BY <1>1
  <1> HIDE DEF end, push
  <1>9. WriterOK(k, m, push)
    <2>1. UptimeOK(m, push) /\ OnlyTicks(k, push)
      BY <1>7, <1>8 DEF UptimeOK, OnlyTicks, Ticks
    <2>2. CertOK(k, m, push)
      BY <1>2, <1>7, <1>8 DEF CertOK, CertAhead, Cert
    <2> QED  BY <2>1, <2>2 DEF WriterOK
  <1> QED  BY <1>3, <1>5, <1>6, <1>7, <1>9 DEF OpType

LEMMA AfterIs ==
    ASSUME NEW k \in Kinds, NEW m \in Monitors, NEW o \in OpType, WriterOK(k, m, o)
    PROVE  /\ After(k, o) \in OpType /\ WriterOK(k, m, After(k, o))
           /\ o.pc # "decided" => After(k, o).pc # "decided"
  BY IdleIs, HarmlessIs DEF After

(* The same decision at a later step of its announcement. *)
LEMMA StillAhead ==
    ASSUME NEW k \in Kinds, NEW m \in Monitors, NEW o \in Deciding, CertOK(k, m, o),
           NEW pc \in {"dispatch", "posted"}
    PROVE  /\ [o EXCEPT !.pc = pc] \in OpType /\ WriterOK(k, m, [o EXCEPT !.pc = pc])
           /\ [o EXCEPT !.pc = pc].pc = pc
  <1> DEFINE n == [o EXCEPT !.pc = pc]
  <1>1. n \in Deciding /\ n.pc = pc /\ n.ssl = o.ssl
    BY DEF Deciding
  <1>2. CertAhead(o) /\ Cert(o) = o.ssl
    BY DEF CertAhead, Cert, Deciding
  <1> HIDE DEF n
  <1>3. UptimeOK(m, n) /\ OnlyTicks(k, n)
    BY <1>1 DEF UptimeOK, OnlyTicks
  <1>4. CertOK(k, m, n)
    BY <1>1, <1>2 DEF CertOK, Cert
  <1> QED  BY <1>1, <1>3, <1>4 DEF n, WriterOK, OpType

-----------------------------------------------------------------------------
(* Steps of one writer *)

LEMMA GotoIs ==
    ASSUME op \in [Kinds -> [Monitors -> OpType]], NEW k \in Kinds, NEW m \in Monitors,
           NEW o \in OpType, Goto(k, m, o)
    PROVE  /\ op' \in [Kinds -> [Monitors -> OpType]]
           /\ op'[k][m] = o
           /\ \A k2 \in Kinds, m2 \in Monitors :
                 k2 # k \/ m2 # m => op'[k2][m2] = op[k2][m2]
  BY DEF Goto

LEMMA OpTyped ==
    ASSUME Types, NEW k \in Kinds, NEW m \in Monitors
    PROVE  op[k][m] \in OpType
  BY DEF Types

(* A step that says nothing of the incidents of any row. *)
LEMMA QuietStep ==
    ASSUME IInv, NEW k \in Kinds, NEW m \in Monitors, NEW o \in OpType,
           WriterOK(k, m, o), Goto(k, m, o),
           row' \in [Monitors -> RowType],
           \A n \in Monitors : Coherent(row'[n]) /\ row'[n].openedAt = row[n].openedAt,
           ssl' \in [Monitors -> SSLRow],
           \A n \in Monitors : ssl'[n].status = ssl[n].status,
           held' \subseteq Monitors, tls' \in [Monitors -> BOOLEAN],
           UNCHANGED <<logged, sslLogged, odd, raced>>
    PROVE  IInv'
  <1>1. Types /\ RowsFollowLog /\ WritersOK /\ EventsAlternate
    BY DEF IInv
  <1>2. /\ op' \in [Kinds -> [Monitors -> OpType]]
        /\ op'[k][m] = o
        /\ \A k2 \in Kinds, m2 \in Monitors :
              k2 # k \/ m2 # m => op'[k2][m2] = op[k2][m2]
    BY <1>1, GotoIs DEF Types
  <1>3. Types'
    BY <1>1, <1>2 DEF Types
  <1>4. RowsFollowLog'
    BY <1>1 DEF RowsFollowLog
  <1>5. ASSUME NEW k2 \in Kinds, NEW m2 \in Monitors
        PROVE  WriterOK(k2, m2, op[k2][m2])'
    <2>1. WriterOK(k2, m2, op'[k2][m2])
      <3>1. CASE k2 = k /\ m2 = m
        BY <1>2, <3>1
      <3>2. CASE k2 # k \/ m2 # m
        BY <1>1, <1>2, <3>2 DEF WritersOK
      <3> QED  BY <3>1, <3>2
    <2> QED  BY <2>1 DEF WriterOK, UptimeOK, OnlyTicks, CertOK, CertAhead, Cert
  <1>6. WritersOK'
    BY <1>5 DEF WritersOK
  <1> QED  BY <1>1, <1>3, <1>4, <1>6 DEF IInv, EventsAlternate

(* The same, when the tables are left alone. *)
LEMMA OpStep ==
    ASSUME IInv, NEW k \in Kinds, NEW m \in Monitors, NEW o \in OpType,
           WriterOK(k, m, o), Goto(k, m, o), held' \subseteq Monitors,
           tls' \in [Monitors -> BOOLEAN],
           UNCHANGED <<row, ssl, logged, sslLogged, odd, raced>>
    PROVE  IInv'
  <1>1. /\ row' \in [Monitors -> RowType] /\ ssl' \in [Monitors -> SSLRow]
        /\ \A n \in Monitors : /\ Coherent(row'[n]) /\ row'[n].openedAt = row[n].openedAt
                               /\ ssl'[n].status = ssl[n].status
    BY DEF IInv, Types, RowsFollowLog
  <1> QED  BY <1>1, QuietStep

(* A pause hides the status and keeps the incident. *)
LEMMA PauseIs ==
    ASSUME IInv, NEW c \in Monitors,
           \/ row' = [row EXCEPT ![c] = A!MarkTemporaryPaused(@)]
           \/ UNCHANGED row
    PROVE  /\ row' \in [Monitors -> RowType]
           /\ \A n \in Monitors : Coherent(row'[n]) /\ row'[n].openedAt = row[n].openedAt
  <1> DEFINE r == A!MarkTemporaryPaused(row[c])
  <1>1. row \in [Monitors -> RowType] /\ \A n \in Monitors : Coherent(row[n])
    BY DEF IInv, Types, RowsFollowLog
  <1>2. r \in RowType /\ r.openedAt = row[c].openedAt /\ r.status = "temporary-paused"
    BY <1>1 DEF A!MarkTemporaryPaused, RowType, A!Status
  <1>3. Coherent(r)
    BY <1>2 DEF Coherent
  <1>4. CASE UNCHANGED row
    BY <1>1, <1>4
  <1>5. CASE row' = [row EXCEPT ![c] = A!MarkTemporaryPaused(@)]
    <2>1. row' = [row EXCEPT ![c] = r]
      BY <1>5
    <2> HIDE DEF r
    <2> QED  BY <1>1, <1>2, <1>3, <2>1
  <1> QED  BY <1>4, <1>5

LEMMA Kept == IInv => held \subseteq Monitors /\ tls \in [Monitors -> BOOLEAN]
  BY DEF IInv, Types

LEMMA WriterIs ==
    ASSUME IInv, NEW k \in Kinds, NEW m \in Monitors
    PROVE  /\ op[k][m] \in OpType /\ WriterOK(k, m, op[k][m])
           /\ op[k][m].pc \in {"decided", "dispatch", "posted"} => op[k][m] \in Deciding
           /\ op[k][m].pc = "push" => op[k][m] \in Pushing
           /\ op[k][m].pc = "ssl" => op[k][m] \in CertLeft
           /\ op[k][m].pc = "sslDispatch" => op[k][m] \in SSLTelling
           /\ op[k][m].pc = "gate" => op[k][m] \in Gating
           /\ op[k][m].pc = "probing" => op[k][m] \in Probing
  BY DEF IInv, Types, WritersOK, OpType, Waiting, Gating, Probing, Deciding, CertLeft, Pushing,
         SSLTelling

-----------------------------------------------------------------------------
(* Up to the decision *)

LEMMA ReadParentKeeps == ASSUME IInv, NEW m \in Monitors, ReadParent(m) PROVE IInv'
  <1>1. PICK todo \in SUBSET Monitors, p \in Monitors :
          \/ Goto("tick", m, IF row[p].status = "down" THEN [pc |-> "gated"] ELSE Gate(todo \ {p}))
          \/ Goto("tick", m, Gate(todo \ {p}))
    <2> DEFINE o == op["tick"][m]
               todo == IF o = Idle THEN DependsOn[m] ELSE o.todo
    <2>1. todo \in SUBSET Monitors
      <3>1. CASE o = Idle
        BY <3>1, SchedulerAssumption
      <3>2. CASE o # Idle
        <4>1. o \in OpType /\ (o.pc = "gate" => o \in Gating)
          BY WriterIs DEF Kinds
        <4>2. o.pc \in {"idle", "gate"}
          BY DEF ReadParent
        <4>3. o.pc # "idle"
          BY <3>2, <4>1 DEF OpType, Waiting, Gating, Probing, Deciding, CertLeft, Pushing,
                            SSLTelling, Idle
        <4> QED  BY <3>2, <4>1, <4>2, <4>3 DEF Gating
      <3> QED  BY <3>1, <3>2
    <2>2. \E p \in todo :
             \/ Goto("tick", m, IF row[p].status = "down" THEN [pc |-> "gated"] ELSE Gate(todo \ {p}))
             \/ Goto("tick", m, Gate(todo \ {p}))
      BY DEF ReadParent
    <2> HIDE DEF todo
    <2> QED  BY <2>1, <2>2
  <1>2. /\ [pc |-> "gated"] \in OpType /\ WriterOK("tick", m, [pc |-> "gated"])
        /\ Gate(todo \ {p}) \in OpType /\ WriterOK("tick", m, Gate(todo \ {p}))
    BY GateIs, HarmlessIs DEF OpType, Waiting, Kinds
  <1>3. PICK o \in OpType : WriterOK("tick", m, o) /\ Goto("tick", m, o)
    BY <1>1, <1>2
  <1>4. UNCHANGED <<row, ssl, held, logged, sslLogged, tls, odd, raced>>
    BY DEF ReadParent
  <1> QED  BY <1>3, <1>4, Kept, OpStep DEF Kinds

LEMMA PauseSelfKeeps ==
    ASSUME IInv, NEW k \in Kinds, NEW m \in Monitors, PauseSelf(k, m)
    PROVE  IInv'
  <1>1. /\ Goto(k, m, Idle)
        /\ UNCHANGED <<ssl, held, logged, sslLogged, tls, odd, raced>>
        /\ \/ row' = [row EXCEPT ![m] = A!MarkTemporaryPaused(@)]
           \/ UNCHANGED row
    BY DEF PauseSelf
  <1>2. /\ row' \in [Monitors -> RowType]
        /\ \A n \in Monitors : Coherent(row'[n]) /\ row'[n].openedAt = row[n].openedAt
    BY <1>1, PauseIs
  <1>3. ssl' \in [Monitors -> SSLRow] /\ \A n \in Monitors : ssl'[n].status = ssl[n].status
    BY <1>1 DEF IInv, Types
  <1>4. Idle \in OpType /\ WriterOK(k, m, Idle)
    BY IdleIs, HarmlessIs
  <1> QED  BY <1>1, <1>2, <1>3, <1>4, Kept, QuietStep

LEMMA RetryKeeps == ASSUME IInv, NEW m \in Monitors, Retry(m) PROVE IInv'
  <1> DEFINE o == [pc |-> "probing", tries |-> Tries(m) + 1]
  <1>1. Tries(m) \in Nat
    <2>1. CASE op["tick"][m] = Idle
      BY <2>1 DEF Tries
    <2>2. CASE op["tick"][m] # Idle
      <3>1. op["tick"][m].pc = "probing"
        BY <2>2 DEF Retry, AtProbe
      <3>2. op["tick"][m] \in Probing
        BY <3>1, WriterIs DEF Kinds
      <3> QED  BY <2>2, <3>2 DEF Tries, Probing
    <2> QED  BY <2>1, <2>2
  <1>2. o \in OpType /\ o.pc = "probing"
    BY <1>1 DEF OpType, Probing
  <1>3. WriterOK("tick", m, o)
    BY <1>2, HarmlessIs DEF Kinds
  <1>4. Goto("tick", m, o) /\ UNCHANGED <<row, ssl, held, logged, sslLogged, tls, odd, raced>>
    BY DEF Retry
  <1> HIDE DEF o
  <1> QED  BY <1>2, <1>3, <1>4, Kept, OpStep DEF Kinds

(* A step that ends what the writer was doing. *)
LEMMA EndKeeps ==
    ASSUME IInv, NEW k \in Kinds, NEW m \in Monitors, Goto(k, m, Idle), held' \subseteq Monitors,
           UNCHANGED <<row, ssl, logged, sslLogged, tls, odd, raced>>
    PROVE  IInv'
  <1>1. Idle \in OpType /\ WriterOK(k, m, Idle)
    BY IdleIs, HarmlessIs
  <1> QED  BY <1>1, Kept, OpStep

LEMMA HoldBackKeeps == ASSUME IInv, NEW m \in Monitors, HoldBack(m) PROVE IInv'
  <1>1. /\ Goto("tick", m, Idle) /\ held' = held \cup {m}
        /\ UNCHANGED <<row, ssl, logged, sslLogged, tls, odd, raced>>
    BY DEF HoldBack
  <1> QED  BY <1>1, Kept, EndKeeps DEF Kinds

LEMMA DecidedStep ==
    ASSUME IInv, NEW k \in Kinds, NEW m \in Monitors, NEW res, res.ok \in BOOLEAN,
           NEW at \in Elapsed, Goto(k, m, Decided(m, res, at)), held' \subseteq Monitors,
           UNCHANGED <<row, ssl, logged, sslLogged, tls, odd, raced>>
    PROVE  IInv'
  <1>1. Decided(m, res, at) \in Deciding /\ WriterOK(k, m, Decided(m, res, at))
    BY DecidedIs DEF IInv
  <1> QED  BY <1>1, Kept, OpStep DEF OpType

LEMMA FailedIs == Failed.ok \in BOOLEAN
  BY DEF Failed

(* Every result of a probe says whether it succeeded. *)
LEMMA OutcomeIs == Types => \A m \in Monitors : \A r \in Outcomes(m) : r.ok \in BOOLEAN
  <1>1. ASSUME NEW certs, NEW w \in HTTPWorld(certs) PROVE HTTPCheck(w).ok \in BOOLEAN
    BY <1>1 DEF HTTPWorld, HTTPCheck, Result
  <1>2. ASSUME NEW certs, NEW mode, NEW w \in SMTPWorld(certs) PROVE SMTPRun(mode, w).ok \in BOOLEAN
    BY <1>2 DEF SMTPWorld, SMTPRun, Result
  <1>3. ASSUME NEW b \in BOOLEAN, NEW r \in Results[b] PROVE r.ok \in BOOLEAN
    BY <1>1, <1>2, <1>3 DEF Results, HTTPResults, SMTPResults, Seen
  <1>4. ASSUME Types, NEW m \in Monitors, NEW r \in Outcomes(m) PROVE r.ok \in BOOLEAN
    <2>1. tls[m] \in BOOLEAN /\ r \in Results[tls[m]]
      BY <1>4 DEF Outcomes, Types
    <2> QED  BY <1>3, <2>1
  <1> QED  BY <1>4

LEMMA CheckRowKeeps ==
    ASSUME IInv, NEW m \in Monitors, NEW at \in Elapsed, CheckRow(m, at)
    PROVE  IInv'
  <1>1. UNCHANGED <<row, ssl, held, logged, sslLogged, tls, odd, raced>>
    BY DEF CheckRow
  <1>2. PICK r \in Outcomes(m) : Goto("tick", m, Decided(m, r, at)) \/ Goto("tick", m, Idle)
    BY DEF CheckRow
  <1>3. r.ok \in BOOLEAN
    BY OutcomeIs DEF IInv
  <1>4. CASE Goto("tick", m, Decided(m, r, at))
    BY <1>1, <1>3, <1>4, Kept, DecidedStep DEF Kinds
  <1>5. CASE Goto("tick", m, Idle)
    BY <1>1, <1>5, Kept, EndKeeps DEF Kinds
  <1> QED  BY <1>2, <1>4, <1>5

LEMMA PushFrom ==
    ASSUME NEW k \in Kinds, NEW m \in Monitors, NEW todo \in SUBSET Monitors
    PROVE  /\ [pc |-> "push", todo |-> todo, then |-> Idle] \in OpType
           /\ WriterOK(k, m, [pc |-> "push", todo |-> todo, then |-> Idle])
  <1> DEFINE o == [pc |-> "push", todo |-> todo, then |-> Idle]
  <1>1. o \in Pushing /\ o.pc = "push" /\ o.then = Idle
    BY DEF Pushing
  <1> HIDE DEF o
  <1>2. WriterOK(k, m, o)
    BY <1>1 DEF WriterOK, UptimeOK, OnlyTicks, CertOK, CertAhead
  <1> QED  BY <1>1, <1>2 DEF o, OpType

LEMMA ProbeParentKeeps ==
    ASSUME IInv, NEW m \in Monitors, NEW at \in Elapsed, ProbeParent(m, at)
    PROVE  IInv'
  <1> DEFINE push == [pc |-> "push", todo |-> Children(m), then |-> Idle]
  <1>1. UNCHANGED <<row, ssl, held, logged, sslLogged, tls, odd, raced>>
    BY DEF ProbeParent
  <1>2. Goto("probe", m, Decided(m, Failed, at)) \/ Goto("probe", m, push)
    BY DEF ProbeParent
  <1>3. CASE Goto("probe", m, Decided(m, Failed, at))
    BY <1>1, <1>3, Kept, FailedIs, DecidedStep DEF Kinds
  <1>4. CASE Goto("probe", m, push)
    <2>1. push \in OpType /\ WriterOK("probe", m, push)
      BY PushFrom DEF Kinds, Children
    <2> QED  BY <1>1, <1>4, <2>1, Kept, OpStep DEF Kinds
  <1> QED  BY <1>2, <1>3, <1>4

LEMMA CommitHeldKeeps ==
    ASSUME IInv, NEW m \in Monitors, NEW at \in Elapsed, CommitHeld(m, at)
    PROVE  IInv'
  <1>1. /\ Goto("commit", m, Decided(m, Failed, at)) /\ held' = held \ {m}
        /\ UNCHANGED <<row, ssl, logged, sslLogged, tls, odd, raced>>
    BY DEF CommitHeld
  <1> QED  BY <1>1, Kept, FailedIs, DecidedStep DEF Kinds

LEMMA DropHeldKeeps == ASSUME IInv, NEW m \in Monitors, DropHeld(m) PROVE IInv'
  <1>1. /\ held' = held \ {m}
        /\ UNCHANGED <<row, ssl, op, logged, sslLogged, tls, odd, raced>>
    BY DEF DropHeld
  <1>2. Types'
    BY <1>1 DEF IInv, Types
  <1>3. RowsFollowLog' /\ EventsAlternate'
    BY <1>1 DEF IInv, RowsFollowLog, EventsAlternate
  <1>4. WritersOK'
    BY <1>1 DEF IInv, WritersOK, WriterOK, UptimeOK, OnlyTicks, CertOK, CertAhead, Cert
  <1> QED  BY <1>2, <1>3, <1>4 DEF IInv

-----------------------------------------------------------------------------
(* Writing and announcing *)

LEMMA AnnounceIs ==
    ASSUME NEW k \in Kinds, NEW m \in Monitors, NEW o \in Deciding, CertOK(k, m, o)
    PROVE  /\ Announce(k, m, o) \in OpType /\ WriterOK(k, m, Announce(k, m, o))
           /\ Announce(k, m, o).pc # "decided"
  <1>1. /\ [o EXCEPT !.pc = "dispatch"] \in OpType /\ WriterOK(k, m, [o EXCEPT !.pc = "dispatch"])
        /\ [o EXCEPT !.pc = "dispatch"].pc = "dispatch"
    BY StillAhead
  <1>2. Rest(k, m, o) \in OpType /\ WriterOK(k, m, Rest(k, m, o)) /\ Rest(k, m, o).pc # "decided"
    BY RestIs
  <1> QED  BY <1>1, <1>2 DEF Announce

LEMMA EntryIs ==
    ASSUME NEW open \in BOOLEAN, NEW event, NEW opening
    PROVE  Entry(open, event, opening) \in BOOLEAN
  <1>1. CASE event = "none"
    BY <1>1 DEF Entry
  <1>2. CASE event # "none"
    BY <1>2 DEF Entry
  <1> QED  BY <1>1, <1>2

(* The uptime side: either the write is a race, or the writer knew the row. *)
LEMMA ApplyCheckKeeps ==
    ASSUME IInv, NEW k \in Kinds, NEW m \in Monitors, ApplyCheck(k, m)
    PROVE  IInv'
  <1> DEFINE o == op[k][m]
             n == After(k, Announce(k, m, o))
             r == A!ApplyCheck(row[m], o.next, o.event)
  <1>1. Types /\ RowsFollowLog /\ WritersOK /\ EventsAlternate
    BY DEF IInv
  <1>2. /\ o.pc = "decided"
        /\ row' = [row EXCEPT ![m] = r]
        /\ logged' = [logged EXCEPT ![m] = Entry(logged[m], o.event, {"open", "reminder"})]
        /\ raced' = [raced EXCEPT ![m] = raced[m] \/ Raced(k, m)]
        /\ odd' = IF InOrder(logged[m], o.event) \/ raced'[m] THEN odd ELSE odd \cup {m}
        /\ Goto(k, m, n)
        /\ UNCHANGED <<ssl, held, tls, sslLogged>>
    BY DEF ApplyCheck
  <1>3. o \in Deciding /\ WriterOK(k, m, o)
    BY <1>2, WriterIs
  <1>4. n \in OpType /\ WriterOK(k, m, n) /\ n.pc # "decided"
    BY <1>3, AnnounceIs, AfterIs DEF WriterOK
  <1>5. /\ r \in RowType /\ r.openedAt = o.next.openedAt /\ Coherent(r)
    <2>1. o.next \in StateType /\ row[m] \in RowType /\ Coherent(o.next)
      BY <1>1, <1>2, <1>3 DEF Deciding, Types, WriterOK, UptimeOK
    <2>2. r \in RowType /\ r.openedAt = o.next.openedAt /\ r.status = o.next.status
      BY <2>1 DEF A!ApplyCheck, StateType, RowType
    <2> QED  BY <2>1, <2>2 DEF Coherent
  <1>6. Entry(logged[m], o.event, {"open", "reminder"}) \in BOOLEAN
    BY <1>1, EntryIs DEF Types
  <1>7. (raced[m] \/ Raced(k, m)) \in BOOLEAN
    OBVIOUS
  <1> HIDE DEF n, r
  <1>8. /\ op' \in [Kinds -> [Monitors -> OpType]]
        /\ op'[k][m] = n
        /\ \A k2 \in Kinds, m2 \in Monitors :
              k2 # k \/ m2 # m => op'[k2][m2] = op[k2][m2]
    BY <1>1, <1>2, <1>4, GotoIs DEF Types
  <1>9. /\ row' \in [Monitors -> RowType] /\ logged' \in [Monitors -> BOOLEAN]
        /\ tls' \in [Monitors -> BOOLEAN] /\ raced' \in [Monitors -> BOOLEAN]
    <2>1. row \in [Monitors -> RowType] /\ logged \in [Monitors -> BOOLEAN]
          /\ tls \in [Monitors -> BOOLEAN] /\ raced \in [Monitors -> BOOLEAN]
      BY <1>1 DEF Types
    <2>2. row' \in [Monitors -> RowType]
      BY <1>2, <1>5, <2>1
    <2>3. logged' \in [Monitors -> BOOLEAN]
      BY <1>2, <1>6, <2>1
    <2>4. tls' \in [Monitors -> BOOLEAN]
      BY <1>2, <2>1
    <2>5. raced' \in [Monitors -> BOOLEAN]
      BY <1>2, <1>7, <2>1
    <2> QED  BY <2>2, <2>3, <2>4, <2>5
  <1>10. /\ row'[m] = r /\ logged'[m] = Entry(logged[m], o.event, {"open", "reminder"})
         /\ raced'[m] <=> raced[m] \/ Raced(k, m)
         /\ \A m2 \in Monitors \ {m} : /\ row'[m2] = row[m2] /\ logged'[m2] = logged[m2]
                                        /\ raced'[m2] = raced[m2]
    BY <1>1, <1>2 DEF Types
  <1>11. Types'
    BY <1>1, <1>2, <1>8, <1>9 DEF Types
  <1>12. ~raced[m] => Fits(logged[m], o.event, o.next.openedAt)
    BY <1>2, <1>3 DEF WriterOK, UptimeOK
  <1>13. EventsAlternate'
    <2>1. InOrder(logged[m], o.event) \/ raced'[m]
      BY <1>10, <1>12 DEF Fits
    <2> QED  BY <1>1, <1>2, <2>1 DEF EventsAlternate
  <1>14. RowsFollowLog'
    <2> SUFFICES ASSUME NEW m2 \in Monitors
                 PROVE  /\ Coherent(row'[m2])
                        /\ ~raced'[m2] => /\ logged'[m2] <=> row'[m2].openedAt # A!NoTime
                                          /\ sslLogged'[m2] <=> ssl'[m2].status = "ssl-expiring"
      BY DEF RowsFollowLog
    <2>1. /\ Coherent(row[m2]) /\ ssl' = ssl /\ sslLogged' = sslLogged
          /\ ~raced[m2] => /\ logged[m2] <=> row[m2].openedAt # A!NoTime
                           /\ sslLogged[m2] <=> ssl[m2].status = "ssl-expiring"
      BY <1>1, <1>2 DEF RowsFollowLog
    <2>2. CASE m2 # m
      BY <1>10, <2>1, <2>2 DEF Coherent
    <2>3. CASE m2 = m
      <3>1. Coherent(row'[m2])
        BY <1>5, <1>10, <2>3 DEF Coherent
      <3>2. ~raced'[m] => (logged'[m] <=> row'[m].openedAt # A!NoTime)
        BY <1>5, <1>10, <1>12 DEF Fits
      <3>3. ~raced'[m] => ~raced[m]
        BY <1>10
      <3> QED  BY <2>1, <2>3, <3>1, <3>2, <3>3
    <2> QED  BY <2>2, <2>3
  <1>15. ASSUME NEW k2 \in Kinds, NEW m2 \in Monitors
         PROVE  WriterOK(k2, m2, op[k2][m2])'
    <2>1. WriterOK(k2, m2, op'[k2][m2])
      BY <1>1, <1>4, <1>8 DEF WritersOK
    <2>2. OnlyTicks(k2, op[k2][m2])'
      BY <2>1 DEF WriterOK, OnlyTicks
    <2>3. ~raced'[m2] => ~raced[m2]
      BY <1>10
    <2>4. CertOK(k2, m2, op[k2][m2])'
      BY <1>2, <2>1, <2>3 DEF WriterOK, CertOK, CertAhead, Cert
    <2>5. UptimeOK(m2, op[k2][m2])'
      <3>1. CASE m2 # m
        BY <1>10, <2>1, <3>1 DEF WriterOK, UptimeOK
      <3>2. CASE m2 = m /\ k2 = k
        BY <1>4, <1>8, <3>2 DEF UptimeOK
      <3>3. CASE m2 = m /\ k2 # k
        <4>1. op'[k2][m] = op[k2][m]
          BY <1>8, <3>3
        <4>2. op[k2][m].pc = "decided" => raced'[m]
          BY <1>10, <3>3 DEF Raced
        <4> QED  BY <2>1, <3>3, <4>1, <4>2 DEF WriterOK, UptimeOK
      <3> QED  BY <3>1, <3>2, <3>3
    <2> QED  BY <2>2, <2>4, <2>5 DEF WriterOK
  <1>16. WritersOK'
    BY <1>15 DEF WritersOK
  <1> QED  BY <1>11, <1>13, <1>14, <1>16 DEF IInv

LEMMA CheckFailsKeeps ==
    ASSUME IInv, NEW k \in Kinds, NEW m \in Monitors, CheckFails(k, m)
    PROVE  IInv'
  <1>1. /\ Goto(k, m, Idle)
        /\ UNCHANGED <<row, ssl, held, logged, sslLogged, tls, odd, raced>>
    BY DEF CheckFails
  <1> QED  BY <1>1, Kept, EndKeeps

LEMMA NotifyKeeps ==
    ASSUME IInv, NEW k \in Kinds, NEW m \in Monitors, Notify(k, m)
    PROVE  IInv'
  <1> DEFINE o == op[k][m]
             posted == [o EXCEPT !.pc = "posted"]
  <1>1. o.pc = "dispatch" /\ UNCHANGED <<row, ssl, held, tls, logged, sslLogged, odd, raced>>
    BY DEF Notify, Posted
  <1>2. o \in Deciding /\ WriterOK(k, m, o)
    BY <1>1, WriterIs
  <1>3. posted \in OpType /\ WriterOK(k, m, posted)
    BY <1>2, StillAhead DEF WriterOK
  <1>4. Rest(k, m, o) \in OpType /\ WriterOK(k, m, Rest(k, m, o))
    BY <1>2, RestIs DEF WriterOK
  <1>5. \/ Goto(k, m, After(k, posted)) \/ Goto(k, m, After(k, Rest(k, m, o)))
    BY DEF Notify, Posted
  <1> HIDE DEF posted
  <1>6. PICK n \in OpType : WriterOK(k, m, n) /\ Goto(k, m, n)
    BY <1>3, <1>4, <1>5, AfterIs
  <1> QED  BY <1>1, <1>6, Kept, OpStep

LEMMA StoreThreadKeeps ==
    ASSUME IInv, NEW k \in Kinds, NEW m \in Monitors, StoreThread(k, m)
    PROVE  IInv'
  <1> DEFINE o == op[k][m]
             n == After(k, Rest(k, m, o))
  <1>1. /\ o.pc = "posted" /\ Goto(k, m, n)
        /\ UNCHANGED <<ssl, held, logged, sslLogged, tls, odd, raced>>
        /\ row' = [row EXCEPT ![m].thread = 1] \/ UNCHANGED row
    BY DEF StoreThread
  <1>2. o \in Deciding /\ WriterOK(k, m, o)
    BY <1>1, WriterIs
  <1>3. n \in OpType /\ WriterOK(k, m, n)
    BY <1>2, RestIs, AfterIs DEF WriterOK
  <1> HIDE DEF n
  <1>4. /\ row' \in [Monitors -> RowType]
        /\ \A m2 \in Monitors : Coherent(row'[m2]) /\ row'[m2].openedAt = row[m2].openedAt
    <2>1. row \in [Monitors -> RowType] /\ \A m2 \in Monitors : Coherent(row[m2])
      BY DEF IInv, Types, RowsFollowLog
    <2>2. CASE UNCHANGED row
      BY <2>1, <2>2
    <2>3. CASE row' = [row EXCEPT ![m].thread = 1]
      <3> DEFINE r == [row[m] EXCEPT !.thread = 1]
      <3>1. r \in RowType /\ r.openedAt = row[m].openedAt /\ r.status = row[m].status
        BY <2>1 DEF RowType
      <3>2. row' = [row EXCEPT ![m] = r]
        BY <2>3
      <3>3. Coherent(r)
        BY <2>1, <3>1 DEF Coherent
      <3> HIDE DEF r
      <3> QED  BY <2>1, <3>1, <3>2, <3>3
    <2> QED  BY <1>1, <2>2, <2>3
  <1>5. ssl' \in [Monitors -> SSLRow] /\ \A m2 \in Monitors : ssl'[m2].status = ssl[m2].status
    BY <1>1 DEF IInv, Types
  <1> QED  BY <1>1, <1>3, <1>4, <1>5, Kept, QuietStep

LEMMA PushKeeps ==
    ASSUME IInv, NEW k \in Kinds, NEW m \in Monitors, Push(k, m)
    PROVE  IInv'
  <1> DEFINE o == op[k][m]
             fewer(c) == [o EXCEPT !.todo = @ \ {c}]
  <1>1. o.pc = "push" /\ UNCHANGED <<ssl, held, logged, sslLogged, tls, odd, raced>>
    BY DEF Push
  <1>2. PICK c \in o.todo :
          /\ Goto(k, m, After(k, IF o.todo = {c} THEN o.then ELSE fewer(c)))
          /\ \/ row' = [row EXCEPT ![c] = A!MarkTemporaryPaused(@)]
             \/ UNCHANGED row
    BY DEF Push
  <1>3. o \in Pushing /\ WriterOK(k, m, o)
    BY <1>1, WriterIs
  <1>4. c \in Monitors
    BY <1>3 DEF Pushing
  <1>5. o.then \in OpType /\ WriterOK(k, m, o.then)
    <2>1. CASE o.then = Idle
      BY <2>1, IdleIs, HarmlessIs
    <2>2. CASE o.then # Idle
      <3>1. o.then \in CertLeft /\ o.then.pc = "ssl"
        BY <1>3, <2>2 DEF Pushing, CertLeft
      <3>2. k \in Ticks
        BY <1>1, <1>3, <2>2 DEF WriterOK, OnlyTicks
      <3>3. UptimeOK(m, o.then) /\ OnlyTicks(k, o.then)
        BY <3>1, <3>2 DEF UptimeOK, OnlyTicks
      <3>4. CertOK(k, m, o.then)
        BY <1>1, <1>3, <2>2, <3>1, <3>2 DEF WriterOK, CertOK, CertAhead, Cert
      <3> QED  BY <3>1, <3>3, <3>4 DEF WriterOK, OpType
    <2> QED  BY <2>1, <2>2
  <1>6. fewer(c) \in OpType /\ WriterOK(k, m, fewer(c))
    <2>1. fewer(c) \in Pushing /\ fewer(c).pc = "push" /\ fewer(c).then = o.then
      BY <1>3 DEF Pushing
    <2> DEFINE n == fewer(c)
    <2> HIDE DEF n
    <2>2. UptimeOK(m, n) /\ OnlyTicks(k, n)
      BY <1>1, <1>3, <2>1 DEF n, WriterOK, UptimeOK, OnlyTicks
    <2>3. CertOK(k, m, n)
      BY <1>1, <1>3, <2>1 DEF n, WriterOK, CertOK, CertAhead, Cert
    <2> QED  BY <2>1, <2>2, <2>3 DEF n, WriterOK, OpType
  <1> HIDE DEF fewer
  <1>7. PICK n \in OpType : WriterOK(k, m, n) /\ Goto(k, m, n)
    BY <1>2, <1>5, <1>6, AfterIs
  <1>8. /\ row' \in [Monitors -> RowType]
        /\ \A m2 \in Monitors : Coherent(row'[m2]) /\ row'[m2].openedAt = row[m2].openedAt
    BY <1>2, <1>4, PauseIs
  <1>9. ssl' \in [Monitors -> SSLRow] /\ \A m2 \in Monitors : ssl'[m2].status = ssl[m2].status
    BY <1>1 DEF IInv, Types
  <1> QED  BY <1>1, <1>7, <1>8, <1>9, Kept, QuietStep

-----------------------------------------------------------------------------
(* The certificate *)

(* As for the uptime side: a race, or the tick knew the columns. *)
LEMMA ApplySSLCheckKeeps ==
    ASSUME IInv, NEW k \in Kinds, NEW m \in Monitors, ApplySSLCheck(k, m)
    PROVE  IInv'
  <1> DEFINE o == op[k][m]
             telling == [pc |-> "sslDispatch", event |-> o.ssl.event, ref |-> o.sslRef]
             n == After(k, IF o.ssl.event = "none" THEN Idle ELSE telling)
             r == S!ApplySSLCheck(ssl[m], o.ssl.next, o.ssl.expiresAt, o.ssl.event)
             entry == CertEntry(sslLogged[m], o.ssl)
  <1>1. Types /\ RowsFollowLog /\ WritersOK /\ EventsAlternate
    BY DEF IInv
  <1>2. o.pc = "ssl" /\ UNCHANGED <<row, held, logged, tls, odd>>
    BY DEF ApplySSLCheck
  <1>3. \/ /\ ssl' = [ssl EXCEPT ![m] = r]
           /\ sslLogged' = [sslLogged EXCEPT ![m] = entry]
           /\ raced' = [raced EXCEPT ![m] = raced[m] \/ SSLRaced(k, m)]
           /\ Goto(k, m, n)
        \/ Goto(k, m, Idle) /\ UNCHANGED <<ssl, sslLogged, raced>>
    BY DEF ApplySSLCheck
  <1>4. CASE Goto(k, m, Idle) /\ UNCHANGED <<ssl, sslLogged, raced>>
    BY <1>2, <1>4, Kept, EndKeeps
  <1>5. CASE /\ ssl' = [ssl EXCEPT ![m] = r]
             /\ sslLogged' = [sslLogged EXCEPT ![m] = entry]
             /\ raced' = [raced EXCEPT ![m] = raced[m] \/ SSLRaced(k, m)]
             /\ Goto(k, m, n)
    <2>1. o \in CertLeft /\ WriterOK(k, m, o) /\ k \in Ticks
      BY <1>2, WriterIs DEF WriterOK, OnlyTicks
    <2>2. o.ssl \in SSLDecision /\ o.sslRef \in {0, 1}
      BY <2>1 DEF CertLeft
    <2>3. n \in OpType /\ n.pc \in {"idle", "sslDispatch"} /\ WriterOK(k, m, n)
      <3>1. telling \in SSLTelling /\ telling.pc = "sslDispatch"
        BY <2>2 DEF SSLTelling, SSLDecision
      <3> HIDE DEF telling
      <3>2. n \in {Idle, telling}
        BY DEF After
      <3>3. WriterOK(k, m, telling)
        BY <2>1, <3>1 DEF WriterOK, UptimeOK, OnlyTicks, CertOK, CertAhead
      <3> QED  BY <3>1, <3>2, <3>3, IdleIs, HarmlessIs DEF OpType
    <2>4. r \in SSLRow /\ r.status = o.ssl.next.status
      <3>1. ssl[m] \in SSLRow /\ o.ssl.next \in SSLState /\ o.ssl.expiresAt \in Stored
        BY <1>1, <2>2 DEF Types, SSLDecision
      <3> QED  BY <3>1 DEF S!ApplySSLCheck, SSLState, SSLRow
    <2>5. entry \in BOOLEAN /\ (raced[m] \/ SSLRaced(k, m)) \in BOOLEAN
      BY <1>1, EntryIs DEF Types, CertEntry
    <2>6. ~raced[m] => (entry <=> r.status = "ssl-expiring")
      BY <1>2, <2>1, <2>4 DEF WriterOK, CertOK, CertAhead, Cert, CertFits
    <2> HIDE DEF n, r, entry
    <2>7. /\ op' \in [Kinds -> [Monitors -> OpType]]
          /\ op'[k][m] = n
          /\ \A k2 \in Kinds, m2 \in Monitors :
                k2 # k \/ m2 # m => op'[k2][m2] = op[k2][m2]
      BY <1>1, <1>5, <2>3, GotoIs DEF Types
    <2>8. /\ ssl' \in [Monitors -> SSLRow] /\ sslLogged' \in [Monitors -> BOOLEAN]
          /\ raced' \in [Monitors -> BOOLEAN]
      <3>1. /\ ssl \in [Monitors -> SSLRow] /\ sslLogged \in [Monitors -> BOOLEAN]
            /\ raced \in [Monitors -> BOOLEAN]
        BY <1>1 DEF Types
      <3>2. ssl' \in [Monitors -> SSLRow]
        BY <1>5, <2>4, <3>1
      <3>3. sslLogged' \in [Monitors -> BOOLEAN]
        BY <1>5, <2>5, <3>1
      <3>4. raced' \in [Monitors -> BOOLEAN]
        BY <1>5, <2>5, <3>1
      <3> QED  BY <3>2, <3>3, <3>4
    <2>9. /\ ssl'[m] = r /\ sslLogged'[m] = entry
          /\ raced'[m] <=> raced[m] \/ SSLRaced(k, m)
          /\ \A m2 \in Monitors \ {m} : /\ ssl'[m2] = ssl[m2] /\ sslLogged'[m2] = sslLogged[m2]
                                         /\ raced'[m2] = raced[m2]
      BY <1>1, <1>5 DEF Types
    <2>10. Types'
      BY <1>1, <1>2, <2>7, <2>8 DEF Types
    <2>11. EventsAlternate'
      BY <1>1, <1>2 DEF EventsAlternate
    <2>12. RowsFollowLog'
      <3> SUFFICES ASSUME NEW m2 \in Monitors
                   PROVE  /\ Coherent(row'[m2])
                          /\ ~raced'[m2] =>
                                /\ logged'[m2] <=> row'[m2].openedAt # A!NoTime
                                /\ sslLogged'[m2] <=> ssl'[m2].status = "ssl-expiring"
        BY DEF RowsFollowLog
      <3>1. /\ Coherent(row[m2]) /\ row' = row /\ logged' = logged
            /\ ~raced[m2] => /\ logged[m2] <=> row[m2].openedAt # A!NoTime
                             /\ sslLogged[m2] <=> ssl[m2].status = "ssl-expiring"
        BY <1>1, <1>2 DEF RowsFollowLog
      <3>2. CASE m2 # m
        BY <2>9, <3>1, <3>2
      <3>3. CASE m2 = m
        <4>1. ~raced'[m] => ~raced[m]
          BY <2>9
        <4> QED  BY <2>6, <2>9, <3>1, <3>3, <4>1
      <3> QED  BY <3>2, <3>3
    <2>13. ASSUME NEW k2 \in Kinds, NEW m2 \in Monitors
           PROVE  WriterOK(k2, m2, op[k2][m2])'
      <3>1. WriterOK(k2, m2, op'[k2][m2])
        BY <1>1, <2>3, <2>7 DEF WritersOK
      <3>2. ~raced'[m2] => ~raced[m2]
        BY <2>9
      <3>3. OnlyTicks(k2, op[k2][m2])'
        BY <3>1 DEF WriterOK, OnlyTicks
      <3>4. UptimeOK(m2, op[k2][m2])'
        BY <1>2, <3>1, <3>2 DEF WriterOK, UptimeOK
      <3>5. CertOK(k2, m2, op[k2][m2])'
        <4>1. CASE m2 # m
          BY <2>9, <3>1, <4>1 DEF WriterOK, CertOK, CertAhead, Cert
        <4>2. CASE m2 = m /\ k2 = k
          BY <2>3, <2>7, <4>2 DEF CertOK, CertAhead
        <4>3. CASE m2 = m /\ k2 # k
          <5>1. op'[k2][m] = op[k2][m]
            BY <2>7, <4>3
          <5>2. k2 \in Ticks /\ CertAhead(op[k2][m]) => raced'[m]
            BY <2>9, <4>3 DEF SSLRaced, CertAhead, Ticks
          <5> QED  BY <3>1, <4>3, <5>1, <5>2 DEF WriterOK, CertOK, CertAhead, Cert
        <4> QED  BY <4>1, <4>2, <4>3
      <3> QED  BY <3>3, <3>4, <3>5 DEF WriterOK
    <2>14. WritersOK'
      BY <2>13 DEF WritersOK
    <2> QED  BY <2>10, <2>11, <2>12, <2>14 DEF IInv
  <1> QED  BY <1>3, <1>4, <1>5

LEMMA NotifySSLKeeps ==
    ASSUME IInv, NEW k \in Kinds, NEW m \in Monitors, NotifySSL(k, m)
    PROVE  IInv'
  <1>1. /\ Goto(k, m, Idle)
        /\ UNCHANGED <<row, held, logged, sslLogged, tls, odd, raced>>
        /\ \/ ssl' = [ssl EXCEPT ![m].thread = 1]
           \/ ssl' = [ssl EXCEPT ![m].thread = ssl[m].thread]
           \/ UNCHANGED ssl
    BY DEF NotifySSL
  <1>2. ssl \in [Monitors -> SSLRow]
    BY DEF IInv, Types
  <1>3. ASSUME NEW t \in {0, 1}, ssl' = [ssl EXCEPT ![m].thread = t]
        PROVE  ssl' \in [Monitors -> SSLRow] /\ \A m2 \in Monitors : ssl'[m2].status = ssl[m2].status
    <2> DEFINE r == [ssl[m] EXCEPT !.thread = t]
    <2>1. r \in SSLRow /\ r.status = ssl[m].status
      BY <1>2 DEF SSLRow
    <2>2. ssl' = [ssl EXCEPT ![m] = r]
      BY <1>3
    <2> HIDE DEF r
    <2> QED  BY <1>2, <2>1, <2>2
  <1>4. ssl[m].thread \in {0, 1}
    BY <1>2 DEF SSLRow
  <1>5. ssl' \in [Monitors -> SSLRow] /\ \A m2 \in Monitors : ssl'[m2].status = ssl[m2].status
    BY <1>1, <1>2, <1>3, <1>4
  <1>6. /\ row' \in [Monitors -> RowType]
        /\ \A m2 \in Monitors : Coherent(row'[m2]) /\ row'[m2].openedAt = row[m2].openedAt
    BY <1>1 DEF IInv, Types, RowsFollowLog
  <1>7. Idle \in OpType /\ WriterOK(k, m, Idle)
    BY IdleIs, HarmlessIs
  <1> QED  BY <1>1, <1>5, <1>6, <1>7, Kept, QuietStep

-----------------------------------------------------------------------------
(* Plan changes and restarts *)

(* A step after which every writer does nothing or what some writer of the same *)
(* monitor did, a tick if it is one.                                            *)
LEMMA WritersMove ==
    ASSUME IInv, op' \in [Kinds -> [Monitors -> OpType]], held' \subseteq Monitors,
           \A k \in Kinds, m \in Monitors :
              \/ op'[k][m] \in {Idle, op[k][m]}
              \/ k = "cancelled" /\ op'[k][m] = op["tick"][m],
           tls' \in [Monitors -> BOOLEAN],
           UNCHANGED <<row, ssl, logged, sslLogged, odd, raced>>
    PROVE  IInv'
  <1>1. Types' /\ RowsFollowLog' /\ EventsAlternate'
    BY DEF IInv, Types, RowsFollowLog, EventsAlternate
  <1>2. ASSUME NEW k \in Kinds, NEW m \in Monitors
        PROVE  WriterOK(k, m, op'[k][m])
    <2>1. CASE op'[k][m] = Idle
      BY <2>1, IdleIs, HarmlessIs
    <2>2. CASE op'[k][m] = op[k][m]
      BY <2>2 DEF IInv, WritersOK
    <2>3. CASE k = "cancelled" /\ op'[k][m] = op["tick"][m]
      <3>1. WriterOK("tick", m, op["tick"][m])
        BY DEF IInv, WritersOK, Kinds
      <3> QED  BY <2>3, <3>1 DEF WriterOK, OnlyTicks, CertOK, Ticks
    <2> QED  BY <2>1, <2>2, <2>3
  <1>3. ASSUME NEW k \in Kinds, NEW m \in Monitors
        PROVE  WriterOK(k, m, op[k][m])'
    BY <1>2 DEF WriterOK, UptimeOK, OnlyTicks, CertOK, CertAhead, Cert
  <1>4. WritersOK'
    BY <1>3 DEF WritersOK
  <1> QED  BY <1>1, <1>4 DEF IInv

LEMMA ReplanKeeps == ASSUME IInv, NEW m \in Monitors, Replan(m) PROVE IInv'
  <1>1. /\ UNCHANGED <<row, ssl, held, logged, sslLogged, odd, raced>>
        /\ \/ op' = [op EXCEPT !["tick"][m] = Idle]
           \/ op' = [op EXCEPT !["tick"][m] = Idle, !["cancelled"][m] = op["tick"][m]]
    BY DEF Replan
  <1>4. tls' \in [Monitors -> BOOLEAN]
    <2>1. PICK bears \in TLSPlans[m] : tls' = [tls EXCEPT ![m] = bears]
      BY DEF Replan
    <2>2. bears \in BOOLEAN
      BY SchedulerAssumption
    <2>3. tls \in [Monitors -> BOOLEAN]
      BY DEF IInv, Types
    <2> QED  BY <2>1, <2>2, <2>3
  <1>2. op \in [Kinds -> [Monitors -> OpType]] /\ Idle \in OpType /\ op["tick"][m] \in OpType
    BY IdleIs DEF IInv, Types, Kinds
  <1>3. /\ op' \in [Kinds -> [Monitors -> OpType]]
        /\ \A k \in Kinds, m2 \in Monitors :
              \/ op'[k][m2] \in {Idle, op[k][m2]}
              \/ k = "cancelled" /\ op'[k][m2] = op["tick"][m2]
    <2>1. CASE op' = [op EXCEPT !["tick"][m] = Idle]
      BY <1>2, <2>1 DEF Kinds
    <2>2. CASE op' = [op EXCEPT !["tick"][m] = Idle, !["cancelled"][m] = op["tick"][m]]
      BY <1>2, <2>2 DEF Kinds
    <2> QED  BY <1>1, <2>1, <2>2
  <1> QED  BY <1>1, <1>3, <1>4, Kept, WritersMove

LEMMA CrashRestartKeeps == ASSUME IInv, CrashRestart PROVE IInv'
  <1>1. /\ UNCHANGED <<row, ssl, logged, sslLogged, odd, raced>> /\ held' = {}
        /\ tls' \in [Monitors -> BOOLEAN]
        /\ op' = [k \in Kinds |-> [m \in Monitors |-> Idle]]
    BY DEF CrashRestart
  <1>2. /\ op' \in [Kinds -> [Monitors -> OpType]]
        /\ \A k \in Kinds, m \in Monitors : op'[k][m] = Idle
    BY <1>1, IdleIs
  <1> QED  BY <1>1, <1>2, WritersMove

-----------------------------------------------------------------------------

LEMMA InitOK == Init => IInv
  <1> SUFFICES ASSUME Init PROVE IInv
    OBVIOUS
  <1>1. A!NewRow \in RowType /\ A!NewRow.openedAt = A!NoTime /\ Coherent(A!NewRow)
    BY DEF A!NewRow, RowType, Coherent, A!Status, Stored
  <1>2. S!NewSSL \in SSLRow /\ S!NewSSL.status = ""
    BY DEF S!NewSSL, SSLRow, S!SSLStatus, Stored, S!NoTime, A!NoTime
  <1>3. Types
    <2>1. /\ row \in [Monitors -> RowType] /\ ssl \in [Monitors -> SSLRow]
          /\ op \in [Kinds -> [Monitors -> OpType]]
      BY <1>1, <1>2, IdleIs DEF Init
    <2>2. /\ held \subseteq Monitors
          /\ logged \in [Monitors -> BOOLEAN] /\ sslLogged \in [Monitors -> BOOLEAN]
          /\ tls \in [Monitors -> BOOLEAN] /\ raced \in [Monitors -> BOOLEAN]
      BY DEF Init
    <2> QED  BY <2>1, <2>2 DEF Types
  <1>4. RowsFollowLog
    BY <1>1, <1>2 DEF Init, RowsFollowLog
  <1>5. WritersOK
    BY IdleIs, HarmlessIs DEF Init, WritersOK
  <1>6. EventsAlternate
    BY DEF Init, EventsAlternate
  <1> QED  BY <1>3, <1>4, <1>5, <1>6 DEF IInv

LEMMA TickKeeps == ASSUME IInv, NEW m \in Monitors, Tick(m) PROVE IInv'
  BY ReadParentKeeps, RetryKeeps, HoldBackKeeps, CheckRowKeeps DEF Tick

LEMMA WorkKeeps == ASSUME IInv, NEW k \in Kinds, NEW m \in Monitors, Work(k, m) PROVE IInv'
  BY PauseSelfKeeps, ApplyCheckKeeps, CheckFailsKeeps, NotifyKeeps, StoreThreadKeeps, PushKeeps,
     ApplySSLCheckKeeps, NotifySSLKeeps DEF Work

LEMMA NextKeeps == IInv /\ [Next]_vars => IInv'
  <1> SUFFICES ASSUME IInv, [Next]_vars PROVE IInv'
    OBVIOUS
  <1>1. CASE UNCHANGED vars
    <2>1. UNCHANGED <<row, ssl, op, held, logged, sslLogged, tls, odd, raced>>
      BY <1>1 DEF vars
    <2> QED  BY <2>1 DEF IInv, Types, RowsFollowLog, EventsAlternate, WritersOK, WriterOK, UptimeOK,
             OnlyTicks, CertOK, CertAhead, Cert
  <1>2. ASSUME NEW m \in Monitors,
               \/ Tick(m)
               \/ \E at \in Elapsed : ProbeParent(m, at) \/ CommitHeld(m, at)
               \/ DropHeld(m) \/ Replan(m)
               \/ \E k \in Kinds : Work(k, m)
        PROVE  IInv'
    BY <1>2, TickKeeps, ProbeParentKeeps, CommitHeldKeeps, DropHeldKeeps, ReplanKeeps, WorkKeeps
  <1>3. CASE CrashRestart
    BY <1>3, CrashRestartKeeps
  <1> QED  BY <1>1, <1>2, <1>3 DEF Next

LEMMA Always == Spec => []IInv
  BY InitOK, NextKeeps, PTL DEF Spec

(* The columns, the records of the writers and the histories keep their types. *)
THEOREM SchedulerTypes == Spec => []TypeOK
  <1>1. IInv => TypeOK
    BY DEF IInv, Types, TypeOK, RowType, SSLRow, Stored
  <1> QED  BY <1>1, Always, PTL

(* The history of a monitor alternates: Tick, the on-demand probe and the self-health *)
(* commit append an open only to a closed incident, a reminder or a resolve only to   *)
(* an open one, through pauses, plan changes, restarts and failed statements, unless  *)
(* two of them decided from the same row.                                             *)
THEOREM EventsDoAlternate == Spec => []EventsAlternate
  <1>1. IInv => EventsAlternate
    BY DEF IInv
  <1> QED  BY <1>1, Always, PTL

(* What the ssl columns say is what alert_events says, although ApplySSLCheck writes a *)
(* decision that was taken before the uptime side was written and announced, and       *)
(* through plans that bear TLS and plans that do not: a check under one that does not  *)
(* is the only thing that ends an incident without an event.                           *)
THEOREM CertificateFollowsLog == Spec => []SSLMatchesLog
  <1>1. IInv => SSLMatchesLog
    BY DEF IInv, RowsFollowLog, SSLMatchesLog
  <1> QED  BY <1>1, Always, PTL
=============================================================================
