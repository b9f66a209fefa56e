-------------------------- MODULE AMReceiverProofs ---------------------------
(***************************************************************************)
(* Proofs about AMReceiver for any alerts, any number of deliveries at     *)
(* once and any failures.                                                  *)
(*                                                                         *)
(* A job carries ids of rows and of messages from one call to the next     *)
(* while everything else moves; the invariant says what they still mean    *)
(* when they are used.                                                     *)
(***************************************************************************)
EXTENDS AMReceiver, SequenceTheorems, TLAPS

USE AMAssumption

JobType ==
    [pc : Outcomes \cup {"evaluate", "firing", "conflict", "post", "store", "resolved", "banner",
                         "edit", "reply"},
     st : {"firing", "resolved"}, ch : Channels \cup {""}, id : Nat, msg : Nat, fresh : BOOLEAN]

Jobs == UNION {[F -> JobType] : F \in SUBSET Fingerprints}

Row == [fp : Fingerprints, life : {"open", "closed", "swept"}, slug : Channels, ref : Nat,
        trail : SUBSET {"firing", "repeat-firing", "resolved"}]

Parent == [inc : Nat, ch : Channels \cup {""}, red : BOOLEAN]

\* The types of what Alertmanager, the table and Slack hold.
Data ==
    /\ alert \in [Fingerprints -> {"firing", "resolved"}]
    /\ need \subseteq Fingerprints /\ unheard \subseteq Fingerprints
    /\ batch \in [Slots -> Jobs]
    /\ rows \in Seq(Row) /\ \A i \in DOMAIN rows : rows[i].ref \in {0} \cup DOMAIN parents
    /\ parents \in Seq(Parent) /\ \A p \in DOMAIN parents : parents[p].inc \in DOMAIN rows

OneOpen == \A i, j \in DOMAIN rows :
               rows[i].life = "open" /\ rows[j].life = "open" /\ rows[i].fp = rows[j].fp => i = j

\* What the ids a job carries still mean.
JobOK(j) ==
    /\ j.id \in {0} \cup DOMAIN rows /\ j.msg \in {0} \cup DOMAIN parents
    /\ j.pc = "evaluate" => j.id = 0
    /\ j.pc = "firing" => j.ch \in Channels
    /\ j.pc \in {"post", "store"} => j.id \in DOMAIN rows
    /\ j.pc = "store" => j.msg \in DOMAIN parents /\ parents[j.msg].inc = j.id
    /\ j.pc = "edit" => j.msg \in DOMAIN parents /\ rows[parents[j.msg].inc].life # "open"
    /\ j.pc \in {"resolved", "banner", "edit", "reply"} => j.st = "resolved"
    /\ j.pc \in {"processed", "dropped"} /\ j.st = "firing" /\ j.id # 0 => j.id \in Announced

JobsOK == \A s \in Slots : \A f \in DOMAIN batch[s] : JobOK(batch[s][f])

AckedOK == acked \subseteq Announced

IInv == Data /\ OneOpen /\ RefIsOwn /\ GreenMeansClosed /\ JobsOK

-----------------------------------------------------------------------------
(* Sequences and batches. *)

LEMMA Domains ==
    ASSUME NEW X, NEW q \in Seq(X)
    PROVE  DOMAIN q \subseteq Nat \ {0} /\ Len(q) + 1 \in Nat \ {0} /\ Len(q) + 1 \notin DOMAIN q
  OBVIOUS

LEMMA Elements == \A X : \A q \in Seq(X) : \A k \in DOMAIN q : q[k] \in X
  OBVIOUS

LEMMA Appended ==
    ASSUME NEW X, NEW q \in Seq(X), NEW e \in X, NEW r, r = Append(q, e)
    PROVE  /\ r \in Seq(X) /\ DOMAIN r = DOMAIN q \cup {Len(q) + 1}
           /\ r[Len(q) + 1] = e /\ \A i \in DOMAIN q : r[i] = q[i]
  OBVIOUS

LEMMA Replaced ==
    ASSUME NEW X, NEW q \in Seq(X), NEW i \in DOMAIN q, NEW e \in X, NEW r, r = [q EXCEPT ![i] = e]
    PROVE  /\ r \in Seq(X) /\ DOMAIN r = DOMAIN q
           /\ r[i] = e /\ \A j \in DOMAIN q : j # i => r[j] = q[j]
  OBVIOUS

LEMMA Mapped ==
    ASSUME NEW X, NEW q \in Seq(X), NEW r, r = [i \in DOMAIN q |-> r[i]], \A i \in DOMAIN q : r[i] \in X
    PROVE  r \in Seq(X) /\ DOMAIN r = DOMAIN q
  BY SeqDef

LEMMA GotoStep ==
    ASSUME Data, NEW s \in Slots, NEW f, InBatch(s, f), NEW job \in JobType, Goto(s, f, job)
    PROVE  /\ batch' \in [Slots -> Jobs]
           /\ \A t \in Slots : /\ DOMAIN batch'[t] = DOMAIN batch[t]
                              /\ \A g \in DOMAIN batch[t] :
                                    batch'[t][g] = IF t = s /\ g = f THEN job ELSE batch[t][g]
  <1>0. batch[s] \in Jobs
    BY DEF Data
  <1>1. PICK F \in SUBSET Fingerprints : batch[s] \in [F -> JobType]
    BY <1>0 DEF Jobs
  <1>2. [batch[s] EXCEPT ![f] = job] \in [F -> JobType]
    BY <1>1
  <1>3. batch' = [batch EXCEPT ![s] = [batch[s] EXCEPT ![f] = job]]
    BY DEF Goto
  <1>4. [batch[s] EXCEPT ![f] = job] \in Jobs
    BY <1>2 DEF Jobs
  <1>5. batch' \in [Slots -> Jobs]
    BY <1>3, <1>4 DEF Data
  <1>6. /\ batch'[s] = [batch[s] EXCEPT ![f] = job]
        /\ \A t \in Slots : t # s => batch'[t] = batch[t]
    BY <1>3 DEF Data
  <1> QED  BY <1>1, <1>5, <1>6 DEF InBatch

LEMMA JobTypes ==
    ASSUME Data, NEW s \in Slots, NEW f \in DOMAIN batch[s]
    PROVE  batch[s][f] \in JobType /\ f \in Fingerprints
  BY DEF Data, Jobs

LEMMA EmptyJobs == <<>> \in Jobs /\ DOMAIN <<>> = {}
  BY DEF Jobs
-----------------------------------------------------------------------------
(* What becomes of rows and parents, and what that leaves of the jobs. *)

Grows ==
    /\ DOMAIN rows \subseteq DOMAIN rows' /\ DOMAIN parents \subseteq DOMAIN parents'
    /\ \A p \in DOMAIN parents : parents'[p].inc = parents[p].inc
    /\ \A i \in DOMAIN rows : rows[i].life # "open" => rows'[i].life # "open"

LEMMA AnnouncedGrows == ASSUME Grows PROVE Announced \subseteq Announced'
  BY DEF Grows, Announced

LEMMA JobGrows == ASSUME Data, Grows, NEW j, JobOK(j) PROVE JobOK(j)'
  BY AnnouncedGrows DEF Data, Grows, JobOK

\* The table and Slack as far as IInv speaks of them.
Tables ==
    /\ rows \in Seq(Row) /\ \A i \in DOMAIN rows : rows[i].ref \in {0} \cup DOMAIN parents
    /\ parents \in Seq(Parent) /\ \A p \in DOMAIN parents : parents[p].inc \in DOMAIN rows
    /\ OneOpen /\ RefIsOwn /\ GreenMeansClosed

(* rows and parents are left alone. *)
LEMMA TablesSame == ASSUME IInv, UNCHANGED <<rows, parents>> PROVE Tables' /\ Grows
  BY DEF IInv, Data, OneOpen, RefIsOwn, GreenMeansClosed, Tables, Grows

(* One job moves. *)
LEMMA OneJobMoves ==
    ASSUME IInv, Tables', Grows, NEW s \in Slots, NEW f, InBatch(s, f), NEW job \in JobType,
           Goto(s, f, job), JobOK(job)', unheard' \subseteq Fingerprints, UNCHANGED <<alert, need>>
    PROVE  IInv'
  <1>1. batch' \in [Slots -> Jobs]
    BY GotoStep DEF IInv
  <1>2. JobsOK'
    BY GotoStep, JobGrows DEF IInv, JobsOK
  <1>3. Data'
    BY <1>1 DEF IInv, Data, Tables
  <1> QED  BY <1>2, <1>3 DEF IInv, Tables

-----------------------------------------------------------------------------
(* The steps, one after the other. *)

LEMMA InitOK == Init => IInv
  <1> SUFFICES ASSUME Init PROVE IInv
    OBVIOUS
  <1>1. rows = <<>> /\ parents = <<>> /\ DOMAIN rows = {} /\ DOMAIN parents = {}
    BY DEF Init
  <1>2. batch \in [Slots -> Jobs] /\ \A s \in Slots : DOMAIN batch[s] = {}
    BY EmptyJobs DEF Init
  <1>3. rows \in Seq(Row) /\ parents \in Seq(Parent)
    BY <1>1
  <1> QED
    BY <1>1, <1>2, <1>3 DEF Init, IInv, Data, OneOpen, RefIsOwn, GreenMeansClosed, JobsOK

LEMMA FlipOK == ASSUME IInv, NEW f \in Fingerprints, Flip(f) PROVE IInv'
  <1>1. ASSUME NEW s \in Slots
        PROVE  /\ batch'[s] \in Jobs /\ DOMAIN batch'[s] = DOMAIN batch[s]
               /\ \A g \in DOMAIN batch[s] :
                      /\ batch'[s][g].pc = batch[s][g].pc /\ batch'[s][g].st = batch[s][g].st
                      /\ batch'[s][g].ch = batch[s][g].ch /\ batch'[s][g].id = batch[s][g].id
                      /\ batch'[s][g].msg = batch[s][g].msg
    <2>0. batch[s] \in Jobs
      BY DEF IInv, Data
    <2>1. PICK F \in SUBSET Fingerprints : batch[s] \in [F -> JobType]
      BY <2>0 DEF Jobs
    <2>2. batch'[s] = IF InBatch(s, f) THEN [batch[s] EXCEPT ![f].fresh = FALSE] ELSE batch[s]
      BY DEF Flip
    <2>3. CASE InBatch(s, f)
      <3>1. batch[s][f] \in JobType
        BY <2>1, <2>3 DEF InBatch
      <3>2. [batch[s][f] EXCEPT !.fresh = FALSE] \in JobType
        BY <3>1 DEF JobType
      <3>3. batch'[s] = [batch[s] EXCEPT ![f] = [batch[s][f] EXCEPT !.fresh = FALSE]]
        BY <2>2, <2>3
      <3>4. batch'[s] \in [F -> JobType]
        BY <2>1, <3>2, <3>3
      <3>5. batch'[s] \in Jobs /\ DOMAIN batch'[s] = DOMAIN batch[s]
        BY <2>1, <3>4 DEF Jobs
      <3>6. \A g \in DOMAIN batch[s] : g # f => batch'[s][g] = batch[s][g]
        BY <3>3
      <3>7. batch'[s][f] = [batch[s][f] EXCEPT !.fresh = FALSE]
        BY <2>1, <2>3, <3>3 DEF InBatch
      <3>8. /\ batch'[s][f].pc = batch[s][f].pc /\ batch'[s][f].st = batch[s][f].st
            /\ batch'[s][f].ch = batch[s][f].ch /\ batch'[s][f].id = batch[s][f].id
            /\ batch'[s][f].msg = batch[s][f].msg
        BY <3>1, <3>7 DEF JobType
      <3> QED  BY <3>5, <3>6, <3>8
    <2>4. CASE ~InBatch(s, f)
      BY <2>2, <2>4 DEF IInv, Data
    <2> QED  BY <2>3, <2>4
  <1>2. batch' = [s \in Slots |-> batch'[s]]
    BY DEF Flip
  <1>3. batch' \in [Slots -> Jobs]
    BY <1>1, <1>2
  <1>4. UNCHANGED <<rows, parents, unheard>> /\ need' \subseteq Fingerprints
        /\ alert' \in [Fingerprints -> {"firing", "resolved"}]
    BY DEF Flip, IInv, Data
  <1>5. JobsOK'
    BY <1>1, <1>4 DEF IInv, JobsOK, JobOK, Announced
  <1> QED  BY <1>3, <1>4, <1>5, TablesSame DEF IInv, Data, Tables

LEMMA DeliverOK == ASSUME IInv, NEW s \in Slots, NEW F \in SUBSET Fingerprints, Deliver(s, F) PROVE IInv'
  <1> DEFINE J == [f \in F |-> [pc |-> "evaluate", st |-> alert[f], ch |-> "", id |-> 0, msg |-> 0,
                                fresh |-> TRUE]]
  <1>1. \A f \in F : J[f] \in JobType
    BY DEF JobType, IInv, Data
  <1>2. batch' = [batch EXCEPT ![s] = J] /\ UNCHANGED <<alert, need, rows, parents, unheard>>
    BY DEF Deliver
  <1>5. \A f \in F : J[f].pc = "evaluate" /\ J[f].id = 0 /\ J[f].msg = 0
    OBVIOUS
  <1>3. J \in [F -> JobType] /\ DOMAIN J = F
    BY <1>1
  <1> HIDE DEF J
  <1>7. J \in Jobs
    BY <1>3 DEF Jobs
  <1>4. batch' \in [Slots -> Jobs] /\ batch'[s] = J
        /\ \A t \in Slots : t # s => batch'[t] = batch[t]
    BY <1>2, <1>7 DEF IInv, Data
  <1>8. ASSUME NEW f \in DOMAIN batch'[s]
        PROVE  JobOK(batch[s][f])'
    <2>1. batch'[s][f].pc = "evaluate" /\ batch'[s][f].id = 0 /\ batch'[s][f].msg = 0
      BY <1>3, <1>4, <1>5
    <2> QED  BY <2>1 DEF JobOK
  <1>9. ASSUME NEW t \in Slots, t # s, NEW f \in DOMAIN batch'[t]
        PROVE  JobOK(batch[t][f])'
    <2>1. batch'[t] = batch[t]
      BY <1>4, <1>9
    <2>2. JobOK(batch[t][f])
      BY <2>1, <1>9 DEF IInv, JobsOK
    <2> QED  BY <1>2, <2>1, <2>2 DEF JobOK, Announced
  <1>6. JobsOK'
    BY <1>8, <1>9 DEF JobsOK
  <1> QED  BY <1>2, <1>4, <1>6, TablesSame DEF IInv, Data, Tables

(* The batches that are over leave. *)
LEMMA AnswerOK == ASSUME IInv, (\E s \in Slots : Answer(s)) \/ CrashRestart PROVE IInv'
  <1>1. /\ batch' \in [Slots -> Jobs]
        /\ \A t \in Slots : batch'[t] = <<>> \/ batch'[t] = batch[t]
    BY EmptyJobs DEF IInv, Data, Answer, CrashRestart
  <1>2. UNCHANGED <<alert, rows, parents, unheard>> /\ need' \subseteq Fingerprints
    BY DEF IInv, Data, Answer, CrashRestart
  <1>3. JobsOK'
    BY <1>1, <1>2, EmptyJobs DEF IInv, JobsOK, JobOK, Announced
  <1> QED  BY <1>1, <1>2, <1>3, TablesSame DEF IInv, Data, Tables

(* Steps of a job that touch neither table. *)
LEMMA AdmitOK == ASSUME IInv, NEW s \in Slots, NEW f, Admit(s, f) PROVE IInv'
  <1>1. /\ InBatch(s, f) /\ batch[s][f].pc = "evaluate"
        /\ UNCHANGED <<alert, need, rows, parents>>
    BY DEF Admit
  <1>2. batch[s][f] \in JobType /\ f \in Fingerprints /\ JobOK(batch[s][f])
    BY <1>1, JobTypes DEF InBatch, IInv, JobsOK
  <1>3. batch[s][f].id = 0 /\ batch[s][f].msg \in {0} \cup DOMAIN parents
    BY <1>1, <1>2 DEF JobOK
  <1>4. unheard' \subseteq Fingerprints
    BY <1>2 DEF Admit, Unheard, IInv, Data
  <1>5. ASSUME Goto(s, f, Done(batch[s][f], "dropped"))  PROVE IInv'
    <2>0. PICK j : j = Done(batch[s][f], "dropped")
      OBVIOUS
    <2>1. j \in JobType /\ j.pc = "dropped" /\ j.id = 0 /\ j.msg \in {0} \cup DOMAIN parents'
      BY <1>1, <1>2, <1>3, <2>0 DEF JobType, Done, Outcomes
    <2>2. JobOK(j)'
      BY <2>1 DEF JobOK
    <2>3. Goto(s, f, j)
      BY <1>5, <2>0
    <2> QED  BY <1>1, <1>4, <2>1, <2>2, <2>3, TablesSame, OneJobMoves
  <1>6. ASSUME NEW r \in Channels, Goto(s, f, [batch[s][f] EXCEPT !.ch = r, !.pc = batch[s][f].st])
        PROVE  IInv'
    <2>0. PICK j : j = [batch[s][f] EXCEPT !.ch = r, !.pc = batch[s][f].st]
      OBVIOUS
    <2>1. /\ j \in JobType /\ j.id = 0 /\ j.msg \in {0} \cup DOMAIN parents'
          /\ j.ch \in Channels /\ j.pc = j.st
      BY <1>1, <1>2, <1>3, <2>0 DEF JobType, Outcomes
    <2>2. JobOK(j)'
      BY <2>1 DEF JobOK, JobType
    <2>3. Goto(s, f, j)
      BY <1>6, <2>0
    <2> QED  BY <1>1, <1>4, <2>1, <2>2, <2>3, TablesSame, OneJobMoves
  <1> QED  BY <1>5, <1>6 DEF Admit

LEMMA EndOK ==
    ASSUME IInv, NEW s \in Slots, NEW f, Fails(s, f) \/ PostBanner(s, f) \/ PostReply(s, f)
    PROVE  IInv'
  <1>1. InBatch(s, f) /\ UNCHANGED <<alert, need, rows, parents, unheard>>
    BY DEF Fails, PostBanner, PostReply
  <1>2. batch[s][f] \in JobType /\ JobOK(batch[s][f])
    BY <1>1, JobTypes DEF InBatch, IInv, JobsOK
  <1>3. PICK out \in {"processed", "failed"} :
            /\ Goto(s, f, Done(batch[s][f], out))
            /\ out = "processed" => batch[s][f].pc \in {"banner", "reply"}
    BY DEF Fails, PostBanner, PostReply
  <1>0. PICK j : j = Done(batch[s][f], out)
    OBVIOUS
  <1>4. /\ j \in JobType /\ j.pc = out /\ j.st = batch[s][f].st
        /\ j.id = batch[s][f].id /\ j.msg = batch[s][f].msg
    BY <1>0, <1>2 DEF JobType, Done, Outcomes
  <1>5. JobOK(j)'
    BY <1>1, <1>2, <1>3, <1>4 DEF JobOK
  <1>6. unheard' \subseteq Fingerprints
    BY <1>1 DEF IInv, Data
  <1> QED  BY <1>0, <1>1, <1>3, <1>4, <1>5, <1>6, TablesSame, OneJobMoves

-----------------------------------------------------------------------------
(* Steps that change a row or a parent. *)

\* A row is appended.
LEMMA RowAdded ==
    ASSUME IInv, NEW e \in Row, e.ref = 0, e.life = "open", OpenRow(e.fp) = {},
           rows' = Append(rows, e), UNCHANGED parents
    PROVE  Tables' /\ Grows /\ Len(rows) + 1 \in DOMAIN rows'
  <1>1. /\ rows' \in Seq(Row) /\ DOMAIN rows' = DOMAIN rows \cup {Len(rows) + 1}
        /\ rows'[Len(rows) + 1] = e /\ \A i \in DOMAIN rows : rows'[i] = rows[i]
    BY Appended DEF IInv, Data
  <1>2. \A i \in DOMAIN rows' : rows'[i].ref \in {0} \cup DOMAIN parents'
    BY <1>1 DEF IInv, Data
  <1>3. parents' \in Seq(Parent) /\ \A p \in DOMAIN parents' : parents'[p].inc \in DOMAIN rows'
    BY <1>1 DEF IInv, Data
  <1>4. \A i \in DOMAIN rows : ~(rows[i].fp = e.fp /\ rows[i].life = "open")
    BY DEF OpenRow
  <1>5. OneOpen'
    BY <1>1, <1>4 DEF IInv, OneOpen
  <1>6. RefIsOwn'
    BY <1>1 DEF IInv, RefIsOwn
  <1>7. GreenMeansClosed'
    BY <1>1 DEF IInv, Data, GreenMeansClosed
  <1> QED  BY <1>1, <1>2, <1>3, <1>5, <1>6, <1>7 DEF Tables, Grows

\* Rows are changed in place: no incident is opened again, and a reference is kept
\* or is to a parent of the row's own.
LEMMA RowsChanged ==
    ASSUME IInv, rows' \in Seq(Row), DOMAIN rows' = DOMAIN rows, UNCHANGED parents,
           \A i \in DOMAIN rows :
              /\ rows'[i].fp = rows[i].fp
              /\ rows'[i].life = "open" => rows[i].life = "open"
              /\ \/ rows'[i].ref = rows[i].ref
                 \/ rows'[i].ref \in DOMAIN parents /\ parents[rows'[i].ref].inc = i
    PROVE  Tables' /\ Grows
  <1>1. \A i \in DOMAIN rows' : rows'[i].ref \in {0} \cup DOMAIN parents'
    BY DEF IInv, Data
  <1>2. parents' \in Seq(Parent) /\ \A p \in DOMAIN parents' : parents'[p].inc \in DOMAIN rows'
    BY DEF IInv, Data
  <1>3. OneOpen'
    BY DEF IInv, OneOpen
  <1>4. RefIsOwn'
    BY DEF IInv, RefIsOwn
  <1>5. GreenMeansClosed'
    BY DEF IInv, Data, GreenMeansClosed
  <1> QED  BY <1>1, <1>2, <1>3, <1>4, <1>5 DEF Tables, Grows

\* A parent is posted.
LEMMA ParentAdded ==
    ASSUME IInv, NEW e \in Parent, e.inc \in DOMAIN rows, e.red, parents' = Append(parents, e), UNCHANGED rows
    PROVE  /\ Tables' /\ Grows /\ Len(parents) + 1 \in DOMAIN parents'
           /\ parents'[Len(parents) + 1] = e
  <1>1. /\ parents' \in Seq(Parent) /\ DOMAIN parents' = DOMAIN parents \cup {Len(parents) + 1}
        /\ parents'[Len(parents) + 1] = e /\ \A i \in DOMAIN parents : parents'[i] = parents[i]
        /\ Len(parents) + 1 \notin DOMAIN parents /\ 0 \notin DOMAIN parents
    BY Appended, Domains DEF IInv, Data
  <1>2. /\ \A i \in DOMAIN rows' : rows'[i].ref \in {0} \cup DOMAIN parents'
        /\ \A p \in DOMAIN parents' : parents'[p].inc \in DOMAIN rows'
    BY <1>1 DEF IInv, Data
  <1>3. RefIsOwn'
    BY <1>1 DEF IInv, Data, RefIsOwn
  <1>4. GreenMeansClosed'
    BY <1>1 DEF IInv, Data, GreenMeansClosed
  <1> QED  BY <1>1, <1>2, <1>3, <1>4 DEF IInv, Data, OneOpen, Tables, Grows

\* A parent turns green: its incident is closed.
LEMMA ParentGreen ==
    ASSUME IInv, NEW m \in DOMAIN parents, rows[parents[m].inc].life # "open", NEW e \in Parent,
           e.inc = parents[m].inc, parents' = [parents EXCEPT ![m] = e], UNCHANGED rows
    PROVE  Tables' /\ Grows
  <1>4. /\ parents' \in Seq(Parent) /\ DOMAIN parents' = DOMAIN parents
        /\ parents'[m] = e /\ \A p \in DOMAIN parents : p # m => parents'[p] = parents[p]
    BY Replaced DEF IInv, Data
  <1>5. RefIsOwn' /\ GreenMeansClosed' /\ OneOpen'
    BY <1>4 DEF IInv, Data, RefIsOwn, GreenMeansClosed, OneOpen
  <1> QED  BY <1>4, <1>5 DEF IInv, Data, Tables, Grows

LEMMA Carried ==
    ASSUME IInv, NEW s \in Slots, NEW f, InBatch(s, f)
    PROVE  batch[s][f] \in JobType /\ f \in Fingerprints /\ JobOK(batch[s][f]) /\ rows \in Seq(Row)
           /\ parents \in Seq(Parent) /\ unheard \subseteq Fingerprints
  BY JobTypes DEF InBatch, IInv, JobsOK, Data

LEMMA InsertOK == ASSUME IInv, NEW s \in Slots, NEW f, Insert(s, f) PROVE IInv'
  <1>1. /\ InBatch(s, f) /\ batch[s][f].pc = "firing" /\ UNCHANGED <<alert, need, parents>>
    BY DEF Insert
  <1>2. batch[s][f] \in JobType /\ f \in Fingerprints /\ JobOK(batch[s][f]) /\ unheard \subseteq Fingerprints
        /\ rows \in Seq(Row)
    BY <1>1, Carried
  <1>3. batch[s][f].ch \in Channels /\ batch[s][f].msg \in {0} \cup DOMAIN parents
    BY <1>1, <1>2 DEF JobOK
  <1>4. unheard' \subseteq Fingerprints
    BY <1>2 DEF Insert
  <1>5. ASSUME OpenRow(f) = {}, NEW T \in SUBSET {"firing"},
               rows' = Append(rows, [fp |-> f, life |-> "open", slug |-> batch[s][f].ch,
                                     ref |-> 0, trail |-> T]),
               Goto(s, f, [batch[s][f] EXCEPT !.pc = "post", !.id = Len(rows) + 1])
        PROVE  IInv'
    <2>1. PICK e : e = [fp |-> f, life |-> "open", slug |-> batch[s][f].ch, ref |-> 0, trail |-> T]
      OBVIOUS
    <2>2. e \in Row /\ e.ref = 0 /\ e.life = "open" /\ e.fp = f
      BY <1>2, <1>3, <2>1 DEF Row
    <2>3. Tables' /\ Grows /\ Len(rows) + 1 \in DOMAIN rows'
      BY <1>1, <1>5, <2>1, <2>2, RowAdded
    <2>4. PICK j : j = [batch[s][f] EXCEPT !.pc = "post", !.id = Len(rows) + 1]
      OBVIOUS
    <2>5. Len(rows) + 1 \in Nat
      BY <1>2
    <2>6. j \in JobType /\ j.pc = "post" /\ j.id = Len(rows) + 1 /\ j.msg \in {0} \cup DOMAIN parents'
      BY <1>1, <1>2, <1>3, <2>4, <2>5 DEF JobType, Outcomes
    <2>7. JobOK(j)'
      BY <2>3, <2>6 DEF JobOK
    <2>8. Goto(s, f, j)
      BY <1>5, <2>4
    <2> QED  BY <1>1, <1>4, <2>3, <2>6, <2>7, <2>8, OneJobMoves
  <1>6. ASSUME Goto(s, f, [batch[s][f] EXCEPT !.pc = "conflict"]), UNCHANGED rows
        PROVE  IInv'
    <2>1. PICK j : j = [batch[s][f] EXCEPT !.pc = "conflict"]
      OBVIOUS
    <2>2. j \in JobType /\ j.pc = "conflict" /\ j.id = batch[s][f].id /\ j.msg = batch[s][f].msg
      BY <1>2, <2>1 DEF JobType, Outcomes
    <2>3. JobOK(j)'
      BY <1>1, <1>2, <1>6, <2>2 DEF JobOK
    <2>4. Goto(s, f, j)
      BY <1>6, <2>1
    <2> QED  BY <1>1, <1>4, <1>6, <2>2, <2>3, <2>4, TablesSame, OneJobMoves
  <1> QED  BY <1>5, <1>6 DEF Insert

LEMMA OpenOne ==
    ASSUME IInv, NEW f, NEW i \in OpenRow(f)
    PROVE  i \in DOMAIN rows /\ rows[i] \in Row /\ rows[i].fp = f /\ rows[i].life = "open"
           /\ OpenRow(f) = {i}
  BY DEF OpenRow, IInv, Data, OneOpen

LEMMA FindOpenOK == ASSUME IInv, NEW s \in Slots, NEW f, FindOpen(s, f) PROVE IInv'
  <1>1. /\ InBatch(s, f) /\ UNCHANGED <<alert, need, parents, unheard>>
    BY DEF FindOpen
  <1>2. batch[s][f] \in JobType /\ JobOK(batch[s][f]) /\ unheard' \subseteq Fingerprints
        /\ rows \in Seq(Row)
    BY <1>1, Carried
  <1>3. batch[s][f].id \in {0} \cup DOMAIN rows /\ batch[s][f].msg \in {0} \cup DOMAIN parents
    BY <1>2 DEF JobOK
  <1>4. ASSUME Goto(s, f, Done(batch[s][f], "failed")), UNCHANGED rows
        PROVE  IInv'
    <2>1. PICK j : j = Done(batch[s][f], "failed")
      OBVIOUS
    <2>2. j \in JobType /\ j.pc = "failed" /\ j.id = batch[s][f].id /\ j.msg = batch[s][f].msg
      BY <1>2, <2>1 DEF JobType, Outcomes, Done
    <2>3. JobOK(j)'
      BY <1>1, <1>3, <1>4, <2>2 DEF JobOK
    <2> QED  BY <1>1, <1>2, <1>4, <2>1, <2>2, <2>3, TablesSame, OneJobMoves
  <1>5. ASSUME NEW i \in OpenRow(f), NEW T \in SUBSET {"repeat-firing"},
               rows' = [rows EXCEPT ![i].trail = @ \cup T],
               Goto(s, f, [batch[s][f] EXCEPT !.id = i,
                                              !.pc = IF rows[i].ref # 0 THEN "dropped" ELSE "post"])
        PROVE  IInv'
    <2>1. i \in DOMAIN rows /\ rows[i] \in Row
      BY OpenOne
    <2>2. PICK e : e = [rows[i] EXCEPT !.trail = @ \cup T]
      OBVIOUS
    <2>3. e \in Row /\ e.fp = rows[i].fp /\ e.life = rows[i].life /\ e.ref = rows[i].ref
      BY <2>1, <2>2 DEF Row
    <2>4. rows' = [rows EXCEPT ![i] = e]
      BY <1>5, <2>2
    <2>5. rows' \in Seq(Row) /\ DOMAIN rows' = DOMAIN rows /\ rows'[i] = e
          /\ \A k \in DOMAIN rows : k # i => rows'[k] = rows[k]
      BY <1>2, <2>1, <2>3, <2>4, Replaced
    <2>6. Tables' /\ Grows
      BY <1>1, <2>3, <2>5, RowsChanged
    <2>7. PICK j : j = [batch[s][f] EXCEPT !.id = i, !.pc = IF rows[i].ref # 0 THEN "dropped" ELSE "post"]
      OBVIOUS
    <2>8. i \in Nat
      BY <1>2, <2>1
    <2>9. j \in JobType /\ j.id = i /\ j.msg = batch[s][f].msg
          /\ (j.pc = "post" \/ (j.pc = "dropped" /\ rows[i].ref # 0))
      <3>1. CASE rows[i].ref # 0
        BY <1>2, <2>7, <2>8, <3>1 DEF JobType, Outcomes
      <3>2. CASE rows[i].ref = 0
        <4>1. j = [batch[s][f] EXCEPT !.id = i, !.pc = "post"]
          BY <2>7, <3>2
        <4> QED  BY <1>2, <2>8, <4>1 DEF JobType, Outcomes
      <3> QED  BY <3>1, <3>2
    <2>10. rows[i].ref # 0 => i \in Announced'
      BY <1>1, <2>1 DEF IInv, Data, RefIsOwn, Announced
    <2>11. JobOK(j)'
      BY <1>1, <1>3, <2>1, <2>5, <2>9, <2>10 DEF JobOK
    <2>12. Goto(s, f, j)
      BY <1>5, <2>7
    <2> QED  BY <1>1, <1>2, <2>6, <2>9, <2>11, <2>12, OneJobMoves
  <1> QED  BY <1>4, <1>5 DEF FindOpen

LEMMA PostParentOK == ASSUME IInv, NEW s \in Slots, NEW f, PostParent(s, f) PROVE IInv'
  <1>1. /\ InBatch(s, f) /\ batch[s][f].pc = "post" /\ UNCHANGED <<alert, need, rows, unheard>>
    BY DEF PostParent
  <1>2. batch[s][f] \in JobType /\ JobOK(batch[s][f]) /\ unheard' \subseteq Fingerprints
        /\ parents \in Seq(Parent) /\ rows \in Seq(Row)
    BY <1>1, Carried
  <1>3. batch[s][f].id \in DOMAIN rows /\ batch[s][f].msg \in {0} \cup DOMAIN parents
    BY <1>1, <1>2 DEF JobOK
  <1>4. PICK e : e = [inc |-> batch[s][f].id, ch |-> batch[s][f].ch, red |-> TRUE]
    OBVIOUS
  <1>5. e \in Parent /\ e.inc = batch[s][f].id /\ e.red
    BY <1>2, <1>4 DEF Parent, JobType
  <1>6. parents' = Append(parents, e)
    BY <1>4 DEF PostParent
  <1>7. Tables' /\ Grows /\ Len(parents) + 1 \in DOMAIN parents' /\ parents'[Len(parents) + 1] = e
    BY <1>1, <1>3, <1>5, <1>6, ParentAdded
  <1>8. PICK j : /\ Goto(s, f, j)
                 /\ \/ j = [batch[s][f] EXCEPT !.pc = "store", !.msg = Len(parents) + 1]
                    \/ j = Done(batch[s][f], "failed")
    BY DEF PostParent
  <1>9. Len(parents) + 1 \in Nat
    BY <1>2
  <1>10. /\ j \in JobType /\ j.id = batch[s][f].id
         /\ \/ j.pc = "store" /\ j.msg = Len(parents) + 1
            \/ j.pc = "failed" /\ j.msg = batch[s][f].msg
    BY <1>2, <1>8, <1>9 DEF JobType, Outcomes, Done
  <1>11. JobOK(j)'
    BY <1>1, <1>3, <1>5, <1>7, <1>10 DEF JobOK, Grows
  <1> QED  BY <1>1, <1>2, <1>7, <1>8, <1>10, <1>11, OneJobMoves

LEMMA StoreRefOK == ASSUME IInv, NEW s \in Slots, NEW f, StoreRef(s, f) PROVE IInv'
  <1>1. /\ InBatch(s, f) /\ batch[s][f].pc = "store" /\ UNCHANGED <<alert, need, parents, unheard>>
        /\ Goto(s, f, Done(batch[s][f], "processed"))
    BY DEF StoreRef
  <1>2. batch[s][f] \in JobType /\ JobOK(batch[s][f]) /\ unheard' \subseteq Fingerprints
        /\ rows \in Seq(Row)
    BY <1>1, Carried
  <1>3. /\ batch[s][f].id \in DOMAIN rows /\ batch[s][f].msg \in DOMAIN parents
        /\ parents[batch[s][f].msg].inc = batch[s][f].id
    BY <1>1, <1>2 DEF JobOK
  <1>4. PICK j : j = Done(batch[s][f], "processed")
    OBVIOUS
  <1>5. j \in JobType /\ j.pc = "processed" /\ j.id = batch[s][f].id /\ j.msg = batch[s][f].msg
    BY <1>2, <1>4 DEF JobType, Outcomes, Done
  <1>6. DOMAIN rows' = DOMAIN rows => JobOK(j)'
    BY <1>1, <1>3, <1>5 DEF JobOK, Announced
  <1>7. Tables' /\ Grows /\ DOMAIN rows' = DOMAIN rows
    <2>1. CASE UNCHANGED rows
      BY <1>1, <2>1, TablesSame
    <2>2. CASE rows' = [rows EXCEPT ![batch[s][f].id].ref =
                            IF rows[batch[s][f].id].life = "swept" THEN @ ELSE batch[s][f].msg]
      <3>1. PICK i, m : i = batch[s][f].id /\ m = batch[s][f].msg
        OBVIOUS
      <3>2. PICK e : e = [rows[i] EXCEPT !.ref = IF rows[i].life = "swept" THEN @ ELSE m]
        OBVIOUS
      <3>3. i \in DOMAIN rows /\ rows[i] \in Row /\ m \in DOMAIN parents /\ m \in Nat /\ parents[m].inc = i
        <4>1. i \in DOMAIN rows /\ m \in DOMAIN parents /\ parents[m].inc = i
          BY <1>3, <3>1
        <4>2. m \in Nat
          BY <1>2, <3>1 DEF JobType
        <4> QED  BY <1>2, <4>1, <4>2, Elements
      <3>4. e \in Row /\ e.fp = rows[i].fp /\ e.life = rows[i].life /\ e.ref \in {rows[i].ref, m}
        BY <3>2, <3>3 DEF Row
      <3>5. rows' = [rows EXCEPT ![i] = e]
        BY <2>2, <3>1, <3>2
      <3>6. rows' \in Seq(Row) /\ DOMAIN rows' = DOMAIN rows /\ rows'[i] = e
            /\ \A k \in DOMAIN rows : k # i => rows'[k] = rows[k]
        BY <1>2, <3>3, <3>4, <3>5, Replaced
      <3> QED  BY <1>1, <3>3, <3>4, <3>6, RowsChanged
    <2> QED  BY <2>1, <2>2 DEF StoreRef
  <1> QED  BY <1>1, <1>2, <1>4, <1>5, <1>6, <1>7, OneJobMoves

LEMMA MarkResolvedOK == ASSUME IInv, NEW s \in Slots, NEW f, MarkResolved(s, f) PROVE IInv'
  <1>1. /\ InBatch(s, f) /\ batch[s][f].pc = "resolved" /\ UNCHANGED <<alert, need, parents, unheard>>
    BY DEF MarkResolved
  <1>2. batch[s][f] \in JobType /\ JobOK(batch[s][f]) /\ unheard' \subseteq Fingerprints
        /\ rows \in Seq(Row) /\ parents \in Seq(Parent)
    BY <1>1, Carried
  <1>3. /\ batch[s][f].id \in {0} \cup DOMAIN rows /\ batch[s][f].msg \in {0} \cup DOMAIN parents
        /\ batch[s][f].st = "resolved"
    BY <1>1, <1>2 DEF JobOK
  <1>4. ASSUME Goto(s, f, [batch[s][f] EXCEPT !.pc = "banner"]), UNCHANGED rows
        PROVE  IInv'
    <2>1. PICK j : j = [batch[s][f] EXCEPT !.pc = "banner"]
      OBVIOUS
    <2>2. /\ j \in JobType /\ j.pc = "banner" /\ j.st = "resolved"
          /\ j.id = batch[s][f].id /\ j.msg = batch[s][f].msg
      BY <1>2, <1>3, <2>1 DEF JobType, Outcomes
    <2>3. JobOK(j)'
      BY <1>1, <1>3, <1>4, <2>2 DEF JobOK
    <2> QED  BY <1>1, <1>2, <1>4, <2>1, <2>2, <2>3, TablesSame, OneJobMoves
  <1>5. ASSUME NEW i \in OpenRow(f), NEW T \in SUBSET {"resolved"},
               rows' = [rows EXCEPT ![i].life = "closed", ![i].trail = @ \cup T],
               Goto(s, f, [batch[s][f] EXCEPT !.id = i, !.ch = rows[i].slug, !.msg = rows[i].ref,
                                              !.pc = IF rows[i].ref = 0 THEN "banner" ELSE "edit"])
        PROVE  IInv'
    <2>1. i \in DOMAIN rows /\ rows[i] \in Row /\ rows[i].ref \in {0} \cup DOMAIN parents
      BY OpenOne DEF IInv, Data
    <2>2. PICK e : e = [rows[i] EXCEPT !.life = "closed", !.trail = @ \cup T]
      OBVIOUS
    <2>3. e \in Row /\ e.fp = rows[i].fp /\ e.life = "closed" /\ e.ref = rows[i].ref
      BY <2>1, <2>2 DEF Row
    <2>4. rows' = [rows EXCEPT ![i] = e]
      BY <1>2, <1>5, <2>1, <2>2
    <2>5. rows' \in Seq(Row) /\ DOMAIN rows' = DOMAIN rows /\ rows'[i] = e
          /\ \A k \in DOMAIN rows : k # i => rows'[k] = rows[k]
      BY <1>2, <2>1, <2>3, <2>4, Replaced
    <2>6. Tables' /\ Grows
      BY <1>1, <2>3, <2>5, RowsChanged
    <2>7. PICK j : j = [batch[s][f] EXCEPT !.id = i, !.ch = rows[i].slug, !.msg = rows[i].ref,
                                           !.pc = IF rows[i].ref = 0 THEN "banner" ELSE "edit"]
      OBVIOUS
    <2>8. i \in Nat /\ rows[i].slug \in Channels /\ rows[i].ref \in Nat
      BY <1>2, <2>1 DEF Row
    <2>9. /\ j \in JobType /\ j.id = i /\ j.msg = rows[i].ref /\ j.st = "resolved"
          /\ (j.pc = "banner" \/ (j.pc = "edit" /\ rows[i].ref # 0))
      <3>1. CASE rows[i].ref # 0
        BY <1>2, <1>3, <2>7, <2>8, <3>1 DEF JobType, Outcomes
      <3>2. CASE rows[i].ref = 0
        <4>1. j = [batch[s][f] EXCEPT !.id = i, !.ch = rows[i].slug, !.msg = rows[i].ref, !.pc = "banner"]
          BY <2>7, <3>2
        <4> QED  BY <1>2, <1>3, <2>8, <4>1 DEF JobType, Outcomes
      <3> QED  BY <3>1, <3>2
    <2>10. rows[i].ref # 0 => rows[i].ref \in DOMAIN parents /\ parents[rows[i].ref].inc = i
      BY <2>1 DEF IInv, RefIsOwn
    <2>11. JobOK(j)'
      BY <1>1, <2>1, <2>3, <2>5, <2>9, <2>10 DEF JobOK
    <2>12. Goto(s, f, j)
      BY <1>5, <2>7
    <2> QED  BY <1>1, <1>2, <2>6, <2>9, <2>11, <2>12, OneJobMoves
  <1> QED  BY <1>4, <1>5 DEF MarkResolved

LEMMA EditParentOK == ASSUME IInv, NEW s \in Slots, NEW f, EditParent(s, f) PROVE IInv'
  <1>1. /\ InBatch(s, f) /\ batch[s][f].pc = "edit" /\ UNCHANGED <<alert, need, rows, unheard>>
        /\ parents' = [parents EXCEPT ![batch[s][f].msg].red = FALSE]
    BY DEF EditParent
  <1>2. batch[s][f] \in JobType /\ JobOK(batch[s][f]) /\ unheard' \subseteq Fingerprints
        /\ parents \in Seq(Parent)
    BY <1>1, Carried
  <1>3. /\ batch[s][f].id \in {0} \cup DOMAIN rows /\ batch[s][f].msg \in DOMAIN parents
        /\ rows[parents[batch[s][f].msg].inc].life # "open" /\ batch[s][f].st = "resolved"
    BY <1>1, <1>2 DEF JobOK
  <1>4. Tables' /\ Grows
    <2>1. PICK e : e = [parents[batch[s][f].msg] EXCEPT !.red = FALSE]
      OBVIOUS
    <2>2. parents[batch[s][f].msg] \in Parent
      BY <1>2, <1>3
    <2>3. e \in Parent /\ e.inc = parents[batch[s][f].msg].inc
      BY <2>1, <2>2 DEF Parent
    <2>4. parents' = [parents EXCEPT ![batch[s][f].msg] = e]
      BY <1>1, <2>1
    <2> QED  BY <1>1, <1>3, <2>3, <2>4, ParentGreen
  <1>5. PICK j : /\ Goto(s, f, j)
                 /\ \/ j = [batch[s][f] EXCEPT !.pc = "reply"]
                    \/ j = Done(batch[s][f], "failed")
    BY DEF EditParent
  <1>6. /\ j \in JobType /\ j.pc \in {"reply", "failed"} /\ j.st = "resolved"
        /\ j.id = batch[s][f].id /\ j.msg = batch[s][f].msg
    BY <1>2, <1>3, <1>5 DEF JobType, Outcomes, Done
  <1>7. DOMAIN parents' = DOMAIN parents
    BY <1>1, <1>2
  <1>8. JobOK(j)'
    BY <1>1, <1>3, <1>6, <1>7 DEF JobOK
  <1>9. Goto(s, f, j) /\ InBatch(s, f) /\ UNCHANGED <<alert, need>>
    BY <1>1, <1>5
  <1> QED  BY <1>2, <1>4, <1>6, <1>8, <1>9, OneJobMoves

LEMMA SweepOK == ASSUME IInv, Sweep PROVE IInv'
  <1>1. UNCHANGED <<alert, need, batch, parents, unheard>>
    BY DEF Sweep
  <1>2. PICK S \in SUBSET {i \in DOMAIN rows : rows[i].life = "closed"} :
            rows' = [i \in DOMAIN rows |->
                       IF i \in S THEN [rows[i] EXCEPT !.life = "swept", !.trail = {}] ELSE rows[i]]
    BY DEF Sweep
  <1>3. \A i \in DOMAIN rows : rows[i] \in Row
    BY DEF IInv, Data
  <1>4. ASSUME NEW i \in DOMAIN rows
        PROVE  rows'[i] \in Row /\ rows'[i].fp = rows[i].fp /\ rows'[i].ref = rows[i].ref
               /\ (rows'[i].life = "open" <=> rows[i].life = "open")
    <2>1. CASE i \in S
      <3>1. PICK e : e = [rows[i] EXCEPT !.life = "swept", !.trail = {}]
        OBVIOUS
      <3>2. e \in Row /\ e.fp = rows[i].fp /\ e.ref = rows[i].ref /\ e.life = "swept"
        BY <1>3, <3>1 DEF Row
      <3>3. rows'[i] = e /\ rows[i].life = "closed"
        BY <1>2, <2>1, <3>1
      <3> QED  BY <3>2, <3>3
    <2>2. CASE i \notin S
      BY <1>2, <1>3, <2>2
    <2> QED  BY <2>1, <2>2
  <1>5. rows' = [i \in DOMAIN rows |-> rows'[i]]
    BY <1>2
  <1>6. rows' \in Seq(Row) /\ DOMAIN rows' = DOMAIN rows
    <2>1. rows \in Seq(Row)
      BY DEF IInv, Data
    <2> QED  BY <1>4, <1>5, <2>1, Mapped
  <1>7. Tables' /\ Grows
    BY <1>1, <1>4, <1>6, RowsChanged
  <1>8. JobsOK'
    BY <1>1, <1>7, JobGrows DEF IInv, JobsOK
  <1>9. Data'
    BY <1>1, <1>7 DEF IInv, Data, Tables
  <1> QED  BY <1>7, <1>8, <1>9 DEF IInv, Tables

LEMMA StepOK == IInv /\ [Next]_vars => IInv'
  <1> SUFFICES ASSUME IInv, [Next]_vars PROVE IInv'
    OBVIOUS
  <1>1. CASE UNCHANGED vars
    <2>1. UNCHANGED <<alert, need, batch, rows, parents, unheard>>
      BY <1>1 DEF vars
    <2> QED
      BY <2>1 DEF IInv, Data, OneOpen, RefIsOwn, GreenMeansClosed, JobsOK, JobOK, Announced
  <1>2. ASSUME NEW s \in Slots, NEW f \in Fingerprints, Process(s, f) PROVE IInv'
    BY <1>2, AdmitOK, EndOK, InsertOK, FindOpenOK, PostParentOK, StoreRefOK, MarkResolvedOK, EditParentOK
       DEF Process
  <1>3. ASSUME NEW f \in Fingerprints, Flip(f) PROVE IInv'
    BY <1>3, FlipOK
  <1>4. ASSUME NEW s \in Slots, NEW F \in SUBSET Fingerprints, Deliver(s, F) PROVE IInv'
    BY <1>4, DeliverOK
  <1>5. ASSUME NEW s \in Slots, Answer(s) PROVE IInv'
    BY <1>5, AnswerOK
  <1>6. CASE Sweep
    BY <1>6, SweepOK
  <1>7. CASE CrashRestart
    BY <1>7, AnswerOK
  <1> QED  BY <1>1, <1>2, <1>3, <1>4, <1>5, <1>6, <1>7 DEF Next

LEMMA Invariance == Spec => []IInv
  BY InitOK, StepOK, PTL DEF Spec

-----------------------------------------------------------------------------
(* The invariants. *)

LEMMA DataTypes == IInv => TypeOK
  <1> SUFFICES ASSUME IInv PROVE TypeOK
    OBVIOUS
  <1>1. ASSUME NEW s \in Slots, NEW f \in DOMAIN batch[s]
        PROVE  f \in Fingerprints /\ batch[s][f] \in Job
    <2>1. batch[s][f] \in JobType /\ f \in Fingerprints
      BY JobTypes DEF IInv
    <2>2. batch[s][f].id \in {0} \cup DOMAIN rows /\ batch[s][f].msg \in {0} \cup DOMAIN parents
      BY DEF IInv, JobsOK, JobOK
    <2> QED  BY <2>1, <2>2 DEF JobType, Job
  <1>2. \A i \in DOMAIN rows : rows[i] \in Row /\ rows[i].ref \in {0} \cup DOMAIN parents
    BY DEF IInv, Data
  <1>3. \A i \in DOMAIN rows :
            /\ rows[i].fp \in Fingerprints /\ rows[i].life \in {"open", "closed", "swept"}
            /\ rows[i].slug \in Channels
            /\ rows[i].trail \subseteq {"firing", "repeat-firing", "resolved"}
            /\ rows[i].ref \in {0} \cup DOMAIN parents
    BY <1>2 DEF Row
  <1> QED  BY <1>1, <1>3 DEF TypeOK, IInv, Data

\* The ids a job holds across its calls always name rows and messages there are.
THEOREM AMTypes == Spec => []TypeOK
  BY Invariance, DataTypes, PTL

\* The reference a row keeps is to a parent of its own incident, and no parent is
\* green while its incident is open: for any number of deliveries processed at once,
\* any lost answer, retry or crash.
THEOREM MessagesDoMatch == Spec => []MessagesMatchRows
  <1>1. IInv => MessagesMatchRows
    BY DEF IInv, MessagesMatchRows
  <1> QED  BY <1>1, Invariance, PTL

-----------------------------------------------------------------------------
(* The refinement: the receiver keeps the promise of module Incidents. *)

LEMMA NoId == IdIn({}) = 0
  BY DEF IdIn

LEMMA TheId == ASSUME NEW i PROVE IdIn({i}) = i
  <1>1. (CHOOSE k \in {i} : TRUE) = i
    OBVIOUS
  <1> QED  BY <1>1 DEF IdIn

LEMMA PromiseInit == Init => Promise!Init
  <1> SUFFICES ASSUME Init PROVE Promise!Init
    OBVIOUS
  <1>1. \A f : OpenRow(f) = {}
    BY DEF Init, OpenRow
  <1>2. [f \in Fingerprints |-> OpenId(f)] = [f \in Fingerprints |-> 0]
    BY <1>1, NoId DEF OpenId
  <1>3. DOMAIN rows = {} /\ Announced = {} /\ acked = {}
    BY DEF Init, Announced
  <1> QED  BY <1>2, <1>3 DEF Promise!Init

\* The open incidents as module Incidents sees them.
Opens == [f \in Fingerprints |-> OpenId(f)]

(* Rows whose owner and openness stay. *)
LEMMA KeptOpen ==
    ASSUME DOMAIN rows' = DOMAIN rows,
           \A i \in DOMAIN rows : /\ rows'[i].fp = rows[i].fp
                                  /\ rows'[i].life = "open" <=> rows[i].life = "open"
    PROVE  Opens' = Opens /\ (DOMAIN rows)' = DOMAIN rows
  <1>1. \A f : OpenRow(f)' = OpenRow(f)
    BY DEF OpenRow
  <1>2. \A f : OpenId(f)' = OpenId(f)
    BY <1>1 DEF OpenId
  <1> QED  BY <1>2 DEF Opens

LEMMA PromiseStutter ==
    ASSUME Opens' = Opens, (DOMAIN rows)' = DOMAIN rows, Announced' = Announced, UNCHANGED acked
    PROVE  UNCHANGED Promise!vars
  BY DEF Promise!vars, Opens

(* Insert opens an incident, or nothing. *)
LEMMA InsertPromise ==
    ASSUME IInv, IInv', NEW s \in Slots, NEW f \in Fingerprints, Insert(s, f)
    PROVE  Promise!Open(f) \/ UNCHANGED Promise!vars
  <1>1. UNCHANGED <<parents, acked>> /\ Announced' = Announced
    BY DEF Insert, Announced
  <1>2. CASE UNCHANGED rows
    <2>1. Opens' = Opens /\ (DOMAIN rows)' = DOMAIN rows
      BY <1>2, KeptOpen
    <2> QED  BY <1>1, <2>1, PromiseStutter
  <1>3. ASSUME OpenRow(f) = {}, NEW e, e.fp = f, e.life = "open", e \in Row, rows' = Append(rows, e)
        PROVE  Promise!Open(f)
    <2>1. /\ DOMAIN rows' = DOMAIN rows \cup {Len(rows) + 1} /\ rows'[Len(rows) + 1] = e
          /\ \A i \in DOMAIN rows : rows'[i] = rows[i]
          /\ Len(rows) + 1 \notin DOMAIN rows /\ Len(rows) + 1 # 0
      BY <1>3, Appended, Domains DEF IInv, Data
    <2>2. PICK n : n = Len(rows) + 1
      OBVIOUS
    <2>3. OpenRow(f)' = {n}
      BY <1>3, <2>1, <2>2 DEF OpenRow
    <2>4. \A g : g # f => OpenRow(g)' = OpenRow(g)
      BY <1>3, <2>1 DEF OpenRow
    <2>5. OpenId(f) = 0 /\ OpenId(f)' = n
      BY <1>3, <2>3, NoId, TheId DEF OpenId
    <2>6. \A g : g # f => OpenId(g)' = OpenId(g)
      BY <2>4 DEF OpenId
    <2>7. /\ Opens[f] = 0 /\ Opens'[f] = n /\ Opens' = [Opens EXCEPT ![f] = Opens'[f]]
          /\ n \notin DOMAIN rows \cup {0} /\ (DOMAIN rows)' = DOMAIN rows \cup {n}
      BY <2>1, <2>2, <2>5, <2>6 DEF Opens
    <2> QED  BY <1>1, <2>7 DEF Promise!Open, Opens
  <1>4. ASSUME OpenRow(f) = {}, NEW T \in SUBSET {"firing"},
               rows' = Append(rows, [fp |-> f, life |-> "open", slug |-> batch[s][f].ch,
                                     ref |-> 0, trail |-> T])
        PROVE  Promise!Open(f)
    <2>1. PICK e : e = [fp |-> f, life |-> "open", slug |-> batch[s][f].ch, ref |-> 0, trail |-> T]
      OBVIOUS
    <2>2. batch[s][f].ch \in Channels
      BY Carried DEF Insert, JobOK
    <2>3. e \in Row /\ e.fp = f /\ e.life = "open"
      BY <2>1, <2>2 DEF Row
    <2> QED  BY <1>3, <1>4, <2>1, <2>3
  <1> QED  BY <1>2, <1>4 DEF Insert

(* MarkResolved closes one, or nothing. *)
LEMMA MarkResolvedPromise ==
    ASSUME IInv, IInv', NEW s \in Slots, NEW f \in Fingerprints, MarkResolved(s, f)
    PROVE  Promise!Close(f) \/ UNCHANGED Promise!vars
  <1>1. UNCHANGED <<parents, acked>> /\ Announced' = Announced
    BY DEF MarkResolved, Announced
  <1>2. CASE UNCHANGED rows
    <2>1. Opens' = Opens /\ (DOMAIN rows)' = DOMAIN rows
      BY <1>2, KeptOpen
    <2> QED  BY <1>1, <2>1, PromiseStutter
  <1>3. ASSUME NEW i \in OpenRow(f), NEW T \in SUBSET {"resolved"},
               rows' = [rows EXCEPT ![i].life = "closed", ![i].trail = @ \cup T]
        PROVE  Promise!Close(f)
    <2>1. i \in DOMAIN rows /\ rows[i] \in Row /\ rows[i].fp = f /\ OpenRow(f) = {i} /\ rows \in Seq(Row)
      BY OpenOne DEF IInv, Data
    <2>2. PICK e : e = [rows[i] EXCEPT !.life = "closed", !.trail = @ \cup T]
      OBVIOUS
    <2>3. e \in Row /\ e.fp = rows[i].fp /\ e.life = "closed"
      BY <2>1, <2>2 DEF Row
    <2>4. rows' = [rows EXCEPT ![i] = e]
      BY <1>3, <2>1, <2>2
    <2>5. DOMAIN rows' = DOMAIN rows /\ rows'[i] = e /\ \A k \in DOMAIN rows : k # i => rows'[k] = rows[k]
      BY <2>1, <2>3, <2>4, Replaced
    <2>6. OpenRow(f)' = {}
      BY <2>1, <2>3, <2>5 DEF OpenRow
    <2>7. \A g : g # f => OpenRow(g)' = OpenRow(g)
      BY <2>1, <2>3, <2>5 DEF OpenRow
    <2>0. i # 0
      BY <2>1, Domains
    <2>8. OpenId(f) # 0 /\ OpenId(f)' = 0 /\ \A g : g # f => OpenId(g)' = OpenId(g)
      BY <2>0, <2>1, <2>6, <2>7, NoId, TheId DEF OpenId
    <2>9. Opens[f] # 0 /\ Opens' = [Opens EXCEPT ![f] = 0] /\ (DOMAIN rows)' = DOMAIN rows
      <3>1. OpenId(f) # 0 /\ OpenId(f)' = 0
        BY <2>8
      <3>2. \A g \in Fingerprints : g # f => OpenId(g)' = OpenId(g)
        BY <2>8
      <3>3. Opens' = [Opens EXCEPT ![f] = 0]
        BY <3>1, <3>2 DEF Opens
      <3>4. Opens[f] # 0
        BY <3>1 DEF Opens
      <3> QED  BY <2>5, <3>3, <3>4
    <2>10. Opens[f] # 0 /\ Opens' = [Opens EXCEPT ![f] = 0] /\ (DOMAIN rows)' = DOMAIN rows
           /\ Announced' = Announced /\ UNCHANGED acked
      BY <1>1, <2>9
    <2> QED  BY <2>10 DEF Promise!Close, Opens
  <1> QED  BY <1>2, <1>3 DEF MarkResolved

(* A post announces its incident, again perhaps. *)
LEMMA PostPromise ==
    ASSUME IInv, NEW s \in Slots, NEW f \in Fingerprints, PostParent(s, f)
    PROVE  Promise!Announce
  <1>1. /\ batch[s][f].id \in DOMAIN rows /\ UNCHANGED <<rows, acked>> /\ parents \in Seq(Parent)
        /\ batch[s][f].ch \in Channels \cup {""} /\ batch[s][f].id \in Nat
    BY Carried DEF PostParent, JobOK, JobType
  <1>2. PICK e : e = [inc |-> batch[s][f].id, ch |-> batch[s][f].ch, red |-> TRUE]
    OBVIOUS
  <1>3. e \in Parent /\ e.inc = batch[s][f].id /\ parents' = Append(parents, e)
    BY <1>1, <1>2 DEF Parent, PostParent
  <1>4. /\ DOMAIN parents' = DOMAIN parents \cup {Len(parents) + 1} /\ parents'[Len(parents) + 1] = e
        /\ \A p \in DOMAIN parents : parents'[p] = parents[p]
    <2>1. parents \in Seq(Parent) /\ e \in Parent /\ parents' = Append(parents, e)
      BY <1>1, <1>3
    <2> HIDE <1>1, <1>3
    <2> QED  BY <2>1, Appended
  <1>5. Announced' = Announced \cup {batch[s][f].id}
    BY <1>3, <1>4 DEF Announced
  <1>6. Opens' = Opens /\ (DOMAIN rows)' = DOMAIN rows
    BY <1>1, KeptOpen
  <1> QED  BY <1>1, <1>5, <1>6 DEF Promise!Announce, Opens

(* 200 acknowledges what was announced. *)
LEMMA AnswerPromise ==
    ASSUME IInv, NEW s \in Slots, Answer(s)
    PROVE  Promise!Acknowledge \/ UNCHANGED Promise!vars
  <1>1. UNCHANGED <<rows, parents>> /\ Announced' = Announced
    BY DEF Answer, Announced
  <1>2. Opens' = Opens /\ (DOMAIN rows)' = DOMAIN rows
    BY <1>1, KeptOpen
  <1>3. CASE UNCHANGED acked
    BY <1>1, <1>2, <1>3, PromiseStutter
  <1>4. CASE acked' # acked
    <2>1. PICK S : /\ S = {batch[s][f].id : f \in
                           {g \in DOMAIN batch[s] : batch[s][g].st = "firing" /\ batch[s][g].id # 0}}
                   /\ acked' = acked \cup S
      BY <1>4 DEF Answer
    <2>2. \A f \in DOMAIN batch[s] : batch[s][f].pc \in {"processed", "dropped"}
      BY <1>4 DEF Answer, Outcomes
    <2>3. S \subseteq Announced
      BY <2>1, <2>2 DEF IInv, JobsOK, JobOK
    <2> QED  BY <1>1, <1>2, <2>1, <2>3 DEF Promise!Acknowledge, Opens
  <1> QED  BY <1>3, <1>4

LEMMA PromiseStep ==
    ASSUME IInv, IInv', [Next]_vars
    PROVE  [Promise!Next]_(Promise!vars)
  <1>1. ASSUME UNCHANGED <<rows, parents, acked>> PROVE UNCHANGED Promise!vars
    <2>1. Announced' = Announced
      BY <1>1 DEF Announced
    <2> QED  BY <1>1, <2>1, KeptOpen, PromiseStutter
  <1>2. ASSUME UNCHANGED <<parents, acked>>, DOMAIN rows' = DOMAIN rows,
               \A i \in DOMAIN rows : /\ rows'[i].fp = rows[i].fp
                                      /\ rows'[i].life = "open" <=> rows[i].life = "open"
        PROVE  UNCHANGED Promise!vars
    <2>1. Announced' = Announced
      BY <1>2 DEF Announced
    <2> QED  BY <1>2, <2>1, KeptOpen, PromiseStutter
  <1>3. \A i \in DOMAIN rows : rows[i] \in Row
    BY DEF IInv, Data
  <1>4. ASSUME NEW s \in Slots, NEW f \in Fingerprints, FindOpen(s, f) PROVE UNCHANGED Promise!vars
    <2>1. UNCHANGED <<parents, acked>>
      BY <1>4 DEF FindOpen
    <2>2. ASSUME NEW i \in OpenRow(f), NEW T \in SUBSET {"repeat-firing"},
                 rows' = [rows EXCEPT ![i].trail = @ \cup T]
          PROVE  UNCHANGED Promise!vars
      <3>1. PICK e : e = [rows[i] EXCEPT !.trail = @ \cup T]
        OBVIOUS
      <3>2. i \in DOMAIN rows /\ e \in Row /\ e.fp = rows[i].fp /\ e.life = rows[i].life
        BY <3>1, OpenOne DEF Row
      <3>3. rows' = [rows EXCEPT ![i] = e] /\ rows \in Seq(Row)
        BY <2>2, <3>1 DEF IInv, Data
      <3>4. DOMAIN rows' = DOMAIN rows /\ rows'[i] = e /\ \A k \in DOMAIN rows : k # i => rows'[k] = rows[k]
        BY <3>2, <3>3, Replaced
      <3>5. \A k \in DOMAIN rows : rows'[k].fp = rows[k].fp /\ rows'[k].life = rows[k].life
        BY <3>2, <3>4
      <3>6. \A k \in DOMAIN rows : /\ rows'[k].fp = rows[k].fp
                                   /\ rows'[k].life = "open" <=> rows[k].life = "open"
        BY <3>5
      <3> QED  BY <1>2, <2>1, <3>4, <3>6
    <2>3. \/ UNCHANGED rows
          \/ \E i \in OpenRow(f), T \in SUBSET {"repeat-firing"} : rows' = [rows EXCEPT ![i].trail = @ \cup T]
      BY <1>4 DEF FindOpen
    <2> QED  BY <1>1, <2>1, <2>2, <2>3
  <1>5. ASSUME NEW s \in Slots, NEW f \in Fingerprints, StoreRef(s, f) PROVE UNCHANGED Promise!vars
    <2>1. UNCHANGED <<parents, acked>>
      BY <1>5 DEF StoreRef
    <2>2. PICK i, m : i = batch[s][f].id /\ m = batch[s][f].msg
      OBVIOUS
    <2>3. i \in DOMAIN rows /\ m \in DOMAIN parents /\ parents \in Seq(Parent)
      BY <1>5, <2>2, Carried DEF StoreRef, JobOK
    <2>4. ASSUME rows' = [rows EXCEPT ![i].ref = IF rows[i].life = "swept" THEN @ ELSE m]
          PROVE  UNCHANGED Promise!vars
      <3>1. PICK e : e = [rows[i] EXCEPT !.ref = IF rows[i].life = "swept" THEN @ ELSE m]
        OBVIOUS
      <3>2. e \in Row /\ e.fp = rows[i].fp /\ e.life = rows[i].life
        BY <1>3, <2>3, <3>1 DEF Row
      <3>3. rows' = [rows EXCEPT ![i] = e] /\ rows \in Seq(Row)
        BY <2>4, <3>1 DEF IInv, Data
      <3>4. DOMAIN rows' = DOMAIN rows /\ rows'[i] = e /\ \A k \in DOMAIN rows : k # i => rows'[k] = rows[k]
        BY <2>3, <3>2, <3>3, Replaced
      <3>5. \A k \in DOMAIN rows : rows'[k].fp = rows[k].fp /\ rows'[k].life = rows[k].life
        BY <3>2, <3>4
      <3>6. \A k \in DOMAIN rows : /\ rows'[k].fp = rows[k].fp
                                   /\ rows'[k].life = "open" <=> rows[k].life = "open"
        BY <3>5
      <3> QED  BY <1>2, <2>1, <3>4, <3>6
    <2>5. \/ UNCHANGED rows
          \/ rows' = [rows EXCEPT ![i].ref = IF rows[i].life = "swept" THEN @ ELSE m]
      BY <1>5, <2>2 DEF StoreRef
    <2> QED  BY <1>1, <2>1, <2>4, <2>5
  <1>6. ASSUME NEW s \in Slots, NEW f \in Fingerprints, EditParent(s, f) PROVE UNCHANGED Promise!vars
    <2>1. UNCHANGED <<rows, acked>> /\ parents' = [parents EXCEPT ![batch[s][f].msg].red = FALSE]
      BY <1>6 DEF EditParent
    <2>2. batch[s][f].msg \in DOMAIN parents /\ parents \in Seq(Parent)
      BY <1>6, Carried DEF EditParent, JobOK
    <2>3. PICK e : e = [parents[batch[s][f].msg] EXCEPT !.red = FALSE]
      OBVIOUS
    <2>4. e \in Parent /\ e.inc = parents[batch[s][f].msg].inc
      <3>1. parents[batch[s][f].msg] \in Parent
        BY <2>2
      <3> QED  BY <2>3, <3>1 DEF Parent
    <2>5. parents' = [parents EXCEPT ![batch[s][f].msg] = e]
      BY <2>1, <2>3
    <2>6. DOMAIN parents' = DOMAIN parents /\ \A p \in DOMAIN parents : parents'[p].inc = parents[p].inc
      <3>1. PICK m : m = batch[s][f].msg
        OBVIOUS
      <3>2. m \in DOMAIN parents /\ parents' = [parents EXCEPT ![m] = e] /\ e.inc = parents[m].inc
        BY <2>2, <2>4, <2>5, <3>1
      <3>3. DOMAIN parents' = DOMAIN parents /\ parents'[m] = e
            /\ \A p \in DOMAIN parents : p # m => parents'[p] = parents[p]
        BY <2>2, <2>4, <3>2, Replaced
      <3> QED  BY <3>2, <3>3
    <2>7. Announced' = Announced
      BY <2>6 DEF Announced
    <2> QED  BY <2>1, <2>7, KeptOpen, PromiseStutter
  <1>7. ASSUME Sweep PROVE UNCHANGED Promise!vars
    <2>1. UNCHANGED <<parents, acked>>
      BY <1>7 DEF Sweep
    <2>2. PICK S \in SUBSET {i \in DOMAIN rows : rows[i].life = "closed"} :
              rows' = [i \in DOMAIN rows |->
                         IF i \in S THEN [rows[i] EXCEPT !.life = "swept", !.trail = {}] ELSE rows[i]]
      BY <1>7 DEF Sweep
    <2>3. ASSUME NEW i \in DOMAIN rows
          PROVE  rows'[i].fp = rows[i].fp /\ (rows'[i].life = "open" <=> rows[i].life = "open")
      <3>1. CASE i \in S
        <4>1. PICK e : e = [rows[i] EXCEPT !.life = "swept", !.trail = {}]
          OBVIOUS
        <4>2. e.fp = rows[i].fp /\ e.life = "swept"
          BY <1>3, <4>1 DEF Row
        <4> QED  BY <2>2, <3>1, <4>1, <4>2
      <3> QED  BY <2>2, <3>1
    <2>4. DOMAIN rows' = DOMAIN rows
      BY <2>2
    <2> QED  BY <1>2, <2>1, <2>3, <2>4
  <1>8. ASSUME NEW s \in Slots, NEW f \in Fingerprints, Process(s, f)
        PROVE  Promise!Next \/ UNCHANGED Promise!vars
    <2>1. Admit(s, f) \/ Fails(s, f) \/ PostBanner(s, f) \/ PostReply(s, f) => UNCHANGED <<rows, parents, acked>>
      BY DEF Admit, Fails, PostBanner, PostReply
    <2>2. Insert(s, f) => Promise!Open(f) \/ UNCHANGED Promise!vars
      BY InsertPromise
    <2>3. MarkResolved(s, f) => Promise!Close(f) \/ UNCHANGED Promise!vars
      BY MarkResolvedPromise
    <2>4. PostParent(s, f) => Promise!Announce
      BY PostPromise
    <2> QED  BY <1>1, <1>4, <1>5, <1>6, <1>8, <2>1, <2>2, <2>3, <2>4 DEF Process, Promise!Next
  <1>9. ASSUME NEW s \in Slots, Answer(s) PROVE Promise!Next \/ UNCHANGED Promise!vars
    BY <1>9, AnswerPromise DEF Promise!Next
  <1>10. (\E f \in Fingerprints : Flip(f)) \/ CrashRestart => UNCHANGED <<rows, parents, acked>>
    BY DEF Flip, CrashRestart
  <1>11. ASSUME NEW s \in Slots, NEW F \in SUBSET Fingerprints, Deliver(s, F) PROVE UNCHANGED <<rows, parents, acked>>
    BY <1>11 DEF Deliver
  <1>12. UNCHANGED vars => UNCHANGED <<rows, parents, acked>>
    BY DEF vars
  <1> QED  BY <1>1, <1>7, <1>8, <1>9, <1>10, <1>11, <1>12 DEF Next

\* The receiver implements module Incidents: whatever is lost, repeated or processed
\* at once, an alert has one open incident at most, a closed one stays closed, and
\* only an incident that was announced is ever acknowledged.
THEOREM PromiseIsKept == Spec => KeepsPromise
  <1>1. Spec => []IInv /\ [][Next]_vars
    BY Invariance, PTL DEF Spec
  <1>2. IInv /\ IInv' /\ [Next]_vars => [Promise!Next]_(Promise!vars)
    BY PromiseStep
  <1>3. Spec => Promise!Init
    BY PromiseInit DEF Spec
  <1> QED  BY <1>1, <1>2, <1>3, PTL DEF KeepsPromise, Promise!Spec
=============================================================================
