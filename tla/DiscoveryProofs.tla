-------------------------- MODULE DiscoveryProofs ---------------------------
(***************************************************************************)
(* Proofs about Discovery for any hosts, any slugs and any failures.       *)
(*                                                                         *)
(* The argument is about what a pass in the middle of its work owes: which *)
(* slugs it may hand to the removal sink, which monitors it has taken from *)
(* their snapshot row but not yet archived, and which thread it still has  *)
(* to close.                                                               *)
(***************************************************************************)
EXTENDS Discovery, TLAPS

USE SlugsTyped, Placeholders

Working == pass.at \in {"hosts", "plans"}

PassType ==
    [at : {"idle", "startup", "hosts", "plans"}, listed : [Tuples -> Outcomes],
     todo : SUBSET Tuples, keys : SUBSET Tuples, slugs : SUBSET Slugs,
     row : Tuples \cup {NoTuple}, gone : SUBSET Slugs, told : Slugs \cup {NoSlug},
     view : BOOLEAN]

\* TypeOK, with pass a record.
Types == TypeOK /\ pass \in PassType

\* No pass, no work; and a pass that works has listed something.
Quiet ==
    /\ ~Working => pass.gone = {} /\ pass.told = NoSlug /\ pass.row = NoTuple
    /\ pass.at = "plans" => pass.row = NoTuple
    /\ Working => Present(pass.listed) # {}
    /\ pass.view => pass.told # NoSlug

\* A host that was listed has been visited or will be.
Visited ==
    pass.at = "hosts" => \A t \in Tuples : pass.listed[t] # "absent" => t \in pass.keys \cup pass.todo

\* A slug on its way to the removal sink belongs to some host the pass did not list as
\* added; every slug the pass confirmed belongs to one it did.
Lost(s) == \E t \in Tuples : SlugOf[t] = s /\ pass.listed[t] # "added"

SlugsOfListed ==
    /\ \A s \in Slugs : s \in pass.gone \/ s = pass.told => Lost(s)
    /\ \A s \in pass.slugs : \E t \in Tuples : SlugOf[t] = s /\ pass.listed[t] = "added"

\* A plan of a monitor that was archived is one the pass will not confirm.
PlansActive ==
    \A s \in plans : Own(s) =>
        \/ monitor[s] = "active"
        \/ Working /\ \A t \in Tuples : SlugOf[t] = s => pass.listed[t] # "added"

HasRow(s) == \E t \in Tuples : SlugOf[t] = s /\ snapshot[t] = "added"

\* The pass is about to write its row, or about to archive it.
InHand(s) ==
    \/ s \in pass.gone \/ s = pass.told
    \/ pass.row # NoTuple /\ SlugOf[pass.row] = s /\ pass.listed[pass.row] = "added"

RowsKept == \A s \in Slugs : monitor[s] = "active" /\ s \notin stray => HasRow(s) \/ InHand(s)

\* The row knows of a red message, and so does the removal sink, or it is one of those
\* nobody will close.
ThreadsKnown ==
    \A s \in Slugs : thread[s] = "red" /\ s \notin unclosed =>
        ref[s] /\ (pass.told = s => pass.view)

IInv == /\ Types /\ Quiet /\ Visited /\ SlugsOfListed /\ PlansActive /\ RowsKept
        /\ ThreadsKnown /\ RemovedIsClosed
-----------------------------------------------------------------------------

LEMMA SlugNames == \A t \in Tuples : SlugOf[t] \in Slugs /\ SlugOf[t] # NoSlug
  BY SlugsTyped, Placeholders

LEMMA InitOK == Init => IInv
  <1> SUFFICES ASSUME Init PROVE IInv
    OBVIOUS
  <1>1. pass = Starting /\ Starting \in PassType
    BY DEF Init, Starting, Idle, PassType, Outcomes
  <1>2. pass.at = "startup" /\ pass.gone = {} /\ pass.told = NoSlug /\ pass.row = NoTuple
        /\ pass.slugs = {} /\ pass.view = FALSE
    BY <1>1 DEF Starting, Idle
  <1>3. Types
    BY <1>1 DEF Init, Types, TypeOK, PassType
  <1> QED
    BY <1>2, <1>3 DEF Init, IInv, Quiet, Working, Visited, SlugsOfListed, PlansActive, RowsKept,
       ThreadsKnown, RemovedIsClosed

(* A pass begins with nothing in hand. *)
LEMMA BeginOK ==
    ASSUME Types, Begin
    PROVE  /\ pass' \in PassType
           /\ pass'.gone = {} /\ pass'.told = NoSlug /\ pass'.row = NoTuple
           /\ pass'.slugs = {} /\ pass'.view = FALSE
           /\ \/ pass'.at = "idle"
              \/ /\ pass'.at = "hosts" /\ pass'.listed = cluster
                 /\ pass'.todo = Present(cluster) /\ Present(cluster) # {}
  <1>1. Idle \in PassType
    BY DEF Idle, PassType, Outcomes
  <1>2. CASE pass' = Idle
    BY <1>1, <1>2 DEF Idle
  <1>3. CASE /\ Present(cluster) # {}
             /\ pass' = [Idle EXCEPT !.at = "hosts", !.listed = cluster, !.todo = Present(cluster)]
    <2>1. cluster \in [Tuples -> Outcomes] /\ Present(cluster) \subseteq Tuples
      BY DEF Types, TypeOK, Present
    <2> QED  BY <1>1, <1>3, <2>1 DEF Idle, PassType
  <1> QED  BY <1>2, <1>3 DEF Begin

LEMMA BeginKeeps ==
    ASSUME IInv, ~Working, Begin, PassKeeps, nudged' \in BOOLEAN, armed' \in BOOLEAN
    PROVE  IInv'
  <1> USE DEF IInv, PassKeeps, tables, incident
  <1>1. Types'
    BY BeginOK DEF Types, TypeOK, PassType
  <1>2. Quiet'
    BY BeginOK DEF Quiet, Working, Present
  <1>5. Visited'
    BY BeginOK DEF Visited, Present
  <1>6. SlugsOfListed'
    BY BeginOK DEF SlugsOfListed
  <1>3. PlansActive' /\ RowsKept'
    BY BeginOK DEF PlansActive, RowsKept, HasRow, InHand, Quiet
  <1>4. ThreadsKnown' /\ RemovedIsClosed'
    BY BeginOK DEF ThreadsKnown, RemovedIsClosed, Quiet, Types, TypeOK
  <1> QED  BY <1>1, <1>2, <1>3, <1>4, <1>5, <1>6

(* Updates of the record of a pass keep its type. *)
LEMMA MaterializeType ==
    ASSUME pass \in PassType, NEW t \in Tuples, Materialize(t)
    PROVE  pass' \in PassType
  <1>1. PICK todo \in SUBSET Tuples, keys \in SUBSET Tuples :
            todo = pass.todo \ {t} /\ keys = pass.keys \cup {t}
    BY DEF PassType
  <1>2. PICK next : next = [pass EXCEPT !.todo = todo, !.keys = keys]
    OBVIOUS
  <1>3. next \in PassType
    BY <1>2 DEF PassType
  <1>4. [next EXCEPT !.row = t] \in PassType
    BY <1>3 DEF PassType
  <1>5. pass' = next \/ pass' = [next EXCEPT !.row = t]
    BY <1>1, <1>2 DEF Materialize, Observe
  <1> QED  BY <1>3, <1>4, <1>5

LEMMA UpsertType == ASSUME pass \in PassType, UpsertSnapshot PROVE pass' \in PassType
  <1>1. pass.row \in Tuples
    BY DEF UpsertSnapshot, PassType
  <1>2. /\ Vacated(pass.row) \in SUBSET Slugs
        /\ pass.slugs \cup Confirms(pass.row) \in SUBSET Slugs
    BY <1>1 DEF Vacated, Confirms, PassType
  <1>3. PICK gone \in SUBSET Slugs, slugs \in SUBSET Slugs :
            gone = Vacated(pass.row) /\ slugs = pass.slugs \cup Confirms(pass.row)
    BY <1>2
  <1>4. [pass EXCEPT !.row = NoTuple, !.gone = gone, !.slugs = slugs] \in PassType
    BY DEF PassType
  <1>5. [pass EXCEPT !.row = NoTuple] \in PassType
    BY DEF PassType
  <1>6. \/ pass' = [pass EXCEPT !.row = NoTuple, !.gone = gone, !.slugs = slugs]
        \/ pass' = [pass EXCEPT !.row = NoTuple]
    BY <1>3 DEF UpsertSnapshot
  <1> QED  BY <1>4, <1>5, <1>6

LEMMA PruneType == ASSUME pass \in PassType, PruneSnapshot PROVE pass' \in PassType
  <1>1. Named(IF pass.keys = {} THEN {} ELSE Tuples \ pass.keys) \in SUBSET Slugs
    BY DEF Named
  <1>2. PICK gone \in SUBSET Slugs :
            gone = Named(IF pass.keys = {} THEN {} ELSE Tuples \ pass.keys)
    BY <1>1
  <1>3. [pass EXCEPT !.at = "plans", !.gone = gone] \in PassType
    BY DEF PassType
  <1>4. [pass EXCEPT !.at = "plans"] \in PassType
    BY DEF PassType
  <1>5. \/ pass' = [pass EXCEPT !.at = "plans", !.gone = gone]
        \/ pass' = [pass EXCEPT !.at = "plans"]
    BY <1>2 DEF PruneSnapshot
  <1> QED  BY <1>3, <1>4, <1>5

LEMMA RemovedType == ASSUME pass \in PassType, NEW s, Removed(s) PROVE pass' \in PassType
  BY DEF Removed, PassType

LEMMA TypesKept == ASSUME IInv, [Next]_vars PROVE Types'
  <1> USE DEF IInv, Types, TypeOK, tables, incident, triggers, bounds
  <1>1. ASSUME NEW t \in Tuples, NEW o \in Outcomes, ClusterChanges(t, o) PROVE Types'
    BY <1>1 DEF ClusterChanges, Nudge
  <1>2. CASE Startup \/ Ticker \/ Debounced
    <2>1. Begin /\ PassKeeps /\ nudged' \in BOOLEAN /\ armed' \in BOOLEAN
      BY <1>2 DEF Startup, Ticker, Debounced
    <2>2. pass' \in PassType
      BY <2>1, BeginOK
    <2> QED  BY <2>1, <2>2 DEF PassKeeps, PassType
  <1>3. CASE TakeNudge
    BY <1>3 DEF TakeNudge, PassKeeps
  <1>4. ASSUME NEW t \in Tuples, Materialize(t) PROVE Types'
    <2>1. pass' \in PassType
      BY <1>4, MaterializeType
    <2>2. monitor' \in [Slugs -> {"none", "active", "archived"}] /\ plans' \subseteq Slugs
      BY <1>4 DEF Materialize, ReconcileMonitor
    <2>3. homeless' \subseteq Slugs /\ stray' \subseteq Slugs
      BY <1>4 DEF Materialize, ReconcileMonitor, Unrecorded
    <2> QED  BY <1>4, <2>1, <2>2, <2>3 DEF Materialize, PassType
  <1>5. CASE UpsertSnapshot
    <2>1. pass' \in PassType
      BY <1>5, UpsertType
    <2>2. snapshot' \in [Tuples -> {"none", "bare", "added"}]
      BY <1>5 DEF UpsertSnapshot, Upserted
    <2>3. stray' \subseteq Slugs
      BY <1>5 DEF UpsertSnapshot, Unrecorded, Vacated, PassType
    <2> QED  BY <1>5, <2>1, <2>2, <2>3 DEF UpsertSnapshot, PassType
  <1>6. CASE PruneSnapshot
    <2>1. \A lost \in SUBSET Tuples : Named(lost) \in SUBSET Slugs
      BY DEF Named
    <2>2. pass' \in PassType
      BY <1>6, PruneType
    <2>3. snapshot' \in [Tuples -> {"none", "bare", "added"}]
      BY <1>6 DEF PruneSnapshot
    <2>4. stray' \subseteq Slugs
      BY <1>6, <2>1 DEF PruneSnapshot
    <2> QED  BY <1>6, <2>2, <2>3, <2>4 DEF PruneSnapshot, PassType
  <1>7. CASE DropPlans
    <2>1. Idle \in PassType
      BY DEF Idle, PassType, Outcomes
    <2> QED  BY <1>7, <2>1 DEF DropPlans, PassType
  <1>8. ASSUME NEW s \in Slugs, Lookup(s) PROVE Types'
    <2>0. pass.gone \ {s} \in SUBSET Slugs
      BY DEF PassType
    <2>1. pass' \in PassType
      <3>1. CASE pass' = [pass EXCEPT !.gone = @ \ {s}]
        BY <2>0, <3>1 DEF PassType
      <3>2. CASE pass' = [pass EXCEPT !.gone = @ \ {s}, !.told = s, !.view = ref[s]]
        <4>1. CASE ref[s] = TRUE
          <5>1. pass' = [pass EXCEPT !.gone = @ \ {s}, !.told = s, !.view = TRUE]
            BY <3>2, <4>1, Zenon
          <5> QED  BY <2>0, <5>1 DEF PassType
        <4>2. CASE ref[s] = FALSE
          <5>1. pass' = [pass EXCEPT !.gone = @ \ {s}, !.told = s, !.view = FALSE]
            BY <3>2, <4>2, Zenon
          <5> QED  BY <2>0, <5>1 DEF PassType
        <4> QED  BY <4>1, <4>2
      <3> QED  BY <1>8, <3>1, <3>2 DEF Lookup
    <2>2. stray' \subseteq Slugs
      BY <1>8 DEF Lookup
    <2> QED  BY <1>8, <2>1, <2>2 DEF Lookup, PassType
  <1>9. ASSUME NEW s \in Slugs, SoftDelete(s) PROVE Types'
    <2>1. pass' \in PassType
      BY <1>9, RemovedType DEF SoftDelete
    <2>2. stray' \subseteq Slugs /\ unclosed' \subseteq Slugs
      BY <1>9 DEF SoftDelete
    <2>3. monitor' \in [Slugs -> {"none", "active", "archived"}]
      BY <1>9 DEF SoftDelete
    <2> QED  BY <1>9, <2>1, <2>2, <2>3 DEF SoftDelete, PassType
  <1>10. ASSUME NEW s \in Slugs, NotifyRemoved(s) PROVE Types'
    <2>1. pass' \in PassType
      BY <1>10, RemovedType DEF NotifyRemoved
    <2>2. thread' \in [Slugs -> {"none", "red", "green"}] /\ unclosed' \subseteq Slugs
      BY <1>10 DEF NotifyRemoved
    <2> QED  BY <1>10, <2>1, <2>2 DEF NotifyRemoved, PassType
  <1>11. CASE Refresh
    BY <1>11 DEF Refresh
  <1>12. ASSUME NEW s \in Slugs, Opens(s) \/ Recovers(s) PROVE Types'
    <2>1. down' \in [Slugs -> BOOLEAN] /\ ref' \in [Slugs -> BOOLEAN] /\ unclosed' \subseteq Slugs
      BY <1>12 DEF Opens, Recovers
    <2>2. thread' \in [Slugs -> {"none", "red", "green"}]
      BY <1>12 DEF Opens, Recovers
    <2>3. UNCHANGED <<cluster, snapshot, monitor, homeless, plans, ticking, pass, nudged, armed,
                    stray>>
      BY <1>12 DEF Opens, Recovers
    <2> QED  BY <2>1, <2>2, <2>3
  <1>13. CASE Crash
    <2>1. Starting \in PassType
      BY DEF Starting, Idle, PassType, Outcomes
    <2>2. stray' \subseteq Slugs
      BY <1>13 DEF Crash, Unrecorded, PassType
    <2>3. unclosed' \subseteq Slugs
      BY <1>13 DEF Crash, Quiet, PassType
    <2> QED  BY <1>13, <2>1, <2>2, <2>3 DEF Crash, PassType
  <1>14. CASE UNCHANGED vars
    BY <1>14 DEF vars
  <1> QED
    BY <1>1, <1>2, <1>3, <1>4, <1>5, <1>6, <1>7, <1>8, <1>9, <1>10, <1>11, <1>12, <1>13, <1>14
    DEF Next, Pass

-----------------------------------------------------------------------------
(* What an action of a pass does to the fields of pass. *)

Same(fields) == \A x \in fields : pass'[x] = pass[x]

LEMMA MaterializeStep ==
    ASSUME IInv, NEW t \in Tuples, Materialize(t)
    PROVE  /\ pass.at = "hosts" /\ pass.gone = {} /\ pass.told = NoSlug /\ pass.row = NoTuple
           /\ Same({"at", "listed", "slugs", "gone", "told", "view"})
           /\ pass'.todo = pass.todo \ {t} /\ pass'.keys = pass.keys \cup {t}
           /\ \/ /\ pass'.row = t
                 /\ pass.listed[t] = "added" =>
                       /\ monitor' = [monitor EXCEPT ![SlugOf[t]] = "active"]
                       /\ plans' = plans \cup {SlugOf[t]}
                 /\ pass.listed[t] # "added" => UNCHANGED <<monitor, plans>>
                 /\ UNCHANGED stray
              \/ pass'.row = NoTuple /\ UNCHANGED <<monitor, plans, stray>>
              \/ /\ pass'.row = NoTuple /\ UNCHANGED plans /\ pass.listed[t] = "added"
                 /\ monitor' = [monitor EXCEPT ![SlugOf[t]] = "active"]
                 /\ stray' = stray \cup Unrecorded(t)
  <1> USE DEF IInv, Types, PassType
  <1>1. pass.at = "hosts" /\ pass.gone = {} /\ pass.told = NoSlug /\ pass.row = NoTuple
    BY DEF Materialize, Visiting
  <1>2. CASE /\ pass' = [pass EXCEPT !.todo = @ \ {t}, !.keys = Observe(t, FALSE)]
             /\ UNCHANGED plans /\ pass.listed[t] = "added"
             /\ \/ UNCHANGED <<monitor, stray>>
                \/ ReconcileMonitor(SlugOf[t]) /\ stray' = stray \cup Unrecorded(t)
    BY <1>1, <1>2 DEF Same, Observe, ReconcileMonitor
  <1>3. CASE /\ pass' = [[pass EXCEPT !.todo = @ \ {t}, !.keys = Observe(t, TRUE)] EXCEPT !.row = t]
             /\ IF pass.listed[t] = "added"
                THEN ReconcileMonitor(SlugOf[t]) /\ plans' = plans \cup {SlugOf[t]}
                ELSE UNCHANGED <<monitor, plans>>
             /\ UNCHANGED stray
    BY <1>1, <1>3 DEF Same, Observe, ReconcileMonitor
  <1> QED  BY <1>2, <1>3 DEF Materialize

LEMMA UpsertStep ==
    ASSUME IInv, UpsertSnapshot
    PROVE  /\ pass.at = "hosts" /\ pass.gone = {} /\ pass.told = NoSlug /\ pass.row \in Tuples
           /\ Same({"at", "listed", "todo", "keys", "told", "view"}) /\ pass'.row = NoTuple
           /\ \/ /\ pass'.gone = Vacated(pass.row)
                 /\ pass'.slugs = pass.slugs \cup Confirms(pass.row)
                 /\ snapshot' = Upserted(pass.row)
                 /\ stray' = stray \ Confirms(pass.row)
              \/ /\ Same({"gone", "slugs"}) /\ UNCHANGED snapshot
                 /\ stray' = stray \cup Unrecorded(pass.row)
              \/ /\ Same({"gone", "slugs"}) /\ snapshot' = Upserted(pass.row)
                 /\ stray' = (stray \ Confirms(pass.row)) \cup Vacated(pass.row)
  <1> USE DEF IInv, Types, PassType
  <1>1. pass.at = "hosts" /\ pass.gone = {} /\ pass.told = NoSlug /\ pass.row \in Tuples
    BY DEF UpsertSnapshot, Visiting
  <1>2. CASE /\ pass' = [pass EXCEPT !.row = NoTuple]
             /\ \/ UNCHANGED snapshot /\ stray' = stray \cup Unrecorded(pass.row)
                \/ /\ snapshot' = Upserted(pass.row)
                   /\ stray' = (stray \ Confirms(pass.row)) \cup Vacated(pass.row)
    BY <1>1, <1>2 DEF Same
  <1>3. CASE /\ pass' = [pass EXCEPT !.row = NoTuple, !.gone = Vacated(pass.row),
                                     !.slugs = @ \cup Confirms(pass.row)]
             /\ snapshot' = Upserted(pass.row)
             /\ stray' = stray \ Confirms(pass.row)
    BY <1>1, <1>3 DEF Same
  <1> QED  BY <1>2, <1>3 DEF UpsertSnapshot

(* The snapshot without the rows of lost. *)
Pruned(lost) == [t \in Tuples |-> IF t \in lost THEN "none" ELSE snapshot[t]]

LEMMA PruneStep ==
    ASSUME IInv, PruneSnapshot
    PROVE  /\ pass.at = "hosts" /\ pass.gone = {} /\ pass.told = NoSlug /\ pass.row = NoTuple
           /\ pass'.at = "plans" /\ Same({"listed", "slugs", "row", "told", "view"})
           /\ \E lost \in SUBSET Tuples :
                 /\ \A t \in lost : pass.listed[t] = "absent"
                 /\ \/ snapshot' = Pruned(lost) /\ pass'.gone = Named(lost) /\ UNCHANGED stray
                    \/ UNCHANGED <<snapshot, stray>> /\ pass'.gone = {}
                    \/ /\ snapshot' = Pruned(lost) /\ pass'.gone = {}
                       /\ stray' = stray \cup Named(lost)
  <1> USE DEF IInv, Types, PassType
  <1>1. pass.at = "hosts" /\ pass.gone = {} /\ pass.told = NoSlug /\ pass.row = NoTuple
        /\ pass.todo = {}
    BY DEF PruneSnapshot, Visiting
  <1> DEFINE lost == IF pass.keys = {} THEN {} ELSE Tuples \ pass.keys
  <1>2. lost \in SUBSET Tuples /\ \A t \in lost : pass.listed[t] = "absent"
    BY <1>1 DEF Visited
  <1>3. \/ /\ snapshot' = Pruned(lost) /\ UNCHANGED stray
           /\ pass' = [pass EXCEPT !.at = "plans", !.gone = Named(lost)]
        \/ /\ pass' = [pass EXCEPT !.at = "plans"]
           /\ \/ UNCHANGED <<snapshot, stray>>
              \/ snapshot' = Pruned(lost) /\ stray' = stray \cup Named(lost)
    BY DEF PruneSnapshot, Pruned
  <1> HIDE DEF lost
  <1>4. pass'.at = "plans" /\ Same({"listed", "slugs", "row", "told", "view"})
    BY <1>3 DEF Same
  <1>5. \/ snapshot' = Pruned(lost) /\ pass'.gone = Named(lost) /\ UNCHANGED stray
        \/ UNCHANGED <<snapshot, stray>> /\ pass'.gone = {}
        \/ snapshot' = Pruned(lost) /\ pass'.gone = {} /\ stray' = stray \cup Named(lost)
    BY <1>1, <1>3
  <1> QED  BY <1>1, <1>2, <1>4, <1>5

LEMMA LookupStep ==
    ASSUME IInv, NEW s \in Slugs, Lookup(s)
    PROVE  /\ s \in pass.gone /\ pass.told = NoSlug
           /\ Same({"at", "listed", "todo", "keys", "slugs", "row"}) /\ pass'.gone = pass.gone \ {s}
           /\ \/ /\ monitor[s] = "active" /\ pass'.told = s /\ UNCHANGED stray
                 /\ pass'.view <=> ref[s]
              \/ /\ monitor[s] # "active" \/ s \in stray'
                 /\ Same({"told", "view"}) /\ stray \subseteq stray'
  <1> USE DEF IInv, Types, TypeOK, PassType
  <1>1. CASE pass' = [pass EXCEPT !.gone = @ \ {s}] /\ stray \subseteq stray'
             /\ (monitor[s] # "active" \/ s \in stray')
    BY <1>1 DEF Same, Lookup
  <1>2. CASE pass' = [pass EXCEPT !.gone = @ \ {s}, !.told = s, !.view = ref[s]]
             /\ monitor[s] = "active" /\ UNCHANGED stray
    <2>1. pass'.view = ref[s]
      BY <1>2, Zenon
    <2> QED  BY <1>2, <2>1 DEF Same, Lookup
  <1> QED  BY <1>1, <1>2 DEF Lookup

LEMMA SoftDeleteStep ==
    ASSUME IInv, NEW s \in Slugs, SoftDelete(s)
    PROVE  /\ pass.told = s /\ Same({"at", "listed", "todo", "keys", "slugs", "row", "gone"})
           /\ \/ /\ monitor' = [monitor EXCEPT ![s] = "archived"]
                 /\ Same({"told", "view"}) /\ UNCHANGED <<stray, unclosed>>
              \/ /\ pass'.told = NoSlug /\ ~pass'.view /\ UNCHANGED <<monitor, unclosed>>
                 /\ stray' = stray \cup {s} /\ monitor[s] = "active"
              \/ /\ pass'.told = NoSlug /\ ~pass'.view /\ UNCHANGED stray
                 /\ monitor' = [monitor EXCEPT ![s] = "archived"]
                 /\ unclosed' = IF pass.view THEN unclosed \cup {s} ELSE unclosed
  <1> USE DEF IInv, Types, PassType
  <1>1. CASE /\ Removed(s)
             /\ \/ UNCHANGED <<monitor, unclosed>> /\ stray' = stray \cup {s}
                \/ /\ monitor' = [monitor EXCEPT ![s] = "archived"] /\ UNCHANGED stray
                   /\ unclosed' = IF pass.view THEN unclosed \cup {s} ELSE unclosed
    BY <1>1 DEF SoftDelete, Removed, Same
  <1>2. CASE /\ monitor' = [monitor EXCEPT ![s] = "archived"]
             /\ UNCHANGED <<pass, stray, unclosed>>
    BY <1>2 DEF SoftDelete, Same
  <1> QED  BY <1>1, <1>2 DEF SoftDelete

LEMMA NotifyStep ==
    ASSUME IInv, NEW s \in Slugs, NotifyRemoved(s)
    PROVE  /\ pass.told = s /\ monitor[s] = "archived"
           /\ Same({"at", "listed", "todo", "keys", "slugs", "row", "gone"})
           /\ pass'.told = NoSlug /\ ~pass'.view
  BY DEF IInv, Types, PassType, NotifyRemoved, Removed, Same

-----------------------------------------------------------------------------
(* The conjuncts of IInv, one after the other. *)

(* The steps that begin a pass. *)
LEMMA StartStep ==
    ASSUME Startup \/ Ticker \/ Debounced
    PROVE  Begin /\ PassKeeps
  BY DEF Startup, Ticker, Debounced

LEMMA EndStep ==
    ASSUME DropPlans \/ Crash
    PROVE  /\ pass'.at \in {"idle", "startup"} /\ pass'.gone = {} /\ pass'.told = NoSlug
           /\ pass'.row = NoTuple /\ pass'.slugs = {} /\ pass'.view = FALSE
  BY DEF DropPlans, Crash, Starting, Idle

LEMMA QuietKept == ASSUME IInv, [Next]_vars PROVE Quiet'
  <1> USE DEF IInv, Quiet, Working
  <1>1. CASE Startup \/ Ticker \/ Debounced
    BY <1>1, StartStep, BeginOK DEF Present, PassKeeps
  <1>2. ASSUME NEW t \in Tuples, Materialize(t) PROVE Quiet'
    BY <1>2, MaterializeStep DEF Same
  <1>3. CASE UpsertSnapshot
    BY <1>3, UpsertStep DEF Same
  <1>4. CASE PruneSnapshot
    BY <1>4, PruneStep DEF Same
  <1>5. CASE DropPlans \/ Crash
    BY <1>5, EndStep
  <1>6. ASSUME NEW s \in Slugs, Lookup(s) PROVE Quiet'
    BY <1>6, LookupStep DEF Same
  <1>7. ASSUME NEW s \in Slugs, SoftDelete(s) PROVE Quiet'
    BY <1>7, SoftDeleteStep DEF Same
  <1>8. ASSUME NEW s \in Slugs, NotifyRemoved(s) PROVE Quiet'
    BY <1>8, NotifyStep DEF Same
  <1>9. CASE UNCHANGED pass
    BY <1>9
  <1> QED
    BY <1>1, <1>2, <1>3, <1>4, <1>5, <1>6, <1>7, <1>8, <1>9
    DEF Next, Pass, ClusterChanges, TakeNudge, Refresh, Opens, Recovers, vars

LEMMA VisitedKept == ASSUME IInv, [Next]_vars PROVE Visited'
  <1> USE DEF IInv, Visited
  <1>1. CASE Startup \/ Ticker \/ Debounced
    BY <1>1, StartStep, BeginOK DEF Present, PassKeeps
  <1>2. ASSUME NEW t \in Tuples, Materialize(t) PROVE Visited'
    BY <1>2, MaterializeStep DEF Same
  <1>3. CASE UpsertSnapshot
    BY <1>3, UpsertStep DEF Same
  <1>4. CASE PruneSnapshot
    BY <1>4, PruneStep DEF Same
  <1>5. CASE DropPlans \/ Crash
    BY <1>5, EndStep
  <1>6. ASSUME NEW s \in Slugs, Lookup(s) PROVE Visited'
    BY <1>6, LookupStep DEF Same
  <1>7. ASSUME NEW s \in Slugs, SoftDelete(s) PROVE Visited'
    BY <1>7, SoftDeleteStep DEF Same
  <1>8. ASSUME NEW s \in Slugs, NotifyRemoved(s) PROVE Visited'
    BY <1>8, NotifyStep DEF Same
  <1>9. CASE UNCHANGED pass
    BY <1>9
  <1> QED
    BY <1>1, <1>2, <1>3, <1>4, <1>5, <1>6, <1>7, <1>8, <1>9
    DEF Next, Pass, ClusterChanges, TakeNudge, Refresh, Opens, Recovers, vars

LEMMA NothingLost ==
    ASSUME pass'.gone = {}, pass'.told = NoSlug, pass'.slugs = {}
    PROVE  SlugsOfListed'
  <1>1. \A s \in Slugs : s # NoSlug
    BY Placeholders
  <1> QED  BY <1>1 DEF SlugsOfListed

LEMMA SlugsOfListedKept == ASSUME IInv, [Next]_vars PROVE SlugsOfListed'
  <1> USE DEF IInv, SlugsOfListed, Lost
  <1>1. CASE Startup \/ Ticker \/ Debounced
    <2>1. pass'.gone = {} /\ pass'.told = NoSlug /\ pass'.slugs = {}
      BY <1>1, StartStep, BeginOK
    <2> QED  BY <2>1, NothingLost
  <1>2. ASSUME NEW t \in Tuples, Materialize(t) PROVE SlugsOfListed'
    BY <1>2, MaterializeStep DEF Same
  <1>3. CASE UpsertSnapshot
    <2>1. pass.row \in Tuples /\ pass.gone = {} /\ pass.told = NoSlug
          /\ pass'.listed = pass.listed /\ pass'.told = pass.told
          /\ pass'.gone \subseteq Vacated(pass.row)
          /\ pass'.slugs \subseteq pass.slugs \cup Confirms(pass.row)
      BY <1>3, UpsertStep DEF Same
    <2> QED  BY <2>1 DEF Vacated, Confirms
  <1>4. CASE PruneSnapshot
    BY <1>4, PruneStep DEF Same, Named
  <1>5. CASE DropPlans \/ Crash
    BY <1>5, EndStep, NothingLost
  <1>6. ASSUME NEW s \in Slugs, Lookup(s) PROVE SlugsOfListed'
    BY <1>6, LookupStep DEF Same
  <1>7. ASSUME NEW s \in Slugs, SoftDelete(s) PROVE SlugsOfListed'
    BY <1>7, SoftDeleteStep DEF Same
  <1>8. ASSUME NEW s \in Slugs, NotifyRemoved(s) PROVE SlugsOfListed'
    BY <1>8, NotifyStep DEF Same
  <1>9. CASE UNCHANGED pass
    BY <1>9
  <1> QED
    BY <1>1, <1>2, <1>3, <1>4, <1>5, <1>6, <1>7, <1>8, <1>9
    DEF Next, Pass, ClusterChanges, TakeNudge, Refresh, Opens, Recovers, vars

LEMMA PlansActiveKept == ASSUME IInv, [Next]_vars PROVE PlansActive'
  <1> USE DEF IInv, PlansActive, Working
  <1>1. CASE Startup \/ Ticker \/ Debounced
    <2>1. ~Working
      BY <1>1 DEF Startup, Ticker, Debounced
    <2> QED  BY <1>1, <2>1, StartStep DEF PassKeeps, tables
  <1>2. ASSUME NEW t \in Tuples, Materialize(t) PROVE PlansActive'
    <2>1. SUFFICES ASSUME NEW s \in plans', Own(s), monitor'[s] # "active"
                   PROVE  Working' /\ \A u \in Tuples : SlugOf[u] = s => pass'.listed[u] # "added"
      BY DEF Own
    <2>2. s \in plans /\ monitor[s] # "active" /\ pass'.at = pass.at /\ pass'.listed = pass.listed
      BY <1>2, <2>1, MaterializeStep, SlugNames DEF Same, Types, TypeOK
    <2> QED  BY <2>1, <2>2
  <1>3. CASE UpsertSnapshot
    BY <1>3, UpsertStep DEF Same, UpsertSnapshot
  <1>4. CASE PruneSnapshot
    <2>1. UNCHANGED <<plans, monitor>>
      BY <1>4 DEF PruneSnapshot
    <2> QED  BY <1>4, <2>1, PruneStep DEF Same
  <1>5. CASE DropPlans
    <2>1. plans' = plans \cap pass.slugs /\ UNCHANGED monitor
      BY <1>5 DEF DropPlans, tables
    <2> QED  BY <2>1 DEF SlugsOfListed
  <1>6. CASE Crash
    BY <1>6 DEF Crash
  <1>7. ASSUME NEW s \in Slugs, Lookup(s) PROVE PlansActive'
    <2>1. /\ UNCHANGED <<plans, monitor>> /\ pass'.at = pass.at /\ pass'.listed = pass.listed
      BY <1>7, LookupStep DEF Same, Lookup, tables
    <2> QED  BY <2>1 DEF Working
  <1>8. ASSUME NEW s \in Slugs, SoftDelete(s) PROVE PlansActive'
    <2>1. Working /\ (Own(s) => \A t \in Tuples : SlugOf[t] = s => pass.listed[t] # "added")
      BY <1>8, SoftDeleteStep DEF Quiet, SlugsOfListed, Lost, Own
    <2>2. UNCHANGED plans /\ pass'.at = pass.at /\ pass'.listed = pass.listed
          /\ \A u \in Slugs : u # s => monitor'[u] = monitor[u]
      BY <1>8, SoftDeleteStep DEF Same, SoftDelete, Types, TypeOK
    <2>3. ASSUME NEW u \in plans', Own(u)
          PROVE  \/ monitor'[u] = "active"
                 \/ Working' /\ \A t \in Tuples : SlugOf[t] = u => pass'.listed[t] # "added"
      <3>1. CASE u = s
        BY <2>1, <2>2, <2>3, <3>1 DEF Working
      <3>2. CASE u # s
        <4>1. u \in plans /\ u \in Slugs
          BY <2>2 DEF Types, TypeOK
        <4> QED  BY <2>2, <2>3, <3>2, <4>1 DEF Working
      <3> QED  BY <3>1, <3>2
    <2> HIDE DEF IInv
    <2> QED  BY <2>3 DEF Own
  <1>9. ASSUME NEW s \in Slugs, NotifyRemoved(s) PROVE PlansActive'
    BY <1>9, NotifyStep DEF Same, NotifyRemoved, tables
  <1>10. CASE UNCHANGED <<plans, monitor, pass>>
    BY <1>10
  <1> QED
    BY <1>1, <1>2, <1>3, <1>4, <1>5, <1>6, <1>7, <1>8, <1>9, <1>10
    DEF Next, Pass, ClusterChanges, TakeNudge, PassKeeps, Refresh, Opens, Recovers, vars, tables

LEMMA RowsKeptKept == ASSUME IInv, [Next]_vars PROVE RowsKept'
  <1> USE DEF IInv, RowsKept, HasRow, InHand
  <1>1. CASE Startup \/ Ticker \/ Debounced
    <2>1. ~Working
      BY <1>1 DEF Startup, Ticker, Debounced, Working
    <2> QED  BY <1>1, <2>1, StartStep DEF PassKeeps, tables, Quiet
  <1>2. ASSUME NEW t \in Tuples, Materialize(t) PROVE RowsKept'
    <2>1. SUFFICES ASSUME NEW s \in Slugs, monitor'[s] = "active", s \notin stray'
                   PROVE  HasRow(s)' \/ InHand(s)'
      OBVIOUS
    <2>2. UNCHANGED snapshot /\ stray \subseteq stray' /\ t # NoTuple /\ pass'.listed = pass.listed
      BY <1>2, MaterializeStep DEF Materialize, Same
    <2>3. CASE pass.listed[t] = "added" /\ s = SlugOf[t] /\ pass'.row = t
      BY <2>2, <2>3
    <2>4. CASE monitor[s] = "active"
      <3>1. HasRow(s)
        BY <1>2, <2>1, <2>2, <2>4, MaterializeStep, SlugNames
      <3> QED  BY <2>2, <3>1
    <2>5. CASE pass.listed[t] = "added" /\ s = SlugOf[t] /\ stray' = stray \cup Unrecorded(t)
      BY <2>1, <2>2, <2>5 DEF Unrecorded
    <2> QED  BY <1>2, <2>1, <2>3, <2>4, <2>5, MaterializeStep DEF Types, TypeOK
  <1>3. CASE UpsertSnapshot
    <2>1. UNCHANGED monitor
      BY <1>3 DEF UpsertSnapshot
    <2>2. SUFFICES ASSUME NEW s \in Slugs, monitor[s] = "active", s \notin stray'
                   PROVE  HasRow(s)' \/ InHand(s)'
      BY <2>1
    <2>3. PICK t \in Tuples : t = pass.row /\ pass.gone = {} /\ pass.told = NoSlug
      BY <1>3, UpsertStep
    <2>4. CASE s # SlugOf[t]
      <3>1. s \notin stray
        BY <1>3, <2>2, <2>3, <2>4, UpsertStep DEF Confirms
      <3>2. HasRow(s)
        BY <2>2, <2>3, <2>4, <3>1
      <3> QED  BY <1>3, <2>3, <2>4, <3>2, UpsertStep DEF Upserted, Types, TypeOK
    <2>5. CASE s = SlugOf[t] /\ pass.listed[t] = "added"
      BY <1>3, <2>2, <2>3, <2>5, UpsertStep DEF Unrecorded, Upserted, Types, TypeOK
    <2>6. CASE s = SlugOf[t] /\ pass.listed[t] # "added"
      <3>1. s \notin stray
        BY <1>3, <2>2, <2>3, <2>6, UpsertStep DEF Confirms
      <3>2. HasRow(s)
        BY <2>2, <2>3, <2>6, <3>1
      <3>3. CASE snapshot[t] = "added"
        BY <1>3, <2>2, <2>3, <2>6, <3>2, <3>3, UpsertStep DEF Vacated
      <3>4. CASE snapshot[t] # "added"
        BY <1>3, <2>3, <2>6, <3>2, <3>4, UpsertStep DEF Upserted, Types, TypeOK
      <3> QED  BY <3>3, <3>4
    <2> QED  BY <2>4, <2>5, <2>6
  <1>4. CASE PruneSnapshot
    <2>1. PICK lost \in SUBSET Tuples :
                 \/ snapshot' = Pruned(lost) /\ pass'.gone = Named(lost) /\ UNCHANGED stray
                 \/ UNCHANGED <<snapshot, stray>> /\ pass'.gone = {}
                 \/ snapshot' = Pruned(lost) /\ pass'.gone = {} /\ stray' = stray \cup Named(lost)
      BY <1>4, PruneStep
    <2>2. UNCHANGED monitor /\ pass.row = NoTuple /\ pass.gone = {} /\ pass.told = NoSlug
      BY <1>4, PruneStep DEF PruneSnapshot
    <2>3. SUFFICES ASSUME NEW s \in Slugs, monitor[s] = "active", s \notin stray'
                   PROVE  HasRow(s)' \/ s \in pass'.gone
      BY <2>2
    <2>4. PICK t \in Tuples : SlugOf[t] = s /\ snapshot[t] = "added"
      BY <2>1, <2>2, <2>3, Placeholders
    <2>5. CASE t \in lost
      BY <2>1, <2>3, <2>4, <2>5 DEF Named
    <2>6. CASE t \notin lost
      BY <2>1, <2>4, <2>6 DEF Pruned
    <2> QED  BY <2>5, <2>6
  <1>5. CASE DropPlans
    <2>1. pass.gone = {} /\ pass.told = NoSlug /\ pass.row = NoTuple
      BY <1>5 DEF DropPlans, Quiet
    <2> QED  BY <1>5, <2>1 DEF DropPlans, tables
  <1>6. CASE Crash
    <2>1. UNCHANGED <<snapshot, monitor>>
      BY <1>6 DEF Crash, tables
    <2>2. SUFFICES ASSUME NEW s \in Slugs, monitor[s] = "active", s \notin stray' PROVE HasRow(s)
      BY <2>1
    <2>3. s \notin stray /\ s \notin pass.gone /\ s # pass.told
          /\ (pass.row # NoTuple => s \notin Unrecorded(pass.row))
      BY <1>6, <2>2 DEF Crash
    <2>4. CASE pass.row # NoTuple /\ SlugOf[pass.row] = s /\ pass.listed[pass.row] = "added"
      BY <2>3, <2>4 DEF Unrecorded, Types, PassType
    <2> QED  BY <2>2, <2>3, <2>4
  <1>7. ASSUME NEW s \in Slugs, Lookup(s) PROVE RowsKept'
    <2>1. UNCHANGED <<snapshot, monitor>>
      BY <1>7 DEF Lookup, tables
    <2>2. SUFFICES ASSUME NEW u \in Slugs, monitor[u] = "active", u \notin stray'
                   PROVE  HasRow(u) \/ InHand(u)'
      BY <2>1
    <2>3. u \notin stray /\ (HasRow(u) \/ InHand(u))
      BY <1>7, <2>2, LookupStep
    <2>4. CASE u = s
      BY <1>7, <2>2, <2>4, LookupStep
    <2>5. CASE u # s
      BY <1>7, <2>3, <2>5, LookupStep DEF Same
    <2> QED  BY <2>4, <2>5
  <1>8. ASSUME NEW s \in Slugs, SoftDelete(s) PROVE RowsKept'
    <2>1. UNCHANGED snapshot
      BY <1>8 DEF SoftDelete
    <2> QED  BY <1>8, <2>1, SoftDeleteStep DEF Same, Types, TypeOK
  <1>9. ASSUME NEW s \in Slugs, NotifyRemoved(s) PROVE RowsKept'
    <2>1. UNCHANGED <<snapshot, monitor, stray>>
      BY <1>9 DEF NotifyRemoved, tables
    <2> QED  BY <1>9, <2>1, NotifyStep DEF Same
  <1>10. CASE UNCHANGED <<snapshot, monitor, stray, pass>>
    BY <1>10
  <1> QED
    BY <1>1, <1>2, <1>3, <1>4, <1>5, <1>6, <1>7, <1>8, <1>9, <1>10
    DEF Next, Pass, ClusterChanges, TakeNudge, PassKeeps, Refresh, Opens, Recovers, vars, tables

LEMMA ThreadsKnownKept == ASSUME IInv, [Next]_vars PROVE ThreadsKnown'
  <1> USE DEF IInv, ThreadsKnown, incident
  <1>1. CASE Startup \/ Ticker \/ Debounced
    <2>1. pass'.told = NoSlug
      BY <1>1, StartStep, BeginOK
    <2> QED  BY <1>1, <2>1, StartStep DEF PassKeeps
  <1>2. ASSUME NEW t \in Tuples, Materialize(t) PROVE ThreadsKnown'
    <2>1. UNCHANGED <<thread, ref, unclosed>>
      BY <1>2 DEF Materialize
    <2> QED  BY <1>2, <2>1, MaterializeStep DEF Same
  <1>3. CASE UpsertSnapshot
    <2>1. UNCHANGED <<thread, ref, unclosed>>
      BY <1>3 DEF UpsertSnapshot
    <2> QED  BY <1>3, <2>1, UpsertStep DEF Same
  <1>4. CASE PruneSnapshot
    <2>1. UNCHANGED <<thread, ref, unclosed>>
      BY <1>4 DEF PruneSnapshot
    <2> QED  BY <1>4, <2>1, PruneStep DEF Same
  <1>5. CASE DropPlans \/ Crash
    <2>1. UNCHANGED <<thread, ref>> /\ unclosed \subseteq unclosed'
      BY <1>5 DEF DropPlans, Crash
    <2> QED  BY <1>5, <2>1, EndStep
  <1>6. ASSUME NEW s \in Slugs, Lookup(s) PROVE ThreadsKnown'
    <2>1. UNCHANGED <<thread, ref, unclosed>>
      BY <1>6 DEF Lookup
    <2> QED  BY <1>6, <2>1, LookupStep DEF Same
  <1>7. ASSUME NEW s \in Slugs, SoftDelete(s) PROVE ThreadsKnown'
    <2>1. UNCHANGED <<thread, ref>> /\ unclosed \subseteq unclosed'
      BY <1>7 DEF SoftDelete
    <2> QED  BY <1>7, <2>1, SoftDeleteStep DEF Same
  <1>8. ASSUME NEW s \in Slugs, NotifyRemoved(s) PROVE ThreadsKnown'
    <2>1. /\ UNCHANGED ref /\ unclosed \subseteq unclosed'
          /\ \A u \in Slugs : thread'[u] = "red" => thread[u] = "red"
      BY <1>8 DEF NotifyRemoved, Types, TypeOK
    <2> QED  BY <1>8, <2>1, NotifyStep
  <1>9. ASSUME NEW s \in Slugs, Opens(s) PROVE ThreadsKnown'
    <2>1. SUFFICES ASSUME NEW u \in Slugs, thread'[u] = "red", u \notin unclosed'
                   PROVE  ref'[u] /\ (pass.told = u => pass.view)
      BY <1>9 DEF Opens
    <2>2. CASE u = s
      BY <1>9, <2>1, <2>2 DEF Opens, Types, TypeOK
    <2>3. CASE u # s
      BY <1>9, <2>1, <2>3 DEF Opens, Types, TypeOK
    <2> QED  BY <2>2, <2>3
  <1>10. ASSUME NEW s \in Slugs, Recovers(s) PROVE ThreadsKnown'
    BY <1>10 DEF Recovers, Types, TypeOK
  <1>11. CASE UNCHANGED <<thread, ref, unclosed, pass.told, pass.view>>
    BY <1>11
  <1> QED
    BY <1>1, <1>2, <1>3, <1>4, <1>5, <1>6, <1>7, <1>8, <1>9, <1>10, <1>11
    DEF Next, Pass, ClusterChanges, TakeNudge, PassKeeps, Refresh, vars, Types, PassType

LEMMA RemovedIsClosedKept == ASSUME IInv, [Next]_vars PROVE RemovedIsClosed'
  <1> USE DEF IInv, RemovedIsClosed, incident, tables
  <1>1. CASE Startup \/ Ticker \/ Debounced
    <2>1. pass.told = NoSlug
      BY <1>1 DEF Startup, Ticker, Debounced, Quiet, Working
    <2> QED  BY <1>1, <2>1, StartStep, Placeholders DEF PassKeeps
  <1>2. ASSUME NEW t \in Tuples, Materialize(t) PROVE RemovedIsClosed'
    <2>1. UNCHANGED <<thread, unclosed>>
      BY <1>2 DEF Materialize
    <2>2. \A s \in Slugs : monitor'[s] = "archived" => monitor[s] = "archived"
      BY <1>2, MaterializeStep, SlugNames DEF Types, TypeOK
    <2> QED  BY <1>2, <2>1, <2>2, MaterializeStep DEF Same
  <1>3. CASE UpsertSnapshot
    <2>1. UNCHANGED <<thread, unclosed, monitor>>
      BY <1>3 DEF UpsertSnapshot
    <2> QED  BY <1>3, <2>1, UpsertStep DEF Same
  <1>4. CASE PruneSnapshot
    <2>1. UNCHANGED <<thread, unclosed, monitor>>
      BY <1>4 DEF PruneSnapshot
    <2> QED  BY <1>4, <2>1, PruneStep DEF Same
  <1>5. CASE DropPlans
    <2>1. UNCHANGED <<thread, unclosed, monitor>> /\ pass.told = NoSlug
      BY <1>5 DEF DropPlans
    <2> QED  BY <2>1, Placeholders
  <1>6. CASE Crash
    <2>1. UNCHANGED <<thread, monitor>>
          /\ unclosed' = IF pass.view THEN unclosed \cup {pass.told} ELSE unclosed
      BY <1>6 DEF Crash
    <2> QED  BY <2>1 DEF ThreadsKnown
  <1>7. ASSUME NEW s \in Slugs, Lookup(s) PROVE RemovedIsClosed'
    <2>1. UNCHANGED <<thread, unclosed, monitor>>
      BY <1>7 DEF Lookup
    <2> QED  BY <1>7, <2>1, LookupStep DEF Same
  <1>8. ASSUME NEW s \in Slugs, SoftDelete(s) PROVE RemovedIsClosed'
    <2>1. UNCHANGED thread /\ unclosed \subseteq unclosed' /\ pass.told = s
      BY <1>8 DEF SoftDelete
    <2>2. \A u \in Slugs : u # s => monitor'[u] = monitor[u]
      BY <1>8, SoftDeleteStep DEF Types, TypeOK
    <2>3. monitor'[s] = "archived" /\ pass'.told # s /\ thread[s] = "red" => s \in unclosed'
      BY <1>8, <2>1, SoftDeleteStep DEF Same, ThreadsKnown, Types, TypeOK
    <2> QED  BY <2>1, <2>2, <2>3
  <1>9. ASSUME NEW s \in Slugs, NotifyRemoved(s) PROVE RemovedIsClosed'
    <2>1. UNCHANGED monitor /\ pass.told = s
      BY <1>9 DEF NotifyRemoved
    <2>2. SUFFICES ASSUME NEW u \in Slugs, monitor[u] = "archived", thread'[u] = "red"
                   PROVE  u \in unclosed'
      BY <2>1
    <2>3. CASE u = s
      BY <1>9, <2>1, <2>2, <2>3 DEF NotifyRemoved, ThreadsKnown, Types, TypeOK
    <2>4. CASE u # s
      BY <1>9, <2>1, <2>2, <2>4 DEF NotifyRemoved, Types, TypeOK
    <2> QED  BY <2>3, <2>4
  <1>10. ASSUME NEW s \in Slugs, Opens(s) PROVE RemovedIsClosed'
    BY <1>10 DEF Opens, Types, TypeOK
  <1>11. ASSUME NEW s \in Slugs, Recovers(s) PROVE RemovedIsClosed'
    BY <1>11 DEF Recovers, Types, TypeOK
  <1>12. CASE UNCHANGED <<thread, unclosed, monitor, pass>>
    BY <1>12
  <1> QED
    BY <1>1, <1>2, <1>3, <1>4, <1>5, <1>6, <1>7, <1>8, <1>9, <1>10, <1>11, <1>12
    DEF Next, Pass, ClusterChanges, TakeNudge, PassKeeps, Refresh, vars

LEMMA StepOK == IInv /\ [Next]_vars => IInv'
  BY TypesKept, QuietKept, VisitedKept, SlugsOfListedKept, PlansActiveKept, RowsKeptKept,
     ThreadsKnownKept, RemovedIsClosedKept DEF IInv

LEMMA Invariance == Spec => []IInv
  BY InitOK, StepOK, PTL DEF Spec

-----------------------------------------------------------------------------

\* The state of a discovery pass, of the tables and of the scheduler is well typed, for
\* any cluster, any number of changes and any failures (kube.reconcile).
THEOREM DiscoveryTypes == Spec => []TypeOK
  <1>1. IInv => TypeOK
    BY DEF IInv, Types
  <1> QED  BY <1>1, Invariance, PTL

\* Between passes the monitors table, the snapshot and the plans agree, whatever slugs the
\* hosts share, but for the rows that a failed statement, a lost answer or a crash cut off
\* (UpsertDiscoverySnapshot, PruneDiscoverySnapshotExcept).
THEOREM TablesDoAgree == Spec => []TablesAgree
  <1>1. IInv => TablesAgree
    <2>1. ASSUME IInv, pass.at = "idle" PROVE \A s \in Slugs : ~InHand(s)
      BY <2>1, Placeholders DEF IInv, Quiet, Working, InHand
    <2> QED  BY <2>1 DEF IInv, TablesAgree, PlansActive, Working, RowsKept, HasRow
  <1> QED  BY <1>1, Invariance, PTL

\* A removed monitor's message is closed, but for a refused edit, a lost answer, a crash, a
\* reference that was never stored, a channel no longer configured and a late tick
\* (OnKubeMonitorRemoved, NotifyRemoved).
THEOREM RemovedAreClosed == Spec => []RemovedIsClosed
  <1>1. IInv => RemovedIsClosed
    BY DEF IInv
  <1> QED  BY <1>1, Invariance, PTL

\* No failed listing, materialize or upsert archives a monitor: one of the hosts with its
\* slug is gone or not to be monitored, in the cluster the pass listed. Nothing is assumed
\* of the slugs. And no plan goes but in a crash or after a pass that listed something.
THEOREM NothingLostToBlips == Spec => StillThereSurvives
  <1> DEFINE Survives ==
        /\ \A s \in Slugs :
             (monitor[s] = "active" /\ monitor'[s] = "archived")
               => \E t \in Tuples : SlugOf[t] = s /\ pass.listed[t] # "added"
        /\ \/ plans \subseteq plans' \/ Present(pass.listed) # {} \/ pass'.at = "startup"
  <1>1. IInv /\ [Next]_vars => [Survives]_vars
    <2> SUFFICES ASSUME IInv, [Next]_vars PROVE Survives
      OBVIOUS
    <2>1. ASSUME NEW s \in Slugs, monitor[s] = "active", monitor'[s] = "archived"
          PROVE  Lost(s)
      <3>1. ASSUME NEW u \in Tuples, Materialize(u) PROVE FALSE
        BY <2>1, <3>1, MaterializeStep, SlugNames DEF IInv, Types, TypeOK
      <3>2. ASSUME NEW u \in Slugs, SoftDelete(u) PROVE Lost(s)
        <4>1. u = s
          BY <2>1, <3>2, SoftDeleteStep DEF IInv, Types, TypeOK
        <4> QED  BY <3>2, <4>1, SoftDeleteStep DEF IInv, SlugsOfListed
      <3> QED
        BY <2>1, <3>1, <3>2
        DEF Next, Pass, ClusterChanges, Startup, Ticker, TakeNudge, Debounced, PassKeeps, UpsertSnapshot,
            PruneSnapshot, DropPlans, Lookup, NotifyRemoved, Refresh, Opens, Recovers, Crash, tables, vars
    <2>2. plans \subseteq plans' \/ Present(pass.listed) # {} \/ pass'.at = "startup"
      <3>1. ASSUME NEW u \in Tuples, Materialize(u) PROVE plans \subseteq plans'
        BY <3>1, MaterializeStep
      <3>2. CASE DropPlans
        BY <3>2 DEF DropPlans, IInv, Quiet, Working
      <3>3. CASE Crash
        BY <3>3 DEF Crash, Starting, Idle
      <3> QED
        BY <3>1, <3>2, <3>3
        DEF Next, Pass, ClusterChanges, Startup, Ticker, TakeNudge, Debounced, PassKeeps, UpsertSnapshot,
            PruneSnapshot, Lookup, SoftDelete, NotifyRemoved, Refresh, Opens, Recovers, vars
    <2> QED  BY <2>1, <2>2 DEF Lost
  <1> QED  BY <1>1, Invariance, PTL DEF Spec, StillThereSurvives
=============================================================================
