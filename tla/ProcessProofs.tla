---------------------------- MODULE ProcessProofs ----------------------------
(***************************************************************************)
(* Proofs about one process: Lifecycle for any monitors, any loops and any *)
(* number of starts and requests, Outside for any files, environments,     *)
(* schemas, workspaces, answers of Slack and limits, and Rules for any     *)
(* trees, hosts, alerts, settings, status pages and tables.                *)
(*                                                                         *)
(* The argument about Lifecycle goes along RunServe: what has been         *)
(* achieved at each phase, of the pool, the loops and the handlers on the  *)
(* way to the end, of the table on the way to the first tick. The argument *)
(* about Outside has an invariant for each kind of subject. In Rules the   *)
(* invariant says no more than that the subject is one of those given      *)
(* (TakenAsGiven); each property then follows from what the operators      *)
(* compute. The loops of Cascade are recursive functions: Induct is        *)
(* induction over a set, and Turns gives any of the loops its history,     *)
(* along which everything about layers, lists, traces and the links from   *)
(* page to page is shown.                                                  *)
(***************************************************************************)
EXTENDS Lifecycle, Rules, FiniteSetTheorems, SequenceTheorems, TLAPS

Before == {"connect", "preflight", "reconcile", "list", "remove", "notify", "bind", "start"}

Closed == {"closing", "farewell", "ended"}

\* The pool follows RunServe.
PoolFollows ==
    /\ phase \in {"down", "connect"} => pool = "none"
    /\ phase \notin {"down", "connect", "failed"} \cup Closed => pool = "open"
    /\ phase \in Closed => pool = "closed"

\* The loops run from the end of the start to the beginning of the end; only a start
\* that failed at the watcher leaves some behind.
LoopsFollow ==
    /\ phase \in {"down"} \cup Before => worker = AllOff
    /\ phase = "failed" => worker = AllOff \/ Kube \in Loops
    /\ phase \in Closed => AllDone

HandlersFollow ==
    /\ phase \in {"waiting"} \cup Closed => handlers = 0 \/ overdue
    /\ phase \in {"farewell", "ended"} => queries = 0

FarewellIsLast ==
    /\ phase \in {"draining", "waiting"} \cup Closed => signalled
    /\ heard = "shutdown" => phase \in {"ended", "down"} /\ signalled

\* The table on its way to the configuration.
TableFollows ==
    /\ phase = "reconcile" => \A m \in declared : m \in todo \/ table[m] = "active"
    /\ phase \in {"list", "remove", "notify", "bind", "start"} \cup Running =>
          \A m \in declared : table[m] = "active"
    /\ phase \in {"remove", "notify"} =>
          /\ todo \cap declared = {}
          /\ ~slipped => \A m \in Slugs : table[m] = "active" => m \in declared \cup todo
    /\ phase \in {"bind", "start"} \cup Running =>
          (~slipped => \A m \in Slugs : table[m] = "active" => m \in declared)

LifecycleInv == /\ TypeOK /\ PoolFollows /\ LoopsFollow /\ HandlersFollow /\ FarewellIsLast
        /\ TableFollows

-----------------------------------------------------------------------------

(* TypeOK in two parts, for the provers. *)
Shapes ==
    /\ table \in [Slugs -> {"absent", "active", "archived"}]
    /\ declared \subseteq Slugs /\ todo \subseteq Slugs
    /\ phase \in Phases
    /\ worker \in [Loops -> {"off", "idle", "busy", "done"}]
    /\ pool \in {"none", "open", "closed"}
    /\ signalled \in BOOLEAN /\ overdue \in BOOLEAN /\ slipped \in BOOLEAN
    /\ heard \in {"nothing", "beat", "fail", "shutdown"}

Numbers == handlers \in Nat /\ queries \in 0 .. handlers /\ lives \in Nat

LEMMA TypeParts == TypeOK <=> Shapes /\ Numbers
  BY DEF TypeOK, Shapes, Numbers

LEMMA Counts == ASSUME Numbers PROVE handlers \in Nat /\ queries \in Nat
  BY DEF Numbers

LEMMA Positive == \A n \in Nat : n > 0 => n # 0
  OBVIOUS

LEMMA LifecycleInit == Init => LifecycleInv
  <1>1. Init => TypeOK
    <2>1. Init => Shapes
      BY DEF Init, Shapes, Phases, AllOff
    <2>2. Init => Numbers
      BY LifecycleAssumption DEF Init, Numbers
    <2> QED  BY <2>1, <2>2, TypeParts
  <1>2. Init => PoolFollows /\ LoopsFollow /\ HandlersFollow /\ FarewellIsLast /\ TableFollows
    BY DEF Init, PoolFollows, LoopsFollow, HandlersFollow, FarewellIsLast, TableFollows, Before,
       Closed, Running
  <1> QED  BY <1>1, <1>2 DEF LifecycleInv

(* A loop that moves. *)
LEMMA MoveStep ==
    ASSUME LifecycleInv, NEW w \in Loops, NEW from \in {"idle", "busy"}, NEW to \in {"idle", "busy", "done"},
           MoveWorker(w, from, to)
    PROVE  /\ worker' \in [Loops -> {"off", "idle", "busy", "done"}]
           /\ phase \notin {"down", "failed"} \cup Before \cup Closed
           /\ UNCHANGED <<table, declared, phase, todo, handlers, queries, pool, signalled, overdue,
                         slipped, lives>>
  BY DEF MoveWorker, LifecycleInv, TypeOK, LoopsFollow, AllDone, AllOff

LEMMA NumbersKept == ASSUME LifecycleInv, [Next]_vars PROVE Numbers'
  <1>1. Numbers
    BY TypeParts DEF LifecycleInv
  <1> USE <1>1 DEF Numbers
  <1>2. CASE Boot
    BY <1>2 DEF Boot
  <1>3. CASE Request \/ Respond \/ Query \/ Answered
    BY <1>3 DEF Request, Respond, Query, Answered, Serve
  <1>4. CASE Gone
    BY <1>4 DEF Gone
  <1>5. CASE UNCHANGED <<handlers, queries, lives>>
    BY <1>5
  <1>6. ASSUME NEW w \in Loops, Wake(w) \/ Finish(w) \/ Quit(w)
        PROVE  UNCHANGED <<handlers, queries, lives>>
    BY <1>6 DEF Wake, Finish, Quit, MoveWorker
  <1>7. RunServe \/ Signal \/ Overrun => UNCHANGED <<handlers, queries, lives>>
    BY DEF RunServe, Connect, Preflight, ReconcileDeclared, ListPrior, RemoveUndeclared, NotifyRemoved,
       Bind, StartMost, StartKube, StartHeartbeat, StartLoops, Shutdown, StopServing, ClosePool,
       PoolClosed, Farewell, Enter, Abort, Signal, Overrun
  <1> QED  BY <1>2, <1>3, <1>4, <1>5, <1>6, <1>7 DEF Next, vars

(* Steps that leave RunServe where it is. *)
LEMMA ShapesAside ==
    ASSUME Shapes, UNCHANGED <<table, declared, phase, todo, pool, slipped>>,
           worker' \in [Loops -> {"off", "idle", "busy", "done"}],
           signalled' \in BOOLEAN, overdue' \in BOOLEAN,
           heard' \in {"nothing", "beat", "fail", "shutdown"}
    PROVE  Shapes'
  BY DEF Shapes

LEMMA ShapesKept == ASSUME LifecycleInv, [Next]_vars PROVE Shapes'
  <1>0. Shapes
    BY TypeParts DEF LifecycleInv
  <1> USE <1>0 DEF Shapes, Phases
  <1>1. CASE Abort
    BY <1>1 DEF Abort
  <1>2. CASE Boot
    BY <1>2 DEF Boot
  <1>3. CASE Connect \/ Preflight
    BY <1>1, <1>3 DEF Connect, Preflight
  <1>4. CASE ReconcileDeclared
    BY <1>1, <1>4 DEF ReconcileDeclared, Reconcile
  <1>5. CASE ListPrior
    BY <1>5 DEF ListPrior, Active
  <1>6. CASE RemoveUndeclared
    BY <1>6 DEF RemoveUndeclared
  <1>7. CASE NotifyRemoved \/ Bind \/ Shutdown \/ StopServing \/ PoolClosed
    BY ZenonT(60), <1>1, <1>7 DEF NotifyRemoved, Bind, Shutdown, StopServing, PoolClosed, Enter
  <1>8. CASE StartMost \/ StartKube \/ StartHeartbeat
    BY <1>1, <1>8 DEF StartMost, StartKube, StartHeartbeat, StartLoops
  <1>9. CASE ClosePool \/ Farewell
    BY <1>9 DEF ClosePool, Farewell
  <1>10. CASE Request \/ Respond \/ Query \/ Answered
    <2>1. UNCHANGED <<table, declared, phase, todo, worker, pool, signalled, overdue, heard, slipped>>
      BY <1>10 DEF Request, Respond, Query, Answered, Serve
    <2> QED  BY <2>1, ShapesAside
  <1>11. CASE Signal \/ Overrun
    <2>1. /\ UNCHANGED <<table, declared, phase, todo, worker, pool, heard, slipped>>
          /\ signalled' \in BOOLEAN /\ overdue' \in BOOLEAN
      BY <1>11 DEF Signal, Overrun
    <2> QED  BY <2>1, ShapesAside
  <1>12. CASE Gone
    <2>1. AllOff \in [Loops -> {"off", "idle", "busy", "done"}]
      BY DEF AllOff
    <2> QED  BY <1>12, <2>1 DEF Gone
  <1>13. ASSUME NEW w \in Loops, Wake(w) \/ Finish(w) \/ Quit(w) PROVE Shapes'
    <2>1. heard' \in {"nothing", "beat", "fail", "shutdown"}
      BY <1>13 DEF Wake, Finish, Quit
    <2>2. \/ MoveWorker(w, "idle", "busy") \/ MoveWorker(w, "busy", "idle")
          \/ MoveWorker(w, "idle", "done")
      BY <1>13 DEF Wake, Finish, Quit
    <2>3. /\ worker' \in [Loops -> {"off", "idle", "busy", "done"}]
          /\ UNCHANGED <<table, declared, phase, todo, pool, signalled, overdue, slipped>>
      BY <2>2, MoveStep
    <2> QED  BY <2>1, <2>3, ShapesAside
  <1>14. CASE UNCHANGED vars
    BY ZenonT(60), <1>14 DEF vars
  <1> QED
    BY <1>2, <1>3, <1>4, <1>5, <1>6, <1>7, <1>8, <1>9, <1>10, <1>11, <1>12, <1>13, <1>14
    DEF Next, RunServe

LEMMA OrderKept ==
    ASSUME LifecycleInv, [Next]_vars
    PROVE  PoolFollows' /\ LoopsFollow' /\ HandlersFollow' /\ FarewellIsLast'
  <1> DEFINE Order == PoolFollows /\ LoopsFollow /\ HandlersFollow /\ FarewellIsLast
  <1> USE DEF LifecycleInv, PoolFollows, LoopsFollow, HandlersFollow, FarewellIsLast, Before, Closed, Kube,
          Heartbeat
  <1>1. CASE Boot
    BY <1>1 DEF Boot
  <1>2. CASE Connect \/ Preflight
    BY <1>2 DEF Connect, Preflight, Abort
  <1>3. CASE ReconcileDeclared \/ ListPrior \/ RemoveUndeclared
    BY <1>3 DEF ReconcileDeclared, ListPrior, RemoveUndeclared, Abort
  <1>4. CASE NotifyRemoved \/ Bind
    BY <1>4 DEF NotifyRemoved, Bind, Enter, Abort
  <1>5. CASE StartMost \/ StartHeartbeat
    BY <1>5 DEF StartMost, StartHeartbeat, StartLoops
  <1>6. CASE StartKube
    BY <1>6 DEF StartKube, StartLoops, Abort
  <1>7. CASE Shutdown
    BY <1>7 DEF Shutdown, Enter
  <1>8. CASE StopServing
    BY <1>8 DEF StopServing, Drained, Enter
  <1>9. CASE ClosePool
    BY <1>9 DEF ClosePool, AllDone
  <1>10. CASE PoolClosed
    BY <1>10 DEF PoolClosed, Enter, AllDone
  <1>11. CASE Farewell
    BY <1>11 DEF Farewell, AllDone
  <1>12. CASE Request \/ Respond \/ Query \/ Answered
    <2>1. UNCHANGED <<phase, worker, pool, signalled, overdue, heard>>
      BY <1>12 DEF Request, Respond, Query, Answered, Serve
    <2>2. PoolFollows' /\ LoopsFollow' /\ FarewellIsLast'
      BY <2>1 DEF AllDone
    <2>3. Request => HandlersFollow'
      BY <2>1 DEF Request, Serve, Listening
    <2>4. Respond => HandlersFollow'
      BY <2>1 DEF Respond, Serve, TypeOK
    <2>5. Query => HandlersFollow'
      BY <2>1 DEF Query, Serve
    <2>6. Answered => HandlersFollow'
      BY <2>1 DEF Answered, Serve
    <2>7. HandlersFollow'
      BY <1>12, <2>3, <2>4, <2>5, <2>6
    <2> QED  BY <2>2, <2>7
  <1>13. CASE Signal \/ Overrun
    BY <1>13 DEF Signal, Overrun, AllDone
  <1>14. CASE Gone
    BY <1>14 DEF Gone, AllOff
  <1>15. ASSUME NEW w \in Loops, Wake(w) \/ Finish(w) \/ Quit(w) PROVE Order'
    <2>1. CASE Wake(w)
      BY <2>1, MoveStep DEF Wake
    <2>2. CASE Finish(w)
      BY <2>2, MoveStep DEF Finish
    <2>3. CASE Quit(w)
      BY <2>3, MoveStep DEF Quit
    <2> QED  BY <1>15, <2>1, <2>2, <2>3
  <1>16. CASE UNCHANGED vars
    BY <1>16 DEF vars, AllDone
  <1> QED
    BY <1>1, <1>2, <1>3, <1>4, <1>5, <1>6, <1>7, <1>8, <1>9, <1>10, <1>11, <1>12, <1>13, <1>14,
       <1>15, <1>16
    DEF Next, RunServe

LEMMA TableKept == ASSUME LifecycleInv, [Next]_vars PROVE TableFollows'
  <1> USE DEF LifecycleInv, TypeOK, TableFollows, Running
  <1>1. CASE Boot \/ Connect \/ Preflight
    BY <1>1 DEF Boot, Connect, Preflight, Abort
  <1>2. CASE ReconcileDeclared
    BY <1>2 DEF ReconcileDeclared, Reconcile, Abort
  <1>3. CASE ListPrior
    BY <1>3 DEF ListPrior, Active
  <1>4. CASE RemoveUndeclared
    <2>1. CASE todo = {} /\ phase' = "bind" /\ UNCHANGED <<table, todo, slipped>>
      BY <1>4, <2>1 DEF RemoveUndeclared
    <2>2. ASSUME NEW m \in todo, todo' = todo \ {m}, table' = [table EXCEPT ![m] = "archived"],
                 phase' = "notify", UNCHANGED slipped
          PROVE  TableFollows'
      BY <1>4, <2>2 DEF RemoveUndeclared
    <2>3. ASSUME NEW m \in todo, todo' = todo \ {m},
                 table' \in {table, [table EXCEPT ![m] = "archived"]},
                 slipped' = TRUE, UNCHANGED phase
          PROVE  TableFollows'
      BY <1>4, <2>3 DEF RemoveUndeclared
    <2> QED  BY <1>4, <2>1, <2>2, <2>3 DEF RemoveUndeclared
  <1>5. CASE NotifyRemoved \/ Bind \/ Shutdown \/ StopServing \/ PoolClosed
    BY <1>5 DEF NotifyRemoved, Bind, Shutdown, StopServing, PoolClosed, Enter, Abort
  <1>6. CASE StartMost \/ StartKube \/ StartHeartbeat
    BY <1>6 DEF StartMost, StartKube, StartHeartbeat, StartLoops, Abort
  <1>7. CASE ClosePool \/ Farewell \/ Gone
    BY <1>7 DEF ClosePool, Farewell, Gone
  <1>8. CASE UNCHANGED <<phase, table, declared, todo, slipped>>
    BY <1>8
  <1>9. ASSUME NEW w \in Loops, Wake(w) \/ Finish(w) \/ Quit(w)
        PROVE  UNCHANGED <<phase, table, declared, todo, slipped>>
    BY <1>9 DEF Wake, Finish, Quit, MoveWorker
  <1> QED
    BY <1>1, <1>2, <1>3, <1>4, <1>5, <1>6, <1>7, <1>8, <1>9
    DEF Next, RunServe, Request, Respond, Query, Answered, Serve, Signal, Overrun, vars

LEMMA LifecycleStays == LifecycleInv /\ [Next]_vars => LifecycleInv'
  <1> SUFFICES ASSUME LifecycleInv, [Next]_vars PROVE LifecycleInv'
    OBVIOUS
  <1>1. TypeOK'
    BY NumbersKept, ShapesKept DEF TypeOK, Shapes, Numbers
  <1> QED  BY <1>1, OrderKept, TableKept DEF LifecycleInv

LEMMA LifecycleInvariance == Spec => []LifecycleInv
  BY LifecycleInit, LifecycleStays, PTL DEF Spec

-----------------------------------------------------------------------------

\* RunServe, the loops, the handlers and the table keep their types, with any number of
\* monitors, loops, starts and requests.
THEOREM LifecycleTypes == Spec => []TypeOK
  <1>1. LifecycleInv => TypeOK
    BY DEF LifecycleInv
  <1> QED  BY <1>1, LifecycleInvariance, PTL

\* Whatever is killed, fails or hangs, the pool outlives its users and "shutdown" is the
\* last word (RunServe: httpServer.Shutdown, wg.Wait, pool.Close, SendShutdown).
THEOREM AlwaysStopsInOrder == Spec => []StopsInOrder
  <1>1. LifecycleInv => StopsInOrder
    <2> SUFFICES ASSUME LifecycleInv PROVE StopsInOrder
      OBVIOUS
    <2> USE DEF LifecycleInv, TypeOK, Before, Closed, Phases
    <2>1. pool = "closed" /\ phase # "failed" => phase \in Closed
      BY DEF PoolFollows
    <2>2. phase \in {"down"} \cup Closed => \A w \in Loops : worker[w] \notin {"idle", "busy"}
      BY DEF LoopsFollow, AllDone, AllOff
    <2>3. ASSUME NEW w \in Loops, worker[w] = "busy", pool # "open"
          PROVE  phase = "failed" /\ Kube \in Loops
      BY <2>2, <2>3 DEF PoolFollows, LoopsFollow, AllOff
    <2>4. pool = "closed" /\ phase # "failed" =>
              /\ AllDone
              /\ handlers > 0 => overdue
              /\ queries > 0 => phase # "farewell"
      <3>1. phase \in Closed => AllDone /\ (handlers = 0 \/ overdue)
        BY DEF LoopsFollow, HandlersFollow
      <3>2. phase = "farewell" => queries = 0
        BY DEF HandlersFollow
      <3>4. handlers \in Nat /\ queries \in Nat
        BY TypeParts, Counts
      <3>3. (handlers > 0 => handlers # 0) /\ (queries > 0 => queries # 0)
        BY <3>4, Positive, Zenon
      <3> QED  BY <2>1, <3>1, <3>2, <3>3, Zenon
    <2>5. heard = "shutdown" => phase \in {"ended", "down"} /\ signalled
      BY DEF FarewellIsLast
    <2> QED  BY <2>2, <2>3, <2>4, <2>5 DEF StopsInOrder, AllDone
  <1> QED  BY <1>1, LifecycleInvariance, PTL

\* From the first tick on the table is the configuration, however earlier starts ended
\* (ReconcileMonitor, ListActiveBySource, SoftDeleteMonitor).
THEOREM AlwaysStartsByConfig == Spec => []StartFollowsConfig
  <1>1. LifecycleInv => StartFollowsConfig
    BY DEF LifecycleInv, TypeOK, TableFollows, StartFollowsConfig, Active, Running
  <1> QED  BY <1>1, LifecycleInvariance, PTL

-----------------------------------------------------------------------------
(* Outside. *)

(* A Slack call: while it goes on, what was carried out was carried out by an *)
(* attempt whose answer left it open, and the waits that were begun stay      *)
(* within the budget.                                                         *)
CallOK(c) ==
    /\ DOMAIN c = {"attempt", "now", "carried", "doubts", "ended"}
    /\ c.now \in Nat /\ c.now <= Budget + HTTPTimeout
    /\ c.carried \in Nat /\ c.doubts \in Nat /\ c.carried <= 1 + c.doubts
    /\ c.ended = "no" => c.carried <= c.doubts /\ c.now <= Budget
    /\ c.ended = "delivered" => c.carried >= 1

CallsOK == Is("call") => DOMAIN subject = {"kind", "call"} /\ CallOK(subject.call)

LEMMA BackoffNat ==
    ASSUME NEW attempt, NEW after \in Nat
    PROVE  C!NextBackoff(attempt, after) \subseteq Nat
  BY SMT DEF C!NextBackoff

\* What is retried was not carried out or answered with a doubt, and what succeeds was.
LEMMA OnlyUnsentRetried ==
    ASSUME NEW w \in C!World
    PROVE  /\ C!Retried(C!Attempt(w)) => ~w.carried \/ C!Doubtful(w)
           /\ C!Attempt(w).kind = "none" => w.carried
           /\ w.carried \in BOOLEAN
  <1>1. w.carried \in BOOLEAN
    BY DEF C!World
  <1>2. CASE w.met = "ok"
    BY <1>1, <1>2 DEF C!World, C!Attempt, C!Retried
  <1>3. CASE w.met = "transport"
    <2>1. /\ w.error \in C!TransportErrors
          /\ w.error \in C!NeverSent => ~w.carried
      BY <1>3 DEF C!World, C!TransportErrors, C!NeverSent
    <2>2. C!Attempt(w) = C!ClassifyTransport(w.error)
      BY <1>3 DEF C!Attempt
    <2>3. /\ C!Attempt(w).kind = "transient" /\ C!Attempt(w).http = FALSE
          /\ C!Attempt(w).safe = (w.error \in C!NeverSent)
      BY <2>2 DEF C!ClassifyTransport
    <2> QED BY <1>1, <2>1, <2>3 DEF C!Retried
  <1>4. CASE w.met = "status"
    <2>1. w.error \notin C!Refusals \/ ~w.carried
      BY <1>4 DEF C!World
    <2>2. C!Doubtful(w) \/ ~w.carried
      BY <1>4, <2>1 DEF C!Doubtful
    <2>3. C!Attempt(w).kind = C!ClassifyHTTPStatus(w.error)
      BY <1>4 DEF C!Attempt
    <2>4. C!ClassifyHTTPStatus(w.error) # "none"
      BY DEF C!ClassifyHTTPStatus
    <2> QED BY <1>1, <2>2, <2>3, <2>4
  <1>5. CASE w.met = "ok=false"
    <2>1. w.error \notin C!Refusals \/ ~w.carried
      BY <1>5 DEF C!World
    <2>2. C!Doubtful(w) \/ ~w.carried
      BY <1>5, <2>1 DEF C!Doubtful
    <2>3. C!Attempt(w).kind = C!ClassifySlackCode(w.error)
      BY <1>5 DEF C!Attempt
    <2>4. C!ClassifySlackCode(w.error) # "none"
      BY DEF C!ClassifySlackCode
    <2> QED BY <1>1, <2>2, <2>3, <2>4
  <1>6. CASE w.met \in {"cut off", "garbled"}
    BY <1>1, <1>6 DEF C!World, C!Attempt, C!Retried
  <1> QED BY <1>2, <1>3, <1>4, <1>5, <1>6 DEF C!World

LEMMA AttemptOK ==
    ASSUME NEW c, CallOK(c), c.ended = "no", NEW w \in C!World, NEW took \in Takes,
           NEW after \in RetryAfters, NEW d \in C!RetryingDo(c, w, took, after)
    PROVE  CallOK(d)
  <1> DEFINE n == c.now + took
             k == IF w.carried THEN c.carried + 1 ELSE c.carried
             x == [c EXCEPT !.now = @ + took, !.carried = IF w.carried THEN @ + 1 ELSE @]
             r == C!ParseRetryAfter(after)
  <1>0. c.now \in Nat /\ c.now <= Budget /\ c.carried \in Nat /\ c.doubts \in Nat
        /\ c.carried <= c.doubts
    BY DEF CallOK
  <1>a. Budget \in Nat /\ HTTPTimeout \in Nat
    BY OutsideAssumption
  <1>b. took \in 0 .. HTTPTimeout /\ after \in Int
    BY OutsideAssumption
  <1>c. took \in Nat /\ took <= HTTPTimeout
    BY <1>a, <1>b
  <1>1. /\ c.now \in Nat /\ c.now <= Budget
        /\ took \in Nat /\ took <= HTTPTimeout /\ after \in Int /\ Budget \in Nat
        /\ HTTPTimeout \in Nat
    BY <1>0, <1>a, <1>b, <1>c
  <1>2. n \in Nat /\ n <= Budget + HTTPTimeout
    BY <1>1
  <1>3. /\ DOMAIN x = {"attempt", "now", "carried", "doubts", "ended"}
        /\ x.now = n /\ x.carried = k /\ x.doubts = c.doubts
    BY DEF CallOK
  <1>4. r \in Nat
    BY <1>1 DEF C!ParseRetryAfter
  <1>5. (w.carried /\ k = c.carried + 1) \/ (~w.carried /\ k = c.carried)
    BY OnlyUnsentRetried
  <1>11. k \in Nat /\ k <= 1 + c.doubts /\ (w.carried => k >= 1)
    BY <1>0, <1>5
  <1>6. \A how \in {"delivered", "failed"} :
            /\ DOMAIN [x EXCEPT !.ended = how] = DOMAIN x /\ [x EXCEPT !.ended = how].ended = how
            /\ [x EXCEPT !.ended = how].now = x.now /\ [x EXCEPT !.ended = how].carried = x.carried
            /\ [x EXCEPT !.ended = how].doubts = x.doubts
    BY <1>3
  <1> HIDE DEF n, k, x, r
  <1>7. CASE C!Attempt(w).kind = "none"
    <2>1. d = [x EXCEPT !.ended = "delivered"]
      BY <1>7 DEF C!RetryingDo, x
    <2>2. w.carried
      BY <1>7, OnlyUnsentRetried
    <2> QED BY <1>0, <1>2, <1>3, <1>6, <1>11, <2>1, <2>2 DEF CallOK
  <1>8. CASE d = [x EXCEPT !.ended = "failed"]
    BY <1>0, <1>2, <1>3, <1>6, <1>8, <1>11 DEF CallOK
  <1>9. CASE /\ C!Retried(C!Attempt(w))
             /\ \E wait \in C!NextBackoff(c.attempt, r) :
                   /\ ~C!GiveUp(n, wait)
                   /\ d = [x EXCEPT !.now = @ + wait, !.attempt = @ + 1,
                                    !.doubts = IF C!Doubtful(w) THEN @ + 1 ELSE @]
    <2>1. PICK wait \in C!NextBackoff(c.attempt, r) :
                   /\ ~C!GiveUp(n, wait)
                   /\ d = [x EXCEPT !.now = @ + wait, !.attempt = @ + 1,
                                    !.doubts = IF C!Doubtful(w) THEN @ + 1 ELSE @]
      BY <1>9
    <2>2. wait \in Nat
      BY <1>4, BackoffNat
    <2>3. n + wait <= Budget
      BY <1>1, <1>2, <2>1, <2>2 DEF C!GiveUp
    <2>4. /\ DOMAIN d = DOMAIN x /\ d.now = n + wait /\ d.carried = k /\ d.ended = x.ended
          /\ d.doubts = IF C!Doubtful(w) THEN c.doubts + 1 ELSE c.doubts
      BY <1>3, <2>1
    <2>5. x.ended = "no"
      BY DEF x, CallOK
    <2>6. d.doubts \in Nat /\ k <= d.doubts
      <3>1. ~w.carried \/ C!Doubtful(w)
        BY <1>9, OnlyUnsentRetried
      <3> QED BY <1>0, <1>5, <1>11, <2>4, <3>1
    <2> QED BY <1>1, <1>2, <1>3, <1>11, <2>2, <2>3, <2>4, <2>5, <2>6 DEF CallOK
  <1>10. \/ C!Attempt(w).kind = "none"
         \/ d = [x EXCEPT !.ended = "failed"]
         \/ /\ C!Retried(C!Attempt(w))
            /\ \E wait \in C!NextBackoff(c.attempt, r) :
                   /\ ~C!GiveUp(n, wait)
                   /\ d = [x EXCEPT !.now = @ + wait, !.attempt = @ + 1,
                                    !.doubts = IF C!Doubtful(w) THEN @ + 1 ELSE @]
    BY <1>3 DEF C!RetryingDo, x, r
  <1> QED BY <1>7, <1>8, <1>9, <1>10

LEMMA KindIs ==
    ASSUME "kind" \in DOMAIN subject
    PROVE  /\ TakeProxies => subject'.kind = "proxies"
           /\ TakeChannels => subject'.kind = "channels"
           /\ TakePeople => subject'.kind = "people"
           /\ FindSchema \/ Migrate \/ MigrateAgain => subject'.kind = "schema"
           /\ TakeWorkspace \/ VerifyAgain => subject'.kind = "workspace"
           /\ PlaceCall \/ CallGoesOn => subject'.kind = "call"
           /\ OpenChannel \/ AlertArrives \/ TimePasses
                \/ (\E justEngaged \in BOOLEAN : DropReports(justEngaged)) => subject'.kind = "flood"
  <1>1. /\ TakeProxies => subject'.kind = "proxies"
        /\ TakeChannels => subject'.kind = "channels"
        /\ TakePeople => subject'.kind = "people"
        /\ FindSchema => subject'.kind = "schema"
        /\ TakeWorkspace => subject'.kind = "workspace"
        /\ PlaceCall => subject'.kind = "call"
        /\ OpenChannel => subject'.kind = "flood"
    BY DEF TakeProxies, TakeChannels, TakePeople, FindSchema, TakeWorkspace, PlaceCall, OpenChannel
  <1>2. Migrate => subject'.kind = "schema"
    BY DEF Migrate, Says, Is
  <1>3. MigrateAgain => subject'.kind = "schema"
    BY DEF MigrateAgain, Is
  <1>4. VerifyAgain => subject'.kind = "workspace"
    BY DEF VerifyAgain, Is
  <1>5. CallGoesOn => subject'.kind = "call"
    BY DEF CallGoesOn, Is
  <1>6. AlertArrives => subject'.kind = "flood"
    <2> SUFFICES ASSUME AlertArrives PROVE subject'.kind = "flood"
      OBVIOUS
    <2> DEFINE a == F!Allow(subject.bucket)
    <2>1. /\ subject.kind = "flood"
          /\ \/ subject' = [subject EXCEPT !.bucket = a.bucket, !.announced = FALSE]
             \/ subject' = [subject EXCEPT !.bucket = a.bucket, !.drops = @ + 1,
                                             !.callers[a.justEngaged] = @ + 1]
      BY DEF AlertArrives, Is
    <2> HIDE DEF a
    <2> QED BY <2>1
  <1>7. TimePasses => subject'.kind = "flood"
    BY DEF TimePasses, Is
  <1>8. ASSUME NEW justEngaged \in BOOLEAN, DropReports(justEngaged) PROVE subject'.kind = "flood"
    <2> DEFINE due == F!NoticeDue(subject.bucket)
               n == F!ThrottleNotice(justEngaged, due.n)
    <2>1. /\ subject.kind = "flood"
          /\ subject' = [subject EXCEPT !.bucket = due.bucket, !.callers[justEngaged] = @ - 1,
                                     !.reported = @ + n, !.announced = @ \/ n > 0]
      BY <1>8 DEF DropReports, Is
    <2> HIDE DEF due, n
    <2> QED BY <2>1
  <1> QED BY <1>1, <1>2, <1>3, <1>4, <1>5, <1>6, <1>7, <1>8

\* Which steps lead to a subject of a kind.
LEMMA Steps ==
    ASSUME "kind" \in DOMAIN subject, [OutsideStep]_subject
    PROVE  /\ subject'.kind = "proxies" => TakeProxies \/ UNCHANGED subject
           /\ subject'.kind = "channels" => TakeChannels \/ UNCHANGED subject
           /\ subject'.kind = "people" => TakePeople \/ UNCHANGED subject
           /\ subject'.kind = "schema" => FindSchema \/ Migrate \/ MigrateAgain \/ UNCHANGED subject
           /\ subject'.kind = "workspace" => TakeWorkspace \/ VerifyAgain \/ UNCHANGED subject
           /\ subject'.kind = "call" => PlaceCall \/ CallGoesOn \/ UNCHANGED subject
           /\ subject'.kind = "flood" =>
                \/ OpenChannel \/ AlertArrives \/ TimePasses \/ UNCHANGED subject
                \/ \E justEngaged \in BOOLEAN : DropReports(justEngaged)
  BY KindIs DEF OutsideStep

LEMMA CallKept ==
    ASSUME CallsOK, "kind" \in DOMAIN subject, [OutsideStep]_subject
    PROVE  CallsOK'
  <1> SUFFICES ASSUME subject'.kind = "call"
               PROVE  DOMAIN subject' = {"kind", "call"} /\ CallOK(subject'.call)
    BY DEF CallsOK, Is
  <1>1. CASE PlaceCall
    <2>1. subject' = [kind |-> "call", call |-> C!NewCall]
      BY <1>1 DEF PlaceCall
    <2>2. CallOK(C!NewCall)
      BY OutsideAssumption DEF CallOK, C!NewCall
    <2> QED BY <2>1, <2>2
  <1>2. CASE CallGoesOn
    <2>1. /\ DOMAIN subject = {"kind", "call"} /\ CallOK(subject.call) /\ subject.call.ended = "no"
      BY <1>2 DEF CallGoesOn, CallsOK
    <2>2. PICK c : CallOK(c) /\ subject' = [subject EXCEPT !.call = c]
      <3>1. CASE subject' = [subject EXCEPT !.call = C!Cancel(@)]
        <4>1. CallOK(C!Cancel(subject.call))
          <5> DEFINE c == subject.call
          <5>1. CallOK(c) /\ c.ended = "no"
            BY <2>1
          <5> HIDE DEF c
          <5>2. CallOK(C!Cancel(c))
            BY <5>1 DEF CallOK, C!Cancel
          <5> QED BY <5>2 DEF c
        <4> QED BY <3>1, <4>1
      <3>2. CASE \E w \in C!World, took \in Takes, after \in RetryAfters :
                    \E c \in C!RetryingDo(subject.call, w, took, after) :
                        subject' = [subject EXCEPT !.call = c]
        BY <2>1, <3>2, AttemptOK
      <3> QED BY <1>2, <3>1, <3>2 DEF CallGoesOn
    <2> QED BY <2>1, <2>2
  <1>3. CASE UNCHANGED subject
    BY <1>3 DEF CallsOK, Is
  <1> QED BY <1>1, <1>2, <1>3, Steps

-----------------------------------------------------------------------------
(* A flooded channel. *)

BucketOK(b) ==
    /\ DOMAIN b = {"approvals", "dropped", "lastNotice", "engaged"}
    /\ b.dropped \in Nat /\ b.engaged \in BOOLEAN
    /\ PerChannel = 0 => ~b.engaged

\* The drops are counted or reported. Whoever started the flood has not reported
\* yet or has announced it.
FloodOK(s) ==
    /\ DOMAIN s = {"kind", "bucket", "callers", "drops", "reported", "announced"}
    /\ BucketOK(s.bucket)
    /\ s.callers \in [BOOLEAN -> Nat] /\ s.drops \in Nat /\ s.reported \in Nat
    /\ s.announced \in BOOLEAN
    /\ s.reported + s.bucket.dropped >= s.drops
    /\ s.bucket.engaged => s.announced \/ s.callers[TRUE] > 0

FloodsOK == Is("flood") => FloodOK(subject)

LEMMA PruneIs ==
    ASSUME NEW b, BucketOK(b)
    PROVE  /\ BucketOK(F!Prune(b)) /\ F!Prune(b).dropped = b.dropped
           /\ F!Prune(b).engaged = b.engaged
  <1>1. PICK a : F!Prune(b) = [b EXCEPT !.approvals = a]
    BY DEF F!Prune
  <1> QED BY <1>1 DEF BucketOK

LEMMA OlderIs ==
    ASSUME NEW b, BucketOK(b)
    PROVE  /\ BucketOK(F!Older(b)) /\ F!Older(b).dropped = b.dropped
           /\ F!Older(b).engaged = b.engaged
  <1> DEFINE aged == [i \in DOMAIN b.approvals |-> b.approvals[i] + 1]
             x == [b EXCEPT !.approvals = aged]
  <1>1. BucketOK(x) /\ x.dropped = b.dropped /\ x.engaged = b.engaged
    BY DEF BucketOK
  <1>2. PICK n : F!Older(b) = [F!Prune(x) EXCEPT !.lastNotice = n]
    BY DEF F!Older
  <1> HIDE DEF x
  <1>3. BucketOK(F!Prune(x)) /\ F!Prune(x).dropped = b.dropped /\ F!Prune(x).engaged = b.engaged
    BY <1>1, PruneIs
  <1> QED BY <1>2, <1>3 DEF BucketOK

LEMMA AllowIs ==
    ASSUME NEW b, BucketOK(b)
    PROVE  LET a == F!Allow(b)
           IN  /\ BucketOK(a.bucket) /\ a.justEngaged \in BOOLEAN
               /\ a.allowed => a.bucket.dropped = b.dropped /\ ~a.bucket.engaged
               /\ ~a.allowed => /\ a.bucket.dropped = b.dropped + 1
                                /\ a.bucket.engaged
                                /\ a.justEngaged = ~b.engaged
  <1> DEFINE p == F!Prune(b)
             a == F!Allow(b)
  <1>1. BucketOK(p) /\ p.dropped = b.dropped /\ p.engaged = b.engaged
    BY PruneIs
  <1>2. CASE PerChannel = 0
    <2>1. a = [allowed |-> TRUE, justEngaged |-> FALSE, bucket |-> b]
      BY <1>2 DEF F!Allow
    <2> QED BY <1>2, <2>1 DEF BucketOK
  <1>3. CASE PerChannel # 0 /\ Len(p.approvals) >= PerChannel
    <2>1. a = [allowed |-> FALSE, justEngaged |-> ~p.engaged,
               bucket |-> [p EXCEPT !.dropped = @ + 1, !.engaged = TRUE]]
      BY <1>3 DEF F!Allow
    <2> HIDE DEF a, p
    <2>2. /\ DOMAIN a.bucket = {"approvals", "dropped", "lastNotice", "engaged"}
          /\ a.bucket.dropped = p.dropped + 1 /\ a.bucket.engaged = TRUE
          /\ a.justEngaged = ~p.engaged /\ a.allowed = FALSE
      BY <1>1, <2>1 DEF BucketOK
    <2>3. a.bucket.dropped \in Nat /\ a.bucket.dropped = b.dropped + 1
      BY <1>1, <2>2 DEF BucketOK
    <2>4. BucketOK(a.bucket)
      BY <1>3, <2>2, <2>3 DEF BucketOK
    <2>5. a.justEngaged \in BOOLEAN /\ a.justEngaged = ~b.engaged
      BY <1>1, <2>2
    <2> QED BY <2>2, <2>3, <2>4, <2>5 DEF a
  <1>4. CASE PerChannel # 0 /\ ~(Len(p.approvals) >= PerChannel)
    <2>1. a = [allowed |-> TRUE, justEngaged |-> FALSE,
               bucket |-> [p EXCEPT !.approvals = Append(@, 0), !.engaged = FALSE]]
      BY <1>4 DEF F!Allow
    <2> HIDE DEF a, p
    <2>2. /\ DOMAIN a.bucket = {"approvals", "dropped", "lastNotice", "engaged"}
          /\ a.bucket.dropped = p.dropped /\ a.bucket.engaged = FALSE
          /\ a.justEngaged = FALSE /\ a.allowed = TRUE
      BY <1>1, <2>1 DEF BucketOK
    <2> QED BY <1>1, <1>4, <2>2 DEF BucketOK, a
  <1> QED BY <1>2, <1>3, <1>4

LEMMA OneMore == \A n \in Nat : n + 1 > 0
  OBVIOUS

LEMMA NoticeIs ==
    ASSUME NEW b, BucketOK(b)
    PROVE  LET due == F!NoticeDue(b)
           IN  /\ BucketOK(due.bucket) /\ due.n \in Nat /\ due.n + due.bucket.dropped = b.dropped
               /\ due.bucket.engaged = b.engaged
  <1> DEFINE due == F!NoticeDue(b)
  <1>1. CASE due = [n |-> 0, bucket |-> b]
    <2> HIDE DEF due
    <2>1. due.n = 0 /\ due.bucket = b
      BY <1>1
    <2> QED BY <2>1 DEF BucketOK, due
  <1>2. CASE due = [n |-> b.dropped, bucket |-> [b EXCEPT !.dropped = 0, !.lastNotice = 0]]
    <2> HIDE DEF due
    <2>1. /\ due.n = b.dropped /\ DOMAIN due.bucket = DOMAIN b
          /\ due.bucket.dropped = 0 /\ due.bucket.engaged = b.engaged
      BY <1>2 DEF BucketOK
    <2>2. BucketOK(due.bucket)
      BY <2>1 DEF BucketOK
    <2> QED BY <2>1, <2>2 DEF BucketOK, due
  <1> QED BY <1>1, <1>2 DEF F!NoticeDue

LEMMA FloodKept ==
    ASSUME FloodsOK, "kind" \in DOMAIN subject, [OutsideStep]_subject
    PROVE  FloodsOK'
  <1> SUFFICES ASSUME subject'.kind = "flood" PROVE FloodOK(subject')
    BY DEF FloodsOK, Is
  <1>1. CASE OpenChannel
    <2> DEFINE s == subject'
    <2>1. s = [kind |-> "flood", bucket |-> F!NewBucket, callers |-> [told \in BOOLEAN |-> 0],
                drops |-> 0, reported |-> 0, announced |-> FALSE]
      BY <1>1 DEF OpenChannel
    <2>2. BucketOK(F!NewBucket) /\ F!NewBucket.dropped = 0 /\ F!NewBucket.engaged = FALSE
      BY DEF F!NewBucket, BucketOK
    <2> HIDE DEF s
    <2> QED BY <2>1, <2>2 DEF FloodOK, s
  <1>2. CASE AlertArrives
    <2> DEFINE b == subject.bucket
               a == F!Allow(b)
    <2>1. FloodOK(subject) /\ BucketOK(b)
      BY <1>2 DEF AlertArrives, FloodsOK, FloodOK
    <2>2. /\ BucketOK(a.bucket) /\ a.justEngaged \in BOOLEAN
          /\ a.allowed => a.bucket.dropped = b.dropped /\ ~a.bucket.engaged
          /\ ~a.allowed => /\ a.bucket.dropped = b.dropped + 1
                           /\ a.bucket.engaged
                           /\ a.justEngaged = ~b.engaged
      BY <2>1, AllowIs
    <2>3. IF a.allowed THEN subject' = [subject EXCEPT !.bucket = a.bucket, !.announced = FALSE]
          ELSE subject' = [subject EXCEPT !.bucket = a.bucket, !.drops = @ + 1,
                                             !.callers[a.justEngaged] = @ + 1]
      BY <1>2 DEF AlertArrives
    <2> HIDE DEF a
    <2>4. CASE a.allowed
      <3>1. /\ DOMAIN subject' = DOMAIN subject /\ subject'.bucket = a.bucket
            /\ subject'.announced = FALSE /\ subject'.drops = subject.drops
            /\ subject'.callers = subject.callers /\ subject'.reported = subject.reported
        BY <2>1, <2>3, <2>4 DEF FloodOK
      <3> QED BY <2>1, <2>2, <2>4, <3>1 DEF FloodOK
    <2>5. CASE ~a.allowed
      <3>1. /\ DOMAIN subject' = DOMAIN subject /\ subject'.bucket = a.bucket
            /\ subject'.announced = subject.announced /\ subject'.drops = subject.drops + 1
            /\ subject'.callers = [subject.callers EXCEPT ![a.justEngaged] = @ + 1]
            /\ subject'.reported = subject.reported
        BY <2>1, <2>3, <2>5 DEF FloodOK
      <3>2. subject'.callers \in [BOOLEAN -> Nat]
        BY <2>1, <2>2, <3>1 DEF FloodOK
      <3>3. subject'.announced \/ subject'.callers[TRUE] > 0
        <4>1. CASE subject.bucket.engaged
          <5>1. subject.announced \/ subject.callers[TRUE] > 0
            BY <2>1, <4>1 DEF FloodOK
          <5>2. subject.callers[TRUE] > 0 => subject'.callers[TRUE] > 0
            <6> DEFINE k == subject.callers
            <6>1. k \in [BOOLEAN -> Nat] /\ a.justEngaged \in BOOLEAN
              BY <2>1, <2>2 DEF FloodOK
            <6> HIDE DEF k
            <6>2. [k EXCEPT ![a.justEngaged] = @ + 1][TRUE] \in {k[TRUE], k[TRUE] + 1}
              BY <6>1
            <6>3. k[TRUE] > 0 => k[TRUE] + 1 > 0
              BY <6>1, OneMore
            <6> QED BY <3>1, <6>2, <6>3 DEF k
          <5> QED BY <3>1, <5>1, <5>2
        <4>2. CASE ~subject.bucket.engaged
          <5>1. a.justEngaged = TRUE
            BY <2>2, <2>5, <4>2
          <5>2. subject'.callers[TRUE] = subject.callers[TRUE] + 1 /\ subject.callers[TRUE] \in Nat
            BY <2>1, <3>1, <5>1 DEF FloodOK
          <5>3. subject'.callers[TRUE] > 0
            BY <5>2, OneMore
          <5> QED BY <5>3
        <4> QED BY <4>1, <4>2
      <3>4. /\ subject'.drops \in Nat /\ subject'.reported \in Nat
            /\ subject'.reported + subject'.bucket.dropped >= subject'.drops
        BY <2>1, <2>2, <2>5, <3>1 DEF FloodOK, BucketOK
      <3>5. DOMAIN subject' = {"kind", "bucket", "callers", "drops", "reported", "announced"}
            /\ BucketOK(subject'.bucket) /\ subject'.announced \in BOOLEAN
        BY <2>1, <2>2, <3>1 DEF FloodOK
      <3> QED BY <3>2, <3>3, <3>4, <3>5 DEF FloodOK
    <2> QED BY <2>4, <2>5
  <1>3. CASE TimePasses
    <2> DEFINE b == F!Older(subject.bucket)
    <2>1. FloodOK(subject) /\ BucketOK(subject.bucket) /\ subject' = [subject EXCEPT !.bucket = b]
      BY <1>3 DEF TimePasses, FloodsOK, FloodOK
    <2>2. BucketOK(b) /\ b.dropped = subject.bucket.dropped /\ b.engaged = subject.bucket.engaged
      BY <2>1, OlderIs
    <2> HIDE DEF b
    <2>3. /\ DOMAIN subject' = DOMAIN subject /\ subject'.bucket = b
          /\ subject'.announced = subject.announced /\ subject'.drops = subject.drops
          /\ subject'.callers = subject.callers /\ subject'.reported = subject.reported
      BY <2>1 DEF FloodOK
    <2> QED BY <2>1, <2>2, <2>3 DEF FloodOK
  <1>4. ASSUME NEW justEngaged \in BOOLEAN, DropReports(justEngaged) PROVE FloodOK(subject')
    <2> DEFINE due == F!NoticeDue(subject.bucket)
               n == F!ThrottleNotice(justEngaged, due.n)
    <2>1. FloodOK(subject) /\ BucketOK(subject.bucket) /\ subject.callers[justEngaged] > 0
      BY <1>4 DEF DropReports, FloodsOK, FloodOK
    <2>2. /\ BucketOK(due.bucket) /\ due.n \in Nat
          /\ due.n + due.bucket.dropped = subject.bucket.dropped
          /\ due.bucket.engaged = subject.bucket.engaged
      BY <2>1, NoticeIs
    <2>3. subject' = [subject EXCEPT !.bucket = due.bucket, !.callers[justEngaged] = @ - 1,
                                     !.reported = @ + n, !.announced = @ \/ n > 0]
      BY <1>4 DEF DropReports
    <2> HIDE DEF due
    <2>4. n \in Nat /\ n >= due.n /\ (justEngaged => n > 0)
      BY <2>2 DEF F!ThrottleNotice
    <2> HIDE DEF n
    <2>5. /\ DOMAIN subject' = DOMAIN subject /\ subject'.bucket = due.bucket
          /\ subject'.announced = (subject.announced \/ n > 0) /\ subject'.drops = subject.drops
          /\ subject'.callers = [subject.callers EXCEPT ![justEngaged] = @ - 1]
          /\ subject'.reported = subject.reported + n
      BY <2>1, <2>3 DEF FloodOK
    <2>6. subject'.callers \in [BOOLEAN -> Nat]
      BY <1>4, <2>1, <2>5 DEF FloodOK
    <2>7. /\ subject'.drops \in Nat /\ subject'.reported \in Nat
          /\ subject'.reported + subject'.bucket.dropped >= subject'.drops
      BY <2>1, <2>2, <2>4, <2>5 DEF FloodOK, BucketOK
    <2>8. subject'.bucket.engaged => subject'.announced \/ subject'.callers[TRUE] > 0
      <3>1. subject'.bucket.engaged => subject.announced \/ subject.callers[TRUE] > 0
        BY <2>1, <2>2, <2>5 DEF FloodOK
      <3>2. CASE justEngaged = TRUE
        BY <2>4, <2>5, <3>2
      <3>3. CASE justEngaged = FALSE
        <4>1. subject'.callers[TRUE] = subject.callers[TRUE]
          BY <2>1, <2>5, <3>3 DEF FloodOK
        <4> QED BY <2>5, <3>1, <4>1
      <3> QED BY <1>4, <3>2, <3>3
    <2>9. DOMAIN subject' = {"kind", "bucket", "callers", "drops", "reported", "announced"}
          /\ BucketOK(subject'.bucket) /\ subject'.announced \in BOOLEAN
      BY <2>1, <2>2, <2>5 DEF FloodOK
    <2> QED BY <2>6, <2>7, <2>8, <2>9 DEF FloodOK
  <1>5. CASE UNCHANGED subject
    BY <1>5 DEF FloodsOK, Is
  <1> QED BY <1>1, <1>2, <1>3, <1>4, <1>5, Steps

-----------------------------------------------------------------------------
(* The schema, and the workspace. *)

Schema == [version : Nat, dirty : BOOLEAN]

\* A run that has got past what it found has left a clean version that the binary
\* knows.
SchemaOK(s) ==
    /\ DOMAIN s = {"kind", "schema", "from", "said"}
    /\ s.schema \in Schema /\ s.from \in Schema
    /\ s.said = "running" =>
          s.schema = s.from \/ (~s.schema.dirty /\ s.schema.version <= Latest)
    /\ s.said = "done" => S!Check(s.schema) \/ (s.schema = s.from /\ S!NothingPending(s.from))

SchemasOK == Is("schema") => SchemaOK(subject)

LEMMA AppliedIs ==
    ASSUME NEW s \in Schema
    PROVE  S!Applied(s) \in Schema /\ S!Applied(s).version = s.version /\ ~S!Applied(s).dirty
  BY DEF S!Applied, Schema

LEMMA SchemaKept ==
    ASSUME SchemasOK, "kind" \in DOMAIN subject, [OutsideStep]_subject
    PROVE  SchemasOK'
  <1> SUFFICES ASSUME subject'.kind = "schema" PROVE SchemaOK(subject')
    BY DEF SchemasOK, Is
  <1>0. Latest \in Nat
    BY OutsideAssumption
  <1>1. CASE FindSchema
    <2>1. PICK v \in 0 .. Latest + 1, dirty \in BOOLEAN :
             subject' = [kind |-> "schema", schema |-> [version |-> v, dirty |-> dirty],
                         from |-> [version |-> v, dirty |-> dirty], said |-> "running"]
      BY <1>1 DEF FindSchema
    <2>2. [version |-> v, dirty |-> dirty] \in Schema
      BY <1>0, <2>1 DEF Schema
    <2> QED BY <2>1, <2>2 DEF SchemaOK
  <1>2. CASE Migrate
    <2> DEFINE s == subject.schema
               next == S!Applying(s, s.version + 1)
    <2>1. SchemaOK(subject) /\ subject.said = "running" /\ s \in Schema
      BY <1>2 DEF Migrate, SchemasOK, SchemaOK
    <2>2. next = [version |-> s.version + 1, dirty |-> TRUE]
      BY DEF S!Applying
    <2>3. /\ next \in Schema /\ S!Applied(next) \in Schema
          /\ S!Applied(next).version = s.version + 1 /\ ~S!Applied(next).dirty
      <3>1. s.version + 1 \in Nat
        BY <2>1 DEF Schema
      <3> DEFINE n == s.version + 1
      <3> HIDE DEF n
      <3>2. next = [version |-> n, dirty |-> TRUE] /\ n \in Nat
        BY <2>2, <3>1 DEF n
      <3> HIDE DEF next
      <3>3. next \in Schema /\ next.version = n
        BY <3>2 DEF Schema
      <3> QED BY <3>3, AppliedIs DEF n
    <2> HIDE DEF next
    <2>4. ASSUME NEW word, NEW x \in Schema, Says(word, x)
          PROVE  /\ DOMAIN subject' = {"kind", "schema", "from", "said"}
                 /\ subject'.schema = x /\ subject'.from = subject.from /\ subject'.said = word
      BY <2>1, <2>4 DEF Says, SchemaOK
    <2>5. CASE S!NothingPending(s) /\ Says("done", s)
      <3>1. s = subject.from \/ (~s.dirty /\ s.version <= Latest)
        BY <2>1 DEF SchemaOK
      <3>2. S!Check(s) \/ (s = subject.from /\ S!NothingPending(subject.from))
        BY <1>0, <2>1, <2>5, <3>1 DEF S!Check, S!NothingPending, Schema
      <3> QED BY <2>1, <2>4, <2>5, <3>2 DEF SchemaOK
    <2>6. CASE \E x \in Schema : Says("failed", x)
      BY <2>1, <2>4, <2>6 DEF SchemaOK
    <2>7. CASE S!MayApply(s) /\ Says("running", S!Applied(next))
      <3>1. s.version + 1 <= Latest
        BY <1>0, <2>1, <2>7 DEF S!MayApply, S!NothingPending, Schema
      <3>2. ~S!Applied(next).dirty /\ S!Applied(next).version <= Latest
        BY <2>3, <3>1
      <3> QED BY <2>1, <2>3, <2>4, <2>7, <3>2 DEF SchemaOK
    <2> QED BY <1>2, <2>1, <2>3, <2>5, <2>6, <2>7 DEF Migrate, next
  <1>3. CASE MigrateAgain
    <2>1. SchemaOK(subject) /\ subject' = [subject EXCEPT !.said = "running", !.from = subject.schema]
      BY <1>3 DEF MigrateAgain, SchemasOK
    <2> QED BY <2>1 DEF SchemaOK
  <1>4. CASE UNCHANGED subject
    BY <1>4 DEF SchemasOK, Is
  <1> QED BY <1>1, <1>2, <1>3, <1>4, Steps

\* What was last seen of the workspace are answers of its tokens.
WorkspaceOK(w) ==
    /\ DOMAIN w = {"kind", "teams", "started", "state", "asked"}
    /\ \E a \in Answers(w.teams) : w.state = S!VerifyOnce(a)
    /\ w.started /\ w.asked => Cardinality(ToSet(w.teams)) <= 1

WorkspacesOK == Is("workspace") => WorkspaceOK(subject)

LEMMA OneOrNone ==
    ASSUME NEW Set, NEW x, Set \subseteq {x}
    PROVE  Cardinality(Set) <= 1
  <1>1. Set = {} \/ Set = {x}
    OBVIOUS
  <1> QED BY <1>1, FS_EmptySet, FS_Singleton

LEMMA OneTeam ==
    ASSUME NEW teams, NEW a \in Answers(teams), ~S!VerifyOnce(a).multi,
           \A i \in DOMAIN a : a[i] # S!Silent
    PROVE  Cardinality(ToSet(teams)) <= 1
  <1> DEFINE spoke == S!Heard(a)
             team == IF spoke = {} THEN "" ELSE a[S!Min(spoke)]
  <1>1. DOMAIN a = DOMAIN teams /\ \A i \in DOMAIN a : a[i] = teams[i]
    BY DEF Answers
  <1>2. spoke = DOMAIN a
    BY DEF S!Heard
  <1>3. \A i \in spoke : a[i] = team
    BY DEF S!VerifyOnce
  <1> HIDE DEF team
  <1>4. ToSet(teams) \subseteq {team}
    BY <1>1, <1>2, <1>3 DEF ToSet
  <1> QED BY <1>4, OneOrNone

LEMMA WorkspaceKept ==
    ASSUME WorkspacesOK, "kind" \in DOMAIN subject, [OutsideStep]_subject
    PROVE  WorkspacesOK'
  <1> SUFFICES ASSUME subject'.kind = "workspace" PROVE WorkspaceOK(subject')
    BY DEF WorkspacesOK, Is
  <1>1. CASE TakeWorkspace
    <2>0. PICK w \in Workspaces : \E a \in Answers(w) :
              subject' = [kind |-> "workspace", teams |-> w, started |-> ~S!VerifyOnce(a).multi,
                          state |-> S!VerifyOnce(a), asked |-> \A i \in DOMAIN a : a[i] # S!Silent]
      BY <1>1 DEF TakeWorkspace
    <2>1. PICK a \in Answers(w) :
              subject' = [kind |-> "workspace", teams |-> w, started |-> ~S!VerifyOnce(a).multi,
                          state |-> S!VerifyOnce(a), asked |-> \A i \in DOMAIN a : a[i] # S!Silent]
      BY <2>0
    <2>2. /\ DOMAIN subject' = {"kind", "teams", "started", "state", "asked"}
          /\ subject'.teams = w /\ subject'.state = S!VerifyOnce(a)
          /\ subject'.started = ~S!VerifyOnce(a).multi
          /\ subject'.asked = (\A i \in DOMAIN a : a[i] # S!Silent)
      BY <2>1
    <2>3. subject'.started /\ subject'.asked => Cardinality(ToSet(w)) <= 1
      BY <2>2, OneTeam
    <2> QED BY <2>1, <2>2, <2>3 DEF WorkspaceOK
  <1>2. CASE VerifyAgain
    <2>1. WorkspaceOK(subject)
      BY <1>2 DEF VerifyAgain, WorkspacesOK
    <2>2. PICK a \in Answers(subject.teams) : subject' = [subject EXCEPT !.state = S!VerifyOnce(a)]
      BY <1>2 DEF VerifyAgain
    <2> QED BY <2>1, <2>2 DEF WorkspaceOK
  <1>3. CASE UNCHANGED subject
    BY <1>3 DEF WorkspacesOK, Is
  <1> QED BY <1>1, <1>2, <1>3, Steps

-----------------------------------------------------------------------------
(* Files: whoever is named in an accepted file is found. *)

\* A file is what it was when it was taken up.
FilesOK ==
    /\ Is("proxies") => subject.proxies \in ProxyFiles
    /\ Is("channels") => subject.channels \in ChannelFiles
    /\ Is("people") => subject.mapping \in UserMappings /\ subject.notify \in Notifies

LEMMA FilesKept ==
    ASSUME FilesOK, "kind" \in DOMAIN subject, [OutsideStep]_subject
    PROVE  FilesOK'
  <1>1. TakeProxies => subject'.proxies \in ProxyFiles
    BY DEF TakeProxies
  <1>2. TakeChannels => subject'.channels \in ChannelFiles
    BY DEF TakeChannels
  <1>3. TakePeople => subject'.mapping \in UserMappings /\ subject'.notify \in Notifies
    BY DEF TakePeople
  <1> QED BY <1>1, <1>2, <1>3, Steps DEF FilesOK, Is

\* Where no slug occurs twice, the entry a slug leads to is the only one of it.
LEMMA LastIsOnly ==
    ASSUME NEW blocks, NEW n \in Nat, DOMAIN blocks = 1 .. n, Distinct(blocks),
           NEW b \in ToSet(blocks)
    PROVE  blocks[S!LastOf(blocks, b.slug)] = b
  <1>1. PICK i \in DOMAIN blocks : b = blocks[i]
    BY DEF ToSet
  <1>2. \A j \in DOMAIN blocks : blocks[j].slug = b.slug => j = i
    BY <1>1 DEF Distinct, IsInjective
  <1>3. i <= i
    BY <1>1
  <1>4. S!LastOf(blocks, b.slug) = i
    BY <1>1, <1>2, <1>3 DEF S!LastOf
  <1> QED BY <1>1, <1>4

LEMMA PortInRange ==
    ASSUME NEW port \in 0 .. MaxPort
    PROVE  (IF port = 0 THEN S!DefaultPort ELSE port) \in 1 .. MaxPort
  <1>1. MaxPort \in Nat /\ S!DefaultPort \in 1 .. MaxPort
    BY SMT DEF MaxPort, S!DefaultPort
  <1>2. CASE port = 0
    BY Zenon, <1>1, <1>2
  <1>3. CASE port # 0
    <2>1. port \in 1 .. MaxPort
      BY SMT, <1>1, <1>3
    <2> QED BY Zenon, <1>3, <2>1
  <1> QED BY ZenonT(60), <1>2, <1>3

Secret(p) == p.passwordEnv # ""

\* A proxy that was accepted is built unless its password is not there.
LEMMA ProxyIsBuilt ==
    ASSUME NEW p, NEW environ, ProxyOK(p)
    PROVE  LET d == S!BuildOne(p, environ)
           IN  /\ Secret(p) /\ environ[p.passwordEnv] = "" => ~d.ok
               /\ ~(Secret(p) /\ environ[p.passwordEnv] = "") =>
                     /\ d.ok /\ d.via = p.server /\ d.port \in 1 .. MaxPort
                     /\ Secret(p) => d.auth = <<p.username, environ[p.passwordEnv]>>
  <1> DEFINE d == S!BuildOne(p, environ)
             port == IF p.port = 0 THEN S!DefaultPort ELSE p.port
             Dial(auth) == [ok |-> TRUE, via |-> p.server, port |-> port, auth |-> auth]
  <1>1. p.protocol = "socks5" /\ (Secret(p) => p.username # "")
    BY Zenon DEF ProxyOK, Secret
  <1>2. port \in 1 .. MaxPort
    BY PortInRange DEF ProxyOK
  <1>3. CASE p.username = ""
    <2>1. d = Dial(<<>>)
      BY Zenon, <1>1, <1>3 DEF S!BuildOne, S!DefaultPort
    <2> HIDE DEF d, port
    <2>2. d.ok /\ d.via = p.server /\ d.port = port
      BY Zenon, <2>1
    <2> QED BY Zenon, <1>1, <1>2, <1>3, <2>2 DEF d
  <1>4. CASE p.username # "" /\ ~Secret(p)
    <2>1. d = Dial(<<p.username, "">>)
      BY Zenon, <1>1, <1>4 DEF S!BuildOne, S!DefaultPort, Secret
    <2> HIDE DEF d, port
    <2>2. d.ok /\ d.via = p.server /\ d.port = port
      BY Zenon, <2>1
    <2> QED BY Zenon, <1>2, <1>4, <2>2 DEF d
  <1>5. CASE p.username # "" /\ Secret(p) /\ environ[p.passwordEnv] = ""
    <2>1. d = S!Refused
      BY Zenon, <1>1, <1>5 DEF S!BuildOne, S!DefaultPort, Secret
    <2> HIDE DEF d, port
    <2>2. ~d.ok
      BY <2>1 DEF S!Refused
    <2> QED BY Zenon, <1>5, <2>2 DEF d
  <1>6. CASE p.username # "" /\ Secret(p) /\ environ[p.passwordEnv] # ""
    <2>1. d = Dial(<<p.username, environ[p.passwordEnv]>>)
      BY Zenon, <1>1, <1>6 DEF S!BuildOne, S!DefaultPort, Secret
    <2> HIDE DEF d, port
    <2>2. /\ d.ok /\ d.via = p.server /\ d.port = port
          /\ d.auth = <<p.username, environ[p.passwordEnv]>>
      BY Zenon, <2>1
    <2> QED BY Zenon, <1>2, <1>6, <2>2 DEF d
  <1> QED BY Zenon, <1>1, <1>3, <1>4, <1>5, <1>6

LEMMA ProxiesFollow == FilesOK => ProxiesAreUsed
  <1> SUFFICES ASSUME Is("proxies"), FilesOK, ProxiesOK(subject.proxies)
               PROVE  LET built == S!Build(subject.proxies, subject.environ)
                      IN IF \E p \in ToSet(subject.proxies) :
                               Secret(p) /\ subject.environ[p.passwordEnv] = ""
                         THEN ~built.ok
                         ELSE /\ built.ok
                              /\ \A p \in ToSet(subject.proxies) :
                                    LET d == S!Get(built, p.slug)
                                    IN /\ d.via = p.server /\ d.port \in 1 .. MaxPort
                                       /\ Secret(p) => d.auth = <<p.username, subject.environ[p.passwordEnv]>>
    BY Zenon DEF ProxiesAreUsed, Secret
  <1> DEFINE ps == subject.proxies
             env == subject.environ
             built == S!Build(ps, env)
             Locked(p) == Secret(p) /\ env[p.passwordEnv] = ""
  <1>1. PICK n \in Nat : DOMAIN ps = 1 .. n
    BY OutsideAssumption DEF FilesOK
  <1>2. \A p \in ToSet(ps) : ProxyOK(p)
    BY DEF ProxiesOK
  <1>3. built.ok <=> \A p \in ToSet(ps) : S!BuildOne(p, env).ok
    BY Zenon DEF S!Build, S!ToSet, ToSet
  <1>4. CASE \E p \in ToSet(ps) : Locked(p)
    BY Zenon, <1>2, <1>3, <1>4, ProxyIsBuilt
  <1>5. CASE ~ \E p \in ToSet(ps) : Locked(p)
    <2>1. built.ok
      BY Zenon, <1>2, <1>3, <1>5, ProxyIsBuilt
    <2>2. ASSUME NEW p \in ToSet(ps) PROVE S!Get(built, p.slug) = S!BuildOne(p, env)
      <3>1. p.slug \in {e.slug : e \in S!ToSet(ps)}
        BY DEF ToSet, S!ToSet
      <3>2. built.dialers = [slug \in {e.slug : e \in S!ToSet(ps)} |->
                               S!BuildOne(ps[S!LastOf(ps, slug)], env)]
        BY Zenon DEF S!Build, S!BySlug
      <3>3. ps[S!LastOf(ps, p.slug)] = p
        BY Zenon, <1>1, LastIsOnly DEF ProxiesOK
      <3> QED BY Zenon, <3>1, <3>2, <3>3 DEF S!Get
    <2> QED BY Zenon, <1>2, <1>5, <2>1, <2>2, ProxyIsBuilt
  <1> QED BY Zenon, <1>4, <1>5

LEMMA ChannelsFollow == FilesOK => ChannelsCanPost
  <1> SUFFICES ASSUME Is("channels"), FilesOK, ChannelsOK(subject.channels),
                      S!ResolveSlackTokens(subject.channels, subject.environ).ok,
                      NEW c \in ToSet(subject.channels)
               PROVE  LET r == S!ResolveSlackTokens(subject.channels, subject.environ)
                      IN  /\ r.channels[c.slug] = [id |-> c.id, token |-> subject.environ[c.tokenEnv]]
                          /\ r.channels[c.slug].token # ""
    BY Zenon DEF ChannelsCanPost
  <1> DEFINE cs == subject.channels
             env == subject.environ
             r == S!ResolveSlackTokens(cs, env)
             found == cs[S!LastOf(cs, c.slug)]
             Info(e) == [id |-> e.id, token |-> env[e.tokenEnv]]
  <1>1. PICK n \in Nat : DOMAIN cs = 1 .. n
    BY OutsideAssumption DEF FilesOK
  <1>2. found = c
    BY Zenon, <1>1, LastIsOnly DEF ChannelsOK
  <1>3. c.slug \in {e.slug : e \in S!ToSet(cs)} /\ c \in S!ToSet(cs)
    BY DEF ToSet, S!ToSet
  <1>4. r.channels = [slug \in {e.slug : e \in S!ToSet(cs)} |->
                         Info(cs[S!LastOf(cs, slug)])]
    BY Zenon DEF S!ResolveSlackTokens, S!BySlug
  <1>5. env[c.tokenEnv] # ""
    BY Zenon, <1>3 DEF S!ResolveSlackTokens
  <1> HIDE DEF r, Info
  <1>8. r.channels[c.slug] = Info(c)
    BY Zenon, <1>2, <1>3, <1>4
  <1>6. r.channels[c.slug] = [id |-> c.id, token |-> env[c.tokenEnv]]
    BY Zenon, <1>8 DEF Info
  <1>7. r.channels[c.slug].token = env[c.tokenEnv]
    BY <1>6
  <1> QED BY Zenon, <1>5, <1>6, <1>7 DEF r

LEMMA PeopleFollow == FilesOK => MentionsReachSomeone
  <1> SUFFICES ASSUME Is("people"), FilesOK, UserMappingOK(subject.mapping),
                      \A n \in subject.notify : IsValidNotifyEntry(n, subject.mapping)
               PROVE  LET mapping == subject.mapping
                          mentions == S!ResolveMentions(subject.notify, mapping)
                          entries == S!VerifyMapping({}, mapping, "token", subject.slack)
                      IN /\ subject.notify # {} => mentions # {}
                         /\ \A f \in S!IdToSlugs(mapping) :
                               LET shown == {S!DisplayMention(m, f) : m \in mentions}
                               IN /\ Cardinality(shown) = Cardinality(mentions)
                                  /\ \A e \in entries : e.ok /\ <<"slug", e.slug>> \in subject.notify =>
                                        \E d \in shown : /\ d.id = mapping[e.slug][2]
                                                         /\ mapping[d.slug] = mapping[e.slug]
    BY Zenon DEF MentionsReachSomeone
  <1> DEFINE mapping == subject.mapping
             notify == subject.notify
             mentions == S!ResolveMentions(notify, mapping)
             entries == S!VerifyMapping({}, mapping, "token", subject.slack)
             users == IdsNamed(mapping, notify, "U", "user")
             subteams == IdsNamed(mapping, notify, "S", "subteam")
  <1>1. /\ IsFiniteSet(notify)
        /\ \A n \in notify : n = <<n[1], n[2]>> /\ n[1] \in {"slug", "user", "subteam", "other"}
        /\ users \cap subteams = {} /\ "" \notin users \cup subteams
    BY Zenon, PeopleAssumption DEF FilesOK, Named
  <1>2. \A s \in DOMAIN mapping : mapping[s][1] \in {"U", "S"}
    BY Zenon DEF UserMappingOK
  <1>9. \A s \in DOMAIN mapping : mapping[s] = <<mapping[s][1], mapping[s][2]>>
    BY Zenon, PeopleAssumption DEF FilesOK, Named
  \* What a notify entry becomes.
  <1>3. ASSUME NEW n \in notify
        PROVE  LET m == S!Mention(n, mapping)
               IN  /\ m # S!Dropped
                   /\ \/ \E id \in users : m = <<"user", id>>
                      \/ \E id \in subteams : m = <<"subteam", id>>
                      \/ \E x : m = <<"other", x>>
    <2> DEFINE m == S!Mention(n, mapping)
    <2>1. CASE n[1] = "slug"
      <3>1. n[2] \in DOMAIN mapping
        BY Zenon, <2>1 DEF IsValidNotifyEntry
      <3>2. CASE mapping[n[2]][1] = "U"
        <4>1. m = <<"user", mapping[n[2]][2]>>
          BY Zenon, <2>1, <3>1, <3>2 DEF S!Mention, S!IsRawMarkup
        <4>2. mapping[n[2]][2] \in users
          BY Zenon, <3>1, <3>2 DEF IdsNamed
        <4>3. m # S!Dropped
          BY <4>1 DEF S!Dropped
        <4> QED BY Zenon, <4>1, <4>2, <4>3
      <3>3. CASE mapping[n[2]][1] = "S"
        <4>1. m = <<"subteam", mapping[n[2]][2]>>
          BY Zenon, <2>1, <3>1, <3>3 DEF S!Mention, S!IsRawMarkup
        <4>2. mapping[n[2]][2] \in subteams
          BY Zenon, <3>1, <3>3 DEF IdsNamed
        <4>3. m # S!Dropped
          BY <4>1 DEF S!Dropped
        <4> QED BY Zenon, <4>1, <4>2, <4>3
      <3> QED BY Zenon, <1>2, <3>1, <3>2, <3>3
    <2>2. CASE n[1] \in {"user", "subteam", "other"}
      <3>1. m = n
        BY Zenon, <2>2 DEF S!Mention, S!IsRawMarkup
      <3>2. n = <<n[1], n[2]>>
        BY Zenon, <1>1
      <3>3. m # S!Dropped
        <4>1. S!Dropped[1] = "dropped"
          BY DEF S!Dropped
        <4> QED BY <2>2, <3>1, <4>1
      <3>4. /\ n[1] = "user" => n[2] \in users
            /\ n[1] = "subteam" => n[2] \in subteams
        BY Zenon DEF IdsNamed
      <3> QED BY Zenon, <2>2, <3>1, <3>2, <3>3, <3>4
    <2> QED BY Zenon, <1>1, <2>1, <2>2
  <1>4. mentions = {S!Mention(n, mapping) : n \in notify}
    BY Zenon, <1>3 DEF S!ResolveMentions
  <1>5. notify # {} => mentions # {}
    BY Zenon, <1>4
  <1>6. IsFiniteSet(mentions)
    <2> DEFINE g == [n \in notify |-> S!Mention(n, mapping)]
    <2>1. g \in Surjection(notify, mentions)
      BY Zenon, <1>4 DEF Surjection
    <2> QED BY Zenon, <1>1, <2>1, FS_Surjection
  <1>7. ASSUME NEW m \in mentions
        PROVE  \/ \E id \in users : m = <<"user", id>>
               \/ \E id \in subteams : m = <<"subteam", id>>
               \/ \E x : m = <<"other", x>>
    BY Zenon, <1>3, <1>4
  <1>8. ASSUME NEW f \in S!IdToSlugs(mapping)
        PROVE  LET shown == {S!DisplayMention(m, f) : m \in mentions}
               IN /\ Cardinality(shown) = Cardinality(mentions)
                  /\ \A e \in entries : e.ok /\ <<"slug", e.slug>> \in notify =>
                        \E d \in shown : d.id = mapping[e.slug][2] /\ mapping[d.slug] = mapping[e.slug]
    <2> DEFINE shown == {S!DisplayMention(m, f) : m \in mentions}
               Slug(id) == IF id \in DOMAIN f THEN f[id] ELSE ""
    <2>1. \A id : \A kind \in {"user", "subteam"} :
             S!DisplayMention(<<kind, id>>, f) = [slug |-> Slug(id), id |-> id, raw |-> ""]
      <3> SUFFICES ASSUME NEW id, NEW kind \in {"user", "subteam"}
                   PROVE  S!DisplayMention(<<kind, id>>, f) = [slug |-> Slug(id), id |-> id, raw |-> ""]
        OBVIOUS
      <3>1. <<kind, id>>[1] = kind /\ <<kind, id>>[2] = id /\ kind # "other"
        OBVIOUS
      <3> QED BY Zenon, <3>1 DEF S!DisplayMention
    <2>2. \A x : S!DisplayMention(<<"other", x>>, f) = [slug |-> "", id |-> "", raw |-> x]
      <3> SUFFICES ASSUME NEW x
                   PROVE  S!DisplayMention(<<"other", x>>, f) = [slug |-> "", id |-> "", raw |-> x]
        OBVIOUS
      <3>1. <<"other", x>>[1] = "other" /\ <<"other", x>>[2] = x
        OBVIOUS
      <3> QED BY Zenon, <3>1 DEF S!DisplayMention
    <2>3. \A id, x, y : /\ [slug |-> x, id |-> id, raw |-> y].id = id
                        /\ [slug |-> x, id |-> id, raw |-> y].slug = x
                        /\ [slug |-> x, id |-> id, raw |-> y].raw = y
      OBVIOUS
    <2> HIDE DEF Slug
    <2>7. \A id : \A kind \in {"user", "subteam"} :
             /\ S!DisplayMention(<<kind, id>>, f).id = id
             /\ S!DisplayMention(<<kind, id>>, f).slug = Slug(id)
      <3> SUFFICES ASSUME NEW id, NEW kind \in {"user", "subteam"}
                   PROVE  /\ S!DisplayMention(<<kind, id>>, f).id = id
                          /\ S!DisplayMention(<<kind, id>>, f).slug = Slug(id)
        OBVIOUS
      <3>1. S!DisplayMention(<<kind, id>>, f) = [slug |-> Slug(id), id |-> id, raw |-> ""]
        BY Zenon, <2>1
      <3>2. /\ [slug |-> Slug(id), id |-> id, raw |-> ""].id = id
            /\ [slug |-> Slug(id), id |-> id, raw |-> ""].slug = Slug(id)
        BY Zenon, <2>3
      <3> QED BY Zenon, <3>1, <3>2
    <2>8. \A x : /\ S!DisplayMention(<<"other", x>>, f).id = ""
                /\ S!DisplayMention(<<"other", x>>, f).raw = x
      <3> SUFFICES ASSUME NEW x
                   PROVE  /\ S!DisplayMention(<<"other", x>>, f).id = ""
                          /\ S!DisplayMention(<<"other", x>>, f).raw = x
        OBVIOUS
      <3>1. S!DisplayMention(<<"other", x>>, f) = [slug |-> "", id |-> "", raw |-> x]
        BY Zenon, <2>2
      <3>2. /\ [slug |-> "", id |-> "", raw |-> x].id = ""
            /\ [slug |-> "", id |-> "", raw |-> x].raw = x
        BY Zenon, <2>3
      <3> QED BY Zenon, <3>1, <3>2
    <2>9. ASSUME NEW m \in mentions
          PROVE  LET d == S!DisplayMention(m, f)
                 IN  \/ d.id \in users /\ m = <<"user", d.id>>
                     \/ d.id \in subteams /\ m = <<"subteam", d.id>>
                     \/ d.id = "" /\ m = <<"other", d.raw>>
      <3>1. CASE \E id \in users : m = <<"user", id>>
        BY Zenon, <2>7, <3>1
      <3>2. CASE \E id \in subteams : m = <<"subteam", id>>
        BY Zenon, <2>7, <3>2
      <3>3. CASE \E x : m = <<"other", x>>
        BY Zenon, <2>8, <3>3
      <3> QED BY Zenon, <1>7, <3>1, <3>2, <3>3
    <2>4. ASSUME NEW m \in mentions, NEW k \in mentions,
                 S!DisplayMention(m, f) = S!DisplayMention(k, f)
          PROVE  m = k
      <3> DEFINE d == S!DisplayMention(m, f)
      <3>1. \/ d.id \in users /\ m = <<"user", d.id>>
            \/ d.id \in subteams /\ m = <<"subteam", d.id>>
            \/ d.id = "" /\ m = <<"other", d.raw>>
        BY Zenon, <2>9
      <3>2. \/ d.id \in users /\ k = <<"user", d.id>>
            \/ d.id \in subteams /\ k = <<"subteam", d.id>>
            \/ d.id = "" /\ k = <<"other", d.raw>>
        BY Zenon, <2>4, <2>9
      <3>3. /\ \A x \in users : x \notin subteams /\ x # ""
            /\ \A x \in subteams : x # ""
        BY Zenon, <1>1
      <3> HIDE DEF d, users, subteams
      <3>4. CASE d.id \in users
        <4>1. m = <<"user", d.id>> /\ k = <<"user", d.id>>
          BY Zenon, <3>1, <3>2, <3>3, <3>4
        <4> QED BY Zenon, <4>1
      <3>5. CASE d.id \in subteams
        <4>1. m = <<"subteam", d.id>> /\ k = <<"subteam", d.id>>
          BY Zenon, <3>1, <3>2, <3>3, <3>5
        <4> QED BY Zenon, <4>1
      <3>6. CASE d.id = ""
        <4>1. m = <<"other", d.raw>> /\ k = <<"other", d.raw>>
          BY Zenon, <3>1, <3>2, <3>3, <3>6
        <4> QED BY Zenon, <4>1
      <3> QED BY Zenon, <3>1, <3>4, <3>5, <3>6
    <2>5. Cardinality(shown) = Cardinality(mentions)
      <3> DEFINE h == [m \in mentions |-> S!DisplayMention(m, f)]
      <3>1. h \in Surjection(mentions, shown)
        BY Zenon DEF Surjection
      <3>2. IsInjective(h)
        BY Zenon, <2>4 DEF IsInjective
      <3>3. h \in Injection(mentions, shown)
        BY Zenon, <3>1, <3>2 DEF Injection, Surjection
      <3>4. ExistsBijection(mentions, shown)
        BY Zenon, <3>1, <3>3 DEF ExistsBijection, Bijection
      <3> QED BY Zenon, <1>6, <3>4, FS_Bijection
    <2>6. ASSUME NEW e \in entries, <<"slug", e.slug>> \in notify
          PROVE  \E d \in shown : d.id = mapping[e.slug][2] /\ mapping[d.slug] = mapping[e.slug]
      <3> DEFINE s == e.slug
                 id == mapping[s][2]
                 m == S!Mention(<<"slug", s>>, mapping)
                 d == S!DisplayMention(m, f)
      <3>1. <<"slug", s>>[1] = "slug" /\ <<"slug", s>>[2] = s
        OBVIOUS
      <3>2. s \in DOMAIN mapping
        BY Zenon, <2>6, <3>1 DEF IsValidNotifyEntry
      <3>3. m \in mentions /\ d \in shown
        BY Zenon, <1>4, <2>6
      <3>4. \E kind \in {"user", "subteam"} : m = <<kind, id>>
        BY Zenon, <1>2, <3>1, <3>2 DEF S!Mention, S!IsRawMarkup
      <3>5. d.id = id /\ d.slug = Slug(id)
        BY Zenon, <2>7, <3>4
      <3>6. /\ Slug(id) = f[id] /\ f[id] \in DOMAIN mapping /\ mapping[f[id]][2] = id
        <4>1. /\ DOMAIN f = {mapping[x][2] : x \in DOMAIN mapping}
              /\ f \in [{mapping[x][2] : x \in DOMAIN mapping} -> DOMAIN mapping]
              /\ \A i \in DOMAIN f : mapping[f[i]][2] = i
          BY DEF S!IdToSlugs
        <4>2. id \in DOMAIN f
          BY Zenon, <3>2, <4>1
        <4> QED BY <4>1, <4>2 DEF Slug
      <3>7. mapping[f[id]][1] = mapping[s][1]
        <4>1. \A x \in DOMAIN mapping : /\ mapping[x][1] = "U" => mapping[x][2] \in users
                                        /\ mapping[x][1] = "S" => mapping[x][2] \in subteams
          BY Zenon DEF IdsNamed
        <4> QED BY ZenonT(60), <1>1, <1>2, <3>2, <3>6, <4>1
      <3>8. mapping[f[id]] = mapping[s]
        BY Zenon, <1>9, <3>2, <3>6, <3>7
      <3> QED BY Zenon, <3>3, <3>5, <3>6, <3>8
    <2> QED BY Zenon, <2>5, <2>6
  <1> QED BY Zenon, <1>5, <1>8

-----------------------------------------------------------------------------

\* A workspace that is shown healthy has been heard in full, and of one team.
LEMMA WorkspaceFollows == WorkspacesOK => WorkspaceIsOne
  <1> SUFFICES ASSUME Is("workspace"), WorkspaceOK(subject)
               PROVE  /\ subject.state.healthy =>
                            \A t \in ToSet(subject.teams) : t = subject.state.team
                      /\ subject.started /\ subject.asked =>
                            Cardinality(ToSet(subject.teams)) <= 1
    BY Zenon DEF WorkspacesOK, WorkspaceIsOne
  <1>1. PICK a \in Answers(subject.teams) : subject.state = S!VerifyOnce(a)
    BY Zenon DEF WorkspaceOK
  <1>2. DOMAIN a = DOMAIN subject.teams /\ \A i \in DOMAIN a : a[i] \in {subject.teams[i], S!Silent}
    BY DEF Answers
  <1> DEFINE spoke == S!Heard(a)
             team == IF spoke = {} THEN "" ELSE a[S!Min(spoke)]
             apart == \E i \in spoke : a[i] # team
             split == [multi |-> TRUE, healthy |-> FALSE, team |-> ""]
             one == [multi |-> FALSE, healthy |-> spoke = DOMAIN a, team |-> team]
  <1>3. S!VerifyOnce(a) = IF apart THEN split ELSE one
    BY Zenon DEF S!VerifyOnce
  <1>4. split.healthy = FALSE
    OBVIOUS
  <1>5. \A x, y : /\ [multi |-> FALSE, healthy |-> x, team |-> y].healthy = x
                 /\ [multi |-> FALSE, healthy |-> x, team |-> y].team = y
    OBVIOUS
  <1>6. one.healthy = (spoke = DOMAIN a) /\ one.team = team
    BY Zenon, <1>5
  <1>7. ASSUME subject.state.healthy, NEW t \in ToSet(subject.teams) PROVE t = subject.state.team
    <2>1. ~apart /\ spoke = DOMAIN a /\ subject.state.team = team
      BY Zenon, <1>1, <1>3, <1>4, <1>6, <1>7
    <2>2. PICK i \in DOMAIN subject.teams : t = subject.teams[i]
      BY DEF ToSet
    <2>3. i \in spoke
      BY Zenon, <1>2, <2>1
    <2>4. a[i] = subject.teams[i]
      BY Zenon, <1>2, <2>3 DEF S!Heard
    <2> QED BY Zenon, <2>1, <2>2, <2>3, <2>4
  <1> QED BY Zenon, <1>7 DEF WorkspaceOK

-----------------------------------------------------------------------------
(* The invariant of Outside. *)

OutsideInv ==
    /\ "kind" \in DOMAIN subject
    /\ CallsOK /\ FloodsOK /\ SchemasOK /\ WorkspacesOK /\ FilesOK

LEMMA OutsideInit == NothingTaken => OutsideInv
  <1> SUFFICES ASSUME NothingTaken PROVE OutsideInv
    OBVIOUS
  <1>1. "kind" \in DOMAIN subject /\ subject.kind = "none"
    BY DEF NothingTaken, None
  <1> QED BY <1>1 DEF OutsideInv, CallsOK, FloodsOK, SchemasOK, WorkspacesOK, FilesOK, Is

\* A subject stays one.
LEMMA StaysTaken ==
    ASSUME "kind" \in DOMAIN subject, [OutsideStep]_subject
    PROVE  "kind" \in DOMAIN subject'
  <1>1. CASE \/ TakeProxies \/ TakeChannels \/ TakePeople \/ FindSchema \/ TakeWorkspace
             \/ PlaceCall \/ OpenChannel
    BY <1>1 DEF TakeProxies, TakeChannels, TakePeople, FindSchema, TakeWorkspace, PlaceCall,
                OpenChannel
  <1>2. CASE Migrate \/ MigrateAgain \/ VerifyAgain
    BY <1>2 DEF Migrate, Says, MigrateAgain, VerifyAgain
  <1>3. CASE CallGoesOn
    BY <1>3 DEF CallGoesOn
  <1>4. CASE AlertArrives
    BY <1>4 DEF AlertArrives
  <1>5. CASE TimePasses
    BY <1>5 DEF TimePasses
  <1>6. ASSUME NEW justEngaged \in BOOLEAN, DropReports(justEngaged)
        PROVE  "kind" \in DOMAIN subject'
    BY <1>6 DEF DropReports
  <1> QED BY <1>1, <1>2, <1>3, <1>4, <1>5, <1>6 DEF OutsideStep

LEMMA OutsideStays == OutsideInv /\ [OutsideStep]_subject => OutsideInv'
  BY StaysTaken, CallKept, FloodKept, SchemaKept, WorkspaceKept, FilesKept DEF OutsideInv

LEMMA OutsideInvariance == OutsideSpec => []OutsideInv
  BY OutsideInit, OutsideStays, PTL DEF OutsideSpec

\* A Slack message that is reported as posted is there, and once more at the most for every
\* retry after an error of Slack's that may follow a carried-out call; and a call ends
\* within the budget and one attempt (client.go: retryingDo), whatever the network and
\* Slack answer, however long it asks to wait.
THEOREM CallsAreSafe == OutsideSpec => []CallIsSafe
  <1>1. OutsideInv => CallIsSafe
    <2> SUFFICES ASSUME OutsideInv, Is("call") PROVE DeliveredOnce /\ CallIsBounded
      BY DEF CallIsSafe, DeliveredOnce, CallIsBounded
    <2>1. CallOK(subject.call)
      BY DEF OutsideInv, CallsOK
    <2> QED BY <2>1 DEF CallOK, DeliveredOnce, CallIsBounded
  <1> QED BY <1>1, OutsideInvariance, PTL

\* Every alert the limiter drops is in a notice or still counted, and a channel in a flood
\* has been told or is about to be (limiter.go: Allow, NoticeDue), for any limits and any
\* number of goroutines between the two.
THEOREM FloodsAreTold == OutsideSpec => []FloodIsTold
  <1>1. OutsideInv => FloodIsTold
    <2> SUFFICES ASSUME OutsideInv, Is("flood") PROVE DropsAreReported /\ FloodIsAnnounced
      BY DEF FloodIsTold, DropsAreReported, FloodIsAnnounced
    <2>1. FloodOK(subject)
      BY DEF OutsideInv, FloodsOK
    <2> QED BY <2>1 DEF FloodOK, DropsAreReported, FloodIsAnnounced
  <1> QED BY <1>1, OutsideInvariance, PTL

\* A start that is not refused has what an accepted file promises, however many proxies,
\* channels, people and tokens it names, and whatever schema, environment and answers it
\* meets (proxypool.Build, resolveSlackTokens, ResolveMentions, migrate.Check, VerifyOnce).
THEOREM StartsAreAsConfigured == OutsideSpec => []StartsAsConfigured
  <1>1. OutsideInv => StartsAsConfigured
    <2> SUFFICES ASSUME OutsideInv PROVE StartsAsConfigured
      OBVIOUS
    <2>1. MigrateThenServe
      BY DEF OutsideInv, SchemasOK, SchemaOK, MigrateThenServe
    <2> QED BY Zenon, <2>1, ProxiesFollow, ChannelsFollow, PeopleFollow, WorkspaceFollows
            DEF OutsideInv, StartsAsConfigured
  <1> QED BY <1>1, OutsideInvariance, PTL

-----------------------------------------------------------------------------
(* The pages. *)

LEMMA NoTexts == V!NoText = NoText
  BY DEF NoText, V!NoText

LEMMA Counting == \A Base : V!Cardinality(Base) = Cardinality(Base)
  BY Zenon DEF V!Cardinality, Cardinality

LEMMA Words3 == /\ "up" # NoText /\ "down" # NoText /\ "temporary-paused" # NoText
                /\ "ssl-expiring" # NoText /\ "ssl-skipped" # NoText /\ "expired" # NoText
                /\ "kube-invalid" # NoText /\ "kube-ignored" # NoText
                /\ NoText \notin {"active", "archived", "any"}
  BY Zenon DEF NoText

\* What the filter of an address is.
LEMMA FilterIs ==
    ASSUME NEW q
    PROVE  LET f == V!MonitorsFilter(q) IN
           /\ f.status = V!Param(q, "status") /\ f.ssl = V!Param(q, "ssl")
           /\ f.page = V!Param(q, "status_page")
           /\ f.section = IF V!Param(q, "status_page") # NoText /\ "section" \in DOMAIN q
                          THEN q.section ELSE V!NoSection
           /\ f.archived = IF V!Param(q, "archived") \in {"active", "archived", "any"}
                           THEN q.archived ELSE NoText
           /\ f.tags = IF "tag" \in DOMAIN q THEN q.tag \ {NoText} ELSE {}
  BY NoTexts DEF V!MonitorsFilter

\* The rows among some a status and a certificate state stand for.
Shown(rows, status, ssl) ==
    {r \in rows : /\ status \in {NoText, r.status}
                  /\ ssl = "expired" => r.ssl = "ssl-expiring" /\ r.expired
                  /\ ssl \in {NoText, "expired", r.ssl}}

\* The listing of an address without a page: the active rows of its status.
LEMMA PlainListing ==
    ASSUME NEW rows, NEW q, DOMAIN q \cap {"status_page", "archived", "tag"} = {}
    PROVE  V!HandleMonitorsListing(StatusPages, rows, q) =
             Shown(V!ListActiveMonitors(rows), V!Param(q, "status"), V!Param(q, "ssl"))
  <1> DEFINE f == V!MonitorsFilter(q)
  <1>1. /\ f.page = NoText /\ f.archived = NoText /\ f.tags = {}
        /\ f.status = V!Param(q, "status") /\ f.ssl = V!Param(q, "ssl")
    BY FilterIs, NoTexts, Words3 DEF V!Param
  <1>2. V!HandleMonitorsListing(StatusPages, rows, q) = V!ListMonitors(rows, f, {})
    BY <1>1, NoTexts DEF V!HandleMonitorsListing
  <1> HIDE DEF f
  <1> QED BY <1>1, <1>2, NoTexts, Words3 DEF V!ListMonitors, Shown, V!ListActiveMonitors

Here(p, rows) == {r \in V!ListActiveMonitors(rows) : V!PageMatches(StatusPages[p], r)}

\* The listing of a status page: the rows on it, of the status that is asked for.
LEMMA PageListing ==
    ASSUME NEW rows \in Tables, NEW p \in DOMAIN StatusPages,
           NEW q, "status_page" \in DOMAIN q, q.status_page = p,
           DOMAIN q \cap {"section", "archived", "tag"} = {}
    PROVE  V!HandleMonitorsListing(StatusPages, rows, q) =
             Shown(Here(p, rows), V!Param(q, "status"), V!Param(q, "ssl"))
  <1> DEFINE f == V!MonitorsFilter(q)
             active == V!ListActiveMonitors(rows)
             slugs == {r.slug : r \in {a \in active : V!PageMatches(StatusPages[p], a)}}
  <1>0. p # NoText /\ Len(StatusPages[p]) \in Nat
    BY StoreAssumption
  <1>1. /\ f.page = p /\ f.archived = NoText /\ f.tags = {} /\ f.section = V!NoSection
        /\ f.status = V!Param(q, "status") /\ f.ssl = V!Param(q, "ssl")
    BY <1>0, FilterIs, NoTexts, Words3 DEF V!Param
  <1>2. V!CollectMonitorSlugsForPage(StatusPages[p], active, f.section) = slugs
    <2>1. V!NoSection \notin 0 .. Len(StatusPages[p]) - 1
      BY <1>0 DEF V!NoSection
    <2> QED BY <2>1, <1>1 DEF V!CollectMonitorSlugsForPage
  <1>3. V!HandleMonitorsListing(StatusPages, rows, q) =
          IF slugs = {} THEN {} ELSE V!ListMonitors(rows, f, slugs)
    BY <1>0, <1>1, <1>2, NoTexts DEF V!HandleMonitorsListing
  <1>4. \A r \in rows : r.slug \in slugs => r \in Here(p, rows)
    BY StoreAssumption DEF Table, Here, V!ListActiveMonitors
  <1>5. Here(p, rows) \subseteq rows /\ \A r \in Here(p, rows) : ~r.archived /\ r.slug \in slugs
    BY DEF Here, V!ListActiveMonitors
  <1>6. slugs = {} => Here(p, rows) = {}
    BY <1>5
  <1> HIDE DEF f, slugs
  <1>7. V!ListMonitors(rows, f, slugs) =
          {r \in rows : ~r.archived /\ r \in Shown(rows, f.status, f.ssl)
                        /\ (slugs = {} \/ r.slug \in slugs)}
    BY <1>1, NoTexts, Words3 DEF V!ListMonitors, Shown
  <1> QED BY <1>1, <1>3, <1>4, <1>5, <1>6, <1>7 DEF Shown

\* The listing of one section of it.
LEMMA SectionListing ==
    ASSUME NEW rows \in Tables, NEW p \in DOMAIN StatusPages, NEW i \in DOMAIN StatusPages[p]
    PROVE  V!HandleMonitorsListing(StatusPages, rows, V!SectionListingURL(p, i - 1)) =
             {r \in V!ListActiveMonitors(rows) :
                 V!Matches(StatusPages[p][i], r.tags, V!MonitorHost(r))}
  <1> DEFINE q == V!SectionListingURL(p, i - 1)
             f == V!MonitorsFilter(q)
             active == V!ListActiveMonitors(rows)
             on == {r \in active : V!Matches(StatusPages[p][i], r.tags, V!MonitorHost(r))}
             slugs == {r.slug : r \in on}
  <1>0. p # NoText /\ Len(StatusPages[p]) \in Nat /\ i \in 1 .. Len(StatusPages[p])
    BY StoreAssumption
  <1>a. DOMAIN q = {"status_page", "section"} /\ q.status_page = p /\ q.section = i - 1
    BY DEF V!SectionListingURL
  <1>1. /\ f.page = p /\ f.archived = NoText /\ f.tags = {} /\ f.section = i - 1
        /\ f.status = NoText /\ f.ssl = NoText
    <2> HIDE DEF q
    <2> QED BY <1>0, <1>a, FilterIs, NoTexts, Words3 DEF V!Param
  <1>2. V!CollectMonitorSlugsForPage(StatusPages[p], active, f.section) = slugs
    <2>1. i - 1 \in 0 .. Len(StatusPages[p]) - 1 /\ (i - 1) + 1 = i
      BY <1>0
    <2> QED BY <2>1, <1>1 DEF V!CollectMonitorSlugsForPage
  <1>3. V!HandleMonitorsListing(StatusPages, rows, q) =
          IF slugs = {} THEN {} ELSE V!ListMonitors(rows, f, slugs)
    BY <1>0, <1>1, <1>2, NoTexts DEF V!HandleMonitorsListing
  <1>4. \A r \in rows : r.slug \in slugs => r \in on
    BY StoreAssumption DEF Table, V!ListActiveMonitors
  <1>5. on \subseteq rows /\ \A r \in on : ~r.archived /\ r.slug \in slugs
    BY DEF V!ListActiveMonitors
  <1>6. slugs = {} => on = {}
    BY <1>5
  <1> HIDE DEF f, slugs, on
  <1>7. V!ListMonitors(rows, f, slugs) =
          {r \in rows : ~r.archived /\ (slugs = {} \/ r.slug \in slugs)}
    BY <1>1, NoTexts, Words3 DEF V!ListMonitors
  <1>8. V!HandleMonitorsListing(StatusPages, rows, q) = on
    BY <1>3, <1>4, <1>5, <1>6, <1>7
  <1> QED BY <1>8 DEF on

\* An address of a status page or of a tile of the front page.
LEMMA StatusURL ==
    ASSUME NEW p, NEW kind
    PROVE  LET q == V!StatusListingURL(p, kind) IN
           /\ "status_page" \in DOMAIN q /\ q.status_page = p
           /\ DOMAIN q \cap {"section", "archived", "tag"} = {}
           /\ kind \in {"ssl-expiring", "ssl-skipped", "ok", "expired"} =>
                V!Param(q, "ssl") = kind /\ V!Param(q, "status") = NoText
           /\ kind \in {"up", "down", "temporary-paused"} =>
                V!Param(q, "ssl") = NoText /\ V!Param(q, "status") = kind
           /\ kind = NoText => V!Param(q, "ssl") = NoText /\ V!Param(q, "status") = NoText
  BY NoTexts, Words3 DEF V!StatusListingURL, V!Param

LEMMA ActiveIs ==
    ASSUME NEW rows \in Tables
    PROVE  /\ V!ListActiveMonitors(rows) \subseteq rows
           /\ IsFiniteSet(V!ListActiveMonitors(rows))
           /\ \A r \in V!ListActiveMonitors(rows) : ~r.archived
  BY StoreAssumption, FS_Subset DEF V!ListActiveMonitors, Table

LEMMA DisjointCount ==
    ASSUME NEW Base, NEW T, IsFiniteSet(Base), IsFiniteSet(T), Base \cap T = {}
    PROVE  /\ IsFiniteSet(Base \cup T)
           /\ Cardinality(Base \cup T) = Cardinality(Base) + Cardinality(T)
  <1>1. /\ IsFiniteSet(Base \cup T)
        /\ Cardinality(Base \cup T) = Cardinality(Base) + Cardinality(T) - Cardinality(Base \cap T)
    BY FS_Union
  <1>2. Cardinality(Base \cap T) = 0
    BY FS_EmptySet
  <1>3. Cardinality(Base) \in Nat /\ Cardinality(T) \in Nat
    BY FS_CardinalityType
  <1> QED BY <1>1, <1>2, <1>3

\* What the tiles of the front page count are disjoint parts of the active rows.
LEMMA ThreeStatuses ==
    ASSUME NEW rows \in Tables
    PROVE  LET active == V!ListActiveMonitors(rows)
               Is3(s) == {r \in active : r.status = s}
           IN Cardinality(active) = Cardinality(Is3("up")) + Cardinality(Is3("down"))
                                    + Cardinality(Is3("temporary-paused"))
  <1> DEFINE active == V!ListActiveMonitors(rows)
             up == {r \in active : r.status = "up"}
             down == {r \in active : r.status = "down"}
             paused == {r \in active : r.status = "temporary-paused"}
  <1>1. IsFiniteSet(active)
    BY ActiveIs
  <1>2. IsFiniteSet(up) /\ IsFiniteSet(down) /\ IsFiniteSet(paused)
    BY <1>1, FS_Subset
  <1>3. active = (up \cup down) \cup paused
    BY ActiveIs, StoreAssumption DEF Table
  <1>4. up \cap down = {} /\ (up \cup down) \cap paused = {}
    OBVIOUS
  <1> HIDE DEF active, up, down, paused
  <1>5. IsFiniteSet(up \cup down) /\ Cardinality(up \cup down) = Cardinality(up) + Cardinality(down)
    BY <1>2, <1>4, DisjointCount
  <1>6. Cardinality((up \cup down) \cup paused) = Cardinality(up \cup down) + Cardinality(paused)
    BY <1>2, <1>4, <1>5, DisjointCount
  <1>7. Cardinality(active) = Cardinality(up) + Cardinality(down) + Cardinality(paused)
    BY <1>3, <1>5, <1>6
  <1> QED BY <1>7 DEF active, up, down, paused

\* The front page.
LEMMA HomepageTilesAgree ==
    ASSUME NEW rows \in Tables, NEW t \in V!HandleHomepage(rows, {}, FirstPage, {}).tiles
    PROVE  Cardinality(V!HandleMonitorsListing(StatusPages, rows, t[2])) = t[1]
  <1> DEFINE active == V!ListActiveMonitors(rows)
             H(q) == V!HandleMonitorsListing(StatusPages, rows, q)
             s == V!HomepageStats(rows)
             Is3(x) == {r \in active : r.status = x}
             Cert(x) == {r \in active : r.ssl = x}
  <1>1. t \in V!HomepageTiles(s)
    BY DEF V!HandleHomepage, V!Homepage
  <1>2. /\ s.up = Cardinality(Is3("up")) /\ s.down = Cardinality(Is3("down"))
        /\ s.paused = Cardinality(Is3("temporary-paused"))
        /\ s.expiring = Cardinality(Cert("ssl-expiring"))
        /\ s.skipped = Cardinality(Cert("ssl-skipped"))
    BY Counting DEF V!HomepageStats
  <1>3. ASSUME NEW x \in {"up", "down", "temporary-paused"}
        PROVE  H([status |-> x]) = Is3(x)
    <2>1. V!Param([status |-> x], "status") = x /\ V!Param([status |-> x], "ssl") = NoText
      BY NoTexts DEF V!Param
    <2>2. H([status |-> x]) = Shown(active, x, NoText)
      BY <2>1, PlainListing
    <2> QED BY <2>2, Words3 DEF Shown
  <1>4. ASSUME NEW x \in {"ssl-expiring", "ssl-skipped"}
        PROVE  H([ssl |-> x]) = Cert(x)
    <2>1. V!Param([ssl |-> x], "ssl") = x /\ V!Param([ssl |-> x], "status") = NoText
      BY NoTexts DEF V!Param
    <2>2. H([ssl |-> x]) = Shown(active, NoText, x)
      BY <2>1, PlainListing
    <2> QED BY <2>2, Words3 DEF Shown
  <1>5. H(V!NoQuery) = active
    <2>1. DOMAIN V!NoQuery = {}
      BY DEF V!NoQuery
    <2>2. V!Param(V!NoQuery, "ssl") = NoText /\ V!Param(V!NoQuery, "status") = NoText
      BY <2>1, NoTexts DEF V!Param
    <2>3. H(V!NoQuery) = Shown(active, NoText, NoText)
      BY <2>1, <2>2, PlainListing
    <2> QED BY <2>3, Words3 DEF Shown
  <1>6. V!TrackedMonitors(s) = Cardinality(active)
    BY <1>2, ThreeStatuses DEF V!TrackedMonitors
  <1>7. /\ s.up = Cardinality(H([status |-> "up"])) /\ s.down = Cardinality(H([status |-> "down"]))
        /\ s.paused = Cardinality(H([status |-> "temporary-paused"]))
        /\ s.expiring = Cardinality(H([ssl |-> "ssl-expiring"]))
        /\ s.skipped = Cardinality(H([ssl |-> "ssl-skipped"]))
        /\ V!TrackedMonitors(s) = Cardinality(H(V!NoQuery))
    BY <1>2, <1>3, <1>4, <1>5, <1>6, Zenon
  <1>8. t \in {<<s.up, [status |-> "up"]>>, <<s.down, [status |-> "down"]>>,
               <<s.paused, [status |-> "temporary-paused"]>>,
               <<s.expiring, [ssl |-> "ssl-expiring"]>>, <<s.skipped, [ssl |-> "ssl-skipped"]>>,
               <<V!TrackedMonitors(s), V!NoQuery>>}
    BY <1>1 DEF V!HomepageTiles
  <1> HIDE DEF H, s, active
  <1>9. Cardinality(H(t[2])) = t[1]
    BY <1>7, <1>8
  <1> QED BY <1>9 DEF H

LEMMA PageStats ==
    ASSUME NEW rows \in Tables, NEW p \in DOMAIN StatusPages
    PROVE  LET s == V!StatsForPage(StatusPages[p], V!ListActiveMonitors(rows)) IN
           /\ s.total = Cardinality(Here(p, rows))
           /\ s.up = Cardinality(Shown(Here(p, rows), "up", NoText))
           /\ s.down = Cardinality(Shown(Here(p, rows), "down", NoText))
           /\ s.paused = Cardinality(Shown(Here(p, rows), "temporary-paused", NoText))
           /\ s.expiring = Cardinality(Shown(Here(p, rows), NoText, "ssl-expiring"))
           /\ s.expired = Cardinality(Shown(Here(p, rows), NoText, "expired"))
  <1> DEFINE here == Here(p, rows)
  <1>1. LET s == V!StatsForPage(StatusPages[p], V!ListActiveMonitors(rows)) IN
           /\ s.total = Cardinality(here)
           /\ s.up = Cardinality({r \in here : r.status = "up"})
           /\ s.down = Cardinality({r \in here : r.status = "down"})
           /\ s.paused = Cardinality({r \in here : r.status = "temporary-paused"})
           /\ s.expiring = Cardinality({r \in here : r.ssl = "ssl-expiring"})
           /\ s.expired = Cardinality({r \in here : r.ssl = "ssl-expiring" /\ r.expired})
    BY Counting DEF V!StatsForPage, Here
  <1>2. /\ Shown(here, "up", NoText) = {r \in here : r.status = "up"}
        /\ Shown(here, "down", NoText) = {r \in here : r.status = "down"}
        /\ Shown(here, "temporary-paused", NoText) = {r \in here : r.status = "temporary-paused"}
    BY Words3 DEF Shown
  <1>3. /\ Shown(here, NoText, "ssl-expiring") = {r \in here : r.ssl = "ssl-expiring"}
        /\ Shown(here, NoText, "expired") = {r \in here : r.ssl = "ssl-expiring" /\ r.expired}
    BY Words3 DEF Shown
  <1> QED BY <1>1, <1>2, <1>3

StatsOf(p, rows) == V!StatsForPage(StatusPages[p], V!ListActiveMonitors(rows))

SectionsOf(p, rows) == V!BuildStatusSections(StatusPages[p], V!ListActiveMonitors(rows))

LEMMA ThePage ==
    ASSUME NEW rows, NEW p \in DOMAIN StatusPages
    PROVE  V!HandleStatusBySlug(StatusPages, p, rows)
             = {V!StatusPage(p, SectionsOf(p, rows), StatsOf(p, rows))}
  BY DEF V!HandleStatusBySlug, SectionsOf, StatsOf

LEMMA WholePage ==
    ASSUME NEW rows \in Tables, NEW p \in DOMAIN StatusPages
    PROVE  V!HandleMonitorsListing(StatusPages, rows, V!StatusListingURL(p, V!NoText))
             = Here(p, rows)
  <1> DEFINE q == V!StatusListingURL(p, V!NoText)
  <1>1. /\ "status_page" \in DOMAIN q /\ q.status_page = p
        /\ DOMAIN q \cap {"section", "archived", "tag"} = {}
        /\ V!Param(q, "ssl") = NoText /\ V!Param(q, "status") = NoText
    BY StatusURL, NoTexts
  <1> HIDE DEF q
  <1>2. V!HandleMonitorsListing(StatusPages, rows, q) = Shown(Here(p, rows), NoText, NoText)
    BY <1>1, PageListing
  <1>3. Shown(Here(p, rows), NoText, NoText) = Here(p, rows)
    BY Words3 DEF Shown
  <1> QED BY <1>2, <1>3 DEF q

\* A status page.
LEMMA PageTilesAgree ==
    ASSUME NEW rows \in Tables, NEW p \in DOMAIN StatusPages,
           NEW t \in V!StatusPageTiles(p, StatsOf(p, rows))
    PROVE  Cardinality(V!HandleMonitorsListing(StatusPages, rows, t[2])) = t[1]
  <1> DEFINE H(kind) == V!HandleMonitorsListing(StatusPages, rows, V!StatusListingURL(p, kind))
             here == Here(p, rows)
             s == StatsOf(p, rows)
  <1>1. /\ s.total = Cardinality(here)
        /\ s.up = Cardinality(Shown(here, "up", NoText))
        /\ s.down = Cardinality(Shown(here, "down", NoText))
        /\ s.paused = Cardinality(Shown(here, "temporary-paused", NoText))
        /\ s.expiring = Cardinality(Shown(here, NoText, "ssl-expiring"))
        /\ s.expired = Cardinality(Shown(here, NoText, "expired"))
    BY PageStats DEF StatsOf
  <1>2. ASSUME NEW x \in {"up", "down", "temporary-paused"} PROVE H(x) = Shown(here, x, NoText)
    <2> DEFINE q == V!StatusListingURL(p, x)
    <2>1. /\ "status_page" \in DOMAIN q /\ q.status_page = p
          /\ DOMAIN q \cap {"section", "archived", "tag"} = {}
          /\ V!Param(q, "ssl") = NoText /\ V!Param(q, "status") = x
      BY StatusURL
    <2> HIDE DEF q
    <2>2. V!HandleMonitorsListing(StatusPages, rows, q) = Shown(here, x, NoText)
      BY <2>1, PageListing
    <2> QED BY <2>2 DEF q
  <1>3. ASSUME NEW x \in {"ssl-expiring", "expired"} PROVE H(x) = Shown(here, NoText, x)
    <2> DEFINE q == V!StatusListingURL(p, x)
    <2>1. /\ "status_page" \in DOMAIN q /\ q.status_page = p
          /\ DOMAIN q \cap {"section", "archived", "tag"} = {}
          /\ V!Param(q, "ssl") = x /\ V!Param(q, "status") = NoText
      BY StatusURL
    <2> HIDE DEF q
    <2>2. V!HandleMonitorsListing(StatusPages, rows, q) = Shown(here, NoText, x)
      BY <2>1, PageListing
    <2> QED BY <2>2 DEF q
  <1>4. H(V!NoText) = here
    BY WholePage
  <1> HIDE DEF H, s, here
  <1>5. t \in {<<s.total, V!StatusListingURL(p, V!NoText)>>, <<s.up, V!StatusListingURL(p, "up")>>,
               <<s.down, V!StatusListingURL(p, "down")>>,
               <<s.paused, V!StatusListingURL(p, "temporary-paused")>>,
               <<s.expiring, V!StatusListingURL(p, "ssl-expiring")>>,
               <<s.expired, V!StatusListingURL(p, "expired")>>}
    BY DEF V!StatusPageTiles, s
  <1>6. /\ s.total = Cardinality(H(V!NoText)) /\ s.up = Cardinality(H("up"))
        /\ s.down = Cardinality(H("down")) /\ s.paused = Cardinality(H("temporary-paused"))
        /\ s.expiring = Cardinality(H("ssl-expiring")) /\ s.expired = Cardinality(H("expired"))
    BY <1>1, <1>2, <1>3, <1>4, Zenon
  <1> QED BY <1>5, <1>6 DEF H

LEMMA TilesFollow == Is("table") /\ subject.rows \in Tables => TilesAgree
  <1> SUFFICES ASSUME Is("table"), subject.rows \in Tables PROVE TilesAgree
    OBVIOUS
  <1>1. ASSUME NEW t \in V!HandleHomepage(subject.rows, {}, FirstPage, {}).tiles
        PROVE  Cardinality(Listing(t[2])) = t[1]
    BY <1>1, HomepageTilesAgree DEF Listing
  <1>2. V!CountOpenIncidents(subject.rows) = V!HomepageStats(subject.rows).down
    <2>1. {r \in subject.rows : r.status = "down" /\ ~r.archived}
            = {r \in V!ListActiveMonitors(subject.rows) : r.status = "down"}
      BY DEF V!ListActiveMonitors
    <2> QED BY <2>1 DEF V!CountOpenIncidents, V!HomepageStats
  <1>3. ASSUME NEW p \in DOMAIN StatusPages, NEW page \in StatusPage(p), NEW t \in page.tiles
        PROVE  Cardinality(Listing(t[2])) = t[1]
    <2>1. page.tiles = V!StatusPageTiles(p, StatsOf(p, subject.rows))
      BY ThePage DEF StatusPage, V!StatusPage
    <2> QED BY <2>1, <1>3, PageTilesAgree DEF Listing
  <1> QED BY <1>1, <1>2, <1>3 DEF TilesAgree

\* The host a monitor without a port has to the templates is the one of the handlers.
LEMMA SectionRows ==
    ASSUME NEW rows, NEW p \in DOMAIN StatusPages, NEW i \in DOMAIN StatusPages[p]
    PROVE  \A r \in rows : r.port = NoText =>
             (r \in SectionsOf(p, rows)[i] <=>
                r \in {a \in V!ListActiveMonitors(rows) :
                         V!Matches(StatusPages[p][i], a.tags, V!MonitorHost(a))})
  <1>1. SectionsOf(p, rows)[i] = {a \in V!ListActiveMonitors(rows) :
                         V!Matches(StatusPages[p][i], a.tags, V!HostFromURL(a))}
    BY DEF SectionsOf, V!BuildStatusSections
  <1>2. \A r : r.port = NoText => V!HostFromURL(r) = V!MonitorHost(r)
    BY NoTexts DEF V!HostFromURL, V!MonitorHost
  <1> QED BY <1>1, <1>2

LEMMA SectionsDomain ==
    ASSUME NEW rows, NEW p \in DOMAIN StatusPages
    PROVE  DOMAIN SectionsOf(p, rows) = DOMAIN StatusPages[p]
  BY DEF SectionsOf, V!BuildStatusSections

LEMMA MonitorsFollow == Is("table") /\ subject.rows \in Tables => PagesAgreeOnMonitors
  <1> SUFFICES ASSUME Is("table"), subject.rows \in Tables,
                      NEW p \in DOMAIN StatusPages, NEW r \in subject.rows, r.port = NoText
               PROVE  LET blocks == (CHOOSE page \in StatusPage(p) : TRUE).blocks
                      IN /\ \A i \in DOMAIN blocks :
                               r \in blocks[i] <=> r \in Listing(V!SectionListingURL(p, i - 1))
                         /\ r \in UNION {blocks[i] : i \in DOMAIN blocks}
                               <=> r \in Listing(V!StatusListingURL(p, NoText))
                         /\ p \in V!AppearsOn(StatusPages, r)
                               <=> r \in Listing(V!StatusListingURL(p, NoText))
    BY DEF PagesAgreeOnMonitors
  <1> DEFINE rows == subject.rows
             blocks == SectionsOf(p, rows)
             active == V!ListActiveMonitors(rows)
  <1>1. (CHOOSE page \in StatusPage(p) : TRUE).blocks = blocks
    <2>1. StatusPage(p) = {V!StatusPage(p, blocks, StatsOf(p, rows))}
      BY ThePage DEF StatusPage
    <2>2. (CHOOSE page \in StatusPage(p) : TRUE) = V!StatusPage(p, blocks, StatsOf(p, rows))
      BY <2>1
    <2>3. V!StatusPage(p, blocks, StatsOf(p, rows)).blocks = blocks
      BY DEF V!StatusPage
    <2> HIDE DEF blocks
    <2> QED BY <2>2, <2>3
  <1>2. ASSUME NEW i \in DOMAIN blocks
        PROVE  /\ r \in blocks[i] <=> r \in Listing(V!SectionListingURL(p, i - 1))
               /\ r \in blocks[i] <=> r \in active /\ V!Matches(StatusPages[p][i], r.tags, V!MonitorHost(r))
    BY SectionsDomain, SectionRows, SectionListing DEF Listing
  <1>3. Listing(V!StatusListingURL(p, NoText)) = Here(p, rows)
    BY WholePage, NoTexts DEF Listing
  <1>4. r \in Here(p, rows) <=>
          r \in active /\ \E i \in DOMAIN blocks : V!Matches(StatusPages[p][i], r.tags, V!MonitorHost(r))
    BY SectionsDomain DEF Here, V!PageMatches
  <1>5. p \in V!AppearsOn(StatusPages, r) <=> r \in Here(p, rows)
    BY DEF V!AppearsOn, Here, V!ListActiveMonitors
  <1> HIDE DEF rows, blocks, active
  <1> QED BY <1>1, <1>2, <1>3, <1>4, <1>5

\* The badge of a page and of its tile, where the blocks together are what is counted.
LEMMA BadgeIs ==
    ASSUME NEW rows \in Tables, NEW p \in DOMAIN StatusPages, NEW sections,
           UNION {sections[i] : i \in DOMAIN sections} = Here(p, rows)
    PROVE  /\ V!StatusBadgeKind(sections) = V!PageBadgeKind(StatsOf(p, rows))
           /\ V!StatusPageTile(StatsOf(p, rows)).allUp \subseteq {Cardinality(Here(p, rows))}
  <1> DEFINE here == Here(p, rows)
             s == StatsOf(p, rows)
             downs == Shown(here, "down", NoText)
             paused == Shown(here, "temporary-paused", NoText)
             expiring == Shown(here, NoText, "ssl-expiring")
             up == Shown(here, "up", NoText)
  <1>1. here \subseteq rows /\ IsFiniteSet(here)
    <2>1. here \subseteq V!ListActiveMonitors(rows)
      BY DEF Here
    <2> QED BY <2>1, ActiveIs, FS_Subset
  <1>2. downs = {r \in here : r.status = "down"} /\ paused = {r \in here : r.status = "temporary-paused"}
    BY Words3 DEF Shown
  <1>3. expiring = {r \in here : r.ssl = "ssl-expiring"} /\ up = {r \in here : r.status = "up"}
    BY Words3 DEF Shown
  <1>4. \A T \in SUBSET here : Cardinality(T) \in Nat /\ (Cardinality(T) = 0 <=> T = {})
    BY <1>1, FS_Subset, FS_CardinalityType, FS_EmptySet
  <1>5. /\ s.total = Cardinality(here) /\ s.up = Cardinality(up) /\ s.down = Cardinality(downs)
        /\ s.paused = Cardinality(paused) /\ s.expiring = Cardinality(expiring)
    BY PageStats DEF StatsOf
  <1>6. downs \in SUBSET here /\ paused \in SUBSET here /\ expiring \in SUBSET here /\ up \in SUBSET here
    BY <1>2, <1>3
  <1>7. /\ s.total = 0 <=> here = {}
        /\ s.down > 0 <=> \E r \in here : r.status = "down"
        /\ s.paused > 0 <=> \E r \in here : r.status = "temporary-paused"
        /\ s.expiring > 0 <=> \E r \in here : r.ssl = "ssl-expiring"
        /\ s.down \in Nat /\ s.paused \in Nat
    <2>1. downs # {} <=> \E r \in here : r.status = "down"
      BY <1>2
    <2>2. paused # {} <=> \E r \in here : r.status = "temporary-paused"
      BY <1>2
    <2>3. expiring # {} <=> \E r \in here : r.ssl = "ssl-expiring"
      BY <1>3
    <2> HIDE DEF here, downs, paused, expiring, up, s
    <2> QED BY <1>4, <1>5, <1>6, <2>1, <2>2, <2>3
  <1>8. V!StatusBadgeKind(sections) =
          IF here = {} THEN "none" ELSE IF \E r \in here : r.status = "down" THEN "down"
          ELSE IF \E r \in here : r.status = "temporary-paused" \/ r.ssl = "ssl-expiring"
               THEN "warn" ELSE "up"
    BY DEF V!StatusBadgeKind
  <1>9. V!PageBadgeKind(s) =
          IF s.total = 0 THEN "none" ELSE IF s.down > 0 THEN "down"
          ELSE IF s.paused > 0 \/ s.expiring > 0 THEN "warn" ELSE "up"
    BY DEF V!PageBadgeKind
  <1>10. s.down = 0 /\ s.paused = 0 => up = here
    <2>1. \A r \in here : r.status \in {"up", "down", "temporary-paused"}
      BY <1>1, StoreAssumption DEF Table
    <2>2. s.down = 0 /\ s.paused = 0 => downs = {} /\ paused = {}
      BY <1>4, <1>5, <1>6
    <2>3. downs = {} /\ paused = {} => \A r \in here : r.status = "up"
      BY <2>1, <1>2
    <2>4. (\A r \in here : r.status = "up") => {r \in here : r.status = "up"} = here
      OBVIOUS
    <2> HIDE DEF here, s, downs, paused, up
    <2> QED BY <2>2, <2>3, <2>4, <1>3
  <1>11. V!StatusPageTile(s).allUp \subseteq {Cardinality(here)}
    BY <1>5, <1>10 DEF V!StatusPageTile
  <1> HIDE DEF here, s
  <1>12. V!StatusBadgeKind(sections) = V!PageBadgeKind(s)
    BY <1>7, <1>8, <1>9
  <1> QED BY <1>11, <1>12 DEF here, s

LEMMA BadgesFollow == Is("table") /\ subject.rows \in Tables => BadgesAgree
  <1> SUFFICES ASSUME Is("table"), subject.rows \in Tables,
                      \A r \in subject.rows : r.port = NoText,
                      NEW p \in DOMAIN StatusPages, NEW page \in StatusPage(p)
               PROVE  LET tile == V!HandleStatusIndex(StatusPages, subject.rows)[p]
                          shown == UNION {page.blocks[i] : i \in DOMAIN page.blocks}
                      IN /\ page.badge = tile.badge
                         /\ tile.allUp \subseteq {Cardinality(shown)}
                         /\ \A h \in page.heads : Cardinality(Listing(h[2])) = h[1]
    BY DEF BadgesAgree
  <1> DEFINE rows == subject.rows
             blocks == SectionsOf(p, rows)
             s == StatsOf(p, rows)
             active == V!ListActiveMonitors(rows)
  <1>1. page = V!StatusPage(p, blocks, s)
    BY ThePage DEF StatusPage
  <1>2. /\ page.blocks = blocks /\ page.badge = V!StatusBadgeKind(blocks)
        /\ page.heads = {<<Cardinality(blocks[i]), V!SectionListingURL(p, i - 1)>> : i \in DOMAIN blocks}
    BY <1>1, Counting DEF V!StatusPage
  <1>3. V!HandleStatusIndex(StatusPages, rows)[p] = V!StatusPageTile(s)
    BY DEF V!HandleStatusIndex, StatsOf
  <1>4. ASSUME NEW i \in DOMAIN blocks
        PROVE  /\ blocks[i] = {a \in active : V!Matches(StatusPages[p][i], a.tags, V!MonitorHost(a))}
               /\ blocks[i] = Listing(V!SectionListingURL(p, i - 1))
    <2>1. i \in DOMAIN StatusPages[p]
      BY SectionsDomain
    <2>2. blocks[i] \subseteq rows /\ active \subseteq rows
      BY <2>1 DEF SectionsOf, V!BuildStatusSections, V!ListActiveMonitors
    <2>3. blocks[i] = {a \in active : V!Matches(StatusPages[p][i], a.tags, V!MonitorHost(a))}
      BY <2>1, <2>2, SectionRows
    <2> QED BY <2>1, <2>3, SectionListing DEF Listing
  <1>5. UNION {blocks[i] : i \in DOMAIN blocks} = Here(p, rows)
    <2>1. DOMAIN blocks = DOMAIN StatusPages[p]
      BY SectionsDomain
    <2> HIDE DEF blocks
    <2> QED BY <1>4, <2>1 DEF Here, V!PageMatches
  <1>6. /\ V!StatusBadgeKind(blocks) = V!PageBadgeKind(s)
        /\ V!StatusPageTile(s).allUp \subseteq {Cardinality(Here(p, rows))}
    BY <1>5, BadgeIs
  <1>7. V!StatusPageTile(s).badge = V!PageBadgeKind(s)
    BY DEF V!StatusPageTile
  <1>8. ASSUME NEW h \in page.heads PROVE Cardinality(Listing(h[2])) = h[1]
    <2>1. PICK i \in DOMAIN blocks : h = <<Cardinality(blocks[i]), V!SectionListingURL(p, i - 1)>>
      BY <1>2
    <2>2. h[1] = Cardinality(blocks[i]) /\ h[2] = V!SectionListingURL(p, i - 1)
      BY <2>1
    <2> QED BY <2>2, <1>4
  <1> HIDE DEF rows, blocks, s, active
  <1> QED BY <1>2, <1>3, <1>5, <1>6, <1>7, <1>8 DEF rows

\* What one source of issues counts is finite.
LEMMA IssuesFollow == Is("issues") /\ subject.sources \in Sources => IssueBadgeAgrees
  <1> SUFFICES ASSUME Is("issues"), subject.sources \in Sources PROVE IssueBadgeAgrees
    OBVIOUS
  <1> DEFINE s == subject.sources
             bad == {e \in s.mapping : ~e.ok}
             invalid == {r \in s.discovery : r.status = "kube-invalid"}
             skipped == {r \in s.discovery : r.status = "kube-ignored"}
             Badge(readable) == V!IssueCount(s.mapping, s.discovery, s.missing, s.annotations, readable)
             on == Badge(TRUE)
             off == Badge(FALSE)
             zero == [kube_invalid |-> 0, slack_mapping |-> 0, missing_parent |-> 0, annotation |-> 0]
             gauge == V!Refresh(zero, s.mapping, s.discovery, s.missing, s.annotations, TRUE)
             after == V!Refresh(gauge, {}, {}, {}, {}, FALSE)
             page == V!IssuesPage(s.mapping, s.discovery, s.missing, s.annotations)
             a == Cardinality(bad)
             b == Cardinality(invalid)
             c == Cardinality(s.missing)
             d == Cardinality(s.annotations)
  <1>1. IsFiniteSet(bad) /\ IsFiniteSet(invalid) /\ IsFiniteSet(skipped)
        /\ IsFiniteSet(s.missing) /\ IsFiniteSet(s.annotations)
    BY StoreAssumption, FS_Subset
  <1>2. a \in Nat /\ b \in Nat /\ c \in Nat /\ d \in Nat /\ Cardinality(skipped) \in Nat
    BY <1>1, FS_CardinalityType
  <1>3. (b = 0 => invalid = {}) /\ (c = 0 => s.missing = {}) /\ (d = 0 => s.annotations = {})
    BY <1>1, FS_EmptySet
  <1>4. ASSUME NEW status \in {"kube-invalid", "kube-ignored"}
        PROVE  V!DiscoveryListing(s.discovery, status, AnyText).rows
                 = {r \in s.discovery : r.status = status}
    BY Words3, NoTexts DEF V!DiscoveryListing, V!FilterDiscoveryRows
  <1>5. on = a + b + c + d /\ off = a + 0 + c + d
    BY Counting DEF V!IssueCount, V!CountKubeInvalid
  <1>6. /\ gauge.kube_invalid = b /\ gauge.slack_mapping = a /\ gauge.missing_parent = c
        /\ gauge.annotation = d
    BY Counting DEF V!Refresh, V!CountKubeInvalid
  <1>7. after.kube_invalid = gauge.kube_invalid
    <2> HIDE DEF gauge
    <2> QED BY DEF V!Refresh
  <1>8. /\ page.total = a + b + d + c
        /\ page.allWell <=> page.total = 0
        /\ "invalid" \in DOMAIN page.sections => page.sections.invalid = b
        /\ "skipped" \in DOMAIN page.sections => page.sections.skipped = Cardinality(skipped)
    BY Counting DEF V!IssuesPage
  <1> HIDE DEF a, b, c, d, on, off, gauge, after, page
  <1>9. on = page.total /\ on - off = b
    <2>1. page.total = a + b + d + c
      BY <1>8
    <2> QED BY <1>2, <1>5, <2>1
  <1>10. gauge.kube_invalid + gauge.slack_mapping + gauge.missing_parent + gauge.annotation = on
    BY <1>2, <1>5, <1>6
  <1>11. page.allWell => b = 0 /\ c = 0 /\ d = 0
    BY <1>2, <1>8
  <1>12. /\ V!DiscoveryListing(s.discovery, "kube-invalid", AnyText).rows = invalid
         /\ V!DiscoveryListing(s.discovery, "kube-ignored", AnyText).rows = skipped
    BY <1>4
  <1> QED BY <1>3, <1>6, <1>7, <1>8, <1>9, <1>10, <1>11, <1>12 DEF IssueBadgeAgrees, on, off, gauge, after, page, b, zero

-----------------------------------------------------------------------------
(* What is taken up stays what it is. *)

TakenAsGiven ==
    /\ "kind" \in DOMAIN subject
    /\ Is("host") =>
          /\ subject.tree \in KubeTrees /\ subject.wildcard \in BOOLEAN
          /\ \E obj \in Hosts :
                subject.hits = {l \in DOMAIN KubeWhens : KubeWhenMatches(KubeWhens[l], obj)}
    /\ Is("alert") =>
          /\ subject.tree \in AlertTrees /\ subject.kube \in BOOLEAN
          /\ \E a \in Alerts :
                subject.hits = {l \in DOMAIN AlertWhens : AMWhenMatches(AlertWhens[l], a.alert, a.envelope)}
    /\ Is("monitor") => subject.monitor \in Declared
    /\ Is("coalesce") => subject.coalesce \in Coalesces
    /\ Is("selfHealth") => subject.selfHealth \in SelfHealths
    /\ Is("rateLimit") => subject.rateLimit \in RateLimits
    /\ Is("table") => subject.rows \in Tables /\ subject.query \in Queries
    /\ Is("pages") => /\ subject.per \in 0 .. MaxPer
                      /\ \E l \in Listings : /\ subject.keys = l.keys /\ subject.orders = l.orders
                                             /\ subject.total = Len(l.keys)
    /\ Is("incidents") => subject.rows \in AMTables /\ subject.query \in AMQueries
    /\ Is("issues") => subject.sources \in Sources

LEMMA TakenInit == NothingTaken => TakenAsGiven
  <1> SUFFICES ASSUME NothingTaken PROVE TakenAsGiven
    OBVIOUS
  <1>1. "kind" \in DOMAIN subject /\ subject.kind = "none"
    BY DEF NothingTaken, None
  <1> QED BY <1>1 DEF TakenAsGiven, Is

\* What is taken up is what is given, and the rest of Outside takes up other things.
LEMMA TakenStays == TakenAsGiven /\ [RulesStep]_subject => TakenAsGiven'
  <1> SUFFICES ASSUME TakenAsGiven, [RulesStep]_subject PROVE TakenAsGiven'
    OBVIOUS
  <1>1. CASE UNCHANGED subject
    BY <1>1 DEF TakenAsGiven, Is
  <1>2. CASE OutsideStep
    <2>1. "kind" \in DOMAIN subject'
      BY <1>2, StaysTaken DEF TakenAsGiven
    <2>2. subject'.kind \in {"proxies", "channels", "people", "schema", "workspace", "call", "flood"}
      BY <1>2, KindIs DEF TakenAsGiven, OutsideStep
    <2> QED BY <2>1, <2>2 DEF TakenAsGiven, Is
  <1>3. CASE TakeKubeTree
    BY <1>3 DEF TakeKubeTree, TakenAsGiven, Is
  <1>4. CASE TakeAlertTree
    BY <1>4 DEF TakeAlertTree, TakenAsGiven, Is
  <1>5. CASE TakeMonitor \/ TakeCoalesce \/ TakeSelfHealth \/ TakeRateLimit
    BY <1>5 DEF TakeMonitor, TakeCoalesce, TakeSelfHealth, TakeRateLimit, TakenAsGiven, Is
  <1>6. CASE ShowMonitors \/ TurnPages \/ ShowAlerts \/ ShowIssues
    BY <1>6 DEF ShowMonitors, TurnPages, ShowAlerts, ShowIssues, TakenAsGiven, Is
  <1> QED BY <1>1, <1>2, <1>3, <1>4, <1>5, <1>6 DEF RulesStep

LEMMA TakenInvariance == RulesSpec => []TakenAsGiven
  BY TakenInit, TakenStays, PTL DEF RulesSpec

\* A count, the list behind it, the blocks of a status page and the badges tell one story
\* (store.HomepageStats, ListMonitors, statuspage.Match, statusPageSeverity, IssueCount),
\* for any status pages, any monitors and any issues.
THEOREM PagesAlwaysAgree == RulesSpec => []PagesAgree
  <1>1. TakenAsGiven => PagesAgree
    <2> SUFFICES ASSUME TakenAsGiven PROVE PagesAgree
      OBVIOUS
    <2>1. TilesAgree
      BY Zenon, TilesFollow DEF TakenAsGiven, TilesAgree
    <2>2. PagesAgreeOnMonitors
      BY Zenon, MonitorsFollow DEF TakenAsGiven, PagesAgreeOnMonitors
    <2>3. BadgesAgree
      BY Zenon, BadgesFollow DEF TakenAsGiven, BadgesAgree
    <2>4. IssueBadgeAgrees
      BY Zenon, IssuesFollow DEF TakenAsGiven, IssueBadgeAgrees
    <2> QED BY <2>1, <2>2, <2>3, <2>4 DEF PagesAgree
  <1> QED BY <1>1, TakenInvariance, PTL

-----------------------------------------------------------------------------
(* Induction. *)

LEMMA NatLeast ==
    ASSUME NEW T \in SUBSET Nat, T # {}
    PROVE  \E n \in T : \A m \in T : n <= m
  <1> DEFINE Below == {1 .. k : k \in T}
  <1>1. Below \subseteq FiniteSubsetsOf(Nat)
    <2> SUFFICES ASSUME NEW k \in T PROVE 1 .. k \in FiniteSubsetsOf(Nat)
      OBVIOUS
    <2>1. IsFiniteSet(1 .. k)
      BY FS_Interval
    <2> QED BY <2>1 DEF FiniteSubsetsOf
  <1>2. IsWellFoundedOn(StrictSubsetOrdering(Nat), FiniteSubsetsOf(Nat))
    BY FS_StrictSubsetOrderingWellFounded
  <1>3. \E x \in Below : \A y \in Below : ~ (<<y, x>> \in StrictSubsetOrdering(Nat))
    <2>1. Below # {} OBVIOUS
    <2> QED BY <1>1, <1>2, <2>1, WFMin
  <1>4. PICK n \in T : \A k \in T : <<1 .. k, 1 .. n>> \notin StrictSubsetOrdering(Nat)
    BY <1>3
  <1>5. ASSUME NEW m \in T, ~(n <= m) PROVE FALSE
    <2>1. 1 .. m \subseteq 1 .. n /\ 1 .. m # 1 .. n
      <3>1. n \in 1 .. n /\ n \notin 1 .. m /\ n \in Nat /\ m \in Nat BY <1>5
      <3> QED BY <3>1, <1>5
    <2>2. <<1 .. m, 1 .. n>> \in StrictSubsetOrdering(Nat)
      BY <2>1 DEF StrictSubsetOrdering
    <2> QED BY <2>2, <1>4
  <1> QED BY <1>5

\* Induction over a set: a set that has 0 and with n also n + 1 has every number.
LEMMA Induct ==
    ASSUME NEW Base, 0 \in Base, \A n \in Nat : n \in Base => n + 1 \in Base
    PROVE  Nat \subseteq Base
  <1> SUFFICES ASSUME Nat \ Base # {} PROVE FALSE
    OBVIOUS
  <1>1. PICK n \in Nat \ Base : \A m \in Nat \ Base : n <= m
    BY NatLeast
  <1>2. n # 0
    BY <1>1
  <1>3. n - 1 \in Nat /\ n - 1 \in Base
    BY <1>1, <1>2
  <1> QED BY <1>1, <1>3

LEMMA InductTo ==
    ASSUME NEW N \in Nat, NEW Base, 0 \in Base, \A n \in 1 .. N : n - 1 \in Base => n \in Base
    PROVE  \A n \in 0 .. N : n \in Base
  <1> DEFINE T == {n \in Nat : n <= N => n \in Base}
  <1>1. 0 \in T
    OBVIOUS
  <1>2. ASSUME NEW n \in Nat, n \in T PROVE n + 1 \in T
    <2> SUFFICES ASSUME n + 1 <= N PROVE n + 1 \in Base
      OBVIOUS
    <2>1. n + 1 \in 1 .. N /\ (n + 1) - 1 = n /\ n <= N
      OBVIOUS
    <2>2. n \in Base
      BY <1>2, <2>1
    <2> QED BY <2>1, <2>2
  <1> HIDE DEF T
  <1>3. Nat \subseteq T
    BY <1>1, <1>2, Induct
  <1> QED BY <1>3 DEF T

-----------------------------------------------------------------------------
(* The loops of Cascade, and the leafing of Rules. *)

(* The page behind an address, and what has been read after one more page. *)
PageAt(listing, address) ==
    IF listing = "monitors" THEN MonitorsAt(address)
    ELSE IF listing = "log" THEN LogAt(address) ELSE IncidentsAt(address)

ReadMore(listing, before) ==
    LET page == PageAt(listing, CHOOSE address \in before.next : TRUE)
    IN IF before.next = {} THEN before
       ELSE [items |-> before.items \o page.items, next |-> page.pager.next]

(* What each does with one element. *)
Turn(loop, keep, acc, x) ==
    IF loop = "merge" THEN MergeLayer(acc, x)
    ELSE IF loop = "trace" THEN ApplyConfig(acc, x)
    ELSE IF loop = "dedup" THEN AppendNew(acc, x)
    ELSE IF loop = "filter" THEN (IF x \in keep THEN Append(acc, x) ELSE acc)
    ELSE IF loop = "lower" THEN Contribute(acc, x)
    ELSE IF loop = "amLower" THEN AMContribute(acc, x)
    ELSE IF loop = "amMerge" THEN AMMergeLayer(acc, x)
    ELSE IF loop \in {"monitors", "log", "incidents"} THEN ReadMore(loop, acc)
    ELSE acc \o x

(* h has what there is after every turn. *)
Turned(h, loop, keep, start, s) ==
    h = [n \in 0 .. Len(s) |-> IF n = 0 THEN start ELSE Turn(loop, keep, h[n - 1], s[n])]

\* A loop has a result after every turn.
LEMMA Turns ==
    ASSUME NEW loop, NEW keep, NEW start, NEW s, Len(s) \in Nat
    PROVE  \E h : Turned(h, loop, keep, start, s)
  <1> DEFINE N == Len(s)
             Upto(h, k) == h = [n \in 0 .. k |-> IF n = 0 THEN start ELSE Turn(loop, keep, h[n - 1], s[n])]
             Base == {k \in Nat : \E h : Upto(h, k)}
  <1>1. 0 \in Base
    <2>1. Upto([n \in 0 .. 0 |-> start], 0)
       OBVIOUS
    <2> QED BY <2>1
  <1>2. ASSUME NEW k \in Nat, k \in Base PROVE k + 1 \in Base
    <2>1. PICK h : Upto(h, k)
      BY <1>2
    <2> DEFINE g == [n \in 0 .. k + 1 |-> IF n = k + 1 THEN Turn(loop, keep, h[k], s[k + 1]) ELSE h[n]]
    <2>2. Upto(g, k + 1)
      <3>1. ASSUME NEW n \in 0 .. k + 1
            PROVE  g[n] = IF n = 0 THEN start ELSE Turn(loop, keep, g[n - 1], s[n])
        <4>1. CASE n = k + 1
          <5>1. n - 1 = k /\ g[n - 1] = h[k] /\ n # 0
            BY <4>1
          <5> QED BY <5>1, <4>1
        <4>2. CASE n # k + 1
          <5>1. n \in 0 .. k /\ g[n] = h[n] /\ (n # 0 => g[n - 1] = h[n - 1])
            BY <4>2
          <5>2. h[n] = IF n = 0 THEN start ELSE Turn(loop, keep, h[n - 1], s[n])
            BY <5>1, <2>1
          <5> QED BY <5>1, <5>2
        <4> QED BY <4>1, <4>2
      <3>2. g = [n \in 0 .. k + 1 |-> g[n]]
        OBVIOUS
      <3> HIDE DEF g
      <3> QED BY <3>1, <3>2
    <2> HIDE DEF g
    <2>3. \E f : Upto(f, k + 1)
      BY <2>2
    <2> QED BY <2>3
  <1>3. N \in Base
    <2> HIDE DEF Base
    <2> QED BY <1>1, <1>2, Induct
  <1> QED BY <1>3 DEF Turned

LEMMA MergeTurns ==
    ASSUME NEW layers, Len(layers) \in Nat
    PROVE  \E h : /\ h[0] = Zero
                  /\ \A n \in 1 .. Len(layers) : h[n] = MergeLayer(h[n - 1], layers[n])
                  /\ ResolveStack(layers) = h[Len(layers)]
  <1>1. PICK h : Turned(h, "merge", {}, Zero, layers)
    BY Turns
  <1>2. h = [n \in 0 .. Len(layers) |-> IF n = 0 THEN Zero ELSE MergeLayer(h[n - 1], layers[n])]
    <2>1. \A a, x : Turn("merge", {}, a, x) = MergeLayer(a, x)
      BY DEF Turn
    <2> QED BY <1>1, <2>1 DEF Turned
  <1>3. \E f : /\ f = [n \in 0 .. Len(layers) |-> IF n = 0 THEN Zero ELSE MergeLayer(f[n - 1], layers[n])]
               /\ ResolveStack(layers) = f[Len(layers)]
    BY Zenon, <1>2 DEF ResolveStack, Loop
  <1>4. PICK f : /\ f = [n \in 0 .. Len(layers) |-> IF n = 0 THEN Zero ELSE MergeLayer(f[n - 1], layers[n])]
                /\ ResolveStack(layers) = f[Len(layers)]
    BY <1>3
  <1>5. f[0] = Zero /\ \A n \in 1 .. Len(layers) : f[n] = MergeLayer(f[n - 1], layers[n])
    BY <1>4
  <1> QED BY Zenon, <1>4, <1>5

LEMMA TraceTurns ==
    ASSUME NEW layers, Len(layers) \in Nat
    PROVE  \E h : /\ h[0] = NoKeys
                  /\ \A n \in 1 .. Len(layers) : h[n] = ApplyConfig(h[n - 1], layers[n])
                  /\ TraceAcc(layers) = h[Len(layers)]
  <1>1. PICK h : Turned(h, "trace", {}, NoKeys, layers)
    BY Turns
  <1>2. h = [n \in 0 .. Len(layers) |-> IF n = 0 THEN NoKeys ELSE ApplyConfig(h[n - 1], layers[n])]
    <2>1. \A a, x : Turn("trace", {}, a, x) = ApplyConfig(a, x)
      BY DEF Turn
    <2> QED BY <1>1, <2>1 DEF Turned
  <1>3. \E f : /\ f = [n \in 0 .. Len(layers) |-> IF n = 0 THEN NoKeys ELSE ApplyConfig(f[n - 1], layers[n])]
               /\ TraceAcc(layers) = f[Len(layers)]
    BY Zenon, <1>2 DEF TraceAcc, Loop
  <1>4. PICK f : /\ f = [n \in 0 .. Len(layers) |-> IF n = 0 THEN NoKeys ELSE ApplyConfig(f[n - 1], layers[n])]
                /\ TraceAcc(layers) = f[Len(layers)]
    BY <1>3
  <1>5. f[0] = NoKeys /\ \A n \in 1 .. Len(layers) : f[n] = ApplyConfig(f[n - 1], layers[n])
    BY <1>4
  <1> QED BY Zenon, <1>4, <1>5

LEMMA DedupTurns ==
    ASSUME NEW s, Len(s) \in Nat
    PROVE  \E h : /\ h[0] = <<>>
                  /\ \A n \in 1 .. Len(s) : h[n] = AppendNew(h[n - 1], s[n])
                  /\ Dedup(s) = h[Len(s)]
  <1>1. PICK h : Turned(h, "dedup", {}, <<>>, s)
    BY Turns
  <1>2. h = [n \in 0 .. Len(s) |-> IF n = 0 THEN <<>> ELSE AppendNew(h[n - 1], s[n])]
    <2>1. \A a, x : Turn("dedup", {}, a, x) = AppendNew(a, x)
      BY DEF Turn
    <2> QED BY <1>1, <2>1 DEF Turned
  <1>3. \E f : /\ f = [n \in 0 .. Len(s) |-> IF n = 0 THEN <<>> ELSE AppendNew(f[n - 1], s[n])]
               /\ Dedup(s) = f[Len(s)]
    BY Zenon, <1>2 DEF Dedup, Loop
  <1>4. PICK f : /\ f = [n \in 0 .. Len(s) |-> IF n = 0 THEN <<>> ELSE AppendNew(f[n - 1], s[n])]
                /\ Dedup(s) = f[Len(s)]
    BY <1>3
  <1>5. f[0] = <<>> /\ \A n \in 1 .. Len(s) : f[n] = AppendNew(f[n - 1], s[n])
    BY <1>4
  <1> QED BY Zenon, <1>4, <1>5

LEMMA FilterTurns ==
    ASSUME NEW s, NEW keep, Len(s) \in Nat
    PROVE  \E h : /\ h[0] = <<>>
                  /\ \A n \in 1 .. Len(s) : h[n] = IF s[n] \in keep THEN Append(h[n - 1], s[n]) ELSE h[n - 1]
                  /\ Filter(s, keep) = h[Len(s)]
  <1>1. PICK h : Turned(h, "filter", keep, <<>>, s)
    BY Turns
  <1>2. h = [n \in 0 .. Len(s) |-> IF n = 0 THEN <<>> ELSE IF s[n] \in keep THEN Append(h[n - 1], s[n]) ELSE h[n - 1]]
    <2>1. \A a, x : Turn("filter", keep, a, x) = IF x \in keep THEN Append(a, x) ELSE a
      BY DEF Turn
    <2> QED BY <1>1, <2>1 DEF Turned
  <1>3. \E f : /\ f = [n \in 0 .. Len(s) |-> IF n = 0 THEN <<>> ELSE IF s[n] \in keep THEN Append(f[n - 1], s[n]) ELSE f[n - 1]]
               /\ Filter(s, keep) = f[Len(s)]
    BY Zenon, <1>2 DEF Filter, Loop
  <1>4. PICK f : /\ f = [n \in 0 .. Len(s) |-> IF n = 0 THEN <<>> ELSE IF s[n] \in keep THEN Append(f[n - 1], s[n]) ELSE f[n - 1]]
                /\ Filter(s, keep) = f[Len(s)]
    BY <1>3
  <1>5. f[0] = <<>> /\ \A n \in 1 .. Len(s) : f[n] = IF s[n] \in keep THEN Append(f[n - 1], s[n]) ELSE f[n - 1]
    <2> DEFINE next(a, x) == IF x \in keep THEN Append(a, x) ELSE a
    <2>1. f = [n \in 0 .. Len(s) |-> IF n = 0 THEN <<>> ELSE next(f[n - 1], s[n])]
      BY Zenon, <1>4
    <2> HIDE DEF next
    <2>2. f[0] = <<>> /\ \A n \in 1 .. Len(s) : f[n] = next(f[n - 1], s[n])
      BY <2>1
    <2> QED BY Zenon, <2>2 DEF next
  <1> QED BY Zenon, <1>4, <1>5

LEMMA LowerTurns ==
    ASSUME NEW r, Len(r.from) \in Nat
    PROVE  \E h : /\ h[0] = r.cfg
                  /\ \A n \in 1 .. Len(r.from) : h[n] = Contribute(h[n - 1], r.from[n])
                  /\ Apply(r) = h[Len(r.from)]
  <1>1. PICK h : Turned(h, "lower", {}, r.cfg, r.from)
    BY Turns
  <1>2. h = [n \in 0 .. Len(r.from) |-> IF n = 0 THEN r.cfg ELSE Contribute(h[n - 1], r.from[n])]
    <2>1. \A a, x : Turn("lower", {}, a, x) = Contribute(a, x)
      BY DEF Turn
    <2> QED BY <1>1, <2>1 DEF Turned
  <1>3. \E f : /\ f = [n \in 0 .. Len(r.from) |-> IF n = 0 THEN r.cfg ELSE Contribute(f[n - 1], r.from[n])]
               /\ Apply(r) = f[Len(r.from)]
    BY Zenon, <1>2 DEF Apply, Loop
  <1>4. PICK f : /\ f = [n \in 0 .. Len(r.from) |-> IF n = 0 THEN r.cfg ELSE Contribute(f[n - 1], r.from[n])]
                /\ Apply(r) = f[Len(r.from)]
    BY <1>3
  <1>5. f[0] = r.cfg /\ \A n \in 1 .. Len(r.from) : f[n] = Contribute(f[n - 1], r.from[n])
    <2>1. 0 \in 0 .. Len(r.from) /\ \A n \in 1 .. Len(r.from) : n \in 0 .. Len(r.from) /\ n # 0
      OBVIOUS
    <2>2. \A n \in 0 .. Len(r.from) : f[n] = IF n = 0 THEN r.cfg ELSE Contribute(f[n - 1], r.from[n])
      BY Zenon, <1>4
    <2> QED BY Zenon, <2>1, <2>2
  <1> QED BY Zenon, <1>4, <1>5

LEMMA AMLowerTurns ==
    ASSUME NEW r, Len(r.from) \in Nat
    PROVE  \E h : /\ h[0] = r.cfg
                  /\ \A n \in 1 .. Len(r.from) : h[n] = AMContribute(h[n - 1], r.from[n])
                  /\ AMApply(r) = h[Len(r.from)]
  <1>1. PICK h : Turned(h, "amLower", {}, r.cfg, r.from)
    BY Turns
  <1>2. h = [n \in 0 .. Len(r.from) |-> IF n = 0 THEN r.cfg ELSE AMContribute(h[n - 1], r.from[n])]
    <2>1. \A a, x : Turn("amLower", {}, a, x) = AMContribute(a, x)
      BY DEF Turn
    <2> QED BY <1>1, <2>1 DEF Turned
  <1>3. \E f : /\ f = [n \in 0 .. Len(r.from) |-> IF n = 0 THEN r.cfg ELSE AMContribute(f[n - 1], r.from[n])]
               /\ AMApply(r) = f[Len(r.from)]
    BY Zenon, <1>2 DEF AMApply, Loop
  <1>4. PICK f : /\ f = [n \in 0 .. Len(r.from) |-> IF n = 0 THEN r.cfg ELSE AMContribute(f[n - 1], r.from[n])]
                /\ AMApply(r) = f[Len(r.from)]
    BY <1>3
  <1>5. f[0] = r.cfg /\ \A n \in 1 .. Len(r.from) : f[n] = AMContribute(f[n - 1], r.from[n])
    <2>1. 0 \in 0 .. Len(r.from) /\ \A n \in 1 .. Len(r.from) : n \in 0 .. Len(r.from) /\ n # 0
      OBVIOUS
    <2>2. \A n \in 0 .. Len(r.from) : f[n] = IF n = 0 THEN r.cfg ELSE AMContribute(f[n - 1], r.from[n])
      BY Zenon, <1>4
    <2> QED BY Zenon, <2>1, <2>2
  <1> QED BY Zenon, <1>4, <1>5

LEMMA AMMergeTurns ==
    ASSUME NEW layers, Len(layers) \in Nat
    PROVE  \E h : /\ h[0] = [slack |-> NoText, notify |-> <<>>]
                  /\ \A n \in 1 .. Len(layers) : h[n] = AMMergeLayer(h[n - 1], layers[n])
                  /\ AMResolveStack(layers) = h[Len(layers)]
  <1>1. PICK h : Turned(h, "amMerge", {}, [slack |-> NoText, notify |-> <<>>], layers)
    BY Turns
  <1>2. h = [n \in 0 .. Len(layers) |-> IF n = 0 THEN [slack |-> NoText, notify |-> <<>>] ELSE AMMergeLayer(h[n - 1], layers[n])]
    <2>1. \A a, x : Turn("amMerge", {}, a, x) = AMMergeLayer(a, x)
      BY DEF Turn
    <2> QED BY <1>1, <2>1 DEF Turned
  <1>3. \E f : /\ f = [n \in 0 .. Len(layers) |-> IF n = 0 THEN [slack |-> NoText, notify |-> <<>>] ELSE AMMergeLayer(f[n - 1], layers[n])]
               /\ AMResolveStack(layers) = f[Len(layers)]
    BY Zenon, <1>2 DEF AMResolveStack, Loop
  <1>4. PICK f : /\ f = [n \in 0 .. Len(layers) |-> IF n = 0 THEN [slack |-> NoText, notify |-> <<>>] ELSE AMMergeLayer(f[n - 1], layers[n])]
                /\ AMResolveStack(layers) = f[Len(layers)]
    BY <1>3
  <1>5. f[0] = [slack |-> NoText, notify |-> <<>>] /\ \A n \in 1 .. Len(layers) : f[n] = AMMergeLayer(f[n - 1], layers[n])
    BY <1>4
  <1> QED BY Zenon, <1>4, <1>5

-----------------------------------------------------------------------------
(* Lists. *)

LEMMA Appended ==
    ASSUME NEW Base, NEW s \in Seq(Base), NEW v \in Base
    PROVE  Append(s, v) \in Seq(Base) /\ ToSet(Append(s, v)) = ToSet(s) \cup {v}
  <1>1. /\ Append(s, v) \in Seq(Base) /\ Len(Append(s, v)) = Len(s) + 1
        /\ \A i \in 1 .. Len(s) : Append(s, v)[i] = s[i]
        /\ Append(s, v)[Len(s) + 1] = v
    OBVIOUS
  <1>2. DOMAIN Append(s, v) = 1 .. Len(s) + 1 /\ DOMAIN s = 1 .. Len(s) /\ Len(s) \in Nat
    BY <1>1
  <1> QED BY <1>1, <1>2 DEF ToSet

LEMMA EmptyList == \A Base : <<>> \in Seq(Base) /\ ToSet(<<>>) = {} /\ IsInjective(<<>>)
  BY DEF ToSet, IsInjective

LEMMA Filtered ==
    ASSUME NEW Base, NEW s \in Seq(Base), NEW keep
    PROVE  /\ Filter(s, keep) \in Seq(Base \cap keep)
           /\ ToSet(Filter(s, keep)) = ToSet(s) \cap keep
  <1>0. Len(s) \in Nat /\ DOMAIN s = 1 .. Len(s)
    OBVIOUS
  <1>1. PICK h : /\ h[0] = <<>>
                 /\ \A n \in 1 .. Len(s) : h[n] = IF s[n] \in keep THEN Append(h[n - 1], s[n]) ELSE h[n - 1]
                 /\ Filter(s, keep) = h[Len(s)]
    BY <1>0, FilterTurns
  <1> DEFINE P == {n \in 0 .. Len(s) : /\ h[n] \in Seq(Base \cap keep)
                                       /\ ToSet(h[n]) = {s[i] : i \in 1 .. n} \cap keep}
  <1>2. 0 \in P
    <2>1. {s[i] : i \in 1 .. 0} = {} /\ 0 \in 0 .. Len(s)
      BY <1>0
    <2> QED BY Zenon, <1>1, <2>1, EmptyList
  <1>3. ASSUME NEW n \in 1 .. Len(s), n - 1 \in P PROVE n \in P
    <2>1. {s[i] : i \in 1 .. n} = {s[i] : i \in 1 .. (n - 1)} \cup {s[n]}
      BY <1>0
    <2>2. s[n] \in Base /\ n \in 0 .. Len(s)
      BY <1>0
    <2>3. CASE s[n] \in keep
      <3>1. h[n] = Append(h[n - 1], s[n])
        BY <1>1, <2>3
      <3>2. h[n - 1] \in Seq(Base \cap keep) /\ ToSet(h[n - 1]) = {s[i] : i \in 1 .. (n - 1)} \cap keep
        BY <1>3
      <3>3. h[n] \in Seq(Base \cap keep) /\ ToSet(h[n]) = ToSet(h[n - 1]) \cup {s[n]}
        BY <2>2, <2>3, <3>1, <3>2, Appended
      <3> QED BY <2>1, <2>2, <2>3, <3>2, <3>3
    <2>4. CASE s[n] \notin keep
      <3>1. h[n] = h[n - 1]
        BY <1>1, <2>4
      <3> QED BY <1>3, <2>1, <2>2, <2>4, <3>1
    <2> QED BY <2>3, <2>4
  <1> HIDE DEF P
  <1>4. \A n \in 0 .. Len(s) : n \in P
    BY <1>0, <1>2, <1>3, InductTo
  <1>5. Len(s) \in P
    BY <1>0, <1>4
  <1>6. /\ h[Len(s)] \in Seq(Base \cap keep)
        /\ ToSet(h[Len(s)]) = {s[i] : i \in 1 .. Len(s)} \cap keep
    BY Zenon, <1>5 DEF P
  <1>7. {s[i] : i \in 1 .. Len(s)} = ToSet(s)
    BY Zenon, <1>0 DEF ToSet
  <1> QED BY Zenon, <1>1, <1>6, <1>7

LEMMA DedupIs ==
    ASSUME NEW Base, NEW s \in Seq(Base)
    PROVE  /\ Dedup(s) \in Seq(Base) /\ ToSet(Dedup(s)) = ToSet(s) /\ IsInjective(Dedup(s))
  <1>0. Len(s) \in Nat /\ DOMAIN s = 1 .. Len(s)
    OBVIOUS
  <1>1. PICK h : /\ h[0] = <<>>
                 /\ \A n \in 1 .. Len(s) : h[n] = AppendNew(h[n - 1], s[n])
                 /\ Dedup(s) = h[Len(s)]
    BY <1>0, DedupTurns
  <1> DEFINE P == {n \in 0 .. Len(s) : /\ h[n] \in Seq(Base) /\ IsInjective(h[n])
                                       /\ ToSet(h[n]) = {s[i] : i \in 1 .. n}}
  <1>2. 0 \in P
    <2>1. {s[i] : i \in 1 .. 0} = {} /\ 0 \in 0 .. Len(s)
      BY <1>0
    <2> QED BY Zenon, <1>1, <2>1, EmptyList
  <1>3. ASSUME NEW n \in 1 .. Len(s), n - 1 \in P PROVE n \in P
    <2>1. {s[i] : i \in 1 .. n} = {s[i] : i \in 1 .. (n - 1)} \cup {s[n]}
      BY <1>0
    <2>2. s[n] \in Base /\ n \in 0 .. Len(s)
      BY <1>0
    <2>3. /\ h[n - 1] \in Seq(Base) /\ ToSet(h[n - 1]) = {s[i] : i \in 1 .. (n - 1)}
          /\ IsInjective(h[n - 1])
      BY <1>3
    <2>4. CASE s[n] \in ToSet(h[n - 1])
      <3>1. h[n] = h[n - 1]
        BY <1>1, <2>4 DEF AppendNew
      <3> QED BY <2>1, <2>2, <2>3, <2>4, <3>1
    <2>5. CASE s[n] \notin ToSet(h[n - 1])
      <3>1. h[n] = Append(h[n - 1], s[n])
        BY <1>1, <2>5 DEF AppendNew
      <3>2. h[n] \in Seq(Base) /\ ToSet(h[n]) = ToSet(h[n - 1]) \cup {s[n]}
        BY <2>2, <2>3, <3>1, Appended
      <3>3. IsInjective(h[n])
        BY <2>2, <2>3, <2>5, <3>1 DEF IsInjective, ToSet
      <3> QED BY <2>1, <2>2, <2>3, <3>2, <3>3
    <2> QED BY <2>4, <2>5
  <1> HIDE DEF P
  <1>4. \A n \in 0 .. Len(s) : n \in P
    BY <1>0, <1>2, <1>3, InductTo
  <1>5. Len(s) \in P
    BY <1>0, <1>4
  <1> QED BY <1>0, <1>1, <1>5 DEF P, ToSet

-----------------------------------------------------------------------------
(* The layer of a rule. *)

(* What a source is worth to its key. *)
Worth(src, low) ==
    IF KindOf(src.key) = "list" THEN [values |-> low.value, override |-> src.override]
    ELSE IF KindOf(src.key) = "codes" THEN low.value ELSE low.value[1]

LEMMA Written ==
    ASSUME NEW c, NEW src, NEW low
    PROVE  /\ ~low.set => Write(c, src, low) = c
           /\ low.set => /\ DOMAIN Write(c, src, low) = DOMAIN c \cup {src.key}
                         /\ Write(c, src, low)[src.key] = Worth(src, low)
                         /\ \A j \in DOMAIN c \ {src.key} : Write(c, src, low)[j] = c[j]
  <1> DEFINE k == src.key
             v == Worth(src, low)
  <1>1. Write(c, src, low) = IF ~low.set THEN c ELSE [j \in DOMAIN c \cup {k} |-> IF j = k THEN v ELSE c[j]]
    BY Zenon DEF Write, Worth
  <1> HIDE DEF v
  <1> QED BY <1>1 DEF v

(* The layer has the literals of cfg and what its first n sources are worth:   *)
(* every key of either, and for every key one of them, a source if there is one. *)
LayerOf(layer, cfg, from, low, n) ==
    /\ DOMAIN cfg \subseteq DOMAIN layer
    /\ \A i \in 1 .. n : low[i].set => from[i].key \in DOMAIN layer
    /\ \A k \in DOMAIN layer :
          \/ /\ k \in DOMAIN cfg /\ layer[k] = cfg[k]
             /\ \A i \in 1 .. n : low[i].set => from[i].key # k
          \/ \E i \in 1 .. n : /\ from[i].key = k /\ low[i].set
                              /\ layer[k] = Worth(from[i], low[i])

LEMMA OneMoreSource ==
    ASSUME NEW cfg, NEW n \in Nat, n # 0, NEW from, NEW low, NEW layer,
           LayerOf(layer, cfg, from, low, n - 1)
    PROVE  LayerOf(Write(layer, from[n], low[n]), cfg, from, low, n)
  <1> DEFINE next == Write(layer, from[n], low[n])
  <1>1. /\ ~low[n].set => next = layer
        /\ low[n].set => /\ DOMAIN next = DOMAIN layer \cup {from[n].key}
                         /\ next[from[n].key] = Worth(from[n], low[n])
                         /\ \A j \in DOMAIN layer \ {from[n].key} : next[j] = layer[j]
    BY ZenonT(60), Written
  <1> HIDE DEF next
  <1>2. /\ \A i \in 1 .. n : i \in 1 .. (n - 1) \/ i = n
        /\ \A i \in 1 .. (n - 1) : i \in 1 .. n
        /\ n \in 1 .. n
    OBVIOUS
  <1>3. DOMAIN cfg \subseteq DOMAIN next
    BY <1>1 DEF LayerOf
  <1>4. \A i \in 1 .. n : low[i].set => from[i].key \in DOMAIN next
    BY <1>1, <1>2 DEF LayerOf
  <1>5. ASSUME NEW k \in DOMAIN next
        PROVE  \/ /\ k \in DOMAIN cfg /\ next[k] = cfg[k]
                  /\ \A i \in 1 .. n : low[i].set => from[i].key # k
               \/ \E i \in 1 .. n : /\ from[i].key = k /\ low[i].set
                                   /\ next[k] = Worth(from[i], low[i])
    <2>1. CASE low[n].set /\ k = from[n].key
      BY Zenon, <1>1, <1>2, <2>1
    <2>2. CASE ~(low[n].set /\ k = from[n].key)
      <3>1. k \in DOMAIN layer /\ next[k] = layer[k]
        BY <1>1, <2>2
      <3>2. \/ /\ k \in DOMAIN cfg /\ layer[k] = cfg[k]
               /\ \A i \in 1 .. n - 1 : low[i].set => from[i].key # k
            \/ \E i \in 1 .. n - 1 : /\ from[i].key = k /\ low[i].set
                                    /\ layer[k] = Worth(from[i], low[i])
        BY Zenon, <3>1 DEF LayerOf
      <3> QED BY Zenon, <1>2, <2>2, <3>1, <3>2
    <2> QED BY <2>1, <2>2
  <1>6. LayerOf(next, cfg, from, low, n)
    BY Zenon, <1>3, <1>4, <1>5 DEF LayerOf
  <1> QED BY <1>6 DEF next

LEMMA WrittenAll ==
    ASSUME NEW cfg, NEW N \in Nat, NEW from, NEW low, NEW h, h[0] = cfg,
           \A n \in 1 .. N : h[n] = Write(h[n - 1], from[n], low[n])
    PROVE  LayerOf(h[N], cfg, from, low, N)
  <1> DEFINE P == {n \in 0 .. N : LayerOf(h[n], cfg, from, low, n)}
  <1>1. 0 \in P
    BY DEF LayerOf
  <1>2. ASSUME NEW n \in 1 .. N, n - 1 \in P PROVE n \in P
    <2>1. LayerOf(h[n - 1], cfg, from, low, n - 1) /\ n \in Nat /\ n # 0 /\ n \in 0 .. N
      BY <1>2
    <2> QED BY <2>1, OneMoreSource
  <1> HIDE DEF P
  <1>3. \A n \in 0 .. N : n \in P
    BY <1>1, <1>2, InductTo
  <1>4. N \in P
    BY <1>3
  <1> QED BY <1>4 DEF P

Lowered(from) == [i \in 1 .. Len(from) |-> Lower(from[i])]

AMLowered(from) == [i \in 1 .. Len(from) |-> AMLower(from[i])]

\* The layers of the two trees.
LEMMA LayerIs ==
    ASSUME NEW r, Len(r.from) \in Nat
    PROVE  LayerOf(Apply(r), r.cfg, r.from, Lowered(r.from), Len(r.from))
  <1>1. PICK h : /\ h[0] = r.cfg
                 /\ \A n \in 1 .. Len(r.from) : h[n] = Contribute(h[n - 1], r.from[n])
                 /\ Apply(r) = h[Len(r.from)]
    BY LowerTurns
  <1>2. \A i \in 1 .. Len(r.from) : Lowered(r.from)[i] = Lower(r.from[i])
    BY DEF Lowered
  <1>3. \A n \in 1 .. Len(r.from) : h[n] = Write(h[n - 1], r.from[n], Lowered(r.from)[n])
    BY Zenon, <1>1, <1>2 DEF Contribute
  <1> QED BY <1>1, <1>3, WrittenAll

LEMMA AMLayerIs ==
    ASSUME NEW r, Len(r.from) \in Nat
    PROVE  LayerOf(AMApply(r), r.cfg, r.from, AMLowered(r.from), Len(r.from))
  <1>1. PICK h : /\ h[0] = r.cfg
                 /\ \A n \in 1 .. Len(r.from) : h[n] = AMContribute(h[n - 1], r.from[n])
                 /\ AMApply(r) = h[Len(r.from)]
    BY AMLowerTurns
  <1>2. \A i \in 1 .. Len(r.from) : AMLowered(r.from)[i] = AMLower(r.from[i])
    BY DEF AMLowered
  <1>3. \A n \in 1 .. Len(r.from) : h[n] = Write(h[n - 1], r.from[n], AMLowered(r.from)[n])
    BY Zenon, <1>1, <1>2 DEF AMContribute
  <1> QED BY <1>1, <1>3, WrittenAll

-----------------------------------------------------------------------------
(* Value sources. *)

(* What a source can contribute. *)
Given(src) == Good[src.key] \cup (IF src.hasDefault THEN ToSet(src.default) ELSE {})

LEMMA KeptAreGood ==
    ASSUME NEW s, SourceForm(s)
    PROVE  Kept(s) \in Seq(Good[s.key])
  <1>1. s.text \in Seq(ToSet(s.text))
    BY DEF SourceForm, IsList
  <1> DEFINE entries == SplitAnnotationList(s.text)
  <1>2. entries \in Seq(ToSet(s.text) \cap (ToSet(s.text) \ {NoText}))
    BY <1>1, Filtered DEF SplitAnnotationList
  <1> HIDE DEF entries
  <1> DEFINE T == ToSet(s.text) \cap (ToSet(s.text) \ {NoText})
             G == Good[s.key]
  <1> HIDE DEF T, G
  <1>3. entries \in Seq(T)
    BY <1>2 DEF T
  <1>4. Filter(entries, G) \in Seq(T \cap G)
    BY <1>3, Filtered
  <1>5. Filter(entries, G) \in Seq(G)
    <2>1. \A q : q \in Seq(T \cap G) => q \in Seq(G)
      OBVIOUS
    <2> QED BY <1>4, <2>1
  <1> QED BY <1>5 DEF Kept, entries, G

LEMMA GivesIs ==
    \A v, c, w : /\ Gives(v, c, w).set /\ Gives(v, c, w).value = v /\ ~Silent(w).set
  BY DEF Gives, Silent, Nothing

LEMMA DefaultIs ==
    ASSUME NEW s, NEW cause, NEW warned
    PROVE  /\ WriteDefault(s, cause, warned).set <=> s.hasDefault /\ s.default # <<>>
           /\ WriteDefault(s, cause, warned).set => WriteDefault(s, cause, warned).value = s.default
  <1>1. CASE s.hasDefault /\ s.default # <<>>
    <2>1. WriteDefault(s, cause, warned) = Gives(s.default, cause, warned)
      BY Zenon, <1>1 DEF WriteDefault
    <2>2. /\ Gives(s.default, cause, warned).set
          /\ Gives(s.default, cause, warned).value = s.default
      BY Zenon, GivesIs
    <2>3. /\ WriteDefault(s, cause, warned).set
          /\ WriteDefault(s, cause, warned).value = s.default
      BY Zenon, <2>1, <2>2
    <2> QED BY Zenon, <1>1, <2>3
  <1>2. CASE ~(s.hasDefault /\ s.default # <<>>)
    <2>1. WriteDefault(s, cause, warned) = Silent(warned)
      BY Zenon, <1>2 DEF WriteDefault
    <2>2. ~Silent(warned).set
      BY GivesIs
    <2>3. ~WriteDefault(s, cause, warned).set
      BY Zenon, <2>1, <2>2
    <2> QED BY Zenon, <1>2, <2>3
  <1> QED BY <1>1, <1>2

LEMMA DefaultGives ==
    ASSUME NEW s, SourceForm(s), NEW cause, NEW warned
    PROVE  LET low == WriteDefault(s, cause, warned)
           IN /\ low.set <=> s.hasDefault /\ s.default # <<>>
              /\ low.set => low.value \in Seq(Given(s)) /\ low.value # <<>>
  <1>1. CASE s.hasDefault /\ s.default # <<>>
    <2>1. s.default \in Seq(ToSet(s.default)) /\ ToSet(s.default) \subseteq Given(s)
      BY <1>1 DEF SourceForm, IsList, Given
    <2>2. s.default \in Seq(Given(s))
      BY <2>1
    <2> QED BY ZenonT(60), <1>1, <2>2, GivesIs DEF WriteDefault
  <1>2. CASE ~(s.hasDefault /\ s.default # <<>>)
    BY Zenon, <1>2, GivesIs DEF WriteDefault
  <1> QED BY <1>1, <1>2

LEMMA ScalarGives ==
    ASSUME NEW s, SourceForm(s), s.text # <<>>
    PROVE  LET low == LowerScalar(s)
           IN /\ s.hasDefault /\ s.default # <<>> => low.set
              /\ low.set => low.value \in Seq(Given(s)) /\ low.value # <<>>
              /\ low.set => \/ low.value[1] \in Good[s.key]
                            \/ s.hasDefault /\ s.default # <<>> /\ low.value = s.default
  <1>1. CASE s.text[1] \in Good[s.key]
    <2>1. <<s.text[1]>> \in Seq(Given(s)) /\ <<s.text[1]>> # <<>> /\ <<s.text[1]>>[1] \in Good[s.key]
      BY <1>1 DEF Given
    <2> QED BY ZenonT(60), <1>1, <2>1, GivesIs DEF LowerScalar
  <1>2. CASE s.text[1] \notin Good[s.key]
    <2>1. LowerScalar(s) = WriteDefault(s, "rejected", 1)
      BY Zenon, <1>2 DEF LowerScalar
    <2>2. WriteDefault(s, "rejected", 1).set => WriteDefault(s, "rejected", 1).value = s.default
      BY Zenon, GivesIs DEF WriteDefault
    <2> QED BY Zenon, <2>1, <2>2, DefaultGives
  <1> QED BY <1>1, <1>2

LEMMA KeptGives ==
    ASSUME NEW s, SourceForm(s), Kept(s) # <<>>
    PROVE  /\ Gives(Kept(s), "annotation", Rejected(s)).set
           /\ Gives(Kept(s), "annotation", Rejected(s)).value \in Seq(Given(s))
           /\ Gives(Kept(s), "annotation", Rejected(s)).value # <<>>
  <1>1. Kept(s) \in Seq(Good[s.key]) /\ Good[s.key] \subseteq Given(s)
    BY KeptAreGood DEF Given
  <1>2. Kept(s) \in Seq(Given(s))
    BY <1>1
  <1> QED BY Zenon, <1>2, GivesIs

\* A source gives values it may give or nothing; a default is only lost to a list of
\* which nothing was kept.
LEMMA LowerGives ==
    ASSUME NEW s, SourceForm(s)
    PROVE  /\ Lower(s).set => Lower(s).value \in Seq(Given(s)) /\ Lower(s).value # <<>>
           /\ s.hasDefault /\ s.default # <<>> /\ KindOf(s.key) # "list" => Lower(s).set
  <1>1. CASE s.text = <<>>
    <2>1. Lower(s) = WriteDefault(s, "absent", 0)
      BY Zenon, <1>1 DEF Lower
    <2> QED BY Zenon, <2>1, DefaultGives
  <1>2. CASE s.text # <<>> /\ KindOf(s.key) = "scalar"
    <2>1. Lower(s) = LowerScalar(s)
      BY Zenon, <1>2 DEF Lower
    <2> QED BY Zenon, <1>2, <2>1, ScalarGives
  <1>3. CASE s.text # <<>> /\ KindOf(s.key) = "list"
    <2>1. "list" # "scalar"
      OBVIOUS
    <2>2. Lower(s) = LowerList(s)
      BY Zenon, <1>3, <2>1 DEF Lower
    <2>3. CASE Kept(s) = <<>>
      BY Zenon, <1>3, <2>2, <2>3, GivesIs DEF LowerList
    <2>4. CASE Kept(s) # <<>>
      BY Zenon, <1>3, <2>2, <2>4, KeptGives DEF LowerList
    <2> QED BY <2>3, <2>4
  <1>4. CASE s.text # <<>> /\ KindOf(s.key) \notin {"scalar", "list"}
    <2>1. Lower(s) = LowerStatusCodes(s)
      BY Zenon, <1>4 DEF Lower
    <2>2. CASE Kept(s) = <<>>
      <3>1. Lower(s) = WriteDefault(s, Cause(Rejected(s)), Rejected(s))
        BY Zenon, <2>1, <2>2 DEF LowerStatusCodes
      <3> QED BY Zenon, <3>1, DefaultGives
    <2>3. CASE Kept(s) # <<>>
      BY Zenon, <2>1, <2>3, KeptGives DEF LowerStatusCodes
    <2> QED BY <2>2, <2>3
  <1> QED BY <1>1, <1>2, <1>3, <1>4

LEMMA AMLowerGives ==
    ASSUME NEW s, SourceForm(s)
    PROVE  /\ AMLower(s).set => AMLower(s).value \in Seq(Given(s)) /\ AMLower(s).value # <<>>
           /\ s.hasDefault /\ s.default # <<>> => AMLower(s).set
  <1>1. CASE s.namespaced /\ ~s.wired
    <2>1. AMLower(s) = WriteDefault(s, "unreadable", 1)
      BY Zenon, <1>1 DEF AMLower
    <2> QED BY Zenon, <2>1, DefaultGives
  <1>2. CASE ~(s.namespaced /\ ~s.wired) /\ (~s.namespaced \/ s.text = <<>>)
    <2>1. AMLower(s) = WriteDefault(s, "absent", 0)
      BY Zenon, <1>2 DEF AMLower
    <2> QED BY Zenon, <2>1, DefaultGives
  <1>3. CASE s.text # <<>> /\ s.namespaced /\ s.wired /\ KindOf(s.key) = "scalar"
    <2>1. AMLower(s) = LowerScalar(s)
      BY Zenon, <1>3 DEF AMLower
    <2> QED BY Zenon, <1>3, <2>1, ScalarGives
  <1>4. CASE s.text # <<>> /\ s.namespaced /\ s.wired /\ KindOf(s.key) # "scalar"
    <2>1. AMLower(s) = AMLowerList(s)
      BY Zenon, <1>4 DEF AMLower
    <2>2. CASE Kept(s) = <<>>
      <3>1. AMLower(s) = WriteDefault(s, Cause(Rejected(s)), Rejected(s))
        BY Zenon, <2>1, <2>2 DEF AMLowerList
      <3> QED BY Zenon, <3>1, DefaultGives
    <2>3. CASE Kept(s) # <<>>
      BY Zenon, <2>1, <2>3, KeptGives DEF AMLowerList
    <2> QED BY <2>2, <2>3
  <1> QED BY Zenon, <1>1, <1>2, <1>3, <1>4

-----------------------------------------------------------------------------
(* The resolved configuration. *)

LEMMA Keys ==
    /\ DOMAIN Zero = ConfigKeys
    /\ DOMAIN Good = {"path", "slack", "notify", "tags", "acceptedStatusCodes"}
    /\ Good["path"] = Absolute /\ Good["slack"] = Channels /\ Good["notify"] = Handles
    /\ Good["acceptedStatusCodes"] = Codes
    /\ \A k \in DOMAIN Good : KindOf(k) = IF k \in Lists THEN "list"
                                       ELSE IF k = "acceptedStatusCodes" THEN "codes" ELSE "scalar"
  BY DEF Zero, Good, KindOf

\* A key that is not a list is what some layer says of it, if any does.
LEMMA ResolvedFrom ==
    ASSUME NEW layers, Len(layers) \in Nat
    PROVE  LET r == ResolveStack(layers) IN
           /\ DOMAIN r = ConfigKeys
           /\ \A k \in ConfigKeys \ Lists :
                 \/ \E i \in 1 .. Len(layers) : k \in DOMAIN layers[i] /\ r[k] = layers[i][k]
                 \/ r[k] = Zero[k] /\ \A i \in 1 .. Len(layers) : k \notin DOMAIN layers[i]
  <1>1. PICK h : /\ h[0] = Zero
                 /\ \A n \in 1 .. Len(layers) : h[n] = MergeLayer(h[n - 1], layers[n])
                 /\ ResolveStack(layers) = h[Len(layers)]
    BY MergeTurns
  <1> DEFINE N == Len(layers)
             From(k, n) ==
               \/ \E i \in 1 .. n : k \in DOMAIN layers[i] /\ h[n][k] = layers[i][k]
               \/ h[n][k] = Zero[k] /\ \A i \in 1 .. n : k \notin DOMAIN layers[i]
             P == {n \in 0 .. N : DOMAIN h[n] = ConfigKeys /\ \A k \in ConfigKeys \ Lists : From(k, n)}
  <1>2. 0 \in P
    <2>1. DOMAIN h[0] = ConfigKeys
      BY <1>1, Keys
    <2> QED BY <1>1, <2>1
  <1>3. ASSUME NEW n \in 1 .. N, n - 1 \in P PROVE n \in P
    <2>1. /\ DOMAIN h[n] = DOMAIN h[n - 1]
          /\ \A k \in DOMAIN h[n - 1] \ Lists :
                h[n][k] = IF k \notin DOMAIN layers[n] THEN h[n - 1][k] ELSE layers[n][k]
      BY <1>1 DEF MergeLayer
    <2>2. DOMAIN h[n - 1] = ConfigKeys /\ (\A k \in ConfigKeys \ Lists : From(k, n - 1)) /\ n \in 0 .. N
      BY <1>3
    <2>3. /\ \A i \in 1 .. n : i \in 1 .. (n - 1) \/ i = n
          /\ \A i \in 1 .. (n - 1) : i \in 1 .. n
          /\ n \in 1 .. n
      OBVIOUS
    <2>4. ASSUME NEW k \in ConfigKeys \ Lists PROVE From(k, n)
      <3>1. CASE k \in DOMAIN layers[n]
        BY <2>1, <2>2, <2>3, <3>1
      <3>2. CASE k \notin DOMAIN layers[n]
        <4>1. h[n][k] = h[n - 1][k] /\ From(k, n - 1)
          BY <2>1, <2>2, <3>2
        <4> QED BY Zenon, <2>3, <3>2, <4>1
      <3> QED BY <3>1, <3>2
    <2> HIDE DEF From
    <2> QED BY <2>1, <2>2, <2>4
  <1> HIDE DEF P
  <1>4. \A n \in 0 .. N : n \in P
    BY <1>2, <1>3, InductTo
  <1>5. N \in P
    BY <1>4
  <1> QED BY Zenon, <1>1, <1>5 DEF P

(* The values a key can have in a layer of a tree that was accepted.          *)
KeyFits(k, v) ==
    /\ k = "path" => v \in Absolute
    /\ k = "httpMethod" => v \in Methods
    /\ k = "slack" => v \in Channels \cup {NoText}
    /\ k = "scheme" => v \in {"http", "https"}
    /\ k \in Durations \cup {"retries"} => v \in Int

LEMMA LayerFits ==
    ASSUME NEW r, KubeForm(r), KubeConfigOK(r.cfg, r.from)
    PROVE  \A k \in DOMAIN Apply(r) : KeyFits(k, Apply(r)[k])
  <1> SUFFICES ASSUME NEW k \in DOMAIN Apply(r) PROVE KeyFits(k, Apply(r)[k])
    OBVIOUS
  <1>1. r.from \in Seq(ToSet(r.from)) /\ \A s \in ToSet(r.from) : SourceForm(s)
    BY DEF KubeForm, IsList
  <1>2. Len(r.from) \in Nat /\ \A i \in 1 .. Len(r.from) : r.from[i] \in ToSet(r.from)
    BY <1>1
  <1>3. \/ k \in DOMAIN r.cfg /\ Apply(r)[k] = r.cfg[k]
        \/ \E i \in 1 .. Len(r.from) : /\ r.from[i].key = k /\ Lower(r.from[i]).set
                                      /\ Apply(r)[k] = Worth(r.from[i], Lower(r.from[i]))
    BY <1>2, LayerIs DEF LayerOf, Lowered
  <1>4. CASE k \in DOMAIN r.cfg /\ Apply(r)[k] = r.cfg[k]
    BY <1>4 DEF KubeForm, KubeConfigOK, KubeLiteral, KeyFits
  <1>5. ASSUME NEW i \in 1 .. Len(r.from), r.from[i].key = k, Lower(r.from[i]).set,
               Apply(r)[k] = Worth(r.from[i], Lower(r.from[i]))
        PROVE  KeyFits(k, Apply(r)[k])
    <2> DEFINE s == r.from[i]
               low == Lower(s)
    <2>1. SourceForm(s) /\ KubeValueSource(r.cfg, s)
      BY <1>1, <1>2 DEF KubeConfigOK, Entries
    <2>2. k \in DOMAIN Good /\ s.key = k
      BY <1>5, <2>1 DEF SourceForm
    <2>3. low.value \in Seq(Given(s)) /\ low.value # <<>>
      BY <1>5, <2>1, LowerGives
    <2>4. low.value[1] \in Given(s)
      BY <2>3
    <2>5. k \in {"path", "slack"} => Given(s) \subseteq Good[k] /\ KindOf(k) = "scalar"
      BY <2>1, <2>2, Keys DEF Given, KubeValueSource, SourceDefault, Entries, Lists
    <2>6. k \in {"path", "slack"} => Apply(r)[k] \in Good[k]
      <3>1. KindOf(k) = "scalar" => Apply(r)[k] = low.value[1]
        BY <1>5, <2>2 DEF Worth
      <3> QED BY <2>4, <2>5, <3>1
    <2> QED BY <2>2, <2>6, Keys DEF KeyFits, Durations
  <1> QED BY Zenon, <1>3, <1>4, <1>5

LEMMA RootSets ==
    ASSUME NEW r, KubeForm(r), KubeConfigOK(r.cfg, r.from), CheckKubeRequiredAtRoot(r)
    PROVE  RequiredAtRoot \subseteq DOMAIN Apply(r)
  <1> SUFFICES ASSUME NEW k \in RequiredAtRoot, k \notin DOMAIN r.cfg PROVE k \in DOMAIN Apply(r)
    <2>1. r.from \in Seq(ToSet(r.from))
      BY DEF KubeForm, IsList
    <2>2. Len(r.from) \in Nat
      BY <2>1
    <2>3. DOMAIN r.cfg \subseteq DOMAIN Apply(r)
      BY <2>2, LayerIs DEF LayerOf
    <2> QED BY <2>3
  <1>1. r.from \in Seq(ToSet(r.from)) /\ \A s \in ToSet(r.from) : SourceForm(s)
    BY DEF KubeForm, IsList
  <1>2. PICK s \in ToSet(r.from) : s.key = k /\ s.hasDefault
    BY DEF CheckKubeRequiredAtRoot, Entries
  <1>3. Len(r.from) \in Nat /\ DOMAIN r.from = 1 .. Len(r.from)
    BY <1>1
  <1>4. PICK i \in 1 .. Len(r.from) : r.from[i] = s
    BY <1>3 DEF ToSet
  <1>5. SourceForm(s) /\ KubeValueSource(r.cfg, s)
    BY <1>1 DEF KubeConfigOK, Entries
  <1>6. k \in DOMAIN Good /\ k \notin Lists
    BY <1>2, <1>5 DEF SourceForm, RequiredAtRoot, Lists
  <1>7. k # "acceptedStatusCodes" => KindOf(k) = "scalar"
    BY <1>6, Keys
  <1>8. s.default # <<>> /\ KindOf(s.key) # "list"
    <2>1. CASE k = "acceptedStatusCodes"
      BY <1>2, <1>5, <1>6, <2>1, Keys DEF KubeValueSource, SourceDefault
    <2>2. CASE k # "acceptedStatusCodes"
      <3>1. KindOf(s.key) = "scalar" /\ "scalar" # "list"
        BY <1>2, <1>7, <2>2
      <3>2. Len(s.default) = 1
        BY Zenon, <1>2, <1>5, <3>1 DEF SourceForm
      <3>3. s.default # <<>>
        BY <3>2
      <3> QED BY Zenon, <3>1, <3>3
    <2> QED BY <2>1, <2>2
  <1>9. Lower(s).set
    BY <1>2, <1>5, <1>8, LowerGives
  <1> QED BY <1>2, <1>3, <1>4, <1>9, LayerIs DEF LayerOf, Lowered

-----------------------------------------------------------------------------
(* The walk. *)

LEMMA LeastIs ==
    ASSUME NEW T \in SUBSET Nat, T # {}
    PROVE  Min(T) \in T /\ \A m \in T : Min(T) <= m
  BY NatLeast DEF Min

\* A visit of rules looks at the visits of those rules alone, and ends among them.
LEMMA VisitedIs ==
    ASSUME NEW rules \in Seq(AllRules), NEW visit
    PROVE  LET halting == {i \in DOMAIN rules : visit[rules[i]].halt}
               visited == IF halting = {} THEN Len(rules) ELSE Min(halting)
           IN visited \in 0 .. Len(rules) /\ (rules # <<>> => visited > 0)
  <1> DEFINE halting == {i \in DOMAIN rules : visit[rules[i]].halt}
  <1>1. DOMAIN rules = 1 .. Len(rules) /\ Len(rules) \in Nat /\ (rules # <<>> => Len(rules) > 0)
    OBVIOUS
  <1>2. halting \in SUBSET Nat /\ halting \subseteq 1 .. Len(rules)
    BY <1>1
  <1> HIDE DEF halting
  <1>3. halting # {} => Min(halting) \in 1 .. Len(rules)
    BY <1>2, LeastIs
  <1>4. CASE halting = {}
    BY <1>1, <1>4 DEF halting
  <1>5. CASE halting # {}
    BY <1>1, <1>3, <1>5 DEF halting
  <1> QED BY <1>4, <1>5

LEMMA SameVisits ==
    ASSUME NEW rules \in Seq(AllRules), NEW f, NEW g, \A n \in ToSet(rules) : f[n] = g[n]
    PROVE  VisitAll(f, rules) = VisitAll(g, rules)
  <1>1. \A i \in DOMAIN rules : f[rules[i]] = g[rules[i]]
    BY DEF ToSet
  <1> DEFINE hf == {i \in DOMAIN rules : f[rules[i]].halt}
             hg == {i \in DOMAIN rules : g[rules[i]].halt}
             v == IF hf = {} THEN Len(rules) ELSE Min(hf)
             w == IF hg = {} THEN Len(rules) ELSE Min(hg)
  <1>2. hf = hg
    BY <1>1
  <1>3. v = w /\ v \in 0 .. Len(rules)
    BY <1>2, VisitedIs
  <1>4. \A i \in 1 .. v : i \in DOMAIN rules
    BY <1>3
  <1> HIDE DEF v, w, hf, hg
  <1>5. [i \in 1 .. v |-> f[rules[i]].stack] = [i \in 1 .. w |-> g[rules[i]].stack]
    BY <1>1, <1>3, <1>4
  <1>6. /\ VisitAll(f, rules) = [stack |-> FlattenSeq([i \in 1 .. v |-> f[rules[i]].stack]), halt |-> hf # {}]
        /\ VisitAll(g, rules) = [stack |-> FlattenSeq([i \in 1 .. w |-> g[rules[i]].stack]), halt |-> hg # {}]
    BY Zenon DEF VisitAll, v, w, hf, hg
  <1> QED BY Zenon, <1>2, <1>5, <1>6

(* What one rule of a tree is worth, given what its nested rules are: its     *)
(* visit for some hits, or its subtree.                                       *)
Level(what, hits, f, r) ==
    IF what = "visit" THEN Visit(f, r, hits) ELSE {r} \cup UNION {f[n] : n \in ToSet(r.nested)}

LEMMA SameLevel ==
    ASSUME NEW what, NEW hits, NEW r \in AllRules, NEW f, NEW g, \A n \in ToSet(r.nested) : f[n] = g[n]
    PROVE  Level(what, hits, f, r) = Level(what, hits, g, r)
  <1>1. r.nested \in Seq(AllRules)
    BY TreesAssumption
  <1>2. VisitAll(f, r.nested) = VisitAll(g, r.nested)
    BY <1>1, SameVisits
  <1>3. Visit(f, r, hits) = Visit(g, r, hits)
    BY Zenon, <1>2 DEF Visit
  <1>4. UNION {f[n] : n \in ToSet(r.nested)} = UNION {g[n] : n \in ToSet(r.nested)}
    BY Zenon
  <1> QED BY Zenon, <1>3, <1>4 DEF Level

Levels(f, what, hits) == f = [r \in AllRules |-> Level(what, hits, f, r)]

\* Recursion over a tree ends: nested rules are at a lesser depth.
LEMMA Descends == ASSUME NEW what, NEW hits PROVE \E f : Levels(f, what, hits)
  <1> DEFINE Under(d) == {r \in AllRules : Depth[r] < d}
             Upto(f, d) == f = [r \in Under(d) |-> Level(what, hits, f, r)]
             Base == {d \in Nat : \E f : Upto(f, d)}
  <1>1. \A r \in AllRules : Depth[r] \in 0 .. MaxDepth /\ Depth[r] \in Nat
    BY TreesAssumption
  <1>2. 0 \in Base
    <2>1. Under(0) = {}
      BY <1>1
    <2>2. Upto([r \in {} |-> 0], 0)
      BY <2>1
    <2> QED BY <2>2
  <1>3. ASSUME NEW d \in Nat, d \in Base PROVE d + 1 \in Base
    <2>1. PICK f : Upto(f, d)
      BY <1>3
    <2> DEFINE g == [r \in Under(d + 1) |-> IF r \in Under(d) THEN f[r] ELSE Level(what, hits, f, r)]
    <2>2. Under(d) \subseteq Under(d + 1)
      BY <1>1
    <2>3. \A r \in Under(d) : g[r] = f[r] /\ f[r] = Level(what, hits, f, r)
      BY <2>1, <2>2
    <2>4. ASSUME NEW r \in Under(d + 1) PROVE g[r] = Level(what, hits, g, r)
      <3>1. \A n \in ToSet(r.nested) : n \in Under(d)
        <4>1. \A i \in DOMAIN r.nested : r.nested[i] \in AllRules /\ Depth[r.nested[i]] < Depth[r]
          BY TreesAssumption
        <4> QED BY <1>1, <4>1 DEF ToSet
      <3>2. \A n \in ToSet(r.nested) : f[n] = g[n]
        BY <2>3, <3>1
      <3>3. g[r] = Level(what, hits, f, r)
        BY <2>3
      <3> HIDE DEF g
      <3>4. Level(what, hits, f, r) = Level(what, hits, g, r)
        BY <3>2, SameLevel
      <3> QED BY <3>3, <3>4
    <2>5. g = [r \in Under(d + 1) |-> g[r]]
      OBVIOUS
    <2> HIDE DEF g
    <2>6. Upto(g, d + 1)
      BY <2>4, <2>5
    <2>7. \E q : Upto(q, d + 1)
      BY <2>6
    <2> QED BY <2>7
  <1> HIDE DEF Base
  <1>4. MaxDepth + 1 \in Nat /\ MaxDepth + 1 \in Base
    BY <1>2, <1>3, Induct, TreesAssumption
  <1>5. Under(MaxDepth + 1) = AllRules
    BY <1>1, TreesAssumption
  <1>6. \E f : Upto(f, MaxDepth + 1)
    BY <1>4 DEF Base
  <1> QED BY <1>5, <1>6 DEF Levels

LEMMA VisitsAre ==
    ASSUME NEW hits
    PROVE  \A r \in AllRules : Visits(hits)[r] = Visit(Visits(hits), r, hits)
  <1>1. PICK f : Levels(f, "visit", hits)
    BY Descends
  <1>2. f = [r \in AllRules |-> Visit(f, r, hits)]
    <2>1. \A r : Level("visit", hits, f, r) = Visit(f, r, hits)
      BY DEF Level
    <2> QED BY <1>1, <2>1 DEF Levels
  <1>3. Visits(hits) = [r \in AllRules |-> Visit(Visits(hits), r, hits)]
    BY Zenon, <1>2 DEF Visits
  <1> DEFINE v == Visits(hits)
  <1> HIDE DEF v
  <1>4. v = [r \in AllRules |-> Visit(v, r, hits)]
    BY Zenon, <1>3 DEF v
  <1>5. \A r \in AllRules : v[r] = Visit(v, r, hits)
    BY <1>4
  <1> QED BY Zenon, <1>5 DEF v

LEMMA SubtreeIs ==
    \A r \in AllRules : Subtree[r] = {r} \cup UNION {Subtree[n] : n \in ToSet(r.nested)}
  <1>1. PICK f : Levels(f, "subtree", {})
    BY Descends
  <1>2. f = [r \in AllRules |-> {r} \cup UNION {f[n] : n \in ToSet(r.nested)}]
    <2>1. \A r : Level("subtree", {}, f, r) = {r} \cup UNION {f[n] : n \in ToSet(r.nested)}
      BY DEF Level
    <2> QED BY <1>1, <2>1 DEF Levels
  <1>3. Subtree = [r \in AllRules |-> {r} \cup UNION {Subtree[n] : n \in ToSet(r.nested)}]
    BY Zenon, <1>2 DEF Subtree
  <1> QED BY <1>3

LEMMA FlattenTurns ==
    ASSUME NEW Base, NEW seqs \in Seq(Seq(Base))
    PROVE  /\ FlattenSeq(seqs) \in Seq(Base)
           /\ seqs # <<>> /\ seqs[1] # <<>> =>
                 FlattenSeq(seqs) # <<>> /\ FlattenSeq(seqs)[1] = seqs[1][1]
  <1>0. Len(seqs) \in Nat /\ (seqs = <<>> <=> Len(seqs) = 0)
    OBVIOUS
  <1>1. CASE Len(seqs) = 0
    <2>1. FlattenSeq(seqs) = seqs
      BY <1>1 DEF FlattenSeq
    <2> QED BY <1>0, <1>1, <2>1
  <1>2. CASE Len(seqs) > 0
    <2> DEFINE N == Len(seqs)
    <2>1. PICK h : Turned(h, "concat", {}, <<>>, seqs)
      BY <1>0, Turns
    <2>2. \A a, x : Turn("concat", {}, a, x) = a \o x
      BY DEF Turn
    <2>3. h[0] = <<>> /\ \A n \in 1 .. N : h[n] = h[n - 1] \o seqs[n]
      <3>1. h = [n \in 0 .. N |-> IF n = 0 THEN <<>> ELSE Turn("concat", {}, h[n - 1], seqs[n])]
        BY Zenon, <2>1 DEF Turned
      <3>2. 0 \in 0 .. N /\ \A n \in 1 .. N : n \in 0 .. N /\ n # 0
        BY <1>0
      <3>3. h[0] = <<>> /\ \A n \in 1 .. N : h[n] = Turn("concat", {}, h[n - 1], seqs[n])
        BY Zenon, <3>1, <3>2
      <3> QED BY Zenon, <2>2, <3>3
    <2>4. \A n \in 1 .. N : seqs[n] \in Seq(Base)
      OBVIOUS
    <2>5. <<>> \o seqs[1] = seqs[1] /\ 1 \in 1 .. N
      BY <1>2, <2>4
    <2> DEFINE f == [i \in 1 .. N |-> h[i]]
    <2>6. ASSUME NEW i \in 1 .. N PROVE f[i] = IF i = 1 THEN seqs[i] ELSE f[i - 1] \o seqs[i]
      <3>1. CASE i = 1
        <4>1. 1 - 1 = 0
          OBVIOUS
        <4>2. h[1] = <<>> \o seqs[1]
          BY Zenon, <2>3, <2>5, <4>1
        <4> QED BY Zenon, <2>5, <3>1, <4>2
      <3>2. CASE i # 1
        <4>1. i - 1 \in 1 .. N
          BY <3>2
        <4> QED BY <2>3, <3>2, <4>1
      <3> QED BY <3>1, <3>2
    <2>7. f = [i \in 1 .. N |-> f[i]]
      OBVIOUS
    <2> HIDE DEF f
    <2>8. f = [i \in 1 .. Len(seqs) |-> IF i = 1 THEN seqs[i] ELSE f[i - 1] \o seqs[i]]
      BY <2>6, <2>7
    <2>9. \E g : /\ g = [i \in 1 .. Len(seqs) |-> IF i = 1 THEN seqs[i] ELSE g[i - 1] \o seqs[i]]
                 /\ FlattenSeq(seqs) = g[Len(seqs)]
      <3>1. Len(seqs) # 0
        BY <1>2
      <3> QED BY Zenon, <2>8, <3>1 DEF FlattenSeq
    <2>10. PICK g : /\ g = [i \in 1 .. N |-> IF i = 1 THEN seqs[i] ELSE g[i - 1] \o seqs[i]]
                    /\ FlattenSeq(seqs) = g[N]
      BY <2>9
    <2> DEFINE Good3(n) == /\ g[n] \in Seq(Base)
                           /\ seqs[1] # <<>> => g[n] # <<>> /\ g[n][1] = seqs[1][1]
               P == {n \in 0 .. N : n > 0 => Good3(n)}
    <2>11. 0 \in P
      BY <1>0
    <2>12. ASSUME NEW n \in 1 .. N, n - 1 \in P PROVE n \in P
      <3>1. g[n] = IF n = 1 THEN seqs[n] ELSE g[n - 1] \o seqs[n]
        BY <2>10
      <3>2. Good3(n)
        <4>1. CASE n = 1
          BY <2>4, <3>1, <4>1
        <4>2. CASE n # 1
          <5>0. n - 1 > 0
            BY <4>2
          <5>1. n - 1 > 0 /\ g[n] = g[n - 1] \o seqs[n]
            BY Zenon, <3>1, <4>2, <5>0
          <5>2. Good3(n - 1)
            BY <2>12, <5>1
          <5>3. \A a, b \in Seq(Base) : a \o b \in Seq(Base) /\ (a # <<>> => a \o b # <<>> /\ (a \o b)[1] = a[1])
            OBVIOUS
          <5>6. g[n - 1] \in Seq(Base) /\ seqs[n] \in Seq(Base)
            BY Zenon, <2>4, <5>2
          <5>4. g[n] \in Seq(Base) /\ (g[n - 1] # <<>> => g[n] # <<>> /\ g[n][1] = g[n - 1][1])
            BY Zenon, <5>1, <5>3, <5>6
          <5> QED BY Zenon, <5>2, <5>4
        <4> QED BY <4>1, <4>2
      <3>3. n \in 0 .. N
        OBVIOUS
      <3> HIDE DEF Good3
      <3> QED BY <3>2, <3>3
    <2> HIDE DEF P
    <2>13. \A n \in 0 .. N : n \in P
      BY <1>0, <2>11, <2>12, InductTo
    <2>14. N \in P /\ N > 0
      BY <1>2, <2>13
    <2>15. Good3(N)
      <3> HIDE DEF Good3
      <3> QED BY <2>14 DEF P
    <2>16. FlattenSeq(seqs) = g[N]
      BY <2>10
    <2>17. g[N] \in Seq(Base) /\ (seqs[1] # <<>> => g[N] # <<>> /\ g[N][1] = seqs[1][1])
      BY Zenon, <2>15
    <2> DEFINE all == FlattenSeq(seqs)
    <2>18. all = g[N]
      BY Zenon, <2>16
    <2> HIDE DEF all
    <2>19. all \in Seq(Base) /\ (seqs[1] # <<>> => all # <<>> /\ all[1] = seqs[1][1])
      BY Zenon, <2>17, <2>18
    <2> QED BY Zenon, <2>19 DEF all
  <1> QED BY <1>0, <1>1, <1>2

LEMMA Widened == ASSUME NEW A, NEW B, A \subseteq B, NEW s \in Seq(A) PROVE s \in Seq(B)
  OBVIOUS

LEMMA Prepended ==
    ASSUME NEW Base, NEW q \in Base, NEW s \in Seq(Base)
    PROVE  <<q>> \o s \in Seq(Base) /\ <<q>> \o s # <<>> /\ (<<q>> \o s)[1] = q
  <1>1. <<q>> \o s \in Seq(Base) /\ Len(<<q>> \o s) = 1 + Len(s) /\ Len(s) \in Nat
    OBVIOUS
  <1>2. Len(<<>>) = 0 /\ 1 + Len(s) # 0
    BY <1>1
  <1>3. (<<q>> \o s)[1] = q
    OBVIOUS
  <1> QED BY Zenon, <1>1, <1>2, <1>3

LEMMA VisitAllFits ==
    ASSUME NEW rules \in Seq(AllRules), NEW visit,
           \A n \in ToSet(rules) : visit[n].stack \in Seq(Subtree[n])
    PROVE  LET stack == VisitAll(visit, rules).stack
           IN /\ stack \in Seq(RulesOf(rules))
              /\ rules # <<>> /\ visit[rules[1]].stack # <<>> =>
                    stack # <<>> /\ stack[1] = visit[rules[1]].stack[1]
  <1> DEFINE halting == {i \in DOMAIN rules : visit[rules[i]].halt}
             visited == IF halting = {} THEN Len(rules) ELSE Min(halting)
             seqs == [i \in 1 .. visited |-> visit[rules[i]].stack]
             R == RulesOf(rules)
  <1>1. visited \in 0 .. Len(rules) /\ (rules # <<>> => visited > 0)
    BY VisitedIs
  <1>2. VisitAll(visit, rules).stack = FlattenSeq(seqs)
    BY Zenon DEF VisitAll
  <1> HIDE DEF visited, halting
  <1>3. \A i \in 1 .. visited : i \in DOMAIN rules /\ rules[i] \in ToSet(rules)
    BY <1>1 DEF ToSet
  <1>4. \A i \in 1 .. visited : Subtree[rules[i]] \subseteq R
    BY <1>3 DEF RulesOf
  <1> HIDE DEF R
  <1>5. ASSUME NEW i \in 1 .. visited PROVE visit[rules[i]].stack \in Seq(R)
    <2>1. visit[rules[i]].stack \in Seq(Subtree[rules[i]]) /\ Subtree[rules[i]] \subseteq R
      BY <1>3, <1>4
    <2> QED BY <2>1
  <1>6. visited \in Nat
    BY <1>1
  <1>7. seqs \in Seq(Seq(R)) /\ Len(seqs) = visited
    BY <1>5, <1>6
  <1>8. rules # <<>> => seqs # <<>> /\ seqs[1] = visit[rules[1]].stack
    <2> SUFFICES ASSUME rules # <<>> PROVE seqs # <<>> /\ seqs[1] = visit[rules[1]].stack
      OBVIOUS
    <2>1. 1 \in 1 .. visited /\ Len(seqs) # 0
      BY <1>1, <1>6, <1>7
    <2>2. seqs[1] = visit[rules[1]].stack
      BY <2>1
    <2>3. Len(<<>>) = 0
      OBVIOUS
    <2> QED BY Zenon, <2>1, <2>2, <2>3
  <1> DEFINE all == FlattenSeq(seqs)
  <1>9. all \in Seq(R) /\ (seqs # <<>> /\ seqs[1] # <<>> => all # <<>> /\ all[1] = seqs[1][1])
    BY <1>7, FlattenTurns
  <1>10. VisitAll(visit, rules).stack = all
    BY Zenon, <1>2
  <1> HIDE DEF all, seqs
  <1> QED BY Zenon, <1>8, <1>9, <1>10 DEF R

LEMMA VisitFits ==
    ASSUME NEW hits, NEW r \in AllRules
    PROVE  /\ Visits(hits)[r].stack \in Seq(Subtree[r])
           /\ r.label \in hits => Visits(hits)[r].stack # <<>> /\ Visits(hits)[r].stack[1] = r
  <1> DEFINE v == Visits(hits)
             Fits(q) == /\ v[q].stack \in Seq(Subtree[q])
                        /\ q.label \in hits => v[q].stack # <<>> /\ v[q].stack[1] = q
             P == {d \in Nat : \A q \in AllRules : Depth[q] < d => Fits(q)}
  <1>1. \A q \in AllRules : Depth[q] \in 0 .. MaxDepth /\ Depth[q] \in Nat
    BY TreesAssumption
  <1>2. 0 \in P
    <2>1. \A q \in AllRules : ~(Depth[q] < 0)
      BY <1>1
    <2> QED BY Zenon, <2>1
  <1>3. ASSUME NEW d \in Nat, d \in P PROVE d + 1 \in P
    <2>1. ASSUME NEW q \in AllRules, Depth[q] < d + 1 PROVE Fits(q)
      <3>1. v[q] = Visit(v, q, hits)
        BY VisitsAre
      <3>2. CASE q.label \notin hits
        <4>1. v[q].stack = <<>>
          BY <3>1, <3>2 DEF Visit, NoVisit
        <4> QED BY <3>2, <4>1
      <3>3. CASE q.label \in hits
        <4>1. q.nested \in Seq(AllRules)
          BY TreesAssumption
        <4>2. \A n \in ToSet(q.nested) : n \in AllRules /\ Depth[n] < d
          <5>1. \A i \in DOMAIN q.nested : q.nested[i] \in AllRules /\ Depth[q.nested[i]] < Depth[q]
            BY TreesAssumption
          <5> QED BY <1>1, <2>1, <5>1 DEF ToSet
        <4>3. \A n \in ToSet(q.nested) : v[n].stack \in Seq(Subtree[n])
          BY Zenon, <1>3, <4>2
        <4> DEFINE below == VisitAll(v, q.nested).stack
        <4> HIDE DEF v
        <4>4. below \in Seq(RulesOf(q.nested))
          BY <4>1, <4>3, VisitAllFits
        <4>5. RulesOf(q.nested) \subseteq Subtree[q] /\ q \in Subtree[q]
          BY SubtreeIs DEF RulesOf
        <4>6. v[q].stack = <<q>> \o below
          BY <3>1, <3>3 DEF Visit
        <4> HIDE DEF below
        <4>7. below \in Seq(Subtree[q])
          BY <4>4, <4>5, Widened
        <4>8. /\ <<q>> \o below \in Seq(Subtree[q]) /\ <<q>> \o below # <<>>
              /\ (<<q>> \o below)[1] = q
          BY Zenon, <4>5, <4>7, Prepended
        <4> QED BY Zenon, <4>6, <4>8 DEF v
      <3> QED BY <3>2, <3>3
    <2>2. \A q \in AllRules : Depth[q] < d + 1 => Fits(q)
      BY Zenon, <2>1
    <2>3. d + 1 \in Nat
      OBVIOUS
    <2> QED BY Zenon, <2>2, <2>3
  <1> HIDE DEF P
  <1>4. MaxDepth + 1 \in Nat /\ MaxDepth + 1 \in P
    BY <1>2, <1>3, Induct, TreesAssumption
  <1>5. Depth[r] < MaxDepth + 1
    BY <1>1, TreesAssumption
  <1>6. Fits(r)
    BY Zenon, <1>4, <1>5 DEF P
  <1> QED BY Zenon, <1>6

\* The rules that are visited are rules of the tree, the root first if it selects.
LEMMA WalkIs ==
    ASSUME NEW tree \in Seq(AllRules), NEW hits
    PROVE  LET stack == WalkRules(tree, hits)
           IN /\ stack \in Seq(RulesOf(tree))
              /\ tree # <<>> /\ tree[1].label \in hits => stack # <<>> /\ stack[1] = tree[1]
  <1> DEFINE v == Visits(hits)
             stack == VisitAll(v, tree).stack
  <1>1. \A n \in ToSet(tree) : n \in AllRules
    BY DEF ToSet
  <1>2. /\ \A n \in ToSet(tree) : v[n].stack \in Seq(Subtree[n])
        /\ \A n \in ToSet(tree) : n.label \in hits => v[n].stack # <<>> /\ v[n].stack[1] = n
    BY <1>1, VisitFits
  <1>3. tree # <<>> => tree[1] \in ToSet(tree)
    BY DEF ToSet
  <1> HIDE DEF v
  <1>4. /\ stack \in Seq(RulesOf(tree))
        /\ tree # <<>> /\ v[tree[1]].stack # <<>> => stack # <<>> /\ stack[1] = v[tree[1]].stack[1]
    BY <1>2, VisitAllFits
  <1>5. WalkRules(tree, hits) = stack
    BY Zenon DEF WalkRules, v
  <1> HIDE DEF stack
  <1> QED BY Zenon, <1>2, <1>3, <1>4, <1>5

-----------------------------------------------------------------------------
(* Hosts. *)

KubeHits(obj) == {l \in DOMAIN KubeWhens : KubeWhenMatches(KubeWhens[l], obj)}

\* The rules visited for a host by a tree that was accepted.
LEMMA HostWalk ==
    ASSUME NEW tree \in KubeTrees, ValidateKube(tree, Monitored), NEW obj \in Hosts
    PROVE  LET stack == WalkRules(tree, KubeHits(obj))
           IN /\ stack \in Seq(RulesOf(tree)) /\ stack # <<>> /\ stack[1] = tree[1]
              /\ \A i \in 1 .. Len(stack) : KubeForm(stack[i]) /\ KubeConfigOK(stack[i].cfg, stack[i].from)
              /\ CheckKubeRequiredAtRoot(stack[1])
  <1> DEFINE stack == WalkRules(tree, KubeHits(obj))
  <1>1. tree \in Seq(AllRules) /\ \A r \in RulesOf(tree) : KubeForm(r)
    BY FormAssumption
  <1>2. /\ tree # <<>> /\ tree[1].when = "empty" /\ CheckKubeRequiredAtRoot(tree[1])
        /\ \A r \in RulesOf(tree) : KubeConfigOK(r.cfg, r.from)
    BY DEF ValidateKube, KubeRule
  <1>3. tree[1] \in RulesOf(tree)
    <2>1. tree[1] \in ToSet(tree) /\ tree[1] \in AllRules
      BY <1>1, <1>2 DEF ToSet
    <2>2. tree[1] \in Subtree[tree[1]]
      BY <2>1, SubtreeIs
    <2> QED BY <2>1, <2>2 DEF RulesOf
  <1>4. tree[1].label \in KubeHits(obj)
    BY <1>1, <1>2, <1>3 DEF KubeForm, KubeHits
  <1>5. stack \in Seq(RulesOf(tree)) /\ stack # <<>> /\ stack[1] = tree[1]
    BY <1>1, <1>2, <1>4, WalkIs
  <1> HIDE DEF stack
  <1>6. \A i \in 1 .. Len(stack) : stack[i] \in RulesOf(tree)
    BY <1>5
  <1> QED BY Zenon, <1>1, <1>2, <1>5, <1>6 DEF stack

\* Their layers, and what these resolve to.
LEMMA HostLayers ==
    ASSUME NEW tree \in KubeTrees, ValidateKube(tree, Monitored), NEW obj \in Hosts
    PROVE  LET layers == Layers(WalkRules(tree, KubeHits(obj)))
           IN /\ Len(layers) \in Nat /\ DOMAIN layers = 1 .. Len(layers) /\ 1 \in DOMAIN layers
              /\ \A i \in DOMAIN layers : \A k \in DOMAIN layers[i] : KeyFits(k, layers[i][k])
              /\ RequiredAtRoot \subseteq DOMAIN layers[1]
  <1> DEFINE stack == WalkRules(tree, KubeHits(obj))
  <1>1. /\ stack \in Seq(RulesOf(tree)) /\ stack # <<>>
        /\ \A i \in 1 .. Len(stack) : KubeForm(stack[i]) /\ KubeConfigOK(stack[i].cfg, stack[i].from)
        /\ CheckKubeRequiredAtRoot(stack[1])
    BY HostWalk
  <1> HIDE DEF stack
  <1> DEFINE layers == Layers(stack)
  <1>2. Len(stack) \in Nat /\ 1 \in 1 .. Len(stack) /\ DOMAIN stack = 1 .. Len(stack)
    BY <1>1
  <1>3. /\ DOMAIN layers = 1 .. Len(stack) /\ Len(layers) = Len(stack)
        /\ \A i \in 1 .. Len(stack) : layers[i] = Apply(stack[i])
    BY <1>2 DEF Layers
  <1> HIDE DEF layers
  <1>4. ASSUME NEW i \in 1 .. Len(stack)
        PROVE  \A k \in DOMAIN layers[i] : KeyFits(k, layers[i][k])
    <2>1. \A k \in DOMAIN Apply(stack[i]) : KeyFits(k, Apply(stack[i])[k])
      BY <1>1, LayerFits
    <2> QED BY <1>3, <2>1
  <1>5. RequiredAtRoot \subseteq DOMAIN layers[1]
    BY <1>1, <1>2, <1>3, RootSets
  <1> QED BY Zenon, <1>2, <1>3, <1>4, <1>5 DEF layers, stack

\* The root sets what has no default, and whoever overrides it keeps to its form.
LEMMA ConfigFits ==
    ASSUME NEW tree \in KubeTrees, ValidateKube(tree, Monitored), NEW obj \in Hosts
    PROVE  LET layers == Layers(WalkRules(tree, KubeHits(obj)))
               r == ResolveStack(layers)
           IN /\ DOMAIN r = ConfigKeys
              /\ \A k \in RequiredAtRoot : \E i \in DOMAIN layers : k \in DOMAIN layers[i] /\ r[k] = layers[i][k]
              /\ \A k \in RequiredAtRoot : KeyFits(k, r[k])
              /\ r["scheme"] \in {NoText, "http", "https"}
  <1> DEFINE layers == Layers(WalkRules(tree, KubeHits(obj)))
             r == ResolveStack(layers)
  <1>1. /\ Len(layers) \in Nat /\ DOMAIN layers = 1 .. Len(layers) /\ 1 \in DOMAIN layers
        /\ \A i \in DOMAIN layers : \A k \in DOMAIN layers[i] : KeyFits(k, layers[i][k])
        /\ RequiredAtRoot \subseteq DOMAIN layers[1]
    BY HostLayers
  <1> HIDE DEF layers
  <1>2. /\ DOMAIN r = ConfigKeys
        /\ \A k \in ConfigKeys \ Lists :
              \/ \E i \in 1 .. Len(layers) : k \in DOMAIN layers[i] /\ r[k] = layers[i][k]
              \/ r[k] = Zero[k] /\ \A i \in 1 .. Len(layers) : k \notin DOMAIN layers[i]
    BY <1>1, ResolvedFrom
  <1> HIDE DEF r
  <1>3. RequiredAtRoot \subseteq ConfigKeys \ Lists /\ "scheme" \in ConfigKeys \ Lists
    BY DEF RequiredAtRoot, ConfigKeys, Durations, Words, Flags, Lists
  <1>4. \A k \in RequiredAtRoot : \E i \in DOMAIN layers : k \in DOMAIN layers[i] /\ r[k] = layers[i][k]
    BY Zenon, <1>1, <1>2, <1>3
  <1>5. \A k \in RequiredAtRoot : KeyFits(k, r[k])
    BY Zenon, <1>1, <1>4
  <1>6. Zero["scheme"] = NoText
    BY <1>3 DEF Zero, Durations, Lists, Flags
  <1>7. r["scheme"] \in {NoText, "http", "https"}
    <2>1. \/ \E i \in DOMAIN layers : "scheme" \in DOMAIN layers[i] /\ r["scheme"] = layers[i]["scheme"]
          \/ r["scheme"] = Zero["scheme"]
      BY Zenon, <1>1, <1>2, <1>3
    <2> QED BY <1>1, <1>6, <2>1 DEF KeyFits
  <1> QED BY Zenon, <1>2, <1>4, <1>5, <1>7 DEF layers, r

LEMMA BaselineFollows == TakenAsGiven => RootIsABaseline
  <1> SUFFICES ASSUME TakenAsGiven, Is("host"), ValidateKube(subject.tree, Monitored)
               PROVE  LET stack == WalkRules(subject.tree, subject.hits)
                          out == Resolve(subject.tree, subject.hits, subject.wildcard)
                      IN /\ stack # <<>> /\ stack[1] = subject.tree[1]
                         /\ out.status = "invalid" =>
                               subject.wildcard \/ StillInvalid(out.config, Layers(stack))
    BY Zenon DEF RootIsABaseline
  <1>1. PICK obj \in Hosts : subject.hits = KubeHits(obj)
    BY DEF TakenAsGiven, KubeHits
  <1>2. subject.tree \in KubeTrees
    BY DEF TakenAsGiven
  <1> DEFINE stack == WalkRules(subject.tree, subject.hits)
             layers == Layers(stack)
             r == ResolveStack(layers)
             out == Resolve(subject.tree, subject.hits, subject.wildcard)
  <1>3. stack # <<>> /\ stack[1] = subject.tree[1]
    BY <1>1, <1>2, HostWalk
  <1>4. /\ \A k \in RequiredAtRoot : \E i \in DOMAIN layers : k \in DOMAIN layers[i] /\ r[k] = layers[i][k]
        /\ \A k \in RequiredAtRoot : KeyFits(k, r[k])
        /\ r["scheme"] \in {NoText, "http", "https"}
    BY <1>1, <1>2, ConfigFits
  <1>5. /\ \A i \in DOMAIN layers : \A k \in DOMAIN layers[i] : KeyFits(k, layers[i][k])
    BY <1>1, <1>2, HostLayers
  <1>6. out = [status |-> Classify(Ignored(stack), subject.wildcard, r), config |-> r]
    BY Zenon, <1>3 DEF Resolve, Outcome, Layers
  <1> HIDE DEF out, r, layers, stack
  <1>7. ASSUME out.status = "invalid", ~subject.wildcard PROVE StillInvalid(out.config, layers)
    <2>1. ~CheckResolved(r) /\ out.config = r
      BY <1>6, <1>7 DEF Classify
    <2>2. r.path \in Absolute /\ r.httpMethod \in Methods
      BY <1>4 DEF KeyFits, RequiredAtRoot
    <2>3. CASE \E k \in Durations : ~(r[k] > 0)
      <3>1. PICK k \in Durations : ~(r[k] > 0)
        BY <2>3
      <3>2. k \in RequiredAtRoot
        BY DEF RequiredAtRoot, Durations
      <3>3. PICK i \in DOMAIN layers : k \in DOMAIN layers[i] /\ r[k] = layers[i][k]
        BY <1>4, <3>2
      <3>4. layers[i][k] \in Int
        BY <1>5, <3>3 DEF KeyFits
      <3>5. layers[i][k] <= 0
        BY <3>1, <3>3, <3>4
      <3> QED BY <2>1, <3>3, <3>5 DEF StillInvalid
    <2>4. CASE \A k \in Durations : r[k] > 0
      <3>1. /\ r.timeout \in Int /\ r.interval \in Int /\ r.retries \in Int
            /\ r.sslAlertThreshold \in Int /\ r.sslEscalationThreshold \in Int
        BY <1>4 DEF KeyFits, RequiredAtRoot, Durations
      <3>2. \/ r.acceptedStatusCodes = <<>> \/ r.retries < 0 \/ r.slack = NoText
            \/ r.timeout >= r.interval
            \/ r.scheme \in {NoText, "https"} /\ r.sslAlertThreshold <= r.sslEscalationThreshold
        BY <2>1, <2>2, <2>4, <3>1 DEF CheckResolved
      <3>3. "https" # "http" /\ NoText # "http"
        BY Zenon DEF NoText
      <3>4. r.scheme \in {NoText, "https"} => r.scheme # "http"
        BY <3>3
      <3> QED BY <2>1, <3>2, <3>4 DEF StillInvalid
    <2> QED BY <2>3, <2>4
  <1> QED BY Zenon, <1>3, <1>7 DEF out, layers, stack

-----------------------------------------------------------------------------
(* What annotations can do to a host. *)

(* A value that no annotation is refused for, nor its monitor.                *)
Proper(k, v) ==
    \/ k = "path" /\ v \in Absolute
    \/ k = "slack" /\ v # NoText
    \/ k = "acceptedStatusCodes" /\ v # <<>>

(* d differs from c, lists aside, only in proper values.                      *)
Betters(d, c) ==
    /\ DOMAIN c \ Lists \subseteq DOMAIN d
    /\ \A k \in DOMAIN d \ Lists : (k \in DOMAIN c /\ d[k] = c[k]) \/ Proper(k, d[k])

LEMMA AnnotationIsProper ==
    ASSUME NEW s, SourceForm(s), KindOf(s.key) # "list", Lower(s).set
    PROVE  \/ Proper(s.key, Worth(s, Lower(s)))
           \/ s.hasDefault /\ s.default # <<>> /\ Lower(s).value = s.default
  <1>1. CASE s.text = <<>>
    <2>1. Lower(s) = WriteDefault(s, "absent", 0)
      BY Zenon, <1>1 DEF Lower
    <2> QED BY Zenon, <2>1, DefaultIs
  <1>2. CASE s.text # <<>> /\ KindOf(s.key) = "scalar"
    <2>1. Lower(s) = LowerScalar(s)
      BY Zenon, <1>2 DEF Lower
    <2>2. \/ Lower(s).value[1] \in Good[s.key]
          \/ s.hasDefault /\ s.default # <<>> /\ Lower(s).value = s.default
      BY Zenon, <1>2, <2>1, ScalarGives
    <2>3. s.key \in DOMAIN Good /\ s.key \notin Lists /\ s.key # "acceptedStatusCodes"
      BY <1>2, Keys DEF SourceForm
    <2>4. s.key \in {"path", "slack"}
      BY <2>3, Keys DEF Lists
    <2>5. Worth(s, Lower(s)) = Lower(s).value[1]
      BY <1>2 DEF Worth
    <2>6. Lower(s).value[1] \in Good[s.key] => Proper(s.key, Worth(s, Lower(s)))
      BY <2>4, <2>5, Keys, FormAssumption DEF Proper
    <2> QED BY Zenon, <2>2, <2>6
  <1>3. CASE KindOf(s.key) # "scalar"
    <2>1. s.key = "acceptedStatusCodes" /\ KindOf(s.key) = "codes"
      BY <1>3, Keys DEF SourceForm
    <2>2. Worth(s, Lower(s)) = Lower(s).value
      BY <2>1 DEF Worth
    <2>3. Lower(s).value # <<>>
      BY LowerGives
    <2> QED BY Zenon, <2>1, <2>2, <2>3 DEF Proper
  <1> QED BY <1>1, <1>2, <1>3

LEMMA BlankIs ==
    ASSUME NEW r, KubeForm(r)
    PROVE  /\ Blank(r).cfg = r.cfg /\ Blank(r).ignore = r.ignore
           /\ Len(Blank(r).from) = Len(r.from) /\ Len(r.from) \in Nat
           /\ DOMAIN r.from = 1 .. Len(r.from)
           /\ \A i \in 1 .. Len(r.from) :
                 LET b == Blank(r).from[i]
                     s == r.from[i]
                 IN /\ SourceForm(s)
                    /\ b.key = s.key /\ b.hasDefault = s.hasDefault /\ b.default = s.default
                    /\ b.text = <<>>
  <1>1. r.from \in Seq(ToSet(r.from)) /\ \A s \in ToSet(r.from) : SourceForm(s)
    BY DEF KubeForm, IsList
  <1>2. Len(r.from) \in Nat /\ DOMAIN r.from = 1 .. Len(r.from)
    BY <1>1
  <1>3. \A i \in 1 .. Len(r.from) : SourceForm(r.from[i])
    BY <1>1, <1>2 DEF ToSet
  <1> DEFINE bare == [j \in DOMAIN r.from |-> [r.from[j] EXCEPT !.text = <<>>]]
  <1>4. Len(bare) = Len(r.from) /\ \A i \in 1 .. Len(r.from) : bare[i] = [r.from[i] EXCEPT !.text = <<>>]
    BY <1>2
  <1>5. Blank(r) = [r EXCEPT !.from = bare]
    BY DEF Blank
  <1> HIDE DEF bare
  <1>6. Blank(r).cfg = r.cfg /\ Blank(r).ignore = r.ignore /\ Blank(r).from = bare
    BY <1>5 DEF KubeForm
  <1>7. ASSUME NEW i \in 1 .. Len(r.from)
        PROVE  /\ bare[i].key = r.from[i].key /\ bare[i].hasDefault = r.from[i].hasDefault
               /\ bare[i].default = r.from[i].default /\ bare[i].text = <<>>
    <2> DEFINE s == r.from[i]
    <2>1. {"key", "text", "default", "hasDefault", "override"} \subseteq DOMAIN s
      BY <1>3 DEF SourceForm
    <2>2. bare[i] = [s EXCEPT !.text = <<>>]
      BY <1>4
    <2> HIDE DEF s
    <2>3. /\ bare[i].key = s.key /\ bare[i].hasDefault = s.hasDefault
          /\ bare[i].default = s.default /\ bare[i].text = <<>>
      BY <2>1, <2>2
    <2> QED BY <2>3 DEF s
  <1> QED BY Zenon, <1>2, <1>3, <1>4, <1>6, <1>7

LEMMA LayerBetters ==
    ASSUME NEW r, KubeForm(r), KubeConfigOK(r.cfg, r.from)
    PROVE  Betters(Apply(r), Apply(Blank(r)))
  <1> DEFINE N == Len(r.from)
             b(i) == Blank(r).from[i]
             c == Apply(Blank(r))
             d == Apply(r)
  <1>1. /\ Blank(r).cfg = r.cfg /\ Len(Blank(r).from) = N /\ N \in Nat
        /\ DOMAIN r.from = 1 .. N
        /\ \A i \in 1 .. N :
              /\ SourceForm(r.from[i])
              /\ b(i).key = r.from[i].key /\ b(i).hasDefault = r.from[i].hasDefault
              /\ b(i).default = r.from[i].default /\ b(i).text = <<>>
    BY Zenon, BlankIs
  <1>2. /\ \A i \in 1 .. N : r.from[i].key \notin DOMAIN r.cfg
        /\ \A i, j \in 1 .. N : r.from[i].key = r.from[j].key => i = j
    BY <1>1 DEF KubeConfigOK, KubeValueSource, OneSourceEach, Entries, ToSet
  <1>3. /\ DOMAIN r.cfg \subseteq DOMAIN d
        /\ \A i \in 1 .. N : Lower(r.from[i]).set => r.from[i].key \in DOMAIN d
        /\ \A k \in DOMAIN d :
              \/ k \in DOMAIN r.cfg /\ d[k] = r.cfg[k]
              \/ \E i \in 1 .. N : /\ r.from[i].key = k /\ Lower(r.from[i]).set
                                  /\ d[k] = Worth(r.from[i], Lower(r.from[i]))
    BY ZenonT(60), <1>1, LayerIs DEF LayerOf, Lowered
  <1>4. /\ DOMAIN r.cfg \subseteq DOMAIN c
        /\ \A i \in 1 .. N : Lower(b(i)).set => b(i).key \in DOMAIN c
        /\ \A k \in DOMAIN c :
              \/ k \in DOMAIN r.cfg /\ c[k] = r.cfg[k]
              \/ \E i \in 1 .. N : /\ b(i).key = k /\ Lower(b(i)).set
                                  /\ c[k] = Worth(b(i), Lower(b(i)))
    <2>1. LayerOf(c, r.cfg, Blank(r).from, Lowered(Blank(r).from), N)
      BY <1>1, LayerIs
    <2> HIDE DEF c
    <2> QED BY <1>1, <2>1 DEF LayerOf, Lowered
  <1>5. \A i \in 1 .. N :
           /\ Lower(b(i)).set <=> r.from[i].hasDefault /\ r.from[i].default # <<>>
           /\ Lower(b(i)).set => Lower(b(i)).value = r.from[i].default
    <2> SUFFICES ASSUME NEW i \in 1 .. N
                 PROVE  /\ Lower(b(i)).set <=> r.from[i].hasDefault /\ r.from[i].default # <<>>
                        /\ Lower(b(i)).set => Lower(b(i)).value = r.from[i].default
      OBVIOUS
    <2>1. Lower(b(i)) = WriteDefault(b(i), "absent", 0)
      BY Zenon, <1>1 DEF Lower
    <2>2. b(i).hasDefault = r.from[i].hasDefault /\ b(i).default = r.from[i].default
      BY Zenon, <1>1
    <2> DEFINE w == WriteDefault(b(i), "absent", 0)
    <2>3. (w.set <=> b(i).hasDefault /\ b(i).default # <<>>) /\ (w.set => w.value = b(i).default)
      BY DefaultIs
    <2>4. Lower(b(i)) = w
      BY <2>1
    <2> HIDE DEF w, b
    <2> QED BY Zenon, <2>2, <2>3, <2>4
  <1> HIDE DEF N, b, c, d
  <1>6. ASSUME NEW k \in DOMAIN c \ Lists PROVE k \in DOMAIN d
    <2>1. CASE k \in DOMAIN r.cfg
      BY <1>3, <2>1
    <2>2. ASSUME NEW i \in 1 .. N, b(i).key = k, Lower(b(i)).set PROVE k \in DOMAIN d
      <3>1. /\ SourceForm(r.from[i]) /\ r.from[i].key = k
            /\ r.from[i].hasDefault /\ r.from[i].default # <<>>
        BY Zenon, <1>1, <1>5, <2>2
      <3>2. KindOf(k) # "list"
        BY <3>1, Keys DEF SourceForm
      <3>3. Lower(r.from[i]).set
        BY Zenon, <3>1, <3>2, LowerGives
      <3> QED BY Zenon, <1>3, <3>1, <3>3
    <2> QED BY Zenon, <1>4, <2>1, <2>2
  <1>7. ASSUME NEW k \in DOMAIN d \ Lists
        PROVE  (k \in DOMAIN c /\ d[k] = c[k]) \/ Proper(k, d[k])
    <2>1. CASE k \in DOMAIN r.cfg
      <3>1. \A i \in 1 .. N : r.from[i].key # k /\ b(i).key # k
        <4>1. \A i \in 1 .. N : r.from[i].key # k
          BY <1>2, <2>1
        <4>2. \A i \in 1 .. N : b(i).key = r.from[i].key
          BY Zenon, <1>1
        <4> QED BY Zenon, <4>1, <4>2
      <3>2. d[k] = r.cfg[k] /\ k \in DOMAIN c /\ c[k] = r.cfg[k]
        BY <1>3, <1>4, <2>1, <3>1
      <3> QED BY <3>2
    <2>2. ASSUME NEW i \in 1 .. N, r.from[i].key = k, Lower(r.from[i]).set,
                 d[k] = Worth(r.from[i], Lower(r.from[i]))
          PROVE  (k \in DOMAIN c /\ d[k] = c[k]) \/ Proper(k, d[k])
      <3> DEFINE s == r.from[i]
      <3>1. SourceForm(s) /\ KindOf(s.key) # "list" /\ b(i).key = k
        <4>1. SourceForm(s) /\ b(i).key = s.key
          BY <1>1
        <4> QED BY <2>2, <4>1, Keys DEF SourceForm
      <3>2. \/ Proper(k, d[k])
            \/ s.hasDefault /\ s.default # <<>> /\ Lower(s).value = s.default
        BY Zenon, <2>2, <3>1, AnnotationIsProper
      <3>3. CASE s.hasDefault /\ s.default # <<>> /\ Lower(s).value = s.default
        <4>1. Lower(b(i)).set /\ Lower(b(i)).value = s.default
          BY Zenon, <1>5, <3>3
        <4>2. k \in DOMAIN c
          BY Zenon, <1>4, <3>1, <4>1
        <4>3. k \notin DOMAIN r.cfg
          BY Zenon, <1>2, <2>2
        <4>4. PICK j \in 1 .. N : b(j).key = k /\ c[k] = Worth(b(j), Lower(b(j)))
          BY Zenon, <1>4, <4>2, <4>3
        <4>5. r.from[j].key = k
          BY Zenon, <1>1, <4>4
        <4>6. j = i
          BY Zenon, <1>2, <2>2, <4>5
        <4>7. Worth(b(i), Lower(b(i))) = Worth(s, Lower(s))
          BY Zenon, <2>2, <3>1, <3>3, <4>1 DEF Worth
        <4> QED BY Zenon, <2>2, <4>2, <4>4, <4>6, <4>7
      <3> QED BY Zenon, <3>2, <3>3
    <2> QED BY Zenon, <1>3, <2>1, <2>2
  <1> QED BY Zenon, <1>6, <1>7 DEF Betters, c, d

LEMMA MergedIs ==
    ASSUME NEW out, NEW c, DOMAIN out = ConfigKeys
    PROVE  /\ DOMAIN MergeLayer(out, c) = ConfigKeys
           /\ \A k \in ConfigKeys \ Lists :
                 MergeLayer(out, c)[k] = IF k \notin DOMAIN c THEN out[k] ELSE c[k]
  BY DEF MergeLayer

LEMMA StackBetters ==
    ASSUME NEW N \in Nat, NEW ds, NEW cs, Len(ds) = N, Len(cs) = N,
           \A i \in 1 .. N : Betters(ds[i], cs[i])
    PROVE  LET d == ResolveStack(ds)
               c == ResolveStack(cs)
           IN \A k \in ConfigKeys \ Lists : d[k] = c[k] \/ Proper(k, d[k])
  <1>1. PICK g : /\ g[0] = Zero
                 /\ \A n \in 1 .. N : g[n] = MergeLayer(g[n - 1], ds[n])
                 /\ ResolveStack(ds) = g[N]
    BY MergeTurns
  <1>2. PICK h : /\ h[0] = Zero
                 /\ \A n \in 1 .. N : h[n] = MergeLayer(h[n - 1], cs[n])
                 /\ ResolveStack(cs) = h[N]
    BY MergeTurns
  <1> DEFINE Fine(n) == /\ DOMAIN g[n] = ConfigKeys /\ DOMAIN h[n] = ConfigKeys
                        /\ \A k \in ConfigKeys \ Lists : g[n][k] = h[n][k] \/ Proper(k, g[n][k])
             P == {n \in 0 .. N : Fine(n)}
  <1>3. 0 \in P
    BY <1>1, <1>2, Keys
  <1>4. ASSUME NEW n \in 1 .. N, n - 1 \in P PROVE n \in P
    <2>1. Fine(n - 1) /\ n \in 0 .. N
      BY <1>4
    <2>2. /\ DOMAIN g[n] = ConfigKeys /\ DOMAIN h[n] = ConfigKeys
          /\ \A k \in ConfigKeys \ Lists :
                /\ g[n][k] = IF k \notin DOMAIN ds[n] THEN g[n - 1][k] ELSE ds[n][k]
                /\ h[n][k] = IF k \notin DOMAIN cs[n] THEN h[n - 1][k] ELSE cs[n][k]
      <3>1. /\ g[n] = MergeLayer(g[n - 1], ds[n]) /\ h[n] = MergeLayer(h[n - 1], cs[n])
            /\ DOMAIN g[n - 1] = ConfigKeys /\ DOMAIN h[n - 1] = ConfigKeys
        BY Zenon, <1>1, <1>2, <2>1
      <3>2. /\ DOMAIN g[n] = ConfigKeys
            /\ \A k \in ConfigKeys \ Lists :
                  g[n][k] = IF k \notin DOMAIN ds[n] THEN g[n - 1][k] ELSE ds[n][k]
        BY <3>1, MergedIs
      <3>3. /\ DOMAIN h[n] = ConfigKeys
            /\ \A k \in ConfigKeys \ Lists :
                  h[n][k] = IF k \notin DOMAIN cs[n] THEN h[n - 1][k] ELSE cs[n][k]
        BY <3>1, MergedIs
      <3> QED BY <3>2, <3>3
    <2>3. Betters(ds[n], cs[n])
      OBVIOUS
    <2>4. ASSUME NEW k \in ConfigKeys \ Lists PROVE g[n][k] = h[n][k] \/ Proper(k, g[n][k])
      <3>1. CASE k \in DOMAIN ds[n]
        <4>1. g[n][k] = ds[n][k]
          BY <2>2, <3>1
        <4>2. (k \in DOMAIN cs[n] /\ ds[n][k] = cs[n][k]) \/ Proper(k, ds[n][k])
          BY <2>3, <3>1 DEF Betters
        <4>3. k \in DOMAIN cs[n] => h[n][k] = cs[n][k]
          BY <2>2
        <4> QED BY Zenon, <4>1, <4>2, <4>3
      <3>2. CASE k \notin DOMAIN ds[n]
        <4>1. k \notin DOMAIN cs[n]
          BY <2>3, <3>2 DEF Betters
        <4>2. g[n][k] = g[n - 1][k] /\ h[n][k] = h[n - 1][k]
          BY <2>2, <3>2, <4>1
        <4> QED BY Zenon, <2>1, <4>2
      <3> QED BY <3>1, <3>2
    <2> QED BY Zenon, <2>1, <2>2, <2>4
  <1> HIDE DEF P
  <1>5. \A n \in 0 .. N : n \in P
    BY <1>3, <1>4, InductTo
  <1>6. N \in P
    BY <1>5
  <1> QED BY Zenon, <1>1, <1>2, <1>6 DEF P

LEMMA StaysResolved ==
    ASSUME NEW d, NEW c, \A k \in ConfigKeys \ Lists : d[k] = c[k] \/ Proper(k, d[k]), CheckResolved(c)
    PROVE  CheckResolved(d)
  <1>1. /\ \A k \in Durations : k \in ConfigKeys \ Lists /\ ~Proper(k, d[k])
        /\ \A k \in {"httpMethod", "retries", "scheme"} : k \in ConfigKeys \ Lists /\ ~Proper(k, d[k])
        /\ \A k \in {"path", "slack", "acceptedStatusCodes"} : k \in ConfigKeys \ Lists
    BY DEF Durations, ConfigKeys, Words, Flags, Lists, Proper
  <1>2. /\ \A k \in Durations : d[k] = c[k]
        /\ d.httpMethod = c.httpMethod /\ d.retries = c.retries /\ d.scheme = c.scheme
    BY <1>1
  <1>3. /\ d.timeout = c.timeout /\ d.interval = c.interval
        /\ d.sslAlertThreshold = c.sslAlertThreshold
        /\ d.sslEscalationThreshold = c.sslEscalationThreshold
    BY <1>2 DEF Durations
  <1>4. /\ d.path = c.path \/ d.path \in Absolute
        /\ d.slack = c.slack \/ d.slack # NoText
        /\ d.acceptedStatusCodes = c.acceptedStatusCodes \/ d.acceptedStatusCodes # <<>>
    BY <1>1 DEF Proper
  <1>5. /\ d.path \in Absolute /\ d.slack # NoText /\ d.acceptedStatusCodes # <<>>
        /\ d.httpMethod \in Methods /\ d.retries >= 0
        /\ \A k \in Durations : d[k] > 0
        /\ d.timeout < d.interval
        /\ d.scheme \in {NoText, "https"} => d.sslAlertThreshold > d.sslEscalationThreshold
    BY Zenon, <1>2, <1>3, <1>4 DEF CheckResolved
  <1> QED BY Zenon, <1>5 DEF CheckResolved

LEMMA AnnotationsFollow == TakenAsGiven => AnnotationNeverCostsTheMonitor
  <1> DEFINE stack == WalkRules(subject.tree, subject.hits)
             blank == [i \in DOMAIN stack |-> Blank(stack[i])]
  <1> SUFFICES ASSUME TakenAsGiven, Is("host"), ValidateKube(subject.tree, Monitored),
                      Outcome(blank, subject.wildcard).status = "added"
               PROVE  Outcome(stack, subject.wildcard).status = "added"
    BY Zenon DEF AnnotationNeverCostsTheMonitor
  <1>1. PICK obj \in Hosts : subject.hits = KubeHits(obj)
    BY DEF TakenAsGiven, KubeHits
  <1>2. subject.tree \in KubeTrees
    BY DEF TakenAsGiven
  <1>3. /\ stack \in Seq(RulesOf(subject.tree)) /\ stack # <<>>
        /\ \A i \in 1 .. Len(stack) : KubeForm(stack[i]) /\ KubeConfigOK(stack[i].cfg, stack[i].from)
    BY <1>1, <1>2, HostWalk
  <1> HIDE DEF stack
  <1> DEFINE N == Len(stack)
  <1>4. N \in Nat /\ DOMAIN stack = 1 .. N /\ 1 \in 1 .. N
    BY <1>3
  <1>5. /\ DOMAIN blank = 1 .. N /\ Len(blank) = N /\ blank # <<>>
        /\ \A i \in 1 .. N : blank[i] = Blank(stack[i])
    BY <1>4
  <1> HIDE DEF blank
  <1>6. \A i \in 1 .. N : blank[i].ignore = stack[i].ignore
    BY <1>3, <1>5, BlankIs
  <1>7. Ignored(stack) <=> Ignored(blank)
    BY Zenon, <1>4, <1>5, <1>6 DEF Ignored
  <1> DEFINE ds == [i \in DOMAIN stack |-> Apply(stack[i])]
             cs == [i \in DOMAIN blank |-> Apply(blank[i])]
             d == ResolveStack(ds)
             c == ResolveStack(cs)
  <1>8. Len(ds) = N /\ Len(cs) = N
    BY <1>4, <1>5
  <1>9. ASSUME NEW i \in 1 .. N PROVE Betters(ds[i], cs[i])
    <2>1. ds[i] = Apply(stack[i]) /\ cs[i] = Apply(Blank(stack[i]))
      BY <1>4, <1>5
    <2>2. Betters(Apply(stack[i]), Apply(Blank(stack[i])))
      BY <1>3, LayerBetters
    <2> QED BY Zenon, <2>1, <2>2
  <1>10. /\ Outcome(stack, subject.wildcard).status = Classify(Ignored(stack), subject.wildcard, d)
         /\ Outcome(blank, subject.wildcard).status = Classify(Ignored(blank), subject.wildcard, c)
    BY <1>3, <1>5 DEF Outcome
  <1> HIDE DEF ds, cs
  <1>11. \A k \in ConfigKeys \ Lists : d[k] = c[k] \/ Proper(k, d[k])
    BY <1>4, <1>8, <1>9, StackBetters
  <1> HIDE DEF d, c, N
  <1>12. ~Ignored(blank) /\ ~subject.wildcard /\ CheckResolved(c)
    BY <1>10 DEF Classify
  <1>13. CheckResolved(d)
    BY <1>11, <1>12, StaysResolved
  <1> QED BY <1>7, <1>10, <1>12, <1>13 DEF Classify

-----------------------------------------------------------------------------
(* Alerts. *)

(* A layer of a tree that was accepted.                                       *)
AlertLayer(c) ==
    /\ c.slack \in Channels \cup {NoText}
    /\ c.notify.values \in Seq(NotifyEntries)

LEMMA AMLayerFits ==
    ASSUME NEW r, AlertForm(r), NEW kube, AMRule(r, kube)
    PROVE  /\ AlertLayer(AMApply(r))
           /\ AMRoot(r) => AMApply(r).slack \in Channels
  <1> DEFINE layer == AMApply(r)
             N == Len(r.from)
  <1>1. r.from \in Seq(ToSet(r.from)) /\ \A s \in ToSet(r.from) : SourceForm(s) /\ s.key \in {"slack", "notify"}
    BY DEF AlertForm, IsList
  <1>2. N \in Nat /\ DOMAIN r.from = 1 .. N /\ \A i \in 1 .. N : r.from[i] \in ToSet(r.from)
    BY <1>1 DEF ToSet
  <1>3. LayerOf(layer, r.cfg, r.from, AMLowered(r.from), N)
    BY <1>2, AMLayerIs
  <1> HIDE DEF layer
  <1>4. DOMAIN r.cfg = {"slack", "notify"}
    BY DEF AlertForm
  <1>5. \A i \in 1 .. N : AMLowered(r.from)[i] = AMLower(r.from[i])
    BY DEF AMLowered
  <1>6. \A k \in {"slack", "notify"} :
           \/ /\ layer[k] = r.cfg[k]
              /\ \A i \in 1 .. N : AMLower(r.from[i]).set => r.from[i].key # k
           \/ \E i \in 1 .. N : /\ r.from[i].key = k /\ AMLower(r.from[i]).set
                                /\ layer[k] = Worth(r.from[i], AMLower(r.from[i]))
    BY <1>3, <1>4, <1>5 DEF LayerOf
  <1>7. "slack" \in DOMAIN Good /\ "notify" \in DOMAIN Good /\ KindOf("slack") = "scalar" /\ KindOf("notify") = "list"
        /\ Good["slack"] = Channels /\ Good["notify"] \subseteq NotifyEntries
    BY Keys DEF Lists, NotifyEntries
  <1>8. ASSUME NEW i \in 1 .. N, AMLower(r.from[i]).set
        PROVE  LET v == Worth(r.from[i], AMLower(r.from[i]))
               IN /\ r.from[i].key = "slack" => v \in Channels
                  /\ r.from[i].key = "notify" => v.values \in Seq(NotifyEntries)
    <2> DEFINE s == r.from[i]
               low == AMLower(s)
    <2>1. SourceForm(s) /\ AMValueSource(r.cfg, s, kube)
      BY <1>1, <1>2 DEF AMRule, Entries
    <2>2. low.value \in Seq(Given(s)) /\ low.value # <<>>
      BY <1>8, <2>1, AMLowerGives
    <2>3. s.key = "slack" => Given(s) \subseteq Channels
      BY <1>7, <2>1 DEF Given, AMValueSource, SourceDefault, Entries
    <2>4. s.key = "notify" => Given(s) \subseteq NotifyEntries
      BY <1>7, <2>1 DEF Given, AMValueSource, SourceDefault, Entries
    <2>5. s.key = "slack" => Worth(s, low) = low.value[1]
      BY <1>7 DEF Worth
    <2>6. s.key = "notify" => Worth(s, low).values = low.value
      BY <1>7 DEF Worth
    <2> HIDE DEF low
    <2>7. low.value[1] \in Given(s)
      BY <2>2
    <2>8. s.key = "notify" => low.value \in Seq(NotifyEntries)
      BY <2>2, <2>4, Widened
    <2> HIDE DEF s
    <2>9. /\ s.key = "slack" => Worth(s, low) \in Channels
          /\ s.key = "notify" => Worth(s, low).values \in Seq(NotifyEntries)
      BY <2>3, <2>5, <2>6, <2>7, <2>8
    <2> QED BY Zenon, <2>9 DEF s, low
  <1>9. layer.slack \in Channels \cup {NoText}
    <2>1. r.cfg.slack \in Channels \cup {NoText}
      BY DEF AMRule
    <2> QED BY Zenon, <1>6, <1>8, <2>1
  <1>10. layer.notify.values \in Seq(NotifyEntries)
    <2>1. r.cfg.notify.values \in Seq(ToSet(r.cfg.notify.values)) /\ ToSet(r.cfg.notify.values) \subseteq NotifyEntries
      BY DEF AMRule, AlertForm, IsList, Entries
    <2>2. r.cfg.notify.values \in Seq(NotifyEntries)
      BY <2>1, Widened
    <2> QED BY Zenon, <1>6, <1>8, <2>2
  <1>11. ASSUME AMRoot(r) PROVE layer.slack \in Channels
    <2>1. CASE r.cfg.slack # NoText
      <3>1. r.cfg.slack \in Channels
        BY <2>1 DEF AMRule
      <3> QED BY Zenon, <1>6, <1>8, <3>1
    <2>2. CASE r.cfg.slack = NoText
      <3>1. PICK s \in ToSet(r.from) : s.key = "slack" /\ s.hasDefault
        BY <1>11, <2>2 DEF AMRoot, Entries
      <3>2. PICK i \in 1 .. N : r.from[i] = s
        BY <1>2 DEF ToSet
      <3>3. SourceForm(s)
        BY <1>1
      <3>4. Len(s.default) = 1
        BY Zenon, <1>7, <3>1, <3>3 DEF SourceForm
      <3>5. s.default # <<>>
        <4>1. Len(<<>>) # 1
          OBVIOUS
        <4> QED BY Zenon, <3>4, <4>1
      <3>6. AMLower(s).set
        BY Zenon, <3>1, <3>3, <3>5, AMLowerGives
      <3>7. ~\A j \in 1 .. N : AMLower(r.from[j]).set => r.from[j].key # "slack"
        BY Zenon, <3>1, <3>2, <3>6
      <3> QED BY Zenon, <1>6, <1>8, <3>7
    <2> QED BY <2>1, <2>2
  <1> QED BY Zenon, <1>9, <1>10, <1>11 DEF AlertLayer, layer

\* The layers merged one by one keep a channel that the root has named.
LEMMA RouteFits ==
    ASSUME NEW layers, Len(layers) \in Nat, 1 \in 1 .. Len(layers),
           \A i \in 1 .. Len(layers) : AlertLayer(layers[i]), layers[1].slack \in Channels
    PROVE  /\ AMResolveStack(layers).slack \in Channels
           /\ ToSet(AMResolveStack(layers).notify) \subseteq NotifyEntries
  <1> DEFINE N == Len(layers)
  <1>1. PICK h : /\ h[0] = [slack |-> NoText, notify |-> <<>>]
                 /\ \A n \in 1 .. N : h[n] = AMMergeLayer(h[n - 1], layers[n])
                 /\ AMResolveStack(layers) = h[N]
    BY AMMergeTurns
  <1> DEFINE P == {n \in 0 .. N : /\ n # 0 => h[n].slack \in Channels
                                  /\ h[n].notify \in Seq(NotifyEntries)}
  <1>2. 0 \in P
    <2>1. h[0].notify = <<>>
      BY <1>1
    <2>2. <<>> \in Seq(NotifyEntries)
      BY Zenon, EmptyList
    <2>3. 0 \in 0 .. N
      OBVIOUS
    <2> QED BY Zenon, <2>1, <2>2, <2>3
  <1>3. ASSUME NEW n \in 1 .. N, n - 1 \in P PROVE n \in P
    <2> DEFINE c == layers[n]
               before == h[n - 1]
    <2>1. /\ h[n].slack = IF c.slack # NoText THEN c.slack ELSE before.slack
          /\ h[n].notify = IF c.notify.values # <<>> \/ c.notify.override
                           THEN MergeStrings(before.notify, c.notify.values, c.notify.override)
                           ELSE before.notify
      <3>1. h[n] = AMMergeLayer(before, c)
        BY <1>1
      <3> HIDE DEF c, before
      <3>2. AMMergeLayer(before, c) =
               [slack |-> IF c.slack # NoText THEN c.slack ELSE before.slack,
                notify |-> IF c.notify.values # <<>> \/ c.notify.override
                           THEN MergeStrings(before.notify, c.notify.values, c.notify.override)
                           ELSE before.notify]
        BY Zenon DEF AMMergeLayer
      <3> QED BY <3>1, <3>2
    <2>2. AlertLayer(c) /\ before.notify \in Seq(NotifyEntries) /\ n \in 0 .. N /\ n # 0
      BY <1>3
    <2>3. h[n].slack \in Channels
      <3>1. CASE n = 1
        <4>1. c.slack \in Channels /\ NoText \notin Channels
          BY <3>1, FormAssumption
        <4> QED BY Zenon, <2>1, <4>1
      <3>2. CASE n # 1
        <4>1. before.slack \in Channels
          BY <1>3, <3>2
        <4> QED BY Zenon, <2>1, <2>2, <4>1 DEF AlertLayer
      <3> QED BY <3>1, <3>2
    <2> DEFINE both == before.notify \o c.notify.values
    <2>4. c.notify.values \in Seq(NotifyEntries) /\ both \in Seq(NotifyEntries)
      BY <2>2 DEF AlertLayer
    <2>5. Dedup(c.notify.values) \in Seq(NotifyEntries) /\ Dedup(both) \in Seq(NotifyEntries)
      BY <2>4, DedupIs
    <2>6. \/ MergeStrings(before.notify, c.notify.values, c.notify.override) = Dedup(c.notify.values)
          \/ MergeStrings(before.notify, c.notify.values, c.notify.override) = Dedup(both)
      BY Zenon DEF MergeStrings
    <2>7. MergeStrings(before.notify, c.notify.values, c.notify.override) \in Seq(NotifyEntries)
      BY Zenon, <2>5, <2>6
    <2>8. h[n].notify \in Seq(NotifyEntries)
      BY Zenon, <2>1, <2>2, <2>7
    <2> QED BY <2>2, <2>3, <2>8
  <1> HIDE DEF P
  <1>4. \A n \in 0 .. N : n \in P
    BY <1>2, <1>3, InductTo
  <1>5. N \in P
    BY <1>4
  <1>6. h[N].slack \in Channels /\ h[N].notify \in Seq(NotifyEntries)
    BY <1>5 DEF P
  <1>7. ToSet(h[N].notify) \subseteq NotifyEntries
    BY <1>6 DEF ToSet
  <1> QED BY Zenon, <1>1, <1>6, <1>7

AlertHits(a) == {l \in DOMAIN AlertWhens : AMWhenMatches(AlertWhens[l], a.alert, a.envelope)}

AlertLayers(stack) == [i \in DOMAIN stack |-> AMApply(stack[i])]

LEMMA ChannelFollows == TakenAsGiven => EveryAlertHasAChannel
  <1> SUFFICES ASSUME TakenAsGiven, Is("alert"), ValidateAlertmanager(subject.tree, subject.kube)
               PROVE  LET route == Evaluate(subject.tree, subject.hits)
                      IN ~route.ignored => /\ route.slack \in Channels
                                           /\ ToSet(route.notify) \subseteq NotifyEntries
    BY Zenon DEF EveryAlertHasAChannel
  <1> DEFINE tree == subject.tree
             stack == WalkRules(tree, subject.hits)
             layers == AlertLayers(stack)
             out == AMResolveStack(layers)
  <1>1. PICK a \in Alerts : subject.hits = AlertHits(a)
    BY DEF TakenAsGiven, AlertHits
  <1>2. tree \in Seq(AllRules) /\ \A r \in RulesOf(tree) : AlertForm(r)
    BY FormAssumption DEF TakenAsGiven
  <1>3. /\ tree # <<>> /\ AMRoot(tree[1])
        /\ \A r \in RulesOf(tree) : AMRule(r, subject.kube)
    BY DEF ValidateAlertmanager
  <1> HIDE DEF tree
  <1>4. tree[1] \in RulesOf(tree)
    <2>1. tree[1] \in ToSet(tree) /\ tree[1] \in AllRules
      BY <1>2, <1>3 DEF ToSet
    <2>2. tree[1] \in Subtree[tree[1]]
      BY <2>1, SubtreeIs
    <2> QED BY <2>1, <2>2 DEF RulesOf
  <1>5. tree[1].label \in subject.hits
    <2>1. tree[1].when = "empty"
      BY <1>3 DEF AMRoot
    <2> QED BY <1>1, <1>2, <1>4, <2>1 DEF AlertForm, AlertHits
  <1>6. stack \in Seq(RulesOf(tree)) /\ stack # <<>> /\ stack[1] = tree[1]
    BY <1>2, <1>3, <1>5, WalkIs
  <1>7. AMWalkRules(tree, subject.hits).stack = stack
    BY Zenon DEF AMWalkRules, WalkRules
  <1> HIDE DEF stack
  <1>8. Len(stack) \in Nat /\ 1 \in 1 .. Len(stack) /\ DOMAIN stack = 1 .. Len(stack)
    BY <1>6
  <1>9. /\ DOMAIN layers = 1 .. Len(stack) /\ Len(layers) = Len(stack)
        /\ \A i \in 1 .. Len(stack) : layers[i] = AMApply(stack[i])
    BY <1>8 DEF AlertLayers
  <1>10. /\ \A i \in 1 .. Len(stack) : AlertForm(stack[i]) /\ AMRule(stack[i], subject.kube)
         /\ AMRoot(stack[1])
    <2>1. \A i \in 1 .. Len(stack) : stack[i] \in RulesOf(tree)
      BY <1>6
    <2> QED BY Zenon, <1>2, <1>3, <1>6, <2>1
  <1> HIDE DEF layers
  <1>11. \A i \in 1 .. Len(layers) : AlertLayer(layers[i])
    BY <1>9, <1>10, AMLayerFits
  <1>12. layers[1].slack \in Channels
    BY <1>8, <1>9, <1>10, AMLayerFits
  <1>13. out.slack \in Channels /\ ToSet(out.notify) \subseteq NotifyEntries
    BY <1>8, <1>9, <1>11, <1>12, RouteFits
  <1> HIDE DEF out
  <1>14. Evaluate(tree, subject.hits) =
            IF Ignored(stack) THEN [ignored |-> TRUE, slack |-> NoText, notify |-> <<>>]
            ELSE [ignored |-> FALSE, slack |-> out.slack, notify |-> out.notify]
    BY Zenon, <1>7 DEF Evaluate, out, layers, AlertLayers
  <1>15. LET route == Evaluate(tree, subject.hits)
         IN ~route.ignored => /\ route.slack \in Channels
                              /\ ToSet(route.notify) \subseteq NotifyEntries
    BY <1>13, <1>14
  <1> QED BY Zenon, <1>15 DEF tree

\* A configuration that was accepted decides every host and every alert.
THEOREM BaselineAlwaysHolds == RulesSpec => []BaselineHolds
  <1>1. TakenAsGiven => BaselineHolds
    BY Zenon, BaselineFollows, AnnotationsFollow, ChannelFollows DEF BaselineHolds
  <1> QED BY <1>1, TakenInvariance, PTL

-----------------------------------------------------------------------------
(* Plans. *)

LEMMA DeclaredPlanIsSound ==
    ASSUME NEW m \in Declared, ValidateMonitor(m)
    PROVE  LET p == StaticPlan(m)
           IN /\ p.channel \in Channels /\ p.timeout < p.interval
              /\ SSLTracked(p) => /\ p.alert > p.escalation /\ p.escalation > 0
                                  /\ p.sslReminder > 0
              /\ LongestCheck(p) < 2 * p.interval
  <1> DEFINE p == StaticPlan(m)
  <1>1. MonitorOK(m)
    BY Zenon DEF ValidateMonitor, SMTPMonitorOK
  <1>2. /\ m.interval \in Int /\ m.timeout \in Int /\ m.retries \in Int /\ m.retryBackoff \in Int
        /\ m.sslAlert \in Int /\ m.sslEscalation \in Int /\ m.sslReminder \in Int
    <2>1. Integral(m, {"interval", "timeout", "retries", "retryBackoff", "sslAlert",
                      "sslEscalation", "sslReminder"})
      BY IntegralAssumption
    <2> QED BY <2>1 DEF Integral
  <1>3. /\ p.channel = m.slack /\ p.interval = m.interval /\ p.timeout = m.timeout
        /\ p.retries = m.retries /\ p.backoff = m.retryBackoff /\ p.alert = m.sslAlert
        /\ p.escalation = m.sslEscalation /\ p.sslReminder = m.sslReminder
    BY DEF StaticPlan
  <1>4. p.tls = TLSBearing(m) /\ p.skipVerify = m.insecureSkipVerify
    BY Zenon DEF StaticPlan
  <1> HIDE DEF p
  <1>5. SSLTracked(p) => ThresholdsOK(m)
    BY Zenon, <1>1, <1>4 DEF SSLTracked, TracksSSL, MonitorOK
  <1>6. m.slack \in Channels /\ m.timeout < m.interval /\ m.retries * (m.timeout + m.retryBackoff) < m.interval
    BY <1>1 DEF MonitorOK, RetryWindow
  <1> DEFINE Spread(r, t, b) == (r + 1) * t + r * b = r * (t + b) + t
  <1>7. \A r, t, b \in Int : Spread(r, t, b)
    OBVIOUS
  <1> HIDE DEF Spread
  <1>8. LongestCheck(p) = m.retries * (m.timeout + m.retryBackoff) + m.timeout
    <2>1. LongestCheck(p) = (m.retries + 1) * m.timeout + m.retries * m.retryBackoff
      BY Zenon, <1>3 DEF LongestCheck
    <2>2. Spread(m.retries, m.timeout, m.retryBackoff)
      BY Zenon, <1>2, <1>7
    <2> QED BY Zenon, <2>1, <2>2 DEF Spread
  <1>9. LongestCheck(p) < 2 * p.interval
    <2> DEFINE w == m.retries * (m.timeout + m.retryBackoff)
    <2>1. w \in Int /\ w < m.interval /\ LongestCheck(p) = w + m.timeout
      BY <1>2, <1>6, <1>8
    <2> HIDE DEF w
    <2> QED BY <1>2, <1>3, <1>6, <2>1
  <1>10. /\ p.channel \in Channels /\ p.timeout < p.interval
         /\ SSLTracked(p) => /\ p.alert > p.escalation /\ p.escalation > 0
                             /\ p.sslReminder > 0
    BY <1>3, <1>5, <1>6 DEF ThresholdsOK
  <1> QED BY Zenon, <1>9, <1>10 DEF p

LEMMA HostPlanIsSound ==
    ASSUME NEW tree \in KubeTrees, ValidateKube(tree, Monitored), NEW obj \in Hosts, NEW wildcard,
           Resolve(tree, KubeHits(obj), wildcard).status = "added"
    PROVE  LET p == KubePlan(Resolve(tree, KubeHits(obj), wildcard).config)
           IN /\ p.channel \in Channels /\ p.timeout < p.interval
              /\ SSLTracked(p) => /\ p.alert > p.escalation /\ p.escalation > 0
                                  /\ p.sslReminder > 0
  <1> DEFINE stack == WalkRules(tree, KubeHits(obj))
             layers == Layers(stack)
             r == ResolveStack(layers)
             out == Resolve(tree, KubeHits(obj), wildcard)
             p == KubePlan(out.config)
  <1>1. stack # <<>>
    BY HostWalk
  <1>2. /\ \A k \in RequiredAtRoot : KeyFits(k, r[k])
        /\ r["scheme"] \in {NoText, "http", "https"}
    BY ConfigFits
  <1>3. out = [status |-> Classify(Ignored(stack), wildcard, r), config |-> r]
    BY Zenon, <1>1 DEF Resolve, Outcome, Layers
  <1> HIDE DEF r, layers, stack
  <1>4. Classify(Ignored(stack), wildcard, r) = "added" /\ out.config = r
    BY <1>3
  <1>5. CheckResolved(r)
    BY <1>4 DEF Classify
  <1>6. r.slack \in Channels \cup {NoText}
    BY <1>2 DEF KeyFits, RequiredAtRoot
  <1>7. /\ r.slack \in Channels /\ r.timeout < r.interval
        /\ r.scheme \in {NoText, "https"} => r.sslAlertThreshold > r.sslEscalationThreshold
        /\ r.sslEscalationThreshold > 0 /\ r.sslReminderInterval > 0
    BY <1>5, <1>6 DEF CheckResolved, Durations
  <1> HIDE DEF out
  <1>8. p = KubePlan(r)
    BY <1>4
  <1> HIDE DEF p
  <1>9. /\ p.channel = r.slack /\ p.timeout = r.timeout /\ p.interval = r.interval
        /\ p.alert = r.sslAlertThreshold /\ p.escalation = r.sslEscalationThreshold
        /\ p.sslReminder = r.sslReminderInterval
    BY <1>8 DEF KubePlan
  <1>10. p.tls = (r.scheme # "http")
    BY Zenon, <1>8 DEF KubePlan
  <1>11. SSLTracked(p) => r.scheme \in {NoText, "https"}
    BY Zenon, <1>2, <1>10 DEF SSLTracked
  <1>12. /\ p.channel \in Channels /\ p.timeout < p.interval
         /\ SSLTracked(p) => /\ p.alert > p.escalation /\ p.escalation > 0
                             /\ p.sslReminder > 0
    BY <1>7, <1>9, <1>11
  <1> QED BY Zenon, <1>12 DEF p, out

LEMMA PlansFollow == TakenAsGiven => PlanIsSound /\ CheckCostsOneTick
  <1> SUFFICES ASSUME TakenAsGiven, NEW p \in Plans
               PROVE  /\ p.channel \in Channels /\ p.timeout < p.interval
                      /\ SSLTracked(p) => /\ p.alert > p.escalation /\ p.escalation > 0
                                          /\ p.sslReminder > 0
                      /\ Is("monitor") => LongestCheck(p) < 2 * p.interval
    BY Zenon DEF PlanIsSound, CheckCostsOneTick
  <1>1. CASE Is("monitor") /\ ValidateMonitor(subject.monitor)
    <2>1. p = StaticPlan(subject.monitor) /\ subject.monitor \in Declared
      BY Zenon, <1>1 DEF Plans, TakenAsGiven
    <2> QED BY Zenon, <1>1, <2>1, DeclaredPlanIsSound
  <1>2. CASE ~(Is("monitor") /\ ValidateMonitor(subject.monitor))
    <2> DEFINE out == Resolve(subject.tree, subject.hits, subject.wildcard)
    <2>1. Is("host") /\ ValidateKube(subject.tree, Monitored)
      BY Zenon, <1>2 DEF Plans
    <2>2. p \in {KubePlan(o.config) : o \in {q \in {out} : q.status = "added"}}
      BY Zenon, <1>2, <2>1 DEF Plans
    <2>3. out.status = "added" /\ p = KubePlan(out.config)
      BY Zenon, <2>2
    <2>4. PICK obj \in Hosts : subject.hits = KubeHits(obj)
      BY <2>1 DEF TakenAsGiven, KubeHits
    <2>5. subject.tree \in KubeTrees
      BY <2>1 DEF TakenAsGiven
    <2>6. ~Is("monitor")
      BY <2>1 DEF Is
    <2> QED BY Zenon, <2>1, <2>3, <2>4, <2>5, <2>6, HostPlanIsSound
  <1> QED BY <1>1, <1>2

LEMMA SettingsFollow == TakenAsGiven => AcceptedSettingsFit
  <1> SUFFICES ASSUME TakenAsGiven PROVE AcceptedSettingsFit
    OBVIOUS
  <1>1. Minute \in Nat /\ Minute > 0 /\ 5 * Minute > 0 /\ 10 * Minute > 0 /\ 30 * Minute > 0
    BY DEF Minute
  <1>2. Hour \in Nat /\ Hour > 0
    BY DEF Hour
  <1>3. \A n \in Nat : n > 0 => 24 * n > 0
    OBVIOUS
  <1>4. ASSUME Is("coalesce"), ValidateCoalesce(subject.coalesce)
        PROVE  LET co == subject.coalesce
               IN /\ EffectivePendingWait(co) > 0
                  /\ EffectiveBurstWindow(co) >= EffectivePendingWait(co)
                  /\ EffectiveBurstThreshold(co) >= 0 /\ EffectiveBurstThreshold(co) # 1
                  /\ EffectiveGroupInterval(co) > 0 /\ EffectiveRepeatInterval(co) > 0
    <2> DEFINE co == subject.coalesce
    <2>1. /\ co.pendingWait \in Int /\ co.groupWait \in Int /\ co.burstThreshold \in Int
          /\ co.burstWindow \in Int /\ co.groupInterval \in Int /\ co.repeatInterval \in Int
      <3>1. co \in Coalesces
        BY <1>4 DEF TakenAsGiven
      <3> HIDE DEF co
      <3>2. Integral(co, {"pendingWait", "groupWait", "burstThreshold", "burstWindow",
                         "groupInterval", "repeatInterval"})
        BY <3>1, IntegralAssumption
      <3> QED BY <3>2 DEF Integral
    <2>2. co.burstThreshold \in {-1, 0} \/ co.burstThreshold >= 2
      BY <1>4 DEF ValidateCoalesce
    <2> HIDE DEF co
    <2>3. EffectivePendingWait(co) \in Int /\ EffectivePendingWait(co) > 0
      BY <2>1 DEF EffectivePendingWait
    <2>4. EffectiveBurstWindow(co) >= EffectivePendingWait(co)
      BY <1>1, <2>1, <2>3 DEF EffectiveBurstWindow
    <2>5. EffectiveBurstThreshold(co) >= 0 /\ EffectiveBurstThreshold(co) # 1
      BY <2>1, <2>2 DEF EffectiveBurstThreshold
    <2>6. EffectiveGroupInterval(co) > 0 /\ EffectiveRepeatInterval(co) > 0
      BY <1>1, <2>1 DEF EffectiveGroupInterval, EffectiveRepeatInterval
    <2> QED BY <2>3, <2>4, <2>5, <2>6 DEF co
  <1>5. ASSUME Is("selfHealth"), ValidateSelfHealth(subject.selfHealth)
        PROVE  /\ EffectiveWindow(subject.selfHealth) > 0
               /\ EffectiveMinMonitors(subject.selfHealth) >= 2
    <2>1. subject.selfHealth.window \in Int /\ subject.selfHealth.minMonitors \in Int
      <3> DEFINE s == subject.selfHealth
      <3>1. s \in SelfHealths
        BY <1>5 DEF TakenAsGiven
      <3> HIDE DEF s
      <3>2. Integral(s, {"window", "minMonitors"})
        BY <3>1, IntegralAssumption
      <3>3. s.window \in Int /\ s.minMonitors \in Int
        BY <3>2 DEF Integral
      <3> QED BY <3>3 DEF s
    <2> QED BY <1>5, <2>1 DEF ValidateSelfHealth, EffectiveWindow, EffectiveMinMonitors
  <1>6. ASSUME Is("rateLimit"), RateLimitOK(RateLimitDefaults(subject.rateLimit))
        PROVE  LET rl == RateLimitDefaults(subject.rateLimit)
               IN rl.perChannel > 0 => rl.window > 0 /\ rl.noticeEvery > 0
    BY Zenon, <1>6 DEF RateLimitOK
  <1> QED BY Zenon, <1>4, <1>5, <1>6 DEF AcceptedSettingsFit

\* What the loader lets through can be run.
THEOREM PlansAreAlwaysSound == RulesSpec => []PlansAreSound
  <1>1. TakenAsGiven => PlansAreSound
    BY Zenon, PlansFollow, SettingsFollow DEF PlansAreSound
  <1> QED BY <1>1, TakenInvariance, PTL

-----------------------------------------------------------------------------
(* The trace. *)

LEMMA SameList ==
    ASSUME NEW old, NEW incoming, NEW override
    PROVE  ApplyList(old, incoming, override).new = MergeStrings(old, incoming, override)
  <1>1. ApplyList(old, incoming, override).new =
           IF override THEN Dedup(incoming) ELSE Dedup(old \o incoming)
    BY DEF ApplyList
  <1>2. CASE override
    BY Zenon, <1>1, <1>2 DEF MergeStrings
  <1>3. CASE ~override
    BY Zenon, <1>1, <1>3 DEF MergeStrings
  <1> QED BY <1>2, <1>3

(* What the accumulator of the trace has, or the zero value, is what is merged. *)
InStep(out, acc) ==
    /\ DOMAIN out = ConfigKeys
    /\ \A k \in ConfigKeys : out[k] = IF k \in DOMAIN acc THEN acc[k] ELSE Zero[k]

LEMMA StaysInStep ==
    ASSUME NEW out, NEW acc, InStep(out, acc), NEW c
    PROVE  InStep(MergeLayer(out, c), ApplyConfig(acc, c))
  <1> DEFINE next == MergeLayer(out, c)
             nextAcc == ApplyConfig(acc, c)
  <1>1. /\ DOMAIN next = ConfigKeys
        /\ \A k \in ConfigKeys : next[k] = IF k \notin DOMAIN c THEN out[k]
                                           ELSE IF k \in Lists THEN MergeStrings(out[k], c[k].values, c[k].override)
                                           ELSE c[k]
    BY DEF InStep, MergeLayer
  <1>2. /\ DOMAIN nextAcc = DOMAIN acc \cup DOMAIN c
        /\ \A k \in DOMAIN nextAcc : nextAcc[k] = IF k \in DOMAIN c THEN ApplyKey(acc, c, k).new ELSE acc[k]
    BY DEF ApplyConfig
  <1> HIDE DEF next, nextAcc
  <1>3. ASSUME NEW k \in ConfigKeys
        PROVE  next[k] = IF k \in DOMAIN nextAcc THEN nextAcc[k] ELSE Zero[k]
    <2>1. out[k] = IF k \in DOMAIN acc THEN acc[k] ELSE Zero[k]
      BY DEF InStep
    <2>2. CASE k \notin DOMAIN c
      <3>1. next[k] = out[k]
        BY Zenon, <1>1, <2>2
      <3>2. k \in DOMAIN nextAcc <=> k \in DOMAIN acc
        BY <1>2, <2>2
      <3>3. k \in DOMAIN acc => nextAcc[k] = acc[k]
        BY Zenon, <1>2, <2>2, <3>2
      <3> QED BY Zenon, <2>1, <3>1, <3>2, <3>3
    <2>3. CASE k \in DOMAIN c /\ k \notin Lists
      <3>1. next[k] = c[k]
        BY Zenon, <1>1, <2>3
      <3>2. k \in DOMAIN nextAcc
        BY <1>2, <2>3
      <3>3. nextAcc[k] = ApplyKey(acc, c, k).new
        BY Zenon, <1>2, <2>3, <3>2
      <3>4. ApplyKey(acc, c, k).new = c[k]
        BY <2>3 DEF ApplyKey
      <3> QED BY Zenon, <3>1, <3>2, <3>3, <3>4
    <2>4. CASE k \in DOMAIN c /\ k \in Lists
      <3> DEFINE old == IF k \in DOMAIN acc THEN acc[k] ELSE <<>>
      <3>1. next[k] = MergeStrings(out[k], c[k].values, c[k].override)
        BY Zenon, <1>1, <2>4
      <3>2. k \in DOMAIN nextAcc
        BY <1>2, <2>4
      <3>3. nextAcc[k] = ApplyKey(acc, c, k).new
        BY Zenon, <1>2, <2>4, <3>2
      <3>4. Zero[k] = <<>>
        BY <2>4 DEF Zero, ConfigKeys, Lists, Durations
      <3>5. out[k] = old
        BY Zenon, <2>1, <3>4
      <3> HIDE DEF old
      <3>6. ApplyKey(acc, c, k).new = ApplyList(old, c[k].values, c[k].override).new
        BY <2>4 DEF ApplyKey, old
      <3> QED BY Zenon, <3>1, <3>2, <3>3, <3>5, <3>6, SameList
    <2> QED BY <2>2, <2>3, <2>4
  <1> QED BY Zenon, <1>1, <1>3 DEF InStep, next, nextAcc

LEMMA Lockstep ==
    ASSUME NEW layers, Len(layers) \in Nat
    PROVE  InStep(ResolveStack(layers), TraceAcc(layers))
  <1> DEFINE N == Len(layers)
  <1>1. PICK h : /\ h[0] = Zero
                 /\ \A n \in 1 .. N : h[n] = MergeLayer(h[n - 1], layers[n])
                 /\ ResolveStack(layers) = h[N]
    BY MergeTurns
  <1>2. PICK g : /\ g[0] = NoKeys
                 /\ \A n \in 1 .. N : g[n] = ApplyConfig(g[n - 1], layers[n])
                 /\ TraceAcc(layers) = g[N]
    BY TraceTurns
  <1> DEFINE P == {n \in 0 .. N : InStep(h[n], g[n])}
  <1>3. 0 \in P
    <2>1. DOMAIN NoKeys = {} /\ DOMAIN Zero = ConfigKeys
      BY Keys DEF NoKeys
    <2>2. InStep(Zero, NoKeys)
      BY <2>1 DEF InStep
    <2>3. 0 \in 0 .. N
      OBVIOUS
    <2> QED BY Zenon, <1>1, <1>2, <2>2, <2>3
  <1>4. ASSUME NEW n \in 1 .. N, n - 1 \in P PROVE n \in P
    <2>1. InStep(h[n - 1], g[n - 1]) /\ n \in 0 .. N
      BY <1>4
    <2>2. h[n] = MergeLayer(h[n - 1], layers[n]) /\ g[n] = ApplyConfig(g[n - 1], layers[n])
      BY <1>1, <1>2
    <2> QED BY Zenon, <2>1, <2>2, StaysInStep
  <1> HIDE DEF P
  <1>5. \A n \in 0 .. N : n \in P
    BY <1>3, <1>4, InductTo
  <1>6. N \in P
    BY <1>5
  <1> QED BY Zenon, <1>1, <1>2, <1>6 DEF P

(* The values of the lists of a layer, and of an accumulator.                 *)
ListsAre(c) == \A k \in DOMAIN c \cap Lists : IsList(c[k].values)

ListsSoFar(acc) == \A k \in DOMAIN acc \cap Lists : IsList(acc[k])

LEMMA ListOf == \A Base : \A s \in Seq(Base) : IsList(s)
  <1> SUFFICES ASSUME NEW Base, NEW s \in Seq(Base) PROVE s \in Seq(ToSet(s))
    BY DEF IsList
  <1>1. Len(s) \in Nat /\ DOMAIN s = 1 .. Len(s) /\ \A i \in 1 .. Len(s) : s[i] \in ToSet(s)
    BY DEF ToSet
  <1>2. s = [i \in 1 .. Len(s) |-> s[i]]
    OBVIOUS
  <1> QED BY <1>1, <1>2

\* The event of a list tells what it added and what it took away.
LEMMA ListEvent ==
    ASSUME NEW old, IsList(old), NEW incoming, IsList(incoming), NEW override
    PROVE  LET e == ApplyList(old, incoming, override)
           IN /\ ToSet(e.new) = (ToSet(old) \ ToSet(e.removed)) \cup ToSet(e.added)
              /\ IsInjective(e.new) /\ IsList(e.new)
  <1> DEFINE Every == ToSet(old) \cup ToSet(incoming)
             new == ApplyList(old, incoming, override).new
  <1>1. old \in Seq(Every) /\ incoming \in Seq(Every)
    BY Widened DEF IsList
  <1> HIDE DEF Every
  <1>2. old \o incoming \in Seq(Every)
    BY <1>1
  <1>3. /\ Dedup(incoming) \in Seq(Every) /\ IsInjective(Dedup(incoming))
        /\ Dedup(old \o incoming) \in Seq(Every) /\ IsInjective(Dedup(old \o incoming))
    BY <1>1, <1>2, DedupIs
  <1>4. new = Dedup(incoming) \/ new = Dedup(old \o incoming)
    BY Zenon, SameList DEF MergeStrings
  <1>5. new \in Seq(Every) /\ IsInjective(new)
    BY Zenon, <1>3, <1>4
  <1>6. /\ ApplyList(old, incoming, override).added = Filter(new, ToSet(new) \ ToSet(old))
        /\ ApplyList(old, incoming, override).removed = Filter(old, ToSet(old) \ ToSet(new))
    BY DEF ApplyList, DiffStrings
  <1> HIDE DEF new
  <1>7. /\ ToSet(Filter(new, ToSet(new) \ ToSet(old))) = ToSet(new) \cap (ToSet(new) \ ToSet(old))
        /\ ToSet(Filter(old, ToSet(old) \ ToSet(new))) = ToSet(old) \cap (ToSet(old) \ ToSet(new))
    BY <1>1, <1>5, Filtered
  <1>8. ToSet(new) = (ToSet(old) \ ToSet(ApplyList(old, incoming, override).removed))
                     \cup ToSet(ApplyList(old, incoming, override).added)
    BY <1>6, <1>7
  <1> QED BY Zenon, <1>5, <1>8, ListOf DEF new

LEMMA ListsStay ==
    ASSUME NEW acc, ListsSoFar(acc), NEW c, ListsAre(c)
    PROVE  ListsSoFar(ApplyConfig(acc, c))
  <1> DEFINE next == ApplyConfig(acc, c)
  <1>1. /\ DOMAIN next = DOMAIN acc \cup DOMAIN c
        /\ \A k \in DOMAIN next : next[k] = IF k \in DOMAIN c THEN ApplyKey(acc, c, k).new ELSE acc[k]
    BY DEF ApplyConfig
  <1> HIDE DEF next
  <1>2. ASSUME NEW k \in DOMAIN next \cap Lists PROVE IsList(next[k])
    <2>1. CASE k \notin DOMAIN c
      BY <1>1, <2>1 DEF ListsSoFar
    <2>2. CASE k \in DOMAIN c
      <3> DEFINE old == IF k \in DOMAIN acc THEN acc[k] ELSE <<>>
      <3>1. IsList(old) /\ IsList(c[k].values)
        BY <2>2, EmptyList DEF ListsSoFar, ListsAre, IsList
      <3> HIDE DEF old
      <3>2. next[k] = ApplyList(old, c[k].values, c[k].override).new
        BY <1>1, <2>2 DEF ApplyKey, old
      <3> QED BY <3>1, <3>2, ListEvent
    <2> QED BY <2>1, <2>2
  <1> QED BY <1>2 DEF ListsSoFar, next

LEMMA TraceLists ==
    ASSUME NEW layers, Len(layers) \in Nat, \A i \in 1 .. Len(layers) : ListsAre(layers[i])
    PROVE  ListsSoFar(TraceAcc(layers))
  <1> DEFINE N == Len(layers)
  <1>1. PICK g : /\ g[0] = NoKeys
                 /\ \A n \in 1 .. N : g[n] = ApplyConfig(g[n - 1], layers[n])
                 /\ TraceAcc(layers) = g[N]
    BY TraceTurns
  <1> DEFINE P == {n \in 0 .. N : ListsSoFar(g[n])}
  <1>2. 0 \in P
    BY <1>1 DEF ListsSoFar, NoKeys
  <1>3. ASSUME NEW n \in 1 .. N, n - 1 \in P PROVE n \in P
    <2>1. ListsSoFar(g[n - 1]) /\ n \in 0 .. N
      BY <1>3
    <2> QED BY <1>1, <2>1, ListsStay
  <1> HIDE DEF P
  <1>4. \A n \in 0 .. N : n \in P
    BY <1>2, <1>3, InductTo
  <1>5. N \in P
    BY <1>4
  <1> QED BY Zenon, <1>1, <1>5 DEF P

LEMMA ListLayer ==
    ASSUME NEW r, KubeForm(r)
    PROVE  ListsAre(Apply(r))
  <1> SUFFICES ASSUME NEW k \in DOMAIN Apply(r) \cap Lists PROVE IsList(Apply(r)[k].values)
    BY DEF ListsAre
  <1>1. r.from \in Seq(ToSet(r.from)) /\ \A s \in ToSet(r.from) : SourceForm(s)
    BY DEF KubeForm, IsList
  <1>2. Len(r.from) \in Nat /\ \A i \in 1 .. Len(r.from) : r.from[i] \in ToSet(r.from)
    BY <1>1
  <1>3. \/ k \in DOMAIN r.cfg /\ Apply(r)[k] = r.cfg[k]
        \/ \E i \in 1 .. Len(r.from) : /\ r.from[i].key = k /\ Lower(r.from[i]).set
                                      /\ Apply(r)[k] = Worth(r.from[i], Lower(r.from[i]))
    BY <1>2, LayerIs DEF LayerOf, Lowered
  <1>4. CASE k \in DOMAIN r.cfg /\ Apply(r)[k] = r.cfg[k]
    BY <1>4 DEF KubeForm
  <1>5. ASSUME NEW i \in 1 .. Len(r.from), r.from[i].key = k, Lower(r.from[i]).set,
               Apply(r)[k] = Worth(r.from[i], Lower(r.from[i]))
        PROVE  IsList(Apply(r)[k].values)
    <2> DEFINE s == r.from[i]
               low == Lower(s)
    <2>1. SourceForm(s)
      BY <1>1, <1>2
    <2>2. low.value \in Seq(Given(s))
      BY <1>5, <2>1, LowerGives
    <2>3. KindOf(s.key) = "list"
      BY <1>5 DEF KindOf
    <2>4. Worth(s, low) = [values |-> low.value, override |-> s.override]
      BY Zenon, <2>3 DEF Worth
    <2> HIDE DEF low
    <2>5. Worth(s, low).values = low.value
      BY <2>4
    <2> QED BY Zenon, <1>5, <2>2, <2>5, ListOf DEF low
  <1> QED BY Zenon, <1>3, <1>4, <1>5

LEMMA TraceFollows == TakenAsGiven => TraceInLockstep
  <1> SUFFICES ASSUME TakenAsGiven, Is("host")
               PROVE  LET layers == Layers(WalkRules(subject.tree, subject.hits))
                          final == ResolveStack(layers)
                          acc == TraceAcc(layers)
                      IN /\ \A k \in DOMAIN final : final[k] = IF k \in DOMAIN acc THEN acc[k] ELSE Zero[k]
                         /\ \A i \in DOMAIN layers : \A e \in TraceEvents(layers, i) :
                               e.key \in Lists =>
                                  /\ ToSet(e.new) = (ToSet(e.old) \ ToSet(e.removed)) \cup ToSet(e.added)
                                  /\ IsInjective(e.new)
    BY Zenon DEF TraceInLockstep
  <1> DEFINE tree == subject.tree
             stack == WalkRules(tree, subject.hits)
             layers == Layers(stack)
  <1>1. tree \in Seq(AllRules) /\ \A r \in RulesOf(tree) : KubeForm(r)
    BY FormAssumption DEF TakenAsGiven
  <1> HIDE DEF tree
  <1>2. stack \in Seq(RulesOf(tree))
    BY <1>1, WalkIs
  <1> HIDE DEF stack
  <1>3. Len(stack) \in Nat /\ DOMAIN stack = 1 .. Len(stack) /\ \A i \in 1 .. Len(stack) : KubeForm(stack[i])
    BY <1>1, <1>2
  <1>4. /\ DOMAIN layers = 1 .. Len(stack) /\ Len(layers) = Len(stack)
        /\ \A i \in 1 .. Len(stack) : layers[i] = Apply(stack[i])
        /\ layers \in Seq(ToSet(layers))
    <2>1. /\ DOMAIN layers = 1 .. Len(stack) /\ Len(layers) = Len(stack)
          /\ \A i \in 1 .. Len(stack) : layers[i] = Apply(stack[i])
      BY <1>3 DEF Layers
    <2>2. layers = [i \in 1 .. Len(stack) |-> Apply(stack[i])]
      BY <1>3 DEF Layers
    <2>3. \A i \in 1 .. Len(stack) : Apply(stack[i]) \in ToSet(layers)
      BY <2>1 DEF ToSet
    <2> HIDE DEF layers
    <2> QED BY <1>3, <2>1, <2>2, <2>3
  <1> HIDE DEF layers
  <1>5. \A i \in 1 .. Len(layers) : ListsAre(layers[i])
    BY <1>3, <1>4, ListLayer
  <1>6. InStep(ResolveStack(layers), TraceAcc(layers))
    BY <1>3, <1>4, Lockstep
  <1>7. \A k \in DOMAIN ResolveStack(layers) :
           ResolveStack(layers)[k] = IF k \in DOMAIN TraceAcc(layers) THEN TraceAcc(layers)[k] ELSE Zero[k]
    BY Zenon, <1>6 DEF InStep
  <1>8. ASSUME NEW i \in DOMAIN layers, NEW e \in TraceEvents(layers, i), e.key \in Lists
        PROVE  /\ ToSet(e.new) = (ToSet(e.old) \ ToSet(e.removed)) \cup ToSet(e.added)
               /\ IsInjective(e.new)
    <2> DEFINE before == SubSeq(layers, 1, i - 1)
               acc == TraceAcc(before)
    <2>1. i \in 1 .. Len(layers) /\ Len(layers) \in Nat /\ i - 1 \in Nat /\ i - 1 <= Len(layers)
      BY <1>3, <1>4
    <2>2. Len(before) = i - 1 /\ \A j \in 1 .. i - 1 : before[j] = layers[j] /\ j \in 1 .. Len(layers)
      BY <1>4, <2>1
    <2> HIDE DEF before
    <2>3. ListsSoFar(acc)
      <3>1. Len(before) \in Nat /\ \A j \in 1 .. Len(before) : ListsAre(before[j])
        BY <1>5, <2>1, <2>2
      <3> QED BY <3>1, TraceLists
    <2> HIDE DEF acc
    <2>4. PICK k \in DOMAIN layers[i] : e = ApplyKey(acc, layers[i], k)
      BY Zenon DEF TraceEvents, acc, before
    <2>5. e.key = k
      BY <2>4 DEF ApplyKey
    <2> DEFINE c == layers[i]
               old == IF k \in DOMAIN acc THEN acc[k] ELSE <<>>
               list == ApplyList(old, c[k].values, c[k].override)
    <2>6. IsList(old) /\ IsList(c[k].values)
      BY <1>5, <1>8, <2>1, <2>3, <2>5, EmptyList DEF ListsSoFar, ListsAre, IsList
    <2> HIDE DEF old
    <2>7. /\ ToSet(list.new) = (ToSet(old) \ ToSet(list.removed)) \cup ToSet(list.added)
          /\ IsInjective(list.new)
      BY <2>6, ListEvent
    <2>8. e.old = old /\ e.new = list.new /\ e.added = list.added /\ e.removed = list.removed
      BY <1>8, <2>4, <2>5 DEF ApplyKey, old
    <2> QED BY Zenon, <2>7, <2>8
  <1> QED BY Zenon, <1>7, <1>8 DEF layers, stack, tree

(* What the three say of a host agrees.                                       *)
Told(tree, hits, wildcard, nameable) ==
    LET row == MaterializeIngress(tree, hits, wildcard, nameable)
        page == HandleDiscoveryDetail("live", tree, hits, wildcard, nameable)
        explain == WriteExplainReport(tree, hits, wildcard, nameable)
    IN /\ page.slug <=> row.monitor
       /\ explain = "materialized" <=> row.monitor
       /\ explain \in {"invalid", "no-match"} <=> row.status = "invalid"
       /\ nameable => explain = page.outcome
       /\ page.outcome = "ignored" <=> row.status = "ignored"
       /\ nameable => (page.outcome = "materialized" <=> row.status = "added")

LEMMA RowIs ==
    ASSUME NEW tree, NEW hits, NEW wildcard \in BOOLEAN, NEW nameable \in BOOLEAN
    PROVE  Told(tree, hits, wildcard, nameable)
  <1> DEFINE stack == WalkRules(tree, hits)
             config == ResolveStack(Layers(stack))
             status == Resolve(tree, hits, wildcard).status
             row == MaterializeIngress(tree, hits, wildcard, nameable)
             page == HandleDiscoveryDetail("live", tree, hits, wildcard, nameable)
             explain == WriteExplainReport(tree, hits, wildcard, nameable)
  <1>1. page = IF stack = <<>> THEN [outcome |-> "no-match", slug |-> FALSE]
               ELSE IF Ignored(stack) THEN [outcome |-> "ignored", slug |-> FALSE]
               ELSE IF wildcard \/ ~CheckResolved(config) THEN [outcome |-> "invalid", slug |-> FALSE]
               ELSE [outcome |-> "materialized", slug |-> nameable]
    <2>1. "live" # "off" /\ "live" # "gone"
      OBVIOUS
    <2> QED BY Zenon, <2>1 DEF HandleDiscoveryDetail, PopulateCascadeView, Layers
  <1>2. CASE stack = <<>>
    <2>1. status = "invalid"
      <3>1. Resolve(tree, hits, wildcard) = [status |-> "invalid", config |-> Zero]
        BY Zenon, <1>2 DEF Resolve, Outcome
      <3> QED BY <3>1
    <2>2. page = [outcome |-> "no-match", slug |-> FALSE]
      BY Zenon, <1>1, <1>2
    <2>3. explain = "no-match"
      BY Zenon, <1>2 DEF WriteExplainReport
    <2>4. row = [status |-> IF status = "added" /\ ~nameable THEN "invalid" ELSE status,
                 monitor |-> status = "added" /\ nameable]
      BY Zenon DEF MaterializeIngress
    <2> HIDE DEF stack, config, status, row, page, explain
    <2>5. row.status = "invalid" /\ ~row.monitor /\ page.outcome = "no-match" /\ ~page.slug
      BY <2>1, <2>2, <2>4
    <2>6. /\ page.slug <=> row.monitor
          /\ explain = "materialized" <=> row.monitor
          /\ explain \in {"invalid", "no-match"} <=> row.status = "invalid"
          /\ nameable => explain = page.outcome
          /\ page.outcome = "ignored" <=> row.status = "ignored"
          /\ nameable => (page.outcome = "materialized" <=> row.status = "added")
      BY <2>3, <2>5
    <2> QED BY Zenon, <2>6 DEF Told, row, page, explain
  <1>3. CASE stack # <<>>
    <2>1. status = Classify(Ignored(stack), wildcard, config)
      <3>1. Resolve(tree, hits, wildcard) =
               [status |-> Classify(Ignored(stack), wildcard, config), config |-> config]
        BY Zenon, <1>3 DEF Resolve, Outcome, Layers
      <3> HIDE DEF config, stack
      <3> QED BY <3>1
    <2>2. explain = IF status # "added" THEN status ELSE IF nameable THEN "materialized" ELSE "invalid"
      BY Zenon, <1>3 DEF WriteExplainReport
    <2>3. row = [status |-> IF status = "added" /\ ~nameable THEN "invalid" ELSE status,
                 monitor |-> status = "added" /\ nameable]
      BY Zenon DEF MaterializeIngress
    <2>4. \/ status = "ignored" /\ page = [outcome |-> "ignored", slug |-> FALSE]
          \/ status = "invalid" /\ page = [outcome |-> "invalid", slug |-> FALSE]
          \/ status = "added" /\ page = [outcome |-> "materialized", slug |-> nameable]
      <3> HIDE DEF stack, config, status, page
      <3> QED BY Zenon, <1>1, <1>3, <2>1 DEF Classify
    <2> HIDE DEF stack, config, status, row, page, explain
    <2>5. /\ page.slug <=> row.monitor
          /\ explain = "materialized" <=> row.monitor
          /\ explain \in {"invalid", "no-match"} <=> row.status = "invalid"
          /\ nameable => explain = page.outcome
          /\ page.outcome = "ignored" <=> row.status = "ignored"
          /\ nameable => (page.outcome = "materialized" <=> row.status = "added")
      <3>1. CASE status = "ignored" /\ page = [outcome |-> "ignored", slug |-> FALSE]
        <4>1. explain = "ignored" /\ row.status = "ignored" /\ ~row.monitor
          BY <2>2, <2>3, <3>1
        <4> QED BY <3>1, <4>1
      <3>2. CASE status = "invalid" /\ page = [outcome |-> "invalid", slug |-> FALSE]
        <4>1. explain = "invalid" /\ row.status = "invalid" /\ ~row.monitor
          BY <2>2, <2>3, <3>2
        <4> QED BY <3>2, <4>1
      <3>3. CASE status = "added" /\ nameable /\ page = [outcome |-> "materialized", slug |-> nameable]
        <4>1. explain = "materialized" /\ row.status = "added" /\ row.monitor
          BY <2>2, <2>3, <3>3
        <4> QED BY <3>3, <4>1
      <3>4. CASE status = "added" /\ ~nameable /\ page = [outcome |-> "materialized", slug |-> nameable]
        <4>1. explain = "invalid" /\ row.status = "invalid" /\ ~row.monitor
          BY <2>2, <2>3, <3>4
        <4> QED BY <3>4, <4>1
      <3> QED BY Zenon, <2>4, <3>1, <3>2, <3>3, <3>4
    <2> QED BY Zenon, <2>5 DEF Told, row, page, explain
  <1> QED BY <1>2, <1>3

\* How a host was decided is what the trace, explain and its page say it was.
THEOREM CascadeIsAlwaysExplained == RulesSpec => []CascadeIsExplained
  <1>1. TakenAsGiven => CascadeIsExplained
    <2>1. TakenAsGiven => PageTellsTheRow
      <3> SUFFICES ASSUME TakenAsGiven, Is("host"), NEW nameable \in BOOLEAN
                   PROVE  LET row == MaterializeIngress(subject.tree, subject.hits, subject.wildcard, nameable)
                              page == HandleDiscoveryDetail("live", subject.tree, subject.hits,
                                                            subject.wildcard, nameable)
                              explain == WriteExplainReport(subject.tree, subject.hits,
                                                            subject.wildcard, nameable)
                          IN /\ page.slug <=> row.monitor
                             /\ explain = "materialized" <=> row.monitor
                             /\ explain \in {"invalid", "no-match"} <=> row.status = "invalid"
                             /\ nameable => explain = page.outcome
                             /\ page.outcome = "ignored" <=> row.status = "ignored"
                             /\ nameable => (page.outcome = "materialized" <=> row.status = "added")
        BY Zenon DEF PageTellsTheRow
      <3>1. subject.wildcard \in BOOLEAN
        BY DEF TakenAsGiven
      <3>2. Told(subject.tree, subject.hits, subject.wildcard, nameable)
        BY <3>1, RowIs
      <3> QED BY Zenon, <3>2 DEF Told
    <2> QED BY <2>1, TraceFollows DEF CascadeIsExplained
  <1> QED BY <1>1, TakenInvariance, PTL

-----------------------------------------------------------------------------
(* The links of a listing. *)

(* What an address is read as.                                                *)
Readable(f) ==
    /\ DOMAIN f = {"status", "ssl", "page", "section", "sort", "desc", "archived", "tags"}
    /\ f.page = NoText => f.section = V!NoSection
    /\ f.sort \in V!SortKeys \cup {NoText}
    /\ f.archived \in {"active", "archived", "any", NoText}
    /\ NoText \notin f.tags
    /\ f.desc \in BOOLEAN

(* Two filters that keep the same rows.                                       *)
Alike(f, g) ==
    /\ f.status = g.status /\ f.ssl = g.ssl /\ f.page = g.page /\ f.section = g.section
    /\ f.tags = g.tags
    /\ f.archived = "archived" <=> g.archived = "archived"
    /\ f.archived = "any" <=> g.archived = "any"

LEMMA ReadsIs == \A q : Readable(Reads(q))
  <1> SUFFICES ASSUME NEW q PROVE Readable(Reads(q))
    OBVIOUS
  <1>1. /\ DOMAIN Reads(q) = {"status", "ssl", "page", "section", "sort", "desc", "archived", "tags"}
        /\ Reads(q).desc = (V!Param(q, "dir") = "desc")
        /\ Reads(q).sort = IF V!Param(q, "sort") \in V!SortKeys THEN q.sort ELSE NoText
    BY NoTexts DEF Reads, V!MonitorsFilter
  <1>2. Reads(q).sort \in V!SortKeys \cup {NoText}
    <2>1. V!Param(q, "sort") \in V!SortKeys => V!Param(q, "sort") = q.sort
      <3>1. NoText \notin V!SortKeys
        BY Zenon DEF NoText, V!SortKeys
      <3> QED BY <3>1, NoTexts DEF V!Param
    <2> QED BY <1>1, <2>1
  <1>3. Reads(q).archived \in {"active", "archived", "any", NoText}
    <2>1. V!Param(q, "archived") \in {"active", "archived", "any"} => V!Param(q, "archived") = q.archived
      BY NoTexts, Words3 DEF V!Param
    <2> QED BY <2>1, FilterIs DEF Reads
  <1>4. Reads(q).page = NoText => Reads(q).section = V!NoSection
    BY FilterIs DEF Reads
  <1>5. NoText \notin Reads(q).tags
    BY FilterIs DEF Reads
  <1>6. Reads(q).desc \in BOOLEAN
    BY Zenon, <1>1
  <1> QED BY Zenon, <1>1, <1>2, <1>3, <1>4, <1>5, <1>6 DEF Readable

LEMMA AlikeListings ==
    ASSUME NEW q, NEW r, Alike(Reads(q), Reads(r))
    PROVE  Listing(q) = Listing(r)
  <1> DEFINE f == Reads(q)
             g == Reads(r)
  <1>1. \A rows, slugs : V!ListMonitors(rows, f, slugs) = V!ListMonitors(rows, g, slugs)
    <2> HIDE DEF f, g
    <2> QED BY Zenon DEF V!ListMonitors, Alike, f, g
  <1>2. f.page = g.page /\ f.section = g.section
    BY DEF Alike
  <1> HIDE DEF f, g
  <1>3. V!HandleMonitorsListing(StatusPages, subject.rows, q) = V!HandleMonitorsListing(StatusPages, subject.rows, r)
    BY Zenon, <1>1, <1>2 DEF V!HandleMonitorsListing, f, g, Reads
  <1> QED BY <1>3 DEF Listing

\* What the address of a filter carries.
LEMMA LinkIs ==
    ASSUME NEW f, Readable(f), NEW q, q = V!ParamsFromFilter(f)
    PROVE  /\ V!Param(q, "status") = f.status /\ V!Param(q, "ssl") = f.ssl
           /\ V!Param(q, "status_page") = f.page /\ V!Param(q, "sort") = f.sort
           /\ V!Param(q, "dir") = IF f.sort # NoText /\ f.desc THEN "desc" ELSE NoText
           /\ V!Param(q, "archived") = IF f.archived \notin {NoText, "active"} THEN f.archived ELSE NoText
           /\ "section" \in DOMAIN q <=> f.page # NoText /\ f.section # V!NoSection
           /\ "section" \in DOMAIN q => q.section = f.section
           /\ "tag" \in DOMAIN q <=> f.tags # {}
           /\ "tag" \in DOMAIN q => q.tag = f.tags
  <1> DEFINE value == [status |-> f.status, ssl |-> f.ssl, status_page |-> f.page,
                       section |-> f.section, sort |-> f.sort, dir |-> "desc",
                       archived |-> f.archived, tag |-> f.tags]
             texts == {k \in {"status", "ssl", "status_page", "sort"} : value[k] # NoText}
             section == IF f.page # NoText /\ f.section # V!NoSection THEN {"section"} ELSE {}
             dir == IF f.sort # NoText /\ f.desc THEN {"dir"} ELSE {}
             archived == IF f.archived \notin {NoText, "active"} THEN {"archived"} ELSE {}
             tag == IF f.tags # {} THEN {"tag"} ELSE {}
             given == texts \cup section \cup dir \cup archived \cup tag
  <1>1. q = [k \in given |-> value[k]]
    BY NoTexts DEF V!ParamsFromFilter
  <1>2. /\ value["status"] = f.status /\ value["ssl"] = f.ssl /\ value["status_page"] = f.page
        /\ value["section"] = f.section /\ value["sort"] = f.sort /\ value["dir"] = "desc"
        /\ value["archived"] = f.archived /\ value["tag"] = f.tags
    OBVIOUS
  <1>3. /\ "status" \in given <=> f.status # NoText
        /\ "ssl" \in given <=> f.ssl # NoText
        /\ "status_page" \in given <=> f.page # NoText
        /\ "sort" \in given <=> f.sort # NoText
        /\ "dir" \in given <=> f.sort # NoText /\ f.desc
        /\ "archived" \in given <=> f.archived \notin {NoText, "active"}
        /\ "section" \in given <=> f.page # NoText /\ f.section # V!NoSection
        /\ "tag" \in given <=> f.tags # {}
    <2> HIDE DEF value
    <2> QED BY <1>2
  <1> HIDE DEF value, given
  <1>4. DOMAIN q = given /\ \A k \in given : q[k] = value[k]
    BY <1>1
  <1> QED BY <1>2, <1>3, <1>4, NoTexts DEF V!Param

\* The address of a filter is read as that filter, but for what hides nothing.
LEMMA LinkReads ==
    ASSUME NEW f, Readable(f)
    PROVE  LET g == Reads(V!ParamsFromFilter(f))
           IN Alike(g, f) /\ g.sort = f.sort /\ (f.sort # NoText => g.desc = f.desc)
  <1> DEFINE q == V!ParamsFromFilter(f)
             g == Reads(q)
  <1> HIDE DEF q
  <1>0. q = V!ParamsFromFilter(f)
    BY DEF q
  <1>1. /\ g.status = V!Param(q, "status") /\ g.ssl = V!Param(q, "ssl")
        /\ g.page = V!Param(q, "status_page")
        /\ g.section = IF V!Param(q, "status_page") # NoText /\ "section" \in DOMAIN q
                       THEN q.section ELSE V!NoSection
        /\ g.archived = IF V!Param(q, "archived") \in {"active", "archived", "any"}
                        THEN q.archived ELSE NoText
        /\ g.tags = IF "tag" \in DOMAIN q THEN q.tag \ {NoText} ELSE {}
    BY FilterIs DEF Reads
  <1>2. /\ g.desc = (V!Param(q, "dir") = "desc")
        /\ g.sort = IF V!Param(q, "sort") \in V!SortKeys THEN q.sort ELSE NoText
    BY NoTexts DEF Reads, V!MonitorsFilter
  <1> HIDE DEF g
  <1>3. /\ V!Param(q, "status") = f.status /\ V!Param(q, "ssl") = f.ssl
        /\ V!Param(q, "status_page") = f.page /\ V!Param(q, "sort") = f.sort
        /\ V!Param(q, "dir") = IF f.sort # NoText /\ f.desc THEN "desc" ELSE NoText
        /\ V!Param(q, "archived") = IF f.archived \notin {NoText, "active"} THEN f.archived ELSE NoText
        /\ "section" \in DOMAIN q <=> f.page # NoText /\ f.section # V!NoSection
        /\ "section" \in DOMAIN q => q.section = f.section
        /\ "tag" \in DOMAIN q <=> f.tags # {}
        /\ "tag" \in DOMAIN q => q.tag = f.tags
    BY <1>0, LinkIs
  <1>4. g.status = f.status /\ g.ssl = f.ssl /\ g.page = f.page
    BY <1>1, <1>3
  <1>5. g.section = f.section
    BY <1>1, <1>3 DEF Readable
  <1>6. g.tags = f.tags
    BY <1>1, <1>3 DEF Readable
  <1>7. g.sort = f.sort
    <2>1. f.sort \in V!SortKeys \cup {NoText}
      BY DEF Readable
    <2>2. NoText \notin V!SortKeys
      BY Zenon DEF NoText, V!SortKeys
    <2>3. V!Param(q, "sort") # NoText => V!Param(q, "sort") = q.sort
      BY NoTexts DEF V!Param
    <2> QED BY <1>2, <1>3, <2>1, <2>2, <2>3
  <1>8. f.sort # NoText => g.desc = f.desc
    <2>1. "desc" # NoText
      BY Zenon DEF NoText
    <2> QED BY <1>2, <1>3, <2>1 DEF Readable
  <1>9. (f.archived = "archived" <=> g.archived = "archived") /\ (f.archived = "any" <=> g.archived = "any")
    <2>1. f.archived \in {"active", "archived", "any", NoText}
      BY DEF Readable
    <2>2. V!Param(q, "archived") # NoText => V!Param(q, "archived") = q.archived
      BY NoTexts DEF V!Param
    <2> QED BY <1>1, <1>3, <2>1, <2>2, Words3
  <1>10. Alike(g, f)
    BY Zenon, <1>4, <1>5, <1>6, <1>9 DEF Alike
  <1> QED BY Zenon, <1>7, <1>8, <1>10 DEF g, q

LEMMA LinksFollow == Is("table") => LinksKeepTheListing
  <1> SUFFICES ASSUME Is("table") PROVE LinksKeepTheListing
    OBVIOUS
  <1> DEFINE q == subject.query
             f == Reads(q)
             again == V!ParamsFromFilter(f)
             Turn2(key) == [f EXCEPT !.sort = key, !.desc = (f.sort = key /\ ~f.desc)]
  <1>1. Readable(f)
    BY ReadsIs
  <1>2. Alike(Reads(again), f) /\ Reads(again).sort = f.sort /\ (f.sort # NoText => Reads(again).desc = f.desc)
    <2> HIDE DEF f
    <2> QED BY Zenon, <1>1, LinkReads
  <1>3. Listing(again) = Listing(q)
    <2> HIDE DEF again
    <2> QED BY Zenon, <1>2, AlikeListings
  <1>4. ASSUME NEW key \in V!SortKeys
        PROVE  Listing(V!SortHref(key, f)) = Listing(q) /\ Reads(V!SortHref(key, f)).sort = key
    <2> DEFINE g == Turn2(key)
    <2>1. V!SortHref(key, f) = V!ParamsFromFilter(g)
      BY Zenon DEF V!SortHref
    <2> HIDE DEF f
    <2>2. /\ DOMAIN g = DOMAIN f /\ g.sort = key /\ g.desc = (f.sort = key /\ ~f.desc)
          /\ g.status = f.status /\ g.ssl = f.ssl /\ g.page = f.page /\ g.section = f.section
          /\ g.archived = f.archived /\ g.tags = f.tags
      BY <1>1 DEF Readable
    <2> HIDE DEF g
    <2>3. Readable(g) /\ Alike(g, f)
      BY <1>1, <2>2 DEF Readable, Alike
    <2>4. Alike(Reads(V!ParamsFromFilter(g)), g) /\ Reads(V!ParamsFromFilter(g)).sort = g.sort
      BY Zenon, <2>3, LinkReads
    <2>5. Alike(Reads(V!ParamsFromFilter(g)), f)
      BY Zenon, <2>3, <2>4 DEF Alike
    <2>6. Listing(V!ParamsFromFilter(g)) = Listing(q)
      BY Zenon, <2>5, AlikeListings DEF f
    <2> QED BY Zenon, <2>1, <2>2, <2>4, <2>6
  <1>5. ASSUME ~V!FilterIsActive(f) PROVE Listing(q) = V!ListActiveMonitors(subject.rows)
    <2>1. /\ f.status = NoText /\ f.ssl = NoText /\ f.page = NoText /\ f.tags = {}
          /\ f.archived \in {NoText, "active"}
      <3> HIDE DEF f
      <3> QED BY <1>5, NoTexts DEF V!FilterIsActive
    <2>2. Listing(q) = V!ListMonitors(subject.rows, f, {})
      BY Zenon, <2>1, NoTexts DEF Listing, V!HandleMonitorsListing, Reads
    <2> HIDE DEF f
    <2> QED BY <2>1, <2>2, NoTexts, Words3 DEF V!ListMonitors, V!ListActiveMonitors
  <1> HIDE DEF f, again, q
  <1> QED BY Zenon, <1>2, <1>3, <1>4, <1>5 DEF LinksKeepTheListing, f, again, q

LEMMA TagsFollow == Is("table") => TagsOffered
  <1> SUFFICES ASSUME Is("table") PROVE TagsOffered
    OBVIOUS
  <1>1. ASSUME NEW q, NEW r \in Listing(q)
        PROVE  r \in subject.rows /\ Reads(q).tags \subseteq r.tags
    <2>1. ASSUME NEW f, NEW slugs, r \in V!ListMonitors(subject.rows, f, slugs)
          PROVE  r \in subject.rows /\ f.tags \subseteq r.tags
      BY <2>1 DEF V!ListMonitors
    <2>2. \E slugs : r \in V!ListMonitors(subject.rows, Reads(q), slugs)
      BY Zenon, <1>1 DEF Listing, V!HandleMonitorsListing, Reads
    <2> QED BY Zenon, <2>1, <2>2
  <1>2. ASSUME NEW t \in V!DistinctTags(subject.rows)
        PROVE  Listing([tag |-> {t}, archived |-> "any"]) # {}
    <2> DEFINE q == [tag |-> {t}, archived |-> "any"]
               f == Reads(q)
    <2>1. PICK r \in subject.rows : t \in r.tags
      BY DEF V!DistinctTags
    <2>2. /\ V!Param(q, "status") = NoText /\ V!Param(q, "ssl") = NoText
          /\ V!Param(q, "status_page") = NoText /\ V!Param(q, "archived") = "any"
          /\ q.archived = "any" /\ q.tag = {t} /\ "tag" \in DOMAIN q
      BY NoTexts DEF V!Param
    <2> HIDE DEF q
    <2>3. /\ f.status = NoText /\ f.ssl = NoText /\ f.page = NoText /\ f.archived = "any"
          /\ f.tags = {t} \ {NoText}
      BY <2>2, FilterIs DEF Reads
    <2>4. Listing(q) = V!ListMonitors(subject.rows, f, {})
      BY Zenon, <2>3, NoTexts DEF Listing, V!HandleMonitorsListing, Reads
    <2> HIDE DEF f
    <2>5. r \in V!ListMonitors(subject.rows, f, {})
      BY <2>1, <2>3, NoTexts, Words3 DEF V!ListMonitors
    <2> QED BY <2>4, <2>5 DEF q
  <1>3. Listing(subject.query) # {} => Reads(subject.query).tags \subseteq V!DistinctTags(subject.rows)
    BY <1>1 DEF V!DistinctTags
  <1> QED BY Zenon, <1>2, <1>3 DEF TagsOffered

-----------------------------------------------------------------------------
(* Leafing through a listing. *)

LEMMA Times ==
    ASSUME NEW j \in Nat, NEW per \in Nat \ {0}
    PROVE  /\ j * per \in Nat /\ (j + 1) * per = j * per + per
           /\ j <= j * per
  <1>1. j * per \in Nat /\ (j + 1) * per = j * per + per
    OBVIOUS
  <1>2. j <= j * per
    <2>1. j * (per - 1) \in Nat
      OBVIOUS
    <2>2. j * per = j * (per - 1) + j
      OBVIOUS
    <2> QED BY <2>1, <2>2, <1>1
  <1> QED BY <1>1, <1>2

(* h has what has been read after every page. *)
Reading(h, listing, start, most) ==
    h = [n \in 0 .. most |-> IF n = 0 THEN start ELSE ReadMore(listing, h[n - 1])]

\* There is something a reader has after each page.
LEMMA ReadTurns ==
    ASSUME NEW listing, listing \in {"monitors", "log", "incidents"}, NEW start, NEW most \in Nat
    PROVE  \E h : Reading(h, listing, start, most)
  <1> DEFINE s == [n \in 1 .. most |-> 0]
  <1>1. Len(s) = most
    OBVIOUS
  <1> HIDE DEF s
  <1>2. PICK h : Turned(h, listing, {}, start, s)
    BY <1>1, Turns
  <1>3. h = [n \in 0 .. most |-> IF n = 0 THEN start ELSE ReadMore(listing, h[n - 1])]
    <2>1. \A a, x : Turn(listing, {}, a, x) = ReadMore(listing, a)
      BY DEF Turn
    <2> QED BY <1>1, <1>2, <2>1 DEF Turned
  <1> QED BY <1>3 DEF Reading

LEMMA SliceIs ==
    ASSUME NEW s, Len(s) \in Nat, NEW limit \in Nat, NEW offset \in Nat
    PROVE  V!Slice(s, limit, offset) =
             SubSeq(s, offset + 1, IF offset + limit < Len(s) THEN offset + limit ELSE Len(s))
  BY DEF V!Slice

(* Address number k gives page k of the rows, and links to number k + 1 as    *)
(* long as rows remain; so for as many pages as anybody reads.                *)
Leads(listing, s, per, p, address) ==
    \A k \in Nat : k >= p /\ k <= p + Len(s) =>
       /\ PageAt(listing, address[k]).items = V!Slice(s, per, (k - 1) * per)
       /\ PageAt(listing, address[k]).pager.next
            = IF k * per < Len(s) THEN {address[k + 1]} ELSE {}

(* h has what has been read after every page, from an address on.             *)
ReadFrom(h, listing, q, most) ==
    /\ h[0] = [items |-> <<>>, next |-> {q}]
    /\ \A n \in 1 .. most : h[n] = ReadMore(listing, h[n - 1])

(* All rows from page p on have been read, and no page is left.               *)
ReadUp(h, s, per, p) ==
    h[Len(s) + 1] = [items |-> SubSeq(s, (p - 1) * per + 1, Len(s)), next |-> {}]

\* A listing whose addresses lead through it is read whole from any page on.
LEMMA ReadWhole ==
    ASSUME NEW listing \in {"monitors", "log", "incidents"},
           NEW s, IsList(s), NEW per \in Nat \ {0}, NEW p \in Nat \ {0}, NEW address,
           Leads(listing, s, per, p, address),
           NEW h, ReadFrom(h, listing, address[p], Len(s) + 1)
    PROVE  ReadUp(h, s, per, p)
  <1> DEFINE N == Len(s)
             lo == (p - 1) * per
             Done(j) == h[j] = [items |-> SubSeq(s, lo + 1, N), next |-> {}]
             Going(j) == /\ j = 0 \/ lo + j * per < N
                         /\ h[j] = [items |-> SubSeq(s, lo + 1, lo + j * per), next |-> {address[p + j]}]
             Base == {j \in 0 .. N + 1 : Done(j) \/ Going(j)}
  <1>0. N \in Nat /\ lo \in Nat
    BY LenProperties, Times DEF IsList
  <1> HIDE DEF lo, N
  <1>1. 0 \in Base
    <2>1. 0 * per = 0
      OBVIOUS
    <2>2. SubSeq(s, lo + 1, lo + 0) = <<>>
      BY <1>0, SubSeqEmpty
    <2>5. h[0] = [items |-> <<>>, next |-> {address[p]}]
      BY DEF ReadFrom
    <2>3. p + 0 = p /\ 0 \in 0 .. N + 1
      BY <1>0
    <2>4. Going(0)
      BY <2>1, <2>2, <2>3, <2>5
    <2> HIDE DEF Going, Done
    <2> QED BY <2>3, <2>4
  <1>2. ASSUME NEW n \in 1 .. N + 1, n - 1 \in Base PROVE n \in Base
    <2> DEFINE j == n - 1
               k == p + j
               page == PageAt(listing, address[k])
    <2>0. j \in Nat /\ k \in Nat /\ k >= p /\ k <= p + N /\ j + 1 = n /\ k + 1 = p + n
      BY <1>0
    <2>1. h[n] = ReadMore(listing, h[j])
      BY <1>2 DEF N, ReadFrom
    <2>2. CASE Done(j)
      <3>1. ReadMore(listing, h[j]) = h[j]
        BY <2>2 DEF ReadMore
      <3> QED BY <2>1, <2>2, <3>1
    <2>3. CASE Going(j)
      <3> DEFINE at == lo + j * per
      <3>1. (k - 1) * per = at /\ k * per = at + per /\ n * per = j * per + per /\ at \in Nat
        <4>1. (k - 1) * per = (p - 1) * per + j * per
          BY <2>0
        <4>2. k * per = (k - 1) * per + per
          BY <2>0
        <4>3. n * per = j * per + per
          BY <2>0
        <4>4. j * per \in Nat
          BY <2>0
        <4> QED BY <1>0, <4>1, <4>2, <4>3, <4>4 DEF lo
      <3>2. /\ page.items = V!Slice(s, per, at)
            /\ page.pager.next = IF at + per < N THEN {address[p + n]} ELSE {}
        BY <2>0, <3>1 DEF N, Leads
      <3>3. V!Slice(s, per, at) = SubSeq(s, at + 1, IF at + per < N THEN at + per ELSE N)
        BY <3>1, <1>0, SliceIs DEF N
      <3>4. h[j].next = {address[k]} /\ h[j].items = SubSeq(s, lo + 1, at)
        <4> DEFINE read == SubSeq(s, lo + 1, at)
                   rest == {address[k]}
        <4>1. h[j] = [items |-> read, next |-> rest]
          BY Zenon, <2>3
        <4> HIDE DEF read, rest, j
        <4>2. h[j].items = read /\ h[j].next = rest
          BY <4>1
        <4> QED BY Zenon, <4>2 DEF read, rest
      <3>5. ReadMore(listing, h[j]) = [items |-> h[j].items \o page.items, next |-> page.pager.next]
        <4>1. (CHOOSE a \in h[j].next : TRUE) = address[k] /\ h[j].next # {}
          BY <3>4
        <4> QED BY Zenon, <4>1 DEF ReadMore
      <3> HIDE DEF page, at, k
      <3>6. CASE at + per < N
        <4>1. at < N /\ lo <= at
          BY <1>0, <2>0, <3>1, <3>6 DEF at
        <4>2. SubSeq(s, lo + 1, at) \o SubSeq(s, at + 1, at + per) = SubSeq(s, lo + 1, at + per)
          <5>1. lo + 1 \in 1 .. N + 1 /\ at \in (lo + 1) - 1 .. N /\ at + per \in at .. N
            BY <1>0, <3>1, <3>6, <4>1
          <5> QED BY <5>1, ConcatAdjacentSubSeq DEF IsList, N
        <4>3. lo + n * per = at + per
          BY <1>0, <2>0, <3>1 DEF at
        <4>4. Going(n)
          BY <2>1, <3>2, <3>3, <3>4, <3>5, <3>6, <4>2, <4>3
        <4> QED BY <4>4, <1>2
      <3>7. CASE ~(at + per < N)
        <4>1. h[n] = [items |-> SubSeq(s, lo + 1, at) \o SubSeq(s, at + 1, N), next |-> {}]
          BY <2>1, <3>2, <3>3, <3>4, <3>5, <3>7
        <4>2. CASE at <= N
          <5>1. lo + 1 \in 1 .. N + 1 /\ at \in (lo + 1) - 1 .. N /\ N \in at .. N
            BY <1>0, <2>0, <3>1, <4>2 DEF at
          <5>2. SubSeq(s, lo + 1, at) \o SubSeq(s, at + 1, N) = SubSeq(s, lo + 1, N)
            BY <5>1, ConcatAdjacentSubSeq DEF IsList, N
          <5>3. Done(n)
            BY Zenon, <4>1, <5>2
          <5> HIDE DEF Done, Going
          <5> QED BY <5>3, <1>0
        <4>3. CASE at > N
          <5>1. at = lo
            <6>1. j = 0
              BY <2>3, <4>3, <1>0, <3>1 DEF at
            <6>2. 0 * per = 0
              OBVIOUS
            <6> QED BY <6>1, <6>2, <1>0 DEF at
          <5>2. /\ SubSeq(s, lo + 1, at) = <<>> /\ SubSeq(s, at + 1, N) = <<>>
                /\ SubSeq(s, lo + 1, N) = <<>>
            BY <5>1, <4>3, <1>0, SubSeqEmpty
          <5>3. <<>> \o <<>> = <<>>
            OBVIOUS
          <5>4. Done(n)
            BY Zenon, <4>1, <5>2, <5>3
          <5> HIDE DEF Done, Going
          <5> QED BY <5>4, <1>0
        <4> QED BY <4>2, <4>3, <1>0, <3>1
      <3> QED BY <3>6, <3>7
    <2> QED BY <1>2, <2>2, <2>3
  <1>3. \A n \in 0 .. N + 1 : n \in Base
    <2> HIDE DEF Base
    <2>1. N + 1 \in Nat
      BY <1>0
    <2> QED BY <1>1, <1>2, <2>1, InductTo
  <1>4. N + 1 \in Base
    <2>1. N + 1 \in 0 .. N + 1
      BY <1>0
    <2> HIDE DEF Base
    <2> QED BY <1>3, <2>1
  <1>5. ~ Going(N + 1)
    <2>1. N + 1 <= (N + 1) * per /\ (N + 1) * per \in Nat
      BY <1>0, Times
    <2> QED BY <2>1, <1>0
  <1> QED BY <1>4, <1>5 DEF N, lo, ReadUp

LEMMA MonitorsRead ==
    ASSUME NEW q, NEW most \in Nat
    PROVE  \E h : ReadFrom(h, "monitors", q, most) /\ ReadOn(MonitorsAt, q, most) = h[most]
  <1> DEFINE start == [items |-> <<>>, next |-> {q}]
             More(b) == IF b.next = {} THEN b
                        ELSE [items |-> b.items \o MonitorsAt(CHOOSE address \in b.next : TRUE).items,
                              next |-> MonitorsAt(CHOOSE address \in b.next : TRUE).pager.next]
             Read(f) == f = [n \in 0 .. most |-> IF n = 0 THEN start ELSE More(f[n - 1])]
  <1>1. \A b : ReadMore("monitors", b) = More(b)
    BY DEF ReadMore, PageAt
  <1>2. PICK h : Reading(h, "monitors", start, most)
    <2> HIDE DEF start
    <2> QED BY ReadTurns
  <1>3. Read(h)
    <2> HIDE DEF More, start
    <2> QED BY <1>1, <1>2 DEF Reading
  <1>4. \E f : Read(f) /\ ReadOn(MonitorsAt, q, most) = f[most]
    BY Zenon, <1>3 DEF ReadOn
  <1>5. PICK f : Read(f) /\ ReadOn(MonitorsAt, q, most) = f[most]
    BY <1>4
  <1>6. f[0] = start /\ \A n \in 1 .. most : f[n] = More(f[n - 1])
    <2> HIDE DEF More, start
    <2> QED BY <1>5
  <1> HIDE DEF More
  <1> QED BY Zenon, <1>1, <1>5, <1>6 DEF ReadFrom

LEMMA LogRead ==
    ASSUME NEW q, NEW most \in Nat
    PROVE  \E h : ReadFrom(h, "log", q, most) /\ ReadOn(LogAt, q, most) = h[most]
  <1> DEFINE start == [items |-> <<>>, next |-> {q}]
             More(b) == IF b.next = {} THEN b
                        ELSE [items |-> b.items \o LogAt(CHOOSE address \in b.next : TRUE).items,
                              next |-> LogAt(CHOOSE address \in b.next : TRUE).pager.next]
             Read(f) == f = [n \in 0 .. most |-> IF n = 0 THEN start ELSE More(f[n - 1])]
  <1>1. \A b : ReadMore("log", b) = More(b)
    BY DEF ReadMore, PageAt
  <1>2. PICK h : Reading(h, "log", start, most)
    <2> HIDE DEF start
    <2> QED BY ReadTurns
  <1>3. Read(h)
    <2> HIDE DEF More, start
    <2> QED BY <1>1, <1>2 DEF Reading
  <1>4. \E f : Read(f) /\ ReadOn(LogAt, q, most) = f[most]
    BY Zenon, <1>3 DEF ReadOn
  <1>5. PICK f : Read(f) /\ ReadOn(LogAt, q, most) = f[most]
    BY <1>4
  <1>6. f[0] = start /\ \A n \in 1 .. most : f[n] = More(f[n - 1])
    <2> HIDE DEF More, start
    <2> QED BY <1>5
  <1> HIDE DEF More
  <1> QED BY Zenon, <1>1, <1>5, <1>6 DEF ReadFrom

LEMMA IncidentsRead ==
    ASSUME NEW q, NEW most \in Nat
    PROVE  \E h : ReadFrom(h, "incidents", q, most) /\ ReadOn(IncidentsAt, q, most) = h[most]
  <1> DEFINE start == [items |-> <<>>, next |-> {q}]
             More(b) == IF b.next = {} THEN b
                        ELSE [items |-> b.items \o IncidentsAt(CHOOSE address \in b.next : TRUE).items,
                              next |-> IncidentsAt(CHOOSE address \in b.next : TRUE).pager.next]
             Read(f) == f = [n \in 0 .. most |-> IF n = 0 THEN start ELSE More(f[n - 1])]
  <1>1. \A b : ReadMore("incidents", b) = More(b)
    BY DEF ReadMore, PageAt
  <1>2. PICK h : Reading(h, "incidents", start, most)
    <2> HIDE DEF start
    <2> QED BY ReadTurns
  <1>3. Read(h)
    <2> HIDE DEF More, start
    <2> QED BY <1>1, <1>2 DEF Reading
  <1>4. \E f : Read(f) /\ ReadOn(IncidentsAt, q, most) = f[most]
    BY Zenon, <1>3 DEF ReadOn
  <1>5. PICK f : Read(f) /\ ReadOn(IncidentsAt, q, most) = f[most]
    BY <1>4
  <1>6. f[0] = start /\ \A n \in 1 .. most : f[n] = More(f[n - 1])
    <2> HIDE DEF More, start
    <2> QED BY <1>5
  <1> HIDE DEF More
  <1> QED BY Zenon, <1>1, <1>5, <1>6 DEF ReadFrom

(* The addresses of the pages of a listing that carry nothing else.           *)
Numbered == [k \in Nat |-> IF k = 1 THEN V!NoQuery ELSE [x \in {"page"} |-> k]]

LEMMA NumberedIs ==
    ASSUME NEW k \in Nat \ {0}
    PROVE  /\ DOMAIN Numbered[k] \subseteq {"page"}
           /\ (IF "page" \in DOMAIN Numbered[k] THEN Numbered[k].page ELSE 0) = IF k = 1 THEN 0 ELSE k
           /\ \A params : DOMAIN params = {} => V!PaginatorLink(params, k + 1) = Numbered[k + 1]
  <1>1. k = 1 => DOMAIN Numbered[k] = {}
    BY DEF Numbered, V!NoQuery
  <1>2. k # 1 => DOMAIN Numbered[k] = {"page"} /\ Numbered[k].page = k
    BY DEF Numbered
  <1>3. Numbered[k + 1] = [x \in {"page"} |-> k + 1]
    BY DEF Numbered
  <1>4. ASSUME NEW params, DOMAIN params = {} PROVE V!PaginatorLink(params, k + 1) = Numbered[k + 1]
    <2>1. V!PaginatorLink(params, k + 1) = [x \in {"page"} |-> k + 1]
      BY <1>4 DEF V!PaginatorLink
    <2> QED BY <1>3, <2>1
  <1> QED BY <1>1, <1>2, <1>4

\* A link that carries a page number and nothing else is to a listing without a filter.
LEMMA PlainLink ==
    ASSUME NEW q, DOMAIN q \subseteq {"page"}
    PROVE  DOMAIN V!ParamsFromFilter(Reads(q)) = {}
  <1> DEFINE f == Reads(q)
  <1>1. /\ V!Param(q, "status") = NoText /\ V!Param(q, "ssl") = NoText
        /\ V!Param(q, "status_page") = NoText /\ V!Param(q, "sort") = NoText
        /\ V!Param(q, "archived") = NoText
    BY NoTexts DEF V!Param
  <1>2. /\ f.status = NoText /\ f.ssl = NoText /\ f.page = NoText /\ f.archived = NoText
        /\ f.tags = {}
    BY <1>1, FilterIs, Words3 DEF Reads
  <1>3. f.sort = NoText
    <2>1. f.sort = IF V!Param(q, "sort") \in V!SortKeys THEN q.sort ELSE NoText
      BY NoTexts DEF Reads, V!MonitorsFilter
    <2>2. NoText \notin V!SortKeys
      BY Zenon DEF NoText, V!SortKeys
    <2> QED BY <1>1, <2>1, <2>2
  <1> HIDE DEF f
  <1>4. \A v : {k \in {"status", "ssl", "status_page", "sort"} :
                  [status |-> f.status, ssl |-> f.ssl, status_page |-> f.page,
                   section |-> f.section, sort |-> f.sort, dir |-> "desc",
                   archived |-> f.archived, tag |-> f.tags][k] # NoText} = {}
    BY <1>2, <1>3
  <1>5. DOMAIN V!ParamsFromFilter(f) = {}
    BY <1>2, <1>3, <1>4, NoTexts DEF V!ParamsFromFilter
  <1> QED BY <1>5 DEF f

\* What the lengths of pages are.
LEMMA Limits ==
    /\ MaxPer \in Nat /\ AMPerPage \in Nat \ {0} /\ MaxPerPage \in Int
    /\ AMListMaxLimit \in Nat \ {0} /\ NoText \notin DOMAIN Clock
  BY ListingAssumption

\* The page an address without a length is read as.
LEMMA PageIs ==
    ASSUME NEW k \in Nat \ {0}, NEW per \in Nat \ {0}, per <= MaxPer
    PROVE  V!Pagination(IF "page" \in DOMAIN Numbered[k] THEN Numbered[k].page ELSE 0, 0, per, MaxPer)
             = [page |-> k, per |-> per]
  <1>1. V!Pagination(IF k = 1 THEN 0 ELSE k, 0, per, MaxPer) = [page |-> k, per |-> per]
    BY Limits DEF V!Pagination
  <1>2. (IF "page" \in DOMAIN Numbered[k] THEN Numbered[k].page ELSE 0) = IF k = 1 THEN 0 ELSE k
    BY NumberedIs
  <1> QED BY Zenon, <1>1, <1>2

LEMMA NextIs ==
    ASSUME NEW params, DOMAIN params = {}, NEW k \in Nat \ {0}, NEW per, NEW total
    PROVE  V!Paginator(params, [page |-> k, per |-> per], total).next
             = IF k * per < total THEN {Numbered[k + 1]} ELSE {}
  <1>1. V!PaginatorLink(params, k + 1) = Numbered[k + 1]
    BY NumberedIs
  <1> QED BY <1>1 DEF V!Paginator

LEMMA RowsIs ==
    ASSUME NEW n \in Nat
    PROVE  IsList(Rows(n)) /\ Len(Rows(n)) = n
  <1>1. Rows(n) \in Seq(Int) /\ Len(Rows(n)) = n
    BY DEF Rows
  <1> QED BY <1>1, ListOf

(* The page row i is on.                                                      *)
PageOf(i, per) == CHOOSE k \in Nat \ {0} : (k - 1) * per < i /\ i <= k * per

LEMMA TimesMore ==
    ASSUME NEW j \in Nat, NEW k \in Nat, j <= k, NEW per \in Nat
    PROVE  j * per <= k * per
  <1>1. PICK c \in Nat : k = j + c
    <2>1. k - j \in Nat /\ k = j + (k - j)
      OBVIOUS
    <2> QED BY <2>1
  <1>2. k * per = j * per + c * per /\ c * per \in Nat /\ j * per \in Nat
    BY <1>1
  <1> QED BY <1>2

\* A row is on one page and no other.
LEMMA OnPage ==
    ASSUME NEW per \in Nat \ {0}, NEW i \in Nat \ {0}
    PROVE  /\ PageOf(i, per) \in 1 .. i
           /\ \A k \in Nat \ {0} : (k - 1) * per < i /\ i <= k * per => PageOf(i, per) = k
  <1> DEFINE On(k) == (k - 1) * per < i /\ i <= k * per
             T == {k \in Nat : i <= k * per}
  <1>1. i \in T
    BY Times
  <1>2. PICK k \in T : \A m \in T : k <= m
    <2>1. T \in SUBSET Nat /\ T # {}
      BY <1>1
    <2> HIDE DEF T
    <2> QED BY <2>1, NatLeast
  <1>3. k \in 1 .. i
    <2>1. k <= i
      BY <1>1, <1>2
    <2>2. k # 0
      <3>1. 0 * per = 0
        OBVIOUS
      <3> QED BY <1>2, <3>1
    <2> QED BY <1>2, <2>1, <2>2
  <1>4. On(k)
    <2>1. k - 1 \in Nat /\ k - 1 \notin T
      BY <1>2, <1>3
    <2>2. (k - 1) * per \in Nat
      BY <2>1, Times
    <2> QED BY <1>2, <2>1, <2>2
  <1>5. ASSUME NEW m \in Nat \ {0}, On(m) PROVE m = k
    <2>1. k <= m
      BY <1>2, <1>5
    <2>2. CASE k <= m - 1
      <3>1. k * per <= (m - 1) * per /\ k * per \in Nat /\ (m - 1) * per \in Nat
        <4>1. m - 1 \in Nat /\ k \in Nat
          BY <1>3
        <4> QED BY <2>2, <4>1, TimesMore, Times
      <3> QED BY <1>4, <1>5, <3>1
    <2> QED BY <1>3, <2>1, <2>2
  <1> HIDE DEF On
  <1>6. k \in Nat \ {0}
    BY <1>3
  <1>7. PageOf(i, per) = CHOOSE m \in Nat \ {0} : On(m)
    BY DEF PageOf, On
  <1>8. PageOf(i, per) = k
    BY <1>4, <1>5, <1>6, <1>7
  <1>9. \A m \in Nat \ {0} : On(m) => PageOf(i, per) = m
    BY <1>5, <1>8
  <1> QED BY <1>3, <1>8, <1>9 DEF On

(* The listing a reader sees: every row as the page it is on gives it.        *)
Stitched(orders, per, n) == [i \in 1 .. n |-> orders[PageOf(i, per)][i]]

\* Page k shows what it shows of the listing its readers see.
LEMMA PageOfStitched ==
    ASSUME NEW orders, NEW per \in Nat \ {0}, NEW n \in Nat, NEW k \in Nat \ {0},
           IsList(orders[k]), Len(orders[k]) = n,
           IsList(Stitched(orders, per, n)), Len(Stitched(orders, per, n)) = n
    PROVE  V!Slice(orders[k], per, (k - 1) * per) = V!Slice(Stitched(orders, per, n), per, (k - 1) * per)
  <1> DEFINE s == orders[k]
             t == Stitched(orders, per, n)
             off == (k - 1) * per
             end == IF off + per < n THEN off + per ELSE n
             Base == ToSet(s) \cup ToSet(t)
  <1>1. off \in Nat /\ k * per = off + per /\ end \in Nat /\ end <= off + per /\ end <= n
    <2>1. k - 1 \in Nat /\ (k - 1) + 1 = k
      OBVIOUS
    <2>2. off \in Nat /\ k * per = off + per
      BY <2>1, Times
    <2> QED BY <2>2
  <1>2. V!Slice(s, per, off) = SubSeq(s, off + 1, end) /\ V!Slice(t, per, off) = SubSeq(t, off + 1, end)
    <2>1. Len(s) = n /\ Len(t) = n
      OBVIOUS
    <2> HIDE DEF s, t, off
    <2>2. ASSUME NEW u, Len(u) = n PROVE V!Slice(u, per, off) = SubSeq(u, off + 1, end)
      <3>1. V!Slice(u, per, off) = SubSeq(u, off + 1, IF off + per < Len(u) THEN off + per ELSE Len(u))
        BY <1>1, <2>2, SliceIs
      <3> QED BY Zenon, <2>2, <3>1
    <2> QED BY <2>1, <2>2
  <1> HIDE DEF end
  <1>3. ASSUME NEW i \in off + 1 .. end PROVE s[i] = t[i]
    <2>1. i \in 1 .. n /\ i \in Nat \ {0} /\ off < i /\ i <= k * per
      BY <1>1
    <2>2. PageOf(i, per) = k
      BY <2>1, OnPage
    <2>3. t[i] = orders[PageOf(i, per)][i]
      BY <2>1 DEF Stitched
    <2> QED BY <2>2, <2>3
  <1> HIDE DEF t, s, off
  <1>4. s \in Seq(Base) /\ t \in Seq(Base) /\ DOMAIN s = 1 .. n /\ DOMAIN t = 1 .. n
    <2>1. s \in Seq(ToSet(s)) /\ t \in Seq(ToSet(t)) /\ Len(s) = n /\ Len(t) = n
      BY DEF IsList, s, t
    <2> HIDE DEF s, t
    <2> QED BY <2>1
  <1> HIDE DEF Base
  <1>5. \A i \in off + 1 .. end : s[i] \in Base /\ t[i] \in Base
    <2>1. \A i \in off + 1 .. end : i \in 1 .. n
      BY <1>1
    <2> QED BY <1>4, <2>1
  <1> DEFINE a == SubSeq(s, off + 1, end)
             b == SubSeq(t, off + 1, end)
  <1>6. off + 1 \in Int /\ end \in Int
    BY <1>1
  <1>7. /\ a \in Seq(Base) /\ Len(a) = IF off + 1 <= end THEN end - (off + 1) + 1 ELSE 0
        /\ \A i \in 1 .. end - (off + 1) + 1 : a[i] = s[(off + 1) + i - 1]
    <2>1. \A i \in off + 1 .. end : s[i] \in Base
      BY <1>5
    <2> QED BY <1>6, <2>1, SubSeqProperties
  <1>8. /\ b \in Seq(Base) /\ Len(b) = IF off + 1 <= end THEN end - (off + 1) + 1 ELSE 0
        /\ \A i \in 1 .. end - (off + 1) + 1 : b[i] = t[(off + 1) + i - 1]
    <2>1. \A i \in off + 1 .. end : t[i] \in Base
      BY <1>5
    <2> QED BY <1>6, <2>1, SubSeqProperties
  <1> HIDE DEF a, b
  <1>9. ASSUME NEW i \in 1 .. Len(a) PROVE a[i] = b[i]
    <2>1. i \in 1 .. end - (off + 1) + 1
      BY <1>1, <1>7
    <2>2. (off + 1) + i - 1 \in off + 1 .. end
      BY <1>1, <2>1
    <2> QED BY <1>3, <1>7, <1>8, <2>1, <2>2
  <1>10. a = b
    BY <1>7, <1>8, <1>9, SeqEqual
  <1> QED BY Zenon, <1>2, <1>10 DEF a, b, s, t, off

(* What the pages subject holds: each page's query sorts.                     *)
Leafing ==
    /\ IsList(subject.keys) /\ Len(subject.keys) = subject.total
    /\ \A k \in 1 .. subject.total + 1 : V!OrderedBy(subject.keys, subject.orders[k])

LEMMA OrderIs ==
    ASSUME Leafing, NEW k \in 1 .. subject.total + 1
    PROVE  /\ IsList(subject.orders[k]) /\ Len(subject.orders[k]) = subject.total
           /\ \A i \in 1 .. subject.total : subject.keys[subject.orders[k][i]] = subject.keys[i]
  <1>1. V!OrderedBy(subject.keys, subject.orders[k])
    BY DEF Leafing
  <1>2. subject.orders[k] \in Seq(DOMAIN subject.keys) /\ Len(subject.orders[k]) = Len(subject.keys)
    BY <1>1 DEF V!OrderedBy
  <1>3. DOMAIN subject.keys = 1 .. subject.total
    BY DEF Leafing, IsList
  <1> QED BY <1>1, <1>2, <1>3, ListOf DEF V!OrderedBy, Leafing

\* The monitors: what is behind each address.
LEMMA MonitorPages ==
    ASSUME NEW k \in Nat \ {0}, subject.total \in Nat, subject.per \in Nat \ {0}, subject.per <= MaxPer
    PROVE  /\ PageAt("monitors", Numbered[k]).items
                = V!Slice(subject.orders[k], subject.per, (k - 1) * subject.per)
           /\ PageAt("monitors", Numbered[k]).pager.next
                = IF k * subject.per < subject.total THEN {Numbered[k + 1]} ELSE {}
  <1> DEFINE q == Numbered[k]
             p == [page |-> k, per |-> subject.per]
             listing == [items |-> V!MonitorsOnPage(subject.orders, p), total |-> subject.total]
             params == V!ParamsFromFilter(Reads(q))
  <1>1. PageAt("monitors", q) = V!MonitorsPage(listing, Reads(q), {}, p)
    BY Zenon, PageIs DEF PageAt, MonitorsAt
  <1>2. DOMAIN params = {}
    BY Zenon, NumberedIs, PlainLink
  <1> HIDE DEF params
  <1>3. /\ PageAt("monitors", q).items = V!MonitorsOnPage(subject.orders, p)
        /\ PageAt("monitors", q).pager = V!Paginator(params, p, subject.total)
    <2> HIDE DEF p, q
    <2> QED BY <1>1 DEF V!MonitorsPage, params
  <1>4. V!MonitorsOnPage(subject.orders, p) = V!Slice(subject.orders[k], subject.per, (k - 1) * subject.per)
    BY DEF V!MonitorsOnPage
  <1>5. V!Paginator(params, p, subject.total).next
          = IF k * subject.per < subject.total THEN {Numbered[k + 1]} ELSE {}
    BY <1>2, NextIs
  <1> QED BY Zenon, <1>3, <1>4, <1>5

LEMMA MonitorsCovered ==
    ASSUME Leafing, subject.total \in Nat, subject.per \in Nat \ {0}, subject.per <= MaxPer
    PROVE  ReadByKey(ReadOn(MonitorsAt, V!NoQuery, subject.total + 1), subject.keys)
  <1> DEFINE n == subject.total
             s == Stitched(subject.orders, subject.per, n)
  <1>0. ASSUME NEW i \in 1 .. n
        PROVE  PageOf(i, subject.per) \in 1 .. n + 1 /\ s[i] = subject.orders[PageOf(i, subject.per)][i]
    <2>1. PageOf(i, subject.per) \in 1 .. i
      BY OnPage
    <2> QED BY <2>1 DEF Stitched
  <1>1. IsList(s) /\ Len(s) = n
    <2>1. s \in Seq({s[i] : i \in 1 .. n}) /\ Len(s) = n
      BY DEF Stitched
    <2> HIDE DEF s
    <2> QED BY <2>1, ListOf
  <1>2. PICK h : ReadFrom(h, "monitors", V!NoQuery, n + 1) /\ ReadOn(MonitorsAt, V!NoQuery, n + 1) = h[n + 1]
    <2>1. n + 1 \in Nat
      OBVIOUS
    <2> HIDE DEF n
    <2> QED BY <2>1, MonitorsRead
  <1>3. Numbered[1] = V!NoQuery
    BY DEF Numbered
  <1>4. Leads("monitors", s, subject.per, 1, Numbered)
    <2> SUFFICES ASSUME NEW k \in Nat, k >= 1, k <= 1 + Len(s)
                 PROVE  /\ PageAt("monitors", Numbered[k]).items = V!Slice(s, subject.per, (k - 1) * subject.per)
                        /\ PageAt("monitors", Numbered[k]).pager.next
                             = IF k * subject.per < Len(s) THEN {Numbered[k + 1]} ELSE {}
      BY Zenon DEF Leads
    <2>1. k \in Nat \ {0} /\ k \in 1 .. n + 1
      BY <1>1
    <2>2. V!Slice(subject.orders[k], subject.per, (k - 1) * subject.per)
            = V!Slice(s, subject.per, (k - 1) * subject.per)
      BY <1>1, <2>1, OrderIs, PageOfStitched
    <2> QED BY Zenon, <1>1, <2>1, <2>2, MonitorPages
  <1>5. ReadUp(h, s, subject.per, 1)
    <2>1. ReadFrom(h, "monitors", Numbered[1], Len(s) + 1)
      BY Zenon, <1>1, <1>2, <1>3
    <2>2. 1 \in Nat \ {0} /\ "monitors" \in {"monitors", "log", "incidents"}
      OBVIOUS
    <2> HIDE DEF s, n
    <2> QED BY Zenon, <1>1, <1>4, <2>1, <2>2, ReadWhole
  <1>6. (1 - 1) * subject.per + 1 = 1
    OBVIOUS
  <1>7. SubSeq(s, 1, Len(s)) = s
    BY <1>1, SubSeqFull DEF IsList
  <1>8. \A i \in 1 .. n : subject.keys[s[i]] = subject.keys[i]
    BY <1>0, OrderIs
  <1> HIDE DEF s
  <1>9. ReadOn(MonitorsAt, V!NoQuery, n + 1) = [items |-> s, next |-> {}]
    BY <1>1, <1>2, <1>5, <1>6, <1>7 DEF ReadUp
  <1>10. Len(subject.keys) = n /\ DOMAIN subject.keys = 1 .. n
    BY DEF Leafing, IsList
  <1> QED BY <1>1, <1>8, <1>9, <1>10 DEF ReadByKey

(* The alert log. *)

Entry(i) == [id |-> i, at |-> i \div 2]

Newer(f, e) == f.at > e.at \/ (f.at = e.at /\ f.id > e.id)

LEMMA EntriesCount ==
    ASSUME NEW a \in Nat, NEW b \in Nat
    PROVE  /\ IsFiniteSet({Entry(j) : j \in a .. b})
           /\ Cardinality({Entry(j) : j \in a .. b}) = IF a > b THEN 0 ELSE b - a + 1
  <1> DEFINE T == {Entry(j) : j \in a .. b}
             g == [j \in a .. b |-> Entry(j)]
  <1>1. \A j, k : Entry(j) = Entry(k) => j = k
    <2>1. \A j : Entry(j).id = j
      BY DEF Entry
    <2> QED BY <2>1
  <1>2. \A j, k \in DOMAIN g : g[j] = g[k] => j = k
    BY <1>1
  <1>3. ExistsBijection(a .. b, T)
    <2>1. g \in Surjection(a .. b, T)
      BY Zenon DEF Surjection
    <2>2. IsInjective(g)
      BY Zenon, <1>2 DEF IsInjective
    <2>3. g \in Injection(a .. b, T)
      BY Zenon, <2>1, <2>2 DEF Injection, Surjection
    <2> QED BY Zenon, <2>1, <2>3 DEF ExistsBijection, Bijection
  <1> HIDE DEF T
  <1>4. IsFiniteSet(a .. b) /\ Cardinality(a .. b) = IF a > b THEN 0 ELSE b - a + 1
    BY FS_Interval
  <1>5. IsFiniteSet(T) /\ Cardinality(T) = Cardinality(a .. b)
    BY Zenon, <1>3, <1>4, FS_Bijection
  <1> QED BY Zenon, <1>4, <1>5 DEF T

LEMMA LogIs ==
    ASSUME NEW n \in Nat
    PROVE  /\ Log(n) = {Entry(j) : j \in 1 .. n}
           /\ Cardinality(Log(n)) = n
  <1>1. Log(n) = {Entry(j) : j \in 1 .. n}
    BY DEF Log, Entry
  <1>2. Cardinality({Entry(j) : j \in 1 .. n}) = IF 1 > n THEN 0 ELSE n - 1 + 1
    BY EntriesCount
  <1> QED BY <1>1, <1>2

\* Entry i has n - i newer ones.
LEMMA RankIs ==
    ASSUME NEW n \in Nat, NEW i \in 1 .. n
    PROVE  V!Cardinality({f \in Log(n) : Newer(f, Entry(i))}) + 1 = n + 1 - i
  <1>1. \A j \in 1 .. n : Newer(Entry(j), Entry(i)) <=> j > i
    <2> TAKE j \in 1 .. n
    <2>1. /\ i < j => i \div 2 <= j \div 2
          /\ j < i => j \div 2 <= i \div 2
      OBVIOUS
    <2>2. i \div 2 \in Int /\ j \div 2 \in Int
      OBVIOUS
    <2> QED BY <2>1, <2>2 DEF Newer, Entry
  <1>2. {f \in Log(n) : Newer(f, Entry(i))} = {Entry(j) : j \in i + 1 .. n}
    <2>1. Log(n) = {Entry(j) : j \in 1 .. n}
      BY LogIs
    <2>2. \A j : j \in i + 1 .. n <=> j \in 1 .. n /\ j > i
      OBVIOUS
    <2> QED BY <1>1, <2>1, <2>2
  <1>3. Cardinality({Entry(j) : j \in i + 1 .. n}) = IF i + 1 > n THEN 0 ELSE n - (i + 1) + 1
    <2>1. i + 1 \in Nat
      OBVIOUS
    <2> QED BY Zenon, <2>1, EntriesCount
  <1> QED BY <1>2, <1>3, Counting

LEMMA NewestIs ==
    ASSUME NEW n \in Nat
    PROVE  V!NewestFirst(Log(n)) = [i \in 1 .. n |-> Entry(n + 1 - i)]
  <1> DEFINE Rank(e) == V!Cardinality({f \in Log(n) : Newer(f, e)}) + 1
  <1>1. V!NewestFirst(Log(n)) = [i \in 1 .. n |-> CHOOSE e \in Log(n) : Rank(e) = i]
    <2>1. V!NewestFirst(Log(n)) = [i \in 1 .. V!Cardinality(Log(n)) |-> CHOOSE e \in Log(n) : Rank(e) = i]
      BY Zenon DEF V!NewestFirst, Newer
    <2>2. V!Cardinality(Log(n)) = n
      BY LogIs, Counting
    <2> HIDE DEF Rank
    <2> QED BY Zenon, <2>1, <2>2
  <1>2. ASSUME NEW i \in 1 .. n PROVE (CHOOSE e \in Log(n) : Rank(e) = i) = Entry(n + 1 - i)
    <2>1. \A j \in 1 .. n : Rank(Entry(j)) = n + 1 - j
      BY Zenon, RankIs
    <2> HIDE DEF Rank
    <2>2. n + 1 - i \in 1 .. n /\ n + 1 - (n + 1 - i) = i
      OBVIOUS
    <2>3. Entry(n + 1 - i) \in Log(n) /\ Rank(Entry(n + 1 - i)) = i
      BY <2>1, <2>2, LogIs
    <2>4. ASSUME NEW e \in Log(n), Rank(e) = i PROVE e = Entry(n + 1 - i)
      <3>1. PICK j \in 1 .. n : e = Entry(j)
        BY LogIs
      <3>2. n + 1 - j = i
        BY <2>1, <2>4, <3>1
      <3>3. j = n + 1 - i
        BY <3>2
      <3> QED BY <3>1, <3>3
    <2> QED BY <2>3, <2>4
  <1> HIDE DEF Rank
  <1> QED BY <1>1, <1>2

LEMMA LogPages ==
    ASSUME NEW k \in Nat \ {0}, subject.total \in Nat, subject.per \in Nat \ {0}, subject.per <= MaxPer
    PROVE  /\ PageAt("log", Numbered[k]).items
                = V!Slice(V!NewestFirst(Log(subject.total)), subject.per, (k - 1) * subject.per)
           /\ PageAt("log", Numbered[k]).pager.next
                = IF k * subject.per < subject.total THEN {Numbered[k + 1]} ELSE {}
  <1> DEFINE q == Numbered[k]
             p == [page |-> k, per |-> subject.per]
             events == Log(subject.total)
             alerts == V!ListLatestAlerts(events, p.per, (p.page - 1) * p.per)
             home == V!HandleHomepage({}, events, p, {})
  <1>1. PageAt("log", q) = [items |-> home.feed, pager |-> home.pager]
    <2>1. PageAt("log", q) = LogAt(q)
      BY DEF PageAt
    <2> QED BY Zenon, <2>1, PageIs DEF LogAt
  <1>2. /\ home.feed = alerts.items
        /\ home.pager = V!Paginator(V!NoQuery, p, alerts.total)
    <2> HIDE DEF p, events
    <2> QED BY DEF V!HandleHomepage, V!Homepage
  <1>3. /\ alerts.items = V!Slice(V!NewestFirst(events), subject.per, (k - 1) * subject.per)
        /\ alerts.total = subject.total
    <2>1. V!Cardinality(events) = subject.total
      BY LogIs, Counting
    <2> HIDE DEF events
    <2> QED BY <2>1 DEF V!ListLatestAlerts
  <1>4. DOMAIN V!NoQuery = {}
    BY DEF V!NoQuery
  <1>5. V!Paginator(V!NoQuery, p, subject.total).next
          = IF k * subject.per < subject.total THEN {Numbered[k + 1]} ELSE {}
    BY <1>4, NextIs
  <1> HIDE DEF home, alerts, q
  <1>6. PageAt("log", q).items = home.feed /\ PageAt("log", q).pager = home.pager
    BY <1>1
  <1> QED BY Zenon, <1>2, <1>3, <1>5, <1>6 DEF q, events

LEMMA LogCovered ==
    ASSUME subject.total \in Nat, subject.per \in Nat \ {0}, subject.per <= MaxPer
    PROVE  LET log == ReadOn(LogAt, V!NoQuery, subject.total + 1)
           IN /\ log.next = {}
              /\ Reverse([i \in DOMAIN log.items |-> log.items[i].id]) = Rows(subject.total)
  <1> DEFINE n == subject.total
             s == V!NewestFirst(Log(n))
             log == ReadOn(LogAt, V!NoQuery, n + 1)
  <1>0. s = [i \in 1 .. n |-> Entry(n + 1 - i)]
    BY NewestIs
  <1> HIDE DEF s
  <1>1. IsList(s) /\ Len(s) = n
    <2>1. s \in Seq({Entry(j) : j \in 1 .. n}) /\ Len(s) = n
      <3>1. \A i \in 1 .. n : n + 1 - i \in 1 .. n
        OBVIOUS
      <3> QED BY <1>0, <3>1
    <2> QED BY <2>1, ListOf
  <1>2. PICK h : ReadFrom(h, "log", V!NoQuery, n + 1) /\ log = h[n + 1]
    <2>1. n + 1 \in Nat
      OBVIOUS
    <2> HIDE DEF n
    <2> QED BY <2>1, LogRead
  <1>3. Numbered[1] = V!NoQuery
    BY DEF Numbered
  <1>4. Leads("log", s, subject.per, 1, Numbered)
    <2> SUFFICES ASSUME NEW k \in Nat, k >= 1
                 PROVE  /\ PageAt("log", Numbered[k]).items = V!Slice(s, subject.per, (k - 1) * subject.per)
                        /\ PageAt("log", Numbered[k]).pager.next
                             = IF k * subject.per < Len(s) THEN {Numbered[k + 1]} ELSE {}
      BY Zenon DEF Leads
    <2>1. k \in Nat \ {0}
      OBVIOUS
    <2> QED BY Zenon, <1>1, <2>1, LogPages DEF s
  <1>5. ReadUp(h, s, subject.per, 1)
    <2>1. ReadFrom(h, "log", Numbered[1], Len(s) + 1)
      BY Zenon, <1>1, <1>2, <1>3
    <2>2. 1 \in Nat \ {0} /\ "log" \in {"monitors", "log", "incidents"}
      OBVIOUS
    <2> HIDE DEF n
    <2> QED BY Zenon, <1>1, <1>4, <2>1, <2>2, ReadWhole
  <1>6. (1 - 1) * subject.per + 1 = 1
    OBVIOUS
  <1>7. SubSeq(s, 1, Len(s)) = s
    BY <1>1, SubSeqFull DEF IsList
  <1> HIDE DEF log
  <1>8. log = [items |-> s, next |-> {}]
    BY <1>1, <1>2, <1>5, <1>6, <1>7 DEF ReadUp
  <1>9. [i \in DOMAIN log.items |-> log.items[i].id] = [i \in 1 .. n |-> n + 1 - i]
    <2>1. DOMAIN s = 1 .. n /\ \A i \in 1 .. n : s[i].id = n + 1 - i
      BY <1>0 DEF Entry
    <2>2. log.items = s
      BY <1>8
    <2> QED BY <2>1, <2>2
  <1>10. Reverse([i \in 1 .. n |-> n + 1 - i]) = Rows(n)
    <2>1. Len([i \in 1 .. n |-> n + 1 - i]) = n
      OBVIOUS
    <2> QED BY <2>1 DEF Reverse, Rows
  <1>11. log.next = {}
    BY <1>8
  <1> QED BY Zenon, <1>9, <1>10, <1>11 DEF log

(* The incidents. *)

(* The rows a filter of /alerts keeps.                                        *)
Found(rows, f) == Filter(rows, {inc \in ToSet(rows) : V!AMSelects(f, inc)})

\* The query of the store keeps what the filter selects, in order.
LEMMA ListedIs ==
    ASSUME NEW rows, IsList(rows), NEW f
    PROVE  V!Listed(rows, f) = Found(rows, f) /\ IsList(Found(rows, f))
  <1> DEFINE keep == {inc \in ToSet(rows) : V!AMSelects(f, inc)}
             N == Len(rows)
             next(a, i) == IF V!AMSelects(f, rows[i]) THEN Append(a, rows[i]) ELSE a
             Keeps(k) == k = [n \in 0 .. N |-> IF n = 0 THEN <<>> ELSE next(k[n - 1], n)]
  <1>0. N \in Nat /\ DOMAIN rows = 1 .. N
    BY LenProperties DEF IsList
  <1>1. \A n \in 1 .. N : rows[n] \in keep <=> V!AMSelects(f, rows[n])
    BY <1>0 DEF ToSet
  <1> HIDE DEF keep
  <1>2. PICK h : /\ h[0] = <<>>
                 /\ \A n \in 1 .. N : h[n] = IF rows[n] \in keep THEN Append(h[n - 1], rows[n]) ELSE h[n - 1]
                 /\ Filter(rows, keep) = h[N]
    BY <1>0, FilterTurns
  <1>3. PICK g : Turned(g, "filter", keep, <<>>, rows)
    BY <1>0, Turns
  <1>4. Keeps(g)
    <2>1. \A n \in 1 .. N : \A a : Turn("filter", keep, a, rows[n]) = next(a, n)
      BY <1>1 DEF Turn
    <2>2. g = [n \in 0 .. N |-> IF n = 0 THEN <<>> ELSE Turn("filter", keep, g[n - 1], rows[n])]
      BY Zenon, <1>3 DEF Turned
    <2> HIDE DEF next
    <2>3. \A n \in 0 .. N : n # 0 => n \in 1 .. N
      BY <1>0
    <2>4. \A n \in 0 .. N : g[n] = IF n = 0 THEN <<>> ELSE next(g[n - 1], n)
      BY <2>1, <2>2, <2>3
    <2>5. g = [n \in 0 .. N |-> g[n]]
      BY Zenon, <2>2
    <2> QED BY <2>4, <2>5
  <1>5. \E k : Keeps(k) /\ V!Listed(rows, f) = k[N]
    BY Zenon, <1>4 DEF V!Listed
  <1>6. PICK k : Keeps(k) /\ V!Listed(rows, f) = k[N]
    BY <1>5
  <1>7. k[0] = <<>> /\ \A n \in 1 .. N : k[n] = next(k[n - 1], n)
    <2> HIDE DEF next
    <2> QED BY <1>0, <1>6
  <1> HIDE DEF Keeps
  <1>8. \A n \in 0 .. N : n \in {m \in 0 .. N : h[m] = k[m]}
    <2> DEFINE Base == {m \in 0 .. N : h[m] = k[m]}
    <2>1. 0 \in Base
      BY <1>0, <1>2, <1>7
    <2>2. ASSUME NEW n \in 1 .. N, n - 1 \in Base PROVE n \in Base
      <3>1. h[n] = k[n]
        BY <1>1, <1>2, <1>7, <2>2
      <3> QED BY <3>1, <1>0
    <2> HIDE DEF Base
    <2>3. \A n \in 0 .. N : n \in Base
      BY <1>0, <2>1, <2>2, InductTo
    <2> QED BY Zenon, <2>3 DEF Base
  <1>9. h[N] = k[N]
    BY <1>0, <1>8
  <1>10. IsList(Filter(rows, keep))
    BY Filtered, ListOf DEF IsList
  <1> QED BY Zenon, <1>2, <1>6, <1>9, <1>10 DEF Found, keep

\* What an address of /alerts is read as, whatever it carries.
LEMMA AMPageIs ==
    ASSUME NEW q \in AMQueries
    PROVE  /\ V!AMPage(q) = [page |-> V!AMPage(q).page, per |-> V!AMPage(q).per]
           /\ V!AMPage(q).page \in Nat \ {0} /\ V!AMPage(q).per \in Nat \ {0}
           /\ MaxPerPage > 0 => V!AMPage(q).per <= MaxPerPage
  <1> DEFINE page == IF "page" \in DOMAIN q THEN q.page ELSE 0
             per == IF "per_page" \in DOMAIN q THEN q.per_page ELSE 0
             p == V!Pagination(page, per, AMPerPage, MaxPerPage)
  <1>1. page \in Int /\ per \in Int
    <2>1. \A k \in DOMAIN q \cap {"page", "per_page"} : q[k] \in Int
      BY ListingAssumption
    <2> QED BY <2>1
  <1>2. V!AMPage(q) = p
    BY DEF V!AMPage
  <1> HIDE DEF page, per
  <1>3. /\ p = [page |-> p.page, per |-> p.per]
        /\ p.page \in Nat \ {0} /\ p.per \in Nat \ {0}
        /\ MaxPerPage > 0 => p.per <= MaxPerPage
    BY <1>1, Limits DEF V!Pagination
  <1> QED BY Zenon, <1>2, <1>3

\* The address of a page of the listing is read as that page, and as the same filter.
LEMMA AMLinkReads ==
    ASSUME NEW q, NEW k \in Nat, k > 1, NEW per \in Nat \ {0}, MaxPerPage > 0 => per <= MaxPerPage
    PROVE  /\ V!AMFilter(V!AMListingURL(V!AMFilter(q), k, per)) = V!AMFilter(q)
           /\ V!AMPage(V!AMListingURL(V!AMFilter(q), k, per)) = [page |-> k, per |-> per]
  <1> DEFINE f == V!AMFilter(q)
             D == V!AMFields \cup {"status", "from", "to"}
             u == V!AMListingURL(f, k, per)
             texts == {x \in DOMAIN f : f[x] # NoText}
             given == texts \cup {"per_page"} \cup {"page"}
  <1>1. /\ DOMAIN f = D
        /\ \A x \in D : f[x] = IF x = "status" /\ V!Param(q, x) \notin {"firing", "resolved"}
                               THEN NoText ELSE V!Param(q, x)
    BY NoTexts DEF V!AMFilter
  <1>2. f["status"] \in {"firing", "resolved", NoText}
    <2>1. "status" \in D
      OBVIOUS
    <2> HIDE DEF f, D
    <2> QED BY <1>1, <2>1
  <1>3. "page" \notin D /\ "per_page" \notin D
    BY DEF V!AMFields
  <1> HIDE DEF f, D
  <1>4. u = [x \in given |-> IF x = "page" THEN k ELSE IF x = "per_page" THEN per ELSE f[x]]
    <2>1. per > 0 /\ k > 1
      OBVIOUS
    <2> QED BY <2>1, NoTexts DEF V!AMListingURL
  <1>5. /\ DOMAIN u = given
        /\ \A x \in given : u[x] = IF x = "page" THEN k ELSE IF x = "per_page" THEN per ELSE f[x]
    <2> HIDE DEF given, u
    <2> QED BY <1>4
  <1> HIDE DEF u
  <1>6. \A x \in D : V!Param(u, x) = f[x]
    BY <1>1, <1>3, <1>5, NoTexts DEF V!Param
  <1>7. V!AMFilter(u) = [x \in D |-> IF x = "status" /\ V!Param(u, x) \notin {"firing", "resolved"}
                                     THEN NoText ELSE V!Param(u, x)]
    BY Zenon, NoTexts DEF V!AMFilter, D
  <1>8. f = [x \in D |-> f[x]]
    BY Zenon, NoTexts DEF V!AMFilter, f, D
  <1>9. \A x \in D : (IF x = "status" /\ V!Param(u, x) \notin {"firing", "resolved"}
                     THEN NoText ELSE V!Param(u, x)) = f[x]
    BY <1>2, <1>6
  <1>10. V!AMFilter(u) = f
    BY <1>7, <1>8, <1>9
  <1>11. V!AMPage(u) = [page |-> k, per |-> per]
    <2>1. "page" \in DOMAIN u /\ u.page = k /\ "per_page" \in DOMAIN u /\ u.per_page = per
      BY <1>5
    <2>2. V!AMPage(u) = V!Pagination(k, per, AMPerPage, MaxPerPage)
      BY <2>1 DEF V!AMPage
    <2> QED BY <2>2, Limits DEF V!Pagination
  <1> QED BY Zenon, <1>10, <1>11 DEF f, u

(* The addresses of the pages from one on.                                    *)
Onward(q) == [k \in Nat |-> IF k = V!AMPage(q).page THEN q
                            ELSE V!AMListingURL(V!AMFilter(q), k, V!AMPage(q).per)]

LEMMA OnwardReads ==
    ASSUME NEW q \in AMQueries, NEW k \in Nat, k >= V!AMPage(q).page
    PROVE  /\ V!AMFilter(Onward(q)[k]) = V!AMFilter(q)
           /\ V!AMPage(Onward(q)[k]) = [page |-> k, per |-> V!AMPage(q).per]
  <1> DEFINE p == V!AMPage(q)
  <1>1. /\ p = [page |-> p.page, per |-> p.per] /\ p.page \in Nat \ {0} /\ p.per \in Nat \ {0}
        /\ MaxPerPage > 0 => p.per <= MaxPerPage
    BY Zenon, AMPageIs
  <1> HIDE DEF p
  <1>2. CASE k = p.page
    <2>1. Onward(q)[k] = q
      BY <1>2 DEF Onward, p
    <2> QED BY Zenon, <1>1, <1>2, <2>1 DEF p
  <1>3. CASE k # p.page
    <2>1. Onward(q)[k] = V!AMListingURL(V!AMFilter(q), k, p.per)
      BY <1>3 DEF Onward, p
    <2>2. k > 1
      BY <1>1, <1>3 DEF p
    <2>3. /\ V!AMFilter(V!AMListingURL(V!AMFilter(q), k, p.per)) = V!AMFilter(q)
          /\ V!AMPage(V!AMListingURL(V!AMFilter(q), k, p.per)) = [page |-> k, per |-> p.per]
      BY <1>1, <2>2, AMLinkReads
    <2> QED BY Zenon, <2>1, <2>3 DEF p
  <1> QED BY <1>2, <1>3

(* What is shown is a page of s, and what was got tells if there is another.  *)
ShowsPage(shown, got, s, per, offset) ==
    /\ shown = V!Slice(s, per, offset)
    /\ Len(got) > per <=> offset + per < Len(s)
    /\ offset + per < Len(s) => shown # <<>>

\* One row more than is shown tells whether there are more.
LEMMA ShownIs ==
    ASSUME NEW s, IsList(s), NEW per \in Nat \ {0}, NEW offset \in Nat, NEW got,
           got = V!Slice(s, per + 1, offset), NEW shown,
           shown = IF Len(got) > per THEN SubSeq(got, 1, per) ELSE got
    PROVE  ShowsPage(shown, got, s, per, offset)
  <1> DEFINE N == Len(s)
             last == IF offset + (per + 1) < N THEN offset + (per + 1) ELSE N
  <1>0. N \in Nat /\ DOMAIN s = 1 .. N /\ \A i \in 1 .. N : s[i] \in ToSet(s)
    BY LenProperties DEF IsList, ToSet
  <1>1. got = SubSeq(s, offset + 1, last)
    <2>1. per + 1 \in Nat
      OBVIOUS
    <2> QED BY <1>0, <2>1, SliceIs
  <1>2. V!Slice(s, per, offset) = SubSeq(s, offset + 1, IF offset + per < N THEN offset + per ELSE N)
    BY <1>0, SliceIs
  <1>3. last \in Int /\ last <= N
    BY <1>0
  <1>4. Len(got) = IF offset + 1 <= last THEN last - (offset + 1) + 1 ELSE 0
    <2>1. \A i \in offset + 1 .. last : s[i] \in ToSet(s)
      BY <1>0, <1>3
    <2>2. offset + 1 \in Int
      OBVIOUS
    <2> HIDE DEF last
    <2> QED BY <1>1, <1>3, <2>1, <2>2, SubSeqProperties
  <1>5. CASE offset + per < N
    <2>1. last = offset + per + 1
      BY <1>0, <1>5
    <2> HIDE DEF last
    <2>2. Len(got) = per + 1
      BY <1>4, <2>1
    <2>3. SubSeq(got, 1, per) = SubSeq(s, offset + 1, offset + per)
      <3>1. /\ offset + 1 \in 1 .. N /\ last \in 1 .. N
            /\ 1 \in 1 .. last - (offset + 1) + 1 /\ per \in 1 .. last - (offset + 1) + 1
        BY <1>0, <1>5, <2>1
      <3>2. SubSeq(SubSeq(s, offset + 1, last), 1, per) = SubSeq(s, (offset + 1) + 1 - 1, (offset + 1) + per - 1)
        BY <3>1, SubSeqOfSubSeq DEF IsList
      <3>3. (offset + 1) + 1 - 1 = offset + 1 /\ (offset + 1) + per - 1 = offset + per
        OBVIOUS
      <3> QED BY <1>1, <3>2, <3>3
    <2>4. Len(SubSeq(s, offset + 1, offset + per)) = per
      <3>1. \A i \in offset + 1 .. offset + per : s[i] \in ToSet(s)
        BY <1>0, <1>5
      <3>2. /\ offset + 1 \in Int /\ offset + per \in Int /\ offset + 1 <= offset + per
            /\ (offset + per) - (offset + 1) + 1 = per
        OBVIOUS
      <3>3. Len(SubSeq(s, offset + 1, offset + per))
              = IF offset + 1 <= offset + per THEN (offset + per) - (offset + 1) + 1 ELSE 0
        BY <3>1, <3>2, SubSeqProperties
      <3> QED BY <3>2, <3>3
    <2>5. shown # <<>>
      <3>1. shown = SubSeq(s, offset + 1, offset + per)
        BY <2>2, <2>3
      <3>2. Len(shown) # 0
        BY <2>4, <3>1
      <3>3. Len(<<>>) = 0
        OBVIOUS
      <3> QED BY Zenon, <3>2, <3>3
    <2> QED BY <1>2, <1>5, <2>2, <2>3, <2>5 DEF ShowsPage
  <1>6. CASE ~(offset + per < N)
    <2> HIDE DEF N
    <2>1. last = N
      BY <1>0, <1>6
    <2>2. offset + 1 <= N => N - (offset + 1) + 1 <= per
      BY <1>0, <1>6
    <2> HIDE DEF last
    <2>3. ~(Len(got) > per)
      BY <1>0, <1>4, <2>1, <2>2
    <2> QED BY <1>1, <1>2, <1>6, <2>1, <2>3 DEF N, ShowsPage
  <1> QED BY <1>5, <1>6 DEF ShowsPage

\* A page of /alerts shows its rows, and offers the next one if there are more.
LEMMA IncidentPages ==
    ASSUME IsList(subject.rows), NEW q \in AMQueries, V!AMPage(q).per < AMListMaxLimit,
           NEW k \in Nat, k >= V!AMPage(q).page
    PROVE  /\ PageAt("incidents", Onward(q)[k]).items
                = V!Slice(Found(subject.rows, V!AMFilter(q)), V!AMPage(q).per, (k - 1) * V!AMPage(q).per)
           /\ PageAt("incidents", Onward(q)[k]).pager.next
                = IF k * V!AMPage(q).per < Len(Found(subject.rows, V!AMFilter(q)))
                  THEN {Onward(q)[k + 1]} ELSE {}
  <1> DEFINE per == V!AMPage(q).per
             f == V!AMFilter(q)
             s == Found(subject.rows, f)
             a == Onward(q)[k]
             offset == (k - 1) * per
             got == V!ListAMIncidents(subject.rows, f, per + 1, offset)
             shown == IF Len(got) > per THEN SubSeq(got, 1, per) ELSE got
             view == V!HandleAMAlertsListing(subject.rows, a)
  <1>0. per \in Nat \ {0} /\ V!AMPage(q).page \in Nat \ {0}
    BY AMPageIs
  <1>1. V!AMFilter(a) = f /\ V!AMPage(a) = [page |-> k, per |-> per]
    BY OnwardReads
  <1>2. /\ view.filter = f /\ view.page = k /\ view.per = per /\ view.shown = shown
        /\ view.hasNext = (Len(got) > per)
    <2>1. V!AMPage(a).page = k /\ V!AMPage(a).per = per
      BY <1>1
    <2> HIDE DEF per, f, a
    <2> QED BY <1>1, <2>1 DEF V!HandleAMAlertsListing
  <1>3. IsList(s) /\ V!Listed(subject.rows, f) = s
    BY ListedIs
  <1> HIDE DEF per, f, s, a
  <1>4. got = V!Slice(s, per + 1, offset)
    <2>1. ~(per + 1 > AMListMaxLimit)
      BY <1>0, Limits DEF per
    <2> QED BY Zenon, <1>3, <2>1 DEF V!ListAMIncidents
  <1>5. offset \in Nat /\ offset + per = k * per
    <2>1. k - 1 \in Nat /\ (k - 1) + 1 = k
      BY <1>0
    <2> QED BY <1>0, <2>1, Times
  <1> HIDE DEF offset, got
  <1>6. /\ shown = V!Slice(s, per, offset)
        /\ Len(got) > per <=> offset + per < Len(s)
        /\ offset + per < Len(s) => shown # <<>>
    <2>1. shown = IF Len(got) > per THEN SubSeq(got, 1, per) ELSE got
      OBVIOUS
    <2> HIDE DEF shown
    <2>2. ShowsPage(shown, got, s, per, offset)
      BY <1>0, <1>3, <1>4, <1>5, <2>1, ShownIs
    <2> QED BY Zenon, <2>2 DEF ShowsPage
  <1> HIDE DEF shown, view
  <1>7. PageAt("incidents", a) = [items |-> view.shown, pager |-> V!AMListingPaginator(view)]
    BY DEF PageAt, IncidentsAt, view
  <1>8. V!AMListingPaginator(view).next = IF shown # <<>> /\ Len(got) > per
                                          THEN {V!AMListingURL(f, k + 1, per)} ELSE {}
    BY <1>2 DEF V!AMListingPaginator
  <1>9. Onward(q)[k + 1] = V!AMListingURL(f, k + 1, per)
    BY <1>0 DEF Onward, per, f
  <1>10. /\ PageAt("incidents", a).items = V!Slice(s, per, offset)
         /\ PageAt("incidents", a).pager.next
              = IF k * per < Len(s) THEN {Onward(q)[k + 1]} ELSE {}
    BY <1>2, <1>5, <1>6, <1>7, <1>8, <1>9
  <1> QED BY Zenon, <1>10 DEF per, f, s, a, offset

LEMMA IncidentsCovered ==
    ASSUME IsList(subject.rows), NEW q \in AMQueries, V!AMPage(q).per < AMListMaxLimit,
           NEW s, s = Found(subject.rows, V!AMFilter(q))
    PROVE  ReadOn(IncidentsAt, q, Len(s) + 1)
             = All(SubSeq(s, V!AMPage(q).per * (V!AMPage(q).page - 1) + 1, Len(s)))
  <1> DEFINE p == V!AMPage(q)
  <1>0. p.per \in Nat \ {0} /\ p.page \in Nat \ {0}
    BY AMPageIs
  <1>1. IsList(s) /\ Len(s) \in Nat
    <2>1. IsList(s)
      BY ListedIs
    <2> QED BY <2>1, LenProperties DEF IsList
  <1>2. PICK h : ReadFrom(h, "incidents", q, Len(s) + 1) /\ ReadOn(IncidentsAt, q, Len(s) + 1) = h[Len(s) + 1]
    <2>1. Len(s) + 1 \in Nat
      BY <1>1
    <2> QED BY <2>1, IncidentsRead
  <1>3. Onward(q)[p.page] = q
    BY <1>0 DEF Onward
  <1>4. Leads("incidents", s, p.per, p.page, Onward(q))
    BY Zenon, IncidentPages DEF Leads
  <1> HIDE DEF p
  <1>5. ReadUp(h, s, p.per, p.page)
    <2>1. ReadFrom(h, "incidents", Onward(q)[p.page], Len(s) + 1)
      BY Zenon, <1>2, <1>3
    <2>2. "incidents" \in {"monitors", "log", "incidents"}
      OBVIOUS
    <2> QED BY Zenon, <1>0, <1>1, <1>4, <2>1, <2>2, ReadWhole
  <1>6. (p.page - 1) * p.per = p.per * (p.page - 1)
    BY <1>0
  <1>7. h[Len(s) + 1] = All(SubSeq(s, p.per * (p.page - 1) + 1, Len(s)))
    BY Zenon, <1>5, <1>6 DEF ReadUp, All
  <1> QED BY Zenon, <1>2, <1>7 DEF p

LEMMA EmptyIs ==
    ASSUME NEW s, IsList(s)
    PROVE  /\ Len(s) \in Nat
           /\ s = <<>> <=> Len(s) = 0
           /\ s = <<>> <=> ToSet(s) = {}
  <1>1. Len(s) \in Nat /\ DOMAIN s = 1 .. Len(s)
    BY LenProperties DEF IsList
  <1>2. s = <<>> <=> Len(s) = 0
    BY DEF IsList
  <1>3. Len(s) # 0 => s[1] \in ToSet(s)
    BY <1>1 DEF ToSet
  <1>4. Len(s) = 0 => ToSet(s) = {}
    BY <1>1 DEF ToSet
  <1> QED BY <1>1, <1>2, <1>3, <1>4

\* A page is empty of no rows, and the first one only of those.
LEMMA SliceEmpty ==
    ASSUME NEW s, IsList(s), NEW limit \in Nat, NEW offset \in Nat
    PROVE  /\ s = <<>> => V!Slice(s, limit, offset) = <<>>
           /\ s # <<>> /\ limit > 0 /\ offset = 0 => V!Slice(s, limit, offset) # <<>>
  <1> DEFINE N == Len(s)
             last == IF offset + limit < N THEN offset + limit ELSE N
  <1>0. N \in Nat /\ DOMAIN s = 1 .. N /\ (s = <<>> <=> N = 0) /\ \A i \in 1 .. N : s[i] \in ToSet(s)
    BY LenProperties, EmptyIs DEF IsList, ToSet
  <1>1. V!Slice(s, limit, offset) = SubSeq(s, offset + 1, last)
    BY <1>0, SliceIs
  <1>2. CASE s = <<>>
    <2>1. last \in Int /\ last < offset + 1 /\ offset + 1 \in Int
      BY <1>0, <1>2
    <2> HIDE DEF last
    <2> QED BY <1>1, <1>2, <2>1, SubSeqEmpty
  <1>3. CASE s # <<>> /\ limit > 0 /\ offset = 0
    <2>1. last \in Int /\ 1 <= last /\ last <= N /\ offset + 1 = 1
      BY <1>0, <1>3
    <2> HIDE DEF last, N
    <2>2. \A i \in 1 .. last : s[i] \in ToSet(s)
      BY <1>0, <2>1
    <2>3. Len(SubSeq(s, 1, last)) = IF 1 <= last THEN last - 1 + 1 ELSE 0
      BY <2>1, <2>2, SubSeqProperties
    <2>4. Len(SubSeq(s, 1, last)) # 0 /\ Len(<<>>) = 0
      BY <2>1, <2>3
    <2>5. SubSeq(s, 1, last) # <<>>
      BY Zenon, <2>4
    <2>6. V!Slice(s, limit, offset) = SubSeq(s, 1, last)
      BY <1>1, <2>1
    <2> QED BY Zenon, <1>3, <2>5, <2>6
  <1> QED BY <1>2, <1>3

LEMMA FoundEmpty ==
    ASSUME NEW rows, IsList(rows), NEW q
    PROVE  /\ rows = <<>> => Found(rows, V!AMFilter(q)) = <<>>
           /\ rows # <<>> /\ V!AMFilterIsEmpty(V!AMFilter(q)) => Found(rows, V!AMFilter(q)) # <<>>
  <1> DEFINE f == V!AMFilter(q)
             keep == {inc \in ToSet(rows) : V!AMSelects(f, inc)}
             D == V!AMFields \cup {"status", "from", "to"}
  <1>1. ToSet(Found(rows, f)) = ToSet(rows) \cap keep
    <2> HIDE DEF keep
    <2>1. ToSet(Filter(rows, keep)) = ToSet(rows) \cap keep
      BY Filtered DEF IsList
    <2> QED BY Zenon, <2>1 DEF Found, keep
  <1>2. DOMAIN f = D
    BY DEF V!AMFilter
  <1> HIDE DEF f
  <1>3. ASSUME V!AMFilterIsEmpty(f) PROVE keep = ToSet(rows)
    <2>1. \A k \in D : f[k] = NoText
      BY <1>2, <1>3, NoTexts DEF V!AMFilterIsEmpty
    <2>2. f.status = NoText /\ f.from = NoText /\ f.to = NoText /\ \A k \in V!AMFields : f[k] = NoText
      BY <2>1
    <2>3. \A inc : V!AMSelects(f, inc)
      BY <2>2, NoTexts, Limits DEF V!AMSelects
    <2> QED BY <2>3
  <1>4. IsList(Found(rows, f))
    BY ListedIs
  <1> HIDE DEF keep
  <1>5. rows = <<>> => ToSet(rows) = {}
    BY EmptyIs
  <1>6. rows # <<>> => ToSet(rows) # {}
    BY EmptyIs
  <1>7. Found(rows, f) = <<>> <=> ToSet(Found(rows, f)) = {}
    BY <1>4, EmptyIs
  <1>8. /\ rows = <<>> => Found(rows, f) = <<>>
        /\ rows # <<>> /\ V!AMFilterIsEmpty(f) => Found(rows, f) # <<>>
    BY <1>1, <1>3, <1>5, <1>6, <1>7
  <1> QED BY Zenon, <1>8 DEF f

\* "No alert has ever fired" is said when that is so.
LEMMA EmptySaidRightly ==
    ASSUME IsList(subject.rows), NEW q \in AMQueries
    PROVE  V!HandleAMAlertsListing(subject.rows, q).empty <=> subject.rows = <<>>
  <1> DEFINE rows == subject.rows
             f == V!AMFilter(q)
             p == V!AMPage(q)
             plain == V!AMFilter(V!NoQuery)
             got == V!ListAMIncidents(rows, f, p.per + 1, (p.page - 1) * p.per)
             shown == IF Len(got) > p.per THEN SubSeq(got, 1, p.per) ELSE got
             any == V!ListAMIncidents(rows, plain, 1, 0)
  <1>0. p.per \in Nat \ {0} /\ p.page \in Nat \ {0}
    BY AMPageIs
  <1>1. V!HandleAMAlertsListing(rows, q).empty
          = (shown = <<>> /\ ((V!AMFilterIsEmpty(f) /\ p.page = 1) \/ any = <<>>))
    BY DEF V!HandleAMAlertsListing
  <1> HIDE DEF p, f, plain
  <1>2. /\ IsList(Found(rows, f)) /\ V!Listed(rows, f) = Found(rows, f)
        /\ IsList(Found(rows, plain)) /\ V!Listed(rows, plain) = Found(rows, plain)
    BY ListedIs
  <1>3. /\ rows = <<>> => Found(rows, f) = <<>> /\ Found(rows, plain) = <<>>
        /\ rows # <<>> /\ V!AMFilterIsEmpty(f) => Found(rows, f) # <<>>
        /\ rows # <<>> => Found(rows, plain) # <<>>
    <2>1. V!AMFilterIsEmpty(plain)
      BY NoTexts DEF V!AMFilterIsEmpty, plain, V!AMFilter, V!Param, V!NoQuery
    <2> HIDE DEF rows
    <2> QED BY FoundEmpty, <2>1 DEF f, plain, rows
  <1> DEFINE limit == IF p.per + 1 > AMListMaxLimit THEN AMListMaxLimit ELSE p.per + 1
             one == IF 1 > AMListMaxLimit THEN AMListMaxLimit ELSE 1
             offset == (p.page - 1) * p.per
  <1>4. limit \in Nat /\ limit > 0 /\ one \in Nat /\ one > 0 /\ offset \in Nat
    <2>1. p.page - 1 \in Nat
      BY <1>0
    <2>2. AMListMaxLimit \in Nat \ {0}
      BY ListingAssumption
    <2>3. offset \in Nat
      BY <1>0, <2>1, Times
    <2> QED BY <1>0, <2>2, <2>3
  <1>5. got = V!Slice(Found(rows, f), limit, offset) /\ any = V!Slice(Found(rows, plain), one, 0)
    BY Zenon, <1>2 DEF V!ListAMIncidents
  <1> HIDE DEF got, any, limit, one
  <1>6. /\ rows = <<>> => got = <<>> /\ any = <<>>
        /\ rows # <<>> => any # <<>>
        /\ rows # <<>> /\ V!AMFilterIsEmpty(f) /\ p.page = 1 => got # <<>>
    <2>1. p.page = 1 => offset = 0
      <3>1. (1 - 1) * p.per = 0
        BY <1>0
      <3> QED BY Zenon, <3>1
    <2> HIDE DEF offset
    <2>2. /\ Found(rows, f) = <<>> => got = <<>>
          /\ Found(rows, f) # <<>> /\ offset = 0 => got # <<>>
      BY <1>2, <1>4, <1>5, SliceEmpty
    <2>3. /\ Found(rows, plain) = <<>> => any = <<>>
          /\ Found(rows, plain) # <<>> => any # <<>>
      BY <1>2, <1>4, <1>5, SliceEmpty
    <2> QED BY Zenon, <1>3, <2>1, <2>2, <2>3
  <1>7. /\ got = <<>> => shown = <<>>
        /\ got # <<>> => (shown # <<>> \/ Len(got) > p.per)
    <2>1. got = <<>> => ~(Len(got) > p.per)
      BY <1>0
    <2> QED BY Zenon, <2>1
  <1>8. Len(got) > p.per => shown # <<>>
    <2> DEFINE T == {got[i] : i \in 1 .. p.per}
    <2>1. \A i \in 1 .. p.per : got[i] \in T
      OBVIOUS
    <2> HIDE DEF T
    <2>2. Len(SubSeq(got, 1, p.per)) = IF 1 <= p.per THEN p.per - 1 + 1 ELSE 0
      BY <1>0, <2>1, SubSeqProperties
    <2>3. Len(SubSeq(got, 1, p.per)) # 0 /\ Len(<<>>) = 0
      BY <1>0, <2>2
    <2>4. SubSeq(got, 1, p.per) # <<>>
      BY Zenon, <2>3
    <2> QED BY <2>4
  <1> QED BY Zenon, <1>1, <1>6, <1>7, <1>8

LEMMA PagesAreCovered == TakenAsGiven => PagesCover
  <1> SUFFICES ASSUME TakenAsGiven PROVE PagesCover
    OBVIOUS
  <1>1. ASSUME Is("pages"), subject.per > 0
        PROVE  LET log == ReadOn(LogAt, V!NoQuery, subject.total + 1)
               IN /\ ReadByKey(ReadOn(MonitorsAt, V!NoQuery, subject.total + 1), subject.keys)
                  /\ log.next = {}
                  /\ Reverse([i \in DOMAIN log.items |-> log.items[i].id]) = Rows(subject.total)
    <2>1. PICK l \in Listings : /\ subject.keys = l.keys /\ subject.orders = l.orders
                                /\ subject.total = Len(l.keys) /\ subject.per \in 0 .. MaxPer
      BY <1>1 DEF TakenAsGiven
    <2>2. subject.total \in Nat /\ subject.per \in Nat \ {0} /\ subject.per <= MaxPer
      <3>1. Len(l.keys) \in Nat
        BY ListingAssumption DEF IsList
      <3> QED BY <1>1, <2>1, <3>1, ListingAssumption
    <2>4. Leafing
      BY <2>1, ListingAssumption DEF Leafing
    <2>3. ReadByKey(ReadOn(MonitorsAt, V!NoQuery, subject.total + 1), subject.keys)
      BY Zenon, <2>2, <2>4, MonitorsCovered
    <2> QED BY Zenon, <2>2, <2>3, LogCovered
  <1>2. ASSUME Is("incidents")
        PROVE  LET q == subject.query
                   p == V!AMPage(q)
                   listed == Filter(subject.rows,
                                    {inc \in ToSet(subject.rows) : V!AMSelects(V!AMFilter(q), inc)})
               IN /\ p.per < AMListMaxLimit =>
                        ReadOn(IncidentsAt, q, Len(listed) + 1)
                           = All(SubSeq(listed, p.per * (p.page - 1) + 1, Len(listed)))
                  /\ V!HandleAMAlertsListing(subject.rows, q).empty <=> subject.rows = <<>>
    <2>1. subject.rows \in AMTables /\ subject.query \in AMQueries
      BY <1>2 DEF TakenAsGiven
    <2>2. IsList(subject.rows)
      BY <2>1, ListingAssumption
    <2>3. V!HandleAMAlertsListing(subject.rows, subject.query).empty <=> subject.rows = <<>>
      BY Zenon, <2>1, <2>2, EmptySaidRightly
    <2> DEFINE listed == Found(subject.rows, V!AMFilter(subject.query))
               p == V!AMPage(subject.query)
    <2>4. p.per < AMListMaxLimit =>
             ReadOn(IncidentsAt, subject.query, Len(listed) + 1)
                = All(SubSeq(listed, p.per * (p.page - 1) + 1, Len(listed)))
      BY Zenon, <2>1, <2>2, IncidentsCovered
    <2> QED BY Zenon, <2>3, <2>4 DEF Found
  <1> QED BY Zenon, <1>1, <1>2 DEF PagesCover

\* The links of a listing lose no row and show none twice: turning a page, sorting, taking
\* back a tag (handleMonitorsListing, handleHomepage, handleAMAlertsListing and the
\* queries behind them), for any table, any filter and any length of a page.
THEOREM ListingsAreAlwaysComplete == RulesSpec => []ListingsAreComplete
  <1>1. TakenAsGiven => ListingsAreComplete
    <2>1. LinksKeepTheListing
      BY Zenon, LinksFollow DEF LinksKeepTheListing
    <2>2. TagsOffered
      BY Zenon, TagsFollow DEF TagsOffered
    <2> QED BY Zenon, <2>1, <2>2, PagesAreCovered DEF ListingsAreComplete
  <1> QED BY <1>1, TakenInvariance, PTL
=============================================================================
