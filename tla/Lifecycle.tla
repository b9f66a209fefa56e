------------------------------ MODULE Lifecycle ------------------------------
(***************************************************************************)
(* The life of a process, RunServe of internal/lifecycle/lifecycle.go: the *)
(* steps of a start and which of them are fatal, the monitors table made   *)
(* to follow the declared monitors, the loops that share the connection    *)
(* pool with the HTTP handlers, and the order of a shutdown.  A process    *)
(* can be killed at any moment, and the next one may be started with       *)
(* another configuration.                                                  *)
(***************************************************************************)
EXTENDS Naturals, FiniteSets

CONSTANTS Slugs,        \* monitors the configuration can declare
          Loops,        \* the loops of this configuration, the HTTP server apart
          MaxLives,     \* bound on the starts
          MaxRequests   \* bound on the requests served at once

ASSUME LifecycleAssumption == MaxLives \in Nat /\ MaxRequests \in Nat

\* Names RunServe treats in a way of their own.
Kube == "kube"
Heartbeat == "heartbeat"

VARIABLES table,      \* the rows of static monitors
          declared,   \* the monitors of the configuration
          phase,      \* where RunServe is
          todo,       \* the monitors that are left of the phase
          worker,     \* the loops
          handlers,   \* requests being served
          queries,    \* those of them that hold a connection of the pool
          pool,       \* the connection pool
          signalled,  \* ctx is cancelled
          overdue,    \* the 10 s of shutdownCtx are over
          heard,      \* what the deadman service heard last of this process
          slipped,    \* history: a best-effort statement of this start failed
          lives       \* starts that are left

vars == <<table, declared, phase, todo, worker, handlers, queries, pool, signalled, overdue,
          heard, slipped, lives>>

\* What only the process itself knows.
AllOff == [w \in Loops |-> "off"]

Phases == {"down", "connect", "preflight", "reconcile", "list", "remove", "notify", "bind",
           "start", "start kube", "start heartbeat", "serving", "draining", "waiting",
           "closing", "farewell", "ended", "failed"}

Init ==
    /\ table = [m \in Slugs |-> "absent"]
    /\ declared = {} /\ phase = "down" /\ todo = {}
    /\ worker = AllOff /\ handlers = 0 /\ queries = 0 /\ pool = "none"
    /\ signalled = FALSE /\ overdue = FALSE /\ heard = "nothing" /\ slipped = FALSE
    /\ lives = MaxLives

-----------------------------------------------------------------------------
(* Starting *)

\* `toggle-monitor serve`, with the configuration as it is now.
Boot ==
    /\ phase = "down" /\ lives > 0
    /\ \E D \in SUBSET Slugs : declared' = D
    /\ phase' = "connect"
    /\ signalled' = FALSE /\ overdue' = FALSE /\ heard' = "nothing" /\ slipped' = FALSE
    /\ lives' = lives - 1
    /\ UNCHANGED <<table, todo, worker, handlers, queries, pool>>

\* An error return: the deferred pool.Close, whoever still uses the pool.
Abort ==
    /\ phase' = "failed"
    /\ pool' = IF pool = "open" THEN "closed" ELSE pool
    /\ UNCHANGED <<table, declared, todo, worker, handlers, queries, signalled, overdue, heard, slipped, lives>>

\* ConnectWithBackoff gives up after a minute, or once the context is cancelled.
Connect ==
    /\ phase = "connect"
    /\ \/ Abort
       \/ /\ ~signalled
          /\ phase' = "preflight" /\ pool' = "open"
          /\ UNCHANGED <<table, declared, todo, worker, handlers, queries, signalled, overdue, heard,
                         slipped, lives>>

\* migrate.Check, the proxies, the Slack tokens and their workspace: each may be fatal.
Preflight ==
    /\ phase = "preflight"
    /\ \/ Abort
       \/ /\ phase' = "reconcile" /\ todo' = declared
          /\ UNCHANGED <<table, declared, worker, handlers, queries, pool, signalled, overdue, heard,
                         slipped, lives>>

ReconcileKeepsArchived(m) ==                 \* mutant: archived is left out of the upsert
    [table EXCEPT ![m] = IF @ = "archived" THEN "archived" ELSE "active"]

\* ReconcileMonitor: an archived row is brought back.
Reconcile(m) == [table EXCEPT ![m] = "active"]

\* Every declared monitor; the first that fails ends the start.
ReconcileDeclared ==
    /\ phase = "reconcile"
    /\ \/ todo # {} /\ Abort
       \/ /\ ~signalled
          /\ \E m \in todo : table' = Reconcile(m) /\ todo' = todo \ {m}
          /\ UNCHANGED <<declared, phase, worker, handlers, queries, pool, signalled, overdue, heard,
                         slipped, lives>>
       \/ /\ todo = {} /\ phase' = "list"
          /\ UNCHANGED <<table, declared, todo, worker, handlers, queries, pool, signalled, overdue,
                         heard, slipped, lives>>

\* ListActiveBySource.
Active == {m \in Slugs : table[m] = "active"}

\* A failure to list is only logged, and nothing is removed.
ListPrior ==
    /\ phase = "list"
    /\ \/ ~signalled /\ todo' = Active \ declared /\ UNCHANGED slipped
       \/ todo' = {} /\ slipped' = TRUE
    /\ phase' = "remove"
    /\ UNCHANGED <<table, declared, worker, handlers, queries, pool, signalled, overdue, heard, lives>>

\* SoftDeleteMonitor for a monitor that is no longer declared; a failure, which may be
\* that of the answer only, skips it.
RemoveUndeclared ==
    /\ phase = "remove"
    /\ \/ /\ \E m \in todo :
              /\ todo' = todo \ {m}
              /\ \/ /\ ~signalled
                    /\ table' = [table EXCEPT ![m] = "archived"]
                    /\ phase' = "notify" /\ UNCHANGED slipped
                 \/ /\ table' \in {table, [table EXCEPT ![m] = "archived"]}
                    /\ slipped' = TRUE /\ UNCHANGED phase
       \/ /\ todo = {} /\ phase' = "bind" /\ UNCHANGED <<table, todo, slipped>>
    /\ UNCHANGED <<declared, worker, handlers, queries, pool, signalled, overdue, heard, lives>>

Enter(from, to) ==
    /\ phase = from /\ phase' = to
    /\ UNCHANGED <<table, declared, todo, worker, handlers, queries, pool, signalled, overdue, heard,
                   slipped, lives>>

\* NotifyRemoved, best effort.
NotifyRemoved == Enter("notify", "remove")

\* The Alertmanager handler, the listener; the groups are reattached, best effort.
Bind == Enter("bind", "start") \/ (phase = "bind" /\ Abort)

StartLoops(from, to, W) ==
    /\ phase = from /\ phase' = to
    /\ worker' = [w \in Loops |-> IF w \in W THEN "idle" ELSE worker[w]]
    /\ UNCHANGED <<table, declared, todo, handlers, queries, pool, signalled, overdue, heard, slipped, lives>>

\* The listener is served and the loops run from here on.
StartMost == StartLoops("start", "start kube", Loops \ {Kube, Heartbeat})

\* NewWithCluster can fail, when everything else is running already.
StartKube ==
    \/ StartLoops("start kube", "start heartbeat", Loops \cap {Kube})
    \/ phase = "start kube" /\ Kube \in Loops /\ Abort

StartHeartbeat == StartLoops("start heartbeat", "serving", Loops \cap {Heartbeat})

-----------------------------------------------------------------------------
(* Running *)

Running == {"start kube", "start heartbeat", "serving", "draining", "waiting"}

Listening == phase \in {"start kube", "start heartbeat", "serving"}

Serve(h, q) ==
    /\ handlers' = h /\ queries' = q
    /\ UNCHANGED <<table, declared, phase, todo, worker, pool, signalled, overdue, heard, slipped, lives>>

\* Nothing bounds how long a handler takes, and its context is not RunServe's.
Request == Listening /\ handlers < MaxRequests /\ Serve(handlers + 1, queries)

Respond == phase # "down" /\ handlers > queries /\ Serve(handlers - 1, queries)

\* A statement of a handler: a closed pool refuses it a connection.
Query == pool = "open" /\ handlers > queries /\ Serve(handlers, queries + 1)

Answered == phase # "down" /\ queries > 0 /\ Serve(handlers, queries - 1)

MoveWorker(w, from, to) ==
    /\ phase \notin {"down", "failed"}
    /\ worker[w] = from
    /\ worker' = [worker EXCEPT ![w] = to]
    /\ UNCHANGED <<table, declared, phase, todo, handlers, queries, pool, signalled, overdue, slipped, lives>>

\* A pass of a loop: select may prefer the ticker although ctx is done.
Wake(w) == MoveWorker(w, "idle", "busy") /\ UNCHANGED heard

\* The pass ends, after a signal because its statements fail; a heartbeat is posted,
\* to the /fail URL if the checks have stalled, unless it is lost.
Finish(w) ==
    /\ MoveWorker(w, "busy", "idle")
    /\ \/ UNCHANGED heard
       \/ w = Heartbeat /\ heard' \in {"beat", "fail"}

Quit(w) == signalled /\ MoveWorker(w, "idle", "done") /\ UNCHANGED heard

\* SIGTERM or an interrupt.
Signal ==
    /\ phase \notin {"down", "ended", "failed"} /\ ~signalled
    /\ signalled' = TRUE
    /\ UNCHANGED <<table, declared, phase, todo, worker, handlers, queries, pool, overdue, heard, slipped, lives>>

-----------------------------------------------------------------------------
(* Stopping *)

\* shutdownCtx begins and the listener closes.
Shutdown == signalled /\ Enter("serving", "draining")

Overrun ==
    /\ phase \in {"draining", "waiting", "closing", "farewell"} /\ ~overdue
    /\ overdue' = TRUE
    /\ UNCHANGED <<table, declared, phase, todo, worker, handlers, queries, pool, signalled, heard, slipped, lives>>

DrainedEmpty == handlers = 0                 \* mutant: Shutdown without a deadline

\* httpServer.Shutdown returns.
Drained == handlers = 0 \/ overdue

StopServing == Drained /\ Enter("draining", "waiting")

AllButKubeDone ==                            \* mutant: the watcher is not in the wait group
    \A w \in Loops \ {Kube} : worker[w] = "done"

\* wg.Wait: the HTTP server's goroutine ended when the listener closed.
AllDone == \A w \in Loops : worker[w] = "done"

\* pool.Close: no connection is given out any more.
ClosePool ==
    /\ phase = "waiting" /\ AllDone
    /\ phase' = "closing" /\ pool' = "closed"
    /\ UNCHANGED <<table, declared, todo, worker, handlers, queries, signalled, overdue, heard,
                   slipped, lives>>

\* It returns when the connections are back.
PoolClosed == queries = 0 /\ Enter("closing", "farewell")

\* SendShutdown, with what is left of the 10 s.
Farewell ==
    /\ phase = "farewell" /\ phase' = "ended"
    /\ \/ UNCHANGED heard
       \/ Heartbeat \in Loops /\ ~overdue /\ heard' = "shutdown"
    /\ UNCHANGED <<table, declared, todo, worker, handlers, queries, pool, signalled, overdue, slipped, lives>>

\* The process is gone, killed or of its own accord; the table stays.
Gone ==
    /\ phase # "down" /\ lives > 0
    /\ phase' = "down" /\ todo' = {}
    /\ worker' = AllOff /\ handlers' = 0 /\ queries' = 0 /\ pool' = "none"
    /\ UNCHANGED <<table, declared, signalled, overdue, heard, slipped, lives>>

-----------------------------------------------------------------------------

RunServe ==
    \/ Connect \/ Preflight \/ ReconcileDeclared \/ ListPrior \/ RemoveUndeclared \/ NotifyRemoved
    \/ Bind \/ StartMost \/ StartKube \/ StartHeartbeat
    \/ Shutdown \/ StopServing \/ ClosePool \/ PoolClosed \/ Farewell

Next ==
    \/ Boot \/ RunServe \/ Request \/ Respond \/ Query \/ Answered \/ Signal \/ Overrun \/ Gone
    \/ \E w \in Loops : Wake(w) \/ Finish(w) \/ Quit(w)

\* RunServe goes on, the clock too, a pass comes to its end (its calls take the
\* cancelled context), select does not prefer the ticker for ever, and the database
\* answers a statement or drops its connection.
Fairness ==
    /\ WF_vars(RunServe) /\ WF_vars(Overrun) /\ WF_vars(Answered)
    /\ \A w \in Loops : WF_vars(Finish(w)) /\ SF_vars(Quit(w))

Spec == Init /\ [][Next]_vars /\ Fairness

-----------------------------------------------------------------------------
(* Properties *)

TypeOK ==
    /\ table \in [Slugs -> {"absent", "active", "archived"}]
    /\ declared \subseteq Slugs /\ todo \subseteq Slugs
    /\ phase \in Phases
    /\ worker \in [Loops -> {"off", "idle", "busy", "done"}]
    /\ handlers \in Nat /\ queries \in 0 .. handlers /\ pool \in {"none", "open", "closed"}
    /\ signalled \in BOOLEAN /\ overdue \in BOOLEAN /\ slipped \in BOOLEAN
    /\ heard \in {"nothing", "beat", "fail", "shutdown"}
    /\ lives \in Nat

\* The pool outlives whoever uses it, but for a handler that outlasts the ten seconds
\* and a kube watcher that could not be built, and "shutdown" is the last word the
\* deadman service hears, of a process that asks nothing of the database any more.
StopsInOrder ==
    /\ pool = "closed" /\ phase # "failed" =>
          /\ \A w \in Loops : worker[w] = "done"
          /\ handlers > 0 => overdue
          /\ queries > 0 => phase # "farewell"
    /\ \A w \in Loops : worker[w] = "busy" =>
          pool = "open" \/ (phase = "failed" /\ Kube \in Loops)
    /\ heard = "shutdown" =>
          /\ phase \in {"ended", "down"}
          /\ signalled /\ \A w \in Loops : worker[w] \notin {"idle", "busy"}

\* From the moment the scheduler runs, what is monitored is what the configuration
\* declares, whatever earlier processes with other configurations left half done; a
\* removal that failed leaves more, never less.
StartFollowsConfig ==
    phase \in Running =>
        /\ declared \subseteq Active
        /\ ~slipped => Active = declared

\* A process that is told to stop ends, even if a request never does: only its
\* statement, if it is in one, has to.
StopsWhenTold == signalled ~> phase \in {"ended", "failed", "down"}
=============================================================================
