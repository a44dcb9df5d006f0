------------------------------ MODULE Shutdown ------------------------------
(***************************************************************************)
(* server.Serve and the end of main.run: the signal, the drain of HTTP     *)
(* requests with its ten seconds, the deferred join of the two background  *)
(* workers, and the close of the database.                                 *)
(***************************************************************************)
EXTENDS Integers

CONSTANT Handler    \* goroutines of net/http

Worker == {"maintenance", "imports"}

VARIABLES
    mainAt,         \* where run and Serve are
    signalled,      \* ctx of NotifyContext is done
    stopWorkers,    \* stopMaintenance was called
    listener,       \* "accepting", "draining", "closed"
    handlers,       \* the requests that are being served
    workers,        \* the background goroutines that are running
    database,       \* "open" or "closed"
    outcome         \* what Serve returned

shutdownVars == <<mainAt, signalled, stopWorkers, listener, handlers, workers, database, outcome>>

ShutdownInit ==
    /\ mainAt = "select" /\ signalled = FALSE /\ stopWorkers = FALSE
    /\ listener = "accepting" /\ handlers = {} /\ workers = Worker
    /\ database = "open" /\ outcome = "none"

Signal ==
    /\ mainAt # "gone" /\ ~signalled /\ signalled' = TRUE
    /\ UNCHANGED <<mainAt, stopWorkers, listener, handlers, workers, database, outcome>>

HandlerStarts(h) ==
    /\ listener = "accepting" /\ h \notin handlers
    /\ handlers' = handlers \cup {h}
    /\ UNCHANGED <<mainAt, signalled, stopWorkers, listener, workers, database, outcome>>

HandlerEnds(h) ==
    /\ h \in handlers /\ handlers' = handlers \ {h}
    /\ UNCHANGED <<mainAt, signalled, stopWorkers, listener, workers, database, outcome>>

\* imports.Run and maintain return once their context is done, which is that of
\* the signal as well as stopMaintenance's.
WorkerEnds(w) ==
    /\ signalled \/ stopWorkers
    /\ w \in workers /\ workers' = workers \ {w}
    /\ UNCHANGED <<mainAt, signalled, stopWorkers, listener, handlers, database, outcome>>

Move(from, to) == mainAt = from /\ mainAt' = to

\* srv.Serve returns by itself: the listener failed.
ListenerFails ==
    /\ Move("select", "deferred") /\ listener = "accepting"
    /\ listener' = "closed" /\ outcome' = "error"
    /\ UNCHANGED <<signalled, stopWorkers, handlers, workers, database>>

ShutdownBegins ==
    /\ Move("select", "shutdown") /\ signalled
    /\ listener' = "draining"
    /\ UNCHANGED <<signalled, stopWorkers, handlers, workers, database, outcome>>

\* Mutant: Shutdown returns as soon as the listener is closed.
IsDrainedAtOnce == TRUE

\* What srv.Shutdown waits for.
IsDrained == handlers = {}

Drained ==
    /\ Move("shutdown", "deferred") /\ IsDrained
    /\ listener' = "closed" /\ outcome' = "ok"
    /\ UNCHANGED <<signalled, stopWorkers, handlers, workers, database>>

\* Mutant: no deadline, as long as somebody is being served.
MayGiveUpNot == handlers = {}

\* shutdownCtx is done after ten seconds, whoever is being served.
MayGiveUp == TRUE

\* srv.Close cuts the connections; it does not wait for the handlers.
DrainTimeout ==
    /\ Move("shutdown", "deferred") /\ MayGiveUp
    /\ listener' = "closed" /\ outcome' = "error"
    /\ UNCHANGED <<signalled, stopWorkers, handlers, workers, database>>

StopMaintenance ==
    /\ Move("deferred", "join") /\ stopWorkers' = TRUE
    /\ UNCHANGED <<signalled, listener, handlers, workers, database, outcome>>

\* Mutant: joins the maintenance goroutine only.
JoinedOne == "maintenance" \notin workers

\* <-maintenanceDone; <-importsDone
Joined == workers = {}

Join ==
    /\ Move("join", "returned") /\ Joined
    /\ UNCHANGED <<signalled, stopWorkers, listener, handlers, workers, database, outcome>>

\* The deferred db.Close of run.
CloseDatabase ==
    /\ Move("returned", "exit") /\ database' = "closed"
    /\ UNCHANGED <<signalled, stopWorkers, listener, handlers, workers, outcome>>

\* main returns or calls os.Exit, and whatever still runs is gone.
Exit ==
    /\ Move("exit", "gone") /\ handlers' = {}
    /\ UNCHANGED <<signalled, stopWorkers, listener, workers, database, outcome>>

MainStep ==
    \/ ShutdownBegins \/ Drained \/ DrainTimeout \/ StopMaintenance \/ Join
    \/ CloseDatabase \/ Exit

ShutdownNext ==
    \/ MainStep \/ Signal \/ ListenerFails
    \/ \E h \in Handler : HandlerStarts(h) \/ HandlerEnds(h)
    \/ \E w \in Worker : WorkerEnds(w)

ShutdownSpec == ShutdownInit /\ [][ShutdownNext]_shutdownVars

\* The main goroutine goes on, its timer fires, and the workers notice that
\* their context is done.  Nothing is assumed of handlers: an upload may take
\* ten minutes.
ShutdownFairness == WF_shutdownVars(MainStep) /\ \A w \in Worker : WF_shutdownVars(WorkerEnds(w))

-----------------------------------------------------------------------------
\* docs/export-immich.md: SIGTERM joins the workers before closing SQLite.  And
\* the database is closed under a request only when Serve says that it failed.
ClosedAfterUse ==
    database = "closed" => workers = {} /\ (handlers # {} => outcome = "error")

\* A process that was told to stop does, however long its requests take.
ShutdownEnds == signalled ~> mainAt = "gone"

=============================================================================
