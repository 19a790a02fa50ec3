------------------------------ MODULE Lifecycle ------------------------------
(***************************************************************************)
(* The processes of one data directory: `droppoint serve`, and the         *)
(* commands run beside it (cmd/droppoint/main.go).  Each opens the         *)
(* database and applies the schema (internal/store/store.go, migrate.go);  *)
(* a server then recovers interrupted uploads, listens, runs its cleanup   *)
(* loop and stops on a signal (internal/server/server.go).                 *)
(*                                                                         *)
(* Inside a server four goroutines run: the main one, the listener, the    *)
(* cleanup loop and the handlers, of which one upload stands for all.      *)
(* What cleanup and uploads do is the subject of Relay; here an upload     *)
(* settles its row or leaves it, and a pass recovers rows that were left.  *)
(***************************************************************************)
EXTENDS Naturals, Sequences, FiniteSets

CONSTANTS Servers,  \* `droppoint serve` processes
          Commands, \* `droppoint token ...` and `droppoint cleanup expired`
          Nobody,
          MaxFaults \* bound: kills and listener failures in one behaviour

Procs == Servers \cup Commands

ASSUME LifecycleAssumption ==
  /\ Servers \cap Commands = {} /\ Nobody \notin Procs
  /\ MaxFaults \in Nat

VARIABLES version,  \* user_version of the database
          tables,   \* its tables, each with its indexes
          legacy,   \* the database was there before, made by an unreleased version
          rows,     \* receiving rows: who took the upload, and what became of its handler
          port,     \* server that holds the listen address
          pc,       \* where the main goroutine is
          done,     \* statements of schemaSQL executed
          outcome,  \* of the last life: "none", "ok", "error" or "refused"
          sig,      \* a termination signal has arrived
          listener, \* "none", "starting", "accepting", "stopping" or "closed"
          errCh,    \* what the listener sent: "empty", "nil" or "error"
          loop,     \* the cleanup loop: "none", "pass", "waiting" or "done"
          stopped,  \* stopCleanup was called
          handler,  \* an upload is being handled
          faults

dbVars == <<version, tables, legacy>>
goVars == <<listener, errCh, loop, stopped, handler>>
vars == <<dbVars, rows, port, pc, done, outcome, sig, goVars, faults>>

\* A row's handler is at work on it, or has given it up, or died with an earlier life of
\* its server.
Fates == {"handled", "abandoned", "earlier"}

\* Rows that a periodic reconciliation may take: no handler's row is ever stale
\* (HandlersInTime in Relay).
Interrupted == {row \in rows : row[2] # "handled"}

Schema == <<"drop_points", "submissions", "api_tokens">>
AllTables == {Schema[i] : i \in DOMAIN Schema}

Init ==
  /\ legacy \in BOOLEAN
  /\ version = 0 /\ tables = IF legacy THEN {"drop_points", "api_tokens"} ELSE {}
  /\ rows = {} /\ port = Nobody
  /\ pc = [p \in Procs |-> "off"] /\ done = [p \in Procs |-> 0]
  /\ outcome = [p \in Procs |-> "none"] /\ sig = [p \in Procs |-> FALSE]
  /\ listener = [p \in Procs |-> "none"] /\ errCh = [p \in Procs |-> "empty"]
  /\ loop = [p \in Procs |-> "none"] /\ stopped = [p \in Procs |-> FALSE]
  /\ handler = [p \in Procs |-> FALSE]
  /\ faults = 0

Goto(p, next) == pc' = [pc EXCEPT ![p] = next]

Fault == faults < MaxFaults /\ faults' = faults + 1

\* The process is gone, and with it its goroutines, its lock on the port and its signals;
\* the rows it has not recovered stay.
Ends(p, how, recovered) ==
  /\ Goto(p, "off")
  /\ rows' = {IF row[1] = p THEN <<p, "earlier">> ELSE row : row \in rows \ recovered}
  /\ outcome' = [outcome EXCEPT ![p] = how]
  /\ done' = [done EXCEPT ![p] = 0] /\ sig' = [sig EXCEPT ![p] = FALSE]
  /\ listener' = [listener EXCEPT ![p] = "none"] /\ errCh' = [errCh EXCEPT ![p] = "empty"]
  /\ loop' = [loop EXCEPT ![p] = "none"] /\ stopped' = [stopped EXCEPT ![p] = FALSE]
  /\ handler' = [handler EXCEPT ![p] = FALSE]
  /\ port' = IF port = p THEN Nobody ELSE port

-----------------------------------------------------------------------------
(* store.Open and Migrate *)

Start(p) ==
  /\ pc[p] = "off"
  /\ Goto(p, "version")
  /\ outcome' = [outcome EXCEPT ![p] = "none"]
  /\ UNCHANGED <<dbVars, rows, port, done, sig, goVars, faults>>

ReadVersion(p) ==
  /\ pc[p] = "version"
  /\ Goto(p, IF version = 0 THEN "inspect" ELSE "create")
  /\ UNCHANGED <<dbVars, rows, port, done, outcome, sig, goVars, faults>>

RelayTablesExist == tables \cap {"drop_points", "api_tokens"} # {}

\* Mutant of Inspect: tables that are there are taken for the current schema.
InspectTrusting(p) ==
  /\ pc[p] = "inspect"
  /\ Goto(p, IF RelayTablesExist THEN IF p \in Servers THEN "recover" ELSE "work" ELSE "create")
  /\ UNCHANGED <<dbVars, rows, port, done, outcome, sig, goVars, faults>>

Inspect(p) ==
  /\ pc[p] = "inspect"
  /\ ~RelayTablesExist
  /\ Goto(p, "create")
  /\ UNCHANGED <<dbVars, rows, port, done, outcome, sig, goVars, faults>>

Refuse(p) ==
  /\ pc[p] = "inspect"
  /\ RelayTablesExist
  /\ Ends(p, "refused", {})
  /\ UNCHANGED <<dbVars, faults>>

\* One CREATE TABLE IF NOT EXISTS of schemaSQL: there is no transaction around them.
CreateTable(p) ==
  /\ pc[p] = "create" /\ done[p] < Len(Schema)
  /\ tables' = tables \cup {Schema[done[p] + 1]}
  /\ done' = [done EXCEPT ![p] = @ + 1]
  /\ UNCHANGED <<version, legacy, rows, port, pc, outcome, sig, goVars, faults>>

\* PRAGMA user_version = 3, the last statement.
SetVersion(p) ==
  /\ pc[p] = "create" /\ done[p] = Len(Schema)
  /\ version' = 3
  /\ Goto(p, IF p \in Servers THEN "recover" ELSE "work")
  /\ UNCHANGED <<tables, legacy, rows, port, done, outcome, sig, goVars, faults>>

\* A server opens its database under the context that a signal cancels.
OpenFails(p) ==
  /\ p \in Servers /\ sig[p]
  /\ pc[p] \in {"version", "inspect", "create"}
  /\ Ends(p, "error", {})
  /\ UNCHANGED <<dbVars, faults>>

\* A command does its work, which may be to recover stale rows, and closes the database.
Work(p) ==
  /\ pc[p] = "work"
  /\ \E recovered \in SUBSET Interrupted : Ends(p, "ok", recovered)
  /\ UNCHANGED <<dbVars, faults>>

-----------------------------------------------------------------------------
(* The main goroutine of a server *)

\* ListenAndServe starts the loop and the listener.
Launch(p) ==
  /\ Goto(p, "select")
  /\ loop' = [loop EXCEPT ![p] = "pass"]
  /\ listener' = [listener EXCEPT ![p] = "starting"]
  /\ UNCHANGED <<errCh, stopped, handler>>

\* Mutant of Recover: the rows are left to the first pass of the loop.
RecoverLater(p) ==
  /\ pc[p] = "recover"
  /\ Launch(p)
  /\ UNCHANGED <<dbVars, rows, port, done, outcome, sig, faults>>

\* ReconcileStartup: every receiving row is taken for interrupted.
Recover(p) ==
  /\ pc[p] = "recover"
  /\ rows' = {}
  /\ Launch(p)
  /\ UNCHANGED <<dbVars, port, done, outcome, sig, faults>>

\* Its context is cancelled, before the first row or after some or all of them.
RecoverFails(p) ==
  /\ pc[p] = "recover" /\ sig[p]
  /\ \E recovered \in SUBSET rows : Ends(p, "error", recovered)
  /\ UNCHANGED <<dbVars, faults>>

\* Mutant of Leave: the loop is waited for before it is told to stop.
LeaveWaiting(p, how) ==
  /\ Goto(p, "join")
  /\ outcome' = [outcome EXCEPT ![p] = how]
  /\ UNCHANGED stopped

\* ListenAndServe returns: its deferred function stops the loop, then waits for it.
Leave(p, how) ==
  /\ Goto(p, "join")
  /\ outcome' = [outcome EXCEPT ![p] = how]
  /\ stopped' = [stopped EXCEPT ![p] = TRUE]

Received(p) == IF errCh[p] = "nil" THEN "ok" ELSE "error"

\* The listener failed, at once or later: what handlers there are go on.
ListenerFailed(p) ==
  /\ pc[p] = "select" /\ errCh[p] # "empty"
  /\ Leave(p, Received(p))
  /\ errCh' = [errCh EXCEPT ![p] = "empty"]
  /\ UNCHANGED <<dbVars, rows, port, done, sig, listener, loop, handler, faults>>

\* ctx.Done: Shutdown closes the listener and waits for the handlers.
Shutdown(p) ==
  /\ pc[p] = "select" /\ sig[p]
  /\ Goto(p, "drain")
  /\ listener' = [listener EXCEPT ![p] = IF @ = "accepting" THEN "stopping" ELSE @]
  /\ port' = IF port = p THEN Nobody ELSE port
  /\ UNCHANGED <<dbVars, rows, done, outcome, sig, errCh, loop, stopped, handler, faults>>

Drained(p) ==
  /\ pc[p] = "drain" /\ ~handler[p]
  /\ Goto(p, "result")
  /\ UNCHANGED <<dbVars, rows, port, done, outcome, sig, goVars, faults>>

\* Ten seconds were not enough: ListenAndServe returns with handlers still running.
DrainTimesOut(p) ==
  /\ pc[p] = "drain" /\ handler[p]
  /\ Leave(p, "error")
  /\ UNCHANGED <<dbVars, rows, port, done, sig, listener, errCh, loop, handler, faults>>

\* return <-errCh
Result(p) ==
  /\ pc[p] = "result" /\ errCh[p] # "empty"
  /\ Leave(p, Received(p))
  /\ errCh' = [errCh EXCEPT ![p] = "empty"]
  /\ UNCHANGED <<dbVars, rows, port, done, sig, listener, loop, handler, faults>>

\* Mutant of Joined: ListenAndServe does not wait for the loop.
JoinedAtOnce(p) ==
  /\ pc[p] = "join"
  /\ Goto(p, "close")
  /\ UNCHANGED <<dbVars, rows, port, done, outcome, sig, goVars, faults>>

\* <-cleanupDone
Joined(p) ==
  /\ pc[p] = "join" /\ loop[p] = "done"
  /\ Goto(p, "close")
  /\ UNCHANGED <<dbVars, rows, port, done, outcome, sig, goVars, faults>>

\* srv.Close, deferred in run: from here on every statement fails.
Close(p) ==
  /\ pc[p] = "close"
  /\ Goto(p, "exit")
  /\ UNCHANGED <<dbVars, rows, port, done, outcome, sig, goVars, faults>>

Exit(p) ==
  /\ pc[p] = "exit"
  /\ Ends(p, outcome[p], {})
  /\ UNCHANGED <<dbVars, faults>>

MainStep(p) ==
  \/ ReadVersion(p) \/ Inspect(p) \/ Refuse(p) \/ CreateTable(p) \/ SetVersion(p)
  \/ OpenFails(p) \/ Work(p)
  \/ Recover(p) \/ RecoverFails(p)
  \/ ListenerFailed(p) \/ Shutdown(p) \/ Drained(p) \/ DrainTimesOut(p) \/ Result(p)
  \/ Joined(p) \/ Close(p) \/ Exit(p)

-----------------------------------------------------------------------------
(* The other goroutines *)

ToListener(p, state, sent) ==
  /\ listener' = [listener EXCEPT ![p] = state]
  /\ errCh' = [errCh EXCEPT ![p] = sent]
  /\ UNCHANGED <<dbVars, rows, pc, done, outcome, sig, loop, stopped, handler>>

\* http.Server.ListenAndServe: refused after Shutdown, and when the address is in use.
Listen(p) ==
  /\ listener[p] = "starting"
  /\ CASE pc[p] # "select" -> ToListener(p, "closed", "nil") /\ UNCHANGED port
       [] pc[p] = "select" /\ port # Nobody -> ToListener(p, "closed", "error") /\ UNCHANGED port
       [] OTHER -> ToListener(p, "accepting", "empty") /\ port' = p
  /\ UNCHANGED faults

\* Serve returns ErrServerClosed, which is sent as nil.
ListenerStops(p) ==
  /\ listener[p] = "stopping"
  /\ ToListener(p, "closed", "nil")
  /\ UNCHANGED <<port, faults>>

\* The address belongs to another program, or accepting fails for good.
ListenerFails(p) ==
  /\ listener[p] \in {"starting", "accepting"}
  /\ ToListener(p, "closed", "error")
  /\ port' = IF port = p THEN Nobody ELSE port
  /\ Fault

\* A pass comes to its end: by itself, by an error, or because its context is done.  It
\* has recovered the rows that were stale, or some of them.
PassEnds(p) ==
  /\ loop[p] = "pass"
  /\ loop' = [loop EXCEPT ![p] = "waiting"]
  /\ \E recovered \in SUBSET Interrupted : rows' = rows \ recovered
  /\ UNCHANGED <<dbVars, port, pc, done, outcome, sig, listener, errCh, stopped, handler, faults>>

\* The select of the loop takes either case that is ready.
TickerFires(p) ==
  /\ loop[p] = "waiting"
  /\ loop' = [loop EXCEPT ![p] = "pass"]
  /\ UNCHANGED <<dbVars, rows, port, pc, done, outcome, sig, listener, errCh, stopped, handler, faults>>

LoopStops(p) ==
  /\ loop[p] = "waiting" /\ stopped[p]
  /\ loop' = [loop EXCEPT ![p] = "done"]
  /\ UNCHANGED <<dbVars, rows, port, pc, done, outcome, sig, listener, errCh, stopped, handler, faults>>

AcceptUpload(p) ==
  /\ listener[p] = "accepting" /\ ~handler[p]
  /\ handler' = [handler EXCEPT ![p] = TRUE]
  /\ rows' = rows \cup {<<p, "handled">>}
  /\ UNCHANGED <<dbVars, port, pc, done, outcome, sig, listener, errCh, loop, stopped, faults>>

\* The row was inserted but BeginSubmission returned an error: its handler answers at once.
BeginLost(p) ==
  /\ listener[p] = "accepting"
  /\ rows' = rows \cup {<<p, "abandoned">>}
  /\ UNCHANGED <<dbVars, port, pc, done, outcome, sig, goVars, faults>>

\* The upload is committed, or undone and its row removed.
UploadSettles(p) ==
  /\ handler[p] /\ pc[p] # "exit"
  /\ handler' = [handler EXCEPT ![p] = FALSE]
  /\ rows' = rows \ {<<p, "handled">>}
  /\ UNCHANGED <<dbVars, port, pc, done, outcome, sig, listener, errCh, loop, stopped, faults>>

\* Its commit is ambiguous, or undoing it fails or takes too long, as everything does once
\* the database is closed: the handler answers 500 and leaves the row to cleanup.
UploadGivesUp(p) ==
  /\ handler[p]
  /\ handler' = [handler EXCEPT ![p] = FALSE]
  /\ rows' = {IF row = <<p, "handled">> THEN <<p, "abandoned">> ELSE row : row \in rows}
  /\ UNCHANGED <<dbVars, port, pc, done, outcome, sig, listener, errCh, loop, stopped, faults>>

UploadEnds(p) == UploadSettles(p) \/ UploadGivesUp(p)

-----------------------------------------------------------------------------
(* What happens to a process *)

Signal(p) ==
  /\ p \in Servers /\ pc[p] # "off" /\ ~sig[p]
  /\ sig' = [sig EXCEPT ![p] = TRUE]
  /\ UNCHANGED <<dbVars, rows, port, pc, done, outcome, goVars, faults>>

\* A crash of a server, or a signal to a command, which does not handle it.
Kill(p) ==
  /\ pc[p] # "off"
  /\ Ends(p, "error", {})
  /\ UNCHANGED dbVars
  /\ Fault

Next ==
  \E p \in Procs :
    \/ Start(p) \/ MainStep(p) \/ Signal(p) \/ Kill(p)
    \/ Listen(p) \/ ListenerStops(p) \/ ListenerFails(p)
    \/ PassEnds(p) \/ TickerFires(p) \/ LoopStops(p)
    \/ AcceptUpload(p) \/ BeginLost(p) \/ UploadEnds(p)

\* Goroutines run on; timeouts end handlers, passes and the drain; a select with two
\* ready cases takes either in the long run.
Fairness ==
  \A p \in Procs :
    /\ WF_vars(MainStep(p))
    /\ WF_vars(Listen(p)) /\ WF_vars(ListenerStops(p))
    /\ WF_vars(PassEnds(p)) /\ SF_vars(LoopStops(p))
    /\ WF_vars(UploadEnds(p))

Spec == Init /\ [][Next]_vars /\ Fairness

-----------------------------------------------------------------------------
(* Properties *)

\* Whoever gets past Open finds every table under the current version, whatever other
\* processes were opening or were killed while they did (migrate.go:72-96).
OpenSchemaIsComplete ==
  \A p \in Procs : pc[p] \notin {"off", "version", "inspect", "create"} =>
    version = 3 /\ tables = AllTables

\* With one server: what an earlier life left behind is recovered before the first request
\* is accepted, however that life ended and however often a start failed half-way.  The
\* rows it finds while it listens are those of uploads of its own life, at work or given
\* up (SPEC.md:108, server.go:55).
ServingHasRecovered ==
  \A p \in Servers : listener[p] = "accepting" => \A row \in rows : row[2] # "earlier"

\* The database is closed after the last pass, and a handler meets a closed database only
\* if the drain timed out or the listener failed: never on a clean exit (server.go:97-121).
ClosedAfterUse ==
  \A p \in Servers : pc[p] = "exit" =>
    loop[p] = "done" /\ (handler[p] => outcome[p] = "error")

\* A signalled server stops, whatever it was doing (server.go:111-121).
SignalledStops == \A p \in Servers : sig[p] ~> pc[p] = "off"

\* "DropPoint is unreleased, so unversioned legacy relay tables are rejected"
\* (migrate.go:69): and nothing else is.
RefusedIsLegacy == \A p \in Procs : outcome[p] = "refused" => legacy

\* "Startup reconciliation MUST recover every interrupted `receiving` submission"
\* (SPEC.md:108): one whose handler is at work is not interrupted.
OnlyInterruptedRecovered ==
  [][\A q \in Servers : <<q, "handled">> \in rows \ rows' => ~handler'[q]]_vars
=============================================================================
