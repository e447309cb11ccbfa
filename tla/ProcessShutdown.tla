---------------------------- MODULE ProcessShutdown ----------------------------
(***************************************************************************)
(* Life and end of the three processes, cmd/worker, cmd/server and         *)
(* cmd/tx_indexer.  The main function starts the metrics server, sets the  *)
(* rest up, starts the health server in a goroutine, blocks in one call    *)
(* (consumer.Run, srv.Start(ctx), worker.Run) and leaves through its       *)
(* deferred calls, the last one deferred first: metricsServer.Stop(ctx),   *)
(* then cancel().  logger.Fatalf ends the process without them.            *)
(*                                                                         *)
(* The mains differ in two ways.  Server and indexer cancel ctx as soon as *)
(* a signal arrives; the worker leaves signals to consumer.Run and cancels *)
(* at its end.  Worker and indexer let the goroutine of the health server  *)
(* assign the variable err of main, without synchronisation.               *)
(***************************************************************************)
EXTENDS FiniteSets

CONSTANT
  Scrapers   \* connections to the metrics server

VARIABLES
  program,    \* which of the three, the same for ever
  main,       \* where the main function is
  signalled,  \* SIGINT or SIGTERM arrived
  cancelled,  \* ctx is done
  result,     \* what the blocking call returned
  err,        \* the variable err of main
  health,     \* the goroutine of the health server
  listening,  \* the metrics server accepts connections
  scrapes,    \* connections with a request in progress
  exit        \* how the process ended, and whether it cut a request off

vars == <<program, main, signalled, cancelled, result, err, health, listening, scrapes,
          exit>>

Locations == {"starting", "running", "returned", "stopping", "draining",
              "cancelling", "leaving", "exited"}

Programs == {"worker", "server", "tx_indexer"}

Alive == [how |-> "alive", cut |-> FALSE]

TypeOK ==
  /\ program \in Programs
  /\ main \in Locations
  /\ signalled \in BOOLEAN
  /\ cancelled \in BOOLEAN
  /\ result \in {"none", "nil", "error"}
  /\ err \in {"nil", "error"}
  /\ health \in {"none", "serving", "done"}
  /\ listening \in BOOLEAN
  /\ scrapes \subseteq Scrapers
  /\ exit \in [how : {"alive", "ok", "fatal", "killed"}, cut : BOOLEAN]

(* Metrics may be disabled, or their port taken. *)
Init ==
  /\ program \in Programs
  /\ main = "starting"
  /\ signalled = FALSE
  /\ cancelled = FALSE
  /\ result = "none"
  /\ err = "nil"
  /\ health = "none"
  /\ listening \in BOOLEAN
  /\ scrapes = {}
  /\ exit = Alive

-----------------------------------------------------------------------------
Exit(how) ==
  /\ main' = "exited"
  /\ exit' = [how |-> how, cut |-> scrapes # {}]

(* Some part could not be set up, or a signal came before anyone asked for *)
(* signals.                                                                *)
StartupEnds ==
  /\ main = "starting"
  /\ \E how \in {"fatal", "killed"} : Exit(how)
  /\ UNCHANGED <<program, signalled, cancelled, result, err, health, listening, scrapes>>

(* Everything is set up; main enters the blocking call. *)
Serve ==
  /\ main = "starting"
  /\ main' = "running"
  /\ health' = IF program = "server" THEN "none" ELSE "serving"
  /\ UNCHANGED <<program, signalled, cancelled, result, err, listening, scrapes, exit>>

Signal ==
  /\ main \notin {"starting", "exited"}
  /\ ~signalled
  /\ signalled' = TRUE
  /\ UNCHANGED <<program, main, cancelled, result, err, health, listening, scrapes, exit>>

(* Faulty variant: the goroutine logs the signal and forgets to cancel. *)
LogSignal ==
  /\ program # "worker"
  /\ signalled
  /\ ~cancelled
  /\ main # "exited"
  /\ UNCHANGED vars

(* The goroutine of server and indexer that waits for the signal. *)
CancelOnSignal ==
  /\ program # "worker"
  /\ signalled
  /\ ~cancelled
  /\ main # "exited"
  /\ cancelled' = TRUE
  /\ UNCHANGED <<program, main, signalled, result, err, health, listening, scrapes, exit>>

(* The blocking call ends by a signal (the server's when ctx is done), and *)
(* may return an error at any time.                                        *)
CallEnds == IF program = "server" THEN cancelled ELSE signalled

RunReturns ==
  /\ main = "running"
  /\ result' \in IF CallEnds THEN {"nil", "error"} ELSE {"error"}
  /\ err' = IF program = "server" THEN err ELSE result'
  /\ main' = "returned"
  /\ UNCHANGED <<program, signalled, cancelled, health, listening, scrapes, exit>>

(* healthServer.Start returns an error, or nil once ctx is done, and its   *)
(* goroutine assigns what it returned to err.                              *)
HealthReturns ==
  /\ health = "serving"
  /\ main # "exited"
  /\ err' \in IF cancelled THEN {"nil", "error"} ELSE {"error"}
  /\ health' = "done"
  /\ UNCHANGED <<program, main, signalled, cancelled, result, listening, scrapes, exit>>

(* if err != nil after the blocking call.  With the race on err, main sees *)
(* what it assigned or what the other goroutine did.                       *)
Seen == IF program = "server" THEN {result} ELSE {result, err}

(* Faulty variant: panic in place of Fatalf. *)
CheckErrPanics ==
  /\ main = "returned"
  /\ \E e \in Seen : IF e = "error"
                       THEN Exit("panic")
                       ELSE main' = "stopping" /\ UNCHANGED exit
  /\ UNCHANGED <<program, signalled, cancelled, result, err, health, listening, scrapes>>

(* Faulty variant: Errorf in place of Fatalf. *)
CheckErrLogs ==
  /\ main = "returned"
  /\ main' = "stopping"
  /\ UNCHANGED <<program, signalled, cancelled, result, err, health, listening, scrapes, exit>>

CheckErr ==
  /\ main = "returned"
  /\ \E e \in Seen : IF e = "error"
                       THEN Exit("fatal")
                       ELSE main' = "stopping" /\ UNCHANGED exit
  /\ UNCHANGED <<program, signalled, cancelled, result, err, health, listening, scrapes>>

(* Faulty variant: cancel() is deferred after the metrics server is, and   *)
(* so runs before it stops.                                                *)
CancelThenStop ==
  /\ main = "stopping"
  /\ listening' = FALSE
  /\ cancelled' = TRUE
  /\ main' = "draining"
  /\ UNCHANGED <<program, signalled, result, err, health, scrapes, exit>>

(* Faulty variant: the metrics server waits without closing its listener. *)
StopListensOn ==
  /\ main = "stopping"
  /\ main' = "draining"
  /\ UNCHANGED <<program, signalled, cancelled, result, err, health, listening, scrapes, exit>>

(* metricsServer.Stop(ctx): http.Server.Shutdown closes the listener,      *)
Stop ==
  /\ main = "stopping"
  /\ listening' = FALSE
  /\ main' = "draining"
  /\ UNCHANGED <<program, signalled, cancelled, result, err, health, scrapes, exit>>

(* returns nil when no request is in progress,                             *)
Drained ==
  /\ main = "draining"
  /\ scrapes = {}
  /\ main' = "cancelling"
  /\ UNCHANGED <<program, signalled, cancelled, result, err, health, listening, scrapes, exit>>

(* and the error of ctx when ctx is done and one is.                       *)
StopGivesUp ==
  /\ main = "draining"
  /\ scrapes # {}
  /\ cancelled
  /\ main' = "cancelling"
  /\ UNCHANGED <<program, signalled, cancelled, result, err, health, listening, scrapes, exit>>

Cancel ==
  /\ main = "cancelling"
  /\ cancelled' = TRUE
  /\ main' = "leaving"
  /\ UNCHANGED <<program, signalled, result, err, health, listening, scrapes, exit>>

(* main returns; no other goroutine is waited for. *)
Leave ==
  /\ main = "leaving"
  /\ Exit("ok")
  /\ UNCHANGED <<program, signalled, cancelled, result, err, health, listening, scrapes>>

ScrapeBegins(c) ==
  /\ main # "exited"
  /\ listening
  /\ c \notin scrapes
  /\ scrapes' = scrapes \cup {c}
  /\ UNCHANGED <<program, main, signalled, cancelled, result, err, health, listening, exit>>

(* The answer is written, or its write times out. *)
ScrapeEnds(c) ==
  /\ main # "exited"
  /\ c \in scrapes
  /\ scrapes' = scrapes \ {c}
  /\ UNCHANGED <<program, main, signalled, cancelled, result, err, health, listening, exit>>

MainStep ==
  \/ StartupEnds \/ Serve \/ RunReturns \/ CheckErr
  \/ Stop \/ Drained \/ StopGivesUp \/ Cancel \/ Leave

Next ==
  \/ MainStep
  \/ Signal
  \/ CancelOnSignal
  \/ HealthReturns
  \/ \E c \in Scrapers : ScrapeBegins(c) \/ ScrapeEnds(c)
  \/ main = "exited" /\ UNCHANGED vars

Spec == Init /\ [][Next]_vars

(* main and the signal goroutine are scheduled, the blocking call ends     *)
(* once it is told to, and WriteTimeout ends every request.                *)
FairSpec ==
  /\ Spec
  /\ WF_vars(MainStep /\ (main = "running" => CallEnds))
  /\ WF_vars(CancelOnSignal)
  /\ \A c \in Scrapers : WF_vars(ScrapeEnds(c))

-----------------------------------------------------------------------------
(* "Stop gracefully shuts down the metrics server": a process that leaves  *)
(* through main cuts no request off.                                       *)
ScrapesServed == exit.how = "ok" => ~exit.cut

(* The worker, which stops its metrics server before it cancels ctx, keeps *)
(* that promise.                                                           *)
WorkerScrapesServed == program = "worker" => ScrapesServed

(* An error of the blocking call ends worker and server by a fatal exit.   *)
(* The indexer's may be lost: after a signal its health server returns nil *)
(* into the same err.                                                      *)
RunErrorIsFatal ==
  program # "tx_indexer" /\ exit.how = "ok" => result = "nil"

(* A signal ends the process, however busy the metrics server is.          *)
SignalledExits == signalled ~> main = "exited"

(* The inductive invariant.  The worker's ctx is done only after its       *)
(* metrics server has drained, and until main has looked at err nobody can *)
(* replace an error by nil.                                                *)
ExitedLast == main # "exited" => exit = Alive

DrainedBeforeCancel ==
  program = "worker" =>
    /\ cancelled => main \in {"leaving", "exited"}
    /\ main \in {"draining", "cancelling", "leaving"} => ~listening
    /\ main \in {"cancelling", "leaving"} => scrapes = {}

ErrorIsKept ==
  program # "tx_indexer" =>
    /\ main = "returned" => result # "none"
    /\ main = "returned" /\ result = "error" /\ program = "worker" => err = "error"
    /\ main \in {"stopping", "draining", "cancelling", "leaving"} => result = "nil"

Inv ==
  /\ TypeOK
  /\ ExitedLast
  /\ DrainedBeforeCancel
  /\ ErrorIsKept
  /\ WorkerScrapesServed
  /\ RunErrorIsFatal
=============================================================================
