------------------------------- MODULE Server -------------------------------
(***************************************************************************)
(* The life of the process: main.run (cmd/platform/main.go), Context       *)
(* (platform/process.go) and Run (platform/platform.go), with the server   *)
(* and the connections of net/http, which are external.                    *)
(*                                                                         *)
(* main.run opens what the service needs, each with a deferred close,      *)
(* serves until the listener fails or a signal cancels the context, drains *)
(* the connections for at most ShutdownTimeout, and closes everything on   *)
(* its way out.  ListenAndServe and the connections run meanwhile.         *)
(***************************************************************************)
EXTENDS Sequences

CONSTANT Conns          \* connections, each made once

VARIABLES main,         \* where main.run is
          result,       \* what it returns: nil ("ok"), an error, or "none" yet
          open,         \* the resources that are open
          defers,       \* the deferred closes, last one first
          signalled,    \* SIGINT or SIGTERM was caught: ctx is done
          stopping,     \* srv.Shutdown was called
          listener,     \* where the goroutine of ListenAndServe is
          serveErr,     \* the channel of its result
          conn          \* the state of each connection

serverVars == <<main, result, open, defers, signalled, stopping, listener,
                serveErr, conn>>

process == <<main, result, open, defers>>
network == <<listener, serveErr, conn>>

Resources == {"signals", "telemetry", "database", "cache"}
Stages == {"context", "config", "telemetry", "database", "warmup", "cache",
           "listen", "select", "shutdown", "draining", "unwind", "exited"}

ServerTypeOK ==
    /\ main \in Stages
    /\ result \in {"none", "ok", "error"}
    /\ open \subseteq Resources
    /\ defers \in Seq(Resources)
    /\ signalled \in BOOLEAN /\ stopping \in BOOLEAN
    /\ listener \in {"unborn", "called", "bound", "serving", "returned"}
    /\ serveErr \in {"empty", "closed", "failed"}
    /\ conn \in [Conns -> {"none", "new", "active", "idle", "closed", "cut"}]

ServerInit ==
    /\ main = "context" /\ result = "none"
    /\ open = {} /\ defers = <<>>
    /\ signalled = FALSE /\ stopping = FALSE
    /\ listener = "unborn" /\ serveErr = "empty"
    /\ conn = [c \in Conns |-> "none"]

-----------------------------------------------------------------------------
(* main.run, from the top. *)

At(stage, next) == main = stage /\ main' = next

\* return: the deferred closes run next.
Return(res) == main' = "unwind" /\ result' = res

\* (Mutant: the close of the database is not deferred.)
OpensLeaky(stage, resource, next) ==
    /\ \/ /\ At(stage, next)
          /\ open' = open \cup {resource}
          /\ defers' = IF resource = "database" THEN defers
                       ELSE <<resource>> \o defers
          /\ UNCHANGED result
       \/ main = stage /\ Return("error") /\ UNCHANGED <<open, defers>>
    /\ UNCHANGED <<signalled, stopping, network>>

\* A call that opens a resource: its close is deferred, or run returns an error.
Opens(stage, resource, next) ==
    /\ \/ /\ At(stage, next)
          /\ open' = open \cup {resource}
          /\ defers' = <<resource>> \o defers
          /\ UNCHANGED result
       \/ main = stage /\ Return("error") /\ UNCHANGED <<open, defers>>
    /\ UNCHANGED <<signalled, stopping, network>>

\* signal.NotifyContext, then env.Environment; if that fails, stop() at once.
Context == Opens("context", "signals", "config")

NewConfig ==
    /\ \/ At("config", "telemetry") /\ UNCHANGED result
       \/ main = "config" /\ Return("error")          \* Validate
    /\ UNCHANGED <<open, defers, signalled, stopping, network>>

NewTelemetry == Opens("telemetry", "telemetry", "database")
NewDatabase == Opens("database", "database", "warmup")

\* Best effort, within five seconds.
Warmup ==
    /\ At("warmup", "cache")
    /\ UNCHANGED <<result, open, defers, signalled, stopping, network>>

NewCache == Opens("cache", "cache", "listen")

-----------------------------------------------------------------------------
(* Run. *)

GoListen ==
    /\ At("listen", "select")
    /\ listener' = "called"
    /\ UNCHANGED <<result, open, defers, signalled, stopping, serveErr, conn>>

\* (Mutant: a listener that failed is no error.)
ServeEndedQuiet ==
    /\ main = "select" /\ serveErr # "empty"
    /\ Return("ok")
    /\ UNCHANGED <<open, defers, signalled, stopping, network>>

\* The listener's result first.
ServeEnded ==
    /\ main = "select" /\ serveErr # "empty"
    /\ Return(IF serveErr = "closed" THEN "ok" ELSE "error")
    /\ UNCHANGED <<open, defers, signalled, stopping, network>>

\* (Mutant: Run returns without waiting for Shutdown.)
ContextDoneAtOnce ==
    /\ main = "select" /\ signalled
    /\ Return("ok")
    /\ stopping' = TRUE
    /\ UNCHANGED <<open, defers, signalled, network>>

\* The context first (if both are ready select takes either): srv.Shutdown, which
\* closes the listener and refuses one that is still to come.
ContextDone ==
    /\ main = "select" /\ signalled
    /\ main' = "shutdown"
    /\ stopping' = TRUE
    /\ UNCHANGED <<result, open, defers, signalled, network>>

\* Shutdown waits for Serve to return, then closes idle connections, and new
\* ones that have not sent anything for a while, until none is left.
Poll ==
    /\ main \in {"shutdown", "draining"}
    /\ listener # "serving"
    /\ \E old \in SUBSET {c \in Conns : conn[c] = "new"} :
          LET gone == old \cup {c \in Conns : conn[c] = "idle"}
              busy == {c \in Conns : conn[c] \in {"new", "active"}} \ old
          IN  /\ conn' = [c \in Conns |-> IF c \in gone THEN "closed" ELSE conn[c]]
              /\ IF busy = {} THEN Return("ok")
                 ELSE main' = "draining" /\ UNCHANGED result
    /\ UNCHANGED <<open, defers, signalled, stopping, listener, serveErr>>

\* (Mutant: Shutdown is given a context without a timeout.)
DrainTimeoutNever == FALSE

\* drainCtx ends first: "graceful shutdown incomplete".
DrainTimeout ==
    /\ main = "draining"
    /\ Return("error")
    /\ UNCHANGED <<open, defers, signalled, stopping, network>>

-----------------------------------------------------------------------------
(* The way out. *)

\* stop, ops.Close, db.Close, orderCache.Close: as deferred.
RunDeferred ==
    /\ main = "unwind" /\ defers # <<>>
    /\ open' = open \ {Head(defers)}
    /\ defers' = Tail(defers)
    /\ UNCHANGED <<main, result, signalled, stopping, network>>

\* main returns or calls os.Exit(1): what still runs is cut off.
Exit ==
    /\ At("unwind", "exited") /\ defers = <<>>
    /\ conn' = [c \in Conns |-> CASE conn[c] = "active" -> "cut"
                                  [] conn[c] \in {"new", "idle"} -> "closed"
                                  [] OTHER -> conn[c]]
    /\ UNCHANGED <<result, open, defers, signalled, stopping, listener, serveErr>>

-----------------------------------------------------------------------------
(* The rest of the world, as long as the process runs. *)

Signal ==
    /\ main # "exited" /\ "signals" \in open /\ ~ signalled
    /\ signalled' = TRUE
    /\ UNCHANGED <<process, stopping, network>>

\* ListenAndServe: unless the server is stopping, bind the port; ...
Bind ==
    /\ main # "exited" /\ listener = "called"
    /\ \/ ~ stopping /\ listener' = "bound" /\ UNCHANGED serveErr
       \/ ~ stopping /\ listener' = "returned" /\ serveErr' = "failed"
       \/ stopping /\ listener' = "returned" /\ serveErr' = "closed"
    /\ UNCHANGED <<process, signalled, stopping, conn>>

\* ... register the listener, again unless the server is stopping; ...
Track ==
    /\ main # "exited" /\ listener = "bound"
    /\ IF stopping THEN listener' = "returned" /\ serveErr' = "closed"
       ELSE listener' = "serving" /\ UNCHANGED serveErr
    /\ UNCHANGED <<process, signalled, stopping, conn>>

\* ... and accept until that fails, or Shutdown closes the listener.
AcceptEnds ==
    /\ main # "exited" /\ listener = "serving"
    /\ listener' = "returned"
    /\ serveErr' = IF stopping THEN "closed" ELSE "failed"
    /\ UNCHANGED <<process, signalled, stopping, conn>>

\* One that was accepted before the listener is closed is still served.
Connect(c) ==
    /\ main # "exited" /\ listener = "serving" /\ conn[c] = "none"
    /\ conn' = [conn EXCEPT ![c] = "new"]
    /\ UNCHANGED <<process, signalled, stopping, listener, serveErr>>

Request(c) ==
    /\ main # "exited" /\ conn[c] \in {"new", "idle"}
    /\ conn' = [conn EXCEPT ![c] = "active"]
    /\ UNCHANGED <<process, signalled, stopping, listener, serveErr>>

\* The handler has answered.  A stopping server keeps no connection alive.
Answered(c) ==
    /\ main # "exited" /\ conn[c] = "active"
    /\ \/ ~ stopping /\ conn' = [conn EXCEPT ![c] = "idle"]
       \/ conn' = [conn EXCEPT ![c] = "closed"]
    /\ UNCHANGED <<process, signalled, stopping, listener, serveErr>>

\* The client, ReadHeaderTimeout or IdleTimeout closes it.
Hangup(c) ==
    /\ main # "exited" /\ conn[c] \in {"new", "idle"}
    /\ conn' = [conn EXCEPT ![c] = "closed"]
    /\ UNCHANGED <<process, signalled, stopping, listener, serveErr>>

Ended == main = "exited" /\ UNCHANGED serverVars

-----------------------------------------------------------------------------
Main ==
    \/ Context \/ NewConfig \/ NewTelemetry \/ NewDatabase \/ Warmup \/ NewCache
    \/ GoListen \/ ServeEnded \/ ContextDone \/ Poll \/ RunDeferred \/ Exit

Listener == Bind \/ Track \/ AcceptEnds

ServerNext ==
    \/ Main \/ DrainTimeout \/ Signal \/ Listener \/ Ended
    \/ \E c \in Conns : Connect(c) \/ Request(c) \/ Answered(c) \/ Hangup(c)

ServerSpec == ServerInit /\ [][ServerNext]_serverVars

\* The goroutine of main runs and the libraries it calls return; the timer of the
\* drain fires; a closed listener ends Serve.  Handlers may run for ever, clients and
\* signals may never come, an open listener need not fail.
FairServerSpec ==
    /\ ServerSpec
    /\ WF_serverVars(Main)
    /\ WF_serverVars(DrainTimeout)
    /\ WF_serverVars(Bind) /\ WF_serverVars(Track)
    /\ WF_serverVars(stopping /\ AcceptEnds)

-----------------------------------------------------------------------------
(* Correctness. *)

\* Run reports a graceful end (platform.go:268-269) only when no request is left:
\* none will meet a closed database or cache and none is cut off.  It holds in
\* spite of connections that arrive and of a listener that is bound while the
\* server is stopping.
DrainedOnSuccess ==
    result = "ok" => \A c \in Conns : conn[c] \in {"none", "closed"}

\* The telemetry client is open as long as the database or the cache is, and
\* whatever happened on the way, a process that ends has closed all it opened
\* (main.go:32-55).  Handlers that a drain has left behind are not meant: they
\* find all three closed.
ReleasedInOrder ==
    /\ open \cap {"database", "cache"} # {} => "telemetry" \in open
    /\ main = "exited" => open = {}

\* The process reports success only if it was told to end: an orchestrator that
\* restarts what fails restarts everything else.
EndsWellOnlyWhenTold == result = "ok" => signalled

\* A signal, or a listener that fails, ends the process, however long handlers,
\* clients or a warm-up take.
EndsWhenToldOrBroken == signalled \/ serveErr = "failed" ~> main = "exited"

-----------------------------------------------------------------------------
(* The inductive invariant behind the theorems of ServerProofs. *)

\* What is deferred at each stage of main.run.
Stack1 == <<"signals">> \o <<>>
Stack2 == <<"telemetry">> \o Stack1
Stack3 == <<"database">> \o Stack2
Stack4 == <<"cache">> \o Stack3

StackAt(stage) ==
    CASE stage \in {"context", "exited"} -> {<<>>}
      [] stage \in {"config", "telemetry"} -> {Stack1}
      [] stage = "database" -> {Stack2}
      [] stage \in {"warmup", "cache"} -> {Stack3}
      [] stage = "unwind" -> {<<>>, Stack1, Stack2, Stack3, Stack4}
      [] OTHER -> {Stack4}

Elements(q) == {q[i] : i \in DOMAIN q}

\* Just what is open has its close deferred.
DefersMatchOpen ==
    /\ defers \in StackAt(main)
    /\ open = Elements(defers)

\* Shutdown is called once, by Run, after a signal; only then does the listener
\* report that it was closed, and then it never serves again.
StoppingIsFinal ==
    /\ stopping => signalled /\ main \in {"shutdown", "draining", "unwind", "exited"}
    /\ main \in {"shutdown", "draining"} => stopping
    /\ serveErr = "closed" => stopping
    /\ result = "ok" => stopping /\ listener # "serving"
    /\ (result = "none") <=> (main \notin {"unwind", "exited"})
    /\ main # "exited" => \A c \in Conns : conn[c] # "cut"

ServerInv ==
    /\ ServerTypeOK
    /\ DefersMatchOpen
    /\ StoppingIsFinal
    /\ DrainedOnSuccess
=============================================================================
