----------------------------- MODULE Lifecycle -----------------------------
(***************************************************************************)
(* Run of internal/app/app.go under main of cmd/api/main.go: one process   *)
(* from its start to its exit code.                                        *)
(*                                                                         *)
(* Three parties run side by side: Run itself, the goroutine that serves   *)
(* (it hands its outcome over in the channel serverErrors), and the        *)
(* connections of net/http with their handlers.  The clients of MySQL,     *)
(* Redis and the mail service are opened in this order and closed by       *)
(* deferred calls in the reverse one, while handlers may still use them.   *)
(***************************************************************************)
EXTENDS Naturals

CONSTANT Connections    \* what the server may have accepted at a time

VARIABLES
    main,       \* where Run is
    opened,     \* how many of the three clients are open
    outcome,    \* what Run returns: "none" yet, "ok" or "error"
    signalled,  \* ctx is done: SIGINT or SIGTERM has arrived
    server,     \* where the serving goroutine is
    served,     \* what ListenAndServe has returned to it
    channel,    \* serverErrors: "empty", or the value in its only place
    stopping,   \* inShutdown of the http.Server
    conn,       \* the state of each connection
    cut,        \* ghost: some handler's connection was closed under it
    hurt        \* ghost: some handler found MySQL or Redis closed

vars == <<main, opened, outcome, signalled, server, served, channel, stopping,
          conn, cut, hurt>>

mainVars == <<main, opened, outcome>>
serverVars == <<server, served, channel>>
connVars == <<conn, cut, hurt>>

MainStages == {"config", "mysql", "redis", "wiring", "selecting", "stopping",
               "draining", "forcing", "joining", "returning", "exited"}
ServerStages == {"none", "starting", "binding", "accepting", "returned", "gone"}

\* An orphan is a handler that runs on after its connection was closed.
ConnStates == {"none", "new", "active", "idle", "orphan"}
Running == {c \in Connections : conn[c] \in {"active", "orphan"}}

Init ==
    /\ main = "config" /\ opened = 0 /\ outcome = "none"
    /\ signalled = FALSE
    /\ server = "none" /\ served = "none" /\ channel = "empty"
    /\ stopping = FALSE
    /\ conn = [c \in Connections |-> "none"]
    /\ cut = FALSE /\ hurt = FALSE

Returns(v) == main' = "returning" /\ outcome' = v
-----------------------------------------------------------------------------
(* Run *)

LoadConfig ==
    /\ main = "config"
    /\ \/ main' = "mysql" /\ UNCHANGED outcome
       \/ Returns("error")
    /\ UNCHANGED <<opened, signalled, serverVars, stopping, connVars>>

\* Open pings; a client that does not answer, or a signal meanwhile, is an
\* error, and Open has closed the client again.
OpenClient(stage, next) ==
    /\ main = stage
    /\ \/ main' = next /\ opened' = opened + 1 /\ UNCHANGED outcome
       \/ Returns("error") /\ UNCHANGED opened
    /\ UNCHANGED <<signalled, serverVars, stopping, connVars>>

OpenMySQL == OpenClient("mysql", "redis")
OpenRedis == OpenClient("redis", "wiring")

\* The mail client, everything else that cannot fail, and the goroutine.
Wire ==
    /\ main = "wiring"
    /\ main' = "selecting"
    /\ opened' = opened + 1
    /\ server' = "starting"
    /\ UNCHANGED <<outcome, signalled, served, channel, stopping, connVars>>

\* The select: when both are ready, either is taken.
TakeOutcome ==
    /\ main = "selecting"
    /\ channel # "empty"
    /\ channel' = "empty"
    /\ Returns(channel)
    /\ UNCHANGED <<opened, signalled, server, served, stopping, connVars>>

TakeSignal ==
    /\ main = "selecting"
    /\ signalled
    /\ main' = "stopping"
    /\ UNCHANGED <<opened, outcome, signalled, serverVars, stopping, connVars>>

\* Shutdown begins: no connection is accepted any more.
Shutdown ==
    /\ main = "stopping"
    /\ main' = "draining"
    /\ stopping' = TRUE
    /\ UNCHANGED <<opened, outcome, signalled, serverVars, connVars>>

\* Mutant: Close in place of Shutdown, which does not wait for handlers.
Drained_AtOnce ==
    /\ main = "draining"
    /\ main' = "joining"
    /\ conn' = [c \in Connections |-> IF conn[c] = "active" THEN "orphan" ELSE "none"]
    /\ UNCHANGED <<opened, outcome, signalled, serverVars, stopping, cut, hurt>>

\* It returns when it finds no connection but idle ones, which it closes.
\* A new one counts as idle when it has sent nothing for some seconds.
Drained ==
    /\ main = "draining"
    /\ \A c \in Connections : conn[c] # "active"
    /\ main' = "joining"
    /\ conn' = [c \in Connections |->
                  IF conn[c] = "orphan" THEN "orphan" ELSE "none"]
    /\ UNCHANGED <<opened, outcome, signalled, serverVars, stopping, cut, hurt>>

\* shutdownContext ends first.
DrainTimesOut ==
    /\ main = "draining"
    /\ main' = "forcing"
    /\ UNCHANGED <<opened, outcome, signalled, serverVars, stopping, connVars>>

\* Mutant: the failed shutdown is logged and not returned.
ForceClose_Logged ==
    /\ main = "forcing"
    /\ main' = "joining"
    /\ conn' = [c \in Connections |->
                  IF conn[c] \in {"active", "orphan"} THEN "orphan" ELSE "none"]
    /\ cut' = (cut \/ \E c \in Connections : conn[c] = "active")
    /\ UNCHANGED <<opened, outcome, signalled, serverVars, stopping, hurt>>

\* server.Close: handlers run on, their connections are closed.
ForceClose ==
    /\ main = "forcing"
    /\ Returns("error")
    /\ conn' = [c \in Connections |->
                  IF conn[c] \in {"active", "orphan"} THEN "orphan" ELSE "none"]
    /\ cut' = (cut \/ \E c \in Connections : conn[c] = "active")
    /\ UNCHANGED <<opened, signalled, serverVars, stopping, hurt>>

\* Mutant: once drained, success is returned without a look at serverErrors.
Join_Skipped ==
    /\ main = "joining"
    /\ Returns("ok")
    /\ UNCHANGED <<opened, signalled, serverVars, stopping, connVars>>

Join ==
    /\ main = "joining"
    /\ channel # "empty"
    /\ channel' = "empty"
    /\ Returns(channel)
    /\ UNCHANGED <<opened, signalled, server, served, stopping, connVars>>

\* The deferred calls, last opened first.
CloseClient ==
    /\ main = "returning"
    /\ opened > 0
    /\ opened' = opened - 1
    /\ UNCHANGED <<main, outcome, signalled, serverVars, stopping, connVars>>

\* main logs the error and exits with 1, or ends: handlers end where they are.
Exit ==
    /\ main = "returning"
    /\ opened = 0
    /\ main' = "exited"
    /\ conn' = [c \in Connections |-> "none"]
    /\ cut' = (cut \/ \E c \in Connections : conn[c] = "active")
    /\ UNCHANGED <<opened, outcome, signalled, serverVars, stopping, hurt>>
-----------------------------------------------------------------------------
(* The goroutine: ListenAndServe, and the send to serverErrors. *)

Alive == main # "exited"

ServeReturns(v) == server' = "returned" /\ served' = v

Listen ==
    /\ Alive
    /\ server = "starting"
    /\ IF stopping THEN ServeReturns("ok")
                   ELSE server' = "binding" /\ UNCHANGED served
    /\ UNCHANGED <<mainVars, signalled, channel, stopping, connVars>>

\* The port may be taken; a listener opened too late is closed at once.
Bind ==
    /\ Alive
    /\ server = "binding"
    /\ \/ ServeReturns("error")
       \/ stopping /\ ServeReturns("ok")
       \/ ~stopping /\ server' = "accepting" /\ UNCHANGED served
    /\ UNCHANGED <<mainVars, signalled, channel, stopping, connVars>>

ServerClosed ==
    /\ Alive
    /\ server = "accepting"
    /\ stopping
    /\ ServeReturns("ok")
    /\ UNCHANGED <<mainVars, signalled, channel, stopping, connVars>>

AcceptFails ==
    /\ Alive
    /\ server = "accepting"
    /\ ~stopping
    /\ ServeReturns("error")
    /\ UNCHANGED <<mainVars, signalled, channel, stopping, connVars>>

\* Mutant: only errors are sent.
Send_OnlyErrors ==
    /\ Alive
    /\ server = "returned"
    /\ server' = "gone"
    /\ \/ served = "error" /\ channel = "empty" /\ channel' = served
       \/ served = "ok" /\ UNCHANGED channel
    /\ UNCHANGED <<mainVars, signalled, served, stopping, connVars>>

Send ==
    /\ Alive
    /\ server = "returned"
    /\ channel = "empty"
    /\ channel' = served
    /\ server' = "gone"
    /\ UNCHANGED <<mainVars, signalled, served, stopping, connVars>>
-----------------------------------------------------------------------------
(* Connections, handlers, and the operator. *)

SetConn(c, s) == conn' = [conn EXCEPT ![c] = s]

Accept(c) ==
    /\ Alive
    /\ server = "accepting"
    /\ ~stopping
    /\ conn[c] = "none"
    /\ SetConn(c, "new")
    /\ UNCHANGED <<mainVars, signalled, serverVars, stopping, cut, hurt>>

\* A request has been read; its handler starts, be it during the shutdown.
Begin(c) ==
    /\ Alive
    /\ conn[c] \in {"new", "idle"}
    /\ SetConn(c, "active")
    /\ UNCHANGED <<mainVars, signalled, serverVars, stopping, cut, hurt>>

\* A handler calls MySQL or Redis.
Use(c) ==
    /\ Alive
    /\ c \in Running
    /\ hurt' = (hurt \/ opened < 2)
    /\ UNCHANGED <<mainVars, signalled, serverVars, stopping, conn, cut>>

\* The handler returns; the connection is kept unless the server is stopping.
Answer(c) ==
    /\ Alive
    /\ c \in Running
    /\ SetConn(c, IF conn[c] = "active" /\ ~stopping THEN "idle" ELSE "none")
    /\ UNCHANGED <<mainVars, signalled, serverVars, stopping, cut, hurt>>

\* The client goes away, or IdleTimeout ends.
Disconnect(c) ==
    /\ Alive
    /\ conn[c] \in {"new", "idle"}
    /\ SetConn(c, "none")
    /\ UNCHANGED <<mainVars, signalled, serverVars, stopping, cut, hurt>>

\* Further signals find ctx done already.
Signal ==
    /\ Alive
    /\ signalled' = TRUE
    /\ UNCHANGED <<mainVars, serverVars, stopping, connVars>>

MainStep ==
    \/ LoadConfig \/ OpenMySQL \/ OpenRedis \/ Wire
    \/ TakeOutcome \/ TakeSignal \/ Shutdown
    \/ Drained \/ DrainTimesOut \/ ForceClose \/ Join
    \/ CloseClient \/ Exit

ServerStep == Listen \/ Bind \/ ServerClosed \/ Send

Next ==
    \/ MainStep
    \/ ServerStep \/ AcceptFails
    \/ \E c \in Connections :
         Accept(c) \/ Begin(c) \/ Use(c) \/ Answer(c) \/ Disconnect(c)
    \/ Signal

Spec == Init /\ [][Next]_vars

\* Run and the goroutine go on: pings end, the shutdown timer fires.  Nothing
\* is assumed of handlers and clients.
FairSpec == Spec /\ WF_vars(MainStep) /\ WF_vars(ServerStep)
-----------------------------------------------------------------------------
TypeOK ==
    /\ main \in MainStages
    /\ opened \in 0 .. 3
    /\ outcome \in {"none", "ok", "error"}
    /\ signalled \in BOOLEAN
    /\ server \in ServerStages
    /\ served \in {"none", "ok", "error"}
    /\ channel \in {"empty", "ok", "error"}
    /\ stopping \in BOOLEAN
    /\ conn \in [Connections -> ConnStates]
    /\ cut \in BOOLEAN
    /\ hurt \in BOOLEAN

(***************************************************************************)
(* A process that is going to exit with 0 has cut off no request: every    *)
(* handler that started has ended on an open connection, and before the    *)
(* clients it uses were closed.                                            *)
(***************************************************************************)
CleanExit ==
    outcome = "ok" => ~cut /\ ~hurt /\ Running = {}

(***************************************************************************)
(* Exit code 0 means that the process was asked to stop and that serving   *)
(* had not failed: an error of the listener is not lost when a signal      *)
(* arrives at the same time and is the one the select takes.               *)
(***************************************************************************)
FailureIsReported ==
    outcome = "ok" => signalled /\ served = "ok"

(***************************************************************************)
(* After a signal, at whatever stage, and after serving has ended, the     *)
(* process exits, even when a handler never returns: Run and the goroutine *)
(* do not wait for each other.                                             *)
(***************************************************************************)
Terminates ==
    /\ signalled ~> main = "exited"
    /\ server = "returned" ~> main = "exited"
=============================================================================
