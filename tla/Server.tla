------------------------------- MODULE Server -------------------------------
(***************************************************************************)
(* The life of the process: run of cmd/server/main.go, the configuration it *)
(* reads (internal/config), the goroutine of the listener, the requests     *)
(* http.Server keeps track of, and the hub with its sockets, which it does  *)
(* not: an upgrade takes the connection out of its hands.                   *)
(*                                                                          *)
(* Requests are those that reach the hub: the opening of a socket and the   *)
(* creation of a post.  When the process ends, everything in it stops.      *)
(***************************************************************************)
EXTENDS Hub

CONSTANT Environments  \* the environments, .env included, it may be started in

VARIABLES
  main,          \* where run stands
  status,        \* how the process has ended, or will
  listener,      \* the goroutine of ListenAndServe; failed, it fills serverErrors
  signals,       \* signal.Notify has been given a signal
  inShutdown,    \* Shutdown has been called
  request        \* what http.Server knows of a request

mainVars == <<main, status, listener, signals, inShutdown, request>>
serverVars == <<vars, mainVars>>

Requests == Conns \cup Msgs

ASSUME RequestAssumption == Conns \cap Msgs = {}
-----------------------------------------------------------------------------
(* Load: every variable is looked at before the first error is reported.    *)

Texts == {"SERVER_HOST", "SERVER_PORT", "DB_HOST", "DB_PORT", "DB_USER",
          "DB_PASSWORD", "DB_NAME", "DB_SSL_MODE", "REDIS_ADDR",
          "REDIS_PASSWORD", "JWT_SECRET"}
Ints == {"SERVER_RATE_LIMIT_REQUESTS", "REDIS_DB"}
Durations == {"SERVER_READ_TIMEOUT", "SERVER_WRITE_TIMEOUT", "SERVER_SHUTDOWN_TIMEOUT",
              "SERVER_RATE_LIMIT_WINDOW", "JWT_TTL"}
allowEmpty == {"DB_PASSWORD", "DB_SSL_MODE", "REDIS_PASSWORD"}

\* Of a value it only counts whether it is there, and whether it parses.
Values == {"missing", "empty", "malformed", "good"}

RequireEnv(env, v) ==
  IF env[v] = "missing" \/ (env[v] = "empty" /\ v \notin allowEmpty) THEN {v} ELSE {}

\* RequireInt, RequireInt64 and RequireDuration.
RequireParsed(env, v) ==
  RequireEnv(env, v) \cup (IF env[v] = "malformed" THEN {v} ELSE {})

EnvOrDefault(env, v) == IF env[v] \in {"missing", "empty"} THEN "good" ELSE env[v]

\* The variables Load complains of.
Load(env) ==
  UNION {RequireEnv(env, v) : v \in Texts}
  \cup UNION {RequireParsed(env, v) : v \in Ints \cup Durations}
  \cup {v \in {"MODERATION_AUTO_HIDE_THRESHOLD"} : EnvOrDefault(env, v) = "malformed"}
-----------------------------------------------------------------------------
ServerInit ==
  /\ Init
  /\ main = "load"
  /\ status = "none"
  /\ listener = "none"
  /\ signals = FALSE
  /\ inShutdown = FALSE
  /\ request = [r \in Requests |-> "none"]

\* run goes from one statement to the next, the hub aside.
Go(from, to) ==
  /\ main = from
  /\ main' = to
  /\ UNCHANGED vars

\* Mutant: the error of run is dropped.
ReturnsBare(result) == main' = "return" /\ UNCHANGED status

\* run returns with an error, or without; main then ends the process.
Returns(result) == main' = "return" /\ status' = result

LoadConfig ==
  \E env \in Environments :
    \/ /\ Load(env) = {}
       /\ Go("load", "openDB")
       /\ UNCHANGED <<status, listener, signals, inShutdown, request>>
    \/ /\ Load(env) # {}
       /\ main = "load" /\ Returns("error")
       /\ UNCHANGED <<vars, listener, signals, inShutdown, request>>

\* gorm.Open connects, or fails; the Ping of Redis answers, or does not for
\* five seconds.
Open(from, to) ==
  /\ \/ Go(from, to) /\ UNCHANGED status
     \/ main = from /\ Returns("error") /\ UNCHANGED vars
  /\ UNCHANGED <<listener, signals, inShutdown, request>>

openDB == Open("openDB", "openRedis")
openRedis == Open("openRedis", "goHub")

GoHub ==
  /\ Go("goHub", "goListen")
  /\ UNCHANGED <<status, listener, signals, inShutdown, request>>

GoListen ==
  /\ Go("goListen", "notify")
  /\ listener' = "starting"
  /\ UNCHANGED <<status, signals, inShutdown, request>>

Notify ==
  /\ Go("notify", "select")
  /\ UNCHANGED <<status, listener, signals, inShutdown, request>>

\* The select, and the deferred hubCancel if it ends run.
SelectError ==
  /\ main = "select"
  /\ listener = "failed"
  /\ Returns("error")
  /\ Cancel
  /\ UNCHANGED <<listener, signals, inShutdown, request>>

SelectSignal ==
  /\ signals
  /\ Go("select", "hubCancel")
  /\ UNCHANGED <<status, listener, signals, inShutdown, request>>

HubCancel ==
  /\ main = "hubCancel"
  /\ Cancel
  /\ main' = "close"
  /\ UNCHANGED <<status, listener, signals, inShutdown, request>>

\* Mutant: the listener is left open until the requests are done.
CloseListenerNot == UNCHANGED listener

CloseListener == listener' = IF listener = "serving" THEN "closed" ELSE listener

\* Shutdown closes the listener and looks at the requests,
Shutdown ==
  /\ Go("close", "poll")
  /\ inShutdown' = TRUE
  /\ CloseListener
  /\ UNCHANGED <<status, signals, request>>

Active == {r \in Requests : request[r] = "active"}

\* until none is left
ShutdownDone ==
  /\ main \in {"poll", "wait"}
  /\ Active = {}
  /\ Returns("ok")
  /\ UNCHANGED <<vars, listener, signals, inShutdown, request>>

ShutdownWait ==
  /\ Active # {}
  /\ Go("poll", "wait")
  /\ UNCHANGED <<status, listener, signals, inShutdown, request>>

\* Mutant: a context without a deadline.
ExpiredNever == FALSE

Expired == main = "wait"

\* or ShutdownTimeout has passed.
ShutdownTimeout ==
  /\ Expired
  /\ Returns("error")
  /\ UNCHANGED <<vars, listener, signals, inShutdown, request>>

Exit ==
  /\ Go("return", "exited")
  /\ UNCHANGED <<status, listener, signals, inShutdown, request>>

Main ==
  \/ LoadConfig \/ openDB \/ openRedis \/ GoHub \/ GoListen \/ Notify
  \/ SelectError \/ SelectSignal \/ HubCancel
  \/ Shutdown \/ ShutdownDone \/ ShutdownWait \/ ShutdownTimeout \/ Exit
-----------------------------------------------------------------------------
Alive == main # "exited"

\* Until signal.Notify a SIGINT or SIGTERM ends the process; from then on it
\* goes into a channel, from which run takes only the first.
Signal ==
  /\ IF main \in {"load", "openDB", "openRedis", "goHub", "goListen", "notify"}
     THEN main' = "exited" /\ status' = "killed" /\ UNCHANGED signals
     ELSE Alive /\ signals' = TRUE /\ UNCHANGED <<main, status>>
  /\ UNCHANGED <<vars, listener, inShutdown, request>>

\* ListenAndServe returns ErrServerClosed if Shutdown came first.
Listens == ~inShutdown

\* It binds the address, or fails, then or later.
Listen ==
  /\ Alive
  /\ \/ /\ listener = "starting"
        /\ listener' = IF Listens THEN "serving" ELSE "closed"
     \/ /\ listener = "serving" \/ (listener = "starting" /\ ~inShutdown)
        /\ listener' = "failed"
  /\ UNCHANGED <<vars, main, status, signals, inShutdown, request>>
-----------------------------------------------------------------------------
(* Requests.  In each of these main and the listener stand still.           *)

Handled(r, state) ==
  /\ Alive
  /\ request' = [request EXCEPT ![r] = state]
  /\ UNCHANGED <<main, status, listener, signals, inShutdown>>

Accept(r) ==
  /\ listener = "serving"
  /\ request[r] = "none"
  /\ Handled(r, "active")
  /\ UNCHANGED vars

\* The upgrade of a websocket takes the connection away from http.Server.
Upgrade(c) ==
  /\ request[c] = "active"
  /\ Connect(c)
  /\ Handled(c, "hijacked")

\* A post is created and handed to the hub; its answer follows.
CreatePost(m) ==
  /\ request[m] = "active"
  /\ Broadcast(m)
  /\ Handled(m, "active")

\* A post is answered, or an upgrade that has failed.  (A request without a
\* post does not reach the hub.)
Respond(r) ==
  /\ request[r] = "active"
  /\ r \in Conns \cup created
  /\ Handled(r, "answered")
  /\ UNCHANGED vars

\* A step of the hub's goroutine, or of a pump.
HubStep(A) ==
  /\ Alive
  /\ A
  /\ UNCHANGED mainVars

\* Run executes from the go statement on.
HubRun(A) ==
  /\ main \notin {"load", "openDB", "openRedis", "goHub"}
  /\ HubStep(A)

ServerNext ==
  \/ Main \/ Signal \/ Listen
  \/ \E r \in Requests : Accept(r) \/ Respond(r)
  \/ \E m \in Msgs : CreatePost(m)
  \/ \E c \in Conns : Upgrade(c)
  \/ HubRun(Run)
  \/ \E c \in Conns : HubStep(Register(c) \/ Start(c) \/ PeerLost(c) \/ Pump(c))

ServerSpec == ServerInit /\ [][ServerNext]_serverVars

(***************************************************************************)
(* Fairness: the statements of run follow each other and its deadline       *)
(* passes.  Nothing is assumed of requests, of clients or of the hub.       *)
(***************************************************************************)
ServerFairSpec == ServerSpec /\ WF_serverVars(Main)
-----------------------------------------------------------------------------
ServerTypeOK ==
  /\ TypeOK
  /\ main \in {"load", "openDB", "openRedis", "goHub", "goListen", "notify", "select",
               "hubCancel", "close", "poll", "wait", "return", "exited"}
  /\ status \in {"none", "ok", "error", "killed"}
  /\ status = "none" <=> main \notin {"return", "exited"}
  /\ listener \in {"none", "starting", "serving", "failed", "closed"}
  /\ signals \in BOOLEAN
  /\ inShutdown \in BOOLEAN
  /\ request \in [Requests -> {"none", "active", "hijacked", "answered"}]

(***************************************************************************)
(* A process that ends with status 0 has cut off no request: none was       *)
(* accepted after Shutdown had looked for the last time, not even when the  *)
(* signal comes before the goroutine of the listener has run, and the hub   *)
(* was told to stop.                                                        *)
(***************************************************************************)
CleanExit == main = "exited" /\ status = "ok" => Active = {} /\ ctxDone

(***************************************************************************)
(* A signal that run has been told of ends the process, and so does a       *)
(* listener that fails, whatever requests, clients and the hub do: a        *)
(* request that is never answered costs no more than the deadline.          *)
(***************************************************************************)
ServerStops == signals \/ listener = "failed" ~> ~Alive
=============================================================================
