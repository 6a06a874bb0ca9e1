------------------------------ MODULE ApiServer ------------------------------
(***************************************************************************)
(* The control API's life (internal/api/server.go, cmd/api): Start builds  *)
(* the TLS configuration, binds the optional plaintext metrics listener,   *)
(* serves over mTLS from a goroutine and waits for a signal or for the     *)
(* listener to fail; after a signal it drains for a limited time.  The     *)
(* deferred calls then stop the metrics listener and close the Redis       *)
(* client.  The requests that can outlast the drain are the event streams  *)
(* of EventFeed: Shutdown waits for their handlers but does not cancel     *)
(* their contexts.                                                         *)
(***************************************************************************)
EXTENDS EventFeed

VARIABLES
  spc,       \* where Start is
  tls,       \* the TLS configuration has been built
  mtls,      \* the mTLS server: its goroutine and its socket
  metrics,   \* the metrics server: its goroutine and its socket
  errCh,     \* what ListenAndServeTLS has sent
  shut,      \* servers that Shutdown has been called on
  signalled, \* SIGTERM or SIGINT has arrived
  err        \* what Start returns

startVars == <<spc, tls, mtls, metrics, errCh, shut, signalled, err>>
apiVars == <<startVars, feedVars>>

StartSteps == {"tls", "metrics", "listen", "select", "drain", "defer", "returned", "closed"}

Sockets == {"off", "started", "bound", "serving", "closed"}

ApiTypeOK ==
  /\ FeedTypeOK
  /\ spc \in StartSteps
  /\ tls \in BOOLEAN
  /\ mtls \in Sockets
  /\ metrics \in Sockets
  /\ errCh \in {"", "bind", "accept", "ErrServerClosed"}
  /\ shut \subseteq {"mtls", "metrics"}
  /\ signalled \in BOOLEAN
  /\ err \in {"", "tls", "bind", "accept", "deadline", "ErrServerClosed"}

ApiInit ==
  /\ FeedInit
  /\ spc = "tls"
  /\ tls = FALSE
  /\ mtls = "off" /\ metrics = "off"
  /\ errCh = "" /\ shut = {} /\ signalled = FALSE /\ err = ""

(* Start returns e, its deferred calls still to run. *)
Leave(e) == spc' = "defer" /\ err' = e

------------------------------------------------------------------------------
(* Mutant: without certificates the server goes on all the same. *)
buildTLSConfig_FallsBack ==
  /\ spc = "tls"
  /\ spc' = "metrics"
  /\ tls' \in BOOLEAN
  /\ UNCHANGED <<mtls, metrics, errCh, shut, signalled, err, feedVars>>

buildTLSConfig ==
  /\ spc = "tls"
  /\ \/ tls' = TRUE /\ spc' = "metrics" /\ UNCHANGED err
     \/ Leave("tls") /\ UNCHANGED tls
  /\ UNCHANGED <<mtls, metrics, errCh, shut, signalled, feedVars>>

(* Off, bound with its goroutine started, or a bind that fails. *)
startMetricsListener ==
  /\ spc = "metrics"
  /\ \/ spc' = "listen" /\ metrics' \in {"off", "bound"} /\ UNCHANGED err
     \/ Leave("bind") /\ UNCHANGED metrics
  /\ UNCHANGED <<tls, mtls, errCh, shut, signalled, feedVars>>

(* The goroutine of ListenAndServeTLS is started. *)
Listen ==
  /\ spc = "listen"
  /\ spc' = "select"
  /\ mtls' = "started"
  /\ UNCHANGED <<tls, metrics, errCh, shut, signalled, err, feedVars>>

(* net/http: a server on which Shutdown has been called does not bind, and *)
(* closes a socket it has not begun to serve.                              *)
BindMTLS ==
  /\ mtls = "started"
  /\ \/ "mtls" \notin shut /\ mtls' = "bound" /\ UNCHANGED errCh
     \/ "mtls" \notin shut /\ mtls' = "closed" /\ errCh' = "bind"
     \/ "mtls" \in shut /\ mtls' = "closed" /\ errCh' = "ErrServerClosed"
  /\ UNCHANGED <<spc, tls, metrics, shut, signalled, err, feedVars>>

ServeMTLS ==
  /\ mtls = "bound"
  /\ IF "mtls" \in shut
     THEN mtls' = "closed" /\ errCh' = "ErrServerClosed"
     ELSE mtls' = "serving" /\ UNCHANGED errCh
  /\ UNCHANGED <<spc, tls, metrics, shut, signalled, err, feedVars>>

AcceptFails ==
  /\ mtls = "serving"
  /\ mtls' = "closed"
  /\ errCh' = "accept"
  /\ UNCHANGED <<spc, tls, metrics, shut, signalled, err, feedVars>>

ServeMetrics ==
  /\ metrics = "bound"
  /\ metrics' = IF "metrics" \in shut THEN "closed" ELSE "serving"
  /\ UNCHANGED <<spc, tls, mtls, errCh, shut, signalled, err, feedVars>>

(* Logged by its goroutine, and nothing else. *)
MetricsAcceptFails ==
  /\ metrics = "serving"
  /\ metrics' = "closed"
  /\ UNCHANGED <<spc, tls, mtls, errCh, shut, signalled, err, feedVars>>

Signal ==
  /\ ~signalled
  /\ signalled' = TRUE
  /\ UNCHANGED <<spc, tls, mtls, metrics, errCh, shut, err, feedVars>>

(* Shutdown stops the listeners being served. *)
Stopped(socket) == IF socket = "serving" THEN "closed" ELSE socket

(* ctx.Done in Start's select. *)
Drain ==
  /\ spc = "select"
  /\ signalled
  /\ spc' = "drain"
  /\ shut' = shut \cup {"mtls"}
  /\ mtls' = Stopped(mtls)
  /\ errCh' = IF mtls = "serving" THEN "ErrServerClosed" ELSE errCh
  /\ UNCHANGED <<tls, metrics, signalled, err, feedVars>>

Busy == {c \in Clients : hpc[c] \notin {"none", "done"}}

(* Mutant: Start returns what the serving goroutine returned. *)
Drained_ReturnsServeErr ==
  /\ spc = "drain"
  /\ Busy = {}
  /\ errCh # ""
  /\ Leave(errCh)
  /\ UNCHANGED <<tls, mtls, metrics, errCh, shut, signalled, feedVars>>

Drained ==
  /\ spc = "drain"
  /\ Busy = {}
  /\ Leave("")
  /\ UNCHANGED <<tls, mtls, metrics, errCh, shut, signalled, feedVars>>

(* Mutant: the drain has no deadline. *)
DrainTimesOut_Never ==
  /\ spc = "drain"
  /\ Busy = {}
  /\ Leave("")
  /\ UNCHANGED <<tls, mtls, metrics, errCh, shut, signalled, feedVars>>

(* shutCtx expires while a connection is busy. *)
DrainTimesOut ==
  /\ spc = "drain"
  /\ Busy # {}
  /\ Leave("deadline")
  /\ UNCHANGED <<tls, mtls, metrics, errCh, shut, signalled, feedVars>>

(* errCh in Start's select. *)
ServeReturns ==
  /\ spc = "select"
  /\ errCh # ""
  /\ Leave(IF errCh = "ErrServerClosed" THEN "" ELSE errCh)
  /\ UNCHANGED <<tls, mtls, metrics, errCh, shut, signalled, feedVars>>

(* Mutant: the metrics listener is stopped on the signal path only. *)
Deferred_OnSignal ==
  /\ spc = "defer"
  /\ spc' = "returned"
  /\ IF metrics = "off" \/ "mtls" \notin shut
     THEN UNCHANGED <<shut, metrics>>
     ELSE shut' = shut \cup {"metrics"} /\ metrics' = Stopped(metrics)
  /\ UNCHANGED <<tls, mtls, errCh, signalled, err, feedVars>>

(* The deferred Shutdown of the metrics listener, on every return. *)
Deferred ==
  /\ spc = "defer"
  /\ spc' = "returned"
  /\ IF metrics = "off"
     THEN UNCHANGED <<shut, metrics>>
     ELSE shut' = shut \cup {"metrics"} /\ metrics' = Stopped(metrics)
  /\ UNCHANGED <<tls, mtls, errCh, signalled, err, feedVars>>

(* run's deferred bus.Close. *)
CloseBus ==
  /\ spc = "returned"
  /\ spc' = "closed"
  /\ BusCloses
  /\ UNCHANGED <<tls, mtls, metrics, errCh, shut, signalled, err>>

------------------------------------------------------------------------------
StartStep ==
  \/ buildTLSConfig \/ startMetricsListener \/ Listen
  \/ Drain \/ Drained \/ DrainTimesOut \/ ServeReturns
  \/ Deferred \/ CloseBus

ServerStep == BindMTLS \/ ServeMTLS \/ ServeMetrics

(* Requests arrive while the mTLS server is serving. *)
ApiNext ==
  \/ StartStep \/ ServerStep \/ AcceptFails \/ MetricsAcceptFails \/ Signal
  \/ \E c \in Clients : mtls = "serving" /\ Connect(c) /\ UNCHANGED startVars
  \/ (PublisherNext \/ \E c \in Clients : StreamStep(c)) /\ UNCHANGED startVars

ApiSpec == ApiInit /\ [][ApiNext]_apiVars

(* The process is scheduled and its timers fire; a listener need not fail, *)
(* a signal need not come, and clients owe the server nothing: they may    *)
(* stay connected and stop reading for ever.                               *)
ApiFairness ==
  /\ WF_apiVars(StartStep)
  /\ WF_apiVars(BindMTLS) /\ WF_apiVars(ServeMTLS) /\ WF_apiVars(ServeMetrics)

FairApi == ApiSpec /\ ApiFairness

------------------------------------------------------------------------------
Open(socket) == socket \in {"bound", "serving"}

(* "no plaintext fallback (fail-closed)" (server.go, Start): no socket is  *)
(* open and no request is served before the TLS configuration stands.      *)
NothingBeforeTLS ==
  Open(mtls) \/ Open(metrics) \/ Busy # {} => tls

(* Start returns an error only when it could not start or go on serving,   *)
(* or when a client was still connected at the end of the drain: a signal  *)
(* alone, at any moment of the start-up, gives a clean return.             *)
QuietStopIsClean ==
  spc \in {"returned", "closed"} /\ err # "" =>
    \/ err = "tls" /\ ~tls
    \/ err \in {"bind", "accept"} /\ "mtls" \notin shut
    \/ err = "deadline" /\ signalled /\ \E c \in Clients : hpc[c] # "none"

(* A signal ends Start, whatever the clients do: the drain is limited. *)
SignalEndsStart == signalled ~> spc = "closed"

(* "the extra listener never outlives the server (no goroutine/socket      *)
(* leak)" (server.go, Start), and neither does the mTLS one: once Start    *)
(* has returned, both sockets are closed for good.                         *)
ListenersReleased == spc = "returned" ~> [](~Open(mtls) /\ ~Open(metrics))

==============================================================================
